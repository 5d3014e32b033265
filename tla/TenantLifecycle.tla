--------------------------- MODULE TenantLifecycle ---------------------------
(***************************************************************************)
(* One organization: its provisioning, its lifecycle, and the owners it    *)
(* keeps while users are switched off and on                               *)
(* (src/organizations/organizations.service.ts, src/users/users.service.ts,*)
(* src/organization-memberships/organization-memberships.service.ts).      *)
(*                                                                         *)
(* provision and transition run SERIALIZABLE and take an advisory lock in  *)
(* their first statement, so all they read is as old as that statement,    *)
(* however long they waited; a write of a row that changed since fails.    *)
(* Users are switched off and on in READ COMMITTED transactions that write *)
(* the row of the organization they belong to.                             *)
(***************************************************************************)
EXTENDS Naturals, FiniteSets

CONSTANTS Users,
          Locals,  \* the users whose organization this is
          Admins, NoUser

ASSUME TenantAssumption == Locals \subseteq Users /\ NoUser \notin Users

VARIABLES status, onboarding,  \* Organization
          userOn,              \* User.isActive
          member,              \* the memberships of the organization
          admin                \* the calls of provision and transition

tenantVars == <<status, onboarding, userOn, member, admin>>

OrgStatuses == {"PENDING_SETUP", "ACTIVE", "SUSPENDED", "ARCHIVED"}
Onboardings == {"NOT_STARTED", "READY", "FAILED"}
Memberships == [state : {"NONE", "ACTIVE", "SUSPENDED"}, owner : BOOLEAN]

\* What a call has read: moved is whether the row of the organization was
\* written since, left whether an owner from elsewhere was switched off.
Calls == [step : {"idle", "open", "failed"}, target : OrgStatuses, owner : Users \cup {NoUser},
          status : OrgStatuses, ready : BOOLEAN, owned : BOOLEAN, usable : BOOLEAN,
          moved : BOOLEAN, left : BOOLEAN]
NoCall == [step |-> "idle", target |-> "PENDING_SETUP", owner |-> NoUser,
           status |-> "PENDING_SETUP", ready |-> FALSE, owned |-> FALSE, usable |-> FALSE,
           moved |-> FALSE, left |-> FALSE]

TenantTypeOK ==
  /\ status \in OrgStatuses /\ onboarding \in Onboardings
  /\ userOn \in [Users -> BOOLEAN]
  /\ member \in [Users -> Memberships]
  /\ admin \in [Admins -> Calls]

TenantInit ==
  /\ status = "PENDING_SETUP" /\ onboarding = "NOT_STARTED"
  /\ userOn = [u \in Users |-> TRUE]
  /\ member = [u \in Users |->
       [state |-> IF u \in Locals THEN "ACTIVE" ELSE "NONE", owner |-> FALSE]]
  /\ admin = [a \in Admins |-> NoCall]

ActiveOwners == {u \in Users : member[u].state = "ACTIVE" /\ member[u].owner /\ userOn[u]}

-----------------------------------------------------------------------------
(* provision and transition                                                *)

\* The first statement: what it and all the others read
OpenCall(a, target, owner) ==
  /\ admin[a].step = "idle"
  /\ admin' = [admin EXCEPT ![a] =
       [NoCall EXCEPT !.step = "open", !.target = target, !.owner = owner, !.status = status,
                      !.ready = target = "ACTIVE" /\ onboarding = "READY",
                      !.owned = target = "ACTIVE" /\ ActiveOwners # {},
                      !.usable = owner # NoUser /\ userOn[owner]]]
  /\ UNCHANGED <<status, onboarding, userOn, member>>

OpenProvision(a)  == \E u \in Users : OpenCall(a, "PENDING_SETUP", u)
OpenTransition(a) == \E t \in {"ACTIVE", "SUSPENDED", "ARCHIVED"} : OpenCall(a, t, NoUser)

\* The row of the organization is written, by a when it is a call.
RowWritten(A) ==
  admin' = [a \in Admins |-> IF a \in A THEN NoCall
                             ELSE IF admin[a].step = "open" THEN [admin[a] EXCEPT !.moved = TRUE]
                             ELSE admin[a]]

\* Mutant: READ COMMITTED, where a row that changed is written all the same.
SerializedNever(a) == admin[a].step = "open"

\* A row that changed since the first statement cannot be written.
Serialized(a) == admin[a].step = "open" /\ ~admin[a].moved

Provision(a) ==
  LET u == admin[a].owner IN
  /\ Serialized(a) /\ u \in Users
  /\ admin[a].status = "PENDING_SETUP" /\ admin[a].usable
  /\ onboarding' = "READY"
  /\ member' = [member EXCEPT ![u] = [state |-> "ACTIVE", owner |-> TRUE]]
  /\ RowWritten({a})
  /\ UNCHANGED <<status, userOn>>

\* Refused, not serializable, or any other error: the transaction is rolled back.
ProvisionFails(a) ==
  /\ admin[a].step = "open" /\ admin[a].owner \in Users
  /\ admin' = [admin EXCEPT ![a] = [NoCall EXCEPT !.step = "failed"]]
  /\ UNCHANGED <<status, onboarding, userOn, member>>

\* Mutant: the failure is recorded whatever the organization is.
RecordableAlways == TRUE

\* recordProvisioningFailure: of a pending organization only
Recordable == status = "PENDING_SETUP"

AfterFailure == "FAILED"

RecordProvisioningFailure(a) ==
  /\ admin[a].step = "failed"
  /\ IF Recordable THEN onboarding' = AfterFailure /\ RowWritten({a})
     ELSE UNCHANGED onboarding /\ admin' = [admin EXCEPT ![a] = NoCall]
  /\ UNCHANGED <<status, userOn, member>>

\* LIFECYCLE_TRANSITIONS
OrganizationMoves == {<<"PENDING_SETUP", "ACTIVE">>, <<"PENDING_SETUP", "ARCHIVED">>,
                   <<"ACTIVE", "SUSPENDED">>, <<"ACTIVE", "ARCHIVED">>,
                   <<"SUSPENDED", "ACTIVE">>, <<"SUSPENDED", "ARCHIVED">>}

\* assertActivationReady
ActivationReady(a) == admin[a].ready /\ admin[a].owned

TransitionTenant(a) ==
  LET target == admin[a].target IN
  /\ Serialized(a) /\ admin[a].owner = NoUser
  /\ <<admin[a].status, target>> \in OrganizationMoves
  /\ target = "ACTIVE" => ActivationReady(a)
  /\ status' = target
  /\ RowWritten({a})
  /\ UNCHANGED <<onboarding, userOn, member>>

\* Refused, nothing to change, a failed serialization, or the process stops
DropCall(a) ==
  /\ admin[a].step # "idle"
  /\ admin' = [admin EXCEPT ![a] = NoCall]
  /\ UNCHANGED <<status, onboarding, userOn, member>>

-----------------------------------------------------------------------------
(* Users                                                                   *)

\* assertOwnerCanBeDeactivated: it looks for the owner among the users that
\* are on, after the same transaction switched this one off.
OwnerCanBeDeactivated(u, on) ==
  LET owners == {o \in Users : member[o].state = "ACTIVE" /\ member[o].owner /\ on[o]}
  IN  u \in owners => Cardinality(owners) > 1

Deactivate(u) ==
  LET off == [userOn EXCEPT ![u] = FALSE] IN
  /\ u \in Locals
  /\ userOn' = off
  /\ OwnerCanBeDeactivated(u, off)
  /\ member' = [member EXCEPT ![u].state = IF @ = "ACTIVE" THEN "SUSPENDED" ELSE @]
  /\ RowWritten({})
  /\ UNCHANGED <<status, onboarding>>

Activate(u) ==
  /\ u \in Locals /\ ~userOn[u]
  /\ userOn' = [userOn EXCEPT ![u] = TRUE]
  /\ member' = [member EXCEPT ![u].state = "ACTIVE"]
  /\ RowWritten({})
  /\ UNCHANGED <<status, onboarding>>

\* deactivate and activate of another organization, which owns the user: its
\* own row is written, and its own membership changed.
SwitchElsewhere(u) ==
  /\ u \notin Locals
  /\ userOn' = [userOn EXCEPT ![u] = ~@]
  /\ admin' = [a \in Admins |-> IF admin[a].target = "ACTIVE" /\ u \in ActiveOwners
                                  THEN [admin[a] EXCEPT !.left = TRUE] ELSE admin[a]]
  /\ UNCHANGED <<status, onboarding, member>>

TenantNext ==
  \/ \E a \in Admins : \/ OpenProvision(a) \/ Provision(a) \/ ProvisionFails(a)
                       \/ RecordProvisioningFailure(a)
                       \/ OpenTransition(a) \/ TransitionTenant(a) \/ DropCall(a)
  \/ \E u \in Users : Deactivate(u) \/ Activate(u) \/ SwitchElsewhere(u)

TenantSpec == TenantInit /\ [][TenantNext]_tenantVars

-----------------------------------------------------------------------------
(* Properties                                                              *)

\* What serves tenants is ready: the failure of a second provisioning, which
\* undoes READY while the organization is pending, never does so beside or
\* after an activation (organizations.service.ts:283, :236).
ServingIsReady == status \in {"ACTIVE", "SUSPENDED"} => onboarding = "READY"

\* The status follows the lifecycle whatever calls overlap: they check what
\* they read before they waited for the lock, and the row refuses the second
\* (organizations.service.ts:222, :232).
TenantLifecycleKept ==
  [][status' # status => <<status, status'>> \in OrganizationMoves]_tenantVars

\* Status and onboarding of an organization agree, whatever calls overlap.
TenantInv == TenantTypeOK /\ ServingIsReady

\* At the instant of an activation an owner is there, although owners are
\* switched off in transactions the check does not see: theirs write the row
\* the activation writes.  An owner another organization switches off in
\* between is the exception (organizations.service.ts:239).
ActivatedWithOwner ==
  [][status # "ACTIVE" /\ status' = "ACTIVE" =>
       ActiveOwners' # {} \/ \E a \in Admins : admin[a].left /\ admin'[a] = NoCall]_tenantVars

\* The lifecycle of an organization, whatever calls overlap.
TenantSteps == TenantLifecycleKept /\ ActivatedWithOwner

\* "The last active tenant owner cannot be deactivated"
\* (organization-memberships.service.ts:247): switching a user off takes the
\* last owner from no organization it belongs to.
LastOwnerStays ==
  [][\A u \in Locals : userOn[u] /\ ~userOn'[u] /\ u \in ActiveOwners =>
       ActiveOwners' # {}]_tenantVars
=============================================================================
