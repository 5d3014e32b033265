-------------------------- MODULE BackOffice_proofs --------------------------
(***************************************************************************)
(* What holds of the smaller parts of the back office for any callers,     *)
(* keys and interleavings: the confirmations of the assistant, the versions*)
(* of a template, the lifecycle of an organization, entitlements, and the  *)
(* keys under which linked records are created.  Each part has an          *)
(* inductive invariant, which says what a call between two of its steps    *)
(* may rely on.                                                            *)
(***************************************************************************)
EXTENDS AssistantActions, Entitlements, LinkedCreation, NotificationTemplates, TenantLifecycle,
        FiniteSetTheorems, TLAPS

-----------------------------------------------------------------------------
(* Assistant actions                                                       *)

Confirming(c) == confirm[c].step # "idle"

\* A call past its claim is the only one of its token, and knows how far the
\* creation under the token has come.
ClaimHeld ==
  /\ \A c \in Confirmations : ~Confirming(c) => confirm[c].token = NoToken
  /\ \A c \in Confirmations : Confirming(c) =>
       /\ confirm[c].token \in Tokens
       /\ execution[confirm[c].token] = "EXECUTING"
       /\ confirm[c].step = "claimed" => created[confirm[c].token] = 0
       /\ confirm[c].step = "created" => created[confirm[c].token] = 1
  /\ \A c, d \in Confirmations :
       Confirming(c) /\ Confirming(d) /\ confirm[c].token = confirm[d].token => c = d

\* What the row of a token says of the entity under it.
RowsTruthful ==
  \A t \in Tokens :
    /\ created[t] \in {0, 1}
    /\ execution[t] = "NONE" => created[t] = 0
    /\ t \in informed => execution[t] = "SUCCEEDED"

AssistantIInv ==
  /\ AssistantInv
  /\ ClaimHeld
  /\ RowsTruthful

\* Nothing has happened yet.
LEMMA AssistantInitInv == AssistantInit => AssistantIInv
<1> USE DEF AssistantInit, IdleConfirm
<1>1. AssistantInit => AssistantTypeOK
  BY DEF AssistantTypeOK
<1>2. AssistantInit => SucceededCreated /\ UnsettledOnlyByHarm
  BY DEF SucceededCreated, UnsettledOnlyByHarm
<1>3. AssistantInit => ClaimHeld /\ RowsTruthful
  BY DEF ClaimHeld, RowsTruthful, Confirming
<1>4. QED
  BY <1>1, <1>2, <1>3 DEF AssistantIInv, AssistantInv

\* Every step of a call, and the time that passes, keep the invariant.
LEMMA AssistantStep ==
  AssistantIInv /\ [AssistantNext]_assistantVars => AssistantIInv'
<1> SUFFICES ASSUME AssistantIInv, [AssistantNext]_assistantVars PROVE AssistantIInv'
  OBVIOUS
<1> USE AssistantAssumption
          DEF AssistantIInv, AssistantInv, AssistantTypeOK, SucceededCreated,
              UnsettledOnlyByHarm, ClaimHeld, RowsTruthful, Confirming
<1>1. CASE ExpireToken
  BY <1>1 DEF ExpireToken
<1>2. ASSUME NEW c \in Confirmations, Claim(c) PROVE AssistantIInv'
  <2>1. PICK t \in Tokens \ expired :
          /\ execution[t] = "NONE"
          /\ execution' = [execution EXCEPT ![t] = "EXECUTING"]
          /\ confirm' = [confirm EXCEPT ![c] = [step |-> "claimed", token |-> t]]
    BY <1>2 DEF Claim, Claimable
  <2>2. UNCHANGED <<created, informed, expired, harmed>> /\ ~Confirming(c)
    BY <1>2 DEF Claim
  <2>3. AssistantTypeOK'
    BY <2>1, <2>2
  <2>4. ClaimHeld'
    BY <2>1, <2>2
  <2>5. SucceededCreated' /\ RowsTruthful'
    BY <2>1, <2>2
  <2>6. UnsettledOnlyByHarm'
    BY <2>1, <2>2
  <2>7. QED
    BY <2>3, <2>4, <2>5, <2>6
<1>3. ASSUME NEW c \in Confirmations, Replay(c) PROVE AssistantIInv'
  BY <1>3 DEF Replay
<1>4. ASSUME NEW c \in Confirmations, CreateEntity(c) PROVE AssistantIInv'
  BY <1>4 DEF CreateEntity, Reached, Proceed
<1>5. ASSUME NEW c \in Confirmations, CreateThrows(c) PROVE AssistantIInv'
  BY <1>5 DEF CreateThrows, Reached, Proceed
<1>6. ASSUME NEW c \in Confirmations, PersistSuccess(c) PROVE AssistantIInv'
  BY <1>6 DEF PersistSuccess, Persistable, Reached, Finish, IdleConfirm
<1>7. ASSUME NEW c \in Confirmations, PersistFails(c) PROVE AssistantIInv'
  BY <1>7 DEF PersistFails, Reached, Proceed
<1>8. ASSUME NEW c \in Confirmations, MarkForReconciliation(c) PROVE AssistantIInv'
  BY <1>8 DEF MarkForReconciliation, Mark, Reached, Finish, IdleConfirm
<1>9. ASSUME NEW c \in Confirmations, StopConfirm(c) PROVE AssistantIInv'
  BY <1>9 DEF StopConfirm, Finish, IdleConfirm
<1>10. CASE UNCHANGED assistantVars
  BY <1>10 DEF assistantVars
<1>11. QED
  BY <1>1, <1>2, <1>3, <1>4, <1>5, <1>6, <1>7, <1>8, <1>9, <1>10 DEF AssistantNext

LEMMA AssistantInvariant == AssistantSpec => []AssistantIInv
BY AssistantInitInv, AssistantStep, PTL DEF AssistantSpec

\* An execution recorded as a success has its entity, and one left in
\* EXECUTING with nobody at work is the trace of a stop, for any tokens and
\* any number of confirmations at once.
THEOREM AssistantSafe == AssistantSpec => []AssistantInv
<1>1. AssistantIInv => AssistantInv
  BY DEF AssistantIInv
<1>2. QED
  BY <1>1, AssistantInvariant, PTL

\* The confirmations implement a creation that happens once per key: whatever
\* fails and however often a token is confirmed, no second entity is created
\* and nobody is told of one that is not there.
THEOREM AssistantCreatesOnce == AssistantSpec => AssistantOnce
<1>1. AssistantInit => Once!OnceInit
  BY DEF AssistantInit, Once!OnceInit
<1>2. AssistantIInv /\ [AssistantNext]_assistantVars
        => [\E k \in Tokens : Once!Make(k) \/ Once!Tell(k)]_<<created, informed>>
  <2> SUFFICES ASSUME AssistantIInv, [AssistantNext]_assistantVars,
                      ~UNCHANGED <<created, informed>>
               PROVE  \E k \in Tokens : Once!Make(k) \/ Once!Tell(k)
    OBVIOUS
  <2> USE DEF AssistantIInv, AssistantInv, AssistantTypeOK, SucceededCreated,
              ClaimHeld, RowsTruthful, Confirming, Once!Make, Once!Tell
  <2>1. ASSUME NEW c \in Confirmations, CreateEntity(c)
        PROVE  Once!Make(confirm[c].token) /\ confirm[c].token \in Tokens
    <3>1. confirm[c].token \in Tokens /\ created[confirm[c].token] = 0
      BY <2>1 DEF CreateEntity, Reached
    <3>2. created' = [created EXCEPT ![confirm[c].token] = 1] /\ UNCHANGED informed
      BY <2>1, <3>1 DEF CreateEntity
    <3>3. QED
      BY <3>1, <3>2
  <2>2. ASSUME NEW c \in Confirmations, CreateThrows(c)
        PROVE  Once!Make(confirm[c].token) /\ confirm[c].token \in Tokens
    BY <2>2 DEF CreateThrows, Reached
  <2>3. ASSUME NEW c \in Confirmations, PersistSuccess(c)
        PROVE  Once!Tell(confirm[c].token) /\ confirm[c].token \in Tokens
    BY <2>3 DEF PersistSuccess, Persistable, Reached
  <2>4. ASSUME NEW c \in Confirmations, Replay(c)
        PROVE  \E t \in Tokens : Once!Tell(t)
    BY <2>4 DEF Replay
  <2>5. CASE \E c \in Confirmations : \/ Claim(c) \/ PersistFails(c)
                                     \/ MarkForReconciliation(c) \/ StopConfirm(c)
    BY <2>5 DEF Claim, PersistFails, MarkForReconciliation, StopConfirm
  <2>6. CASE ExpireToken \/ UNCHANGED assistantVars
    BY <2>6 DEF ExpireToken, assistantVars
  <2>7. QED
    BY <2>1, <2>2, <2>3, <2>4, <2>5, <2>6 DEF AssistantNext
<1>3. QED
  BY <1>1, <1>2, AssistantInvariant, PTL
     DEF AssistantSpec, AssistantOnce, Once!OnceSpec

-----------------------------------------------------------------------------
(* Template versions                                                       *)

\* A transaction that took the others out and was not overtaken has seen all
\* that are active, and every transaction has a version to write.
EditsSound ==
  \A e \in Editors :
    /\ editor[e].step # "idle" => editor[e].version \in Versions
    /\ editor[e].step = "numbered" => ~editor[e].overtaken
    /\ editor[e].step = "cleared" /\ editor[e].activates /\ ~editor[e].overtaken
         => active \subseteq editor[e].seen

TemplatesIInv == TemplatesInv /\ EditsSound

LEMMA TemplatesInitInv == TemplatesInit => TemplatesIInv
BY TemplatesAssumption
   DEF TemplatesInit, TemplatesIInv, TemplatesInv, TemplatesTypeOK, OneActive, EditsSound,
       NoEdit, Versions

\* What a transaction may carry from one step to the next.
Edits == [step : {"idle", "numbered", "cleared"}, version : 0..MaxTemplates,
          activates : BOOLEAN, seen : SUBSET Versions, overtaken : BOOLEAN]

LEMMA EditFields ==
  /\ NoEdit \in Edits
  /\ \A t \in Edits :
       /\ [t EXCEPT !.overtaken = TRUE] \in Edits
       /\ [t EXCEPT !.overtaken = TRUE].overtaken
       /\ [t EXCEPT !.overtaken = TRUE].version = t.version
       /\ [t EXCEPT !.overtaken = TRUE].step = t.step
<1>1. NoEdit \in Edits
  BY TemplatesAssumption DEF NoEdit, Edits
<1>2. ASSUME NEW t \in Edits
      PROVE  /\ [t EXCEPT !.overtaken = TRUE] \in Edits
             /\ [t EXCEPT !.overtaken = TRUE].overtaken = TRUE
             /\ [t EXCEPT !.overtaken = TRUE].version = t.version
             /\ [t EXCEPT !.overtaken = TRUE].step = t.step
  BY DEF Edits
<1>3. QED
  BY <1>1, <1>2

\* The edits a transaction begins with.
Activation(v) == [NoEdit EXCEPT !.step = "numbered", !.version = v, !.activates = TRUE]
Draft(v)      == [NoEdit EXCEPT !.step = "cleared", !.version = v, !.activates = FALSE]

LEMMA EditBegun ==
  \A v \in 0..MaxTemplates :
    /\ Activation(v) \in Edits /\ Draft(v) \in Edits
    /\ Activation(v).version = v /\ Draft(v).version = v
    /\ Activation(v).step = "numbered" /\ ~Activation(v).overtaken
    /\ Draft(v).step = "cleared" /\ ~Draft(v).activates
BY DEF Activation, Draft, NoEdit, Edits

LEMMA EditsTyped ==
  /\ TemplatesTypeOK <=> /\ latest \in 0..MaxTemplates
                         /\ active \subseteq 1..latest /\ late \subseteq active
                         /\ editor \in [Editors -> Edits]
  /\ TemplatesTypeOK' <=> /\ latest' \in 0..MaxTemplates
                          /\ active' \subseteq 1..latest' /\ late' \subseteq active'
                          /\ editor' \in [Editors -> Edits]
BY DEF TemplatesTypeOK, Edits

\* An editor that goes on alone.
LEMMA EditStep ==
  ASSUME TemplatesIInv, NEW e \in Editors, NEW t \in Edits,
         editor' = [editor EXCEPT ![e] = t], UNCHANGED <<latest, active, late>>,
         t.step # "idle" => t.version \in Versions,
         t.step = "numbered" => ~t.overtaken,
         t.step = "cleared" /\ t.activates /\ ~t.overtaken => active \subseteq t.seen
  PROVE  TemplatesIInv'
<1>1. TemplatesTypeOK'
  BY EditsTyped DEF TemplatesIInv, TemplatesInv
<1>2. OneActive'
  BY DEF TemplatesIInv, TemplatesInv, OneActive
<1>3. EditsSound'
  BY EditsTyped DEF TemplatesIInv, TemplatesInv, EditsSound
<1>4. QED
  BY <1>1, <1>2, <1>3 DEF TemplatesIInv, TemplatesInv

\* What an editor writes when it commits.
LEMMA CommitKeeps ==
  ASSUME TemplatesIInv, NEW e \in Editors, CommitTemplate(e)
  PROVE  TemplatesIInv'
<1> USE TemplatesAssumption
        DEF TemplatesIInv, TemplatesInv, TemplatesTypeOK, OneActive, EditsSound, Versions
<1> DEFINE t == editor[e]
           on == IF t.activates THEN {t.version} ELSE {}
<1>1. /\ t.step = "cleared" /\ t.version \in 1..MaxTemplates
      /\ t.version <= latest \/ t.version = latest + 1
  BY DEF CommitTemplate, FreeNumber
<1>2. /\ active' = (active \ t.seen) \cup on
      /\ late' = ((late \ t.seen) \ on) \cup (IF t.overtaken THEN on ELSE {})
      /\ latest' = IF t.version > latest THEN t.version ELSE latest
  BY DEF CommitTemplate
<1>3. latest' \in 0..MaxTemplates /\ active' \subseteq 1..latest' /\ late' \subseteq active'
  <2>1. latest' \in 0..MaxTemplates /\ latest <= latest' /\ t.version <= latest'
    BY <1>1, <1>2
  <2>2. active \subseteq 1..latest' /\ on \subseteq 1..latest'
    BY <1>1, <2>1
  <2>3. active' \subseteq 1..latest' /\ late' \subseteq active'
    BY <1>2, <2>2
  <2>4. QED
    BY <2>1, <2>3
<1>4. OneActive'
  <2>1. CASE t.activates /\ ~t.overtaken
    BY <1>1, <1>2, <2>1
  <2>2. CASE ~(t.activates /\ ~t.overtaken)
    BY <1>2, <2>2
  <2>3. QED
    BY <2>1, <2>2
<1>5. /\ editor' \in [Editors -> Edits]
      /\ \A o \in Editors :
           /\ editor'[o].step # "idle" => editor'[o].version \in Versions
           /\ editor'[o].step = "numbered" => ~editor'[o].overtaken
           /\ editor'[o].step = "cleared" => editor'[o].overtaken
  <2>1. editor' = [o \in Editors |->
                     IF o = e THEN NoEdit
                     ELSE IF editor[o].step = "cleared" THEN [editor[o] EXCEPT !.overtaken = TRUE]
                     ELSE editor[o]]
    BY DEF CommitTemplate, Overtake
  <2>2. editor' \in [Editors -> Edits]
    BY <2>1, EditFields, EditsTyped
  <2>3. ASSUME NEW o \in Editors
        PROVE  /\ editor'[o].step # "idle" => editor'[o].version \in Versions
               /\ editor'[o].step = "numbered" => ~editor'[o].overtaken
               /\ editor'[o].step = "cleared" => editor'[o].overtaken
    <3>1. CASE o = e
      BY <2>1, <3>1 DEF NoEdit
    <3>2. CASE o # e /\ editor[o].step = "cleared"
      BY <2>1, <3>2, EditFields, EditsTyped
    <3>3. CASE o # e /\ editor[o].step # "cleared"
      BY <2>1, <3>3
    <3>4. QED
      BY <3>1, <3>2, <3>3
  <2>4. QED
    BY <2>2, <2>3
<1>6. QED
  BY <1>3, <1>4, <1>5, EditsTyped

LEMMA TemplatesStep ==
  TemplatesIInv /\ [TemplatesNext]_templateVars => TemplatesIInv'
<1> SUFFICES ASSUME TemplatesIInv, [TemplatesNext]_templateVars PROVE TemplatesIInv'
  OBVIOUS
<1> USE TemplatesAssumption
        DEF TemplatesIInv, TemplatesInv, TemplatesTypeOK, OneActive, EditsSound, Versions
<1>1. ASSUME NEW e \in Editors, NumberTemplate(e) PROVE TemplatesIInv'
  <2> DEFINE n == latest + 1
  <2>1. /\ editor' = [editor EXCEPT ![e] = Activation(n)] \/ editor' = [editor EXCEPT ![e] = Draft(n)]
        /\ UNCHANGED <<latest, active, late>>
    BY <1>1 DEF NumberTemplate, NextNumber, Activation, Draft
  <2>2. n \in 1..MaxTemplates /\ n \in 0..MaxTemplates
    BY <1>1 DEF NumberTemplate
  <2> HIDE DEF n
  <2>3. CASE editor' = [editor EXCEPT ![e] = Activation(n)]
    <3>1. /\ Activation(n) \in Edits /\ Activation(n).version \in Versions
          /\ Activation(n).step = "numbered" /\ ~Activation(n).overtaken
      BY <2>2, EditBegun
    <3>2. QED
      BY <2>1, <2>3, <3>1, EditStep
  <2>4. CASE editor' = [editor EXCEPT ![e] = Draft(n)]
    <3>1. /\ Draft(n) \in Edits /\ Draft(n).version \in Versions
          /\ Draft(n).step = "cleared" /\ ~Draft(n).activates
      BY <2>2, EditBegun
    <3>2. QED
      BY <2>1, <2>4, <3>1, EditStep
  <2>5. QED
    BY <2>1, <2>3, <2>4
<1>2. ASSUME NEW e \in Editors, ChooseTemplate(e) PROVE TemplatesIInv'
  <2>1. PICK v \in 1..latest : editor' = [editor EXCEPT ![e] = Activation(v)]
    BY <1>2 DEF ChooseTemplate, Activation
  <2>2. UNCHANGED <<latest, active, late>>
    BY <1>2 DEF ChooseTemplate
  <2>3. v \in 1..MaxTemplates /\ v \in 0..MaxTemplates
    OBVIOUS
  <2>4. /\ Activation(v) \in Edits /\ Activation(v).version \in Versions
        /\ Activation(v).step = "numbered" /\ ~Activation(v).overtaken
    BY <2>3, EditBegun
  <2>5. QED
    BY <2>1, <2>2, <2>4, EditStep
<1>3. ASSUME NEW e \in Editors, ClearActive(e) PROVE TemplatesIInv'
  <2> DEFINE t == [editor[e] EXCEPT !.step = "cleared", !.seen = active]
  <2>1. editor' = [editor EXCEPT ![e] = t] /\ UNCHANGED <<latest, active, late>>
    BY <1>3, EditsTyped DEF ClearActive, SeenActive
  <2>2. active \subseteq Versions
    OBVIOUS
  <2>3. t \in Edits /\ t.step = "cleared" /\ t.seen = active /\ t.version \in Versions
    BY ZenonT(40), <1>3, <2>2, EditsTyped DEF Edits, ClearActive
  <2>4. QED
    BY <2>1, <2>3, EditStep
<1>4. ASSUME NEW e \in Editors, CommitTemplate(e) PROVE TemplatesIInv'
  BY <1>4, CommitKeeps
<1>5. ASSUME NEW e \in Editors, DropEdit(e) PROVE TemplatesIInv'
  BY <1>5 DEF DropEdit, NoEdit
<1>6. ASSUME NEW v \in Versions, RemoveTemplate(v) PROVE TemplatesIInv'
  BY <1>6 DEF RemoveTemplate
<1>7. CASE UNCHANGED templateVars
  BY <1>7 DEF templateVars
<1>8. QED
  BY <1>1, <1>2, <1>3, <1>4, <1>5, <1>6, <1>7 DEF TemplatesNext

\* One version of a template is active, for any number of editors and versions,
\* but for what was made active by a transaction another one overtook.
THEOREM TemplatesSafe == TemplatesSpec => []TemplatesInv
<1>1. TemplatesIInv => TemplatesInv
  BY DEF TemplatesIInv
<1>2. QED
  BY <1>1, TemplatesInitInv, TemplatesStep, PTL DEF TemplatesSpec

-----------------------------------------------------------------------------
(* The lifecycle of an organization                                        *)

\* A call whose organization was not written since its first statement reads
\* what is still true.
ReadingsHold ==
  \A a \in Admins : Serialized(a) =>
    /\ admin[a].status = status
    /\ admin[a].ready => onboarding = "READY"
    /\ admin[a].owned => /\ admin[a].target = "ACTIVE"
                         /\ ActiveOwners # {} \/ admin[a].left

TenantIInv == TenantInv /\ ReadingsHold

LEMMA TenantInitInv == TenantInit => TenantIInv
BY TenantAssumption
   DEF TenantInit, TenantIInv, TenantInv, TenantTypeOK, ServingIsReady, ReadingsHold,
       Serialized, NoCall, Calls, OrgStatuses, Onboardings, Memberships

LEMMA CallFields ==
  /\ NoCall \in Calls /\ NoCall.step = "idle"
  /\ \A call \in Calls : [call EXCEPT !.moved = TRUE] \in Calls
  /\ \A call \in Calls : [call EXCEPT !.left = TRUE] \in Calls
BY DEF NoCall, Calls, OrgStatuses

\* When the row is written, no other call can rely on its reading any more.
LEMMA RowWrittenStops ==
  ASSUME TenantTypeOK, NEW A, RowWritten(A)
  PROVE  /\ admin' \in [Admins -> Calls]
         /\ \A a \in Admins : ~Serialized(a)'
<1>1. /\ admin' = [a \in Admins |->
                     IF a \in A THEN NoCall
                     ELSE IF admin[a].step = "open" THEN [admin[a] EXCEPT !.moved = TRUE]
                     ELSE admin[a]]
      /\ admin \in [Admins -> Calls]
  BY DEF RowWritten, TenantTypeOK
<1>2. admin' \in [Admins -> Calls]
  BY <1>1, CallFields
<1>3. ASSUME NEW a \in Admins PROVE ~Serialized(a)'
  BY <1>1, CallFields DEF Serialized, Calls
<1>4. QED
  BY <1>2, <1>3

LEMMA TenantStep == TenantIInv /\ [TenantNext]_tenantVars => TenantIInv'
<1> SUFFICES ASSUME TenantIInv, [TenantNext]_tenantVars PROVE TenantIInv'
  OBVIOUS
<1> USE TenantAssumption DEF TenantIInv, TenantInv
<1>0. TenantTypeOK /\ ServingIsReady /\ ReadingsHold
  OBVIOUS
<1>1. ASSUME NEW a \in Admins, NEW t \in OrgStatuses, NEW o \in Users \cup {NoUser},
             OpenCall(a, t, o)
      PROVE  TenantIInv'
  <2>1. /\ UNCHANGED <<status, onboarding, userOn, member>>
        /\ admin' = [admin EXCEPT ![a] =
             [NoCall EXCEPT !.step = "open", !.target = t, !.owner = o, !.status = status,
                      !.ready = t = "ACTIVE" /\ onboarding = "READY",
                      !.owned = t = "ACTIVE" /\ ActiveOwners # {},
                      !.usable = o # NoUser /\ userOn[o]]]
    BY <1>1 DEF OpenCall
  <2>2. TenantTypeOK' /\ ServingIsReady'
    BY ZenonT(40), <2>1 DEF TenantTypeOK, ServingIsReady, Calls, NoCall, OrgStatuses
  <2>3. ActiveOwners' = ActiveOwners
    BY <2>1 DEF ActiveOwners
  <2>4. ReadingsHold'
    BY <2>1, <2>3 DEF ReadingsHold, Serialized, TenantTypeOK, NoCall
  <2>5. QED
    BY <2>2, <2>4
<1>2. ASSUME NEW a \in Admins, Provision(a) PROVE TenantIInv'
  <2>1. ServingIsReady' /\ RowWritten({a})
    BY <1>2 DEF Provision, ServingIsReady
  <2>2. TenantTypeOK'
    BY <1>2, <2>1, RowWrittenStops DEF Provision, TenantTypeOK, Onboardings, Memberships
  <2>3. QED
    BY <2>1, <2>2, RowWrittenStops DEF ReadingsHold
<1>3. ASSUME NEW a \in Admins, NEW call \in Calls, call.step # "open",
             admin' = [admin EXCEPT ![a] = call],
             UNCHANGED <<status, onboarding, userOn, member>>
      PROVE  TenantIInv'
  <2>1. ActiveOwners' = ActiveOwners
    BY <1>3 DEF ActiveOwners
  <2>2. QED
    BY <1>3, <2>1 DEF TenantTypeOK, ServingIsReady, ReadingsHold, Serialized
<1>4. ASSUME NEW a \in Admins, RecordProvisioningFailure(a) PROVE TenantIInv'
  <2>1. CASE Recordable
    <3>1. ServingIsReady' /\ RowWritten({a})
      BY <1>4, <2>1 DEF RecordProvisioningFailure, Recordable, ServingIsReady
    <3>2. TenantTypeOK'
      BY <1>4, <2>1, <3>1, RowWrittenStops
         DEF RecordProvisioningFailure, TenantTypeOK, Onboardings, AfterFailure
    <3>3. QED
      BY <3>1, <3>2, RowWrittenStops DEF ReadingsHold
  <2>2. CASE ~Recordable
    BY <1>3, <1>4, <2>2, CallFields DEF RecordProvisioningFailure
  <2>3. QED
    BY <2>1, <2>2
<1>5. ASSUME NEW a \in Admins, TransitionTenant(a) PROVE TenantIInv'
  <2>1. /\ status' = admin[a].target /\ status' \in OrgStatuses
        /\ <<status, status'>> \in OrganizationMoves
        /\ status' = "ACTIVE" => onboarding = "READY"
        /\ RowWritten({a}) /\ UNCHANGED <<onboarding, userOn, member>>
    BY <1>5
       DEF TransitionTenant, ReadingsHold, ActivationReady, TenantTypeOK, Calls
  <2>2. ServingIsReady'
    BY <2>1 DEF ServingIsReady, OrganizationMoves
  <2>3. QED
    BY <2>1, <2>2, RowWrittenStops DEF ReadingsHold, TenantTypeOK
<1>6. ASSUME NEW u \in Users, Deactivate(u) \/ Activate(u) PROVE TenantIInv'
  <2>1. RowWritten({}) /\ UNCHANGED <<status, onboarding>>
    BY <1>6 DEF Deactivate, Activate
  <2>2. admin' \in [Admins -> Calls] /\ userOn' \in [Users -> BOOLEAN]
    BY <1>6, <2>1, RowWrittenStops DEF Deactivate, Activate, TenantTypeOK
  <2>3. PICK s \in {"ACTIVE", "SUSPENDED", member[u].state} :
          member' = [member EXCEPT ![u].state = s]
    BY <1>6 DEF Deactivate, Activate, TenantTypeOK
  <2>4. member' \in [Users -> Memberships]
    BY <2>3 DEF TenantTypeOK, Memberships
  <2>5. TenantTypeOK'
    BY <2>1, <2>2, <2>4 DEF TenantTypeOK
  <2>6. QED
    BY <2>1, <2>5, RowWrittenStops DEF ReadingsHold, ServingIsReady
<1>7. ASSUME NEW u \in Users, SwitchElsewhere(u) PROVE TenantIInv'
  <2>1. /\ UNCHANGED <<status, onboarding, member>>
        /\ userOn' = [userOn EXCEPT ![u] = ~@]
        /\ admin' = [a \in Admins |-> IF admin[a].target = "ACTIVE" /\ u \in ActiveOwners
                                        THEN [admin[a] EXCEPT !.left = TRUE] ELSE admin[a]]
    BY <1>7 DEF SwitchElsewhere
  <2>2. TenantTypeOK' /\ ServingIsReady'
    BY <2>1, CallFields DEF TenantTypeOK, ServingIsReady
  <2>3. u \notin ActiveOwners => ActiveOwners \subseteq ActiveOwners'
    BY <2>1 DEF ActiveOwners, TenantTypeOK
  <2>4. ReadingsHold'
    BY <2>1, <2>3 DEF ReadingsHold, Serialized, TenantTypeOK, Calls
  <2>5. QED
    BY <2>2, <2>4
<1>8. CASE UNCHANGED tenantVars
  BY <1>8 DEF tenantVars, TenantTypeOK, ServingIsReady, ReadingsHold, Serialized, ActiveOwners
<1>9. ASSUME NEW a \in Admins, ProvisionFails(a) PROVE TenantIInv'
  <2>1. [NoCall EXCEPT !.step = "failed"] \in Calls
    BY DEF NoCall, Calls, OrgStatuses
  <2>2. QED
    BY <1>3, <1>9, <2>1 DEF ProvisionFails, NoCall
<1>10. ASSUME NEW a \in Admins, DropCall(a) PROVE TenantIInv'
  BY <1>3, <1>10, CallFields DEF DropCall
<1>11. ASSUME NEW a \in Admins, OpenProvision(a) \/ OpenTransition(a) PROVE TenantIInv'
  BY <1>1, <1>11 DEF OpenProvision, OpenTransition, OrgStatuses
<1>12. QED
  BY <1>2, <1>4, <1>5, <1>6, <1>7, <1>8, <1>9, <1>10, <1>11 DEF TenantNext

LEMMA TenantInvariant == TenantSpec => []TenantIInv
BY TenantInitInv, TenantStep, PTL DEF TenantSpec

\* What serves tenants is ready, for any users and any provisionings,
\* transitions and failures at once.
THEOREM TenantSafe == TenantSpec => []TenantInv
<1>1. TenantIInv => TenantInv
  BY DEF TenantIInv
<1>2. QED
  BY <1>1, TenantInvariant, PTL

\* The lifecycle is followed and an organization is activated with an owner,
\* whatever calls and switches of users overlap.
THEOREM TenantStepsKept == TenantSpec => TenantSteps
<1> DEFINE Moved == status' # status => <<status, status'>> \in OrganizationMoves
           Owned == status # "ACTIVE" /\ status' = "ACTIVE" =>
                      \/ ActiveOwners' # {}
                      \/ \E a \in Admins : admin[a].left /\ admin'[a] = NoCall
<1>1. TenantIInv /\ [TenantNext]_tenantVars => Moved /\ Owned
  <2> SUFFICES ASSUME TenantIInv, [TenantNext]_tenantVars PROVE Moved /\ Owned
    OBVIOUS
  <2>1. ASSUME NEW a \in Admins, TransitionTenant(a) PROVE Moved /\ Owned
    <3>1. /\ <<status, status'>> \in OrganizationMoves
          /\ status' = "ACTIVE" => ActiveOwners # {} \/ admin[a].left
          /\ UNCHANGED <<userOn, member>>
      BY <2>1 DEF TransitionTenant, TenantIInv, ReadingsHold, ActivationReady
    <3>2. admin'[a] = NoCall
      BY <2>1 DEF TransitionTenant, RowWritten
    <3>3. ActiveOwners' = ActiveOwners
      BY <3>1 DEF ActiveOwners
    <3>4. QED
      BY <3>1, <3>2, <3>3
  <2>2. CASE UNCHANGED status
    BY <2>2
  <2>3. CASE \A a \in Admins : ~TransitionTenant(a)
    BY <2>2, <2>3
       DEF TenantNext, OpenProvision, OpenTransition, OpenCall, Provision, ProvisionFails,
           RecordProvisioningFailure, DropCall, Deactivate, Activate, SwitchElsewhere,
           tenantVars
  <2>4. QED
    BY <2>1, <2>3
<1>2. QED
  BY <1>1, TenantInvariant, PTL
     DEF TenantSpec, TenantSteps, TenantLifecycleKept, ActivatedWithOwner


(***************************************************************************)
(* Entitlements: the cache.                                                *)
(***************************************************************************)
Resolutions == [step : {"idle", "versioned", "subscribed"}, version : 1..MaxVersion,
                now : 0..LastHour, row : Subscriptions, plan : PlanStates]

\* What the answer depends on besides the hour, and what follows the answer.
CurrentPlan == OnPlan(CurrentRow)

\* A resolution that has read the subscription under the version that still
\* stands has read what stands.
ResolutionsCurrent ==
  \A r \in Resolvers :
    LET c == resolver[r] IN
    c.step # "idle" =>
      /\ c.version <= version /\ c.now <= hour
      /\ c.step = "subscribed" /\ c.version = version =>
           c.row = CurrentRow /\ (overlooked \/ c.plan = CurrentPlan)

\* A change of a plan knows whether a standing subscription has the plan,
\* unless a subscription was written meanwhile.
ChangeKnows ==
  change.plan # NoPlan /\ ~change.overlap =>
    (change.reaches <=> \E s \in StandingSubs : sub[s].plan = change.plan)

\* A valid answer is valid until the next hour that changes it.
UntilNextChange ==
  cache[version].found /\ hour < cache[version].until =>
    cache[version].until = ValidUntil(CurrentRow, hour)

NothingAhead == \A v \in 1..MaxVersion : v > version => ~cache[v].found

EntitlementsIInv ==
  EntitlementsInv /\ ResolutionsCurrent /\ ChangeKnows /\ NothingAhead /\ UntilNextChange

\* Between two hours that nothing the row says separates, the answer is the same.
LEMMA AnswerLasts ==
  ASSUME NEW row \in Subscriptions, NEW on, NEW over, NEW history,
         NEW now \in 0..LastHour, NEW later \in 0..LastHour, now <= later,
         later < ValidUntil(row, now)
  PROVE  /\ Enabled(row, on, over, history, now) <=> Enabled(row, on, over, history, later)
         /\ ValidUntil(row, now) = ValidUntil(row, later)
<1>1. row.term \in Terms /\ row.term[1] \in Hours /\ row.term[2] \in Hours /\ row.term[1] < row.term[2]
  BY DEF Subscriptions, Terms
<1>2. LastHour \in Nat
  BY EntitlementsAssumption
<1>3. row.status = "ACTIVE" =>
        (row.term[1] <= now /\ now < row.term[2] <=> row.term[1] <= later /\ later < row.term[2])
  BY <1>1, <1>2 DEF ValidUntil, Hours
<1>4. ValidUntil(row, now) = ValidUntil(row, later)
  BY <1>1, <1>2 DEF ValidUntil, Hours
<1>5. QED
  BY <1>3, <1>4 DEF Enabled

LEMMA NoSubscriptionType == NoSubscription \in Subscriptions
BY EntitlementsAssumption DEF NoSubscription, Subscriptions, Statuses, Terms, Hours

LEMMA CurrentRowType ==
  ASSUME sub \in [Subs -> Subscriptions]
  PROVE  /\ CurrentRow \in Subscriptions
         /\ CurrentRow.plan \in Plans => \E s \in StandingSubs : sub[s].plan = CurrentRow.plan
<1>1. CASE StandingSubs = {}
  BY <1>1, NoSubscriptionType, EntitlementsAssumption DEF CurrentRow, NoSubscription
<1>2. CASE StandingSubs # {}
  <2>1. CurrentRow = sub[CHOOSE s \in StandingSubs : TRUE]
    BY <1>2 DEF CurrentRow
  <2>2. (CHOOSE s \in StandingSubs : TRUE) \in StandingSubs
    BY <1>2
  <2>3. StandingSubs \subseteq Subs
    BY DEF StandingSubs
  <2>4. QED
    BY <2>1, <2>2, <2>3
<1>3. QED
  BY <1>1, <1>2

\* The current row is of the subscriptions only.
LEMMA RowKept ==
  ASSUME UNCHANGED sub
  PROVE  CurrentRow' = CurrentRow /\ StandingSubs' = StandingSubs /\ History' = History
BY DEF CurrentRow, StandingSubs, History

LEMMA EntitlementFacts ==
  ASSUME EntitlementsIInv
  PROVE  /\ hour \in 0..LastHour /\ plan \in [Plans -> PlanStates]
         /\ sub \in [Subs -> Subscriptions] /\ override \in {"NONE", "ENABLED", "DISABLED"}
         /\ version \in 1..MaxVersion /\ cache \in [1..MaxVersion -> Answers]
         /\ resolver \in [Resolvers -> Resolutions]
         /\ mover \in [Movers -> [sub : Subs \cup {NoSub}, seen : Statuses]]
         /\ change \in [plan : Plans \cup {NoPlan}, to : PlanStates, reaches : BOOLEAN,
                        overlap : BOOLEAN]
         /\ overlooked \in BOOLEAN /\ LastHour \in Nat /\ MaxVersion \in Nat
BY EntitlementsAssumption DEF EntitlementsIInv, EntitlementsInv, EntitlementsTypeOK, Resolutions

LEMMA IdleResolverType ==
  IdleResolver \in Resolutions /\ IdleResolver.step = "idle"
BY NoSubscriptionType, EntitlementsAssumption DEF IdleResolver, Resolutions, PlanStates

LEMMA EntitlementsInitInv == EntitlementsInit => EntitlementsIInv
<1> SUFFICES ASSUME EntitlementsInit PROVE EntitlementsIInv
  OBVIOUS
<1>1. /\ hour = 0 /\ version = 1 /\ override = "NONE" /\ plan = [p \in Plans |-> "ON"]
      /\ sub = [s \in Subs |-> NoSubscription]
      /\ cache = [v \in 1..MaxVersion |-> NoAnswer]
      /\ resolver = [r \in Resolvers |-> IdleResolver]
      /\ mover = [m \in Movers |-> IdleMover] /\ change = NoChange /\ overlooked = FALSE
  BY DEF EntitlementsInit
<1>2. EntitlementsTypeOK
  <2>1. hour \in 0..LastHour /\ version \in 1..MaxVersion
    BY <1>1, EntitlementsAssumption
  <2>2. plan \in [Plans -> PlanStates] /\ sub \in [Subs -> Subscriptions]
    BY <1>1, NoSubscriptionType DEF PlanStates
  <2>3. NoAnswer \in Answers
    BY EntitlementsAssumption DEF NoAnswer, Answers, Hours
  <2>4. cache \in [1..MaxVersion -> Answers]
    BY <1>1, <2>3
  <2>5. resolver \in [Resolvers -> Resolutions]
    BY <1>1, IdleResolverType
  <2>6. mover \in [Movers -> [sub : Subs \cup {NoSub}, seen : Statuses]]
    BY <1>1 DEF IdleMover, Statuses
  <2>7. change \in [plan : Plans \cup {NoPlan}, to : PlanStates, reaches : BOOLEAN,
                    overlap : BOOLEAN]
    BY <1>1 DEF NoChange, PlanStates
  <2>8. QED
    BY <1>1, <2>1, <2>2, <2>4, <2>5, <2>6, <2>7 DEF EntitlementsTypeOK, Resolutions
<1>3. \A v \in 1..MaxVersion : cache[v].found = FALSE
  BY <1>1 DEF NoAnswer
<1>4. CachedIsTrue /\ NothingAhead /\ UntilNextChange
  BY <1>1, <1>2, <1>3 DEF CachedIsTrue, NothingAhead, UntilNextChange, EntitlementsTypeOK
<1>5. OneCurrent
  BY <1>1 DEF OneCurrent, StandingSubs, NoSubscription, Standing
<1>6. ResolutionsCurrent
  BY <1>1, IdleResolverType DEF ResolutionsCurrent
<1>7. ChangeKnows
  BY <1>1 DEF ChangeKnows, NoChange
<1>8. QED
  BY <1>2, <1>4, <1>5, <1>6, <1>7 DEF EntitlementsIInv, EntitlementsInv

(***************************************************************************)
(* Resolutions.                                                            *)
(***************************************************************************)
\* One resolution moves, and nothing it reads.
LEMMA ResolverMoves ==
  ASSUME EntitlementsIInv, NEW r \in Resolvers, NEW next \in Resolutions,
         resolver' = [resolver EXCEPT ![r] = next],
         next.step # "idle" =>
           /\ next.version <= version /\ next.now <= hour
           /\ next.step = "subscribed" /\ next.version = version =>
                next.row = CurrentRow /\ (overlooked \/ next.plan = CurrentPlan),
         UNCHANGED <<hour, plan, sub, override, version, mover, change, overlooked>>
  PROVE  /\ resolver' \in [Resolvers -> Resolutions] /\ ResolutionsCurrent'
         /\ ChangeKnows' /\ OneCurrent'
         /\ CurrentRow' = CurrentRow /\ CurrentPlan' = CurrentPlan /\ History' = History
<1>1. /\ CurrentRow' = CurrentRow /\ CurrentPlan' = CurrentPlan /\ History' = History
      /\ StandingSubs' = StandingSubs
  BY RowKept DEF CurrentPlan, OnPlan
<1>2. /\ resolver' \in [Resolvers -> Resolutions] /\ resolver'[r] = next
      /\ \A q \in Resolvers \ {r} : resolver'[q] = resolver[q]
  BY EntitlementFacts
<1>3. ResolutionsCurrent'
  <2> SUFFICES ASSUME NEW q \in Resolvers, resolver'[q].step # "idle"
               PROVE  /\ resolver'[q].version <= version /\ resolver'[q].now <= hour
                      /\ resolver'[q].step = "subscribed" /\ resolver'[q].version = version =>
                           /\ resolver'[q].row = CurrentRow
                           /\ overlooked \/ resolver'[q].plan = CurrentPlan
    BY <1>1 DEF ResolutionsCurrent
  <2>1. CASE q = r
    BY <1>2, <2>1
  <2>2. CASE q # r
    BY <1>2, <2>2 DEF EntitlementsIInv, ResolutionsCurrent
  <2>3. QED
    BY <2>1, <2>2
<1>4. ChangeKnows' /\ OneCurrent'
  BY <1>1 DEF EntitlementsIInv, EntitlementsInv, ChangeKnows, OneCurrent
<1>5. QED
  BY <1>1, <1>2, <1>3, <1>4

LEMMA CacheKept ==
  ASSUME EntitlementsIInv, UNCHANGED <<hour, override, version, cache, overlooked>>,
         CurrentRow' = CurrentRow, CurrentPlan' = CurrentPlan, History' = History
  PROVE  CachedIsTrue' /\ UntilNextChange' /\ NothingAhead'
<1>1. CachedIsTrue /\ UntilNextChange /\ NothingAhead
  BY DEF EntitlementsIInv, EntitlementsInv
<1>2. OnPlan(CurrentRow)' = OnPlan(CurrentRow)
  BY DEF CurrentPlan
<1>3. QED
  BY <1>1, <1>2 DEF CachedIsTrue, UntilNextChange, NothingAhead

LEMMA ReadSteps ==
  ASSUME EntitlementsIInv, NEW r \in Resolvers, ReadVersion(r) \/ ReadSubscription(r)
  PROVE  EntitlementsIInv'
<1>1. UNCHANGED <<hour, plan, sub, override, version, cache, mover, change, overlooked>>
  BY DEF ReadVersion, ReadSubscription
<1>2. \E next \in Resolutions :
        /\ resolver' = [resolver EXCEPT ![r] = next]
        /\ next.version <= version /\ next.now <= hour
        /\ next.step = "subscribed" =>
             next.row = CurrentRow /\ next.plan = CurrentPlan
  <2>1. CASE ReadVersion(r)
    <3> DEFINE next == [IdleResolver EXCEPT !.step = "versioned", !.version = version, !.now = hour]
    <3>1. next \in Resolutions /\ next.step = "versioned" /\ next.version = version /\ next.now = hour
      BY EntitlementFacts, IdleResolverType DEF IdleResolver, Resolutions
    <3>2. resolver' = [resolver EXCEPT ![r] = next]
      BY <2>1 DEF ReadVersion
    <3> HIDE DEF next
    <3>3. next.version <= version /\ next.now <= hour
      BY <3>1, EntitlementFacts
    <3>4. QED
      BY <3>1, <3>2, <3>3
  <2>2. CASE ReadSubscription(r)
    <3> DEFINE next == [resolver[r] EXCEPT !.step = "subscribed", !.row = CurrentRow,
                                           !.plan = CurrentPlan]
    <3>1. resolver[r] \in Resolutions /\ CurrentRow \in Subscriptions
      BY EntitlementFacts, CurrentRowType
    <3>2. CurrentPlan \in PlanStates
      <4>1. CurrentRow.plan \in Plans \cup {NoPlan}
        BY <3>1 DEF Subscriptions
      <4>2. QED
        BY <4>1, EntitlementFacts DEF CurrentPlan, OnPlan, PlanStates
    <3>3. /\ next \in Resolutions /\ next.version = resolver[r].version
          /\ next.now = resolver[r].now /\ next.row = CurrentRow /\ next.plan = CurrentPlan
      BY <3>1, <3>2 DEF Resolutions
    <3>4. resolver' = [resolver EXCEPT ![r] = next]
      BY <2>2 DEF ReadSubscription, CurrentPlan
    <3> HIDE DEF next
    <3>5. resolver[r].version <= version /\ resolver[r].now <= hour
      BY <2>2 DEF ReadSubscription, EntitlementsIInv, ResolutionsCurrent
    <3>6. QED
      BY <3>3, <3>4, <3>5
  <2>3. QED
    BY <2>1, <2>2
<1>3. /\ resolver' \in [Resolvers -> Resolutions] /\ ResolutionsCurrent'
      /\ ChangeKnows' /\ OneCurrent'
      /\ CurrentRow' = CurrentRow /\ CurrentPlan' = CurrentPlan /\ History' = History
  BY <1>1, <1>2, ResolverMoves
<1>4. CachedIsTrue' /\ UntilNextChange' /\ NothingAhead'
  BY <1>1, <1>3, CacheKept
<1>5. EntitlementsTypeOK'
  BY <1>1, <1>3, EntitlementFacts DEF EntitlementsTypeOK, Resolutions
<1>6. QED
  BY <1>3, <1>4, <1>5 DEF EntitlementsIInv, EntitlementsInv

LEMMA AnswerStep ==
  ASSUME EntitlementsIInv, NEW r \in Resolvers, Answer(r)
  PROVE  EntitlementsIInv'
<1> DEFINE c == resolver[r]
           e == [found |-> TRUE, enabled |-> Enabled(c.row, c.plan, override, History, c.now),
                 until |-> ValidUntil(c.row, c.now)]
<1>1. /\ c.step = "subscribed" /\ cache' = [cache EXCEPT ![c.version] = e]
      /\ resolver' = [resolver EXCEPT ![r] = IdleResolver]
      /\ UNCHANGED <<hour, plan, sub, override, version, mover, change, overlooked>>
  BY DEF Answer
<1>2. /\ c \in Resolutions /\ c.version <= version /\ c.now <= hour
      /\ c.version = version => c.row = CurrentRow /\ (overlooked \/ c.plan = CurrentPlan)
  BY <1>1, EntitlementFacts DEF EntitlementsIInv, ResolutionsCurrent
<1>3. /\ c.version \in 1..MaxVersion /\ c.now \in 0..LastHour /\ c.row \in Subscriptions
  BY <1>2 DEF Resolutions
<1>4. ValidUntil(c.row, c.now) \in Hours
  BY <1>3, EntitlementFacts DEF ValidUntil, Hours, Subscriptions, Terms
<1>5. Enabled(c.row, c.plan, override, History, c.now) \in BOOLEAN
  BY DEF Enabled
<1>6. /\ e \in Answers /\ e.until = ValidUntil(c.row, c.now)
      /\ e.enabled = Enabled(c.row, c.plan, override, History, c.now)
  BY <1>4, <1>5 DEF Answers
<1> HIDE DEF e
<1>7. /\ cache' \in [1..MaxVersion -> Answers] /\ cache'[c.version] = e
      /\ \A v \in (1..MaxVersion) \ {c.version} : cache'[v] = cache[v]
  BY <1>1, <1>3, <1>6, EntitlementFacts
<1>8. /\ resolver' \in [Resolvers -> Resolutions] /\ ResolutionsCurrent'
      /\ ChangeKnows' /\ OneCurrent'
      /\ CurrentRow' = CurrentRow /\ CurrentPlan' = CurrentPlan /\ History' = History
  BY <1>1, IdleResolverType, ResolverMoves
<1>9. EntitlementsTypeOK'
  BY <1>1, <1>7, <1>8, EntitlementFacts DEF EntitlementsTypeOK, Resolutions
<1>10. NothingAhead'
  BY <1>1, <1>2, <1>3, <1>7, EntitlementFacts DEF EntitlementsIInv, NothingAhead
<1>11. hour \in 0..LastHour /\ version \in 1..MaxVersion
  BY EntitlementFacts
<1>12. OnPlan(CurrentRow)' = CurrentPlan /\ OnPlan(CurrentRow) = CurrentPlan
  BY <1>8 DEF CurrentPlan
<1>13. CASE c.version = version
  <2>1. ASSUME hour < e.until
        PROVE  /\ e.until = ValidUntil(CurrentRow, hour)
               /\ ~overlooked =>
                    e.enabled = Enabled(CurrentRow, CurrentPlan, override, History, hour)
    <3>1. hour < ValidUntil(c.row, c.now) /\ c.now <= hour
      BY <1>2, <1>6, <2>1
    <3>2. /\ Enabled(c.row, c.plan, override, History, c.now)
              <=> Enabled(c.row, c.plan, override, History, hour)
          /\ ValidUntil(c.row, c.now) = ValidUntil(c.row, hour)
      BY <1>3, <1>11, <3>1, AnswerLasts
    <3>3. Enabled(c.row, c.plan, override, History, hour) \in BOOLEAN
      BY DEF Enabled
    <3>4. e.enabled = Enabled(c.row, c.plan, override, History, hour)
      BY <1>5, <1>6, <3>2, <3>3
    <3>5. QED
      BY <1>2, <1>6, <1>13, <3>2, <3>4
  <2>2. cache'[version'] = e
    BY <1>1, <1>7, <1>13
  <2>3. CachedIsTrue' /\ UntilNextChange'
    BY <1>1, <1>8, <1>12, <2>1, <2>2 DEF CachedIsTrue, UntilNextChange
  <2>4. QED
    BY <1>8, <1>9, <1>10, <2>3 DEF EntitlementsIInv, EntitlementsInv
<1>14. CASE c.version # version
  <2>1. cache'[version'] = cache[version]
    BY <1>1, <1>7, <1>11, <1>14
  <2>2. CachedIsTrue' /\ UntilNextChange'
    BY <1>1, <1>8, <1>12, <2>1 DEF EntitlementsIInv, EntitlementsInv, CachedIsTrue, UntilNextChange
  <2>3. QED
    BY <1>8, <1>9, <1>10, <2>2 DEF EntitlementsIInv, EntitlementsInv
<1>15. QED
  BY <1>13, <1>14

LEMMA ForgetStep ==
  ASSUME EntitlementsIInv, Forget
  PROVE  EntitlementsIInv'
<1>1. PICK v \in 1..MaxVersion : cache' = [cache EXCEPT ![v] = NoAnswer]
  BY DEF Forget
<1>2. UNCHANGED <<hour, plan, sub, override, version, resolver, mover, change, overlooked>>
  BY DEF Forget
<1>3. NoAnswer \in Answers /\ NoAnswer.found = FALSE
  BY EntitlementFacts DEF NoAnswer, Answers, Hours
<1>4. /\ cache' \in [1..MaxVersion -> Answers]
      /\ \A w \in 1..MaxVersion : cache'[w].found = FALSE \/ cache'[w] = cache[w]
  BY <1>1, <1>3, EntitlementFacts
<1>5. /\ CurrentRow' = CurrentRow /\ CurrentPlan' = CurrentPlan /\ History' = History
      /\ StandingSubs' = StandingSubs
  BY <1>2, RowKept DEF CurrentPlan, OnPlan
<1>6. OnPlan(CurrentRow)' = OnPlan(CurrentRow)
  BY <1>5 DEF CurrentPlan
<1>7. version \in 1..MaxVersion
  BY EntitlementFacts
<1>8. CachedIsTrue' /\ UntilNextChange' /\ NothingAhead'
  BY <1>2, <1>4, <1>5, <1>6, <1>7
     DEF EntitlementsIInv, EntitlementsInv, CachedIsTrue, UntilNextChange, NothingAhead
<1>9. ResolutionsCurrent' /\ ChangeKnows' /\ OneCurrent'
  BY <1>2, <1>5 DEF EntitlementsIInv, EntitlementsInv, ResolutionsCurrent, ChangeKnows, OneCurrent
<1>10. EntitlementsTypeOK'
  BY <1>2, <1>4, EntitlementFacts DEF EntitlementsTypeOK, Resolutions
<1>11. QED
  BY <1>8, <1>9, <1>10 DEF EntitlementsIInv, EntitlementsInv

(***************************************************************************)
(* Changes.                                                                *)
(***************************************************************************)
\* Nothing is cached, and nothing resolved, under a new version.
LEMMA Bumped ==
  ASSUME EntitlementsIInv, BumpVersion, UNCHANGED <<hour, cache, resolver>>
  PROVE  /\ CachedIsTrue' /\ UntilNextChange' /\ NothingAhead' /\ ResolutionsCurrent'
         /\ version' \in 1..MaxVersion /\ overlooked' = FALSE
<1>1. /\ version \in 1..MaxVersion /\ version' = version + 1 /\ version' \in 1..MaxVersion
      /\ overlooked' = FALSE
  BY EntitlementFacts DEF BumpVersion
<1>2. \A v \in 1..MaxVersion : v > version => ~cache[v].found
  BY DEF EntitlementsIInv, NothingAhead
<1>3. ~cache'[version'].found
  BY <1>1, <1>2
<1>4. NothingAhead'
  BY <1>1, <1>2 DEF NothingAhead
<1>5. CachedIsTrue' /\ UntilNextChange'
  BY <1>3 DEF CachedIsTrue, UntilNextChange
<1>6. \A r \in Resolvers : resolver[r].version \in 1..MaxVersion
  BY EntitlementFacts DEF Resolutions
<1>7. ResolutionsCurrent'
  <2>1. ASSUME NEW r \in Resolvers, resolver[r].step # "idle"
        PROVE  /\ resolver[r].version <= version' /\ resolver[r].version # version'
               /\ resolver[r].now <= hour
    <3>1. resolver[r].version <= version /\ resolver[r].now <= hour
      BY <2>1 DEF EntitlementsIInv, ResolutionsCurrent
    <3>2. QED
      BY <1>1, <1>6, <3>1
  <2>2. QED
    BY <2>1 DEF ResolutionsCurrent
<1>8. QED
  BY <1>1, <1>4, <1>5, <1>7

LEMMA SubscriptionWritten ==
  ASSUME EntitlementsIInv, NEW s \in Subs, NEW row \in Subscriptions, WriteSub(s, row),
         mover' \in [Movers -> [sub : Subs \cup {NoSub}, seen : Statuses]]
  PROVE  EntitlementsIInv'
<1>1. /\ (row.status \in Standing => \A o \in Subs \ {s} : sub[o].status \notin Standing)
      /\ sub' = [sub EXCEPT ![s] = row] /\ BumpVersion
      /\ change' = [change EXCEPT !.overlap = @ \/ change.plan # NoPlan]
      /\ UNCHANGED <<hour, plan, override, cache, resolver>>
  BY DEF WriteSub, Room
<1>2. /\ sub' \in [Subs -> Subscriptions] /\ sub'[s] = row
      /\ \A o \in Subs \ {s} : sub'[o] = sub[o]
  BY <1>1, EntitlementFacts
<1>3. OneCurrent'
  BY <1>1, <1>2 DEF EntitlementsIInv, EntitlementsInv, OneCurrent, StandingSubs
<1> DEFINE x == change.overlap \/ change.plan # NoPlan
<1>4. x \in BOOLEAN
  OBVIOUS
<1>5. change' = [change EXCEPT !.overlap = x]
  BY <1>1
<1>6. x = FALSE => change.plan = NoPlan
  OBVIOUS
<1> HIDE DEF x
<1>7. /\ change' \in [plan : Plans \cup {NoPlan}, to : PlanStates, reaches : BOOLEAN,
                      overlap : BOOLEAN]
      /\ change'.overlap = x /\ change'.plan = change.plan
  BY <1>4, <1>5, EntitlementFacts
<1>8. ChangeKnows'
  BY <1>4, <1>6, <1>7 DEF ChangeKnows
<1>9. /\ CachedIsTrue' /\ UntilNextChange' /\ NothingAhead' /\ ResolutionsCurrent'
      /\ version' \in 1..MaxVersion /\ overlooked' = FALSE
  BY <1>1, Bumped
<1>10. EntitlementsTypeOK'
  BY <1>1, <1>2, <1>7, <1>9, EntitlementFacts DEF EntitlementsTypeOK, Resolutions
<1>11. QED
  BY <1>3, <1>8, <1>9, <1>10 DEF EntitlementsIInv, EntitlementsInv

LEMMA SubscriptionSteps ==
  ASSUME EntitlementsIInv,
         \/ \E s \in Subs : CreateSubscription(s) \/ UpdateSubscription(s)
         \/ \E m \in Movers : TransitionSubscription(m)
  PROVE  EntitlementsIInv'
<1>1. ASSUME NEW s \in Subs, CreateSubscription(s) PROVE EntitlementsIInv'
  <2>1. PICK p \in Plans, term \in Terms, st \in {"PENDING", "ACTIVE"} :
          WriteSub(s, [status |-> st, plan |-> p, term |-> term])
    BY <1>1 DEF CreateSubscription
  <2>2. [status |-> st, plan |-> p, term |-> term] \in Subscriptions
    BY DEF Subscriptions, Statuses
  <2>3. mover' \in [Movers -> [sub : Subs \cup {NoSub}, seen : Statuses]]
    BY <1>1, EntitlementFacts DEF CreateSubscription
  <2>4. QED
    BY <2>1, <2>2, <2>3, SubscriptionWritten
<1>2. ASSUME NEW s \in Subs, UpdateSubscription(s) PROVE EntitlementsIInv'
  <2>1. PICK p \in Plans, term \in Terms : WriteSub(s, [sub[s] EXCEPT !.plan = p, !.term = term])
    BY <1>2 DEF UpdateSubscription
  <2>2. sub[s] \in Subscriptions
    BY EntitlementFacts
  <2>3. [sub[s] EXCEPT !.plan = p, !.term = term] \in Subscriptions
    BY <2>2 DEF Subscriptions
  <2>4. mover' \in [Movers -> [sub : Subs \cup {NoSub}, seen : Statuses]]
    BY <1>2, EntitlementFacts DEF UpdateSubscription
  <2>5. QED
    BY <2>1, <2>3, <2>4, SubscriptionWritten
<1>3. ASSUME NEW m \in Movers, TransitionSubscription(m) PROVE EntitlementsIInv'
  <2> DEFINE s == mover[m].sub
  <2>1. s \in Subs /\ mover' = [mover EXCEPT ![m] = IdleMover]
    BY <1>3 DEF TransitionSubscription
  <2>2. PICK st \in AllowedMoves(mover[m].seen) :
          WriteSub(s, [sub[s] EXCEPT !.status = st])
    BY <1>3 DEF TransitionSubscription
  <2>3. st \in Statuses
    BY DEF AllowedMoves, Statuses
  <2>4. sub[s] \in Subscriptions
    BY <2>1, EntitlementFacts
  <2>5. [sub[s] EXCEPT !.status = st] \in Subscriptions
    BY <2>3, <2>4 DEF Subscriptions
  <2>6. mover' \in [Movers -> [sub : Subs \cup {NoSub}, seen : Statuses]]
    BY <2>1, EntitlementFacts DEF IdleMover, Statuses
  <2>7. QED
    BY <2>1, <2>2, <2>5, <2>6, SubscriptionWritten
<1>4. QED
  BY <1>1, <1>2, <1>3

\* Steps of a transition before its write, and the reading of the subscribers.
LEMMA QuietChange ==
  ASSUME EntitlementsIInv,
         UNCHANGED <<hour, plan, sub, override, version, cache, resolver, overlooked>>,
         mover' \in [Movers -> [sub : Subs \cup {NoSub}, seen : Statuses]],
         change' \in [plan : Plans \cup {NoPlan}, to : PlanStates, reaches : BOOLEAN,
                     overlap : BOOLEAN],
         \/ change' = change
         \/ change'.reaches <=> \E s \in StandingSubs : sub[s].plan = change'.plan
  PROVE  EntitlementsIInv'
<1>1. /\ CurrentRow' = CurrentRow /\ CurrentPlan' = CurrentPlan /\ History' = History
      /\ StandingSubs' = StandingSubs
  BY RowKept DEF CurrentPlan, OnPlan
<1>2. CachedIsTrue' /\ UntilNextChange' /\ NothingAhead'
  BY <1>1, CacheKept
<1>3. ResolutionsCurrent' /\ OneCurrent'
  BY <1>1 DEF EntitlementsIInv, EntitlementsInv, ResolutionsCurrent, OneCurrent
<1>4. ChangeKnows'
  BY <1>1 DEF EntitlementsIInv, ChangeKnows
<1>5. EntitlementsTypeOK'
  BY EntitlementFacts DEF EntitlementsTypeOK, Resolutions
<1>6. QED
  BY <1>2, <1>3, <1>4, <1>5 DEF EntitlementsIInv, EntitlementsInv

LEMMA QuietChanges ==
  ASSUME EntitlementsIInv,
         ReadSubscribers \/ \E m \in Movers : ReadForTransition(m) \/ DropTransition(m)
  PROVE  EntitlementsIInv'
<1>1. ASSUME NEW m \in Movers, ReadForTransition(m) PROVE EntitlementsIInv'
  <2>1. PICK s \in Subs : mover' = [mover EXCEPT ![m] = [sub |-> s, seen |-> sub[s].status]]
    BY <1>1 DEF ReadForTransition
  <2>2. sub[s] \in Subscriptions
    BY EntitlementFacts
  <2>3. sub[s].status \in Statuses
    BY <2>2 DEF Subscriptions
  <2>4. mover' \in [Movers -> [sub : Subs \cup {NoSub}, seen : Statuses]]
    BY <2>1, <2>3, EntitlementFacts
  <2>5. UNCHANGED <<hour, plan, sub, override, version, cache, resolver, change, overlooked>>
    BY <1>1 DEF ReadForTransition
  <2>6. QED
    BY <2>4, <2>5, EntitlementFacts, QuietChange
<1>2. ASSUME NEW m \in Movers, DropTransition(m) PROVE EntitlementsIInv'
  <2>1. /\ mover' = [mover EXCEPT ![m] = IdleMover]
        /\ UNCHANGED <<hour, plan, sub, override, version, cache, resolver, change, overlooked>>
    BY <1>2 DEF DropTransition
  <2>2. mover' \in [Movers -> [sub : Subs \cup {NoSub}, seen : Statuses]]
    BY <2>1, EntitlementFacts DEF IdleMover, Statuses
  <2>3. QED
    BY <2>1, <2>2, EntitlementFacts, QuietChange
<1>3. CASE ReadSubscribers
  <2>1. PICK p \in Plans, to \in PlanStates :
          change' = [plan |-> p, to |-> to, overlap |-> FALSE,
                     reaches |-> \E s \in StandingSubs : sub[s].plan = p]
    BY <1>3 DEF ReadSubscribers
  <2> DEFINE x == \E s \in StandingSubs : sub[s].plan = p
  <2>2. x \in BOOLEAN /\ change' = [plan |-> p, to |-> to, overlap |-> FALSE, reaches |-> x]
    BY <2>1
  <2> HIDE DEF x
  <2>3. /\ change' \in [plan : Plans \cup {NoPlan}, to : PlanStates, reaches : BOOLEAN,
                        overlap : BOOLEAN]
        /\ change'.plan = p /\ change'.reaches = x
    BY <2>2
  <2>4. change'.reaches <=> \E s \in StandingSubs : sub[s].plan = change'.plan
    BY <2>3 DEF x
  <2>5. UNCHANGED <<hour, plan, sub, override, version, cache, resolver, mover, overlooked>>
    BY <1>3 DEF ReadSubscribers
  <2>6. QED
    BY <2>3, <2>4, <2>5, EntitlementFacts, QuietChange
<1>4. QED
  BY <1>1, <1>2, <1>3

LEMMA PlanChangeStep ==
  ASSUME EntitlementsIInv, CommitPlanChange
  PROVE  EntitlementsIInv'
<1>1. /\ plan' = [plan EXCEPT ![change.plan] = change.to] /\ BumpOfSubscribers
      /\ change' = NoChange /\ UNCHANGED <<hour, sub, override, cache, resolver, mover>>
  BY DEF CommitPlanChange
<1>2. /\ change.plan \in Plans \cup {NoPlan} /\ change.to \in PlanStates
      /\ change.overlap \in BOOLEAN /\ change.reaches \in BOOLEAN
  BY EntitlementFacts
<1>3. /\ plan' \in [Plans -> PlanStates]
      /\ \A p \in Plans : p # change.plan => plan'[p] = plan[p]
  BY <1>1, <1>2, EntitlementFacts
<1>4. change' \in [plan : Plans \cup {NoPlan}, to : PlanStates, reaches : BOOLEAN,
                  overlap : BOOLEAN]
  BY <1>1 DEF NoChange, PlanStates
<1>5. /\ CurrentRow' = CurrentRow /\ History' = History /\ StandingSubs' = StandingSubs
  BY <1>1, RowKept
<1>6. ChangeKnows' /\ OneCurrent'
  BY <1>1, <1>5 DEF ChangeKnows, NoChange, EntitlementsIInv, EntitlementsInv, OneCurrent
<1>7. CASE change.reaches
  <2>1. /\ CachedIsTrue' /\ UntilNextChange' /\ NothingAhead' /\ ResolutionsCurrent'
        /\ version' \in 1..MaxVersion /\ overlooked' = FALSE
    BY <1>1, <1>7, Bumped DEF BumpOfSubscribers
  <2>2. EntitlementsTypeOK'
    BY <1>1, <1>3, <1>4, <2>1, EntitlementFacts DEF EntitlementsTypeOK, Resolutions
  <2>3. QED
    BY <1>6, <2>1, <2>2 DEF EntitlementsIInv, EntitlementsInv
<1>8. CASE ~change.reaches
  <2>1. version' = version /\ overlooked' = (overlooked \/ change.overlap)
    BY <1>8 DEF BumpOfSubscribers, CommitPlanChange
  <2>2. overlooked' \in BOOLEAN /\ (overlooked => overlooked') /\ (~overlooked' => ~change.overlap)
    BY <1>2, <2>1, EntitlementFacts
  <2>3. ~overlooked' => CurrentPlan' = CurrentPlan
    <3> SUFFICES ASSUME ~overlooked' PROVE OnPlan(CurrentRow)' = OnPlan(CurrentRow)
      BY DEF CurrentPlan
    <3>1. CASE CurrentRow.plan = NoPlan
      BY <1>5, <3>1 DEF OnPlan
    <3>2. CASE CurrentRow.plan # NoPlan
      <4>1. CurrentRow.plan \in Plans
        BY <3>2, CurrentRowType, EntitlementFacts DEF Subscriptions
      <4>2. PICK s \in StandingSubs : sub[s].plan = CurrentRow.plan
        BY <4>1, CurrentRowType, EntitlementFacts
      <4>3. CurrentRow.plan # change.plan
        BY <1>8, <2>2, <3>2, <4>2 DEF EntitlementsIInv, ChangeKnows
      <4>4. QED
        BY <1>3, <1>5, <4>1, <4>3 DEF OnPlan
    <3>3. QED
      BY <3>1, <3>2
  <2>4. ResolutionsCurrent'
    BY <1>1, <1>5, <2>1, <2>2, <2>3 DEF EntitlementsIInv, ResolutionsCurrent
  <2>5. OnPlan(CurrentRow)' = CurrentPlan' /\ OnPlan(CurrentRow) = CurrentPlan
    BY DEF CurrentPlan
  <2>6. CachedIsTrue' /\ UntilNextChange' /\ NothingAhead'
    BY <1>1, <1>5, <2>1, <2>2, <2>3, <2>5
       DEF EntitlementsIInv, EntitlementsInv, CachedIsTrue, UntilNextChange, NothingAhead
  <2>7. EntitlementsTypeOK'
    BY <1>1, <1>3, <1>4, <2>1, <2>2, EntitlementFacts DEF EntitlementsTypeOK, Resolutions
  <2>8. QED
    BY <1>6, <2>4, <2>6, <2>7 DEF EntitlementsIInv, EntitlementsInv
<1>9. QED
  BY <1>7, <1>8

LEMMA OverrideStep ==
  ASSUME EntitlementsIInv, SetOverride
  PROVE  EntitlementsIInv'
<1>1. /\ override' \in {"NONE", "ENABLED", "DISABLED"} /\ BumpVersion
      /\ UNCHANGED <<hour, plan, sub, cache, resolver, mover, change>>
  BY DEF SetOverride
<1>2. /\ CachedIsTrue' /\ UntilNextChange' /\ NothingAhead' /\ ResolutionsCurrent'
      /\ version' \in 1..MaxVersion /\ overlooked' = FALSE
  BY <1>1, Bumped
<1>3. StandingSubs' = StandingSubs
  BY <1>1, RowKept
<1>4. ChangeKnows' /\ OneCurrent'
  BY <1>1, <1>3 DEF EntitlementsIInv, EntitlementsInv, ChangeKnows, OneCurrent
<1>5. EntitlementsTypeOK'
  BY <1>1, <1>2, EntitlementFacts DEF EntitlementsTypeOK, Resolutions
<1>6. QED
  BY <1>2, <1>4, <1>5 DEF EntitlementsIInv, EntitlementsInv

\* An hour makes an answer wrong only when it ends it.
LEMMA HourStep ==
  ASSUME EntitlementsIInv, HourPasses
  PROVE  EntitlementsIInv'
<1>1. /\ hour < LastHour /\ hour' = hour + 1
      /\ UNCHANGED <<plan, sub, override, version, cache, resolver, mover, change, overlooked>>
  BY DEF HourPasses
<1>2. /\ hour \in 0..LastHour /\ hour' \in 0..LastHour /\ hour <= hour'
      /\ version \in 1..MaxVersion
  BY <1>1, EntitlementFacts
<1>3. /\ CurrentRow' = CurrentRow /\ CurrentPlan' = CurrentPlan /\ History' = History
      /\ StandingSubs' = StandingSubs
  BY <1>1, RowKept DEF CurrentPlan, OnPlan
<1>4. OnPlan(CurrentRow)' = CurrentPlan /\ OnPlan(CurrentRow) = CurrentPlan
  BY <1>3 DEF CurrentPlan
<1>5. CurrentRow \in Subscriptions
  BY CurrentRowType, EntitlementFacts
<1>6. CachedIsTrue' /\ UntilNextChange'
  <2>1. ASSUME cache[version].found, hour' < cache[version].until
        PROVE  /\ cache[version].until = ValidUntil(CurrentRow, hour')
               /\ ~overlooked =>
                    cache[version].enabled
                      = Enabled(CurrentRow, CurrentPlan, override, History, hour')
    <3>1. cache[version].until \in Hours
      BY <1>2, EntitlementFacts DEF Answers
    <3>2. hour < cache[version].until
      BY <1>1, <1>2, <2>1, <3>1, EntitlementFacts DEF Hours
    <3>3. cache[version].until = ValidUntil(CurrentRow, hour)
      BY <2>1, <3>2 DEF EntitlementsIInv, UntilNextChange
    <3>4. /\ Enabled(CurrentRow, CurrentPlan, override, History, hour)
               <=> Enabled(CurrentRow, CurrentPlan, override, History, hour')
          /\ ValidUntil(CurrentRow, hour) = ValidUntil(CurrentRow, hour')
      BY <1>2, <1>5, <2>1, <3>3, AnswerLasts
    <3>5. /\ Enabled(CurrentRow, CurrentPlan, override, History, hour) \in BOOLEAN
          /\ Enabled(CurrentRow, CurrentPlan, override, History, hour') \in BOOLEAN
      BY DEF Enabled
    <3>6. ~overlooked =>
            cache[version].enabled = Enabled(CurrentRow, CurrentPlan, override, History, hour)
      BY <1>4, <2>1, <3>2 DEF EntitlementsIInv, EntitlementsInv, CachedIsTrue
    <3>7. QED
      BY <3>3, <3>4, <3>5, <3>6
  <2>2. QED
    BY <1>1, <1>3, <1>4, <2>1 DEF CachedIsTrue, UntilNextChange
<1>7. NothingAhead' /\ ChangeKnows' /\ OneCurrent'
  BY <1>1, <1>3
     DEF EntitlementsIInv, EntitlementsInv, NothingAhead, ChangeKnows, OneCurrent
<1>8. \A r \in Resolvers : resolver[r].now \in 0..LastHour
  BY EntitlementFacts DEF Resolutions
<1>9. ResolutionsCurrent'
  BY <1>1, <1>2, <1>3, <1>8 DEF EntitlementsIInv, ResolutionsCurrent
<1>10. EntitlementsTypeOK'
  BY <1>1, <1>2, EntitlementFacts DEF EntitlementsTypeOK, Resolutions
<1>11. QED
  BY <1>6, <1>7, <1>9, <1>10 DEF EntitlementsIInv, EntitlementsInv

LEMMA EntitlementsStep ==
  ASSUME EntitlementsIInv, [EntitlementsNext]_entitlementVars
  PROVE  EntitlementsIInv'
<1>1. CASE UNCHANGED entitlementVars
  BY <1>1, EntitlementFacts, QuietChange DEF entitlementVars
<1>2. CASE EntitlementsNext
  BY <1>2, ReadSteps, AnswerStep, SubscriptionSteps, QuietChanges, PlanChangeStep,
     OverrideStep, ForgetStep, HourStep DEF EntitlementsNext
<1>3. QED
  BY <1>1, <1>2

\* An answer taken from the cache is what a resolution would give, and one
\* subscription at most stands (entitlement.service.ts:23, :51,
\* platform-entitlements.service.ts:39).
THEOREM EntitlementsSafe == EntitlementsSpec => []EntitlementsInv
<1>1. EntitlementsIInv /\ [EntitlementsNext]_entitlementVars => EntitlementsIInv'
  BY EntitlementsStep
<1>2. EntitlementsIInv => EntitlementsInv
  BY DEF EntitlementsIInv
<1>3. QED
  BY EntitlementsInitInv, <1>1, <1>2, PTL DEF EntitlementsSpec

\* What a step that ends up with a standing subscription has read.
LEMMA RisesOnlyOvertaken ==
  ASSUME EntitlementsTypeOK, EntitlementsNext, NEW s \in Subs,
         sub[s].status \in {"CANCELLED", "EXPIRED"}, sub'[s].status \in Standing
  PROVE  \E m \in Movers : mover[m].sub = s /\ mover[m].seen \in Standing
<1>1. sub \in [Subs -> Subscriptions]
  BY DEF EntitlementsTypeOK
<1>2. sub[s].status \notin Standing /\ sub[s].status # "NONE"
  BY DEF Standing
<1>3. ASSUME NEW o \in Subs, CreateSubscription(o) PROVE FALSE
  <2>1. o # s
    BY <1>2, <1>3 DEF CreateSubscription
  <2>2. sub'[s] = sub[s]
    BY <1>1, <1>3, <2>1 DEF CreateSubscription, WriteSub
  <2>3. QED
    BY <1>2, <2>2
<1>4. ASSUME NEW o \in Subs, UpdateSubscription(o) PROVE FALSE
  <2>1. PICK p \in Plans, term \in Terms :
          sub' = [sub EXCEPT ![o] = [sub[o] EXCEPT !.plan = p, !.term = term]]
    BY <1>4 DEF UpdateSubscription, WriteSub
  <2>2. sub[o] \in Subscriptions
    BY <1>1
  <2>3. [sub[o] EXCEPT !.plan = p, !.term = term].status = sub[o].status
    BY <2>2 DEF Subscriptions
  <2>4. sub'[s].status = sub[s].status
    BY <1>1, <2>1, <2>3
  <2>5. QED
    BY <1>2, <2>4
<1>5. ASSUME NEW m \in Movers, TransitionSubscription(m)
      PROVE  mover[m].sub = s /\ mover[m].seen \in Standing
  <2>1. PICK st \in AllowedMoves(mover[m].seen) :
          sub' = [sub EXCEPT ![mover[m].sub] = [sub[mover[m].sub] EXCEPT !.status = st]]
    BY <1>5 DEF TransitionSubscription, WriteSub
  <2>2. mover[m].sub = s
    BY <1>1, <1>2, <2>1
  <2>3. mover[m].seen \in Standing
    BY DEF AllowedMoves, Standing
  <2>4. QED
    BY <2>2, <2>3
<1>6. CASE UNCHANGED sub
  BY <1>2, <1>6
<1>7. QED
  BY <1>3, <1>4, <1>5, <1>6
     DEF EntitlementsNext, ReadVersion, ReadSubscription, Answer, ReadForTransition,
         DropTransition, ReadSubscribers, CommitPlanChange, SetOverride, Forget, HourPasses

\* A subscription that ended stands again only by a transition that read it
\* before (platform-entitlements.service.ts:48-55).
THEOREM EndedStaysEnded == EntitlementsSpec => EndedUnlessOvertaken
<1>1. EntitlementsTypeOK /\ [EntitlementsNext]_entitlementVars
        => [\A s \in Subs :
              sub[s].status \in {"CANCELLED", "EXPIRED"} /\ sub'[s].status \in Standing =>
                \E m \in Movers : mover[m].sub = s /\ mover[m].seen \in Standing]_entitlementVars
  BY RisesOnlyOvertaken
<1>2. EntitlementsSpec => []EntitlementsTypeOK
  <2>1. EntitlementsInv => EntitlementsTypeOK
    BY DEF EntitlementsInv
  <2>2. QED
    BY EntitlementsSafe, <2>1, PTL
<1>3. QED
  BY <1>1, <1>2, PTL DEF EntitlementsSpec, EndedUnlessOvertaken

-----------------------------------------------------------------------------
(* Linked records: their keys, for any callers, keys, records and failures *)

(***************************************************************************)
(* What a call between two of its steps knows, and what the rows of a key  *)
(* and of a record say of each other.                                      *)
(***************************************************************************)
CallsSound ==
  \A c \in Linkers : linker[c].step # "idle" =>
    /\ KeyOf(c) \in CreationKeys
    /\ Linking(c, "note") => linker[c].record \in Records /\ birth[linker[c].record] = KeyOf(c)
    /\ linker[c].step \in {"link", "complete"} =>
         linker[c].record \in Records /\ attempt[KeyOf(c)].target = linker[c].record
    /\ Linking(c, "complete") => link[linker[c].record].key = KeyOf(c)

TargetsSound ==
  \A k \in CreationKeys : attempt[k].target # NoRecord =>
    birth[attempt[k].target] = k /\ attempt[k].status \in {"TARGET_CREATED", "COMPLETED"}

\* A record made under a key is its target, or about to be noted, or orphaned.
BirthsKnown ==
  \A r \in Records \ orphaned : birth[r] \in CreationKeys =>
    \/ attempt[birth[r]].target = r
    \/ \E c \in Linkers : Linking(c, "note") /\ linker[c].record = r /\ KeyOf(c) = birth[r]

LinkedBase == LinkedTypeOK /\ OneMaker /\ PendingHasMaker /\ LinkFollowsAttempt

LinkedIInv == LinkedBase /\ CallsSound /\ TargetsSound /\ BirthsKnown

Steps == {"idle", "looked", "absent", "claim", "create", "note", "fail", "link", "complete"}
LinkerRows == [step : Steps, key : CreationKeys \cup {NoKey}, record : Records \cup {NoRecord}]
Attempts == [status : AttemptStatuses, target : Records \cup {NoRecord}]
Links == [state : {"NONE", "LIVE", "REMOVED"}, key : CreationKeys \cup {NoKey}]

LEMMA LinkedTypes ==
  /\ LinkedTypeOK <=>
       /\ attempt \in [CreationKeys -> Attempts] /\ link \in [Records -> Links]
       /\ birth \in [Records -> CreationKeys \cup {"none", "other"}]
       /\ linker \in [Linkers -> LinkerRows]
       /\ orphaned \subseteq Records /\ cut \subseteq CreationKeys
  /\ LinkedTypeOK' <=>
       /\ attempt' \in [CreationKeys -> Attempts] /\ link' \in [Records -> Links]
       /\ birth' \in [Records -> CreationKeys \cup {"none", "other"}]
       /\ linker' \in [Linkers -> LinkerRows]
       /\ orphaned' \subseteq Records /\ cut' \subseteq CreationKeys
BY DEF LinkedTypeOK, Attempts, Links, LinkerRows, Steps

LEMMA IdleType == IdleLinker \in LinkerRows /\ IdleLinker.step = "idle"
BY DEF IdleLinker, LinkerRows, Steps

LEMMA LinkedInitInv == LinkedInit => LinkedIInv
<1> SUFFICES ASSUME LinkedInit PROVE LinkedIInv
  OBVIOUS
<1>1. LinkedTypeOK
  BY IdleType, LinkedTypes DEF LinkedInit, Attempts, AttemptStatuses, Links
<1>2. \A c \in Linkers : linker[c].step = "idle"
  BY IdleType DEF LinkedInit
<1>3. OneMaker /\ PendingHasMaker /\ CallsSound
  BY <1>2 DEF LinkedInit, OneMaker, PendingHasMaker, CallsSound, Making
<1>4. LinkFollowsAttempt /\ TargetsSound /\ BirthsKnown
  BY LinkedCreationAssumption DEF LinkedInit, LinkFollowsAttempt, TargetsSound, BirthsKnown
<1>5. QED
  BY <1>1, <1>3, <1>4 DEF LinkedIInv, LinkedBase

(***************************************************************************)
(* One call moves.                                                         *)
(***************************************************************************)
LEMMA CallMoves ==
  ASSUME linker \in [Linkers -> LinkerRows], NEW c \in Linkers
  PROVE  /\ \A s \in Steps, r \in Records \cup {NoRecord} : Advance(c, s, r) =>
              /\ linker' \in [Linkers -> LinkerRows]
              /\ \A o \in Linkers \ {c} : linker'[o] = linker[o]
              /\ linker'[c].step = s /\ linker'[c].key = KeyOf(c) /\ linker'[c].record = r
         /\ Done(c) =>
              /\ linker' \in [Linkers -> LinkerRows]
              /\ \A o \in Linkers \ {c} : linker'[o] = linker[o]
              /\ linker'[c].step = "idle"
<1>1. ASSUME NEW s \in Steps, NEW r \in Records \cup {NoRecord}, Advance(c, s, r)
      PROVE  /\ linker' \in [Linkers -> LinkerRows]
             /\ \A o \in Linkers \ {c} : linker'[o] = linker[o]
             /\ linker'[c].step = s /\ linker'[c].key = KeyOf(c) /\ linker'[c].record = r
  <2> DEFINE n == [linker[c] EXCEPT !.step = s, !.record = r]
  <2>1. linker[c] \in LinkerRows
    OBVIOUS
  <2>2. n \in LinkerRows /\ n.step = s /\ n.key = linker[c].key /\ n.record = r
    BY <2>1 DEF LinkerRows
  <2>3. linker' = [linker EXCEPT ![c] = n]
    BY <1>1 DEF Advance
  <2> HIDE DEF n
  <2>4. QED
    BY <2>2, <2>3 DEF KeyOf
<1>2. ASSUME Done(c)
      PROVE  /\ linker' \in [Linkers -> LinkerRows]
             /\ \A o \in Linkers \ {c} : linker'[o] = linker[o]
             /\ linker'[c].step = "idle"
  BY <1>2, IdleType DEF Done
<1>3. QED
  BY <1>1, <1>2

\* A call that does not make, and writes nothing.
LEMMA QuietMove ==
  ASSUME LinkedIInv, NEW c \in Linkers, ~Making(c),
         linker' \in [Linkers -> LinkerRows], \A o \in Linkers \ {c} : linker'[o] = linker[o],
         linker'[c].step \in {"idle", "looked", "absent", "claim", "link"},
         linker'[c].step # "idle" => linker'[c].key \in CreationKeys,
         linker'[c].step = "link" =>
           linker'[c].record \in Records /\ attempt[linker'[c].key].target = linker'[c].record,
         UNCHANGED <<attempt, link, birth, orphaned>>, cut \subseteq cut', cut' \subseteq CreationKeys
  PROVE  LinkedIInv'
<1>1. LinkedTypeOK'
  BY LinkedTypes DEF LinkedIInv, LinkedBase
<1>2. \A o \in Linkers : Making(o)' => Making(o) /\ linker'[o] = linker[o]
  BY DEF Making
<1>3. \A o \in Linkers : Making(o) => Making(o)' /\ linker'[o] = linker[o]
  BY DEF Making
<1>4. OneMaker'
  BY <1>2 DEF LinkedIInv, LinkedBase, OneMaker, KeyOf
<1>5. PendingHasMaker'
  BY <1>3 DEF LinkedIInv, LinkedBase, PendingHasMaker, KeyOf
<1>6. LinkFollowsAttempt' /\ TargetsSound'
  BY DEF LinkedIInv, LinkedBase, LinkFollowsAttempt, TargetsSound
<1>7. CallsSound'
  BY DEF LinkedIInv, CallsSound, KeyOf, Linking
<1>8. BirthsKnown'
  BY <1>3 DEF LinkedIInv, BirthsKnown, KeyOf, Linking, Making
<1>9. QED
  BY <1>1, <1>4, <1>5, <1>6, <1>7, <1>8 DEF LinkedIInv, LinkedBase

\* A call that may create from now on.
LEMMA BeginMaking ==
  ASSUME LinkedIInv, NEW c \in Linkers, ~Making(c), linker[c].step # "idle",
         attempt[KeyOf(c)].status \in {"NONE", "FAILED"},
         attempt' = [attempt EXCEPT ![KeyOf(c)].status = "PENDING"],
         Advance(c, "create", NoRecord), UNCHANGED <<link, birth, orphaned, cut>>
  PROVE  LinkedIInv'
<1> DEFINE k == KeyOf(c)
<1>0. /\ attempt \in [CreationKeys -> Attempts] /\ link \in [Records -> Links]
      /\ linker \in [Linkers -> LinkerRows] /\ k \in CreationKeys
  BY LinkedTypes DEF LinkedIInv, LinkedBase, CallsSound
<1>1. /\ linker' \in [Linkers -> LinkerRows]
      /\ \A o \in Linkers \ {c} : linker'[o] = linker[o]
      /\ linker'[c].step = "create" /\ linker'[c].key = k
  BY <1>0, CallMoves DEF Steps
<1>2. attempt[k] \in Attempts /\ attempt[k].target = NoRecord
  BY <1>0 DEF LinkedIInv, TargetsSound
<1>3. /\ attempt' \in [CreationKeys -> Attempts]
      /\ attempt'[k] = [status |-> "PENDING", target |-> NoRecord]
      /\ \A o \in CreationKeys \ {k} : attempt'[o] = attempt[o]
      /\ \A o \in CreationKeys : attempt'[o].target = attempt[o].target
  BY <1>0, <1>2 DEF Attempts, AttemptStatuses
<1>4. LinkedTypeOK'
  BY <1>1, <1>3, LinkedTypes DEF LinkedIInv, LinkedBase
<1>5. \A o \in Linkers : Making(o) => KeyOf(o) \in CreationKeys \ {k} /\ o # c
  BY DEF LinkedIInv, LinkedBase, OneMaker, CallsSound, Making
<1> HIDE DEF k
<1>6. OneMaker'
  BY <1>1, <1>3, <1>5 DEF LinkedIInv, LinkedBase, OneMaker, KeyOf, Making
<1>7. PendingHasMaker'
  <2> SUFFICES ASSUME NEW o \in CreationKeys, attempt'[o].status = "PENDING", o \notin cut
               PROVE  \E d \in Linkers : Making(d)' /\ KeyOf(d)' = o
    BY DEF PendingHasMaker
  <2>1. CASE o = k
    BY <1>1, <2>1 DEF KeyOf, Making
  <2>2. CASE o # k
    <3>1. PICK d \in Linkers : Making(d) /\ KeyOf(d) = o
      BY <1>3, <2>2 DEF LinkedIInv, LinkedBase, PendingHasMaker
    <3>2. linker'[d] = linker[d]
      BY <1>1, <1>5, <3>1
    <3>3. QED
      BY <3>1, <3>2 DEF KeyOf, Making
  <2>3. QED
    BY <2>1, <2>2
<1>8. attempt[k].status # "COMPLETED"
  BY DEF k
<1>9. LinkFollowsAttempt'
  BY <1>0, <1>3, <1>8 DEF LinkedIInv, LinkedBase, LinkFollowsAttempt
<1>10. TargetsSound'
  BY <1>2, <1>3 DEF LinkedIInv, TargetsSound
<1>11. CallsSound'
  BY <1>0, <1>1, <1>3 DEF LinkedIInv, CallsSound, KeyOf, Linking
<1>12. BirthsKnown'
  BY <1>1, <1>3, <1>5 DEF LinkedIInv, BirthsKnown, KeyOf, Linking, Making
<1>13. QED
  BY <1>4, <1>6, <1>7, <1>9, <1>10, <1>11, <1>12 DEF LinkedIInv, LinkedBase

\* A maker goes on: what it made it knows, or it is orphaned.
LEMMA MakerGoesOn ==
  ASSUME LinkedIInv, NEW c \in Linkers, Making(c),
         linker' \in [Linkers -> LinkerRows], \A o \in Linkers \ {c} : linker'[o] = linker[o],
         linker'[c].step \in {"note", "fail"}, linker'[c].key = KeyOf(c),
         UNCHANGED <<attempt, link, cut>>,
         birth' \in [Records -> CreationKeys \cup {"none", "other"}],
         orphaned' \subseteq Records, orphaned \subseteq orphaned',
         \A r \in Records : birth[r] # "none" => birth'[r] = birth[r],
         \A r \in Records : birth[r] = "none" =>
           \/ r \in orphaned' \/ birth'[r] = "none"
           \/ linker'[c].step = "note" /\ linker'[c].record = r /\ birth'[r] = KeyOf(c),
         linker'[c].step = "note" =>
           linker'[c].record \in Records /\ birth'[linker'[c].record] = KeyOf(c),
         Linking(c, "note") => linker[c].record \in orphaned'
  PROVE  LinkedIInv'
<1>1. LinkedTypeOK'
  BY LinkedTypes DEF LinkedIInv, LinkedBase
<1>2. \A o \in Linkers : Making(o)' <=> Making(o)
  BY DEF Making
<1>3. \A o \in Linkers : KeyOf(o)' = KeyOf(o)
  BY DEF KeyOf
<1>4. OneMaker' /\ PendingHasMaker'
  BY <1>2, <1>3 DEF LinkedIInv, LinkedBase, OneMaker, PendingHasMaker
<1>5. birth \in [Records -> CreationKeys \cup {"none", "other"}] /\ KeyOf(c) \in CreationKeys
      /\ attempt \in [CreationKeys -> Attempts] /\ link \in [Records -> Links]
  BY LinkedTypes DEF LinkedIInv, LinkedBase, CallsSound, Making
<1>6. \A r \in Records : birth[r] \in CreationKeys => birth'[r] = birth[r]
  BY LinkedCreationAssumption
<1>7. LinkFollowsAttempt'
  BY <1>6 DEF LinkedIInv, LinkedBase, LinkFollowsAttempt
<1>8. \A k \in CreationKeys : attempt[k].target \in Records \cup {NoRecord}
  BY <1>5 DEF Attempts
<1>9. TargetsSound'
  BY <1>6, <1>8 DEF LinkedIInv, TargetsSound
<1>10. CallsSound'
  BY <1>3, <1>5, <1>6 DEF LinkedIInv, CallsSound, Linking, KeyOf
<1>11. BirthsKnown'
  <2> SUFFICES ASSUME NEW r \in Records \ orphaned', birth'[r] \in CreationKeys,
                      attempt[birth'[r]].target # r
               PROVE  \E o \in Linkers : /\ linker'[o].step = "note" /\ linker'[o].record = r
                                         /\ linker'[o].key = birth'[r]
    BY DEF BirthsKnown, Linking, KeyOf
  <2>1. CASE birth[r] = "none"
    BY <2>1, LinkedCreationAssumption
  <2>2. CASE birth[r] # "none"
    <3>1. PICK o \in Linkers : Linking(o, "note") /\ linker[o].record = r /\ KeyOf(o) = birth[r]
      BY <2>2 DEF LinkedIInv, BirthsKnown
    <3>2. o # c
      BY <3>1
    <3>3. QED
      BY <2>2, <3>1, <3>2 DEF Linking, KeyOf
  <2>3. QED
    BY <2>1, <2>2
<1>12. QED
  BY <1>1, <1>4, <1>7, <1>9, <1>10, <1>11 DEF LinkedIInv, LinkedBase

\* A maker ends: its row says how, or it was cut off.
LEMMA MakerEnds ==
  ASSUME LinkedIInv, NEW c \in Linkers, Making(c), NEW a \in Attempts,
         linker' \in [Linkers -> LinkerRows], \A o \in Linkers \ {c} : linker'[o] = linker[o],
         attempt' = [attempt EXCEPT ![KeyOf(c)] = a],
         UNCHANGED <<link, birth>>, orphaned' \subseteq Records, orphaned \subseteq orphaned',
         cut' \subseteq CreationKeys, cut \subseteq cut',
         a.status = "PENDING" => KeyOf(c) \in cut', a.status # "COMPLETED",
         a.target # NoRecord => birth[a.target] = KeyOf(c) /\ a.status = "TARGET_CREATED",
         Linking(c, "note") =>
           linker[c].record \in orphaned' \/ a.target = linker[c].record,
         \/ linker'[c].step = "idle"
         \/ /\ linker'[c].step = "link" /\ linker'[c].key = KeyOf(c)
            /\ linker'[c].record = a.target /\ a.target # NoRecord
  PROVE  LinkedIInv'
<1> DEFINE k == KeyOf(c)
<1>0. /\ attempt \in [CreationKeys -> Attempts] /\ link \in [Records -> Links]
      /\ k \in CreationKeys /\ attempt[k] = [status |-> "PENDING", target |-> NoRecord]
  BY LinkedTypes DEF LinkedIInv, LinkedBase, CallsSound, OneMaker, Making
<1>1. /\ attempt' \in [CreationKeys -> Attempts] /\ attempt'[k] = a
      /\ \A o \in CreationKeys \ {k} : attempt'[o] = attempt[o]
  BY <1>0
<1>2. LinkedTypeOK'
  BY <1>1, LinkedTypes DEF LinkedIInv, LinkedBase
<1>3. \A o \in Linkers : Making(o)' => /\ Making(o) /\ o # c /\ linker'[o] = linker[o]
                                     /\ KeyOf(o) \in CreationKeys \ {k}
  BY DEF LinkedIInv, LinkedBase, OneMaker, CallsSound, Making
<1>4. OneMaker'
  BY <1>1, <1>3 DEF LinkedIInv, LinkedBase, OneMaker, KeyOf
<1>5. PendingHasMaker'
  <2> SUFFICES ASSUME NEW o \in CreationKeys, attempt'[o].status = "PENDING", o \notin cut'
               PROVE  \E d \in Linkers : Making(d)' /\ KeyOf(d)' = o
    BY DEF PendingHasMaker
  <2>1. o # k
    BY <1>1
  <2>2. PICK d \in Linkers : Making(d) /\ KeyOf(d) = o
    BY <1>1, <2>1 DEF LinkedIInv, LinkedBase, PendingHasMaker
  <2>3. linker'[d] = linker[d]
    BY <2>1, <2>2
  <2>4. QED
    BY <2>2, <2>3 DEF KeyOf, Making
<1>6. \A r \in Records : link[r].key # k
  BY <1>0, LinkedCreationAssumption DEF LinkedIInv, LinkedBase, LinkFollowsAttempt
<1>7. LinkFollowsAttempt'
  BY <1>0, <1>1, <1>6 DEF LinkedIInv, LinkedBase, LinkFollowsAttempt
<1>8. TargetsSound'
  BY <1>1 DEF LinkedIInv, TargetsSound
<1>9. a.target \in Records \cup {NoRecord}
  BY DEF Attempts
<1>10. CallsSound'
  <2> SUFFICES ASSUME NEW o \in Linkers, linker'[o].step # "idle"
               PROVE  /\ linker'[o].key \in CreationKeys
                      /\ linker'[o].step = "note" => /\ linker'[o].record \in Records
                                                     /\ birth[linker'[o].record] = linker'[o].key
                      /\ linker'[o].step \in {"link", "complete"} =>
                           /\ linker'[o].record \in Records
                           /\ attempt'[linker'[o].key].target = linker'[o].record
                      /\ linker'[o].step = "complete" =>
                           link[linker'[o].record].key = linker'[o].key
    BY DEF CallsSound, KeyOf, Linking
  <2>1. CASE o = c
    BY <1>0, <1>1, <1>9, <2>1
  <2>2. CASE o # c
    <3>1. linker[o].step \in {"link", "complete"} => linker[o].key # k
      BY <1>0, <2>2, LinkedCreationAssumption DEF LinkedIInv, CallsSound, KeyOf
    <3> HIDE DEF k
    <3>2. QED
      BY <1>1, <2>2, <3>1 DEF LinkedIInv, CallsSound, KeyOf, Linking
  <2>3. QED
    BY <2>1, <2>2
<1>11. BirthsKnown'
  <2> SUFFICES ASSUME NEW r \in Records \ orphaned', birth[r] \in CreationKeys,
                      attempt'[birth[r]].target # r
               PROVE  \E o \in Linkers : /\ linker'[o].step = "note" /\ linker'[o].record = r
                                         /\ linker'[o].key = birth[r]
    BY DEF BirthsKnown, Linking, KeyOf
  <2>1. attempt[birth[r]].target # r
    BY <1>0, <1>1, LinkedCreationAssumption
  <2>2. PICK o \in Linkers : Linking(o, "note") /\ linker[o].record = r /\ KeyOf(o) = birth[r]
    BY <2>1 DEF LinkedIInv, BirthsKnown
  <2>3. o # c
    BY <1>1, <2>2
  <2>4. QED
    BY <2>2, <2>3 DEF Linking, KeyOf
<1>12. QED
  BY <1>2, <1>4, <1>5, <1>7, <1>8, <1>10, <1>11 DEF LinkedIInv, LinkedBase

(***************************************************************************)
(* Links.                                                                  *)
(***************************************************************************)
\* The link and the unlink of a record of the company leave the keys alone.
LEMMA KeysKept ==
  ASSUME LinkedIInv, link' \in [Records -> Links],
         \A r \in Records : link'[r].key = link[r].key,
         birth' \in [Records -> CreationKeys \cup {"none", "other"}],
         \A r \in Records : birth[r] # "none" => birth'[r] = birth[r],
         \A r \in Records : birth[r] = "none" => birth'[r] \in {"none", "other"},
         UNCHANGED <<attempt, linker, orphaned, cut>>
  PROVE  LinkedIInv'
<1>1. LinkedTypeOK' /\ OneMaker' /\ PendingHasMaker'
  BY LinkedTypes DEF LinkedIInv, LinkedBase, OneMaker, PendingHasMaker, Making, KeyOf
<1>2. \A r \in Records : birth[r] \in CreationKeys \/ birth'[r] \in CreationKeys =>
        birth'[r] = birth[r]
  BY LinkedCreationAssumption
<1>3. \A k \in CreationKeys : attempt[k].target \in Records \cup {NoRecord}
  BY LinkedTypes DEF LinkedIInv, LinkedBase, Attempts
<1>4. LinkFollowsAttempt'
  BY <1>2, <1>3 DEF LinkedIInv, LinkedBase, LinkFollowsAttempt
<1>5. TargetsSound'
  BY <1>2, <1>3 DEF LinkedIInv, TargetsSound
<1>6. CallsSound'
  BY <1>2 DEF LinkedIInv, CallsSound, Linking, KeyOf
<1>7. BirthsKnown'
  BY <1>2 DEF LinkedIInv, BirthsKnown, Linking, KeyOf
<1>8. QED
  BY <1>1, <1>4, <1>5, <1>6, <1>7 DEF LinkedIInv, LinkedBase

LEMMA LinkPersisted ==
  ASSUME LinkedIInv, NEW c \in Linkers, PersistLink(c)
  PROVE  LinkedIInv'
<1> DEFINE r == linker[c].record
           k == KeyOf(c)
<1>1. /\ attempt \in [CreationKeys -> Attempts] /\ link \in [Records -> Links]
      /\ linker \in [Linkers -> LinkerRows] /\ ~Making(c)
      /\ r \in Records /\ k \in CreationKeys /\ attempt[k].target = r /\ birth[r] = k
  BY LinkedTypes, LinkedCreationAssumption
     DEF LinkedIInv, LinkedBase, CallsSound, TargetsSound, Making, PersistLink, Linking
<1>2. k # NoKey
  BY <1>1, LinkedCreationAssumption
<1>3. /\ linker' \in [Linkers -> LinkerRows]
      /\ \A o \in Linkers \ {c} : linker'[o] = linker[o]
      /\ linker'[c].step = "complete" /\ linker'[c].key = k /\ linker'[c].record = r
  BY <1>1, CallMoves DEF Steps, PersistLink
<1> HIDE DEF r, k
<1>4. link' = [link EXCEPT ![r] = [state |-> "LIVE", key |-> k]]
  BY <1>2 DEF PersistLink, WriteLink, r, k
<1>5. /\ link' \in [Records -> Links] /\ link'[r].key = k
      /\ \A o \in Records \ {r} : link'[o] = link[o]
  BY <1>1, <1>4 DEF Links
<1>6. UNCHANGED <<attempt, birth, orphaned, cut>>
  BY DEF PersistLink
<1>7. LinkedTypeOK'
  BY <1>3, <1>5, <1>6, LinkedTypes DEF LinkedIInv, LinkedBase
<1>8. \A o \in Linkers : (Making(o) \/ Making(o)') =>
                          Making(o) /\ Making(o)' /\ linker'[o] = linker[o]
  BY <1>1, <1>3 DEF Making
<1>9. OneMaker' /\ PendingHasMaker'
  BY <1>6, <1>8 DEF LinkedIInv, LinkedBase, OneMaker, PendingHasMaker, KeyOf
<1>10. \A o \in Records : link[o].key \in CreationKeys => link'[o].key = link[o].key
  BY <1>1, <1>5 DEF LinkedIInv, LinkedBase, LinkFollowsAttempt
<1>11. LinkFollowsAttempt'
  BY <1>1, <1>5, <1>6, <1>10 DEF LinkedIInv, LinkedBase, LinkFollowsAttempt
<1>12. TargetsSound'
  BY <1>6 DEF LinkedIInv, TargetsSound
<1>13. CallsSound'
  BY <1>1, <1>3, <1>5, <1>6, <1>10 DEF LinkedIInv, CallsSound, Linking, KeyOf
<1>14. BirthsKnown'
  BY <1>6, <1>8 DEF LinkedIInv, BirthsKnown, Linking, KeyOf, Making
<1>15. QED
  BY <1>7, <1>9, <1>11, <1>12, <1>13, <1>14 DEF LinkedIInv, LinkedBase

LEMMA AttemptCompleted ==
  ASSUME LinkedIInv, NEW c \in Linkers, Complete(c)
  PROVE  LinkedIInv'
<1> DEFINE r == linker[c].record
           k == KeyOf(c)
<1>1. /\ attempt \in [CreationKeys -> Attempts] /\ link \in [Records -> Links]
      /\ linker \in [Linkers -> LinkerRows] /\ ~Making(c)
      /\ r \in Records /\ k \in CreationKeys /\ attempt[k].target = r /\ birth[r] = k
      /\ link[r].key = k /\ r # NoRecord
  BY LinkedTypes, LinkedCreationAssumption
     DEF LinkedIInv, LinkedBase, CallsSound, TargetsSound, Making, Complete, Linking
<1>2. /\ linker' \in [Linkers -> LinkerRows]
      /\ \A o \in Linkers \ {c} : linker'[o] = linker[o]
      /\ linker'[c].step = "idle"
  BY <1>1, CallMoves DEF Complete
<1> HIDE DEF r
<1>3. attempt[k] \in Attempts
  BY <1>1
<1>4. /\ attempt' \in [CreationKeys -> Attempts]
      /\ attempt'[k] = [status |-> "COMPLETED", target |-> r]
      /\ \A o \in CreationKeys \ {k} : attempt'[o] = attempt[o]
      /\ \A o \in CreationKeys : attempt'[o].target = attempt[o].target
  BY <1>1, <1>3 DEF Attempts, AttemptStatuses, Complete
<1> HIDE DEF k
<1>5. UNCHANGED <<link, birth, orphaned, cut>>
  BY DEF Complete
<1>6. LinkedTypeOK'
  BY <1>2, <1>4, <1>5, LinkedTypes DEF LinkedIInv, LinkedBase
<1>7. \A o \in Linkers : (Making(o) \/ Making(o)') =>
        Making(o) /\ Making(o)' /\ linker'[o] = linker[o] /\ KeyOf(o) \in CreationKeys \ {k}
  BY <1>1, <1>2 DEF Making, LinkedIInv, LinkedBase, OneMaker, CallsSound
<1>8. OneMaker'
  BY <1>4, <1>7 DEF LinkedIInv, LinkedBase, OneMaker, KeyOf
<1>9. PendingHasMaker'
  BY <1>4, <1>5, <1>7 DEF LinkedIInv, LinkedBase, PendingHasMaker, KeyOf
<1>10. LinkFollowsAttempt'
  BY <1>1, <1>4, <1>5 DEF LinkedIInv, LinkedBase, LinkFollowsAttempt
<1>11. TargetsSound'
  BY <1>1, <1>4, <1>5 DEF LinkedIInv, TargetsSound
<1>12. CallsSound'
  BY <1>2, <1>4, <1>5 DEF LinkedIInv, CallsSound, Linking, KeyOf
<1>13. BirthsKnown'
  BY <1>4, <1>5, <1>7 DEF LinkedIInv, BirthsKnown, Linking, KeyOf, Making
<1>14. QED
  BY <1>6, <1>8, <1>9, <1>10, <1>11, <1>12, <1>13 DEF LinkedIInv, LinkedBase

(***************************************************************************)
(* Every step.                                                             *)
(***************************************************************************)
\* The steps of a call that decide whether it may create.
LEMMA ClaimSteps ==
  ASSUME LinkedIInv, NEW c \in Linkers,
         \/ LookUp(c) \/ FindAttempt(c) \/ InsertConflict(c) \/ ClaimRefused(c)
         \/ InsertAttempt(c) \/ ClaimAttempt(c)
  PROVE  LinkedIInv'
<1>1. /\ attempt \in [CreationKeys -> Attempts] /\ linker \in [Linkers -> LinkerRows]
      /\ cut \subseteq CreationKeys
  BY LinkedTypes DEF LinkedIInv, LinkedBase
<1>2. linker[c].step # "idle" => KeyOf(c) \in CreationKeys
  BY DEF LinkedIInv, CallsSound
<1>3. CASE LookUp(c)
  <2>1. PICK k \in CreationKeys :
          linker' = [linker EXCEPT ![c] = [step |-> "looked", key |-> k, record |-> NoRecord]]
    BY <1>3 DEF LookUp
  <2>2. [step |-> "looked", key |-> k, record |-> NoRecord] \in LinkerRows
    BY DEF LinkerRows, Steps
  <2>3. /\ linker' \in [Linkers -> LinkerRows]
        /\ \A o \in Linkers \ {c} : linker'[o] = linker[o]
        /\ linker'[c].step = "looked" /\ linker'[c].key = k
    BY <1>1, <2>1, <2>2
  <2>4. ~Making(c) /\ UNCHANGED <<attempt, link, birth, orphaned, cut>>
    BY <1>3 DEF LookUp, Linking, Making
  <2>5. QED
    BY <1>1, <2>3, <2>4, QuietMove
<1>4. ASSUME linker[c].step \in {"looked", "absent"}, Follow(c),
             UNCHANGED <<attempt, link, birth, orphaned, cut>>
      PROVE  LinkedIInv'
  <2> DEFINE t == attempt[KeyOf(c)].target
             s == IF t = NoRecord THEN "claim" ELSE "link"
  <2>1. KeyOf(c) \in CreationKeys /\ t \in Records \cup {NoRecord}
    BY <1>1, <1>2, <1>4 DEF Attempts
  <2>2. s \in Steps /\ Advance(c, s, t)
    BY <1>4 DEF Follow, Steps
  <2>3. s \in {"claim", "link"} /\ (s = "link" => t \in Records)
    BY <2>1
  <2>4. /\ linker' \in [Linkers -> LinkerRows]
        /\ \A o \in Linkers \ {c} : linker'[o] = linker[o]
        /\ linker'[c].step = s /\ linker'[c].key = KeyOf(c) /\ linker'[c].record = t
    BY <1>1, <2>1, <2>2, CallMoves
  <2>5. ~Making(c)
    BY <1>4 DEF Making
  <2> HIDE DEF s
  <2>6. QED
    BY <1>1, <1>4, <2>1, <2>3, <2>4, <2>5, QuietMove
<1>5. CASE FindAttempt(c)
  <2>1. CASE attempt[KeyOf(c)].status = "NONE"
    <3>1. Advance(c, "absent", NoRecord) /\ ~Making(c) /\ linker[c].step # "idle"
      BY <1>5, <2>1 DEF FindAttempt, Linking, Making
    <3>2. /\ linker' \in [Linkers -> LinkerRows]
          /\ \A o \in Linkers \ {c} : linker'[o] = linker[o]
          /\ linker'[c].step = "absent" /\ linker'[c].key = KeyOf(c)
      BY <1>1, <3>1, CallMoves DEF Steps
    <3>3. UNCHANGED <<attempt, link, birth, orphaned, cut>>
      BY <1>5 DEF FindAttempt
    <3>4. QED
      BY <1>1, <1>2, <3>1, <3>2, <3>3, QuietMove
  <2>2. CASE attempt[KeyOf(c)].status # "NONE"
    BY <1>4, <1>5, <2>2 DEF FindAttempt, Linking
  <2>3. QED
    BY <2>1, <2>2
<1>6. CASE InsertConflict(c)
  BY <1>4, <1>6 DEF InsertConflict, Linking
<1>7. CASE ClaimRefused(c)
  <2>1. Done(c) /\ ~Making(c) /\ UNCHANGED <<attempt, link, birth, orphaned, cut>>
    BY <1>7 DEF ClaimRefused, Linking, Making
  <2>2. /\ linker' \in [Linkers -> LinkerRows] /\ linker'[c].step = "idle"
        /\ \A o \in Linkers \ {c} : linker'[o] = linker[o]
    BY <1>1, <2>1, CallMoves
  <2>3. QED
    BY <1>1, <2>1, <2>2, QuietMove
<1>8. CASE InsertAttempt(c)
  BY <1>8, BeginMaking DEF InsertAttempt, Linking, Making
<1>9. CASE ClaimAttempt(c)
  BY <1>9, BeginMaking DEF ClaimAttempt, Linking, Making, Takeable
<1>10. QED
  BY <1>3, <1>5, <1>6, <1>7, <1>8, <1>9

\* The steps of a call that creates.
LEMMA MakerSteps ==
  ASSUME LinkedIInv, NEW c \in Linkers,
         \/ CreateRecord(c) \/ CreateRecordThrows(c) \/ NoteFails(c)
         \/ NoteTarget(c) \/ RecordFailed(c)
  PROVE  LinkedIInv'
<1>1. /\ attempt \in [CreationKeys -> Attempts] /\ linker \in [Linkers -> LinkerRows]
      /\ birth \in [Records -> CreationKeys \cup {"none", "other"}]
      /\ cut \subseteq CreationKeys /\ orphaned \subseteq Records
  BY LinkedTypes DEF LinkedIInv, LinkedBase
<1>2. Making(c) /\ linker[c].step # "idle"
  BY DEF CreateRecord, CreateRecordThrows, NoteFails, NoteTarget, RecordFailed, Linking, Making
<1>3. /\ KeyOf(c) \in CreationKeys
      /\ attempt[KeyOf(c)] = [status |-> "PENDING", target |-> NoRecord]
      /\ Linking(c, "note") => linker[c].record \in Records /\ birth[linker[c].record] = KeyOf(c)
  BY <1>2 DEF LinkedIInv, LinkedBase, CallsSound, OneMaker
<1>4. CASE CreateRecord(c)
  <2>1. PICK r \in Records : /\ birth[r] = "none" /\ birth' = [birth EXCEPT ![r] = KeyOf(c)]
                             /\ Advance(c, "note", r)
    BY <1>4 DEF CreateRecord
  <2>2. /\ linker' \in [Linkers -> LinkerRows]
        /\ \A o \in Linkers \ {c} : linker'[o] = linker[o]
        /\ linker'[c].step = "note" /\ linker'[c].key = KeyOf(c) /\ linker'[c].record = r
    BY <1>1, <2>1, CallMoves DEF Steps
  <2>3. UNCHANGED <<attempt, link, orphaned, cut>> /\ ~Linking(c, "note")
    BY <1>4 DEF CreateRecord, Linking
  <2>4. /\ birth' \in [Records -> CreationKeys \cup {"none", "other"}]
        /\ birth'[r] = KeyOf(c) /\ \A o \in Records \ {r} : birth'[o] = birth[o]
    BY <1>1, <1>3, <2>1
  <2>5. QED
    BY <1>1, <1>2, <2>1, <2>2, <2>3, <2>4, MakerGoesOn
<1>5. CASE CreateRecordThrows(c)
  <2>1. /\ linker' \in [Linkers -> LinkerRows]
        /\ \A o \in Linkers \ {c} : linker'[o] = linker[o]
        /\ linker'[c].step = "fail" /\ linker'[c].key = KeyOf(c)
    BY <1>1, <1>5, CallMoves DEF Steps, CreateRecordThrows
  <2>2. UNCHANGED <<attempt, link, cut>> /\ ~Linking(c, "note")
    BY <1>5 DEF CreateRecordThrows, Linking
  <2>3. /\ birth' \in [Records -> CreationKeys \cup {"none", "other"}]
        /\ orphaned' \subseteq Records /\ orphaned \subseteq orphaned'
        /\ \A r \in Records : birth[r] # "none" => birth'[r] = birth[r]
        /\ \A r \in Records : birth[r] = "none" => r \in orphaned' \/ birth'[r] = "none"
    <3>1. CASE UNCHANGED <<birth, orphaned>>
      BY <1>1, <3>1
    <3>2. CASE \E r \in Records : /\ birth[r] = "none"
                                  /\ birth' = [birth EXCEPT ![r] = KeyOf(c)]
                                  /\ orphaned' = orphaned \cup {r}
      BY <1>1, <1>3, <3>2
    <3>3. QED
      BY <1>5, <3>1, <3>2 DEF CreateRecordThrows
  <2>4. QED
    BY <1>1, <1>2, <2>1, <2>2, <2>3, MakerGoesOn
<1>6. CASE NoteFails(c)
  <2>1. /\ linker' \in [Linkers -> LinkerRows]
        /\ \A o \in Linkers \ {c} : linker'[o] = linker[o]
        /\ linker'[c].step = "fail" /\ linker'[c].key = KeyOf(c)
    BY <1>1, <1>6, CallMoves DEF Steps, NoteFails
  <2>2. /\ UNCHANGED <<attempt, link, birth, cut>> /\ Linking(c, "note")
        /\ orphaned' = orphaned \cup {linker[c].record}
    BY <1>6 DEF NoteFails
  <2>3. QED
    BY <1>1, <1>2, <1>3, <2>1, <2>2, MakerGoesOn
<1>7. CASE NoteTarget(c)
  <2> DEFINE a == [status |-> "TARGET_CREATED", target |-> linker[c].record]
  <2>1. /\ Linking(c, "note") /\ attempt' = [attempt EXCEPT ![KeyOf(c)] = a]
        /\ Advance(c, "link", linker[c].record) /\ UNCHANGED <<link, birth, orphaned, cut>>
    BY <1>7 DEF NoteTarget, Noted
  <2>2. /\ linker' \in [Linkers -> LinkerRows]
        /\ \A o \in Linkers \ {c} : linker'[o] = linker[o]
        /\ linker'[c].step = "link" /\ linker'[c].key = KeyOf(c)
        /\ linker'[c].record = linker[c].record
    BY <1>1, <1>3, <2>1, CallMoves DEF Steps
  <2>3. /\ a \in Attempts /\ a.status = "TARGET_CREATED" /\ a.target = linker[c].record
        /\ a.target # NoRecord
    BY <1>3, <2>1, LinkedCreationAssumption DEF Attempts, AttemptStatuses
  <2> HIDE DEF a
  <2>4. QED
    BY <1>1, <1>2, <1>3, <2>1, <2>2, <2>3, MakerEnds
<1>8. CASE RecordFailed(c)
  <2> DEFINE a == [status |-> "FAILED", target |-> NoRecord]
  <2>1. /\ ~Linking(c, "note") /\ attempt' = [attempt EXCEPT ![KeyOf(c)] = a]
        /\ Done(c) /\ UNCHANGED <<link, birth, orphaned, cut>>
    <3>1. Failed(attempt[KeyOf(c)]) = a
      BY <1>3 DEF Failed
    <3> HIDE DEF a
    <3>2. attempt' = [attempt EXCEPT ![KeyOf(c)] = a]
      BY <1>8, <3>1 DEF RecordFailed
    <3>3. QED
      BY <1>8, <3>2 DEF RecordFailed, Linking
  <2>2. /\ linker' \in [Linkers -> LinkerRows] /\ linker'[c].step = "idle"
        /\ \A o \in Linkers \ {c} : linker'[o] = linker[o]
    BY <1>1, <2>1, CallMoves
  <2>3. a \in Attempts /\ a.status = "FAILED" /\ a.target = NoRecord
    BY DEF Attempts, AttemptStatuses
  <2> HIDE DEF a
  <2>4. QED
    BY <1>1, <1>2, <2>1, <2>2, <2>3, MakerEnds
<1>9. QED
  BY <1>4, <1>5, <1>6, <1>7, <1>8

LEMMA LinkerStops ==
  ASSUME LinkedIInv, NEW c \in Linkers, StopLinker(c)
  PROVE  LinkedIInv'
<1>1. /\ attempt \in [CreationKeys -> Attempts] /\ linker \in [Linkers -> LinkerRows]
      /\ cut \subseteq CreationKeys /\ orphaned \subseteq Records
  BY LinkedTypes DEF LinkedIInv, LinkedBase
<1>2. /\ linker' \in [Linkers -> LinkerRows] /\ linker'[c].step = "idle"
      /\ \A o \in Linkers \ {c} : linker'[o] = linker[o]
  BY <1>1, CallMoves DEF StopLinker
<1>3. /\ KeyOf(c) \in CreationKeys
      /\ Linking(c, "note") => linker[c].record \in Records
  BY DEF LinkedIInv, CallsSound, StopLinker
<1>4. UNCHANGED <<attempt, link, birth>>
  BY DEF StopLinker
<1>5. CASE Making(c)
  <2> DEFINE a == attempt[KeyOf(c)]
  <2>1. /\ a \in Attempts /\ a.status = "PENDING" /\ a.target = NoRecord
        /\ attempt' = [attempt EXCEPT ![KeyOf(c)] = a]
    BY <1>1, <1>3, <1>4, <1>5 DEF LinkedIInv, LinkedBase, OneMaker
  <2>2. /\ cut' = cut \cup {KeyOf(c)} /\ orphaned' \subseteq Records
        /\ orphaned \subseteq orphaned'
        /\ Linking(c, "note") => linker[c].record \in orphaned'
    BY <1>1, <1>3, <1>5 DEF StopLinker, Making
  <2> HIDE DEF a
  <2>3. QED
    BY <1>1, <1>2, <1>3, <1>4, <1>5, <2>1, <2>2, MakerEnds
<1>6. CASE ~Making(c)
  <2>1. UNCHANGED <<orphaned, cut>>
    BY <1>6 DEF StopLinker, Making, Linking
  <2>2. QED
    BY <1>1, <1>2, <1>4, <1>6, <2>1, QuietMove
<1>7. QED
  BY <1>5, <1>6

LEMMA RecordSteps ==
  ASSUME LinkedIInv, NEW r \in Records, LinkExisting(r) \/ Unlink(r)
  PROVE  LinkedIInv'
<1>1. /\ link \in [Records -> Links]
      /\ birth \in [Records -> CreationKeys \cup {"none", "other"}]
  BY LinkedTypes DEF LinkedIInv, LinkedBase
<1>2. link[r] \in Links
  BY <1>1
<1>3. CASE LinkExisting(r)
  <2>1. /\ link' = [link EXCEPT ![r] = [state |-> "LIVE", key |-> link[r].key]]
        /\ birth' = [birth EXCEPT ![r] = IF @ = "none" THEN "other" ELSE @]
        /\ UNCHANGED <<attempt, linker, orphaned, cut>>
    BY <1>1, <1>3 DEF LinkExisting, WriteLink
  <2>2. [state |-> "LIVE", key |-> link[r].key] \in Links
    BY <1>2 DEF Links
  <2>3. link' \in [Records -> Links] /\ \A o \in Records : link'[o].key = link[o].key
    BY <1>1, <2>1, <2>2
  <2>4. QED
    BY <1>1, <2>1, <2>3, KeysKept
<1>4. CASE Unlink(r)
  <2>1. /\ link' = [link EXCEPT ![r].state = "REMOVED"]
        /\ UNCHANGED <<attempt, birth, linker, orphaned, cut>>
    BY <1>4 DEF Unlink
  <2>2. link' \in [Records -> Links] /\ \A o \in Records : link'[o].key = link[o].key
    BY <1>1, <1>2, <2>1 DEF Links
  <2>3. QED
    BY <1>1, <2>1, <2>2, KeysKept
<1>5. QED
  BY <1>3, <1>4

LEMMA LinkedStep == LinkedIInv /\ [LinkedNext]_linkedVars => LinkedIInv'
<1> SUFFICES ASSUME LinkedIInv, [LinkedNext]_linkedVars PROVE LinkedIInv'
  OBVIOUS
<1>1. CASE UNCHANGED linkedVars
  BY <1>1 DEF linkedVars, LinkedIInv, LinkedBase, LinkedTypeOK, OneMaker, PendingHasMaker,
     LinkFollowsAttempt, CallsSound, TargetsSound, BirthsKnown, Making, KeyOf, Linking
<1>2. CASE LinkedNext
  BY <1>2, ClaimSteps, MakerSteps, LinkerStops, RecordSteps, LinkPersisted, AttemptCompleted
     DEF LinkedNext
<1>3. QED
  BY <1>1, <1>2

(***************************************************************************)
(* Two records under a key: the first was orphaned.                        *)
(***************************************************************************)
LEMMA OneRecordPerKey == LinkedIInv => DuplicatesNeedFault
<1> SUFFICES ASSUME LinkedIInv, NEW k \in CreationKeys
             PROVE  Cardinality({r \in Records \ orphaned : birth[r] = k}) <= 1
  BY DEF DuplicatesNeedFault
<1> DEFINE S == {r \in Records \ orphaned : birth[r] = k}
<1>1. ASSUME NEW r \in S, NEW q \in S PROVE r = q
  <2>1. CASE attempt[k].target # NoRecord
    <3>1. \A o \in Linkers : Making(o) => KeyOf(o) # k
      BY <2>1 DEF LinkedIInv, LinkedBase, OneMaker
    <3>2. QED
      BY <3>1 DEF LinkedIInv, BirthsKnown, Making, Linking
  <2>2. CASE attempt[k].target = NoRecord
    <3>1. PICK c \in Linkers : Linking(c, "note") /\ linker[c].record = r /\ KeyOf(c) = k
      BY <2>2, LinkedCreationAssumption DEF LinkedIInv, BirthsKnown
    <3>2. PICK d \in Linkers : Linking(d, "note") /\ linker[d].record = q /\ KeyOf(d) = k
      BY <2>2, LinkedCreationAssumption DEF LinkedIInv, BirthsKnown
    <3>3. c = d
      BY <3>1, <3>2 DEF LinkedIInv, LinkedBase, OneMaker, Making, Linking
    <3>4. QED
      BY <3>1, <3>2, <3>3
  <2>3. QED
    BY <2>1, <2>2
<1> HIDE DEF S
<1>2. CASE S = {}
  BY <1>2, FS_EmptySet DEF S
<1>3. CASE S # {}
  <2>1. PICK r : r \in S
    BY <1>3
  <2>2. S = {r}
    BY <1>1, <2>1
  <2>3. Cardinality(S) = 1
    BY <2>2, FS_Singleton
  <2>4. QED
    BY <2>3 DEF S
<1>4. QED
  BY <1>2, <1>3

\* Whatever calls retry, stop or fail: no two calls with one key create at the
\* same time, a second record of a key means that the first could not be
\* noted, a pending attempt without a maker means one that stopped, and links
\* and attempts name the same record (createIdempotent).
THEOREM LinkedSafe == LinkedSpec => []LinkedInv
<1>1. LinkedIInv => LinkedInv
  BY OneRecordPerKey DEF LinkedInv, LinkedIInv, LinkedBase
<1>2. QED
  BY LinkedInitInv, LinkedStep, <1>1, PTL DEF LinkedSpec

=============================================================================
