----------------------------- MODULE Entitlements -----------------------------
(***************************************************************************)
(* Plans, subscriptions and overrides behind one feature of one            *)
(* organization, and the cache of the answers of one process               *)
(* (src/entitlements/platform-entitlements.service.ts,                     *)
(* entitlement.service.ts).                                                *)
(*                                                                         *)
(* The cache has no invalidation of its own: its key holds the entitlement *)
(* version of the organization, which every change increments, and an      *)
(* answer that time can change is good until that time only.               *)
(***************************************************************************)
EXTENDS Integers, FiniteSets

CONSTANTS Subs, Plans, Resolvers, Movers, NoSub, NoPlan,
          MaxVersion,  \* bound of the entitlement version
          LastHour     \* bound of the clock; nothing reaches the hour after it

ASSUME EntitlementsAssumption ==
  /\ NoSub \notin Subs /\ NoPlan \notin Plans
  /\ MaxVersion \in Nat \ {0} /\ LastHour \in Nat

VARIABLES hour,
          plan,        \* the feature in each plan
          sub,         \* the subscriptions of the organization
          override,    \* OrganizationEntitlement of the feature
          version,     \* Organization.entitlementVersion
          cache,       \* the cached answers, by version
          resolver,    \* the calls of resolve
          mover,       \* the calls of transition
          change,      \* the change of a plan in flight, or none
          overlooked   \* history: a change of the plan reached a subscription
                       \* made after its subscribers were read, in this version

entitlementVars == <<hour, plan, sub, override, version, cache, resolver, mover, change,
                     overlooked>>

Statuses == {"NONE", "PENDING", "ACTIVE", "SUSPENDED", "CANCELLED", "EXPIRED"}
Standing == {"PENDING", "ACTIVE", "SUSPENDED"}
PlanStates == {"ON", "OFF", "RETIRED"}
Hours == 0..(LastHour + 1)
Terms == {t \in Hours \X Hours : t[1] < t[2]}

\* A subscription is its status, plan, first hour and first hour after the
\* term and its grace.
Subscriptions == [status : Statuses, plan : Plans \cup {NoPlan}, term : Terms]
NoSubscription    == [status |-> "NONE", plan |-> NoPlan, term |-> <<0, LastHour + 1>>]
Answers  == [found : BOOLEAN, enabled : BOOLEAN, until : Hours]
NoAnswer == [found |-> FALSE, enabled |-> FALSE, until |-> 0]
IdleResolver == [step |-> "idle", version |-> 1, now |-> 0, row |-> NoSubscription, plan |-> "OFF"]
IdleMover    == [sub |-> NoSub, seen |-> "NONE"]
NoChange     == [plan |-> NoPlan, to |-> "OFF", reaches |-> FALSE, overlap |-> FALSE]

EntitlementsTypeOK ==
  /\ hour \in 0..LastHour
  /\ plan \in [Plans -> PlanStates]
  /\ sub \in [Subs -> Subscriptions]
  /\ override \in {"NONE", "ENABLED", "DISABLED"}
  /\ version \in 1..MaxVersion
  /\ cache \in [1..MaxVersion -> Answers]
  /\ resolver \in [Resolvers -> [step : {"idle", "versioned", "subscribed"},
                                 version : 1..MaxVersion, now : 0..LastHour,
                                 row : Subscriptions, plan : PlanStates]]
  /\ mover \in [Movers -> [sub : Subs \cup {NoSub}, seen : Statuses]]
  /\ change \in [plan : Plans \cup {NoPlan}, to : PlanStates, reaches : BOOLEAN,
                 overlap : BOOLEAN]
  /\ overlooked \in BOOLEAN

EntitlementsInit ==
  /\ hour = 0 /\ version = 1 /\ override = "NONE"
  /\ plan = [p \in Plans |-> "ON"]
  /\ sub = [s \in Subs |-> NoSubscription]
  /\ cache = [v \in 1..MaxVersion |-> NoAnswer]
  /\ resolver = [r \in Resolvers |-> IdleResolver]
  /\ mover = [m \in Movers |-> IdleMover]
  /\ change = NoChange /\ overlooked = FALSE

StandingSubs == {s \in Subs : sub[s].status \in Standing}

\* The subscription resolve finds, and the feature in its plan
CurrentRow == IF StandingSubs = {} THEN NoSubscription ELSE sub[CHOOSE s \in StandingSubs : TRUE]
OnPlan(row) == IF row.plan = NoPlan THEN "OFF" ELSE plan[row.plan]

History == \E s \in Subs : sub[s].status # "NONE"

-----------------------------------------------------------------------------
(* resolve                                                                 *)

\* The answer from a subscription, the state of its plan, the override and
\* whether there is any subscription of the organization.
Enabled(row, on, over, history, now) ==
  IF row.status = "NONE" THEN ~history /\ over # "DISABLED"
  ELSE /\ row.status = "ACTIVE" /\ row.term[1] <= now /\ now < row.term[2]
       /\ IF over = "NONE" THEN on = "ON" ELSE over = "ENABLED"

\* Mutant: what has not started is cached like what has ended.
ValidUntilEnd(row, now) ==
  IF row.status = "ACTIVE" /\ row.term[1] <= now /\ now < row.term[2] THEN row.term[2]
  ELSE LastHour + 1

\* validUntil: the next hour that changes the answer
ValidUntil(row, now) ==
  IF row.status # "ACTIVE" THEN LastHour + 1
  ELSE IF now < row.term[1] THEN row.term[1]
  ELSE IF now < row.term[2] THEN row.term[2] ELSE LastHour + 1

\* The version is read first, and is the key of what is cached last.
\* A hit ends the call.
ReadVersion(r) ==
  /\ resolver[r].step = "idle"
  /\ ~(cache[version].found /\ hour < cache[version].until)
  /\ resolver' = [resolver EXCEPT ![r] =
       [IdleResolver EXCEPT !.step = "versioned", !.version = version, !.now = hour]]
  /\ UNCHANGED <<hour, plan, sub, override, version, cache, mover, change, overlooked>>

ReadSubscription(r) ==
  /\ resolver[r].step = "versioned"
  /\ resolver' = [resolver EXCEPT ![r] =
       [@ EXCEPT !.step = "subscribed", !.row = CurrentRow, !.plan = OnPlan(CurrentRow)]]
  /\ UNCHANGED <<hour, plan, sub, override, version, cache, mover, change, overlooked>>

\* The override and the history of subscriptions, then the answer
Answer(r) ==
  LET c == resolver[r] IN
  /\ c.step = "subscribed"
  /\ cache' = [cache EXCEPT ![c.version] =
       [found |-> TRUE, enabled |-> Enabled(c.row, c.plan, override, History, c.now),
        until |-> ValidUntil(c.row, c.now)]]
  /\ resolver' = [resolver EXCEPT ![r] = IdleResolver]
  /\ UNCHANGED <<hour, plan, sub, override, version, mover, change, overlooked>>

\* The five minutes of an entry are over, or the process started anew.
Forget ==
  /\ \E v \in 1..MaxVersion : cache[v].found /\ cache' = [cache EXCEPT ![v] = NoAnswer]
  /\ UNCHANGED <<hour, plan, sub, override, version, resolver, mover, change, overlooked>>

-----------------------------------------------------------------------------
(* Changes                                                                 *)

\* bump: a new version, whose answers are all to come
BumpVersion == version < MaxVersion /\ version' = version + 1 /\ overlooked' = FALSE

\* The partial unique index: no other subscription stands.
Room(s) == \A o \in Subs \ {s} : sub[o].status \notin Standing

\* Every write of a subscription: the version, and a change of its plan in
\* flight may have missed it.
WriteSub(s, row) ==
  /\ row.status \in Standing => Room(s)
  /\ sub' = [sub EXCEPT ![s] = row]
  /\ change' = [change EXCEPT !.overlap = @ \/ change.plan # NoPlan]
  /\ BumpVersion
  /\ UNCHANGED <<hour, plan, override, cache, resolver>>

\* createSubscription, and backfill of the maintenance tool
CreateSubscription(s) ==
  /\ sub[s].status = "NONE" /\ StandingSubs = {}
  /\ \E p \in Plans, term \in Terms, status \in {"PENDING", "ACTIVE"} :
       plan[p] # "RETIRED" /\ WriteSub(s, [status |-> status, plan |-> p, term |-> term])
  /\ UNCHANGED mover

\* updateSubscription: plan and dates, whatever the status
UpdateSubscription(s) ==
  /\ sub[s].status # "NONE"
  /\ \E p \in Plans, term \in Terms :
       /\ p = sub[s].plan \/ plan[p] # "RETIRED"
       /\ WriteSub(s, [sub[s] EXCEPT !.plan = p, !.term = term])
  /\ UNCHANGED mover

\* Mutant: an expired subscription may be taken up again.
AllowedMovesRenewal(from) ==
  CASE from = "PENDING"   -> {"ACTIVE", "CANCELLED"}
    [] from = "ACTIVE"    -> {"SUSPENDED", "CANCELLED", "EXPIRED"}
    [] from = "SUSPENDED" -> {"ACTIVE", "CANCELLED", "EXPIRED"}
    [] from = "EXPIRED"   -> {"ACTIVE"}
    [] OTHER -> {}

\* TRANSITIONS
AllowedMoves(from) ==
  CASE from = "PENDING"   -> {"ACTIVE", "CANCELLED"}
    [] from = "ACTIVE"    -> {"SUSPENDED", "CANCELLED", "EXPIRED"}
    [] from = "SUSPENDED" -> {"ACTIVE", "CANCELLED", "EXPIRED"}
    [] OTHER -> {}

\* transition: the row is read before the lock is waited for,
ReadForTransition(m) ==
  /\ mover[m] = IdleMover
  /\ \E s \in Subs : /\ sub[s].status # "NONE"
                     /\ mover' = [mover EXCEPT ![m] = [sub |-> s, seen |-> sub[s].status]]
  /\ UNCHANGED <<hour, plan, sub, override, version, cache, resolver, change, overlooked>>

\* and what was read then is what the table is asked about.
TransitionSubscription(m) ==
  LET s == mover[m].sub IN
  /\ s \in Subs
  /\ \E status \in AllowedMoves(mover[m].seen) :
       status # mover[m].seen /\ WriteSub(s, [sub[s] EXCEPT !.status = status])
  /\ mover' = [mover EXCEPT ![m] = IdleMover]

\* Refused by the table or the index, nothing to change, or stopped
DropTransition(m) ==
  /\ mover[m].sub \in Subs
  /\ mover' = [mover EXCEPT ![m] = IdleMover]
  /\ UNCHANGED <<hour, plan, sub, override, version, cache, resolver, change, overlooked>>

\* setFeature, updatePlan: the subscribers of the plan are read, under the
\* lock of its row,
ReadSubscribers ==
  /\ change = NoChange
  /\ \E p \in Plans, to \in PlanStates :
       /\ to # plan[p]
       /\ change' = [plan |-> p, to |-> to, overlap |-> FALSE,
                     reaches |-> \E s \in StandingSubs : sub[s].plan = p]
  /\ UNCHANGED <<hour, plan, sub, override, version, cache, resolver, mover, overlooked>>

\* bumpPlanSubscribers, as the transaction commits
BumpOfSubscribers ==
  IF change.reaches THEN BumpVersion
  ELSE UNCHANGED version /\ overlooked' = (overlooked \/ change.overlap)

CommitPlanChange ==
  /\ change # NoChange
  /\ plan' = [plan EXCEPT ![change.plan] = change.to]
  /\ BumpOfSubscribers
  /\ change' = NoChange
  /\ UNCHANGED <<hour, sub, override, cache, resolver, mover>>

\* setOverride, removeOverride
SetOverride ==
  /\ \E o \in {"NONE", "ENABLED", "DISABLED"} \ {override} : override' = o
  /\ BumpVersion
  /\ UNCHANGED <<hour, plan, sub, cache, resolver, mover, change>>

HourPasses ==
  /\ hour < LastHour /\ hour' = hour + 1
  /\ UNCHANGED <<plan, sub, override, version, cache, resolver, mover, change, overlooked>>

EntitlementsNext ==
  \/ \E r \in Resolvers : ReadVersion(r) \/ ReadSubscription(r) \/ Answer(r)
  \/ \E s \in Subs : CreateSubscription(s) \/ UpdateSubscription(s)
  \/ \E m \in Movers : ReadForTransition(m) \/ TransitionSubscription(m) \/ DropTransition(m)
  \/ ReadSubscribers \/ CommitPlanChange \/ SetOverride \/ Forget \/ HourPasses

EntitlementsSpec == EntitlementsInit /\ [][EntitlementsNext]_entitlementVars

-----------------------------------------------------------------------------
(* Properties                                                              *)

\* An answer cached under the current version, as long as it is taken for
\* valid, is what a resolution at one instant would give: a resolution that
\* straddles a change leaves its answer under a version nobody asks for, and
\* time makes no answer wrong before it makes it invalid
\* (entitlement.service.ts:23, :51).  The exception is a subscription that
\* comes to a plan while a change of the plan is between reading its
\* subscribers and its commit.
CachedIsTrue ==
  LET e == cache[version] IN
  e.found /\ hour < e.until /\ ~overlooked =>
    e.enabled = Enabled(CurrentRow, OnPlan(CurrentRow), override, History, hour)

\* One subscription at most stands, also when an ended one is taken up by a
\* transition that had read it before it ended, after another was made
\* (platform-entitlements.service.ts:39, :55).
OneCurrent == \A s, o \in StandingSubs : s = o

\* A subscription that ended comes back only by a transition that read it
\* before it ended.
EndedUnlessOvertaken ==
  [][\A s \in Subs :
       sub[s].status \in {"CANCELLED", "EXPIRED"} /\ sub'[s].status \in Standing =>
         \E m \in Movers : mover[m].sub = s /\ mover[m].seen \in Standing]_entitlementVars

\* One subscription stands at a time, and what is cached of it is true.
EntitlementsInv == EntitlementsTypeOK /\ CachedIsTrue /\ OneCurrent
=============================================================================
