------------------------- MODULE NotificationTemplates -------------------------
(***************************************************************************)
(* The versions of the template of one event, channel and locale           *)
(* (src/notification-core/notification-admin.service.ts).                  *)
(*                                                                         *)
(* A version that becomes active takes the others out in one statement and *)
(* is written in another, in a READ COMMITTED transaction.  Deliveries use *)
(* the newest active version                                               *)
(* (NotificationPublication takes it as given).                            *)
(***************************************************************************)
EXTENDS Naturals, FiniteSets

CONSTANTS Editors, MaxTemplates

ASSUME TemplatesAssumption == MaxTemplates \in Nat

VARIABLES latest,   \* the newest version
          active,   \* the active versions
          editor,   \* the transactions in flight
          late      \* history: versions made active after another transaction
                    \* committed since they took the others out

templateVars == <<latest, active, editor, late>>

Versions == 1..MaxTemplates
NoEdit   == [step |-> "idle", version |-> 0, activates |-> FALSE, seen |-> {},
             overtaken |-> FALSE]

TemplatesTypeOK ==
  /\ latest \in 0..MaxTemplates
  /\ active \subseteq 1..latest /\ late \subseteq active
  /\ editor \in [Editors ->
       [step : {"idle", "numbered", "cleared"}, version : 0..MaxTemplates,
        activates : BOOLEAN, seen : SUBSET Versions, overtaken : BOOLEAN]]

TemplatesInit ==
  /\ latest = 0 /\ active = {} /\ late = {}
  /\ editor = [e \in Editors |-> NoEdit]

NextNumber == latest + 1

\* createTemplate, updateTemplate: the number of the new version
NumberTemplate(e) ==
  /\ editor[e].step = "idle" /\ latest < MaxTemplates
  /\ \E activates \in BOOLEAN :
       editor' = [editor EXCEPT ![e] =
         [NoEdit EXCEPT !.step = IF activates THEN "numbered" ELSE "cleared",
                        !.version = NextNumber, !.activates = activates]]
  /\ UNCHANGED <<latest, active, late>>

\* activateTemplate: any version there is
ChooseTemplate(e) ==
  /\ editor[e].step = "idle"
  /\ \E v \in 1..latest :
       editor' = [editor EXCEPT ![e] =
         [NoEdit EXCEPT !.step = "numbered", !.version = v, !.activates = TRUE]]
  /\ UNCHANGED <<latest, active, late>>

\* Mutant: the newest of the active versions is taken out.
SeenActiveNewest == {v \in active : \A o \in active : o <= v}

\* What the statement that takes the others out finds: what is committed
SeenActive == active

ClearActive(e) ==
  /\ editor[e].step = "numbered"
  /\ editor' = [editor EXCEPT ![e].step = "cleared", ![e].seen = SeenActive]
  /\ UNCHANGED <<latest, active, late>>

\* The unique number of a version
FreeNumber(v) == v = latest + 1

Overtake(e) ==
  [o \in Editors |-> IF o = e THEN NoEdit
                     ELSE IF editor[o].step = "cleared" THEN [editor[o] EXCEPT !.overtaken = TRUE]
                     ELSE editor[o]]

\* The version is written, and the transaction commits.
CommitTemplate(e) ==
  LET t == editor[e]
      on == IF t.activates THEN {t.version} ELSE {}
  IN
  /\ t.step = "cleared"
  /\ t.version <= latest \/ FreeNumber(t.version)
  /\ latest' = IF t.version > latest THEN t.version ELSE latest
  /\ active' = (active \ t.seen) \cup on
  /\ late' = ((late \ t.seen) \ on) \cup (IF t.overtaken THEN on ELSE {})
  /\ editor' = Overtake(e)

DropEdit(e) ==
  /\ editor[e].step # "idle"
  /\ editor' = [editor EXCEPT ![e] = NoEdit]
  /\ UNCHANGED <<latest, active, late>>

\* removeTemplate
RemoveTemplate(v) ==
  /\ v \in 1..latest
  /\ active' = active \ {v} /\ late' = late \ {v}
  /\ UNCHANGED <<latest, editor>>

TemplatesNext ==
  \/ \E e \in Editors : \/ NumberTemplate(e) \/ ChooseTemplate(e) \/ ClearActive(e)
                        \/ CommitTemplate(e) \/ DropEdit(e)
  \/ \E v \in Versions : RemoveTemplate(v)

TemplatesSpec == TemplatesInit /\ [][TemplatesNext]_templateVars

-----------------------------------------------------------------------------
(* Properties                                                              *)

\* Two versions are active at once only when one of them was made active by
\* a transaction that another overtook after it took the others out
\* (notification-admin.service.ts:158, :168).
OneActive == \A v, w \in active \ late : v = w

\* One version of a template is active, under any edits and activations that do
\* not overtake each other.
TemplatesInv == TemplatesTypeOK /\ OneActive
=============================================================================
