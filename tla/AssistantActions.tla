-------------------------- MODULE AssistantActions --------------------------
(***************************************************************************)
(* The confirmation of an action the assistant proposed                    *)
(* (src/crm-assistant/crm-assistant-actions.service.ts).                   *)
(*                                                                         *)
(* A signed token may be confirmed any number of times, at once and by     *)
(* several replicas.  A row of AssistantActionExecution, unique by the     *)
(* nonce of the token, is the claim; the entity is created by another      *)
(* service in transactions of its own, and the outcome is recorded after   *)
(* it.  Any step may fail, and the process may stop between any two.       *)
(***************************************************************************)
EXTENDS Naturals

CONSTANTS Tokens, Confirmations, NoToken

ASSUME AssistantAssumption == NoToken \notin Tokens

VARIABLES execution,  \* status of the execution row, by nonce
          created,    \* entities created under each nonce
          informed,   \* tokens whose user was told of the success
          expired,    \* tokens past their five minutes
          confirm,    \* the calls of confirm
          harmed      \* history: tokens of a call that stopped or could not record

assistantVars == <<execution, created, informed, expired, confirm, harmed>>

IdleConfirm == [step |-> "idle", token |-> NoToken]

AssistantTypeOK ==
  /\ execution \in [Tokens -> {"NONE", "EXECUTING", "SUCCEEDED", "REQUIRES_RECONCILIATION"}]
  /\ created \in [Tokens -> Nat]
  /\ informed \subseteq Tokens /\ expired \subseteq Tokens /\ harmed \subseteq Tokens
  /\ confirm \in [Confirmations -> [step : {"idle", "claimed", "created", "failed"},
                                    token : Tokens \cup {NoToken}]]

AssistantInit ==
  /\ execution = [t \in Tokens |-> "NONE"]
  /\ created = [t \in Tokens |-> 0]
  /\ informed = {} /\ expired = {} /\ harmed = {}
  /\ confirm = [c \in Confirmations |-> IdleConfirm]

Reached(c, step) == confirm[c].step = step /\ confirm[c].token \in Tokens
Proceed(c, step) == confirm' = [confirm EXCEPT ![c].step = step]
Finish(c)      == confirm' = [confirm EXCEPT ![c] = IdleConfirm]

-----------------------------------------------------------------------------
(* claimExecution                                                          *)

\* Mutant: an execution in reconciliation is run again.
ClaimableAgain(t) == execution[t] \in {"NONE", "REQUIRES_RECONCILIATION"}

\* The insert succeeds: no row has the nonce.
Claimable(t) == execution[t] = "NONE"

Claim(c) ==
  /\ confirm[c].step = "idle"
  /\ \E t \in Tokens \ expired :
       /\ Claimable(t)
       /\ execution' = [execution EXCEPT ![t] = "EXECUTING"]
       /\ confirm' = [confirm EXCEPT ![c] = [step |-> "claimed", token |-> t]]
  /\ UNCHANGED <<created, informed, expired, harmed>>

\* The row is there: only a success is answered, from the stored result.
Replay(c) ==
  /\ confirm[c].step = "idle"
  /\ \E t \in Tokens \ expired :
       execution[t] = "SUCCEEDED" /\ informed' = informed \cup {t}
  /\ UNCHANGED <<execution, created, expired, confirm, harmed>>

-----------------------------------------------------------------------------
(* confirm, after the claim                                                *)

CreateEntity(c) ==
  LET t == confirm[c].token IN
  /\ Reached(c, "claimed")
  /\ created' = [created EXCEPT ![t] = @ + 1]
  /\ Proceed(c, "created")
  /\ UNCHANGED <<execution, informed, expired, harmed>>

\* The service throws: before the entity is there or, in what follows its
\* transaction, after.
CreateThrows(c) ==
  LET t == confirm[c].token IN
  /\ Reached(c, "claimed")
  /\ created' \in {created, [created EXCEPT ![t] = @ + 1]}
  /\ Proceed(c, "failed")
  /\ UNCHANGED <<execution, informed, expired, harmed>>

\* Mutant: the success is recorded without waiting for the entity.
PersistableEarly(c) == Reached(c, "claimed") \/ Reached(c, "created")

Persistable(c) == Reached(c, "created")

\* persistSuccess, then the audit: when that throws nobody is told.
PersistSuccess(c) ==
  LET t == confirm[c].token IN
  /\ Persistable(c) /\ execution[t] = "EXECUTING"
  /\ execution' = [execution EXCEPT ![t] = "SUCCEEDED"]
  /\ informed' \in {informed, informed \cup {t}}
  /\ Finish(c)
  /\ UNCHANGED <<created, expired, harmed>>

PersistFails(c) ==
  /\ Reached(c, "created")
  /\ Proceed(c, "failed")
  /\ UNCHANGED <<execution, created, informed, expired, harmed>>

\* markForReconciliation: the status it writes, created or not
Mark(t) == "REQUIRES_RECONCILIATION"

MarkForReconciliation(c) ==
  LET t == confirm[c].token IN
  /\ Reached(c, "failed") /\ execution[t] = "EXECUTING"
  /\ execution' = [execution EXCEPT ![t] = Mark(t)]
  /\ Finish(c)
  /\ UNCHANGED <<created, informed, expired, harmed>>

\* The process stops, or the mark itself fails and is swallowed.
StopConfirm(c) ==
  /\ confirm[c].step # "idle"
  /\ harmed' = harmed \cup {confirm[c].token}
  /\ Finish(c)
  /\ UNCHANGED <<execution, created, informed, expired>>

ExpireToken ==
  /\ \E t \in Tokens \ expired : expired' = expired \cup {t}
  /\ UNCHANGED <<execution, created, informed, confirm, harmed>>

AssistantNext ==
  \/ ExpireToken
  \/ \E c \in Confirmations :
       \/ Claim(c) \/ Replay(c) \/ CreateEntity(c) \/ CreateThrows(c) \/ PersistSuccess(c)
       \/ PersistFails(c) \/ MarkForReconciliation(c) \/ StopConfirm(c)

AssistantSpec == AssistantInit /\ [][AssistantNext]_assistantVars

-----------------------------------------------------------------------------
(* Properties                                                              *)

\* Whatever fails and however often a token is confirmed, one entity at most
\* is created under it, and nobody is told of one that is not there
\* (crm-assistant-actions.service.ts:365, "cannot create a duplicate").
Once == INSTANCE OncePerKey WITH Keys <- Tokens, made <- created, told <- informed

AssistantOnce == Once!OnceSpec

\* An execution recorded as a success has its entity.
SucceededCreated ==
  \A t \in Tokens : execution[t] = "SUCCEEDED" => created[t] = 1

\* An execution left in EXECUTING with no call at work, which blocks the
\* token for ever, is the trace of a process that stopped or of a mark that
\* failed, never of an error of the creation.
UnsettledOnlyByHarm ==
  \A t \in Tokens :
    execution[t] = "EXECUTING" =>
      t \in harmed \/ \E c \in Confirmations : confirm[c].token = t

\* The status of an execution and the entity under it agree, whatever call fails
\* where.
AssistantInv == AssistantTypeOK /\ SucceededCreated /\ UnsettledOnlyByHarm
=============================================================================
