-------------------------- MODULE FrontOffice_proofs --------------------------
(***************************************************************************)
(* Each part of the front office keeps its invariant for any number of     *)
(* rows and of calls in flight: the hierarchy of companies, questions to   *)
(* the assistant, the owners of a channel, files, meetings, the stages of  *)
(* the pipeline, the prices of products, the lines of an opportunity and   *)
(* the archive of companies.                                               *)
(***************************************************************************)
EXTENDS Pipeline, PriceList, OpportunityLines, CompanyTree, CompanyArchive,
        Conversations, Attachments, Meetings, FiniteSetTheorems, TLAPS

(***************************************************************************)
(* Hierarchies: the relations of a company, written under a walk that      *)
(* found no way, close no cycle.                                           *)
(***************************************************************************)
LEMMA NoWaySubset ==
  ASSUME NEW R, NEW Q, R \subseteq Q, NEW S, NEW P, NoWay(Q, S, P)
  PROVE  NoWay(R, S, P)
BY DEF NoWay

LEMMA WrittenFacts ==
  ASSUME NEW c, NEW P, NEW S, NEW x, NEW y
  PROVE  <<x, y>> \in Written(c, P, S) <=> (x \in P /\ y = c) \/ (x = c /\ y \in S)
BY DEF Written

\* A set of companies of which each has a subsidiary in the set
Cyclic(R, T) == T # {} /\ \A x \in T : \E y \in T : <<x, y>> \in R

\* What the walk has seen is closed under the old relations of the others: a
\* cycle through the company would have to leave it or meet a parent.
LEMMA NoCycleAfterEdit ==
  ASSUME NEW R, NEW c, NEW P, NEW S, NEW T \in SUBSET Companies,
         c \notin P \cup S,
         \A r \in R : c \notin {r[1], r[2]},
         NoWay(R, S, P),
         \A U \in SUBSET (T \ {c}) : ~Cyclic(R, U)
  PROVE  ~Cyclic(R \cup Written(c, P, S), T)
<1> DEFINE Q == R \cup Written(c, P, S)
<1> SUFFICES ASSUME Cyclic(Q, T) PROVE FALSE
  OBVIOUS
<1>1. PICK seen \in SUBSET Companies :
        /\ S \subseteq seen /\ P \cap seen = {}
        /\ \A r \in R : r[1] \in seen => r[2] \in seen
  BY DEF NoWay
<1>2. ASSUME NEW x, NEW y, <<x, y>> \in R
      PROVE  x # c /\ y # c /\ (x \in seen => y \in seen)
  <2>1. <<x, y>>[1] = x /\ <<x, y>>[2] = y
    OBVIOUS
  <2>2. QED
    BY <1>1, <1>2, <2>1
<1>3. ASSUME NEW x, NEW y, <<x, y>> \in Q
      PROVE  <<x, y>> \in R \/ (x \in P /\ y = c) \/ (x = c /\ y \in S)
  BY <1>3, WrittenFacts
<1> DEFINE U == (T \ {c}) \cap seen
<1>4. ASSUME NEW x \in U PROVE \E y \in U : <<x, y>> \in R
  <2>1. PICK y \in T : <<x, y>> \in Q
    BY DEF Cyclic
  <2>2. <<x, y>> \in R
    BY <1>1, <1>3, <2>1
  <2>3. QED
    BY <1>2, <2>1, <2>2
<1>5. U = {}
  <2>1. U \in SUBSET (T \ {c})
    OBVIOUS
  <2>2. QED
    BY <1>4, <2>1 DEF Cyclic
<1>6. CASE c \in T
  <2>1. PICK y \in T : <<c, y>> \in Q
    BY <1>6 DEF Cyclic
  <2>2. y \in S \/ (c \in P /\ y = c)
    BY <1>2, <1>3, <2>1
  <2>3. y = c
    BY <1>1, <1>5, <2>1, <2>2
  <2>4. QED
    BY <2>2, <2>3
<1>7. CASE c \notin T
  <2>1. ASSUME NEW x \in T PROVE \E y \in T : <<x, y>> \in R
    <3>1. PICK y \in T : <<x, y>> \in Q
      BY DEF Cyclic
    <3>2. QED
      BY <1>3, <1>7, <3>1
  <2>2. T \in SUBSET (T \ {c}) /\ T # {}
    BY <1>7 DEF Cyclic
  <2>3. QED
    BY <2>1, <2>2 DEF Cyclic
<1>8. QED
  BY <1>6, <1>7

(***************************************************************************)
(* The edits in flight.                                                    *)
(***************************************************************************)

\* What an edit found without a way has none as long as no relation came in,
\* and its deleteMany then found all there are.
EditHolds(w) ==
  w.pc # "idle" =>
    /\ w.company \in Companies
    /\ w.company \notin w.parents \cup w.subsidiaries
    /\ ~w.overtaken => NoWay(relations \ Touching(w.company), w.subsidiaries, w.parents)
    /\ ~w.overtaken /\ w.pc = "create" => Touching(w.company) \subseteq w.gone

TreeIInv == CompanyTreeInv /\ \A e \in Editors : EditHolds(edit[e])

LEMMA NoEditType == NoEdit \in TreeEdits /\ NoEdit.pc = "idle"
BY DEF NoEdit, TreeEdits, EditSteps

LEMMA TouchingFacts ==
  ASSUME NEW c
  PROVE  /\ Touching(c) \subseteq relations
         /\ \A r \in relations \ Touching(c) : c \notin {r[1], r[2]}
         /\ \A r \in Touching(c) : c \in {r[1], r[2]}
BY DEF Touching

LEMMA CyclesOutdatedAlt ==
  CyclesOutdated <=> \A S \in SUBSET (Companies \ outdated) : ~Cyclic(relations, S)
BY DEF CyclesOutdated, Cyclic, SubsidiariesOf

LEMMA TreeInitInv == CompanyTreeInit => TreeIInv
<1> SUFFICES ASSUME CompanyTreeInit PROVE TreeIInv
  OBVIOUS
<1>1. CompanyTreeTypeOK
  BY NoEditType DEF CompanyTreeInit, CompanyTreeTypeOK
<1>2. CyclesOutdated
  BY DEF CompanyTreeInit, CyclesOutdated, SubsidiariesOf
<1>3. \A e \in Editors : EditHolds(edit[e])
  BY NoEditType DEF CompanyTreeInit, EditHolds
<1>4. QED
  BY <1>1, <1>2, <1>3 DEF TreeIInv, CompanyTreeInv

\* A step of one edit that writes no relation keeps the rest.
LEMMA OneEdit ==
  ASSUME TreeIInv, NEW e \in Editors, NEW w \in TreeEdits, EditHolds(w),
         edit' = [edit EXCEPT ![e] = w], UNCHANGED <<relations, outdated>>
  PROVE  TreeIInv'
<1>1. \A f \in Editors : edit'[f] = IF f = e THEN w ELSE edit[f]
  BY DEF TreeIInv, CompanyTreeInv, CompanyTreeTypeOK
<1>2. CompanyTreeTypeOK'
  BY DEF TreeIInv, CompanyTreeInv, CompanyTreeTypeOK
<1>3. CyclesOutdated'
  BY DEF TreeIInv, CompanyTreeInv, CyclesOutdated, SubsidiariesOf
<1>4. ASSUME NEW f \in Editors PROVE EditHolds(edit[f])'
  <2>1. EditHolds(edit'[f])
    BY <1>1 DEF TreeIInv
  <2>2. QED
    BY <2>1 DEF EditHolds, Touching
<1>5. QED
  BY <1>2, <1>3, <1>4 DEF TreeIInv, CompanyTreeInv

LEMMA CreateTypes ==
  ASSUME TreeIInv, NEW e \in Editors, CreateRelations(e)
  PROVE  CompanyTreeTypeOK'
<1> DEFINE w == edit[e]
           new == Written(w.company, w.parents, w.subsidiaries)
<1>1. w \in TreeEdits /\ w.company \in Companies
  BY DEF TreeIInv, CompanyTreeInv, CompanyTreeTypeOK, CreateRelations, EditAt, EditHolds
<1>2. new \subseteq Companies \X Companies
  BY <1>1 DEF Written, TreeEdits
<1>3. relations' \subseteq Companies \X Companies
  BY <1>2 DEF TreeIInv, CompanyTreeInv, CompanyTreeTypeOK, CreateRelations
<1>4. outdated' \subseteq Companies
  BY <1>1 DEF TreeIInv, CompanyTreeInv, CompanyTreeTypeOK, CreateRelations
<1>5. ASSUME NEW f \in Editors
      PROVE  [edit[f] EXCEPT !.gone = @ \ w.gone, !.overtaken = @ \/ new # {}] \in TreeEdits
  <2>1. edit[f] \in TreeEdits
    BY DEF TreeIInv, CompanyTreeInv, CompanyTreeTypeOK
  <2>2. edit[f].gone \ w.gone \in SUBSET (Companies \X Companies)
    BY <2>1 DEF TreeEdits
  <2>3. QED
    BY <2>1, <2>2 DEF TreeEdits
<1>6. edit' \in [Editors -> TreeEdits]
  BY <1>5, NoEditType DEF CreateRelations
<1>7. QED
  BY <1>3, <1>4, <1>6 DEF CompanyTreeTypeOK

LEMMA CreateKeepsCycles ==
  ASSUME TreeIInv, NEW e \in Editors, CreateRelations(e)
  PROVE  CyclesOutdated'
<1> DEFINE w == edit[e]
           new == Written(w.company, w.parents, w.subsidiaries)
           kept == relations \ w.gone
<1>1. /\ w \in TreeEdits /\ w.company \in Companies
      /\ w.company \notin w.parents \cup w.subsidiaries
      /\ w.pc = "create" /\ relations' = kept \cup new
  BY DEF TreeIInv, CompanyTreeInv, CompanyTreeTypeOK, CreateRelations, EditAt, EditHolds
<1>2. \A S \in SUBSET (Companies \ outdated) : ~Cyclic(relations, S)
  BY CyclesOutdatedAlt DEF TreeIInv, CompanyTreeInv
<1>3. ASSUME NEW S \in SUBSET (Companies \ outdated')
      PROVE  ~Cyclic(relations', S)
  <2>1. CASE w.company \notin S
    <3>1. S \in SUBSET (Companies \ outdated)
      BY <2>1 DEF CreateRelations
    <3>2. \A x, y \in S : <<x, y>> \in relations' => <<x, y>> \in relations
      BY <1>1, <2>1, WrittenFacts
    <3>3. QED
      BY <1>2, <3>1, <3>2 DEF Cyclic
  <2>2. CASE w.company \in S
    <3>1. ~w.overtaken /\ outdated' = outdated \ {w.company}
      BY <1>1, <2>2 DEF CreateRelations
    <3>2. /\ NoWay(relations \ Touching(w.company), w.subsidiaries, w.parents)
          /\ Touching(w.company) \subseteq w.gone
      BY <1>1, <3>1 DEF TreeIInv, EditHolds
    <3>3. kept \subseteq relations \ Touching(w.company)
      BY <3>2
    <3>4. NoWay(kept, w.subsidiaries, w.parents)
      BY <3>2, <3>3, NoWaySubset
    <3>5. \A r \in kept : w.company \notin {r[1], r[2]}
      BY <3>3, TouchingFacts
    <3>6. ASSUME NEW U \in SUBSET (S \ {w.company}) PROVE ~Cyclic(kept, U)
      <4>1. U \in SUBSET (Companies \ outdated)
        BY <3>1
      <4>2. QED
        BY <1>2, <4>1 DEF Cyclic
    <3>7. S \in SUBSET Companies
      OBVIOUS
    <3>8. ~Cyclic(kept \cup new, S)
      BY <1>1, <3>4, <3>5, <3>6, <3>7, NoCycleAfterEdit
    <3>9. QED
      BY <1>1, <3>8
  <2>3. QED
    BY <2>1, <2>2
<1>4. QED
  BY <1>3 DEF CyclesOutdated, Cyclic, SubsidiariesOf

LEMMA CreateKeepsEdits ==
  ASSUME TreeIInv, NEW e \in Editors, CreateRelations(e), NEW f \in Editors
  PROVE  EditHolds(edit[f])'
<1> DEFINE w == edit[e]
           new == Written(w.company, w.parents, w.subsidiaries)
           v == [edit[f] EXCEPT !.gone = @ \ w.gone, !.overtaken = @ \/ new # {}]
           after == {r \in relations' : v.company \in {r[1], r[2]}}
<1>1. edit'[f] = IF f = e \/ EditAt(f, "idle") THEN NoEdit ELSE v
  BY DEF CreateRelations
<1>2. CASE f = e \/ EditAt(f, "idle")
  BY <1>1, <1>2, NoEditType DEF EditHolds
<1>3. CASE ~(f = e \/ EditAt(f, "idle"))
  <2>1. edit[f] \in TreeEdits /\ edit[f].pc # "idle" /\ EditHolds(edit[f])
    BY <1>3 DEF TreeIInv, CompanyTreeInv, CompanyTreeTypeOK, EditAt
  <2>2. /\ v.pc = edit[f].pc /\ v.company = edit[f].company /\ v.parents = edit[f].parents
        /\ v.subsidiaries = edit[f].subsidiaries /\ v.gone = edit[f].gone \ w.gone
        /\ v.overtaken = (edit[f].overtaken \/ new # {})
    BY <2>1 DEF TreeEdits
  <2>3. edit'[f] = v
    BY <1>1, <1>3
  <2>4. ASSUME ~v.overtaken
        PROVE  /\ ~edit[f].overtaken
               /\ relations' = relations \ w.gone
    BY <2>2, <2>4 DEF CreateRelations
  <2>5. ASSUME ~v.overtaken
        PROVE  after = Touching(v.company) \ w.gone
    BY <2>4, <2>5 DEF Touching
  <2>6. ASSUME ~v.overtaken
        PROVE  NoWay(relations' \ after, v.subsidiaries, v.parents)
    <3>1. relations' \ after \subseteq relations \ Touching(v.company)
      BY <2>4, <2>5, <2>6
    <3>2. NoWay(relations \ Touching(v.company), v.subsidiaries, v.parents)
      BY <2>1, <2>2, <2>4, <2>6 DEF EditHolds
    <3>3. QED
      BY <3>1, <3>2, NoWaySubset
  <2>7. ASSUME ~v.overtaken, v.pc = "create" PROVE after \subseteq v.gone
    <3>1. Touching(v.company) \subseteq edit[f].gone
      BY <2>1, <2>2, <2>4, <2>7 DEF EditHolds
    <3>2. QED
      BY <2>2, <2>5, <2>7, <3>1
  <2>8. v.company \in Companies /\ v.company \notin v.parents \cup v.subsidiaries
    BY <2>1, <2>2 DEF EditHolds
  <2>9. QED
    BY <2>3, <2>6, <2>7, <2>8 DEF EditHolds, Touching, NoWay
<1>4. QED
  BY <1>2, <1>3

LEMMA TreeStepInv == TreeIInv /\ [CompanyTreeNext]_treeVars => TreeIInv'
<1> SUFFICES ASSUME TreeIInv, [CompanyTreeNext]_treeVars PROVE TreeIInv'
  OBVIOUS
<1>1. ASSUME NEW e \in Editors, NEW c \in Companies, WalkHierarchy(e, c) PROVE TreeIInv'
  <2>1. PICK parents, subsidiaries \in SUBSET (Companies \ {c}) :
          /\ NoWay(relations \ Touching(c), subsidiaries, parents)
          /\ edit' = [edit EXCEPT ![e] =
               [NoEdit EXCEPT !.pc = "reverse", !.company = c, !.parents = parents,
                              !.subsidiaries = subsidiaries]]
          /\ UNCHANGED <<relations, outdated>>
    BY <1>1 DEF WalkHierarchy
  <2> DEFINE w == [NoEdit EXCEPT !.pc = "reverse", !.company = c, !.parents = parents,
                                 !.subsidiaries = subsidiaries]
  <2>2. w \in TreeEdits /\ w.pc = "reverse" /\ w.company = c /\ w.parents = parents
        /\ w.subsidiaries = subsidiaries
    BY DEF NoEdit, TreeEdits, EditSteps
  <2>3. EditHolds(w)
    BY <2>1, <2>2 DEF EditHolds
  <2>4. QED
    BY <2>1, <2>2, <2>3, OneEdit
<1>2. ASSUME NEW e \in Editors, CheckReverse(e) PROVE TreeIInv'
  <2> DEFINE w == [edit[e] EXCEPT !.pc = "delete"]
  <2>1. edit[e] \in TreeEdits /\ EditHolds(edit[e]) /\ edit[e].pc = "reverse"
    BY <1>2 DEF TreeIInv, CompanyTreeInv, CompanyTreeTypeOK, CheckReverse, EditAt
  <2>2. w \in TreeEdits /\ EditHolds(w)
    <3>1. /\ w \in TreeEdits /\ w.pc = "delete" /\ w.company = edit[e].company
          /\ w.parents = edit[e].parents /\ w.subsidiaries = edit[e].subsidiaries
          /\ w.overtaken = edit[e].overtaken
      BY <2>1 DEF TreeEdits, EditSteps
    <3>2. QED
      BY <2>1, <3>1 DEF EditHolds
  <2>3. EditHolds(NoEdit)
    BY NoEditType DEF EditHolds
  <2>4. \/ edit' = [edit EXCEPT ![e] = w]
        \/ edit' = [edit EXCEPT ![e] = NoEdit]
    BY <1>2 DEF CheckReverse
  <2>5. UNCHANGED <<relations, outdated>>
    BY <1>2 DEF CheckReverse
  <2>6. CASE edit' = [edit EXCEPT ![e] = w]
    BY <2>2, <2>5, <2>6, OneEdit
  <2>7. CASE edit' = [edit EXCEPT ![e] = NoEdit]
    BY <2>3, <2>5, <2>7, NoEditType, OneEdit
  <2>8. QED
    BY <2>4, <2>6, <2>7
<1>3. ASSUME NEW e \in Editors, DeleteRelations(e) PROVE TreeIInv'
  <2> DEFINE w == [edit[e] EXCEPT !.pc = "create", !.gone = Touching(edit[e].company)]
  <2>1. edit[e] \in TreeEdits /\ EditHolds(edit[e]) /\ edit[e].pc = "delete"
    BY <1>3 DEF TreeIInv, CompanyTreeInv, CompanyTreeTypeOK, DeleteRelations, EditAt
  <2>2. Touching(edit[e].company) \in SUBSET (Companies \X Companies)
    BY DEF Touching, TreeIInv, CompanyTreeInv, CompanyTreeTypeOK
  <2>3. /\ w \in TreeEdits /\ w.pc = "create" /\ w.company = edit[e].company
        /\ w.parents = edit[e].parents /\ w.subsidiaries = edit[e].subsidiaries
        /\ w.overtaken = edit[e].overtaken /\ w.gone = Touching(w.company)
    BY <2>1, <2>2 DEF TreeEdits, EditSteps
  <2>4. EditHolds(w)
    BY <2>1, <2>3 DEF EditHolds
  <2>5. QED
    BY <1>3, <2>3, <2>4, OneEdit DEF DeleteRelations
<1>4. ASSUME NEW e \in Editors, CreateRelations(e) PROVE TreeIInv'
  BY <1>4, CreateTypes, CreateKeepsCycles, CreateKeepsEdits DEF TreeIInv, CompanyTreeInv
<1>5. ASSUME NEW e \in Editors, StopEdit(e) PROVE TreeIInv'
  <2>1. EditHolds(NoEdit)
    BY NoEditType DEF EditHolds
  <2>2. QED
    BY <1>5, <2>1, NoEditType, OneEdit DEF StopEdit
<1>6. CASE UNCHANGED treeVars
  <2>1. UNCHANGED <<relations, edit, outdated>>
    BY <1>6 DEF treeVars
  <2>2. CompanyTreeTypeOK' /\ CyclesOutdated'
    BY <2>1 DEF TreeIInv, CompanyTreeInv, CompanyTreeTypeOK, CyclesOutdated, SubsidiariesOf
  <2>3. ASSUME NEW e \in Editors PROVE EditHolds(edit[e])'
    BY <2>1 DEF TreeIInv, EditHolds, Touching
  <2>4. QED
    BY <2>2, <2>3 DEF TreeIInv, CompanyTreeInv
<1>7. QED
  BY <1>1, <1>2, <1>3, <1>4, <1>5, <1>6 DEF CompanyTreeNext

\* Every cycle of the hierarchy passes through a company whose relations were
\* written after others had come in since the walk (CyclesOutdated, with the
\* types).
THEOREM CompanyTreeSafe == CompanyTreeSpec => []CompanyTreeInv
<1>1. CompanyTreeInit => TreeIInv
  BY TreeInitInv
<1>2. TreeIInv /\ [CompanyTreeNext]_treeVars => TreeIInv'
  BY TreeStepInv
<1>3. TreeIInv => CompanyTreeInv
  BY DEF TreeIInv
<1>4. QED
  BY <1>1, <1>2, <1>3, PTL DEF CompanyTreeSpec

(***************************************************************************)
(* Questions and channels.                                                 *)
(***************************************************************************)

\* Beyond "post" the question of a call is there; until the call that posted it
\* works on it, it is pending, and others only find it so.
AskersHold ==
  \A a \in Askers :
    /\ asker[a].step # "idle" => asker[a].key \in Questions
    /\ asker[a].step \notin {"idle", "post"} => question[asker[a].key] # "NONE"
    /\ asker[a].mine /\ asker[a].step \in {"posted", "found"} =>
         /\ question[asker[a].key] = "PENDING" /\ answer[asker[a].key] = 0
         /\ \A b \in Askers : b # a /\ asker[b].key = asker[a].key =>
              /\ ~asker[b].mine /\ asker[b].step \in {"idle", "post", "found"}
              /\ asker[b].step = "found" => asker[b].seen = "PENDING"
    /\ asker[a].step \in {"idle", "post"} => ~asker[a].mine
    /\ asker[a].step = "posted" => asker[a].mine

\* A fresh judgement on an owner knows of another one.
RemoversHold ==
  \A r \in Removers :
    /\ remover[r].step # "idle" => remover[r].member \in Members
    /\ remover[r].step = "judged" /\ remover[r].fresh /\ role[remover[r].member] = "OWNER" =>
         \E u \in Members : u # remover[r].member /\ role[u] = "OWNER"

AskerCalls ==
  [step : {"idle", "post", "posted", "found", "retry", "context", "ask", "answer", "fail"},
   key : Questions \cup {NoQuestion}, seen : Statuses, mine : BOOLEAN]

QuestionsInv ==
  /\ question \in [Questions -> Statuses] /\ answer \in [Questions -> {0, 1}]
  /\ asker \in [Askers -> AskerCalls]
  /\ dropped \subseteq Questions /\ reopened \subseteq Questions
  /\ CompleteIsAnswered /\ PendingHasAsker /\ AskersHold

ChannelInv ==
  /\ role \in [Members -> {"NONE", "MEMBER", "OWNER"}]
  /\ remover \in [Removers -> [step : {"idle", "read", "judged"},
                               member : Members \cup {NoMember}, fresh : BOOLEAN]]
  /\ ownerless \in BOOLEAN
  /\ OwnerRemains /\ RemoversHold

QuestionTypes ==
  /\ question \in [Questions -> Statuses] /\ answer \in [Questions -> {0, 1}]
  /\ asker \in [Askers -> AskerCalls]
  /\ dropped \subseteq Questions /\ reopened \subseteq Questions

LEMMA StepType ==
  ASSUME asker \in [Askers -> AskerCalls], NEW a \in Askers,
         NEW st \in {"idle", "post", "posted", "found", "retry", "context", "ask", "answer",
                    "fail"}
  PROVE  [asker EXCEPT ![a].step = st] \in [Askers -> AskerCalls]
BY DEF AskerCalls

LEMMA AskersStep ==
  ASSUME QuestionsInv, NEW a \in Askers,
         \/ FindQuestion(a) \/ PostQuestion(a) \/ PostFails(a) \/ Audited(a) \/ AuditFails(a)
         \/ LookForAnswer(a) \/ Retry(a) \/ BuildBotContext(a) \/ ContextFails(a)
         \/ AskAssistant(a) \/ PostAnswer(a) \/ AnswerFails(a) \/ MarkFailed(a) \/ StopAsking(a)
  PROVE  QuestionsInv'
<1> USE DEF IdleAsker, AskerAt
<1>1. CASE FindQuestion(a)
  <2> DEFINE c(k) == IF question[k] = "NONE"
                     THEN [IdleAsker EXCEPT !.step = "post", !.key = k]
                     ELSE [step |-> "found", key |-> k, seen |-> question[k], mine |-> FALSE]
  <2>1. PICK k \in Questions : asker' = [asker EXCEPT ![a] = c(k)]
    BY <1>1 DEF FindQuestion, Found
  <2>2. asker[a].step = "idle" /\ UNCHANGED <<question, answer, dropped, reopened>>
    BY <1>1 DEF FindQuestion
  <2>3. c(k) \in AskerCalls
    BY DEF QuestionsInv, AskerCalls, Statuses
  <2>4. QuestionTypes'
    BY <2>1, <2>2, <2>3 DEF QuestionsInv, QuestionTypes
  <2>5. CompleteIsAnswered'
    BY <2>2 DEF QuestionsInv, CompleteIsAnswered
  <2>6. /\ c(k).key = k /\ ~c(k).mine
        /\ c(k).step = "post" \/ (c(k).step = "found" /\ c(k).seen = question[k]
                                  /\ question[k] # "NONE")
    OBVIOUS
  <2> HIDE DEF c
  <2>7. \A b \in Askers : asker'[b] = IF b = a THEN c(k) ELSE asker[b]
    BY <2>1 DEF QuestionsInv
  <2>8. PendingHasAsker'
    BY <2>2, <2>7 DEF QuestionsInv, AskersHold, PendingHasAsker
  <2>9. AskersHold'
    BY <2>2, <2>6, <2>7 DEF QuestionsInv, AskersHold
  <2>10. QED
    BY <2>4, <2>5, <2>8, <2>9 DEF QuestionsInv, QuestionTypes
<1>2. CASE PostQuestion(a)
  <2>1. QuestionTypes'
    <3>1. asker[a].key \in Questions /\ question[asker[a].key] \in Statuses
      BY <1>2 DEF QuestionsInv, AskerCalls, AskersHold, PostQuestion
    <3>2. CASE question[asker[a].key] = "NONE"
      <4>1. [asker[a] EXCEPT !.step = "posted", !.mine = TRUE] \in AskerCalls
        BY DEF QuestionsInv, AskerCalls
      <4>2. asker' = [asker EXCEPT ![a] = [asker[a] EXCEPT !.step = "posted", !.mine = TRUE]]
        BY <1>2, <3>2 DEF PostQuestion
      <4>3. /\ question' = [question EXCEPT ![asker[a].key] = "PENDING"]
            /\ UNCHANGED <<answer, dropped, reopened>>
        BY <1>2, <3>2 DEF PostQuestion
      <4>4. QED
        BY <4>1, <4>2, <4>3 DEF QuestionsInv, QuestionTypes, Statuses
    <3>3. CASE question[asker[a].key] # "NONE"
      <4>1. [step |-> "found", key |-> asker[a].key, seen |-> question[asker[a].key],
             mine |-> FALSE] \in AskerCalls
        BY <3>1 DEF AskerCalls
      <4>2. QED
        BY <1>2, <3>3, <4>1 DEF QuestionsInv, QuestionTypes, PostQuestion, Found
    <3>4. QED
      BY <3>2, <3>3
  <2>2. CompleteIsAnswered'
    BY <1>2 DEF QuestionsInv, AskerCalls, AskersHold, CompleteIsAnswered, PostQuestion, Found
  <2>3. PendingHasAsker'
    BY SMTT(40), <1>2 DEF QuestionsInv, AskerCalls, AskersHold, PendingHasAsker, PostQuestion, Found
  <2>4. AskersHold'
    BY <1>2 DEF QuestionsInv, AskerCalls, AskersHold, PostQuestion, Found
  <2>5. QED
    BY <2>1, <2>2, <2>3, <2>4 DEF QuestionsInv, QuestionTypes
<1>3. CASE PostFails(a)
  <2>1. QuestionTypes'
    BY <1>3 DEF QuestionsInv, QuestionTypes, AskerCalls, AskersHold, Statuses, PostFails, Leave
  <2>2. CompleteIsAnswered'
    BY <1>3 DEF QuestionsInv, AskerCalls, AskersHold, CompleteIsAnswered, Statuses, PostFails, Leave
  <2>3. PendingHasAsker'
    BY <1>3 DEF QuestionsInv, AskerCalls, AskersHold, PendingHasAsker, PostFails, Leave
  <2>4. AskersHold'
    BY <1>3 DEF QuestionsInv, AskerCalls, AskersHold, PostFails, Leave
  <2>5. QED
    BY <2>1, <2>2, <2>3, <2>4 DEF QuestionsInv, QuestionTypes
<1>4. CASE Audited(a)
  <2>1. QuestionTypes'
    BY <1>4 DEF QuestionsInv, QuestionTypes, AskerCalls, AskersHold, Statuses, Audited, Go
  <2>2. CompleteIsAnswered'
    BY <1>4 DEF QuestionsInv, AskerCalls, AskersHold, CompleteIsAnswered, Statuses, Audited, Go
  <2>3. PendingHasAsker'
    BY <1>4 DEF QuestionsInv, AskerCalls, AskersHold, PendingHasAsker, Audited, Go
  <2>4. AskersHold'
    BY <1>4 DEF QuestionsInv, AskerCalls, AskersHold, Audited, Go
  <2>5. QED
    BY <2>1, <2>2, <2>3, <2>4 DEF QuestionsInv, QuestionTypes
<1>5. CASE AuditFails(a)
  <2>1. QuestionTypes'
    BY <1>5 DEF QuestionsInv, QuestionTypes, AskerCalls, AskersHold, Statuses, AuditFails, Found
  <2>2. CompleteIsAnswered'
    BY <1>5 DEF QuestionsInv, AskerCalls, AskersHold, CompleteIsAnswered, Statuses, AuditFails, Found
  <2>3. PendingHasAsker'
    BY <1>5 DEF QuestionsInv, AskerCalls, AskersHold, PendingHasAsker, AuditFails, Found
  <2>4. AskersHold'
    BY <1>5 DEF QuestionsInv, AskerCalls, AskersHold, AuditFails, Found
  <2>5. QED
    BY <2>1, <2>2, <2>3, <2>4 DEF QuestionsInv, QuestionTypes
<1>6. CASE LookForAnswer(a)
  <2>1. QuestionTypes'
    <3>1. \E st \in {"retry", "context"} : asker' \in {[asker EXCEPT ![a] = IdleAsker],
                                                      [asker EXCEPT ![a].step = st]}
      BY <1>6 DEF LookForAnswer, Leave, Go
    <3>2. UNCHANGED <<question, answer, dropped, reopened>>
      BY <1>6 DEF LookForAnswer
    <3>3. IdleAsker \in AskerCalls
      BY DEF AskerCalls, Statuses
    <3>4. asker' \in [Askers -> AskerCalls]
      <4>1. asker \in [Askers -> AskerCalls]
        BY DEF QuestionsInv
      <4>2. [asker EXCEPT ![a] = IdleAsker] \in [Askers -> AskerCalls]
        BY <3>3, <4>1
      <4>3. \A st \in {"retry", "context"} :
              [asker EXCEPT ![a].step = st] \in [Askers -> AskerCalls]
        BY <4>1, StepType
      <4>4. QED
        BY <3>1, <4>2, <4>3
    <3>5. QED
      BY <3>2, <3>4 DEF QuestionsInv, QuestionTypes
  <2>2. CompleteIsAnswered'
    BY <1>6 DEF QuestionsInv, AskerCalls, AskersHold, CompleteIsAnswered, Statuses, LookForAnswer, Leave, Go
  <2>3. PendingHasAsker'
    BY <1>6 DEF QuestionsInv, AskerCalls, AskersHold, PendingHasAsker, LookForAnswer, Leave, Go
  <2>4. AskersHold'
    BY <1>6 DEF QuestionsInv, AskerCalls, AskersHold, LookForAnswer, Leave, Go
  <2>5. QED
    BY <2>1, <2>2, <2>3, <2>4 DEF QuestionsInv, QuestionTypes
<1>7. CASE Retry(a)
  <2>1. QuestionTypes'
    <3>1. asker[a].key \in Questions
      BY <1>7 DEF QuestionsInv, AskerCalls, AskersHold, Retry
    <3>2. reopened' \subseteq Questions /\ question' \in [Questions -> Statuses]
      BY <1>7, <3>1 DEF QuestionsInv, Statuses, Retry
    <3>3. [asker[a] EXCEPT !.step = "context", !.mine = TRUE] \in AskerCalls
      BY DEF QuestionsInv, AskerCalls
    <3>4. asker' = [asker EXCEPT ![a] = [asker[a] EXCEPT !.step = "context", !.mine = TRUE]]
      BY <1>7 DEF Retry
    <3>5. UNCHANGED <<answer, dropped>>
      BY <1>7 DEF Retry
    <3>6. QED
      BY <3>2, <3>3, <3>4, <3>5 DEF QuestionsInv, QuestionTypes
  <2>2. CompleteIsAnswered'
    BY <1>7 DEF QuestionsInv, AskerCalls, AskersHold, CompleteIsAnswered, Statuses, Retry
  <2>3. PendingHasAsker'
    BY <1>7 DEF QuestionsInv, AskerCalls, AskersHold, PendingHasAsker, Retry
  <2>4. AskersHold'
    BY <1>7 DEF QuestionsInv, AskerCalls, AskersHold, Retry
  <2>5. QED
    BY <2>1, <2>2, <2>3, <2>4 DEF QuestionsInv, QuestionTypes
<1>8. CASE BuildBotContext(a)
  <2>1. QuestionTypes'
    BY <1>8 DEF QuestionsInv, QuestionTypes, AskerCalls, AskersHold, Statuses, BuildBotContext, Go
  <2>2. CompleteIsAnswered'
    BY <1>8 DEF QuestionsInv, AskerCalls, AskersHold, CompleteIsAnswered, Statuses, BuildBotContext, Go
  <2>3. PendingHasAsker'
    BY <1>8 DEF QuestionsInv, AskerCalls, AskersHold, PendingHasAsker, BuildBotContext, Go
  <2>4. AskersHold'
    BY <1>8 DEF QuestionsInv, AskerCalls, AskersHold, BuildBotContext, Go
  <2>5. QED
    BY <2>1, <2>2, <2>3, <2>4 DEF QuestionsInv, QuestionTypes
<1>9. CASE ContextFails(a)
  <2>1. QuestionTypes'
    BY <1>9 DEF QuestionsInv, QuestionTypes, AskerCalls, AskersHold, Statuses, ContextFails, Leave
  <2>2. CompleteIsAnswered'
    BY <1>9 DEF QuestionsInv, AskerCalls, AskersHold, CompleteIsAnswered, Statuses, ContextFails, Leave
  <2>3. PendingHasAsker'
    BY <1>9 DEF QuestionsInv, AskerCalls, AskersHold, PendingHasAsker, ContextFails, Leave
  <2>4. AskersHold'
    BY <1>9 DEF QuestionsInv, AskerCalls, AskersHold, ContextFails, Leave
  <2>5. QED
    BY <2>1, <2>2, <2>3, <2>4 DEF QuestionsInv, QuestionTypes
<1>10. CASE AskAssistant(a)
  <2>1. QuestionTypes'
    BY <1>10 DEF QuestionsInv, QuestionTypes, AskerCalls, AskersHold, Statuses, AskAssistant, Go
  <2>2. CompleteIsAnswered'
    BY <1>10 DEF QuestionsInv, AskerCalls, AskersHold, CompleteIsAnswered, Statuses, AskAssistant, Go
  <2>3. PendingHasAsker'
    BY <1>10 DEF QuestionsInv, AskerCalls, AskersHold, PendingHasAsker, AskAssistant, Go
  <2>4. AskersHold'
    BY <1>10 DEF QuestionsInv, AskerCalls, AskersHold, AskAssistant, Go
  <2>5. QED
    BY <2>1, <2>2, <2>3, <2>4 DEF QuestionsInv, QuestionTypes
<1>11. CASE PostAnswer(a)
  <2>1. QuestionTypes'
    BY <1>11 DEF QuestionsInv, QuestionTypes, AskerCalls, AskersHold, Statuses, PostAnswer, Leave
  <2>2. CompleteIsAnswered'
    BY <1>11 DEF QuestionsInv, AskerCalls, AskersHold, CompleteIsAnswered, Statuses, PostAnswer, Leave
  <2>3. PendingHasAsker'
    BY <1>11 DEF QuestionsInv, AskerCalls, AskersHold, PendingHasAsker, PostAnswer, Leave
  <2>4. AskersHold'
    BY <1>11 DEF QuestionsInv, AskerCalls, AskersHold, PostAnswer, Leave
  <2>5. QED
    BY <2>1, <2>2, <2>3, <2>4 DEF QuestionsInv, QuestionTypes
<1>12. CASE AnswerFails(a)
  <2>1. QuestionTypes'
    BY <1>12 DEF QuestionsInv, QuestionTypes, AskerCalls, AskersHold, Statuses, AnswerFails, Go
  <2>2. CompleteIsAnswered'
    BY <1>12 DEF QuestionsInv, AskerCalls, AskersHold, CompleteIsAnswered, Statuses, AnswerFails, Go
  <2>3. PendingHasAsker'
    BY <1>12 DEF QuestionsInv, AskerCalls, AskersHold, PendingHasAsker, AnswerFails, Go
  <2>4. AskersHold'
    BY <1>12 DEF QuestionsInv, AskerCalls, AskersHold, AnswerFails, Go
  <2>5. QED
    BY <2>1, <2>2, <2>3, <2>4 DEF QuestionsInv, QuestionTypes
<1>13. CASE MarkFailed(a)
  <2>1. QuestionTypes'
    BY <1>13 DEF QuestionsInv, QuestionTypes, AskerCalls, AskersHold, Statuses, MarkFailed, Leave, FailedStatus
  <2>2. CompleteIsAnswered'
    BY <1>13 DEF QuestionsInv, AskerCalls, AskersHold, CompleteIsAnswered, Statuses, MarkFailed, Leave, FailedStatus
  <2>3. PendingHasAsker'
    BY <1>13 DEF QuestionsInv, AskerCalls, AskersHold, PendingHasAsker, MarkFailed, Leave, FailedStatus
  <2>4. AskersHold'
    BY <1>13 DEF QuestionsInv, AskerCalls, AskersHold, MarkFailed, Leave, FailedStatus
  <2>5. QED
    BY <2>1, <2>2, <2>3, <2>4 DEF QuestionsInv, QuestionTypes
<1>14. CASE StopAsking(a)
  <2>1. QuestionTypes'
    BY <1>14 DEF QuestionsInv, QuestionTypes, AskerCalls, AskersHold, Statuses, StopAsking, Leave
  <2>2. CompleteIsAnswered'
    BY <1>14 DEF QuestionsInv, AskerCalls, AskersHold, CompleteIsAnswered, Statuses, StopAsking, Leave
  <2>3. PendingHasAsker'
    BY <1>14 DEF QuestionsInv, AskerCalls, AskersHold, PendingHasAsker, StopAsking, Leave
  <2>4. AskersHold'
    BY <1>14 DEF QuestionsInv, AskerCalls, AskersHold, StopAsking, Leave
  <2>5. QED
    BY <2>1, <2>2, <2>3, <2>4 DEF QuestionsInv, QuestionTypes
<1>15. QED
  BY <1>1, <1>2, <1>3, <1>4, <1>5, <1>6, <1>7, <1>8, <1>9, <1>10, <1>11, <1>12, <1>13, <1>14

(***************************************************************************)
(* The owners of a channel.                                                *)
(***************************************************************************)

\* Two owners are counted only when there is another one.
LEMMA AnotherOwner ==
  ASSUME NEW u, Cardinality(Owners) > 1
  PROVE  \E v \in Owners : v # u
<1> SUFFICES ASSUME \A v \in Owners : v = u PROVE FALSE
  OBVIOUS
<1>1. Owners = {} \/ Owners = {u}
  OBVIOUS
<1>2. Cardinality({}) = 0 /\ Cardinality({u}) = 1
  BY FS_EmptySet, FS_Singleton
<1>3. QED
  BY <1>1, <1>2

ChannelTypes ==
  /\ role \in [Members -> {"NONE", "MEMBER", "OWNER"}]
  /\ remover \in [Removers -> [step : {"idle", "read", "judged"},
                               member : Members \cup {NoMember}, fresh : BOOLEAN]]
  /\ ownerless \in BOOLEAN

LEMMA OutdatedFacts ==
  ASSUME ChannelTypes
  PROVE  /\ Outdated \in [Removers -> [step : {"idle", "read", "judged"},
                                       member : Members \cup {NoMember}, fresh : BOOLEAN]]
         /\ \A r \in Removers : /\ Outdated[r].step = remover[r].step
                                /\ Outdated[r].member = remover[r].member
                                /\ ~Outdated[r].fresh
BY DEF ChannelTypes, Outdated

LEMMA AddMemberStep ==
  ASSUME ChannelInv, NEW u \in Members, AddMember(u)
  PROVE  ChannelInv'
<1>1. PICK as \in {"MEMBER", "OWNER"} : role' = [role EXCEPT ![u] = as]
  BY DEF AddMember
<1>2. role[u] = "NONE" /\ remover' = Outdated /\ ownerless' = ownerless
  BY DEF AddMember
<1>3. ChannelTypes /\ ChannelTypes'
  BY <1>1, <1>2, OutdatedFacts DEF ChannelInv, ChannelTypes
<1>4. OwnerRemains'
  BY <1>1, <1>2 DEF ChannelInv, OwnerRemains, Owners
<1>5. RemoversHold'
  BY <1>1, <1>2, <1>3, OutdatedFacts DEF ChannelInv, RemoversHold
<1>6. QED
  BY <1>3, <1>4, <1>5 DEF ChannelInv, ChannelTypes

LEMMA RemoverStep ==
  ASSUME ChannelInv, NEW r \in Removers,
         ReadMember(r) \/ CountOwners(r) \/ DeleteMember(r) \/ StopRemoving(r)
  PROVE  ChannelInv'
<1>1. CASE ReadMember(r)
  <2>1. PICK u \in Members :
          /\ role[u] # "NONE"
          /\ remover' = [remover EXCEPT ![r] =
               [step |-> IF role[u] = "OWNER" THEN "read" ELSE "judged", member |-> u,
                fresh |-> TRUE]]
    BY <1>1 DEF ReadMember
  <2>2. UNCHANGED <<role, ownerless>>
    BY <1>1 DEF ReadMember
  <2>3. ChannelTypes'
    BY <2>1, <2>2 DEF ChannelInv, ChannelTypes
  <2>4. OwnerRemains'
    BY <2>2 DEF ChannelInv, OwnerRemains, Owners
  <2>5. RemoversHold'
    BY <2>1, <2>2 DEF ChannelInv, RemoversHold
  <2>6. QED
    BY <2>3, <2>4, <2>5 DEF ChannelInv, ChannelTypes
<1>2. CASE CountOwners(r)
  <2>1. UNCHANGED <<role, ownerless>> /\ remover[r].member \in Members
    BY <1>2 DEF CountOwners, ChannelInv, RemoversHold
  <2>2. ChannelTypes' /\ OwnerRemains'
    <3>1. \A c \in {IdleRemover, [remover[r] EXCEPT !.step = "judged", !.fresh = TRUE]} :
            c \in [step : {"idle", "read", "judged"}, member : Members \cup {NoMember},
                  fresh : BOOLEAN]
      <4>1. remover[r] \in [step : {"idle", "read", "judged"}, member : Members \cup {NoMember},
                            fresh : BOOLEAN]
        BY DEF ChannelInv
      <4>2. IdleRemover \in [step : {"idle", "read", "judged"}, member : Members \cup {NoMember},
                             fresh : BOOLEAN]
        BY DEF IdleRemover
      <4>3. QED
        BY <4>1, <4>2
    <3>2. PICK c \in {IdleRemover, [remover[r] EXCEPT !.step = "judged", !.fresh = TRUE]} :
            remover' = [remover EXCEPT ![r] = c]
      BY <1>2 DEF CountOwners
    <3>3. ChannelTypes'
      BY <2>1, <3>1, <3>2 DEF ChannelInv, ChannelTypes
    <3>4. OwnerRemains'
      BY <2>1 DEF ChannelInv, OwnerRemains, Owners
    <3>5. QED
      BY <3>3, <3>4
  <2>3. CASE Cardinality(Owners) <= 1
    BY <1>2, <2>1, <2>2, <2>3
       DEF ChannelInv, ChannelTypes, RemoversHold, CountOwners, IdleRemover
  <2>4. CASE ~(Cardinality(Owners) <= 1)
    <3>1. \E v \in Owners : v # remover[r].member
      <4>1. IsFiniteSet(Owners)
        BY FS_Subset, ConversationsAssumption DEF Owners
      <4>2. Cardinality(Owners) > 1
        BY <2>4, <4>1, FS_CardinalityType
      <4>3. QED
        BY <4>2, AnotherOwner
    <3>2. RemoversHold'
      BY <1>2, <2>1, <2>4, <3>1 DEF ChannelInv, RemoversHold, CountOwners, Owners
    <3>3. QED
      BY <2>1, <2>2, <3>2 DEF ChannelInv, ChannelTypes
  <2>5. QED
    BY <2>3, <2>4
<1>3. CASE DeleteMember(r)
  <2> DEFINE u == remover[r].member
  <2>1. /\ u \in Members /\ role[u] # "NONE" /\ role' = [role EXCEPT ![u] = "NONE"]
        /\ remover' = [Outdated EXCEPT ![r] = IdleRemover]
        /\ ownerless' = (ownerless \/ (role[u] = "OWNER" /\ ~remover[r].fresh))
        /\ remover[r].step = "judged"
    BY <1>3 DEF DeleteMember, ChannelInv, RemoversHold
  <2>2. ChannelTypes /\ ChannelTypes'
    BY <2>1, OutdatedFacts DEF ChannelInv, ChannelTypes, IdleRemover
  <2>3. OwnerRemains'
    <3>1. CASE role[u] = "OWNER" /\ remover[r].fresh
      <4>1. PICK v \in Members : v # u /\ role[v] = "OWNER"
        BY <2>1, <3>1 DEF ChannelInv, RemoversHold
      <4>2. role'[v] = "OWNER"
        BY <2>1, <2>2, <4>1 DEF ChannelTypes
      <4>3. QED
        BY <4>2 DEF OwnerRemains, Owners
    <3>2. CASE role[u] # "OWNER"
      BY <2>1, <2>2, <3>2 DEF ChannelInv, ChannelTypes, OwnerRemains, Owners
    <3>3. CASE role[u] = "OWNER" /\ ~remover[r].fresh
      BY <2>1, <3>3 DEF OwnerRemains
    <3>4. QED
      BY <3>1, <3>2, <3>3
  <2>4. RemoversHold'
    BY <2>1, <2>2, OutdatedFacts DEF ChannelInv, ChannelTypes, RemoversHold, IdleRemover
  <2>5. QED
    BY <2>2, <2>3, <2>4 DEF ChannelInv, ChannelTypes
<1>4. CASE StopRemoving(r)
  BY <1>4 DEF StopRemoving, IdleRemover, ChannelInv, OwnerRemains, Owners, RemoversHold
<1>5. QED
  BY <1>1, <1>2, <1>3, <1>4

DeskIInv == QuestionsInv /\ ChannelInv

LEMMA DeskInitInv == ConversationsInit => DeskIInv
<1> SUFFICES ASSUME ConversationsInit PROVE DeskIInv
  OBVIOUS
<1>1. QuestionsInv
  BY DEF ConversationsInit, QuestionsInv, AskerCalls, IdleAsker, Statuses, CompleteIsAnswered,
         PendingHasAsker, AskersHold
<1>2. Owners # {}
  <2>1. Cardinality(Owners) = 1
    BY DEF ConversationsInit, Owners
  <2>2. QED
    BY <2>1, FS_EmptySet
<1>3. ChannelInv
  BY <1>2 DEF ConversationsInit, ChannelInv, IdleRemover, OwnerRemains, RemoversHold
<1>4. QED
  BY <1>1, <1>3 DEF DeskIInv

LEMMA DeskStepInv == DeskIInv /\ [ConversationsNext]_conversationVars => DeskIInv'
<1> SUFFICES ASSUME DeskIInv, [ConversationsNext]_conversationVars PROVE DeskIInv'
  OBVIOUS
<1>1. ASSUME UNCHANGED channel PROVE ChannelInv'
  BY <1>1 DEF DeskIInv, channel, ChannelInv, OwnerRemains, Owners, RemoversHold
<1>2. ASSUME UNCHANGED asking PROVE QuestionsInv'
  BY <1>2 DEF DeskIInv, asking, QuestionsInv, CompleteIsAnswered, PendingHasAsker, AskersHold
<1>3. ASSUME NEW a \in Askers,
             \/ FindQuestion(a) \/ PostQuestion(a) \/ PostFails(a) \/ Audited(a) \/ AuditFails(a)
             \/ LookForAnswer(a) \/ Retry(a) \/ BuildBotContext(a) \/ ContextFails(a)
             \/ AskAssistant(a) \/ PostAnswer(a) \/ AnswerFails(a) \/ MarkFailed(a)
             \/ StopAsking(a)
      PROVE  DeskIInv'
  <2>1. QuestionsInv'
    BY <1>3, AskersStep DEF DeskIInv
  <2>2. UNCHANGED channel
    BY <1>3 DEF FindQuestion, PostQuestion, PostFails, Audited, AuditFails, LookForAnswer, Retry,
                BuildBotContext, ContextFails, AskAssistant, PostAnswer, AnswerFails, MarkFailed,
                StopAsking
  <2>3. QED
    BY <1>1, <2>1, <2>2 DEF DeskIInv
<1>4. ASSUME NEW u \in Members, AddMember(u) PROVE DeskIInv'
  BY <1>2, <1>4, AddMemberStep DEF DeskIInv, AddMember
<1>5. ASSUME NEW r \in Removers,
             ReadMember(r) \/ CountOwners(r) \/ DeleteMember(r) \/ StopRemoving(r)
      PROVE  DeskIInv'
  BY <1>2, <1>5, RemoverStep DEF DeskIInv, ReadMember, CountOwners, DeleteMember, StopRemoving
<1>6. CASE UNCHANGED conversationVars
  BY <1>1, <1>2, <1>6 DEF conversationVars, channel, asking, DeskIInv
<1>7. QED
  BY <1>3, <1>4, <1>5, <1>6 DEF ConversationsNext

\* A question left pending has a call at work on it or one that was cut off, a
\* question is COMPLETE with its answer unless it was taken up again, and a
\* channel keeps an owner unless two removals crossed.
THEOREM ConversationsSafe == ConversationsSpec => []ConversationsInv
<1>1. ConversationsInit => DeskIInv
  BY DeskInitInv
<1>2. DeskIInv /\ [ConversationsNext]_conversationVars => DeskIInv'
  BY DeskStepInv
<1>3. DeskIInv => ConversationsInv
  BY DEF DeskIInv, QuestionsInv, AskerCalls, ChannelInv, ConversationsInv, ConversationsTypeOK
<1>4. QED
  BY <1>1, <1>2, <1>3, PTL DEF ConversationsSpec

(***************************************************************************)
(* Uploads and legal documents.                                            *)
(***************************************************************************)

\* What an upload has and holds, by how far it is
UploadHolds(u) ==
  /\ upload[u] \in {"idle", "begun", "files", "held"} => ~object[u] /\ file[u] = "NONE"
  /\ upload[u] = "stored" => object[u] /\ file[u] = "NONE"
  /\ upload[u] \in {"inserted", "counted", "withdraw", "clean"} => file[u] # "NONE"
  /\ upload[u] \in {"inserted", "counted"} => file[u] = "LIVE" \/ u \in stripped
  /\ upload[u] = "clean" /\ u \notin cut => file[u] = "DELETED"
  /\ upload[u] \in {"erase", "release"} /\ file[u] = "LIVE" => u \in lost
  /\ upload[u] = "failed" /\ u \notin cut /\ file[u] = "LIVE" => u \in lost
  /\ upload[u] \in {"idle", "begun"} =>
       hold[u]["FILES"] = "NONE" /\ hold[u]["STORAGE_BYTES"] = "NONE"
  /\ upload[u] = "files" => hold[u]["STORAGE_BYTES"] = "NONE"
  /\ upload[u] \in {"files", "held", "stored", "inserted"} =>
       hold[u]["FILES"] \in {"RESERVED", "EXPIRED"}
  /\ upload[u] \in {"held", "stored", "inserted"} =>
       hold[u]["STORAGE_BYTES"] \in {"RESERVED", "EXPIRED"}
  /\ upload[u] \in {"counted", "withdraw", "clean"} =>
       /\ hold[u]["FILES"] \in {"COMMITTED", "EXPIRED"}
       /\ hold[u]["STORAGE_BYTES"] \in {"COMMITTED", "EXPIRED"}
  /\ upload[u] = "failed" /\ u \notin cut =>
       hold[u]["FILES"] # "RESERVED" /\ hold[u]["STORAGE_BYTES"] # "RESERVED"

\* What a document and its removal go by
DocumentHolds(u) ==
  /\ upload[u] = "idle" => document[u] = "NONE"
  /\ document[u] = "LINKED" => upload[u] = "over"
  /\ removal[u] # "none" => document[u] # "NONE"
  /\ removal[u] \in {"LINKED", "fileless"} => document[u] = "LINKED"
  /\ removal[u] = "fileless" => file[u] = "DELETED"

\* The properties, of one upload
UploadSafe(u) ==
  /\ file[u] = "LIVE" => object[u] \/ u \in lost
  /\ object[u] /\ file[u] = "NONE" => upload[u] \in {"stored", "erase"} \/ u \in cut \cup lost
  /\ upload[u] = "over" /\ u \notin cut =>
       \A m \in Metrics :
         /\ hold[u][m] # "RESERVED"
         /\ file[u] = "LIVE" /\ u \notin lost => hold[u][m] \in {"COMMITTED", "EXPIRED"}
  /\ upload[u] = "over" /\ u \notin cut \cup lost \cup stripped =>
       /\ document[u] = "LINKED" => file[u] = "LIVE" \/ removal[u] = "fileless"
       /\ document[u] = "GONE" => file[u] # "LIVE"
       /\ document[u] # "BARE"

UploadSound(u) == UploadHolds(u) /\ DocumentHolds(u) /\ UploadSafe(u)

UploadsIInv == AttachmentsTypeOK /\ \A u \in Uploads : UploadSound(u)

LEMMA UploadsInitInv == AttachmentsInit => UploadsIInv
BY DEF AttachmentsInit, UploadsIInv, AttachmentsTypeOK, UploadSteps, Holds, Metrics, UploadSound,
       UploadHolds, DocumentHolds, UploadSafe

LEMMA UploadStep ==
  ASSUME UploadsIInv, NEW u \in Uploads,
         \/ BeginUpload(u) \/ ReserveFile(u) \/ ReserveBytes(u) \/ StoreObject(u)
         \/ InsertFile(u) \/ EraseObject(u) \/ ReleaseHolds(u) \/ CommitHolds(u)
         \/ ExpireHold(u) \/ StopUpload(u) \/ LinkDocument(u) \/ WithdrawFile(u)
         \/ WithdrawDocument(u) \/ RecordFails(u) \/ RemoveFile(u) \/ ReadDocument(u)
         \/ RemoveItsFile(u) \/ DeleteDocument(u) \/ StopRemoval(u)
  PROVE  UploadsIInv'
<1> USE DEF Uploading, Proceed, Cuts
<1>1. CASE BeginUpload(u)
  <2>1. AttachmentsTypeOK'
    BY <1>1 DEF UploadsIInv, AttachmentsTypeOK, UploadSteps, Holds, Metrics, BeginUpload
  <2>2. ASSUME NEW v \in Uploads PROVE UploadSound(v)'
    <3>1. UploadHolds(v)'
      BY <1>1 DEF UploadsIInv, AttachmentsTypeOK, Metrics, UploadSound, UploadHolds,
                  DocumentHolds, BeginUpload
    <3>2. DocumentHolds(v)'
      BY <1>1 DEF UploadsIInv, AttachmentsTypeOK, UploadSound, UploadHolds, DocumentHolds,
                  BeginUpload
    <3>3. UploadSafe(v)'
      BY <1>1 DEF UploadsIInv, AttachmentsTypeOK, Metrics, UploadSound, UploadHolds,
                  DocumentHolds, UploadSafe, BeginUpload
    <3>4. QED
      BY <3>1, <3>2, <3>3 DEF UploadSound
  <2>3. QED
    BY <2>1, <2>2 DEF UploadsIInv
<1>2. CASE ReserveFile(u)
  <2>1. AttachmentsTypeOK'
    <3>1. hold' = [hold EXCEPT ![u] = [hold[u] EXCEPT !["FILES"] = "RESERVED"]] \/ UNCHANGED hold
      BY <1>2 DEF ReserveFile, Held
    <3>2. [hold[u] EXCEPT !["FILES"] = "RESERVED"] \in [Metrics -> Holds]
      BY DEF UploadsIInv, AttachmentsTypeOK, Holds, Metrics, Committed
    <3>3. hold' \in [Uploads -> [Metrics -> Holds]]
      BY <3>1, <3>2 DEF UploadsIInv, AttachmentsTypeOK
    <3>4. QED
      BY <1>2, <3>3 DEF UploadsIInv, AttachmentsTypeOK, UploadSteps, ReserveFile
  <2>2. ASSUME NEW v \in Uploads PROVE UploadSound(v)'
    <3>1. UploadHolds(v)'
      BY <1>2 DEF UploadsIInv, AttachmentsTypeOK, Metrics, UploadSound, UploadHolds,
                  DocumentHolds, ReserveFile, Held
    <3>2. DocumentHolds(v)'
      BY <1>2 DEF UploadsIInv, AttachmentsTypeOK, UploadSound, UploadHolds, DocumentHolds,
                  ReserveFile, Held
    <3>3. UploadSafe(v)'
      BY <1>2 DEF UploadsIInv, AttachmentsTypeOK, Metrics, UploadSound, UploadHolds,
                  DocumentHolds, UploadSafe, ReserveFile, Held
    <3>4. QED
      BY <3>1, <3>2, <3>3 DEF UploadSound
  <2>3. QED
    BY <2>1, <2>2 DEF UploadsIInv
<1>3. CASE ReserveBytes(u)
  <2>1. AttachmentsTypeOK'
    <3>1. hold' = [hold EXCEPT ![u] = [hold[u] EXCEPT !["STORAGE_BYTES"] = "RESERVED"]] \/ UNCHANGED hold
      BY <1>3 DEF ReserveBytes, Held
    <3>2. [hold[u] EXCEPT !["STORAGE_BYTES"] = "RESERVED"] \in [Metrics -> Holds]
      BY DEF UploadsIInv, AttachmentsTypeOK, Holds, Metrics, Committed
    <3>3. hold' \in [Uploads -> [Metrics -> Holds]]
      BY <3>1, <3>2 DEF UploadsIInv, AttachmentsTypeOK
    <3>4. QED
      BY <1>3, <3>3 DEF UploadsIInv, AttachmentsTypeOK, UploadSteps, ReserveBytes
  <2>2. ASSUME NEW v \in Uploads PROVE UploadSound(v)'
    <3>1. UploadHolds(v)'
      BY <1>3 DEF UploadsIInv, AttachmentsTypeOK, Metrics, UploadSound, UploadHolds,
                  DocumentHolds, ReserveBytes, Held
    <3>2. DocumentHolds(v)'
      BY <1>3 DEF UploadsIInv, AttachmentsTypeOK, UploadSound, UploadHolds, DocumentHolds,
                  ReserveBytes, Held
    <3>3. UploadSafe(v)'
      BY <1>3 DEF UploadsIInv, AttachmentsTypeOK, Metrics, UploadSound, UploadHolds,
                  DocumentHolds, UploadSafe, ReserveBytes, Held
    <3>4. QED
      BY <3>1, <3>2, <3>3 DEF UploadSound
  <2>3. QED
    BY <2>1, <2>2 DEF UploadsIInv
<1>4. CASE StoreObject(u)
  <2>1. AttachmentsTypeOK'
    BY <1>4 DEF UploadsIInv, AttachmentsTypeOK, UploadSteps, Holds, Metrics, StoreObject
  <2>2. ASSUME NEW v \in Uploads PROVE UploadSound(v)'
    <3>1. UploadHolds(v)'
      BY <1>4 DEF UploadsIInv, AttachmentsTypeOK, Metrics, UploadSound, UploadHolds,
                  DocumentHolds, StoreObject
    <3>2. DocumentHolds(v)'
      BY <1>4 DEF UploadsIInv, AttachmentsTypeOK, UploadSound, UploadHolds, DocumentHolds,
                  StoreObject
    <3>3. UploadSafe(v)'
      BY <1>4 DEF UploadsIInv, AttachmentsTypeOK, Metrics, UploadSound, UploadHolds,
                  DocumentHolds, UploadSafe, StoreObject
    <3>4. QED
      BY <3>1, <3>2, <3>3 DEF UploadSound
  <2>3. QED
    BY <2>1, <2>2 DEF UploadsIInv
<1>5. CASE InsertFile(u)
  <2>1. AttachmentsTypeOK'
    BY <1>5 DEF UploadsIInv, AttachmentsTypeOK, UploadSteps, Holds, Metrics, InsertFile
  <2>2. ASSUME NEW v \in Uploads PROVE UploadSound(v)'
    <3>1. UploadHolds(v)'
      BY <1>5 DEF UploadsIInv, AttachmentsTypeOK, Metrics, UploadSound, UploadHolds,
                  DocumentHolds, InsertFile
    <3>2. DocumentHolds(v)'
      BY <1>5 DEF UploadsIInv, AttachmentsTypeOK, UploadSound, UploadHolds, DocumentHolds,
                  InsertFile
    <3>3. UploadSafe(v)'
      BY <1>5 DEF UploadsIInv, AttachmentsTypeOK, Metrics, UploadSound, UploadHolds,
                  DocumentHolds, UploadSafe, InsertFile
    <3>4. QED
      BY <3>1, <3>2, <3>3 DEF UploadSound
  <2>3. QED
    BY <2>1, <2>2 DEF UploadsIInv
<1>6. CASE EraseObject(u)
  <2>1. AttachmentsTypeOK'
    BY <1>6 DEF UploadsIInv, AttachmentsTypeOK, UploadSteps, Holds, Metrics, EraseObject
  <2>2. ASSUME NEW v \in Uploads PROVE UploadSound(v)'
    <3>1. UploadHolds(v)'
      BY <1>6 DEF UploadsIInv, AttachmentsTypeOK, Metrics, UploadSound, UploadHolds,
                  DocumentHolds, EraseObject
    <3>2. DocumentHolds(v)'
      BY <1>6 DEF UploadsIInv, AttachmentsTypeOK, UploadSound, UploadHolds, DocumentHolds,
                  EraseObject
    <3>3. UploadSafe(v)'
      BY <1>6 DEF UploadsIInv, AttachmentsTypeOK, Metrics, UploadSound, UploadHolds,
                  DocumentHolds, UploadSafe, EraseObject
    <3>4. QED
      BY <3>1, <3>2, <3>3 DEF UploadSound
  <2>3. QED
    BY <2>1, <2>2 DEF UploadsIInv
<1>7. CASE ReleaseHolds(u)
  <2>1. AttachmentsTypeOK'
    BY <1>7 DEF UploadsIInv, AttachmentsTypeOK, UploadSteps, Holds, Metrics, ReleaseHolds, Released
  <2>2. ASSUME NEW v \in Uploads PROVE UploadSound(v)'
    <3>1. UploadHolds(v)'
      BY <1>7 DEF UploadsIInv, AttachmentsTypeOK, Metrics, UploadSound, UploadHolds,
                  DocumentHolds, ReleaseHolds, Released
    <3>2. DocumentHolds(v)'
      BY <1>7 DEF UploadsIInv, AttachmentsTypeOK, UploadSound, UploadHolds, DocumentHolds,
                  ReleaseHolds, Released
    <3>3. UploadSafe(v)'
      BY <1>7 DEF UploadsIInv, AttachmentsTypeOK, Metrics, UploadSound, UploadHolds,
                  DocumentHolds, UploadSafe, ReleaseHolds, Released
    <3>4. QED
      BY <3>1, <3>2, <3>3 DEF UploadSound
  <2>3. QED
    BY <2>1, <2>2 DEF UploadsIInv
<1>8. CASE CommitHolds(u)
  <2>1. AttachmentsTypeOK'
    <3>1. hold' = [hold EXCEPT ![u] = Committed(hold[u])] \/ UNCHANGED hold
      BY <1>8 DEF CommitHolds
    <3>2. Committed(hold[u]) \in [Metrics -> Holds]
      BY DEF UploadsIInv, AttachmentsTypeOK, Holds, Metrics, Committed
    <3>3. hold' \in [Uploads -> [Metrics -> Holds]]
      BY <3>1, <3>2 DEF UploadsIInv, AttachmentsTypeOK
    <3>4. QED
      BY <1>8, <3>3 DEF UploadsIInv, AttachmentsTypeOK, UploadSteps, CommitHolds
  <2>2. ASSUME NEW v \in Uploads PROVE UploadSound(v)'
    <3>1. UploadHolds(v)'
      BY <1>8 DEF UploadsIInv, AttachmentsTypeOK, Metrics, UploadSound, UploadHolds,
                  DocumentHolds, CommitHolds, Committed
    <3>2. DocumentHolds(v)'
      BY <1>8 DEF UploadsIInv, AttachmentsTypeOK, UploadSound, UploadHolds, DocumentHolds,
                  CommitHolds, Committed
    <3>3. UploadSafe(v)'
      BY <1>8 DEF UploadsIInv, AttachmentsTypeOK, Metrics, UploadSound, UploadHolds,
                  DocumentHolds, UploadSafe, CommitHolds, Committed
    <3>4. QED
      BY <3>1, <3>2, <3>3 DEF UploadSound
  <2>3. QED
    BY <2>1, <2>2 DEF UploadsIInv
<1>9. CASE ExpireHold(u)
  <2>1. AttachmentsTypeOK'
    BY <1>9 DEF UploadsIInv, AttachmentsTypeOK, UploadSteps, Holds, Metrics, ExpireHold
  <2>2. ASSUME NEW v \in Uploads PROVE UploadSound(v)'
    <3>1. UploadHolds(v)'
      BY <1>9 DEF UploadsIInv, AttachmentsTypeOK, Metrics, UploadSound, UploadHolds,
                  DocumentHolds, ExpireHold
    <3>2. DocumentHolds(v)'
      BY <1>9 DEF UploadsIInv, AttachmentsTypeOK, UploadSound, UploadHolds, DocumentHolds,
                  ExpireHold
    <3>3. UploadSafe(v)'
      BY <1>9 DEF UploadsIInv, AttachmentsTypeOK, Metrics, UploadSound, UploadHolds,
                  DocumentHolds, UploadSafe, ExpireHold
    <3>4. QED
      BY <3>1, <3>2, <3>3 DEF UploadSound
  <2>3. QED
    BY <2>1, <2>2 DEF UploadsIInv
<1>10. CASE StopUpload(u)
  <2>1. AttachmentsTypeOK'
    BY <1>10 DEF UploadsIInv, AttachmentsTypeOK, UploadSteps, Holds, Metrics, StopUpload
  <2>2. ASSUME NEW v \in Uploads PROVE UploadSound(v)'
    <3>1. UploadHolds(v)'
      BY <1>10 DEF UploadsIInv, AttachmentsTypeOK, Metrics, UploadSound, UploadHolds,
                  DocumentHolds, StopUpload
    <3>2. DocumentHolds(v)'
      BY <1>10 DEF UploadsIInv, AttachmentsTypeOK, UploadSound, UploadHolds, DocumentHolds,
                  StopUpload
    <3>3. UploadSafe(v)'
      BY <1>10 DEF UploadsIInv, AttachmentsTypeOK, Metrics, UploadSound, UploadHolds,
                  DocumentHolds, UploadSafe, StopUpload
    <3>4. QED
      BY <3>1, <3>2, <3>3 DEF UploadSound
  <2>3. QED
    BY <2>1, <2>2 DEF UploadsIInv
<1>11. CASE LinkDocument(u)
  <2>1. AttachmentsTypeOK'
    BY <1>11 DEF UploadsIInv, AttachmentsTypeOK, UploadSteps, Holds, Metrics, LinkDocument
  <2>2. ASSUME NEW v \in Uploads PROVE UploadSound(v)'
    <3>1. UploadHolds(v)'
      BY <1>11 DEF UploadsIInv, AttachmentsTypeOK, Metrics, UploadSound, UploadHolds,
                  DocumentHolds, LinkDocument
    <3>2. DocumentHolds(v)'
      BY <1>11 DEF UploadsIInv, AttachmentsTypeOK, UploadSound, UploadHolds, DocumentHolds,
                  LinkDocument
    <3>3. UploadSafe(v)'
      BY <1>11 DEF UploadsIInv, AttachmentsTypeOK, Metrics, UploadSound, UploadHolds,
                  DocumentHolds, UploadSafe, LinkDocument
    <3>4. QED
      BY <3>1, <3>2, <3>3 DEF UploadSound
  <2>3. QED
    BY <2>1, <2>2 DEF UploadsIInv
<1>12. CASE WithdrawFile(u)
  <2>1. AttachmentsTypeOK'
    BY <1>12 DEF UploadsIInv, AttachmentsTypeOK, UploadSteps, Holds, Metrics, WithdrawFile
  <2>2. ASSUME NEW v \in Uploads PROVE UploadSound(v)'
    <3>1. UploadHolds(v)'
      BY <1>12 DEF UploadsIInv, AttachmentsTypeOK, Metrics, UploadSound, UploadHolds,
                  DocumentHolds, WithdrawFile
    <3>2. DocumentHolds(v)'
      BY <1>12 DEF UploadsIInv, AttachmentsTypeOK, UploadSound, UploadHolds, DocumentHolds,
                  WithdrawFile
    <3>3. UploadSafe(v)'
      BY <1>12 DEF UploadsIInv, AttachmentsTypeOK, Metrics, UploadSound, UploadHolds,
                  DocumentHolds, UploadSafe, WithdrawFile
    <3>4. QED
      BY <3>1, <3>2, <3>3 DEF UploadSound
  <2>3. QED
    BY <2>1, <2>2 DEF UploadsIInv
<1>13. CASE WithdrawDocument(u)
  <2>1. AttachmentsTypeOK'
    BY <1>13 DEF UploadsIInv, AttachmentsTypeOK, UploadSteps, Holds, Metrics, WithdrawDocument
  <2>2. ASSUME NEW v \in Uploads PROVE UploadSound(v)'
    <3>1. UploadHolds(v)'
      BY <1>13 DEF UploadsIInv, AttachmentsTypeOK, Metrics, UploadSound, UploadHolds,
                  DocumentHolds, WithdrawDocument
    <3>2. DocumentHolds(v)'
      BY <1>13 DEF UploadsIInv, AttachmentsTypeOK, UploadSound, UploadHolds, DocumentHolds,
                  WithdrawDocument
    <3>3. UploadSafe(v)'
      BY <1>13 DEF UploadsIInv, AttachmentsTypeOK, Metrics, UploadSound, UploadHolds,
                  DocumentHolds, UploadSafe, WithdrawDocument
    <3>4. QED
      BY <3>1, <3>2, <3>3 DEF UploadSound
  <2>3. QED
    BY <2>1, <2>2 DEF UploadsIInv
<1>14. CASE RecordFails(u)
  <2>1. AttachmentsTypeOK'
    BY <1>14 DEF UploadsIInv, AttachmentsTypeOK, UploadSteps, Holds, Metrics, RecordFails
  <2>2. ASSUME NEW v \in Uploads PROVE UploadSound(v)'
    <3>1. UploadHolds(v)'
      BY <1>14 DEF UploadsIInv, AttachmentsTypeOK, Metrics, UploadSound, UploadHolds,
                  DocumentHolds, RecordFails
    <3>2. DocumentHolds(v)'
      BY <1>14 DEF UploadsIInv, AttachmentsTypeOK, UploadSound, UploadHolds, DocumentHolds,
                  RecordFails
    <3>3. UploadSafe(v)'
      BY <1>14 DEF UploadsIInv, AttachmentsTypeOK, Metrics, UploadSound, UploadHolds,
                  DocumentHolds, UploadSafe, RecordFails
    <3>4. QED
      BY <3>1, <3>2, <3>3 DEF UploadSound
  <2>3. QED
    BY <2>1, <2>2 DEF UploadsIInv
<1>15. CASE RemoveFile(u)
  <2>1. AttachmentsTypeOK'
    BY <1>15 DEF UploadsIInv, AttachmentsTypeOK, UploadSteps, Holds, Metrics, RemoveFile
  <2>2. ASSUME NEW v \in Uploads PROVE UploadSound(v)'
    <3>1. UploadHolds(v)'
      BY <1>15 DEF UploadsIInv, AttachmentsTypeOK, Metrics, UploadSound, UploadHolds,
                  DocumentHolds, RemoveFile
    <3>2. DocumentHolds(v)'
      BY <1>15 DEF UploadsIInv, AttachmentsTypeOK, UploadSound, UploadHolds, DocumentHolds,
                  RemoveFile
    <3>3. UploadSafe(v)'
      BY <1>15 DEF UploadsIInv, AttachmentsTypeOK, Metrics, UploadSound, UploadHolds,
                  DocumentHolds, UploadSafe, RemoveFile
    <3>4. QED
      BY <3>1, <3>2, <3>3 DEF UploadSound
  <2>3. QED
    BY <2>1, <2>2 DEF UploadsIInv
<1>16. CASE ReadDocument(u)
  <2>1. AttachmentsTypeOK'
    BY <1>16 DEF UploadsIInv, AttachmentsTypeOK, UploadSteps, Holds, Metrics, ReadDocument
  <2>2. ASSUME NEW v \in Uploads PROVE UploadSound(v)'
    <3>1. UploadHolds(v)'
      BY <1>16 DEF UploadsIInv, AttachmentsTypeOK, Metrics, UploadSound, UploadHolds,
                  DocumentHolds, ReadDocument
    <3>2. DocumentHolds(v)'
      BY <1>16 DEF UploadsIInv, AttachmentsTypeOK, UploadSound, UploadHolds, DocumentHolds,
                  ReadDocument
    <3>3. UploadSafe(v)'
      BY <1>16 DEF UploadsIInv, AttachmentsTypeOK, Metrics, UploadSound, UploadHolds,
                  DocumentHolds, UploadSafe, ReadDocument
    <3>4. QED
      BY <3>1, <3>2, <3>3 DEF UploadSound
  <2>3. QED
    BY <2>1, <2>2 DEF UploadsIInv
<1>17. CASE RemoveItsFile(u)
  <2>1. AttachmentsTypeOK'
    BY <1>17 DEF UploadsIInv, AttachmentsTypeOK, UploadSteps, Holds, Metrics, RemoveItsFile
  <2>2. ASSUME NEW v \in Uploads PROVE UploadSound(v)'
    <3>1. UploadHolds(v)'
      BY <1>17 DEF UploadsIInv, AttachmentsTypeOK, Metrics, UploadSound, UploadHolds,
                  DocumentHolds, RemoveItsFile
    <3>2. DocumentHolds(v)'
      BY <1>17 DEF UploadsIInv, AttachmentsTypeOK, UploadSound, UploadHolds, DocumentHolds,
                  RemoveItsFile
    <3>3. UploadSafe(v)'
      BY <1>17 DEF UploadsIInv, AttachmentsTypeOK, Metrics, UploadSound, UploadHolds,
                  DocumentHolds, UploadSafe, RemoveItsFile
    <3>4. QED
      BY <3>1, <3>2, <3>3 DEF UploadSound
  <2>3. QED
    BY <2>1, <2>2 DEF UploadsIInv
<1>18. CASE DeleteDocument(u)
  <2>1. AttachmentsTypeOK'
    BY <1>18 DEF UploadsIInv, AttachmentsTypeOK, UploadSteps, Holds, Metrics, DeleteDocument
  <2>2. ASSUME NEW v \in Uploads PROVE UploadSound(v)'
    <3>1. UploadHolds(v)'
      BY <1>18 DEF UploadsIInv, AttachmentsTypeOK, Metrics, UploadSound, UploadHolds,
                  DocumentHolds, DeleteDocument
    <3>2. DocumentHolds(v)'
      BY <1>18 DEF UploadsIInv, AttachmentsTypeOK, UploadSound, UploadHolds, DocumentHolds,
                  DeleteDocument
    <3>3. UploadSafe(v)'
      BY <1>18 DEF UploadsIInv, AttachmentsTypeOK, Metrics, UploadSound, UploadHolds,
                  DocumentHolds, UploadSafe, DeleteDocument
    <3>4. QED
      BY <3>1, <3>2, <3>3 DEF UploadSound
  <2>3. QED
    BY <2>1, <2>2 DEF UploadsIInv
<1>19. CASE StopRemoval(u)
  <2>1. AttachmentsTypeOK'
    BY <1>19 DEF UploadsIInv, AttachmentsTypeOK, UploadSteps, Holds, Metrics, StopRemoval
  <2>2. ASSUME NEW v \in Uploads PROVE UploadSound(v)'
    <3>1. UploadHolds(v)'
      BY <1>19 DEF UploadsIInv, AttachmentsTypeOK, Metrics, UploadSound, UploadHolds,
                  DocumentHolds, StopRemoval
    <3>2. DocumentHolds(v)'
      BY <1>19 DEF UploadsIInv, AttachmentsTypeOK, UploadSound, UploadHolds, DocumentHolds,
                  StopRemoval
    <3>3. UploadSafe(v)'
      BY <1>19 DEF UploadsIInv, AttachmentsTypeOK, Metrics, UploadSound, UploadHolds,
                  DocumentHolds, UploadSafe, StopRemoval
    <3>4. QED
      BY <3>1, <3>2, <3>3 DEF UploadSound
  <2>3. QED
    BY <2>1, <2>2 DEF UploadsIInv
<1>20. QED
  BY <1>1, <1>2, <1>3, <1>4, <1>5, <1>6, <1>7, <1>8, <1>9, <1>10, <1>11, <1>12, <1>13, <1>14, <1>15, <1>16, <1>17, <1>18, <1>19

LEMMA UploadsStepInv == UploadsIInv /\ [AttachmentsNext]_attachmentVars => UploadsIInv'
<1> SUFFICES ASSUME UploadsIInv, [AttachmentsNext]_attachmentVars PROVE UploadsIInv'
  OBVIOUS
<1>1. CASE AttachmentsNext
  BY <1>1, UploadStep DEF AttachmentsNext
<1>2. CASE UNCHANGED attachmentVars
  BY <1>2 DEF attachmentVars, UploadsIInv, AttachmentsTypeOK, UploadSound, UploadHolds,
              DocumentHolds, UploadSafe
<1>3. QED
  BY <1>1, <1>2

\* For any uploads: a file that can be asked for is stored, an object has its
\* row or is being undone, an upload that ends leaves no hold and is counted,
\* and a document goes and stays with its file, but for what failed to be
\* undone, reported a failure of what it did, or was removed across a link.
THEOREM AttachmentsSafe == AttachmentsSpec => []AttachmentsInv
<1>1. AttachmentsInit => UploadsIInv
  BY UploadsInitInv
<1>2. UploadsIInv /\ [AttachmentsNext]_attachmentVars => UploadsIInv'
  BY UploadsStepInv
<1>3. UploadsIInv => AttachmentsInv
  BY DEF UploadsIInv, UploadSound, UploadSafe, AttachmentsInv, FilesAreStored, ObjectsHaveFiles,
         HoldsSettled, DocumentsWhole, Uploading
<1>4. QED
  BY <1>1, <1>2, <1>3, PTL DEF AttachmentsSpec

(***************************************************************************)
(* Meetings and reminders.                                                 *)
(***************************************************************************)

LEMMA TimesFacts ==
  /\ Times \subseteq Nat /\ NoTime \in Nat /\ NoTime \notin Times
  /\ Settings = 0..MaxSettings /\ Settings \subseteq Nat
BY MeetingsAssumption DEF Times, NoTime, Settings

\* What is told of a meeting, and what a row says, whoever is under way
MeetingHolds(m) ==
  /\ meeting[m].status = "NONE" => ~meeting[m].sent
  /\ \A s \in Settings : told[m][s] <= 1 /\ (s > setting[m] => told[m][s] = 0)
  /\ ~meeting[m].sent => told[m][setting[m]] = 0
  /\ meeting[m].sent => told[m][setting[m]] = 1 \/ m \in moved
  /\ reminders.running /\ m \in reminders.due =>
       /\ reminders.seen[m] <= setting[m] /\ told[m][reminders.seen[m]] = 0
       /\ meeting[m].status # "NONE"
  /\ m \notin crossed =>
       /\ meeting[m].reminder # NoTime => meeting[m].reminder < meeting[m].start
       /\ meeting[m].completedAt <=> meeting[m].status = "COMPLETED"
       /\ meeting[m].cancelledAt <=> meeting[m].status = "CANCELLED"

\* What a call judged, as long as the row has not changed
CallHolds(o) ==
  organizer[o].op # "none" =>
    /\ organizer[o].at \in Meetings
    /\ organizer[o].fresh => meeting[organizer[o].at].status = "SCHEDULED"
    /\ organizer[o].fresh /\ organizer[o].op = "update"
         /\ Given(meeting[organizer[o].at], organizer[o].change, "reminder") # NoTime =>
           Given(meeting[organizer[o].at], organizer[o].change, "reminder")
             < Given(meeting[organizer[o].at], organizer[o].change, "start")

MeetingsIInv ==
  /\ MeetingsTypeOK
  /\ \A m \in Meetings : MeetingHolds(m)
  /\ \A o \in Organizers : CallHolds(o)

OrganizerCalls == [op : {"none", "update", "complete", "cancel"}, at : Meetings \cup {NoMeeting},
                   change : Changes, fresh : BOOLEAN]

LEMMA ChangeFacts ==
  ASSUME NEW change \in Changes
  PROVE  /\ Sets(change, "start") => change["start"] \in Times
         /\ Sets(change, "reminder") => change["reminder"] \in Times \cup {NoTime}
BY DEF Changes, Sets

LEMMA GivenFacts ==
  ASSUME NEW row \in MeetingRows, NEW change \in Changes
  PROVE  /\ Given(row, change, "start") \in Times
         /\ Given(row, change, "reminder") \in Times \cup {NoTime}
<1>1. row.start \in Times /\ row.reminder \in Times \cup {NoTime}
  BY DEF MeetingRows
<1>2. row["start"] = row.start /\ row["reminder"] = row.reminder
  OBVIOUS
<1>3. QED
  BY <1>1, <1>2, ChangeFacts DEF Given

LEMMA EditedFacts ==
  ASSUME NEW row \in MeetingRows, NEW change \in Changes
  PROVE  /\ Edited(row, change) \in MeetingRows
         /\ Edited(row, change).status = row.status
         /\ Edited(row, change).start = Given(row, change, "start")
         /\ Edited(row, change).reminder = Given(row, change, "reminder")
         /\ Edited(row, change).completedAt = row.completedAt
         /\ Edited(row, change).cancelledAt = row.cancelledAt
         /\ Sets(change, "reminder") => ~Edited(row, change).sent
         /\ ~Sets(change, "reminder") =>
              Edited(row, change).sent = row.sent
<1> DEFINE start == Given(row, change, "start")
           reminder == Given(row, change, "reminder")
           sets == Sets(change, "reminder")
<1>1. start \in Times /\ reminder \in Times \cup {NoTime}
  BY GivenFacts
<1>2. sets \in BOOLEAN
  BY DEF Sets
<1>3. Edited(row, change) =
        [row EXCEPT !.start = start, !.reminder = reminder, !.sent = @ /\ ~sets]
  BY DEF Edited
<1> HIDE DEF start, reminder, sets
<1>4. LET r == [row EXCEPT !.start = start, !.reminder = reminder, !.sent = @ /\ ~sets]
      IN  /\ r \in MeetingRows /\ r.status = row.status /\ r.start = start
          /\ r.reminder = reminder /\ r.completedAt = row.completedAt
          /\ r.cancelledAt = row.cancelledAt
          /\ sets => ~r.sent
          /\ ~sets => r.sent = row.sent
  BY <1>1, <1>2 DEF MeetingRows
<1>5. QED
  BY <1>3, <1>4 DEF start, reminder, sets

LEMMA ClosedFacts ==
  ASSUME NEW row \in MeetingRows, NEW op \in {"complete", "cancel"}
  PROVE  LET r == Closed(row, op)
         IN  /\ r \in MeetingRows /\ r.start = row.start /\ r.reminder = row.reminder
             /\ r.sent = row.sent /\ r.status # "NONE"
             /\ row.status = "SCHEDULED" /\ ~row.completedAt /\ ~row.cancelledAt =>
                  /\ r.completedAt <=> r.status = "COMPLETED"
                  /\ r.cancelledAt <=> r.status = "CANCELLED"
BY DEF Closed, MeetingRows

LEMMA IdleTypes == /\ NoMeetingRow \in MeetingRows /\ IdleOrganizer \in OrganizerCalls
                   /\ NoJob \in [running : BOOLEAN, due : SUBSET Meetings, seen : [Meetings -> Settings]]
<1>1. 0 \in Times /\ 0 \in Settings
  BY MeetingsAssumption DEF Times, Settings
<1>2. NoChange \in Changes
  BY <1>1 DEF NoChange, Changes
<1>3. QED
  BY <1>1, <1>2 DEF NoMeetingRow, MeetingRows, IdleOrganizer, OrganizerCalls, NoJob

LEMMA MeetingsInitInv == MeetingsInit => MeetingsIInv
<1> SUFFICES ASSUME MeetingsInit PROVE MeetingsIInv
  OBVIOUS
<1>1. 0 \in Times /\ 0 \in Settings
  BY MeetingsAssumption DEF Times, Settings
<1>2. MeetingsTypeOK
  BY <1>1, IdleTypes DEF MeetingsInit, MeetingsTypeOK, OrganizerCalls
<1>3. \A m \in Meetings : MeetingHolds(m)
  BY <1>1 DEF MeetingsInit, MeetingHolds, NoMeetingRow, NoJob
<1>4. \A o \in Organizers : CallHolds(o)
  BY DEF MeetingsInit, CallHolds, IdleOrganizer
<1>5. QED
  BY <1>2, <1>3, <1>4 DEF MeetingsIInv

LEMMA CreateMeetingStep ==
  ASSUME MeetingsIInv, NEW m \in Meetings, CreateMeeting(m)
  PROVE  MeetingsIInv'
<1>1. PICK start \in Times, reminder \in Times \cup {NoTime} :
        /\ Acceptable(start, reminder)
        /\ meeting' = [meeting EXCEPT ![m] = [NoMeetingRow EXCEPT !.status = "SCHEDULED",
                                                !.start = start, !.reminder = reminder]]
  BY DEF CreateMeeting
<1> DEFINE row == [NoMeetingRow EXCEPT !.status = "SCHEDULED", !.start = start,
                                       !.reminder = reminder]
<1>2. /\ row \in MeetingRows /\ row.status = "SCHEDULED" /\ row.start = start
      /\ row.reminder = reminder /\ ~row.sent /\ ~row.completedAt /\ ~row.cancelledAt
  BY DEF NoMeetingRow, MeetingRows
<1> HIDE DEF row
<1>3. /\ meeting[m].status = "NONE"
      /\ UNCHANGED <<organizer, reminders, clock, setting, told, moved, crossed>>
  BY DEF CreateMeeting
<1>4. \A n \in Meetings : meeting'[n] = IF n = m THEN row ELSE meeting[n]
  BY <1>1 DEF MeetingsIInv, MeetingsTypeOK, row
<1>5. MeetingsTypeOK'
  BY <1>1, <1>2, <1>3 DEF MeetingsIInv, MeetingsTypeOK, row
<1>6. ASSUME NEW n \in Meetings PROVE MeetingHolds(n)'
  <2>1. CASE n # m
    BY <1>3, <1>4, <2>1 DEF MeetingsIInv, MeetingHolds
  <2>2. CASE n = m
    <3>1. meeting'[m] = row
      BY <1>4
    <3>2. row.reminder # NoTime => row.reminder < row.start
      BY <1>1, <1>2 DEF Acceptable
    <3>3. told[m][setting[m]] = 0
      BY <1>3 DEF MeetingsIInv, MeetingHolds
    <3>4. ~(reminders.running /\ m \in reminders.due)
      BY <1>3 DEF MeetingsIInv, MeetingHolds
    <3>5. \A s \in Settings : told[m][s] <= 1 /\ (s > setting[m] => told[m][s] = 0)
      BY DEF MeetingsIInv, MeetingHolds
    <3>6. QED
      BY <1>2, <1>3, <2>2, <3>1, <3>2, <3>3, <3>4, <3>5 DEF MeetingHolds
  <2>3. QED
    BY <2>1, <2>2
<1>7. ASSUME NEW o \in Organizers PROVE CallHolds(o)'
  <2>1. organizer[o].op # "none" /\ organizer[o].fresh => organizer[o].at # m
    BY <1>3 DEF MeetingsIInv, CallHolds
  <2>2. organizer[o].op # "none" /\ organizer[o].fresh =>
          meeting'[organizer[o].at] = meeting[organizer[o].at]
    BY <1>4, <2>1 DEF MeetingsIInv, CallHolds
  <2>3. QED
    BY <1>3, <2>2 DEF MeetingsIInv, CallHolds, Given, Sets
<1>8. QED
  BY <1>5, <1>6, <1>7 DEF MeetingsIInv

LEMMA BeginCallStep ==
  ASSUME MeetingsIInv, NEW o \in Organizers, BeginUpdate(o) \/ BeginClose(o)
  PROVE  MeetingsIInv'
<1>1. PICK m \in Meetings, op \in {"update", "complete", "cancel"}, change \in Changes :
        /\ CallFor(o, op, m, change)
        /\ op = "update" => Acceptable(Given(meeting[m], change, "start"),
                                       Given(meeting[m], change, "reminder"))
  <2>1. NoChange \in Changes
    BY MeetingsAssumption DEF NoChange, Changes, Times
  <2>2. QED
    BY <2>1 DEF BeginUpdate, BeginClose
<1> DEFINE c == [op |-> op, at |-> m, change |-> change, fresh |-> TRUE]
<1>2. /\ meeting[m].status = "SCHEDULED" /\ organizer' = [organizer EXCEPT ![o] = c]
      /\ UNCHANGED <<meeting, reminders, clock, setting, told, moved, crossed>>
  BY <1>1 DEF CallFor
<1>3. MeetingsTypeOK'
  BY <1>2 DEF MeetingsIInv, MeetingsTypeOK
<1>4. \A n \in Meetings : MeetingHolds(n)'
  BY <1>2 DEF MeetingsIInv, MeetingHolds
<1>5. ASSUME NEW q \in Organizers PROVE CallHolds(q)'
  <2>1. CASE q = o
    <3>1. organizer'[q] = c
      BY <1>2, <2>1 DEF MeetingsIInv, MeetingsTypeOK
    <3>2. QED
      BY <1>1, <1>2, <3>1 DEF CallHolds, Acceptable
  <2>2. CASE q # o
    <3>1. organizer'[q] = organizer[q]
      BY <1>2, <2>2 DEF MeetingsIInv, MeetingsTypeOK
    <3>2. QED
      BY <1>2, <3>1 DEF MeetingsIInv, CallHolds
  <2>3. QED
    BY <2>1, <2>2
<1>6. QED
  BY <1>3, <1>4, <1>5 DEF MeetingsIInv

\* A write of a call: the calls that read the same row are no longer fresh.
LEMMA WriteMeetingFacts ==
  ASSUME MeetingsIInv, NEW o \in Organizers, organizer[o].op # "none",
         NEW row \in MeetingRows, WriteMeeting(o, row)
  PROVE  /\ organizer[o].at \in Meetings
         /\ \A n \in Meetings : meeting'[n] = IF n = organizer[o].at THEN row ELSE meeting[n]
         /\ meeting' \in [Meetings -> MeetingRows]
         /\ organizer' \in [Organizers -> OrganizerCalls]
         /\ \A q \in Organizers : CallHolds(q)'
         /\ crossed' = IF organizer[o].fresh THEN crossed ELSE crossed \cup {organizer[o].at}
         /\ UNCHANGED <<reminders, clock, told>>
<1>1. organizer[o].at \in Meetings
  BY DEF MeetingsIInv, CallHolds
<1>2. \A n \in Meetings : meeting'[n] = IF n = organizer[o].at THEN row ELSE meeting[n]
  BY DEF WriteMeeting, MeetingsIInv, MeetingsTypeOK
<1>3. meeting' \in [Meetings -> MeetingRows]
  BY DEF WriteMeeting, MeetingsIInv, MeetingsTypeOK
<1>4. ASSUME NEW q \in Organizers
      PROVE  /\ organizer'[q] = IF q = o THEN IdleOrganizer
                ELSE [organizer[q] EXCEPT !.fresh = @ /\ organizer[q].at # organizer[o].at]
             /\ organizer'[q] \in OrganizerCalls
  <2>1. organizer'[q] = IF q = o THEN IdleOrganizer
                ELSE [organizer[q] EXCEPT !.fresh = @ /\ organizer[q].at # organizer[o].at]
    BY DEF WriteMeeting
  <2>2. organizer[q] \in OrganizerCalls
    BY DEF MeetingsIInv, MeetingsTypeOK, OrganizerCalls
  <2>3. [organizer[q] EXCEPT !.fresh = @ /\ organizer[q].at # organizer[o].at] \in OrganizerCalls
    BY <2>2 DEF OrganizerCalls
  <2>4. QED
    BY <2>1, <2>3, IdleTypes
<1>5. organizer' \in [Organizers -> OrganizerCalls]
  BY <1>4 DEF WriteMeeting
<1>6. ASSUME NEW q \in Organizers PROVE CallHolds(q)'
  <2>1. CASE q = o
    <3>1. organizer'[q] = IdleOrganizer
      BY <1>4, <2>1
    <3>2. IdleOrganizer.op = "none"
      BY DEF IdleOrganizer
    <3>3. QED
      BY <3>1, <3>2 DEF CallHolds
  <2>2. CASE q # o
    <3>1. organizer[q] \in OrganizerCalls
      BY DEF MeetingsIInv, MeetingsTypeOK, OrganizerCalls
    <3>2. /\ organizer'[q].op = organizer[q].op /\ organizer'[q].at = organizer[q].at
          /\ organizer'[q].change = organizer[q].change
          /\ organizer'[q].fresh => organizer[q].fresh /\ organizer[q].at # organizer[o].at
      BY <1>4, <2>2, <3>1 DEF OrganizerCalls
    <3>3. organizer'[q].op # "none" /\ organizer'[q].fresh =>
            meeting'[organizer[q].at] = meeting[organizer[q].at]
      BY <1>2, <3>2 DEF MeetingsIInv, CallHolds
    <3>4. QED
      BY <3>2, <3>3 DEF MeetingsIInv, CallHolds, Given, Sets
  <2>3. QED
    BY <2>1, <2>2
<1>7. QED
  BY <1>1, <1>2, <1>3, <1>5, <1>6 DEF WriteMeeting

LEMMA CommitUpdateStep ==
  ASSUME MeetingsIInv, NEW o \in Organizers, CommitMeetingUpdate(o)
  PROVE  MeetingsIInv'
<1> DEFINE m == organizer[o].at
           change == organizer[o].change
           row == Edited(meeting[m], change)
           resets == Sets(change, "reminder")
<1>1. /\ organizer[o].op = "update" /\ WriteMeeting(o, row)
      /\ resets => setting[m] < MaxSettings
      /\ setting' = IF resets THEN [setting EXCEPT ![m] = @ + 1] ELSE setting
      /\ moved' = IF resets THEN moved \ {m} ELSE moved
  BY DEF CommitMeetingUpdate
<1>2. change \in Changes /\ m \in Meetings /\ meeting[m] \in MeetingRows
  BY <1>1 DEF MeetingsIInv, MeetingsTypeOK, CallHolds
<1>3. /\ row \in MeetingRows /\ row.status = meeting[m].status
      /\ row.start = Given(meeting[m], change, "start")
      /\ row.reminder = Given(meeting[m], change, "reminder")
      /\ row.completedAt = meeting[m].completedAt /\ row.cancelledAt = meeting[m].cancelledAt
      /\ resets => ~row.sent
      /\ ~resets => row.sent = meeting[m].sent
  BY <1>2, EditedFacts
<1> HIDE DEF row
<1>4. /\ \A n \in Meetings : meeting'[n] = IF n = m THEN row ELSE meeting[n]
      /\ meeting' \in [Meetings -> MeetingRows]
      /\ organizer' \in [Organizers -> OrganizerCalls]
      /\ \A q \in Organizers : CallHolds(q)'
      /\ crossed' = IF organizer[o].fresh THEN crossed ELSE crossed \cup {m}
      /\ UNCHANGED <<reminders, clock, told>>
  BY <1>1, <1>3, WriteMeetingFacts
<1>5. setting' \in [Meetings -> Settings] /\ moved' \subseteq Meetings
  BY <1>1, <1>2, MeetingsAssumption DEF MeetingsIInv, MeetingsTypeOK, Settings
<1>6. MeetingsTypeOK'
  BY <1>2, <1>4, <1>5 DEF MeetingsIInv, MeetingsTypeOK, OrganizerCalls
<1>7. organizer[o].fresh =>
        /\ meeting[m].status = "SCHEDULED"
        /\ row.reminder # NoTime => row.reminder < row.start
  BY <1>1, <1>3 DEF MeetingsIInv, CallHolds
<1>8. \A n \in Meetings :
        setting'[n] = IF resets /\ n = m THEN setting[n] + 1 ELSE setting[n]
  BY <1>1 DEF MeetingsIInv, MeetingsTypeOK
<1>9. ASSUME NEW n \in Meetings PROVE MeetingHolds(n)'
  <2>1. \A s \in Settings : told[n][s] \in Nat
    BY DEF MeetingsIInv, MeetingsTypeOK
  <2>2. setting[n] \in Nat /\ setting'[n] \in Settings /\ reminders.seen[n] \in Nat
    BY <1>5, TimesFacts DEF MeetingsIInv, MeetingsTypeOK
  <2>3. CASE n # m
    BY <1>1, <1>4, <1>8, <2>3 DEF MeetingsIInv, MeetingHolds
  <2>4. CASE n = m
    <3>1. meeting'[m] = row
      BY <1>2, <1>4
    <3>2. /\ row.status = "NONE" => ~row.sent
          /\ \A s \in Settings : told[m][s] <= 1 /\ (s > setting'[m] => told[m][s] = 0)
      BY <1>2, <1>3, <1>8, <2>2, <2>4, TimesFacts DEF MeetingsIInv, MeetingHolds
    <3>3. /\ ~row.sent => told[m][setting'[m]] = 0
          /\ row.sent => told[m][setting'[m]] = 1 \/ m \in moved'
      BY <1>1, <1>2, <1>3, <1>8, <2>2, <2>4 DEF MeetingsIInv, MeetingHolds
    <3>4. reminders.running /\ m \in reminders.due =>
            /\ reminders.seen[m] <= setting'[m] /\ told[m][reminders.seen[m]] = 0
            /\ row.status # "NONE"
      BY <1>2, <1>3, <1>8, <2>2, <2>4 DEF MeetingsIInv, MeetingHolds
    <3>5. m \notin crossed' =>
            /\ row.reminder # NoTime => row.reminder < row.start
            /\ row.completedAt <=> row.status = "COMPLETED"
            /\ row.cancelledAt <=> row.status = "CANCELLED"
      BY <1>2, <1>3, <1>4, <1>7 DEF MeetingsIInv, MeetingHolds
    <3>6. QED
      BY <1>4, <2>4, <3>1, <3>2, <3>3, <3>4, <3>5 DEF MeetingHolds
  <2>5. QED
    BY <2>3, <2>4
<1>10. QED
  BY <1>4, <1>6, <1>9 DEF MeetingsIInv

LEMMA CommitCloseStep ==
  ASSUME MeetingsIInv, NEW o \in Organizers, CommitClose(o)
  PROVE  MeetingsIInv'
<1> DEFINE m == organizer[o].at
           row == Closed(meeting[m], organizer[o].op)
<1>1. /\ organizer[o].op \in {"complete", "cancel"} /\ WriteMeeting(o, row)
      /\ UNCHANGED <<setting, moved>>
  BY DEF CommitClose
<1>2. m \in Meetings /\ meeting[m] \in MeetingRows
  BY <1>1 DEF MeetingsIInv, MeetingsTypeOK, CallHolds
<1>3. /\ row \in MeetingRows /\ row.start = meeting[m].start
      /\ row.reminder = meeting[m].reminder
      /\ row.sent = meeting[m].sent /\ row.status # "NONE"
      /\ meeting[m].status = "SCHEDULED" /\ ~meeting[m].completedAt /\ ~meeting[m].cancelledAt =>
           /\ row.completedAt <=> row.status = "COMPLETED"
           /\ row.cancelledAt <=> row.status = "CANCELLED"
  BY <1>1, <1>2, ClosedFacts
<1> HIDE DEF row
<1>4. /\ \A n \in Meetings : meeting'[n] = IF n = m THEN row ELSE meeting[n]
      /\ meeting' \in [Meetings -> MeetingRows]
      /\ organizer' \in [Organizers -> OrganizerCalls]
      /\ \A q \in Organizers : CallHolds(q)'
      /\ crossed' = IF organizer[o].fresh THEN crossed ELSE crossed \cup {m}
      /\ UNCHANGED <<reminders, clock, told>>
  BY <1>1, <1>3, WriteMeetingFacts
<1>5. MeetingsTypeOK'
  BY <1>1, <1>2, <1>4 DEF MeetingsIInv, MeetingsTypeOK, OrganizerCalls
<1>6. organizer[o].fresh => meeting[m].status = "SCHEDULED"
  BY <1>1 DEF MeetingsIInv, CallHolds
<1>7. ASSUME NEW n \in Meetings PROVE MeetingHolds(n)'
  <2>1. m \notin crossed' =>
          /\ row.reminder # NoTime => row.reminder < row.start
          /\ row.completedAt <=> row.status = "COMPLETED"
          /\ row.cancelledAt <=> row.status = "CANCELLED"
    BY <1>2, <1>3, <1>4, <1>6 DEF MeetingsIInv, MeetingHolds
  <2>2. n # m /\ n \notin crossed' => n \notin crossed
    BY <1>4
  <2>3. QED
    BY <1>1, <1>2, <1>3, <1>4, <2>1, <2>2 DEF MeetingsIInv, MeetingHolds
<1>8. QED
  BY <1>4, <1>5, <1>7 DEF MeetingsIInv

LEMMA CommitRemindersStep ==
  ASSUME MeetingsIInv, CommitReminders
  PROVE  MeetingsIInv'
<1> DEFINE due == reminders.due
           seen == reminders.seen
<1>1. /\ reminders.running
      /\ told' = [m \in Meetings |-> IF m \in due THEN [told[m] EXCEPT ![seen[m]] = @ + 1]
                                     ELSE told[m]]
      /\ meeting' = [m \in Meetings |-> IF m \in due THEN [meeting[m] EXCEPT !.sent = TRUE]
                                        ELSE meeting[m]]
      /\ moved' = moved \cup {m \in due : setting[m] # seen[m]}
      /\ reminders' = NoJob
      /\ UNCHANGED <<organizer, clock, setting, crossed>>
  BY DEF CommitReminders
<1>2. due \subseteq Meetings /\ seen \in [Meetings -> Settings]
  BY DEF MeetingsIInv, MeetingsTypeOK
<1>3. ASSUME NEW m \in Meetings
      PROVE  /\ meeting[m] \in MeetingRows /\ meeting'[m] \in MeetingRows
             /\ meeting'[m].status = meeting[m].status /\ meeting'[m].start = meeting[m].start
             /\ meeting'[m].reminder = meeting[m].reminder
             /\ meeting'[m].completedAt = meeting[m].completedAt
             /\ meeting'[m].cancelledAt = meeting[m].cancelledAt
             /\ meeting'[m].sent = (meeting[m].sent \/ m \in due)
  BY ZenonT(40), <1>1 DEF MeetingsIInv, MeetingsTypeOK, MeetingRows
<1>4. ASSUME NEW m \in Meetings
      PROVE  /\ told[m] \in [Settings -> Nat] /\ told'[m] \in [Settings -> Nat]
             /\ \A s \in Settings :
                  told'[m][s] = IF m \in due /\ s = seen[m] THEN told[m][s] + 1 ELSE told[m][s]
  <2>1. told[m] \in [Settings -> Nat] /\ seen[m] \in Settings
    BY <1>2 DEF MeetingsIInv, MeetingsTypeOK
  <2>2. QED
    BY <1>1, <2>1
<1>5. MeetingsTypeOK'
  <2>1. told' \in [Meetings -> [Settings -> Nat]] /\ meeting' \in [Meetings -> MeetingRows]
    BY <1>1, <1>3, <1>4
  <2>2. moved' \subseteq Meetings
    BY <1>1, <1>2 DEF MeetingsIInv, MeetingsTypeOK
  <2>3. QED
    BY <1>1, <2>1, <2>2, IdleTypes DEF MeetingsIInv, MeetingsTypeOK
<1>6. ASSUME NEW m \in Meetings PROVE MeetingHolds(m)'
  <2>1. ~reminders'.running
    BY <1>1 DEF NoJob
  <2>2. m \in due => seen[m] <= setting[m] /\ told[m][seen[m]] = 0
    BY <1>1 DEF MeetingsIInv, MeetingHolds
  <2>3. seen[m] \in Settings /\ setting[m] \in Settings /\ seen[m] \in Nat /\ setting[m] \in Nat
    BY <1>2, TimesFacts DEF MeetingsIInv, MeetingsTypeOK
  <2>4. ASSUME NEW s \in Settings
        PROVE  told'[m][s] <= 1 /\ (s > setting[m] => told'[m][s] = 0)
    <3>1. s \in Nat /\ told[m][s] <= 1 /\ (s > setting[m] => told[m][s] = 0)
      BY TimesFacts DEF MeetingsIInv, MeetingHolds
    <3>2. CASE m \in due /\ s = seen[m]
      BY <1>4, <2>2, <2>3, <3>2
    <3>3. CASE ~(m \in due /\ s = seen[m])
      BY <1>4, <3>1, <3>3
    <3>4. QED
      BY <3>2, <3>3
  <2>5. ~meeting'[m].sent => told'[m][setting[m]] = 0
    BY ZenonT(40), <1>3, <1>4, <2>3 DEF MeetingsIInv, MeetingHolds
  <2>6. meeting'[m].sent => told'[m][setting[m]] = 1 \/ m \in moved'
    BY <1>1, <1>3, <1>4, <2>2, <2>3 DEF MeetingsIInv, MeetingHolds
  <2>7. meeting'[m].status = "NONE" => ~meeting'[m].sent
    <3>1. m \in due => meeting[m].status # "NONE"
      BY <1>1 DEF MeetingsIInv, MeetingHolds
    <3>2. QED
      BY <1>3, <3>1 DEF MeetingsIInv, MeetingHolds
  <2>8. QED
    BY <1>1, <1>3, <2>1, <2>4, <2>5, <2>6, <2>7 DEF MeetingsIInv, MeetingHolds
<1>7. ASSUME NEW o \in Organizers PROVE CallHolds(o)'
  <2>1. organizer[o] \in OrganizerCalls
    BY DEF MeetingsIInv, MeetingsTypeOK, OrganizerCalls
  <2>2. ASSUME NEW m \in Meetings, NEW f \in {"start", "reminder"}
        PROVE  Given(meeting'[m], organizer[o].change, f) = Given(meeting[m], organizer[o].change, f)
    BY <1>3 DEF Given
  <2>3. QED
    BY <1>1, <1>3, <2>1, <2>2 DEF MeetingsIInv, CallHolds
<1>8. QED
  BY <1>5, <1>6, <1>7 DEF MeetingsIInv

LEMMA OtherMeetingSteps ==
  ASSUME MeetingsIInv,
         \/ \E o \in Organizers : DropMeetingCall(o)
         \/ ReadDue \/ AbortReminders \/ ClockTicks
  PROVE  MeetingsIInv'
<1>1. ASSUME NEW o \in Organizers, DropMeetingCall(o) PROVE MeetingsIInv'
  <2>1. /\ organizer' = [organizer EXCEPT ![o] = IdleOrganizer]
        /\ UNCHANGED <<meeting, reminders, clock, setting, told, moved, crossed>>
    BY <1>1 DEF DropMeetingCall
  <2>2. MeetingsTypeOK'
    BY <2>1, IdleTypes DEF MeetingsIInv, MeetingsTypeOK, OrganizerCalls
  <2>3. \A m \in Meetings : MeetingHolds(m)'
    BY <2>1 DEF MeetingsIInv, MeetingHolds
  <2>4. ASSUME NEW q \in Organizers PROVE CallHolds(q)'
    <3>1. organizer'[q] = IF q = o THEN IdleOrganizer ELSE organizer[q]
      BY <2>1 DEF MeetingsIInv, MeetingsTypeOK
    <3>2. IdleOrganizer.op = "none"
      BY DEF IdleOrganizer
    <3>3. QED
      BY <2>1, <3>1, <3>2 DEF MeetingsIInv, CallHolds
  <2>5. QED
    BY <2>2, <2>3, <2>4 DEF MeetingsIInv
<1>2. CASE ReadDue
  <2>1. MeetingsTypeOK'
    BY <1>2 DEF ReadDue, MeetingsIInv, MeetingsTypeOK
  <2>2. \A m \in Meetings : MeetingHolds(m)'
    BY <1>2, TimesFacts DEF ReadDue, Due, MeetingsIInv, MeetingsTypeOK, MeetingHolds
  <2>3. \A o \in Organizers : CallHolds(o)'
    BY <1>2 DEF ReadDue, MeetingsIInv, CallHolds
  <2>4. QED
    BY <2>1, <2>2, <2>3 DEF MeetingsIInv
<1>3. CASE AbortReminders
  BY <1>3, IdleTypes DEF AbortReminders, MeetingsIInv, MeetingsTypeOK, MeetingHolds, CallHolds,
                         NoJob
<1>4. CASE ClockTicks
  BY <1>4, MeetingsAssumption DEF ClockTicks, MeetingsIInv, MeetingsTypeOK, Times, MeetingHolds,
                                  CallHolds
<1>5. QED
  BY <1>1, <1>2, <1>3, <1>4

LEMMA MeetingsStepInv == MeetingsIInv /\ [MeetingsNext]_meetingVars => MeetingsIInv'
<1> SUFFICES ASSUME MeetingsIInv, [MeetingsNext]_meetingVars PROVE MeetingsIInv'
  OBVIOUS
<1>1. CASE MeetingsNext
  BY <1>1, CreateMeetingStep, BeginCallStep, CommitUpdateStep, CommitCloseStep,
     CommitRemindersStep, OtherMeetingSteps DEF MeetingsNext
<1>2. CASE UNCHANGED meetingVars
  BY <1>2 DEF meetingVars, MeetingsIInv, MeetingsTypeOK, MeetingHolds, CallHolds
<1>3. QED
  BY <1>1, <1>2

\* For any meetings, callers and settings of a reminder: a reminder is told once
\* for each time it is set, one marked as sent was told unless it was set anew
\* under the job, and a meeting keeps to its times unless a call overtook another.
THEOREM MeetingsSafe == MeetingsSpec => []MeetingsInv
<1>1. MeetingsInit => MeetingsIInv
  BY MeetingsInitInv
<1>2. MeetingsIInv /\ [MeetingsNext]_meetingVars => MeetingsIInv'
  BY MeetingsStepInv
<1>3. MeetingsIInv => MeetingsInv
  BY DEF MeetingsIInv, MeetingHolds, MeetingsInv, RemindedOnce, MarkedWasTold, RowsHold
<1>4. QED
  BY <1>1, <1>2, <1>3, PTL DEF MeetingsSpec

(***************************************************************************)
(* Stages, and the opportunities that stand in them.                       *)
(***************************************************************************)
\* What a call has judged of the rows it read, whatever became of them
CallSound(k, made) ==
  /\ k.op = "update" =>
       /\ k.at \in made /\ k.to = NoStage /\ ValidRow(Merge(k.row, k.edit))
       /\ ~(k.row.default /\ Gives(k.edit, "default", FALSE))
       /\ k.step = "checked" /\ Gives(k.edit, "active", FALSE) => k.deals = {}
  /\ k.op = "deactivate" =>
       /\ k.at \in made /\ k.to \in made \cup {NoStage} /\ k.to # k.at
       /\ k.row.default => k.to # NoStage
       /\ k.step = "checked" =>
            /\ k.to # NoStage => k.toRow.active /\ (k.row.default => ~k.toRow.terminal)
            /\ k.deals # {} => k.to # NoStage
  /\ k.op \in {"open", "move"} =>
       /\ k.deal \in Deals
       /\ k.step = "checked" => k.to \in made /\ k.toRow.active

\* Where a deal stands: archived ones as well, so that a restore finds them so.
DealHolds(d) ==
  /\ trail[d][2] = deal[d].stage
  /\ deal[d].stage # NoStage =>
       /\ deal[d].stage \in Made
       /\ ~excused[d] => /\ stage[deal[d].stage].active
                         /\ deal[d].stamp = StampOf(stage[deal[d].stage].type)

StagesHold ==
  /\ \A s \in Stages : stage[s].default => stage[s].made
  /\ OneDefault /\ DefaultStands

PipelineIInv ==
  /\ PipelineTypeOK /\ StagesHold
  /\ \A d \in Deals : DealHolds(d)
  /\ \A c \in Clerks : CallSound(clerk[c], Made)

ClerkCalls == [step : {"idle", "looked", "checked"},
               op : {"none", "update", "deactivate", "move", "open"},
               at : Stages \cup {NoStage}, row : Rows, edit : Edits,
               to : Stages \cup {NoStage}, toRow : Rows,
               deal : Deals \cup {NoDeal}, deals : SUBSET Deals]
DealRows == [stage : Stages \cup {NoStage}, stamp : Stamps, archived : BOOLEAN]

LEMMA EditDomains ==
  ASSUME NEW given \in Edits
  PROVE  /\ DOMAIN given \in {{"active"}, {"default"}, {"terminal"}, {"type"}, {"terminal", "type"}}
         /\ "active" \in DOMAIN given => given["active"] \in BOOLEAN
         /\ "default" \in DOMAIN given => given["default"] \in BOOLEAN
         /\ "terminal" \in DOMAIN given => given["terminal"] \in BOOLEAN
         /\ "type" \in DOMAIN given => given["type"] \in TerminalTypes
BY DEF Edits

LEMMA MergeFacts ==
  ASSUME NEW r \in Rows, NEW given \in Edits
  PROVE  /\ Merge(r, given) \in Rows
         /\ Merge(r, given).made = r.made
         /\ Merge(r, given).default = IF "default" \in DOMAIN given THEN given["default"] ELSE r.default
         /\ Merge(r, given).active = IF "active" \in DOMAIN given THEN given["active"] ELSE r.active
         /\ "active" \in DOMAIN given => given["active"] \in BOOLEAN
         /\ "default" \in DOMAIN given => given["default"] \in BOOLEAN
<1>1. DOMAIN r = {"made", "active", "terminal", "type", "default"}
      /\ r["made"] \in BOOLEAN /\ r["active"] \in BOOLEAN /\ r["terminal"] \in BOOLEAN
      /\ r["type"] \in TerminalTypes /\ r["default"] \in BOOLEAN
  BY DEF Rows
<1> DEFINE m == [f \in DOMAIN r |-> IF f \in DOMAIN given THEN given[f] ELSE r[f]]
<1>2. /\ m["made"] = r["made"]
      /\ m["default"] = IF "default" \in DOMAIN given THEN given["default"] ELSE r["default"]
      /\ m["active"] = IF "active" \in DOMAIN given THEN given["active"] ELSE r["active"]
      /\ m["terminal"] = IF "terminal" \in DOMAIN given THEN given["terminal"] ELSE r["terminal"]
      /\ m["type"] = IF "type" \in DOMAIN given THEN given["type"] ELSE r["type"]
  BY <1>1, EditDomains
<1>3. /\ m["made"] \in BOOLEAN /\ m["default"] \in BOOLEAN /\ m["active"] \in BOOLEAN
      /\ m["terminal"] \in BOOLEAN /\ m["type"] \in TerminalTypes
  BY <1>1, <1>2, EditDomains
<1>4. m = [made |-> m["made"], active |-> m["active"], terminal |-> m["terminal"],
           type |-> m["type"], default |-> m["default"]]
  BY <1>1
<1>5. m \in Rows
  <2> HIDE DEF m
  <2>1. QED
    BY <1>3, <1>4 DEF Rows
<1>6. QED
  BY EditDomains, <1>1, <1>2, <1>5 DEF Merge

LEMMA PipelineFacts ==
  /\ NoStageRow \in Rows /\ ~NoStageRow.made /\ ~NoStageRow.default
  /\ IdleClerk \in ClerkCalls /\ \A made : CallSound(IdleClerk, made)
  /\ \A type : StampOf(type) \in Stamps
<1>1. NoStageRow \in Rows /\ ~NoStageRow.made /\ ~NoStageRow.default
  BY PipelineAssumption DEF NoStageRow, Rows
<1>2. EmptyEdit \in Edits
  BY DEF EmptyEdit, Edits
<1>3. IdleClerk \in ClerkCalls /\ IdleClerk.op = "none"
  BY <1>1, <1>2 DEF IdleClerk, ClerkCalls
<1>4. \A type : StampOf(type) \in Stamps
  BY DEF StampOf, Stamps
<1>5. QED
  BY <1>1, <1>3, <1>4 DEF CallSound

\* What a call has judged stands while stages are only made.
LEMMA CallsKept ==
  ASSUME NEW k, NEW made, NEW more, made \subseteq more, CallSound(k, made)
  PROVE  CallSound(k, more)
BY DEF CallSound

LEMMA PipelineInitInv == PipelineInit => PipelineIInv
<1> SUFFICES ASSUME PipelineInit PROVE PipelineIInv
  OBVIOUS
<1>1. stage \in [Stages -> Rows]
      /\ \A s \in Stages : stage[s].made => ValidRow(stage[s]) /\ stage[s].active
  BY PipelineFacts DEF PipelineInit
<1>2. \A s \in Stages : stage[s].default => stage[s].made
  BY PipelineFacts DEF PipelineInit
<1>3. \E s \in Stages : \A o \in Stages : stage[o].default <=> o = s
  BY DEF PipelineInit
<1>4. StagesHold
  BY <1>1, <1>2, <1>3 DEF StagesHold, OneDefault, DefaultStands, Made
<1>5. PICK at \in [Deals -> Made \cup {NoStage}], shelved \in [Deals -> BOOLEAN] :
        /\ deal = [d \in Deals |-> Placed(at[d], shelved[d])]
        /\ trail = [d \in Deals |-> <<NoStage, at[d]>>]
  BY DEF PipelineInit
<1>6. \A d \in Deals : /\ deal[d] \in DealRows /\ deal[d].stage = at[d]
                       /\ at[d] \in Made \cup {NoStage}
                       /\ at[d] # NoStage => deal[d].stamp = StampOf(stage[at[d]].type)
  BY <1>5, PipelineFacts DEF Placed, DealRows, Made, Stamps
<1>7. /\ deal \in [Deals -> DealRows]
      /\ trail \in [Deals -> (Stages \cup {NoStage}) \X (Stages \cup {NoStage})]
  BY <1>5, <1>6 DEF Made
<1>8. PipelineTypeOK
  <2>1. clerk \in [Clerks -> ClerkCalls]
    BY PipelineFacts DEF PipelineInit
  <2>2. calls \in 0..MaxCalls
    BY PipelineAssumption DEF PipelineInit
  <2>3. torn \in BOOLEAN /\ excused \in [Deals -> BOOLEAN]
    BY DEF PipelineInit
  <2>4. QED
    BY <1>1, <1>7, <2>1, <2>2, <2>3 DEF PipelineTypeOK, DealRows, ClerkCalls
<1>9. \A d \in Deals : DealHolds(d)
  BY <1>1, <1>5, <1>6 DEF DealHolds, Made
<1>10. \A c \in Clerks : CallSound(clerk[c], Made)
  BY PipelineFacts DEF PipelineInit
<1>11. QED
  BY <1>4, <1>8, <1>9, <1>10 DEF PipelineIInv

\* A step that changes one call and no row
LEMMA CallOnly ==
  ASSUME PipelineIInv, NEW c \in Clerks, NEW k \in ClerkCalls, CallSound(k, Made),
         clerk' = [clerk EXCEPT ![c] = k], calls' \in 0..MaxCalls,
         UNCHANGED <<stage, deal, trail, torn, excused>>
  PROVE  PipelineIInv'
<1>1. PipelineTypeOK'
  BY DEF PipelineIInv, PipelineTypeOK, ClerkCalls
<1>2. StagesHold' /\ (\A d \in Deals : DealHolds(d))'
  BY DEF PipelineIInv, StagesHold, OneDefault, DefaultStands, Made, DealHolds
<1>3. (\A o \in Clerks : CallSound(clerk[o], Made))'
  <2>1. Made' = Made
    BY DEF Made
  <2>2. \A o \in Clerks : CallSound(clerk'[o], Made)
    BY DEF PipelineIInv, PipelineTypeOK
  <2>3. \A o \in Clerks : CallSound(clerk'[o], Made')
    BY <2>1, <2>2
  <2>4. QED
    BY <2>3 DEF CallSound
<1>4. QED
  BY <1>1, <1>2, <1>3 DEF PipelineIInv

LEMMA BeginStep ==
  ASSUME PipelineIInv, NEW c \in Clerks, NEW k \in ClerkCalls, CallSound(k, Made),
         BeginCall(c, k)
  PROVE  PipelineIInv'
<1>1. calls' \in 0..MaxCalls
  BY PipelineAssumption DEF BeginCall, PipelineIInv, PipelineTypeOK
<1>2. QED
  BY <1>1, CallOnly DEF BeginCall, SetCall

LEMMA DropStep ==
  ASSUME PipelineIInv, NEW c \in Clerks, Drop(c)
  PROVE  PipelineIInv'
BY CallOnly, PipelineFacts DEF Drop, SetCall, PipelineIInv, PipelineTypeOK

LEMMA LookForUpdateStep ==
  ASSUME PipelineIInv, NEW c \in Clerks, LookForUpdate(c)
  PROVE  PipelineIInv'
<1>1. PICK s \in Made, given \in Edits :
        /\ ValidRow(Merge(stage[s], given))
        /\ ~(stage[s].default /\ Gives(given, "default", FALSE))
        /\ BeginCall(c, [IdleClerk EXCEPT !.step = "looked", !.op = "update", !.at = s,
                                   !.row = stage[s], !.edit = given])
  BY DEF LookForUpdate
<1> DEFINE k == [IdleClerk EXCEPT !.step = "looked", !.op = "update", !.at = s,
                                  !.row = stage[s], !.edit = given]
<1>2. s \in Stages /\ stage[s] \in Rows
  BY DEF Made, PipelineIInv, PipelineTypeOK
<1>3. /\ k \in ClerkCalls /\ k.step = "looked" /\ k.op = "update" /\ k.at = s
      /\ k.row = stage[s] /\ k.edit = given /\ k.to = NoStage
  BY <1>2, PipelineFacts DEF ClerkCalls, IdleClerk
<1> HIDE DEF k
<1>4. CallSound(k, Made)
  BY <1>1, <1>3 DEF CallSound
<1>5. QED
  BY <1>1, <1>3, <1>4, BeginStep DEF k

LEMMA LookForDeactivationStep ==
  ASSUME PipelineIInv, NEW c \in Clerks, LookForDeactivation(c)
  PROVE  PipelineIInv'
<1>1. PICK s \in Made, to \in Made \cup {NoStage} :
        /\ to # s /\ (stage[s].default => to # NoStage)
        /\ BeginCall(c, [IdleClerk EXCEPT !.step = "looked", !.op = "deactivate", !.at = s,
                                   !.row = stage[s], !.to = to])
  BY DEF LookForDeactivation
<1> DEFINE k == [IdleClerk EXCEPT !.step = "looked", !.op = "deactivate", !.at = s,
                                  !.row = stage[s], !.to = to]
<1>2. s \in Stages /\ stage[s] \in Rows /\ to \in Stages \cup {NoStage}
  BY DEF Made, PipelineIInv, PipelineTypeOK
<1>3. /\ k \in ClerkCalls /\ k.step = "looked" /\ k.op = "deactivate" /\ k.at = s
      /\ k.row = stage[s] /\ k.to = to
  BY <1>2, PipelineFacts DEF ClerkCalls, IdleClerk
<1> HIDE DEF k
<1>4. CallSound(k, Made)
  BY <1>1, <1>3 DEF CallSound
<1>5. QED
  BY <1>1, <1>3, <1>4, BeginStep DEF k

LEMMA CheckUpdateStep ==
  ASSUME PipelineIInv, NEW c \in Clerks, CheckUpdate(c)
  PROVE  PipelineIInv'
<1> DEFINE k == [clerk[c] EXCEPT !.step = "checked", !.deals = OpenDeals(clerk[c].at)]
<1>1. /\ clerk[c] \in ClerkCalls /\ CallSound(clerk[c], Made) /\ clerk[c].op = "update"
      /\ Gives(clerk[c].edit, "active", FALSE) => OpenDeals(clerk[c].at) = {}
      /\ clerk' = [clerk EXCEPT ![c] = k]
  BY DEF PipelineIInv, PipelineTypeOK, ClerkCalls, CheckUpdate, SetCall
<1>2. OpenDeals(clerk[c].at) \in SUBSET Deals
  BY DEF OpenDeals
<1>3. /\ k \in ClerkCalls /\ k.op = "update" /\ k.at = clerk[c].at /\ k.row = clerk[c].row
      /\ k.edit = clerk[c].edit /\ k.to = clerk[c].to /\ k.deals = OpenDeals(clerk[c].at)
  BY <1>1, <1>2 DEF ClerkCalls
<1> HIDE DEF k
<1>4. CallSound(k, Made)
  BY <1>1, <1>3 DEF CallSound
<1>5. QED
  BY <1>1, <1>3, <1>4, CallOnly DEF CheckUpdate, PipelineIInv, PipelineTypeOK

LEMMA CheckDeactivationStep ==
  ASSUME PipelineIInv, NEW c \in Clerks, CheckDeactivation(c)
  PROVE  PipelineIInv'
<1> DEFINE toRow == IF clerk[c].to = NoStage THEN NoStageRow ELSE stage[clerk[c].to]
           k == [clerk[c] EXCEPT !.step = "checked", !.deals = OpenDeals(clerk[c].at),
                                 !.toRow = toRow]
<1>1. /\ clerk[c] \in ClerkCalls /\ CallSound(clerk[c], Made) /\ clerk[c].op = "deactivate"
      /\ clerk[c].to # NoStage =>
           stage[clerk[c].to].active /\ (clerk[c].row.default => ~stage[clerk[c].to].terminal)
      /\ OpenDeals(clerk[c].at) # {} => clerk[c].to # NoStage
      /\ clerk' = [clerk EXCEPT ![c] = k]
  BY DEF PipelineIInv, PipelineTypeOK, ClerkCalls, CheckDeactivation, SetCall
<1>2. OpenDeals(clerk[c].at) \in SUBSET Deals
  BY DEF OpenDeals
<1>3. toRow \in Rows
  BY <1>1, PipelineFacts DEF ClerkCalls, PipelineIInv, PipelineTypeOK
<1>4. clerk[c].to # NoStage => toRow = stage[clerk[c].to]
  OBVIOUS
<1> HIDE DEF toRow
<1>5. /\ k \in ClerkCalls /\ k.op = "deactivate" /\ k.at = clerk[c].at /\ k.row = clerk[c].row
      /\ k.to = clerk[c].to /\ k.deals = OpenDeals(clerk[c].at) /\ k.toRow = toRow
  BY <1>1, <1>2, <1>3 DEF ClerkCalls
<1> HIDE DEF k
<1>6. CallSound(k, Made)
  BY <1>1, <1>4, <1>5 DEF CallSound
<1>7. QED
  BY <1>1, <1>5, <1>6, CallOnly DEF CheckDeactivation, PipelineIInv, PipelineTypeOK

LEMMA ResolveStageStep ==
  ASSUME PipelineIInv, NEW c \in Clerks, ResolveStage(c)
  PROVE  PipelineIInv'
<1>1. PICK d \in Deals, to \in Made :
        /\ stage[to].active
        /\ BeginCall(c, [IdleClerk EXCEPT !.step = "checked", !.op = "open", !.deal = d,
                                   !.to = to, !.toRow = stage[to]])
  BY DEF ResolveStage
<1> DEFINE k == [IdleClerk EXCEPT !.step = "checked", !.op = "open", !.deal = d,
                                  !.to = to, !.toRow = stage[to]]
<1>2. to \in Stages /\ stage[to] \in Rows
  BY DEF Made, PipelineIInv, PipelineTypeOK
<1>3. /\ k \in ClerkCalls /\ k.op = "open" /\ k.deal = d /\ k.to = to /\ k.toRow = stage[to]
  BY <1>2, PipelineFacts DEF ClerkCalls, IdleClerk
<1> HIDE DEF k
<1>4. CallSound(k, Made)
  BY <1>1, <1>3 DEF CallSound
<1>5. QED
  BY <1>1, <1>3, <1>4, BeginStep DEF k

LEMMA LookForMoveStep ==
  ASSUME PipelineIInv, NEW c \in Clerks, LookForMove(c)
  PROVE  PipelineIInv'
<1>1. PICK d \in Deals :
        BeginCall(c, [IdleClerk EXCEPT !.step = "looked", !.op = "move", !.deal = d,
                                !.at = deal[d].stage])
  BY DEF LookForMove
<1> DEFINE k == [IdleClerk EXCEPT !.step = "looked", !.op = "move", !.deal = d,
                                  !.at = deal[d].stage]
<1>2. deal[d].stage \in Stages \cup {NoStage}
  BY DEF PipelineIInv, PipelineTypeOK
<1>3. k \in ClerkCalls /\ k.op = "move" /\ k.deal = d /\ k.step = "looked"
  BY <1>2, PipelineFacts DEF ClerkCalls, IdleClerk
<1> HIDE DEF k
<1>4. CallSound(k, Made)
  BY <1>3 DEF CallSound
<1>5. QED
  BY <1>1, <1>3, <1>4, BeginStep DEF k

LEMMA CheckMoveStep ==
  ASSUME PipelineIInv, NEW c \in Clerks, CheckMove(c)
  PROVE  PipelineIInv'
<1>1. PICK to \in Made :
        /\ stage[to].active
        /\ SetCall(c, [clerk[c] EXCEPT !.step = "checked", !.to = to, !.toRow = stage[to]])
  BY DEF CheckMove
<1> DEFINE k == [clerk[c] EXCEPT !.step = "checked", !.to = to, !.toRow = stage[to]]
<1>2. /\ to \in Stages /\ stage[to] \in Rows
      /\ clerk[c] \in ClerkCalls /\ CallSound(clerk[c], Made) /\ clerk[c].op = "move"
  BY DEF Made, PipelineIInv, PipelineTypeOK, ClerkCalls, CheckMove
<1>3. k \in ClerkCalls /\ k.op = "move" /\ k.deal = clerk[c].deal /\ k.to = to
      /\ k.toRow = stage[to]
  BY <1>2 DEF ClerkCalls
<1> HIDE DEF k
<1>4. CallSound(k, Made)
  BY <1>1, <1>2, <1>3 DEF CallSound
<1>5. QED
  BY <1>1, <1>3, <1>4, CallOnly DEF CheckMove, SetCall, PipelineIInv, PipelineTypeOK, k

\* A deal written into the stage its call had read
LEMMA MoveDeal ==
  ASSUME PipelineIInv, NEW c \in Clerks, clerk[c].op \in {"open", "move"},
         clerk[c].step = "checked", NEW from \in Stages \cup {NoStage},
         deal' = [deal EXCEPT ![clerk[c].deal] = Moved(clerk[c].deal, clerk[c].to, clerk[c].toRow)],
         trail' = [trail EXCEPT ![clerk[c].deal] = <<from, clerk[c].to>>],
         excused' = [excused EXCEPT ![clerk[c].deal] = stage[clerk[c].to] # clerk[c].toRow],
         SetCall(c, IdleClerk), UNCHANGED <<stage, calls, torn>>
  PROVE  PipelineIInv'
<1> DEFINE d == clerk[c].deal
           to == clerk[c].to
           row == clerk[c].toRow
           new == Moved(d, to, row)
           late == stage[to] # row
<1>1. d \in Deals /\ to \in Made /\ to \in Stages /\ row.active /\ late \in BOOLEAN
  BY DEF PipelineIInv, CallSound, Made
<1>2. deal[d] \in DealRows
  BY <1>1 DEF PipelineIInv, PipelineTypeOK, DealRows
<1>3. new \in DealRows /\ new.stage = to /\ new.stamp = StampOf(row.type)
  BY <1>1, <1>2, PipelineFacts DEF Moved, DealRows
<1>4. ~late => stage[to] = row
  OBVIOUS
<1> HIDE DEF new, late
<1>5. /\ deal' = [deal EXCEPT ![d] = new] /\ trail' = [trail EXCEPT ![d] = <<from, to>>]
      /\ excused' = [excused EXCEPT ![d] = late] /\ clerk' = [clerk EXCEPT ![c] = IdleClerk]
  BY DEF new, late, SetCall
<1> HIDE DEF d, to, row
<1>6. PipelineTypeOK'
  <2>1. /\ deal \in [Deals -> DealRows] /\ excused \in [Deals -> BOOLEAN]
        /\ trail \in [Deals -> (Stages \cup {NoStage}) \X (Stages \cup {NoStage})]
    BY DEF PipelineIInv, PipelineTypeOK, DealRows
  <2>2. <<from, to>> \in (Stages \cup {NoStage}) \X (Stages \cup {NoStage})
    BY <1>1
  <2>3. deal' \in [Deals -> DealRows]
    BY <1>3, <1>5, <2>1
  <2>4. excused' \in [Deals -> BOOLEAN]
    BY <1>1, <1>5, <2>1, Zenon
  <2>5. trail' \in [Deals -> (Stages \cup {NoStage}) \X (Stages \cup {NoStage})]
    BY <1>5, <2>1, <2>2
  <2>6. clerk' \in [Clerks -> ClerkCalls]
    BY <1>5, PipelineFacts DEF PipelineIInv, PipelineTypeOK, ClerkCalls
  <2>7. QED
    BY <2>3, <2>5, <2>6, <2>4 DEF PipelineIInv, PipelineTypeOK, DealRows, ClerkCalls
<1>7. StagesHold'
  BY DEF PipelineIInv, StagesHold, OneDefault, DefaultStands, Made
<1>8. (\A e \in Deals : DealHolds(e))'
  <2> SUFFICES ASSUME NEW e \in Deals PROVE DealHolds(e)'
    OBVIOUS
  <2>1. CASE e = d
    BY <1>1, <1>3, <1>4, <1>5, <2>1 DEF DealHolds, Made, PipelineIInv, PipelineTypeOK
  <2>2. CASE e # d
    BY <1>5, <2>2 DEF DealHolds, Made, PipelineIInv, PipelineTypeOK
  <2>3. QED
    BY <2>1, <2>2
<1>9. (\A o \in Clerks : CallSound(clerk[o], Made))'
  <2>1. Made' = Made
    BY DEF Made
  <2>2. \A o \in Clerks : CallSound(clerk'[o], Made')
    BY <1>5, <2>1, PipelineFacts DEF PipelineIInv, PipelineTypeOK
  <2>3. QED
    BY <2>2 DEF CallSound
<1>10. QED
  BY <1>6, <1>7, <1>8, <1>9 DEF PipelineIInv

LEMMA CommitOpenStep ==
  ASSUME PipelineIInv, NEW c \in Clerks, CommitOpen(c)
  PROVE  PipelineIInv'
BY MoveDeal DEF CommitOpen

LEMMA CommitMoveStep ==
  ASSUME PipelineIInv, NEW c \in Clerks, CommitMove(c)
  PROVE  PipelineIInv'
<1>1. clerk[c].at \in Stages \cup {NoStage}
  BY DEF PipelineIInv, PipelineTypeOK
<1>2. QED
  BY <1>1, MoveDeal DEF CommitMove

LEMMA ToggleStep ==
  ASSUME PipelineIInv, NEW d \in Deals, ToggleArchive(d)
  PROVE  PipelineIInv'
<1> DEFINE new == [deal[d] EXCEPT !.archived = ~@]
<1>1. new \in DealRows /\ new.stage = deal[d].stage /\ new.stamp = deal[d].stamp
  BY ZenonT(40) DEF PipelineIInv, PipelineTypeOK, DealRows
<1>2. deal' = [deal EXCEPT ![d] = new]
  BY DEF ToggleArchive, PipelineIInv, PipelineTypeOK
<1> HIDE DEF new
<1>3. PipelineTypeOK'
  BY <1>1, <1>2, PipelineAssumption DEF PipelineIInv, PipelineTypeOK, DealRows, ToggleArchive
<1>4. StagesHold'
  BY DEF PipelineIInv, StagesHold, OneDefault, DefaultStands, Made, ToggleArchive
<1>5. (\A e \in Deals : DealHolds(e))'
  BY <1>1, <1>2 DEF PipelineIInv, PipelineTypeOK, DealHolds, Made, ToggleArchive
<1>6. (\A o \in Clerks : CallSound(clerk[o], Made))'
  BY DEF PipelineIInv, CallSound, Made, ToggleArchive
<1>7. QED
  BY <1>3, <1>4, <1>5, <1>6 DEF PipelineIInv

\* The rows once s is the default one
LEMMA DefaultFacts ==
  ASSUME NEW rows \in [Stages -> Rows], NEW s \in Stages
  PROVE  /\ WithDefault(rows, s) \in [Stages -> Rows]
         /\ \A o \in Stages :
              /\ WithDefault(rows, s)[o].made = rows[o].made
              /\ WithDefault(rows, s)[o].active = rows[o].active
              /\ WithDefault(rows, s)[o].terminal = rows[o].terminal
              /\ WithDefault(rows, s)[o].type = rows[o].type
              /\ WithDefault(rows, s)[o].default <=> o = s
<1>1. \A o \in Stages : rows[o] \in Rows
  OBVIOUS
<1>2. \A o \in Stages, b \in BOOLEAN :
        LET r == [rows[o] EXCEPT !.default = b]
        IN  /\ r \in Rows /\ r.made = rows[o].made /\ r.active = rows[o].active
            /\ r.terminal = rows[o].terminal /\ r.type = rows[o].type /\ r.default = b
  BY <1>1 DEF Rows
<1>3. \A o \in Stages : (o = s) \in BOOLEAN
  OBVIOUS
<1>4. QED
  BY ZenonT(40), <1>2, <1>3 DEF WithDefault

\* Calls that go on while stages are only made
LEMMA CallsGoOn ==
  ASSUME PipelineIInv, NEW c \in Clerks, Made \subseteq Made',
         clerk' = clerk \/ clerk' = [clerk EXCEPT ![c] = IdleClerk]
  PROVE  /\ clerk' \in [Clerks -> ClerkCalls]
         /\ (\A o \in Clerks : CallSound(clerk[o], Made))'
<1>1. clerk \in [Clerks -> ClerkCalls] /\ \A o \in Clerks : CallSound(clerk[o], Made)
  BY DEF PipelineIInv, PipelineTypeOK, ClerkCalls
<1>2. \A o \in Clerks : clerk'[o] = clerk[o] \/ clerk'[o] = IdleClerk
  BY <1>1
<1>3. \A o \in Clerks : CallSound(clerk[o], Made')
  <2> TAKE o \in Clerks
  <2>1. CallSound(clerk[o], Made)
    BY <1>1
  <2>2. QED
    BY <2>1, CallsKept
<1>4. CallSound(IdleClerk, Made')
  BY PipelineFacts
<1>5. \A o \in Clerks : CallSound(clerk'[o], Made')
  BY <1>2, <1>3, <1>4
<1>6. (\A o \in Clerks : CallSound(clerk[o], Made))'
  BY <1>5 DEF CallSound
<1>7. QED
  BY <1>1, <1>6, PipelineFacts

LEMMA CreateStageStep ==
  ASSUME PipelineIInv, NEW c \in Clerks, CreateStage(c)
  PROVE  PipelineIInv'
<1>1. PICK s \in Stages \ Made, r \in Rows :
        /\ r.made /\ ValidRow(r)
        /\ stage' = IF r.default THEN WithDefault([stage EXCEPT ![s] = r], s)
                    ELSE [stage EXCEPT ![s] = r]
  BY DEF CreateStage
<1> DEFINE rows == [stage EXCEPT ![s] = r]
<1>2. /\ rows \in [Stages -> Rows] /\ rows[s] = r /\ \A o \in Stages \ {s} : rows[o] = stage[o]
      /\ s \in Stages
  BY DEF PipelineIInv, PipelineTypeOK
<1> HIDE DEF rows
<1>3. stage' = IF r.default THEN WithDefault(rows, s) ELSE rows
  BY <1>1 DEF rows
<1>4. /\ stage' \in [Stages -> Rows]
      /\ \A o \in Stages : /\ stage'[o].made = rows[o].made /\ stage'[o].active = rows[o].active
                           /\ stage'[o].terminal = rows[o].terminal
                           /\ stage'[o].type = rows[o].type
                           /\ r.default => (stage'[o].default <=> o = s)
                           /\ ~r.default => (stage'[o].default = rows[o].default)
  <2>1. CASE r.default
    BY <1>2, <1>3, <2>1, DefaultFacts
  <2>2. CASE ~r.default
    BY <1>2, <1>3, <2>2
  <2>3. QED
    BY <2>1, <2>2
<1>5. ~stage[s].made /\ ~stage[s].default
  BY <1>2 DEF Made, PipelineIInv, StagesHold
<1>6. /\ stage'[s].made /\ stage'[s].active = r.active /\ stage'[s].terminal = r.terminal
      /\ stage'[s].type = r.type /\ (stage'[s].default <=> r.default)
  BY <1>1, <1>2, <1>4
<1>7. \A o \in Stages \ {s} :
        /\ stage'[o].made = stage[o].made /\ stage'[o].active = stage[o].active
        /\ stage'[o].terminal = stage[o].terminal /\ stage'[o].type = stage[o].type
        /\ stage'[o].default => stage[o].default /\ ~r.default
        /\ stage[o].default /\ ~r.default => stage'[o].default
  BY <1>2, <1>4
<1>8. Made' = Made \cup {s}
  <2>1. \A o \in Stages : o \in Made' <=> o \in Made \/ o = s
    BY <1>6, <1>7 DEF Made
  <2>2. QED
    BY <1>2, <2>1 DEF Made
<1>9. (\A o \in Stages : stage[o].default => stage[o].made)' /\ OneDefault'
  <2>1. \A o \in Stages : stage'[o].default => stage'[o].made
    BY <1>6, <1>7 DEF PipelineIInv, StagesHold
  <2>2. OneDefault
    BY DEF PipelineIInv, StagesHold
  <2>3. \A o, q \in Stages : stage'[o].default /\ stage'[q].default => o = q
    BY <1>6, <1>7, <2>2 DEF OneDefault
  <2>4. QED
    BY <2>1, <2>3 DEF OneDefault
<1>10. DefaultStands'
  <2> SUFFICES ASSUME ~torn
               PROVE  (\E o \in Stages : stage[o].default)' /\ (\A o \in Made : ValidRow(stage[o]))'
    BY DEF DefaultStands, CreateStage
  <2>1. (\E o \in Stages : stage[o].default) /\ \A o \in Made : ValidRow(stage[o])
    BY DEF PipelineIInv, StagesHold, DefaultStands
  <2>2. (\E o \in Stages : stage[o].default)'
    <3>1. CASE r.default
      BY <1>2, <1>6, <3>1
    <3>2. CASE ~r.default
      BY <1>5, <1>7, <2>1, <3>2
    <3>3. QED
      BY <3>1, <3>2
  <2>3. ValidRow(stage'[s])
    BY <1>1, <1>6 DEF ValidRow, IsOpen
  <2>4. \A o \in Made \ {s} : ValidRow(stage'[o])
    BY <1>7, <2>1 DEF ValidRow, IsOpen, Made
  <2>5. \A o \in Made' : ValidRow(stage'[o])
    BY <1>8, <2>3, <2>4
  <2>6. QED
    BY <2>2, <2>5 DEF ValidRow, IsOpen
<1>11. (\A d \in Deals : DealHolds(d))'
  <2> SUFFICES ASSUME NEW d \in Deals PROVE DealHolds(d)'
    OBVIOUS
  <2>1. DealHolds(d) /\ UNCHANGED <<deal, trail, excused>>
    BY DEF PipelineIInv, CreateStage
  <2>2. deal[d].stage # NoStage => deal[d].stage \in Stages \ {s}
    BY <1>5, <2>1 DEF DealHolds, Made
  <2>3. QED
    BY <1>7, <1>8, <2>1, <2>2 DEF DealHolds
<1>12. clerk' \in [Clerks -> ClerkCalls] /\ (\A o \in Clerks : CallSound(clerk[o], Made))'
  BY <1>8, CallsGoOn DEF CreateStage
<1>13. calls' \in 0..MaxCalls
  BY PipelineAssumption DEF PipelineIInv, PipelineTypeOK, CreateStage
<1>14. PipelineTypeOK'
  BY <1>4, <1>12, <1>13 DEF PipelineIInv, PipelineTypeOK, CreateStage, ClerkCalls
<1>15. QED
  BY <1>9, <1>10, <1>11, <1>12, <1>14 DEF PipelineIInv, StagesHold

LEMMA UpdateStageStep ==
  ASSUME PipelineIInv, NEW c \in Clerks, CommitUpdate(c)
  PROVE  PipelineIInv'
<1> DEFINE k == clerk[c]
           at == k.at
           given == k.edit
           rows == [stage EXCEPT ![at] = Merge(@, given)]
           default == Gives(given, "default", TRUE)
<1>1. /\ CallSound(k, Made) /\ k.op = "update" /\ k.step = "checked" /\ k \in ClerkCalls
      /\ given \in Edits
  BY DEF PipelineIInv, PipelineTypeOK, CommitUpdate, ClerkCalls
<1>2. at \in Made /\ at \in Stages /\ stage[at] \in Rows /\ k.to = NoStage
  BY <1>1 DEF CallSound, Made, PipelineIInv, PipelineTypeOK
<1> DEFINE new == Merge(stage[at], given)
<1>3. /\ new \in Rows /\ new.made
      /\ new.default = IF "default" \in DOMAIN given THEN given["default"] ELSE stage[at].default
      /\ new.active = IF "active" \in DOMAIN given THEN given["active"] ELSE stage[at].active
      /\ "active" \in DOMAIN given => given["active"] \in BOOLEAN
      /\ "default" \in DOMAIN given => given["default"] \in BOOLEAN
  BY <1>1, <1>2, MergeFacts DEF Made
<1>4. rows \in [Stages -> Rows] /\ rows[at] = new /\ \A o \in Stages \ {at} : rows[o] = stage[o]
  BY <1>2, <1>3 DEF PipelineIInv, PipelineTypeOK
<1>5. /\ stage' = IF default THEN WithDefault(rows, at) ELSE rows
      /\ torn' = (torn \/ StagesMoved(c))
      /\ \A d \in Deals : excused'[d] <=> \/ excused[d]
                                          \/ rows[at].type # stage[at].type /\ deal[d].stage = at
                                          \/ Gives(given, "active", FALSE) /\ LeftBehind(c, d)
      /\ excused' \in [Deals -> BOOLEAN]
      /\ clerk' = [clerk EXCEPT ![c] = IdleClerk]
      /\ UNCHANGED <<deal, trail, calls>>
  BY DEF CommitUpdate, SetCall, PipelineIInv, PipelineTypeOK
<1>6. default \in BOOLEAN /\ (default => new.default)
  BY <1>3 DEF Gives
<1>7. ~default => (new.default => stage[at].default)
  BY <1>3 DEF Gives
<1> HIDE DEF rows, new, default, given
<1>8. /\ stage' \in [Stages -> Rows]
      /\ \A o \in Stages : /\ stage'[o].made = rows[o].made /\ stage'[o].active = rows[o].active
                           /\ stage'[o].terminal = rows[o].terminal
                           /\ stage'[o].type = rows[o].type
                           /\ stage'[o].default <=> IF default THEN o = at ELSE rows[o].default
  BY <1>2, <1>4, <1>5, DefaultFacts
<1>9. Made' = Made
  BY <1>2, <1>3, <1>4, <1>8 DEF Made
<1>10. (\A o \in Stages : stage[o].default => stage[o].made)' /\ OneDefault'
  BY <1>2, <1>3, <1>4, <1>7, <1>8 DEF PipelineIInv, StagesHold, OneDefault, Made
<1>11. DefaultStands'
  <2> SUFFICES ASSUME ~torn, ~StagesMoved(c)
               PROVE  (\E o \in Stages : stage[o].default)' /\ (\A o \in Made : ValidRow(stage[o]))'
    BY <1>5 DEF DefaultStands
  <2>1. (\E o \in Stages : stage[o].default) /\ \A o \in Made : ValidRow(stage[o])
    BY DEF PipelineIInv, StagesHold, DefaultStands
  <2>2. stage[at] = k.row
    BY DEF StagesMoved
  <2>3. ValidRow(new) /\ ~(stage[at].default /\ Gives(given, "default", FALSE))
    BY <1>1, <2>2 DEF CallSound, new, given
  <2>4. ~default => (stage[at].default => new.default)
    BY <1>3, <2>3 DEF Gives, default
  <2>5. (\E o \in Stages : stage[o].default)'
    BY <1>2, <1>4, <1>8, <2>1, <2>4
  <2>6. \A o \in Made : ValidRow(stage'[o])
    <3> TAKE o \in Made
    <3>1. CASE o = at
      BY <1>2, <1>4, <1>6, <1>8, <2>3, <3>1 DEF ValidRow, IsOpen
    <3>2. CASE o # at
      BY <1>4, <1>8, <2>1, <3>2 DEF ValidRow, IsOpen, Made
    <3>3. QED
      BY <3>1, <3>2
  <2>7. QED
    BY <1>9, <2>5, <2>6 DEF ValidRow, IsOpen
<1>12. (\A d \in Deals : DealHolds(d))'
  <2> SUFFICES ASSUME NEW d \in Deals PROVE DealHolds(d)'
    OBVIOUS
  <2>1. DealHolds(d)
    BY DEF PipelineIInv
  <2>2. deal[d].stage # NoStage => deal[d].stage \in Stages
    BY <2>1 DEF DealHolds, Made
  <2>3. CASE deal[d].stage = at /\ ~excused'[d]
    <3>1. ~excused[d] /\ new.type = stage[at].type
      BY <1>4, <1>5, <2>3
    <3>2. ~Gives(given, "active", FALSE)
      <4> SUFFICES ASSUME Gives(given, "active", FALSE) PROVE FALSE
        OBVIOUS
      <4>1. k.deals = {}
        BY <1>1 DEF CallSound, given
      <4>2. LeftBehind(c, d)
        BY <2>3, <4>1 DEF LeftBehind
      <4>3. QED
        BY <1>5, <2>3, <4>2
    <3>3. stage[at].active => new.active
      BY <1>3, <3>2 DEF Gives
    <3>4. QED
      BY <1>2, <1>4, <1>5, <1>8, <1>9, <2>1, <2>3, <3>1, <3>3 DEF DealHolds
  <2>4. CASE deal[d].stage = at /\ excused'[d]
    BY <1>2, <1>5, <1>9, <2>1, <2>4 DEF DealHolds
  <2>5. CASE deal[d].stage # at
    BY ZenonT(40), <1>4, <1>5, <1>8, <1>9, <2>1, <2>2, <2>5 DEF DealHolds
  <2>6. QED
    BY <2>3, <2>4, <2>5
<1>13. clerk' \in [Clerks -> ClerkCalls] /\ (\A o \in Clerks : CallSound(clerk[o], Made))'
  BY <1>5, <1>9, CallsGoOn
<1>14. torn' \in BOOLEAN
  BY <1>5 DEF StagesMoved, PipelineIInv, PipelineTypeOK
<1>15. PipelineTypeOK'
  BY <1>5, <1>8, <1>13, <1>14 DEF PipelineIInv, PipelineTypeOK, ClerkCalls
<1>16. QED
  BY <1>10, <1>11, <1>12, <1>13, <1>15 DEF PipelineIInv, StagesHold

LEMMA CommitDeactivationStep ==
  ASSUME PipelineIInv, NEW c \in Clerks, CommitDeactivation(c)
  PROVE  PipelineIInv'
<1> DEFINE k == clerk[c]
           at == k.at
           to == k.to
           taken == IF to = NoStage THEN {} ELSE k.deals
           closed == [stage EXCEPT ![at].active = FALSE, ![at].default = FALSE]
           passed == k.row.default /\ to # NoStage
<1>1. CallSound(k, Made) /\ k.op = "deactivate" /\ k.step = "checked" /\ k \in ClerkCalls
  BY DEF PipelineIInv, PipelineTypeOK, CommitDeactivation, ClerkCalls
<1>2. /\ at \in Made /\ at \in Stages /\ to # at
      /\ to # NoStage => to \in Made /\ to \in Stages
      /\ taken \in SUBSET Deals
  BY <1>1 DEF CallSound, Made, ClerkCalls
<1>3. /\ closed \in [Stages -> Rows]
      /\ closed[at].made = stage[at].made /\ closed[at].terminal = stage[at].terminal
      /\ closed[at].type = stage[at].type /\ ~closed[at].active /\ ~closed[at].default
      /\ \A o \in Stages \ {at} : closed[o] = stage[o]
  <2>1. stage[at] \in Rows /\ stage \in [Stages -> Rows]
    BY <1>2 DEF PipelineIInv, PipelineTypeOK
  <2> DEFINE r == [stage[at] EXCEPT !.active = FALSE, !.default = FALSE]
  <2>2. /\ r \in Rows /\ r.made = stage[at].made /\ r.terminal = stage[at].terminal
        /\ r.type = stage[at].type /\ ~r.active /\ ~r.default
    BY <2>1 DEF Rows
  <2>3. closed = [stage EXCEPT ![at] = r]
    BY <1>2, <2>1
  <2> HIDE DEF r, closed, at
  <2>4. QED
    BY <1>2, <2>1, <2>2, <2>3
<1>4. /\ deal' = [d \in Deals |-> IF d \in taken THEN Moved(d, to, k.toRow) ELSE deal[d]]
      /\ trail' = [d \in Deals |-> IF d \in taken THEN <<at, to>> ELSE trail[d]]
      /\ passed => /\ \A o \in Stages \ {to} : ~closed[o].default
                   /\ stage' = [closed EXCEPT ![to].default = TRUE]
      /\ ~passed => stage' = closed
      /\ torn' = (torn \/ StagesMoved(c))
      /\ excused' = [d \in Deals |-> IF d \in taken THEN stage[to] # k.toRow
                                     ELSE excused[d] \/ LeftBehind(c, d)]
      /\ clerk' = [clerk EXCEPT ![c] = IdleClerk]
      /\ UNCHANGED calls
  BY DEF CommitDeactivation, SetCall
<1>5. passed \in BOOLEAN /\ (passed => to \in Stages)
  BY <1>1, <1>2 DEF ClerkCalls, Rows
<1> HIDE DEF closed, passed, taken
<1>6. /\ stage' \in [Stages -> Rows]
      /\ \A o \in Stages :
           /\ stage'[o].made = closed[o].made /\ stage'[o].active = closed[o].active
           /\ stage'[o].terminal = closed[o].terminal /\ stage'[o].type = closed[o].type
           /\ stage'[o].default <=> closed[o].default \/ (passed /\ o = to)
  <2>1. CASE passed
    <3>1. closed[to] \in Rows
      BY <1>3, <1>5, <2>1
    <3> DEFINE r == [closed[to] EXCEPT !.default = TRUE]
    <3>2. /\ r \in Rows /\ r.made = closed[to].made /\ r.active = closed[to].active
          /\ r.terminal = closed[to].terminal /\ r.type = closed[to].type /\ r.default
      BY <3>1 DEF Rows
    <3>3. stage' = [closed EXCEPT ![to] = r]
      BY <1>3, <1>4, <1>5, <2>1
    <3> HIDE DEF r, to
    <3>4. QED
      BY <1>3, <1>5, <2>1, <3>2, <3>3
  <2>2. CASE ~passed
    BY <1>3, <1>4, <2>2
  <2>3. QED
    BY <1>5, <2>1, <2>2
<1>7. Made' = Made
  BY <1>2, <1>3, <1>6 DEF Made
<1>8. (\A o \in Stages : stage[o].default => stage[o].made)'
  BY <1>2, <1>3, <1>6, <1>5 DEF PipelineIInv, StagesHold, Made, passed
<1>9. OneDefault'
  <2>1. CASE passed
    BY <1>4, <1>6, <2>1 DEF OneDefault
  <2>2. CASE ~passed
    BY <1>3, <1>6, <2>2 DEF PipelineIInv, StagesHold, OneDefault
  <2>3. QED
    BY <2>1, <2>2
<1>10. DefaultStands'
  <2> SUFFICES ASSUME ~torn, ~StagesMoved(c)
               PROVE  (\E o \in Stages : stage[o].default)' /\ (\A o \in Made : ValidRow(stage[o]))'
    BY <1>4 DEF DefaultStands
  <2>1. (\E o \in Stages : stage[o].default) /\ \A o \in Made : ValidRow(stage[o])
    BY DEF PipelineIInv, StagesHold, DefaultStands
  <2>2. stage[at] = k.row /\ (to # NoStage => stage[to] = k.toRow)
    BY DEF StagesMoved
  <2>3. k.row.default => to # NoStage
    BY <1>1 DEF CallSound
  <2>4. passed <=> stage[at].default
    BY <2>2, <2>3 DEF passed
  <2>5. (\E o \in Stages : stage[o].default)'
    BY <1>3, <1>5, <1>6, <2>1, <2>4
  <2>6. \A o \in Made : ValidRow(stage'[o])
    <3> TAKE o \in Made
    <3>1. CASE o = at
      BY <1>2, <1>3, <1>5, <1>6, <2>1, <3>1 DEF ValidRow, IsOpen
    <3>2. CASE o # at /\ passed /\ o = to
      <4>1. k.toRow.active /\ ~k.toRow.terminal
        BY <1>1, <3>2 DEF CallSound, passed
      <4>2. stage[to].active /\ ~stage[to].terminal
        BY <2>2, <3>2, <4>1 DEF passed
      <4>3. QED
        BY <1>2, <1>3, <1>5, <1>6, <2>1, <3>2, <4>2 DEF ValidRow, IsOpen
    <3>3. CASE o # at /\ ~(passed /\ o = to)
      BY <1>3, <1>6, <2>1, <3>3 DEF ValidRow, IsOpen, Made
    <3>4. QED
      BY <3>1, <3>2, <3>3
  <2>7. QED
    BY <1>7, <2>5, <2>6 DEF ValidRow, IsOpen
<1>11. \A d \in taken : /\ to # NoStage /\ d \in k.deals
                        /\ Moved(d, to, k.toRow) \in DealRows
                        /\ Moved(d, to, k.toRow).stage = to
                        /\ Moved(d, to, k.toRow).stamp = StampOf(k.toRow.type)
                        /\ k.toRow.active
  <2> TAKE d \in taken
  <2>1. to # NoStage /\ d \in k.deals /\ d \in Deals
    BY <1>2 DEF taken
  <2>2. deal[d] \in DealRows
    BY <2>1 DEF PipelineIInv, PipelineTypeOK, DealRows
  <2>3. to \in Stages /\ k.toRow.active
    BY <1>1, <1>2, <2>1 DEF CallSound
  <2>4. QED
    BY <2>1, <2>2, <2>3, PipelineFacts DEF Moved, DealRows
<1>12. (\A d \in Deals : DealHolds(d))'
  <2> SUFFICES ASSUME NEW d \in Deals PROVE DealHolds(d)'
    OBVIOUS
  <2>1. DealHolds(d)
    BY DEF PipelineIInv
  <2>2. CASE d \in taken
    <3>1. /\ deal'[d].stage = to /\ deal'[d].stamp = StampOf(k.toRow.type)
          /\ trail'[d] = <<at, to>> /\ to # NoStage /\ k.toRow.active
          /\ excused'[d] <=> stage[to] # k.toRow
      BY <1>4, <1>11, <2>2
    <3>2. to \in Made /\ to \in Stages /\ closed[to] = stage[to]
      BY <1>2, <1>3, <3>1
    <3>3. to \in Made'
      BY <1>7, <3>2
    <3>4. ~excused'[d] => stage'[to].active /\ stage'[to].type = k.toRow.type
      BY <1>6, <3>1, <3>2
    <3>5. trail'[d][2] = deal'[d].stage
      BY <3>1
    <3>6. QED
      BY <3>1, <3>3, <3>4, <3>5 DEF DealHolds
  <2>3. CASE d \notin taken
    <3>1. /\ deal'[d] = deal[d] /\ trail'[d] = trail[d]
          /\ excused'[d] <=> excused[d] \/ LeftBehind(c, d)
      BY <1>4, <2>3
    <3>2. CASE deal[d].stage = at
      <4>1. LeftBehind(c, d)
        <5>1. d \notin k.deals
          BY <1>1, <2>3 DEF taken, CallSound
        <5>2. QED
          BY <3>2, <5>1 DEF LeftBehind
      <4>2. QED
        BY <1>2, <1>7, <2>1, <3>1, <3>2, <4>1 DEF DealHolds
    <3>3. CASE deal[d].stage # at
      <4>1. deal[d].stage # NoStage => deal[d].stage \in Stages
        BY <2>1 DEF DealHolds, Made
      <4>2. QED
        BY <1>3, <1>6, <1>7, <2>1, <3>1, <3>3, <4>1 DEF DealHolds
    <3>4. QED
      BY <3>2, <3>3
  <2>4. QED
    BY <2>2, <2>3
<1>13. clerk' \in [Clerks -> ClerkCalls] /\ (\A o \in Clerks : CallSound(clerk[o], Made))'
  BY <1>4, <1>7, CallsGoOn
<1>14. PipelineTypeOK'
  <2>1. torn' \in BOOLEAN /\ calls' \in 0..MaxCalls
    BY <1>4 DEF StagesMoved, PipelineIInv, PipelineTypeOK
  <2>2. excused' \in [Deals -> BOOLEAN]
    BY <1>4 DEF LeftBehind, PipelineIInv, PipelineTypeOK
  <2>3. \A d \in Deals : (IF d \in taken THEN Moved(d, to, k.toRow) ELSE deal[d]) \in DealRows
    BY <1>11 DEF PipelineIInv, PipelineTypeOK, DealRows
  <2>4. deal' \in [Deals -> DealRows]
    BY <1>4, <2>3
  <2>5. \A d \in Deals : (IF d \in taken THEN <<at, to>> ELSE trail[d])
                           \in (Stages \cup {NoStage}) \X (Stages \cup {NoStage})
    BY <1>2, <1>11 DEF PipelineIInv, PipelineTypeOK
  <2>6. trail' \in [Deals -> (Stages \cup {NoStage}) \X (Stages \cup {NoStage})]
    BY <1>4, <2>5
  <2>7. QED
    BY <1>6, <1>13, <2>1, <2>2, <2>4, <2>6 DEF PipelineTypeOK, DealRows, ClerkCalls
<1>15. QED
  BY <1>8, <1>9, <1>10, <1>12, <1>13, <1>14 DEF PipelineIInv, StagesHold

LEMMA PipelineStepInv == PipelineIInv /\ [PipelineNext]_pipelineVars => PipelineIInv'
<1> SUFFICES ASSUME PipelineIInv, [PipelineNext]_pipelineVars PROVE PipelineIInv'
  OBVIOUS
<1>1. ASSUME NEW c \in Clerks,
             \/ CreateStage(c) \/ LookForUpdate(c) \/ CheckUpdate(c) \/ CommitUpdate(c)
             \/ LookForDeactivation(c) \/ CheckDeactivation(c) \/ CommitDeactivation(c)
      PROVE  PipelineIInv'
  BY <1>1, CreateStageStep, LookForUpdateStep, CheckUpdateStep, UpdateStageStep,
     LookForDeactivationStep, CheckDeactivationStep, CommitDeactivationStep
<1>2. ASSUME NEW c \in Clerks,
             \/ ResolveStage(c) \/ CommitOpen(c)
             \/ LookForMove(c) \/ CheckMove(c) \/ CommitMove(c) \/ Drop(c)
      PROVE  PipelineIInv'
  BY <1>2, ResolveStageStep, CommitOpenStep, LookForMoveStep, CheckMoveStep, CommitMoveStep,
     DropStep
<1>3. ASSUME NEW d \in Deals, ToggleArchive(d)
      PROVE  PipelineIInv'
  BY <1>3, ToggleStep
<1>4. CASE UNCHANGED pipelineVars
  BY <1>4 DEF pipelineVars, PipelineIInv, PipelineTypeOK, StagesHold, OneDefault, DefaultStands,
              Made, DealHolds, CallSound
<1>5. QED
  BY <1>1, <1>2, <1>3, <1>4 DEF PipelineNext

\* For any stages, opportunities and callers: there is one default stage at
\* most, and one that takes new opportunities unless a change was decided on
\* rows another had replaced; an opportunity stands in an active stage with the
\* stamp of its type unless it met a change of it; its history leads there.
THEOREM PipelineSafe == PipelineSpec => []PipelineInv
<1>1. PipelineInit => PipelineIInv
  BY PipelineInitInv
<1>2. PipelineIInv /\ [PipelineNext]_pipelineVars => PipelineIInv'
  BY PipelineStepInv
<1>3. PipelineIInv => PipelineInv
  BY DEF PipelineIInv, StagesHold, DealHolds, PipelineInv, PlacesHold, TrailLeadsHere
<1>4. QED
  BY <1>1, <1>2, <1>3, PTL DEF PipelineSpec

(***************************************************************************)
(* Prices, their records and the rate.                                     *)
(***************************************************************************)
\* A call in progress is for a product and writes a price.
PricerHolds(e) ==
  pricer[e].step # "idle" => pricer[e].product \in Products /\ pricer[e].to \in Prices

\* What the new rate read are prices in dollars, and there is a rate to come.
RaterHolds ==
  rater.step # "idle" =>
    /\ rate < LastRate
    /\ \A p \in Products : rater.seen[p] # NoPrice => rater.seen[p].currency = "USD"

\* A line that has read its product knows its price, as long as it stands.
QuoterHolds(q) ==
  quoter[q].step = "product" =>
    /\ quoter[q].product \in Products /\ Listed(quoter[q].product)
    /\ ~quoter[q].beside => /\ ~offRecord[quoter[q].product]
                            /\ quoter[q].price = product[quoter[q].product]

PricesIInv ==
  /\ PriceTypeOK
  /\ \A e \in Pricers : PricerHolds(e)
  /\ RaterHolds
  /\ \A q \in Quoters : QuoterHolds(q)
  /\ OnRecord /\ AtActiveRate /\ QuotesOnRecord

PricerCalls == [step : {"idle", "new", "priced", "locked", "written"},
                product : Products \cup {NoProduct}, to : AnyPrice, was : AnyPrice, at : Instants]
Quotes == [step : {"none", "product", "done"}, product : Products \cup {NoProduct},
           price : AnyPrice, record : AnyPrice, beside : BOOLEAN]

LEMMA PriceFacts ==
  /\ NoPrice \in AnyPrice /\ NoPrice \notin Prices /\ 0 \in Instants /\ 1 \in 1..LastRate
  /\ IdlePricer \in PricerCalls /\ IdlePricer.step = "idle"
  /\ NoQuote \in Quotes /\ NoQuote.step = "none"
  /\ IdleRater \in [step : {"idle", "read", "stamped"}, seen : [Products -> AnyPrice],
                    at : Instants]
  /\ IdleRater.step = "idle"
<1>1. NoPrice \in AnyPrice /\ NoPrice \notin Prices
  BY DEF NoPrice, AnyPrice, Prices
<1>2. 0 \in Instants /\ 1 \in 1..LastRate
  BY PriceListAssumption DEF Instants
<1>3. QED
  BY <1>1, <1>2 DEF IdlePricer, PricerCalls, NoQuote, Quotes, IdleRater

\* The price of another rate is one still.
LEMMA RepriceFacts ==
  ASSUME NEW x \in AnyPrice, x # NoPrice, x.currency = "USD", NEW r \in 1..LastRate
  PROVE  LET y == [x EXCEPT !.rate = r]
         IN  y \in Prices /\ y # NoPrice /\ y.rate = r /\ y.currency = "USD"
BY DEF AnyPrice, Prices, NoPrice

LEMMA PricesInitInv == PriceInit => PricesIInv
<1> SUFFICES ASSUME PriceInit PROVE PricesIInv
  OBVIOUS
<1>1. \A p \in Products : product[p] \in AnyPrice
                          /\ (product[p].currency = "USD" => product[p].rate = 1)
  <2> TAKE p \in Products
  <2>1. product[p] \in {x \in Prices : x.rate <= 1} \cup {NoPrice}
    BY DEF PriceInit
  <2>2. QED
    BY <2>1, PriceListAssumption DEF Prices, NoPrice, AnyPrice
<1>2. product = [p \in Products |-> product[p]]
  BY DEF PriceInit
<1>3. product \in [Products -> AnyPrice]
  BY <1>1, <1>2
<1>4. open \in [Products -> [price : AnyPrice, from : Instants]]
  BY <1>1, PriceFacts DEF PriceInit
<1>5. PriceTypeOK
  BY <1>3, <1>4, PriceFacts DEF PriceInit, PriceTypeOK, PricerCalls, Quotes
<1>6. (\A e \in Pricers : PricerHolds(e)) /\ RaterHolds
  BY PriceFacts DEF PriceInit, PricerHolds, RaterHolds
<1>7. (\A q \in Quoters : QuoterHolds(q)) /\ QuotesOnRecord
  BY PriceFacts DEF PriceInit, QuoterHolds, QuotesOnRecord
<1>8. OnRecord /\ AtActiveRate
  BY <1>1 DEF PriceInit, OnRecord, AtActiveRate, InDollars
<1>9. QED
  BY <1>5, <1>6, <1>7, <1>8 DEF PricesIInv

\* A step of a call that writes no row
LEMMA PricerOnly ==
  ASSUME PricesIInv, NEW e \in Pricers, NEW c \in PricerCalls,
         c.step # "idle" => c.product \in Products /\ c.to \in Prices,
         pricer' = [pricer EXCEPT ![e] = c],
         UNCHANGED <<product, open, rate, rater, quoter, now, offRecord, offRate>>
  PROVE  PricesIInv'
<1>1. PriceTypeOK'
  BY DEF PricesIInv, PriceTypeOK, PricerCalls
<1>2. (\A o \in Pricers : PricerHolds(o))'
  BY DEF PricesIInv, PriceTypeOK, PricerHolds
<1>3. RaterHolds' /\ (\A q \in Quoters : QuoterHolds(q))' /\ OnRecord' /\ AtActiveRate' /\ QuotesOnRecord'
  BY DEF PricesIInv, RaterHolds, QuoterHolds, Listed, OnRecord, AtActiveRate, InDollars,
         QuotesOnRecord
<1>4. QED
  BY <1>1, <1>2, <1>3 DEF PricesIInv

LEMMA CalculateStep ==
  ASSUME PricesIInv, NEW e \in Pricers, Calculate(e)
  PROVE  PricesIInv'
<1>1. PICK p \in Products, currency \in {"IRR", "USD"}, input \in Inputs :
        pricer' = [pricer EXCEPT ![e] =
          [IdlePricer EXCEPT !.step = IF Listed(p) THEN "priced" ELSE "new", !.product = p,
                             !.to = Calculated(currency, input)]]
  BY DEF Calculate
<1> DEFINE c == [IdlePricer EXCEPT !.step = IF Listed(p) THEN "priced" ELSE "new", !.product = p,
                                   !.to = Calculated(currency, input)]
<1>2. Calculated(currency, input) \in Prices
  BY DEF Calculated, Prices, PricesIInv, PriceTypeOK
<1>3. c \in PricerCalls /\ c.product \in Products /\ c.to \in Prices
  BY <1>2, PriceFacts DEF IdlePricer, PricerCalls, AnyPrice
<1> HIDE DEF c
<1>4. QED
  BY <1>1, <1>3, PricerOnly DEF Calculate, c

LEMMA LockProductStep ==
  ASSUME PricesIInv, NEW e \in Pricers, LockProduct(e)
  PROVE  PricesIInv'
<1> DEFINE c == [pricer[e] EXCEPT !.step = "locked", !.was = product[pricer[e].product]]
<1>1. pricer[e].product \in Products /\ pricer[e].to \in Prices /\ pricer[e] \in PricerCalls
  BY DEF PricesIInv, PricerHolds, LockProduct, PriceTypeOK, PricerCalls
<1>2. product[pricer[e].product] \in AnyPrice
  BY <1>1 DEF PricesIInv, PriceTypeOK
<1>3. c \in PricerCalls /\ c.product \in Products /\ c.to \in Prices
  BY <1>1, <1>2 DEF PricerCalls
<1>4. pricer' = [pricer EXCEPT ![e] = c]
  BY DEF LockProduct, PricesIInv, PriceTypeOK
<1> HIDE DEF c
<1>5. QED
  BY <1>3, <1>4, PricerOnly DEF LockProduct

LEMMA WriteProductStep ==
  ASSUME PricesIInv, NEW e \in Pricers, WriteProduct(e)
  PROVE  PricesIInv'
<1> DEFINE c == [pricer[e] EXCEPT !.step = "written", !.at = now]
<1>1. pricer[e].product \in Products /\ pricer[e].to \in Prices /\ pricer[e] \in PricerCalls
      /\ now \in Instants
  BY DEF PricesIInv, PricerHolds, WriteProduct, PriceTypeOK, PricerCalls
<1>2. c \in PricerCalls /\ c.product \in Products /\ c.to \in Prices
  BY <1>1 DEF PricerCalls
<1>3. pricer' = [pricer EXCEPT ![e] = c]
  BY DEF WriteProduct, PricesIInv, PriceTypeOK
<1> HIDE DEF c
<1>4. QED
  BY <1>2, <1>3, PricerOnly DEF WriteProduct

LEMMA DropPricerStep ==
  ASSUME PricesIInv, NEW e \in Pricers, DropPricer(e)
  PROVE  PricesIInv'
BY PricerOnly, PriceFacts DEF DropPricer

LEMMA CreateProductStep ==
  ASSUME PricesIInv, NEW e \in Pricers, CreateProduct(e)
  PROVE  PricesIInv'
<1> DEFINE p == pricer[e].product
           to == pricer[e].to
<1>1. /\ p \in Products /\ to \in Prices /\ to \in AnyPrice /\ ~Listed(p)
      /\ now \in Instants
  BY DEF PricesIInv, PricerHolds, CreateProduct, PriceTypeOK, AnyPrice
<1>2. /\ product' = [product EXCEPT ![p] = to]
      /\ open' = [open EXCEPT ![p] = [price |-> to, from |-> now]]
      /\ offRate' = [offRate EXCEPT ![p] = to.rate \notin {0, rate}]
      /\ pricer' = [pricer EXCEPT ![e] = IdlePricer]
      /\ UNCHANGED <<rate, rater, quoter, now, offRecord>>
  BY DEF CreateProduct
<1>3. to.currency = "USD" => to.rate # 0
  BY <1>1 DEF Prices
<1> HIDE DEF p, to
<1>4. PriceTypeOK'
  BY <1>1, <1>2, PriceFacts DEF PricesIInv, PriceTypeOK, PricerCalls
<1>5. (\A o \in Pricers : PricerHolds(o))' /\ RaterHolds'
  BY <1>2, PriceFacts DEF PricesIInv, PriceTypeOK, PricerHolds, RaterHolds
<1>6. (\A q \in Quoters : QuoterHolds(q))'
  BY <1>1, <1>2 DEF PricesIInv, PriceTypeOK, QuoterHolds, Listed
<1>7. OnRecord' /\ QuotesOnRecord'
  BY <1>1, <1>2 DEF PricesIInv, PriceTypeOK, OnRecord, QuotesOnRecord
<1>8. AtActiveRate'
  BY <1>1, <1>2, <1>3 DEF PricesIInv, PriceTypeOK, AtActiveRate, InDollars
<1>9. QED
  BY <1>4, <1>5, <1>6, <1>7, <1>8 DEF PricesIInv

\* What the quotes are once rows have changed
LEMMA BesideFacts ==
  ASSUME quoter \in [Quoters -> Quotes], NEW ps \in SUBSET Products,
         quoter' = Beside(ps)
  PROVE  /\ quoter' \in [Quoters -> Quotes]
         /\ \A q \in Quoters :
              /\ quoter'[q].step = quoter[q].step /\ quoter'[q].product = quoter[q].product
              /\ quoter'[q].price = quoter[q].price /\ quoter'[q].record = quoter[q].record
              /\ quoter[q].step # "product" => quoter'[q].beside = quoter[q].beside
              /\ quoter[q].step = "product" =>
                   (~quoter'[q].beside => ~quoter[q].beside /\ quoter[q].product \notin ps)
<1>1. \A q \in Quoters : quoter[q] \in Quotes
  OBVIOUS
<1>2. QED
  BY <1>1 DEF Beside, Quotes

LEMMA CommitProductStep ==
  ASSUME PricesIInv, NEW e \in Pricers, CommitProduct(e)
  PROVE  PricesIInv'
<1> DEFINE c == pricer[e]
           p == c.product
           differs == PricingDiffers(c.was, c.to)
<1>1. /\ p \in Products /\ c.to \in Prices /\ c.to \in AnyPrice /\ c.was \in AnyPrice
      /\ c.at \in Instants /\ c.to # NoPrice
  BY PriceFacts DEF PricesIInv, PricerHolds, CommitProduct, PriceTypeOK, AnyPrice
<1>2. /\ product' = [product EXCEPT ![p] = c.to]
      /\ open' = IF differs THEN [open EXCEPT ![p] = [price |-> c.to, from |-> c.at]] ELSE open
      /\ offRecord' = [offRecord EXCEPT ![p] = ~differs /\ (@ \/ product[p] # c.was)]
      /\ offRate' = [offRate EXCEPT ![p] = c.to.rate \notin {0, rate}]
      /\ quoter' = Beside({p})
      /\ pricer' = [pricer EXCEPT ![e] = IdlePricer]
      /\ UNCHANGED <<rate, rater, now>>
  BY DEF CommitProduct
<1>3. c.to.currency = "USD" => c.to.rate # 0
  BY <1>1 DEF Prices
<1>4. ~differs => c.was = c.to
  BY DEF PricingDiffers
<1>5. differs \in BOOLEAN
  BY DEF PricingDiffers
<1> DEFINE to == c.to
           was == c.was
           at == c.at
<1>6. quoter \in [Quoters -> Quotes]
  BY DEF PricesIInv, PriceTypeOK, Quotes
<1> HIDE DEF differs
<1>7. PriceTypeOK'
  <2>1. product' \in [Products -> AnyPrice]
        /\ open' \in [Products -> [price : AnyPrice, from : Instants]]
    BY <1>1, <1>2 DEF PricesIInv, PriceTypeOK
  <2>2. pricer' \in [Pricers -> PricerCalls]
    BY <1>2, PriceFacts DEF PricesIInv, PriceTypeOK, PricerCalls
  <2>3. offRecord' \in [Products -> BOOLEAN]
    <3> DEFINE v == ~differs /\ (offRecord[p] \/ product[p] # was)
    <3>1. v \in BOOLEAN
      BY <1>1, <1>5 DEF PricesIInv, PriceTypeOK
    <3>2. offRecord' = [offRecord EXCEPT ![p] = v]
      BY <1>1, <1>2 DEF PricesIInv, PriceTypeOK
    <3> HIDE DEF v, p
    <3>3. QED
      BY <3>1, <3>2 DEF PricesIInv, PriceTypeOK
  <2>4. offRate' \in [Products -> BOOLEAN]
    <3> DEFINE v == c.to.rate \notin {0, rate}
    <3>1. v \in BOOLEAN
      OBVIOUS
    <3>2. offRate' = [offRate EXCEPT ![p] = v]
      BY <1>2
    <3> HIDE DEF v, p
    <3>3. QED
      BY <3>1, <3>2 DEF PricesIInv, PriceTypeOK
  <2>5. quoter' \in [Quoters -> Quotes]
    BY <1>1, <1>2, <1>6, BesideFacts
  <2>6. QED
    BY <1>2, <2>1, <2>2, <2>3, <2>4, <2>5 DEF PricesIInv, PriceTypeOK, PricerCalls, Quotes
<1>8. (\A o \in Pricers : PricerHolds(o))' /\ RaterHolds'
  BY <1>2, PriceFacts DEF PricesIInv, PriceTypeOK, PricerHolds, RaterHolds
<1>9. \A r \in Products \ {p} : /\ product'[r] = product[r] /\ open'[r] = open[r]
                                /\ offRecord'[r] = offRecord[r] /\ offRate'[r] = offRate[r]
  BY <1>1, <1>2 DEF PricesIInv, PriceTypeOK
<1>10. /\ product'[p] = c.to
       /\ offRate'[p] <=> c.to.rate \notin {0, rate}
       /\ ~offRecord'[p] => differs \/ (~offRecord[p] /\ product[p] = c.was)
       /\ differs => open'[p].price = c.to
       /\ ~differs => open'[p] = open[p]
  BY <1>1, <1>2 DEF PricesIInv, PriceTypeOK
<1>11. OnRecord'
  BY <1>4, <1>9, <1>10 DEF PricesIInv, OnRecord
<1>12. AtActiveRate'
  BY <1>2, <1>3, <1>9, <1>10 DEF PricesIInv, AtActiveRate, InDollars
<1>13. (\A q \in Quoters : QuoterHolds(q))'
  <2> SUFFICES ASSUME NEW q \in Quoters, (quoter[q].step = "product")'
               PROVE  QuoterHolds(q)'
    BY DEF QuoterHolds
  <2>1. /\ quoter'[q].step = quoter[q].step /\ quoter'[q].product = quoter[q].product
        /\ quoter'[q].price = quoter[q].price
        /\ ~quoter'[q].beside => ~quoter[q].beside /\ quoter[q].product # p
    <3>1. {p} \in SUBSET Products /\ quoter' = Beside({p})
      BY <1>1, <1>2
    <3>2. quoter'[q].step = quoter[q].step
      BY <1>6, <3>1, BesideFacts
    <3>3. quoter[q].step = "product"
      BY <3>2
    <3>4. ~quoter'[q].beside => ~quoter[q].beside /\ quoter[q].product \notin {p}
      BY <1>6, <3>1, <3>3, BesideFacts
    <3>5. /\ quoter'[q].step = quoter[q].step /\ quoter'[q].product = quoter[q].product
          /\ quoter'[q].price = quoter[q].price
      BY <1>6, <3>1, BesideFacts
    <3>6. QED
      BY <3>4, <3>5
  <2>2. QuoterHolds(q)
    BY DEF PricesIInv
  <2>3. Listed(quoter[q].product)'
    BY <1>1, <1>9, <1>10, <2>1, <2>2 DEF QuoterHolds, Listed
  <2>4. QED
    BY <1>9, <2>1, <2>2, <2>3 DEF QuoterHolds
<1>14. QuotesOnRecord'
  <2>1. \A q \in Quoters : quoter'[q].step = "done" /\ ~quoter'[q].beside =>
          quoter[q].step = "done" /\ ~quoter[q].beside
          /\ quoter'[q].price = quoter[q].price /\ quoter'[q].record = quoter[q].record
    BY <1>1, <1>2, <1>6, BesideFacts
  <2>2. QED
    BY <2>1 DEF PricesIInv, QuotesOnRecord
<1>15. QED
  BY <1>7, <1>8, <1>11, <1>12, <1>13, <1>14 DEF PricesIInv

\* A step of the new rate that writes no row
LEMMA RaterOnly ==
  ASSUME PricesIInv, RaterHolds',
         rater' \in [step : {"idle", "read", "stamped"}, seen : [Products -> AnyPrice],
                     at : Instants],
         UNCHANGED <<product, open, rate, pricer, quoter, now, offRecord, offRate>>
  PROVE  PricesIInv'
BY DEF PricesIInv, PriceTypeOK, PricerHolds, QuoterHolds, Listed, OnRecord, AtActiveRate,
       InDollars, QuotesOnRecord

LEMMA ReadProductsStep ==
  ASSUME PricesIInv, ReadProducts
  PROVE  PricesIInv'
<1> DEFINE seen == [p \in Products |-> IF InDollars(p) THEN product[p] ELSE NoPrice]
<1>1. seen \in [Products -> AnyPrice]
  BY PriceFacts DEF PricesIInv, PriceTypeOK
<1>2. \A p \in Products : seen[p] # NoPrice => seen[p].currency = "USD"
  BY DEF InDollars
<1> HIDE DEF seen
<1>3. rater' = [IdleRater EXCEPT !.step = "read", !.seen = seen]
  BY DEF ReadProducts, seen
<1>4. rater' \in [step : {"idle", "read", "stamped"}, seen : [Products -> AnyPrice],
                  at : Instants]
      /\ rater'.seen = seen
  BY <1>1, <1>3, PriceFacts DEF IdleRater
<1>5. RaterHolds'
  BY <1>2, <1>4 DEF RaterHolds, ReadProducts
<1>6. QED
  BY <1>4, <1>5, RaterOnly DEF ReadProducts

LEMMA StampRateStep ==
  ASSUME PricesIInv, StampRate
  PROVE  PricesIInv'
<1>1. rater' \in [step : {"idle", "read", "stamped"}, seen : [Products -> AnyPrice],
                  at : Instants]
      /\ rater'.seen = rater.seen
  BY DEF PricesIInv, PriceTypeOK, StampRate
<1>2. RaterHolds'
  BY <1>1 DEF PricesIInv, RaterHolds, StampRate
<1>3. QED
  BY <1>1, <1>2, RaterOnly DEF StampRate

LEMMA DropRateStep ==
  ASSUME PricesIInv, DropRate
  PROVE  PricesIInv'
BY RaterOnly, PriceFacts DEF DropRate, RaterHolds

LEMMA CommitRateStep ==
  ASSUME PricesIInv, CommitRate
  PROVE  PricesIInv'
<1>1. rate < LastRate /\ rate \in 1..LastRate /\ rate + 1 \in 1..LastRate /\ rate + 1 # 0
  BY PriceListAssumption DEF PricesIInv, RaterHolds, CommitRate, PriceTypeOK
<1>2. \A p \in Repriced : /\ AtNewRate(p) \in Prices /\ AtNewRate(p) # NoPrice
                          /\ AtNewRate(p) \in AnyPrice
                          /\ AtNewRate(p).rate = rate + 1
                          /\ AtNewRate(p).currency = "USD"
  <2> TAKE p \in Repriced
  <2>1. rater.seen[p] \in AnyPrice /\ rater.seen[p] # NoPrice /\ rater.seen[p].currency = "USD"
    BY DEF Repriced, PricesIInv, PriceTypeOK, RaterHolds, CommitRate
  <2>2. QED
    BY <1>1, <2>1, RepriceFacts DEF AtNewRate, AnyPrice
<1>3. /\ rate' = rate + 1
      /\ product' = [p \in Products |-> IF p \in Repriced THEN AtNewRate(p) ELSE product[p]]
      /\ open' = [p \in Products |-> IF p \in Repriced
                                     THEN [price |-> AtNewRate(p), from |-> rater.at]
                                     ELSE open[p]]
      /\ offRecord' = [p \in Products |-> offRecord[p] /\ p \notin Repriced]
      /\ offRate' = [p \in Products |-> p \notin Repriced /\ InDollars(p)]
      /\ quoter' = Beside(Repriced)
      /\ rater' = IdleRater
      /\ UNCHANGED <<pricer, now>>
  BY DEF CommitRate
<1>4. Repriced \in SUBSET Products
  BY DEF Repriced
<1>5. quoter \in [Quoters -> Quotes]
  BY DEF PricesIInv, PriceTypeOK, Quotes
<1>6. \A p \in Products :
        /\ p \in Repriced => /\ product'[p] = AtNewRate(p) /\ open'[p].price = AtNewRate(p)
                             /\ open'[p] = [price |-> AtNewRate(p), from |-> rater.at]
        /\ p \notin Repriced => /\ product'[p] = product[p] /\ open'[p] = open[p]
                                /\ offRecord'[p] <=> offRecord[p]
                                /\ offRate'[p] <=> InDollars(p)
  BY <1>3 DEF PricesIInv, PriceTypeOK
<1>7. PriceTypeOK'
  <2>1. product' \in [Products -> AnyPrice]
    <3>1. \A p \in Products : product[p] \in AnyPrice
      BY DEF PricesIInv, PriceTypeOK
    <3>2. \A p \in Products : (IF p \in Repriced THEN AtNewRate(p) ELSE product[p]) \in AnyPrice
      BY <1>2, <3>1
    <3>3. QED
      BY <1>3, <3>2
  <2>2. open' \in [Products -> [price : AnyPrice, from : Instants]]
    <3>1. rater.at \in Instants
      BY DEF PricesIInv, PriceTypeOK
    <3>2. \A p \in Products : open[p] \in [price : AnyPrice, from : Instants]
      BY DEF PricesIInv, PriceTypeOK
    <3>3. \A p \in Repriced :
            [price |-> AtNewRate(p), from |-> rater.at] \in [price : AnyPrice, from : Instants]
      BY <1>2, <3>1
    <3>4. \A p \in Products : (IF p \in Repriced THEN [price |-> AtNewRate(p), from |-> rater.at]
                               ELSE open[p]) \in [price : AnyPrice, from : Instants]
      BY <3>2, <3>3
    <3>5. QED
      BY <1>3, <3>4
  <2>3. offRecord' \in [Products -> BOOLEAN] /\ offRate' \in [Products -> BOOLEAN]
    BY <1>3 DEF PricesIInv, PriceTypeOK, InDollars
  <2>4. quoter' \in [Quoters -> Quotes]
    BY <1>3, <1>4, <1>5, BesideFacts
  <2>5. QED
    BY <1>1, <1>3, <2>1, <2>2, <2>3, <2>4, PriceFacts DEF PricesIInv, PriceTypeOK, Quotes
<1>8. (\A o \in Pricers : PricerHolds(o))' /\ RaterHolds'
  BY <1>3, PriceFacts DEF PricesIInv, PricerHolds, RaterHolds
<1>9. OnRecord'
  BY <1>6 DEF PricesIInv, OnRecord
<1>10. AtActiveRate'
  BY <1>2, <1>3, <1>6 DEF AtActiveRate, InDollars
<1>11. (\A q \in Quoters : QuoterHolds(q))'
  <2> SUFFICES ASSUME NEW q \in Quoters, (quoter[q].step = "product")'
               PROVE  QuoterHolds(q)'
    BY DEF QuoterHolds
  <2>1. /\ quoter'[q].step = quoter[q].step /\ quoter'[q].product = quoter[q].product
        /\ quoter'[q].price = quoter[q].price
        /\ ~quoter'[q].beside => ~quoter[q].beside /\ quoter[q].product \notin Repriced
    BY <1>3, <1>4, <1>5, BesideFacts
  <2>2. QuoterHolds(q)
    BY DEF PricesIInv
  <2>3. Listed(quoter[q].product)'
    <3>1. quoter[q].product \in Products /\ product[quoter[q].product] # NoPrice
      BY <2>1, <2>2 DEF QuoterHolds, Listed
    <3>2. product'[quoter[q].product] # NoPrice
      <4>1. CASE quoter[q].product \in Repriced
        <5>1. AtNewRate(quoter[q].product) # NoPrice
          BY <1>2, <4>1
        <5>2. QED
          BY <1>6, <3>1, <4>1, <5>1
      <4>2. CASE quoter[q].product \notin Repriced
        BY <1>6, <3>1, <4>2
      <4>3. QED
        BY <4>1, <4>2
    <3>3. QED
      BY <2>1, <3>2 DEF Listed, NoPrice
  <2>4. QED
    BY <1>6, <2>1, <2>2, <2>3 DEF QuoterHolds
<1>12. QuotesOnRecord'
  <2>1. \A q \in Quoters : quoter'[q].step = "done" /\ ~quoter'[q].beside =>
          quoter[q].step = "done" /\ ~quoter[q].beside
          /\ quoter'[q].price = quoter[q].price /\ quoter'[q].record = quoter[q].record
    BY <1>3, <1>4, <1>5, BesideFacts
  <2>2. QED
    BY <2>1 DEF PricesIInv, QuotesOnRecord
<1>13. QED
  BY <1>7, <1>8, <1>9, <1>10, <1>11, <1>12 DEF PricesIInv

\* A step of a line that is being priced
LEMMA QuoterOnly ==
  ASSUME PricesIInv, NEW q \in Quoters, NEW new \in Quotes,
         quoter' = [quoter EXCEPT ![q] = new],
         new.step = "product" =>
           /\ new.product \in Products /\ Listed(new.product)
           /\ ~new.beside => ~offRecord[new.product] /\ new.price = product[new.product],
         new.step = "done" /\ ~new.beside => new.price = new.record,
         UNCHANGED <<product, open, rate, pricer, rater, now, offRecord, offRate>>
  PROVE  PricesIInv'
<1>1. PriceTypeOK'
  BY DEF PricesIInv, PriceTypeOK, Quotes
<1>2. (\A e \in Pricers : PricerHolds(e))' /\ RaterHolds' /\ OnRecord' /\ AtActiveRate'
  BY DEF PricesIInv, PricerHolds, RaterHolds, OnRecord, AtActiveRate, InDollars
<1>3. (\A r \in Quoters : QuoterHolds(r))' /\ QuotesOnRecord'
  BY DEF PricesIInv, PriceTypeOK, QuoterHolds, QuotesOnRecord, Listed
<1>4. QED
  BY <1>1, <1>2, <1>3 DEF PricesIInv

LEMMA QuoteProductStep ==
  ASSUME PricesIInv, NEW q \in Quoters, QuoteProduct(q)
  PROVE  PricesIInv'
<1>1. PICK p \in Products :
        /\ Listed(p)
        /\ quoter' = [quoter EXCEPT ![q] = [NoQuote EXCEPT !.step = "product", !.product = p,
                                              !.price = product[p], !.beside = offRecord[p]]]
  BY DEF QuoteProduct
<1> DEFINE new == [NoQuote EXCEPT !.step = "product", !.product = p,
                                  !.price = product[p], !.beside = offRecord[p]]
<1>2. product[p] \in AnyPrice /\ offRecord[p] \in BOOLEAN
  BY DEF PricesIInv, PriceTypeOK
<1>3. /\ new \in Quotes /\ new.step = "product" /\ new.product = p /\ new.price = product[p]
      /\ new.beside = offRecord[p]
  BY <1>2, PriceFacts DEF NoQuote, Quotes
<1> HIDE DEF new
<1>4. QED
  BY <1>1, <1>3, QuoterOnly DEF QuoteProduct, new

LEMMA QuoteRecordStep ==
  ASSUME PricesIInv, NEW q \in Quoters, QuoteRecord(q)
  PROVE  PricesIInv'
<1> DEFINE p == quoter[q].product
           new == [quoter[q] EXCEPT !.step = "done", !.record = open[p].price]
<1>1. QuoterHolds(q) /\ quoter[q].step = "product" /\ quoter[q] \in Quotes
  BY DEF PricesIInv, PriceTypeOK, QuoteRecord, Quotes
<1>2. p \in Products
  BY <1>1 DEF QuoterHolds
<1>3. open[p].price \in AnyPrice
  BY <1>2 DEF PricesIInv, PriceTypeOK
<1>4. /\ new \in Quotes /\ new.step = "done" /\ new.price = quoter[q].price
      /\ new.record = open[p].price /\ new.beside = quoter[q].beside
  BY <1>1, <1>3 DEF Quotes
<1>5. ~new.beside => new.price = new.record
  BY <1>1, <1>4 DEF QuoterHolds, PricesIInv, OnRecord
<1>6. quoter' = [quoter EXCEPT ![q] = new]
  BY DEF QuoteRecord, PricesIInv, PriceTypeOK
<1> HIDE DEF new
<1>7. QED
  BY <1>4, <1>5, <1>6, QuoterOnly DEF QuoteRecord

LEMMA PricesStepInv == PricesIInv /\ [PriceNext]_priceVars => PricesIInv'
<1> SUFFICES ASSUME PricesIInv, [PriceNext]_priceVars PROVE PricesIInv'
  OBVIOUS
<1>1. ASSUME NEW e \in Pricers,
             \/ Calculate(e) \/ CreateProduct(e) \/ LockProduct(e)
             \/ WriteProduct(e) \/ CommitProduct(e) \/ DropPricer(e)
      PROVE  PricesIInv'
  BY <1>1, CalculateStep, CreateProductStep, LockProductStep, WriteProductStep,
     CommitProductStep, DropPricerStep
<1>2. CASE ReadProducts \/ StampRate \/ CommitRate \/ DropRate
  BY <1>2, ReadProductsStep, StampRateStep, CommitRateStep, DropRateStep
<1>3. ASSUME NEW q \in Quoters, QuoteProduct(q) \/ QuoteRecord(q)
      PROVE  PricesIInv'
  BY <1>3, QuoteProductStep, QuoteRecordStep
<1>4. CASE TimePasses
  BY <1>4, PriceListAssumption DEF TimePasses, PricesIInv, PriceTypeOK, PricerHolds, RaterHolds, QuoterHolds,
              Listed, OnRecord, AtActiveRate, InDollars, QuotesOnRecord, Instants
<1>5. CASE UNCHANGED priceVars
  BY <1>5 DEF priceVars, PricesIInv, PriceTypeOK, PricerHolds, RaterHolds, QuoterHolds,
              Listed, OnRecord, AtActiveRate, InDollars, QuotesOnRecord
<1>6. QED
  BY <1>1, <1>2, <1>3, <1>4, <1>5 DEF PriceNext

\* For any products, callers, rates and instants: the open record of a product
\* shows its price but for an update that met a new rate, a price in dollars is
\* at the active rate but for one set while it changed, and a line keeps the
\* price of the record it points to but for a change between its readings.
THEOREM PricesSafe == PriceSpec => []PricesInv
<1>1. PriceInit => PricesIInv
  BY PricesInitInv
<1>2. PricesIInv /\ [PriceNext]_priceVars => PricesIInv'
  BY PricesStepInv
<1>3. PricesIInv => PricesInv
  BY DEF PricesIInv, PricesInv
<1>4. QED
  BY <1>1, <1>2, <1>3, PTL DEF PriceSpec

(***************************************************************************)
(* Sums.  The fold of the community modules takes the elements of a set in *)
(* an order of its own; whatever that order, the sum changes as a sum does *)
(* when one element comes, goes or gets another number.                    *)
(***************************************************************************)
LEMMA LeastNat == \A T \in SUBSET Nat : T # {} => \E x \in T : \A y \in T : x <= y
<1> DEFINE R == OpToRel(<, Nat)
<1>1. SUFFICES ASSUME NEW T \in SUBSET Nat, T # {} PROVE \E x \in T : \A y \in T : x <= y
  OBVIOUS
<1>2. IsWellFoundedOn(R, Nat)
  BY NatLessThanWellFounded
<1>3. \A x, y \in Nat : y < x => <<y, x>> \in R
  BY DEF OpToRel
<1> HIDE DEF R
<1>4. PICK x \in T : \A y \in T : ~ (<<y, x>> \in R)
  BY <1>1, <1>2, WFMin
<1>5. \A y \in T : ~ (y < x)
  BY <1>3, <1>4
<1>6. \A y \in T : x <= y
  BY <1>5
<1>7. QED
  BY <1>6

(***************************************************************************)
(* Sums: the fold of the community modules takes the elements of a set in  *)
(* an order of its own; what follows shows that the order does not matter. *)
(***************************************************************************)
Chosen(s) == CHOOSE x \in s : TRUE

\* The equation of the fold
Folded(g, w, S) ==
  g = [s \in SUBSET S |-> IF s = {} THEN 0 ELSE w[Chosen(s)] + g[s \ {Chosen(s)}]]

\* The sum of every part of S, whichever element is taken out first
Sums(g, w, S) ==
  /\ g \in [SUBSET S -> Nat] /\ g[{}] = 0
  /\ \A s \in SUBSET S : \A x \in s : g[s] = w[x] + g[s \ {x}]

LEMMA SumIsFolded ==
  ASSUME NEW w, NEW S
  PROVE  SumFunctionOnSet(w, S) = (CHOOSE g : Folded(g, w, S))[S]
BY DEF SumFunctionOnSet, FoldFunctionOnSet, MapThenFoldSet, Folded, Chosen

LEMMA ChosenIn == \A s : s # {} => Chosen(s) \in s
BY DEF Chosen

LEMMA PartCardinality ==
  ASSUME NEW S, IsFiniteSet(S), NEW s \in SUBSET S
  PROVE  /\ Cardinality(s) \in Nat
         /\ \A x \in s : /\ Cardinality(s \ {x}) \in Nat
                         /\ Cardinality(s \ {x}) < Cardinality(s)
         /\ Cardinality(s) = 0 <=> s = {}
<1>1. IsFiniteSet(s)
  BY FS_Subset
<1>2. Cardinality(s) \in Nat /\ (Cardinality(s) = 0 <=> s = {})
  BY <1>1, FS_CardinalityType, FS_EmptySet
<1>3. ASSUME NEW x \in s PROVE Cardinality(s \ {x}) \in Nat /\ Cardinality(s \ {x}) < Cardinality(s)
  <2>1. IsFiniteSet(s \ {x}) /\ Cardinality(s \ {x}) = Cardinality(s) - 1
    BY <1>1, FS_RemoveElement
  <2>2. Cardinality(s \ {x}) \in Nat
    BY <2>1, FS_CardinalityType
  <2> QED
    BY <1>2, <2>1, <2>2
<1> QED
  BY <1>2, <1>3

\* The fold has a result on the parts of at most n elements, for every n.
LEMMA FoldExists ==
  ASSUME NEW S, IsFiniteSet(S), NEW w, \A x \in S : w[x] \in Nat
  PROVE  \E g : Folded(g, w, S) /\ g \in [SUBSET S -> Nat]
<1> DEFINE Right(g, s) == IF s = {} THEN 0 ELSE w[Chosen(s)] + g[s \ {Chosen(s)}]
<1> DEFINE UpTo(n) == \E g \in [SUBSET S -> Nat] :
             \A s \in SUBSET S : Cardinality(s) <= n => g[s] = Right(g, s)
<1> DEFINE Failing == {n \in Nat : ~UpTo(n)}
<1>0. \A s \in SUBSET S : s # {} => /\ Chosen(s) \in s /\ Chosen(s) \in S
                                    /\ s \ {Chosen(s)} \in SUBSET S
  BY ChosenIn
<1>1. UpTo(0)
  <2>1. PICK g : g = [s \in SUBSET S |-> 0]
    OBVIOUS
  <2>2. g \in [SUBSET S -> Nat]
    BY <2>1
  <2>3. \A s \in SUBSET S : Cardinality(s) <= 0 => g[s] = Right(g, s)
    BY <2>1, PartCardinality
  <2> QED
    BY <2>2, <2>3
<1>2. ASSUME NEW n \in Nat, UpTo(n) PROVE UpTo(n + 1)
  <2>1. PICK g \in [SUBSET S -> Nat] :
          \A s \in SUBSET S : Cardinality(s) <= n => g[s] = Right(g, s)
    BY <1>2
  <2>2. PICK h : h = [s \in SUBSET S |-> Right(g, s)]
    OBVIOUS
  <2>3. \A s \in SUBSET S : h[s] = Right(g, s) /\ h[s] \in Nat
    BY <1>0, <2>2
  <2>4. h \in [SUBSET S -> Nat]
    BY <2>2, <2>3
  <2>5. ASSUME NEW s \in SUBSET S, Cardinality(s) <= n + 1 PROVE h[s] = Right(h, s)
    <3>1. CASE s = {}
      BY <2>3, <3>1
    <3>2. CASE s # {}
      <4>1. PICK r : r = s \ {Chosen(s)}
        OBVIOUS
      <4>2. r \in SUBSET S /\ Cardinality(r) \in Nat /\ Cardinality(r) <= n
        BY <1>0, <2>5, <3>2, <4>1, PartCardinality
      <4>3. g[r] = h[r]
        BY <2>1, <2>3, <4>2
      <4> QED
        BY <2>3, <3>2, <4>1, <4>3
    <3> QED
      BY <3>1, <3>2
  <2> QED
    BY <2>4, <2>5
<1> HIDE DEF UpTo
<1>3. \A n \in Nat : UpTo(n)
  <2> SUFFICES ASSUME Failing # {} PROVE FALSE
    OBVIOUS
  <2>1. PICK n \in Failing : \A m \in Failing : n <= m
    BY LeastNat
  <2>2. n \in Nat /\ ~UpTo(n) /\ n # 0
    BY <1>1
  <2>3. n - 1 \in Nat /\ n - 1 < n /\ (n - 1) + 1 = n
    BY <2>2
  <2>4. UpTo(n - 1)
    BY <2>1, <2>3
  <2>5. UpTo((n - 1) + 1)
    BY <1>2, <2>3, <2>4
  <2> QED
    BY <2>2, <2>3, <2>5
<1>4. Cardinality(S) \in Nat
  BY FS_CardinalityType
<1>5. UpTo(Cardinality(S))
  BY <1>3, <1>4
<1>6. PICK g \in [SUBSET S -> Nat] :
        \A s \in SUBSET S : Cardinality(s) <= Cardinality(S) => g[s] = Right(g, s)
  BY <1>5 DEF UpTo
<1>7. \A s \in SUBSET S : Cardinality(s) <= Cardinality(S)
  BY FS_Subset
<1>8. g = [s \in SUBSET S |-> Right(g, s)]
  BY <1>6, <1>7
<1> QED
  BY <1>8 DEF Folded

\* A result of the fold is a sum: two elements may be taken in either order.
LEMMA FoldSums ==
  ASSUME NEW S, IsFiniteSet(S), NEW w, \A x \in S : w[x] \in Nat, NEW g, Folded(g, w, S)
  PROVE  Sums(g, w, S)
<1> DEFINE Good(s) == g[s] \in Nat /\ \A x \in s : g[s] = w[x] + g[s \ {x}]
<1> DEFINE Bad == {n \in Nat : \E s \in SUBSET S : Cardinality(s) = n /\ ~Good(s)}
<1>1. DOMAIN g = SUBSET S /\ g[{}] = 0
  BY DEF Folded
<1>2. \A s \in SUBSET S : s # {} => g[s] = w[Chosen(s)] + g[s \ {Chosen(s)}]
  BY DEF Folded
<1>3. \A s \in SUBSET S : Good(s)
  <2> SUFFICES ASSUME NEW t \in SUBSET S, ~Good(t) PROVE FALSE
    OBVIOUS
  <2>1. Bad # {}
    BY PartCardinality
  <2>2. PICK n \in Bad : \A m \in Bad : n <= m
    BY <2>1, LeastNat
  <2>3. PICK s \in SUBSET S : Cardinality(s) = n /\ ~Good(s)
    OBVIOUS
  <2>4. \A r \in SUBSET S : Cardinality(r) < Cardinality(s) => Good(r)
    BY <2>2, <2>3, PartCardinality
  <2>5. s # {}
    <3> SUFFICES ASSUME s = {} PROVE FALSE
      OBVIOUS
    <3>1. Good({})
      BY <1>1
    <3> QED
      BY <2>3, <3>1
  <2>6. PICK c \in s : c = Chosen(s)
    BY <2>5, ChosenIn
  <2>7. g[s] = w[c] + g[s \ {c}]
    BY <1>2, <2>5, <2>6
  <2>8. \A x \in s : s \ {x} \in SUBSET S /\ Good(s \ {x})
    BY <2>4, PartCardinality
  <2>9. g[s] \in Nat
    BY <2>6, <2>7, <2>8
  <2>10. ASSUME NEW x \in s PROVE g[s] = w[x] + g[s \ {x}]
    <3>1. CASE x = c
      BY <2>7, <3>1
    <3>2. CASE x # c
      <4>1. PICK r : r = (s \ {c}) \ {x}
        OBVIOUS
      <4>2. r = (s \ {x}) \ {c}
        BY <4>1
      <4>3. g[s \ {c}] = w[x] + g[r]
        BY <2>8, <3>2, <4>1
      <4>4. g[s \ {x}] = w[c] + g[r]
        BY <2>8, <3>2, <4>2
      <4>5. r \in SUBSET S /\ Good(r)
        <5>1. r \in SUBSET S /\ r \in SUBSET (s \ {c})
          BY <4>1
        <5>2. Cardinality(s \ {c}) < Cardinality(s) /\ Cardinality(s \ {c}) \in Nat
          BY PartCardinality
        <5>3. Cardinality(r) < Cardinality(s \ {c}) /\ Cardinality(r) \in Nat /\ Cardinality(s) \in Nat
          <6>1. s \ {c} \in SUBSET S /\ x \in s \ {c}
            BY <3>2
          <6> QED
            BY <4>1, <6>1, PartCardinality
        <5> QED
          BY <2>4, <5>1, <5>2, <5>3
      <4> QED
        BY <2>7, <4>3, <4>4, <4>5
    <3> QED
      BY <3>1, <3>2
  <2> QED
    BY <2>3, <2>9, <2>10
<1> QED
  <2>1. g \in [SUBSET S -> Nat]
    BY <1>1, <1>3 DEF Folded
  <2> QED
    BY <1>1, <1>3, <2>1 DEF Sums

\* Two sums of equal weights are equal.
LEMMA SumsUnique ==
  ASSUME NEW S, NEW T, IsFiniteSet(S), NEW w, NEW v, NEW g, NEW h,
         Sums(g, w, S), Sums(h, v, T), NEW U \in SUBSET (S \cap T),
         \A x \in U : w[x] = v[x]
  PROVE  g[U] = h[U]
<1> DEFINE Bad == {n \in Nat : \E s \in SUBSET U : Cardinality(s) = n /\ g[s] # h[s]}
<1> SUFFICES ASSUME g[U] # h[U] PROVE FALSE
  OBVIOUS
<1>1. IsFiniteSet(U)
  BY FS_Subset
<1>2. Bad # {}
  BY <1>1, FS_CardinalityType
<1>3. PICK n \in Bad : \A m \in Bad : n <= m
  BY <1>2, LeastNat
<1>4. PICK s \in SUBSET U : Cardinality(s) = n /\ g[s] # h[s]
  OBVIOUS
<1>5. s # {}
  BY <1>4 DEF Sums
<1>6. PICK x \in s : TRUE
  BY <1>5
<1>7. g[s] = w[x] + g[s \ {x}] /\ h[s] = v[x] + h[s \ {x}]
  BY <1>6 DEF Sums
<1>8. g[s \ {x}] = h[s \ {x}]
  <2>1. s \ {x} \in SUBSET U /\ Cardinality(s \ {x}) \in Nat
        /\ Cardinality(s \ {x}) < Cardinality(s) /\ Cardinality(s) \in Nat
    BY <1>1, PartCardinality
  <2> QED
    BY <1>3, <1>4, <2>1
<1> QED
  BY <1>4, <1>7, <1>8

\* What the fold computes: nothing for no element, and the weight of any one
\* element and the sum of the others.
LEMMA SumFacts ==
  ASSUME NEW S, IsFiniteSet(S), NEW w, \A x \in S : w[x] \in Nat
  PROVE  \E g : Sums(g, w, S) /\ SumFunctionOnSet(w, S) = g[S]
<1>1. PICK g : g = CHOOSE h : Folded(h, w, S)
  OBVIOUS
<1>2. Folded(g, w, S)
  BY <1>1, FoldExists
<1> QED
  BY <1>1, <1>2, FoldSums, SumIsFolded

LEMMA SumNat ==
  ASSUME NEW S, IsFiniteSet(S), NEW w, \A x \in S : w[x] \in Nat
  PROVE  SumFunctionOnSet(w, S) \in Nat
<1>1. PICK g : Sums(g, w, S) /\ SumFunctionOnSet(w, S) = g[S]
  BY SumFacts
<1> QED
  BY <1>1 DEF Sums

LEMMA SumEmpty == ASSUME NEW w PROVE SumFunctionOnSet(w, {}) = 0
<1>1. PICK g : Sums(g, w, {}) /\ SumFunctionOnSet(w, {}) = g[{}]
  BY SumFacts, FS_EmptySet
<1> QED
  BY <1>1 DEF Sums

LEMMA SumTakesOut ==
  ASSUME NEW S, IsFiniteSet(S), NEW w, \A x \in S : w[x] \in Nat, NEW x \in S
  PROVE  SumFunctionOnSet(w, S) = w[x] + SumFunctionOnSet(w, S \ {x})
<1>1. PICK g : Sums(g, w, S) /\ SumFunctionOnSet(w, S) = g[S]
  BY SumFacts
<1>2. IsFiniteSet(S \ {x})
  BY FS_Subset
<1>3. PICK h : Sums(h, w, S \ {x}) /\ SumFunctionOnSet(w, S \ {x}) = h[S \ {x}]
  BY <1>2, SumFacts
<1>4. PICK T : T = S \ {x}
  OBVIOUS
<1>5. Sums(g, w, S) /\ Sums(h, w, T) /\ T \in SUBSET (S \cap T) /\ \A y \in T : w[y] = w[y]
  BY <1>1, <1>3, <1>4
<1>6. g[T] = h[T]
  BY <1>5, SumsUnique
<1> QED
  BY <1>1, <1>3, <1>4, <1>6 DEF Sums

LEMMA SumSame ==
  ASSUME NEW S, IsFiniteSet(S), NEW w, NEW v,
         \A x \in S : w[x] \in Nat /\ v[x] = w[x]
  PROVE  SumFunctionOnSet(v, S) = SumFunctionOnSet(w, S)
<1>1. PICK g : Sums(g, w, S) /\ SumFunctionOnSet(w, S) = g[S]
  BY SumFacts
<1>2. PICK h : Sums(h, v, S) /\ SumFunctionOnSet(v, S) = h[S]
  BY SumFacts
<1> QED
  BY <1>1, <1>2, SumsUnique

\* One weight changes, in or out of the set.
LEMMA SumChanges ==
  ASSUME NEW S, IsFiniteSet(S), NEW w, NEW v, NEW x \in S,
         \A y \in S : w[y] \in Nat /\ v[y] \in Nat /\ (y # x => v[y] = w[y])
  PROVE  /\ SumFunctionOnSet(v, S) = v[x] + SumFunctionOnSet(w, S \ {x})
         /\ SumFunctionOnSet(w, S) = w[x] + SumFunctionOnSet(w, S \ {x})
         /\ SumFunctionOnSet(w, S \ {x}) \in Nat
<1>1. IsFiniteSet(S \ {x})
  BY FS_Subset
<1>2. SumFunctionOnSet(v, S \ {x}) = SumFunctionOnSet(w, S \ {x})
  BY <1>1, SumSame
<1> QED
  BY <1>1, <1>2, SumTakesOut, SumNat

\* Elements without weight add nothing.
LEMMA SumSparse ==
  ASSUME NEW S, IsFiniteSet(S), NEW w, \A x \in S : w[x] \in Nat,
         NEW T \in SUBSET S, \A x \in S \ T : w[x] = 0
  PROVE  SumFunctionOnSet(w, S) = SumFunctionOnSet(w, T)
<1> DEFINE Bad == {n \in Nat : \E U \in SUBSET S : /\ T \subseteq U /\ Cardinality(U) = n
                      /\ SumFunctionOnSet(w, U) # SumFunctionOnSet(w, T)}
<1> SUFFICES ASSUME SumFunctionOnSet(w, S) # SumFunctionOnSet(w, T) PROVE FALSE
  OBVIOUS
<1>1. Bad # {}
  BY FS_CardinalityType
<1>2. PICK n \in Bad : \A m \in Bad : n <= m
  BY <1>1, LeastNat
<1>3. PICK U \in SUBSET S : /\ T \subseteq U /\ Cardinality(U) = n
                           /\ SumFunctionOnSet(w, U) # SumFunctionOnSet(w, T)
  OBVIOUS
<1>4. PICK x \in U : x \notin T
  BY <1>3
<1>5. /\ Cardinality(U \ {x}) \in Nat /\ Cardinality(U) \in Nat
      /\ Cardinality(U \ {x}) < Cardinality(U)
  BY PartCardinality
<1>6. IsFiniteSet(U) /\ IsFiniteSet(U \ {x})
  BY FS_Subset
<1>7. /\ SumFunctionOnSet(w, U) = w[x] + SumFunctionOnSet(w, U \ {x})
      /\ w[x] = 0 /\ SumFunctionOnSet(w, U \ {x}) \in Nat
  <2>1. SumFunctionOnSet(w, U) = w[x] + SumFunctionOnSet(w, U \ {x})
    BY <1>6, SumTakesOut
  <2>2. SumFunctionOnSet(w, U \ {x}) \in Nat
    BY <1>6, SumNat
  <2> QED
    BY <1>4, <2>1, <2>2
<1>8. SumFunctionOnSet(w, U \ {x}) = SumFunctionOnSet(w, T)
  BY <1>2, <1>3, <1>4, <1>5
<1> QED
  BY <1>3, <1>7, <1>8

LEMMA SumBounds ==
  ASSUME NEW S, IsFiniteSet(S), NEW w, NEW v,
         \A x \in S : w[x] \in Nat /\ v[x] \in Nat /\ w[x] <= v[x]
  PROVE  SumFunctionOnSet(w, S) <= SumFunctionOnSet(v, S)
<1> DEFINE Bad == {n \in Nat : \E U \in SUBSET S : /\ Cardinality(U) = n
                      /\ ~(SumFunctionOnSet(w, U) <= SumFunctionOnSet(v, U))}
<1> SUFFICES ASSUME ~(SumFunctionOnSet(w, S) <= SumFunctionOnSet(v, S)) PROVE FALSE
  OBVIOUS
<1>1. Bad # {}
  BY FS_CardinalityType
<1>2. PICK n \in Bad : \A m \in Bad : n <= m
  BY <1>1, LeastNat
<1>3. PICK U \in SUBSET S : /\ Cardinality(U) = n
                           /\ ~(SumFunctionOnSet(w, U) <= SumFunctionOnSet(v, U))
  OBVIOUS
<1>4. PICK x \in U : TRUE
  BY <1>3, SumEmpty
<1>5. /\ Cardinality(U \ {x}) \in Nat /\ Cardinality(U) \in Nat
      /\ Cardinality(U \ {x}) < Cardinality(U)
  BY PartCardinality
<1>6. IsFiniteSet(U) /\ IsFiniteSet(U \ {x})
  BY FS_Subset
<1>7. /\ SumFunctionOnSet(w, U) = w[x] + SumFunctionOnSet(w, U \ {x})
      /\ SumFunctionOnSet(v, U) = v[x] + SumFunctionOnSet(v, U \ {x})
  BY <1>6, SumTakesOut
<1>8. SumFunctionOnSet(w, U \ {x}) \in Nat /\ SumFunctionOnSet(v, U \ {x}) \in Nat
  BY <1>6, SumNat
<1>9. SumFunctionOnSet(w, U \ {x}) <= SumFunctionOnSet(v, U \ {x})
  BY <1>2, <1>3, <1>5
<1> QED
  BY <1>3, <1>7, <1>8, <1>9

(***************************************************************************)
(* Lines: a sum that is fresh is the sum of the lines as they are.         *)
(***************************************************************************)
FreshIsSum == \A c \in Sellers : seller[c].fresh => seller[c].sum = SumOfLines

\* A call that is to write to a line has read one.
ReadersRead == \A c \in Sellers : seller[c].step = "read" => seller[c].line \in Lines

LinesIInv == LinesInv /\ FreshIsSum /\ ReadersRead

LEMMA SumOfLinesNat == LinesTypeOK => SumOfLines \in Nat
<1> SUFFICES ASSUME LinesTypeOK PROVE SumOfLines \in Nat
  OBVIOUS
<1>1. PICK w : w = [l \in Lines |-> line[l].total]
  OBVIOUS
<1>2. IsFiniteSet(Present) /\ \A l \in Present : w[l] \in Nat
  <2>1. Present \in SUBSET Lines
    BY DEF Present
  <2>2. IsFiniteSet(Present)
    BY <2>1, LinesAssumption, FS_Subset
  <2>3. \A l \in Present : w[l] \in Nat
    BY <1>1, <2>1 DEF LinesTypeOK, LineRows, NoLineRow, None
  <2> QED
    BY <2>2, <2>3
<1> QED
  BY <1>1, <1>2, SumNat DEF SumOfLines

LEMMA LinesStart == LinesInit => LinesIInv
<1> SUFFICES ASSUME LinesInit PROVE LinesIInv
  OBVIOUS
<1>1. Present = {}
  BY DEF LinesInit, Present
<1>2. SumOfLines = 0
  BY <1>1, SumEmpty DEF SumOfLines
<1>3. IdleSeller \in SellerCalls /\ IdleSeller.step = "idle" /\ IdleSeller.fresh = FALSE
  BY DEF IdleSeller, SellerCalls, None, NoLineRow
<1>4. LinesTypeOK /\ \A c \in Sellers : seller[c] = IdleSeller
  BY <1>3 DEF LinesInit, LinesTypeOK, None
<1> QED
  BY <1>1, <1>2, <1>3, <1>4
  DEF LinesInit, LinesIInv, LinesInv, EstimateIsSum, TotalsAddUp, FreshIsSum, ReadersRead, None

\* A line is written that adds up, or is removed.
LEMMA WriteLineKeeps ==
  ASSUME LinesIInv, NEW c \in Sellers, NEW l \in Lines, NEW row, WriteLine(c, l, row),
         \/ row = NoLineRow
         \/ row \in LineRows /\ row.total = LineTotal(row.quantity, row.price)
  PROVE  LinesIInv'
<1>1. PICK w : w = [IdleSeller EXCEPT !.step = "wrote"]
  OBVIOUS
<1>2. w \in SellerCalls /\ w.step = "wrote" /\ w.fresh = FALSE
  BY <1>1 DEF IdleSeller, SellerCalls, None, NoLineRow
<1>3. seller' = [o \in Sellers |-> IF o = c THEN w ELSE [seller[o] EXCEPT !.fresh = FALSE]]
  BY <1>1 DEF WriteLine
<1>4. \A o \in Sellers : seller[o] \in SellerCalls
  BY DEF LinesIInv, LinesInv, LinesTypeOK
<1>5. \A o \in Sellers : o # c =>
        /\ seller'[o] \in SellerCalls /\ seller'[o].fresh = FALSE
        /\ seller'[o].step = seller[o].step /\ seller'[o].line = seller[o].line
  BY <1>3, <1>4 DEF SellerCalls
<1>6. seller'[c] = w
  BY <1>3
<1>7. seller' \in [Sellers -> SellerCalls]
  <2>1. \A o \in Sellers : seller'[o] \in SellerCalls
    BY <1>2, <1>5, <1>6
  <2> QED
    BY <1>3, <2>1
<1>8. line' = [line EXCEPT ![l] = row] /\ estimate' = estimate /\ adrift' = adrift
  BY DEF WriteLine
<1>9. LinesTypeOK'
  BY <1>7, <1>8 DEF LinesTypeOK, LinesIInv, LinesInv
<1>10. TotalsAddUp'
  BY <1>8 DEF TotalsAddUp, Present, LinesIInv, LinesInv, LinesTypeOK
<1>11. EstimateIsSum'
  BY <1>2, <1>6 DEF EstimateIsSum
<1>12. FreshIsSum' /\ ReadersRead'
  BY <1>2, <1>5, <1>6 DEF FreshIsSum, ReadersRead, LinesIInv
<1> QED
  BY <1>9, <1>10, <1>11, <1>12 DEF LinesIInv, LinesInv

\* What is written adds up.
LEMMA ItemAddsUp ==
  ASSUME NEW quantity \in Amounts, NEW price \in Amounts
  PROVE  /\ Item(quantity, price) \in LineRows
         /\ Item(quantity, price).total =
              LineTotal(Item(quantity, price).quantity, Item(quantity, price).price)
<1>1. quantity \in Nat /\ price \in Nat
  BY LinesAssumption
<1>2. quantity * price \in Nat
  BY <1>1
<1> QED
  BY <1>2 DEF Item, LineRows, LineTotal

\* The lines stay; a call changes, and the estimate with it.
LEMMA LinesStay ==
  ASSUME LinesIInv, NEW c \in Sellers, NEW k \in SellerCalls,
         line' = line, seller' = [seller EXCEPT ![c] = k],
         k.fresh => k.sum = SumOfLines, k.step = "read" => k.line \in Lines,
         estimate' \in Nat, adrift' \in BOOLEAN,
         EstimateIsSum'
  PROVE  LinesIInv'
<1>1. LinesTypeOK'
  BY DEF LinesIInv, LinesInv, LinesTypeOK
<1>2. SumOfLines' = SumOfLines /\ Present' = Present
  BY DEF SumOfLines, Present
<1>3. seller'[c] = k /\ \A o \in Sellers : o # c => seller'[o] = seller[o]
  BY DEF LinesIInv, LinesInv, LinesTypeOK
<1>4. TotalsAddUp' /\ FreshIsSum' /\ ReadersRead'
  BY <1>2, <1>3 DEF TotalsAddUp, FreshIsSum, ReadersRead, LinesIInv, LinesInv
<1> QED
  BY <1>1, <1>4 DEF LinesIInv, LinesInv

LEMMA LinesStep == LinesIInv /\ [LinesNext]_lineVars => LinesIInv'
<1> SUFFICES ASSUME LinesIInv, [LinesNext]_lineVars PROVE LinesIInv'
  OBVIOUS
<1>0. CASE UNCHANGED lineVars
  <2>1. line' = line /\ estimate' = estimate /\ seller' = seller /\ adrift' = adrift
    BY <1>0 DEF lineVars
  <2> QED
    BY <2>1 DEF LinesIInv, LinesInv, LinesTypeOK, EstimateIsSum, TotalsAddUp, FreshIsSum,
         ReadersRead, SumOfLines, Present
<1>a. SumOfLines \in Nat
  BY SumOfLinesNat DEF LinesIInv, LinesInv
<1>b. LinesTypeOK
  BY DEF LinesIInv, LinesInv
<1>c. line' = line => SumOfLines' = SumOfLines
  BY DEF SumOfLines, Present
<1>1. ASSUME NEW c \in Sellers, CreateLine(c) PROVE LinesIInv'
  <2>1. PICK l \in Lines, quantity \in Amounts, price \in Amounts :
          WriteLine(c, l, Item(quantity, price))
    BY <1>1 DEF CreateLine
  <2> QED
    BY <2>1, ItemAddsUp, WriteLineKeeps
<1>2. ASSUME NEW c \in Sellers, ReadLine(c) PROVE LinesIInv'
  <2>1. PICK l \in Present : seller' = [seller EXCEPT ![c] =
          [IdleSeller EXCEPT !.step = "read", !.line = l, !.row = line[l]]]
    BY <1>2 DEF ReadLine
  <2>2. PICK k : k = [IdleSeller EXCEPT !.step = "read", !.line = l, !.row = line[l]]
    OBVIOUS
  <2>3. k \in SellerCalls /\ k.step = "read" /\ k.line = l /\ k.fresh = FALSE /\ l \in Lines
    BY <1>b, <2>2 DEF IdleSeller, SellerCalls, None, NoLineRow, Present, LinesTypeOK
  <2>4. /\ seller' = [seller EXCEPT ![c] = k] /\ line' = line /\ estimate' = estimate
        /\ adrift' = adrift /\ seller[c].step = "idle"
    BY <1>2, <2>1, <2>2 DEF ReadLine
  <2>5. EstimateIsSum'
    BY <1>b, <1>c, <2>3, <2>4 DEF EstimateIsSum, LinesIInv, LinesInv, LinesTypeOK
  <2> QED
    BY <1>b, <2>3, <2>4, <2>5, LinesStay DEF LinesTypeOK
<1>3. ASSUME NEW c \in Sellers, UpdateLine(c) PROVE LinesIInv'
  <2>1. PICK quantity \in Amounts, price \in Amounts :
          WriteLine(c, seller[c].line, Item(quantity, price))
    BY <1>3 DEF UpdateLine, Updated
  <2>2. seller[c].line \in Lines
    BY <1>3 DEF UpdateLine, LinesIInv, ReadersRead
  <2> QED
    BY <2>1, <2>2, ItemAddsUp, WriteLineKeeps
<1>4. ASSUME NEW c \in Sellers, RemoveLine(c) PROVE LinesIInv'
  <2>1. seller[c].line \in Lines
    BY <1>4 DEF RemoveLine, LinesIInv, ReadersRead
  <2> QED
    BY <1>4, <2>1, WriteLineKeeps DEF RemoveLine
<1>5. ASSUME NEW c \in Sellers, AddUp(c) PROVE LinesIInv'
  <2>1. PICK k : k = [IdleSeller EXCEPT !.step = "summed", !.sum = SumOfLines, !.fresh = TRUE]
    OBVIOUS
  <2>2. k \in SellerCalls /\ k.step = "summed" /\ k.sum = SumOfLines
    BY <1>a, <2>1 DEF IdleSeller, SellerCalls, None, NoLineRow
  <2>3. /\ seller' = [seller EXCEPT ![c] = k] /\ line' = line /\ estimate' = estimate
        /\ adrift' = adrift
    BY <1>5, <2>1 DEF AddUp
  <2>4. EstimateIsSum'
    BY <1>b, <2>2, <2>3 DEF EstimateIsSum, LinesTypeOK
  <2> QED
    BY <1>b, <2>2, <2>3, <2>4, LinesStay DEF LinesTypeOK
<1>d. IdleSeller \in SellerCalls /\ IdleSeller.step = "idle" /\ IdleSeller.fresh = FALSE
  BY DEF IdleSeller, SellerCalls, None, NoLineRow
<1>6. ASSUME NEW c \in Sellers, WriteEstimate(c) PROVE LinesIInv'
  <2>1. /\ seller' = [seller EXCEPT ![c] = IdleSeller] /\ line' = line
        /\ estimate' = seller[c].sum /\ adrift' = ~seller[c].fresh
    BY <1>6 DEF WriteEstimate
  <2>2. estimate' \in Nat /\ adrift' \in BOOLEAN
    BY <1>b, <2>1 DEF LinesTypeOK, SellerCalls
  <2>3. EstimateIsSum'
    BY <1>c, <2>1 DEF EstimateIsSum, LinesIInv, FreshIsSum
  <2> QED
    BY <1>d, <2>1, <2>2, <2>3, LinesStay
<1>7. ASSUME NEW c \in Sellers, StopSelling(c) PROVE LinesIInv'
  <2>1. /\ seller' = [seller EXCEPT ![c] = IdleSeller] /\ line' = line /\ estimate' = estimate
        /\ adrift' = (adrift \/ seller[c].step \in {"wrote", "summed"})
    BY <1>7 DEF StopSelling
  <2>2. estimate' \in Nat /\ adrift' \in BOOLEAN
    BY <1>b, <2>1 DEF LinesTypeOK
  <2>3. EstimateIsSum'
    <3>1. SUFFICES ASSUME \A o \in Sellers : seller'[o].step \in {"idle", "read"}, ~adrift'
                   PROVE  estimate' = SumOfLines'
      BY DEF EstimateIsSum
    <3>2. ~adrift /\ seller[c].step \notin {"wrote", "summed"}
      BY <2>1, <3>1
    <3>3. \A o \in Sellers : o # c => seller[o].step \in {"idle", "read"}
      BY <1>b, <2>1, <3>1 DEF LinesTypeOK
    <3>4. seller[c].step \in {"idle", "read"}
      BY <1>b, <3>2 DEF LinesTypeOK, SellerCalls
    <3> QED
      BY <1>c, <2>1, <3>2, <3>3, <3>4 DEF EstimateIsSum, LinesIInv, LinesInv
  <2> QED
    BY <1>d, <2>1, <2>2, <2>3, LinesStay
<1>8. ASSUME EstimateByHand PROVE LinesIInv'
  <2>1. line' = line /\ seller' = seller /\ adrift' = TRUE /\ estimate' \in Nat
    BY <1>8, LinesAssumption DEF EstimateByHand
  <2>2. SumOfLines' = SumOfLines /\ Present' = Present
    BY <2>1 DEF SumOfLines, Present
  <2> QED
    BY <1>b, <2>1, <2>2 DEF LinesIInv, LinesInv, LinesTypeOK, EstimateIsSum, TotalsAddUp, FreshIsSum,
         ReadersRead
<1> QED
  BY <1>0, <1>1, <1>2, <1>3, <1>4, <1>5, <1>6, <1>7, <1>8 DEF LinesNext

\* Whoever writes, adds up, stops or types in a value in whatever order: once
\* no line waits to be added up the estimated value is the sum of the lines,
\* unless the last writer was a hand or an overtaken sum
\* (opportunity-line-items.service.ts:143, :518).
THEOREM LinesSafe == LinesSpec => []LinesInv
<1>1. LinesIInv => LinesInv
  BY DEF LinesIInv
<1> QED
  BY <1>1, LinesStart, LinesStep, PTL DEF LinesSpec

(***************************************************************************)
(* Archive of companies.  A failure, an overrun hold, a key used again or  *)
(* an opportunity behind a count puts the books of one company in doubt;   *)
(* those of all others stay regular, and add up.                           *)
(***************************************************************************)

\* What a company that is not archived adds to a metric, and what its hold does
LiveWeight(c, m) == IF archived[c] THEN 0 ELSE IF m = "COMPANIES" THEN 1 ELSE deals[c]
HeldWeight(c, m) == IF held[c][m].status = "RESERVED" THEN held[c][m].amount ELSE 0

\* A restore owns a hold of the company, and one of its opportunities.
Owns(a, c) ==
  /\ archivist[a].on = c
  /\ archivist[a].pc \in {"count", "deals", "write", "commit", "release"}
OwnsDeals(a, c) ==
  /\ archivist[a].on = c /\ archivist[a].pc \in {"write", "commit"} /\ archivist[a].amount > 0

\* The hold stands for a company that is still to come,
Awaits(a, c, m) ==
  /\ archivist[a].on = c
  /\ IF m = "COMPANIES" THEN archivist[a].pc \in {"count", "deals", "write"}
     ELSE archivist[a].pc = "write" /\ archivist[a].amount > 0
\* or for one that came and is not counted yet.
Backs(a, c, m) == archivist[a].on = c /\ archivist[a].pc = "commit" /\ m \in HeldBy(a)

Beyond(x, y) == IF x <= y THEN 0 ELSE x - y

\* What the usage has to count: what is there beyond the hold that backs it
Owing(c, m) ==
  IF \E a \in Archivists : Backs(a, c, m) THEN Beyond(LiveWeight(c, m), HeldWeight(c, m))
  ELSE LiveWeight(c, m)
\* What takes room: a company that is to come as much as one that is there
Claim(c, m) ==
  IF \E a \in Archivists : Awaits(a, c, m) THEN HeldWeight(c, m) ELSE LiveWeight(c, m)

SoleOwner(c) == \A a, b \in Archivists : Owns(a, c) /\ Owns(b, c) => a = b

HoldsInHand(a, c) ==
  /\ Owns(a, c) => held[c]["COMPANIES"] = [status |-> "RESERVED", amount |-> 1]
  /\ OwnsDeals(a, c) =>
       held[c]["OPPORTUNITIES"] = [status |-> "RESERVED", amount |-> archivist[a].amount]
  /\ archivist[a].on = c /\ archivist[a].pc \in {"deals", "write"} =>
       deals[c] <= archivist[a].amount
  /\ archivist[a].on = c /\ archivist[a].pc = "deals" => archivist[a].amount > 0
  /\ archivist[a].on = c /\ archivist[a].pc = "release" => archivist[a].todo = {"COMPANIES"}

HoldsHaveOwner(c) ==
  /\ held[c]["COMPANIES"].status = "RESERVED" => \E a \in Archivists : Owns(a, c)
  /\ held[c]["OPPORTUNITIES"].status = "RESERVED" => \E a \in Archivists : OwnsDeals(a, c)

Regular(c) ==
  SoleOwner(c) /\ (\A a \in Archivists : HoldsInHand(a, c)) /\ HoldsHaveOwner(c)

\* The books of all but the companies of E, a mishap each, are regular and add up.
Explained(E) ==
  /\ Cardinality(E) <= mishaps
  /\ \A c \in Accounts \ E : Regular(c)
  /\ \A m \in Counted :
       /\ SumFunctionOnSet([c \in Accounts |-> IF c \in E THEN 0 ELSE Owing(c, m)], Accounts)
            <= usage[m]
       /\ SumFunctionOnSet([c \in Accounts |-> IF c \in E THEN 0 ELSE Claim(c, m)], Accounts)
            <= Limit[m]

CallsHaveCompany == \A a \in Archivists : archivist[a].on = NoAccount <=> archivist[a].pc = "idle"

ArchiveIInv ==
  ArchiveTypeOK /\ CallsHaveCompany /\ \E E \in SUBSET Accounts : Explained(E)

-----------------------------------------------------------------------------
\* Sums as they are used here

LEMMA SumShifts ==
  ASSUME NEW S, IsFiniteSet(S), NEW w, NEW v, NEW x \in S, NEW d \in Nat,
         \A y \in S : w[y] \in Nat /\ v[y] \in Nat /\ v[y] <= w[y] + (IF y = x THEN d ELSE 0)
  PROVE  SumFunctionOnSet(v, S) <= SumFunctionOnSet(w, S) + d
<1>1. IsFiniteSet(S \ {x})
  BY FS_Subset
<1>2. /\ SumFunctionOnSet(w, S) = w[x] + SumFunctionOnSet(w, S \ {x})
      /\ SumFunctionOnSet(v, S) = v[x] + SumFunctionOnSet(v, S \ {x})
  BY SumTakesOut
<1>3. SumFunctionOnSet(w, S \ {x}) \in Nat /\ SumFunctionOnSet(v, S \ {x}) \in Nat
  BY <1>1, SumNat
<1>4. SumFunctionOnSet(v, S \ {x}) <= SumFunctionOnSet(w, S \ {x})
  <2>1. \A y \in S \ {x} : w[y] \in Nat /\ v[y] \in Nat /\ v[y] <= w[y]
    OBVIOUS
  <2> QED
    BY <1>1, <2>1, SumBounds
<1>5. w[x] \in Nat /\ v[x] \in Nat /\ v[x] <= w[x] + d
  OBVIOUS
<1> QED
  BY <1>2, <1>3, <1>4, <1>5

\* Two weights added up at once
LEMMA SumAdds ==
  ASSUME NEW S, IsFiniteSet(S), NEW w, NEW v, NEW u,
         \A x \in S : w[x] \in Nat /\ v[x] \in Nat /\ u[x] = w[x] + v[x]
  PROVE  SumFunctionOnSet(u, S) = SumFunctionOnSet(w, S) + SumFunctionOnSet(v, S)
<1> DEFINE Bad == {n \in Nat : \E U \in SUBSET S : /\ Cardinality(U) = n
       /\ SumFunctionOnSet(u, U) # SumFunctionOnSet(w, U) + SumFunctionOnSet(v, U)}
<1> SUFFICES ASSUME SumFunctionOnSet(u, S) # SumFunctionOnSet(w, S) + SumFunctionOnSet(v, S)
             PROVE  FALSE
  OBVIOUS
<1>1. Bad # {}
  BY FS_CardinalityType
<1>2. PICK n \in Bad : \A m \in Bad : n <= m
  BY <1>1, LeastNat
<1>3. PICK U \in SUBSET S : /\ Cardinality(U) = n
       /\ SumFunctionOnSet(u, U) # SumFunctionOnSet(w, U) + SumFunctionOnSet(v, U)
  OBVIOUS
<1>4. PICK x \in U : TRUE
  <2>1. /\ SumFunctionOnSet(u, {}) = 0 /\ SumFunctionOnSet(w, {}) = 0
        /\ SumFunctionOnSet(v, {}) = 0
    BY SumEmpty
  <2>2. U # {}
    BY <1>3, <2>1
  <2> QED
    BY <2>2
<1>5. /\ Cardinality(U \ {x}) \in Nat /\ Cardinality(U) \in Nat
      /\ Cardinality(U \ {x}) < Cardinality(U)
  BY PartCardinality
<1>6. IsFiniteSet(U) /\ IsFiniteSet(U \ {x}) /\ \A y \in S : u[y] \in Nat
  BY FS_Subset
<1>7. /\ SumFunctionOnSet(w, U) = w[x] + SumFunctionOnSet(w, U \ {x})
      /\ SumFunctionOnSet(v, U) = v[x] + SumFunctionOnSet(v, U \ {x})
      /\ SumFunctionOnSet(u, U) = u[x] + SumFunctionOnSet(u, U \ {x})
  BY <1>6, SumTakesOut
<1>8. SumFunctionOnSet(w, U \ {x}) \in Nat /\ SumFunctionOnSet(v, U \ {x}) \in Nat
  BY <1>6, SumNat
<1>9. SumFunctionOnSet(u, U \ {x})
        = SumFunctionOnSet(w, U \ {x}) + SumFunctionOnSet(v, U \ {x})
  BY <1>2, <1>3, <1>5
<1> QED
  BY <1>3, <1>7, <1>8, <1>9

\* A weight of at most k each
LEMMA SumOfAtMost ==
  ASSUME NEW S, IsFiniteSet(S), NEW w, NEW k \in Nat, \A x \in S : w[x] \in Nat /\ w[x] <= k
  PROVE  SumFunctionOnSet(w, S) <= k * Cardinality(S)
<1> DEFINE Bad == {n \in Nat : \E U \in SUBSET S : /\ Cardinality(U) = n
                      /\ ~(SumFunctionOnSet(w, U) <= k * n)}
<1> SUFFICES ASSUME ~(SumFunctionOnSet(w, S) <= k * Cardinality(S)) PROVE FALSE
  OBVIOUS
<1>1. Bad # {}
  BY FS_CardinalityType
<1>2. PICK n \in Bad : \A m \in Bad : n <= m
  BY <1>1, LeastNat
<1>3. PICK U \in SUBSET S : Cardinality(U) = n /\ ~(SumFunctionOnSet(w, U) <= k * n)
  OBVIOUS
<1>4. PICK x \in U : TRUE
  <2>1. Cardinality({}) = 0 /\ SumFunctionOnSet(w, {}) = 0
    BY FS_EmptySet, SumEmpty
  <2>2. k * 0 = 0
    OBVIOUS
  <2>3. CASE U = {}
    <3>1. n = 0 /\ SumFunctionOnSet(w, U) = 0
      BY <1>3, <2>1, <2>3
    <3>2. ~(0 <= k * 0)
      BY <1>3, <3>1
    <3> QED
      BY <2>2, <3>2
  <2> QED
    BY <2>3
<1>5. IsFiniteSet(U)
  BY FS_Subset
<1>6. IsFiniteSet(U \ {x}) /\ Cardinality(U \ {x}) = n - 1 /\ n - 1 \in Nat /\ n \in Nat
  <2>1. IsFiniteSet(U \ {x}) /\ Cardinality(U \ {x}) = n - 1
    BY <1>3, <1>5, FS_RemoveElement
  <2> QED
    BY <1>2, <2>1, FS_CardinalityType
<1>7. SumFunctionOnSet(w, U) = w[x] + SumFunctionOnSet(w, U \ {x})
  BY <1>5, SumTakesOut
<1>8. SumFunctionOnSet(w, U \ {x}) \in Nat
  BY <1>6, SumNat
<1>9. SumFunctionOnSet(w, U \ {x}) <= k * (n - 1)
  <2>1. n - 1 \notin Bad
    BY <1>2, <1>6
  <2> QED
    BY <1>3, <1>6, <2>1
<1>10. k * (n - 1) + k = k * n
  BY <1>6
<1>11. k * (n - 1) \in Nat /\ k * n \in Nat /\ w[x] \in Nat /\ w[x] <= k
  BY <1>6
<1> HIDE DEF Bad
<1> QED
  BY <1>3, <1>7, <1>8, <1>9, <1>10, <1>11

\* Elements that weigh one each are counted.
LEMMA SumOfOnes ==
  ASSUME NEW S, IsFiniteSet(S), NEW w, \A x \in S : w[x] = 1
  PROVE  SumFunctionOnSet(w, S) = Cardinality(S)
<1> DEFINE Bad == {n \in Nat : \E U \in SUBSET S : /\ Cardinality(U) = n
                      /\ SumFunctionOnSet(w, U) # n}
<1> SUFFICES ASSUME SumFunctionOnSet(w, S) # Cardinality(S) PROVE FALSE
  OBVIOUS
<1>1. Bad # {}
  BY FS_CardinalityType
<1>2. PICK n \in Bad : \A m \in Bad : n <= m
  BY <1>1, LeastNat
<1>3. PICK U \in SUBSET S : Cardinality(U) = n /\ SumFunctionOnSet(w, U) # n
  OBVIOUS
<1>4. PICK x \in U : TRUE
  BY <1>3, SumEmpty, FS_EmptySet
<1>5. IsFiniteSet(U)
  BY FS_Subset
<1>6. IsFiniteSet(U \ {x}) /\ Cardinality(U \ {x}) = n - 1 /\ n - 1 \in Nat /\ n \in Nat
  <2>1. IsFiniteSet(U \ {x}) /\ Cardinality(U \ {x}) = n - 1
    BY <1>3, <1>5, FS_RemoveElement
  <2> QED
    BY <1>2, <2>1, FS_CardinalityType
<1>7. SumFunctionOnSet(w, U) = w[x] + SumFunctionOnSet(w, U \ {x})
  BY <1>5, SumTakesOut
<1>8. SumFunctionOnSet(w, U \ {x}) = n - 1
  <2>1. n - 1 \notin Bad
    BY <1>2, <1>6
  <2> QED
    BY <1>6, <2>1
<1> HIDE DEF Bad
<1> QED
  BY <1>3, <1>6, <1>7, <1>8

LEMMA ArchiveTypes ==
  ASSUME ArchiveTypeOK
  PROVE  /\ \A c \in Accounts : archived[c] \in BOOLEAN /\ deals[c] \in Nat
         /\ \A c \in Accounts, m \in Counted :
              /\ held[c][m].amount \in Nat
              /\ held[c][m].status \in {"NONE", "RESERVED", "COMMITTED", "RELEASED", "EXPIRED"}
              /\ held[c][m] \in CompanyHold
         /\ \A m \in Counted : usage[m] \in Nat
         /\ \A a \in Archivists : archivist[a] \in ArchiveCalls
BY DEF ArchiveTypeOK, CompanyHold, ArchiveCalls

\* Weights are numbers.
LEMMA WeightsNat ==
  ASSUME ArchiveTypeOK, NEW c \in Accounts, NEW m \in Counted
  PROVE  /\ LiveWeight(c, m) \in Nat /\ HeldWeight(c, m) \in Nat
         /\ Owing(c, m) \in Nat /\ Claim(c, m) \in Nat
<1>1. LiveWeight(c, m) \in Nat /\ HeldWeight(c, m) \in Nat
  BY ArchiveTypes DEF LiveWeight, HeldWeight
<1>2. Beyond(LiveWeight(c, m), HeldWeight(c, m)) \in Nat
  BY <1>1 DEF Beyond
<1> QED
  BY <1>1, <1>2 DEF Owing, Claim

\* Of a metric: what is there, and what is held
LEMMA InventoryIsSum ==
  ASSUME ArchiveTypeOK, NEW m \in Counted
  PROVE  Inventory(m) = SumFunctionOnSet([c \in Accounts |-> LiveWeight(c, m)], Accounts)
<1>1. PICK w : w = [c \in Accounts |-> LiveWeight(c, m)]
  OBVIOUS
<1>2. IsFiniteSet(Accounts) /\ Live \in SUBSET Accounts /\ \A c \in Accounts : w[c] \in Nat
  BY <1>1, ArchiveAssumption, WeightsNat DEF Live
<1>3. \A c \in Accounts \ Live : w[c] = 0
  BY <1>1 DEF Live, LiveWeight
<1>4. SumFunctionOnSet(w, Accounts) = SumFunctionOnSet(w, Live)
  BY <1>2, <1>3, SumSparse
<1>5. IsFiniteSet(Live)
  BY <1>2, FS_Subset
<1>6. CASE m = "COMPANIES"
  <2>1. \A c \in Live : w[c] = 1
    BY <1>1, <1>6 DEF Live, LiveWeight
  <2>2. SumFunctionOnSet(w, Live) = Cardinality(Live)
    BY <1>5, <2>1, SumOfOnes
  <2> QED
    BY <1>1, <1>4, <1>6, <2>2 DEF Inventory
<1>7. CASE m = "OPPORTUNITIES"
  <2>1. \A c \in Live : w[c] \in Nat /\ deals[c] = w[c]
    BY <1>1, <1>2, <1>7 DEF Live, LiveWeight
  <2>2. SumFunctionOnSet(deals, Live) = SumFunctionOnSet(w, Live)
    BY <1>5, <2>1, SumSame
  <2> QED
    BY <1>1, <1>4, <1>7, <2>2 DEF Inventory
<1> QED
  BY <1>6, <1>7 DEF Counted

LEMMA HeldIsSum ==
  ASSUME ArchiveTypeOK, NEW m \in Counted
  PROVE  HeldOf(m) = SumFunctionOnSet([c \in Accounts |-> HeldWeight(c, m)], Accounts)
<1>1. PICK w : w = [c \in Accounts |-> HeldWeight(c, m)]
  OBVIOUS
<1>2. PICK v : v = [c \in Accounts |-> held[c][m].amount]
  OBVIOUS
<1>3. PICK T : T = {c \in Accounts : held[c][m].status = "RESERVED"}
  OBVIOUS
<1>4. IsFiniteSet(Accounts) /\ T \in SUBSET Accounts /\ \A c \in Accounts : w[c] \in Nat
  BY <1>1, <1>3, ArchiveAssumption, WeightsNat
<1>5. \A c \in Accounts \ T : w[c] = 0
  BY <1>1, <1>3 DEF HeldWeight
<1>6. SumFunctionOnSet(w, Accounts) = SumFunctionOnSet(w, T)
  BY <1>4, <1>5, SumSparse
<1>7. IsFiniteSet(T)
  BY <1>4, FS_Subset
<1>8. \A c \in T : w[c] \in Nat /\ v[c] = w[c]
  BY <1>1, <1>2, <1>3, <1>4 DEF HeldWeight
<1>9. SumFunctionOnSet(v, T) = SumFunctionOnSet(w, T)
  BY <1>7, <1>8, SumSame
<1> QED
  BY <1>1, <1>2, <1>3, <1>6, <1>9 DEF HeldOf

LEMMA MetricsNat ==
  ASSUME ArchiveTypeOK, NEW m \in Counted
  PROVE  /\ Inventory(m) \in Nat /\ HeldOf(m) \in Nat /\ usage[m] \in Nat /\ Limit[m] \in Nat
<1>1. IsFiniteSet(Accounts) /\ Limit[m] \in Nat /\ usage[m] \in Nat
  BY ArchiveAssumption, ArchiveTypes DEF Counted
<1>2. SumFunctionOnSet([c \in Accounts |-> LiveWeight(c, m)], Accounts) \in Nat
  BY <1>1, WeightsNat, SumNat
<1>3. SumFunctionOnSet([c \in Accounts |-> HeldWeight(c, m)], Accounts) \in Nat
  BY <1>1, WeightsNat, SumNat
<1> QED
  BY <1>1, <1>2, <1>3, InventoryIsSum, HeldIsSum

\* What takes room is counted or held.
LEMMA ClaimsCounted ==
  ASSUME ArchiveTypeOK, NEW E \in SUBSET Accounts, Explained(E), NEW m \in Counted
  PROVE  SumFunctionOnSet([c \in Accounts |-> IF c \in E THEN 0 ELSE Claim(c, m)], Accounts)
           <= usage[m] + HeldOf(m)
<1>1. PICK w : w = [c \in Accounts |-> IF c \in E THEN 0 ELSE Owing(c, m)]
  OBVIOUS
<1>2. PICK v : v = [c \in Accounts |-> HeldWeight(c, m)]
  OBVIOUS
<1>3. PICK u : u = [c \in Accounts |-> w[c] + v[c]]
  OBVIOUS
<1>4. PICK z : z = [c \in Accounts |-> IF c \in E THEN 0 ELSE Claim(c, m)]
  OBVIOUS
<1>5. IsFiniteSet(Accounts)
  BY ArchiveAssumption
<1>6. \A c \in Accounts : w[c] \in Nat /\ v[c] \in Nat /\ z[c] \in Nat
  BY <1>1, <1>2, <1>4, WeightsNat
<1>7. \A c \in Accounts : u[c] = w[c] + v[c] /\ u[c] \in Nat
  BY <1>3, <1>6
<1>8. ASSUME NEW c \in Accounts PROVE z[c] <= u[c]
  <2>1. /\ LiveWeight(c, m) \in Nat /\ HeldWeight(c, m) \in Nat
        /\ Owing(c, m) \in Nat /\ Claim(c, m) \in Nat
    BY WeightsNat
  <2>2. Claim(c, m) <= Owing(c, m) + HeldWeight(c, m)
    BY <2>1 DEF Claim, Owing, Beyond
  <2> QED
    BY <1>1, <1>2, <1>4, <1>7, <2>1, <2>2
<1>9. SumFunctionOnSet(z, Accounts) <= SumFunctionOnSet(u, Accounts)
  BY <1>5, <1>6, <1>7, <1>8, SumBounds
<1>10. SumFunctionOnSet(u, Accounts)
         = SumFunctionOnSet(w, Accounts) + SumFunctionOnSet(v, Accounts)
  BY <1>5, <1>6, <1>7, SumAdds
<1>11. SumFunctionOnSet(w, Accounts) <= usage[m]
  BY <1>1 DEF Explained
<1>12. SumFunctionOnSet(v, Accounts) = HeldOf(m)
  BY <1>2, HeldIsSum
<1>13. /\ SumFunctionOnSet(w, Accounts) \in Nat /\ SumFunctionOnSet(v, Accounts) \in Nat
       /\ SumFunctionOnSet(z, Accounts) \in Nat /\ usage[m] \in Nat
  BY <1>5, <1>6, SumNat, MetricsNat
<1> QED
  BY <1>4, <1>9, <1>10, <1>11, <1>12, <1>13

\* A step keeps the books when those outside F are regular after it, what is due
\* grows by what is counted, or all is counted anew, and what takes more room
\* was found to fit.
LEMMA BooksKept ==
  ASSUME ArchiveTypeOK, ArchiveTypeOK',
         NEW E \in SUBSET Accounts, Explained(E), NEW F \in SUBSET Accounts, E \subseteq F,
         Cardinality(F) <= mishaps',
         \A c \in Accounts \ F : Regular(c)',
         NEW x \in Accounts, NEW du \in [Counted -> Nat], NEW dc \in [Counted -> Nat],
         \A c \in Accounts \ F, m \in Counted :
           Claim(c, m)' <= Claim(c, m) + (IF c = x THEN dc[m] ELSE 0),
         \A m \in Counted : dc[m] = 0 \/ usage[m] + HeldOf(m) + dc[m] <= Limit[m],
         \A m \in Counted :
           \/ /\ usage'[m] >= usage[m] + du[m]
              /\ \A c \in Accounts \ F :
                   Owing(c, m)' <= Owing(c, m) + (IF c = x THEN du[m] ELSE 0)
           \/ SumFunctionOnSet([c \in Accounts |-> LiveWeight(c, m)'], Accounts) <= usage'[m]
  PROVE  Explained(F)'
<1>0. IsFiniteSet(Accounts)
  BY ArchiveAssumption
<1>1. ASSUME NEW c \in Accounts, NEW m \in Counted
      PROVE  /\ LiveWeight(c, m)' \in Nat /\ HeldWeight(c, m)' \in Nat
             /\ Owing(c, m)' \in Nat /\ Claim(c, m)' \in Nat
             /\ Owing(c, m)' <= LiveWeight(c, m)'
  <2>1. LiveWeight(c, m)' \in Nat /\ HeldWeight(c, m)' \in Nat
    BY DEF LiveWeight, HeldWeight, ArchiveTypeOK, CompanyHold
  <2> QED
    BY <2>1 DEF Owing, Claim, Beyond
<1>2. ASSUME NEW m \in Counted
      PROVE  SumFunctionOnSet([c \in Accounts |-> IF c \in F THEN 0 ELSE Claim(c, m)'], Accounts)
               <= Limit[m]
  <2>1. PICK w : w = [c \in Accounts |-> IF c \in E THEN 0 ELSE Claim(c, m)]
    OBVIOUS
  <2>2. PICK v : v = [c \in Accounts |-> IF c \in F THEN 0 ELSE Claim(c, m)']
    OBVIOUS
  <2>3. dc[m] \in Nat
    OBVIOUS
  <2>4. \A y \in Accounts : w[y] \in Nat /\ v[y] \in Nat
    BY <1>1, <2>1, <2>2, WeightsNat
  <2>5. \A y \in Accounts : v[y] <= w[y] + (IF y = x THEN dc[m] ELSE 0)
    BY <2>1, <2>2, <2>3, <2>4
  <2>6. SumFunctionOnSet(v, Accounts) <= SumFunctionOnSet(w, Accounts) + dc[m]
    BY <1>0, <2>3, <2>4, <2>5, SumShifts
  <2>7. SumFunctionOnSet(w, Accounts) <= Limit[m]
    BY <2>1 DEF Explained
  <2>8. SumFunctionOnSet(w, Accounts) <= usage[m] + HeldOf(m)
    BY <2>1, ClaimsCounted
  <2>9. /\ SumFunctionOnSet(w, Accounts) \in Nat /\ SumFunctionOnSet(v, Accounts) \in Nat
        /\ usage[m] \in Nat /\ HeldOf(m) \in Nat /\ Limit[m] \in Nat
    BY <1>0, <2>4, SumNat, MetricsNat
  <2>10. SumFunctionOnSet(v, Accounts) <= Limit[m]
    <3>1. CASE dc[m] = 0
      BY <2>6, <2>7, <2>9, <3>1
    <3>2. CASE usage[m] + HeldOf(m) + dc[m] <= Limit[m]
      BY <2>3, <2>6, <2>8, <2>9, <3>2
    <3> QED
      BY <3>1, <3>2
  <2> QED
    BY <2>2, <2>10
<1>3. ASSUME NEW m \in Counted
      PROVE  SumFunctionOnSet([c \in Accounts |-> IF c \in F THEN 0 ELSE Owing(c, m)'], Accounts)
               <= usage'[m]
  <2>1. PICK w : w = [c \in Accounts |-> IF c \in E THEN 0 ELSE Owing(c, m)]
    OBVIOUS
  <2>2. PICK v : v = [c \in Accounts |-> IF c \in F THEN 0 ELSE Owing(c, m)']
    OBVIOUS
  <2>3. PICK u : u = [c \in Accounts |-> LiveWeight(c, m)']
    OBVIOUS
  <2>4. du[m] \in Nat /\ usage[m] \in Nat /\ usage'[m] \in Nat
    BY DEF ArchiveTypeOK
  <2>5. \A y \in Accounts : w[y] \in Nat /\ v[y] \in Nat /\ u[y] \in Nat
    BY <1>1, <2>1, <2>2, <2>3, WeightsNat
  <2>6. /\ SumFunctionOnSet(w, Accounts) \in Nat /\ SumFunctionOnSet(v, Accounts) \in Nat
        /\ SumFunctionOnSet(u, Accounts) \in Nat
    BY <1>0, <2>5, SumNat
  <2>7. SumFunctionOnSet(w, Accounts) <= usage[m]
    BY <2>1 DEF Explained
  <2>8. SumFunctionOnSet(v, Accounts) <= usage'[m]
    <3>1. CASE /\ usage'[m] >= usage[m] + du[m]
               /\ \A c \in Accounts \ F :
                    Owing(c, m)' <= Owing(c, m) + (IF c = x THEN du[m] ELSE 0)
      <4>1. \A y \in Accounts : v[y] <= w[y] + (IF y = x THEN du[m] ELSE 0)
        BY <2>1, <2>2, <2>4, <2>5, <3>1
      <4>2. SumFunctionOnSet(v, Accounts) <= SumFunctionOnSet(w, Accounts) + du[m]
        BY <1>0, <2>4, <2>5, <4>1, SumShifts
      <4> QED
        BY <2>4, <2>6, <2>7, <3>1, <4>2
    <3>2. CASE SumFunctionOnSet(u, Accounts) <= usage'[m]
      <4>1. \A y \in Accounts : v[y] <= u[y]
        BY <1>1, <2>2, <2>3, <2>5
      <4>2. SumFunctionOnSet(v, Accounts) <= SumFunctionOnSet(u, Accounts)
        BY <1>0, <2>5, <4>1, SumBounds
      <4> QED
        BY <2>4, <2>6, <3>2, <4>2
    <3> QED
      BY <2>3, <3>1, <3>2
  <2> QED
    BY <2>2, <2>8
<1> QED
  BY <1>2, <1>3 DEF Explained

\* A step that does not concern a company leaves its books as they are.
Unconcerned(c) ==
  /\ archived'[c] = archived[c] /\ deals'[c] = deals[c] /\ held'[c] = held[c]
  /\ \A a \in Archivists :
       archivist[a].on = c \/ archivist'[a].on = c => archivist'[a] = archivist[a]

LEMMA UnconcernedKept ==
  ASSUME NEW c \in Accounts, Unconcerned(c)
  PROVE  /\ Regular(c) => Regular(c)'
         /\ \A m \in Counted : Owing(c, m)' = Owing(c, m) /\ Claim(c, m)' = Claim(c, m)
<1>1. \A a \in Archivists : (Owns(a, c)' <=> Owns(a, c)) /\ (OwnsDeals(a, c)' <=> OwnsDeals(a, c))
  BY DEF Unconcerned, Owns, OwnsDeals
<1>2. ASSUME NEW a \in Archivists, HoldsInHand(a, c) PROVE HoldsInHand(a, c)'
  <2>1. CASE archivist'[a].on = c
    <3>1. archivist'[a] = archivist[a] /\ held'[c] = held[c] /\ deals'[c] = deals[c]
      BY <2>1 DEF Unconcerned
    <3> QED
      BY <1>1, <1>2, <3>1 DEF HoldsInHand
  <2>2. CASE archivist'[a].on # c
    BY <2>2 DEF HoldsInHand, Owns, OwnsDeals
  <2> QED
    BY <2>1, <2>2
<1>3. Regular(c) => Regular(c)'
  BY <1>1, <1>2 DEF Regular, SoleOwner, HoldsHaveOwner, Unconcerned
<1>4. \A m \in Counted : /\ LiveWeight(c, m)' = LiveWeight(c, m)
                         /\ HeldWeight(c, m)' = HeldWeight(c, m)
  BY DEF Unconcerned, LiveWeight, HeldWeight
<1>5. \A a \in Archivists, m \in Counted :
        (Awaits(a, c, m)' <=> Awaits(a, c, m)) /\ (Backs(a, c, m)' <=> Backs(a, c, m))
  BY DEF Unconcerned, Awaits, Backs, HeldBy
<1>6. \A m \in Counted : Owing(c, m)' = Owing(c, m) /\ Claim(c, m)' = Claim(c, m)
  BY <1>4, <1>5 DEF Owing, Claim
<1> QED
  BY <1>3, <1>6

LEMMA TurnConcernsOne ==
  ASSUME ArchiveTypeOK, NEW a \in Archivists, NEW c \in Accounts, NEW k,
         archivist' = [archivist EXCEPT ![a] = k],
         archivist[a].on \in {c, NoAccount}, k.on \in {c, NoAccount},
         \A x \in Accounts \ {c} :
           archived'[x] = archived[x] /\ deals'[x] = deals[x] /\ held'[x] = held[x]
  PROVE  \A x \in Accounts \ {c} : Unconcerned(x)
BY ArchiveAssumption DEF Unconcerned, ArchiveTypeOK

\* With a mishap the books of the company it befalls are given up.
LEMMA MishapKept ==
  ASSUME ArchiveTypeOK, ArchiveTypeOK', NEW E \in SUBSET Accounts, Explained(E),
         NEW c \in Accounts, \A x \in Accounts \ {c} : Unconcerned(x),
         mishaps' = mishaps + 1, \A m \in Counted : usage'[m] >= usage[m]
  PROVE  \E F \in SUBSET Accounts : Explained(F)'
<1>1. PICK F : F = E \cup {c}
  OBVIOUS
<1>2. F \in SUBSET Accounts /\ E \subseteq F
  BY <1>1
<1>3. Cardinality(F) <= mishaps'
  <2>1. IsFiniteSet(E)
    BY ArchiveAssumption, FS_Subset
  <2>2. Cardinality(F) = (IF c \in E THEN Cardinality(E) ELSE Cardinality(E) + 1)
    BY <1>1, <2>1, FS_AddElement
  <2>3. Cardinality(E) \in Nat /\ Cardinality(E) <= mishaps /\ mishaps \in Nat
    BY <2>1, FS_CardinalityType, ArchiveAssumption DEF Explained, ArchiveTypeOK
  <2> QED
    BY <2>2, <2>3
<1>4. PICK no : no = [m \in Counted |-> 0]
  OBVIOUS
<1>5. no \in [Counted -> Nat] /\ \A m \in Counted : no[m] = 0
  BY <1>4
<1>6. \A x \in Accounts \ F : Unconcerned(x) /\ Regular(x)
  BY <1>1 DEF Explained
<1>7. \A x \in Accounts \ F :
        Regular(x)' /\ \A m \in Counted : Owing(x, m)' = Owing(x, m) /\ Claim(x, m)' = Claim(x, m)
  BY <1>6, UnconcernedKept
<1>8. \A x \in Accounts, m \in Counted : Owing(x, m) \in Nat /\ Claim(x, m) \in Nat
  BY WeightsNat
<1>9. \A x \in Accounts \ F, m \in Counted :
        Claim(x, m)' <= Claim(x, m) + (IF x = c THEN no[m] ELSE 0)
  BY <1>5, <1>7, <1>8
<1>10. \A m \in Counted :
         /\ usage'[m] >= usage[m] + no[m]
         /\ \A x \in Accounts \ F : Owing(x, m)' <= Owing(x, m) + (IF x = c THEN no[m] ELSE 0)
  <2>1. \A m \in Counted : usage[m] \in Nat /\ usage'[m] \in Nat
    BY DEF ArchiveTypeOK
  <2> QED
    BY <1>5, <1>7, <1>8, <2>1
<1>11. Explained(F)'
  BY <1>2, <1>3, <1>5, <1>7, <1>9, <1>10, BooksKept
<1> QED
  BY <1>2, <1>11

\* Without one, the books of the company the step concerns stay regular.
LEMMA RegularKept ==
  ASSUME ArchiveTypeOK, ArchiveTypeOK', NEW E \in SUBSET Accounts, Explained(E),
         NEW c \in Accounts, \A x \in Accounts \ {c} : Unconcerned(x),
         mishaps' = mishaps, c \notin E => Regular(c)',
         NEW du \in [Counted -> Nat], NEW dc \in [Counted -> Nat],
         \A m \in Counted : dc[m] = 0 \/ usage[m] + HeldOf(m) + dc[m] <= Limit[m],
         c \notin E => \A m \in Counted : Claim(c, m)' <= Claim(c, m) + dc[m],
         \A m \in Counted :
           \/ usage'[m] >= usage[m] + du[m] /\ (c \notin E => Owing(c, m)' <= Owing(c, m) + du[m])
           \/ SumFunctionOnSet([x \in Accounts |-> LiveWeight(x, m)'], Accounts) <= usage'[m]
  PROVE  Explained(E)'
<1>1. \A x \in Accounts \ E : x # c => Unconcerned(x) /\ Regular(x)
  BY DEF Explained
<1>2. \A x \in Accounts \ E : x # c =>
        Regular(x)' /\ \A m \in Counted : Owing(x, m)' = Owing(x, m) /\ Claim(x, m)' = Claim(x, m)
  BY <1>1, UnconcernedKept
<1>3. \A x \in Accounts, m \in Counted : Owing(x, m) \in Nat /\ Claim(x, m) \in Nat
  BY WeightsNat
<1>4. \A x \in Accounts \ E : Regular(x)'
  BY <1>2
<1>5. \A x \in Accounts \ E, m \in Counted :
        Claim(x, m)' <= Claim(x, m) + (IF x = c THEN dc[m] ELSE 0)
  BY <1>2, <1>3
<1>6. \A m \in Counted :
        \/ /\ usage'[m] >= usage[m] + du[m]
           /\ \A x \in Accounts \ E : Owing(x, m)' <= Owing(x, m) + (IF x = c THEN du[m] ELSE 0)
        \/ SumFunctionOnSet([x \in Accounts |-> LiveWeight(x, m)'], Accounts) <= usage'[m]
  BY <1>2, <1>3
<1>7. Cardinality(E) <= mishaps'
  BY DEF Explained
<1> QED
  BY <1>4, <1>5, <1>6, <1>7, BooksKept

\* The same when nothing is counted and no more room is taken
LEMMA QuietlyKept ==
  ASSUME ArchiveTypeOK, ArchiveTypeOK', NEW E \in SUBSET Accounts, Explained(E),
         NEW c \in Accounts, \A x \in Accounts \ {c} : Unconcerned(x),
         mishaps' = mishaps, usage' = usage,
         c \notin E => /\ Regular(c)'
                       /\ \A m \in Counted : /\ Owing(c, m)' <= Owing(c, m)
                                             /\ Claim(c, m)' <= Claim(c, m)
  PROVE  Explained(E)'
<1>1. PICK no : no = [m \in Counted |-> 0]
  OBVIOUS
<1>2. no \in [Counted -> Nat] /\ \A m \in Counted : no[m] = 0
  BY <1>1
<1>3. \A m \in Counted : Owing(c, m) \in Nat /\ Claim(c, m) \in Nat /\ usage[m] \in Nat
  BY WeightsNat DEF ArchiveTypeOK
<1>4. \A m \in Counted :
        \/ usage'[m] >= usage[m] + no[m] /\ (c \notin E => Owing(c, m)' <= Owing(c, m) + no[m])
        \/ SumFunctionOnSet([x \in Accounts |-> LiveWeight(x, m)'], Accounts) <= usage'[m]
  BY <1>2, <1>3
<1>5. c \notin E => \A m \in Counted : Claim(c, m)' <= Claim(c, m) + no[m]
  BY <1>2, <1>3
<1> QED
  BY <1>2, <1>4, <1>5, RegularKept

\* A turn of a call keeps the types.
LEMMA TurnTypes ==
  ASSUME ArchiveTypeOK, CallsHaveCompany, NEW a \in Archivists, NEW k \in ArchiveCalls,
         k.on = NoAccount <=> k.pc = "idle", archivist' = [archivist EXCEPT ![a] = k],
         archived' \in [Accounts -> BOOLEAN], deals' = deals, usage' \in [Counted -> Nat],
         held' \in [Accounts -> [Counted -> CompanyHold]], mishaps' \in 0..MaxMishaps
  PROVE  /\ ArchiveTypeOK' /\ CallsHaveCompany'
         /\ archivist'[a] = k /\ \A b \in Archivists \ {a} : archivist'[b] = archivist[b]
BY DEF ArchiveTypeOK, CallsHaveCompany

\* The calls that hold nothing
Bare == {"idle", "archive", "recount", "reserve"}

LEMMA BareTurn ==
  ASSUME ArchiveTypeOK, NEW a \in Archivists, NEW k,
         archivist[a].pc \in Bare, k.pc \in Bare,
         archivist'[a] = k, \A b \in Archivists \ {a} : archivist'[b] = archivist[b],
         held' = held, deals' = deals, NEW c \in Accounts, archived[c] => archived'[c],
         archived'[c] \in BOOLEAN
  PROVE  /\ Regular(c) => Regular(c)'
         /\ \A m \in Counted : Owing(c, m)' <= Owing(c, m) /\ Claim(c, m)' <= Claim(c, m)
<1>1. \A b \in Archivists : (Owns(b, c)' <=> Owns(b, c)) /\ (OwnsDeals(b, c)' <=> OwnsDeals(b, c))
  BY DEF Bare, Owns, OwnsDeals
<1>2. ASSUME NEW b \in Archivists, HoldsInHand(b, c) PROVE HoldsInHand(b, c)'
  <2>1. CASE b = a
    BY <2>1 DEF HoldsInHand, Owns, OwnsDeals, Bare
  <2>2. CASE b # a
    BY <1>1, <1>2, <2>2 DEF HoldsInHand
  <2> QED
    BY <2>1, <2>2
<1>3. Regular(c) => Regular(c)'
  BY <1>1, <1>2 DEF Regular, SoleOwner, HoldsHaveOwner
<1>4. \A b \in Archivists, m \in Counted :
        (Awaits(b, c, m)' <=> Awaits(b, c, m)) /\ (Backs(b, c, m)' <=> Backs(b, c, m))
  <2>1. \A m \in Counted : /\ ~Awaits(a, c, m) /\ ~Awaits(a, c, m)'
                           /\ ~Backs(a, c, m) /\ ~Backs(a, c, m)'
    BY DEF Bare, Awaits, Backs
  <2>2. \A b \in Archivists \ {a}, m \in Counted :
          (Awaits(b, c, m)' <=> Awaits(b, c, m)) /\ (Backs(b, c, m)' <=> Backs(b, c, m))
    BY DEF Awaits, Backs, HeldBy
  <2> QED
    BY <2>1, <2>2
<1>5. ASSUME NEW m \in Counted PROVE Owing(c, m)' <= Owing(c, m) /\ Claim(c, m)' <= Claim(c, m)
  <2>1. /\ LiveWeight(c, m) \in Nat /\ HeldWeight(c, m) \in Nat
        /\ Owing(c, m) \in Nat /\ Claim(c, m) \in Nat
    BY WeightsNat
  <2>2. HeldWeight(c, m)' = HeldWeight(c, m)
    BY DEF HeldWeight
  <2>3. LiveWeight(c, m)' = LiveWeight(c, m) \/ LiveWeight(c, m)' = 0
    BY DEF LiveWeight
  <2> QED
    BY <1>4, <2>1, <2>2, <2>3 DEF Owing, Claim, Beyond
<1> QED
  BY <1>3, <1>5

\* What the proof of every step concludes
BooksAfter ==
  ArchiveTypeOK' /\ CallsHaveCompany' /\ \E F \in SUBSET Accounts : Explained(F)'

LEMMA NoCallFacts ==
  /\ NoArchiveCall \in ArchiveCalls /\ NoArchiveCall.pc = "idle" /\ NoArchiveCall.on = NoAccount
  /\ NoArchiveCall.amount = 0
BY DEF NoArchiveCall, ArchiveCalls, Counted

\* A turn between calls that hold nothing
LEMMA BareTurnKept ==
  ASSUME ArchiveTypeOK, CallsHaveCompany, NEW E \in SUBSET Accounts, Explained(E),
         NEW a \in Archivists, NEW c \in Accounts, NEW k \in ArchiveCalls,
         archivist' = [archivist EXCEPT ![a] = k], archivist[a].pc \in Bare, k.pc \in Bare,
         archivist[a].on \in {c, NoAccount}, k.on \in {c, NoAccount},
         k.on = NoAccount <=> k.pc = "idle",
         archived' = archived \/ archived' = [archived EXCEPT ![c] = TRUE],
         deals' = deals, usage' = usage, held' = held, mishaps' = mishaps
  PROVE  BooksAfter
<1>1. archived' \in [Accounts -> BOOLEAN] /\ usage' \in [Counted -> Nat]
      /\ held' \in [Accounts -> [Counted -> CompanyHold]] /\ mishaps' \in 0..MaxMishaps
  BY DEF ArchiveTypeOK
<1>2. /\ ArchiveTypeOK' /\ CallsHaveCompany' /\ archivist'[a] = k
      /\ \A b \in Archivists \ {a} : archivist'[b] = archivist[b]
  BY <1>1, TurnTypes
<1>3. \A x \in Accounts \ {c} : archived'[x] = archived[x] /\ deals'[x] = deals[x] /\ held'[x] = held[x]
  BY DEF ArchiveTypeOK
<1>4. \A x \in Accounts \ {c} : Unconcerned(x)
  BY <1>3, TurnConcernsOne
<1>5. archived'[c] \in BOOLEAN /\ (archived[c] => archived'[c])
  BY <1>1 DEF ArchiveTypeOK
<1>6. /\ Regular(c) => Regular(c)'
      /\ \A m \in Counted : Owing(c, m)' <= Owing(c, m) /\ Claim(c, m)' <= Claim(c, m)
  BY <1>2, <1>5, BareTurn
<1>7. c \notin E => Regular(c)
  BY DEF Explained
<1>8. Explained(E)'
  BY <1>2, <1>4, <1>6, <1>7, QuietlyKept
<1> QED
  BY <1>2, <1>8 DEF BooksAfter

LEMMA BeginKept ==
  ASSUME ArchiveTypeOK, CallsHaveCompany, NEW E \in SUBSET Accounts, Explained(E),
         NEW a \in Archivists, NEW c \in Accounts, BeginArchive(a, c) \/ BeginRestore(a, c)
  PROVE  BooksAfter
<1>1. PICK pc \in {"archive", "reserve"} :
        archivist' = [archivist EXCEPT ![a] = [NoArchiveCall EXCEPT !.pc = pc, !.on = c]]
  BY DEF BeginArchive, BeginRestore
<1>2. PICK k : k = [NoArchiveCall EXCEPT !.pc = pc, !.on = c]
  OBVIOUS
<1>3. k \in ArchiveCalls /\ k.pc \in Bare /\ k.on = c /\ k.on # NoAccount /\ k.pc # "idle"
  BY <1>2, ArchiveAssumption DEF NoArchiveCall, ArchiveCalls, Bare
<1>4. archivist[a].pc = "idle" /\ archivist[a].on = NoAccount
  BY DEF BeginArchive, BeginRestore, ArchivistAt, CallsHaveCompany
<1>5. archived' = archived /\ deals' = deals /\ usage' = usage /\ held' = held /\ mishaps' = mishaps
  BY DEF BeginArchive, BeginRestore
<1>6. archivist[a].pc \in Bare /\ archivist' = [archivist EXCEPT ![a] = k]
  BY <1>1, <1>2, <1>4 DEF Bare
<1> QED
  BY <1>3, <1>4, <1>5, <1>6, BareTurnKept

LEMMA WriteArchiveKept ==
  ASSUME ArchiveTypeOK, CallsHaveCompany, NEW E \in SUBSET Accounts, Explained(E),
         NEW a \in Archivists, WriteArchive(a)
  PROVE  BooksAfter
<1>1. PICK c : c = archivist[a].on
  OBVIOUS
<1>2. PICK k : k = [archivist[a] EXCEPT !.pc = "recount", !.todo = Counted]
  OBVIOUS
<1>3. archivist[a] \in ArchiveCalls /\ archivist[a].pc = "archive"
  BY DEF ArchiveTypeOK, WriteArchive, ArchivistAt
<1>4. c \in Accounts /\ c # NoAccount
  BY <1>1, <1>3, ArchiveAssumption DEF ArchiveCalls, CallsHaveCompany
<1>5. k \in ArchiveCalls /\ k.pc = "recount" /\ k.on = c
  BY <1>1, <1>2, <1>3 DEF ArchiveCalls
<1>6. archivist' = [archivist EXCEPT ![a] = k] /\ archived' = [archived EXCEPT ![c] = TRUE]
  BY <1>1, <1>2 DEF WriteArchive, ArchiveTypeOK
<1>7. deals' = deals /\ usage' = usage /\ held' = held /\ mishaps' = mishaps
  BY DEF WriteArchive
<1>8. archivist[a].pc \in Bare /\ k.pc \in Bare
  BY <1>3, <1>5 DEF Bare
<1> QED
  BY <1>1, <1>4, <1>5, <1>6, <1>7, <1>8, BareTurnKept

\* A recount makes the usage what is there.
LEMMA RecountKept ==
  ASSUME ArchiveTypeOK, CallsHaveCompany, NEW E \in SUBSET Accounts, Explained(E),
         NEW a \in Archivists, NEW m \in Counted, Recount(a, m)
  PROVE  BooksAfter
<1>1. PICK c : c = archivist[a].on
  OBVIOUS
<1>2. archivist[a] \in ArchiveCalls /\ archivist[a].pc = "recount"
  BY DEF ArchiveTypeOK, Recount, ArchivistAt
<1>3. c \in Accounts /\ c # NoAccount
  BY <1>1, <1>2, ArchiveAssumption DEF ArchiveCalls, CallsHaveCompany
<1>4. PICK k : /\ archivist' = [archivist EXCEPT ![a] = k] /\ k \in ArchiveCalls
               /\ \/ k.pc = "idle" /\ k.on = NoAccount
                  \/ k.pc = "recount" /\ k.on = c
  <2>1. CASE archivist[a].todo = {m}
    BY <2>1, NoCallFacts DEF Recount, Finish
  <2>2. CASE archivist[a].todo # {m}
    <3>1. PICK k : k = [archivist[a] EXCEPT !.todo = archivist[a].todo \ {m}]
      OBVIOUS
    <3>2. k \in ArchiveCalls /\ k.pc = "recount" /\ k.on = c
      BY <1>1, <1>2, <3>1 DEF ArchiveCalls
    <3>3. archivist' = [archivist EXCEPT ![a] = k]
      BY <2>2, <3>1 DEF Recount, ArchiveTypeOK
    <3> QED
      BY <3>2, <3>3
  <2> QED
    BY <2>1, <2>2
<1>5. archived' = archived /\ deals' = deals /\ held' = held /\ mishaps' = mishaps
      /\ usage' = [usage EXCEPT ![m] = Inventory(m)]
  BY DEF Recount
<1>6. Inventory(m) \in Nat
  BY MetricsNat
<1>7. archived' \in [Accounts -> BOOLEAN] /\ usage' \in [Counted -> Nat]
      /\ held' \in [Accounts -> [Counted -> CompanyHold]] /\ mishaps' \in 0..MaxMishaps
  BY <1>5, <1>6 DEF ArchiveTypeOK
<1>8. /\ ArchiveTypeOK' /\ CallsHaveCompany' /\ archivist'[a] = k
      /\ \A b \in Archivists \ {a} : archivist'[b] = archivist[b]
  BY <1>3, <1>4, <1>5, <1>7, TurnTypes
<1>9. \A x \in Accounts \ {c} : Unconcerned(x)
  BY <1>1, <1>3, <1>4, <1>5, TurnConcernsOne
<1>10. /\ Regular(c) => Regular(c)'
       /\ \A n \in Counted : Owing(c, n)' <= Owing(c, n) /\ Claim(c, n)' <= Claim(c, n)
  <2>1. archivist[a].pc \in Bare /\ k.pc \in Bare
    BY <1>2, <1>4 DEF Bare
  <2>2. archived'[c] \in BOOLEAN /\ (archived[c] => archived'[c])
    BY <1>3, <1>5, <1>7
  <2> QED
    BY <1>3, <1>5, <1>8, <2>1, <2>2, BareTurn
<1>11. PICK no : no = [n \in Counted |-> 0]
  OBVIOUS
<1>12. no \in [Counted -> Nat] /\ \A n \in Counted : no[n] = 0
  BY <1>11
<1>13. \A n \in Counted : Owing(c, n) \in Nat /\ Claim(c, n) \in Nat
  BY <1>3, WeightsNat
<1>14. ASSUME NEW n \in Counted
       PROVE \/ usage'[n] >= usage[n] + no[n] /\ (c \notin E => Owing(c, n)' <= Owing(c, n) + no[n])
             \/ SumFunctionOnSet([x \in Accounts |-> LiveWeight(x, n)'], Accounts) <= usage'[n]
  <2>1. CASE n = m
    <3>1. \A x \in Accounts : LiveWeight(x, n)' = LiveWeight(x, n)
      BY <1>5 DEF LiveWeight
    <3>2. SumFunctionOnSet([x \in Accounts |-> LiveWeight(x, n)'], Accounts) = Inventory(m)
      BY <2>1, <3>1, InventoryIsSum
    <3> QED
      BY <1>5, <1>6, <2>1, <3>2 DEF ArchiveTypeOK
  <2>2. CASE n # m
    BY <1>5, <1>10, <1>12, <1>13, <2>2 DEF ArchiveTypeOK
  <2> QED
    BY <2>1, <2>2
<1>15. c \notin E => Regular(c)' /\ \A n \in Counted : Claim(c, n)' <= Claim(c, n) + no[n]
  BY <1>3, <1>10, <1>12, <1>13 DEF Explained
<1>16. Explained(E)'
  BY <1>3, <1>5, <1>8, <1>9, <1>12, <1>14, <1>15, RegularKept
<1> QED
  BY <1>8, <1>16 DEF BooksAfter

LEMMA MishapTurn ==
  ASSUME ArchiveTypeOK, CallsHaveCompany, NEW E \in SUBSET Accounts, Explained(E),
         NEW a \in Archivists, NEW k \in ArchiveCalls, archivist' = [archivist EXCEPT ![a] = k],
         archivist[a].pc # "idle", k.on \in {archivist[a].on, NoAccount},
         k.on = NoAccount <=> k.pc = "idle", Mishap,
         archived' = archived, deals' = deals, usage' = usage, held' = held
  PROVE  BooksAfter
<1>1. PICK c : c = archivist[a].on
  OBVIOUS
<1>2. c \in Accounts
  BY <1>1 DEF ArchiveTypeOK, ArchiveCalls, CallsHaveCompany
<1>3. mishaps' = mishaps + 1 /\ mishaps' \in 0..MaxMishaps
  BY ArchiveAssumption DEF Mishap, ArchiveTypeOK
<1>4. archived' \in [Accounts -> BOOLEAN] /\ usage' \in [Counted -> Nat]
      /\ held' \in [Accounts -> [Counted -> CompanyHold]]
  BY DEF ArchiveTypeOK
<1>5. ArchiveTypeOK' /\ CallsHaveCompany'
  BY <1>3, <1>4, TurnTypes
<1>6. \A x \in Accounts \ {c} : Unconcerned(x)
  BY <1>1, <1>2, TurnConcernsOne
<1>7. \A m \in Counted : usage'[m] >= usage[m]
  BY DEF ArchiveTypeOK
<1>8. \E F \in SUBSET Accounts : Explained(F)'
  BY <1>2, <1>3, <1>5, <1>6, <1>7, MishapKept
<1> QED
  BY <1>5, <1>8 DEF BooksAfter

\* A call that alone owns, or is alone to own, what is held for a company
OwnWeights(a, c) ==
  \A m \in Counted :
    /\ Owing(c, m) = (IF Backs(a, c, m) THEN Beyond(LiveWeight(c, m), HeldWeight(c, m))
                    ELSE LiveWeight(c, m))
    /\ Owing(c, m)' = (IF Backs(a, c, m)' THEN Beyond(LiveWeight(c, m)', HeldWeight(c, m)')
                     ELSE LiveWeight(c, m)')
    /\ Claim(c, m) = (IF Awaits(a, c, m) THEN HeldWeight(c, m) ELSE LiveWeight(c, m))
    /\ Claim(c, m)' = (IF Awaits(a, c, m)' THEN HeldWeight(c, m)' ELSE LiveWeight(c, m)')

LEMMA OwnTurn ==
  ASSUME NEW a \in Archivists, NEW c \in Accounts, \A b \in Archivists \ {a} : ~Owns(b, c),
         \A b \in Archivists \ {a} : archivist'[b] = archivist[b]
  PROVE  /\ SoleOwner(c)' /\ \A b \in Archivists \ {a} : HoldsInHand(b, c)'
         /\ HoldsHaveOwner(c) =>
              /\ held[c]["COMPANIES"].status = "RESERVED" => Owns(a, c)
              /\ held[c]["OPPORTUNITIES"].status = "RESERVED" => OwnsDeals(a, c)
         /\ OwnWeights(a, c)
<1>1. \A b \in Archivists \ {a} :
        archivist[b].on # c \/ archivist[b].pc \notin {"count", "deals", "write", "commit", "release"}
  BY DEF Owns
<1>2. \A b \in Archivists \ {a} :
        archivist'[b].on # c \/ archivist'[b].pc \notin {"count", "deals", "write", "commit", "release"}
  BY <1>1
<1>3. \A b \in Archivists \ {a}, m \in Counted :
        /\ ~Owns(b, c)' /\ ~OwnsDeals(b, c) /\ ~OwnsDeals(b, c)'
        /\ ~Awaits(b, c, m) /\ ~Awaits(b, c, m)' /\ ~Backs(b, c, m) /\ ~Backs(b, c, m)'
  <2> SUFFICES ASSUME NEW b \in Archivists \ {a}, NEW m \in Counted
               PROVE  /\ ~Owns(b, c)' /\ ~OwnsDeals(b, c) /\ ~OwnsDeals(b, c)'
                      /\ ~Awaits(b, c, m) /\ ~Awaits(b, c, m)' /\ ~Backs(b, c, m) /\ ~Backs(b, c, m)'
    OBVIOUS
  <2>1. ~Owns(b, c)'
    BY <1>2 DEF Owns
  <2>2. ~OwnsDeals(b, c) /\ ~OwnsDeals(b, c)'
    BY <1>1, <1>2 DEF OwnsDeals
  <2>3. ~Awaits(b, c, m) /\ ~Awaits(b, c, m)'
    BY <1>1, <1>2 DEF Awaits
  <2>4. ~Backs(b, c, m) /\ ~Backs(b, c, m)'
    BY <1>1, <1>2 DEF Backs
  <2> QED
    BY <2>1, <2>2, <2>3, <2>4
<1>4. SoleOwner(c)'
  BY <1>3 DEF SoleOwner, Counted
<1>5. \A b \in Archivists \ {a} : HoldsInHand(b, c)'
  <2> SUFFICES ASSUME NEW b \in Archivists \ {a} PROVE HoldsInHand(b, c)'
    OBVIOUS
  <2>1. ~Owns(b, c)' /\ ~OwnsDeals(b, c)'
    BY <1>3 DEF Counted
  <2> QED
    BY <1>2, <2>1 DEF HoldsInHand
<1>6. HoldsHaveOwner(c) =>
        /\ held[c]["COMPANIES"].status = "RESERVED" => Owns(a, c)
        /\ held[c]["OPPORTUNITIES"].status = "RESERVED" => OwnsDeals(a, c)
  BY <1>3 DEF HoldsHaveOwner, Counted
<1>7. \A m \in Counted : /\ (\E b \in Archivists : Backs(b, c, m)) <=> Backs(a, c, m)
                         /\ (\E b \in Archivists : Backs(b, c, m)') <=> Backs(a, c, m)'
                         /\ (\E b \in Archivists : Awaits(b, c, m)) <=> Awaits(a, c, m)
                         /\ (\E b \in Archivists : Awaits(b, c, m)') <=> Awaits(a, c, m)'
  BY <1>3
<1> QED
  BY <1>4, <1>5, <1>6, <1>7 DEF Owing, Claim, OwnWeights

\* After the turn the books of its company are regular.
LEMMA OwnTurnRegular ==
  ASSUME NEW a \in Archivists, NEW c \in Accounts,
         SoleOwner(c)', \A b \in Archivists \ {a} : HoldsInHand(b, c)', HoldsInHand(a, c)',
         held'[c]["COMPANIES"].status = "RESERVED" => Owns(a, c)',
         held'[c]["OPPORTUNITIES"].status = "RESERVED" => OwnsDeals(a, c)'
  PROVE  Regular(c)'
BY DEF Regular, HoldsHaveOwner

\* What a turn of one call at its company starts from
LEMMA TurnFacts ==
  ASSUME ArchiveTypeOK, CallsHaveCompany, NEW E \in SUBSET Accounts, Explained(E),
         NEW a \in Archivists, archivist[a].pc # "idle", NEW c, c = archivist[a].on
  PROVE  /\ archivist[a] \in ArchiveCalls /\ c \in Accounts /\ c # NoAccount
         /\ c \notin E => Regular(c)
         /\ \A m \in Counted : held[c][m] \in CompanyHold
         /\ "COMPANIES" \in Counted /\ "OPPORTUNITIES" \in Counted
<1>1. archivist[a] \in ArchiveCalls
  BY DEF ArchiveTypeOK
<1>2. c \in Accounts /\ c # NoAccount
  BY <1>1, ArchiveAssumption DEF ArchiveCalls, CallsHaveCompany
<1> QED
  BY <1>1, <1>2 DEF Explained, ArchiveTypeOK, Counted

\* A turn that changes a call and what is held for its company: k and h are what
\* they become, du is what the usage grows by, dc the room that is taken.
HoldTurn(a, c, k, h, du, dc) ==
  /\ archivist[a].pc # "idle" /\ c = archivist[a].on
  /\ k \in ArchiveCalls /\ archivist' = [archivist EXCEPT ![a] = k]
  /\ k.on \in {c, NoAccount} /\ (k.on = NoAccount <=> k.pc = "idle")
  /\ h \in [Counted -> CompanyHold] /\ held' = [held EXCEPT ![c] = h]
  /\ archived' = archived \/ archived' = [archived EXCEPT ![c] = FALSE]
  /\ deals' = deals /\ mishaps' = mishaps /\ usage' \in [Counted -> Nat]
  /\ du \in [Counted -> Nat] /\ dc \in [Counted -> Nat]
  /\ \A m \in Counted : dc[m] = 0 \/ usage[m] + HeldOf(m) + dc[m] <= Limit[m]
  /\ \A m \in Counted : usage'[m] >= usage[m] + du[m]

\* It leaves the books of the company regular.
RegularTurn(a, c, k, h, du, dc) ==
  (/\ Regular(c) /\ archivist'[a] = k /\ held'[c] = h
   /\ \A b \in Archivists \ {a} : archivist'[b] = archivist[b]
   /\ archived'[c] \in {archived[c], FALSE}) =>
  (/\ Regular(c)'
   /\ \A m \in Counted : Owing(c, m)' <= Owing(c, m) + du[m] /\ Claim(c, m)' <= Claim(c, m) + dc[m])

LEMMA HoldTurnKept ==
  ASSUME ArchiveTypeOK, CallsHaveCompany, NEW E \in SUBSET Accounts, Explained(E),
         NEW a \in Archivists, NEW c, NEW k, NEW h, NEW du, NEW dc,
         HoldTurn(a, c, k, h, du, dc), RegularTurn(a, c, k, h, du, dc)
  PROVE  BooksAfter
<1>1. c \in Accounts /\ c # NoAccount /\ (c \notin E => Regular(c))
  BY TurnFacts DEF HoldTurn
<1>2. held' \in [Accounts -> [Counted -> CompanyHold]] /\ mishaps' \in 0..MaxMishaps
      /\ archived' \in [Accounts -> BOOLEAN]
  BY <1>1 DEF ArchiveTypeOK, HoldTurn
<1>3. /\ ArchiveTypeOK' /\ CallsHaveCompany' /\ archivist'[a] = k
      /\ \A b \in Archivists \ {a} : archivist'[b] = archivist[b]
  BY <1>2, TurnTypes DEF HoldTurn
<1>4. \A x \in Accounts \ {c} : archived'[x] = archived[x] /\ deals'[x] = deals[x] /\ held'[x] = held[x]
  BY <1>1 DEF ArchiveTypeOK, HoldTurn
<1>5. \A x \in Accounts \ {c} : Unconcerned(x)
  BY <1>1, <1>4, TurnConcernsOne DEF HoldTurn
<1>6. held'[c] = h /\ archived'[c] \in {archived[c], FALSE}
  BY <1>1 DEF ArchiveTypeOK, HoldTurn
<1>7. c \notin E => /\ Regular(c)'
                    /\ \A m \in Counted : /\ Owing(c, m)' <= Owing(c, m) + du[m]
                                          /\ Claim(c, m)' <= Claim(c, m) + dc[m]
  BY <1>1, <1>3, <1>6 DEF RegularTurn
<1>8. /\ du \in [Counted -> Nat] /\ dc \in [Counted -> Nat] /\ mishaps' = mishaps
      /\ \A m \in Counted : dc[m] = 0 \/ usage[m] + HeldOf(m) + dc[m] <= Limit[m]
      /\ \A m \in Counted : usage'[m] >= usage[m] + du[m]
  BY DEF HoldTurn
<1>9. Explained(E)'
  BY <1>1, <1>3, <1>5, <1>7, <1>8, RegularKept
<1> QED
  BY <1>3, <1>9 DEF BooksAfter

\* A grant of a new hold, for a call that waits for it
LEMMA GrantNew ==
  ASSUME ArchiveTypeOK, NEW c \in Accounts, NEW m \in Counted, NEW n \in Nat,
         GrantRestore(c, m, n), ~KeptHold(c, m)
  PROVE  /\ mishaps' = mishaps /\ usage[m] + HeldOf(m) + n <= Limit[m]
         /\ held[c][m].status # "RESERVED"
         /\ \E h \in [Counted -> CompanyHold] :
              /\ held' = [held EXCEPT ![c] = h]
              /\ h[m] = [status |-> "RESERVED", amount |-> n]
              /\ \A o \in Counted \ {m} : h[o] = held[c][o]
<1>1. PICK r : r = [status |-> "RESERVED", amount |-> n]
  OBVIOUS
<1>2. r \in CompanyHold
  BY <1>1 DEF CompanyHold
<1>3. PICK h : h = [held[c] EXCEPT ![m] = r]
  OBVIOUS
<1>4. held[c] \in [Counted -> CompanyHold]
  BY DEF ArchiveTypeOK
<1>5. h \in [Counted -> CompanyHold] /\ h[m] = r /\ \A o \in Counted \ {m} : h[o] = held[c][o]
  BY <1>2, <1>3, <1>4
<1>6. /\ mishaps' = mishaps /\ usage[m] + HeldOf(m) + n <= Limit[m]
      /\ held' = [held EXCEPT ![c][m] = r]
  BY <1>1 DEF GrantRestore, Fits
<1>7. held' = [held EXCEPT ![c] = h]
  BY <1>3, <1>6 DEF ArchiveTypeOK
<1>8. held[c][m].status # "RESERVED"
  BY DEF KeptHold
<1> QED
  BY <1>1, <1>5, <1>6, <1>7, <1>8

\* A grant of a hold an earlier restore left
LEMMA GrantKept ==
  ASSUME NEW c, NEW m, NEW n, GrantRestore(c, m, n), KeptHold(c, m)
  PROVE  Mishap /\ held' = held
BY DEF GrantRestore

\* What a call owns is held.
LEMMA OwnedIsHeld ==
  ASSUME NEW a, NEW c, HoldsInHand(a, c)
  PROVE  /\ Owns(a, c) => /\ held[c]["COMPANIES"].status = "RESERVED"
                          /\ held[c]["COMPANIES"].amount = 1
         /\ OwnsDeals(a, c) => /\ held[c]["OPPORTUNITIES"].status = "RESERVED"
                               /\ held[c]["OPPORTUNITIES"].amount = archivist[a].amount
BY DEF HoldsInHand

LEMMA ReserveCompanyKept ==
  ASSUME ArchiveTypeOK, CallsHaveCompany, NEW E \in SUBSET Accounts, Explained(E),
         NEW a \in Archivists, ReserveCompany(a)
  PROVE  BooksAfter
<1>1. PICK c : c = archivist[a].on
  OBVIOUS
<1>2. archivist[a].pc = "reserve" /\ archivist[a].pc # "idle"
  BY DEF ReserveCompany, ArchivistAt
<1>3. /\ archivist[a] \in ArchiveCalls /\ c \in Accounts /\ c # NoAccount
      /\ "COMPANIES" \in Counted /\ \A m \in Counted : held[c][m] \in CompanyHold
  BY <1>1, <1>2, TurnFacts
<1>4. archived' = archived /\ deals' = deals /\ usage' = usage
  BY DEF ReserveCompany
<1>5. CASE GrantRestore(c, "COMPANIES", 1) /\ Step(a, "count")
  <2>1. PICK k : k = [archivist[a] EXCEPT !.pc = "count"]
    OBVIOUS
  <2>2. k \in ArchiveCalls /\ k.pc = "count" /\ k.on = c /\ k.on # NoAccount /\ k.pc # "idle"
    BY <1>1, <1>3, <2>1 DEF ArchiveCalls
  <2>3. archivist' = [archivist EXCEPT ![a] = k]
    BY <1>5, <2>1 DEF Step, ArchiveTypeOK
  <2>4. CASE KeptHold(c, "COMPANIES")
    <3>1. Mishap /\ held' = held
      BY <1>5, <2>4, GrantKept
    <3> QED
      BY <1>1, <1>2, <1>4, <2>2, <2>3, <3>1, MishapTurn
  <2>5. CASE ~KeptHold(c, "COMPANIES")
    <3>1. /\ mishaps' = mishaps /\ usage["COMPANIES"] + HeldOf("COMPANIES") + 1 <= Limit["COMPANIES"]
          /\ held[c]["COMPANIES"].status # "RESERVED"
      BY <1>3, <1>5, <2>5, GrantNew
    <3>2. PICK h \in [Counted -> CompanyHold] :
            /\ held' = [held EXCEPT ![c] = h]
            /\ h["COMPANIES"] = [status |-> "RESERVED", amount |-> 1]
            /\ \A o \in Counted \ {"COMPANIES"} : h[o] = held[c][o]
      BY <1>3, <1>5, <2>5, GrantNew
    <3>3. PICK du : du = [m \in Counted |-> 0]
      OBVIOUS
    <3>4. PICK dc : dc = [m \in Counted |-> IF m = "COMPANIES" THEN 1 ELSE 0]
      OBVIOUS
    <3>5. /\ du \in [Counted -> Nat] /\ dc \in [Counted -> Nat]
          /\ \A m \in Counted : du[m] = 0 /\ dc[m] = (IF m = "COMPANIES" THEN 1 ELSE 0)
      BY <3>3, <3>4
    <3>6. \A m \in Counted : dc[m] = 0 \/ usage[m] + HeldOf(m) + dc[m] <= Limit[m]
      BY <3>1, <3>5
    <3>7. usage' \in [Counted -> Nat] /\ \A m \in Counted : usage'[m] >= usage[m] + du[m]
      BY <1>4, <3>5 DEF ArchiveTypeOK
    <3>8. RegularTurn(a, c, k, h, du, dc)
      <4> SUFFICES ASSUME Regular(c), archivist'[a] = k, held'[c] = h,
                          \A b \in Archivists \ {a} : archivist'[b] = archivist[b]
                   PROVE  /\ Regular(c)'
                          /\ \A m \in Counted : /\ Owing(c, m)' <= Owing(c, m) + du[m]
                                                /\ Claim(c, m)' <= Claim(c, m) + dc[m]
        BY DEF RegularTurn
      <4>1. \A b \in Archivists : ~Owns(b, c)
        BY <3>1, OwnedIsHeld DEF Regular
      <4>2. /\ SoleOwner(c)' /\ \A b \in Archivists \ {a} : HoldsInHand(b, c)'
            /\ held[c]["OPPORTUNITIES"].status = "RESERVED" => OwnsDeals(a, c)
            /\ OwnWeights(a, c)
        BY <1>3, <4>1, OwnTurn DEF Regular
      <4>3. ~OwnsDeals(a, c) /\ Owns(a, c)' /\ ~OwnsDeals(a, c)'
        BY <1>1, <1>2, <2>2 DEF Owns, OwnsDeals
      <4>4. HoldsInHand(a, c)'
        BY <2>2, <3>2, <4>3 DEF HoldsInHand
      <4>5. held'[c]["OPPORTUNITIES"] = held[c]["OPPORTUNITIES"]
        BY <3>2 DEF Counted
      <4>6. Regular(c)'
        BY <1>3, <4>2, <4>3, <4>4, <4>5, OwnTurnRegular
      <4>7. ASSUME NEW m \in Counted
            PROVE  Owing(c, m)' <= Owing(c, m) + du[m] /\ Claim(c, m)' <= Claim(c, m) + dc[m]
        <5>1. /\ LiveWeight(c, m) \in Nat /\ HeldWeight(c, m) \in Nat
              /\ Owing(c, m) \in Nat /\ Claim(c, m) \in Nat
          BY <1>3, WeightsNat
        <5>2. LiveWeight(c, m)' = LiveWeight(c, m)
          BY <1>4 DEF LiveWeight
        <5>3. ~Backs(a, c, m) /\ ~Backs(a, c, m)' /\ ~Awaits(a, c, m)
          BY <1>1, <1>2, <2>2 DEF Backs, Awaits
        <5>4. /\ m = "COMPANIES" => HeldWeight(c, m)' = 1
              /\ m # "COMPANIES" => ~Awaits(a, c, m)'
          BY <2>2, <3>2 DEF HeldWeight, Awaits
        <5> QED
          BY <3>5, <4>2, <5>1, <5>2, <5>3, <5>4 DEF OwnWeights
      <4> QED
        BY <4>6, <4>7
    <3>9. HoldTurn(a, c, k, h, du, dc)
      BY <1>1, <1>2, <1>4, <2>2, <2>3, <3>1, <3>2, <3>5, <3>6, <3>7 DEF HoldTurn
    <3> QED
      BY <3>8, <3>9, HoldTurnKept
  <2> QED
    BY <2>4, <2>5
<1>6. CASE Finish(a) /\ UNCHANGED <<held, mishaps>>
  <2>1. archivist' = [archivist EXCEPT ![a] = NoArchiveCall] /\ held' = held /\ mishaps' = mishaps
    BY <1>6 DEF Finish
  <2>2. archivist[a].pc \in Bare /\ NoArchiveCall.pc \in Bare
    BY <1>2, NoCallFacts DEF Bare
  <2> QED
    BY <1>1, <1>3, <1>4, <2>1, <2>2, NoCallFacts, BareTurnKept
<1> QED
  BY <1>1, <1>5, <1>6 DEF ReserveCompany

\* The turn of the owner of what is held for a company with regular books
LEMMA OwnerTurn ==
  ASSUME NEW a \in Archivists, NEW c \in Accounts, Regular(c), Owns(a, c),
         \A b \in Archivists \ {a} : archivist'[b] = archivist[b]
  PROVE  /\ SoleOwner(c)' /\ \A b \in Archivists \ {a} : HoldsInHand(b, c)'
         /\ HoldsInHand(a, c) /\ OwnWeights(a, c)
         /\ held[c]["COMPANIES"].status = "RESERVED" /\ held[c]["COMPANIES"].amount = 1
         /\ OwnsDeals(a, c) => /\ held[c]["OPPORTUNITIES"].status = "RESERVED"
                               /\ held[c]["OPPORTUNITIES"].amount = archivist[a].amount
         /\ held[c]["OPPORTUNITIES"].status = "RESERVED" => OwnsDeals(a, c)
<1>1. \A b \in Archivists \ {a} : ~Owns(b, c)
  BY DEF Regular, SoleOwner
<1>2. HoldsInHand(a, c)
  BY DEF Regular
<1> QED
  BY <1>1, <1>2, OwnTurn, OwnedIsHeld DEF Regular

LEMMA NoGrowth ==
  \E no \in [Counted -> Nat] : \A m \in Counted : no[m] = 0
<1>1. PICK no : no = [m \in Counted |-> 0]
  OBVIOUS
<1> QED
  BY <1>1

LEMMA CountDealsKept ==
  ASSUME ArchiveTypeOK, CallsHaveCompany, NEW E \in SUBSET Accounts, Explained(E),
         NEW a \in Archivists, CountDeals(a)
  PROVE  BooksAfter
<1>1. PICK c : c = archivist[a].on
  OBVIOUS
<1>2. archivist[a].pc = "count" /\ archivist[a].pc # "idle"
  BY DEF CountDeals, ArchivistAt
<1>3. /\ archivist[a] \in ArchiveCalls /\ c \in Accounts /\ c # NoAccount
      /\ held[c] \in [Counted -> CompanyHold] /\ deals[c] \in Nat
  BY <1>1, <1>2, TurnFacts DEF ArchiveTypeOK
<1>p. PICK p : p = IF deals[c] > 0 THEN "deals" ELSE "write"
  OBVIOUS
<1>4. PICK k : k = [archivist[a] EXCEPT !.pc = p, !.amount = deals[c]]
  OBVIOUS
<1>5. /\ k \in ArchiveCalls /\ k.on = c /\ k.amount = deals[c]
      /\ \/ k.pc = "deals" /\ k.amount > 0
         \/ k.pc = "write" /\ k.amount = 0
  <2>1. \/ p = "deals" /\ deals[c] > 0
        \/ p = "write" /\ deals[c] = 0
    BY <1>3, <1>p
  <2>2. k \in ArchiveCalls /\ k.on = c /\ k.amount = deals[c] /\ k.pc = p
    BY <1>1, <1>3, <1>4, <2>1 DEF ArchiveCalls
  <2> QED
    BY <2>1, <2>2
<1>6. archivist' = [archivist EXCEPT ![a] = k]
  BY <1>1, <1>p, <1>4 DEF CountDeals, ArchiveTypeOK
<1>7. archived' = archived /\ deals' = deals /\ usage' = usage /\ held' = held /\ mishaps' = mishaps
  BY DEF CountDeals
<1>8. PICK no \in [Counted -> Nat] : \A m \in Counted : no[m] = 0
  BY NoGrowth
<1>9. HoldTurn(a, c, k, held[c], no, no)
  <2>1. held' = [held EXCEPT ![c] = held[c]]
    BY <1>3, <1>7 DEF ArchiveTypeOK
  <2>2. \A m \in Counted : usage[m] \in Nat
    BY DEF ArchiveTypeOK
  <2>3. usage' \in [Counted -> Nat] /\ \A m \in Counted : usage'[m] >= usage[m] + no[m]
    BY <1>7, <1>8, <2>2 DEF ArchiveTypeOK
  <2> QED
    BY <1>1, <1>2, <1>3, <1>5, <1>6, <1>7, <1>8, <2>1, <2>3 DEF HoldTurn
<1>10. RegularTurn(a, c, k, held[c], no, no)
  <2> SUFFICES ASSUME Regular(c), archivist'[a] = k,
                      \A b \in Archivists \ {a} : archivist'[b] = archivist[b]
               PROVE  /\ Regular(c)'
                      /\ \A m \in Counted : /\ Owing(c, m)' <= Owing(c, m) + no[m]
                                            /\ Claim(c, m)' <= Claim(c, m) + no[m]
    BY DEF RegularTurn
  <2>1. Owns(a, c) /\ ~OwnsDeals(a, c) /\ Owns(a, c)' /\ ~OwnsDeals(a, c)'
    BY <1>1, <1>2, <1>5 DEF Owns, OwnsDeals
  <2>2. /\ SoleOwner(c)' /\ \A b \in Archivists \ {a} : HoldsInHand(b, c)'
        /\ HoldsInHand(a, c) /\ OwnWeights(a, c)
        /\ held[c]["OPPORTUNITIES"].status # "RESERVED"
    BY <1>3, <2>1, OwnerTurn
  <2>3. HoldsInHand(a, c)'
    BY <1>3, <1>5, <1>7, <2>1, <2>2 DEF HoldsInHand
  <2>4. Regular(c)'
    BY <1>3, <1>7, <2>1, <2>2, <2>3, OwnTurnRegular
  <2>5. ASSUME NEW m \in Counted
        PROVE  Owing(c, m)' <= Owing(c, m) + no[m] /\ Claim(c, m)' <= Claim(c, m) + no[m]
    <3>1. Owing(c, m) \in Nat /\ Claim(c, m) \in Nat
      BY <1>3, WeightsNat
    <3>2. LiveWeight(c, m)' = LiveWeight(c, m) /\ HeldWeight(c, m)' = HeldWeight(c, m)
      BY <1>7 DEF LiveWeight, HeldWeight
    <3>3. ~Backs(a, c, m) /\ ~Backs(a, c, m)' /\ (Awaits(a, c, m)' <=> Awaits(a, c, m))
      BY <1>1, <1>2, <1>5 DEF Backs, Awaits
    <3> QED
      BY <1>8, <2>2, <3>1, <3>2, <3>3 DEF OwnWeights
  <2> QED
    BY <2>4, <2>5
<1> QED
  BY <1>9, <1>10, HoldTurnKept

LEMMA ReserveDealsKept ==
  ASSUME ArchiveTypeOK, CallsHaveCompany, NEW E \in SUBSET Accounts, Explained(E),
         NEW a \in Archivists, ReserveDeals(a)
  PROVE  BooksAfter
<1>1. PICK c : c = archivist[a].on
  OBVIOUS
<1>n. PICK n : n = archivist[a].amount
  OBVIOUS
<1>2. archivist[a].pc = "deals" /\ archivist[a].pc # "idle"
  BY DEF ReserveDeals, ArchivistAt
<1>3. /\ archivist[a] \in ArchiveCalls /\ c \in Accounts /\ c # NoAccount /\ n \in Nat
      /\ held[c] \in [Counted -> CompanyHold] /\ "OPPORTUNITIES" \in Counted
  BY <1>1, <1>n, <1>2, TurnFacts DEF ArchiveTypeOK, ArchiveCalls
<1>4. archived' = archived /\ deals' = deals /\ usage' = usage
  BY DEF ReserveDeals
<1>5. PICK no \in [Counted -> Nat] : \A m \in Counted : no[m] = 0
  BY NoGrowth
<1>6. usage' \in [Counted -> Nat] /\ \A m \in Counted : usage'[m] >= usage[m] + no[m]
  BY <1>4, <1>5 DEF ArchiveTypeOK
<1>7. CASE GrantRestore(c, "OPPORTUNITIES", n) /\ Step(a, "write")
  <2>1. PICK k : k = [archivist[a] EXCEPT !.pc = "write"]
    OBVIOUS
  <2>2. /\ k \in ArchiveCalls /\ k.pc = "write" /\ k.on = c /\ k.on # NoAccount /\ k.pc # "idle"
        /\ k.amount = n
    BY <1>1, <1>n, <1>3, <2>1 DEF ArchiveCalls
  <2>3. archivist' = [archivist EXCEPT ![a] = k]
    BY <1>7, <2>1 DEF Step, ArchiveTypeOK
  <2>4. CASE KeptHold(c, "OPPORTUNITIES")
    <3>1. Mishap /\ held' = held
      BY <1>7, <2>4, GrantKept
    <3> QED
      BY <1>1, <1>2, <1>4, <2>2, <2>3, <3>1, MishapTurn
  <2>5. CASE ~KeptHold(c, "OPPORTUNITIES")
    <3>1. /\ mishaps' = mishaps
          /\ usage["OPPORTUNITIES"] + HeldOf("OPPORTUNITIES") + n <= Limit["OPPORTUNITIES"]
      BY <1>3, <1>7, <2>5, GrantNew
    <3>2. PICK h \in [Counted -> CompanyHold] :
            /\ held' = [held EXCEPT ![c] = h]
            /\ h["OPPORTUNITIES"] = [status |-> "RESERVED", amount |-> n]
            /\ \A o \in Counted \ {"OPPORTUNITIES"} : h[o] = held[c][o]
      BY <1>3, <1>7, <2>5, GrantNew
    <3>3. PICK dc : dc = [m \in Counted |-> IF m = "OPPORTUNITIES" THEN n ELSE 0]
      OBVIOUS
    <3>4. /\ dc \in [Counted -> Nat]
          /\ \A m \in Counted : dc[m] = (IF m = "OPPORTUNITIES" THEN n ELSE 0)
      BY <1>3, <3>3
    <3>5. \A m \in Counted : dc[m] = 0 \/ usage[m] + HeldOf(m) + dc[m] <= Limit[m]
      BY <3>1, <3>4
    <3>6. HoldTurn(a, c, k, h, no, dc)
      BY <1>1, <1>2, <1>4, <1>5, <1>6, <2>2, <2>3, <3>1, <3>2, <3>4, <3>5 DEF HoldTurn
    <3>7. RegularTurn(a, c, k, h, no, dc)
      <4> SUFFICES ASSUME Regular(c), archivist'[a] = k, held'[c] = h,
                          \A b \in Archivists \ {a} : archivist'[b] = archivist[b]
                   PROVE  /\ Regular(c)'
                          /\ \A m \in Counted : /\ Owing(c, m)' <= Owing(c, m) + no[m]
                                                /\ Claim(c, m)' <= Claim(c, m) + dc[m]
        BY DEF RegularTurn
      <4>1. Owns(a, c) /\ Owns(a, c)'
        BY <1>1, <1>2, <2>2 DEF Owns
      <4>2. /\ SoleOwner(c)' /\ \A b \in Archivists \ {a} : HoldsInHand(b, c)'
            /\ HoldsInHand(a, c) /\ OwnWeights(a, c)
        BY <1>3, <4>1, OwnerTurn
      <4>3. n > 0 /\ deals[c] <= n /\ held[c]["COMPANIES"] = [status |-> "RESERVED", amount |-> 1]
        BY <1>1, <1>n, <1>2, <4>1, <4>2 DEF HoldsInHand
      <4>4. OwnsDeals(a, c)'
        BY <2>2, <4>3 DEF OwnsDeals
      <4>5. held'[c]["COMPANIES"] = held[c]["COMPANIES"]
        BY <3>2 DEF Counted
      <4>6. HoldsInHand(a, c)'
        BY <1>4, <2>2, <3>2, <4>3, <4>5 DEF HoldsInHand
      <4>7. Regular(c)'
        BY <1>3, <4>1, <4>2, <4>4, <4>6, OwnTurnRegular
      <4>8. ASSUME NEW m \in Counted
            PROVE  Owing(c, m)' <= Owing(c, m) + no[m] /\ Claim(c, m)' <= Claim(c, m) + dc[m]
        <5>1. /\ LiveWeight(c, m) \in Nat /\ HeldWeight(c, m) \in Nat
              /\ Owing(c, m) \in Nat /\ Claim(c, m) \in Nat
          BY <1>3, WeightsNat
        <5>2. LiveWeight(c, m)' = LiveWeight(c, m)
          BY <1>4 DEF LiveWeight
        <5>3. ~Backs(a, c, m) /\ ~Backs(a, c, m)'
          BY <1>1, <1>2, <2>2 DEF Backs
        <5>4. CASE m = "OPPORTUNITIES"
          <6>1. HeldWeight(c, m)' = n /\ Awaits(a, c, m)'
            BY <2>2, <3>2, <4>3, <5>4 DEF HeldWeight, Awaits
          <6> QED
            BY <1>3, <1>5, <3>4, <4>2, <5>1, <5>2, <5>3, <5>4, <6>1 DEF OwnWeights
        <5>5. CASE m = "COMPANIES"
          <6>1. HeldWeight(c, m)' = HeldWeight(c, m) /\ Awaits(a, c, m)' /\ Awaits(a, c, m)
            BY <1>1, <1>2, <2>2, <4>5, <5>5 DEF HeldWeight, Awaits
          <6> QED
            BY <1>5, <3>4, <4>2, <5>1, <5>2, <5>3, <5>5, <6>1 DEF OwnWeights
        <5> QED
          BY <5>4, <5>5 DEF Counted
      <4> QED
        BY <4>7, <4>8
    <3> QED
      BY <3>6, <3>7, HoldTurnKept
  <2> QED
    BY <2>4, <2>5
<1>8. CASE /\ archivist' = [archivist EXCEPT ![a].pc = "release", ![a].todo = {"COMPANIES"}]
           /\ UNCHANGED <<held, mishaps>>
  <2>1. PICK k : k = [archivist[a] EXCEPT !.pc = "release", !.todo = {"COMPANIES"}]
    OBVIOUS
  <2>2. /\ k \in ArchiveCalls /\ k.pc = "release" /\ k.on = c /\ k.todo = {"COMPANIES"}
    BY <1>1, <1>3, <2>1 DEF ArchiveCalls, Counted
  <2>3. archivist' = [archivist EXCEPT ![a] = k] /\ held' = held /\ mishaps' = mishaps
    BY <1>8, <2>1 DEF ArchiveTypeOK
  <2>4. HoldTurn(a, c, k, held[c], no, no)
    <3>1. held' = [held EXCEPT ![c] = held[c]]
      BY <1>3, <2>3 DEF ArchiveTypeOK
    <3> QED
      BY <1>1, <1>2, <1>3, <1>4, <1>5, <1>6, <2>2, <2>3, <3>1 DEF HoldTurn
  <2>5. RegularTurn(a, c, k, held[c], no, no)
    <3> SUFFICES ASSUME Regular(c), archivist'[a] = k,
                        \A b \in Archivists \ {a} : archivist'[b] = archivist[b]
                 PROVE  /\ Regular(c)'
                        /\ \A m \in Counted : /\ Owing(c, m)' <= Owing(c, m) + no[m]
                                              /\ Claim(c, m)' <= Claim(c, m) + no[m]
      BY DEF RegularTurn
    <3>1. Owns(a, c) /\ ~OwnsDeals(a, c) /\ Owns(a, c)' /\ ~OwnsDeals(a, c)'
      BY <1>1, <1>2, <2>2 DEF Owns, OwnsDeals
    <3>2. /\ SoleOwner(c)' /\ \A b \in Archivists \ {a} : HoldsInHand(b, c)'
          /\ HoldsInHand(a, c) /\ OwnWeights(a, c)
          /\ held[c]["OPPORTUNITIES"].status # "RESERVED"
          /\ held[c]["COMPANIES"].status = "RESERVED" /\ held[c]["COMPANIES"].amount = 1
      BY <1>3, <3>1, OwnerTurn
    <3>3. HoldsInHand(a, c)'
      BY <2>2, <2>3, <3>1, <3>2 DEF HoldsInHand
    <3>4. Regular(c)'
      BY <1>3, <2>3, <3>1, <3>2, <3>3, OwnTurnRegular
    <3>5. ASSUME NEW m \in Counted
          PROVE  Owing(c, m)' <= Owing(c, m) + no[m] /\ Claim(c, m)' <= Claim(c, m) + no[m]
      <4>1. /\ LiveWeight(c, m) \in Nat /\ HeldWeight(c, m) \in Nat
            /\ Owing(c, m) \in Nat /\ Claim(c, m) \in Nat
        BY <1>3, WeightsNat
      <4>2. LiveWeight(c, m)' = LiveWeight(c, m) /\ HeldWeight(c, m)' = HeldWeight(c, m)
        BY <1>4, <2>3 DEF LiveWeight, HeldWeight
      <4>3. ~Backs(a, c, m) /\ ~Backs(a, c, m)' /\ ~Awaits(a, c, m)'
        BY <1>1, <1>2, <2>2 DEF Backs, Awaits
      <4>4. Awaits(a, c, m) => HeldWeight(c, m) = 1 /\ LiveWeight(c, m) <= 1
        BY <1>1, <1>2, <3>2 DEF Awaits, HeldWeight, LiveWeight, Counted
      <4> QED
        BY <1>5, <3>2, <4>1, <4>2, <4>3, <4>4 DEF OwnWeights
    <3> QED
      BY <3>4, <3>5
  <2> QED
    BY <2>4, <2>5, HoldTurnKept
<1> QED
  BY <1>1, <1>n, <1>7, <1>8 DEF ReserveDeals

LEMMA WriteRestoreKept ==
  ASSUME ArchiveTypeOK, CallsHaveCompany, NEW E \in SUBSET Accounts, Explained(E),
         NEW a \in Archivists, WriteRestore(a)
  PROVE  BooksAfter
<1>1. PICK c : c = archivist[a].on
  OBVIOUS
<1>2. archivist[a].pc = "write" /\ archivist[a].pc # "idle"
  BY DEF WriteRestore, ArchivistAt
<1>3. /\ archivist[a] \in ArchiveCalls /\ c \in Accounts /\ c # NoAccount
      /\ held[c] \in [Counted -> CompanyHold] /\ deals[c] \in Nat
  BY <1>1, <1>2, TurnFacts DEF ArchiveTypeOK
<1>4. PICK k : k = [archivist[a] EXCEPT !.pc = "commit"]
  OBVIOUS
<1>5. /\ k \in ArchiveCalls /\ k.pc = "commit" /\ k.on = c /\ k.amount = archivist[a].amount
      /\ archivist[a].amount \in Nat
  BY <1>1, <1>3, <1>4 DEF ArchiveCalls
<1>6. archivist' = [archivist EXCEPT ![a] = k]
  BY <1>4 DEF WriteRestore, Step, ArchiveTypeOK
<1>7. /\ archived' = [archived EXCEPT ![c] = FALSE]
      /\ deals' = deals /\ usage' = usage /\ held' = held /\ mishaps' = mishaps
  BY <1>1 DEF WriteRestore
<1>8. PICK no \in [Counted -> Nat] : \A m \in Counted : no[m] = 0
  BY NoGrowth
<1>9. HoldTurn(a, c, k, held[c], no, no)
  <2>1. held' = [held EXCEPT ![c] = held[c]]
    BY <1>3, <1>7 DEF ArchiveTypeOK
  <2>2. usage' \in [Counted -> Nat] /\ \A m \in Counted : usage'[m] >= usage[m] + no[m]
    BY <1>7, <1>8 DEF ArchiveTypeOK
  <2> QED
    BY <1>1, <1>2, <1>3, <1>5, <1>6, <1>7, <1>8, <2>1, <2>2 DEF HoldTurn
<1>10. RegularTurn(a, c, k, held[c], no, no)
  <2> SUFFICES ASSUME Regular(c), archivist'[a] = k,
                      \A b \in Archivists \ {a} : archivist'[b] = archivist[b]
               PROVE  /\ Regular(c)'
                      /\ \A m \in Counted : /\ Owing(c, m)' <= Owing(c, m) + no[m]
                                            /\ Claim(c, m)' <= Claim(c, m) + no[m]
    BY DEF RegularTurn
  <2>1. Owns(a, c) /\ Owns(a, c)' /\ (OwnsDeals(a, c)' <=> OwnsDeals(a, c))
    BY <1>1, <1>2, <1>5 DEF Owns, OwnsDeals
  <2>2. /\ SoleOwner(c)' /\ \A b \in Archivists \ {a} : HoldsInHand(b, c)'
        /\ HoldsInHand(a, c) /\ OwnWeights(a, c)
        /\ held[c]["OPPORTUNITIES"].status = "RESERVED" => OwnsDeals(a, c)
        /\ held[c]["COMPANIES"].status = "RESERVED" /\ held[c]["COMPANIES"].amount = 1
        /\ OwnsDeals(a, c) => /\ held[c]["OPPORTUNITIES"].status = "RESERVED"
                              /\ held[c]["OPPORTUNITIES"].amount = archivist[a].amount
    BY <1>3, <2>1, OwnerTurn
  <2>3. HoldsInHand(a, c)'
    BY <1>5, <1>7, <2>1, <2>2 DEF HoldsInHand
  <2>4. Regular(c)'
    BY <1>3, <1>7, <2>1, <2>2, <2>3, OwnTurnRegular
  <2>5. deals[c] <= archivist[a].amount
    BY <1>1, <1>2, <2>2 DEF HoldsInHand
  <2>6. ASSUME NEW m \in Counted
        PROVE  Owing(c, m)' <= Owing(c, m) + no[m] /\ Claim(c, m)' <= Claim(c, m) + no[m]
    <3>1. /\ LiveWeight(c, m) \in Nat /\ HeldWeight(c, m) \in Nat
          /\ Owing(c, m) \in Nat /\ Claim(c, m) \in Nat
      BY <1>3, WeightsNat
    <3>2. HeldWeight(c, m)' = HeldWeight(c, m) /\ ~archived'[c]
      BY <1>3, <1>7 DEF HeldWeight, ArchiveTypeOK
    <3>3. ~Backs(a, c, m) /\ ~Awaits(a, c, m)'
      BY <1>1, <1>2, <1>5 DEF Backs, Awaits
    <3>4. CASE m = "COMPANIES"
      <4>1. LiveWeight(c, m)' = 1 /\ HeldWeight(c, m) = 1
        BY <2>2, <3>2, <3>4 DEF LiveWeight, HeldWeight
      <4>2. Awaits(a, c, m) /\ Backs(a, c, m)'
        BY <1>1, <1>2, <1>5, <3>4 DEF Awaits, Backs, HeldBy, Counted
      <4> QED
        BY <1>8, <2>2, <3>1, <3>2, <3>3, <4>1, <4>2 DEF OwnWeights, Beyond
    <3>5. CASE m = "OPPORTUNITIES" /\ archivist[a].amount > 0
      <4>1. LiveWeight(c, m)' = deals[c] /\ HeldWeight(c, m) = archivist[a].amount
        <5>1. OwnsDeals(a, c)
          BY <1>1, <1>2, <3>5 DEF OwnsDeals
        <5> QED
          BY <1>7, <2>2, <3>2, <3>5, <5>1 DEF LiveWeight, HeldWeight
      <4>2. Awaits(a, c, m) /\ Backs(a, c, m)'
        BY <1>1, <1>2, <1>5, <3>5 DEF Awaits, Backs, HeldBy, Counted
      <4> QED
        BY <1>3, <1>5, <1>8, <2>2, <2>5, <3>1, <3>2, <3>3, <4>1, <4>2 DEF OwnWeights, Beyond
    <3>6. CASE m = "OPPORTUNITIES" /\ archivist[a].amount = 0
      <4>1. LiveWeight(c, m)' = 0
        BY <1>3, <1>7, <2>5, <3>2, <3>6 DEF LiveWeight
      <4>2. ~Awaits(a, c, m) /\ ~Backs(a, c, m)'
        BY <1>1, <1>2, <1>5, <3>6 DEF Awaits, Backs, HeldBy, Counted
      <4> QED
        BY <1>8, <2>2, <3>1, <3>2, <3>3, <4>1, <4>2 DEF OwnWeights
    <3> QED
      BY <1>5, <3>4, <3>5, <3>6 DEF Counted
  <2> QED
    BY <2>4, <2>6
<1> QED
  BY <1>9, <1>10, HoldTurnKept

LEMMA ReleaseOneKept ==
  ASSUME ArchiveTypeOK, CallsHaveCompany, NEW E \in SUBSET Accounts, Explained(E),
         NEW a \in Archivists, NEW m \in Counted, ReleaseOne(a, m)
  PROVE  BooksAfter
<1>1. PICK c : c = archivist[a].on
  OBVIOUS
<1>2. archivist[a].pc = "release" /\ archivist[a].pc # "idle" /\ m \in archivist[a].todo
  BY DEF ReleaseOne, ArchivistAt
<1>3. /\ archivist[a] \in ArchiveCalls /\ c \in Accounts /\ c # NoAccount
      /\ held[c] \in [Counted -> CompanyHold] /\ held[c][m] \in CompanyHold
  BY <1>1, <1>2, TurnFacts DEF ArchiveTypeOK
<1>4. PICK k : /\ archivist' = [archivist EXCEPT ![a] = k] /\ k \in ArchiveCalls
               /\ \/ k.pc = "idle" /\ k.on = NoAccount
                  \/ k.pc = "release" /\ k.on = c
               /\ archivist[a].todo = {m} => k.pc = "idle"
  <2>1. CASE archivist[a].todo = {m}
    BY <2>1, NoCallFacts DEF ReleaseOne, Finish
  <2>2. CASE archivist[a].todo # {m}
    <3>1. PICK k : k = [archivist[a] EXCEPT !.todo = archivist[a].todo \ {m}]
      OBVIOUS
    <3>2. k \in ArchiveCalls /\ k.pc = "release" /\ k.on = c
      BY <1>1, <1>2, <1>3, <3>1 DEF ArchiveCalls
    <3>3. archivist' = [archivist EXCEPT ![a] = k]
      BY <2>2, <3>1 DEF ReleaseOne, ArchiveTypeOK
    <3> QED
      BY <2>2, <3>2, <3>3
  <2> QED
    BY <2>1, <2>2
<1>s. PICK s : s = (IF held[c][m].status = "RESERVED" THEN "RELEASED" ELSE held[c][m].status)
  OBVIOUS
<1>5. PICK r : r = [held[c][m] EXCEPT !.status = s]
  OBVIOUS
<1>6. r \in CompanyHold /\ r.status # "RESERVED"
  BY <1>3, <1>s, <1>5 DEF CompanyHold
<1>7. PICK h : h = [held[c] EXCEPT ![m] = r]
  OBVIOUS
<1>8. h \in [Counted -> CompanyHold] /\ h[m] = r /\ \A o \in Counted \ {m} : h[o] = held[c][o]
  BY <1>3, <1>6, <1>7
<1>9. held' = [held EXCEPT ![c] = h]
  BY <1>1, <1>3, <1>s, <1>5, <1>7 DEF ReleaseOne, ArchiveTypeOK
<1>10. archived' = archived /\ deals' = deals /\ usage' = usage /\ mishaps' = mishaps
  BY DEF ReleaseOne
<1>11. PICK no \in [Counted -> Nat] : \A n \in Counted : no[n] = 0
  BY NoGrowth
<1>12. HoldTurn(a, c, k, h, no, no)
  <2>1. usage' \in [Counted -> Nat] /\ \A n \in Counted : usage'[n] >= usage[n] + no[n]
    BY <1>10, <1>11 DEF ArchiveTypeOK
  <2> QED
    BY <1>1, <1>2, <1>3, <1>4, <1>8, <1>9, <1>10, <1>11, <2>1 DEF HoldTurn
<1>13. RegularTurn(a, c, k, h, no, no)
  <2> SUFFICES ASSUME Regular(c), archivist'[a] = k, held'[c] = h,
                      \A b \in Archivists \ {a} : archivist'[b] = archivist[b]
               PROVE  /\ Regular(c)'
                      /\ \A n \in Counted : /\ Owing(c, n)' <= Owing(c, n) + no[n]
                                            /\ Claim(c, n)' <= Claim(c, n) + no[n]
    BY DEF RegularTurn
  <2>1. Owns(a, c) /\ ~OwnsDeals(a, c)
    BY <1>1, <1>2 DEF Owns, OwnsDeals
  <2>2. /\ SoleOwner(c)' /\ \A b \in Archivists \ {a} : HoldsInHand(b, c)'
        /\ HoldsInHand(a, c) /\ OwnWeights(a, c)
        /\ held[c]["OPPORTUNITIES"].status # "RESERVED"
    BY <1>3, <2>1, OwnerTurn
  <2>3. archivist[a].todo = {"COMPANIES"} /\ m = "COMPANIES" /\ k.pc = "idle" /\ k.on = NoAccount
    <3>1. archivist[a].todo = {"COMPANIES"}
      BY <1>1, <1>2, <2>2 DEF HoldsInHand
    <3>2. m = "COMPANIES"
      BY <1>2, <3>1
    <3> QED
      BY <1>4, <3>1, <3>2
  <2>4. ~Owns(a, c)' /\ ~OwnsDeals(a, c)' /\ HoldsInHand(a, c)'
    BY <2>3 DEF Owns, OwnsDeals, HoldsInHand
  <2>5. /\ held'[c]["COMPANIES"].status # "RESERVED"
        /\ held'[c]["OPPORTUNITIES"].status # "RESERVED"
    BY <1>6, <1>8, <2>2, <2>3 DEF Counted
  <2>6. Regular(c)'
    BY <1>3, <2>2, <2>4, <2>5, OwnTurnRegular
  <2>7. ASSUME NEW n \in Counted
        PROVE  Owing(c, n)' <= Owing(c, n) + no[n] /\ Claim(c, n)' <= Claim(c, n) + no[n]
    <3>1. Owing(c, n) \in Nat /\ Claim(c, n) \in Nat
      BY <1>3, WeightsNat
    <3>2. LiveWeight(c, n)' = LiveWeight(c, n)
      BY <1>10 DEF LiveWeight
    <3>3. ~Backs(a, c, n) /\ ~Backs(a, c, n)' /\ ~Awaits(a, c, n) /\ ~Awaits(a, c, n)'
      BY <1>1, <1>2, <2>3 DEF Backs, Awaits
    <3> QED
      BY <1>11, <2>2, <3>1, <3>2, <3>3 DEF OwnWeights
  <2> QED
    BY <2>6, <2>7
<1> QED
  BY <1>12, <1>13, HoldTurnKept

LEMMA CommitRestoreKept ==
  ASSUME ArchiveTypeOK, CallsHaveCompany, NEW E \in SUBSET Accounts, Explained(E),
         NEW a \in Archivists, CommitRestore(a)
  PROVE  BooksAfter
<1>1. PICK c : c = archivist[a].on
  OBVIOUS
<1>2. archivist[a].pc = "commit" /\ archivist[a].pc # "idle"
  BY DEF CommitRestore, ArchivistAt
<1>3. /\ archivist[a] \in ArchiveCalls /\ c \in Accounts /\ c # NoAccount
      /\ held[c] \in [Counted -> CompanyHold] /\ \A m \in Counted : held[c][m] \in CompanyHold
      /\ archivist[a].amount \in Nat
  BY <1>1, <1>2, TurnFacts DEF ArchiveTypeOK, ArchiveCalls
<1>4. PICK du : du = [m \in Counted |-> IF m \in HeldBy(a) THEN HeldWeight(c, m) ELSE 0]
  OBVIOUS
<1>5. /\ du \in [Counted -> Nat]
      /\ \A m \in Counted : du[m] = (IF m \in HeldBy(a) THEN HeldWeight(c, m) ELSE 0)
  <2>1. \A m \in Counted : HeldWeight(c, m) \in Nat
    BY <1>3, WeightsNat
  <2> QED
    BY <1>4, <2>1
<1>6. PICK h : h = [m \in Counted |->
                      IF m \in HeldBy(a) /\ held[c][m].status = "RESERVED"
                      THEN [held[c][m] EXCEPT !.status = "COMMITTED"] ELSE held[c][m]]
  OBVIOUS
<1>7. /\ h \in [Counted -> CompanyHold]
      /\ \A m \in Counted : /\ m \in HeldBy(a) => h[m].status # "RESERVED"
                            /\ m \notin HeldBy(a) => h[m] = held[c][m]
  <2>1. ASSUME NEW m \in Counted
        PROVE  /\ h[m] \in CompanyHold
               /\ m \in HeldBy(a) => h[m].status # "RESERVED"
               /\ m \notin HeldBy(a) => h[m] = held[c][m]
    <3>1. CASE m \in HeldBy(a) /\ held[c][m].status = "RESERVED"
      <4>1. h[m] = [held[c][m] EXCEPT !.status = "COMMITTED"]
        BY <1>6, <3>1
      <4> QED
        BY <1>3, <3>1, <4>1 DEF CompanyHold
    <3>2. CASE ~(m \in HeldBy(a) /\ held[c][m].status = "RESERVED")
      <4>1. h[m] = held[c][m]
        BY <1>6, <3>2
      <4> QED
        BY <1>3, <3>2, <4>1
    <3> QED
      BY <3>1, <3>2
  <2> QED
    BY <1>6, <2>1
<1>8. held' = [held EXCEPT ![c] = h]
  BY <1>1, <1>3, <1>6 DEF CommitRestore, ArchiveTypeOK
<1>9. /\ archivist' = [archivist EXCEPT ![a] = NoArchiveCall]
      /\ archived' = archived /\ deals' = deals /\ mishaps' = mishaps
  BY DEF CommitRestore, Finish
<1>10. usage' = [m \in Counted |-> usage[m] + du[m]]
  BY <1>1, <1>5 DEF CommitRestore, Counts, HeldWeight
<1>11. usage' \in [Counted -> Nat] /\ \A m \in Counted : usage'[m] >= usage[m] + du[m]
  BY <1>5, <1>10 DEF ArchiveTypeOK
<1>12. PICK no \in [Counted -> Nat] : \A m \in Counted : no[m] = 0
  BY NoGrowth
<1>13. HoldTurn(a, c, NoArchiveCall, h, du, no)
  BY <1>1, <1>2, <1>3, <1>5, <1>7, <1>8, <1>9, <1>11, <1>12, NoCallFacts DEF HoldTurn
<1>14. RegularTurn(a, c, NoArchiveCall, h, du, no)
  <2> SUFFICES ASSUME Regular(c), archivist'[a] = NoArchiveCall, held'[c] = h,
                      \A b \in Archivists \ {a} : archivist'[b] = archivist[b]
               PROVE  /\ Regular(c)'
                      /\ \A m \in Counted : /\ Owing(c, m)' <= Owing(c, m) + du[m]
                                            /\ Claim(c, m)' <= Claim(c, m) + no[m]
    BY DEF RegularTurn
  <2>1. Owns(a, c) /\ ~Owns(a, c)' /\ ~OwnsDeals(a, c)' /\ HoldsInHand(a, c)'
    BY <1>1, <1>2, <1>3, NoCallFacts DEF Owns, OwnsDeals, HoldsInHand
  <2>2. /\ SoleOwner(c)' /\ \A b \in Archivists \ {a} : HoldsInHand(b, c)'
        /\ OwnWeights(a, c)
        /\ held[c]["OPPORTUNITIES"].status = "RESERVED" => OwnsDeals(a, c)
    BY <1>3, <2>1, OwnerTurn
  <2>3. /\ held'[c]["COMPANIES"].status # "RESERVED"
        /\ held'[c]["OPPORTUNITIES"].status # "RESERVED"
    <3>1. "COMPANIES" \in HeldBy(a)
      BY DEF HeldBy, Counted
    <3>2. CASE archivist[a].amount > 0
      BY <1>7, <3>1, <3>2 DEF HeldBy, Counted
    <3>3. CASE archivist[a].amount = 0
      <4>1. held[c]["OPPORTUNITIES"].status # "RESERVED"
        BY <2>2, <3>3 DEF OwnsDeals
      <4>2. "OPPORTUNITIES" \notin HeldBy(a)
        BY <3>3 DEF HeldBy
      <4> QED
        BY <1>7, <3>1, <4>1, <4>2 DEF Counted
    <3> QED
      BY <1>3, <3>2, <3>3
  <2>4. Regular(c)'
    BY <1>3, <2>1, <2>2, <2>3, OwnTurnRegular
  <2>5. ASSUME NEW m \in Counted
        PROVE  Owing(c, m)' <= Owing(c, m) + du[m] /\ Claim(c, m)' <= Claim(c, m) + no[m]
    <3>1. /\ LiveWeight(c, m) \in Nat /\ HeldWeight(c, m) \in Nat
          /\ Owing(c, m) \in Nat /\ Claim(c, m) \in Nat
      BY <1>3, WeightsNat
    <3>2. LiveWeight(c, m)' = LiveWeight(c, m)
      BY <1>9 DEF LiveWeight
    <3>3. ~Backs(a, c, m)' /\ ~Awaits(a, c, m) /\ ~Awaits(a, c, m)'
      BY <1>1, <1>2, <1>3, NoCallFacts DEF Backs, Awaits
    <3>4. Backs(a, c, m) => m \in HeldBy(a)
      BY DEF Backs
    <3>5. Owing(c, m)' = LiveWeight(c, m) /\ Claim(c, m)' = LiveWeight(c, m) /\ Claim(c, m) = LiveWeight(c, m)
      BY <2>2, <3>2, <3>3 DEF OwnWeights
    <3>6. CASE Backs(a, c, m)
      <4>1. Owing(c, m) = Beyond(LiveWeight(c, m), HeldWeight(c, m)) /\ du[m] = HeldWeight(c, m)
        BY <1>5, <2>2, <3>4, <3>6 DEF OwnWeights
      <4> QED
        BY <1>12, <3>1, <3>5, <4>1 DEF Beyond
    <3>7. CASE ~Backs(a, c, m)
      <4>1. Owing(c, m) = LiveWeight(c, m) /\ du[m] \in Nat
        BY <1>5, <2>2, <3>7 DEF OwnWeights
      <4> QED
        BY <1>12, <3>1, <3>5, <4>1
    <3> QED
      BY <3>6, <3>7
  <2> QED
    BY <2>4, <2>5
<1> QED
  BY <1>13, <1>14, HoldTurnKept

LEMMA OverrunKept ==
  ASSUME ArchiveTypeOK, CallsHaveCompany, NEW E \in SUBSET Accounts, Explained(E),
         NEW c \in Accounts, NEW m \in Counted, OverrunHold(c, m)
  PROVE  BooksAfter
<1>1. PICK r : r = [held[c][m] EXCEPT !.status = "EXPIRED"]
  OBVIOUS
<1>2. held[c] \in [Counted -> CompanyHold] /\ r \in CompanyHold
  <2>1. held[c] \in [Counted -> CompanyHold] /\ held[c][m] \in CompanyHold
    BY DEF ArchiveTypeOK
  <2> QED
    BY <1>1, <2>1 DEF CompanyHold
<1>3. PICK h : h = [held[c] EXCEPT ![m] = r]
  OBVIOUS
<1>4. h \in [Counted -> CompanyHold] /\ held' = [held EXCEPT ![c] = h]
  BY <1>1, <1>2, <1>3 DEF OverrunHold, ArchiveTypeOK
<1>5. archived' = archived /\ deals' = deals /\ usage' = usage /\ archivist' = archivist
  BY DEF OverrunHold
<1>6. \/ Mishap
      \/ mishaps' = mishaps /\ \A a \in Archivists : archivist[a].on # c
  BY DEF OverrunHold
<1>7. mishaps' \in 0..MaxMishaps /\ mishaps \in Nat
  BY <1>6, ArchiveAssumption DEF Mishap, ArchiveTypeOK
<1>8. ArchiveTypeOK' /\ CallsHaveCompany'
  BY <1>4, <1>5, <1>7 DEF ArchiveTypeOK, CallsHaveCompany
<1>9. \A x \in Accounts \ {c} : Unconcerned(x)
  BY <1>4, <1>5 DEF Unconcerned, ArchiveTypeOK
<1>10. CASE Mishap
  <2>1. mishaps' = mishaps + 1 /\ \A n \in Counted : usage'[n] >= usage[n]
    BY <1>5, <1>10 DEF Mishap, ArchiveTypeOK
  <2>2. \E F \in SUBSET Accounts : Explained(F)'
    BY <1>8, <1>9, <2>1, MishapKept
  <2> QED
    BY <1>8, <2>2 DEF BooksAfter
<1>11. CASE mishaps' = mishaps /\ \A a \in Archivists : archivist[a].on # c
  <2>1. c \in E
    <3> SUFFICES ASSUME c \notin E PROVE FALSE
      OBVIOUS
    <3>1. HoldsHaveOwner(c)
      BY DEF Explained, Regular
    <3>2. held[c][m].status = "RESERVED"
      BY DEF OverrunHold
    <3> QED
      BY <1>11, <3>1, <3>2 DEF HoldsHaveOwner, Owns, OwnsDeals, Counted
  <2>2. Explained(E)'
    BY <1>5, <1>8, <1>9, <1>11, <2>1, QuietlyKept
  <2> QED
    BY <1>8, <2>2 DEF BooksAfter
<1> QED
  BY <1>6, <1>10, <1>11

\* When the opportunities of a company come or go, no call changes.
LEMMA DealsTurn ==
  ASSUME ArchiveTypeOK, NEW c \in Accounts, NEW n \in Nat, deals' = [deals EXCEPT ![c] = n],
         archived' = archived, held' = held, archivist' = archivist
  PROVE  /\ \A x \in Accounts \ {c} : Unconcerned(x)
         /\ Regular(c) /\ (n <= deals[c] \/ \A a \in Archivists :
                ~(archivist[a].on = c /\ archivist[a].pc \in {"deals", "write"})) => Regular(c)'
         /\ LiveWeight(c, "OPPORTUNITIES")' = (IF archived[c] THEN 0 ELSE n)
         /\ LiveWeight(c, "COMPANIES")' = LiveWeight(c, "COMPANIES")
         /\ \A m \in Counted :
              /\ HeldWeight(c, m)' = HeldWeight(c, m)
              /\ Owing(c, m)' = (IF \E a \in Archivists : Backs(a, c, m)
                               THEN Beyond(LiveWeight(c, m)', HeldWeight(c, m))
                               ELSE LiveWeight(c, m)')
              /\ Claim(c, m)' = (IF \E a \in Archivists : Awaits(a, c, m)
                                 THEN HeldWeight(c, m) ELSE LiveWeight(c, m)')
<1>1. \A x \in Accounts \ {c} : Unconcerned(x)
  BY DEF Unconcerned, ArchiveTypeOK
<1>2. deals'[c] = n
  BY DEF ArchiveTypeOK
<1>3. \A a \in Archivists :
        /\ Owns(a, c)' <=> Owns(a, c)
        /\ OwnsDeals(a, c)' <=> OwnsDeals(a, c)
        /\ \A m \in Counted : (Backs(a, c, m)' <=> Backs(a, c, m)) /\ (Awaits(a, c, m)' <=> Awaits(a, c, m))
  BY DEF Owns, OwnsDeals, Backs, Awaits, HeldBy
<1>4. ASSUME Regular(c), n <= deals[c] \/ \A a \in Archivists :
                ~(archivist[a].on = c /\ archivist[a].pc \in {"deals", "write"})
      PROVE  Regular(c)'
  <2>1. \A a \in Archivists : HoldsInHand(a, c)'
    <3> SUFFICES ASSUME NEW a \in Archivists PROVE HoldsInHand(a, c)'
      OBVIOUS
    <3>1. HoldsInHand(a, c)
      BY <1>4 DEF Regular
    <3>2. archivist[a].amount \in Nat /\ deals[c] \in Nat
      BY DEF ArchiveTypeOK, ArchiveCalls
    <3>3. archivist[a].on = c /\ archivist[a].pc \in {"deals", "write"} => n <= archivist[a].amount
      BY <1>4, <3>1, <3>2 DEF HoldsInHand
    <3> QED
      BY <1>2, <1>3, <3>1, <3>3 DEF HoldsInHand
  <2> QED
    BY <1>3, <1>4, <2>1 DEF Regular, SoleOwner, HoldsHaveOwner
<1>5. /\ LiveWeight(c, "OPPORTUNITIES")' = (IF archived[c] THEN 0 ELSE n)
      /\ LiveWeight(c, "COMPANIES")' = LiveWeight(c, "COMPANIES")
      /\ \A m \in Counted : HeldWeight(c, m)' = HeldWeight(c, m)
  BY <1>2 DEF LiveWeight, HeldWeight
<1>6. \A m \in Counted :
        /\ Owing(c, m)' = (IF \E a \in Archivists : Backs(a, c, m)
                         THEN Beyond(LiveWeight(c, m)', HeldWeight(c, m)) ELSE LiveWeight(c, m)')
        /\ Claim(c, m)' = (IF \E a \in Archivists : Awaits(a, c, m)
                           THEN HeldWeight(c, m) ELSE LiveWeight(c, m)')
  BY <1>3, <1>5 DEF Owing, Claim
<1> QED
  BY <1>1, <1>4, <1>5, <1>6

LEMMA MoreDealsKept ==
  ASSUME ArchiveTypeOK, CallsHaveCompany, NEW E \in SUBSET Accounts, Explained(E),
         NEW c \in Accounts, MoreDeals(c)
  PROVE  BooksAfter
<1>1. PICK n : n = deals[c] + 1
  OBVIOUS
<1>2. /\ n \in Nat /\ deals[c] \in Nat /\ n <= MaxDeals[c] /\ deals' = [deals EXCEPT ![c] = n]
      /\ archived' = archived /\ held' = held /\ archivist' = archivist
      /\ usage' = [usage EXCEPT !["OPPORTUNITIES"] = usage["OPPORTUNITIES"] + 1]
      /\ usage["OPPORTUNITIES"] + HeldOf("OPPORTUNITIES") + 1 <= Limit["OPPORTUNITIES"]
  <2>1. deals[c] \in Nat /\ MaxDeals[c] \in Nat /\ deals[c] < MaxDeals[c]
    BY ArchiveAssumption DEF MoreDeals, ArchiveTypeOK
  <2>2. n \in Nat /\ n <= MaxDeals[c]
    BY <1>1, <2>1
  <2> QED
    BY <1>1, <2>1, <2>2 DEF MoreDeals, Fits
<1>3. \/ Mishap
      \/ /\ mishaps' = mishaps
         /\ \A a \in Archivists : ~(archivist[a].on = c /\ archivist[a].pc \in {"deals", "write"})
  BY DEF MoreDeals
<1>4. mishaps' \in 0..MaxMishaps
  BY <1>3, ArchiveAssumption DEF Mishap, ArchiveTypeOK
<1>5. ArchiveTypeOK' /\ CallsHaveCompany'
  BY <1>2, <1>4, ArchiveAssumption DEF ArchiveTypeOK, CallsHaveCompany, Counted
<1>6. \A x \in Accounts \ {c} : Unconcerned(x)
  BY <1>2, DealsTurn
<1>7. CASE Mishap
  <2>1. mishaps' = mishaps + 1 /\ \A m \in Counted : usage'[m] >= usage[m]
    BY <1>2, <1>7 DEF Mishap, ArchiveTypeOK, Counted
  <2>2. \E F \in SUBSET Accounts : Explained(F)'
    BY <1>5, <1>6, <2>1, MishapKept
  <2> QED
    BY <1>5, <2>2 DEF BooksAfter
<1>8. CASE /\ mishaps' = mishaps
           /\ \A a \in Archivists : ~(archivist[a].on = c /\ archivist[a].pc \in {"deals", "write"})
  <2>1. PICK du : du = [m \in Counted |-> IF m = "OPPORTUNITIES" THEN 1 ELSE 0]
    OBVIOUS
  <2>2. /\ du \in [Counted -> Nat]
        /\ \A m \in Counted : du[m] = (IF m = "OPPORTUNITIES" THEN 1 ELSE 0)
    BY <2>1
  <2>3. \A m \in Counted : du[m] = 0 \/ usage[m] + HeldOf(m) + du[m] <= Limit[m]
    BY <1>2, <2>2
  <2>4. \A m \in Counted : usage'[m] >= usage[m] + du[m]
    BY <1>2, <2>2 DEF ArchiveTypeOK, Counted
  <2>5. c \notin E => Regular(c)'
    BY <1>2, <1>8, DealsTurn DEF Explained
  <2>6. ASSUME NEW m \in Counted
        PROVE  Owing(c, m)' <= Owing(c, m) + du[m] /\ Claim(c, m)' <= Claim(c, m) + du[m]
    <3>1. /\ LiveWeight(c, m) \in Nat /\ HeldWeight(c, m) \in Nat
          /\ Owing(c, m) \in Nat /\ Claim(c, m) \in Nat
      BY WeightsNat
    <3>2. /\ LiveWeight(c, m)' \in Nat /\ LiveWeight(c, m)' <= LiveWeight(c, m) + du[m]
      <4>1. CASE m = "COMPANIES"
        BY <1>2, <2>2, <3>1, <4>1 DEF LiveWeight
      <4>2. CASE m = "OPPORTUNITIES"
        BY <1>1, <1>2, <2>2, <3>1, <4>2, DealsTurn DEF LiveWeight
      <4> QED
        BY <4>1, <4>2 DEF Counted
    <3>3. /\ Owing(c, m)' = (IF \E a \in Archivists : Backs(a, c, m)
                           THEN Beyond(LiveWeight(c, m)', HeldWeight(c, m)) ELSE LiveWeight(c, m)')
          /\ Claim(c, m)' = (IF \E a \in Archivists : Awaits(a, c, m)
                             THEN HeldWeight(c, m) ELSE LiveWeight(c, m)')
      BY <1>2, DealsTurn
    <3>4. du[m] \in Nat
      BY <2>2
    <3> QED
      BY <3>1, <3>2, <3>3, <3>4 DEF Owing, Claim, Beyond
  <2>7. Explained(E)'
    BY <1>5, <1>6, <1>8, <2>2, <2>3, <2>4, <2>5, <2>6, RegularKept
  <2> QED
    BY <1>5, <2>7 DEF BooksAfter
<1> QED
  BY <1>3, <1>7, <1>8

LEMMA FewerDealsKept ==
  ASSUME ArchiveTypeOK, CallsHaveCompany, NEW E \in SUBSET Accounts, Explained(E),
         NEW c \in Accounts, FewerDeals(c)
  PROVE  BooksAfter
<1>1. PICK n : n = deals[c] - 1
  OBVIOUS
<1>2. /\ n \in Nat /\ deals[c] \in Nat /\ deals[c] = n + 1 /\ n <= MaxDeals[c]
      /\ deals' = [deals EXCEPT ![c] = n] /\ MaxDeals[c] \in Nat /\ deals[c] <= MaxDeals[c]
      /\ archived' = archived /\ held' = held /\ archivist' = archivist /\ mishaps' = mishaps
  <2>1. deals[c] \in Nat /\ MaxDeals[c] \in Nat /\ deals[c] > 0 /\ deals[c] <= MaxDeals[c]
    BY ArchiveAssumption DEF FewerDeals, ArchiveTypeOK
  <2>2. n \in Nat /\ n <= MaxDeals[c] /\ deals[c] = n + 1
    BY <1>1, <2>1
  <2> QED
    BY <1>1, <2>1, <2>2 DEF FewerDeals
<1>3. PICK m : m = "OPPORTUNITIES" /\ m \in Counted
  BY DEF Counted
<1>4. usage' = [usage EXCEPT ![m] = Inventory(m) - IF archived[c] THEN 0 ELSE 1]
  BY <1>3 DEF FewerDeals
<1>5. PICK w : w = [x \in Accounts |-> LiveWeight(x, m)]
  OBVIOUS
<1>6. PICK v : v = [x \in Accounts |-> LiveWeight(x, m)']
  OBVIOUS
<1>7. /\ w[c] = (IF archived[c] THEN 0 ELSE n + 1) /\ v[c] = (IF archived[c] THEN 0 ELSE n)
      /\ \A x \in Accounts \ {c} : w[x] \in Nat /\ v[x] = w[x]
  <2>1. w[c] = (IF archived[c] THEN 0 ELSE n + 1)
    BY <1>2, <1>3, <1>5 DEF LiveWeight
  <2>2. v[c] = (IF archived[c] THEN 0 ELSE n)
    BY <1>2, <1>3, <1>6, DealsTurn
  <2>3. ASSUME NEW x \in Accounts \ {c} PROVE w[x] \in Nat /\ v[x] = w[x]
    <3>1. w[x] \in Nat
      BY <1>3, <1>5, WeightsNat
    <3>2. archived'[x] = archived[x] /\ deals'[x] = deals[x]
      BY <1>2 DEF ArchiveTypeOK
    <3> QED
      BY <1>5, <1>6, <3>1, <3>2 DEF LiveWeight
  <2> QED
    BY <2>1, <2>2, <2>3
<1>8. Inventory(m) = SumFunctionOnSet(w, Accounts)
  BY <1>3, <1>5, InventoryIsSum
<1>a. IsFiniteSet(Accounts)
  BY ArchiveAssumption
<1>9. /\ SumFunctionOnSet(v, Accounts) = v[c] + SumFunctionOnSet(w, Accounts \ {c})
      /\ SumFunctionOnSet(w, Accounts) = w[c] + SumFunctionOnSet(w, Accounts \ {c})
      /\ SumFunctionOnSet(w, Accounts \ {c}) \in Nat
  <2>1. \A x \in Accounts : w[x] \in Nat /\ v[x] \in Nat /\ (x # c => v[x] = w[x])
    BY <1>2, <1>7
  <2> QED
    BY <1>a, <2>1, SumChanges
<1>10. /\ usage'[m] = SumFunctionOnSet(v, Accounts) /\ usage'[m] \in Nat
       /\ \A o \in Counted \ {m} : usage'[o] = usage[o]
  BY <1>2, <1>3, <1>4, <1>7, <1>8, <1>9 DEF ArchiveTypeOK
<1>11. usage' \in [Counted -> Nat]
  BY <1>4, <1>10 DEF ArchiveTypeOK
<1>12. ArchiveTypeOK' /\ CallsHaveCompany'
  BY <1>2, <1>11 DEF ArchiveTypeOK, CallsHaveCompany
<1>13. \A x \in Accounts \ {c} : Unconcerned(x)
  BY <1>2, DealsTurn
<1>14. PICK no \in [Counted -> Nat] : \A o \in Counted : no[o] = 0
  BY NoGrowth
<1>15. c \notin E => Regular(c)'
  <2>1. n <= deals[c]
    BY <1>2
  <2> QED
    BY <1>2, <2>1, DealsTurn DEF Explained
<1>16. ASSUME NEW o \in Counted
       PROVE  Owing(c, o)' <= Owing(c, o) + no[o] /\ Claim(c, o)' <= Claim(c, o) + no[o]
  <2>1. /\ LiveWeight(c, o) \in Nat /\ HeldWeight(c, o) \in Nat
        /\ Owing(c, o) \in Nat /\ Claim(c, o) \in Nat
    BY WeightsNat
  <2>2. LiveWeight(c, o)' \in Nat /\ LiveWeight(c, o)' <= LiveWeight(c, o)
    <3>1. CASE o = "COMPANIES"
      BY <1>2, <2>1, <3>1 DEF LiveWeight
    <3>2. CASE o = "OPPORTUNITIES"
      BY <1>2, <1>3, <1>5, <1>6, <1>7, <3>2
    <3> QED
      BY <3>1, <3>2 DEF Counted
  <2>3. /\ Owing(c, o)' = (IF \E a \in Archivists : Backs(a, c, o)
                         THEN Beyond(LiveWeight(c, o)', HeldWeight(c, o)) ELSE LiveWeight(c, o)')
        /\ Claim(c, o)' = (IF \E a \in Archivists : Awaits(a, c, o)
                           THEN HeldWeight(c, o) ELSE LiveWeight(c, o)')
    BY <1>2, DealsTurn
  <2> QED
    BY <1>14, <2>1, <2>2, <2>3 DEF Owing, Claim, Beyond
<1>17. \A o \in Counted :
         \/ usage'[o] >= usage[o] + no[o] /\ (c \notin E => Owing(c, o)' <= Owing(c, o) + no[o])
         \/ SumFunctionOnSet([x \in Accounts |-> LiveWeight(x, o)'], Accounts) <= usage'[o]
  <2> SUFFICES ASSUME NEW o \in Counted
               PROVE  \/ /\ usage'[o] >= usage[o] + no[o]
                         /\ c \notin E => Owing(c, o)' <= Owing(c, o) + no[o]
                      \/ SumFunctionOnSet([x \in Accounts |-> LiveWeight(x, o)'], Accounts)
                           <= usage'[o]
    OBVIOUS
  <2>1. CASE o = m
    <3>1. SumFunctionOnSet([x \in Accounts |-> LiveWeight(x, o)'], Accounts) = usage'[o]
      BY <1>6, <1>10, <2>1
    <3> QED
      BY <1>10, <2>1, <3>1
  <2>2. CASE o # m
    BY <1>10, <1>14, <1>16, <2>2 DEF ArchiveTypeOK
  <2> QED
    BY <2>1, <2>2
<1>18. Explained(E)'
  BY <1>2, <1>12, <1>13, <1>14, <1>15, <1>16, <1>17, RegularKept
<1> QED
  BY <1>12, <1>18 DEF BooksAfter

\* Of finitely many numbers one is the greatest.
LEMMA GreatestOf ==
  ASSUME NEW S, IsFiniteSet(S), S # {}, NEW w, \A x \in S : w[x] \in Nat
  PROVE  \E c \in S : \A x \in S : w[x] <= w[c]
<1> DEFINE Good(U) == U # {} => \E c \in U : \A x \in U : w[x] <= w[c]
<1> DEFINE Bad == {n \in Nat : \E U \in SUBSET S : Cardinality(U) = n /\ ~Good(U)}
<1> SUFFICES ASSUME ~Good(S) PROVE FALSE
  OBVIOUS
<1>1. Bad # {}
  BY FS_CardinalityType
<1>2. PICK n \in Bad : \A m \in Bad : n <= m
  BY <1>1, LeastNat
<1>3. PICK U \in SUBSET S : Cardinality(U) = n /\ ~Good(U)
  OBVIOUS
<1>4. PICK x \in U : TRUE
  BY <1>3
<1>5. /\ Cardinality(U \ {x}) \in Nat /\ Cardinality(U) \in Nat
      /\ Cardinality(U \ {x}) < Cardinality(U)
  BY PartCardinality
<1>6. Good(U \ {x})
  <2>1. PICK T : T = U \ {x}
    OBVIOUS
  <2>2. T \in SUBSET S /\ Cardinality(T) \in Nat /\ Cardinality(T) < n /\ n \in Nat
    BY <1>3, <1>5, <2>1
  <2>3. Cardinality(T) \notin Bad
    BY <1>2, <2>2
  <2>4. Good(T)
    BY <2>2, <2>3
  <2> QED
    BY <2>1, <2>4
<1>7. CASE U \ {x} = {}
  BY <1>3, <1>4, <1>7
<1>8. CASE U \ {x} # {}
  <2>1. PICK c \in U \ {x} : \A y \in U \ {x} : w[y] <= w[c]
    BY <1>6, <1>8
  <2>2. w[c] \in Nat /\ w[x] \in Nat
    OBVIOUS
  <2>3. CASE w[x] <= w[c]
    BY <1>3, <2>1, <2>3
  <2>4. CASE ~(w[x] <= w[c])
    <3>1. \A y \in U : w[y] <= w[x]
      BY <2>1, <2>2, <2>4
    <3> QED
      BY <1>3, <3>1
  <2> QED
    BY <2>3, <2>4
<1> QED
  BY <1>7, <1>8

LEMMA ArchiveStart == ArchiveInit => ArchiveIInv
<1> SUFFICES ASSUME ArchiveInit PROVE ArchiveIInv
  OBVIOUS
<1>1. /\ archived \in [Accounts -> BOOLEAN] /\ deals = [c \in Accounts |-> 0]
      /\ usage = [m \in Counted |-> Inventory(m)] /\ \A m \in Counted : Inventory(m) <= Limit[m]
      /\ archivist = [a \in Archivists |-> NoArchiveCall] /\ mishaps = 0
  BY DEF ArchiveInit
<1>2. PICK r : r = [status |-> "NONE", amount |-> 0]
  OBVIOUS
<1>3. r \in CompanyHold /\ r.status = "NONE"
  BY <1>2 DEF CompanyHold
<1>4. held = [c \in Accounts |-> [m \in Counted |-> r]]
  BY <1>2 DEF ArchiveInit
<1>5. held \in [Accounts -> [Counted -> CompanyHold]]
      /\ \A c \in Accounts, m \in Counted : held[c][m].status = "NONE"
  BY <1>3, <1>4
<1>6. archivist \in [Archivists -> ArchiveCalls]
      /\ \A a \in Archivists : archivist[a].pc = "idle" /\ archivist[a].on = NoAccount
  BY <1>1, NoCallFacts
<1>7. IsFiniteSet(Accounts) /\ IsFiniteSet(Live)
  BY ArchiveAssumption, FS_Subset DEF Live
<1>8. \A m \in Counted : Inventory(m) \in Nat
  <2>1. Cardinality(Live) \in Nat
    BY <1>7, FS_CardinalityType
  <2>2. \A c \in Live : deals[c] \in Nat
    BY <1>1 DEF Live
  <2>3. SumFunctionOnSet(deals, Live) \in Nat
    BY <1>7, <2>2, SumNat
  <2> QED
    BY <2>1, <2>3 DEF Inventory
<1>9. usage \in [Counted -> Nat]
  BY <1>1, <1>8
<1>10. deals \in [Accounts -> Nat] /\ \A c \in Accounts : deals[c] <= MaxDeals[c]
  BY <1>1, ArchiveAssumption
<1>11. mishaps \in 0..MaxMishaps
  BY <1>1, ArchiveAssumption
<1>12. ArchiveTypeOK
  BY <1>1, <1>5, <1>6, <1>9, <1>10, <1>11 DEF ArchiveTypeOK
<1>13. CallsHaveCompany
  BY <1>6 DEF CallsHaveCompany
<1>14. \A c \in Accounts : Regular(c)
  <2> SUFFICES ASSUME NEW c \in Accounts PROVE Regular(c)
    OBVIOUS
  <2>1. \A a \in Archivists : ~Owns(a, c) /\ ~OwnsDeals(a, c) /\ HoldsInHand(a, c)
    BY <1>6 DEF Owns, OwnsDeals, HoldsInHand
  <2>2. HoldsHaveOwner(c)
    BY <1>5 DEF HoldsHaveOwner, Counted
  <2> QED
    BY <2>1, <2>2 DEF Regular, SoleOwner
<1>15. \A c \in Accounts, m \in Counted : Owing(c, m) = LiveWeight(c, m) /\ Claim(c, m) = LiveWeight(c, m)
  BY <1>6 DEF Owing, Claim, Backs, Awaits
<1>16. Explained({})
  <2>1. Cardinality({}) <= mishaps
    BY <1>1, FS_EmptySet
  <2>2. ASSUME NEW m \in Counted
        PROVE  /\ SumFunctionOnSet([c \in Accounts |-> IF c \in {} THEN 0 ELSE Owing(c, m)], Accounts)
                    <= usage[m]
               /\ SumFunctionOnSet([c \in Accounts |-> IF c \in {} THEN 0 ELSE Claim(c, m)], Accounts)
                    <= Limit[m]
    <3>1. PICK w : w = [c \in Accounts |-> LiveWeight(c, m)]
      OBVIOUS
    <3>2. /\ [c \in Accounts |-> IF c \in {} THEN 0 ELSE Owing(c, m)] = w
          /\ [c \in Accounts |-> IF c \in {} THEN 0 ELSE Claim(c, m)] = w
      BY <1>15, <3>1
    <3>3. SumFunctionOnSet(w, Accounts) = Inventory(m)
      BY <1>12, <3>1, InventoryIsSum
    <3>4. usage[m] = Inventory(m) /\ Inventory(m) <= Limit[m] /\ Inventory(m) \in Nat
      BY <1>1, <1>8
    <3> QED
      BY <3>2, <3>3, <3>4
  <2> QED
    BY <1>14, <2>1, <2>2 DEF Explained
<1> QED
  BY <1>12, <1>13, <1>16 DEF ArchiveIInv

LEMMA ArchiveStep == ArchiveIInv /\ [ArchiveNext]_archiveVars => ArchiveIInv'
<1> SUFFICES ASSUME ArchiveIInv, [ArchiveNext]_archiveVars PROVE ArchiveIInv'
  OBVIOUS
<1>1. ArchiveTypeOK /\ CallsHaveCompany
  BY DEF ArchiveIInv
<1>2. PICK E \in SUBSET Accounts : Explained(E)
  BY DEF ArchiveIInv
<1>3. BooksAfter => ArchiveIInv'
  BY DEF BooksAfter, ArchiveIInv
<1>4. ASSUME NEW a \in Archivists, NEW c \in Accounts, BeginArchive(a, c) \/ BeginRestore(a, c)
      PROVE  BooksAfter
  BY <1>1, <1>2, <1>4, BeginKept
<1>5. ASSUME NEW a \in Archivists, WriteArchive(a) PROVE BooksAfter
  BY <1>1, <1>2, <1>5, WriteArchiveKept
<1>6. ASSUME NEW a \in Archivists, ReserveCompany(a) PROVE BooksAfter
  BY <1>1, <1>2, <1>6, ReserveCompanyKept
<1>7. ASSUME NEW a \in Archivists, CountDeals(a) PROVE BooksAfter
  BY <1>1, <1>2, <1>7, CountDealsKept
<1>8. ASSUME NEW a \in Archivists, CountDealsFails(a) PROVE BooksAfter
  <2>1. archivist[a].pc # "idle"
    BY <1>8 DEF CountDealsFails, ArchivistAt
  <2> QED
    BY <1>1, <1>2, <1>8, <2>1, NoCallFacts, MishapTurn DEF CountDealsFails, Finish
<1>9. ASSUME NEW a \in Archivists, ReserveDeals(a) PROVE BooksAfter
  BY <1>1, <1>2, <1>9, ReserveDealsKept
<1>10. ASSUME NEW a \in Archivists, WriteRestore(a) PROVE BooksAfter
  BY <1>1, <1>2, <1>10, WriteRestoreKept
<1>11. ASSUME NEW a \in Archivists, WriteRestoreFails(a) PROVE BooksAfter
  <2>1. archivist[a] \in ArchiveCalls /\ archivist[a].pc = "write"
    BY <1>1, <1>11 DEF WriteRestoreFails, ArchivistAt, ArchiveTypeOK
  <2>2. PICK t : t = HeldBy(a)
    OBVIOUS
  <2>3. PICK k : k = [archivist[a] EXCEPT !.pc = "release", !.todo = t]
    OBVIOUS
  <2>4. t \in SUBSET Counted
    BY <2>2 DEF HeldBy, Counted
  <2>5. /\ k \in ArchiveCalls /\ k.pc = "release" /\ k.on = archivist[a].on
        /\ archivist[a].on # NoAccount
    BY <1>1, <2>1, <2>3, <2>4 DEF ArchiveCalls, CallsHaveCompany
  <2>6. archivist' = [archivist EXCEPT ![a] = k]
    BY <1>1, <1>11, <2>2, <2>3 DEF WriteRestoreFails, ArchiveTypeOK
  <2>7. Mishap /\ archived' = archived /\ deals' = deals /\ usage' = usage /\ held' = held
    BY <1>11 DEF WriteRestoreFails
  <2> QED
    BY <1>1, <1>2, <2>1, <2>5, <2>6, <2>7, MishapTurn
<1>12. ASSUME NEW a \in Archivists, CommitRestore(a) PROVE BooksAfter
  BY <1>1, <1>2, <1>12, CommitRestoreKept
<1>13. ASSUME NEW a \in Archivists, StopArchivist(a) PROVE BooksAfter
  <2>1. archivist[a].pc # "idle"
    BY <1>13 DEF StopArchivist, ArchivistAt
  <2> QED
    BY <1>1, <1>2, <1>13, <2>1, NoCallFacts, MishapTurn DEF StopArchivist, Finish
<1>14. ASSUME NEW a \in Archivists, NEW m \in Counted, Recount(a, m) PROVE BooksAfter
  BY <1>1, <1>2, <1>14, RecountKept
<1>15. ASSUME NEW a \in Archivists, NEW m \in Counted, ReleaseOne(a, m) PROVE BooksAfter
  BY <1>1, <1>2, <1>15, ReleaseOneKept
<1>16. ASSUME NEW c \in Accounts, MoreDeals(c) PROVE BooksAfter
  BY <1>1, <1>2, <1>16, MoreDealsKept
<1>17. ASSUME NEW c \in Accounts, FewerDeals(c) PROVE BooksAfter
  BY <1>1, <1>2, <1>17, FewerDealsKept
<1>18. ASSUME NEW c \in Accounts, NEW m \in Counted, OverrunHold(c, m) PROVE BooksAfter
  BY <1>1, <1>2, <1>18, OverrunKept
<1>19. CASE UNCHANGED archiveVars
  <2>1. /\ archived' = archived /\ deals' = deals /\ usage' = usage /\ held' = held
        /\ archivist' = archivist /\ mishaps' = mishaps
    BY <1>19 DEF archiveVars
  <2>2. PICK c \in Accounts : TRUE
    BY ArchiveAssumption
  <2>3. ArchiveTypeOK' /\ CallsHaveCompany'
    BY <1>1, <2>1 DEF ArchiveTypeOK, CallsHaveCompany
  <2>4. \A x \in Accounts : Unconcerned(x)
    BY <2>1 DEF Unconcerned
  <2>5. c \notin E => /\ Regular(c)'
                      /\ \A m \in Counted : /\ Owing(c, m)' <= Owing(c, m)
                                            /\ Claim(c, m)' <= Claim(c, m)
    <3>1. c \notin E => Regular(c)
      BY <1>2 DEF Explained
    <3>2. \A m \in Counted : Owing(c, m) \in Nat /\ Claim(c, m) \in Nat
      BY <1>1, WeightsNat
    <3> QED
      BY <2>4, <3>1, <3>2, UnconcernedKept
  <2>6. Explained(E)'
    BY <1>1, <1>2, <2>1, <2>3, <2>4, <2>5, QuietlyKept
  <2> QED
    BY <2>3, <2>6 DEF ArchiveIInv
<1>20. ASSUME NEW a \in Archivists, ArchivistStep(a) PROVE BooksAfter
  BY <1>20, <1>5, <1>6, <1>7, <1>8, <1>9, <1>10, <1>11, <1>12, <1>13, <1>14, <1>15
  DEF ArchivistStep
<1>21. CASE ArchiveNext
  BY <1>3, <1>4, <1>16, <1>17, <1>18, <1>20, <1>21 DEF ArchiveNext
<1> QED
  BY <1>19, <1>21

\* What the books say of all companies: those in doubt, one for each mishap, are
\* what is there beyond the limit.
LEMMA ArchiveSafety == ArchiveIInv => ArchiveInv
<1> SUFFICES ASSUME ArchiveIInv PROVE ArchiveInv
  OBVIOUS
<1>1. ArchiveTypeOK /\ CallsHaveCompany
  BY DEF ArchiveIInv
<1>2. PICK E \in SUBSET Accounts : Explained(E)
  BY DEF ArchiveIInv
<1>3. IsFiniteSet(Accounts) /\ IsFiniteSet(E) /\ Accounts # {}
  BY ArchiveAssumption, FS_Subset
<1>4. Cardinality(E) \in Nat /\ Cardinality(E) <= mishaps /\ mishaps \in Nat
      /\ (Cardinality(E) = 0 <=> E = {})
  BY <1>1, <1>2, <1>3, FS_CardinalityType, FS_EmptySet, ArchiveAssumption
  DEF Explained, ArchiveTypeOK
<1>5. \A c \in Accounts \ E : Regular(c)
  BY <1>2 DEF Explained
<1>6. \A c \in Accounts, m \in Counted :
        /\ LiveWeight(c, m) \in Nat /\ HeldWeight(c, m) \in Nat
        /\ Owing(c, m) \in Nat /\ Claim(c, m) \in Nat
  BY <1>1, WeightsNat
<1>7. mishaps = 0 => E = {}
  BY <1>4
<1>8. HoldsOwned
  <2> SUFFICES ASSUME NEW c \in Accounts, NEW m \in Counted,
                      held[c][m].status = "RESERVED", mishaps = 0
               PROVE  \E a \in Archivists : /\ archivist[a].on = c
                        /\ archivist[a].pc \in {"count", "deals", "write", "commit", "release"}
    BY DEF HoldsOwned
  <2>1. HoldsHaveOwner(c)
    BY <1>5, <1>7 DEF Regular
  <2> QED
    BY <2>1 DEF HoldsHaveOwner, Owns, OwnsDeals, Counted
<1>9. BothCounted
  <2> SUFFICES ASSUME mishaps = 0, NEW m \in Counted PROVE usage[m] + HeldOf(m) >= Inventory(m)
    BY DEF BothCounted
  <2>1. PICK w : w = [c \in Accounts |-> Owing(c, m)]
    OBVIOUS
  <2>2. PICK v : v = [c \in Accounts |-> HeldWeight(c, m)]
    OBVIOUS
  <2>3. PICK u : u = [c \in Accounts |-> w[c] + v[c]]
    OBVIOUS
  <2>4. PICK z : z = [c \in Accounts |-> LiveWeight(c, m)]
    OBVIOUS
  <2>5. \A c \in Accounts : w[c] \in Nat /\ v[c] \in Nat /\ z[c] \in Nat /\ u[c] = w[c] + v[c]
                            /\ u[c] \in Nat
    BY <1>6, <2>1, <2>2, <2>3, <2>4
  <2>6. \A c \in Accounts : z[c] <= u[c]
    <3> SUFFICES ASSUME NEW c \in Accounts PROVE z[c] <= u[c]
      OBVIOUS
    <3>1. LiveWeight(c, m) <= Owing(c, m) + HeldWeight(c, m)
      BY <1>6 DEF Owing, Beyond
    <3> QED
      BY <2>1, <2>2, <2>4, <2>5, <3>1
  <2>7. SumFunctionOnSet(z, Accounts) <= SumFunctionOnSet(u, Accounts)
    BY <1>3, <2>5, <2>6, SumBounds
  <2>8. SumFunctionOnSet(u, Accounts) = SumFunctionOnSet(w, Accounts) + SumFunctionOnSet(v, Accounts)
    BY <1>3, <2>5, SumAdds
  <2>9. SumFunctionOnSet(w, Accounts) <= usage[m]
    <3>1. w = [c \in Accounts |-> IF c \in E THEN 0 ELSE Owing(c, m)]
      BY <1>7, <2>1
    <3> QED
      BY <1>2, <3>1 DEF Explained
  <2>10. Inventory(m) = SumFunctionOnSet(z, Accounts) /\ HeldOf(m) = SumFunctionOnSet(v, Accounts)
    BY <1>1, <2>2, <2>4, InventoryIsSum, HeldIsSum
  <2>11. /\ SumFunctionOnSet(w, Accounts) \in Nat /\ SumFunctionOnSet(v, Accounts) \in Nat
         /\ SumFunctionOnSet(z, Accounts) \in Nat /\ usage[m] \in Nat
    BY <1>1, <1>3, <2>5, SumNat, MetricsNat
  <2> QED
    BY <2>7, <2>8, <2>9, <2>10, <2>11
\* What is there of the companies of E is what is there beyond what fits.
<1>10. ASSUME NEW m \in Counted, NEW x \in Nat, \A c \in E : LiveWeight(c, m) <= x
       PROVE  Inventory(m) <= Limit[m] + x * mishaps
  <2>1. PICK w : w = [c \in Accounts |-> IF c \in E THEN 0 ELSE Claim(c, m)]
    OBVIOUS
  <2>2. PICK v : v = [c \in Accounts |-> IF c \in E THEN LiveWeight(c, m) ELSE 0]
    OBVIOUS
  <2>3. PICK u : u = [c \in Accounts |-> w[c] + v[c]]
    OBVIOUS
  <2>4. PICK z : z = [c \in Accounts |-> LiveWeight(c, m)]
    OBVIOUS
  <2>5. \A c \in Accounts : w[c] \in Nat /\ v[c] \in Nat /\ z[c] \in Nat /\ u[c] = w[c] + v[c]
                            /\ u[c] \in Nat
    BY <1>6, <2>1, <2>2, <2>3, <2>4
  <2>6. \A c \in Accounts : z[c] <= u[c]
    <3> SUFFICES ASSUME NEW c \in Accounts PROVE z[c] <= u[c]
      OBVIOUS
    <3>1. CASE c \in E
      BY <1>6, <2>1, <2>2, <2>4, <2>5, <3>1
    <3>2. CASE c \notin E
      <4>1. LiveWeight(c, m) <= Claim(c, m)
        <5>1. CASE \E a \in Archivists : Awaits(a, c, m)
          <6>1. PICK a \in Archivists : Awaits(a, c, m)
            BY <5>1
          <6>2. HoldsInHand(a, c)
            BY <1>5, <3>2 DEF Regular
          <6>3. CASE m = "COMPANIES"
            <7>1. Owns(a, c)
              BY <6>1, <6>3 DEF Awaits, Owns
            <7>2. HeldWeight(c, m) = 1
              BY <6>2, <6>3, <7>1, OwnedIsHeld DEF HeldWeight
            <7> QED
              BY <5>1, <6>3, <7>2 DEF Claim, LiveWeight
          <6>4. CASE m = "OPPORTUNITIES"
            <7>1. OwnsDeals(a, c) /\ deals[c] <= archivist[a].amount
              BY <6>1, <6>2, <6>4 DEF Awaits, OwnsDeals, HoldsInHand
            <7>2. HeldWeight(c, m) = archivist[a].amount
              BY <6>2, <6>4, <7>1, OwnedIsHeld DEF HeldWeight
            <7>3. Claim(c, m) = archivist[a].amount
              BY <5>1, <7>2 DEF Claim
            <7>4. LiveWeight(c, m) = 0 \/ LiveWeight(c, m) = deals[c]
              BY <6>4 DEF LiveWeight
            <7> QED
              BY <1>6, <7>1, <7>3, <7>4
          <6> QED
            BY <6>3, <6>4 DEF Counted
        <5>2. CASE ~\E a \in Archivists : Awaits(a, c, m)
          BY <1>6, <5>2 DEF Claim
        <5> QED
          BY <5>1, <5>2
      <4> QED
        BY <1>6, <2>1, <2>2, <2>4, <2>5, <3>2, <4>1
    <3> QED
      BY <3>1, <3>2
  <2>7. SumFunctionOnSet(z, Accounts) <= SumFunctionOnSet(u, Accounts)
    BY <1>3, <2>5, <2>6, SumBounds
  <2>8. SumFunctionOnSet(u, Accounts) = SumFunctionOnSet(w, Accounts) + SumFunctionOnSet(v, Accounts)
    BY <1>3, <2>5, SumAdds
  <2>9. SumFunctionOnSet(w, Accounts) <= Limit[m]
    BY <1>2, <2>1 DEF Explained
  <2>10. Inventory(m) = SumFunctionOnSet(z, Accounts)
    BY <1>1, <2>4, InventoryIsSum
  <2>11. SumFunctionOnSet(v, Accounts) = SumFunctionOnSet(v, E)
    <3>1. \A c \in Accounts \ E : v[c] = 0
      BY <2>2
    <3> QED
      BY <1>3, <2>5, <3>1, SumSparse
  <2>12. SumFunctionOnSet(v, E) <= x * Cardinality(E)
    <3>1. \A c \in E : v[c] \in Nat /\ v[c] <= x
      BY <1>10, <2>2, <2>5
    <3> QED
      BY <1>3, <3>1, SumOfAtMost
  <2>13. x * Cardinality(E) <= x * mishaps /\ x * Cardinality(E) \in Nat /\ x * mishaps \in Nat
    BY <1>4
  <2>14. /\ SumFunctionOnSet(w, Accounts) \in Nat /\ SumFunctionOnSet(v, Accounts) \in Nat
         /\ SumFunctionOnSet(z, Accounts) \in Nat /\ Limit[m] \in Nat
    BY <1>1, <1>3, <2>5, SumNat, MetricsNat
  <2> QED
    BY <2>7, <2>8, <2>9, <2>10, <2>11, <2>12, <2>13, <2>14
<1>11. LimitsKept
  <2>1. Inventory("COMPANIES") <= Limit["COMPANIES"] + mishaps
    <3>1. \A c \in E : LiveWeight(c, "COMPANIES") <= 1
      BY DEF LiveWeight
    <3>2. Inventory("COMPANIES") <= Limit["COMPANIES"] + 1 * mishaps
      BY <1>10, <3>1 DEF Counted
    <3> QED
      BY <1>4, <3>2
  <2>2. PICK c \in Accounts : \A x \in Accounts : MaxDeals[x] <= MaxDeals[c]
    <3>1. \A x \in Accounts : MaxDeals[x] \in Nat
      BY ArchiveAssumption
    <3> QED
      BY <1>3, <3>1, GreatestOf
  <2>3. \A x \in E : LiveWeight(x, "OPPORTUNITIES") <= MaxDeals[c]
    BY <1>1, <2>2, ArchiveAssumption DEF LiveWeight, ArchiveTypeOK
  <2>4. Inventory("OPPORTUNITIES") <= Limit["OPPORTUNITIES"] + MaxDeals[c] * mishaps
    <3>1. MaxDeals[c] \in Nat
      BY ArchiveAssumption
    <3> QED
      BY <1>10, <2>3, <3>1 DEF Counted
  <2> QED
    BY <2>1, <2>4 DEF LimitsKept
<1> QED
  BY <1>1, <1>8, <1>9, <1>11 DEF ArchiveInv

\* With no mishap, what is there of both metrics is counted or held, and every hold
\* is that of a restore under way; each mishap lets at most one company over the
\* limit, with its opportunities: however archives, restores, recounts and
\* opportunities interleave, for any number of companies and callers
\* (companies.service.ts:794-803, :834-892).
THEOREM ArchiveSafe == ArchiveSpec => []ArchiveInv
BY ArchiveStart, ArchiveStep, ArchiveSafety, PTL DEF ArchiveSpec
=============================================================================
