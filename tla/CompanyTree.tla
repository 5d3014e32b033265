----------------------------- MODULE CompanyTree ------------------------------
(***************************************************************************)
(* The hierarchy of the companies of one organization                      *)
(* (replaceHierarchy of src/companies/companies.service.ts): each company  *)
(* may have many parents and many subsidiaries.                            *)
(*                                                                         *)
(* An edit replaces all relations of a company in one transaction, whose   *)
(* statements are steps of their own: an edit of nothing else writes no    *)
(* field of the company and so locks no row, and edits even of one company *)
(* may overlap.  Companies are neither archived nor deleted here; that the *)
(* related ones exist is read before the transaction.                      *)
(*                                                                         *)
(* outdated is a history variable: the companies whose relations were last *)
(* written after others had come in since the edit's walk.                 *)
(***************************************************************************)
CONSTANTS Companies, Editors, NoCompany

ASSUME CompanyTreeAssumption == NoCompany \notin Companies

VARIABLES
    relations,  \* CompanyHierarchyRelation, <<parent, subsidiary>>
    edit,       \* the edits in flight
    outdated

treeVars == <<relations, edit, outdated>>

EditSteps == {"idle", "reverse", "delete", "create"}

\* gone: what deleteMany found and nobody else has deleted since, not yet
\* committed; overtaken: relations came in since the walk.
TreeEdits == [pc : EditSteps, company : Companies \cup {NoCompany},
              parents : SUBSET Companies, subsidiaries : SUBSET Companies,
              gone : SUBSET (Companies \X Companies), overtaken : BOOLEAN]

NoEdit == [pc |-> "idle", company |-> NoCompany, parents |-> {}, subsidiaries |-> {},
           gone |-> {}, overtaken |-> FALSE]

CompanyTreeTypeOK ==
  /\ relations \subseteq Companies \X Companies
  /\ edit \in [Editors -> TreeEdits]
  /\ outdated \subseteq Companies

CompanyTreeInit ==
  relations = {} /\ outdated = {} /\ edit = [e \in Editors |-> NoEdit]

Touching(c) == {r \in relations : c \in {r[1], r[2]}}
SubsidiariesOf(c) == {s \in Companies : <<c, s>> \in relations}
Written(c, parents, subsidiaries) ==
  {<<p, c>> : p \in parents} \cup {<<c, s>> : s \in subsidiaries}

EditAt(e, pc) == edit[e].pc = pc

-----------------------------------------------------------------------------

\* Mutant: the walk goes from the parents to the subsidiaries.
NoWayBackwards(R, S, P) ==
  \E seen \in SUBSET Companies :
    /\ P \subseteq seen /\ S \cap seen = {}
    /\ \A r \in R : r[1] \in seen => r[2] \in seen

\* reaches: from the subsidiaries S no walk along R meets a parent of P; what
\* it has seen by then is closed under R.
NoWay(R, S, P) ==
  \E seen \in SUBSET Companies :
    /\ S \subseteq seen /\ P \cap seen = {}
    /\ \A r \in R : r[1] \in seen => r[2] \in seen

\* create and update, to the end of assertHierarchyAcyclic: a side that is not
\* given is read and written back; no company is related to itself or on both
\* sides; and the new relations close a cycle just when a subsidiary reaches a
\* parent without the old relations of the company.
WalkHierarchy(e, c) ==
  \E parents, subsidiaries \in SUBSET (Companies \ {c}) :
    /\ EditAt(e, "idle")
    /\ parents \cap subsidiaries = {}
    /\ NoWay(relations \ Touching(c), subsidiaries, parents)
    /\ edit' = [edit EXCEPT ![e] =
         [NoEdit EXCEPT !.pc = "reverse", !.company = c, !.parents = parents,
                        !.subsidiaries = subsidiaries]]
    /\ UNCHANGED <<relations, outdated>>

\* A stored relation the other way round refuses, although it would be
\* deleted: one edit cannot turn a relation around.
CheckReverse(e) ==
  LET w == edit[e] IN
  /\ EditAt(e, "reverse")
  /\ edit' = [edit EXCEPT ![e] =
       IF relations \cap Written(w.company, w.subsidiaries, w.parents) = {}
       THEN [w EXCEPT !.pc = "delete"] ELSE NoEdit]
  /\ UNCHANGED <<relations, outdated>>

\* deleteMany, as of its start
DeleteRelations(e) ==
  LET w == edit[e] IN
  /\ EditAt(e, "delete")
  /\ edit' = [edit EXCEPT ![e] = [w EXCEPT !.pc = "create", !.gone = Touching(w.company)]]
  /\ UNCHANGED <<relations, outdated>>

\* createMany and the commit.  What came in since deleteMany stays, and another
\* deleteMany that waited for a row skips it, although it be inserted again.
CreateRelations(e) ==
  LET w == edit[e]
      new == Written(w.company, w.parents, w.subsidiaries)
  IN
  /\ EditAt(e, "create")
  /\ relations' = (relations \ w.gone) \cup new
  /\ outdated' = IF w.overtaken THEN outdated \cup {w.company} ELSE outdated \ {w.company}
  /\ edit' = [f \in Editors |->
       IF f = e \/ EditAt(f, "idle") THEN NoEdit
       ELSE [edit[f] EXCEPT !.gone = @ \ w.gone, !.overtaken = @ \/ new # {}]]

\* The database refuses or the process stops.
StopEdit(e) ==
  /\ ~EditAt(e, "idle")
  /\ edit' = [edit EXCEPT ![e] = NoEdit]
  /\ UNCHANGED <<relations, outdated>>

CompanyTreeNext ==
  \E e \in Editors :
    \/ \E c \in Companies : WalkHierarchy(e, c)
    \/ CheckReverse(e) \/ DeleteRelations(e) \/ CreateRelations(e)
    \/ StopEdit(e)

CompanyTreeSpec == CompanyTreeInit /\ [][CompanyTreeNext]_treeVars

-----------------------------------------------------------------------------
(* Properties                                                              *)

\* "direct or multi-level cycles are rejected" (README.md:1916): every cycle
\* passes through a company whose edit was overtaken since its walk
\* (companies.service.ts:1265).
CyclesOutdated ==
  \A S \in SUBSET (Companies \ outdated) : S # {} =>
    \E c \in S : SubsidiariesOf(c) \cap S = {}

CompanyTreeInv == CompanyTreeTypeOK /\ CyclesOutdated
=============================================================================
