-------------------------- MODULE RequirementGraph --------------------------
(***************************************************************************)
(* The requirements of an open tender, their hierarchy and their           *)
(* dependencies (src/technical-center/technical-center.service.ts).        *)
(*                                                                         *)
(* Both relations must stay free of cycles.  The code looks for a cycle in *)
(* one query and writes in another, by id: nothing but the foreign keys    *)
(* and the unique pair stands between the two.                             *)
(*                                                                         *)
(* crossedUp and crossedDeps are history variables: the pairs written      *)
(* after another pair had come in since their walk.                        *)
(***************************************************************************)
CONSTANTS Items, GraphCalls, NoItem

ASSUME RequirementGraphAssumption == NoItem \notin Items

VARIABLES live,         \* rows of TenderRequirement
          ups,          \* parentRequirementId, as pairs <<child, parent>>
          deps,         \* rows of TenderRequirementDependency, <<item, needed item>>
          crossedUp, crossedDeps,
          walk          \* the requests in flight

graphVars == <<live, ups, deps, crossedUp, crossedDeps, walk>>

Pairs == Items \X Items

\* setsUp, setsDeps: what the call changes; adds: one more dependency instead
\* of a new set of them; lateUp, lateDeps: a pair came in since the walk.
Walks == [busy : BOOLEAN, item : Items \cup {NoItem}, setsUp : BOOLEAN, up : SUBSET Items,
          setsDeps : BOOLEAN, needs : SUBSET Items, adds : BOOLEAN,
          lateUp : BOOLEAN, lateDeps : BOOLEAN]

IdleWalk == [busy |-> FALSE, item |-> NoItem, setsUp |-> FALSE, up |-> {},
             setsDeps |-> FALSE, needs |-> {}, adds |-> FALSE,
             lateUp |-> FALSE, lateDeps |-> FALSE]

From(i, S) == {<<i, j>> : j \in S}
Out(R, i)  == {e \in R : e[1] = i}

At(R, i) == {e \in R : e[1] = i \/ e[2] = i}

RequirementGraphTypeOK ==
  /\ live \subseteq Items
  /\ ups \subseteq live \X live /\ deps \subseteq live \X live
  /\ \A i \in live : \A e, f \in Out(ups, i) : e = f
  /\ crossedUp \subseteq ups /\ crossedDeps \subseteq deps
  /\ walk \in [GraphCalls -> Walks]

GraphInit ==
  /\ live = {} /\ ups = {} /\ deps = {}
  /\ crossedUp = {} /\ crossedDeps = {}
  /\ walk = [r \in GraphCalls |-> IdleWalk]

-----------------------------------------------------------------------------
(* The walk                                                                *)

\* Mutant: the walk follows the pairs backwards.
ClearBackwards(R, i, S) ==
  \E seen \in SUBSET Items :
    /\ S \subseteq seen /\ i \notin seen
    /\ \A e \in R : e[2] \in seen => e[1] \in seen

\* A walk along R from the items of S ends without meeting i: what it has
\* seen by then contains S, is closed under R and leaves i out
\* (assertNoDependencyCycle, and the cursor of assertRequirementParent).
Clear(R, i, S) ==
  \E seen \in SUBSET Items :
    /\ S \subseteq seen /\ i \notin seen
    /\ \A e \in R : e[1] \in seen => e[2] \in seen

\* A pair came in: what the others walked on is no longer all there is.
Noticed(up, dep, A) ==
  [q \in GraphCalls |->
     IF q \in A THEN IdleWalk
     ELSE IF walk[q].busy
       THEN [walk[q] EXCEPT !.lateUp = @ \/ up, !.lateDeps = @ \/ dep]
       ELSE walk[q]]

-----------------------------------------------------------------------------
(* Requests                                                                *)

\* addRequirement: nothing points at the new row, so nothing is walked.
AddRequirement(i) ==
  \E p \in {{}} \cup {{j} : j \in live}, S \in SUBSET live :
    /\ i \notin live
    /\ live' = live \cup {i}
    /\ ups' = ups \cup From(i, p)
    /\ deps' = deps \cup From(i, S)
    /\ walk' = Noticed(p # {}, S # {}, {})
    /\ UNCHANGED <<crossedUp, crossedDeps>>

\* updateRequirement: assertRequirementParent and one assertNoDependencyCycle
\* for every dependency.
WalkForUpdate(r) ==
  \E i \in live, setsUp, setsDeps \in BOOLEAN,
     p \in {{}} \cup {{j} : j \in live}, S \in SUBSET live :
    /\ ~walk[r].busy
    /\ setsUp \/ setsDeps
    /\ ~setsUp => p = {}
    /\ ~setsDeps => S = {}
    /\ Clear(ups, i, p)
    /\ Clear(deps, i, S)
    /\ walk' = [walk EXCEPT ![r] =
         [IdleWalk EXCEPT !.busy = TRUE, !.item = i, !.setsUp = setsUp, !.up = p,
                          !.setsDeps = setsDeps, !.needs = S]]
    /\ UNCHANGED <<live, ups, deps, crossedUp, crossedDeps>>

\* updateRequirement: the row and its dependencies in one write
UpdateRequirement(r) ==
  LET w == walk[r]
      i == w.item
      newUps  == From(i, w.up)
      newDeps == From(i, w.needs)
  IN
  /\ w.busy /\ ~w.adds
  /\ {i} \cup w.up \cup w.needs \subseteq live
  /\ ups' = IF w.setsUp THEN (ups \ Out(ups, i)) \cup newUps ELSE ups
  /\ crossedUp' = IF w.setsUp THEN (crossedUp \ Out(ups, i))
                                     \cup (IF w.lateUp THEN newUps ELSE {})
                              ELSE crossedUp
  /\ deps' = IF w.setsDeps THEN (deps \ Out(deps, i)) \cup newDeps ELSE deps
  /\ crossedDeps' = IF w.setsDeps THEN (crossedDeps \ Out(deps, i))
                                         \cup (IF w.lateDeps THEN newDeps ELSE {})
                                  ELSE crossedDeps
  /\ walk' = Noticed(w.up # {}, w.needs # {}, {r})
  /\ UNCHANGED live

\* addRequirementDependency: the walk
WalkForDependency(r) ==
  \E i, j \in live :
    /\ ~walk[r].busy
    /\ Clear(deps, i, {j})
    /\ walk' = [walk EXCEPT ![r] =
         [IdleWalk EXCEPT !.busy = TRUE, !.item = i, !.setsDeps = TRUE, !.needs = {j},
                          !.adds = TRUE]]
    /\ UNCHANGED <<live, ups, deps, crossedUp, crossedDeps>>

\* addRequirementDependency: the row, unless the pair is there
AddRequirementDependency(r) ==
  LET w == walk[r]
      pair == From(w.item, w.needs)
  IN
  /\ w.busy /\ w.adds
  /\ {w.item} \cup w.needs \subseteq live
  /\ pair \cap deps = {}
  /\ deps' = deps \cup pair
  /\ crossedDeps' = IF w.lateDeps THEN crossedDeps \cup pair ELSE crossedDeps
  /\ walk' = Noticed(FALSE, TRUE, {r})
  /\ UNCHANGED <<live, ups, crossedUp>>

\* A check refuses, a row is gone, the pair exists or the process stops.
GiveUpWalk(r) ==
  /\ walk[r].busy
  /\ walk' = [walk EXCEPT ![r] = IdleWalk]
  /\ UNCHANGED <<live, ups, deps, crossedUp, crossedDeps>>

\* removeRequirementDependency
RemoveRequirementDependency ==
  \E e \in deps :
    /\ deps' = deps \ {e}
    /\ crossedDeps' = crossedDeps \ {e}
    /\ UNCHANGED <<live, ups, crossedUp, walk>>

\* removeRequirement: children forbid it, dependencies go with it, and what
\* is in flight on it can only fail.
RemoveRequirement(i) ==
  /\ i \in live /\ \A e \in ups : e[2] # i
  /\ live' = live \ {i}
  /\ ups' = ups \ At(ups, i) /\ crossedUp' = crossedUp \ At(ups, i)
  /\ deps' = deps \ At(deps, i) /\ crossedDeps' = crossedDeps \ At(deps, i)
  /\ walk' = [r \in GraphCalls |->
       IF i \in {walk[r].item} \cup walk[r].up \cup walk[r].needs THEN IdleWalk ELSE walk[r]]

GraphStep(r) ==
  \/ WalkForUpdate(r) \/ UpdateRequirement(r)
  \/ WalkForDependency(r) \/ AddRequirementDependency(r)
  \/ GiveUpWalk(r)

GraphNext ==
  \/ RemoveRequirementDependency
  \/ \E i \in Items : AddRequirement(i) \/ RemoveRequirement(i)
  \/ \E r \in GraphCalls : GraphStep(r)

GraphSpec == GraphInit /\ [][GraphNext]_graphVars

-----------------------------------------------------------------------------
(* Properties                                                              *)

\* No cycle: every set of items has one that leads to none of the set.
Acyclic(R) ==
  \A S \in SUBSET Items : S # {} => \E i \in S : \A j \in S : <<i, j>> \notin R

\* The dependencies of the requirements have no cycle without a pair that was
\* written after another came in since its walk: the walk itself misses none,
\* also when sets of dependencies are replaced, rows deleted and pairs removed
\* while it is in flight (technical-center.service.ts:1097).
DependenciesAcyclic == Acyclic(deps \ crossedDeps)

\* The same of the hierarchy, whose walk follows the parents
\* (technical-center.service.ts:1080) and would follow a cycle for ever.
HierarchyAcyclic == Acyclic(ups \ crossedUp)

\* The requirements of a tender: a parent and dependencies that exist, and no cycle
\* but by writes that crossed.
GraphInv == RequirementGraphTypeOK /\ DependenciesAcyclic /\ HierarchyAcyclic
=============================================================================
