------------------------ MODULE TechnicalCentre_proofs ------------------------
(***************************************************************************)
(* The requirements of a tender have no cycle but by writes that crossed,  *)
(* what is ready or submitted stands on approved reviews, and the records  *)
(* of the centre keep to their lifecycles, for any number of requirements, *)
(* requests, review rounds and versions of a document.                     *)
(***************************************************************************)
EXTENDS RequirementGraph, Tenders, TechnicalRecords, TLAPS

(***************************************************************************)
(* Graphs: what removes pairs, and what adds pairs under a clear walk,     *)
(* makes no cycle.                                                         *)
(***************************************************************************)
LEMMA FromFacts ==
  ASSUME NEW i, NEW S
  PROVE  /\ \A j : <<i, j>> \in From(i, S) <=> j \in S
         /\ \A k, j : <<k, j>> \in From(i, S) => k = i
         /\ \A e \in From(i, S) : e[1] = i /\ e[2] \in S
BY DEF From

LEMMA AcyclicSubset ==
  ASSUME NEW R, NEW Q, Q \subseteq R, Acyclic(R)
  PROVE  Acyclic(Q)
BY DEF Acyclic

LEMMA ClearSubset ==
  ASSUME NEW R, NEW Q, Q \subseteq R, NEW i, NEW S, Clear(R, i, S)
  PROVE  Clear(Q, i, S)
BY DEF Clear

\* What a walk from S along R saw is closed under R: a cycle through i would
\* have to leave it.
LEMMA AcyclicAfterWalk ==
  ASSUME NEW R, NEW Q, R \subseteq Q, NEW i \in Items, NEW S, Acyclic(R), Clear(Q, i, S)
  PROVE  Acyclic(R \cup From(i, S))
<1> SUFFICES ASSUME NEW T \in SUBSET Items, T # {}
             PROVE  \E k \in T : \A j \in T : <<k, j>> \notin R \cup From(i, S)
  BY DEF Acyclic
<1>1. PICK seen \in SUBSET Items :
        /\ S \subseteq seen /\ i \notin seen
        /\ \A e \in Q : e[1] \in seen => e[2] \in seen
  BY DEF Clear
<1>2. CASE T \cap seen # {}
  <2>1. PICK k \in T \cap seen : \A j \in T \cap seen : <<k, j>> \notin R
    BY <1>2 DEF Acyclic
  <2>2. ASSUME NEW j \in T PROVE <<k, j>> \notin R \cup From(i, S)
    <3>1. <<k, j>> \notin From(i, S)
      BY <1>1, <2>1, FromFacts
    <3>2. <<k, j>> \in R => j \in seen
      <4>1. <<k, j>>[1] = k /\ <<k, j>>[2] = j
        OBVIOUS
      <4>2. QED
        BY <1>1, <2>1, <4>1
    <3>3. QED
      BY <2>1, <3>1, <3>2
  <2>3. QED
    BY <2>1, <2>2
<1>3. CASE T \cap seen = {}
  <2>1. PICK k \in T : \A j \in T : <<k, j>> \notin R
    BY DEF Acyclic
  <2>2. ASSUME NEW j \in T PROVE <<k, j>> \notin From(i, S)
    BY <1>1, <1>3, FromFacts
  <2>3. QED
    BY <2>1, <2>2
<1>4. QED
  BY <1>2, <1>3

\* A row that is new has no pair that leads to it.
LEMMA ClearOfNew ==
  ASSUME live \subseteq Items, NEW R, R \subseteq live \X live, NEW i, i \notin live,
         NEW S \in SUBSET live
  PROVE  Clear(R, i, S)
<1>1. \A e \in R : e[2] \in live
  OBVIOUS
<1>2. live \in SUBSET Items
  OBVIOUS
<1>3. QED
  BY <1>1, <1>2 DEF Clear

(***************************************************************************)
(* The walks in flight.                                                    *)
(***************************************************************************)

\* What a walk found clear is clear as long as no pair came in.
WalksHold ==
  \A r \in GraphCalls : walk[r].busy =>
    /\ walk[r].item \in Items
    /\ \A x, y \in walk[r].up : x = y
    /\ walk[r].adds => walk[r].setsDeps
    /\ walk[r].setsUp /\ ~walk[r].lateUp => Clear(ups, walk[r].item, walk[r].up)
    /\ walk[r].setsDeps /\ ~walk[r].lateDeps => Clear(deps, walk[r].item, walk[r].needs)

GraphIInv == GraphInv /\ WalksHold

LEMMA IdleWalkType == IdleWalk \in Walks /\ ~IdleWalk.busy
BY DEF IdleWalk, Walks

LEMMA GraphInitInv == GraphInit => GraphIInv
<1> SUFFICES ASSUME GraphInit PROVE GraphIInv
  OBVIOUS
<1>1. RequirementGraphTypeOK
  BY IdleWalkType DEF GraphInit, RequirementGraphTypeOK, Out
<1>2. DependenciesAcyclic /\ HierarchyAcyclic
  BY DEF GraphInit, DependenciesAcyclic, HierarchyAcyclic, Acyclic
<1>3. WalksHold
  BY IdleWalkType DEF GraphInit, WalksHold
<1>4. QED
  BY <1>1, <1>2, <1>3 DEF GraphIInv, GraphInv

\* What a request that adds pairs does to the walks of the others.
LEMMA NoticedFields ==
  ASSUME walk \in [GraphCalls -> Walks], NEW up \in BOOLEAN, NEW dep \in BOOLEAN, NEW A,
         walk' = Noticed(up, dep, A)
  PROVE  /\ walk' \in [GraphCalls -> Walks]
         /\ \A q \in GraphCalls : walk'[q].busy =>
              /\ walk[q].busy
              /\ walk'[q].item = walk[q].item /\ walk'[q].up = walk[q].up
              /\ walk'[q].needs = walk[q].needs
              /\ walk'[q].setsUp = walk[q].setsUp /\ walk'[q].setsDeps = walk[q].setsDeps
              /\ walk'[q].adds = walk[q].adds
              /\ ~walk'[q].lateUp => ~walk[q].lateUp /\ ~up
              /\ ~walk'[q].lateDeps => ~walk[q].lateDeps /\ ~dep
<1>1. \A q \in GraphCalls :
        walk'[q] = IF q \in A THEN IdleWalk
                   ELSE IF walk[q].busy
                     THEN [walk[q] EXCEPT !.lateUp = @ \/ up, !.lateDeps = @ \/ dep]
                     ELSE walk[q]
  BY DEF Noticed
<1>2. ASSUME NEW w \in Walks
      PROVE  LET n == [w EXCEPT !.lateUp = @ \/ up, !.lateDeps = @ \/ dep]
             IN  /\ n \in Walks
                 /\ n.busy = w.busy /\ n.item = w.item /\ n.up = w.up /\ n.needs = w.needs
                 /\ n.setsUp = w.setsUp /\ n.setsDeps = w.setsDeps /\ n.adds = w.adds
                 /\ ~n.lateUp => ~w.lateUp /\ ~up
                 /\ ~n.lateDeps => ~w.lateDeps /\ ~dep
  BY DEF Walks
<1>3. walk' \in [GraphCalls -> Walks]
  <2>1. \A q \in GraphCalls : walk'[q] \in Walks
    BY ZenonT(40), <1>1, <1>2, IdleWalkType
  <2>2. walk' = [q \in GraphCalls |-> walk'[q]]
    BY DEF Noticed
  <2>3. QED
    BY <2>1, <2>2
<1>4. ASSUME NEW q \in GraphCalls, walk'[q].busy
      PROVE  /\ walk[q].busy
             /\ walk'[q].item = walk[q].item /\ walk'[q].up = walk[q].up
             /\ walk'[q].needs = walk[q].needs
             /\ walk'[q].setsUp = walk[q].setsUp /\ walk'[q].setsDeps = walk[q].setsDeps
             /\ walk'[q].adds = walk[q].adds
             /\ ~walk'[q].lateUp => ~walk[q].lateUp /\ ~up
             /\ ~walk'[q].lateDeps => ~walk[q].lateDeps /\ ~dep
  <2>1. walk[q] \in Walks /\ q \notin A
    BY <1>1, <1>4, IdleWalkType
  <2>2. CASE walk[q].busy
    <3> DEFINE n == [walk[q] EXCEPT !.lateUp = @ \/ up, !.lateDeps = @ \/ dep]
    <3>1. walk'[q] = n
      BY <1>1, <2>1, <2>2
    <3>2. /\ n.item = walk[q].item /\ n.up = walk[q].up /\ n.needs = walk[q].needs
          /\ n.setsUp = walk[q].setsUp /\ n.setsDeps = walk[q].setsDeps
          /\ n.adds = walk[q].adds
          /\ ~n.lateUp => ~walk[q].lateUp /\ ~up
          /\ ~n.lateDeps => ~walk[q].lateDeps /\ ~dep
      BY <1>2, <2>1
    <3> HIDE DEF n
    <3>3. QED
      BY <2>2, <3>1, <3>2
  <2>3. CASE ~walk[q].busy
    BY <1>1, <1>4, <2>1, <2>3
  <2>4. QED
    BY <2>2, <2>3
<1>5. QED
  BY <1>3, <1>4

\* The walks of the others survive a step that raises their late marks.
LEMMA WalksKept ==
  ASSUME WalksHold, walk \in [GraphCalls -> Walks],
         NEW up \in BOOLEAN, NEW dep \in BOOLEAN, NEW A, walk' = Noticed(up, dep, A),
         up \/ ups' \subseteq ups, dep \/ deps' \subseteq deps
  PROVE  WalksHold'
<1> SUFFICES ASSUME NEW q \in GraphCalls, walk'[q].busy
             PROVE  /\ walk'[q].item \in Items
                    /\ \A x, y \in walk'[q].up : x = y
                    /\ walk'[q].adds => walk'[q].setsDeps
                    /\ walk'[q].setsUp /\ ~walk'[q].lateUp =>
                         Clear(ups', walk'[q].item, walk'[q].up)
                    /\ walk'[q].setsDeps /\ ~walk'[q].lateDeps =>
                         Clear(deps', walk'[q].item, walk'[q].needs)
  BY DEF WalksHold, Clear
<1>1. /\ walk[q].busy
      /\ walk'[q].item = walk[q].item /\ walk'[q].up = walk[q].up
      /\ walk'[q].needs = walk[q].needs
      /\ walk'[q].setsUp = walk[q].setsUp /\ walk'[q].setsDeps = walk[q].setsDeps
      /\ walk'[q].adds = walk[q].adds
      /\ ~walk'[q].lateUp => ~walk[q].lateUp /\ ~up
      /\ ~walk'[q].lateDeps => ~walk[q].lateDeps /\ ~dep
  BY NoticedFields
<1>2. walk'[q].setsUp /\ ~walk'[q].lateUp => Clear(ups', walk'[q].item, walk'[q].up)
  BY <1>1, ClearSubset DEF WalksHold
<1>3. walk'[q].setsDeps /\ ~walk'[q].lateDeps => Clear(deps', walk'[q].item, walk'[q].needs)
  BY <1>1, ClearSubset DEF WalksHold
<1>4. QED
  BY <1>1, <1>2, <1>3 DEF WalksHold

(***************************************************************************)
(* The relations after a write.                                            *)
(***************************************************************************)

\* New pairs from an item, walked on what there is: whether the walk was late
\* or not, what was not crossed has no cycle.
LEMMA WriteAcyclic ==
  ASSUME NEW R, NEW crossed, NEW i \in Items, NEW S, NEW late \in BOOLEAN, NEW Gone,
         Acyclic(R \ crossed), ~late => Clear(R, i, S)
  PROVE  Acyclic(((R \ Gone) \cup From(i, S))
                 \ ((crossed \ Gone) \cup (IF late THEN From(i, S) ELSE {})))
<1> DEFINE R1 == ((R \ Gone) \cup From(i, S))
                 \ ((crossed \ Gone) \cup (IF late THEN From(i, S) ELSE {}))
<1>1. CASE late
  <2>1. R1 \subseteq R \ crossed
    BY <1>1
  <2>2. QED
    BY <2>1, AcyclicSubset
<1>2. CASE ~late
  <2>1. R1 \subseteq (R \ crossed) \cup From(i, S)
    BY <1>2
  <2>2. Acyclic((R \ crossed) \cup From(i, S))
    BY <1>2, AcyclicAfterWalk
  <2>3. QED
    BY <2>1, <2>2, AcyclicSubset
<1>3. QED
  BY <1>1, <1>2

\* A row has one parent at most after its pairs were replaced.
LEMMA OneParent ==
  ASSUME NEW L, NEW R, \A k \in L : \A e, f \in Out(R, k) : e = f,
         NEW i, NEW S, \A x, y \in S : x = y,
         NEW L1, L1 \subseteq L \cup {i}, NEW Q, Q \subseteq (R \ Out(R, i)) \cup From(i, S)
  PROVE  \A k \in L1 : \A e, f \in Out(Q, k) : e = f
<1> SUFFICES ASSUME NEW k \in L1, NEW e \in Out(Q, k), NEW f \in Out(Q, k) PROVE e = f
  OBVIOUS
<1>1. CASE k = i
  <2>1. e \in From(i, S) /\ f \in From(i, S)
    BY <1>1 DEF Out
  <2>2. QED
    BY <2>1 DEF From
<1>2. CASE k # i
  <2>1. e \in Out(R, k) /\ f \in Out(R, k)
    BY <1>2, FromFacts DEF Out
  <2>2. QED
    BY <1>2, <2>1
<1>3. QED
  BY <1>1, <1>2

LEMMA AddWithKeeps ==
  ASSUME GraphIInv, NEW i \in Items, NEW p \in SUBSET live, \A x, y \in p : x = y,
         NEW S \in SUBSET live, i \notin live,
         live' = live \cup {i}, ups' = ups \cup From(i, p), deps' = deps \cup From(i, S),
         walk' = Noticed(p # {}, S # {}, {}), UNCHANGED <<crossedUp, crossedDeps>>
  PROVE  GraphIInv'
<1> DEFINE up == p # {}
           dep == S # {}
<1>2. up \in BOOLEAN /\ dep \in BOOLEAN /\ walk' = Noticed(up, dep, {})
  OBVIOUS
<1>3. /\ up \/ ups' \subseteq ups
      /\ dep \/ deps' \subseteq deps
  BY DEF From
<1> HIDE DEF up, dep
<1>4. /\ live \subseteq Items /\ ups \subseteq live \X live /\ deps \subseteq live \X live
      /\ \A k \in live : \A e, f \in Out(ups, k) : e = f
      /\ crossedUp \subseteq ups /\ crossedDeps \subseteq deps
      /\ walk \in [GraphCalls -> Walks]
  BY DEF GraphIInv, GraphInv, RequirementGraphTypeOK
<1>6. walk' \in [GraphCalls -> Walks] /\ WalksHold'
  BY <1>2, <1>3, <1>4, NoticedFields, WalksKept DEF GraphIInv
<1>7. /\ ups' \subseteq live' \X live' /\ deps' \subseteq live' \X live'
      /\ crossedUp' \subseteq ups' /\ crossedDeps' \subseteq deps' /\ live' \subseteq Items
  BY <1>4 DEF From
<1>8. \A k \in live' : \A e, f \in Out(ups', k) : e = f
  <2> SUFFICES ASSUME NEW k \in live', NEW e \in Out(ups', k), NEW f \in Out(ups', k)
               PROVE  e = f
    OBVIOUS
  <2>1. CASE k = i
    <3>1. e \in From(i, p) /\ f \in From(i, p)
      BY <1>4, <2>1 DEF Out
    <3>2. QED
      BY <3>1 DEF From
  <2>2. CASE k # i
    <3>1. e \in Out(ups, k) /\ f \in Out(ups, k) /\ k \in live
      BY <2>2, FromFacts DEF Out
    <3>2. QED
      BY <1>4, <3>1
  <2>3. QED
    BY <2>1, <2>2
<1>9. DependenciesAcyclic' /\ HierarchyAcyclic'
  <2>1. Clear(ups, i, p) /\ Clear(deps, i, S)
    BY <1>4, ClearOfNew
  <2>2. /\ Acyclic((ups \ crossedUp) \cup From(i, p))
        /\ Acyclic((deps \ crossedDeps) \cup From(i, S))
    <3>1. Acyclic(ups \ crossedUp) /\ Acyclic(deps \ crossedDeps)
      BY DEF GraphIInv, GraphInv, DependenciesAcyclic, HierarchyAcyclic
    <3>2. QED
      BY <2>1, <3>1, AcyclicAfterWalk
  <2>3. /\ ups' \ crossedUp' \subseteq (ups \ crossedUp) \cup From(i, p)
        /\ deps' \ crossedDeps' \subseteq (deps \ crossedDeps) \cup From(i, S)
    OBVIOUS
  <2>4. Acyclic(ups' \ crossedUp') /\ Acyclic(deps' \ crossedDeps')
    BY <2>2, <2>3, AcyclicSubset
  <2>5. QED
    BY <2>4 DEF DependenciesAcyclic, HierarchyAcyclic, Acyclic
<1>10. QED
  BY <1>6, <1>7, <1>8, <1>9 DEF GraphIInv, GraphInv, RequirementGraphTypeOK

LEMMA AddKeeps ==
  ASSUME GraphIInv, NEW i \in Items, AddRequirement(i)
  PROVE  GraphIInv'
<1>1. PICK p \in {{}} \cup {{j} : j \in live}, S \in SUBSET live :
        /\ i \notin live
        /\ live' = live \cup {i}
        /\ ups' = ups \cup From(i, p)
        /\ deps' = deps \cup From(i, S)
        /\ walk' = Noticed(p # {}, S # {}, {})
        /\ UNCHANGED <<crossedUp, crossedDeps>>
  BY DEF AddRequirement
<1>2. p \in SUBSET live /\ \A x, y \in p : x = y
  OBVIOUS
<1>3. QED
  BY <1>1, <1>2, AddWithKeeps

LEMMA UpdateKeeps ==
  ASSUME GraphIInv, NEW r \in GraphCalls, UpdateRequirement(r)
  PROVE  GraphIInv'
<1> DEFINE w == walk[r]
           i == w.item
           newUps == From(i, w.up)
           newDeps == From(i, w.needs)
           up == w.up # {}
           dep == w.needs # {}
<1>1. /\ w.busy /\ {i} \cup w.up \cup w.needs \subseteq live
      /\ ups' = IF w.setsUp THEN (ups \ Out(ups, i)) \cup newUps ELSE ups
      /\ crossedUp' = IF w.setsUp THEN (crossedUp \ Out(ups, i))
                                         \cup (IF w.lateUp THEN newUps ELSE {})
                                  ELSE crossedUp
      /\ deps' = IF w.setsDeps THEN (deps \ Out(deps, i)) \cup newDeps ELSE deps
      /\ crossedDeps' = IF w.setsDeps THEN (crossedDeps \ Out(deps, i))
                                             \cup (IF w.lateDeps THEN newDeps ELSE {})
                                      ELSE crossedDeps
      /\ walk' = Noticed(up, dep, {r})
      /\ UNCHANGED live
  BY DEF UpdateRequirement
<1>2. up \in BOOLEAN /\ dep \in BOOLEAN
  OBVIOUS
<1>3. /\ up \/ ups' \subseteq ups
      /\ dep \/ deps' \subseteq deps
  BY <1>1 DEF From
<1> HIDE DEF up, dep
<1>4. /\ live \subseteq Items /\ ups \subseteq live \X live /\ deps \subseteq live \X live
      /\ \A k \in live : \A e, f \in Out(ups, k) : e = f
      /\ crossedUp \subseteq ups /\ crossedDeps \subseteq deps
      /\ walk \in [GraphCalls -> Walks] /\ w \in Walks
  BY DEF GraphIInv, GraphInv, RequirementGraphTypeOK
<1>5. /\ i \in Items /\ \A x, y \in w.up : x = y
      /\ w.setsUp /\ ~w.lateUp => Clear(ups, i, w.up)
      /\ w.setsDeps /\ ~w.lateDeps => Clear(deps, i, w.needs)
      /\ w.lateUp \in BOOLEAN /\ w.lateDeps \in BOOLEAN
  BY <1>1, <1>4 DEF GraphIInv, WalksHold, Walks
<1> HIDE DEF w, i
<1>6. walk' \in [GraphCalls -> Walks] /\ WalksHold'
  BY <1>1, <1>2, <1>3, <1>4, NoticedFields, WalksKept DEF GraphIInv
<1>7. /\ ups' \subseteq live' \X live' /\ deps' \subseteq live' \X live'
      /\ crossedUp' \subseteq ups' /\ crossedDeps' \subseteq deps' /\ live' \subseteq Items
  BY <1>1, <1>4 DEF From
<1>8. \A k \in live' : \A e, f \in Out(ups', k) : e = f
  <2>1. CASE w.setsUp
    BY <1>1, <1>4, <1>5, <2>1, OneParent
  <2>2. CASE ~w.setsUp
    BY <1>1, <1>4, <2>2
  <2>3. QED
    BY <2>1, <2>2
<1>9. Acyclic(ups \ crossedUp) /\ Acyclic(deps \ crossedDeps)
  BY DEF GraphIInv, GraphInv, DependenciesAcyclic, HierarchyAcyclic
<1>10. Acyclic(ups' \ crossedUp')
  <2>1. CASE w.setsUp
    <3> DEFINE lateU == w.lateUp
               Gone == Out(ups, i)
    <3>1. lateU \in BOOLEAN /\ (~lateU => Clear(ups, i, w.up))
      BY <1>5, <2>1
    <3>2. ups' \ crossedUp' = ((ups \ Gone) \cup From(i, w.up))
                              \ ((crossedUp \ Gone) \cup (IF lateU THEN From(i, w.up) ELSE {}))
      BY <1>1, <2>1
    <3> HIDE DEF lateU, Gone
    <3>3. QED
      BY ZenonT(40), <1>5, <1>9, <3>1, <3>2, WriteAcyclic
  <2>2. CASE ~w.setsUp
    BY <1>1, <1>9, <2>2
  <2>3. QED
    BY <2>1, <2>2
<1>11. Acyclic(deps' \ crossedDeps')
  <2>1. CASE w.setsDeps
    <3> DEFINE lateD == w.lateDeps
               Gone == Out(deps, i)
    <3>1. lateD \in BOOLEAN /\ (~lateD => Clear(deps, i, w.needs))
      BY <1>5, <2>1
    <3>2. deps' \ crossedDeps' = ((deps \ Gone) \cup From(i, w.needs))
                                 \ ((crossedDeps \ Gone) \cup (IF lateD THEN From(i, w.needs) ELSE {}))
      BY <1>1, <2>1
    <3> HIDE DEF lateD, Gone
    <3>3. QED
      BY ZenonT(40), <1>5, <1>9, <3>1, <3>2, WriteAcyclic
  <2>2. CASE ~w.setsDeps
    BY <1>1, <1>9, <2>2
  <2>3. QED
    BY <2>1, <2>2
<1>12. QED
  BY <1>6, <1>7, <1>8, <1>10, <1>11
  DEF GraphIInv, GraphInv, RequirementGraphTypeOK, DependenciesAcyclic, HierarchyAcyclic, Acyclic

LEMMA AddDependencyKeeps ==
  ASSUME GraphIInv, NEW r \in GraphCalls, AddRequirementDependency(r)
  PROVE  GraphIInv'
<1> DEFINE w == walk[r]
           i == w.item
           pair == From(i, w.needs)
<1>1. /\ w.busy /\ w.adds /\ {i} \cup w.needs \subseteq live
      /\ pair \cap deps = {} /\ deps' = deps \cup pair
      /\ crossedDeps' = IF w.lateDeps THEN crossedDeps \cup pair ELSE crossedDeps
      /\ walk' = Noticed(FALSE, TRUE, {r})
      /\ UNCHANGED <<live, ups, crossedUp>>
  BY DEF AddRequirementDependency
<1>2. /\ live \subseteq Items /\ ups \subseteq live \X live /\ deps \subseteq live \X live
      /\ \A k \in live : \A e, f \in Out(ups, k) : e = f
      /\ crossedUp \subseteq ups /\ crossedDeps \subseteq deps
      /\ walk \in [GraphCalls -> Walks] /\ w \in Walks
  BY DEF GraphIInv, GraphInv, RequirementGraphTypeOK
<1>3. i \in Items /\ (~w.lateDeps => Clear(deps, i, w.needs)) /\ w.lateDeps \in BOOLEAN
  BY <1>1, <1>2 DEF GraphIInv, WalksHold, Walks
<1> HIDE DEF w, i
<1>4. walk' \in [GraphCalls -> Walks] /\ WalksHold'
  BY <1>1, <1>2, NoticedFields, WalksKept DEF GraphIInv
<1>5. /\ ups' \subseteq live' \X live' /\ deps' \subseteq live' \X live'
      /\ crossedUp' \subseteq ups' /\ crossedDeps' \subseteq deps' /\ live' \subseteq Items
      /\ \A k \in live' : \A e, f \in Out(ups', k) : e = f
  BY <1>1, <1>2 DEF From
<1>6. Acyclic(ups \ crossedUp) /\ Acyclic(deps \ crossedDeps)
  BY DEF GraphIInv, GraphInv, DependenciesAcyclic, HierarchyAcyclic
<1>7. Acyclic(deps' \ crossedDeps')
  <2> DEFINE lateD == w.lateDeps
  <2>1. lateD \in BOOLEAN /\ (~lateD => Clear(deps, i, w.needs))
    BY <1>3
  <2>2. deps' \ crossedDeps' = ((deps \ {}) \cup From(i, w.needs))
                               \ ((crossedDeps \ {}) \cup (IF lateD THEN From(i, w.needs) ELSE {}))
    BY <1>1
  <2> HIDE DEF lateD
  <2>3. QED
    BY <1>3, <1>6, <2>1, <2>2, WriteAcyclic
<1>8. QED
  BY <1>1, <1>4, <1>5, <1>6, <1>7
  DEF GraphIInv, GraphInv, RequirementGraphTypeOK, DependenciesAcyclic, HierarchyAcyclic, Acyclic

\* A request that begins, and one that is given up.
LEMMA WalkKeeps ==
  ASSUME GraphIInv, UNCHANGED <<live, ups, deps, crossedUp, crossedDeps>>,
         NEW r \in GraphCalls, NEW n \in Walks, walk' = [walk EXCEPT ![r] = n],
         n.busy => /\ n.item \in Items
                   /\ \A x, y \in n.up : x = y
                   /\ n.adds => n.setsDeps
                   /\ n.setsUp => Clear(ups, n.item, n.up)
                   /\ n.setsDeps => Clear(deps, n.item, n.needs)
  PROVE  GraphIInv'
<1>1. walk \in [GraphCalls -> Walks]
  BY DEF GraphIInv, GraphInv, RequirementGraphTypeOK
<1>2. \A q \in GraphCalls : walk'[q] = IF q = r THEN n ELSE walk[q]
  BY <1>1
<1>3. GraphInv'
  BY <1>1 DEF GraphIInv, GraphInv, RequirementGraphTypeOK, DependenciesAcyclic,
              HierarchyAcyclic, Acyclic, Out
<1>4. WalksHold'
  BY <1>2 DEF GraphIInv, WalksHold, Clear
<1>5. QED
  BY <1>3, <1>4 DEF GraphIInv

\* Pairs that go, and the walks that can only fail with them.
LEMMA LessKeeps ==
  ASSUME GraphIInv, live' \subseteq live, NEW U, NEW D,
         ups' = ups \ U, crossedUp' = crossedUp \ U,
         deps' = deps \ D, crossedDeps' = crossedDeps \ D,
         ups' \subseteq live' \X live', deps' \subseteq live' \X live',
         walk' \in [GraphCalls -> Walks],
         \A q \in GraphCalls : walk'[q] = walk[q] \/ walk'[q] = IdleWalk
  PROVE  GraphIInv'
<1>1. /\ live \subseteq Items
      /\ \A k \in live : \A e, f \in Out(ups, k) : e = f
      /\ crossedUp \subseteq ups /\ crossedDeps \subseteq deps
  BY DEF GraphIInv, GraphInv, RequirementGraphTypeOK
<1>2. /\ live' \subseteq Items /\ crossedUp' \subseteq ups' /\ crossedDeps' \subseteq deps'
      /\ \A k \in live' : \A e, f \in Out(ups', k) : e = f
  BY <1>1 DEF Out
<1>3. /\ ups' \ crossedUp' \subseteq ups \ crossedUp
      /\ deps' \ crossedDeps' \subseteq deps \ crossedDeps
  OBVIOUS
<1>4. Acyclic(ups' \ crossedUp') /\ Acyclic(deps' \ crossedDeps')
  BY <1>3, AcyclicSubset DEF GraphIInv, GraphInv, DependenciesAcyclic, HierarchyAcyclic
<1>5. WalksHold'
  <2>1. ups' \subseteq ups /\ deps' \subseteq deps
    OBVIOUS
  <2>2. ASSUME NEW q \in GraphCalls, walk'[q].busy
        PROVE  /\ walk'[q] = walk[q]
               /\ walk[q].setsUp /\ ~walk[q].lateUp => Clear(ups', walk[q].item, walk[q].up)
               /\ walk[q].setsDeps /\ ~walk[q].lateDeps =>
                    Clear(deps', walk[q].item, walk[q].needs)
    BY <2>1, <2>2, IdleWalkType, ClearSubset DEF GraphIInv, WalksHold
  <2>3. QED
    BY <2>2 DEF GraphIInv, WalksHold, Clear
<1>6. QED
  BY <1>2, <1>4, <1>5
  DEF GraphIInv, GraphInv, RequirementGraphTypeOK, DependenciesAcyclic, HierarchyAcyclic, Acyclic

LEMMA GraphStepInv == GraphIInv /\ [GraphNext]_graphVars => GraphIInv'
<1> SUFFICES ASSUME GraphIInv, [GraphNext]_graphVars PROVE GraphIInv'
  OBVIOUS
<1>0. /\ live \subseteq Items /\ ups \subseteq live \X live /\ deps \subseteq live \X live
      /\ walk \in [GraphCalls -> Walks]
  BY DEF GraphIInv, GraphInv, RequirementGraphTypeOK
<1>1. ASSUME NEW r \in GraphCalls, WalkForUpdate(r) PROVE GraphIInv'
  <2>1. PICK i \in live, setsUp \in BOOLEAN, setsDeps \in BOOLEAN,
             p \in {{}} \cup {{j} : j \in live}, S \in SUBSET live :
          /\ Clear(ups, i, p) /\ Clear(deps, i, S)
          /\ walk' = [walk EXCEPT ![r] =
               [IdleWalk EXCEPT !.busy = TRUE, !.item = i, !.setsUp = setsUp, !.up = p,
                                !.setsDeps = setsDeps, !.needs = S]]
          /\ UNCHANGED <<live, ups, deps, crossedUp, crossedDeps>>
    BY ZenonT(40), <1>1 DEF WalkForUpdate
  <2> DEFINE n == [IdleWalk EXCEPT !.busy = TRUE, !.item = i, !.setsUp = setsUp, !.up = p,
                                   !.setsDeps = setsDeps, !.needs = S]
  <2>2. p \in SUBSET Items /\ S \in SUBSET Items /\ i \in Items /\ \A x, y \in p : x = y
    BY <1>0, <2>1
  <2>3. n \in Walks /\ n.item = i /\ n.up = p /\ n.needs = S /\ ~n.adds
    BY <2>2 DEF IdleWalk, Walks
  <2>4. walk' = [walk EXCEPT ![r] = n]
    BY <2>1
  <2> HIDE DEF n
  <2>5. QED
    BY ZenonT(40), <2>1, <2>2, <2>3, <2>4, WalkKeeps
<1>2. ASSUME NEW r \in GraphCalls, WalkForDependency(r) PROVE GraphIInv'
  <2>1. PICK i \in live, j \in live :
          /\ Clear(deps, i, {j})
          /\ walk' = [walk EXCEPT ![r] =
               [IdleWalk EXCEPT !.busy = TRUE, !.item = i, !.setsDeps = TRUE, !.needs = {j},
                                !.adds = TRUE]]
          /\ UNCHANGED <<live, ups, deps, crossedUp, crossedDeps>>
    BY <1>2 DEF WalkForDependency
  <2> DEFINE n == [IdleWalk EXCEPT !.busy = TRUE, !.item = i, !.setsDeps = TRUE, !.needs = {j},
                                   !.adds = TRUE]
  <2>2. /\ n \in Walks /\ n.item = i /\ n.up = {} /\ n.needs = {j}
        /\ n.setsDeps = TRUE /\ n.setsUp = FALSE /\ i \in Items
    BY <1>0, <2>1 DEF IdleWalk, Walks
  <2>3. walk' = [walk EXCEPT ![r] = n]
    BY <2>1
  <2> HIDE DEF n
  <2>4. QED
    BY ZenonT(40), <2>1, <2>2, <2>3, WalkKeeps
<1>3. ASSUME NEW r \in GraphCalls, GiveUpWalk(r) PROVE GraphIInv'
  BY <1>3, IdleWalkType, WalkKeeps DEF GiveUpWalk
<1>4. ASSUME NEW r \in GraphCalls, UpdateRequirement(r) \/ AddRequirementDependency(r)
      PROVE  GraphIInv'
  BY <1>4, UpdateKeeps, AddDependencyKeeps
<1>5. ASSUME NEW i \in Items, AddRequirement(i) PROVE GraphIInv'
  BY <1>5, AddKeeps
<1>6. ASSUME NEW i \in Items, RemoveRequirement(i) PROVE GraphIInv'
  <2>1. /\ live' = live \ {i}
        /\ ups' = ups \ At(ups, i) /\ crossedUp' = crossedUp \ At(ups, i)
        /\ deps' = deps \ At(deps, i) /\ crossedDeps' = crossedDeps \ At(deps, i)
    BY <1>6 DEF RemoveRequirement
  <2>2. ups' \subseteq live' \X live' /\ deps' \subseteq live' \X live'
    BY <1>0, <2>1 DEF At
  <2>3. /\ walk' \in [GraphCalls -> Walks]
        /\ \A q \in GraphCalls : walk'[q] = walk[q] \/ walk'[q] = IdleWalk
    BY <1>0, <1>6, IdleWalkType DEF RemoveRequirement
  <2>4. live' \subseteq live
    BY <2>1
  <2>5. QED
    BY <2>1, <2>2, <2>3, <2>4, LessKeeps
<1>7. CASE RemoveRequirementDependency
  <2>1. PICK e \in deps : deps' = deps \ {e} /\ crossedDeps' = crossedDeps \ {e}
    BY <1>7 DEF RemoveRequirementDependency
  <2>2. UNCHANGED <<live, ups, crossedUp, walk>>
    BY <1>7 DEF RemoveRequirementDependency
  <2>3. ups' = ups \ {} /\ crossedUp' = crossedUp \ {} /\ live' \subseteq live
    BY <2>2
  <2>4. ups' \subseteq live' \X live' /\ deps' \subseteq live' \X live'
    BY <1>0, <2>1, <2>2
  <2>5. /\ walk' \in [GraphCalls -> Walks]
        /\ \A q \in GraphCalls : walk'[q] = walk[q] \/ walk'[q] = IdleWalk
    BY <1>0, <2>2
  <2>6. QED
    BY <2>1, <2>3, <2>4, <2>5, LessKeeps
<1>8. CASE UNCHANGED graphVars
  <2>1. GraphInv'
    BY <1>8 DEF graphVars, GraphIInv, GraphInv, RequirementGraphTypeOK, DependenciesAcyclic,
                HierarchyAcyclic, Acyclic, Out
  <2>2. WalksHold'
    BY <1>8 DEF graphVars, GraphIInv, WalksHold, Clear
  <2>3. QED
    BY <2>1, <2>2 DEF GraphIInv
<1>9. QED
  BY <1>1, <1>2, <1>3, <1>4, <1>5, <1>6, <1>7, <1>8 DEF GraphNext, GraphStep

\* The dependencies and the hierarchy of the requirements have no cycle but through
\* a pair that was written after another came in since its walk, for any requirements
\* and any number of requests in flight.
THEOREM GraphSafe == GraphSpec => []GraphInv
<1>1. GraphIInv => GraphInv
  BY DEF GraphIInv
<1>2. QED
  BY <1>1, GraphInitInv, GraphStepInv, PTL DEF GraphSpec

-----------------------------------------------------------------------------
(* The lifecycle of a tender                                               *)

\* A reading at the last revision says what still holds: all that the revision
\* protects, and readiness as a whole unless something slipped past it.
ReadingsTrue ==
  \A r \in TenderCalls :
    /\ visit[r].busy => tender.status # "NONE"
    /\ Current(r) =>
         LET seen == visit[r].seen IN
         /\ seen.status = tender.status
         /\ seen.decided = tender.decided
         /\ seen.ready => tender.decided /\ \A k \in Types : Approved(k)
         /\ seen.ready /\ visit[r].steady => Ready

TenderIInv == TendersInv /\ ReadingsTrue

Visits == [busy : BOOLEAN, fresh : BOOLEAN, steady : BOOLEAN, seen : Copies]

LEMMA StatusNames ==
  TenderStatuses = {"DRAFT", "IDENTIFIED", "QUALIFICATION", "PREPARING", "TECHNICAL_REVIEW",
                    "COMMERCIAL_REVIEW", "READY_FOR_SUBMISSION", "SUBMITTED",
                    "UNDER_EVALUATION", "CLARIFICATION", "WON", "LOST", "CANCELLED",
                    "ARCHIVED"}
BY DEF TenderStatuses, TenderMoves

\* Into what is checked leads only a check or what is checked already.
LEMMA MovesFacts ==
  \A from \in TenderStatuses : \A to \in TenderMoves[from] :
    /\ to \in TenderStatuses
    /\ to \in Checked => from \in Checked \/ to \in {"READY_FOR_SUBMISSION", "SUBMITTED"}
BY StatusNames DEF TenderMoves, Checked

LEMMA VisitFacts ==
  /\ IdleVisit \in Visits /\ ~IdleVisit.busy
  /\ \A v \in Visits : /\ Outdated(v) \in Visits
                       /\ ~Outdated(v).fresh /\ Outdated(v).busy = v.busy
BY ZenonT(40), StatusNames DEF IdleVisit, BlankCopy, Outdated, Visits, Copies

\* A write under the revision leaves no reading at the last revision.
LEMMA BumpFacts ==
  ASSUME visit \in [TenderCalls -> Visits], NEW r \in TenderCalls, Bump(r)
  PROVE  /\ visit' \in [TenderCalls -> Visits]
         /\ ~visit'[r].busy
         /\ \A q \in TenderCalls : /\ ~(visit'[q].busy /\ visit'[q].fresh)
                                   /\ visit'[q].busy => visit[q].busy
<1>1. \A q \in TenderCalls :
        visit'[q] = IF q = r THEN IdleVisit
                    ELSE IF visit[q].busy THEN Outdated(visit[q]) ELSE visit[q]
  BY DEF Bump
<1>2. visit' \in [TenderCalls -> Visits]
  BY VisitFacts DEF Bump
<1>3. QED
  BY <1>1, <1>2, VisitFacts

\* Something slips past the revision: what was read as ready is not steady any more.
LEMMA SlipFacts ==
  ASSUME visit \in [TenderCalls -> Visits], NEW A \in SUBSET TenderCalls, Slip(A)
  PROVE  /\ visit' \in [TenderCalls -> Visits]
         /\ \A r \in A : ~visit'[r].busy
         /\ \A q \in TenderCalls : visit'[q].busy =>
              /\ visit[q].busy /\ visit'[q].fresh = visit[q].fresh
              /\ visit'[q].seen = visit[q].seen
              /\ ~(visit'[q].steady /\ visit'[q].seen.ready)
<1>1. \A q \in TenderCalls :
        visit'[q] = IF q \in A THEN IdleVisit
                    ELSE [visit[q] EXCEPT !.steady = @ /\ ~visit[q].seen.ready]
  BY DEF Slip
<1>2. ASSUME NEW v \in Visits
      PROVE  /\ [v EXCEPT !.steady = @ /\ ~v.seen.ready] \in Visits
             /\ [v EXCEPT !.steady = @ /\ ~v.seen.ready].busy = v.busy
             /\ [v EXCEPT !.steady = @ /\ ~v.seen.ready].fresh = v.fresh
             /\ [v EXCEPT !.steady = @ /\ ~v.seen.ready].seen = v.seen
             /\ ~([v EXCEPT !.steady = @ /\ ~v.seen.ready].steady /\ v.seen.ready)
  BY DEF Visits
<1>3. visit' \in [TenderCalls -> Visits]
  BY <1>2, VisitFacts DEF Slip
<1>4. ASSUME NEW q \in TenderCalls, visit'[q].busy
      PROVE  /\ visit[q].busy /\ visit'[q].fresh = visit[q].fresh
             /\ visit'[q].seen = visit[q].seen
             /\ ~(visit'[q].steady /\ visit'[q].seen.ready)
  <2> DEFINE n == [visit[q] EXCEPT !.steady = @ /\ ~visit[q].seen.ready]
  <2>1. visit'[q] = n
    BY <1>1, <1>4, VisitFacts
  <2>2. n.busy = visit[q].busy /\ n.fresh = visit[q].fresh /\ n.seen = visit[q].seen
        /\ ~(n.steady /\ visit[q].seen.ready)
    BY <1>2
  <2> HIDE DEF n
  <2>3. QED
    BY <1>4, <2>1, <2>2
<1>5. \A r \in A : ~visit'[r].busy
  BY <1>1, VisitFacts
<1>6. QED
  BY <1>3, <1>4, <1>5

LEMMA TenderInitInv == TenderInit => TenderIInv
<1> SUFFICES ASSUME TenderInit PROVE TenderIInv
  OBVIOUS
<1>1. visit \in [TenderCalls -> Visits] /\ \A r \in TenderCalls : ~visit[r].busy
  BY VisitFacts DEF TenderInit
<1>2. TendersTypeOK
  BY <1>1 DEF TenderInit, TendersTypeOK, Visits, TenderRow, NeedStates, DeliverableStates
<1>3. ReadyStaysReviewed /\ PendingIsNewest
  BY DEF TenderInit, ReadyStaysReviewed, Checked, PendingIsNewest
<1>4. ReadingsTrue
  BY <1>1 DEF ReadingsTrue, Current
<1>5. QED
  BY <1>2, <1>3, <1>4 DEF TenderIInv, TendersInv

\* After a write under the revision there is no current reading to speak of.
LEMMA NoReading ==
  ASSUME TenderIInv, NEW r \in TenderCalls, Bump(r), Current(r),
         tender' \in TenderRow, tender'.status # "NONE"
  PROVE  /\ visit' \in [TenderCalls -> Visits]
         /\ ReadingsTrue'
<1>1. visit \in [TenderCalls -> Visits]
  BY DEF TenderIInv, TendersInv, TendersTypeOK, Visits
<1>2. QED
  BY <1>1, BumpFacts DEF ReadingsTrue, Current

\* What is not under the revision leaves the readings true that it does not touch.
LEMMA SlippedReadings ==
  ASSUME TenderIInv, NEW A \in SUBSET TenderCalls, Slip(A), UNCHANGED reviews,
         tender'.status = tender.status, tender'.decided = tender.decided
  PROVE  /\ visit' \in [TenderCalls -> Visits]
         /\ ReadingsTrue'
<1>1. visit \in [TenderCalls -> Visits]
  BY DEF TenderIInv, TendersInv, TendersTypeOK, Visits
<1>2. \A k \in Types : Approved(k)' = Approved(k)
  BY DEF Approved
<1>3. visit' \in [TenderCalls -> Visits]
  BY <1>1, SlipFacts
<1>4. ASSUME NEW r \in TenderCalls, visit'[r].busy
      PROVE  /\ tender'.status # "NONE"
             /\ visit'[r].fresh =>
                  /\ visit'[r].seen.status = tender'.status
                  /\ visit'[r].seen.decided = tender'.decided
                  /\ visit'[r].seen.ready => tender'.decided /\ \A k \in Types : Approved(k)'
                  /\ ~(visit'[r].seen.ready /\ visit'[r].steady)
  <2>1. /\ visit[r].busy /\ visit'[r].fresh = visit[r].fresh
        /\ visit'[r].seen = visit[r].seen
        /\ ~(visit'[r].steady /\ visit'[r].seen.ready)
    BY <1>1, <1>4, SlipFacts
  <2>2. QED
    BY <1>2, <2>1 DEF TenderIInv, ReadingsTrue, Current
<1>5. QED
  BY <1>3, <1>4 DEF ReadingsTrue, Current

LEMMA TenderStepInv == TenderIInv /\ [TenderNext]_tenderVars => TenderIInv'
<1> SUFFICES ASSUME TenderIInv, [TenderNext]_tenderVars PROVE TenderIInv'
  OBVIOUS
<1>0. /\ tender \in TenderRow
      /\ reviews \in [Types -> Seq({"PENDING"} \cup Decisions)]
      /\ need \in [Needs -> NeedStates]
      /\ deliverable \in DeliverableStates
      /\ visit \in [TenderCalls -> Visits]
      /\ ReadyStaysReviewed /\ PendingIsNewest
  BY DEF TenderIInv, TendersInv, TendersTypeOK, Visits
<1>1. ASSUME UNCHANGED <<reviews, need, deliverable>>, tender' \in TenderRow,
             tender'.status \in Checked => \A k \in Types : Approved(k),
             visit' \in [TenderCalls -> Visits], ReadingsTrue'
      PROVE  TenderIInv'
  BY <1>0, <1>1 DEF TenderIInv, TendersInv, TendersTypeOK, Visits, ReadyStaysReviewed,
                    PendingIsNewest, Approved
<1>2. CASE CreateTender
  <2>1. PICK c \in BOOLEAN : tender' = [status |-> "DRAFT", decided |-> FALSE, complete |-> c]
    BY <1>2 DEF CreateTender
  <2>2. tender' \in TenderRow /\ tender'.status \notin Checked
    BY <2>1, StatusNames DEF TenderRow, Checked
  <2>3. \A r \in TenderCalls : ~visit[r].busy
    BY <1>2 DEF CreateTender, TenderIInv, ReadingsTrue
  <2>4. ReadingsTrue' /\ visit' \in [TenderCalls -> Visits]
    BY <1>0, <1>2, <2>3 DEF CreateTender, ReadingsTrue, Current
  <2>5. QED
    BY <1>1, <1>2, <2>2, <2>4 DEF CreateTender
<1>3. ASSUME NEW r \in TenderCalls, ReadTender(r) PROVE TenderIInv'
  <2> DEFINE c == [status |-> tender.status, decided |-> tender.decided, ready |-> Ready,
                   approved |-> {k \in Types : Approved(k)},
                   pending |-> {k \in Types : PendingOf(k)}]
             n == [busy |-> TRUE, fresh |-> TRUE, steady |-> TRUE, seen |-> c]
  <2>1. /\ visit' = [visit EXCEPT ![r] = n] /\ tender.status # "NONE"
        /\ UNCHANGED <<tender, reviews, need, deliverable>>
    BY <1>3 DEF ReadTender
  <2>2. Ready \in BOOLEAN
    BY DEF Ready
  <2>3. n \in Visits
    BY <1>0, <2>1, <2>2 DEF Visits, Copies, TenderRow
  <2>4. /\ n.seen.status = tender.status /\ n.seen.decided = tender.decided
        /\ n.seen.ready = Ready
    OBVIOUS
  <2>5. visit' \in [TenderCalls -> Visits] /\ \A q \in TenderCalls \ {r} : visit'[q] = visit[q]
    BY <1>0, <2>1, <2>3
  <2>6. visit'[r] = n
    BY <1>0, <2>1
  <2> HIDE DEF n
  <2>7. ReadingsTrue'
    BY <2>1, <2>4, <2>5, <2>6 DEF TenderIInv, ReadingsTrue, Current, Ready, Approved
  <2>8. QED
    BY <1>0, <1>1, <2>1, <2>5, <2>7 DEF ReadyStaysReviewed
<1>4. ASSUME NEW r \in TenderCalls, GiveUp(r) PROVE TenderIInv'
  <2>1. /\ visit' = [visit EXCEPT ![r] = IdleVisit]
        /\ UNCHANGED <<tender, reviews, need, deliverable>>
    BY <1>4 DEF GiveUp
  <2>2. /\ visit' \in [TenderCalls -> Visits]
        /\ \A q \in TenderCalls : visit'[q] = IF q = r THEN IdleVisit ELSE visit[q]
    BY <1>0, <2>1, VisitFacts
  <2>3. ReadingsTrue'
    BY <2>1, <2>2, VisitFacts DEF TenderIInv, ReadingsTrue, Current, Ready, Approved
  <2>4. QED
    BY <1>0, <1>1, <2>1, <2>2, <2>3 DEF ReadyStaysReviewed
<1>5. ASSUME NEW r \in TenderCalls, UpdateTender(r) \/ UpdateTenderQualification(r)
      PROVE  TenderIInv'
  <2>1. /\ Current(r) /\ Bump(r) /\ UNCHANGED <<reviews, need, deliverable>>
        /\ \E b \in BOOLEAN : \/ tender' = [tender EXCEPT !.complete = b]
                              \/ tender' = [tender EXCEPT !.decided = b]
    BY <1>5 DEF UpdateTender, UpdateTenderQualification
  <2>2. tender' \in TenderRow /\ tender'.status = tender.status /\ tender.status # "NONE"
    BY <1>0, <2>1 DEF TenderRow, TenderIInv, ReadingsTrue, Current
  <2>3. QED
    BY <1>0, <1>1, <2>1, <2>2, NoReading DEF ReadyStaysReviewed
<1>6. ASSUME NEW r \in TenderCalls, TransitionTender(r) PROVE TenderIInv'
  <2>1. Current(r) /\ Bump(r) /\ UNCHANGED <<reviews, need, deliverable>>
    BY <1>6 DEF TransitionTender
  <2>2. /\ visit[r].seen.status = tender.status
        /\ visit[r].seen.ready => \A k \in Types : Approved(k)
        /\ tender.status \in TenderStatuses
    BY <1>0, <2>1 DEF TenderIInv, ReadingsTrue, Current, TenderRow
  <2>3. PICK to \in TenderMoves[tender.status] :
          /\ to \in {"READY_FOR_SUBMISSION", "SUBMITTED"} => visit[r].seen.ready
          /\ tender' = [tender EXCEPT !.status = to]
    BY <1>6, <2>2 DEF TransitionTender
  <2>4. /\ to \in TenderStatuses /\ to # "NONE"
        /\ to \in Checked => tender.status \in Checked \/ visit[r].seen.ready
    BY <2>2, <2>3, MovesFacts, StatusNames
  <2>5. tender' \in TenderRow /\ tender'.status = to
    BY <1>0, <2>3, <2>4 DEF TenderRow
  <2>6. to \in Checked => \A k \in Types : Approved(k)
    BY <1>0, <2>2, <2>4 DEF ReadyStaysReviewed
  <2>7. QED
    BY <1>1, <2>1, <2>4, <2>5, <2>6, NoReading
<1>7. ASSUME NEW r \in TenderCalls, RequestTenderReview(r) PROVE TenderIInv'
  <2>1. PICK k \in Types :
          /\ Available(k, visit[r].seen.status) /\ ~PendingOf(k)
          /\ reviews' = [reviews EXCEPT ![k] = Append(@, "PENDING")]
    BY <1>7 DEF RequestTenderReview, NewReview
  <2>2. Current(r) /\ Bump(r) /\ UNCHANGED <<tender, need, deliverable>>
    BY <1>7 DEF RequestTenderReview
  <2>3. tender.status # "NONE" /\ tender.status \notin Checked
    BY <2>1, <2>2 DEF TenderIInv, ReadingsTrue, Current, Available, Checked
  <2>4. visit' \in [TenderCalls -> Visits] /\ ReadingsTrue'
    BY <1>0, <2>2, <2>3, NoReading
  <2>5. reviews' \in [Types -> Seq({"PENDING"} \cup Decisions)]
    BY <1>0, <2>1
  <2>6. PendingIsNewest'
    <3> SUFFICES ASSUME NEW j \in Types, NEW i \in DOMAIN reviews'[j],
                        reviews'[j][i] = "PENDING"
                 PROVE  i = Len(reviews'[j])
      BY DEF PendingIsNewest
    <3>1. CASE j = k
      <4>1. /\ reviews[k] \in Seq({"PENDING"} \cup Decisions)
            /\ reviews'[k] = Append(reviews[k], "PENDING")
        BY <1>0, <2>1
      <4>2. \A x \in DOMAIN reviews[k] : reviews[k][x] # "PENDING"
        BY <2>1 DEF PendingOf
      <4>3. QED
        BY <3>1, <4>1, <4>2
    <3>2. CASE j # k
      BY <1>0, <2>1, <3>2 DEF PendingIsNewest
    <3>3. QED
      BY <3>1, <3>2
  <2>7. QED
    BY <1>0, <2>2, <2>3, <2>4, <2>5, <2>6
    DEF TenderIInv, TendersInv, TendersTypeOK, Visits, ReadyStaysReviewed
<1>8. ASSUME NEW r \in TenderCalls, DecideTenderReview(r) PROVE TenderIInv'
  <2>0. PICK k \in Types : \E i \in DOMAIN reviews[k], d \in Decisions :
          /\ reviews[k][i] = "PENDING"
          /\ reviews' = [reviews EXCEPT ![k][i] = d]
    BY <1>8 DEF DecideTenderReview, DecidableReview
  <2>1. PICK i \in DOMAIN reviews[k], d \in Decisions :
          /\ reviews[k][i] = "PENDING"
          /\ reviews' = [reviews EXCEPT ![k][i] = d]
    BY <2>0
  <2>2. Current(r) /\ Bump(r) /\ UNCHANGED <<tender, need, deliverable>>
    BY <1>8 DEF DecideTenderReview
  <2>3. tender.status # "NONE"
    BY <2>2 DEF TenderIInv, ReadingsTrue, Current
  <2>4. visit' \in [TenderCalls -> Visits] /\ ReadingsTrue'
    BY <1>0, <2>2, <2>3, NoReading
  <2>5. i = Len(reviews[k])
    BY <1>0, <2>1 DEF PendingIsNewest
  <2>6. ~Approved(k) /\ tender.status \notin Checked
    BY <1>0, <2>1, <2>5 DEF Approved, ReadyStaysReviewed
  <2>7. /\ reviews' \in [Types -> Seq({"PENDING"} \cup Decisions)]
        /\ \A j \in Types \ {k} : reviews'[j] = reviews[j]
        /\ DOMAIN reviews'[k] = DOMAIN reviews[k] /\ Len(reviews'[k]) = Len(reviews[k])
        /\ \A x \in DOMAIN reviews[k] : reviews'[k][x] = IF x = i THEN d ELSE reviews[k][x]
    BY <1>0, <2>1
  <2>8. PendingIsNewest'
    <3> SUFFICES ASSUME NEW j \in Types, NEW x \in DOMAIN reviews'[j],
                        reviews'[j][x] = "PENDING"
                 PROVE  x = Len(reviews'[j])
      BY DEF PendingIsNewest
    <3>1. d # "PENDING"
      BY DEF Decisions
    <3>2. CASE j = k
      BY <1>0, <2>7, <3>1, <3>2 DEF PendingIsNewest
    <3>3. CASE j # k
      BY <1>0, <2>7, <3>3 DEF PendingIsNewest
    <3>4. QED
      BY <3>2, <3>3
  <2>9. QED
    BY <1>0, <2>2, <2>4, <2>6, <2>7, <2>8
    DEF TenderIInv, TendersInv, TendersTypeOK, Visits, ReadyStaysReviewed
<1>9. ASSUME NEW A \in SUBSET TenderCalls, Slip(A), UNCHANGED reviews,
             tender' \in TenderRow, tender'.status = tender.status,
             tender'.decided = tender.decided,
             need' \in [Needs -> NeedStates], deliverable' \in DeliverableStates
      PROVE  TenderIInv'
  <2>1. visit' \in [TenderCalls -> Visits] /\ ReadingsTrue'
    BY <1>9, SlippedReadings
  <2>2. ReadyStaysReviewed' /\ PendingIsNewest'
    BY <1>0, <1>9 DEF ReadyStaysReviewed, PendingIsNewest, Approved
  <2>3. QED
    BY <1>0, <1>9, <2>1, <2>2 DEF TenderIInv, TendersInv, TendersTypeOK, Visits
<1>10. ASSUME NEW r \in TenderCalls,
              \/ AddTenderNeed(r) \/ UpdateTenderNeed(r) \/ RemoveTenderNeed(r)
              \/ AddDeliverable(r) \/ RemoveDeliverable(r)
       PROVE  TenderIInv'
  <2>1. Outside(r)
    BY <1>10 DEF AddTenderNeed, UpdateTenderNeed, RemoveTenderNeed, AddDeliverable,
                 RemoveDeliverable
  <2>2. Slip({r}) /\ UNCHANGED <<tender, reviews>> /\ {r} \in SUBSET TenderCalls
    BY <2>1 DEF Outside
  <2>3. need' \in [Needs -> NeedStates] /\ deliverable' \in DeliverableStates
    BY <1>0, <1>10 DEF AddTenderNeed, UpdateTenderNeed, RemoveTenderNeed, AddDeliverable,
                       RemoveDeliverable, NeedStates, DeliverableStates
  <2>4. QED
    BY <1>0, <1>9, <2>2, <2>3
<1>11. CASE DocumentMoves
  BY <1>0, <1>9, <1>11 DEF DocumentMoves, DeliverableStates
<1>12. CASE DeadlinePasses
  <2>1. /\ tender' \in TenderRow /\ tender'.status = tender.status
        /\ tender'.decided = tender.decided
    BY <1>0, <1>12 DEF DeadlinePasses, TenderRow
  <2>2. Slip({}) /\ UNCHANGED <<reviews, need, deliverable>>
    BY <1>12 DEF DeadlinePasses
  <2>3. QED
    BY <1>0, <1>9, <2>1, <2>2
<1>13. CASE UNCHANGED tenderVars
  <2>1. ReadingsTrue'
    BY <1>13 DEF tenderVars, TenderIInv, ReadingsTrue, Current, Ready, Approved
  <2>2. QED
    BY <1>0, <1>1, <1>13, <2>1 DEF tenderVars, ReadyStaysReviewed
<1>14. QED
  BY <1>2, <1>3, <1>4, <1>5, <1>6, <1>7, <1>8, <1>10, <1>11, <1>12, <1>13
  DEF TenderNext, TenderStep

\* What is ready or submitted stands on the newest review of both types, and no
\* review is running beside a newer one, for any requests, requirements and rounds.
THEOREM TendersSafe == TenderSpec => []TendersInv
<1>1. TenderIInv => TendersInv
  BY DEF TenderIInv
<1>2. QED
  BY <1>1, TenderInitInv, TenderStepInv, PTL DEF TenderSpec

(***************************************************************************)
(* What a step does.                                                       *)
(***************************************************************************)
LEMMA ReviewsKept ==
  ASSUME TenderIInv, TenderNext, NEW k \in Types, NEW i \in DOMAIN reviews[k],
         reviews[k][i] # "PENDING"
  PROVE  reviews'[k][i] = reviews[k][i]
<1>0. reviews \in [Types -> Seq({"PENDING"} \cup Decisions)]
  BY DEF TenderIInv, TendersInv, TendersTypeOK
<1>1. CASE UNCHANGED reviews
  BY <1>1
<1>2. ASSUME NEW r \in TenderCalls, RequestTenderReview(r)
      PROVE  reviews'[k][i] = reviews[k][i]
  <2>1. PICK j \in Types : reviews' = [reviews EXCEPT ![j] = Append(@, NewReview)]
    BY <1>2 DEF RequestTenderReview
  <2>2. reviews[k] \in Seq({"PENDING"} \cup Decisions)
    BY <1>0
  <2>3. Append(reviews[k], NewReview)[i] = reviews[k][i]
    BY <2>2
  <2>4. QED
    BY <1>0, <2>1, <2>3
<1>3. ASSUME NEW r \in TenderCalls, DecideTenderReview(r)
      PROVE  reviews'[k][i] = reviews[k][i]
  <2>1. PICK j \in Types : \E x \in DOMAIN reviews[j], d \in Decisions :
          /\ reviews[j][x] = "PENDING"
          /\ reviews' = [reviews EXCEPT ![j][x] = d]
    BY <1>3 DEF DecideTenderReview, DecidableReview
  <2>2. QED
    BY <1>0, <2>1
<1>4. \/ UNCHANGED reviews
      \/ \E r \in TenderCalls : RequestTenderReview(r) \/ DecideTenderReview(r)
  BY DEF TenderNext, TenderStep, CreateTender, DocumentMoves, DeadlinePasses, ReadTender,
         GiveUp, UpdateTender, UpdateTenderQualification, TransitionTender, AddTenderNeed,
         UpdateTenderNeed, RemoveTenderNeed, AddDeliverable, RemoveDeliverable, Outside
<1>5. QED
  BY <1>1, <1>2, <1>3, <1>4

LEMMA SubmissionJudged ==
  ASSUME TenderIInv, TenderNext, tender'.status # tender.status,
         tender'.status \in {"READY_FOR_SUBMISSION", "SUBMITTED"}
  PROVE  /\ tender.decided
         /\ Ready \/ \E r \in TenderCalls : /\ visit[r].busy /\ ~visit'[r].busy
                                            /\ ~visit[r].steady
<1>0. tender \in TenderRow /\ visit \in [TenderCalls -> Visits]
  BY DEF TenderIInv, TendersInv, TendersTypeOK, Visits
<1>1. PICK r \in TenderCalls : TransitionTender(r)
  <2>1. ~CreateTender
    BY DEF CreateTender
  <2>2. ~ \E r \in TenderCalls : UpdateTender(r) \/ UpdateTenderQualification(r)
    BY <1>0 DEF UpdateTender, UpdateTenderQualification, TenderRow
  <2>3. ~DeadlinePasses
    BY <1>0 DEF DeadlinePasses, TenderRow
  <2>4. QED
    BY <2>1, <2>2, <2>3
    DEF TenderNext, TenderStep, DocumentMoves, ReadTender, GiveUp, RequestTenderReview,
        DecideTenderReview, AddTenderNeed, UpdateTenderNeed, RemoveTenderNeed, AddDeliverable,
        RemoveDeliverable, Outside
<1>2. Current(r) /\ Bump(r) /\ visit[r].busy
  BY <1>1 DEF TransitionTender, Current
<1>3. visit[r].seen.ready
  <2>1. PICK to \in TenderMoves[visit[r].seen.status] :
          /\ to \in {"READY_FOR_SUBMISSION", "SUBMITTED"} => visit[r].seen.ready
          /\ tender' = [tender EXCEPT !.status = to]
    BY <1>1 DEF TransitionTender
  <2>2. tender'.status = to
    BY <1>0, <2>1 DEF TenderRow
  <2>3. QED
    BY <2>1, <2>2
<1>4. tender.decided /\ (visit[r].steady => Ready)
  BY <1>2, <1>3 DEF TenderIInv, ReadingsTrue
<1>5. ~visit'[r].busy
  BY <1>0, <1>2, BumpFacts
<1>6. QED
  BY <1>2, <1>4, <1>5

LEMMA ClosedKept ==
  ASSUME TenderIInv, TenderNext, <<need, deliverable>>' # <<need, deliverable>>
  PROVE  \/ \E r \in TenderCalls : /\ visit[r].busy /\ ~visit'[r].busy
                                   /\ visit[r].seen.status \notin ClosedTender
         \/ need' = need /\ {deliverable, deliverable'} = {"MISSING", "COMPLETE"}
<1>0. visit \in [TenderCalls -> Visits] /\ deliverable \in DeliverableStates
  BY DEF TenderIInv, TendersInv, TendersTypeOK, Visits
<1>1. DocumentMoves \/ \E r \in TenderCalls : Outside(r)
  BY DEF TenderNext, TenderStep, CreateTender, DeadlinePasses, ReadTender, GiveUp, UpdateTender,
         UpdateTenderQualification, TransitionTender, RequestTenderReview, DecideTenderReview,
         AddTenderNeed, UpdateTenderNeed, RemoveTenderNeed, AddDeliverable, RemoveDeliverable
<1>2. CASE DocumentMoves
  BY <1>0, <1>2 DEF DocumentMoves, DeliverableStates
<1>3. ASSUME NEW r \in TenderCalls, Outside(r)
      PROVE  \E q \in TenderCalls : /\ visit[q].busy /\ ~visit'[q].busy
                                    /\ visit[q].seen.status \notin ClosedTender
  <2>1. visit[r].busy /\ visit[r].seen.status \notin ClosedTender /\ Slip({r})
    BY <1>3 DEF Outside, ReadOpen
  <2>2. {r} \in SUBSET TenderCalls /\ r \in {r}
    OBVIOUS
  <2>3. ~visit'[r].busy
    BY <1>0, <2>1, <2>2, SlipFacts
  <2>4. QED
    BY <2>1, <2>3
<1>4. QED
  BY <1>1, <1>2, <1>3

\* No request decides a review twice, submits what its last reading did not find
\* ready, or works on a tender it had read as closed, whatever it overlaps.
THEOREM TenderStepsKept == TenderSpec => TenderSteps
<1>1. TenderIInv /\ [TenderNext]_tenderVars =>
        [\A k \in Types : \A i \in DOMAIN reviews[k] :
           reviews[k][i] # "PENDING" => reviews'[k][i] = reviews[k][i]]_tenderVars
  BY ReviewsKept
<1>2. TenderIInv /\ [TenderNext]_tenderVars =>
        [tender'.status # tender.status
           /\ tender'.status \in {"READY_FOR_SUBMISSION", "SUBMITTED"}
         => /\ tender.decided
            /\ Ready \/ \E r \in TenderCalls : /\ visit[r].busy /\ ~visit'[r].busy
                                               /\ ~visit[r].steady]_tenderVars
  BY SubmissionJudged
<1>3. TenderIInv /\ [TenderNext]_tenderVars =>
        [tender.status \in ClosedTender /\ <<need, deliverable>>' # <<need, deliverable>>
         => \/ \E r \in TenderCalls : /\ visit[r].busy /\ ~visit'[r].busy
                                      /\ visit[r].seen.status \notin ClosedTender
            \/ need' = need /\ {deliverable, deliverable'} = {"MISSING", "COMPLETE"}]_tenderVars
  BY ClosedKept
<1>4. QED
  BY <1>1, <1>2, <1>3, TenderInitInv, TenderStepInv, PTL
  DEF TenderSpec, TenderSteps, ReviewsFinal, SubmittedReady, ClosedTenderFrozen

-----------------------------------------------------------------------------


(***************************************************************************)
(* The tables of the lifecycle.                                            *)
(***************************************************************************)
StatusesOf(k) == DOMAIN LifecycleMoves[k]

LEMMA LifecycleTable ==
  /\ StatusesOf("RELEASE") =
       {"DRAFT", "PLANNED", "RELEASED", "DEPRECATED", "END_OF_LIFE", "ARCHIVED"}
  /\ StatusesOf("DOCUMENT") =
       {"DRAFT", "IN_REVIEW", "APPROVED", "ACTIVE", "SUPERSEDED", "EXPIRED", "ARCHIVED"}
  /\ StatusesOf("ARTICLE") = {"DRAFT", "IN_REVIEW", "PUBLISHED", "ARCHIVED"}
  /\ StatusesOf("RESOURCE") = {"DRAFT", "ACTIVE", "DEPRECATED", "ARCHIVED"}
BY DEF StatusesOf, LifecycleMoves

LEMMA StatusesAreKnown ==
  ASSUME NEW k \in Kinds
  PROVE  /\ StatusesOf(k) \subseteq RecordStatuses /\ "NONE" \notin StatusesOf(k)
         /\ "DRAFT" \in StatusesOf(k)
<1>1. StatusesOf(k) \subseteq RecordStatuses
  BY DEF StatusesOf, RecordStatuses
<1>2. QED
  BY <1>1, LifecycleTable DEF Kinds

LEMMA MovesStay ==
  ASSUME NEW k \in Kinds, NEW s \in StatusesOf(k), NEW t \in LifecycleMoves[k][s]
  PROVE  t \in StatusesOf(k)
<1>1. CASE k = "RELEASE"
  BY <1>1, LifecycleTable DEF LifecycleMoves
<1>2. CASE k = "DOCUMENT"
  BY <1>2, LifecycleTable DEF LifecycleMoves
<1>3. CASE k = "ARTICLE"
  BY <1>3, LifecycleTable DEF LifecycleMoves
<1>4. CASE k = "RESOURCE"
  BY <1>4, LifecycleTable DEF LifecycleMoves
<1>5. QED
  BY <1>1, <1>2, <1>3, <1>4 DEF Kinds

LEMMA OnlyApprovalEnters ==
  ASSUME NEW s \in StatusesOf("DOCUMENT"), NEW t \in LifecycleMoves["DOCUMENT"][s],
         t \in AfterApproval, t # "APPROVED"
  PROVE  s \in AfterApproval
BY LifecycleTable DEF LifecycleMoves, AfterApproval

LEMMA ResourceMovesAtWill ==
  ASSUME NEW s \in StatusesOf("RESOURCE"), NEW t \in StatusesOf("RESOURCE"),
         s # "ARCHIVED", s # t
  PROVE  t \in LifecycleMoves["RESOURCE"][s]
BY LifecycleTable DEF LifecycleMoves

(***************************************************************************)
(* What a request in flight holds.  As long as it is fresh, what it has    *)
(* read is the row; as long as it is steady, the newest version has the    *)
(* file it has seen.                                                       *)
(***************************************************************************)
ErrandSound(r) ==
  LET e == errand[r] IN
  /\ e.step \in {"read", "checked"} =>
       e.seen.status \in StatusesOf(kind) /\ (e.fresh => e.seen = row)
  /\ e.step = "checked" =>
       /\ kind = "DOCUMENT" /\ e.target \in LifecycleMoves["DOCUMENT"][e.seen.status]
  /\ e.step \in {"checked", "stamp"} =>
       kind = "DOCUMENT" /\ versions # <<>> /\ (e.steady => FileThere)

ErrandsSound == \A r \in RecordCalls : ErrandSound(r)

RecordsIInv == RecordsInv /\ ErrandsSound

LEMMA RecordIdleType == IdleErrand \in Errands /\ NoRow \in RecordRow
BY DEF IdleErrand, Errands, NoRow, RecordRow, Dates

LEMMA RecordsInitInv == RecordsInit => RecordsIInv
<1> SUFFICES ASSUME RecordsInit PROVE RecordsIInv
  OBVIOUS
<1>0. NoRow.status = "NONE"
  BY DEF NoRow
<1>1. RecordsTypeOK
  <2>1. kind \in Kinds /\ row = NoRow /\ versions = <<>> /\ overtaken = FALSE /\ lost = FALSE
    BY DEF RecordsInit
  <2>2. errand \in [RecordCalls -> Errands]
    BY RecordIdleType DEF RecordsInit
  <2>3. versions \in Seq(Version)
    BY <2>1
  <2>4. QED
    BY <1>0, <2>1, <2>2, <2>3, RecordIdleType DEF RecordsTypeOK
<1>2. row.status = "NONE" /\ \A r \in RecordCalls : errand[r].step = "idle"
  BY DEF RecordsInit, NoRow, IdleErrand
<1>3. QED
  BY <1>1, <1>2 DEF RecordsIInv, RecordsInv, ApprovalNamesAVersion, AfterApproval, ErrandsSound,
     ErrandSound

\* No step changes the kind, and a row without status cannot be read.
LEMMA RecordFacts ==
  ASSUME RecordsIInv
  PROVE  /\ kind \in Kinds /\ row \in RecordRow
         /\ versions \in Seq(Version)
         /\ errand \in [RecordCalls -> Errands]
         /\ overtaken \in BOOLEAN /\ lost \in BOOLEAN
         /\ row.status \in {"NONE"} \cup StatusesOf(kind)
         /\ StatusesOf(kind) \subseteq RecordStatuses
BY StatusesAreKnown DEF RecordsIInv, RecordsInv, RecordsTypeOK, StatusesOf

(***************************************************************************)
(* A request writes the record.                                            *)
(***************************************************************************)
\* The others keep what they hold, but it is no longer fresh.
LEMMA ErrandsAfterWrite ==
  ASSUME RecordsIInv, NEW r \in RecordCalls, NEW new, NEW next \in Errands,
         WriteRow(r, new, next)
  PROVE  /\ errand' \in [RecordCalls -> Errands] /\ errand'[r] = next
         /\ row' = new /\ overtaken' = (overtaken \/ ~errand[r].fresh)
         /\ \A q \in RecordCalls \ {r} :
              /\ errand'[q].step = errand[q].step /\ errand'[q].steady = errand[q].steady
              /\ errand'[q].seen = errand[q].seen /\ errand'[q].target = errand[q].target
              /\ errand[q].step \in {"read", "checked"} => ~errand'[q].fresh
<1> DEFINE stale(q) == [errand[q] EXCEPT !.fresh = FALSE]
<1>1. \A q \in RecordCalls : errand[q] \in Errands
  BY RecordFacts
<1>2. \A q \in RecordCalls :
        /\ stale(q) \in Errands
        /\ stale(q).step = errand[q].step /\ stale(q).steady = errand[q].steady
        /\ stale(q).seen = errand[q].seen /\ stale(q).target = errand[q].target
        /\ stale(q).fresh = FALSE
  BY <1>1 DEF Errands
<1>3. errand' = [q \in RecordCalls |->
                   IF q = r THEN next
                   ELSE IF errand[q].step \in {"read", "checked"} THEN stale(q) ELSE errand[q]]
  BY DEF WriteRow
<1> HIDE DEF stale
<1>4. QED
  BY ZenonT(40), <1>1, <1>2, <1>3 DEF WriteRow

\* A write keeps the invariant when its row is well formed and an approval
\* leaves a version to approve.
LEMMA WriteKept ==
  ASSUME RecordsIInv, NEW r \in RecordCalls, NEW new \in RecordRow, NEW next \in Errands,
         WriteRow(r, new, next), errand[r].step \in {"read", "checked"},
         new.status \in {"NONE"} \cup StatusesOf(kind),
         next.step \in {"idle", "stamp"},
         next.step = "stamp" =>
           kind = "DOCUMENT" /\ versions # <<>> /\ (next.steady => FileThere),
         kind = "DOCUMENT" /\ new.status \in AfterApproval =>
           next.step = "stamp" \/ row.status \in AfterApproval,
         UNCHANGED <<kind, versions, lost>>
  PROVE  RecordsIInv'
<1>1. /\ errand' \in [RecordCalls -> Errands] /\ errand'[r] = next /\ row' = new
      /\ overtaken' = (overtaken \/ ~errand[r].fresh)
      /\ \A q \in RecordCalls \ {r} :
           /\ errand'[q].step = errand[q].step /\ errand'[q].steady = errand[q].steady
           /\ errand'[q].seen = errand[q].seen /\ errand'[q].target = errand[q].target
           /\ errand[q].step \in {"read", "checked"} => ~errand'[q].fresh
  BY ErrandsAfterWrite
<1>2. overtaken' \in BOOLEAN
  <2>1. errand[r].fresh \in BOOLEAN
    BY RecordFacts DEF Errands
  <2>2. QED
    BY <1>1, <2>1, RecordFacts
<1>3. RecordsTypeOK'
  BY <1>1, <1>2, RecordFacts DEF RecordsTypeOK, StatusesOf
<1>4. ApprovalNamesAVersion'
  <2> SUFFICES ASSUME kind = "DOCUMENT", new.status \in AfterApproval
               PROVE  \/ \E i \in DOMAIN versions : versions[i].approved
                      \/ \E q \in RecordCalls : errand'[q].step = "stamp"
                      \/ lost
    BY <1>1 DEF ApprovalNamesAVersion
  <2>1. CASE next.step = "stamp"
    BY <1>1, <2>1
  <2>2. CASE row.status \in AfterApproval
    BY <1>1, <2>2 DEF RecordsIInv, RecordsInv, ApprovalNamesAVersion
  <2>3. QED
    BY <2>1, <2>2
<1>5. ASSUME NEW q \in RecordCalls PROVE ErrandSound(q)'
  <2>1. CASE q = r
    BY <1>1, <2>1 DEF ErrandSound, FileThere
  <2>2. CASE q # r
    <3>1. ErrandSound(q)
      BY DEF RecordsIInv, ErrandsSound
    <3>2. QED
      BY <1>1, <2>2, <3>1 DEF ErrandSound, FileThere
  <2>3. QED
    BY <2>1, <2>2
<1>6. QED
  BY <1>3, <1>4, <1>5 DEF RecordsIInv, RecordsInv, ErrandsSound

\* What a write under the revision rests on: the row itself.
LEMMA WritesOnTheRow ==
  ASSUME RecordsIInv, NEW r \in RecordCalls, errand[r].step \in {"read", "checked"}, MayWrite(r)
  PROVE  /\ errand[r].seen \in RecordRow /\ errand[r].seen.status \in StatusesOf(kind)
         /\ \/ errand[r].seen = row
            \/ kind \in {"ARTICLE", "RESOURCE"} /\ ~errand[r].fresh
<1>1. ErrandSound(r) /\ errand[r] \in Errands
  BY RecordFacts DEF RecordsIInv, ErrandsSound
<1>2. QED
  BY <1>1, RecordFacts DEF ErrandSound, MayWrite, Kinds, Errands

(***************************************************************************)
(* What a step does to the record.                                         *)
(***************************************************************************)
StepKept ==
  /\ row.status # "NONE" /\ row'.status # row.status =>
       \/ row'.status \in Moves(row.status)
       \/ kind \in {"ARTICLE", "RESOURCE"} /\ overtaken'
  /\ kind = "RELEASE" /\ row'.status = "RELEASED" /\ row.status # "RELEASED"
       => row.date = "REACHED"
  /\ row'.edition # row.edition =>
       /\ kind = "RELEASE" => row.status \notin Identified
       /\ kind = "ARTICLE" => row.status # "PUBLISHED" \/ overtaken'
  /\ \A i \in DOMAIN versions :
       ~versions[i].approved /\ versions'[i].approved =>
         versions[i].file \/ \E r \in RecordCalls : /\ errand[r].step = "stamp"
                                                    /\ errand'[r].step = "idle"
                                                    /\ ~errand[r].steady

StepSound == RecordsIInv' /\ StepKept

LEMMA RowTypes ==
  ASSUME NEW w \in RecordRow
  PROVE  w.status \in RecordStatuses \cup {"NONE"} /\ w.date \in Dates /\ w.edition \in BOOLEAN
BY DEF RecordRow

LEMMA RowWithStatus ==
  ASSUME NEW w \in RecordRow, NEW t \in RecordStatuses, NEW n, n = [w EXCEPT !.status = t]
  PROVE  n \in RecordRow /\ n.status = t /\ n.date = w.date /\ n.edition = w.edition
BY DEF RecordRow

LEMMA RowWithDate ==
  ASSUME NEW w \in RecordRow, NEW d \in Dates, NEW e \in BOOLEAN,
         NEW n, n = [w EXCEPT !.date = d, !.edition = e]
  PROVE  n \in RecordRow /\ n.status = w.status /\ n.date = d /\ n.edition = e
BY DEF RecordRow

LEMMA UpdateReleaseSound ==
  ASSUME RecordsIInv, NEW r \in RecordCalls, UpdateRelease(r)
  PROVE  StepSound
<1>1. /\ kind = "RELEASE" /\ errand[r].step = "read" /\ MayWrite(r)
      /\ UNCHANGED <<kind, versions, lost>> /\ row \in RecordRow
  BY RecordFacts DEF UpdateRelease, Updating
<1>2. row.status \in StatusesOf("RELEASE") /\ errand[r].seen = row
  BY <1>1, WritesOnTheRow
<1>3. PICK e \in IF Editable(row) THEN BOOLEAN ELSE {row.edition},
           d \in {row.date, "AHEAD", "REACHED"} :
        WriteRow(r, [row EXCEPT !.date = d, !.edition = e], IdleErrand)
  BY <1>2 DEF UpdateRelease
<1> DEFINE new == [row EXCEPT !.date = d, !.edition = e]
<1>4. d \in Dates /\ e \in BOOLEAN /\ (row.status \in Identified => e = row.edition)
  <2>1. row.date \in Dates /\ row.edition \in BOOLEAN
    BY <1>1, RowTypes
  <2>2. d \in Dates
    BY <1>3, <2>1 DEF Dates
  <2>3. row.status \in Identified => ~Editable(row)
    BY <1>1 DEF Editable
  <2>4. e \in BOOLEAN /\ (~Editable(row) => e = row.edition)
    BY <1>3, <2>1
  <2>5. QED
    BY <2>2, <2>3, <2>4
<1>5. new \in RecordRow /\ new.status = row.status /\ new.edition = e
  <2>1. row \in RecordRow /\ d \in Dates /\ e \in BOOLEAN
    BY <1>1, <1>4
  <2>2. QED
    BY <2>1 DEF RecordRow
<1> HIDE DEF new
<1>6. WriteRow(r, new, IdleErrand)
  BY <1>3 DEF new
<1>7. IdleErrand \in Errands /\ IdleErrand.step = "idle"
  BY RecordIdleType DEF IdleErrand
<1>8. RecordsIInv'
  BY <1>1, <1>2, <1>5, <1>6, <1>7, WriteKept
<1>9. StepKept
  BY <1>1, <1>4, <1>5, <1>6 DEF StepKept, WriteRow
<1>10. QED
  BY <1>8, <1>9 DEF StepSound

LEMMA UpdateDocumentSound ==
  ASSUME RecordsIInv, NEW r \in RecordCalls, UpdateDocument(r)
  PROVE  StepSound
<1>1. /\ kind = "DOCUMENT" /\ errand[r].step = "read" /\ MayWrite(r)
      /\ UNCHANGED <<kind, versions, lost>> /\ row \in RecordRow
      /\ WriteRow(r, row, IdleErrand)
  BY RecordFacts DEF UpdateDocument, Updating
<1>2. row.status \in StatusesOf("DOCUMENT")
  BY <1>1, WritesOnTheRow
<1>3. IdleErrand \in Errands /\ IdleErrand.step = "idle"
  BY RecordIdleType DEF IdleErrand
<1>4. RecordsIInv'
  BY <1>1, <1>2, <1>3, WriteKept
<1>5. StepKept
  BY <1>1 DEF StepKept, WriteRow
<1>6. QED
  BY <1>4, <1>5 DEF StepSound

LEMMA UpdateKnowledgeSound ==
  ASSUME RecordsIInv, NEW r \in RecordCalls, UpdateKnowledge(r)
  PROVE  StepSound
<1>1. /\ kind = "ARTICLE" /\ errand[r].step = "read" /\ MayWrite(r)
      /\ UNCHANGED <<kind, versions, lost>> /\ row \in RecordRow
      /\ errand[r].seen.status # "PUBLISHED"
      /\ row.status \in {"NONE"} \cup StatusesOf("ARTICLE")
  BY RecordFacts DEF UpdateKnowledge, Updating, Editable
<1>2. errand[r].seen = row \/ ~errand[r].fresh
  BY <1>1, WritesOnTheRow
<1> DEFINE new == [row EXCEPT !.edition = ~@]
<1>3. new \in RecordRow /\ new.status = row.status
  BY <1>1 DEF RecordRow
<1>4. WriteRow(r, new, IdleErrand)
  BY DEF UpdateKnowledge
<1> HIDE DEF new
<1>5. IdleErrand \in Errands /\ IdleErrand.step = "idle"
  BY RecordIdleType DEF IdleErrand
<1>6. RecordsIInv'
  BY <1>1, <1>3, <1>4, <1>5, WriteKept
<1>7. StepKept
  BY <1>1, <1>2, <1>3, <1>4 DEF StepKept, WriteRow
<1>8. QED
  BY <1>6, <1>7 DEF StepSound

LEMMA UpdateResourceSound ==
  ASSUME RecordsIInv, NEW r \in RecordCalls, UpdateResource(r)
  PROVE  StepSound
<1>1. /\ kind = "RESOURCE" /\ errand[r].step = "read" /\ MayWrite(r)
      /\ UNCHANGED <<kind, versions, lost>> /\ row \in RecordRow
      /\ errand[r].seen.status # "ARCHIVED"
  BY RecordFacts DEF UpdateResource, Updating
<1>2. PICK t \in StatusesOf("RESOURCE") : WriteRow(r, [row EXCEPT !.status = t], IdleErrand)
  BY DEF UpdateResource, StatusesOf
<1>3. /\ \/ errand[r].seen = row \/ ~errand[r].fresh
      /\ errand[r].seen.status \in StatusesOf("RESOURCE")
  BY <1>1, WritesOnTheRow
<1> DEFINE new == [row EXCEPT !.status = t]
<1>4. t \in RecordStatuses
  BY StatusesAreKnown DEF Kinds
<1>5. new \in RecordRow /\ new.status = t /\ new.edition = row.edition
  BY <1>1, <1>4, RowWithStatus
<1> HIDE DEF new
<1>6. WriteRow(r, new, IdleErrand)
  BY <1>2 DEF new
<1>7. IdleErrand \in Errands /\ IdleErrand.step = "idle"
  BY RecordIdleType DEF IdleErrand
<1>8. RecordsIInv'
  BY <1>1, <1>5, <1>6, <1>7, WriteKept
<1>9. StepKept
  BY <1>1, <1>3, <1>5, <1>6, ResourceMovesAtWill DEF StepKept, WriteRow, Moves
<1>10. QED
  BY <1>8, <1>9 DEF StepSound

LEMMA TransitionReleaseSound ==
  ASSUME RecordsIInv, NEW r \in RecordCalls, TransitionRelease(r)
  PROVE  StepSound
<1>1. /\ kind = "RELEASE" /\ errand[r].step = "read" /\ MayWrite(r)
      /\ UNCHANGED <<kind, versions, lost>> /\ row \in RecordRow
  BY RecordFacts DEF TransitionRelease
<1>2. row.status \in StatusesOf("RELEASE") /\ errand[r].seen = row
  BY <1>1, WritesOnTheRow
<1>3. PICK t \in LifecycleMoves["RELEASE"][row.status] :
        DateAllows(row, t) /\ WriteRow(r, [row EXCEPT !.status = t], IdleErrand)
  BY <1>1, <1>2 DEF TransitionRelease, Moves
<1> DEFINE new == [row EXCEPT !.status = t]
<1>4. t \in StatusesOf("RELEASE") /\ t \in RecordStatuses
  BY <1>2, <1>3, MovesStay, StatusesAreKnown DEF Kinds
<1>5. new \in RecordRow /\ new.status = t /\ new.edition = row.edition
  BY <1>1, <1>4, RowWithStatus
<1> HIDE DEF new
<1>6. WriteRow(r, new, IdleErrand)
  BY <1>3 DEF new
<1>7. IdleErrand \in Errands /\ IdleErrand.step = "idle"
  BY RecordIdleType DEF IdleErrand
<1>8. RecordsIInv'
  BY <1>1, <1>4, <1>5, <1>6, <1>7, WriteKept
<1>9. StepKept
  BY <1>1, <1>3, <1>5, <1>6 DEF StepKept, WriteRow, Moves, DateAllows
<1>10. QED
  BY <1>8, <1>9 DEF StepSound

LEMMA TransitionKnowledgeSound ==
  ASSUME RecordsIInv, NEW r \in RecordCalls, TransitionKnowledge(r)
  PROVE  StepSound
<1>1. /\ kind = "ARTICLE" /\ errand[r].step = "read" /\ MayWrite(r)
      /\ UNCHANGED <<kind, versions, lost>> /\ row \in RecordRow
  BY RecordFacts DEF TransitionKnowledge
<1>2. /\ errand[r].seen.status \in StatusesOf("ARTICLE")
      /\ errand[r].seen = row \/ ~errand[r].fresh
  BY <1>1, WritesOnTheRow
<1>3. PICK t \in LifecycleMoves["ARTICLE"][errand[r].seen.status] :
        WriteRow(r, [row EXCEPT !.status = t], IdleErrand)
  BY <1>1 DEF TransitionKnowledge, Moves
<1> DEFINE new == [row EXCEPT !.status = t]
<1>4. t \in StatusesOf("ARTICLE") /\ t \in RecordStatuses
  BY <1>2, <1>3, MovesStay, StatusesAreKnown DEF Kinds
<1>5. new \in RecordRow /\ new.status = t /\ new.edition = row.edition
  BY <1>1, <1>4, RowWithStatus
<1> HIDE DEF new
<1>6. WriteRow(r, new, IdleErrand)
  BY <1>3 DEF new
<1>7. IdleErrand \in Errands /\ IdleErrand.step = "idle"
  BY RecordIdleType DEF IdleErrand
<1>8. RecordsIInv'
  BY <1>1, <1>4, <1>5, <1>6, <1>7, WriteKept
<1>9. StepKept
  BY <1>1, <1>2, <1>3, <1>5, <1>6 DEF StepKept, WriteRow, Moves
<1>10. QED
  BY <1>8, <1>9 DEF StepSound

LEMMA TransitionDocumentSound ==
  ASSUME RecordsIInv, NEW r \in RecordCalls, TransitionDocument(r)
  PROVE  StepSound
<1>1. /\ kind = "DOCUMENT" /\ MayWrite(r)
      /\ UNCHANGED <<kind, versions, lost>> /\ row \in RecordRow
      /\ errand[r] \in Errands /\ ErrandSound(r)
  BY RecordFacts DEF TransitionDocument, RecordsIInv, ErrandsSound
<1> DEFINE stamp == [errand[r] EXCEPT !.step = "stamp", !.seen = NoRow]
<1>2. PICK t \in RecordStatuses :
        /\ \/ errand[r].step = "read" /\ t \in Moves(errand[r].seen.status) /\ ~NeedsFile(t)
           \/ errand[r].step = "checked" /\ t = errand[r].target
        /\ WriteRow(r, [row EXCEPT !.status = t], IF t = "APPROVED" THEN stamp ELSE IdleErrand)
  BY DEF TransitionDocument
<1>3. errand[r].seen = row /\ row.status \in StatusesOf("DOCUMENT")
  BY <1>1, <1>2, WritesOnTheRow
<1>4. t \in LifecycleMoves["DOCUMENT"][row.status]
  BY <1>1, <1>2, <1>3 DEF ErrandSound, Moves
<1> DEFINE new  == [row EXCEPT !.status = t]
           next == IF t = "APPROVED" THEN stamp ELSE IdleErrand
<1>5. t \in StatusesOf("DOCUMENT")
  BY <1>3, <1>4, MovesStay DEF Kinds
<1>6. new \in RecordRow /\ new.status = t /\ new.edition = row.edition
  BY <1>1, RowWithStatus
<1>7. stamp \in Errands /\ stamp.step = "stamp" /\ stamp.steady = errand[r].steady
  BY <1>1, RecordIdleType DEF Errands
<1>8. IdleErrand \in Errands /\ IdleErrand.step = "idle"
  BY RecordIdleType DEF IdleErrand
<1> HIDE DEF stamp
<1>9. t = "APPROVED" => errand[r].step = "checked"
  BY <1>2 DEF NeedsFile
<1>10. /\ next \in Errands /\ next.step \in {"idle", "stamp"}
       /\ next.step = "stamp" =>
            kind = "DOCUMENT" /\ versions # <<>> /\ (next.steady => FileThere)
       /\ t = "APPROVED" => next.step = "stamp"
  BY <1>1, <1>7, <1>8, <1>9 DEF ErrandSound
<1>11. new.status \in AfterApproval => next.step = "stamp" \/ row.status \in AfterApproval
  BY <1>3, <1>4, <1>6, <1>10, OnlyApprovalEnters
<1>12. WriteRow(r, new, next)
  BY <1>2
<1> HIDE DEF new, next
<1>13. RecordsIInv'
  BY <1>1, <1>2, <1>5, <1>6, <1>10, <1>11, <1>12, WriteKept
<1>14. StepKept
  BY <1>1, <1>4, <1>6, <1>12 DEF StepKept, WriteRow, Moves
<1>15. QED
  BY <1>13, <1>14 DEF StepSound

(***************************************************************************)
(* The other steps.                                                        *)
(***************************************************************************)
LEMMA CreationSound ==
  ASSUME RecordsIInv, CreateRelease \/ CreateDocument \/ CreateKnowledge \/ CreateResource
  PROVE  StepSound
<1>1. ASSUME NEW s \in RecordStatuses
      PROVE  LET n == [NoRow EXCEPT !.status = s] IN n \in RecordRow /\ n.status = s
  BY DEF NoRow, RecordRow, Dates
<1>2. "DRAFT" \in StatusesOf(kind) /\ "DRAFT" \in RecordStatuses
  BY RecordFacts, StatusesAreKnown
<1>3. PICK new \in RecordRow :
        /\ kind \in {"DOCUMENT", "RELEASE"} => new.status = "DRAFT"
        /\ new.status \in StatusesOf(kind)
        /\ Created(new)
  <2>1. CASE CreateRelease
    <3>1. PICK d \in Dates : Created([NoRow EXCEPT !.status = "DRAFT", !.date = d])
      BY <2>1 DEF CreateRelease
    <3> DEFINE n == [NoRow EXCEPT !.status = "DRAFT", !.date = d]
    <3>2. n \in RecordRow /\ n.status = "DRAFT" /\ Created(n)
      BY <1>2, <3>1 DEF NoRow, RecordRow
    <3> HIDE DEF n
    <3>3. QED
      BY <1>2, <3>2
  <2> DEFINE draft == [NoRow EXCEPT !.status = "DRAFT"]
  <2>2. draft \in RecordRow /\ draft.status = "DRAFT"
    BY <1>1, <1>2
  <2>3. CASE CreateDocument \/ CreateKnowledge
    <3>1. Created(draft)
      BY <2>3 DEF CreateDocument, CreateKnowledge
    <3> HIDE DEF draft
    <3>2. QED
      BY <1>2, <2>2, <3>1
  <2>4. CASE CreateResource
    <3>1. PICK s \in StatusesOf("RESOURCE") : Created([NoRow EXCEPT !.status = s])
      BY <2>4 DEF CreateResource, StatusesOf
    <3>2. kind = "RESOURCE" /\ s \in RecordStatuses
      BY <2>4, StatusesAreKnown DEF CreateResource, Kinds
    <3> DEFINE n == [NoRow EXCEPT !.status = s]
    <3>3. n \in RecordRow /\ n.status = s /\ Created(n)
      BY <1>1, <3>1, <3>2
    <3> HIDE DEF n
    <3>4. QED
      BY <3>1, <3>2, <3>3
  <2>5. QED
    BY <2>1, <2>3, <2>4
<1>4. /\ row.status = "NONE" /\ row' = new
      /\ UNCHANGED <<kind, versions, errand, overtaken, lost>>
  BY <1>3 DEF Created
<1>5. \A r \in RecordCalls : errand[r].step \in {"idle", "stamp"} \/ ~errand[r].fresh
  <2> SUFFICES ASSUME NEW r \in RecordCalls, errand[r].step \notin {"idle", "stamp"}, errand[r].fresh
               PROVE  FALSE
    <3>1. \A r \in RecordCalls : errand[r].fresh \in BOOLEAN
      BY RecordFacts DEF Errands
    <3>2. QED
      BY <3>1
  <2>1. errand[r].step \in {"read", "checked"} /\ ErrandSound(r)
    BY RecordFacts DEF Errands, RecordsIInv, ErrandsSound
  <2>2. errand[r].seen = row /\ errand[r].seen.status \in StatusesOf(kind)
    BY <2>1 DEF ErrandSound
  <2>3. QED
    BY <1>4, <2>2, RecordFacts, StatusesAreKnown
<1>6. RecordsTypeOK'
  BY <1>3, <1>4, RecordFacts DEF RecordsTypeOK, StatusesOf
<1>7. ApprovalNamesAVersion'
  BY <1>3, <1>4 DEF ApprovalNamesAVersion, AfterApproval
<1>8. ErrandsSound'
  BY <1>4, <1>5 DEF RecordsIInv, ErrandsSound, ErrandSound, FileThere
<1>9. StepKept
  BY <1>3, <1>4 DEF StepKept, Identified
<1>10. QED
  BY <1>6, <1>7, <1>8, <1>9 DEF StepSound, RecordsIInv, RecordsInv

\* A request that writes nothing to the row or the versions.
LEMMA ErrandMoves ==
  ASSUME RecordsIInv, NEW r \in RecordCalls, NEW next \in Errands,
         errand' = [errand EXCEPT ![r] = next], ErrandSound(r)',
         UNCHANGED <<kind, row, versions, overtaken>>, lost' \in BOOLEAN, lost => lost',
         errand[r].step = "stamp" => lost'
  PROVE  StepSound
<1>1. /\ errand' \in [RecordCalls -> Errands]
      /\ \A q \in RecordCalls \ {r} : errand'[q] = errand[q]
  BY RecordFacts
<1>2. RecordsTypeOK'
  BY <1>1, RecordFacts DEF RecordsTypeOK, StatusesOf
<1>3. ApprovalNamesAVersion'
  <2> SUFFICES ASSUME kind = "DOCUMENT", row.status \in AfterApproval, ~lost',
                      \A i \in DOMAIN versions : ~versions[i].approved
               PROVE  \E q \in RecordCalls : errand'[q].step = "stamp"
    BY DEF ApprovalNamesAVersion
  <2>1. PICK q \in RecordCalls : errand[q].step = "stamp"
    BY DEF RecordsIInv, RecordsInv, ApprovalNamesAVersion
  <2>2. q # r
    BY <2>1
  <2>3. QED
    BY <1>1, <2>1, <2>2
<1>4. ASSUME NEW q \in RecordCalls PROVE ErrandSound(q)'
  <2>1. CASE q = r
    BY <2>1
  <2>2. CASE q # r
    BY <1>1, <2>2 DEF RecordsIInv, ErrandsSound, ErrandSound, FileThere
  <2>3. QED
    BY <2>1, <2>2
<1>5. StepKept
  BY DEF StepKept
<1>6. QED
  BY <1>2, <1>3, <1>4, <1>5 DEF StepSound, RecordsIInv, RecordsInv, ErrandsSound

LEMMA ReadSound ==
  ASSUME RecordsIInv, NEW r \in RecordCalls, ReadRecord(r)
  PROVE  StepSound
<1> DEFINE next == [IdleErrand EXCEPT !.step = "read", !.fresh = TRUE, !.seen = row]
<1>1. /\ next \in Errands /\ next.step = "read" /\ next.seen = row
  BY RecordFacts DEF IdleErrand, Errands
<1>2. /\ errand' = [errand EXCEPT ![r] = next] /\ errand[r].step = "idle"
      /\ row.status \in StatusesOf(kind) /\ UNCHANGED <<kind, row, versions, overtaken, lost>>
  BY RecordFacts DEF ReadRecord
<1> HIDE DEF next
<1>3. errand'[r] = next
  BY <1>2, RecordFacts
<1>4. ErrandSound(r)'
  BY <1>1, <1>2, <1>3 DEF ErrandSound
<1>5. QED
  BY <1>1, <1>2, <1>4, RecordFacts, ErrandMoves

LEMMA DropSound ==
  ASSUME RecordsIInv, NEW r \in RecordCalls, DropErrand(r)
  PROVE  StepSound
<1>1. /\ errand' = [errand EXCEPT ![r] = IdleErrand]
      /\ UNCHANGED <<kind, row, versions, overtaken>>
      /\ lost' \in BOOLEAN /\ (lost => lost') /\ (errand[r].step = "stamp" => lost')
  BY RecordFacts DEF DropErrand
<1>2. errand'[r] = IdleErrand /\ IdleErrand.step = "idle"
  BY <1>1, RecordFacts DEF IdleErrand
<1>3. ErrandSound(r)'
  BY <1>2 DEF ErrandSound
<1>4. QED
  BY <1>1, <1>3, RecordIdleType, ErrandMoves

LEMMA CheckSound ==
  ASSUME RecordsIInv, NEW r \in RecordCalls, CheckFile(r)
  PROVE  StepSound
<1>1. PICK t \in Moves(errand[r].seen.status) :
        errand' = [errand EXCEPT ![r].step = "checked", ![r].target = t]
  BY DEF CheckFile
<1>2. /\ kind = "DOCUMENT" /\ errand[r].step = "read" /\ FileThere
      /\ UNCHANGED <<kind, row, versions, overtaken, lost>>
      /\ errand[r] \in Errands /\ ErrandSound(r)
  BY RecordFacts DEF CheckFile, RecordsIInv, ErrandsSound
<1>3. errand[r].seen.status \in StatusesOf("DOCUMENT")
  BY <1>2 DEF ErrandSound
<1>4. t \in LifecycleMoves["DOCUMENT"][errand[r].seen.status] /\ t \in RecordStatuses
  BY <1>1, <1>2, <1>3, MovesStay, StatusesAreKnown DEF Moves, Kinds
<1> DEFINE next == [errand[r] EXCEPT !.step = "checked", !.target = t]
<1>5. /\ next \in Errands /\ next.step = "checked" /\ next.target = t
      /\ next.seen = errand[r].seen /\ next.fresh = errand[r].fresh
  BY <1>2, <1>4 DEF Errands
<1>6. errand' = [errand EXCEPT ![r] = next]
  BY <1>1, RecordFacts
<1> HIDE DEF next
<1>7. errand'[r] = next
  BY <1>6, RecordFacts
<1>8. ErrandSound(r)'
  BY <1>2, <1>4, <1>5, <1>7 DEF ErrandSound, FileThere
<1>9. QED
  BY <1>2, <1>5, <1>6, <1>8, RecordFacts, ErrandMoves

LEMMA VersionUpdated ==
  ASSUME NEW vs \in Seq(Version), NEW i \in DOMAIN vs, NEW v \in Version,
         NEW ws, ws = [vs EXCEPT ![i] = v]
  PROVE  /\ ws \in Seq(Version) /\ Len(ws) = Len(vs) /\ DOMAIN ws = DOMAIN vs
         /\ ws[i] = v /\ \A j \in DOMAIN vs \ {i} : ws[j] = vs[j]
OBVIOUS

LEMMA VersionFields ==
  ASSUME NEW v \in Version
  PROVE  /\ LET n == [v EXCEPT !.approved = TRUE]
            IN  n \in Version /\ n.approved = TRUE /\ n.file = v.file
         /\ LET n == [v EXCEPT !.file = FALSE]
            IN  n \in Version /\ n.approved = v.approved /\ n.file = FALSE
BY DEF Version

LEMMA StampSound ==
  ASSUME RecordsIInv, NEW r \in RecordCalls, StampVersion(r)
  PROVE  StepSound
<1>1. /\ errand[r].step = "stamp" /\ versions \in Seq(Version)
      /\ errand' = [errand EXCEPT ![r] = IdleErrand]
      /\ UNCHANGED <<kind, row, overtaken, lost>> /\ ErrandSound(r)
  BY RecordFacts DEF StampVersion, RecordsIInv, ErrandsSound
<1>2. versions # <<>> /\ (errand[r].steady => FileThere)
  BY <1>1 DEF ErrandSound
<1> DEFINE i == Len(versions)
           v == [versions[i] EXCEPT !.approved = TRUE]
<1>3. i \in DOMAIN versions /\ versions[i] \in Version
  BY <1>1, <1>2
<1>4. v \in Version /\ v.approved = TRUE /\ v.file = versions[i].file
  BY <1>3, VersionFields
<1>5. versions' = [versions EXCEPT ![i] = v]
  BY DEF StampVersion
<1> HIDE DEF v, i
<1>6. /\ versions' \in Seq(Version) /\ Len(versions') = Len(versions)
      /\ DOMAIN versions' = DOMAIN versions /\ versions'[i] = v
      /\ \A j \in DOMAIN versions \ {i} : versions'[j] = versions[j]
  BY <1>1, <1>3, <1>4, <1>5, VersionUpdated
<1>7. /\ errand' \in [RecordCalls -> Errands] /\ errand'[r].step = "idle"
      /\ \A q \in RecordCalls \ {r} : errand'[q] = errand[q]
  BY <1>1, RecordFacts, RecordIdleType DEF IdleErrand
<1>8. RecordsTypeOK'
  BY <1>1, <1>6, <1>7, RecordFacts DEF RecordsTypeOK, StatusesOf
<1>9. ApprovalNamesAVersion'
  BY <1>3, <1>4, <1>6 DEF ApprovalNamesAVersion
<1>10. FileThere' <=> FileThere
  BY <1>2, <1>3, <1>4, <1>6 DEF FileThere, i
<1>11. versions' # <<>>
  BY <1>3, <1>6
<1>12. ASSUME NEW q \in RecordCalls PROVE ErrandSound(q)'
  <2>1. CASE q = r
    BY <1>7, <2>1 DEF ErrandSound
  <2>2. CASE q # r
    <3>1. errand'[q] = errand[q] /\ ErrandSound(q)
      BY <1>7, <2>2 DEF RecordsIInv, ErrandsSound
    <3>2. QED
      BY <1>1, <1>10, <1>11, <3>1 DEF ErrandSound
  <2>3. QED
    BY <2>1, <2>2
<1>13. StepKept
  <2>1. ASSUME NEW j \in DOMAIN versions, ~versions[j].approved, versions'[j].approved
        PROVE  versions[j].file \/ ~errand[r].steady
    <3>1. j = i
      BY <1>6, <2>1
    <3>2. QED
      BY <1>2, <3>1 DEF FileThere, i
  <2>2. QED
    BY <1>1, <1>7, <2>1 DEF StepKept
<1>14. QED
  BY <1>8, <1>9, <1>12, <1>13 DEF StepSound, RecordsIInv, RecordsInv, ErrandsSound

\* After a change of the versions a request is idle, or as it was, or unsteady.
LEMMA ErrandsAfterDisturb ==
  ASSUME RecordsIInv, NEW A, Disturb(A)
  PROVE  /\ errand' \in [RecordCalls -> Errands]
         /\ \A q \in RecordCalls :
              \/ q \in A /\ errand'[q].step = "idle"
              \/ /\ errand'[q].step = errand[q].step /\ errand'[q].fresh = errand[q].fresh
                 /\ errand'[q].seen = errand[q].seen /\ errand'[q].target = errand[q].target
                 /\ errand[q].step \in {"checked", "stamp"} => ~errand'[q].steady
         /\ \A q \in RecordCalls \ A : errand'[q].step = errand[q].step
<1> DEFINE loose(q) == [errand[q] EXCEPT !.steady = FALSE]
<1>1. \A q \in RecordCalls : errand[q] \in Errands
  BY RecordFacts
<1>2. \A q \in RecordCalls :
        /\ loose(q) \in Errands
        /\ loose(q).step = errand[q].step /\ loose(q).fresh = errand[q].fresh
        /\ loose(q).seen = errand[q].seen /\ loose(q).target = errand[q].target
        /\ loose(q).steady = FALSE
  BY <1>1 DEF Errands
<1>3. errand' = [q \in RecordCalls |->
                   IF q \in A THEN IdleErrand
                   ELSE IF errand[q].step \in {"checked", "stamp"} THEN loose(q) ELSE errand[q]]
  BY DEF Disturb
<1>4. IdleErrand \in Errands /\ IdleErrand.step = "idle"
  BY RecordIdleType DEF IdleErrand
<1> HIDE DEF loose
<1>5. QED
  BY <1>1, <1>2, <1>3, <1>4

\* Versions that keep what is approved.
LEMMA DisturbSound ==
  ASSUME RecordsIInv, NEW A, Disturb(A), \A r \in RecordCalls \cap A : errand[r].step = "read",
         versions' \in Seq(Version), versions # <<>> => versions' # <<>>,
         DOMAIN versions \subseteq DOMAIN versions',
         \A i \in DOMAIN versions : versions'[i].approved = versions[i].approved,
         UNCHANGED <<kind, row, overtaken, lost>>
  PROVE  StepSound
<1>1. RecordsTypeOK'
  BY RecordFacts, ErrandsAfterDisturb DEF RecordsTypeOK, StatusesOf
<1>2. ApprovalNamesAVersion'
  <2> SUFFICES ASSUME kind = "DOCUMENT", row.status \in AfterApproval, ~lost,
                      \A i \in DOMAIN versions' : ~versions'[i].approved
               PROVE  \E q \in RecordCalls : errand'[q].step = "stamp"
    BY DEF ApprovalNamesAVersion
  <2>1. PICK q \in RecordCalls : errand[q].step = "stamp"
    BY DEF RecordsIInv, RecordsInv, ApprovalNamesAVersion
  <2>2. q \notin A
    BY <2>1
  <2>3. QED
    BY <2>1, <2>2, ErrandsAfterDisturb
<1>3. ASSUME NEW q \in RecordCalls PROVE ErrandSound(q)'
  <2>1. ErrandSound(q)
    BY DEF RecordsIInv, ErrandsSound
  <2>2. CASE errand'[q].step = "idle"
    BY <2>2 DEF ErrandSound
  <2>3. CASE errand'[q].step # "idle"
    BY <2>1, <2>3, ErrandsAfterDisturb DEF ErrandSound
  <2>4. QED
    BY <2>2, <2>3
<1>4. StepKept
  BY DEF StepKept
<1>5. QED
  BY <1>1, <1>2, <1>3, <1>4 DEF StepSound, RecordsIInv, RecordsInv, ErrandsSound

LEMMA AddVersionSound ==
  ASSUME RecordsIInv, NEW r \in RecordCalls, AddDocumentVersion(r)
  PROVE  StepSound
<1>1. PICK f \in BOOLEAN : versions' = Append(versions, [file |-> f, approved |-> FALSE])
  BY DEF AddDocumentVersion
<1> DEFINE v == [file |-> f, approved |-> FALSE]
<1>2. v \in Version /\ versions \in Seq(Version)
  BY RecordFacts DEF Version
<1>3. versions' = Append(versions, v)
  BY <1>1
<1> HIDE DEF v
<1>4. /\ versions' \in Seq(Version) /\ versions' # <<>>
      /\ DOMAIN versions \subseteq DOMAIN versions'
      /\ \A i \in DOMAIN versions : versions'[i] = versions[i]
  BY <1>2, <1>3
<1>5. /\ Disturb({r}) /\ errand[r].step = "read"
      /\ UNCHANGED <<kind, row, overtaken, lost>>
  BY DEF AddDocumentVersion
<1>6. QED
  BY <1>4, <1>5, DisturbSound

LEMMA FileDeletedSound ==
  ASSUME RecordsIInv, FileDeleted
  PROVE  StepSound
<1>1. PICK i \in DOMAIN versions : versions' = [versions EXCEPT ![i].file = FALSE]
  BY DEF FileDeleted
<1> DEFINE v == [versions[i] EXCEPT !.file = FALSE]
<1>2. versions \in Seq(Version) /\ versions[i] \in Version
  BY RecordFacts
<1>3. v \in Version /\ v.approved = versions[i].approved
  BY <1>2, VersionFields
<1>4. versions' = [versions EXCEPT ![i] = v]
  BY <1>1
<1> HIDE DEF v
<1>5. /\ versions' \in Seq(Version) /\ DOMAIN versions' = DOMAIN versions
      /\ Len(versions') = Len(versions)
      /\ versions'[i] = v /\ \A j \in DOMAIN versions \ {i} : versions'[j] = versions[j]
  BY <1>2, <1>3, <1>4, VersionUpdated
<1>6. /\ versions' # <<>> /\ DOMAIN versions \subseteq DOMAIN versions'
      /\ \A j \in DOMAIN versions : versions'[j].approved = versions[j].approved
  BY <1>3, <1>5
<1>7. Disturb({}) /\ UNCHANGED <<kind, row, overtaken, lost>>
  BY DEF FileDeleted
<1>8. QED
  BY <1>5, <1>6, <1>7, DisturbSound

LEMMA DateReachedSound ==
  ASSUME RecordsIInv, DateReached
  PROVE  StepSound
<1> DEFINE w == [row EXCEPT !.date = "REACHED"]
           later(q) == [errand[q] EXCEPT !.seen.date = "REACHED"]
<1>1. row \in RecordRow /\ \A q \in RecordCalls : errand[q] \in Errands
  BY RecordFacts
<1>2. w \in RecordRow /\ w.status = row.status /\ w.edition = row.edition /\ w.date = "REACHED"
  BY <1>1 DEF RecordRow, Dates
<1>3. \A q \in RecordCalls :
        /\ later(q) \in Errands
        /\ later(q).step = errand[q].step /\ later(q).fresh = errand[q].fresh
        /\ later(q).steady = errand[q].steady /\ later(q).target = errand[q].target
        /\ later(q).seen = [errand[q].seen EXCEPT !.date = "REACHED"]
        /\ later(q).seen.status = errand[q].seen.status
  BY <1>1 DEF Errands, RecordRow, Dates
<1>4. /\ row' = w /\ row.date = "AHEAD" /\ UNCHANGED <<kind, versions, overtaken, lost>>
      /\ errand' = [q \in RecordCalls |->
           IF errand[q].seen.date = "AHEAD" THEN later(q) ELSE errand[q]]
  BY DEF DateReached
<1>5. \A q \in RecordCalls : errand[q].seen = row => later(q).seen = w
  BY <1>3
<1> HIDE DEF w, later
<1>6. /\ errand' \in [RecordCalls -> Errands]
      /\ \A q \in RecordCalls :
           /\ errand'[q].step = errand[q].step /\ errand'[q].fresh = errand[q].fresh
           /\ errand'[q].steady = errand[q].steady /\ errand'[q].target = errand[q].target
           /\ errand'[q].seen.status = errand[q].seen.status
           /\ errand[q].seen = row => errand'[q].seen = row'
  BY <1>1, <1>3, <1>4, <1>5
<1>7. RecordsTypeOK'
  BY <1>2, <1>4, <1>6, RecordFacts DEF RecordsTypeOK, StatusesOf
<1>8. ApprovalNamesAVersion'
  BY <1>2, <1>4, <1>6 DEF RecordsIInv, RecordsInv, ApprovalNamesAVersion
<1>9. ErrandsSound'
  BY <1>4, <1>6 DEF RecordsIInv, ErrandsSound, ErrandSound, FileThere
<1>10. StepKept
  BY <1>2, <1>4 DEF StepKept
<1>11. QED
  BY <1>7, <1>8, <1>9, <1>10 DEF StepSound, RecordsIInv, RecordsInv

LEMMA RecordsStep == RecordsIInv /\ [RecordsNext]_recordVars => StepSound
<1> SUFFICES ASSUME RecordsIInv, [RecordsNext]_recordVars PROVE StepSound
  OBVIOUS
<1>1. CASE UNCHANGED recordVars
  BY <1>1 DEF recordVars, StepSound, StepKept, RecordsIInv, RecordsInv, RecordsTypeOK,
     ApprovalNamesAVersion, ErrandsSound, ErrandSound, FileThere
<1>2. CASE RecordsNext
  BY <1>2, CreationSound, FileDeletedSound, DateReachedSound, ReadSound, DropSound,
     UpdateReleaseSound, UpdateDocumentSound, UpdateKnowledgeSound, UpdateResourceSound,
     TransitionReleaseSound, TransitionKnowledgeSound, CheckSound, TransitionDocumentSound,
     StampSound, AddVersionSound
     DEF RecordsNext, RecordStep
<1>3. QED
  BY <1>1, <1>2

(***************************************************************************)
(* The theorems.                                                           *)
(***************************************************************************)
\* A document past its approval has an approved version, is about to have one,
\* or lost it with a request that stopped between its two writes
\* (transitionDocument).
THEOREM RecordsSafe == RecordsSpec => []RecordsInv
<1>1. RecordsIInv /\ [RecordsNext]_recordVars => RecordsIInv'
  BY RecordsStep DEF StepSound
<1>2. RecordsIInv => RecordsInv
  BY DEF RecordsIInv
<1>3. QED
  BY RecordsInitInv, <1>1, <1>2, PTL DEF RecordsSpec

\* Whatever overlaps: a record moves along its lifecycle, a release is
\* published on a date that has come, what is published does not change, and
\* an approved version has its file, but for the writes by id that overtake
\* each other and the files that go between check and approval
\* (technical-center.service.ts, technical-lifecycle.policy.ts).
THEOREM RecordStepsKept == RecordsSpec => RecordSteps
<1>1. RecordsIInv /\ [RecordsNext]_recordVars => RecordsIInv' /\ StepKept
  BY RecordsStep DEF StepSound
<1>2. StepKept =>
        [row.status # "NONE" /\ row'.status # row.status =>
           \/ row'.status \in Moves(row.status)
           \/ kind \in {"ARTICLE", "RESOURCE"} /\ overtaken']_recordVars
  BY DEF StepKept
<1>3. StepKept =>
        [kind = "RELEASE" /\ row'.status = "RELEASED" /\ row.status # "RELEASED"
           => row.date = "REACHED"]_recordVars
  BY DEF StepKept
<1>4. StepKept =>
        [row'.edition # row.edition =>
           /\ kind = "RELEASE" => row.status \notin Identified
           /\ kind = "ARTICLE" => row.status # "PUBLISHED" \/ overtaken']_recordVars
  BY DEF StepKept
<1>5. StepKept =>
        [\A i \in DOMAIN versions :
           ~versions[i].approved /\ versions'[i].approved =>
             versions[i].file \/ \E r \in RecordCalls : /\ errand[r].step = "stamp"
                                                        /\ errand'[r].step = "idle"
                                                        /\ ~errand[r].steady]_recordVars
  BY DEF StepKept
<1>6. QED
  BY RecordsInitInv, <1>1, <1>2, <1>3, <1>4, <1>5, PTL
     DEF RecordsSpec, RecordSteps, LifecycleFollowed, ReleasedWhenDue, PublishedStable,
         ApprovedWithFile
=============================================================================
