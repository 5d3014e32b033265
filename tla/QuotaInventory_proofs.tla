------------------------ MODULE QuotaInventory_proofs ------------------------
(***************************************************************************)
(* The quota of an inventory metric for any limits, periods, opportunities *)
(* and requests: nothing is over the hard limit without a failure, an      *)
(* overrun hold, a reused reservation or a request carried into a new      *)
(* period behind it, and what is active is counted or held.                *)
(*                                                                         *)
(* The ledger alone does not limit what is active: a write that was        *)
(* granted comes later, and a period opens its counter at the count of     *)
(* that moment.  So the invariant is about the latest period that has a    *)
(* counter, and says of it that what is active together with what may      *)
(* still become so is accounted for; each step moves one request, and the  *)
(* lemmas say what that does to each of the sums.                          *)
(***************************************************************************)
EXTENDS QuotaInventory, FiniteSetTheorems, WellFoundedInduction, TLAPS

-----------------------------------------------------------------------------
(* Counting                                                                *)

LEMMA Fewer ==
  ASSUME NEW T, IsFiniteSet(T), NEW S, S \subseteq T
  PROVE  IsFiniteSet(S) /\ Cardinality(S) \in Nat /\ Cardinality(T) \in Nat /\ Cardinality(S) <= Cardinality(T)
BY FS_Subset, FS_CardinalityType

LEMMA OneFewer ==
  ASSUME NEW T, IsFiniteSet(T), NEW x, NEW S, S \subseteq T \cup {x}
  PROVE  Cardinality(S) \in Nat /\ Cardinality(T) \in Nat /\ Cardinality(S) <= Cardinality(T) + 1
<1>1. IsFiniteSet(T \cup {x}) /\ Cardinality(T \cup {x}) <= Cardinality(T) + 1
  <2>0. Cardinality(T) \in Nat
    BY FS_CardinalityType
  <2>1. CASE x \in T
    <3>1. T \cup {x} = T
      BY <2>1
    <3>2. QED
      BY <3>1, <2>0
  <2>2. CASE x \notin T
    <3>1. IsFiniteSet(T \cup {x}) /\ Cardinality(T \cup {x}) = Cardinality(T) + 1
      BY <2>2, FS_AddElement
    <3>2. QED
      BY <3>1, <2>0
  <2>3. QED
    BY <2>1, <2>2
<1>2. Cardinality(S) <= Cardinality(T \cup {x}) /\ Cardinality(S) \in Nat
      /\ Cardinality(T \cup {x}) \in Nat
  BY <1>1, Fewer
<1>3. QED
  BY <1>1, <1>2, FS_CardinalityType

\* A member counts for one.
LEMMA Without ==
  ASSUME NEW S, IsFiniteSet(S), NEW x
  PROVE  /\ Cardinality(S \ {x}) \in Nat /\ Cardinality(S) \in Nat
         /\ x \in S => Cardinality(S) = Cardinality(S \ {x}) + 1
         /\ x \notin S => Cardinality(S) = Cardinality(S \ {x})
<1>1. IsFiniteSet(S \ {x}) /\ Cardinality(S \ {x}) \in Nat
  BY Fewer
<1>2. CASE x \in S
  BY <1>1, <1>2, FS_RemoveElement, FS_CardinalityType
<1>3. CASE x \notin S
  <2>1. S \ {x} = S
    BY <1>3
  <2>2. QED
    BY <1>1, <1>3, <2>1
<1>4. QED
  BY <1>2, <1>3

-----------------------------------------------------------------------------
(***************************************************************************)
(* The inductive invariant.  The latest period that has a counter limits   *)
(* what becomes active: what is active and what requests may still make so *)
(* is counted or held there, but for a failure, an overrun hold, a reused  *)
(* reservation or a request of an earlier period.                          *)
(***************************************************************************)
Live(k) == Reserved(k) /\ ~reservation[k].overdue
LiveIn(p) == {k \in Keys : Live(k) /\ reservation[k].period = p}
Opened == \A k \in Keys : reservation[k].status # "none" => counter[reservation[k].period] # NoValue

Asking(r) == request[r].operation # "archive"

RequestSound(r) ==
  ~At(r, "idle") =>
    /\ request[r].on \in Opportunities
    /\ request[r].period <= period
    /\ Asking(r) /\ ~At(r, "reserve") => counter[request[r].period] # NoValue
    /\ At(r, "reserve") \/ At(r, "commit") \/ At(r, "release") => Asking(r)

Shape ==
  /\ TypeOK /\ Opened
  /\ \A r \in Requests : RequestSound(r)
  /\ \A p \in Periods : counter[p] # NoValue => p <= period
  /\ reconciliation.period <= period
  /\ reconciliation.pc # "idle" => reconciles > 0

Top(p) == counter[p] # NoValue /\ \A q \in Periods : q > p => counter[q] = NoValue

Workers == {r \in Requests : Asking(r) /\ (At(r, "write") \/ At(r, "commit"))}
Releasing == {r \in Requests : At(r, "release")}

\* Those that may still make an opportunity active without asking the latest counter
Pending(p) ==
  {r \in Requests : /\ Asking(r)
                    /\ \/ At(r, "write")
                       \/ At(r, "reserve") /\ request[r].period < p}

Backed == {k \in Keys : Live(k) /\ \E r \in Workers : Key(r) = k}
BackedIn(p) == {k \in Backed : reservation[k].period = p}

Tokens == faults + delays + regrants
Brought(p) == p * (Cardinality(Requests) - 1)

\* Whoever writes has a hold, or there is a reason that it has none.
WorkBacked == Cardinality(Workers) + Cardinality(Releasing) <= Cardinality(Backed) + Tokens

Accounted(p) ==
  Count + Cardinality(Pending(p)) + Cardinality(Releasing)
    <= counter[p] + Cardinality(BackedIn(p)) + Tokens + Brought(p)

Within(p) == Count + Cardinality(Pending(p)) <= HardLimit + Tokens + Brought(p)

Unopened == \A p \in Periods : counter[p] = NoValue

InventoryIInv ==
  /\ Shape /\ WorkBacked
  /\ reconciles = 0 => /\ Unopened => Count <= HardLimit
                       /\ \A p \in Periods : Top(p) => Accounted(p) /\ Within(p)

-----------------------------------------------------------------------------
(* What the steps of the ledger do                                         *)

LEMMA LateIsReserved ==
  ASSUME NEW p, NEW late \in SUBSET Late(p)
  PROVE  late \in SUBSET Keys /\ \A x \in late : Reserved(x) /\ reservation[x].overdue
BY DEF Late, Overdue

LEMMA ExpiredRows ==
  ASSUME LedgerType, NEW late \in SUBSET Keys, \A x \in late : Reserved(x) /\ reservation[x].overdue
  PROVE  /\ Expired(late) \in [Keys -> Reservation]
         /\ \A k \in Keys : /\ Live(k) => Expired(late)[k] = reservation[k]
                            /\ Expired(late)[k].period = reservation[k].period
                            /\ Expired(late)[k].status # "none" => reservation[k].status # "none"
                            /\ Expired(late)[k].status = "RESERVED" => Expired(late)[k] = reservation[k]
<1>1. ASSUME NEW k \in Keys
      PROVE  /\ reservation[k] \in Reservation
             /\ [reservation[k] EXCEPT !.status = "EXPIRED"] \in Reservation
             /\ [reservation[k] EXCEPT !.status = "EXPIRED"].status = "EXPIRED"
             /\ [reservation[k] EXCEPT !.status = "EXPIRED"].period = reservation[k].period
  <2>1. reservation[k] \in Reservation
    BY DEF LedgerType
  <2>2. QED
    BY <2>1 DEF Reservation
<1>2. ASSUME NEW k \in Keys
      PROVE  /\ k \in late => Expired(late)[k] = [reservation[k] EXCEPT !.status = "EXPIRED"]
             /\ k \notin late => Expired(late)[k] = reservation[k]
  BY DEF Expired
<1>3. Expired(late) \in [Keys -> Reservation]
  BY <1>1 DEF Expired
<1>4. QED
  BY <1>1, <1>2, <1>3 DEF Live, Reserved

\* What a reservation of k against p leaves
HeldOrNot(k, p, outcome) ==
  /\ LedgerType' /\ Opened'
  /\ \A q \in Periods : q # p => counter'[q] = counter[q]
  /\ counter[p] # NoValue => counter'[p] = counter[p]
  /\ counter[p] = NoValue => counter'[p] = Count
  /\ \A x \in Keys : Live(x) => reservation'[x] = reservation[x]
  /\ outcome = "RESERVED" =>
       /\ ~Live(k) /\ Live(k)' /\ reservation'[k].period = p
       /\ counter'[p] + Cardinality(LiveIn(p)) + 1 <= HardLimit

LEMMA ReserveSets ==
  ASSUME LedgerType, Opened, NEW k \in Keys, NEW p \in Periods, Count \in Nat,
         NEW late \in SUBSET Late(p), NEW outcome, Reserve(k, p, Count, late, outcome)
  PROVE  HeldOrNot(k, p, outcome)
<1> DEFINE table == Expired(late)
           used == IF counter[p] = NoValue THEN Count ELSE counter[p]
           hold == [status |-> "RESERVED", period |-> p, overdue |-> FALSE]
<1>1. late \in SUBSET Keys /\ \A x \in late : Reserved(x) /\ reservation[x].overdue
  BY LateIsReserved
<1>2. /\ table \in [Keys -> Reservation]
      /\ \A x \in Keys : /\ Live(x) => table[x] = reservation[x]
                         /\ table[x].period = reservation[x].period
                         /\ table[x].status # "none" => reservation[x].status # "none"
  BY <1>1, ExpiredRows
<1>3. /\ outcome \in Outcomes /\ counter' = [counter EXCEPT ![p] = used] /\ UNCHANGED marks
      /\ \/ outcome # "RESERVED" /\ reservation' = table
         \/ /\ outcome = "RESERVED" /\ ~Known(table[k].status) /\ Room(p, used, table) >= 1
            /\ reservation' = [table EXCEPT ![k] = hold]
  BY DEF Reserve, Outcomes
<1>4. /\ counter \in [Periods -> Nat \union {NoValue}] /\ marks \in [Periods -> SUBSET QUOTA_THRESHOLDS]
      /\ NoValue \notin Nat /\ HardLimit \in Nat
  BY LedgerAssumption DEF LedgerType
<1>5. used \in Nat /\ hold \in Reservation /\ hold.status = "RESERVED" /\ hold.period = p /\ ~hold.overdue
  BY <1>4 DEF Reservation
<1>6. \A q \in Periods : counter'[q] = IF q = p /\ counter[p] = NoValue THEN Count ELSE counter[q]
  BY <1>3, <1>4
<1>7. counter'[p] = used
  BY <1>3, <1>4
<1>8. outcome = "RESERVED" => ~Live(k)
  BY <1>2, <1>3 DEF Live, Reserved, Known
<1>9. outcome = "RESERVED" => used + Cardinality(LiveIn(p)) + 1 <= HardLimit
  <2>1. SUFFICES ASSUME Room(p, used, table) >= 1 PROVE used + Cardinality(LiveIn(p)) + 1 <= HardLimit
    BY <1>3
  <2>2. LiveIn(p) \subseteq With("RESERVED", p, table)
    BY <1>2 DEF LiveIn, Live, Reserved, With
  <2>3. IsFiniteSet(With("RESERVED", p, table))
    BY LedgerAssumption, Fewer DEF With
  <2>4. /\ Cardinality(LiveIn(p)) <= Cardinality(With("RESERVED", p, table))
        /\ Cardinality(LiveIn(p)) \in Nat /\ Cardinality(With("RESERVED", p, table)) \in Nat
    BY <2>2, <2>3, Fewer
  <2>5. HardLimit - used - Cardinality(With("RESERVED", p, table)) >= 1
    BY <2>1 DEF Room
  <2>6. QED
    BY <2>4, <2>5, <1>4, <1>5
<1> HIDE DEF table, used, hold
<1>10. reservation' \in [Keys -> Reservation]
  BY <1>2, <1>3, <1>5
<1>11. counter' \in [Periods -> Nat \union {NoValue}]
  BY <1>3, <1>4, <1>5
<1>12. LedgerType'
  BY <1>3, <1>4, <1>10, <1>11 DEF LedgerType
<1>13. \A x \in Keys : \/ reservation'[x] = table[x]
                       \/ x = k /\ reservation'[x] = hold /\ outcome = "RESERVED"
  BY <1>2, <1>3, <1>5
<1>14. Opened'
  <2>1. SUFFICES ASSUME NEW x \in Keys, reservation'[x].status # "none"
                 PROVE  counter'[reservation'[x].period] # NoValue
    BY DEF Opened
  <2>2. CASE reservation'[x] = table[x]
    <3>1. reservation[x].status # "none" /\ reservation'[x].period = reservation[x].period
      BY <1>2, <2>1, <2>2
    <3>2. reservation[x].period \in Periods
      BY DEF LedgerType, Reservation
    <3>3. QED
      BY <1>4, <1>6, <3>1, <3>2 DEF Opened
  <2>3. CASE reservation'[x] = hold
    BY <1>4, <1>5, <1>7, <2>3
  <2>4. QED
    BY <1>13, <2>2, <2>3
<1>15. \A x \in Keys : Live(x) => reservation'[x] = reservation[x]
  BY <1>2, <1>8, <1>13
<1>16. outcome = "RESERVED" => reservation'[k] = hold
  BY <1>2, <1>3, <1>5
<1>17. outcome = "RESERVED" => Live(k)' /\ reservation'[k].period = p
  BY <1>5, <1>16 DEF Live, Reserved
<1>18. QED
  BY <1>3, <1>6, <1>7, <1>8, <1>9, <1>12, <1>14, <1>15, <1>17 DEF HeldOrNot

LEMMA CommitSets ==
  ASSUME LedgerType, Opened, NEW k \in Keys, Commit(k)
  PROVE  /\ LedgerType' /\ Opened'
         /\ \A x \in Keys \ {k} : reservation'[x] = reservation[x]
         /\ reservation'[k].period = reservation[k].period
         /\ \A q \in Periods :
              /\ counter'[q] = NoValue <=> counter[q] = NoValue
              /\ counter[q] # NoValue => counter'[q] \in Nat /\ counter[q] <= counter'[q]
              /\ Live(k) /\ reservation[k].period = q => counter'[q] = counter[q] + 1
<1>1. /\ reservation \in [Keys -> Reservation] /\ counter \in [Periods -> Nat \union {NoValue}]
      /\ marks \in [Periods -> SUBSET QUOTA_THRESHOLDS] /\ NoValue \notin Nat
  BY LedgerAssumption DEF LedgerType
<1>2. CASE ~Reserved(k)
  <2>1. UNCHANGED ledger
    BY <1>2 DEF Commit
  <2>2. QED
    BY <1>1, <1>2, <2>1 DEF ledger, LedgerType, Opened, Live
<1>3. CASE Reserved(k)
  <2> DEFINE p == reservation[k].period
             row == [reservation[k] EXCEPT !.status = "COMMITTED"]
  <2>1. reservation[k] \in Reservation
    BY <1>1
  <2>2. row \in Reservation /\ row.status = "COMMITTED" /\ row.period = p /\ p \in Periods
    BY <2>1 DEF Reservation
  <2>3. /\ counter' = [counter EXCEPT ![p] = @ + 1]
        /\ reservation' = [reservation EXCEPT ![k] = row]
        /\ marks' = [marks EXCEPT ![p] = @ \union Reached(counter[p] + 1)]
    BY <1>3 DEF Commit
  <2>4. counter[p] \in Nat
    BY <1>1, <1>3, <2>2 DEF Opened, Reserved
  <2>5. Reached(counter[p] + 1) \subseteq QUOTA_THRESHOLDS
    BY DEF Reached
  <2> HIDE DEF row
  <2>6. reservation' \in [Keys -> Reservation] /\ reservation'[k] = row
        /\ \A x \in Keys \ {k} : reservation'[x] = reservation[x]
    BY <1>1, <2>2, <2>3
  <2>7. \A q \in Periods : counter'[q] = IF q = p THEN counter[q] + 1 ELSE counter[q]
    BY <1>1, <2>2, <2>3
  <2>8. counter' \in [Periods -> Nat \union {NoValue}]
    BY <1>1, <2>2, <2>3, <2>4
  <2>9. marks' \in [Periods -> SUBSET QUOTA_THRESHOLDS]
    BY <1>1, <2>3, <2>5
  <2>10. LedgerType'
    BY <2>6, <2>8, <2>9 DEF LedgerType
  <2>11. \A q \in Periods :
           /\ counter'[q] = NoValue <=> counter[q] = NoValue
           /\ counter[q] # NoValue => counter'[q] \in Nat /\ counter[q] <= counter'[q]
    BY <1>1, <2>4, <2>7
  <2>12. \A x \in Keys : /\ reservation'[x].period = reservation[x].period
                         /\ reservation'[x].status # "none" => reservation[x].status # "none"
    BY <1>3, <2>2, <2>6 DEF Reserved
  <2>13. \A x \in Keys : reservation[x].period \in Periods
    BY <1>1 DEF Reservation
  <2>14. Opened'
    BY <2>11, <2>12, <2>13 DEF Opened
  <2>15. QED
    BY <2>6, <2>7, <2>10, <2>11, <2>12, <2>14
<1>4. QED
  BY <1>2, <1>3

\* Whatever ends or ages holds
LEMMA AgedSets ==
  ASSUME LedgerType, Opened, NEW ks \in SUBSET Keys, UNCHANGED <<counter, marks>>,
         reservation' \in [Keys -> Reservation],
         \A x \in Keys : /\ x \notin ks => reservation'[x] = reservation[x]
                         /\ reservation'[x].period = reservation[x].period
                         /\ reservation[x].status = "none" => reservation'[x].status = "none"
  PROVE  LedgerType' /\ Opened'
<1>1. LedgerType'
  BY DEF LedgerType
<1>2. Opened'
  BY DEF Opened
<1>3. QED
  BY <1>1, <1>2

LEMMA ReleaseSets ==
  ASSUME LedgerType, Opened, NEW k \in Keys, Release(k)
  PROVE  /\ LedgerType' /\ Opened' /\ UNCHANGED counter
         /\ \A x \in Keys \ {k} : reservation'[x] = reservation[x]
         /\ reservation'[k].period = reservation[k].period
<1>1. /\ UNCHANGED <<counter, marks>>
      /\ reservation' = IF Reserved(k) THEN [reservation EXCEPT ![k] = [reservation[k] EXCEPT !.status = "RELEASED"]]
                        ELSE reservation
  BY DEF Release
<1>2. reservation \in [Keys -> Reservation] /\ reservation[k] \in Reservation
  BY DEF LedgerType
<1>3. /\ [reservation[k] EXCEPT !.status = "RELEASED"] \in Reservation
      /\ [reservation[k] EXCEPT !.status = "RELEASED"].period = reservation[k].period
  BY <1>2 DEF Reservation
<1>4. /\ reservation' \in [Keys -> Reservation]
      /\ \A x \in Keys : /\ x \notin {k} => reservation'[x] = reservation[x]
                         /\ reservation'[x].period = reservation[x].period
                         /\ reservation[x].status = "none" => reservation'[x].status = "none"
  BY <1>1, <1>2, <1>3 DEF Reserved
<1>5. LedgerType' /\ Opened'
  BY <1>1, <1>4, AgedSets
<1>6. QED
  BY <1>1, <1>4, <1>5

LEMMA TimeOutSets ==
  ASSUME LedgerType, Opened, NEW k \in Keys, TimeOut(k)
  PROVE  /\ LedgerType' /\ Opened' /\ UNCHANGED counter
         /\ \A x \in Keys \ {k} : reservation'[x] = reservation[x]
         /\ reservation'[k].period = reservation[k].period
<1>1. /\ UNCHANGED <<counter, marks>> /\ Reserved(k)
      /\ reservation' = [reservation EXCEPT ![k] = [reservation[k] EXCEPT !.overdue = TRUE]]
  BY DEF TimeOut
<1>2. reservation \in [Keys -> Reservation] /\ reservation[k] \in Reservation
  BY DEF LedgerType
<1>3. /\ [reservation[k] EXCEPT !.overdue = TRUE] \in Reservation
      /\ [reservation[k] EXCEPT !.overdue = TRUE].period = reservation[k].period
  BY <1>2 DEF Reservation
<1>4. /\ reservation' \in [Keys -> Reservation]
      /\ \A x \in Keys : /\ x \notin {k} => reservation'[x] = reservation[x]
                         /\ reservation'[x].period = reservation[x].period
                         /\ reservation[x].status = "none" => reservation'[x].status = "none"
  BY <1>1, <1>2, <1>3 DEF Reserved
<1>5. LedgerType' /\ Opened'
  BY <1>1, <1>4, AgedSets
<1>6. QED
  BY <1>1, <1>4, <1>5

LEMMA ExpireSets ==
  ASSUME LedgerType, Opened, ExpireOverdue
  PROVE  /\ LedgerType' /\ Opened' /\ UNCHANGED counter
         /\ \A x \in Keys : Live(x) => reservation'[x] = reservation[x]
<1> DEFINE late == {k \in Keys : Overdue(k)}
<1>1. UNCHANGED <<counter, marks>> /\ reservation' = Expired(late)
  BY DEF ExpireOverdue
<1>2. late \in SUBSET Keys /\ \A x \in late : Reserved(x) /\ reservation[x].overdue
  BY DEF Overdue
<1> HIDE DEF late
<1>3. /\ reservation' \in [Keys -> Reservation]
      /\ \A x \in Keys : /\ Live(x) => reservation'[x] = reservation[x]
                         /\ reservation'[x].period = reservation[x].period
                         /\ reservation[x].status = "none" => reservation'[x].status = "none"
  BY <1>1, <1>2, ExpiredRows
<1>4. LedgerType' /\ Opened'
  BY <1>1, <1>3, AgedSets
<1>5. QED
  BY <1>1, <1>3, <1>4

-----------------------------------------------------------------------------
(* The shape is kept                                                       *)

LEMMA CallMoves ==
  ASSUME Shape, NEW r \in Requests, NEW pc \in {"reserve", "write", "commit", "release", "synchronize"}
  PROVE  /\ Idle \in Call /\ Idle.pc = "idle"
         /\ request[r] \in Call
         /\ [request[r] EXCEPT !.pc = pc] \in Call
         /\ [request[r] EXCEPT !.pc = pc].pc = pc
         /\ [request[r] EXCEPT !.pc = pc].operation = request[r].operation
         /\ [request[r] EXCEPT !.pc = pc].on = request[r].on
         /\ [request[r] EXCEPT !.pc = pc].period = request[r].period
<1>1. request[r] \in Call /\ 0 \in Periods
  BY LedgerAssumption DEF Shape, TypeOK, Periods
<1>2. QED
  BY <1>1 DEF Call, Idle

LEMMA GotoSets ==
  ASSUME Shape, NEW r \in Requests, NEW pc \in {"reserve", "write", "commit", "release", "synchronize"},
         Goto(r, pc)
  PROVE  /\ request' \in [Requests -> Call]
         /\ request'[r].pc = pc /\ request'[r].operation = request[r].operation
         /\ request'[r].on = request[r].on /\ request'[r].period = request[r].period
         /\ \A o \in Requests \ {r} : request'[o] = request[o]
<1> DEFINE x == [request[r] EXCEPT !.pc = pc]
<1>1. request \in [Requests -> Call] /\ request' = [request EXCEPT ![r] = x]
  BY DEF Goto, Shape, TypeOK
<1>2. x \in Call /\ x.pc = pc /\ x.operation = request[r].operation /\ x.on = request[r].on
      /\ x.period = request[r].period
  BY CallMoves
<1> HIDE DEF x
<1>3. QED
  BY <1>1, <1>2

LEMMA DoneSets ==
  ASSUME Shape, NEW r \in Requests, Done(r)
  PROVE  /\ request' \in [Requests -> Call]
         /\ request'[r].pc = "idle"
         /\ \A o \in Requests \ {r} : request'[o] = request[o]
BY CallMoves DEF Done, Shape, TypeOK

\* Only the request that steps has to be looked at.
LEMMA OneRequest ==
  ASSUME Shape, NEW r \in Requests, TypeOK', Opened',
         \A o \in Requests \ {r} : request'[o] = request[o],
         period' = period, UNCHANGED <<reconciliation, reconciles>>,
         \A p \in Periods : /\ counter[p] # NoValue => counter'[p] # NoValue
                            /\ counter'[p] # NoValue => p <= period,
         RequestSound(r)'
  PROVE  Shape'
<1>1. ASSUME NEW o \in Requests \ {r} PROVE RequestSound(o)'
  <2>1. RequestSound(o) /\ request[o].period \in Periods
    BY DEF Shape, TypeOK, Call
  <2>2. QED
    BY <2>1 DEF RequestSound, At, Asking
<1>2. QED
  BY <1>1 DEF Shape

LEMMA CountIsNat == Count \in Nat /\ IsFiniteSet(Active)
<1>1. IsFiniteSet(Active)
  BY InventoryAssumption, Fewer DEF Active
<1>2. QED
  BY <1>1, FS_CardinalityType DEF Count

LEMMA BeginShape ==
  ASSUME Shape, NEW r \in Requests, NEW operation \in Operations, NEW o \in Opportunities,
         Begin(r, operation, o)
  PROVE  /\ Shape' /\ At(r, "idle")
         /\ \A s \in Requests \ {r} : request'[s] = request[s]
         /\ (At(r, "reserve")' /\ request'[r].period = period) \/ ~Asking(r)'
         /\ At(r, "reserve")' \/ At(r, "write")'
         /\ UNCHANGED <<counter, reservation, opportunity, faults, delays, regrants, reconciles>>
<1> DEFINE x == [pc |-> IF operation = "archive" THEN "write" ELSE "reserve",
                 operation |-> operation, on |-> o, period |-> period]
<1>1. x \in Call /\ x.period = period /\ x.operation = operation /\ x.on = o
      /\ x.pc = IF operation = "archive" THEN "write" ELSE "reserve"
  BY InventoryAssumption DEF Shape, TypeOK, Call
<1>2. /\ request' = [request EXCEPT ![r] = x] /\ At(r, "idle")
      /\ UNCHANGED <<counter, reservation, marks, period, opportunity, reconciliation,
                     faults, delays, regrants, reconciles>>
  BY DEF Begin
<1> HIDE DEF x
<1>3. request' \in [Requests -> Call] /\ request'[r] = x
      /\ \A s \in Requests \ {r} : request'[s] = request[s]
  BY <1>1, <1>2 DEF Shape, TypeOK
<1>4. TypeOK' /\ Opened'
  BY <1>2, <1>3 DEF Shape, TypeOK, LedgerType, Opened
<1>5. period \in Int
  BY DEF Shape, TypeOK, Periods
<1>6. RequestSound(r)'
  BY <1>1, <1>2, <1>3, <1>5 DEF RequestSound, At, Asking
<1>7. \A p \in Periods : counter[p] # NoValue => p <= period
  BY DEF Shape
<1>8. Shape'
  BY <1>2, <1>3, <1>4, <1>6, <1>7, OneRequest
<1>9. QED
  BY <1>1, <1>2, <1>3, <1>8 DEF At, Asking

LEMMA KeyIsKey ==
  ASSUME Shape, NEW r \in Requests, ~At(r, "idle"), Asking(r)
  PROVE  Key(r) \in Keys
<1>1. request[r].operation \in {"create", "restore"} /\ request[r].on \in Opportunities
  BY DEF Shape, RequestSound, TypeOK, Call, Asking
<1>2. QED
  BY <1>1, InventoryAssumption DEF Key

LEMMA ReserveShape ==
  ASSUME Shape, NEW r \in Requests, NEW k, k = Key(r), NEW p, p = request[r].period,
         ReserveRoom(r)
  PROVE  /\ Shape' /\ At(r, "reserve") /\ Asking(r) /\ k \in Keys
         /\ p \in Periods /\ p <= period
         /\ \A s \in Requests \ {r} : request'[s] = request[s]
         /\ \A q \in Periods :
              counter'[q] = IF q = p /\ counter[q] = NoValue THEN Count ELSE counter[q]
         /\ \A x \in Keys : Live(x) => reservation'[x] = reservation[x]
         /\ UNCHANGED <<opportunity, faults, delays, reconciles>>
         /\ \/ At(r, "idle")' /\ regrants' = regrants
            \/ /\ At(r, "write")' /\ Asking(r)' /\ Key(r)' = k
               /\ \/ regrants' = regrants + 1
                  \/ /\ regrants' = regrants
                     /\ ~Live(k) /\ k \in LiveIn(p)'
                     /\ counter'[p] + Cardinality(LiveIn(p)) + 1 <= HardLimit
<1>1. PICK outcome \in Outcomes, late \in SUBSET Late(p) :
        /\ At(r, "reserve")
        /\ Reserve(k, p, Count, late, outcome)
        /\ IF outcome = "EXCEEDED" THEN Done(r) ELSE Goto(r, "write")
        /\ outcome = "ALREADY_RESERVED" => Allowed(regrants, MaxRegrants)
        /\ regrants' = IF outcome = "ALREADY_RESERVED" THEN regrants + 1 ELSE regrants
        /\ UNCHANGED <<period, opportunity, reconciliation, faults, delays, reconciles>>
  BY DEF ReserveRoom
<1>2. Asking(r) /\ ~At(r, "idle") /\ request[r] \in Call
  BY <1>1, CallMoves DEF Shape, RequestSound, At
<1>3. k \in Keys /\ p \in Periods /\ p <= period
  BY <1>1, <1>2, KeyIsKey DEF Call, Shape, RequestSound
<1>4. LedgerType /\ Opened /\ Count \in Nat
  BY CountIsNat DEF Shape, TypeOK
<1>5. /\ LedgerType' /\ Opened'
      /\ \A q \in Periods :
              counter'[q] = IF q = p /\ counter[p] = NoValue THEN Count ELSE counter[q]
      /\ \A x \in Keys : Live(x) => reservation'[x] = reservation[x]
      /\ outcome = "RESERVED" =>
              /\ ~Live(k) /\ Live(k)' /\ reservation'[k].period = p
              /\ counter'[p] + Cardinality(LiveIn(p)) + 1 <= HardLimit
  <2>1. Reserve(k, p, Count, late, outcome)
    BY <1>1
  <2>2. HeldOrNot(k, p, outcome)
    BY <1>3, <1>4, <2>1, ReserveSets
  <2>3. QED
    BY <2>2 DEF HeldOrNot
<1>6. /\ request' \in [Requests -> Call]
      /\ \A o \in Requests \ {r} : request'[o] = request[o]
      /\ \/ outcome = "EXCEEDED" /\ request'[r].pc = "idle"
         \/ /\ outcome # "EXCEEDED" /\ request'[r].pc = "write"
            /\ request'[r].operation = request[r].operation
            /\ request'[r].on = request[r].on /\ request'[r].period = request[r].period
  BY <1>1, GotoSets, DoneSets
<1>7. regrants' \in 0..MaxRegrants
  BY <1>1, InventoryAssumption DEF Shape, TypeOK, Allowed
<1>8. TypeOK'
  BY <1>1, <1>5, <1>6, <1>7 DEF Shape, TypeOK
<1>9. counter'[p] # NoValue
  BY <1>3, <1>4, <1>5, LedgerAssumption
<1>10. RequestSound(r)'
  BY <1>1, <1>2, <1>3, <1>6, <1>9 DEF RequestSound, At, Asking, Shape
<1>11. \A q \in Periods : /\ counter[q] # NoValue => counter'[q] # NoValue
                          /\ counter'[q] # NoValue => q <= period
  BY <1>3, <1>5 DEF Shape
<1>12. Shape'
  BY <1>1, <1>5, <1>6, <1>8, <1>10, <1>11, OneRequest
<1>13. At(r, "write")' => Asking(r)' /\ Key(r)' = Key(r)
  BY <1>2, <1>6 DEF At, Asking, Key
<1>14. k \in Keys /\ Live(k)' /\ reservation'[k].period = p => k \in LiveIn(p)'
  BY DEF LiveIn
<1>15. QED
  BY <1>1, <1>2, <1>3, <1>5, <1>6, <1>12, <1>13, <1>14 DEF At, Outcomes

LEMMA OpenedIsNat ==
  ASSUME Shape, NEW p \in Periods, counter[p] # NoValue
  PROVE  counter[p] \in Nat
BY DEF Shape, TypeOK, LedgerType

LEMMA WriteShape ==
  ASSUME Shape, NEW r \in Requests, Write(r)
  PROVE  /\ Shape' /\ At(r, "write") /\ UNCHANGED <<counter, reservation, faults, delays, regrants, reconciles>>
         /\ \A s \in Requests \ {r} : request'[s] = request[s]
         /\ \E o \in Opportunities :
              \/ /\ Asking(r) /\ Asking(r)' /\ At(r, "commit")' /\ Key(r)' = Key(r)
                 /\ opportunity' = [opportunity EXCEPT ![o] = "active"]
              \/ /\ ~Asking(r) /\ ~Asking(r)' /\ At(r, "synchronize")'
                 /\ opportunity' = [opportunity EXCEPT ![o] = "archived"]
<1>1. /\ At(r, "write")
      /\ UNCHANGED <<counter, reservation, marks, period, reconciliation, faults, delays,
                     regrants, reconciles>>
      /\ \/ ~Asking(r) /\ opportunity' = [opportunity EXCEPT ![request[r].on] = "archived"]
            /\ Goto(r, "synchronize")
         \/ Asking(r) /\ opportunity' = [opportunity EXCEPT ![request[r].on] = "active"]
            /\ Goto(r, "commit")
  BY DEF Write, Asking
<1>2. RequestSound(r) /\ request[r].on \in Opportunities
  BY <1>1 DEF Shape, RequestSound, At
<1>3. /\ request' \in [Requests -> Call]
      /\ \A s \in Requests \ {r} : request'[s] = request[s]
      /\ request'[r].pc = IF Asking(r) THEN "commit" ELSE "synchronize"
      /\ request'[r].operation = request[r].operation
      /\ request'[r].on = request[r].on /\ request'[r].period = request[r].period
  BY <1>1, GotoSets
<1>4. TypeOK' /\ Opened'
  BY <1>1, <1>2, <1>3 DEF Shape, TypeOK, LedgerType, Opened
<1>5. RequestSound(r)'
  BY <1>1, <1>2, <1>3 DEF RequestSound, At, Asking
<1>6. \A p \in Periods : counter[p] # NoValue => p <= period
  BY DEF Shape
<1>7. Shape'
  BY <1>1, <1>3, <1>4, <1>5, <1>6, OneRequest
<1>8. QED
  BY <1>1, <1>2, <1>3, <1>7 DEF At, Asking, Key

LEMMA AllowedMore ==
  ASSUME NEW n, NEW max \in Nat, n \in 0..max, Allowed(n, max)
  PROVE  n + 1 \in 0..max
BY DEF Allowed

LEMMA WriteFailsShape ==
  ASSUME Shape, NEW r \in Requests, WriteFails(r)
  PROVE  /\ Shape' /\ At(r, "write") /\ faults' = faults + 1
         /\ UNCHANGED <<counter, reservation, opportunity, delays, regrants, reconciles>>
         /\ \A s \in Requests \ {r} : request'[s] = request[s]
         /\ \/ Asking(r) /\ At(r, "release")'
            \/ ~Asking(r) /\ At(r, "idle")'
<1>1. /\ At(r, "write") /\ Allowed(faults, MaxFaults) /\ faults' = faults + 1
      /\ UNCHANGED <<counter, reservation, marks, period, opportunity, reconciliation, delays,
                     regrants, reconciles>>
      /\ \/ ~Asking(r) /\ Done(r)
         \/ Asking(r) /\ Goto(r, "release")
  BY DEF WriteFails, Asking
<1>2. RequestSound(r) /\ ~At(r, "idle") /\ ~At(r, "reserve")
  BY <1>1 DEF Shape, At
<1>3. /\ request' \in [Requests -> Call]
      /\ \A s \in Requests \ {r} : request'[s] = request[s]
      /\ \/ ~Asking(r) /\ request'[r].pc = "idle"
         \/ /\ Asking(r) /\ request'[r].pc = "release" /\ request'[r].operation = request[r].operation
            /\ request'[r].on = request[r].on /\ request'[r].period = request[r].period
  BY <1>1, GotoSets, DoneSets
<1>4. faults' \in 0..MaxFaults
  BY <1>1, InventoryAssumption, AllowedMore DEF Shape, TypeOK
<1>5. TypeOK' /\ Opened'
  BY <1>1, <1>3, <1>4 DEF Shape, TypeOK, LedgerType, Opened
<1>6. RequestSound(r)'
  BY <1>1, <1>2, <1>3 DEF RequestSound, At, Asking
<1>7. \A p \in Periods : counter[p] # NoValue => p <= period
  BY DEF Shape
<1>8. Shape'
  BY <1>1, <1>3, <1>5, <1>6, <1>7, OneRequest
<1>9. QED
  BY <1>1, <1>3, <1>8 DEF At, Asking

LEMMA CommitShape ==
  ASSUME Shape, NEW r \in Requests, NEW k, k = Key(r), CommitRoom(r)
  PROVE  /\ Shape' /\ At(r, "commit") /\ At(r, "idle")' /\ Asking(r) /\ k \in Keys
         /\ UNCHANGED <<opportunity, faults, delays, regrants, reconciles>>
         /\ \A s \in Requests \ {r} : request'[s] = request[s]
         /\ \A x \in Keys \ {k} : reservation'[x] = reservation[x]
         /\ reservation'[k].period = reservation[k].period
         /\ \A q \in Periods :
              /\ counter'[q] = NoValue <=> counter[q] = NoValue
              /\ counter[q] # NoValue => counter'[q] \in Nat /\ counter[q] <= counter'[q]
              /\ Live(k) /\ reservation[k].period = q => counter'[q] = counter[q] + 1
<1>1. /\ At(r, "commit") /\ Commit(k) /\ Done(r)
      /\ UNCHANGED <<period, opportunity, reconciliation, faults, delays, regrants, reconciles>>
  BY DEF CommitRoom
<1>2. ~At(r, "idle") /\ RequestSound(r) /\ Asking(r)
  BY <1>1 DEF Shape, RequestSound, At
<1>3. k \in Keys
  BY <1>2, KeyIsKey
<1>4. LedgerType /\ Opened
  BY DEF Shape, TypeOK
<1>5. /\ LedgerType' /\ Opened'
      /\ \A x \in Keys \ {k} : reservation'[x] = reservation[x]
      /\ reservation'[k].period = reservation[k].period
      /\ \A q \in Periods :
           /\ counter'[q] = NoValue <=> counter[q] = NoValue
           /\ counter[q] # NoValue => counter'[q] \in Nat /\ counter[q] <= counter'[q]
           /\ Live(k) /\ reservation[k].period = q => counter'[q] = counter[q] + 1
  BY <1>1, <1>3, <1>4, CommitSets
<1>6. /\ request' \in [Requests -> Call] /\ request'[r].pc = "idle"
      /\ \A s \in Requests \ {r} : request'[s] = request[s]
  BY <1>1, DoneSets
<1>7. TypeOK'
  BY <1>1, <1>5, <1>6 DEF Shape, TypeOK
<1>8. RequestSound(r)'
  BY <1>6 DEF RequestSound, At
<1>9. \A p \in Periods : counter[p] # NoValue => p <= period
  BY DEF Shape
<1>10. Shape'
  BY <1>1, <1>5, <1>6, <1>7, <1>8, <1>9, OneRequest
<1>11. QED
  BY <1>1, <1>2, <1>3, <1>5, <1>6, <1>10 DEF At

LEMMA ReleaseShape ==
  ASSUME Shape, NEW r \in Requests, NEW k, k = Key(r), ReleaseRoom(r)
  PROVE  /\ Shape' /\ At(r, "release") /\ At(r, "idle")' /\ k \in Keys
         /\ UNCHANGED <<counter, opportunity, faults, delays, regrants, reconciles>>
         /\ \A s \in Requests \ {r} : request'[s] = request[s]
         /\ \A x \in Keys \ {k} : reservation'[x] = reservation[x]
         /\ reservation'[k].period = reservation[k].period
<1>1. /\ At(r, "release") /\ Release(k) /\ Done(r)
      /\ UNCHANGED <<period, opportunity, reconciliation, faults, delays, regrants, reconciles>>
  BY DEF ReleaseRoom
<1>2. ~At(r, "idle") /\ RequestSound(r) /\ Asking(r)
  BY <1>1 DEF Shape, RequestSound, At
<1>3. k \in Keys
  BY <1>2, KeyIsKey
<1>4. LedgerType /\ Opened
  BY DEF Shape, TypeOK
<1>5. /\ LedgerType' /\ Opened' /\ UNCHANGED counter
      /\ \A x \in Keys \ {k} : reservation'[x] = reservation[x]
      /\ reservation'[k].period = reservation[k].period
  BY <1>1, <1>3, <1>4, ReleaseSets
<1>6. /\ request' \in [Requests -> Call] /\ request'[r].pc = "idle"
      /\ \A s \in Requests \ {r} : request'[s] = request[s]
  BY <1>1, DoneSets
<1>7. TypeOK'
  BY <1>1, <1>5, <1>6 DEF Shape, TypeOK
<1>8. RequestSound(r)'
  BY <1>6 DEF RequestSound, At
<1>9. \A p \in Periods : counter[p] # NoValue => p <= period
  BY DEF Shape
<1>10. Shape'
  BY <1>1, <1>5, <1>6, <1>7, <1>8, <1>9, OneRequest
<1>11. QED
  BY <1>1, <1>3, <1>5, <1>6, <1>10 DEF At

LEMMA SynchronizeShape ==
  ASSUME Shape, NEW r \in Requests, Synchronize(r)
  PROVE  /\ Shape' /\ At(r, "synchronize") /\ At(r, "idle")' /\ period \in Periods
         /\ UNCHANGED <<reservation, opportunity, faults, delays, regrants, reconciles>>
         /\ \A s \in Requests \ {r} : request'[s] = request[s]
         /\ \A q \in Periods : counter'[q] = IF q = period THEN Count ELSE counter[q]
<1>1. /\ At(r, "synchronize") /\ Done(r) /\ counter' = [counter EXCEPT ![period] = Count]
      /\ UNCHANGED <<reservation, marks, period, opportunity, reconciliation, faults, delays,
                     regrants, reconciles>>
  BY DEF Synchronize
<1>2. /\ request' \in [Requests -> Call] /\ request'[r].pc = "idle"
      /\ \A s \in Requests \ {r} : request'[s] = request[s]
  BY <1>1, DoneSets
<1>3. /\ counter \in [Periods -> Nat \union {NoValue}] /\ period \in Periods /\ Count \in Nat
      /\ NoValue \notin Nat
  BY CountIsNat, LedgerAssumption DEF Shape, TypeOK, LedgerType
<1>4. \A q \in Periods : counter'[q] = IF q = period THEN Count ELSE counter[q]
  BY <1>1, <1>3
<1>5. counter' \in [Periods -> Nat \union {NoValue}]
  BY <1>1, <1>3
<1>6. TypeOK'
  BY <1>1, <1>2, <1>5 DEF Shape, TypeOK, LedgerType
<1>7. \A k \in Keys : reservation[k].period \in Periods
  BY DEF Shape, TypeOK, LedgerType, Reservation
<1>8. Opened'
  BY <1>1, <1>3, <1>4, <1>7 DEF Shape, Opened
<1>9. RequestSound(r)'
  BY <1>2 DEF RequestSound, At
<1>10. \A p \in Periods : /\ counter[p] # NoValue => counter'[p] # NoValue
                          /\ counter'[p] # NoValue => p <= period
  BY <1>3, <1>4 DEF Shape, Periods
<1>11. Shape'
  BY <1>1, <1>2, <1>6, <1>8, <1>9, <1>10, OneRequest
<1>12. QED
  BY <1>1, <1>2, <1>3, <1>4, <1>11 DEF At

LEMMA CrashShape ==
  ASSUME Shape, NEW r \in Requests, Crash(r)
  PROVE  /\ Shape' /\ ~At(r, "idle") /\ At(r, "idle")' /\ faults' = faults + 1
         /\ UNCHANGED <<counter, reservation, opportunity, delays, regrants, reconciles>>
         /\ \A s \in Requests \ {r} : request'[s] = request[s]
<1>1. /\ ~At(r, "idle") /\ Allowed(faults, MaxFaults) /\ faults' = faults + 1 /\ Done(r)
      /\ UNCHANGED <<counter, reservation, marks, period, opportunity, reconciliation, delays,
                     regrants, reconciles>>
  BY DEF Crash
<1>2. /\ request' \in [Requests -> Call] /\ request'[r].pc = "idle"
      /\ \A s \in Requests \ {r} : request'[s] = request[s]
  BY <1>1, DoneSets
<1>3. faults' \in 0..MaxFaults
  BY <1>1, InventoryAssumption, AllowedMore DEF Shape, TypeOK
<1>4. TypeOK' /\ Opened'
  BY <1>1, <1>2, <1>3 DEF Shape, TypeOK, LedgerType, Opened
<1>5. RequestSound(r)'
  BY <1>2 DEF RequestSound, At
<1>6. \A p \in Periods : counter[p] # NoValue => p <= period
  BY DEF Shape
<1>7. Shape'
  BY <1>1, <1>2, <1>4, <1>5, <1>6, OneRequest
<1>8. QED
  BY <1>1, <1>2, <1>7 DEF At

\* Steps of no request
LEMMA NoRequest ==
  ASSUME Shape, TypeOK', Opened', UNCHANGED request, period <= period',
         reconciliation'.period <= period', reconciliation'.pc # "idle" => reconciles' > 0,
         \A p \in Periods : /\ counter[p] # NoValue => counter'[p] # NoValue
                            /\ counter'[p] # NoValue => p <= period
  PROVE  Shape'
<1>1. period \in Int /\ period' \in Int
  BY DEF Shape, TypeOK, Periods
<1>2. ASSUME NEW o \in Requests PROVE RequestSound(o)'
  <2>1. RequestSound(o) /\ request[o].period \in Periods
    BY DEF Shape, TypeOK, Call
  <2>2. QED
    BY <1>1, <2>1 DEF RequestSound, At, Asking, Periods
<1>3. \A p \in Periods : counter'[p] # NoValue => p <= period'
  BY <1>1 DEF Periods
<1>4. QED
  BY <1>2, <1>3 DEF Shape

LEMMA ReconcileShape ==
  ASSUME Shape, ReconcileCount \/ ReconcileCompare \/ ReconcileWrite
  PROVE  /\ Shape' /\ UNCHANGED <<request, reservation, opportunity, faults, delays, regrants>>
         /\ reconciles' = 0 => reconciles = 0 /\ UNCHANGED counter
<1>1. /\ reconciles \in 0..MaxReconciles /\ MaxReconciles \in Nat /\ Count \in Nat
      /\ counter \in [Periods -> Nat \union {NoValue}] /\ NoValue \notin Nat
      /\ reconciliation \in [pc : {"idle", "compare", "write"}, count : Nat, period : Periods]
      /\ 0 \in Periods
  BY CountIsNat, LedgerAssumption, InventoryAssumption DEF Shape, TypeOK, LedgerType, Periods
<1>2. \A p \in Periods : counter[p] # NoValue => p <= period
  BY DEF Shape
<1>3. CASE ReconcileCount
  <2>1. /\ reconciles' = reconciles + 1 /\ Allowed(reconciles, MaxReconciles)
        /\ reconciliation' = [pc |-> "compare", count |-> Count, period |-> period]
        /\ UNCHANGED <<counter, reservation, marks, period, opportunity, request, faults, delays, regrants>>
    BY <1>3 DEF ReconcileCount
  <2>2. reconciles' \in 0..MaxReconciles /\ reconciles' > 0
    BY <1>1, <2>1, AllowedMore
  <2>3. TypeOK' /\ Opened'
    BY <1>1, <2>1, <2>2 DEF Shape, TypeOK, LedgerType, Opened
  <2>4. period <= period' /\ reconciliation'.period <= period'
    BY <2>1 DEF Shape, TypeOK, Periods
  <2>5. Shape'
    BY <1>2, <2>1, <2>2, <2>3, <2>4, NoRequest
  <2>6. QED
    BY <1>1, <2>1, <2>2, <2>5
<1>4. CASE ReconcileCompare
  <2>1. /\ reconciliation.pc = "compare"
        /\ \/ reconciliation' = Asleep \/ reconciliation' = [reconciliation EXCEPT !.pc = "write"]
        /\ UNCHANGED <<counter, reservation, marks, period, opportunity, request, faults, delays,
                       regrants, reconciles>>
    BY <1>4 DEF ReconcileCompare
  <2>2. reconciliation' \in [pc : {"idle", "compare", "write"}, count : Nat, period : Periods]
    BY <1>1, <2>1 DEF Asleep
  <2>3. TypeOK' /\ Opened'
    BY <2>1, <2>2 DEF Shape, TypeOK, LedgerType, Opened
  <2>4. period <= period' /\ reconciles > 0 /\ reconciliation'.period <= period'
    BY <1>1, <2>1 DEF Shape, TypeOK, Periods, Asleep
  <2>5. Shape'
    BY <1>2, <2>1, <2>3, <2>4, NoRequest
  <2>6. QED
    BY <1>1, <2>1, <2>4, <2>5
<1>5. CASE ReconcileWrite
  <2>1. /\ reconciliation.pc = "write" /\ reconciliation' = Asleep
        /\ counter' = [counter EXCEPT ![reconciliation.period] = reconciliation.count]
        /\ UNCHANGED <<reservation, marks, period, opportunity, request, faults, delays, regrants, reconciles>>
    BY <1>5 DEF ReconcileWrite
  <2>2. counter' \in [Periods -> Nat \union {NoValue}]
    BY <1>1, <2>1
  <2>3. /\ reconciliation' \in [pc : {"idle", "compare", "write"}, count : Nat, period : Periods]
        /\ reconciliation'.pc = "idle"
    BY <1>1, <2>1 DEF Asleep
  <2>4. TypeOK'
    BY <2>1, <2>2, <2>3 DEF Shape, TypeOK, LedgerType
  <2>5. /\ period <= period' /\ reconciles > 0 /\ reconciliation'.period <= period'
        /\ reconciliation.period <= period
    BY <2>1 DEF Shape, TypeOK, Periods, Asleep
  <2>6. \A q \in Periods : counter'[q] = IF q = reconciliation.period THEN reconciliation.count
                                         ELSE counter[q]
    BY <1>1, <2>1
  <2>7. Opened'
    <3>1. \A k \in Keys : reservation[k].period \in Periods
      BY DEF Shape, TypeOK, LedgerType, Reservation
    <3>2. QED
      BY <1>1, <2>1, <2>6, <3>1 DEF Shape, Opened
  <2>8. QED
    BY <1>1, <1>2, <2>1, <2>3, <2>4, <2>5, <2>6, <2>7, NoRequest
<1>6. QED
  BY <1>3, <1>4, <1>5

LEMMA TimesOutShape ==
  ASSUME Shape, NEW k \in Keys, ReservationTimesOut(k)
  PROVE  /\ Shape' /\ UNCHANGED <<counter, request, opportunity, faults, regrants, reconciles>>
         /\ \A x \in Keys \ {k} : reservation'[x] = reservation[x]
         /\ reservation'[k].period = reservation[k].period
         /\ delays' = IF InUse(k) THEN delays + 1 ELSE delays
<1>1. /\ TimeOut(k) /\ (InUse(k) => Allowed(delays, MaxDelays))
      /\ delays' = IF InUse(k) THEN delays + 1 ELSE delays
      /\ UNCHANGED <<period, opportunity, request, reconciliation, faults, regrants, reconciles>>
  BY DEF ReservationTimesOut
<1>2. LedgerType /\ Opened
  BY DEF Shape, TypeOK
<1>3. /\ LedgerType' /\ Opened' /\ UNCHANGED counter
      /\ \A x \in Keys \ {k} : reservation'[x] = reservation[x]
      /\ reservation'[k].period = reservation[k].period
  BY <1>1, <1>2, TimeOutSets
<1>4. delays' \in 0..MaxDelays
  BY <1>1, InventoryAssumption, AllowedMore DEF Shape, TypeOK
<1>5. TypeOK'
  BY <1>1, <1>3, <1>4 DEF Shape, TypeOK
<1>6. period <= period'
  BY <1>1 DEF Shape, TypeOK, Periods
<1>7. \A p \in Periods : counter[p] # NoValue => p <= period
  BY DEF Shape
<1>8. reconciliation'.period <= period' /\ (reconciliation'.pc # "idle" => reconciles' > 0)
  BY <1>1 DEF Shape
<1>9. Shape'
  BY <1>1, <1>3, <1>5, <1>6, <1>7, <1>8, NoRequest
<1>10. QED
  BY <1>1, <1>3, <1>9

LEMMA ExpireShape ==
  ASSUME Shape, Expire
  PROVE  /\ Shape' /\ UNCHANGED <<counter, request, opportunity, faults, delays, regrants, reconciles>>
         /\ \A x \in Keys : Live(x) => reservation'[x] = reservation[x]
<1>1. /\ ExpireOverdue
      /\ UNCHANGED <<period, opportunity, request, reconciliation, faults, delays, regrants, reconciles>>
  BY DEF Expire
<1>2. LedgerType /\ Opened
  BY DEF Shape, TypeOK
<1>3. /\ LedgerType' /\ Opened' /\ UNCHANGED counter
      /\ \A x \in Keys : Live(x) => reservation'[x] = reservation[x]
  BY <1>1, <1>2, ExpireSets
<1>4. TypeOK'
  BY <1>1, <1>3 DEF Shape, TypeOK
<1>5. period <= period'
  BY <1>1 DEF Shape, TypeOK, Periods
<1>6. \A p \in Periods : counter[p] # NoValue => p <= period
  BY DEF Shape
<1>7. reconciliation'.period <= period' /\ (reconciliation'.pc # "idle" => reconciles' > 0)
  BY <1>1 DEF Shape
<1>8. Shape'
  BY <1>1, <1>3, <1>4, <1>5, <1>6, <1>7, NoRequest
<1>9. QED
  BY <1>1, <1>3, <1>8

LEMMA NextPeriodShape ==
  ASSUME Shape, NextPeriod
  PROVE  /\ Shape' /\ UNCHANGED <<counter, request, reservation, opportunity, faults, delays, regrants,
                                 reconciles>>
<1>1. /\ period < LastPeriod /\ period' = period + 1
      /\ UNCHANGED <<counter, reservation, marks, opportunity, request, reconciliation,
                     faults, delays, regrants, reconciles>>
  BY DEF NextPeriod
<1>2. /\ period \in Periods /\ LastPeriod \in Nat
      /\ reconciliation.period \in Periods /\ reconciliation.period <= period
  BY LedgerAssumption DEF Shape, TypeOK
<1>3. period' \in Periods /\ period <= period' /\ reconciliation'.period <= period'
  BY <1>1, <1>2 DEF Periods
<1>4. TypeOK' /\ Opened'
  BY <1>1, <1>3 DEF Shape, TypeOK, LedgerType, Opened
<1>5. \A p \in Periods : counter[p] # NoValue => p <= period
  BY DEF Shape
<1>6. reconciliation'.pc # "idle" => reconciles' > 0
  BY <1>1 DEF Shape
<1>7. Shape'
  BY <1>1, <1>3, <1>4, <1>5, <1>6, NoRequest
<1>8. QED
  BY <1>1, <1>7

-----------------------------------------------------------------------------
(* The sums: what one request may change of them                           *)

LEMMA OfRequests == \A S \in SUBSET Requests : IsFiniteSet(S) /\ Cardinality(S) \in Nat
BY InventoryAssumption, Fewer

LEMMA OfKeys == \A S \in SUBSET Keys : IsFiniteSet(S) /\ Cardinality(S) \in Nat
BY LedgerAssumption, Fewer

\* S becomes T, and x is all they may differ by.
Shift(S, T, x) ==
  /\ Cardinality(S) \in Nat /\ Cardinality(T) \in Nat
  /\ (x \in S <=> x \in T) => Cardinality(T) = Cardinality(S)
  /\ x \in S /\ x \notin T => Cardinality(S) = Cardinality(T) + 1
  /\ x \notin S /\ x \in T => Cardinality(T) = Cardinality(S) + 1

LEMMA Shifts ==
  ASSUME NEW S \in SUBSET Requests, NEW T \in SUBSET Requests, NEW x, S \ {x} = T \ {x}
  PROVE  Shift(S, T, x)
<1>1. IsFiniteSet(S) /\ IsFiniteSet(T)
  BY OfRequests
<1>2. /\ Cardinality(S \ {x}) \in Nat /\ Cardinality(S) \in Nat
      /\ x \in S => Cardinality(S) = Cardinality(S \ {x}) + 1
      /\ x \notin S => Cardinality(S) = Cardinality(S \ {x})
  BY <1>1, Without
<1>3. /\ Cardinality(T \ {x}) \in Nat /\ Cardinality(T) \in Nat
      /\ x \in T => Cardinality(T) = Cardinality(T \ {x}) + 1
      /\ x \notin T => Cardinality(T) = Cardinality(T \ {x})
  BY <1>1, Without
<1>4. QED
  BY <1>2, <1>3 DEF Shift

LEMMA OthersShift ==
  ASSUME NEW r \in Requests, \A s \in Requests \ {r} : request'[s] = request[s]
  PROVE  /\ Shift(Workers, Workers', r) /\ Shift(Releasing, Releasing', r)
         /\ \A p \in Periods : Shift(Pending(p), Pending(p)', r)
<1>1. Workers \ {r} = Workers' \ {r} /\ Releasing \ {r} = Releasing' \ {r}
  BY DEF Workers, Releasing, At, Asking
<1>2. ASSUME NEW p \in Periods PROVE Pending(p) \ {r} = Pending(p)' \ {r}
  BY DEF Pending, At, Asking
<1>3. /\ Workers \in SUBSET Requests /\ Workers' \in SUBSET Requests
      /\ Releasing \in SUBSET Requests /\ Releasing' \in SUBSET Requests
      /\ \A p \in Periods : Pending(p) \in SUBSET Requests /\ Pending(p)' \in SUBSET Requests
  BY DEF Workers, Releasing, Pending
<1>4. QED
  BY <1>1, <1>2, <1>3, Shifts

\* The holds that are backed, when all but k are
LEMMA BackedBut ==
  ASSUME NEW k \in Keys, Backed \subseteq Backed' \cup {k},
         \A x \in Backed : reservation'[x].period = reservation[x].period
  PROVE  /\ Cardinality(Backed) \in Nat /\ Cardinality(Backed') \in Nat
         /\ Cardinality(Backed) <= Cardinality(Backed') + 1
         /\ k \notin Backed \/ k \in Backed' => Cardinality(Backed) <= Cardinality(Backed')
         /\ \A p \in Periods :
              /\ Cardinality(BackedIn(p)) \in Nat /\ Cardinality(BackedIn(p)') \in Nat
              /\ Cardinality(BackedIn(p)) <= Cardinality(BackedIn(p)') + 1
              /\ k \notin BackedIn(p) \/ k \in Backed' =>
                   Cardinality(BackedIn(p)) <= Cardinality(BackedIn(p)')
<1>1. Backed \in SUBSET Keys /\ Backed' \in SUBSET Keys
  BY DEF Backed
<1>2. \A p \in Periods : BackedIn(p) \in SUBSET Keys /\ BackedIn(p)' \in SUBSET Keys
  BY <1>1 DEF BackedIn
<1>3. IsFiniteSet(Backed') /\ Cardinality(Backed) \in Nat /\ Cardinality(Backed') \in Nat
  BY <1>1, OfKeys
<1>4. Cardinality(Backed) <= Cardinality(Backed') + 1
  BY <1>3, OneFewer
<1>5. ASSUME k \notin Backed \/ k \in Backed' PROVE Cardinality(Backed) <= Cardinality(Backed')
  <2>1. Backed \subseteq Backed'
    BY <1>5
  <2>2. QED
    BY <1>3, <2>1, Fewer
<1>6. ASSUME NEW p \in Periods
      PROVE  /\ Cardinality(BackedIn(p)) \in Nat /\ Cardinality(BackedIn(p)') \in Nat
             /\ Cardinality(BackedIn(p)) <= Cardinality(BackedIn(p)') + 1
             /\ k \notin BackedIn(p) \/ k \in Backed' =>
                  Cardinality(BackedIn(p)) <= Cardinality(BackedIn(p)')
  <2>1. IsFiniteSet(BackedIn(p)') /\ Cardinality(BackedIn(p)) \in Nat /\ Cardinality(BackedIn(p)') \in Nat
    BY <1>2, OfKeys
  <2>2. BackedIn(p) \subseteq BackedIn(p)' \cup {k}
    BY DEF BackedIn
  <2>3. Cardinality(BackedIn(p)) <= Cardinality(BackedIn(p)') + 1
    BY <2>1, <2>2, OneFewer
  <2>4. ASSUME k \notin BackedIn(p) \/ k \in Backed'
        PROVE  Cardinality(BackedIn(p)) <= Cardinality(BackedIn(p)')
    <3>1. BackedIn(p) \subseteq BackedIn(p)'
      BY <2>2, <2>4 DEF BackedIn
    <3>2. QED
      BY <2>1, <3>1, Fewer
  <2>5. QED
    BY <2>1, <2>3, <2>4
<1>7. QED
  BY <1>3, <1>4, <1>5, <1>6

LEMMA BackedKept ==
  ASSUME Backed \subseteq Backed', \A x \in Backed : reservation'[x].period = reservation[x].period
  PROVE  /\ Cardinality(Backed) \in Nat /\ Cardinality(Backed') \in Nat
         /\ Cardinality(Backed) <= Cardinality(Backed')
         /\ \A p \in Periods :
              /\ Cardinality(BackedIn(p)) \in Nat /\ Cardinality(BackedIn(p)') \in Nat
              /\ Cardinality(BackedIn(p)) <= Cardinality(BackedIn(p)')
<1>1. Backed \in SUBSET Keys /\ Backed' \in SUBSET Keys
  BY DEF Backed
<1>2. /\ Cardinality(Backed) \in Nat /\ Cardinality(Backed') \in Nat
      /\ Cardinality(Backed) <= Cardinality(Backed')
  BY <1>1, OfKeys, Fewer
<1>3. ASSUME NEW p \in Periods
      PROVE  /\ Cardinality(BackedIn(p)) \in Nat /\ Cardinality(BackedIn(p)') \in Nat
             /\ Cardinality(BackedIn(p)) <= Cardinality(BackedIn(p)')
  <2>1. BackedIn(p) \in SUBSET Keys /\ BackedIn(p)' \in SUBSET Keys
    BY <1>1 DEF BackedIn
  <2>2. BackedIn(p) \subseteq BackedIn(p)'
    BY DEF BackedIn
  <2>3. QED
    BY <2>1, <2>2, OfKeys, Fewer
<1>4. QED
  BY <1>2, <1>3

\* A hold is backed still if its worker and its row are as before.
LEMMA BackedByOthers ==
  ASSUME NEW r \in Requests, \A s \in Requests \ {r} : request'[s] = request[s],
         NEW k \in Keys, r \in Workers => Key(r) = k,
         \A x \in Keys \ {k} : Live(x) => reservation'[x] = reservation[x]
  PROVE  /\ Backed \subseteq Backed' \cup {k}
         /\ \A x \in Backed \ {k} : reservation'[x].period = reservation[x].period
<1>1. ASSUME NEW x \in Backed \ {k} PROVE x \in Backed' /\ reservation'[x] = reservation[x]
  <2>1. x \in Keys /\ Live(x)
    BY <1>1 DEF Backed
  <2>2. PICK s \in Workers : Key(s) = x
    BY <1>1 DEF Backed
  <2>3. s # r /\ s \in Requests
    BY <1>1, <2>2 DEF Workers
  <2>4. s \in Workers' /\ Key(s)' = x
    BY <2>2, <2>3 DEF Workers, At, Asking, Key
  <2>5. Live(x)' /\ reservation'[x] = reservation[x]
    BY <1>1, <2>1 DEF Live, Reserved
  <2>6. QED
    BY <2>1, <2>4, <2>5 DEF Backed
<1>2. QED
  BY <1>1

LEMMA BackedByAll ==
  ASSUME \A s \in Workers : s \in Workers' /\ Key(s)' = Key(s),
         \A x \in Keys : Live(x) => reservation'[x] = reservation[x]
  PROVE  /\ Backed \subseteq Backed'
         /\ \A x \in Backed : reservation'[x].period = reservation[x].period
BY DEF Backed, Live, Reserved

LEMMA SameTop ==
  ASSUME \A q \in Periods : counter'[q] = NoValue <=> counter[q] = NoValue
  PROVE  /\ Unopened' <=> Unopened
         /\ \A p \in Periods : Top(p)' <=> Top(p)
BY DEF Unopened, Top

LEMMA Numbers ==
  ASSUME Shape
  PROVE  /\ faults \in Nat /\ delays \in Nat /\ regrants \in Nat /\ reconciles \in Nat
         /\ HardLimit \in Nat /\ Count \in Nat
BY CountIsNat, LedgerAssumption, InventoryAssumption DEF Shape, TypeOK

LEMMA BroughtFacts ==
  ASSUME NEW r \in Requests
  PROVE  /\ Cardinality(Requests) - 1 \in Nat
         /\ \A p \in Periods : Brought(p) \in Nat
         /\ \A p, q \in Periods : p < q => Brought(p) + (Cardinality(Requests) - 1) <= Brought(q)
         /\ \A q \in Periods : q > 0 => Cardinality(Requests) - 1 <= Brought(q)
<1>1. Requests \in SUBSET Requests
  OBVIOUS
<1>2. /\ Cardinality(Requests) \in Nat
      /\ Cardinality(Requests) = Cardinality(Requests \ {r}) + 1
      /\ Cardinality(Requests \ {r}) \in Nat
  BY <1>1, OfRequests, Without
<1>3. PICK n \in Nat : n = Cardinality(Requests) - 1
  BY <1>2
<1>4. \A p \in Nat : p * n \in Nat
  OBVIOUS
<1>5. ASSUME NEW p \in Nat, NEW q \in Nat, p < q PROVE p * n + n <= q * n
  <2>1. PICK d \in Nat : q = p + 1 + d
    <3>1. q - p - 1 \in Nat /\ q = p + 1 + (q - p - 1)
      BY <1>5
    <3>2. QED
      BY <3>1
  <2>2. q * n = p * n + n + d * n
    BY <2>1
  <2>3. d * n \in Nat /\ p * n \in Nat
    BY <1>4
  <2>4. QED
    BY <2>2, <2>3
<1>6. \A p \in Periods : p \in Nat /\ Brought(p) = p * n
  BY <1>3, LedgerAssumption DEF Periods, Brought
<1>7. \A q \in Periods : q > 0 => n <= Brought(q)
  BY <1>4, <1>5, <1>6
<1>8. QED
  BY <1>3, <1>4, <1>5, <1>6, <1>7

-----------------------------------------------------------------------------
(* The sums are kept                                                       *)

LEMMA CountNext == Count' \in Nat
<1>1. Active' \subseteq Opportunities
  BY DEF Active
<1>2. QED
  BY <1>1, InventoryAssumption, Fewer DEF Count

\* For the steps that open no counter
LEMMA Balanced ==
  ASSUME InventoryIInv, Shape', reconciles' = reconciles,
         \A q \in Periods : counter'[q] = NoValue <=> counter[q] = NoValue,
         WorkBacked', Unopened => Count' <= Count,
         \A p \in Periods : counter[p] # NoValue /\ Accounted(p) /\ Within(p)
                             => Accounted(p)' /\ Within(p)'
  PROVE  InventoryIInv'
<1>1. /\ Unopened' <=> Unopened
      /\ \A p \in Periods : Top(p)' <=> Top(p)
  BY SameTop
<1>2. ASSUME reconciles = 0, Unopened PROVE Count' <= HardLimit
  <2>1. Count <= HardLimit
    BY <1>2 DEF InventoryIInv
  <2>2. Count \in Nat /\ HardLimit \in Nat
    BY Numbers DEF InventoryIInv
  <2>3. QED
    BY <1>2, <2>1, <2>2, CountNext
<1>3. ASSUME reconciles = 0, NEW p \in Periods, Top(p) PROVE Accounted(p)' /\ Within(p)'
  <2>1. counter[p] # NoValue /\ Accounted(p) /\ Within(p)
    BY <1>3 DEF InventoryIInv, Top
  <2>2. QED
    BY <2>1
<1>4. QED
  BY <1>1, <1>2, <1>3 DEF InventoryIInv

\* The numbers of a step of one request
LEMMA Sums ==
  ASSUME Shape, NEW r \in Requests, \A s \in Requests \ {r} : request'[s] = request[s]
  PROVE  /\ Count \in Nat /\ Count' \in Nat /\ HardLimit \in Nat /\ Tokens \in Nat
         /\ Shift(Workers, Workers', r) /\ Shift(Releasing, Releasing', r)
         /\ \A p \in Periods :
              /\ Shift(Pending(p), Pending(p)', r)
              /\ Brought(p) \in Nat /\ Brought(p)' = Brought(p)
              /\ counter[p] # NoValue => counter[p] \in Nat
<1>1. Count \in Nat /\ Count' \in Nat /\ HardLimit \in Nat /\ Tokens \in Nat
  BY Numbers, CountNext DEF Tokens
<1>2. ASSUME NEW p \in Periods PROVE Brought(p) \in Nat /\ Brought(p)' = Brought(p)
  BY BroughtFacts DEF Brought
<1>3. QED
  BY <1>1, <1>2, OthersShift, OpenedIsNat

LEMMA SameCount == UNCHANGED opportunity => Count' = Count
BY DEF Count, Active

LEMMA BeginKeeps ==
  ASSUME InventoryIInv, NEW r \in Requests, NEW operation \in Operations, NEW o \in Opportunities,
         Begin(r, operation, o)
  PROVE  InventoryIInv'
<1>1. Shape /\ WorkBacked
  BY DEF InventoryIInv
<1>2. /\ Shape' /\ At(r, "idle")
      /\ \A s \in Requests \ {r} : request'[s] = request[s]
      /\ (At(r, "reserve")' /\ request'[r].period = period) \/ ~Asking(r)'
      /\ At(r, "reserve")' \/ At(r, "write")'
      /\ UNCHANGED <<counter, reservation, opportunity, faults, delays, regrants, reconciles>>
  BY <1>1, BeginShape
<1>3. r \notin Workers /\ r \notin Releasing /\ r \notin Workers' /\ r \notin Releasing'
  BY <1>2 DEF Workers, Releasing, At
<1>4. ASSUME NEW p \in Periods, counter[p] # NoValue PROVE r \notin Pending(p) /\ r \notin Pending(p)'
  <2>1. p <= period /\ p \in Int /\ period \in Int
    BY <1>1, <1>4 DEF Shape, TypeOK, Periods
  <2>2. QED
    BY <1>2, <2>1 DEF Pending, At
<1>5. \A s \in Workers : s \in Workers' /\ Key(s)' = Key(s)
  BY <1>2, <1>3 DEF Workers, At, Asking, Key
<1>6. /\ Backed \subseteq Backed'
      /\ \A x \in Backed : reservation'[x].period = reservation[x].period
  BY <1>2, <1>5, BackedByAll
<1>7. Tokens' = Tokens /\ Count' = Count
  BY <1>2, SameCount DEF Tokens
<1>8. WorkBacked'
  BY <1>1, <1>2, <1>3, <1>6, <1>7, Sums, BackedKept DEF WorkBacked, Shift
<1>9. ASSUME NEW p \in Periods, counter[p] # NoValue, Accounted(p), Within(p)
      PROVE  Accounted(p)' /\ Within(p)'
  BY <1>1, <1>2, <1>3, <1>4, <1>6, <1>7, <1>9, Sums, BackedKept DEF Accounted, Within, Shift
<1>10. Count' <= Count
  BY <1>1, <1>7, Numbers
<1>11. QED
  BY <1>2, <1>8, <1>9, <1>10, Balanced

LEMMA ActiveFewer ==
  ASSUME Shape, NEW o \in Opportunities, NEW status \in {"active", "archived"},
         opportunity' = [opportunity EXCEPT ![o] = status]
  PROVE  /\ Count' <= Count + 1
         /\ status = "archived" => Count' <= Count
<1>1. opportunity \in [Opportunities -> {"none", "active", "archived"}]
  BY DEF Shape, TypeOK
<1>2. \A x \in Opportunities : opportunity'[x] = IF x = o THEN status ELSE opportunity[x]
  BY <1>1
<1>3. Active' \subseteq Active \cup {o} /\ (status = "archived" => Active' \subseteq Active)
  BY <1>2 DEF Active
<1>4. QED
  BY <1>3, CountIsNat, OneFewer, Fewer DEF Count

\* Nobody writes before a counter is opened.
LEMMA NobodyBefore ==
  ASSUME Shape, Unopened
  PROVE  Workers = {} /\ Releasing = {} /\ \A r \in Requests : ~(Asking(r) /\ At(r, "write"))
<1>1. ASSUME NEW r \in Requests, Asking(r), At(r, "write") \/ At(r, "commit") \/ At(r, "release")
      PROVE  FALSE
  <2>1. request[r].period \in Periods
    BY DEF Shape, TypeOK, Call
  <2>2. counter[request[r].period] # NoValue
    BY <1>1 DEF Shape, RequestSound, At
  <2>3. QED
    BY <2>1, <2>2 DEF Unopened
<1>2. \A r \in Requests : At(r, "release") => Asking(r)
  BY DEF Shape, RequestSound, At
<1>3. QED
  BY <1>1, <1>2 DEF Workers, Releasing

LEMMA WriteKeeps ==
  ASSUME InventoryIInv, NEW r \in Requests, Write(r)
  PROVE  InventoryIInv'
<1>1. Shape /\ WorkBacked
  BY DEF InventoryIInv
<1>2. /\ Shape' /\ At(r, "write")
      /\ UNCHANGED <<counter, reservation, faults, delays, regrants, reconciles>>
      /\ \A s \in Requests \ {r} : request'[s] = request[s]
      /\ \E o \in Opportunities :
              \/ /\ Asking(r) /\ Asking(r)' /\ At(r, "commit")' /\ Key(r)' = Key(r)
                 /\ opportunity' = [opportunity EXCEPT ![o] = "active"]
              \/ /\ ~Asking(r) /\ ~Asking(r)' /\ At(r, "synchronize")'
                 /\ opportunity' = [opportunity EXCEPT ![o] = "archived"]
  BY <1>1, WriteShape
<1>3. /\ Count' <= Count + 1
      /\ ~Asking(r) => Count' <= Count
  BY <1>1, <1>2, ActiveFewer
<1>4. /\ r \in Workers <=> r \in Workers'
      /\ r \notin Releasing /\ r \notin Releasing'
      /\ \A p \in Periods : r \notin Pending(p)' /\ (r \in Pending(p) <=> Asking(r))
  BY <1>2 DEF Workers, Releasing, Pending, At, Asking
<1>5. \A s \in Workers : s \in Workers' /\ Key(s)' = Key(s)
  BY <1>2, <1>4 DEF Workers, At, Asking, Key
<1>6. /\ Backed \subseteq Backed'
      /\ \A x \in Backed : reservation'[x].period = reservation[x].period
  BY <1>2, <1>5, BackedByAll
<1>7. Tokens' = Tokens
  BY <1>2 DEF Tokens
<1>8. WorkBacked'
  BY <1>1, <1>2, <1>4, <1>6, <1>7, Sums, BackedKept DEF WorkBacked, Shift
<1>9. ASSUME NEW p \in Periods, counter[p] # NoValue, Accounted(p), Within(p)
      PROVE  Accounted(p)' /\ Within(p)'
  BY <1>1, <1>2, <1>3, <1>4, <1>6, <1>7, <1>9, Sums, BackedKept DEF Accounted, Within, Shift
<1>10. Unopened => Count' <= Count
  BY <1>1, <1>2, <1>3, NobodyBefore
<1>11. QED
  BY <1>2, <1>8, <1>9, <1>10, Balanced

LEMMA WriteFailsKeeps ==
  ASSUME InventoryIInv, NEW r \in Requests, WriteFails(r)
  PROVE  InventoryIInv'
<1>1. Shape /\ WorkBacked
  BY DEF InventoryIInv
<1>2. /\ Shape' /\ At(r, "write") /\ faults' = faults + 1
      /\ UNCHANGED <<counter, reservation, opportunity, delays, regrants, reconciles>>
      /\ \A s \in Requests \ {r} : request'[s] = request[s]
      /\ \/ Asking(r) /\ At(r, "release")'
         \/ ~Asking(r) /\ At(r, "idle")'
  BY <1>1, WriteFailsShape
<1>3. Tokens' = Tokens + 1 /\ Count' = Count
  BY <1>1, <1>2, SameCount, Numbers DEF Tokens
<1>4. /\ r \notin Workers' /\ (r \in Workers <=> Asking(r))
      /\ r \notin Releasing /\ (r \in Releasing' <=> Asking(r))
      /\ \A p \in Periods : r \notin Pending(p)' /\ (r \in Pending(p) <=> Asking(r))
  BY <1>2 DEF Workers, Releasing, Pending, At
<1>5. CASE Asking(r)
  <2>1. PICK k \in Keys : k = Key(r)
    BY <1>1, <1>2, <1>5, KeyIsKey DEF At
  <2>2. /\ Backed \subseteq Backed' \cup {k}
        /\ \A x \in Backed : reservation'[x].period = reservation[x].period
    BY <1>2, <2>1, BackedByOthers
  <2>3. WorkBacked'
    BY <1>1, <1>2, <1>3, <1>4, <1>5, <2>2, Sums, BackedBut DEF WorkBacked, Shift
  <2>4. ASSUME NEW p \in Periods, counter[p] # NoValue, Accounted(p), Within(p)
        PROVE  Accounted(p)' /\ Within(p)'
    BY <1>1, <1>2, <1>3, <1>4, <1>5, <2>2, <2>4, Sums, BackedBut DEF Accounted, Within, Shift
  <2>5. QED
    BY <1>1, <1>2, <1>3, <2>3, <2>4, Balanced, Numbers
<1>6. CASE ~Asking(r)
  <2>1. \A s \in Workers : s \in Workers' /\ Key(s)' = Key(s)
    BY <1>2, <1>4, <1>6 DEF Workers, At, Asking, Key
  <2>2. /\ Backed \subseteq Backed'
        /\ \A x \in Backed : reservation'[x].period = reservation[x].period
    BY <1>2, <2>1, BackedByAll
  <2>3. WorkBacked'
    BY <1>1, <1>2, <1>3, <1>4, <1>6, <2>2, Sums, BackedKept DEF WorkBacked, Shift
  <2>4. ASSUME NEW p \in Periods, counter[p] # NoValue, Accounted(p), Within(p)
        PROVE  Accounted(p)' /\ Within(p)'
    BY <1>1, <1>2, <1>3, <1>4, <1>6, <2>2, <2>4, Sums, BackedKept DEF Accounted, Within, Shift
  <2>5. QED
    BY <1>1, <1>2, <1>3, <2>3, <2>4, Balanced, Numbers
<1>7. QED
  BY <1>5, <1>6

LEMMA CommitKeeps ==
  ASSUME InventoryIInv, NEW r \in Requests, CommitRoom(r)
  PROVE  InventoryIInv'
<1>1. Shape /\ WorkBacked
  BY DEF InventoryIInv
<1>2. PICK k : k = Key(r)
  OBVIOUS
<1>3. /\ Shape' /\ At(r, "commit") /\ At(r, "idle")' /\ Asking(r) /\ k \in Keys
      /\ UNCHANGED <<opportunity, faults, delays, regrants, reconciles>>
      /\ \A s \in Requests \ {r} : request'[s] = request[s]
      /\ \A x \in Keys \ {k} : reservation'[x] = reservation[x]
      /\ reservation'[k].period = reservation[k].period
      /\ \A q \in Periods :
           /\ counter'[q] = NoValue <=> counter[q] = NoValue
           /\ counter[q] # NoValue => counter'[q] \in Nat /\ counter[q] <= counter'[q]
           /\ Live(k) /\ reservation[k].period = q => counter'[q] = counter[q] + 1
  BY <1>1, <1>2, CommitShape
<1>4. Tokens' = Tokens /\ Count' = Count
  BY <1>3, SameCount DEF Tokens
<1>5. /\ r \in Workers /\ r \notin Workers' /\ r \notin Releasing /\ r \notin Releasing'
      /\ \A p \in Periods : r \notin Pending(p) /\ r \notin Pending(p)'
  BY <1>3 DEF Workers, Releasing, Pending, At
<1>6. /\ Backed \subseteq Backed' \cup {k}
      /\ \A x \in Backed : reservation'[x].period = reservation[x].period
  BY <1>2, <1>3, BackedByOthers
<1>7. WorkBacked'
  BY <1>1, <1>3, <1>4, <1>5, <1>6, Sums, BackedBut DEF WorkBacked, Shift
<1>8. \A p \in Periods : k \in BackedIn(p) => Live(k) /\ reservation[k].period = p
  BY DEF BackedIn, Backed
<1>9. ASSUME NEW p \in Periods, counter[p] # NoValue, Accounted(p), Within(p)
      PROVE  Accounted(p)' /\ Within(p)'
  <2>1. Cardinality(BackedIn(p)) + counter[p] <= Cardinality(BackedIn(p)') + counter'[p]
    BY <1>1, <1>3, <1>6, <1>8, <1>9, BackedBut, OpenedIsNat
  <2>2. /\ Cardinality(BackedIn(p)) \in Nat /\ Cardinality(BackedIn(p)') \in Nat
        /\ counter[p] \in Nat /\ counter'[p] \in Nat
    BY <1>1, <1>3, <1>6, <1>9, BackedBut, OpenedIsNat
  <2>3. QED
    BY <1>1, <1>3, <1>4, <1>5, <1>9, <2>1, <2>2, Sums DEF Accounted, Within, Shift
<1>10. QED
  BY <1>1, <1>3, <1>4, <1>7, <1>9, Balanced, Numbers

LEMMA ReleaseKeeps ==
  ASSUME InventoryIInv, NEW r \in Requests, ReleaseRoom(r)
  PROVE  InventoryIInv'
<1>1. Shape /\ WorkBacked
  BY DEF InventoryIInv
<1>2. PICK k : k = Key(r)
  OBVIOUS
<1>3. /\ Shape' /\ At(r, "release") /\ At(r, "idle")' /\ k \in Keys
      /\ UNCHANGED <<counter, opportunity, faults, delays, regrants, reconciles>>
      /\ \A s \in Requests \ {r} : request'[s] = request[s]
      /\ \A x \in Keys \ {k} : reservation'[x] = reservation[x]
      /\ reservation'[k].period = reservation[k].period
  BY <1>1, <1>2, ReleaseShape
<1>4. Tokens' = Tokens /\ Count' = Count
  BY <1>3, SameCount DEF Tokens
<1>5. /\ r \notin Workers /\ r \notin Workers' /\ r \in Releasing /\ r \notin Releasing'
      /\ \A p \in Periods : r \notin Pending(p) /\ r \notin Pending(p)'
  BY <1>3 DEF Workers, Releasing, Pending, At
<1>6. /\ Backed \subseteq Backed' \cup {k}
      /\ \A x \in Backed : reservation'[x].period = reservation[x].period
  BY <1>3, <1>5, BackedByOthers
<1>7. WorkBacked'
  BY <1>1, <1>3, <1>4, <1>5, <1>6, Sums, BackedBut DEF WorkBacked, Shift
<1>8. ASSUME NEW p \in Periods, counter[p] # NoValue, Accounted(p), Within(p)
      PROVE  Accounted(p)' /\ Within(p)'
  BY <1>1, <1>3, <1>4, <1>5, <1>6, <1>8, Sums, BackedBut DEF Accounted, Within, Shift
<1>9. QED
  BY <1>1, <1>3, <1>4, <1>7, <1>8, Balanced, Numbers

LEMMA CrashKeeps ==
  ASSUME InventoryIInv, NEW r \in Requests, Crash(r)
  PROVE  InventoryIInv'
<1>1. Shape /\ WorkBacked
  BY DEF InventoryIInv
<1>2. /\ Shape' /\ ~At(r, "idle") /\ At(r, "idle")' /\ faults' = faults + 1
      /\ UNCHANGED <<counter, reservation, opportunity, delays, regrants, reconciles>>
      /\ \A s \in Requests \ {r} : request'[s] = request[s]
  BY <1>1, CrashShape
<1>3. Tokens' = Tokens + 1 /\ Count' = Count
  BY <1>1, <1>2, SameCount, Numbers DEF Tokens
<1>4. /\ r \notin Workers' /\ r \notin Releasing'
      /\ \A p \in Periods : r \notin Pending(p)'
  BY <1>2 DEF Workers, Releasing, Pending, At
<1>5. CASE r \in Workers
  <2>1. PICK k \in Keys : k = Key(r)
    BY <1>1, <1>2, <1>5, KeyIsKey DEF Workers
  <2>2. /\ Backed \subseteq Backed' \cup {k}
        /\ \A x \in Backed : reservation'[x].period = reservation[x].period
    BY <1>2, <2>1, BackedByOthers
  <2>3. WorkBacked'
    BY <1>1, <1>2, <1>3, <1>4, <1>5, <2>2, Sums, BackedBut DEF WorkBacked, Shift
  <2>4. ASSUME NEW p \in Periods, counter[p] # NoValue, Accounted(p), Within(p)
        PROVE  Accounted(p)' /\ Within(p)'
    BY <1>1, <1>2, <1>3, <1>4, <1>5, <2>2, <2>4, Sums, BackedBut DEF Accounted, Within, Shift
  <2>5. QED
    BY <1>1, <1>2, <1>3, <2>3, <2>4, Balanced, Numbers
<1>6. CASE r \notin Workers
  <2>1. \A s \in Workers : s \in Workers' /\ Key(s)' = Key(s)
    BY <1>2, <1>6 DEF Workers, At, Asking, Key
  <2>2. /\ Backed \subseteq Backed'
        /\ \A x \in Backed : reservation'[x].period = reservation[x].period
    BY <1>2, <2>1, BackedByAll
  <2>3. WorkBacked'
    BY <1>1, <1>2, <1>3, <1>4, <1>6, <2>2, Sums, BackedKept DEF WorkBacked, Shift
  <2>4. ASSUME NEW p \in Periods, counter[p] # NoValue, Accounted(p), Within(p)
        PROVE  Accounted(p)' /\ Within(p)'
    BY <1>1, <1>2, <1>3, <1>4, <1>6, <2>2, <2>4, Sums, BackedKept DEF Accounted, Within, Shift
  <2>5. QED
    BY <1>1, <1>2, <1>3, <2>3, <2>4, Balanced, Numbers
<1>7. QED
  BY <1>5, <1>6

-----------------------------------------------------------------------------
(* A counter is opened                                                     *)

\* Every set of numbers has a least one: that they are well founded.
LEMMA LeastNat == \A T \in SUBSET Nat : T # {} => \E x \in T : \A y \in T : x <= y
<1> DEFINE R == OpToRel(<, Nat)
<1>1. SUFFICES ASSUME NEW T \in SUBSET Nat, T # {} PROVE \E x \in T : \A y \in T : x <= y
  OBVIOUS
<1>2. IsWellFoundedOn(R, Nat)
  BY NatLessThanWellFounded
<1>3. \A x, y \in Nat : y < x => <<y, x>> \in R
  BY DEF OpToRel
<1> HIDE DEF R
<1>4. PICK x \in T : \A y \in T : ~ (<<y, x>> \in R)
  BY <1>1, <1>2, WFMin
<1>5. \A y \in T : ~ (y < x)
  BY <1>3, <1>4
<1>6. \A y \in T : x <= y
  BY <1>5
<1>7. QED
  BY <1>6

LEMMA TopExists == ~Unopened => \E p \in Periods : Top(p)
<1> DEFINE T == {LastPeriod - p : p \in {q \in Periods : counter[q] # NoValue}}
<1>1. SUFFICES ASSUME ~Unopened PROVE \E p \in Periods : Top(p)
  OBVIOUS
<1>2. LastPeriod \in Nat
  BY LedgerAssumption
<1>3. T \in SUBSET Nat
  BY <1>2 DEF Periods
<1>4. T # {}
  BY <1>1 DEF Unopened
<1>5. PICK n \in T : \A m \in T : n <= m
  BY <1>3, <1>4, LeastNat
<1>6. PICK p \in Periods : counter[p] # NoValue /\ n = LastPeriod - p
  OBVIOUS
<1>7. \A q \in Periods : counter[q] # NoValue => LastPeriod - p <= LastPeriod - q
  BY <1>5, <1>6
<1>8. \A q \in Periods : q > p => counter[q] = NoValue
  BY <1>2, <1>7 DEF Periods
<1>9. QED
  BY <1>6, <1>8 DEF Top

\* All others together are one fewer than the requests.
LEMMA OthersAtMost ==
  ASSUME NEW r \in Requests, NEW p \in Periods, r \notin Pending(p), r \notin Releasing
  PROVE  Cardinality(Pending(p)) + Cardinality(Releasing) <= Cardinality(Requests) - 1
<1>1. Requests \in SUBSET Requests /\ Requests \ {r} \in SUBSET Requests
  OBVIOUS
<1>2. /\ IsFiniteSet(Requests \ {r}) /\ Cardinality(Requests \ {r}) = Cardinality(Requests) - 1
      /\ Cardinality(Requests) \in Nat /\ Cardinality(Requests \ {r}) \in Nat
  BY <1>1, OfRequests, Without
<1>3. /\ Pending(p) \cap Releasing = {}
      /\ Pending(p) \in SUBSET Requests /\ Releasing \in SUBSET Requests
  BY DEF Pending, Releasing, At
<1>4. Pending(p) \cup Releasing \subseteq Requests \ {r}
  BY <1>3
<1>5. Cardinality(Pending(p) \cup Releasing) <= Cardinality(Requests) - 1
  BY <1>2, <1>4, Fewer
<1>6. IsFiniteSet(Pending(p)) /\ IsFiniteSet(Releasing)
  BY <1>3, OfRequests
<1>7. Cardinality(Pending(p) \cup Releasing) = Cardinality(Pending(p)) + Cardinality(Releasing)
  BY <1>3, <1>6, FS_Union, FS_EmptySet, OfRequests
<1>8. QED
  BY <1>5, <1>7

\* No request is of a period before the first, or before the first counter at work.
LEMMA FirstPeriod ==
  ASSUME Shape, NEW p \in Periods, p = 0
  PROVE  Pending(p) \subseteq Workers
<1>1. \A r \in Requests : request[r].period \in Nat
  BY LedgerAssumption DEF Shape, TypeOK, Call, Periods
<1>2. QED
  BY <1>1 DEF Pending, Workers

LEMMA CounterOpens ==
  ASSUME InventoryIInv, reconciles = 0, NEW p \in Periods,
         \A q \in Periods : q >= p => counter[q] = NoValue,
         NEW r \in Requests, At(r, "reserve") \/ At(r, "synchronize"),
         At(r, "reserve") => request[r].period = p
  PROVE  /\ Cardinality(Pending(p)) + Cardinality(Releasing) <= Brought(p)
         /\ Count + Cardinality(Pending(p)) <= HardLimit + Tokens + Brought(p)
<1>1. p \in Nat /\ Shape
  BY LedgerAssumption DEF Periods, InventoryIInv
<1>2. r \notin Pending(p) /\ r \notin Releasing
  BY <1>1 DEF Pending, Releasing, At
<1>3. Cardinality(Pending(p)) + Cardinality(Releasing) <= Cardinality(Requests) - 1
  BY <1>2, OthersAtMost
<1>4. /\ Cardinality(Pending(p)) \in Nat /\ Cardinality(Releasing) \in Nat
      /\ Cardinality(Requests) - 1 \in Nat
      /\ Count \in Nat /\ HardLimit \in Nat /\ Tokens \in Nat
      /\ \A t \in Periods : Brought(t) \in Nat
  BY <1>1, OfRequests, Numbers, BroughtFacts DEF Pending, Releasing, Tokens
<1>5. CASE Unopened
  <2>1. Count <= HardLimit
    BY <1>5 DEF InventoryIInv
  <2>2. CASE p = 0
    <3>1. Pending(p) = {} /\ Releasing = {}
      BY <1>1, <1>5, <2>2, FirstPeriod, NobodyBefore
    <3>2. Cardinality(Pending(p)) = 0 /\ Cardinality(Releasing) = 0
      BY <3>1, FS_EmptySet
    <3>3. QED
      BY <1>4, <2>1, <3>2
  <2>3. CASE p > 0
    <3>1. Cardinality(Requests) - 1 <= Brought(p)
      BY <2>3, BroughtFacts
    <3>2. QED
      BY <1>3, <1>4, <2>1, <3>1
  <2>4. QED
    BY <1>1, <2>2, <2>3
<1>6. CASE ~Unopened
  <2>1. PICK t \in Periods : Top(t)
    BY <1>6, TopExists
  <2>2. t < p
    BY <1>1, <2>1 DEF Top, Periods
  <2>3. Brought(t) + (Cardinality(Requests) - 1) <= Brought(p)
    BY <2>2, BroughtFacts
  <2>4. Count + Cardinality(Pending(t)) <= HardLimit + Tokens + Brought(t)
    BY <2>1 DEF InventoryIInv, Within
  <2>5. Cardinality(Pending(t)) \in Nat
    BY OfRequests DEF Pending
  <2>6. QED
    BY <1>3, <1>4, <2>3, <2>4, <2>5
<1>7. QED
  BY <1>5, <1>6

LEMMA BackedMore ==
  ASSUME NEW k \in Keys, k \in Backed', k \notin Backed, Backed \subseteq Backed',
         \A x \in Backed : reservation'[x].period = reservation[x].period,
         NEW p \in Periods, reservation'[k].period = p
  PROVE  /\ Cardinality(Backed) + 1 <= Cardinality(Backed')
         /\ Cardinality(BackedIn(p)) + 1 <= Cardinality(BackedIn(p)')
<1>1. /\ Backed \in SUBSET Keys /\ Backed' \in SUBSET Keys
      /\ BackedIn(p) \in SUBSET Keys /\ BackedIn(p)' \in SUBSET Keys
  BY DEF Backed, BackedIn
<1>2. /\ IsFiniteSet(Backed) /\ IsFiniteSet(Backed') /\ IsFiniteSet(BackedIn(p)) /\ IsFiniteSet(BackedIn(p)')
      /\ Cardinality(Backed) \in Nat /\ Cardinality(BackedIn(p)) \in Nat
  BY <1>1, OfKeys
<1>3. Backed \cup {k} \subseteq Backed' /\ BackedIn(p) \cup {k} \subseteq BackedIn(p)' /\ k \notin BackedIn(p)
  BY DEF BackedIn
<1>4. /\ Cardinality(Backed \cup {k}) = Cardinality(Backed) + 1
      /\ Cardinality(BackedIn(p) \cup {k}) = Cardinality(BackedIn(p)) + 1
  BY <1>2, <1>3, FS_AddElement
<1>5. /\ Cardinality(Backed \cup {k}) <= Cardinality(Backed')
      /\ Cardinality(BackedIn(p) \cup {k}) <= Cardinality(BackedIn(p)')
  BY <1>2, <1>3, Fewer
<1>6. QED
  BY <1>4, <1>5

LEMMA BackedAreLive ==
  ASSUME NEW p \in Periods
  PROVE  Cardinality(BackedIn(p)) <= Cardinality(LiveIn(p)) /\ Cardinality(LiveIn(p)) \in Nat
<1>1. BackedIn(p) \subseteq LiveIn(p) /\ LiveIn(p) \in SUBSET Keys
  BY DEF BackedIn, Backed, LiveIn
<1>2. QED
  BY <1>1, OfKeys, Fewer

LEMMA ReserveKeeps ==
  ASSUME InventoryIInv, NEW r \in Requests, ReserveRoom(r)
  PROVE  InventoryIInv'
<1>1. Shape /\ WorkBacked
  BY DEF InventoryIInv
<1>2. PICK k, p : k = Key(r) /\ p = request[r].period
  OBVIOUS
<1>3. /\ Shape' /\ At(r, "reserve") /\ Asking(r) /\ k \in Keys
      /\ p \in Periods /\ p <= period
      /\ \A s \in Requests \ {r} : request'[s] = request[s]
      /\ \A q \in Periods :
           counter'[q] = IF q = p /\ counter[q] = NoValue THEN Count ELSE counter[q]
      /\ \A x \in Keys : Live(x) => reservation'[x] = reservation[x]
      /\ UNCHANGED <<opportunity, faults, delays, reconciles>>
      /\ \/ At(r, "idle")' /\ regrants' = regrants
         \/ /\ At(r, "write")' /\ Asking(r)' /\ Key(r)' = k
            /\ \/ regrants' = regrants + 1
               \/ /\ regrants' = regrants
                  /\ ~Live(k) /\ k \in LiveIn(p)'
                  /\ counter'[p] + Cardinality(LiveIn(p)) + 1 <= HardLimit
  BY <1>1, <1>2, ReserveShape
<1> DEFINE refused == At(r, "idle")' /\ regrants' = regrants
           again   == At(r, "write")' /\ Asking(r)' /\ regrants' = regrants + 1
           granted == /\ At(r, "write")' /\ Asking(r)' /\ regrants' = regrants
                      /\ Key(r)' = k /\ ~Live(k) /\ k \in LiveIn(p)'
                      /\ counter'[p] + Cardinality(LiveIn(p)) + 1 <= HardLimit
<1>4. refused \/ again \/ granted
  BY <1>3
<1>5. /\ r \notin Workers /\ r \notin Releasing /\ r \notin Releasing'
      /\ refused => r \notin Workers'
      /\ again \/ granted => r \in Workers'
  BY <1>3 DEF Workers, Releasing, At
<1>6. \A q \in Periods : /\ r \in Pending(q) <=> p < q
                         /\ refused => r \notin Pending(q)'
                         /\ again \/ granted => r \in Pending(q)'
  BY <1>2, <1>3 DEF Pending, At
<1>7. \A s \in Workers : s \in Workers' /\ Key(s)' = Key(s)
  BY <1>3, <1>5 DEF Workers, At, Asking, Key
<1>8. /\ Backed \subseteq Backed'
      /\ \A x \in Backed : reservation'[x].period = reservation[x].period
  BY <1>3, <1>7, BackedByAll
<1>9. granted => /\ Cardinality(Backed) + 1 <= Cardinality(Backed')
                 /\ Cardinality(BackedIn(p)) + 1 <= Cardinality(BackedIn(p)')
  <2>1. SUFFICES ASSUME granted PROVE k \in Backed' /\ k \notin Backed /\ reservation'[k].period = p
    BY <1>3, <1>8, BackedMore
  <2>2. QED
    BY <1>3, <1>5, <2>1 DEF Backed, LiveIn
<1>10. /\ refused => Tokens' = Tokens
       /\ granted => Tokens' = Tokens
       /\ again => Tokens' = Tokens + 1
       /\ Count' = Count
  BY <1>1, <1>3, Numbers, SameCount DEF Tokens
<1>11. /\ Cardinality(Backed) \in Nat /\ Cardinality(Backed') \in Nat
       /\ Cardinality(Backed) <= Cardinality(Backed')
       /\ \A q \in Periods :
            /\ Cardinality(BackedIn(q)) \in Nat /\ Cardinality(BackedIn(q)') \in Nat
            /\ Cardinality(BackedIn(q)) <= Cardinality(BackedIn(q)')
  BY <1>8, BackedKept
<1>12. counter'[p] # NoValue /\ (counter[p] = NoValue => counter'[p] = Count)
  BY <1>1, <1>3, Numbers, LedgerAssumption
<1>13. granted => counter'[p] + Cardinality(LiveIn(p)) + 1 <= HardLimit
  OBVIOUS
<1> HIDE DEF refused, again, granted
<1>14. WorkBacked'
  BY <1>1, <1>3, <1>4, <1>5, <1>9, <1>10, <1>11, Sums DEF WorkBacked, Shift
<1>15. ASSUME reconciles = 0, NEW q \in Periods, Top(q), Top(q)' PROVE Accounted(q)' /\ Within(q)'
  <2>1. p <= q
    BY <1>3, <1>12, <1>15 DEF Top, Periods
  <2>2. Accounted(q) /\ Within(q) /\ counter[q] # NoValue /\ counter'[q] = counter[q]
    BY <1>3, <1>15 DEF InventoryIInv, Top
  <2>3. CASE p < q
    BY <1>1, <1>3, <1>4, <1>5, <1>6, <1>10, <1>11, <2>2, <2>3, Sums DEF Accounted, Within, Shift
  <2>4. CASE p = q
    <3>1. r \notin Pending(q)
      BY <1>6, <2>4 DEF Periods
    <3>2. CASE refused
      BY <1>1, <1>3, <1>5, <1>6, <1>10, <1>11, <2>2, <3>1, <3>2, Sums DEF Accounted, Within, Shift
    <3>3. CASE again
      BY <1>1, <1>3, <1>5, <1>6, <1>10, <1>11, <2>2, <3>1, <3>3, Sums DEF Accounted, Within, Shift
    <3>4. CASE granted
      BY <1>1, <1>3, <1>5, <1>6, <1>9, <1>10, <1>11, <1>13, <2>2, <2>4, <3>1, <3>4, Sums, BackedAreLive
         DEF Accounted, Within, Shift
    <3>5. QED
      BY <1>4, <3>2, <3>3, <3>4
  <2>5. QED
    BY <1>3, <2>1, <2>3, <2>4 DEF Periods
<1>16. ASSUME reconciles = 0, NEW q \in Periods, ~Top(q), Top(q)' PROVE Accounted(q)' /\ Within(q)'
  <2>1. q = p /\ \A t \in Periods : t >= p => counter[t] = NoValue
    BY <1>3, <1>12, <1>16 DEF Top, Periods
  <2>2. counter'[q] = Count
    BY <1>3, <1>12, <2>1 DEF Periods
  <2>3. /\ Cardinality(Pending(q)) + Cardinality(Releasing) <= Brought(q)
        /\ Count + Cardinality(Pending(q)) <= HardLimit + Tokens + Brought(q)
    BY <1>2, <1>3, <1>16, <2>1, CounterOpens
  <2>4. r \notin Pending(q)
    BY <1>6, <2>1 DEF Periods
  <2>5. CASE refused
    BY <1>1, <1>3, <1>5, <1>6, <1>10, <1>11, <2>2, <2>3, <2>4, <2>5, Sums DEF Accounted, Within, Shift
  <2>6. CASE again
    BY <1>1, <1>3, <1>5, <1>6, <1>10, <1>11, <2>2, <2>3, <2>4, <2>6, Sums DEF Accounted, Within, Shift
  <2>7. CASE granted
    BY <1>1, <1>3, <1>5, <1>6, <1>9, <1>10, <1>11, <1>13, <2>1, <2>2, <2>3, <2>4, <2>7, Sums, BackedAreLive
       DEF Accounted, Within, Shift
  <2>8. QED
    BY <1>4, <2>5, <2>6, <2>7
<1>17. ~Unopened'
  BY <1>3, <1>12 DEF Unopened
<1>18. QED
  BY <1>3, <1>14, <1>15, <1>16, <1>17 DEF InventoryIInv

\* What still works at the latest counter is held there or was brought along.
LEMMA LatestIsBacked ==
  ASSUME InventoryIInv, NEW r \in Requests, At(r, "synchronize")
  PROVE  Cardinality(Pending(period)) + Cardinality(Releasing)
           <= Cardinality(BackedIn(period)) + Tokens + Brought(period)
<1>1. Shape /\ WorkBacked /\ period \in Periods
  BY DEF InventoryIInv, Shape, TypeOK
<1>2. /\ Pending(period) \in SUBSET Requests /\ Releasing \in SUBSET Requests
      /\ Workers \in SUBSET Requests /\ Backed \in SUBSET Keys /\ BackedIn(period) \in SUBSET Keys
  BY DEF Pending, Releasing, Workers, Backed, BackedIn
<1>3. /\ Cardinality(Pending(period)) \in Nat /\ Cardinality(Releasing) \in Nat
      /\ Cardinality(Workers) \in Nat /\ Cardinality(Backed) \in Nat
      /\ Cardinality(BackedIn(period)) \in Nat /\ IsFiniteSet(Workers) /\ IsFiniteSet(BackedIn(period))
      /\ Tokens \in Nat /\ Brought(period) \in Nat
  BY <1>1, <1>2, OfRequests, OfKeys, Numbers, BroughtFacts DEF Tokens
<1>4. CASE period > 0
  <2>1. r \notin Pending(period) /\ r \notin Releasing
    BY DEF Pending, Releasing, At
  <2>2. Cardinality(Pending(period)) + Cardinality(Releasing) <= Cardinality(Requests) - 1
    BY <1>1, <2>1, OthersAtMost
  <2>3. Cardinality(Requests) - 1 <= Brought(period) /\ Cardinality(Requests) - 1 \in Nat
    BY <1>1, <1>4, BroughtFacts
  <2>4. QED
    BY <1>3, <2>2, <2>3
<1>5. CASE period = 0
  <2>1. Cardinality(Pending(period)) <= Cardinality(Workers)
    BY <1>1, <1>3, <1>5, FirstPeriod, Fewer
  <2>2. Backed \subseteq BackedIn(period)
    <3>1. SUFFICES ASSUME NEW k \in Backed PROVE reservation[k].period = period
      BY DEF BackedIn
    <3>2. k \in Keys /\ reservation[k].status # "none"
      BY <3>1 DEF Backed, Live, Reserved
    <3>3. reservation[k].period \in Periods /\ counter[reservation[k].period] # NoValue
      BY <1>1, <3>2 DEF Shape, Opened, TypeOK, LedgerType, Reservation
    <3>4. reservation[k].period <= period
      BY <1>1, <3>3 DEF Shape
    <3>5. QED
      BY <1>5, <3>3, <3>4, LedgerAssumption DEF Periods
  <2>3. Cardinality(Backed) <= Cardinality(BackedIn(period))
    BY <1>3, <2>2, Fewer
  <2>4. QED
    BY <1>1, <1>3, <2>1, <2>3 DEF WorkBacked
<1>6. QED
  BY <1>1, <1>4, <1>5, LedgerAssumption DEF Periods

LEMMA SynchronizeKeeps ==
  ASSUME InventoryIInv, NEW r \in Requests, Synchronize(r)
  PROVE  InventoryIInv'
<1>1. Shape /\ WorkBacked
  BY DEF InventoryIInv
<1>2. PICK p : p = period
  OBVIOUS
<1>3. /\ Shape' /\ At(r, "synchronize") /\ At(r, "idle")' /\ p \in Periods
      /\ UNCHANGED <<reservation, opportunity, faults, delays, regrants, reconciles>>
      /\ \A s \in Requests \ {r} : request'[s] = request[s]
      /\ \A q \in Periods : counter'[q] = IF q = p THEN Count ELSE counter[q]
      /\ \A q \in Periods : counter[q] # NoValue => q <= p
  BY <1>1, <1>2, SynchronizeShape DEF Shape
<1>4. /\ r \notin Workers /\ r \notin Workers' /\ r \notin Releasing /\ r \notin Releasing'
      /\ \A q \in Periods : r \notin Pending(q) /\ r \notin Pending(q)'
  BY <1>3 DEF Workers, Releasing, Pending, At
<1>5. \A s \in Workers : s \in Workers' /\ Key(s)' = Key(s)
  BY <1>3, <1>4 DEF Workers, At, Asking, Key
<1>6. /\ Backed \subseteq Backed'
      /\ \A x \in Backed : reservation'[x].period = reservation[x].period
  BY <1>3, <1>5, BackedByAll
<1>7. Tokens' = Tokens /\ Count' = Count
  BY <1>3, SameCount DEF Tokens
<1>8. WorkBacked'
  BY <1>1, <1>3, <1>4, <1>6, <1>7, Sums, BackedKept DEF WorkBacked, Shift
<1>9. counter'[p] = Count /\ counter'[p] # NoValue
  BY <1>1, <1>3, Numbers, LedgerAssumption
<1>10. /\ Cardinality(Pending(p)) + Cardinality(Releasing)
            <= Cardinality(BackedIn(p)) + Tokens + Brought(p)
  BY <1>2, <1>3, LatestIsBacked
<1>11. Accounted(p)'
  BY <1>1, <1>3, <1>4, <1>6, <1>7, <1>9, <1>10, Sums, BackedKept DEF Accounted, Shift
<1>12. ASSUME reconciles = 0 PROVE Count + Cardinality(Pending(p)) <= HardLimit + Tokens + Brought(p)
  <2>1. CASE counter[p] = NoValue
    <3>1. \A q \in Periods : q >= p => counter[q] = NoValue
      BY <1>3, <2>1 DEF Periods
    <3>2. ~At(r, "reserve")
      BY <1>3 DEF At
    <3>3. QED
      BY <1>3, <1>12, <3>1, <3>2, CounterOpens
  <2>2. CASE counter[p] # NoValue
    <3>1. Top(p)
      BY <1>3, <2>2 DEF Top, Periods
    <3>2. QED
      BY <1>3, <1>12, <3>1 DEF InventoryIInv, Within
  <2>3. QED
    BY <2>1, <2>2
<1>13. ASSUME reconciles = 0 PROVE Within(p)'
  BY <1>1, <1>3, <1>4, <1>7, <1>12, <1>13, Sums DEF Within, Shift
<1>14. \A q \in Periods : Top(q)' => q = p
  BY <1>3, <1>9 DEF Top, Periods
<1>15. ~Unopened'
  BY <1>3, <1>9 DEF Unopened
<1>16. QED
  BY <1>3, <1>8, <1>11, <1>13, <1>14, <1>15 DEF InventoryIInv

-----------------------------------------------------------------------------
(* Time passes                                                             *)

\* The sums of steps of no request
LEMMA SameWork ==
  ASSUME UNCHANGED request
  PROVE  /\ Workers' = Workers /\ Releasing' = Releasing
         /\ \A p \in Periods : Pending(p)' = Pending(p)
         /\ \A r \in Requests : Key(r)' = Key(r)
BY DEF Workers, Releasing, Pending, At, Asking, Key

LEMMA WorkNumbers ==
  ASSUME Shape
  PROVE  /\ Count \in Nat /\ HardLimit \in Nat /\ Tokens \in Nat
         /\ Cardinality(Workers) \in Nat /\ Cardinality(Releasing) \in Nat
         /\ \A p \in Periods :
              /\ Cardinality(Pending(p)) \in Nat
              /\ Brought(p) \in Nat /\ Brought(p)' = Brought(p)
              /\ counter[p] # NoValue => counter[p] \in Nat
<1>1. Count \in Nat /\ HardLimit \in Nat /\ Tokens \in Nat
  BY Numbers DEF Tokens
<1>2. PICK r : r \in Requests
  BY InventoryAssumption
<1>3. ASSUME NEW p \in Periods PROVE Brought(p) \in Nat /\ Brought(p)' = Brought(p)
  BY <1>2, BroughtFacts DEF Brought
<1>4. Cardinality(Workers) \in Nat /\ Cardinality(Releasing) \in Nat
  BY OfRequests DEF Workers, Releasing
<1>5. ASSUME NEW p \in Periods PROVE Cardinality(Pending(p)) \in Nat
  BY OfRequests DEF Pending
<1>6. QED
  BY <1>1, <1>3, <1>4, <1>5, OpenedIsNat

LEMMA TimesOutKeeps ==
  ASSUME InventoryIInv, NEW k \in Keys, ReservationTimesOut(k)
  PROVE  InventoryIInv'
<1>1. Shape /\ WorkBacked
  BY DEF InventoryIInv
<1>2. /\ Shape' /\ UNCHANGED <<counter, request, opportunity, faults, regrants, reconciles>>
      /\ \A x \in Keys \ {k} : reservation'[x] = reservation[x]
      /\ reservation'[k].period = reservation[k].period
      /\ delays' = IF InUse(k) THEN delays + 1 ELSE delays
  BY <1>1, TimesOutShape
<1>3. /\ Workers' = Workers /\ Releasing' = Releasing
      /\ \A p \in Periods : Pending(p)' = Pending(p)
      /\ \A r \in Requests : Key(r)' = Key(r)
  BY <1>2, SameWork
<1>4. /\ Backed \subseteq Backed' \cup {k}
      /\ \A x \in Backed : reservation'[x].period = reservation[x].period
  <2>1. ASSUME NEW x \in Backed, x # k PROVE x \in Backed'
    <3>1. x \in Keys /\ Live(x) /\ \E r \in Workers : Key(r) = x
      BY DEF Backed
    <3>2. \E r \in Workers' : Key(r)' = x
      BY <1>3, <3>1 DEF Workers
    <3>3. Live(x)'
      BY <1>2, <2>1, <3>1 DEF Live, Reserved
    <3>4. QED
      BY <3>1, <3>2, <3>3 DEF Backed
  <2>2. QED
    BY <1>2, <2>1 DEF Backed
<1>5. k \in Backed => Tokens' = Tokens + 1
  <2>1. SUFFICES ASSUME k \in Backed PROVE InUse(k)
    BY <1>1, <1>2, Numbers DEF Tokens
  <2>2. QED
    BY <2>1 DEF Backed, Workers, InUse, At
<1>6. Tokens' \in Nat /\ Tokens <= Tokens' /\ Tokens \in Nat
  BY <1>1, <1>2, Numbers DEF Tokens
<1>7. Count' = Count
  BY <1>2, SameCount
<1>8. WorkBacked'
  BY <1>1, <1>3, <1>4, <1>5, <1>6, BackedBut, WorkNumbers DEF WorkBacked
<1>9. ASSUME NEW p \in Periods, counter[p] # NoValue, Accounted(p), Within(p)
      PROVE  Accounted(p)' /\ Within(p)'
  <2>1. k \in BackedIn(p) => k \in Backed
    BY DEF BackedIn
  <2>2. QED
    BY <1>1, <1>2, <1>3, <1>4, <1>5, <1>6, <1>7, <1>9, <2>1, BackedBut, WorkNumbers DEF Accounted, Within
<1>10. QED
  BY <1>1, <1>2, <1>7, <1>8, <1>9, Balanced, Numbers

LEMMA ExpireKeeps ==
  ASSUME InventoryIInv, Expire
  PROVE  InventoryIInv'
<1>1. Shape /\ WorkBacked
  BY DEF InventoryIInv
<1>2. /\ Shape' /\ UNCHANGED <<counter, request, opportunity, faults, delays, regrants, reconciles>>
      /\ \A x \in Keys : Live(x) => reservation'[x] = reservation[x]
  BY <1>1, ExpireShape
<1>3. /\ Workers' = Workers /\ Releasing' = Releasing
      /\ \A p \in Periods : Pending(p)' = Pending(p)
      /\ \A r \in Requests : Key(r)' = Key(r)
  BY <1>2, SameWork
<1>4. /\ Backed \subseteq Backed'
      /\ \A x \in Backed : reservation'[x].period = reservation[x].period
  BY <1>2, <1>3, BackedByAll DEF Workers
<1>5. Tokens' = Tokens /\ Count' = Count
  BY <1>2, SameCount DEF Tokens
<1>6. WorkBacked'
  BY <1>1, <1>3, <1>4, <1>5, BackedKept, WorkNumbers DEF WorkBacked
<1>7. ASSUME NEW p \in Periods, counter[p] # NoValue, Accounted(p), Within(p)
      PROVE  Accounted(p)' /\ Within(p)'
  BY <1>1, <1>2, <1>3, <1>4, <1>5, <1>7, BackedKept, WorkNumbers DEF Accounted, Within
<1>8. QED
  BY <1>1, <1>2, <1>5, <1>6, <1>7, Balanced, Numbers

\* Steps that leave requests, holds and opportunities alone
LEMMA Untouched ==
  ASSUME InventoryIInv, Shape', UNCHANGED <<request, reservation, opportunity, faults, delays, regrants>>,
         reconciles' = 0 => reconciles = 0 /\ UNCHANGED counter
  PROVE  InventoryIInv'
<1>1. /\ Workers' = Workers /\ Releasing' = Releasing
      /\ \A p \in Periods : Pending(p)' = Pending(p)
      /\ \A r \in Requests : Key(r)' = Key(r)
  BY SameWork
<1>2. Backed' = Backed /\ \A p \in Periods : BackedIn(p)' = BackedIn(p)
  BY <1>1 DEF Backed, BackedIn, Live, Reserved, Workers
<1>3. Tokens' = Tokens /\ Count' = Count
  BY SameCount DEF Tokens
<1>4. WorkBacked'
  BY <1>1, <1>2, <1>3 DEF WorkBacked, InventoryIInv
<1>5. ASSUME reconciles' = 0, NEW p \in Periods, Top(p)' PROVE Accounted(p)' /\ Within(p)'
  <2>1. reconciles = 0 /\ UNCHANGED counter /\ Top(p)
    BY <1>5 DEF Top
  <2>2. Accounted(p) /\ Within(p)
    BY <2>1 DEF InventoryIInv
  <2>3. Brought(p)' = Brought(p)
    BY DEF Brought
  <2>4. QED
    BY <1>1, <1>2, <1>3, <2>1, <2>2, <2>3 DEF Accounted, Within
<1>6. ASSUME reconciles' = 0, Unopened' PROVE Count' <= HardLimit
  BY <1>3, <1>6 DEF InventoryIInv, Unopened
<1>7. QED
  BY <1>4, <1>5, <1>6 DEF InventoryIInv

-----------------------------------------------------------------------------
(* The theorem                                                             *)

LEMMA InventoryStarts == Init => InventoryIInv
<1>1. SUFFICES ASSUME Init PROVE InventoryIInv
  OBVIOUS
<1>2. 0 \in Periods /\ NoValue \notin Nat
  BY LedgerAssumption DEF Periods
<1>3. /\ LedgerType
      /\ \A p \in Periods : counter[p] = NoValue
      /\ \A k \in Keys : reservation[k].status = "none"
  BY <1>1, <1>2 DEF Init, LedgerInit, LedgerType, Reservation
<1>4. \A r \in Requests : request[r] = Idle
  BY <1>1 DEF Init
<1>5. Idle \in Call /\ Idle.pc = "idle"
  BY <1>2 DEF Idle, Call
<1>6. TypeOK
  <2>1. Asleep \in [pc : {"idle", "compare", "write"}, count : Nat, period : Periods]
    BY <1>2 DEF Asleep
  <2>2. QED
    BY <1>1, <1>2, <1>3, <1>5, <2>1, InventoryAssumption DEF Init, TypeOK
<1>7. Opened /\ \A r \in Requests : RequestSound(r)
  BY <1>3, <1>4, <1>5 DEF Opened, RequestSound, At
<1>8. Shape
  BY <1>1, <1>3, <1>6, <1>7 DEF Init, Shape, Asleep
<1>9. Unopened /\ \A p \in Periods : ~Top(p)
  BY <1>3 DEF Unopened, Top
<1>10. Workers = {} /\ Releasing = {} /\ Backed = {}
  BY <1>3, <1>4, <1>5 DEF Workers, Releasing, Backed, At, Live, Reserved
<1>11. WorkBacked
  BY <1>1, <1>10, FS_EmptySet DEF WorkBacked, Tokens, Init
<1>12. QED
  BY <1>1, <1>8, <1>9, <1>11 DEF InventoryIInv, Init

LEMMA InventorySteps == InventoryIInv /\ [Next]_vars => InventoryIInv'
<1>1. SUFFICES ASSUME InventoryIInv, [Next]_vars PROVE InventoryIInv'
  OBVIOUS
<1>2. ASSUME NEW r \in Requests, Serve(r) PROVE InventoryIInv'
  BY <1>1, <1>2, ReserveKeeps, WriteKeeps, WriteFailsKeeps, CommitKeeps, ReleaseKeeps, SynchronizeKeeps,
     CrashKeeps DEF Serve
<1>3. ASSUME NEW r \in Requests, NEW operation \in Operations, NEW o \in Opportunities,
             Begin(r, operation, o)
      PROVE  InventoryIInv'
  BY <1>1, <1>3, BeginKeeps
<1>4. CASE ReconcileCount \/ ReconcileCompare \/ ReconcileWrite
  BY <1>1, <1>4, ReconcileShape, Untouched DEF InventoryIInv
<1>5. ASSUME NEW k \in Keys, ReservationTimesOut(k) PROVE InventoryIInv'
  BY <1>1, <1>5, TimesOutKeeps
<1>6. CASE Expire
  BY <1>1, <1>6, ExpireKeeps
<1>7. CASE NextPeriod
  BY <1>1, <1>7, NextPeriodShape, Untouched DEF InventoryIInv
<1>8. CASE UNCHANGED vars
  <2>1. Shape'
    BY <1>1, <1>8 DEF vars, InventoryIInv, Shape, TypeOK, LedgerType, Opened, RequestSound, At, Asking
  <2>2. QED
    BY <1>1, <1>8, <2>1, Untouched DEF vars
<1>9. QED
  BY <1>1, <1>2, <1>3, <1>4, <1>5, <1>6, <1>7, <1>8 DEF Next

LEMMA InventoryFollows == InventoryIInv => InventoryInv
<1>1. SUFFICES ASSUME InventoryIInv PROVE InventoryInv
  OBVIOUS
<1>2. Shape /\ TypeOK /\ period \in Periods /\ period \in Nat
  BY <1>1, LedgerAssumption DEF InventoryIInv, Shape, TypeOK, Periods
<1>3. PICK r : r \in Requests
  BY InventoryAssumption
<1>4. Brought(period) \in Nat /\ Carried = Brought(period)
  BY <1>2, <1>3, BroughtFacts DEF Carried, Brought
<1>5. ASSUME NEW p \in Periods, counter[p] # NoValue PROVE Brought(p) \in Nat /\ Brought(p) <= Brought(period)
  <2>1. p <= period /\ p \in Int
    BY <1>2, <1>5 DEF Shape, Periods
  <2>2. /\ p < period => Brought(p) + (Cardinality(Requests) - 1) <= Brought(period)
        /\ Cardinality(Requests) - 1 \in Nat /\ Brought(p) \in Nat
    BY <1>2, <1>3, BroughtFacts
  <2>3. QED
    BY <1>2, <1>4, <2>1, <2>2
<1>6. OvershootExplained
  <2>1. SUFFICES ASSUME reconciles = 0
                 PROVE  Count <= HardLimit + faults + delays + regrants + Carried
    BY DEF OvershootExplained
  <2>2. faults \in Nat /\ delays \in Nat /\ regrants \in Nat /\ HardLimit \in Nat /\ Count \in Nat
    BY <1>2, Numbers
  <2>3. CASE Unopened
    BY <1>1, <1>4, <2>1, <2>2, <2>3 DEF InventoryIInv
  <2>4. CASE ~Unopened
    <3>1. PICK t \in Periods : Top(t)
      BY <2>4, TopExists
    <3>2. Count + Cardinality(Pending(t)) <= HardLimit + (faults + delays + regrants) + Brought(t)
      BY <1>1, <2>1, <3>1 DEF InventoryIInv, Within, Tokens
    <3>3. Brought(t) \in Nat /\ Brought(t) <= Brought(period) /\ Cardinality(Pending(t)) \in Nat
      BY <1>2, <1>5, <3>1, WorkNumbers DEF Top
    <3>4. QED
      BY <1>4, <2>2, <3>2, <3>3
  <2>5. QED
    BY <2>3, <2>4
<1>7. NeverUndercounted
  <2>1. SUFFICES ASSUME Undisturbed, reconciles = 0, counter[period] # NoValue
                 PROVE  counter[period] + Cardinality(With("RESERVED", period, reservation)) + Carried >= Count
    BY DEF NeverUndercounted
  <2>2. Top(period)
    BY <1>2, <2>1 DEF Top, Shape, Periods
  <2>3. Tokens = 0
    BY <2>1 DEF Undisturbed, Tokens
  <2>4. Count + Cardinality(Pending(period)) + Cardinality(Releasing)
          <= counter[period] + Cardinality(BackedIn(period)) + Brought(period)
    <3>1. Accounted(period)
      BY <1>1, <1>2, <2>1, <2>2 DEF InventoryIInv
    <3>2. /\ counter[period] \in Nat /\ Cardinality(BackedIn(period)) \in Nat
      BY <1>2, <2>1, WorkNumbers, OfKeys DEF BackedIn, Backed
    <3>3. QED
      BY <1>4, <2>3, <3>1, <3>2 DEF Accounted
  <2>5. /\ Cardinality(BackedIn(period)) <= Cardinality(With("RESERVED", period, reservation))
        /\ Cardinality(With("RESERVED", period, reservation)) \in Nat
        /\ Cardinality(BackedIn(period)) \in Nat
    <3>1. /\ BackedIn(period) \subseteq With("RESERVED", period, reservation)
          /\ With("RESERVED", period, reservation) \in SUBSET Keys
      BY DEF BackedIn, Backed, Live, Reserved, With
    <3>2. QED
      BY <3>1, OfKeys, Fewer
  <2>6. /\ Count \in Nat /\ counter[period] \in Nat
        /\ Cardinality(Pending(period)) \in Nat /\ Cardinality(Releasing) \in Nat
    BY <1>2, <2>1, WorkNumbers
  <2>7. QED
    BY <1>4, <2>4, <2>5, <2>6
<1>8. QED
  BY <1>2, <1>6, <1>7 DEF InventoryInv

\* In every state the counters, holds and requests are what their tables allow, no
\* opportunity is over the hard limit without a failure, an overrun hold, a reused
\* reservation or a request carried into a new period behind it, and what is active
\* is counted or held.
THEOREM InventorySafe == Spec => []InventoryInv
<1>1. Spec => []InventoryIInv
  BY InventoryStarts, InventorySteps, PTL DEF Spec
<1>2. QED
  BY <1>1, InventoryFollows, PTL
=============================================================================
