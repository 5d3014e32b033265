------------------------- MODULE QuotaEvents_proofs -------------------------
(***************************************************************************)
(* Safety of the quota ledger for metered events, for any number of        *)
(* requests, keys, replicas and periods, any limit and any failures.       *)
(***************************************************************************)
EXTENDS QuotaEvents, FiniteSetTheorems, TLAPS

(***************************************************************************)
(* Sets of keys by status and period.                                      *)
(***************************************************************************)
LEMMA WithFinite ==
  ASSUME NEW status, NEW p, NEW table
  PROVE  /\ IsFiniteSet(With(status, p, table))
         /\ Cardinality(With(status, p, table)) \in Nat
  <1>1. With(status, p, table) \in SUBSET Keys
    BY DEF With
  <1>2. IsFiniteSet(With(status, p, table))
    BY <1>1, LedgerAssumption, FS_Subset
  <1>3. QED
    BY <1>2, FS_CardinalityType

LEMMA WithShrinks ==
  ASSUME NEW status, NEW p, NEW table, NEW S \in SUBSET With(status, p, table)
  PROVE  Cardinality(S) <= Cardinality(With(status, p, table))
  BY WithFinite, FS_Subset

LEMMA WithPut ==
  ASSUME NEW status, NEW p, NEW table \in [Keys -> Reservation],
         NEW k \in Keys, NEW r \in Reservation
  PROVE  With(status, p, [table EXCEPT ![k] = r]) =
             IF r.status = status /\ r.period = p
             THEN With(status, p, table) \union {k} ELSE With(status, p, table) \ {k}
  BY DEF With

\* Setting a status is putting the reservation with that status.
LEMMA PutStatus ==
  ASSUME NEW table \in [Keys -> Reservation], NEW k \in Keys,
         NEW s \in {"COMMITTED", "RELEASED"}
  PROVE  /\ [table[k] EXCEPT !.status = s] \in Reservation
         /\ [table[k] EXCEPT !.status = s].status = s
         /\ [table[k] EXCEPT !.status = s].period = table[k].period
         /\ [table EXCEPT ![k].status = s] = [table EXCEPT ![k] = [table[k] EXCEPT !.status = s]]
  <1>1. table[k] \in Reservation
    OBVIOUS
  <1>2. QED
    BY <1>1 DEF Reservation

LEMMA ExpiredTable ==
  ASSUME LedgerType, NEW late \in SUBSET Keys, \A x \in late : Reserved(x)
  PROVE  /\ Expired(late) \in [Keys -> Reservation]
         /\ \A p \in Periods :
              /\ With("RESERVED", p, Expired(late)) = With("RESERVED", p, reservation) \ late
              /\ With("COMMITTED", p, Expired(late)) = With("COMMITTED", p, reservation)
         /\ \A k \in Keys : /\ Expired(late)[k].period = reservation[k].period
                            /\ reservation[k].status = "none" => Expired(late)[k].status = "none"
  <1>1. ASSUME NEW k \in Keys
        PROVE  /\ reservation[k] \in Reservation
               /\ [reservation[k] EXCEPT !.status = "EXPIRED"] \in Reservation
               /\ [reservation[k] EXCEPT !.status = "EXPIRED"].status = "EXPIRED"
               /\ [reservation[k] EXCEPT !.status = "EXPIRED"].period = reservation[k].period
    <2>1. reservation[k] \in Reservation
      BY DEF LedgerType
    <2>2. QED
      BY <2>1 DEF Reservation
  <1>2. Expired(late) \in [Keys -> Reservation]
    BY <1>1 DEF Expired
  <1>3. ASSUME NEW k \in Keys
        PROVE  /\ Expired(late)[k].period = reservation[k].period
               /\ k \in late => Expired(late)[k].status = "EXPIRED"
               /\ k \notin late => Expired(late)[k] = reservation[k]
    BY <1>1 DEF Expired
  <1>4. ASSUME NEW p \in Periods
        PROVE  /\ With("RESERVED", p, Expired(late)) = With("RESERVED", p, reservation) \ late
               /\ With("COMMITTED", p, Expired(late)) = With("COMMITTED", p, reservation)
    BY <1>3 DEF With, Reserved
  <1>5. ASSUME NEW k \in Keys, reservation[k].status = "none"
        PROVE  Expired(late)[k].status = "none"
    BY <1>3, <1>5 DEF Reserved
  <1>6. QED
    BY <1>2, <1>3, <1>4, <1>5

(***************************************************************************)
(* The ledger keeps its books: a reservation has a counter, the counter is *)
(* the number of committed keys, and with the holds it is within the limit.*)
(***************************************************************************)
Opened == \A k \in Keys : reservation[k].status # "none" => counter[reservation[k].period] # NoValue

Books == LedgerType /\ Opened /\ CountedOnce /\ LimitHeld

LEMMA BooksInit == LedgerInit => Books
  <1> SUFFICES ASSUME LedgerInit PROVE Books
    OBVIOUS
  <1>1. 0 \in Periods
    BY LedgerAssumption DEF Periods
  <1>2. LedgerType
    BY <1>1 DEF LedgerInit, LedgerType, Reservation
  <1>3. QED
    BY <1>2 DEF LedgerInit, Books, Opened, CountedOnce, LimitHeld

\* A reservation nobody has made takes nothing.
LEMMA UnopenedIsEmpty ==
  ASSUME Books, NEW p \in Periods, counter[p] = NoValue
  PROVE  With("RESERVED", p, reservation) = {} /\ With("COMMITTED", p, reservation) = {}
  BY DEF Books, Opened, With

LEMMA ReserveBooks ==
  ASSUME Books, NEW k \in Keys, NEW p \in Periods, NEW late \in SUBSET Late(p),
         NEW outcome, Reserve(k, p, 0, late, outcome)
  PROVE  Books'
  <1> DEFINE table == Expired(late)
             used == IF counter[p] = NoValue THEN 0 ELSE counter[p]
             hold == [status |-> "RESERVED", period |-> p, overdue |-> FALSE]
  <1>1. late \in SUBSET Keys /\ \A x \in late : Reserved(x)
    BY DEF Late, Overdue
  <1>2. /\ table \in [Keys -> Reservation]
        /\ \A q \in Periods :
             /\ With("RESERVED", q, table) = With("RESERVED", q, reservation) \ late
             /\ With("COMMITTED", q, table) = With("COMMITTED", q, reservation)
        /\ \A x \in Keys : /\ table[x].period = reservation[x].period
                           /\ reservation[x].status = "none" => table[x].status = "none"
    BY <1>1, ExpiredTable DEF Books
  <1>3. /\ counter' = [counter EXCEPT ![p] = used]
        /\ UNCHANGED marks
        /\ \/ reservation' = table
           \/ /\ ~Known(table[k].status) /\ Room(p, used, table) >= 1
              /\ reservation' = [table EXCEPT ![k] = hold]
    BY DEF Reserve
  <1>4. counter \in [Periods -> Nat \union {NoValue}] /\ marks \in [Periods -> SUBSET QUOTA_THRESHOLDS]
    BY DEF Books, LedgerType
  <1>5. hold \in Reservation /\ hold.status = "RESERVED" /\ hold.period = p
    BY DEF Reservation
  <1>6. used \in Nat /\ used # NoValue /\ HardLimit \in Nat
    BY <1>4, LedgerAssumption
  <1> HIDE DEF table, used, hold
  <1>7. LedgerType'
    BY <1>2, <1>3, <1>4, <1>5, <1>6 DEF LedgerType
  <1>8. \A q \in Periods : counter'[q] = IF q = p THEN used ELSE counter[q]
    BY <1>3, <1>4
  <1>14. ASSUME NEW status, NEW q
         PROVE  With(status, q, [table EXCEPT ![k] = hold]) =
                  IF hold.status = status /\ hold.period = q
                  THEN With(status, q, table) \union {k} ELSE With(status, q, table) \ {k}
    BY <1>2, <1>5 DEF With
  <1>9. Opened'
    <2> SUFFICES ASSUME NEW x \in Keys, reservation'[x].status # "none"
                 PROVE  counter'[reservation'[x].period] # NoValue
      BY DEF Opened
    <2>1. reservation'[x].period \in Periods
      BY <1>7 DEF LedgerType, Reservation
    <2>2. CASE reservation'[x] = table[x]
      <3>1. reservation[x].status # "none" /\ reservation'[x].period = reservation[x].period
        BY <2>2, <1>2
      <3>2. QED
        BY <3>1, <2>1, <1>6, <1>8 DEF Books, Opened
    <2>3. CASE x = k /\ reservation' = [table EXCEPT ![k] = hold]
      BY <2>3, <1>2, <1>5, <1>6, <1>8
    <2>4. QED
      BY <2>2, <2>3, <1>2, <1>3
  \* the committed keys are as before, and a counter just opened has none
  <1>10. ASSUME NEW q \in Periods
         PROVE  With("COMMITTED", q, reservation') = With("COMMITTED", q, reservation)
    <2>1. CASE reservation' = table
      BY <2>1, <1>2
    <2>2. CASE ~Known(table[k].status) /\ reservation' = [table EXCEPT ![k] = hold]
      <3>1. With("COMMITTED", q, reservation') = With("COMMITTED", q, table) \ {k}
        BY <2>2, <1>5, <1>14
      <3>2. k \notin With("COMMITTED", q, table)
        BY <2>2 DEF With, Known
      <3>3. QED
        BY <3>1, <3>2, <1>2
    <2>3. QED
      BY <2>1, <2>2, <1>3
  <1>11. CountedOnce'
    <2> SUFFICES ASSUME NEW q \in Periods, counter'[q] # NoValue
                 PROVE  counter'[q] = Cardinality(With("COMMITTED", q, reservation'))
      BY DEF CountedOnce, With
    <2>1. CASE counter[q] = NoValue
      <3>1. With("COMMITTED", q, reservation) = {}
        BY <2>1, UnopenedIsEmpty
      <3>2. counter'[q] = 0
        BY <2>1, <1>8 DEF used
      <3>3. QED
        BY <3>1, <3>2, <1>10, FS_EmptySet
    <2>2. CASE counter[q] # NoValue
      <3>1. counter'[q] = counter[q]
        BY <2>2, <1>8 DEF used
      <3>2. QED
        BY <3>1, <2>2, <1>10 DEF Books, CountedOnce
    <2>3. QED
      BY <2>1, <2>2
  \* before the new hold the period is within the limit
  <1>12. ASSUME NEW q \in Periods, counter'[q] # NoValue
         PROVE  counter'[q] + Cardinality(With("RESERVED", q, table)) <= HardLimit
    <2>1. With("RESERVED", q, table) \in SUBSET With("RESERVED", q, reservation)
      BY <1>2
    <2>2. CASE counter[q] = NoValue
      <3>1. With("RESERVED", q, table) = {}
        BY <2>1, <2>2, UnopenedIsEmpty
      <3>2. counter'[q] = 0
        BY <2>2, <1>8, <1>12 DEF used
      <3>3. QED
        BY <3>1, <3>2, <1>6, FS_EmptySet
    <2>3. CASE counter[q] # NoValue
      <3>1. counter'[q] = counter[q] /\ counter[q] \in Nat
        BY <2>3, <1>4, <1>8 DEF used
      <3>2. counter[q] + Cardinality(With("RESERVED", q, reservation)) <= HardLimit
        BY <2>3 DEF Books, LimitHeld
      <3>3. Cardinality(With("RESERVED", q, table))
              <= Cardinality(With("RESERVED", q, reservation))
        BY <2>1, WithShrinks
      <3>4. QED
        BY <3>1, <3>2, <3>3, <1>6, WithFinite
    <2>4. QED
      BY <2>2, <2>3
  <1>13. LimitHeld'
    <2> SUFFICES ASSUME NEW q \in Periods, counter'[q] # NoValue
                 PROVE  counter'[q] + Cardinality(With("RESERVED", q, reservation')) <= HardLimit
      BY DEF LimitHeld, With
    <2>1. CASE reservation' = table
      BY <2>1, <1>12
    <2>2. CASE /\ ~Known(table[k].status) /\ Room(p, used, table) >= 1
               /\ reservation' = [table EXCEPT ![k] = hold]
      <3>1. k \notin With("RESERVED", q, table)
        BY <2>2 DEF With, Known
      <3>2. CASE q = p
        <4>1. With("RESERVED", q, reservation') = With("RESERVED", q, table) \union {k}
          BY <2>2, <3>2, <1>5, <1>14
        <4>2. Cardinality(With("RESERVED", q, reservation'))
                = Cardinality(With("RESERVED", q, table)) + 1
          BY <4>1, <3>1, WithFinite, FS_AddElement
        <4>3. counter'[q] = used
          BY <3>2, <1>8
        <4>4. QED
          BY <2>2, <3>2, <4>2, <4>3, <1>6, WithFinite DEF Room
      <3>3. CASE q # p
        <4>1. With("RESERVED", q, reservation') = With("RESERVED", q, table) \ {k}
          BY <2>2, <3>3, <1>5, <1>14
        <4>2. With("RESERVED", q, reservation') = With("RESERVED", q, table)
          BY <4>1, <3>1
        <4>3. QED
          BY <4>2, <1>12
      <3>4. QED
        BY <3>2, <3>3
    <2>3. QED
      BY <2>1, <2>2, <1>3
  <1>15. QED
    BY <1>7, <1>9, <1>11, <1>13 DEF Books

\* A commit moves one key from the holds to the counter.
LEMMA CommitBooks ==
  ASSUME Books, NEW k \in Keys, Commit(k)
  PROVE  Books'
  <1>1. CASE ~Reserved(k)
    BY <1>1 DEF Commit, ledger, Books, LedgerType, Opened, CountedOnce, LimitHeld, With
  <1>2. CASE Reserved(k)
    <2> DEFINE p == reservation[k].period
               r == [reservation[k] EXCEPT !.status = "COMMITTED"]
    <2>1. /\ reservation \in [Keys -> Reservation]
          /\ counter \in [Periods -> Nat \union {NoValue}]
          /\ marks \in [Periods -> SUBSET QUOTA_THRESHOLDS]
      BY DEF Books, LedgerType
    <2>2. /\ r \in Reservation /\ r.status = "COMMITTED" /\ r.period = p
          /\ reservation' = [reservation EXCEPT ![k] = r]
          /\ counter' = [counter EXCEPT ![p] = @ + 1]
          /\ marks' = [marks EXCEPT ![p] = @ \union Reached(counter[p] + 1)]
      BY <1>2, <2>1, PutStatus DEF Commit
    <2>3. p \in Periods /\ counter[p] \in Nat /\ NoValue \notin Nat
      BY <1>2, <2>1, LedgerAssumption DEF Books, Opened, Reserved, Reservation
    <2>4. Reached(counter[p] + 1) \subseteq QUOTA_THRESHOLDS
      BY DEF Reached
    <2>5. k \in With("RESERVED", p, reservation) /\ k \notin With("COMMITTED", p, reservation)
      BY <1>2 DEF With, Reserved
    <2> HIDE DEF p, r
    <2>6. \A q \in Periods : counter'[q] = IF q = p THEN counter[q] + 1 ELSE counter[q]
      BY <2>1, <2>2
    <2>7. LedgerType'
      BY <2>1, <2>2, <2>3, <2>4 DEF LedgerType
    <2>8. Opened'
      BY <2>1, <2>2, <2>3, <2>6 DEF Books, Opened, Reservation
    <2>9. ASSUME NEW q \in Periods
          PROVE  /\ With("COMMITTED", q, reservation') =
                      IF q = p THEN With("COMMITTED", q, reservation) \union {k}
                      ELSE With("COMMITTED", q, reservation)
                 /\ With("RESERVED", q, reservation') = With("RESERVED", q, reservation) \ {k}
      <3>1. q # p => k \notin With("COMMITTED", q, reservation)
        BY DEF With, p
      <3>2. QED
        BY <2>1, <2>2, <3>1 DEF With
    <2>10. ASSUME NEW q \in Periods, counter'[q] # NoValue
           PROVE  /\ counter'[q] = Cardinality(With("COMMITTED", q, reservation'))
                  /\ counter'[q] + Cardinality(With("RESERVED", q, reservation')) <= HardLimit
      <3>1. counter[q] # NoValue
        BY <2>3, <2>6, <2>10
      <3>2. /\ counter[q] = Cardinality(With("COMMITTED", q, reservation))
            /\ counter[q] + Cardinality(With("RESERVED", q, reservation)) <= HardLimit
            /\ counter[q] \in Nat /\ HardLimit \in Nat
        BY <3>1, <2>1, LedgerAssumption DEF Books, CountedOnce, LimitHeld
      <3>3. CASE q = p
        <4>1. Cardinality(With("COMMITTED", q, reservation')) = counter[q] + 1
          BY <3>2, <3>3, <2>5, <2>9, WithFinite, FS_AddElement
        <4>2. Cardinality(With("RESERVED", q, reservation'))
                = Cardinality(With("RESERVED", q, reservation)) - 1
          BY <3>3, <2>5, <2>9, WithFinite, FS_RemoveElement
        <4>3. QED
          BY <4>1, <4>2, <3>2, <3>3, <2>6, WithFinite
      <3>4. CASE q # p
        <4>1. Cardinality(With("RESERVED", q, reservation'))
                <= Cardinality(With("RESERVED", q, reservation))
          BY <2>9, WithShrinks
        <4>2. QED
          BY <4>1, <3>2, <3>4, <2>6, <2>9, WithFinite
      <3>5. QED
        BY <3>3, <3>4
    <2>11. CountedOnce' /\ LimitHeld'
      BY <2>10 DEF CountedOnce, LimitHeld, With
    <2>12. QED
      BY <2>7, <2>8, <2>11 DEF Books
  <1>3. QED
    BY <1>1, <1>2

\* A step that only ends or ages holds keeps the books.
LEMMA FewerHoldsBooks ==
  ASSUME Books, UNCHANGED <<counter, marks>>, reservation' \in [Keys -> Reservation],
         \A k \in Keys : /\ reservation'[k].period = reservation[k].period
                         /\ reservation'[k].status = "RESERVED" => Reserved(k)
                         /\ reservation'[k].status = "COMMITTED" <=> reservation[k].status = "COMMITTED"
                         /\ reservation[k].status = "none" => reservation'[k].status = "none"
  PROVE  Books'
  <1>1. LedgerType'
    BY DEF Books, LedgerType
  <1>2. Opened'
    BY DEF Books, Opened
  <1>3. ASSUME NEW q \in Periods
        PROVE  /\ With("COMMITTED", q, reservation') = With("COMMITTED", q, reservation)
               /\ With("RESERVED", q, reservation') \in SUBSET With("RESERVED", q, reservation)
    BY DEF With, Reserved
  <1>4. CountedOnce'
    BY <1>3 DEF Books, CountedOnce, With
  <1>5. ASSUME NEW q \in Periods, counter[q] # NoValue
        PROVE  counter[q] + Cardinality(With("RESERVED", q, reservation')) <= HardLimit
    <2>1. counter[q] + Cardinality(With("RESERVED", q, reservation)) <= HardLimit
      BY <1>5 DEF Books, LimitHeld
    <2>2. counter[q] \in Nat /\ HardLimit \in Nat
      BY <1>5, LedgerAssumption DEF Books, LedgerType
    <2>3. Cardinality(With("RESERVED", q, reservation'))
            <= Cardinality(With("RESERVED", q, reservation))
      BY <1>3, WithShrinks
    <2>4. QED
      BY <2>1, <2>2, <2>3, WithFinite
  <1>6. LimitHeld'
    BY <1>5 DEF LimitHeld, With
  <1>7. QED
    BY <1>1, <1>2, <1>4, <1>6 DEF Books

LEMMA ReleaseBooks ==
  ASSUME Books, NEW k \in Keys, Release(k)
  PROVE  Books'
  <1>1. reservation \in [Keys -> Reservation]
    BY DEF Books, LedgerType
  <1>2. CASE ~Reserved(k)
    BY <1>1, <1>2, FewerHoldsBooks DEF Release, Reserved
  <1>3. CASE Reserved(k)
    <2> DEFINE r == [reservation[k] EXCEPT !.status = "RELEASED"]
    <2>1. /\ r \in Reservation /\ r.status = "RELEASED" /\ r.period = reservation[k].period
          /\ reservation' = [reservation EXCEPT ![k] = r]
          /\ UNCHANGED <<counter, marks>>
      BY <1>1, <1>3, PutStatus DEF Release
    <2> HIDE DEF r
    <2>2. \A x \in Keys : reservation'[x] = IF x = k THEN r ELSE reservation[x]
      BY <1>1, <2>1
    <2>3. reservation' \in [Keys -> Reservation]
      BY <1>1, <2>1
    <2>4. QED
      BY <1>3, <2>1, <2>2, <2>3, FewerHoldsBooks DEF Reserved
  <1>4. QED
    BY <1>2, <1>3

LEMMA ExpireBooks ==
  ASSUME Books, ExpireOverdue
  PROVE  Books'
  <1> DEFINE late == {k \in Keys : Overdue(k)}
  <1>1. late \in SUBSET Keys /\ \A x \in late : Reserved(x)
    BY DEF Overdue
  <1>2. reservation' = Expired(late) /\ UNCHANGED <<counter, marks>>
    BY DEF ExpireOverdue
  <1> HIDE DEF late
  <1>3. /\ Expired(late) \in [Keys -> Reservation]
        /\ \A k \in Keys : /\ Expired(late)[k].period = reservation[k].period
                           /\ reservation[k].status = "none" => Expired(late)[k].status = "none"
    BY <1>1, ExpiredTable DEF Books
  <1>4. ASSUME NEW k \in Keys
        PROVE  /\ k \in late => Expired(late)[k].status = "EXPIRED" /\ Reserved(k)
               /\ k \notin late => Expired(late)[k] = reservation[k]
    <2>1. reservation[k] \in Reservation
      BY DEF Books, LedgerType
    <2>2. [reservation[k] EXCEPT !.status = "EXPIRED"].status = "EXPIRED"
      BY <2>1 DEF Reservation
    <2>3. QED
      BY <2>2, <1>1 DEF Expired
  <1>5. QED
    BY <1>2, <1>3, <1>4, FewerHoldsBooks DEF Reserved

LEMMA TimeOutBooks ==
  ASSUME Books, NEW k \in Keys, TimeOut(k)
  PROVE  Books'
  <1> DEFINE r == [reservation[k] EXCEPT !.overdue = TRUE]
  <1>1. reservation \in [Keys -> Reservation] /\ reservation[k] \in Reservation
    BY DEF Books, LedgerType
  <1>2. /\ r \in Reservation /\ r.status = reservation[k].status
        /\ r.period = reservation[k].period
        /\ reservation' = [reservation EXCEPT ![k] = r]
        /\ UNCHANGED <<counter, marks>>
    BY <1>1 DEF TimeOut, Reservation
  <1> HIDE DEF r
  <1>3. /\ reservation' \in [Keys -> Reservation]
        /\ \A x \in Keys : reservation'[x] = IF x = k THEN r ELSE reservation[x]
    BY <1>1, <1>2
  <1>4. QED
    BY <1>2, <1>3, FewerHoldsBooks DEF Reserved

LEMMA SameBooks ==
  ASSUME Books, UNCHANGED ledger
  PROVE  Books'
  BY DEF ledger, Books, LedgerType, Opened, CountedOnce, LimitHeld, With

(***************************************************************************)
(* Only a commit makes a committed key, and none is ever taken back.       *)
(***************************************************************************)
SameCommits ==
  \A k \in Keys :
    /\ reservation'[k].status = "COMMITTED" <=> reservation[k].status = "COMMITTED"
    /\ reservation[k].status = "COMMITTED" => reservation'[k].period = reservation[k].period

LEMMA ReserveCommits ==
  ASSUME LedgerType, NEW k \in Keys, NEW p \in Periods, NEW late \in SUBSET Late(p),
         NEW outcome, Reserve(k, p, 0, late, outcome)
  PROVE  SameCommits
  <1> DEFINE table == Expired(late)
             hold == [status |-> "RESERVED", period |-> p, overdue |-> FALSE]
  <1>1. late \in SUBSET Keys /\ \A x \in late : Reserved(x)
    BY DEF Late, Overdue
  <1>2. table \in [Keys -> Reservation]
    BY <1>1, ExpiredTable
  <1>3. \/ reservation' = table
        \/ ~Known(table[k].status) /\ reservation' = [table EXCEPT ![k] = hold]
    BY DEF Reserve
  <1>4. ASSUME NEW x \in Keys
        PROVE  /\ table[x].status = "COMMITTED" <=> reservation[x].status = "COMMITTED"
               /\ reservation[x].status = "COMMITTED" => table[x] = reservation[x]
    <2>1. reservation[x] \in Reservation
      BY DEF LedgerType
    <2>2. [reservation[x] EXCEPT !.status = "EXPIRED"].status = "EXPIRED"
      BY <2>1 DEF Reservation
    <2>3. QED
      BY <2>2, <1>1 DEF Expired, Reserved
  <1>5. hold.status = "RESERVED"
    OBVIOUS
  <1> HIDE DEF table, hold
  <1>6. CASE reservation' = table
    BY <1>6, <1>4 DEF SameCommits
  <1>7. CASE ~Known(table[k].status) /\ reservation' = [table EXCEPT ![k] = hold]
    <2>1. \A x \in Keys : reservation'[x] = IF x = k THEN hold ELSE table[x]
      BY <1>2, <1>7
    <2>2. table[k].status # "COMMITTED"
      BY <1>7 DEF Known
    <2>3. QED
      BY <2>1, <2>2, <1>4, <1>5 DEF SameCommits
  <1>8. QED
    BY <1>3, <1>6, <1>7

LEMMA CommitCommits ==
  ASSUME LedgerType, NEW k \in Keys, Commit(k), NEW x \in Keys
  PROVE  /\ reservation'[x].status = "COMMITTED" => x = k \/ reservation[x].status = "COMMITTED"
         /\ reservation[x].status = "COMMITTED" =>
              reservation'[x].status = "COMMITTED" /\ reservation'[x].period = reservation[x].period
  <1>1. reservation \in [Keys -> Reservation]
    BY DEF LedgerType
  <1>2. CASE ~Reserved(k)
    BY <1>2 DEF Commit, ledger
  <1>3. CASE Reserved(k)
    <2>1. reservation' = [reservation EXCEPT ![k].status = "COMMITTED"]
      BY <1>3 DEF Commit
    <2>2. x # k => reservation'[x] = reservation[x]
      BY <1>1, <2>1
    <2>3. reservation[k].status # "COMMITTED"
      BY <1>3 DEF Reserved
    <2>4. QED
      BY <2>2, <2>3
  <1>4. QED
    BY <1>2, <1>3

LEMMA ReleaseCommits ==
  ASSUME LedgerType, NEW k \in Keys, Release(k)
  PROVE  SameCommits
  <1>1. reservation \in [Keys -> Reservation]
    BY DEF LedgerType
  <1>2. CASE ~Reserved(k)
    BY <1>2 DEF Release, SameCommits
  <1>3. CASE Reserved(k)
    <2> DEFINE r == [reservation[k] EXCEPT !.status = "RELEASED"]
    <2>1. r.status = "RELEASED" /\ reservation' = [reservation EXCEPT ![k] = r]
      BY <1>1, <1>3, PutStatus DEF Release
    <2> HIDE DEF r
    <2>2. \A x \in Keys : reservation'[x] = IF x = k THEN r ELSE reservation[x]
      BY <1>1, <2>1
    <2>3. QED
      BY <1>3, <2>1, <2>2 DEF SameCommits, Reserved
  <1>4. QED
    BY <1>2, <1>3

LEMMA ExpireCommits ==
  ASSUME LedgerType, ExpireOverdue
  PROVE  SameCommits
  <1>1. ASSUME NEW x \in Keys
        PROVE  /\ reservation'[x].status = "COMMITTED" <=> reservation[x].status = "COMMITTED"
               /\ reservation[x].status = "COMMITTED" => reservation'[x] = reservation[x]
    <2>1. reservation[x] \in Reservation
      BY DEF LedgerType
    <2>2. [reservation[x] EXCEPT !.status = "EXPIRED"].status = "EXPIRED"
      BY <2>1 DEF Reservation
    <2>3. QED
      BY <2>2 DEF ExpireOverdue, Expired, Overdue, Reserved
  <1>2. QED
    BY <1>1 DEF SameCommits

LEMMA TimeOutCommits ==
  ASSUME LedgerType, NEW k \in Keys, TimeOut(k)
  PROVE  SameCommits
  <1> DEFINE r == [reservation[k] EXCEPT !.overdue = TRUE]
  <1>1. reservation \in [Keys -> Reservation] /\ reservation[k] \in Reservation
    BY DEF LedgerType
  <1>2. /\ r.status = reservation[k].status /\ r.period = reservation[k].period
        /\ reservation' = [reservation EXCEPT ![k] = r]
    BY <1>1 DEF TimeOut, Reservation
  <1> HIDE DEF r
  <1>3. \A x \in Keys : reservation'[x] = IF x = k THEN r ELSE reservation[x]
    BY <1>1, <1>2
  <1>4. QED
    BY <1>2, <1>3 DEF SameCommits

(***************************************************************************)
(* Types. A call under way has a key.                                      *)
(***************************************************************************)
Keyed == \A r \in Requests : ~At(r, "idle") => request[r].key \in Keys

Typed == TypeOK /\ Keyed

LEMMA CallTypes ==
  ASSUME NEW c \in Call, NEW pc \in {"reserve", "record", "commit", "release"}
  PROVE  /\ [c EXCEPT !.pc = pc] \in Call
         /\ [c EXCEPT !.pc = pc].key = c.key
         /\ [c EXCEPT !.pc = pc].pc = pc
  BY DEF Call

LEMMA IdleType == Idle \in Call /\ Idle.pc = "idle"
  <1>1. 0 \in Periods
    BY LedgerAssumption DEF Periods
  <1>2. QED
    BY <1>1 DEF Idle, Call

\* A step of one call.
LEMMA CallStep ==
  ASSUME Typed, NEW r \in Requests, NEW c \in Call,
         c.pc # "idle" => c.key \in Keys, request' = [request EXCEPT ![r] = c]
  PROVE  /\ request' \in [Requests -> Call]
         /\ Keyed'
  <1>1. request \in [Requests -> Call]
    BY DEF Typed, TypeOK
  <1>2. \A x \in Requests : request'[x] = IF x = r THEN c ELSE request[x]
    BY <1>1
  <1>3. QED
    BY <1>1, <1>2 DEF Typed, Keyed, At

LEMMA DoneStep ==
  ASSUME Typed, NEW r \in Requests, Done(r)
  PROVE  request' \in [Requests -> Call] /\ Keyed'
  BY IdleType, CallStep DEF Done

LEMMA GotoStep ==
  ASSUME Typed, NEW r \in Requests, ~At(r, "idle"),
         NEW pc \in {"reserve", "record", "commit", "release"}, Goto(r, pc)
  PROVE  request' \in [Requests -> Call] /\ Keyed'
  <1>1. request[r] \in Call /\ request[r].key \in Keys
    BY DEF Typed, TypeOK, Keyed
  <1>2. request' = [request EXCEPT ![r] = [request[r] EXCEPT !.pc = pc]]
    BY DEF Goto
  <1>3. [request[r] EXCEPT !.pc = pc] \in Call /\ [request[r] EXCEPT !.pc = pc].key = request[r].key
    BY <1>1, CallTypes
  <1>4. QED
    BY <1>1, <1>2, <1>3, CallStep

LEMMA GrantStep ==
  ASSUME Typed, NEW r \in Requests, request[r].key \in Keys, NEW fresh \in BOOLEAN,
         request' = [request EXCEPT ![r].pc = "record", ![r].fresh = fresh]
  PROVE  request' \in [Requests -> Call] /\ Keyed'
  <1> DEFINE c == [request[r] EXCEPT !.pc = "record", !.fresh = fresh]
  <1>1. request[r] \in Call
    BY DEF Typed, TypeOK
  <1>2. c \in Call /\ c.key = request[r].key
    BY <1>1 DEF Call
  <1>3. request' = [request EXCEPT ![r] = c]
    BY DEF Typed, TypeOK
  <1> HIDE DEF c
  <1>4. QED
    BY <1>2, <1>3, CallStep

Records == <<usage, snapshot, job>>

\* A step that does not touch the records.
LEMMA TypedFrom ==
  ASSUME Typed, LedgerType', request' \in [Requests -> Call], Keyed',
         period' \in Periods, UNCHANGED Records, faults' \in 0..MaxFaults,
         delays' \in 0..MaxDelays
  PROVE  Typed'
  BY DEF Typed, TypeOK, Records

LEMMA CountersType ==
  ASSUME Typed
  PROVE  period \in Periods /\ faults \in 0..MaxFaults /\ delays \in 0..MaxDelays
  BY DEF Typed, TypeOK

LEMMA UntouchedCalls ==
  ASSUME Typed, UNCHANGED request
  PROVE  request' \in [Requests -> Call] /\ Keyed'
  BY DEF Typed, TypeOK, Keyed, At

LEMMA JobStep ==
  ASSUME Typed, Books, UNCHANGED <<counter, reservation, marks, period, usage, request, delays>>,
         snapshot' \in [Periods -> Values], faults' \in 0..MaxFaults,
         job' \in [Schedulers -> [pc : {"idle", "read", "write"}, found : [Periods -> Values]]]
  PROVE  Typed' /\ Books'
  <1>1. Books'
    BY SameBooks DEF ledger
  <1>2. Keyed'
    BY DEF Typed, Keyed, At
  <1>3. QED
    BY <1>1, <1>2 DEF Typed, TypeOK, Books

Job == [pc : {"idle", "read", "write"}, found : [Periods -> Values]]

LEMMA JobTypes ==
  ASSUME NEW j \in Job
  PROVE  /\ [j EXCEPT !.pc = "idle"] \in Job
         /\ \A p \in Periods : [j EXCEPT !.found[p] = NoValue] \in Job
  <1>1. NoValue \in Values
    BY DEF Values
  <1>2. QED
    BY <1>1 DEF Job

LEMMA TypedStep == Typed /\ Books /\ [Next]_vars => Typed' /\ Books'
  <1> SUFFICES ASSUME Typed, Books, [Next]_vars PROVE Typed' /\ Books'
    OBVIOUS
  <1> USE DEF Records
  <1>0. ASSUME Books' PROVE LedgerType'
    BY <1>0 DEF Books
  <1>1. ASSUME NEW r \in Requests, NEW k \in Keys, Begin(r, k) PROVE Typed' /\ Books'
    <2> DEFINE c == [pc |-> "reserve", key |-> k, period |-> period, fresh |-> FALSE]
    <2>1. c \in Call /\ c.key \in Keys /\ request' = [request EXCEPT ![r] = c]
      BY <1>1, CountersType DEF Begin, Call
    <2>2. request' \in [Requests -> Call] /\ Keyed'
      BY <2>1, CallStep
    <2>3. Books'
      BY <1>1, SameBooks DEF Begin, ledger
    <2>4. QED
      BY <1>0, <1>1, <2>2, <2>3, TypedFrom, CountersType DEF Begin
  <1>2. ASSUME NEW r \in Requests, ReserveEvent(r) PROVE Typed' /\ Books'
    <2>1. request[r] \in Call /\ request[r].key \in Keys /\ request[r].period \in Periods
      BY <1>2 DEF Typed, TypeOK, Keyed, ReserveEvent, At, Call
    <2>2. PICK outcome \in Outcomes, late \in SUBSET Late(request[r].period) :
            /\ Reserve(request[r].key, request[r].period, 0, late, outcome)
            /\ IF outcome = "EXCEEDED" THEN Done(r)
               ELSE request' = [request EXCEPT ![r].pc = "record",
                                               ![r].fresh = (outcome = "RESERVED")]
      BY <1>2 DEF ReserveEvent
    <2>3. Books'
      BY <2>1, <2>2, ReserveBooks
    <2>4. request' \in [Requests -> Call] /\ Keyed'
      <3>1. CASE outcome = "EXCEEDED"
        BY <2>2, <3>1, DoneStep
      <3>2. CASE outcome # "EXCEEDED"
        <4>1. (outcome = "RESERVED") \in BOOLEAN
          OBVIOUS
        <4>2. request' = [request EXCEPT ![r].pc = "record", ![r].fresh = (outcome = "RESERVED")]
          BY <2>2, <3>2
        <4> DEFINE fresh == (outcome = "RESERVED")
        <4> HIDE DEF fresh
        <4>3. fresh \in BOOLEAN
          BY <4>1 DEF fresh
        <4>4. request' = [request EXCEPT ![r].pc = "record", ![r].fresh = fresh]
          BY <4>2 DEF fresh
        <4>5. QED
          BY <2>1, <4>3, <4>4, GrantStep
      <3>3. QED
        BY <3>1, <3>2
    <2>5. QED
      BY <1>0, <1>2, <2>3, <2>4, TypedFrom, CountersType DEF ReserveEvent
  <1>3. ASSUME NEW r \in Requests, RecordEvent(r) PROVE Typed' /\ Books'
    <2>1. ~At(r, "idle") /\ request[r].key \in Keys /\ request[r].period \in Periods
      BY <1>3 DEF Typed, TypeOK, Keyed, RecordEvent, At, Call
    <2>2. request' \in [Requests -> Call] /\ Keyed'
      BY <1>3, <2>1, DoneStep, GotoStep DEF RecordEvent
    <2>3. usage' \in [Keys -> Periods \union {NoValue}]
      BY <1>3, <2>1 DEF RecordEvent, Typed, TypeOK
    <2>4. Books'
      BY <1>3, SameBooks DEF RecordEvent, ledger
    <2>5. QED
      BY <1>0, <1>3, <2>2, <2>3, <2>4 DEF RecordEvent, Typed, TypeOK
  <1>4. ASSUME NEW r \in Requests, CommitEvent(r) PROVE Typed' /\ Books'
    <2>1. request[r].key \in Keys
      BY <1>4 DEF Typed, Keyed, CommitEvent, At
    <2>2. Books'
      BY <1>4, <2>1, CommitBooks DEF CommitEvent
    <2>3. QED
      BY <1>0, <1>4, <2>2, DoneStep, TypedFrom, CountersType DEF CommitEvent
  <1>5. ASSUME NEW r \in Requests, ReleaseEvent(r) PROVE Typed' /\ Books'
    <2>1. request[r].key \in Keys
      BY <1>5 DEF Typed, Keyed, ReleaseEvent, At
    <2>2. Books'
      BY <1>5, <2>1, ReleaseBooks DEF ReleaseEvent
    <2>3. QED
      BY <1>0, <1>5, <2>2, DoneStep, TypedFrom, CountersType DEF ReleaseEvent
  <1>6. ASSUME NEW s \in Schedulers, ExpireStale(s) PROVE Typed' /\ Books'
    <2>1. Books'
      BY <1>6, ExpireBooks DEF ExpireStale
    <2>2. Keyed'
      BY <1>6 DEF ExpireStale, Typed, Keyed, At
    <2>3. QED
      BY <1>0, <1>6, <2>1, <2>2 DEF ExpireStale, Typed, TypeOK
  <1>7. ASSUME NEW s \in Schedulers, ReadClosed(s) PROVE Typed' /\ Books'
    <2>1. [p \in Periods |-> IF p \in Closed THEN counter[p] ELSE NoValue] \in [Periods -> Values]
      BY DEF Typed, TypeOK, LedgerType, Values
    <2>2. QED
      BY <1>7, <2>1, JobStep DEF ReadClosed, Typed, TypeOK
  <1>8. ASSUME NEW s \in Schedulers, WriteSnapshot(s) PROVE Typed' /\ Books'
    <2>1. \A p \in Periods : job[s].found[p] \in Values
      BY DEF Typed, TypeOK
    <2>2. snapshot' \in [Periods -> Values]
      BY <1>8, <2>1 DEF WriteSnapshot, Typed, TypeOK
    <2>3. job' \in [Schedulers -> [pc : {"idle", "read", "write"}, found : [Periods -> Values]]]
      <3>1. job[s] \in Job
        BY DEF Typed, TypeOK, Job
      <3>2. PICK j \in Job : job' = [job EXCEPT ![s] = j]
        BY <1>8, <3>1, JobTypes DEF WriteSnapshot
      <3>3. QED
        BY <3>2 DEF Job, Typed, TypeOK
    <2>4. QED
      BY <1>8, <2>2, <2>3, JobStep, CountersType DEF WriteSnapshot
  <1>9. ASSUME Fail PROVE Typed' /\ Books'
    <2>1. faults' \in 0..MaxFaults
      BY <1>9, CountersType, EventsAssumption DEF Fail
    <2>2. NoValues \in [Periods -> Values]
      BY DEF NoValues, Values
    <2>3. CASE \E r \in Requests : ~At(r, "idle") /\ Done(r) /\ UNCHANGED job
      <3>1. request' \in [Requests -> Call] /\ Keyed'
        BY <2>3, DoneStep
      <3>2. Books'
        BY <1>9, SameBooks DEF Fail, ledger
      <3>3. QED
        BY <1>0, <1>9, <2>1, <2>3, <3>1, <3>2, TypedFrom, CountersType DEF Fail
    <2>4. CASE \E s \in Schedulers :
                 /\ job[s].pc # "idle"
                 /\ job' = [job EXCEPT ![s] = [pc |-> "idle", found |-> NoValues]]
                 /\ UNCHANGED request
      BY <1>9, <2>1, <2>2, <2>4, JobStep DEF Fail, Typed, TypeOK
    <2>5. QED
      BY <1>9, <2>3, <2>4 DEF Fail
  <1>10. ASSUME NEW k \in Keys, ReservationTimesOut(k) PROVE Typed' /\ Books'
    <2>1. Books'
      BY <1>10, TimeOutBooks DEF ReservationTimesOut
    <2>2. delays' \in 0..MaxDelays
      BY <1>10, CountersType, EventsAssumption DEF ReservationTimesOut
    <2>3. QED
      BY <1>0, <1>10, <2>1, <2>2, UntouchedCalls, TypedFrom, CountersType DEF ReservationTimesOut
  <1>11. ASSUME NextPeriod PROVE Typed' /\ Books'
    <2>1. period' \in Periods
      BY <1>11, CountersType, LedgerAssumption DEF NextPeriod, Periods
    <2>2. Books'
      BY <1>11, SameBooks DEF NextPeriod, ledger
    <2>3. QED
      BY <1>0, <1>11, <2>1, <2>2, UntouchedCalls, TypedFrom, CountersType DEF NextPeriod
  <1>12. CASE UNCHANGED vars
    BY <1>12, SameBooks DEF vars, ledger, Typed, TypeOK, Keyed, At, LedgerType
  <1>13. QED
    BY <1>1, <1>2, <1>3, <1>4, <1>5, <1>6, <1>7, <1>8, <1>9, <1>10, <1>11, <1>12
    DEF Next, Consume, Finalize

LEMMA TypedInit == Init => Typed /\ Books
  <1> SUFFICES ASSUME Init PROVE Typed /\ Books
    OBVIOUS
  <1>1. 0 \in Periods
    BY LedgerAssumption DEF Periods
  <1>2. Books
    BY BooksInit DEF Init
  <1>3. TypeOK
    BY <1>1, <1>2, IdleType, EventsAssumption
    DEF Init, TypeOK, Books, NoValues, Values
  <1>4. Keyed
    BY DEF Init, Keyed, At, Idle
  <1>5. QED
    BY <1>2, <1>3, <1>4 DEF Typed

LEMMA BooksKept == Spec => [](Typed /\ Books)
  BY TypedInit, TypedStep, PTL DEF Spec

\* Every reachable state has its type.
THEOREM Typing == Spec => []TypeOK
  <1>1. Typed => TypeOK
    BY DEF Typed
  <1>2. QED
    BY <1>1, BooksKept, PTL

\* Usage and holds never exceed the limit of their period: the lock makes each
\* reserve see every hold granted before it.
THEOREM LimitRespected == Spec => []LimitHeld
  <1>1. Books => LimitHeld
    BY DEF Books
  <1>2. QED
    BY <1>1, BooksKept, PTL

\* The counter is the number of committed keys.
THEOREM KeysCountedOnce == Spec => []CountedOnce
  <1>1. Books => CountedOnce
    BY DEF Books
  <1>2. QED
    BY <1>1, BooksKept, PTL

(***************************************************************************)
(* What a step does to the committed keys.                                 *)
(***************************************************************************)
KeyAt(r) == request[r].key

StaysCommitted(k) ==
  reservation[k].status = "COMMITTED" =>
    /\ reservation'[k].status = "COMMITTED"
    /\ reservation'[k].period = reservation[k].period

CommittedBy(k) ==
  reservation'[k].status = "COMMITTED" =>
    \/ reservation[k].status = "COMMITTED"
    \/ \E r \in Requests : At(r, "commit") /\ KeyAt(r) = k

LEMMA SameCommitsStep ==
  ASSUME SameCommits
  PROVE  \A k \in Keys : StaysCommitted(k) /\ CommittedBy(k)
  BY DEF SameCommits, StaysCommitted, CommittedBy

LEMMA CommitsStep ==
  ASSUME Typed, [Next]_vars
  PROVE  \A k \in Keys : StaysCommitted(k) /\ CommittedBy(k)
  <1>0. LedgerType
    BY DEF Typed, TypeOK
  <1>1. CASE UNCHANGED reservation
    BY <1>1 DEF StaysCommitted, CommittedBy
  <1>2. ASSUME NEW r \in Requests, ReserveEvent(r) PROVE SameCommits
    <2>1. request[r].key \in Keys /\ request[r].period \in Periods
      BY <1>2 DEF Typed, TypeOK, Keyed, ReserveEvent, At, Call
    <2>2. QED
      BY <1>0, <1>2, <2>1, ReserveCommits DEF ReserveEvent
  <1>3. ASSUME NEW r \in Requests, CommitEvent(r)
        PROVE  \A k \in Keys : StaysCommitted(k) /\ CommittedBy(k)
    <2>1. KeyAt(r) \in Keys /\ At(r, "commit") /\ Commit(KeyAt(r))
      BY <1>3 DEF Typed, Keyed, CommitEvent, At, KeyAt
    <2>2. QED
      BY <1>0, <2>1, CommitCommits DEF StaysCommitted, CommittedBy
  <1>4. ASSUME NEW r \in Requests, ReleaseEvent(r) PROVE SameCommits
    <2>1. request[r].key \in Keys
      BY <1>4 DEF Typed, Keyed, ReleaseEvent, At
    <2>2. QED
      BY <1>0, <1>4, <2>1, ReleaseCommits DEF ReleaseEvent
  <1>5. ASSUME NEW s \in Schedulers, ExpireStale(s) PROVE SameCommits
    BY <1>0, <1>5, ExpireCommits DEF ExpireStale
  <1>6. ASSUME NEW k \in Keys, ReservationTimesOut(k) PROVE SameCommits
    BY <1>0, <1>6, TimeOutCommits DEF ReservationTimesOut
  <1>7. \/ UNCHANGED reservation
        \/ \E r \in Requests : ReserveEvent(r) \/ CommitEvent(r) \/ ReleaseEvent(r)
        \/ \E s \in Schedulers : ExpireStale(s)
        \/ \E k \in Keys : ReservationTimesOut(k)
    BY DEF Next, vars, Consume, Finalize, Begin, RecordEvent, ReadClosed, WriteSnapshot,
           Fail, NextPeriod
  <1>8. QED
    BY <1>1, <1>2, <1>3, <1>4, <1>5, <1>6, <1>7, SameCommitsStep

\* A committed key stays committed against its counter.
THEOREM CommittedForGood == Spec => CommitFinal
  <1>1. Typed /\ [Next]_vars =>
          [\A k \in Keys : reservation[k].status = "COMMITTED" =>
               /\ reservation'[k].status = "COMMITTED"
               /\ reservation'[k].period = reservation[k].period]_vars
    BY CommitsStep DEF StaysCommitted
  <1>2. QED
    BY <1>1, BooksKept, PTL DEF Spec, CommitFinal

(***************************************************************************)
(* Nothing is counted before its event is recorded.                        *)
(***************************************************************************)
RecordedFirst ==
  /\ CountedWasRecorded
  /\ \A r \in Requests : At(r, "commit") => usage[KeyAt(r)] # NoValue

\* A record is never taken back; a call that comes to its commit has one.
LEMMA RecordsStep ==
  ASSUME Typed, [Next]_vars
  PROVE  /\ \A k \in Keys : usage[k] # NoValue => usage'[k] # NoValue
         /\ \A r \in Requests : At(r, "commit")' =>
              \/ At(r, "commit") /\ KeyAt(r)' = KeyAt(r)
              \/ usage'[KeyAt(r)'] # NoValue
  <1> DEFINE Kept == \A k \in Keys : usage[k] # NoValue => usage'[k] # NoValue
             Arrives(x) == At(x, "commit")' =>
                             \/ At(x, "commit") /\ KeyAt(x)' = KeyAt(x)
                             \/ usage'[KeyAt(x)'] # NoValue
  <1>0. request \in [Requests -> Call] /\ NoValue \notin Periods
    BY LedgerAssumption DEF Typed, TypeOK, Periods
  <1>1. CASE UNCHANGED <<usage, request>>
    BY <1>1 DEF At, KeyAt
  <1>2. ASSUME NEW r \in Requests, UNCHANGED usage, NEW c \in Call, c.pc # "commit",
               request' = [request EXCEPT ![r] = c]
        PROVE  Kept /\ \A x \in Requests : Arrives(x)
    <2>1. \A x \in Requests : request'[x] = IF x = r THEN c ELSE request[x]
      BY <1>0, <1>2
    <2>2. QED
      BY <1>2, <2>1 DEF At, KeyAt
  <1>3. ASSUME NEW r \in Requests, RecordEvent(r)
        PROVE  Kept /\ \A x \in Requests : Arrives(x)
    <2>1. request[r].key \in Keys /\ request[r].period \in Periods
      BY <1>3 DEF Typed, TypeOK, Keyed, RecordEvent, At, Call
    <2>2. CASE usage[request[r].key] = NoValue
      <3>1. /\ usage' = [usage EXCEPT ![request[r].key] = request[r].period]
            /\ request' = [request EXCEPT ![r].pc = "commit"]
        BY <1>3, <2>2 DEF RecordEvent, Goto
      <3>2. \A k \in Keys : usage'[k] =
              IF k = request[r].key THEN request[r].period ELSE usage[k]
        BY <3>1 DEF Typed, TypeOK
      <3>3. /\ request'[r].key = request[r].key
            /\ \A x \in Requests \ {r} : request'[x] = request[x]
        <4>1. request[r] \in Call
          BY <1>0
        <4>2. [request[r] EXCEPT !.pc = "commit"].key = request[r].key
          BY <4>1, CallTypes
        <4>3. QED
          BY <1>0, <3>1, <4>2
      <3>4. usage'[request[r].key] # NoValue
        BY <1>0, <2>1, <3>2
      <3>5. QED
        BY <1>0, <2>1, <3>2, <3>3, <3>4 DEF At, KeyAt
    <2>3. CASE usage[request[r].key] # NoValue
      <3>1. request[r] \in Call
        BY <1>0
      <3>2. /\ [request[r] EXCEPT !.pc = "release"] \in Call
            /\ [request[r] EXCEPT !.pc = "release"].pc = "release"
        BY <3>1, CallTypes
      <3>3. \/ request' = [request EXCEPT ![r] = [request[r] EXCEPT !.pc = "release"]]
            \/ request' = [request EXCEPT ![r] = Idle]
        BY <1>3, <2>3 DEF RecordEvent, Goto, Done
      <3>4. UNCHANGED usage
        BY <1>3, <2>3 DEF RecordEvent
      <3>5. QED
        BY <1>2, <3>2, <3>3, <3>4, IdleType
    <2>4. QED
      BY <2>2, <2>3
  <1>4. ASSUME NEW r \in Requests, ReserveEvent(r)
        PROVE  Kept /\ \A x \in Requests : Arrives(x)
    <2>1. UNCHANGED usage
      BY <1>4 DEF ReserveEvent
    <2>2. /\ \A x \in Requests \ {r} : request'[x] = request[x]
          /\ request'[r].pc # "commit"
      BY <1>0, <1>4, IdleType DEF ReserveEvent, Done, Call
    <2>3. QED
      BY <2>1, <2>2 DEF At, KeyAt
  <1>5. ASSUME NEW r \in Requests, Done(r), UNCHANGED usage
        PROVE  Kept /\ \A x \in Requests : Arrives(x)
    BY <1>2, <1>5, IdleType DEF Done
  <1>6. ASSUME NEW r \in Requests, NEW k \in Keys, Begin(r, k)
        PROVE  Kept /\ \A x \in Requests : Arrives(x)
    <2>1. period \in Periods
      BY CountersType
    <2>2. QED
      BY <1>2, <1>6, <2>1 DEF Begin, Call
  <1>7. \/ UNCHANGED <<usage, request>>
        \/ \E r \in Requests : \/ RecordEvent(r) \/ ReserveEvent(r)
                               \/ Done(r) /\ UNCHANGED usage
        \/ \E r \in Requests, k \in Keys : Begin(r, k)
    BY DEF Next, vars, Consume, Finalize, CommitEvent, ReleaseEvent, ExpireStale, ReadClosed,
           WriteSnapshot, Fail, ReservationTimesOut, NextPeriod
  <1>8. QED
    BY <1>1, <1>3, <1>4, <1>5, <1>6, <1>7

\* What is counted was recorded before.
THEOREM RecordedBeforeCounted == Spec => []CountedWasRecorded
  <1>1. Init => RecordedFirst
    BY DEF Init, LedgerInit, RecordedFirst, CountedWasRecorded, At, Idle
  <1>2. Typed /\ RecordedFirst /\ [Next]_vars => RecordedFirst'
    <2> SUFFICES ASSUME Typed, RecordedFirst, [Next]_vars PROVE RecordedFirst'
      OBVIOUS
    <2>1. ASSUME NEW k \in Keys, reservation'[k].status = "COMMITTED"
          PROVE  usage'[k] # NoValue
      <3>1. usage[k] # NoValue
        BY <2>1, CommitsStep DEF CommittedBy, RecordedFirst, CountedWasRecorded
      <3>2. QED
        BY <3>1, RecordsStep
    <2>2. ASSUME NEW r \in Requests, At(r, "commit")'
          PROVE  usage'[KeyAt(r)'] # NoValue
      <3>1. CASE At(r, "commit") /\ KeyAt(r)' = KeyAt(r)
        <4>1. KeyAt(r) \in Keys /\ usage[KeyAt(r)] # NoValue
          BY <3>1 DEF Typed, Keyed, At, KeyAt, RecordedFirst
        <4>2. QED
          BY <3>1, <4>1, RecordsStep
      <3>2. QED
        BY <2>2, <3>1, RecordsStep
    <2>3. QED
      BY <2>1, <2>2 DEF RecordedFirst, CountedWasRecorded
  <1>3. RecordedFirst => CountedWasRecorded
    BY DEF RecordedFirst
  <1>4. QED
    BY <1>1, <1>2, <1>3, BooksKept, PTL DEF Spec

(***************************************************************************)
(* What a step does to a counter and its marks: nothing, it opens the      *)
(* counter at zero, or it counts one unit and marks what that reaches.     *)
(***************************************************************************)
Counts(p) ==
  \/ counter'[p] = counter[p] /\ marks'[p] = marks[p]
  \/ counter[p] = NoValue /\ counter'[p] = 0 /\ marks'[p] = marks[p]
  \/ /\ counter[p] # NoValue /\ counter'[p] = counter[p] + 1
     /\ marks'[p] = marks[p] \union Reached(counter[p] + 1)

LEMMA CountsStep ==
  ASSUME Typed, Books, [Next]_vars
  PROVE  \A p \in Periods : Counts(p)
  <1>0. /\ counter \in [Periods -> Nat \union {NoValue}]
        /\ marks \in [Periods -> SUBSET QUOTA_THRESHOLDS]
    BY DEF Books, LedgerType
  <1>1. ASSUME UNCHANGED <<counter, marks>> PROVE \A p \in Periods : Counts(p)
    BY <1>1 DEF Counts
  <1>2. ASSUME NEW r \in Requests, ReserveEvent(r) PROVE \A p \in Periods : Counts(p)
    <2>1. PICK outcome \in Outcomes, late \in SUBSET Late(request[r].period) :
            Reserve(request[r].key, request[r].period, 0, late, outcome)
      BY <1>2 DEF ReserveEvent
    <2>2. /\ counter' = [counter EXCEPT ![request[r].period] =
                           IF counter[request[r].period] = NoValue THEN 0
                           ELSE counter[request[r].period]]
          /\ UNCHANGED marks
      BY <2>1 DEF Reserve
    <2>3. QED
      BY <1>0, <2>2 DEF Counts
  <1>3. ASSUME NEW r \in Requests, CommitEvent(r) PROVE \A p \in Periods : Counts(p)
    <2> DEFINE k == request[r].key
    <2>1. k \in Keys /\ Commit(k)
      BY <1>3 DEF Typed, Keyed, CommitEvent, At
    <2>2. CASE ~Reserved(k)
      BY <1>1, <2>1, <2>2 DEF Commit, ledger
    <2>3. CASE Reserved(k)
      <3>1. /\ counter' = [counter EXCEPT ![reservation[k].period] = @ + 1]
            /\ marks' = [marks EXCEPT ![reservation[k].period] =
                           @ \union Reached(counter[reservation[k].period] + 1)]
        BY <2>1, <2>3 DEF Commit
      <3>2. counter[reservation[k].period] # NoValue
        BY <2>1, <2>3 DEF Books, Opened, Reserved
      <3>3. QED
        BY <1>0, <3>1, <3>2 DEF Counts
    <2>4. QED
      BY <2>2, <2>3
  <1>4. \/ UNCHANGED <<counter, marks>>
        \/ \E r \in Requests : ReserveEvent(r) \/ CommitEvent(r)
    BY DEF Next, vars, Consume, Finalize, Begin, RecordEvent, ReleaseEvent, Release, ExpireStale,
           ExpireOverdue, ReadClosed, WriteSnapshot, Fail, ReservationTimesOut, TimeOut, NextPeriod
  <1>5. QED
    BY <1>1, <1>2, <1>3, <1>4

(***************************************************************************)
(* The marks of the thresholds.                                            *)
(***************************************************************************)
Marked ==
  \A p \in Periods : marks[p] = IF counter[p] = NoValue THEN {} ELSE Reached(counter[p])

LEMMA ReachedGrows ==
  /\ Reached(0) = {}
  /\ \A n \in Nat : Reached(n) \subseteq Reached(n + 1)
  <1>1. HardLimit \in Nat /\ \A t \in QUOTA_THRESHOLDS : t \in Nat /\ t > 0
    BY LedgerAssumption DEF QUOTA_THRESHOLDS
  <1>2. ASSUME HardLimit > 0, NEW t \in QUOTA_THRESHOLDS PROVE HardLimit * t > 0
    BY <1>1, <1>2 DEF QUOTA_THRESHOLDS
  <1>3. Reached(0) = {}
    BY <1>1, <1>2 DEF Reached, QUOTA_THRESHOLDS
  <1>4. ASSUME NEW n \in Nat, NEW t \in QUOTA_THRESHOLDS, n * 100 >= HardLimit * t
        PROVE  (n + 1) * 100 >= HardLimit * t
    BY <1>1, <1>4 DEF QUOTA_THRESHOLDS
  <1>5. ASSUME NEW n \in Nat PROVE Reached(n) \subseteq Reached(n + 1)
    BY <1>4 DEF Reached
  <1>6. QED
    BY <1>3, <1>5

LEMMA MarkedStep == Typed /\ Books /\ Marked /\ [Next]_vars => Marked'
  <1> SUFFICES ASSUME Typed, Books, Marked, [Next]_vars, NEW p \in Periods
               PROVE  marks'[p] = IF counter'[p] = NoValue THEN {} ELSE Reached(counter'[p])
    BY DEF Marked
  <1>1. counter[p] \in Nat \union {NoValue} /\ NoValue \notin Nat
    BY LedgerAssumption DEF Books, LedgerType
  <1>2. marks[p] = IF counter[p] = NoValue THEN {} ELSE Reached(counter[p])
    BY DEF Marked
  <1>3. CASE counter'[p] = counter[p] /\ marks'[p] = marks[p]
    BY <1>2, <1>3
  <1>4. CASE counter[p] = NoValue /\ counter'[p] = 0 /\ marks'[p] = marks[p]
    BY <1>1, <1>2, <1>4, ReachedGrows
  <1>5. CASE /\ counter[p] # NoValue /\ counter'[p] = counter[p] + 1
             /\ marks'[p] = marks[p] \union Reached(counter[p] + 1)
    <2>1. counter[p] \in Nat /\ counter'[p] \in Nat /\ counter'[p] # NoValue
      BY <1>1, <1>5
    <2>2. marks[p] \subseteq Reached(counter[p] + 1)
      BY <1>2, <1>5, <2>1, ReachedGrows
    <2>3. QED
      BY <1>5, <2>1, <2>2
  <1>6. QED
    BY <1>3, <1>4, <1>5, CountsStep DEF Counts

\* The marks of a period are what its counter has reached, at once and for good.
THEOREM MarksAgree == Spec => []ThresholdsMarked
  <1>1. Init => Marked
    BY DEF Init, LedgerInit, Marked
  <1>2. Marked => ThresholdsMarked
    BY DEF Marked, ThresholdsMarked, Reached
  <1>3. QED
    BY <1>1, <1>2, MarkedStep, BooksKept, PTL DEF Spec

(***************************************************************************)
(* Snapshots: what a pass has read and what is written down was used.      *)
(***************************************************************************)
AtMost(value, p) == value # NoValue => counter[p] # NoValue /\ value <= counter[p]

Reported ==
  /\ \A p \in Periods : AtMost(snapshot[p], p)
  /\ \A s \in Schedulers, p \in Periods : AtMost(job[s].found[p], p)

LEMMA AtMostKept ==
  ASSUME Typed, Books, [Next]_vars, NEW value \in Values, NEW p \in Periods, AtMost(value, p)
  PROVE  value # NoValue => counter'[p] # NoValue /\ value <= counter'[p]
  <1>1. counter[p] \in Nat \union {NoValue} /\ NoValue \notin Nat
    BY LedgerAssumption DEF Books, LedgerType
  <1>2. QED
    BY <1>1, CountsStep DEF Counts, AtMost, Values

LEMMA ReportedStep == Typed /\ Books /\ Reported /\ [Next]_vars => Reported'
  <1> SUFFICES ASSUME Typed, Books, Reported, [Next]_vars PROVE Reported'
    OBVIOUS
  <1> DEFINE Now(value, p) == value # NoValue => counter'[p] # NoValue /\ value <= counter'[p]
  <1>0. /\ job \in [Schedulers -> Job] /\ snapshot \in [Periods -> Values]
        /\ \A s \in Schedulers, p \in Periods : job[s].found[p] \in Values
    BY DEF Typed, TypeOK, Job
  <1>1. /\ \A p \in Periods : Now(snapshot[p], p)
        /\ \A s \in Schedulers, p \in Periods : Now(job[s].found[p], p)
    BY <1>0, AtMostKept DEF Reported
  <1>2. ASSUME NEW s \in Schedulers, ReadClosed(s) PROVE Reported'
    <2> DEFINE found == [p \in Periods |-> IF p \in Closed THEN counter[p] ELSE NoValue]
               j == [pc |-> "write", found |-> found]
    <2>1. job' = [job EXCEPT ![s] = j] /\ UNCHANGED <<counter, snapshot>>
      BY <1>2 DEF ReadClosed
    <2>2. ASSUME NEW p \in Periods PROVE Now(j.found[p], p)
      <3>1. p \in Closed => counter[p] \in Nat /\ counter[p] # NoValue
        BY DEF Closed, Books, LedgerType
      <3>2. QED
        BY <2>1, <3>1
    <2>3. \A t \in Schedulers : job'[t] = IF t = s THEN j ELSE job[t]
      BY <1>0, <2>1
    <2> HIDE DEF j
    <2>4. QED
      BY <1>1, <2>1, <2>2, <2>3 DEF Reported, AtMost
  <1>3. ASSUME NEW s \in Schedulers, WriteSnapshot(s) PROVE Reported'
    <2>1. ASSUME NEW p \in Periods PROVE snapshot'[p] \in {snapshot[p], job[s].found[p]}
      BY <1>0, <1>3, <2>1 DEF WriteSnapshot
    <2>2. ASSUME NEW t \in Schedulers, NEW p \in Periods
          PROVE  job'[t].found[p] \in {job[t].found[p], NoValue}
      <3>1. job[s] \in Job
        BY <1>0
      <3>2. CASE \E q \in Periods : job' = [job EXCEPT ![s].found[q] = NoValue]
        <4>1. PICK q \in Periods : job' = [job EXCEPT ![s].found[q] = NoValue]
          BY <3>2
        <4>2. \A x \in Periods :
                [job[s] EXCEPT !.found[q] = NoValue].found[x] \in {job[s].found[x], NoValue}
          BY <3>1 DEF Job
        <4>3. job'[t] = IF t = s THEN [job[s] EXCEPT !.found[q] = NoValue] ELSE job[t]
          BY <1>0, <4>1
        <4>4. QED
          BY <4>2, <4>3
      <3>3. CASE job' = [job EXCEPT ![s].pc = "idle"]
        BY <1>0, <3>1, <3>3 DEF Job
      <3>4. QED
        BY <1>3, <3>2, <3>3 DEF WriteSnapshot
    <2>3. QED
      BY <1>1, <2>1, <2>2 DEF Reported, AtMost
  <1>4. ASSUME UNCHANGED snapshot,
               UNCHANGED job \/ \E s \in Schedulers :
                 \/ job' = [job EXCEPT ![s].pc = "read"]
                 \/ job' = [job EXCEPT ![s] = [pc |-> "idle", found |-> NoValues]]
        PROVE  Reported'
    <2>1. ASSUME NEW t \in Schedulers, NEW p \in Periods
          PROVE  job'[t].found[p] \in {job[t].found[p], NoValue}
      BY <1>0, <1>4 DEF Job, NoValues
    <2>2. QED
      BY <1>1, <1>4, <2>1 DEF Reported, AtMost
  <1>5. \/ \E s \in Schedulers : ReadClosed(s) \/ WriteSnapshot(s)
        \/ /\ UNCHANGED snapshot
           /\ \/ UNCHANGED job
              \/ \E s \in Schedulers :
                 \/ job' = [job EXCEPT ![s].pc = "read"]
                 \/ job' = [job EXCEPT ![s] = [pc |-> "idle", found |-> NoValues]]
    BY DEF Next, vars, Consume, Finalize, Begin, ReserveEvent, RecordEvent, CommitEvent,
           ReleaseEvent, ExpireStale, Fail, ReservationTimesOut, NextPeriod
  <1>6. QED
    BY <1>2, <1>3, <1>4, <1>5

\* No snapshot of a closed period reports more than was used.
THEOREM SnapshotsReport == Spec => []SnapshotNotAbove
  <1>1. Init => Reported
    BY DEF Init, NoValues, Reported, AtMost
  <1>2. Reported => SnapshotNotAbove
    BY DEF Reported, AtMost, SnapshotNotAbove
  <1>3. QED
    BY <1>1, <1>2, ReportedStep, BooksKept, PTL DEF Spec

\* All of it together, for any number of requests, keys, periods and replicas, any
\* limit, and any failures and delays.
THEOREM MeteringSafe == Spec => []MeteringInv
  BY Typing, LimitRespected, KeysCountedOnce, RecordedBeforeCounted, MarksAgree,
     SnapshotsReport, PTL DEF MeteringInv

=============================================================================
