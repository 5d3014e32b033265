----------------------- MODULE MCNotificationDelivery -----------------------
(***************************************************************************)
(* Instances of NotificationDelivery for TLC: which channels the rows of a *)
(* run use, and how one replica's run is split in two.                     *)
(***************************************************************************)
EXTENDS NotificationDelivery, TLC

\* An email and a push that cannot be rendered, and a row of every channel.
StuckAndEveryChannel ==
  [d \in Deliveries |->
      <<"EMAIL", "DESKTOP_PUSH", "EMAIL", "SMS", "DESKTOP_PUSH", "IN_APP">>[d]]

EveryChannel ==
  [d \in Deliveries |-> <<"EMAIL", "SMS", "DESKTOP_PUSH", "IN_APP">>[d]]

\* The rows that were queued at the start. One row meets every mishap and the
\* administrator; two meet one of them between them; with stuck rows there are as many
\* as make a batch too small, and nothing goes wrong meanwhile.
Queued == {d \in Deliveries : delivery[d] # DigestItem}

Mishaps ==
  IF Stuck # {} THEN 0
  ELSE IF Cardinality(Queued) = 1 THEN MaxFaults + MaxLostAnswers + MaxManualRetries
  ELSE 1

SingleInit == Init /\ Cardinality(Queued \ Stuck) <= 2

SingleSpec == SingleInit /\ [][Next]_vars /\ Fairness

\* A dispatch has another step wherever a lost answer is cut off, and no other fair
\* action is a mishap: what must happen still can.
WithinMishaps == faults' + lostAnswers' + manualRetries' <= Mishaps

\* Replicas are interchangeable.
Symmetry == Permutations(Processes)

=============================================================================
