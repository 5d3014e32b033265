--------------------------- MODULE MCWorkCalendar ---------------------------
EXTENDS WorkCalendar, TLC

Symmetry == Permutations(Bookings) \cup Permutations(Clerks)
=============================================================================
