--------------------- MODULE MCNotificationPublication ---------------------
(* Instances of NotificationPublication for TLC: users, rules and symmetry. *)
EXTENDS NotificationPublication, TLC

CONSTANTS u1, u2

For(users, mandatory, digest) ==
    [to |-> users, mandatory |-> mandatory, critical |-> mandatory, digest |-> digest]

NoRules == <<>>

\* A digest for one user, then a mandatory and critical rule for both.
DigestThenMandatory == <<For({u1}, FALSE, TRUE), For({u1, u2}, TRUE, FALSE)>>

Symmetry == Permutations(Occurrences) \union Permutations(Publishers)
=============================================================================
