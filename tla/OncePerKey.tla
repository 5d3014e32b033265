----------------------------- MODULE OncePerKey -----------------------------
(***************************************************************************)
(* What a creation under a key promises: under each key at most one record *)
(* is ever made, and nobody is told of one before it is there.             *)
(***************************************************************************)
EXTENDS Naturals

CONSTANT Keys

VARIABLES made,  \* records made under each key
          told   \* keys under which a caller was told of success

OnceInit == made = [k \in Keys |-> 0] /\ told = {}

Make(k) == made[k] = 0 /\ made' = [made EXCEPT ![k] = 1] /\ UNCHANGED told
Tell(k) == made[k] = 1 /\ told' = told \cup {k} /\ UNCHANGED made

OnceSpec == OnceInit /\ [][\E k \in Keys : Make(k) \/ Tell(k)]_<<made, told>>
=============================================================================
