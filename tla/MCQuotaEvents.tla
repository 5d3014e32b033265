--------------------------- MODULE MCQuotaEvents ---------------------------
(* Instances of QuotaEvents for TLC. *)
EXTENDS QuotaEvents, TLC

\* Requests, keys and replicas are interchangeable.
Symmetry == Permutations(Requests) \union Permutations(Keys) \union Permutations(Schedulers)
=============================================================================
