------------------------- MODULE MCIdempotentIngest -------------------------
(***************************************************************************)
(* Model-checking instances of IdempotentIngest.                           *)
(***************************************************************************)
EXTENDS IdempotentIngest, TLC

\* Requests are interchangeable, and so are servers.
RequestSymmetry == Permutations(Requests) \cup Permutations(Servers)
====
