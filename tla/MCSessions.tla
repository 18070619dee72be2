------------------------------ MODULE MCSessions ------------------------------
(* A small instance of Sessions. *)
EXTENDS Sessions, TLC

Symmetry == Permutations(Threads) \cup Permutations(Emails) \cup Permutations(Tokens)
=============================================================================
