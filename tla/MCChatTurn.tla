----------------------------- MODULE MCChatTurn -----------------------------
(* A small instance of ChatTurn.                                              *)
EXTENDS ChatTurn, TLC

Symmetry == Permutations(Threads)
=============================================================================
