---------------------------- MODULE MCSpecEngine ----------------------------
(* A small instance of SpecEngine.  Labels a and A are one label to the       *)
(* validator, and one of the option lists names an option twice.              *)
EXTENDS SpecEngine, TLC

CONSTANTS a, A, b, c, good, repeats

MCLabels == {a, A, b, c}
MCNorm == [x \in MCLabels |-> IF x = A THEN a ELSE x]

MCOptionLists == {Empty, good, repeats}
MCWellFormed == {good}

Symmetry == Permutations(EntityKeys) \cup Permutations(FieldKeys) \cup Permutations(LinkKeys)
            \cup Permutations({b, c})
=============================================================================
