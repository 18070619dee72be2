----------------------------- MODULE MCProposals -----------------------------
(* A small instance of Proposals: three definitions, two operation lists, one *)
(* of which gives two outcomes (the keys it creates are drawn at random).     *)
EXTENDS Proposals, TLC

CONSTANTS s1, s2, s3, o1, o2

MCOutcomes == (o1 :> (s1 :> {s2, s3} @@ s2 :> {s1} @@ s3 :> {}))
           @@ (o2 :> (s1 :> {} @@ s2 :> {s3} @@ s3 :> {s1}))

MCSpecs == {s1, s2, s3}
MCOps == {o1, o2}

Symmetry == Permutations(Threads) \cup Permutations(ProposalIds)
=============================================================================
