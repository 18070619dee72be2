--------------------------- MODULE MCProposalBatch ---------------------------
(* A small instance of ProposalBatch: a definition with an active and an      *)
(* archived entity type, and room for two more of everything.  The ref f1     *)
(* looks like a key.                                                          *)
EXTENDS ProposalBatch, TLC

CONSTANTS e1, e2, e3, e4, f1, f2, l1, l2, a, b, c, x

MCNorm == [label \in Labels |-> label]

Row(label, archived) == [label |-> label, archived |-> archived]

Fields == (f1 :> [entity |-> e1, label |-> a, type |-> "text", options |-> None,
                  required |-> FALSE, archived |-> FALSE]) @@
          (f2 :> Absent)

Waiting == [from |-> e1, to |-> e2, archived |-> TRUE, archived_by |-> e2]

MCBases == { [entities |-> (e1 :> Row(a, FALSE)) @@ (e2 :> Row(b, TRUE))
                           @@ (e3 :> Absent) @@ (e4 :> Absent),
              fields |-> Fields,
              links |-> (l1 :> Waiting) @@ (l2 :> Absent)] }
=============================================================================
