------------------------------- MODULE SpecLog -------------------------------
(***************************************************************************)
(* What the owner of a business is promised: its definition is a log to     *)
(* which one entry at a time is added.  A proposal is an offer made against *)
(* one entry, and it can be taken only while that entry is the last one.    *)
(* Every operation is a single step here: there are no threads, no reads    *)
(* that grow old and no transactions.                                       *)
(***************************************************************************)
EXTENDS Naturals, Sequences

CONSTANTS ProposalIds, Specs, Ops, Outcomes, NoOps, NoRow

VARIABLES log,      \* the definitions of the business, oldest first
          offers    \* what was proposed, and what became of it

vars == <<log, offers>>

Init == /\ \E s \in Specs : log = <<s>>
        /\ offers = [p \in ProposalIds |-> NoRow]

\* The assistant read an entry of the log and proposes operations that apply to
\* it, or has none to propose.
Propose(p) ==
    /\ offers[p] = NoRow
    /\ \E b \in DOMAIN log : \E o \in {x \in Ops : Outcomes[x][log[b]] # {}} \cup {NoOps} :
          offers' = [offers EXCEPT ![p] =
             [base |-> b, ops |-> o, status |-> IF o = NoOps THEN "no_changes" ELSE "pending"]]
    /\ UNCHANGED log

IsPending(p) == offers[p] # NoRow /\ offers[p].status = "pending"

Decide(p, status) == IsPending(p) /\ offers' = [offers EXCEPT ![p].status = status]

Take(p) == /\ Decide(p, "approved")
           /\ offers[p].base = Len(log)
           /\ \E s \in Outcomes[offers[p].ops][log[Len(log)]] : log' = Append(log, s)

Decline(p) == Decide(p, "rejected") /\ UNCHANGED log

Expire(p) == /\ Decide(p, "stale")
             /\ offers[p].base < Len(log)
             /\ UNCHANGED log

GoBackTo(v) == /\ v < Len(log)
               /\ log' = Append(log, log[v])
               /\ UNCHANGED offers

Next == \/ \E p \in ProposalIds : Propose(p) \/ Take(p) \/ Decline(p) \/ Expire(p)
        \/ \E v \in DOMAIN log : GoBackTo(v)

Spec == Init /\ [][Next]_vars
=============================================================================
