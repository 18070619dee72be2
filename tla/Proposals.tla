------------------------------ MODULE Proposals ------------------------------
(***************************************************************************)
(* How the CRM definition of one business changes: the chat, approve,       *)
(* reject and revert handlers of agentic/chat.py over the tables            *)
(* businesses, spec_versions and proposals (agentic/store.py).              *)
(*                                                                          *)
(* FastAPI runs these handlers on a thread pool, so any number of them run  *)
(* at once, in one process or several.  db.get_conn opens a connection in   *)
(* the default mode of Python's sqlite3: a SELECT that comes before the     *)
(* first write sees whatever is committed when it runs, so each such SELECT *)
(* is a step of its own here.  The first write opens a transaction and      *)
(* holds SQLite's only write lock until the commit (or the rollback) that   *)
(* ends the `with` block; nobody sees it before the commit and nobody else  *)
(* writes, so the writes of a handler are one step: all of them or none.    *)
(***************************************************************************)
EXTENDS Naturals

CONSTANTS
    Threads,        \* handlers that can run at the same time
    ProposalIds,    \* rows the proposals table can hold
    Specs,          \* CRM definitions, told apart and nothing more
    Ops,            \* non-empty lists of operations
    Outcomes,       \* Outcomes[o][s]: what applying o to s can give; {} if refused
    MaxVersion,     \* bound on the versions of the business
    NoSpec, NoOps, NoProposal, NoRow

Versions == 1..MaxVersion

ASSUME ConstantsAssumption ==
    /\ MaxVersion \in Nat \ {0}
    /\ Outcomes \in [Ops -> [Specs -> SUBSET Specs]]
    /\ NoSpec \notin Specs
    /\ NoOps \notin Ops
    /\ NoProposal \notin ProposalIds

VARIABLES
    current_version,    \* businesses.current_version
    spec_versions,      \* table spec_versions, by version
    proposals,          \* table proposals, by id
    loc                 \* the local variables of each handler

vars == <<current_version, spec_versions, proposals, loc>>

-----------------------------------------------------------------------------

VersionRow == [ spec        : Specs,
                source      : {"template", "agent", "revert"},
                proposal_id : ProposalIds \cup {NoProposal},
                to_version  : 0..MaxVersion ]     \* of a revert, else 0

ProposalRow == [ base_version : Versions,
                 ops          : Ops \cup {NoOps},
                 status       : {"pending", "no_changes", "approved", "rejected", "stale"},
                 decided_at   : BOOLEAN ]         \* is the column not NULL

\* What SpecLog keeps of a row of the proposals table.
Offer(row) == [base |-> row.base_version, ops |-> row.ops, status |-> row.status]

ASSUME NoRowAssumption == /\ NoRow \notin VersionRow
                          /\ NoRow \notin ProposalRow
                          /\ \A row \in ProposalRow : NoRow # Offer(row)

Local == [ pc         : {"idle", "business", "spec", "target", "act"},
           handler    : {"none", "chat", "approve", "revert"},
           id         : ProposalIds \cup {NoProposal},
           proposal   : ProposalRow \cup {NoRow},   \* as it was read
           seen       : 0..MaxVersion,              \* current_version as it was read
           spec       : Specs \cup {NoSpec},
           to_version : 0..MaxVersion ]

TypeOK == /\ current_version \in Versions
          /\ spec_versions \in [Versions -> VersionRow \cup {NoRow}]
          /\ proposals \in [ProposalIds -> ProposalRow \cup {NoRow}]
          /\ loc \in [Threads -> Local]

Idle == [ pc |-> "idle", handler |-> "none", id |-> NoProposal, proposal |-> NoRow,
          seen |-> 0, spec |-> NoSpec, to_version |-> 0 ]

\* The business exists, with its first version written in the same transaction.
Init == /\ current_version = 1
        /\ \E s \in Specs :
              spec_versions = [v \in Versions |->
                 IF v = 1 THEN [ spec |-> s, source |-> "template",
                                 proposal_id |-> NoProposal, to_version |-> 0 ]
                          ELSE NoRow]
        /\ proposals = [p \in ProposalIds |-> NoRow]
        /\ loc = [t \in Threads |-> Idle]

-----------------------------------------------------------------------------
(* The parts of the handlers.                                               *)

At(t, handler, pc) == loc[t].handler = handler /\ loc[t].pc = pc

Return(t) == loc' = [loc EXCEPT ![t] = Idle]

\* Fault: no compare-and-set and INSERT OR REPLACE.
CanAppend_Unchecked(expected) == expected < MaxVersion

\* append_version: UPDATE ... WHERE current_version = expected, then an INSERT
\* under UNIQUE(business_id, version).  MaxVersion is the bound of the model.
CanAppend(expected) == /\ current_version = expected
                       /\ expected < MaxVersion
                       /\ spec_versions[expected + 1] = NoRow

AppendVersion(expected, row) ==
    /\ current_version' = expected + 1
    /\ spec_versions' = [spec_versions EXCEPT ![expected + 1] = row]

\* set_proposal_status: UPDATE ... WHERE id = p AND status = from
HasStatus(p, from) == proposals[p] # NoRow /\ proposals[p].status = from

SetProposalStatus(p, to) ==
    proposals' = [proposals EXCEPT ![p].status = to, ![p].decided_at = TRUE]

Start(t, handler, id, row, to_version) ==
    /\ loc[t] = Idle
    /\ loc' = [loc EXCEPT ![t] =
          [ Idle EXCEPT !.pc = "business", !.handler = handler, !.id = id,
                        !.proposal = row, !.to_version = to_version ]]
    /\ UNCHANGED <<current_version, spec_versions, proposals>>

\* get_business_with_spec, first SELECT: the business row
ReadBusiness(t) ==
    /\ loc[t].pc = "business"
    /\ loc' = [loc EXCEPT ![t].seen = current_version, ![t].pc = "spec"]
    /\ UNCHANGED <<current_version, spec_versions, proposals>>

\* Fault: the second SELECT takes the latest version, not the one of the row.
ReadSpec_Latest(t) ==
    /\ loc[t].pc = "spec"
    /\ loc' = [loc EXCEPT ![t].spec = spec_versions[current_version].spec,
                          ![t].pc = IF loc[t].handler = "revert" THEN "target" ELSE "act"]
    /\ UNCHANGED <<current_version, spec_versions, proposals>>

\* get_business_with_spec, second SELECT: the specification of that version
ReadSpec(t) ==
    /\ loc[t].pc = "spec"
    /\ spec_versions[loc[t].seen] # NoRow
    /\ loc' = [loc EXCEPT ![t].spec = spec_versions[loc[t].seen].spec,
                          ![t].pc = IF loc[t].handler = "revert" THEN "target" ELSE "act"]
    /\ UNCHANGED <<current_version, spec_versions, proposals>>

-----------------------------------------------------------------------------
(* chat: the definition is read, the model answers (however long it takes), *)
(* and what it proposed is stored against the version that was read.        *)

StartChat(t) == Start(t, "chat", NoProposal, NoRow, 0)

\* What apply_each keeps of the answer: operations that apply, or nothing.
Kept(spec) == {o \in Ops : Outcomes[o][spec] # {}} \cup {NoOps}

StoreProposal(t, p, base) ==
    /\ At(t, "chat", "act")
    /\ proposals[p] = NoRow
    /\ \E o \in Kept(loc[t].spec) :
          proposals' = [proposals EXCEPT ![p] =
             [ base_version |-> base, ops |-> o,
               status |-> IF o = NoOps THEN "no_changes" ELSE "pending",
               decided_at |-> (o = NoOps) ]]
    /\ Return(t)
    /\ UNCHANGED <<current_version, spec_versions>>

\* Fault: the base is the version at the time of saving.
SaveProposal_LateBase(t, p) == StoreProposal(t, p, current_version)

SaveProposal(t, p) == StoreProposal(t, p, loc[t].seen)

-----------------------------------------------------------------------------
(* approve                                                                  *)

StartApprove(t, p) == HasStatus(p, "pending") /\ Start(t, "approve", p, proposals[p], 0)

IsStale(t) == loc[t].seen # loc[t].proposal.base_version

\* The result of the status update is not looked at: a proposal that was
\* decided in the meantime keeps its decision.
MarkStale(t) ==
    /\ At(t, "approve", "act")
    /\ IsStale(t)
    /\ IF HasStatus(loc[t].id, "pending") THEN SetProposalStatus(loc[t].id, "stale")
                                          ELSE UNCHANGED proposals
    /\ Return(t)
    /\ UNCHANGED <<current_version, spec_versions>>

Replayed(t) == Outcomes[loc[t].proposal.ops][loc[t].spec]

CanApprove(t) == /\ ~IsStale(t)
                 /\ Replayed(t) # {}
                 /\ HasStatus(loc[t].id, "pending")
                 /\ CanAppend(loc[t].proposal.base_version)

\* Fault: the version is committed before the status is.
ApproveCommit_VersionFirst(t) ==
    /\ At(t, "approve", "act")
    /\ CanApprove(t)
    /\ \E s \in Replayed(t) :
          AppendVersion(loc[t].proposal.base_version,
             [ spec |-> s, source |-> "agent", proposal_id |-> loc[t].id, to_version |-> 0 ])
    /\ Return(t)
    /\ UNCHANGED proposals

ApproveCommit(t) ==
    /\ At(t, "approve", "act")
    /\ CanApprove(t)
    /\ SetProposalStatus(loc[t].id, "approved")
    /\ \E s \in Replayed(t) :
          AppendVersion(loc[t].proposal.base_version,
             [ spec |-> s, source |-> "agent", proposal_id |-> loc[t].id, to_version |-> 0 ])
    /\ Return(t)

\* Fault: the status is committed although the version was refused.
ApproveRollback_StatusKept(t) ==
    /\ At(t, "approve", "act")
    /\ ~IsStale(t) /\ ~CanApprove(t)
    /\ IF HasStatus(loc[t].id, "pending") THEN SetProposalStatus(loc[t].id, "approved")
                                          ELSE UNCHANGED proposals
    /\ Return(t)
    /\ UNCHANGED <<current_version, spec_versions>>

\* Refused operations, a proposal decided meanwhile, or StaleVersion: the
\* exception leaves the `with` block and rolls back the status update too.
ApproveRollback(t) ==
    /\ At(t, "approve", "act")
    /\ ~IsStale(t) /\ ~CanApprove(t)
    /\ Return(t)
    /\ UNCHANGED <<current_version, spec_versions, proposals>>

-----------------------------------------------------------------------------
(* reject: a single compare-and-set                                         *)

Reject(t, p) == /\ loc[t] = Idle
                /\ HasStatus(p, "pending")
                /\ SetProposalStatus(p, "rejected")
                /\ UNCHANGED <<current_version, spec_versions, loc>>

\* approve or reject of a proposal that is not pending: 409, nothing written
AlreadyDecided(t, p) == /\ loc[t] = Idle
                        /\ proposals[p] # NoRow /\ ~HasStatus(p, "pending")
                        /\ UNCHANGED vars

-----------------------------------------------------------------------------
(* revert                                                                   *)

StartRevert(t, v) == Start(t, "revert", NoProposal, NoRow, v)

\* Fault: the target is taken from the definition that was read last.
ReadTarget_Current(t) ==
    /\ At(t, "revert", "target")
    /\ loc' = [loc EXCEPT ![t].pc = "act"]
    /\ UNCHANGED <<current_version, spec_versions, proposals>>

\* get_version, and the refusal of a missing or of the current version
ReadTarget(t) ==
    /\ At(t, "revert", "target")
    /\ LET v == loc[t].to_version
       IN  IF spec_versions[v] = NoRow \/ v = loc[t].seen
           THEN Return(t)
           ELSE loc' = [loc EXCEPT ![t].spec = spec_versions[v].spec, ![t].pc = "act"]
    /\ UNCHANGED <<current_version, spec_versions, proposals>>

RevertCommit(t) ==
    /\ At(t, "revert", "act")
    /\ CanAppend(loc[t].seen)
    /\ AppendVersion(loc[t].seen,
          [ spec |-> loc[t].spec, source |-> "revert", proposal_id |-> NoProposal,
            to_version |-> loc[t].to_version ])
    /\ Return(t)
    /\ UNCHANGED proposals

RevertRollback(t) ==
    /\ At(t, "revert", "act")
    /\ ~CanAppend(loc[t].seen)
    /\ Return(t)
    /\ UNCHANGED <<current_version, spec_versions, proposals>>

-----------------------------------------------------------------------------

\* The process dies, the database stays locked for longer than the busy
\* timeout, or the model fails or answers nonsense: nothing is written.
Fail(t) == /\ loc[t] # Idle
           /\ Return(t)
           /\ UNCHANGED <<current_version, spec_versions, proposals>>

Next == \E t \in Threads :
           \/ StartChat(t)
           \/ \E v \in Versions : StartRevert(t, v)
           \/ \E p \in ProposalIds : \/ StartApprove(t, p)
                                     \/ SaveProposal(t, p)
                                     \/ Reject(t, p)
                                     \/ AlreadyDecided(t, p)
           \/ ReadBusiness(t)
           \/ ReadSpec(t)
           \/ MarkStale(t)
           \/ ApproveCommit(t)
           \/ ApproveRollback(t)
           \/ ReadTarget(t)
           \/ RevertCommit(t)
           \/ RevertRollback(t)
           \/ Fail(t)

Spec == Init /\ [][Next]_vars

-----------------------------------------------------------------------------

\* The stored versions are exactly 1 to current_version, whichever handlers
\* raced: no gap, no row beyond the current one.
HistoryContiguous == \A v \in Versions : spec_versions[v] # NoRow <=> v <= current_version

\* "History is only ever appended to": a stored version never changes, and the
\* current version only moves forward, a revert included.
HistoryAppendOnly ==
    [][/\ \A v \in Versions : spec_versions[v] # NoRow => spec_versions'[v] = spec_versions[v]
       /\ current_version' \in {current_version, current_version + 1}]_vars

\* Every version written by the agent is the effect, on the version before it,
\* of the operations the owner approved.
AgentVersionsWereApproved ==
    \A v \in Versions : (spec_versions[v] # NoRow /\ spec_versions[v].source = "agent") =>
       LET p == spec_versions[v].proposal_id
       IN  /\ p \in ProposalIds /\ HasStatus(p, "approved")
           /\ proposals[p].base_version + 1 = v
           /\ spec_versions[v].spec \in Outcomes[proposals[p].ops][spec_versions[v - 1].spec]

\* An approval is never lost: an approved proposal is the next version after
\* the one it was made against.
ApprovalsAreApplied ==
    \A p \in ProposalIds : HasStatus(p, "approved") =>
       LET v == proposals[p].base_version + 1
       IN  v \in Versions /\ spec_versions[v] # NoRow /\ spec_versions[v].proposal_id = p

\* A revert copies an earlier version that was not current when it landed.
RevertsAreExact ==
    \A v \in Versions : (spec_versions[v] # NoRow /\ spec_versions[v].source = "revert") =>
       LET w == spec_versions[v].to_version
       IN  w \in Versions /\ w + 1 < v /\ spec_versions[v].spec = spec_versions[w].spec

\* A proposal is decided once: from then on its row never changes.
DecidedOnce == [][\A p \in ProposalIds :
                     (proposals[p] # NoRow /\ proposals[p].decided_at) =>
                        proposals'[p] = proposals[p]]_vars

\* "The CRM changed since this proposal was made": never said when it did not.
StaleIsTruthful == \A p \in ProposalIds :
                      HasStatus(p, "stale") => proposals[p].base_version < current_version

\* When approve finds the business still at the base version, the operations
\* that were accepted when the proposal was made are accepted again.
ReplayIsAccepted == \A t \in Threads :
                       At(t, "approve", "act") /\ ~IsStale(t) => Replayed(t) # {}

\* What the tables stand for in SpecLog.
Log == INSTANCE SpecLog WITH
          log    <- [v \in 1..current_version |-> spec_versions[v].spec],
          offers <- [p \in ProposalIds |->
                        IF proposals[p] = NoRow THEN NoRow ELSE Offer(proposals[p])]

\* Threads, early reads and rollbacks are invisible: the handlers implement the
\* one-step-at-a-time log of SpecLog.
ImplementsLog == Log!Spec
=============================================================================
