--------------------------- MODULE ProposalsProofs ---------------------------
(***************************************************************************)
(* Proofs about Proposals, for every number of threads, proposals,          *)
(* definitions and versions.  The history and the proposals table are tied  *)
(* together by an invariant that also says what each handler may believe    *)
(* after its reads (ReadsAreTrue): what it read was committed at the time,  *)
(* and the parts it relies on can never change.                             *)
(***************************************************************************)
EXTENDS Proposals, Sequences, TLAPS

\* An offer refers to a version that exists and applies to it.
OffersApply ==
    \A p \in ProposalIds : proposals[p] # NoRow =>
       /\ proposals[p].base_version <= current_version
       /\ proposals[p].status # "no_changes" =>
             /\ proposals[p].ops \in Ops
             /\ Outcomes[proposals[p].ops][spec_versions[proposals[p].base_version].spec] # {}

\* What handler t read and still relies on.
ReadsAreTrue(t) ==
    /\ loc[t].pc \in {"spec", "target", "act"} =>
          loc[t].seen \in Versions /\ loc[t].seen <= current_version
    /\ loc[t].handler = "approve" =>
          /\ loc[t].id \in ProposalIds
          /\ proposals[loc[t].id] # NoRow
          /\ loc[t].proposal \in ProposalRow
          /\ loc[t].proposal.ops \in Ops
          /\ loc[t].proposal.base_version = proposals[loc[t].id].base_version
          /\ loc[t].proposal.ops = proposals[loc[t].id].ops
          /\ proposals[loc[t].id].status # "no_changes"
          /\ loc[t].pc # "business" => loc[t].proposal.base_version <= loc[t].seen
    /\ loc[t].pc = "act" /\ loc[t].handler \in {"chat", "approve"} =>
          loc[t].spec = spec_versions[loc[t].seen].spec
    /\ loc[t].handler = "revert" => loc[t].to_version \in Versions
    /\ At(t, "revert", "act") =>
          /\ spec_versions[loc[t].to_version] # NoRow
          /\ loc[t].spec = spec_versions[loc[t].to_version].spec
          /\ loc[t].to_version # loc[t].seen
    /\ loc[t].pc # "idle" => loc[t].handler # "none"
    /\ loc[t].pc = "target" => loc[t].handler = "revert"

\* decided_at is NULL exactly while the proposal is pending.
PendingIsUndecided == \A p \in ProposalIds : proposals[p] # NoRow =>
                         (proposals[p].decided_at <=> ~HasStatus(p, "pending"))

\* What the two tables say of each other.
TablesAgree == /\ HistoryContiguous
               /\ OffersApply
               /\ PendingIsUndecided
               /\ StaleIsTruthful
               /\ AgentVersionsWereApproved
               /\ ApprovalsAreApplied
               /\ RevertsAreExact

IInv == /\ TypeOK
        /\ TablesAgree
        /\ \A t \in Threads : ReadsAreTrue(t)
-----------------------------------------------------------------------------

LEMMA IdleIsLocal == Idle \in Local
  BY ConstantsAssumption DEF Idle, Local

LEMMA TypeInit == Init => TypeOK
  BY ConstantsAssumption, IdleIsLocal DEF Init, TypeOK, Versions, VersionRow, ProposalRow

LEMMA ReturnType == ASSUME TypeOK, NEW t \in Threads, Return(t)
                    PROVE  loc' \in [Threads -> Local]
  BY IdleIsLocal DEF Return, TypeOK

LEMMA DecideType == ASSUME TypeOK, NEW p \in ProposalIds, HasStatus(p, "pending"),
                           NEW to \in {"approved", "rejected", "stale"},
                           SetProposalStatus(p, to)
                    PROVE  proposals' \in [ProposalIds -> ProposalRow \cup {NoRow}]
  BY DEF HasStatus, SetProposalStatus, TypeOK, ProposalRow

\* The row a handler has read, and the rows its reads rest on, exist.
LEMMA SeenRowExists == ASSUME IInv, NEW t \in Threads, loc[t].pc \in {"spec", "target", "act"}
                       PROVE  /\ loc[t].seen \in Versions
                              /\ spec_versions[loc[t].seen] \in VersionRow
                              /\ spec_versions[loc[t].seen].spec \in Specs
<1>1. loc[t].seen \in Versions /\ loc[t].seen <= current_version
  BY DEF IInv, ReadsAreTrue
<1>2. spec_versions[loc[t].seen] # NoRow
  BY <1>1 DEF IInv, TablesAgree, HistoryContiguous
<1>3. spec_versions[loc[t].seen] \in VersionRow
  BY <1>1, <1>2 DEF IInv, TypeOK
<1> QED
  BY <1>1, <1>3 DEF VersionRow

\* What applying the operations of a proposal can give is a definition.
LEMMA ReplayedType == ASSUME IInv, NEW t \in Threads, At(t, "approve", "act")
                      PROVE  Replayed(t) \subseteq Specs
<1>1. loc[t].spec \in Specs
  BY SeenRowExists DEF IInv, ReadsAreTrue, At
<1>2. loc[t].proposal.ops \in Ops
  BY DEF IInv, ReadsAreTrue, At
<1> QED
  BY <1>1, <1>2, ConstantsAssumption DEF Replayed

LEMMA TypeStep == IInv /\ [Next]_vars => TypeOK'
<1> SUFFICES ASSUME IInv, [Next]_vars PROVE TypeOK'
    OBVIOUS
<1>t. TypeOK
  BY DEF IInv
<1>1. CASE UNCHANGED vars
  BY <1>1, <1>t DEF vars, TypeOK
<1>2. ASSUME NEW t \in Threads, NEW h \in {"chat", "approve", "revert"},
             NEW id \in ProposalIds \cup {NoProposal},
             NEW row \in ProposalRow \cup {NoRow}, NEW v \in 0..MaxVersion,
             Start(t, h, id, row, v)
      PROVE  TypeOK'
  BY <1>2, <1>t, ConstantsAssumption, IdleIsLocal DEF Start, TypeOK, Idle, Local
<1>3. ASSUME NEW t \in Threads, StartChat(t) PROVE TypeOK'
  BY <1>2, <1>3, ConstantsAssumption DEF StartChat
<1>4. ASSUME NEW t \in Threads, NEW v \in Versions, StartRevert(t, v) PROVE TypeOK'
  BY <1>2, <1>4, ConstantsAssumption DEF StartRevert, Versions
<1>5. ASSUME NEW t \in Threads, NEW p \in ProposalIds, StartApprove(t, p) PROVE TypeOK'
  <2>1. proposals[p] \in ProposalRow \cup {NoRow}
    BY <1>t DEF TypeOK
  <2> QED
    BY <1>2, <1>5, <2>1, ConstantsAssumption DEF StartApprove
<1>6. ASSUME NEW t \in Threads, NEW p \in ProposalIds, SaveProposal(t, p) PROVE TypeOK'
  <2>1. loc[t].seen \in Versions
    BY <1>6, SeenRowExists DEF SaveProposal, StoreProposal, At
  <2>2. loc' \in [Threads -> Local]
    BY <1>6, <1>t, ReturnType DEF SaveProposal, StoreProposal
  <2>3. PICK o \in Kept(loc[t].spec) :
           proposals' = [proposals EXCEPT ![p] =
             [ base_version |-> loc[t].seen, ops |-> o,
               status |-> IF o = NoOps THEN "no_changes" ELSE "pending",
               decided_at |-> (o = NoOps) ]]
    BY <1>6 DEF SaveProposal, StoreProposal
  <2>4. o \in Ops \cup {NoOps}
    BY DEF Kept
  <2>5. proposals' \in [ProposalIds -> ProposalRow \cup {NoRow}]
    BY <2>1, <2>3, <2>4, <1>t DEF TypeOK, ProposalRow
  <2> QED
    BY <1>6, <1>t, <2>2, <2>5 DEF SaveProposal, StoreProposal, TypeOK
<1>7. ASSUME NEW t \in Threads, NEW p \in ProposalIds, Reject(t, p) PROVE TypeOK'
  BY <1>7, <1>t, DecideType DEF Reject, TypeOK
<1>8. ASSUME NEW t \in Threads, ReadBusiness(t) PROVE TypeOK'
  BY <1>8, <1>t DEF ReadBusiness, TypeOK, Local, Versions
<1>9. ASSUME NEW t \in Threads, ReadSpec(t) PROVE TypeOK'
  <2>1. spec_versions[loc[t].seen].spec \in Specs
    BY <1>9, SeenRowExists DEF ReadSpec
  <2> QED
    BY <1>9, <1>t, <2>1 DEF ReadSpec, TypeOK, Local
<1>10. ASSUME NEW t \in Threads, MarkStale(t) PROVE TypeOK'
  <2>1. loc[t].id \in ProposalIds
    BY <1>10 DEF MarkStale, At, IInv, ReadsAreTrue
  <2>2. loc' \in [Threads -> Local]
    BY <1>10, <1>t, ReturnType DEF MarkStale
  <2>3. proposals' \in [ProposalIds -> ProposalRow \cup {NoRow}]
    BY <1>10, <1>t, <2>1, DecideType DEF MarkStale, TypeOK
  <2> QED
    BY <1>10, <1>t, <2>2, <2>3 DEF MarkStale, TypeOK
<1>11. ASSUME NEW v \in Versions, NEW row \in VersionRow,
              CanAppend(v), AppendVersion(v, row)
       PROVE  /\ current_version' \in Versions
              /\ spec_versions' \in [Versions -> VersionRow \cup {NoRow}]
  BY <1>11, <1>t, ConstantsAssumption DEF CanAppend, AppendVersion, TypeOK, Versions
<1>12. ASSUME NEW t \in Threads, ApproveCommit(t) PROVE TypeOK'
  <2>1. /\ loc[t].id \in ProposalIds
        /\ loc[t].proposal.base_version \in Versions
    BY <1>12 DEF ApproveCommit, At, IInv, ReadsAreTrue, ProposalRow
  <2>2. loc' \in [Threads -> Local]
    BY <1>12, <1>t, ReturnType DEF ApproveCommit
  <2>3. proposals' \in [ProposalIds -> ProposalRow \cup {NoRow}]
    BY <1>12, <1>t, <2>1, DecideType DEF ApproveCommit, CanApprove
  <2>4. PICK s \in Replayed(t) :
           AppendVersion(loc[t].proposal.base_version,
             [ spec |-> s, source |-> "agent", proposal_id |-> loc[t].id, to_version |-> 0 ])
    BY <1>12 DEF ApproveCommit
  <2>5. [ spec |-> s, source |-> "agent", proposal_id |-> loc[t].id, to_version |-> 0 ]
           \in VersionRow
    BY <1>12, <2>1, ReplayedType, ConstantsAssumption DEF ApproveCommit, VersionRow
  <2> QED
    BY <1>11, <1>12, <2>1, <2>2, <2>3, <2>4, <2>5 DEF ApproveCommit, CanApprove, TypeOK
<1>13. ASSUME NEW t \in Threads, ReadTarget(t) PROVE TypeOK'
  <2> DEFINE v == loc[t].to_version
  <2>1. v \in Versions
    BY <1>13 DEF ReadTarget, At, IInv, ReadsAreTrue
  <2>2. spec_versions[v] # NoRow => spec_versions[v].spec \in Specs
    BY <2>1, <1>t DEF TypeOK, VersionRow
  <2>3. loc' \in [Threads -> Local]
    BY <1>13, <1>t, <2>2, ReturnType DEF ReadTarget, TypeOK, Local
  <2> QED
    BY <1>13, <1>t, <2>3 DEF ReadTarget, TypeOK
<1>14. ASSUME NEW t \in Threads, RevertCommit(t) PROVE TypeOK'
  <2>1. loc[t].seen \in Versions
    BY <1>14, SeenRowExists DEF RevertCommit, At
  <2>2. loc' \in [Threads -> Local]
    BY <1>14, <1>t, ReturnType DEF RevertCommit
  <2>3. loc[t].to_version \in Versions /\ loc[t].spec \in Specs
    BY <1>14, <1>t DEF RevertCommit, At, IInv, ReadsAreTrue, TypeOK, VersionRow
  <2>4. [ spec |-> loc[t].spec, source |-> "revert", proposal_id |-> NoProposal,
          to_version |-> loc[t].to_version ] \in VersionRow
    BY <2>3, ConstantsAssumption DEF VersionRow, Versions
  <2> QED
    BY <1>11, <1>14, <1>t, <2>1, <2>2, <2>4 DEF RevertCommit, TypeOK
<1>15. ASSUME NEW t \in Threads, ApproveRollback(t) \/ RevertRollback(t) \/ Fail(t)
       PROVE  TypeOK'
  BY <1>15, <1>t, ReturnType DEF ApproveRollback, RevertRollback, Fail, TypeOK
<1>16. ASSUME NEW t \in Threads, NEW p \in ProposalIds, AlreadyDecided(t, p) PROVE TypeOK'
  BY <1>16, <1>1 DEF AlreadyDecided
<1> QED
  BY <1>1, <1>3, <1>4, <1>5, <1>6, <1>7, <1>8, <1>9, <1>10, <1>12, <1>13, <1>14, <1>15, <1>16
     DEF Next
-----------------------------------------------------------------------------
(* Whatever the handlers do, a step changes the tables in one of four ways.  *)
(* The reads of the handler are gone from these: each says, of the tables    *)
(* alone, what is added and under which condition.                           *)

NewOffer(p, b, o) ==
    /\ proposals[p] = NoRow
    /\ b \in Versions /\ b <= current_version
    /\ o \in Kept(spec_versions[b].spec)
    /\ proposals' = [proposals EXCEPT ![p] =
          [ base_version |-> b, ops |-> o,
            status |-> IF o = NoOps THEN "no_changes" ELSE "pending",
            decided_at |-> (o = NoOps) ]]
    /\ UNCHANGED <<current_version, spec_versions>>

OfferClosed(p, to) ==
    /\ HasStatus(p, "pending")
    /\ to = "stale" => proposals[p].base_version < current_version
    /\ SetProposalStatus(p, to)
    /\ UNCHANGED <<current_version, spec_versions>>

OfferTaken(p, s) ==
    /\ HasStatus(p, "pending")
    /\ proposals[p].base_version = current_version
    /\ proposals[p].ops \in Ops
    /\ s \in Outcomes[proposals[p].ops][spec_versions[current_version].spec]
    /\ CanAppend(current_version)
    /\ AppendVersion(current_version,
          [ spec |-> s, source |-> "agent", proposal_id |-> p, to_version |-> 0 ])
    /\ SetProposalStatus(p, "approved")

WentBack(w) ==
    /\ w # current_version
    /\ spec_versions[w] # NoRow
    /\ CanAppend(current_version)
    /\ AppendVersion(current_version,
          [ spec |-> spec_versions[w].spec, source |-> "revert",
            proposal_id |-> NoProposal, to_version |-> w ])
    /\ UNCHANGED proposals

Effect == \/ UNCHANGED <<current_version, spec_versions, proposals>>
          \/ \E p \in ProposalIds :
                \/ \E b \in Versions, o \in Ops \cup {NoOps} : NewOffer(p, b, o)
                \/ \E to \in {"rejected", "stale"} : OfferClosed(p, to)
                \/ \E s \in Specs : OfferTaken(p, s)
          \/ \E w \in Versions : WentBack(w)

\* What a handler read early is, when it writes, still what the tables say.
LEMMA StepEffect == IInv /\ [Next]_vars => Effect
<1> SUFFICES ASSUME IInv, [Next]_vars PROVE Effect
    OBVIOUS
<1>1. CASE UNCHANGED vars
  BY <1>1 DEF vars, Effect
<1>2. ASSUME NEW t \in Threads, NEW p \in ProposalIds, SaveProposal(t, p) PROVE Effect
  <2> DEFINE b == loc[t].seen
  <2>1. b \in Versions /\ b <= current_version /\ loc[t].spec = spec_versions[b].spec
    BY <1>2 DEF SaveProposal, StoreProposal, At, IInv, ReadsAreTrue
  <2>2. PICK o \in Kept(loc[t].spec) :
           proposals' = [proposals EXCEPT ![p] =
             [ base_version |-> b, ops |-> o,
               status |-> IF o = NoOps THEN "no_changes" ELSE "pending",
               decided_at |-> (o = NoOps) ]]
    BY <1>2 DEF SaveProposal, StoreProposal
  <2>3. o \in Ops \cup {NoOps}
    BY DEF Kept
  <2>4. NewOffer(p, b, o)
    BY <1>2, <2>1, <2>2 DEF NewOffer, SaveProposal, StoreProposal
  <2> QED
    BY <2>1, <2>3, <2>4 DEF Effect
<1>3. ASSUME NEW t \in Threads, NEW p \in ProposalIds, Reject(t, p) PROVE Effect
  <2>1. OfferClosed(p, "rejected")
    BY <1>3 DEF Reject, OfferClosed
  <2> QED
    BY <2>1 DEF Effect
<1>4. ASSUME NEW t \in Threads, MarkStale(t) PROVE Effect
  <2> DEFINE p == loc[t].id
  <2>1. /\ p \in ProposalIds
        /\ proposals[p] # NoRow
        /\ loc[t].proposal.base_version = proposals[p].base_version
        /\ loc[t].seen \in Versions /\ loc[t].seen <= current_version
        /\ loc[t].proposal.base_version <= loc[t].seen
    BY <1>4 DEF MarkStale, At, IInv, ReadsAreTrue
  <2>2. /\ proposals[p].base_version \in Versions
        /\ proposals[p].base_version <= current_version
        /\ current_version \in Versions
    BY <2>1 DEF IInv, TablesAgree, TypeOK, ProposalRow, OffersApply
  <2>3. CASE HasStatus(p, "pending")
    <3>1. proposals[p].base_version < current_version
      BY <1>4, <2>1, <2>2, ConstantsAssumption DEF MarkStale, IsStale, Versions
    <3>2. OfferClosed(p, "stale")
      BY <1>4, <2>3, <3>1 DEF OfferClosed, MarkStale
    <3> QED
      BY <2>1, <3>2 DEF Effect
  <2>4. CASE ~HasStatus(p, "pending")
    BY <1>4, <2>4 DEF MarkStale, Effect
  <2> QED
    BY <2>3, <2>4
<1>5. ASSUME NEW t \in Threads, ApproveCommit(t) PROVE Effect
  <2> DEFINE p == loc[t].id
  <2>1. /\ p \in ProposalIds
        /\ loc[t].proposal.base_version = proposals[p].base_version
        /\ loc[t].proposal.ops = proposals[p].ops
        /\ loc[t].proposal.ops \in Ops
        /\ loc[t].spec = spec_versions[loc[t].seen].spec
    BY <1>5 DEF ApproveCommit, At, IInv, ReadsAreTrue
  <2>2. /\ HasStatus(p, "pending")
        /\ loc[t].seen = proposals[p].base_version
        /\ proposals[p].base_version = current_version
        /\ CanAppend(current_version)
    BY <1>5, <2>1 DEF ApproveCommit, CanApprove, CanAppend, IsStale
  <2>3. PICK s \in Replayed(t) :
           AppendVersion(loc[t].proposal.base_version,
             [ spec |-> s, source |-> "agent", proposal_id |-> p, to_version |-> 0 ])
    BY <1>5 DEF ApproveCommit
  <2>4. s \in Specs
    BY <1>5, ReplayedType DEF ApproveCommit
  <2>5. OfferTaken(p, s)
    BY <1>5, <2>1, <2>2, <2>3 DEF OfferTaken, ApproveCommit, Replayed
  <2> QED
    BY <2>1, <2>4, <2>5 DEF Effect
<1>6. ASSUME NEW t \in Threads, RevertCommit(t) PROVE Effect
  <2> DEFINE w == loc[t].to_version
  <2>1. /\ w \in Versions
        /\ spec_versions[w] # NoRow
        /\ loc[t].spec = spec_versions[w].spec
        /\ w # loc[t].seen
    BY <1>6 DEF RevertCommit, At, IInv, ReadsAreTrue
  <2>2. loc[t].seen = current_version
    BY <1>6 DEF RevertCommit, CanAppend
  <2>3. WentBack(w)
    BY <1>6, <2>1, <2>2 DEF WentBack, RevertCommit
  <2> QED
    BY <2>1, <2>3 DEF Effect
<1>7. ASSUME NEW t \in Threads,
             \/ StartChat(t)
             \/ \E v \in Versions : StartRevert(t, v)
             \/ \E p \in ProposalIds : StartApprove(t, p) \/ AlreadyDecided(t, p)
             \/ ReadBusiness(t) \/ ReadSpec(t) \/ ReadTarget(t)
             \/ ApproveRollback(t) \/ RevertRollback(t) \/ Fail(t)
      PROVE  Effect
  BY <1>7 DEF Effect, StartChat, StartRevert, StartApprove, Start, AlreadyDecided, vars,
              ReadBusiness, ReadSpec, ReadTarget, ApproveRollback, RevertRollback, Fail
<1> QED
  BY <1>1, <1>2, <1>3, <1>4, <1>5, <1>6, <1>7 DEF Next
-----------------------------------------------------------------------------
(* Each kind of change keeps the tables in agreement.                        *)

LEMMA UnchangedAgrees ==
    ASSUME IInv, UNCHANGED <<current_version, spec_versions, proposals>>
    PROVE  TablesAgree'
  BY DEF IInv, TablesAgree, HistoryContiguous, OffersApply, PendingIsUndecided, StaleIsTruthful,
         AgentVersionsWereApproved, ApprovalsAreApplied, RevertsAreExact, HasStatus

LEMMA NewOfferAgrees ==
    ASSUME IInv, NEW p \in ProposalIds, NEW b \in Versions, NEW o \in Ops \cup {NoOps},
           NewOffer(p, b, o)
    PROVE  TablesAgree'
<1> DEFINE row == [ base_version |-> b, ops |-> o,
                    status |-> IF o = NoOps THEN "no_changes" ELSE "pending",
                    decided_at |-> (o = NoOps) ]
<1>1. /\ proposals' = [proposals EXCEPT ![p] = row]
      /\ proposals[p] = NoRow
      /\ UNCHANGED <<current_version, spec_versions>>
      /\ o \in Kept(spec_versions[b].spec)
      /\ b <= current_version
  BY DEF NewOffer
<1>2. row \in ProposalRow /\ row # NoRow
  <2>1. /\ (o = NoOps) \in BOOLEAN
        /\ (IF o = NoOps THEN "no_changes" ELSE "pending") \in
              {"pending", "no_changes", "approved", "rejected", "stale"}
    OBVIOUS
  <2>2. row \in ProposalRow
    BY <2>1 DEF ProposalRow
  <2> QED
    BY <2>2, NoRowAssumption
<1>3. /\ proposals'[p] = row
      /\ \A q \in ProposalIds : q # p => proposals'[q] = proposals[q]
  BY <1>1 DEF IInv, TypeOK
<1> HIDE DEF row
<1>4. /\ row.base_version = b /\ row.ops = o
      /\ row.status = IF o = NoOps THEN "no_changes" ELSE "pending"
      /\ row.decided_at = (o = NoOps)
  BY DEF row
<1>5. HistoryContiguous'
  BY <1>1 DEF IInv, TablesAgree, HistoryContiguous
<1>6. OffersApply'
  <2>1. o # NoOps => o \in Ops /\ Outcomes[o][spec_versions[b].spec] # {}
    BY <1>1 DEF Kept
  <2>2. SUFFICES ASSUME NEW q \in ProposalIds, proposals'[q] # NoRow
                 PROVE  /\ proposals'[q].base_version <= current_version
                        /\ proposals'[q].status # "no_changes" =>
                              /\ proposals'[q].ops \in Ops
                              /\ Outcomes[proposals'[q].ops]
                                    [spec_versions[proposals'[q].base_version].spec] # {}
    BY <1>1 DEF OffersApply
  <2>3. CASE q = p
    BY <1>1, <1>3, <1>4, <2>1, <2>3
  <2>4. CASE q # p
    BY <1>3, <2>2, <2>4 DEF IInv, TablesAgree, OffersApply
  <2> QED
    BY <2>3, <2>4
<1>7. PendingIsUndecided'
  BY <1>2, <1>3, <1>4 DEF IInv, TablesAgree, PendingIsUndecided, HasStatus
<1>8. StaleIsTruthful'
  BY <1>1, <1>3, <1>4 DEF IInv, TablesAgree, StaleIsTruthful, HasStatus
<1>9. AgentVersionsWereApproved'
  BY <1>1, <1>3, <1>4 DEF IInv, TypeOK, VersionRow, TablesAgree, AgentVersionsWereApproved, HasStatus
<1>10. ApprovalsAreApplied'
  BY <1>1, <1>3, <1>4 DEF IInv, TablesAgree, ApprovalsAreApplied, HasStatus
<1>11. RevertsAreExact'
  BY <1>1 DEF IInv, TablesAgree, RevertsAreExact
<1> QED
  BY <1>5, <1>6, <1>7, <1>8, <1>9, <1>10, <1>11 DEF TablesAgree

\* What a decision does to the proposals table.
LEMMA DecisionEffect ==
    ASSUME IInv, NEW p \in ProposalIds, NEW to \in {"approved", "rejected", "stale"},
           HasStatus(p, "pending"), SetProposalStatus(p, to)
    PROVE  /\ proposals[p] \in ProposalRow
           /\ proposals'[p] \in ProposalRow
           /\ proposals'[p] # NoRow
           /\ proposals'[p].status = to
           /\ proposals'[p].decided_at = TRUE
           /\ proposals'[p].base_version = proposals[p].base_version
           /\ proposals'[p].ops = proposals[p].ops
           /\ \A q \in ProposalIds : q # p => proposals'[q] = proposals[q]
<1>1. proposals[p] \in ProposalRow
  BY DEF IInv, TypeOK, HasStatus
<1>2. proposals'[p] = [proposals[p] EXCEPT !.status = to, !.decided_at = TRUE]
  BY DEF IInv, TypeOK, SetProposalStatus
<1>3. \A q \in ProposalIds : q # p => proposals'[q] = proposals[q]
  BY DEF IInv, TypeOK, SetProposalStatus
<1> QED
  BY <1>1, <1>2, <1>3, NoRowAssumption DEF ProposalRow

LEMMA OfferClosedAgrees ==
    ASSUME IInv, NEW p \in ProposalIds, NEW to \in {"rejected", "stale"}, OfferClosed(p, to)
    PROVE  TablesAgree'
<1>1. /\ HasStatus(p, "pending") /\ SetProposalStatus(p, to)
      /\ UNCHANGED <<current_version, spec_versions>>
      /\ to = "stale" => proposals[p].base_version < current_version
  BY DEF OfferClosed
<1>2. /\ proposals[p] # NoRow /\ proposals[p].status = "pending"
      /\ proposals'[p] # NoRow
      /\ proposals'[p].status = to /\ proposals'[p].decided_at = TRUE
      /\ proposals'[p].base_version = proposals[p].base_version
      /\ proposals'[p].ops = proposals[p].ops
      /\ \A q \in ProposalIds : q # p => proposals'[q] = proposals[q]
  BY <1>1, DecisionEffect DEF HasStatus
<1>3. HistoryContiguous'
  BY <1>1 DEF IInv, TablesAgree, HistoryContiguous
<1>4. OffersApply'
  BY <1>1, <1>2 DEF IInv, TablesAgree, OffersApply
<1>5. PendingIsUndecided'
  BY <1>2 DEF IInv, TablesAgree, PendingIsUndecided, HasStatus
<1>6. StaleIsTruthful'
  BY <1>1, <1>2 DEF IInv, TablesAgree, StaleIsTruthful, HasStatus
<1>7. AgentVersionsWereApproved'
  BY <1>1, <1>2 DEF IInv, TypeOK, VersionRow, TablesAgree, AgentVersionsWereApproved, HasStatus
<1>8. ApprovalsAreApplied'
  BY <1>1, <1>2 DEF IInv, TablesAgree, ApprovalsAreApplied, HasStatus
<1>9. RevertsAreExact'
  BY <1>1 DEF IInv, TablesAgree, RevertsAreExact
<1> QED
  BY <1>3, <1>4, <1>5, <1>6, <1>7, <1>8, <1>9 DEF TablesAgree

\* What appending a version does to the history.
LEMMA AppendEffect ==
    ASSUME IInv, NEW row \in VersionRow,
           CanAppend(current_version), AppendVersion(current_version, row)
    PROVE  /\ current_version \in Versions /\ current_version + 1 \in Versions
           /\ current_version' = current_version + 1
           /\ spec_versions[current_version + 1] = NoRow
           /\ spec_versions'[current_version + 1] = row
           /\ row # NoRow
           /\ \A v \in Versions : v # current_version + 1 => spec_versions'[v] = spec_versions[v]
  BY ConstantsAssumption, NoRowAssumption
     DEF IInv, TypeOK, CanAppend, AppendVersion, Versions

LEMMA AppendKeepsHistoryContiguous ==
    ASSUME IInv, NEW row \in VersionRow,
           CanAppend(current_version), AppendVersion(current_version, row)
    PROVE  HistoryContiguous'
<1>1. SUFFICES ASSUME NEW v \in Versions
               PROVE  spec_versions'[v] # NoRow <=> v <= current_version'
  BY DEF HistoryContiguous
<1>2. spec_versions[v] # NoRow <=> v <= current_version
  BY DEF IInv, TablesAgree, HistoryContiguous
<1> QED
  BY <1>2, AppendEffect, ConstantsAssumption DEF Versions
\* The rows that versions and offers refer to are below the appended one.
LEMMA AppendKeepsOldRows ==
    ASSUME IInv, NEW row \in VersionRow,
           CanAppend(current_version), AppendVersion(current_version, row)
    PROVE  \A v \in Versions : v <= current_version => spec_versions'[v] = spec_versions[v]
  BY AppendEffect, ConstantsAssumption DEF Versions

LEMMA OfferTakenAgrees ==
    ASSUME IInv, NEW p \in ProposalIds, NEW s \in Specs, OfferTaken(p, s)
    PROVE  TablesAgree'
<1> DEFINE c == current_version
           row == [ spec |-> s, source |-> "agent", proposal_id |-> p, to_version |-> 0 ]
<1>1. row \in VersionRow /\ row.spec = s /\ row.source = "agent" /\ row.proposal_id = p
  BY ConstantsAssumption DEF VersionRow
<1>2. /\ CanAppend(c) /\ AppendVersion(c, row)
      /\ HasStatus(p, "pending") /\ SetProposalStatus(p, "approved")
      /\ proposals[p].base_version = c
      /\ s \in Outcomes[proposals[p].ops][spec_versions[c].spec]
  BY DEF OfferTaken
<1> HIDE DEF row
<1>3. /\ c \in Versions /\ c + 1 \in Versions /\ c \in Nat
      /\ current_version' = c + 1
      /\ spec_versions[c + 1] = NoRow
      /\ spec_versions'[c + 1] = row /\ row # NoRow
      /\ \A v \in Versions : v # c + 1 => spec_versions'[v] = spec_versions[v]
      /\ \A v \in Versions : v <= c => spec_versions'[v] = spec_versions[v]
  BY <1>1, <1>2, AppendEffect, AppendKeepsOldRows, ConstantsAssumption DEF Versions
<1>4. /\ proposals[p] # NoRow /\ proposals[p].status = "pending"
      /\ proposals'[p] # NoRow
      /\ proposals'[p].status = "approved" /\ proposals'[p].decided_at = TRUE
      /\ proposals'[p].base_version = c
      /\ proposals'[p].ops = proposals[p].ops
      /\ \A q \in ProposalIds : q # p => proposals'[q] = proposals[q]
  BY <1>2, DecisionEffect DEF HasStatus
<1>5. \A q \in ProposalIds : proposals[q] # NoRow =>
         proposals[q].base_version \in Versions /\ proposals[q].base_version <= c
  BY DEF IInv, TypeOK, ProposalRow, TablesAgree, OffersApply
<1>6. HistoryContiguous'
  BY <1>1, <1>2, AppendKeepsHistoryContiguous
<1>7. OffersApply'
  <2>1. SUFFICES ASSUME NEW q \in ProposalIds, proposals'[q] # NoRow
                 PROVE  /\ proposals'[q].base_version <= c + 1
                        /\ proposals'[q].status # "no_changes" =>
                              /\ proposals'[q].ops \in Ops
                              /\ Outcomes[proposals'[q].ops]
                                    [spec_versions'[proposals'[q].base_version].spec] # {}
    BY <1>3 DEF OffersApply
  <2>2. /\ proposals[q] # NoRow
        /\ proposals'[q].base_version = proposals[q].base_version
        /\ proposals'[q].ops = proposals[q].ops
        /\ proposals'[q].status = "no_changes" <=> proposals[q].status = "no_changes"
    BY <1>2, <1>4, <2>1
  <2>3. spec_versions'[proposals[q].base_version] = spec_versions[proposals[q].base_version]
    BY <1>3, <1>5, <2>2
  <2>4. proposals[q].base_version <= c + 1
    BY <1>3, <1>5, <2>2, ConstantsAssumption DEF Versions
  <2> QED
    BY <2>2, <2>3, <2>4 DEF IInv, TablesAgree, OffersApply
<1>8. PendingIsUndecided'
  BY <1>4 DEF IInv, TablesAgree, PendingIsUndecided, HasStatus
<1>9. StaleIsTruthful'
  <2>1. SUFFICES ASSUME NEW q \in ProposalIds, HasStatus(q, "stale")'
                 PROVE  proposals'[q].base_version < c + 1
    BY <1>3 DEF StaleIsTruthful
  <2>2. q # p /\ proposals'[q] = proposals[q] /\ proposals[q] # NoRow
    BY <1>4, <2>1 DEF HasStatus
  <2> QED
    BY <1>3, <1>5, <2>2, ConstantsAssumption DEF Versions
<1>10. AgentVersionsWereApproved'
  <2>1. SUFFICES ASSUME NEW v \in Versions,
                        spec_versions'[v] # NoRow, spec_versions'[v].source = "agent",
                        NEW q, q = spec_versions'[v].proposal_id
                 PROVE  /\ q \in ProposalIds /\ HasStatus(q, "approved")'
                        /\ proposals'[q].base_version + 1 = v
                        /\ spec_versions'[v].spec \in
                              Outcomes[proposals'[q].ops][spec_versions'[v - 1].spec]
    BY DEF AgentVersionsWereApproved
  <2>2. CASE v = c + 1
    <3>1. q = p /\ spec_versions'[v].spec = s
      BY <1>1, <1>3, <2>1, <2>2
    <3>2. v - 1 = c /\ spec_versions'[c] = spec_versions[c]
      BY <1>3, <2>2, ConstantsAssumption DEF Versions
    <3> QED
      BY <1>2, <1>3, <1>4, <2>2, <3>1, <3>2 DEF HasStatus
  <2>3. CASE v # c + 1
    <3>1. /\ spec_versions'[v] = spec_versions[v]
          /\ v <= c
      BY <1>3, <2>1, <2>3 DEF IInv, TablesAgree, HistoryContiguous
    <3>2. /\ q \in ProposalIds /\ HasStatus(q, "approved")
          /\ proposals[q].base_version + 1 = v
          /\ spec_versions[v].spec \in Outcomes[proposals[q].ops][spec_versions[v - 1].spec]
      BY <2>1, <3>1 DEF IInv, TablesAgree, AgentVersionsWereApproved
    <3>3. q # p /\ proposals'[q] = proposals[q]
      BY <1>4, <3>2 DEF HasStatus
    <3>4. v - 1 \in Versions /\ v - 1 <= c
      BY <1>3, <1>5, <3>1, <3>2, ConstantsAssumption DEF Versions, HasStatus
    <3>5. spec_versions'[v - 1] = spec_versions[v - 1]
      BY <1>3, <3>4
    <3> QED
      BY <3>1, <3>2, <3>3, <3>5 DEF HasStatus
  <2> QED
    BY <2>2, <2>3
<1>11. ApprovalsAreApplied'
  <2>1. SUFFICES ASSUME NEW q \in ProposalIds, HasStatus(q, "approved")',
                        NEW v, v = proposals'[q].base_version + 1
                 PROVE  /\ v \in Versions /\ spec_versions'[v] # NoRow
                        /\ spec_versions'[v].proposal_id = q
    BY DEF ApprovalsAreApplied
  <2>2. CASE q = p
    BY <1>1, <1>3, <1>4, <2>1, <2>2
  <2>3. CASE q # p
    <3>1. /\ v \in Versions /\ spec_versions[v] # NoRow /\ spec_versions[v].proposal_id = q
      BY <1>4, <2>1, <2>3 DEF IInv, TablesAgree, ApprovalsAreApplied, HasStatus
    <3> QED
      BY <1>3, <3>1
  <2> QED
    BY <2>2, <2>3
<1>12. RevertsAreExact'
  <2>1. SUFFICES ASSUME NEW v \in Versions,
                        spec_versions'[v] # NoRow, spec_versions'[v].source = "revert",
                        NEW w, w = spec_versions'[v].to_version
                 PROVE  w \in Versions /\ w + 1 < v /\ spec_versions'[v].spec = spec_versions'[w].spec
    BY DEF RevertsAreExact
  <2>2. v # c + 1 /\ spec_versions'[v] = spec_versions[v] /\ v <= c
    BY <1>1, <1>3, <2>1 DEF IInv, TablesAgree, HistoryContiguous
  <2>3. w \in Versions /\ w + 1 < v /\ spec_versions[v].spec = spec_versions[w].spec
    BY <2>1, <2>2 DEF IInv, TablesAgree, RevertsAreExact
  <2>4. spec_versions'[w] = spec_versions[w]
    BY <1>3, <2>2, <2>3, ConstantsAssumption DEF Versions
  <2> QED
    BY <2>2, <2>3, <2>4
<1> QED
  BY <1>6, <1>7, <1>8, <1>9, <1>10, <1>11, <1>12 DEF TablesAgree

LEMMA WentBackAgrees ==
    ASSUME IInv, NEW w \in Versions, WentBack(w)
    PROVE  TablesAgree'
<1> DEFINE c == current_version
           row == [ spec |-> spec_versions[w].spec, source |-> "revert",
                    proposal_id |-> NoProposal, to_version |-> w ]
<1>1. /\ row \in VersionRow /\ row.spec = spec_versions[w].spec
      /\ row.source = "revert" /\ row.to_version = w
  BY ConstantsAssumption DEF WentBack, IInv, TypeOK, VersionRow, Versions
<1>2. /\ CanAppend(c) /\ AppendVersion(c, row)
      /\ UNCHANGED proposals
      /\ w # c /\ w <= c
  BY DEF WentBack, IInv, TablesAgree, HistoryContiguous
<1> HIDE DEF row
<1>3. /\ c \in Versions /\ c + 1 \in Versions /\ c \in Nat
      /\ current_version' = c + 1
      /\ spec_versions'[c + 1] = row /\ row # NoRow
      /\ \A v \in Versions : v # c + 1 => spec_versions'[v] = spec_versions[v]
      /\ \A v \in Versions : v <= c => spec_versions'[v] = spec_versions[v]
      /\ spec_versions[c + 1] = NoRow
  BY <1>1, <1>2, AppendEffect, AppendKeepsOldRows, ConstantsAssumption DEF Versions
<1>4. \A q \in ProposalIds : proposals[q] # NoRow =>
         /\ proposals[q].base_version \in Versions
         /\ proposals[q].base_version <= c
         /\ spec_versions'[proposals[q].base_version] = spec_versions[proposals[q].base_version]
  BY <1>3 DEF IInv, TypeOK, ProposalRow, TablesAgree, OffersApply
<1>5. HistoryContiguous'
  BY <1>1, <1>2, AppendKeepsHistoryContiguous
<1>6. OffersApply'
  <2>1. SUFFICES ASSUME NEW q \in ProposalIds, proposals[q] # NoRow
                 PROVE  /\ proposals[q].base_version <= c + 1
                        /\ proposals[q].status # "no_changes" =>
                              /\ proposals[q].ops \in Ops
                              /\ Outcomes[proposals[q].ops]
                                    [spec_versions'[proposals[q].base_version].spec] # {}
    BY <1>2, <1>3 DEF OffersApply
  <2>2. proposals[q].base_version <= c + 1
    BY <1>3, <1>4, <2>1, ConstantsAssumption DEF Versions
  <2> QED
    BY <1>4, <2>1, <2>2 DEF IInv, TablesAgree, OffersApply
<1>7. PendingIsUndecided'
  BY <1>2 DEF IInv, TablesAgree, PendingIsUndecided, HasStatus
<1>8. StaleIsTruthful'
  BY <1>2, <1>3, <1>4, ConstantsAssumption DEF Versions, StaleIsTruthful, HasStatus
<1>9. AgentVersionsWereApproved'
  <2>1. SUFFICES ASSUME NEW v \in Versions,
                        spec_versions'[v] # NoRow, spec_versions'[v].source = "agent",
                        NEW q, q = spec_versions'[v].proposal_id
                 PROVE  /\ q \in ProposalIds /\ HasStatus(q, "approved")
                        /\ proposals[q].base_version + 1 = v
                        /\ spec_versions'[v].spec \in
                              Outcomes[proposals[q].ops][spec_versions'[v - 1].spec]
    BY <1>2 DEF AgentVersionsWereApproved, HasStatus
  <2>2. v # c + 1 /\ spec_versions'[v] = spec_versions[v] /\ v <= c
    BY <1>1, <1>3, <2>1 DEF IInv, TablesAgree, HistoryContiguous
  <2>3. /\ q \in ProposalIds /\ HasStatus(q, "approved")
        /\ proposals[q].base_version + 1 = v
        /\ spec_versions[v].spec \in Outcomes[proposals[q].ops][spec_versions[v - 1].spec]
    BY <2>1, <2>2 DEF IInv, TablesAgree, AgentVersionsWereApproved
  <2>4. v - 1 = proposals[q].base_version
    BY <1>4, <2>3, ConstantsAssumption DEF Versions, HasStatus
  <2> QED
    BY <1>4, <2>2, <2>3, <2>4 DEF HasStatus
<1>10. ApprovalsAreApplied'
  <2>1. SUFFICES ASSUME NEW q \in ProposalIds, HasStatus(q, "approved"),
                        NEW v, v = proposals[q].base_version + 1
                 PROVE  /\ v \in Versions /\ spec_versions'[v] # NoRow
                        /\ spec_versions'[v].proposal_id = q
    BY <1>2 DEF ApprovalsAreApplied, HasStatus
  <2>2. /\ v \in Versions /\ spec_versions[v] # NoRow /\ spec_versions[v].proposal_id = q
    BY <2>1 DEF IInv, TablesAgree, ApprovalsAreApplied
  <2> QED
    BY <1>3, <2>2
<1>11. RevertsAreExact'
  <2>1. SUFFICES ASSUME NEW v \in Versions,
                        spec_versions'[v] # NoRow, spec_versions'[v].source = "revert",
                        NEW u, u = spec_versions'[v].to_version
                 PROVE  /\ u \in Versions /\ u + 1 < v
                        /\ spec_versions'[v].spec = spec_versions'[u].spec
    BY DEF RevertsAreExact
  <2>2. CASE v = c + 1
    BY <1>1, <1>2, <1>3, <2>1, <2>2, ConstantsAssumption DEF Versions
  <2>3. CASE v # c + 1
    <3>1. spec_versions'[v] = spec_versions[v] /\ v <= c
      BY <1>3, <2>1, <2>3 DEF IInv, TablesAgree, HistoryContiguous
    <3>2. u \in Versions /\ u + 1 < v /\ spec_versions[v].spec = spec_versions[u].spec
      BY <2>1, <3>1 DEF IInv, TablesAgree, RevertsAreExact
    <3>3. spec_versions'[u] = spec_versions[u]
      BY <1>3, <3>1, <3>2, ConstantsAssumption DEF Versions
    <3> QED
      BY <3>1, <3>2, <3>3
  <2> QED
    BY <2>2, <2>3
<1> QED
  BY <1>5, <1>6, <1>7, <1>8, <1>9, <1>10, <1>11 DEF TablesAgree

LEMMA AgreementStep == IInv /\ [Next]_vars => TablesAgree'
  BY StepEffect, UnchangedAgrees, NewOfferAgrees, OfferClosedAgrees, OfferTakenAgrees,
     WentBackAgrees DEF Effect
-----------------------------------------------------------------------------
(* What was read once stays true, whatever the other handlers do.            *)

TablesOnlyGrow ==
    /\ current_version' \in {current_version, current_version + 1}
    /\ \A v \in Versions : spec_versions[v] # NoRow => spec_versions'[v] = spec_versions[v]
    /\ \A p \in ProposalIds : proposals[p] # NoRow =>
          /\ proposals'[p] # NoRow
          /\ proposals'[p].base_version = proposals[p].base_version
          /\ proposals'[p].ops = proposals[p].ops
          /\ proposals[p].status # "pending" => proposals'[p] = proposals[p]
          /\ proposals[p].status = "pending" => proposals'[p].status # "no_changes"

LEMMA Growth == IInv /\ [Next]_vars => TablesOnlyGrow
<1> SUFFICES ASSUME IInv, [Next]_vars PROVE TablesOnlyGrow
    OBVIOUS
<1>1. CASE UNCHANGED <<current_version, spec_versions, proposals>>
  BY <1>1 DEF TablesOnlyGrow
<1>2. ASSUME NEW p \in ProposalIds, NEW b \in Versions, NEW o \in Ops \cup {NoOps},
             NewOffer(p, b, o)
      PROVE  TablesOnlyGrow
  <2>1. \A q \in ProposalIds : proposals[q] # NoRow => proposals'[q] = proposals[q]
    BY <1>2 DEF NewOffer, IInv, TypeOK
  <2> QED
    BY <1>2, <2>1 DEF NewOffer, TablesOnlyGrow
<1>3. ASSUME NEW p \in ProposalIds, NEW to \in {"rejected", "stale"}, OfferClosed(p, to)
      PROVE  TablesOnlyGrow
  BY <1>3, DecisionEffect DEF OfferClosed, HasStatus, TablesOnlyGrow
<1>4. ASSUME NEW p \in ProposalIds, NEW s \in Specs, OfferTaken(p, s)
      PROVE  TablesOnlyGrow
  <2> DEFINE row == [ spec |-> s, source |-> "agent", proposal_id |-> p, to_version |-> 0 ]
  <2>1. row \in VersionRow
    BY ConstantsAssumption DEF VersionRow
  <2>2. CanAppend(current_version) /\ AppendVersion(current_version, row)
    BY <1>4 DEF OfferTaken
  <2>3. /\ current_version' = current_version + 1
        /\ \A v \in Versions : spec_versions[v] # NoRow => spec_versions'[v] = spec_versions[v]
    BY <2>1, <2>2, AppendEffect
  <2> QED
    BY <1>4, <2>3, DecisionEffect DEF OfferTaken, HasStatus, TablesOnlyGrow
<1>5. ASSUME NEW w \in Versions, WentBack(w) PROVE TablesOnlyGrow
  <2> DEFINE row == [ spec |-> spec_versions[w].spec, source |-> "revert",
                      proposal_id |-> NoProposal, to_version |-> w ]
  <2>1. row \in VersionRow
    BY <1>5, ConstantsAssumption DEF WentBack, IInv, TypeOK, VersionRow, Versions
  <2>2. CanAppend(current_version) /\ AppendVersion(current_version, row)
    BY <1>5 DEF WentBack
  <2>3. /\ current_version' = current_version + 1
        /\ \A v \in Versions : spec_versions[v] # NoRow => spec_versions'[v] = spec_versions[v]
    BY <2>1, <2>2, AppendEffect
  <2> QED
    BY <1>5, <2>3 DEF WentBack, TablesOnlyGrow
<1> QED
  BY <1>1, <1>2, <1>3, <1>4, <1>5, StepEffect DEF Effect

\* A handler that does not move keeps believing the truth.
LEMMA WaitingReadsStayTrue ==
    ASSUME IInv, [Next]_vars, NEW t \in Threads, loc'[t] = loc[t]
    PROVE  ReadsAreTrue(t)'
<1>1. TablesOnlyGrow
  BY Growth
<1>2. ReadsAreTrue(t)
  BY DEF IInv
<1>3. loc[t].pc \in {"spec", "target", "act"} =>
         /\ loc[t].seen \in Versions
         /\ loc[t].seen <= current_version'
         /\ spec_versions'[loc[t].seen] = spec_versions[loc[t].seen]
  BY <1>1, SeenRowExists, <1>2, ConstantsAssumption, NoRowAssumption
     DEF TablesOnlyGrow, ReadsAreTrue, IInv, TypeOK, Versions
<1>4. loc[t].handler = "approve" =>
         /\ proposals'[loc[t].id] # NoRow
         /\ proposals'[loc[t].id].base_version = proposals[loc[t].id].base_version
         /\ proposals'[loc[t].id].ops = proposals[loc[t].id].ops
         /\ proposals'[loc[t].id].status # "no_changes"
  BY <1>1, <1>2 DEF TablesOnlyGrow, ReadsAreTrue
<1>5. At(t, "revert", "act") =>
         spec_versions'[loc[t].to_version] = spec_versions[loc[t].to_version]
  BY <1>1, <1>2 DEF TablesOnlyGrow, ReadsAreTrue, At
<1> QED
  BY <1>2, <1>3, <1>4, <1>5 DEF ReadsAreTrue, At

LEMMA IdleReads == ASSUME NEW t \in Threads, loc[t] = Idle PROVE ReadsAreTrue(t)
  BY DEF Idle, ReadsAreTrue, At

\* Every step moves one handler at most.
LEMMA OneMoves == ASSUME IInv, NEW t \in Threads, NEW l, loc' = [loc EXCEPT ![t] = l]
                  PROVE  loc'[t] = l /\ \A u \in Threads : u # t => loc'[u] = loc[u]
  BY DEF IInv, TypeOK

LEMMA ReturnReads == ASSUME IInv, [Next]_vars, NEW t \in Threads, Return(t)
                     PROVE  \A u \in Threads : ReadsAreTrue(u)'
<1>1. loc'[t] = Idle /\ \A u \in Threads : u # t => loc'[u] = loc[u]
  BY OneMoves DEF Return
<1>2. ReadsAreTrue(t)'
  BY <1>1 DEF Idle, ReadsAreTrue, At
<1> QED
  BY <1>1, <1>2, WaitingReadsStayTrue
LEMMA StartEffect ==
    ASSUME IInv, NEW t \in Threads, NEW h, NEW id, NEW row, NEW v, Start(t, h, id, row, v)
    PROVE  /\ loc'[t].pc = "business" /\ loc'[t].handler = h /\ loc'[t].id = id
           /\ loc'[t].proposal = row /\ loc'[t].to_version = v
           /\ \A u \in Threads : u # t => loc'[u] = loc[u]
<1> DEFINE l == [ Idle EXCEPT !.pc = "business", !.handler = h, !.id = id,
                              !.proposal = row, !.to_version = v ]
<1>1. loc' = [loc EXCEPT ![t] = l]
  BY DEF Start
<1>2. loc'[t] = l /\ \A u \in Threads : u # t => loc'[u] = loc[u]
  BY <1>1, OneMoves
<1>3. /\ l.pc = "business" /\ l.handler = h /\ l.id = id
      /\ l.proposal = row /\ l.to_version = v
  BY DEF Idle
<1> HIDE DEF l
<1> QED
  BY <1>2, <1>3

LEMMA ReadsStep == IInv /\ [Next]_vars => \A u \in Threads : ReadsAreTrue(u)'
<1> SUFFICES ASSUME IInv, [Next]_vars PROVE \A u \in Threads : ReadsAreTrue(u)'
    OBVIOUS
<1>1. CASE UNCHANGED loc
  BY <1>1, WaitingReadsStayTrue
<1>2. ASSUME NEW t \in Threads, Return(t) PROVE \A u \in Threads : ReadsAreTrue(u)'
  BY <1>2, ReturnReads
<1>3. ASSUME NEW t \in Threads, ReadsAreTrue(t)',
             \A u \in Threads : u # t => loc'[u] = loc[u]
      PROVE  \A u \in Threads : ReadsAreTrue(u)'
  BY <1>3, WaitingReadsStayTrue
<1>4. ASSUME NEW t \in Threads, StartChat(t) PROVE \A u \in Threads : ReadsAreTrue(u)'
  <2>1. /\ loc'[t].pc = "business" /\ loc'[t].handler = "chat"
        /\ \A u \in Threads : u # t => loc'[u] = loc[u]
    BY <1>4, StartEffect DEF StartChat
  <2>2. ReadsAreTrue(t)'
    BY <2>1 DEF ReadsAreTrue, At
  <2> QED
    BY <1>3, <2>1, <2>2
<1>5. ASSUME NEW t \in Threads, NEW v \in Versions, StartRevert(t, v)
      PROVE  \A u \in Threads : ReadsAreTrue(u)'
  <2>1. /\ loc'[t].pc = "business" /\ loc'[t].handler = "revert" /\ loc'[t].to_version = v
        /\ \A u \in Threads : u # t => loc'[u] = loc[u]
    BY <1>5, StartEffect DEF StartRevert
  <2>2. ReadsAreTrue(t)'
    BY <2>1 DEF ReadsAreTrue, At
  <2> QED
    BY <1>3, <2>1, <2>2
<1>6. ASSUME NEW t \in Threads, NEW p \in ProposalIds, StartApprove(t, p)
      PROVE  \A u \in Threads : ReadsAreTrue(u)'
  <2>1. /\ loc'[t].pc = "business" /\ loc'[t].handler = "approve"
        /\ loc'[t].id = p /\ loc'[t].proposal = proposals[p]
        /\ \A u \in Threads : u # t => loc'[u] = loc[u]
    BY <1>6, StartEffect DEF StartApprove
  <2>2. /\ proposals' = proposals
        /\ proposals[p] # NoRow
        /\ proposals[p] \in ProposalRow
        /\ proposals[p].status # "no_changes"
        /\ proposals[p].ops \in Ops
    BY <1>6 DEF StartApprove, Start, HasStatus, IInv, TypeOK, TablesAgree, OffersApply
  <2>3. ReadsAreTrue(t)'
    BY <2>1, <2>2 DEF ReadsAreTrue, At
  <2> QED
    BY <1>3, <2>1, <2>3
<1>7. ASSUME NEW t \in Threads, ReadBusiness(t) PROVE \A u \in Threads : ReadsAreTrue(u)'
  <2>1. loc' = [loc EXCEPT ![t] = [loc[t] EXCEPT !.seen = current_version, !.pc = "spec"]]
    BY <1>7 DEF ReadBusiness, IInv, TypeOK, Local
  <2>2. /\ loc[t].pc = "business" /\ loc[t].pc # "idle"
        /\ UNCHANGED <<current_version, spec_versions, proposals>>
    BY <1>7 DEF ReadBusiness
  <2>3. loc'[t] = [loc[t] EXCEPT !.seen = current_version, !.pc = "spec"]
    BY <2>1, OneMoves
  <2>4. /\ loc'[t].seen = current_version /\ loc'[t].pc = "spec"
        /\ loc'[t].handler = loc[t].handler /\ loc'[t].id = loc[t].id
        /\ loc'[t].proposal = loc[t].proposal /\ loc'[t].to_version = loc[t].to_version
    BY <2>3 DEF IInv, TypeOK, Local
  <2>5. loc[t].handler = "approve" => loc[t].proposal.base_version <= current_version
    BY DEF IInv, ReadsAreTrue, TablesAgree, OffersApply
  <2>6. current_version \in Versions /\ current_version <= current_version
    BY ConstantsAssumption DEF IInv, TypeOK, Versions
  <2>7. ReadsAreTrue(t)
    BY DEF IInv
  <2>8. ReadsAreTrue(t)'
    BY <2>2, <2>4, <2>5, <2>6, <2>7 DEF ReadsAreTrue, At
  <2> QED
    BY <1>3, <2>1, <2>8, OneMoves
<1>8. ASSUME NEW t \in Threads, ReadSpec(t) PROVE \A u \in Threads : ReadsAreTrue(u)'
  <2> DEFINE pc == IF loc[t].handler = "revert" THEN "target" ELSE "act"
             spec == spec_versions[loc[t].seen].spec
  <2>1. loc' = [loc EXCEPT ![t] = [loc[t] EXCEPT !.spec = spec, !.pc = pc]]
    BY <1>8 DEF ReadSpec, IInv, TypeOK, Local
  <2>2. loc[t].pc = "spec" /\ UNCHANGED <<current_version, spec_versions, proposals>>
    BY <1>8 DEF ReadSpec
  <2>3. loc'[t] = [loc[t] EXCEPT !.spec = spec, !.pc = pc]
    BY <2>1, OneMoves
  <2>4. /\ loc'[t].spec = spec /\ loc'[t].pc = pc
        /\ loc'[t].handler = loc[t].handler /\ loc'[t].id = loc[t].id
        /\ loc'[t].proposal = loc[t].proposal /\ loc'[t].to_version = loc[t].to_version
        /\ loc'[t].seen = loc[t].seen
    BY <2>3 DEF IInv, TypeOK, Local
  <2>5. ReadsAreTrue(t)
    BY DEF IInv
  <2>6. ReadsAreTrue(t)'
    BY <2>2, <2>4, <2>5 DEF ReadsAreTrue, At
  <2> QED
    BY <1>3, <2>1, <2>6, OneMoves
<1>9. ASSUME NEW t \in Threads, ReadTarget(t), ~Return(t)
      PROVE  \A u \in Threads : ReadsAreTrue(u)'
  <2> DEFINE w == loc[t].to_version
  <2>1. /\ loc' = [loc EXCEPT ![t] = [loc[t] EXCEPT !.spec = spec_versions[w].spec, !.pc = "act"]]
        /\ spec_versions[w] # NoRow /\ w # loc[t].seen
        /\ UNCHANGED <<current_version, spec_versions, proposals>>
    BY <1>9 DEF ReadTarget, IInv, TypeOK, Local
  <2>2. loc[t].pc = "target" /\ loc[t].handler = "revert"
    BY <1>9 DEF ReadTarget, At
  <2>3. loc'[t] = [loc[t] EXCEPT !.spec = spec_versions[w].spec, !.pc = "act"]
    BY <2>1, OneMoves
  <2>4. /\ loc'[t].spec = spec_versions[w].spec /\ loc'[t].pc = "act"
        /\ loc'[t].handler = "revert" /\ loc'[t].to_version = w /\ loc'[t].seen = loc[t].seen
    BY <2>2, <2>3 DEF IInv, TypeOK, Local
  <2>5. ReadsAreTrue(t)
    BY DEF IInv
  <2>6. ReadsAreTrue(t)'
    BY <2>1, <2>2, <2>4, <2>5 DEF ReadsAreTrue, At
  <2> QED
    BY <1>3, <2>1, <2>6, OneMoves
<1>10. ASSUME NEW t \in Threads, NEW p \in ProposalIds, Reject(t, p) \/ AlreadyDecided(t, p)
       PROVE  UNCHANGED loc
  BY <1>10 DEF Reject, AlreadyDecided, vars
<1>11. ASSUME NEW t \in Threads,
              \/ \E p \in ProposalIds : SaveProposal(t, p)
              \/ MarkStale(t) \/ ApproveCommit(t) \/ ApproveRollback(t)
              \/ RevertCommit(t) \/ RevertRollback(t) \/ Fail(t)
       PROVE  Return(t)
  BY <1>11 DEF SaveProposal, StoreProposal, MarkStale, ApproveCommit, ApproveRollback, RevertCommit,
               RevertRollback, Fail
<1>12. UNCHANGED vars => UNCHANGED loc
  BY DEF vars
<1> QED
  BY <1>1, <1>2, <1>4, <1>5, <1>6, <1>7, <1>8, <1>9, <1>10, <1>11, <1>12 DEF Next

-----------------------------------------------------------------------------

LEMMA InitIInv == Init => IInv
<1> SUFFICES ASSUME Init PROVE IInv
    OBVIOUS
<1>1. PICK s \in Specs : spec_versions = [v \in Versions |->
                 IF v = 1 THEN [ spec |-> s, source |-> "template",
                                 proposal_id |-> NoProposal, to_version |-> 0 ]
                          ELSE NoRow]
  BY DEF Init
<1> DEFINE row == [ spec |-> s, source |-> "template",
                    proposal_id |-> NoProposal, to_version |-> 0 ]
<1>2. row \in VersionRow /\ row # NoRow /\ row.source = "template"
  BY ConstantsAssumption, NoRowAssumption DEF VersionRow
<1>3. TypeOK
  BY TypeInit
<1>4. TablesAgree
  BY <1>1, <1>2, ConstantsAssumption
     DEF Init, Versions, TablesAgree, HistoryContiguous, OffersApply, PendingIsUndecided,
         StaleIsTruthful, AgentVersionsWereApproved, ApprovalsAreApplied, RevertsAreExact,
         HasStatus
<1>5. \A t \in Threads : ReadsAreTrue(t)
  BY IdleReads DEF Init
<1> QED
  BY <1>3, <1>4, <1>5 DEF IInv

\* The inductive invariant of the handlers and their tables.
THEOREM Invariance == Spec => []IInv
<1>1. Init => IInv
  BY InitIInv
<1>2. IInv /\ [Next]_vars => IInv'
  BY TypeStep, AgreementStep, ReadsStep DEF IInv
<1> QED
  BY <1>1, <1>2, PTL DEF Spec
\* TypeOK holds of every state the handlers reach.
THEOREM TypeCorrect == Spec => []TypeOK
  BY Invariance, PTL DEF IInv

\* HistoryContiguous: the stored versions are 1 to current_version, always.
THEOREM HistoryIsContiguous == Spec => []HistoryContiguous
  BY Invariance, PTL DEF IInv, TablesAgree

\* AgentVersionsWereApproved: nothing the agent proposed reaches the definition
\* of the business without an approval, and then exactly as it was approved.
THEOREM NoChangeWithoutApproval == Spec => []AgentVersionsWereApproved
  BY Invariance, PTL DEF IInv, TablesAgree

\* ApprovalsAreApplied: an approval is in the history, at its own place.
THEOREM NoApprovalIsLost == Spec => []ApprovalsAreApplied
  BY Invariance, PTL DEF IInv, TablesAgree

\* RevertsAreExact: a revert is a copy of the version it names.
THEOREM RevertsCopy == Spec => []RevertsAreExact
  BY Invariance, PTL DEF IInv, TablesAgree

\* StaleIsTruthful: only a proposal whose base was left behind becomes stale.
THEOREM StaleMeansMoved == Spec => []StaleIsTruthful
  BY Invariance, PTL DEF IInv, TablesAgree

\* ReplayIsAccepted: approve never finds its own accepted operations refused,
\* because the definition it read is the one the proposal was made against.
THEOREM ApprovalReplays == Spec => []ReplayIsAccepted
<1>1. IInv => ReplayIsAccepted
  <2>1. SUFFICES ASSUME IInv, NEW t \in Threads, At(t, "approve", "act"), ~IsStale(t)
                 PROVE  Replayed(t) # {}
    BY DEF ReplayIsAccepted
  <2>2. /\ loc[t].id \in ProposalIds
        /\ proposals[loc[t].id] # NoRow
        /\ loc[t].proposal.base_version = proposals[loc[t].id].base_version
        /\ loc[t].proposal.ops = proposals[loc[t].id].ops
        /\ proposals[loc[t].id].status # "no_changes"
        /\ loc[t].spec = spec_versions[loc[t].seen].spec
        /\ loc[t].seen = loc[t].proposal.base_version
    BY <2>1 DEF At, IsStale, IInv, ReadsAreTrue
  <2> QED
    BY <2>1, <2>2 DEF IInv, TablesAgree, OffersApply, Replayed
<1> QED
  BY <1>1, Invariance, PTL

\* HistoryAppendOnly: no handler ever changes or drops a stored version.
THEOREM HistoryIsAppendOnly == Spec => HistoryAppendOnly
<1>1. IInv /\ [Next]_vars =>
         [/\ \A v \in Versions : spec_versions[v] # NoRow => spec_versions'[v] = spec_versions[v]
          /\ current_version' \in {current_version, current_version + 1}]_vars
  BY Growth DEF TablesOnlyGrow
<1> QED
  BY <1>1, Invariance, PTL DEF Spec, HistoryAppendOnly

\* DecidedOnce: two owners' clicks that race never decide a proposal twice.
THEOREM DecisionsAreFinal == Spec => DecidedOnce
<1>1. IInv /\ [Next]_vars =>
         [\A p \in ProposalIds : (proposals[p] # NoRow /\ proposals[p].decided_at) =>
             proposals'[p] = proposals[p]]_vars
  <2>1. SUFFICES ASSUME IInv, [Next]_vars, NEW p \in ProposalIds,
                        proposals[p] # NoRow, proposals[p].decided_at
                 PROVE  proposals'[p] = proposals[p]
    OBVIOUS
  <2>2. proposals[p].status # "pending"
    BY <2>1 DEF IInv, TablesAgree, PendingIsUndecided, HasStatus
  <2> QED
    BY <2>1, <2>2, Growth DEF TablesOnlyGrow
<1> QED
  BY <1>1, Invariance, PTL DEF Spec, DecidedOnce

-----------------------------------------------------------------------------
(* The handlers implement the log of SpecLog.                                *)

\* The mapped log, and what appending to it gives.
LEMMA AppendIsNext ==
    ASSUME NEW S, NEW c \in Nat, NEW h \in [1..c -> S], NEW s \in S,
           NEW k \in [1..(c + 1) -> S],
           \A v \in 1..c : k[v] = h[v],
           k[c + 1] = s
    PROVE  Len(h) = c /\ Append(h, s) = k
<1>1. h \in Seq(S) /\ Len(h) = c
  OBVIOUS
<1>2. Append(h, s) \in Seq(S) /\ Len(Append(h, s)) = c + 1
  BY <1>1
<1>3. \A v \in 1..(c + 1) : Append(h, s)[v] = k[v]
  BY <1>1
<1> QED
  BY <1>1, <1>2, <1>3
log == [v \in 1..current_version |-> spec_versions[v].spec]
offers == [p \in ProposalIds |->
              IF proposals[p] = NoRow THEN NoRow ELSE Offer(proposals[p])]

LEMMA LogType == ASSUME IInv
                 PROVE  /\ current_version \in Nat \ {0}
                        /\ log \in [1..current_version -> Specs]
                        /\ Len(log) = current_version
                        /\ DOMAIN log = 1..current_version
<1>1. current_version \in Nat \ {0} /\ current_version \in Versions
  BY ConstantsAssumption DEF IInv, TypeOK, Versions
<1>2. \A v \in 1..current_version : spec_versions[v] \in VersionRow
  BY <1>1, ConstantsAssumption DEF IInv, TypeOK, TablesAgree, HistoryContiguous, Versions
<1>3. log \in [1..current_version -> Specs]
  BY <1>2 DEF log, VersionRow
<1> QED
  BY <1>1, <1>3

\* Appending a row to the history appends its definition to the log.
LEMMA LogAppend == ASSUME IInv, NEW row \in VersionRow,
                          CanAppend(current_version), AppendVersion(current_version, row)
                   PROVE  log' = Append(log, row.spec)
<1> DEFINE c == current_version
<1>1. /\ c \in Nat /\ c \in Versions /\ c + 1 \in Versions
      /\ current_version' = c + 1
      /\ spec_versions'[c + 1] = row
      /\ \A v \in Versions : v # c + 1 => spec_versions'[v] = spec_versions[v]
  BY AppendEffect, LogType
<1>2. log' = [v \in 1..(c + 1) |-> spec_versions'[v].spec]
  BY <1>1 DEF log
<1>3. \A v \in 1..c : v \in Versions /\ v # c + 1
  BY <1>1, ConstantsAssumption DEF Versions
<1>4. \A v \in 1..c : log'[v] = log[v]
  BY <1>1, <1>2, <1>3 DEF log
<1>5. log'[c + 1] = row.spec /\ row.spec \in Specs
  BY <1>1, <1>2 DEF VersionRow
<1>6. log \in [1..c -> Specs]
  BY LogType
<1>7. log' \in [1..(c + 1) -> Specs]
  <2>1. \A v \in 1..(c + 1) : log'[v] \in Specs
    BY <1>1, <1>4, <1>5, <1>6
  <2> QED
    BY <1>2, <2>1
<1> QED
  BY <1>1, <1>4, <1>5, <1>6, <1>7, AppendIsNext

LEMMA LogInit == ASSUME Init PROVE Log!Init
<1>1. PICK s \in Specs : spec_versions = [v \in Versions |->
                 IF v = 1 THEN [ spec |-> s, source |-> "template",
                                 proposal_id |-> NoProposal, to_version |-> 0 ]
                          ELSE NoRow]
  BY DEF Init
<1>2. current_version = 1 /\ 1 \in Versions /\ spec_versions[1].spec = s
  BY <1>1, ConstantsAssumption DEF Init, Versions
<1>3. [v \in 1..current_version |-> spec_versions[v].spec] = <<s>>
  BY <1>2
<1> QED
  BY <1>3 DEF Init, Log!Init
\* An offer of the abstract log, read from the proposals table.
LEMMA OfferOf == ASSUME IInv, NEW p \in ProposalIds, proposals[p] # NoRow
                 PROVE  /\ offers[p] = Offer(proposals[p])
                        /\ offers[p] # NoRow
                        /\ offers[p].base = proposals[p].base_version
                        /\ offers[p].ops = proposals[p].ops
                        /\ offers[p].status = proposals[p].status
<1>1. proposals[p] \in ProposalRow
  BY DEF IInv, TypeOK
<1>2. offers[p] = Offer(proposals[p])
  BY DEF offers
<1> QED
  BY <1>1, <1>2, NoRowAssumption DEF Offer

\* Deciding a proposal decides its offer.
LEMMA DecideOffer ==
    ASSUME IInv, NEW p \in ProposalIds, NEW to \in {"approved", "rejected", "stale"},
           HasStatus(p, "pending"), SetProposalStatus(p, to)
    PROVE  /\ offers[p] # NoRow /\ offers[p].status = "pending"
           /\ offers' = [offers EXCEPT ![p].status = to]
<1>1. /\ proposals[p] # NoRow /\ proposals[p].status = "pending"
      /\ proposals'[p] # NoRow /\ proposals'[p].status = to
      /\ proposals'[p].base_version = proposals[p].base_version
      /\ proposals'[p].ops = proposals[p].ops
      /\ \A q \in ProposalIds : q # p => proposals'[q] = proposals[q]
  BY DecisionEffect DEF HasStatus
<1>2. /\ offers[p] = Offer(proposals[p])
      /\ offers[p] # NoRow /\ offers[p].status = "pending"
  BY <1>1, OfferOf
<1>3. Offer(proposals'[p]) = [Offer(proposals[p]) EXCEPT !.status = to]
  BY <1>1 DEF Offer
<1>4. \A q \in ProposalIds : offers'[q] = IF q = p THEN [offers[p] EXCEPT !.status = to]
                                                 ELSE offers[q]
  BY <1>1, <1>2, <1>3 DEF offers
<1> QED
  BY <1>2, <1>4 DEF offers

\* Each step of the handlers is a step of the log, or changes nothing in it.
LEMMA LogStep == ASSUME IInv, [Next]_vars PROVE [Log!Next]_(Log!vars)
<1> USE DEF Log!vars, log, offers
<1>1. CASE UNCHANGED <<current_version, spec_versions, proposals>>
  BY <1>1
<1>2. ASSUME NEW p \in ProposalIds, NEW b \in Versions, NEW o \in Ops \cup {NoOps},
             NewOffer(p, b, o)
      PROVE  Log!Next
  <2> DEFINE row == [ base_version |-> b, ops |-> o,
                      status |-> IF o = NoOps THEN "no_changes" ELSE "pending",
                      decided_at |-> (o = NoOps) ]
             offer == [ base |-> b, ops |-> o,
                        status |-> IF o = NoOps THEN "no_changes" ELSE "pending" ]
  <2>1. /\ proposals' = [proposals EXCEPT ![p] = row]
        /\ proposals[p] = NoRow /\ b <= current_version
        /\ o \in Kept(spec_versions[b].spec)
        /\ UNCHANGED <<current_version, spec_versions>>
    BY <1>2 DEF NewOffer
  <2>2. row \in ProposalRow
    <3>1. /\ (o = NoOps) \in BOOLEAN
          /\ (IF o = NoOps THEN "no_changes" ELSE "pending") \in
                {"pending", "no_changes", "approved", "rejected", "stale"}
      OBVIOUS
    <3> QED
      BY <3>1 DEF ProposalRow
  <2>3. Offer(row) = offer
    BY DEF Offer
  <2>4. row # NoRow
    BY <2>2, NoRowAssumption
  <2> HIDE DEF row, offer
  <2>5. offers[p] = NoRow /\ offers' = [offers EXCEPT ![p] = offer]
    BY <2>1, <2>3, <2>4 DEF IInv, TypeOK
  <2>6. log' = log /\ b \in DOMAIN log /\ log[b] = spec_versions[b].spec
    BY <2>1, LogType, ConstantsAssumption DEF Versions
  <2>7. o \in {x \in Ops : Outcomes[x][log[b]] # {}} \cup {NoOps}
    BY <2>1, <2>6 DEF Kept
  <2> USE DEF offer
  <2>8. Log!Propose(p)
    BY <2>5, <2>6, <2>7 DEF Log!Propose
  <2> QED
    BY <2>8 DEF Log!Next
<1>3. ASSUME NEW p \in ProposalIds, NEW to \in {"rejected", "stale"}, OfferClosed(p, to)
      PROVE  Log!Next
  <2>1. /\ offers[p] # NoRow /\ offers[p].status = "pending"
        /\ offers' = [offers EXCEPT ![p].status = to]
        /\ log' = log
    BY <1>3, DecideOffer DEF OfferClosed
  <2>2. to = "stale" => offers[p].base < Len(log)
    BY <1>3, OfferOf, LogType DEF OfferClosed, HasStatus
  <2>3. CASE to = "rejected"
    BY <2>1, <2>3 DEF Log!Next, Log!Decline, Log!Decide, Log!IsPending
  <2>4. CASE to = "stale"
    BY <2>1, <2>2, <2>4 DEF Log!Next, Log!Expire, Log!Decide, Log!IsPending
  <2> QED
    BY <2>3, <2>4
<1>4. ASSUME NEW p \in ProposalIds, NEW s \in Specs, OfferTaken(p, s)
      PROVE  Log!Next
  <2> DEFINE row == [ spec |-> s, source |-> "agent", proposal_id |-> p, to_version |-> 0 ]
  <2>1. row \in VersionRow /\ row.spec = s
    BY ConstantsAssumption DEF VersionRow
  <2>2. log' = Append(log, s)
    BY <1>4, <2>1, LogAppend DEF OfferTaken
  <2>3. /\ offers[p] # NoRow /\ offers[p].status = "pending"
        /\ offers' = [offers EXCEPT ![p].status = "approved"]
    BY <1>4, DecideOffer DEF OfferTaken
  <2>4. offers[p].base = Len(log) /\ s \in Outcomes[offers[p].ops][log[Len(log)]]
    BY <1>4, OfferOf, LogType DEF OfferTaken, HasStatus
  <2> QED
    BY <2>2, <2>3, <2>4 DEF Log!Next, Log!Take, Log!Decide, Log!IsPending
<1>5. ASSUME NEW w \in Versions, WentBack(w) PROVE Log!Next
  <2> DEFINE row == [ spec |-> spec_versions[w].spec, source |-> "revert",
                      proposal_id |-> NoProposal, to_version |-> w ]
  <2>1. row \in VersionRow /\ row.spec = spec_versions[w].spec
    BY <1>5, ConstantsAssumption DEF WentBack, IInv, TypeOK, VersionRow, Versions
  <2>2. log' = Append(log, spec_versions[w].spec)
    BY <1>5, <2>1, LogAppend DEF WentBack
  <2>3. w <= current_version /\ w # current_version
    BY <1>5 DEF WentBack, IInv, TablesAgree, HistoryContiguous
  <2>4. w \in DOMAIN log /\ w < Len(log) /\ log[w] = spec_versions[w].spec
    BY <2>3, LogType, ConstantsAssumption DEF Versions
  <2>5. offers' = offers
    BY <1>5 DEF WentBack
  <2> QED
    BY <2>2, <2>4, <2>5 DEF Log!Next, Log!GoBackTo
<1> QED
  BY <1>1, <1>2, <1>3, <1>4, <1>5, StepEffect DEF Effect

\* ImplementsLog: to the owner, the racing handlers are one log that grows an
\* entry at a time, and a proposal is accepted only against its last entry.
THEOREM HandlersImplementLog == Spec => ImplementsLog
<1>1. Init => Log!Init
  BY LogInit
<1>2. IInv /\ [Next]_vars => [Log!Next]_(Log!vars)
  BY LogStep
<1> QED
  BY <1>1, <1>2, Invariance, PTL DEF Spec, ImplementsLog, Log!Spec
=============================================================================
