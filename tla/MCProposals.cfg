SPECIFICATION Spec
CONSTANTS
    Threads = {t1, t2}
    ProposalIds = {p1, p2}
    s1 = s1
    s2 = s2
    s3 = s3
    o1 = o1
    o2 = o2
    Specs <- MCSpecs
    Ops <- MCOps
    Outcomes <- MCOutcomes
    MaxVersion = 4
    NoSpec = NoSpec
    NoOps = NoOps
    NoProposal = NoProposal
    NoRow = NoRow
SYMMETRY Symmetry
INVARIANTS HistoryContiguous AgentVersionsWereApproved ApprovalsAreApplied RevertsAreExact ReplayIsAccepted
PROPERTIES ImplementsLog
