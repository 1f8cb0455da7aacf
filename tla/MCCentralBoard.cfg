\* Delegation both ways, three claims deep, on the board that hosts share.
SPECIFICATION CentralSpec
CONSTANTS
    ClaimId = {1, 2, 3}
    Task = {"build", "fix", "test"}
    Repo = {"core", "docs"}
    Owner = {"ann", "bob", "cat"}
    Path <- Paths
    Approver = {"dan", "bob"}
    PullRequest = {"pr"}
    ApproverUntil <- Registry
    DelegatorUntil <- Delegators
    NoClaim = NoClaim
    NoPR = NoPR
    Requests <- DelegateRequests
    HeartbeatTtl = {2}
    Approvals = {}
    Delegations <- TokensBothWays
    Time = {0, 1, 2}
    ClockSkew = 0
    Horizon = 0
    LocalBoards <- Boards
CONSTRAINT OnePull
INVARIANTS
    DelegatedInsideParent
    ActiveExclusive
    NoLapsedLease
PROPERTIES
    ClosedIsFinal
