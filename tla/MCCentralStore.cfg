SPECIFICATION Spec
CONSTANTS
    ClaimId = {1, 2, 8, 9}
    Task = {"build", "fix", "test"}
    Repo = {"core"}
    Owner = {"ann", "bob"}
    Path <- Paths
    Approver = {"dan"}
    PullRequest = {"pr"}
    ApproverUntil <- Registry
    DelegatorUntil <- Delegators
    NoClaim = NoClaim
    NoPR = NoPR
    Requests <- AllRequests
    HeartbeatTtl = {1}
    Approvals <- AllApprovals
    Delegations = {}
    Time = {0, 1}
    ClockSkew = 1
    LocalBoards <- Locals
    Host = {h1, h2}
    Ops <- SharedOps
    MaxAttempts = 2
    MaxCalls = 3
SYMMETRY HostSymmetry
INVARIANTS
    ToldClaimStays
    AtMostOnce
PROPERTIES
    BoardIsAtomic
\* A behaviour may end with every call made.
CHECK_DEADLOCK FALSE
