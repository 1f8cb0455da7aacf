\* Queueing and overriding, without delegation.
SPECIFICATION Spec
CONSTANTS
    ClaimId = {1, 2, 3}
    Task = {"build", "fix", "test"}
    Repo = {"core", "docs"}
    Owner = {"ann", "bob", "cat"}
    Path <- Paths
    Approver = {"dan", "bob"}
    PullRequest = {}
    ApproverUntil <- Registry
    DelegatorUntil <- Delegators
    NoClaim = NoClaim
    NoPR = NoPR
    Requests <- BasicRequests
    HeartbeatTtl = {2}
    Approvals <- BobTakesOver
    Delegations = {}
    Time = {0, 1, 2, 3}
    ClockSkew = 0
    Horizon = 0
INVARIANTS
    ActiveExclusive
    QueueIsBlocked
PROPERTIES
    LapsedLeaseIsLost
    FirstInLineFirst
    ExpiryHasACause
