\* Nobody renews a lease or overrides one: every waiter gets its turn.
SPECIFICATION FairSpec
CONSTANTS
    ClaimId = {1, 2, 3}
    Task = {"build", "fix", "test"}
    Repo = {"core"}
    Owner = {"ann", "bob", "cat"}
    Path <- Paths
    Approver = {"dan"}
    PullRequest = {}
    ApproverUntil <- OneApprover
    DelegatorUntil <- Delegators
    NoClaim = NoClaim
    NoPR = NoPR
    Requests <- QueueRequests
    HeartbeatTtl = {}
    Approvals = {}
    Delegations = {}
    Time = {0, 1, 2, 3}
    ClockSkew = 0
    Horizon = 0
PROPERTIES
    QueueDrains
