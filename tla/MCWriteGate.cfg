SPECIFICATION GateSpec
CONSTANTS
    ClaimId = {1, 2}
    Task = {"build", "fix", "test"}
    Repo = {"core"}
    Owner = {"ann", "bob", "cat"}
    Path <- Paths
    Approver = {"dan", "bob"}
    PullRequest = {}
    ApproverUntil <- Registry
    DelegatorUntil <- Delegators
    NoClaim = NoClaim
    NoPR = NoPR
    Requests <- TakeoverRequests
    HeartbeatTtl = {2}
    Approvals <- BobTakesOver
    Delegations = {}
    Time = {0, 1, 2}
    ClockSkew = 0
    Horizon = 0
    m = m
    n = n
    Command <- Commands
    MaxAttested = 2
SYMMETRY CommandSymmetry
INVARIANTS
    GateTypeOK
    OneWriter
    OneShotUnlessOverwritten
