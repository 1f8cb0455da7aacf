SPECIFICATION LoopSpec
CONSTANTS
    ClaimId = {1, 2, 3}
    Task = {1, 2}
    Repo = {"core"}
    Owner = {"ann"}
    Path <- Paths
    Approver = {"dan"}
    PullRequest = {}
    ApproverUntil <- Registry
    DelegatorUntil <- Delegators
    NoClaim = NoClaim
    NoPR = NoPR
    Boards <- AllBoards
    Imports <- AllImports
    Now = 2
INVARIANT LoopsAreClosedForms
