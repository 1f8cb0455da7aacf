SPECIFICATION ServicesSpec
CONSTANTS
    t1 = t1
    t2 = t2
    t3 = t3
    Thread <- Threads
    Agent = {"a1", "a2"}
    MaxOps = 4
    MaxMishaps = 2
    Expiry = 0
    MaxTime = 1
    MaxOpened = 3
    e1 = e1
    r1 = r1
    Engine = {e1}
    EngineTask = {1}
    PanelTask = {r1}
    MaxTrash <- TrashBound
    Key = {"k1", "k2", "k3"}
    PaymentCommand <- Commands
    NoApproval = NoApproval
    NoCommand = NoCommand
    Process = {"p1", "p2"}
    Question = {"merge", "release"}
    Founder <- Founders
    MaxNow = 2
    Patcher <- Threads
    NoOne = NoOne
    MaxGoals = 2
    Runner = {"p1", "p2"}
    Goal = {"g1", "g2"}
    NoGoal = "none"
    MaxAsked = 3
    Job = {"j1", "j2"}
    SourceFile = {"a.py", "b.py"}
    NoJob = "none"
    NoFile = "none"
    MaxFaults = 1
    MaxWatchers = 3
    MaxTurns = 2
    Clips = {1, 2, 3}
    Mutator = {"panel", "engine"}
    MaxMutations = 3
    MaxLapses = 2
    Mover = {"p1", "p2"}
    Item = {"here", "there"}
    Remote = {"there"}
    MaxMoves = 2
    MaxEdits = 1
    MaxBreaks = 1
SYMMETRY Symmetry
CONSTRAINTS
    Unraced
    OneTrash
INVARIANTS
    ServicesTypeOK
    JournalFollowsBoard
    EachApprovalOnce
    KeptInOnePlace
    RowFollowsEngine
    AuditExplainsPayment
    AuditIsTrue
    AttemptIsWhole
    GoalIsDecidedOnce
    JobTellsTheTruth
    WatcherIsKnown
    VoiceIsCurrent
    AvatarFollows
    EvidenceTellsTheTruth
    TrashKeepsContent
CHECK_DEADLOCK FALSE
