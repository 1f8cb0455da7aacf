SPECIFICATION Spec
CONSTANTS
    Worker = {w1, w2}
    Task = {"t", "u"}
    Binding <- Bindings
    Forbidden = {"pay"}
    GrantId = {1, 2}
    NoGrant = 0
    NoTask = NoTask
    Ttl = 1
    MaxTime = 2
    MaxLedger = 4
    MaxCrashes = 1
SYMMETRY WorkerSymmetry
INVARIANTS
    HeldTokenIsRegistered
    EvidenceFirst
    OneBreakPerDeath
PROPERTIES
    OneExecution
\* A behaviour may end with a full ledger.
CHECK_DEADLOCK FALSE
