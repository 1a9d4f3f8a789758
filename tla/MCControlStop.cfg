\* One finite test on a drive at rest over a link that never fails.
SPECIFICATION Spec
CONSTANTS
    Invocations <- OneInvocation
    InitialDrives <- OneDrive
    DriveFaults <- NoFaults
    Unreliable <- NoEntries
    SettleTurns <- Sleeps
    RunTurns = 22
    CloseTurns = 4
INVARIANTS FiniteTestEndsStopped
CHECK_DEADLOCK FALSE
