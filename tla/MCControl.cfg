\* Every invocation and drive, five transactions that may fail, a drive that trips; a run of
\* 1.1 s.
SPECIFICATION Spec
CONSTANTS
    Invocations <- AllInvocations
    InitialDrives <- AllDrives
    DriveFaults <- OneFault
    Unreliable <- SomeEntries
    SettleTurns <- Sleeps
    RunTurns = 22
    CloseTurns = 4
INVARIANTS TypeOK ConfigurationVerified
PROPERTIES RunOnlyVerified StopConfirmedTrue ConfiguredAtRest
CHECK_DEADLOCK FALSE
