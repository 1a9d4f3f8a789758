\* Requests either way that change at any moment, and a status read that may fail up to the
\* threshold and be reset.
SPECIFICATION RunsSpec
CONSTANTS
    NotFinite = NotFinite
    Requests <- BothWays
    SpeedCommands <- OneSpeed
    Resets <- NoResets
    Links <- Links_
    Parameters <- Parameters_
    Feedbacks <- Feedbacks_
    Readbacks <- Readbacks_
    Configs <- Configs_
    Frequencies <- OneFrequency
    InitialDrives <- FoundAtRest
    DriveFaults <- NoFaults
    Unreliable <- OneRead
    ErrorThreshold = 2
    DirectionReported = TRUE
    Patient = FALSE
INVARIANTS SystemTypeOK RestIsReal
PROPERTIES ReadyIsFresh ReversalAfterRest ClearAfterStop AtSpeedTrue
