\* A drive left turning or at rest, that ramps through a frequency and trips at any moment;
\* requests that change at any moment.
SPECIFICATION FairRunsSpec
CONSTANTS
    NotFinite = NotFinite
    Requests <- OneWay
    SpeedCommands <- HighSpeed
    Resets <- NoResets
    Links <- Links_
    Parameters <- Parameters_
    Feedbacks <- Feedbacks_
    Readbacks <- Readbacks_
    Configs <- Configs_
    Frequencies <- TwoFrequencies
    InitialDrives <- FoundAnyhow
    DriveFaults <- OneFault
    Unreliable <- NoCommands
    ErrorThreshold = 2
    DirectionReported = TRUE
    Patient = FALSE
INVARIANTS RestIsReal
PROPERTIES AtSpeedTrue StopReachesDrive RunReachesSpeed TripEndsRun
