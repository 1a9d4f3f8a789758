\* The installed drive: 0210H without its direction bit.
SPECIFICATION FairSystemSpec
CONSTANTS
    NotFinite = NotFinite
    Requests <- OneWay
    SpeedCommands <- OneSpeed
    Resets <- NoResets
    Links <- Links_
    Parameters <- Parameters_
    Feedbacks <- Feedbacks_
    Readbacks <- Readbacks_
    Configs <- Configs_
    Frequencies <- OneFrequency
    InitialDrives <- FoundAtRest
    DriveFaults <- NoFaults
    Unreliable <- NoCommands
    ErrorThreshold = 2
    DirectionReported = FALSE
    Patient = FALSE
PROPERTIES RunReachesSpeed
