\* A request withdrawn between the write of 0200H and that of 0201H.
SPECIFICATION SystemSpec
CONSTANTS
    NotFinite = NotFinite
    Requests <- BothWays
    SpeedCommands <- OneSpeed
    Resets <- NoResets
    Links <- Links_
    Parameters <- Parameters_
    Feedbacks <- Feedbacks_
    Readbacks <- Readbacks_
    Configs <- Configs_
    Frequencies <- OneFrequency
    InitialDrives <- FoundAtRest
    DriveFaults <- NoFaults
    Unreliable <- NoCommands
    ErrorThreshold = 2
    DirectionReported = TRUE
    Patient = FALSE
PROPERTIES StopBeforeClear
