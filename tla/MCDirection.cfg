\* The Interlock values, with two speeds, of MCSequencer.
SPECIFICATION HistorySpec
CONSTANTS
    NotFinite = NotFinite
    Requests <- InterlockRequests
    SpeedCommands <- DirectionSpeeds
    Resets <- SpeedResets
    Links <- OneLink
    Parameters <- InterlockParameters
    Feedbacks <- InterlockFeedbacks
    Readbacks <- InterlockReadbacks
    Configs <- InterlockConfigs
PROPERTIES ConfirmedDirectionWatched
