\* The Interlock values of MCSequencer.
SPECIFICATION HistorySpec
CONSTANTS
    NotFinite = NotFinite
    Requests <- InterlockRequests
    SpeedCommands <- InterlockSpeeds
    Resets <- InterlockResets
    Links <- InterlockLinks
    Parameters <- InterlockParameters
    Feedbacks <- InterlockFeedbacks
    Readbacks <- InterlockReadbacks
    Configs <- InterlockConfigs
INVARIANTS TypeOK FaultConsistent RunWordJustified NoRestartOnStandingRequest
PROPERTIES FaultKept FrequencyRetained NoReversalWithoutRest OneResetPerPress ImplementsContract
