\* The Speed values of MCSequencer.
SPECIFICATION Spec
CONSTANTS
    NotFinite = NotFinite
    Requests <- SpeedRequests
    SpeedCommands <- SpeedSpeeds
    Resets <- SpeedResets
    Links <- SpeedLinks
    Parameters <- SpeedParameters
    Feedbacks <- SpeedFeedbacks
    Readbacks <- SpeedReadbacks
    Configs <- SpeedConfigs
INVARIANTS FrequencyHeld
PROPERTIES ReadyHonest RunOnlyWhenPermitted AtSpeedHonest
