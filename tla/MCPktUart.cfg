\* Two frames of eight bytes for sixteen of 64, a wait of two periods for 150; the sleep
\* is the shortest that is long enough for them: 1 + 1 + 5 + 2 + 1 + 2 * 2 + 1 periods.
SPECIFICATION Spec
CONSTANTS
    Modes <- BothModes
    WAIT_AFTER_SEND_CYCLES = 2
    MAX_CAPTURE_FRAMES = 2
    MAX_CAPTURE_BYTES = 8
    SleepCycles = 15
    Latency = 1
    Failures <- OneFailure
    Answers <- TwoAnswers
    Strays <- TwoStrays
    MostArrivals = 3
    Damages <- Damage
    MostLost = 1
INVARIANTS TypeOK ReportInTime VerdictsTrue
PROPERTIES OnlyTheRequest CaptureFaithful
CHECK_DEADLOCK FALSE
