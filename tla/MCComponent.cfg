\* Three items, so that a registration fails first, last and in between; a counter that
\* comes round after four cycles.
SPECIFICATION Spec
CONSTANTS
    Items = 3
    Frames <- MCFrames
    Modulus = 8
    Registers <- MCRegisters
INVARIANTS TypeOK CycleInitialised NothingLeftBehind SnapshotConsistent EvidenceExplains FaultNamed
CHECK_DEADLOCK FALSE
