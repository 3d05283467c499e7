SPECIFICATION ProbeSpec
CONSTANT NumKeys = 4
INVARIANT NothingLeftBehind
CHECK_DEADLOCK FALSE
