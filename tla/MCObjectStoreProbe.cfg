SPECIFICATION Spec
CONSTANT NumPayloads = 4
INVARIANTS
  EvidenceIsExact
  NothingLeftBehind
PROPERTY ImplementsAudit
CHECK_DEADLOCK FALSE
