SPECIFICATION ProbeSpec
CONSTANT NumKeys = 4
INVARIANTS
  EvidenceIsExact
  VerdictCleansUp
PROPERTY ImplementsAudit
CHECK_DEADLOCK FALSE
