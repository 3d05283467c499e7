SPECIFICATION Spec
CONSTANTS
  NA = NA
  Unread = Unread
  Unassessed = NA
  Unreadable = Unread
  Contents <- MCContents
  MaxReplacements = 0
  Modes <- MCModes
INVARIANTS
  AllowedEvidenceIsReported
PROPERTY FindingsImplementGate
CHECK_DEADLOCK FALSE
