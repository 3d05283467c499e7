SPECIFICATION Spec
CONSTANTS
  A = A
  No = No
  Gone = Gone
  Bad = Bad
  Absent = A
  NotGiven = No
  NotThere = Gone
  Garbled = Bad
  Nonces <- MCNonces
  Directories <- MCDirectories
  Versions <- MCVersions
  MaxRefreshes = 1
  Refreshable <- MCRefreshable
  Successes <- MCSuccesses
INVARIANTS
  VerifiedReportWasAttested
  RunFollowedAttestation
  PromotionIsEarned
  NothingLeftOutPasses
  HonestCaptureIsVerified
PROPERTY ImplementsRunner
CHECK_DEADLOCK FALSE
