SPECIFICATION Spec
CONSTANTS
  No = No
  NotGiven = No
  Bad = Bad
  Garbled = Bad
  Deployments <- MCDeployments
  Versions <- MCVersions
  Editable <- MCEditable
  MaxEdits = 2
INVARIANTS
  ReleasedOnlyToAttestedCode
  FailureIsReal
  SkippedAuthorityIsNoPass
  UnauthorizedMeansExpiredOrHsm
CHECK_DEADLOCK FALSE
