SPECIFICATION Spec
CONSTANT Items = 2
INVARIANTS
  
  NothingReadIsLost
  UnverifiedKeyIsNoPass
  
  PassIsSound
CHECK_DEADLOCK FALSE
