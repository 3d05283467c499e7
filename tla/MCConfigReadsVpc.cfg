SPECIFICATION Spec
CONSTANT Items = 2
INVARIANT ActivePeeringIsReported
CHECK_DEADLOCK FALSE
