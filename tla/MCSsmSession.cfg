SPECIFICATION Spec
CONSTANTS
  Plans <- MCPlans
  MaxPolls = 2
  MaxChanges = 1
INVARIANT VerdictWasTrue
PROPERTY Terminates
CHECK_DEADLOCK FALSE
