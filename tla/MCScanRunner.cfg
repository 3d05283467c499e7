SPECIFICATION Spec
CONSTANTS
  Registry <- MCRegistry
  Tier <- MCTier
  DependsOn <- MCDependsOn
  Intrusive <- MCIntrusive
  Contents <- MCContents
  Outcomes <- MCOutcomes
  MaxReplacements = 1
  Modes <- MCModes
INVARIANTS
  IInv
  OneFindingPerCheck
  ReadOnlyIsPassive
  VerifiedRestsOnPasses
  NotesNameNonPasses
PROPERTIES
  VerdictsAreFinal
  Terminates
CHECK_DEADLOCK FALSE
