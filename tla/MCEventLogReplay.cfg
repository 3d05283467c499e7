SPECIFICATION ReplaySpec
CONSTANTS
  Algs <- MCAlgs
  Known <- MCKnown
  Pcrs <- MCPcrs
  Data <- MCData
  SbOn = "SB=1"
  SbOff = "SB=0"
  Undecodable = {"blob"}
  LocalityData <- MCLocality
  ShortLocality = {"locality ?"}
  Events <- MCEvents
  MaxEvents = 3
  Boots <- MCBoots
  Selections <- MCSelections
INVARIANTS
  SecureBootWasMeasured
  FlagsSummariseLog
  FaithfulLogIsJudgedExactly
  BanksAdvanceTogether
CHECK_DEADLOCK FALSE
