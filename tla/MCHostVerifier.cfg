SPECIFICATION Spec
CHECK_DEADLOCK FALSE
CONSTANTS
  Absent = Absent
  Junk = Junk
  False = False
  True = True
  Two = Two
  Text = Text
  Blank = Blank
  Roots = Roots
  Images = Images
  Falsy <- MCFalsy
  NumberIn <- MCNumberIn
  MembersOf <- MCMembersOf
  Inputs <- MCInputs
  Empty <- MCEmpty
  Attesting <- MCAttesting
  Certified <- MCCertified
  GoodHosts <- MCGoodHosts
INVARIANTS
  MalformedBaselineDenies
  HalfAVerdictPassesNothing
  GoodHostIsAllowed
PROPERTY
  ImplementsGate
