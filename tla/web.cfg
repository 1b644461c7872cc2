SPECIFICATION FairSpec
CONSTANTS
  WEBIN_CAP = 2
  OutCap = 2
  Impatient <- MCPatient
  MaxBoots = 3
  MaxTyped = 3
  MaxWritten = 3
INVARIANTS TypedInOrder ScreenShowsAll
PROPERTIES BootSettles EofEndsSession
CHECK_DEADLOCK FALSE
