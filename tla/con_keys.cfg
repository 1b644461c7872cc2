SPECIFICATION FairSpec
CONSTANTS
  Keys <- MCKeys
  Switches = FALSE
  Split <- MCCooked
  MaxRead = 2
  MaxKeys = 3
INVARIANTS ReadsWhatWasTyped ReadyMeansReady
PROPERTY EverythingArrives
