SPECIFICATION FairSpec
CONSTANTS
  p1 = p1
  p2 = p2
  p3 = p3
  Slots <- MCSlots
  Hops = 2
  Spins = 2
  MaxForks = 3
  MaxBursts = 2
  Assumed <- MCAll
INVARIANTS NoPanic QueueIsRunnable DeadlockIsReal
PROPERTIES Runs_Program Ends
