SPECIFICATION Spec
CONSTANTS
  NSlots = 2
  NWindows = 2
  MaxXfer = 2
  MaxLba = 2
  MaxBlocks = 2
  MaxWrites = 2
  Size = 2
  Assumed <- MCAll
  RingSize = 3
  KMSG_MAX = 3
  Letters = {"a", "b"}
  MaxQueued = 6
  MaxPrinted = 3
  Procs = {1, 2}
  Calls <- MCCalls
  DiskCalls <- MCDiskCalls
  HostCalls <- MCHostCalls
  Fds = {3}
  HostFds = {40, 41}
  Archive <- MCArchive
  Padding = 1
  Image <- MCImage
  MaxPos = 3
  PerCyl = 3
  MaxCyl = 3
  MaxSize = 14
  NDirect = 2
  NIndir = 2
  BSize = 2
  MaxFileBlocks = 7
  Dirs <- MCDirs
  Files = {4}
  Paths <- MCPaths
INVARIANTS Delivered  LabelFits KernelIsRead
PROPERTIES RingDrains WritesInPlace RequestsEnd 
CHECK_DEADLOCK FALSE
