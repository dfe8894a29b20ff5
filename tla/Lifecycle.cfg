SPECIFICATION FairSpec
CONSTANTS
  Threads <- MCThreads
  Objects = {}
  ReadyCap = 3
  None = None
  Spaces <- MCSpaces
  LibPages = {lib}
  ProgPages = {prog}
  HeapPages = {heap}
  ArgPages = {prog, heap}
  MaxCalls = 1
INVARIANTS
  TypeOK
  SchedulerConsistent
  WaiterHasLiveChild
  StopsOnlyForSleepers
  FramesSafe
  PageTrackingQuiet
  OneOwner
PROPERTIES
  OnlyKnownLeaks
  NewbornHasNoChildren
  WaitReturns
  ImplementsProcessTree
