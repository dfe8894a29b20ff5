SPECIFICATION FairSpec
CONSTANTS
  a = a
  b = b
  Procs = {bash, child}
  First = bash
  Paths = {a, b}
  Size <- MCSize
  MaxFds = 5
  MaxFids = 2
  MaxPipes = 1
  CountMod = 8
  ArgFds = {0, 3, 4}
  MaxCalls = 5
  None = None
CHECK_DEADLOCK FALSE
INVARIANTS
  TypeOK
  OneName
  ExecLoadsProgram
  OpenIsNamed
  PipeCounts
PROPERTIES
  CallEnds
