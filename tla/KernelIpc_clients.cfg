CONSTANTS
  s = s
  a = a
  b = b
  d = d
  p = p
  ch1 = ch1
  ch2 = ch2
  n1 = n1
  None = None
  Threads = {s, a, b, p}
  Objects = {ch1, ch2, n1}
  Channels = {ch1}
  Notifs = {n1}
  ReadyCap = 3
  WaitCap = 2
  Buffered = {s, a, b, p}
  FsChannel = ch1
  Uses <- OnAll
  Boot = s
  Program <- TwoClientProgram
SPECIFICATION FairSpec
PROPERTIES
  CallReturns
  ReadyRuns
