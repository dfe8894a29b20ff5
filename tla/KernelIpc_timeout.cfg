CONSTANTS
  s = s
  a = a
  b = b
  d = d
  p = p
  ch1 = ch1
  ch2 = ch2
  n1 = n1
  None = None
  Threads = {a, b, p}
  Objects = {ch1, ch2, n1}
  Channels = {ch1}
  Notifs = {n1}
  ReadyCap = 3
  WaitCap = 5
  Buffered = {a, b, p}
  FsChannel = ch1
  Uses <- OnAll
  Boot = p
  Program <- TimeoutProgram
SPECIFICATION Spec
INVARIANT QueueOnlyReady
