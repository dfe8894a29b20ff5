CONSTANTS
  s = s
  a = a
  b = b
  d = d
  p = p
  ch1 = ch1
  ch2 = ch2
  n1 = n1
  None = None
  Threads = {a, b, d, p}
  Objects = {ch1, ch2, n1}
  Channels = {ch1, ch2}
  Notifs = {n1}
  ReadyCap = 3
  WaitCap = 2
  Buffered = {a, b, d, p}
  FsChannel = ch1
  Uses <- PeerUses
  Boot = p
  Program <- PeerProgram
SPECIFICATION Spec
INVARIANTS
  TypeOK
  SchedulerConsistent
  BlockedIffParked
  NoMissedRendezvous
  ResumeJustified
  IInv
  FullOnlyOfWaiters
