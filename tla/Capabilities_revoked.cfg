CONSTANTS
  Pids = {p1, p2}
  Objects = {ch}
  Rights = {S, R}
  None = None
  MaxDerivations = 3
  MaxChildren = 2
  SlotCount = 3
  MaxSpaces = 1
SPECIFICATION Spec
INVARIANT RevokedUnusable
