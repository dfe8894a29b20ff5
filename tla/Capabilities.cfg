CONSTANTS
  Pids = {p1, p2, p3}
  Objects = {ch}
  Rights = {S}
  None = None
  MaxDerivations = 4
  MaxChildren = 2
  SlotCount = 3
  MaxSpaces = 2
SYMMETRY Symmetry
SPECIFICATION Spec
INVARIANTS
  TypeOK
  MarkTellsChain
  RightsOnlyShrink
  HeldOnce
  CapInv
PROPERTY
  RevokesOnlyBelow
