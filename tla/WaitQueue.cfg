CONSTANTS
  Threads = {a, b, c}
  None = None
  Cap = 4
  FullRemoval = FALSE
SPECIFICATION Spec
INVARIANTS
  TypeOK
  NoHoles
PROPERTY ImplementsFifo
