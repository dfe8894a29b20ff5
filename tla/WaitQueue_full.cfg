CONSTANTS
  Threads = {a, b, c}
  None = None
  Cap = 4
  FullRemoval = TRUE
SPECIFICATION Spec
INVARIANT NoHoles
