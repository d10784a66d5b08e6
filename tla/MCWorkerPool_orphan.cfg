SPECIFICATION Spec
CONSTANTS
  Goroutine = {g1, g2, g3, g4}
  MaxWorkers = 2
  Interfaces = {"workers", "state.set", "http"}
  g1 = g1
  g2 = g2
  g3 = g3
  g4 = g4
INVARIANTS
  NoOrphan
SYMMETRY Symmetry
