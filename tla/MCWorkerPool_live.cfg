SPECIFICATION Spec
CONSTANTS
  Goroutine = {g1, g2, g3}
  MaxWorkers = 2
  Interfaces = {"workers", "state.set"}
  g1 = g1
  g2 = g2
  g3 = g3
PROPERTIES
  CancelledWorkersStop
  DisabledPoolGoesQuiet
  CrashedWorkerReturns
