SPECIFICATION Spec
CONSTANTS
  Msg = {m1, m2}
  Worker = {w1, w2}
  m1 = m1
  m2 = m2
  w1 = w1
  w2 = w2
  NoMsg = NoMsg
  Payload <- Jobs
  Armable <- Crashes
  MaxAttempts = 2
  Faults = {"dlq"}
INVARIANTS
  NoDuplicateExecution
