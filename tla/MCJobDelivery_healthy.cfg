SPECIFICATION Spec
CONSTANTS
  Msg = {m1}
  Worker = {w1, w2}
  m1 = m1
  w1 = w1
  w2 = w2
  NoMsg = NoMsg
  Payload <- Mixed
  Armable <- Lab
  MaxAttempts = 2
  Faults = {"dlq", "restart"}
INVARIANTS
  TypeOK
  OnePromptHandler
PROPERTIES
  HealthyJobsComplete
  ImplementsContract
