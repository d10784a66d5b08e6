SPECIFICATION Spec
CONSTANTS
  Poll = {"p1"}
  Restart = {"r1"}
  Sizes = {1, 3}
  Scenario = {"crash_before_ack"}
  MaxForeign = 1
  MaxWorkers = 2
  MaxSent = 2
  MaxClicks = 2
  MaxOutages = 1
  NoStatus = NoStatus
INVARIANTS
  TypeOK
  CopiesAgree
  MembersMatchCount
PROPERTY
  PanelsSettle
CHECK_DEADLOCK FALSE
