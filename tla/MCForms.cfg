SPECIFICATION Spec
CONSTANTS
  MaxRequests = 2
  MaxChanges = 2
  MaxNo = 1
  MaxClicks = 2
  MaxFaults = 1
  MaxMessages = 2
  MaxReplays = 2
  MaxResets = 1
  None = None
INVARIANTS
  TypeOK
  ResultIsOfLastRequest
  StoredOnceWithoutFaults
  FormRefusesFirst
  ReplayIsFaithful
PROPERTY
  FormsSettle
CHECK_DEADLOCK FALSE
