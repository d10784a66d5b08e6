SPECIFICATION Spec
CONSTANTS
  StatusClicks = 1
  MaxChanges = 2
  FeedClicks = 2
  FeedEvents = 1
  Entry <- Entries
  Caps = {1}
  FeedCap = 2
  LogEvents = 3
  LogClicks = 3
  InspectorJob = {"j1", "j2"}
  InspectorClicks = 3
  MaxNo = 3
  BatchSizes = {2}
  LogCap = 2
  FormClicks = 2
  MaxEdits = 1
  MaxSwitches = 1
  MaxOutages = 1
  None = None
INVARIANTS
  TypeOK
  BusyMeansInFlight
  EmptyMeansFiltered
  DetailMatchesSelection
  CloseDismisses
  OneSubmitAtATime
  ReceiptsAreStored
  BurstInOrder
  RetryIsSuppressed
PROPERTY
  ScreensSettle
CHECK_DEADLOCK FALSE
