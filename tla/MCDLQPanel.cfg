SPECIFICATION PanelSpec
CONSTANTS
  Job = {"j1"}
  Attempt = {3}
  Run = {"r1"}
  MaxFailures = 3
  MaxFaults = 2
  MaxCleanups = 1
  All = "all"
  Fetcher = {"f1"}
  MaxClicks = 2
  MaxOutages = 1
  NoStatus = NoStatus
PROPERTIES PanelSettles
