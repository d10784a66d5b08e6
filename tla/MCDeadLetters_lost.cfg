SPECIFICATION QueueSpec
CONSTANTS
  Job = {"j1"}
  Attempt = {1,2}
  Run = {"r1","r2"}
  MaxFailures = 2
  MaxFaults = 1
  MaxCleanups = 0
  All = "all"
INVARIANTS DeletedMeansRepublished
