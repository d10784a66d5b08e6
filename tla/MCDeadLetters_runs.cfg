SPECIFICATION QueueSpec
CONSTANTS
  Job = {"j1","j2"}
  Attempt = {1,2}
  Run = {"r1","r2"}
  MaxFailures = 3
  MaxFaults = 1
  MaxCleanups = 1
  All = "all"
INVARIANTS QueueTypeOK NeverLost PassedIsGone
