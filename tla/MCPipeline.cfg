SPECIFICATION PipelineSpec
CONSTANTS
  t1 = t1
  t2 = t2
  None = None
  Torn = Torn
  Unreadable = {None, Torn}
  Task <- MCTask
  CgroupOf <- MCCgroupOf
  Targets <- MCTargets
  HostWide = FALSE
  CaptureArgv = TRUE
  EntryPoints = {"execve", "execveat"}
  Capacity = 2
  Verdict <- MCVerdict
  WorkloadOf <- MCWorkloadOf
  Session = "s1"
  Setups <- MCSetups
  EarlierSummary <- MCEarlierSummary
INVARIANT AcceptedRunIsComplete
PROPERTY StopEndsInSummary
CHECK_DEADLOCK FALSE
