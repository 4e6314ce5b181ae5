SPECIFICATION FairSpec
CONSTANTS
  t1 = t1
  t2 = t2
  t3 = t3
  None = None
  Task <- MCTask
  CgroupOf <- MCCgroupOf
  Targets <- MCTargets
  HostWide = FALSE
  CaptureArgv = TRUE
  EntryPoints = {"execve", "execveat"}
  Capacity = 2
INVARIANTS
  TypeOK
  EveryEventAccounted
  NumbersAreGapFree
  AttemptPrecedesExec
PROPERTIES
  EverySubmittedEventRead
  SigintFinishes
CHECK_DEADLOCK FALSE
