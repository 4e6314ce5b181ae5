SPECIFICATION Spec
CONSTANTS
  t1 = t1
  t2 = t2
  t3 = t3
  None = None
  Task <- MCTask
  CgroupOf <- MCCgroupOf
  Targets <- MCTargets
  HostWide = FALSE
  CaptureArgv = TRUE
  EntryPoints = {"execve"}
  Capacity = 2
INVARIANT SigintIsGraceful
CHECK_DEADLOCK FALSE
