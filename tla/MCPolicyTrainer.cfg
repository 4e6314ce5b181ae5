SPECIFICATION Spec
CONSTANTS
  NoWorkload = NoWorkload
  Trimmed <- MCTrimmed
  Absolute = {"/bin/tool", "/bin/sh"}
  Interpreter = {"/bin/sh", "sh"}
  Events <- MCEvents
  Sessions <- MCSessions
  SummaryIds = {"shop", "host-wide"}
  Filters = {NoWorkload, "shop"}
  MaxRecords = 2
  NoFile = NoFile
  Torn = Torn
  EarlierPolicy = EarlierPolicy
INVARIANTS
  TrainedPolicyAcceptsBaseline
  TrainedPolicyIsTight
  PolicyOfOneWorkload
  StatusTellsFiles
CHECK_DEADLOCK FALSE
