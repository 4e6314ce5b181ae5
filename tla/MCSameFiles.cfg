SPECIFICATION Spec
CONSTANTS
  None = None
  Missing = Missing
  Normal <- MCNormal
  IdSet <- MCIdSet
  NonceOf <- MCNonceOf
  TrimStart <- MCTrimStart
  MaxPcr = 23
  Configs <- MCConfigs
  PolicyFile <- MCPolicyFile
  DefaultPolicyFile <- MCDefault
  Container = {"c1", "c2"}
  NamedBy <- MCNamedBy
  Pid = {1, 2}
  MaxTargets = 2
  MaxStarts = 1
INVARIANT SamePolicyFilesLoad
CHECK_DEADLOCK FALSE
