SPECIFICATION Spec
CONSTANTS
  NoWorkload = NoWorkload
  MaxArgs = 2
  ArgLen = 3
  PathLen = 4
  Readable = {"a", "p", "t", "e"}
  Lossy = "U"
  Calls <- MCCalls
  PolicySets <- MCPolicySets
INVARIANTS
  CompleteEvidenceIsExact
  FittingCallIsComplete
  AcceptedInvocationIsAllowed
  DeniedAlwaysWins
  AttemptNeedsApproval
  NoBorrowedPolicy
CHECK_DEADLOCK FALSE
