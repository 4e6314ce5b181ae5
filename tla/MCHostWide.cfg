SPECIFICATION Spec
CONSTANTS
  None = None
  Torn = Torn
  Unreadable = {None, Torn}
  Event <- MCEvent
  Verdict <- MCVerdict
  WorkloadOf <- MCWorkloadOf
  Session = "s1"
  Setups <- MCHostWideSetups
  EarlierSummary <- MCEarlierSummary
  MaxSamples = 3
  MaxLost = 1
  MaxSummaryCalls = 1
INVARIANT HostWideIsTolerated
CHECK_DEADLOCK FALSE
