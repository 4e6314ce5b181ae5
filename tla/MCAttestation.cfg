SPECIFICATION Spec
CONSTANTS
  None = None
  Torn = Torn
  Unreadable = {None, Torn}
  Event <- MCEvent
  Verdict <- MCVerdict
  WorkloadOf <- MCWorkloadOf
  Session = "s1"
  Setups <- MCSetups
  EarlierSummary <- MCEarlierSummary
  MaxSamples = 3
  MaxLost = 1
  MaxSummaryCalls = 1
INVARIANTS
  HonestSessionVerifies
  VerdictOnlyWhenSealed
  StatusMatchesDecision
  AcceptedIsAnchored
  RequiredQuoteIsGenuine
  DamagedLogRejected
  DamagedSummaryRejected
CHECK_DEADLOCK FALSE
