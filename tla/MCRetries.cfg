SPECIFICATION Spec
CONSTANTS
  None = None
  Torn = Torn
  Unreadable = {None, Torn}
  Event <- MCEvent
  Verdict <- MCVerdict
  WorkloadOf <- MCWorkloadOf
  Session = "s1"
  Setups <- MCSetups
  EarlierSummary <- MCEarlierSummary
  MaxSamples = 2
  MaxLost = 1
  MaxSummaryCalls = 3
INVARIANTS
  TypeOK
  SealMatchesPhase
  LogReplays
  PcrMatchesLog
  TpmClaimCoversLog
  HonestSessionVerifies
  VerdictOnlyWhenSealed
PROPERTIES
  SealedIsFrozen
  ImplementsSealedLog
CHECK_DEADLOCK FALSE
