SPECIFICATION FairBreakerSpec
CONSTANTS
  c1 = c1
  c2 = c2
  c3 = c3
  c4 = c4
  Callers <- MCCallers
  Threshold = 2
  Cooldown = 2
INVARIANTS OneTrialPerOpening TrialInFlight
PROPERTY Recovers
