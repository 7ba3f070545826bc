SPECIFICATION Spec
CONSTANTS
  misscoped = misscoped
  unfilled = unfilled
  sound = sound
  none = none
  breach = breach
  gap = gap
  slip = slip
  doubt = doubt
  Contents = {misscoped, unfilled, sound}
  NoFacts = none
  Violations = {breach}
  Remarks = {gap, slip, doubt}
  Repairable = {breach, gap, slip}
  Ambiguous = {doubt}
  Contract <- MCContract
  Skeleton <- MCSkeleton
  Configs <- MCConfigs
  MaxReviews = 3
  MaxRepairs = 2
  MaxHumanRounds = 2
  MaxStalls = 1
  MaxAttempts = 2
  MaxCalls = 7
  ClosureRounds = 3
INVARIANTS
  TypeOK
  AcceptedWasCleared
PROPERTIES
  CandidateIsolated
  BlockedIsFinal
  GateReturns
CHECK_DEADLOCK FALSE
