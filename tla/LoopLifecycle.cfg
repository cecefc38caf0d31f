SPECIFICATION Spec
CONSTANTS
  Beats = {b1}
  StateStatuses = {"RUNNING", "COMPLETED", "AWAITING_USER"}
  MaxRecoveryAttempts = 2
  MaxBoots = 3
  MaxKills = 1
INVARIANTS
  TypeOK
  RunningNotWrittenOff
  CleanExitIsNoError
  CancelStopsCompletion
  VerdictBehindFinal
PROPERTIES
  RetryKeepsToken
  LoopSettles
CHECK_DEADLOCK FALSE
