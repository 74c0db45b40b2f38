CONSTANTS
  Wait = {timer, pr}
  Charging = {timer}
  MaxWakes = 2
  MaxAttempts = 3
  LateAck = TRUE
  MaxFaults = 1
  MaxRestarts = 1
  MaxTalk = 1
SPECIFICATION FairSpec
INVARIANTS BudgetHolds BackoffIsAPause OpenWaitsAreWatched WakesHaveASource
PROPERTIES ResultsEndOnPurpose FailedRunsKeepResults WakesEnd
CHECK_DEADLOCK FALSE
