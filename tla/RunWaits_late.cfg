CONSTANTS
  Wait = {timer, pr}
  Charging = {timer}
  MaxWakes = 1
  MaxAttempts = 2
  LateAck = TRUE
  MaxFaults = 0
  MaxRestarts = 0
  MaxTalk = 0
SPECIFICATION Spec
INVARIANT OwedWakesHaveASource
CHECK_DEADLOCK FALSE
