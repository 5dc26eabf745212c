\* Deadlines, signals, rejections and the switch, all racing the control task.
SPECIFICATION Spec
CONSTANTS
  Signals <- MCSignals
  Values = {0, 1}
  US_PER_MINUTE = 2
  STALE = 2
  SAFETY_ENABLED = TRUE
  SAFETY_MINUTES = 2
  INITIAL_DELAY = 1
  PERIOD = 1
  MAX_CYCLE = 1
  MinuteChoices = {0, 1, 3}
  Frames = {"temperature_status_charge"}
  Responses = {"rejected", "soc", "other"}
  MaxTime = 9
  MaxRejections = 1
INVARIANTS
  SafetyLimitHolds
  UserTimerHolds
  RemainingHonest
  HeatRequestTimely
  AtMostOneLateRequest
  SessionsAnswerRejections
PROPERTY AutoOffNotEarly
