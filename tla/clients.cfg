SPECIFICATION ClientsSpec
CONSTANTS
  None = None
  MaxAttempts = 3
  RetryOn = {"down"}
  MaxText = 2
  MaxNoise = 1
INVARIANT AnswersWhole
PROPERTY ExchangesEnd
CHECK_DEADLOCK FALSE
