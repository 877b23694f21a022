SPECIFICATION FairSpec
CONSTANTS
  Backoff <- Doubling
  Deadline = 12
  RetryAfters = {0, 3, 13}
  Lag = 1
INVARIANTS SendsBounded AnswerInTime
PROPERTIES Answered
CHECK_DEADLOCK FALSE
