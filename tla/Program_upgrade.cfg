SPECIFICATION ProgramSpec
CONSTANTS
  MaxSubs = 1
  MaxFailures = 1
  MaxRetries <- RetryTwice
  Cancellable = FALSE
PROPERTY CheckGoesOn
CHECK_DEADLOCK FALSE
