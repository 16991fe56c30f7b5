SPECIFICATION ProgramSpec
CONSTANTS
  MaxSubs = 1
  MaxFailures = 1
  MaxRetries <- RetryTwice
  Cancellable = FALSE
INVARIANT UnreachableIsRetried
CHECK_DEADLOCK FALSE
