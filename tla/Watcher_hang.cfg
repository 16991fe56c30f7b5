SPECIFICATION Spec
CONSTANTS
  MaxSubs = 2
  MaxFailures = 2
  MaxRetries <- RetryOnce
  Cancellable = FALSE
PROPERTY ErrorReachesMain
CHECK_DEADLOCK FALSE
