SPECIFICATION ProgramSpec
CONSTANTS
  MaxSubs = 2
  MaxFailures = 2
  MaxRetries <- RetryOnce
  Cancellable = TRUE
INVARIANTS ProgramTypeOK OneFeed GivesUpInTime
PROPERTIES AbandonedStops FailureEndsFeed ErrorEndsProgram ReleaseReported DrainingForEver
CHECK_DEADLOCK FALSE
