SPECIFICATION Spec
CONSTANTS
  MaxEpoch = 2
  MaxNonce = 2
  MaxTxs = 2
  Windows <- Epochs
  Feed = "complete"
  Braavos = FALSE
INVARIANTS TypeOK BuiltInItsWindow SuccessIsAttested ConfirmedIsAttested
PROPERTY ClosedReturns
CHECK_DEADLOCK FALSE
