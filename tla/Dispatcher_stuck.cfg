SPECIFICATION Spec
CONSTANTS
  MaxEpoch = 1
  MaxNonce = 1
  MaxTxs = 1
  Windows <- Epochs
  Feed = "complete"
  Braavos = FALSE
INVARIANT OngoingIsTracked
CHECK_DEADLOCK FALSE
