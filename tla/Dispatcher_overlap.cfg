SPECIFICATION Spec
CONSTANTS
  MaxEpoch = 2
  MaxNonce = 0
  MaxTxs = 2
  Windows <- Epochs
  Feed = "overlapping"
  Braavos = TRUE
INVARIANTS OneInFlight SignedAsSent NonceIsFresh
PROPERTIES ImplementsAttestation
CHECK_DEADLOCK FALSE
