SPECIFICATION Spec
CONSTANTS
  Uint64Size = 64
  MinAttestationWindow = 2
  LastEpoch = 1
  EpochLen = 6
  AttestWindow = 3
  PoseidonHashes = {0, 1}
  RetryOptions <- Twice
  HttpAhead = 1
  HttpBehind = 1
INVARIANT HashIsKnown
CHECK_DEADLOCK FALSE
