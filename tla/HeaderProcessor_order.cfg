SPECIFICATION Spec
CONSTANTS
  Uint64Size = 64
  MinAttestationWindow = 2
  LastEpoch = 3
  EpochLen = 6
  AttestWindow = 3
  PoseidonHashes = {0, 8}
  RetryOptions <- TwiceOrForEver
  HttpAhead = 7
  HttpBehind = 5
INVARIANTS TypeOK DoInsideWindow HashIsOfTarget
PROPERTIES EventsInOrder FetchEnds
CHECK_DEADLOCK FALSE
