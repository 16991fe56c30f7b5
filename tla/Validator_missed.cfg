SPECIFICATION Spec
CONSTANTS
  Uint64Size = 64
  MinAttestationWindow = 2
  LastEpoch = 2
  EpochLen = 5
  AttestWindow = 3
  Poseidon = 1
  MaxReorgs = 0
  MaxDepth = 2
  MaxSubs = 2
  MaxTxs = 2
  MaxFaults = 0
PROPERTY MakesSureItIsDone
CHECK_DEADLOCK FALSE
