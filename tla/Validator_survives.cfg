SPECIFICATION Spec
CONSTANTS
  Uint64Size = 64
  MinAttestationWindow = 2
  LastEpoch = 2
  EpochLen = 5
  AttestWindow = 3
  Poseidon = 1
  MaxReorgs = 1
  MaxDepth = 2
  MaxSubs = 2
  MaxTxs = 2
  MaxFaults = 1
INVARIANTS TypeOK HashFollowsChain
PROPERTIES WindowSurvives FirstSubscriptionSurvives
CHECK_DEADLOCK FALSE
