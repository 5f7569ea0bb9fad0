SPECIFICATION Spec
CONSTANTS
  NumBuckets = 2
  End <- TwoStreams
  FirstExpected = 0
  Backfill = 1
  MaxBatch = 2
  NakDelay = 0
  NakRepeat = 1
  RepairRetry = 1
  GiveUp = 2
INVARIANTS
  TypeOK
  ExactlyOnceInOrder
PROPERTY
  PromiseKept
