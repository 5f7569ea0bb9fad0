SPECIFICATION Spec
CONSTANTS
  NumBuckets = 1
  End <- LongStream
  FirstExpected = 1
  Backfill = 0
  MaxBatch = 2
  NakDelay = 1
  NakRepeat = 1
  RepairRetry = 1
  GiveUp = 3
INVARIANTS
  NothingForgotten
  HolesAreMissing
  OldestFirst
  ExactlyOnceInOrder
  ArrivedIsNeverLost
PROPERTY
  PromiseKept
