SPECIFICATION FeedSpec
CONSTANTS
  NumBuckets = 2
  End <- TwoStreams
  FirstExpected = 1
  Backfill = 0
  MaxBatch = 2
  NakDelay = 0
  NakRepeat = 1
  RepairRetry = 1
  GiveUp = 1
  RingSize = 2
  EndRounds = 2
  MaxPipelined = 2
INVARIANTS
  AsksBelowSeen
PROPERTIES
  WrittenOffForAReason
