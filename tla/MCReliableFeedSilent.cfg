SPECIFICATION FairFeedSpec
CONSTANTS
  NumBuckets = 1
  End <- OneStream
  FirstExpected = 1
  Backfill = 0
  MaxBatch = 2
  NakDelay = 0
  NakRepeat = 1
  RepairRetry = 1
  GiveUp = 1
  RingSize = 2
  EndRounds = 1
  MaxPipelined = 1
PROPERTIES
  SilenceEndsRun
