SPECIFICATION FairSpec
CONSTANTS
  NumBuckets = 2
  RingSize = 1
  MaxBatch = 2
  EndRounds = 2
  Msg = {m1}
  EndMsg = EndMsg
  Blank = Blank
  Client = {c1}
  Free = Free
  Main = Main
  Sequence <- FirstTwo
  MaxPublished = 1
  MaxPipelined = 1
  MaxUnread = 0
PROPERTIES
  ServiceKept
  LockIsReleased
