SPECIFICATION Spec
CONSTANTS
  NumBuckets = 1
  RingSize = 2
  MaxBatch = 2
  EndRounds = 1
  Msg = {m1}
  EndMsg = EndMsg
  Blank = Blank
  Client = {c1, c2}
  Free = Free
  Main = Main
  Sequence <- SharedSlot
  MaxPublished = 2
  MaxPipelined = 1
  MaxUnread = 0
SYMMETRY Clients
INVARIANTS
  TypeOK
  RingIsTheWindow
  AnswersAreTrue
  SentIsLogged
