SPECIFICATION Spec
CONSTANTS
  NumBuckets = 2
  HeaderSize = 2
  MessageSize = 2
  OddSize = 3
  BufferCap = 5
  SocketCap = 5
  RequestSize = 2
  Answer <- SomeAnswers
  MaxBreaks = 1
INVARIANTS
  TypeOK
  StreamIsFramed
  RequestsAreFramed
  RoomIsRegained
PROPERTIES
  WriterIsFreed
  ServerIsFreed
  RequestsGetThrough
