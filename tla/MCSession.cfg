CONSTANTS
  Capture <- Captures
  Replayed <- Few
  PacketCount = 3
  PaceBlock = 1
  BlockTime = 2
  IdleStop = 2
  StartTimeout = 3
  SocketRoom = 2
SPECIFICATION Spec
INVARIANTS
  TypeOK
  YieldsTheCapture
  PayloadInFrame
  VerdictsAgree
  HeardOut
  ExitTellsWhy
PROPERTIES
  SessionEnds
