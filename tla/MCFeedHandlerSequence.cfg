SPECIFICATION Spec
CONSTANTS
  Symbol = {s1}
  OrderId = {1}
  Price <- OnePrice
  SizeLimit = 3
  MaxTape = 4
  MaxSize = 1
  MaxBatch = 4
  MaxCut = 1
INVARIANTS
  AtMostOnceInOrder
  GapsAreCounted
