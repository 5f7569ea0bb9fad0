SPECIFICATION Spec
CONSTANTS
  Symbol = {s1}
  OrderId = {1, 2}
  Price <- TwoPrices
  SizeLimit = 3
  MaxTape = 4
  MaxSize = 2
  MaxBatch = 2
  MaxCut = 0
INVARIANTS
  TypeOK
  LevelsAreTheMarket
  LevelsWithinOrders
  UpdatesDrawTheLevels
  TroubleMeansLoss
