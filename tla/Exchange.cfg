SPECIFICATION Spec
CONSTANTS
  Storable <- SmallStorage
  Commands <- SmallCommands
  MaxOrderQuantity = 2
  MaxNotional = 3
  OrderIds = {1, 2, 3}
  PriceSet = {0, 1, 2, 3}
  QuantitySet = {0, 1, 2, 3}
  PoolCapacity = 2
  BandTop = 2
  MaxSeq = 5
INVARIANTS
  AcceptedIsAnswered
  PreviewExact
  ReplayAgrees
  RestingWithinLimits
CHECK_DEADLOCK FALSE
