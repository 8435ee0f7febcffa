SPECIFICATION Spec
CONSTANTS
  Storable <- AnyBook
  MaxOrderQuantity = 2
  MaxNotional = 9
  Symbols = 2
  MarketSymbols = 1
  Orders = 3
  ManualOrders = 2
  SeedTries = 2
  MidStart = 3
  MidLow = 2
  MidHigh = 3
  Spreads = {1}
  Offsets = {1}
  LotSizes = {2}
  PropertyPrices = {3}
  PropertyQuantities = {2}
  PropertyTimesInForce = {"GTC"}
INVARIANTS
  ShrunkMinimal
  RenumberFaithful
  LogReplays
PROPERTY
  ToolEnds
