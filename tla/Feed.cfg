SPECIFICATION Spec
CONSTANTS
  Symbols = {A, B}
  Bids <- MCBids
  Asks <- MCAsks
  MaxTrades = 1
  MaxSeq = 3
  Count = 5
INVARIANTS GapsExact ViewCurrent
PROPERTIES SubscriberEnds
CHECK_DEADLOCK FALSE
