SPECIFICATION LinkSpec
CONSTANTS
  Streams <- CommandStreams
  InitialEngine <- EmptyEngine
  Apply <- ApplyInOrder
  Values <- Commands
  NoValue = none
  Capacity = 2
  InboundCapacity = 2
  OutboundCapacity = 1
  MaxPushes = 7
INVARIANTS NoDataRace MatchesSequential CompleteWhenJoined
PROPERTIES RefinesFifo EventuallyDelivered EventuallyJoined ImplementsPipeline
