SPECIFICATION Spec
CONSTANTS
  Storable <- AnyBook
  MaxOrderQuantity = 2
  MaxNotional = 4
  Clients = {"maker", "taker"}
  Frames <- ClientFrames
  MaxFrames = 2
  MaxResponseBytes = 84
INVARIANTS ResponseBounded NoSilentTrade OneAnswerEach NothingStranded
CHECK_DEADLOCK FALSE
