CONSTANTS
  M = M
  Q = Q
  W = W
  NoFrame = NoFrame
  NoStream = NoStream
  Processes = {M, Q, W}
  Capacity = 3
  HeaderSize = 2
  Sizes = {0, 2}
  MaxFrames <- MCMaxFrames
SPECIFICATION FairSpec
INVARIANTS
  TypeOK
  StreamsIntact
  NobodyStuck
PROPERTIES
  ImplementsFIFO
  WaitsEnd
CHECK_DEADLOCK FALSE
