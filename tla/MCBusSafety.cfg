SPECIFICATION Spec
SYMMETRY PublisherSymmetry
CHECK_DEADLOCK FALSE
CONSTANTS
  Publishers = {p1, p2}
  Closers = {c1, c2}
  Channels = {telegram}
  BufSize = 1
  MaxPublish = 2
  MaxResub = 1
INVARIANTS
  TypeOK
  NoSendOnClosedChannel
  BusInv
  EveryPublishAccountedFor
  DispatchedInOrder
PROPERTIES
  ClosedForGood
  ImplementsContract
