SPECIFICATION FairSpec
CHECK_DEADLOCK FALSE
CONSTANTS
  Publishers = {p1, p2}
  Closers = {c1, c2}
  Channels = {telegram}
  BufSize = 1
  MaxPublish = 1
  MaxResub = 1
PROPERTIES
  CloseReturns
  PublishReturns
  AcceptedIsDispatched
