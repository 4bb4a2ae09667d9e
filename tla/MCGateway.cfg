SPECIFICATION FairSpec
CHECK_DEADLOCK FALSE
CONSTANTS
  Kinds = {"new", "bad", "direct", "reload", "sync", "stream", "compact"}
  Triggers = {"cron"}
  Detached = {"consolidate"}
  Viewers = {"viewer"}
  MaxMessages = 1
  MaxEdits = 1
  MaxRuntimes = 3
  MaxFailures = 1
INVARIANTS
  TypeOK
  TurnsKeepTheirRuntime
  TurnIsOfOneApply
  RuntimesAreClosedOnce
  
PROPERTIES
  ApplyReturnsUnlessFlushing
  ShutdownReturns
  RequestedFilesAreRead
