SPECIFICATION FairSpec
CHECK_DEADLOCK FALSE
CONSTANTS
  Kinds = {"reload", "compact"}
  Triggers = {"cron"}
  Detached = {}
  Viewers = {}
  MaxMessages = 2
  MaxEdits = 0
  MaxRuntimes = 2
  MaxFailures = 0
PROPERTIES
  ApplyReturns
