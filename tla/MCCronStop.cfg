SPECIFICATION FairSpec
CHECK_DEADLOCK FALSE
CONSTANTS
  JobIds = {"standup", "broken"}
  Schedule <- MCSchedule
  InitialJobs = {"broken"}
  BadPayload = {"broken"}
  DeleteAfterRun = {}
  MaxConcurrent = 1
  Hour = 10
  MaxTime = 3
  MaxServices = 1
  MaxStops = 1
  MaxRestarts = 0
  MaxToggles = 1
  MaxLoadErrors = 1
  MaxSaveErrors = 1
PROPERTIES
  StopReturns
