SPECIFICATION Spec
CHECK_DEADLOCK FALSE
CONSTANTS
  JobIds = {"standup", "reminder"}
  Schedule <- MCSchedule
  InitialJobs = {"standup"}
  BadPayload = {}
  DeleteAfterRun = {"reminder"}
  MaxConcurrent = 1
  Hour = 10
  MaxTime = 4
  MaxServices = 2
  MaxStops = 0
  MaxRestarts = 1
  MaxToggles = 0
  MaxLoadErrors = 0
  MaxSaveErrors = 0
INVARIANTS
  TypeOK
  SlotFiresOnce
  RunsDoNotOverlap
  OneShotsFireOnceOnTime
  RemovedStaysRemoved
  NoJobStalls
PROPERTIES
  JobsSurvive
