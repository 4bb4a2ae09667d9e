SPECIFICATION Spec
CHECK_DEADLOCK FALSE
CONSTANTS
  JobIds = {"standup"}
  Schedule <- MCSchedule
  InitialJobs = {}
  BadPayload = {}
  DeleteAfterRun = {}
  MaxConcurrent = 1
  Hour = 10
  MaxTime = 5
  MaxServices = 1
  MaxStops = 0
  MaxRestarts = 0
  MaxToggles = 0
  MaxLoadErrors = 0
  MaxSaveErrors = 0
INVARIANTS
  RepeatingJobsAreOnTime
