SPECIFICATION FairSpec
CHECK_DEADLOCK FALSE
CONSTANTS
  JobIds = {"standup", "reminder"}
  InitialJobs = {"standup"}
  Callers = {"cron"}
  MaxApplies = 2
  MaxFailures = 0
PROPERTIES
  ApplyEnds
