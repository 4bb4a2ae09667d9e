SPECIFICATION Spec
CHECK_DEADLOCK FALSE
CONSTANTS
  JobIds = {"standup", "reminder"}
  InitialJobs = {"standup"}
  Callers = {"slash"}
  MaxApplies = 1
  MaxFailures = 0
INVARIANTS
  SlashJobsAreKept
