--------------------------- MODULE MCCronService ---------------------------
(* Jobs for the runs of CronService: a repeating one, a one-shot and one   *)
(* that was saved with a payload that no longer validates.                 *)
EXTENDS CronService
MCSchedule == [id \in JobIds |->
  CASE id = "standup"  -> [kind |-> "cron", t |-> 1]
    [] id = "reminder" -> [kind |-> "at", t |-> 3]
    [] id = "broken"   -> [kind |-> "every", t |-> 2]]
=============================================================================
