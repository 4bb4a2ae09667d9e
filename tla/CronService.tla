---------------------------- MODULE CronService ----------------------------
(***************************************************************************)
(* internal/plugins/trigger/cron: the job table, its run loop, the fires   *)
(* in flight and the jobs.json they all write. The table belongs to one    *)
(* Service object; a reload or a restart makes the next one from the same  *)
(* file, so the state is indexed by service. Sections under s.mu are one   *)
(* action each; a save ends every section that has one.                    *)
(***************************************************************************)
EXTENDS Integers, SequencesExt, FiniteSets

CONSTANTS
  JobIds,         \* ids a job can have, a fresh one per AddJob
  Schedule,       \* id -> [kind, t]: at time t, every t, or cron: multiples of t
  InitialJobs,    \* jobs in the file before the first start
  BadPayload,     \* those whose payload does not validate
  DeleteAfterRun, \* those with deleteAfterRun
  MaxConcurrent,  \* gateway.cron.maxConcurrentRuns
  Hour,           \* the delay of an idle loop
  MaxTime,        \* bound: clock
  MaxServices,    \* bound: service objects
  MaxStops,       \* bound: calls of Stop
  MaxRestarts,    \* bound: crashes of the process
  MaxToggles,     \* bound: EnableJob calls
  MaxLoadErrors,  \* bound: starts that cannot read or parse the file
  MaxSaveErrors   \* bound: saves that fail

ASSUME CronAssumption ==
  /\ Schedule \in [JobIds -> [kind : {"at", "every", "cron"}, t : Nat \ {0}]]
  /\ IsFiniteSet(JobIds) /\ InitialJobs \subseteq JobIds
  /\ MaxConcurrent \in Nat \ {0} /\ MaxServices \in Nat
  /\ Hour \in Nat /\ MaxTime \in Nat \ {0}

Services == 1..MaxServices
Job == [enabled : BOOLEAN, next : Nat, last : Nat]
IsTable(t) == DOMAIN t \subseteq JobIds /\ \A id \in DOMAIN t : t[id] \in Job
Empty == [id \in {} |-> [enabled |-> FALSE, next |-> 0, last |-> 0]]

VARIABLES
  now,                    \* time.Now().UnixMilli(), in coarse ticks
  disk, saveErrors,       \* jobs.json; saves that failed
  cur, dead,              \* last service made; services whose process is gone
  jobs,                   \* service -> s.jobs
  lpc, deadline, wake,    \* service -> run loop: where, its timer, s.wakeChan
  stopped, stopping,      \* service -> s.stopChan closed; where Stop is
  ctxDone,                \* the ctx given to Start is done
  fires,                  \* every fire so far: service, job, NextRunAtMs it took, state
  added, removed,         \* ids added through AddJob / removed through RemoveJob
  restarts, toggles, loadErrors

fileVars == <<disk, saveErrors>>
loopVars == <<lpc, deadline, wake>>
lifeVars == <<cur, dead, stopped, stopping, ctxDone, restarts, loadErrors>>
userVars == <<added, removed, toggles>>
vars == <<now, jobs, fires, fileVars, loopVars, lifeVars, userVars>>

IsAt(id) == Schedule[id].kind = "at"

\* Schedule.Next, 0 for the zero time.
NextRun(id, from) ==
  LET sch == Schedule[id] IN
  CASE sch.kind = "at"    -> IF sch.t >= from THEN sch.t ELSE 0
    [] sch.kind = "every" -> from + sch.t
    [] sch.kind = "cron"  -> (from \div sch.t + 1) * sch.t

\* The next run of a job counted from its last one, or from now if it never ran.
NextFrom(id, j) == NextRun(id, IF j.last = 0 THEN now ELSE j.last)

\* Mutation of EnsureNextRun: a job that has run before is taken to be on the schedule.
EnsureNextRunFresh(table) ==
  [id \in DOMAIN table |->
     IF table[id].enabled /\ table[id].next = 0 /\ table[id].last = 0
     THEN [table[id] EXCEPT !.next = NextFrom(id, table[id])] ELSE table[id]]

\* ensureNextRunLocked: an enabled job of the file without a next run gets one.
EnsureNextRun(table) ==
  [id \in DOMAIN table |->
     IF table[id].enabled /\ table[id].next = 0
     THEN [table[id] EXCEPT !.next = NextFrom(id, table[id])] ELSE table[id]]

\* Mutation of IsDue: a cleared next run counts as long past.
IsDueCleared(j) == j.enabled /\ now >= j.next

IsDue(j) == j.enabled /\ j.next > 0 /\ now >= j.next

NextDelay(table) ==
  LET Rem == {IF table[id].next > now THEN table[id].next - now ELSE 0 :
                id \in {i \in DOMAIN table : table[i].enabled /\ table[i].next > 0}}
  IN IF Rem = {} THEN Hour ELSE CHOOSE r \in Rem : \A q \in Rem : r <= q

\* Mutations of Take: the next run stays, the one-shot stays enabled, or the job is
\* put back on the schedule before it has run.
TakeKeepsNext(id, j) == [j EXCEPT !.enabled = ~IsAt(id)]
TakeKeepsEnabled(id, j) == [j EXCEPT !.next = 0]
TakeReschedules(id, j) == [j EXCEPT !.next = NextRun(id, now), !.enabled = ~IsAt(id)]

\* What checkAndFire does to a due job before its goroutine starts.
Take(id, j) == [j EXCEPT !.next = 0, !.enabled = ~IsAt(id)]

\* Mutations of AfterRun: the copy taken at fire time is written back, and every
\* job is deleted after its run.
AfterRunFromCopy(table, id) ==
  [i \in DOMAIN table \cup {id} |->
     IF i = id THEN [enabled |-> ~IsAt(id), last |-> now, next |-> NextRun(id, now)] ELSE table[i]]
AfterRunDeletes(table, id) == Restrict(table, DOMAIN table \ {id})

\* What fire does to the table after the run of id: nothing if id is gone.
AfterRun(table, id) ==
  IF id \notin DOMAIN table THEN table
  ELSE IF id \in DeleteAfterRun THEN Restrict(table, DOMAIN table \ {id})
  ELSE [table EXCEPT ![id] =
          [enabled |-> @.enabled /\ ~IsAt(id), last |-> now,
           next |-> IF IsAt(id) THEN 0 ELSE NextRun(id, now)]]

Terminal == {"done", "skipped", "lost"}
Pending(s) == {i \in DOMAIN fires : fires[i].svc = s /\ fires[i].pc \notin Terminal}
\* Mutation of Running: a lane slot is never released.
RunningLeak(s) == {i \in DOMAIN fires : fires[i].svc = s /\ fires[i].pc \in {"run", "deliver", "done"}}

\* The fires of s that hold its lane.
Running(s) == {i \in DOMAIN fires : fires[i].svc = s /\ fires[i].pc \in {"run", "deliver"}}
Alive(s) == s <= cur /\ s \notin dead

SaveFails == saveErrors < MaxSaveErrors /\ saveErrors' = saveErrors + 1 /\ UNCHANGED disk

\* A critical section of s that ends in saveAtomicLocked: the temp file and the
\* rename leave either the new file or, after an error that is logged, the old one.
Write(s, table) ==
  /\ jobs' = [jobs EXCEPT ![s] = table]
  /\ (disk' = table /\ UNCHANGED saveErrors) \/ SaveFails

Init ==
  /\ now = 1
  /\ disk = [id \in InitialJobs |-> [enabled |-> TRUE, next |-> 0, last |-> 0]]
  /\ cur = 0 /\ dead = {}
  /\ jobs = [s \in Services |-> Empty]
  /\ lpc = [s \in Services |-> "off"]
  /\ deadline = [s \in Services |-> 0]
  /\ wake = [s \in Services |-> FALSE]
  /\ stopped = {} /\ stopping = [s \in Services |-> "no"]
  /\ ctxDone = FALSE
  /\ fires = <<>>
  /\ added = InitialJobs /\ removed = {}
  /\ restarts = 0 /\ toggles = 0 /\ loadErrors = 0 /\ saveErrors = 0

-----------------------------------------------------------------------------
(* Start, Stop and the end of the process *)

\* A new service on the same file, once the last one was stopped or its process died.
\* A file that cannot be read is logged and the empty table is saved over it.
Start(s) ==
  /\ s = cur + 1
  /\ cur > 0 => cur \in dead \/ stopping[cur] = "returned"
  /\ \/ Write(s, EnsureNextRun(disk)) /\ UNCHANGED loadErrors
     \/ /\ loadErrors < MaxLoadErrors
        /\ Write(s, Empty) /\ loadErrors' = loadErrors + 1
  /\ cur' = s
  /\ lpc' = [lpc EXCEPT ![s] = "plan"]
  /\ UNCHANGED <<now, fires, deadline, wake, dead, stopped, stopping, ctxDone, restarts, userVars>>

StopCall(s) ==
  /\ s = cur /\ Alive(s) /\ stopping[s] = "no" /\ Cardinality(stopped) < MaxStops
  /\ stopped' = stopped \cup {s}
  /\ stopping' = [stopping EXCEPT ![s] = "waiting"]
  /\ UNCHANGED <<now, fileVars, jobs, fires, loopVars, cur, dead, ctxDone, restarts, loadErrors, userVars>>

\* fireWg.Wait: nothing waits for the run loop itself.
StopReturn(s) ==
  /\ stopping[s] = "waiting" /\ Alive(s) /\ Pending(s) = {}
  /\ stopping' = [stopping EXCEPT ![s] = "returned"]
  /\ UNCHANGED <<now, fileVars, jobs, fires, loopVars, cur, dead, stopped, ctxDone, restarts,
                 loadErrors, userVars>>

CancelCtx ==
  /\ ~ctxDone /\ cur > 0 /\ Alive(cur)
  /\ ctxDone' = TRUE
  /\ UNCHANGED <<now, fileVars, jobs, fires, loopVars, cur, dead, stopped, stopping, restarts,
                 loadErrors, userVars>>

\* The process dies or exits; what it had not saved is gone.
Crash ==
  /\ restarts < MaxRestarts /\ cur > 0 /\ cur \notin dead
  /\ restarts' = restarts + 1
  /\ dead' = 1..cur
  /\ lpc' = [s \in Services |-> IF s <= cur THEN "exited" ELSE lpc[s]]
  /\ fires' = [i \in DOMAIN fires |->
                 IF fires[i].pc \in Terminal THEN fires[i] ELSE [fires[i] EXCEPT !.pc = "lost"]]
  /\ ctxDone' = FALSE
  /\ UNCHANGED <<now, fileVars, jobs, deadline, wake, cur, stopped, stopping, loadErrors, userVars>>

Tick ==
  /\ now < MaxTime
  /\ now' = now + 1
  /\ UNCHANGED <<fileVars, jobs, fires, loopVars, lifeVars, userVars>>

-----------------------------------------------------------------------------
(* runLoop and checkAndFire *)

LoopPlan(s) ==
  /\ lpc[s] = "plan"
  /\ deadline' = [deadline EXCEPT ![s] = now + NextDelay(jobs[s])]
  /\ lpc' = [lpc EXCEPT ![s] = "wait"]
  /\ UNCHANGED <<now, fileVars, jobs, fires, wake, lifeVars, userVars>>

LoopWake(s) ==
  /\ lpc[s] = "wait" /\ wake[s]
  /\ wake' = [wake EXCEPT ![s] = FALSE]
  /\ lpc' = [lpc EXCEPT ![s] = "plan"]
  /\ UNCHANGED <<now, fileVars, jobs, fires, deadline, lifeVars, userVars>>

LoopTimer(s) ==
  /\ lpc[s] = "wait" /\ now >= deadline[s]
  /\ lpc' = [lpc EXCEPT ![s] = "fire"]
  /\ UNCHANGED <<now, fileVars, jobs, fires, deadline, wake, lifeVars, userVars>>

LoopExit(s) ==
  /\ lpc[s] = "wait" /\ (s \in stopped \/ ctxDone)
  /\ lpc' = [lpc EXCEPT ![s] = "exited"]
  /\ UNCHANGED <<now, fileVars, jobs, fires, deadline, wake, lifeVars, userVars>>

\* Due jobs lose their next run, one-shots are disabled, the table is saved, and
\* one goroutine per due job is spawned.
CheckAndFire(s) ==
  LET due == {id \in DOMAIN jobs[s] : IsDue(jobs[s][id])}
      taken == [id \in DOMAIN jobs[s] |->
                  IF id \in due THEN Take(id, jobs[s][id]) ELSE jobs[s][id]]
      new == {[svc |-> s, id |-> id, slot |-> jobs[s][id].next, pc |-> "start"] : id \in due}
  IN
  /\ lpc[s] = "fire"
  /\ Write(s, taken)
  /\ fires' = fires \o SetToSeq(new)
  /\ lpc' = [lpc EXCEPT ![s] = "plan"]
  /\ UNCHANGED <<now, deadline, wake, lifeVars, userVars>>

-----------------------------------------------------------------------------
(* fire, one goroutine per due job *)

Advance(i, pc) == fires' = [fires EXCEPT ![i].pc = pc]

\* Payload.Validate: a bad payload is rescheduled, not run.
FireStart(i) ==
  LET s == fires[i].svc
      id == fires[i].id
  IN
  /\ fires[i].pc = "start"
  /\ IF id \in BadPayload
     THEN /\ Advance(i, "done")
          /\ Write(s, IF id \in DOMAIN jobs[s]
                      THEN [jobs[s] EXCEPT ![id].next = NextRun(id, now)] ELSE jobs[s])
     ELSE Advance(i, "acquire") /\ UNCHANGED <<jobs, fileVars>>
  /\ UNCHANGED <<now, loopVars, lifeVars, userVars>>

FireAcquire(i) ==
  /\ fires[i].pc = "acquire"
  /\ Cardinality(Running(fires[i].svc)) < MaxConcurrent
  /\ Advance(i, "run")
  /\ UNCHANGED <<now, fileVars, jobs, loopVars, lifeVars, userVars>>

\* lane.Acquire gives up with the ctx: the job was taken off the schedule and not run.
FireSkipped(i) ==
  /\ fires[i].pc = "acquire" /\ ctxDone
  /\ Advance(i, "skipped")
  /\ UNCHANGED <<now, fileVars, jobs, loopVars, lifeVars, userVars>>

\* RunTurn is over. The output of a successful run of a job that still exists is
\* delivered.
FireFinish(i) ==
  LET s == fires[i].svc
      id == fires[i].id
  IN
  /\ fires[i].pc = "run"
  /\ Write(s, AfterRun(jobs[s], id))
  /\ \/ Advance(i, "done")
     \/ id \in DOMAIN jobs[s] /\ Advance(i, "deliver")
  /\ UNCHANGED <<now, loopVars, lifeVars, userVars>>

\* Deliver.AfterSuccessfulRun, outside s.mu and still holding the lane.
FireDeliver(i) ==
  /\ fires[i].pc = "deliver"
  /\ Advance(i, "done")
  /\ UNCHANGED <<now, fileVars, jobs, loopVars, lifeVars, userVars>>

-----------------------------------------------------------------------------
(* The operations of tools and slash commands. Each wakes the loop, except an *)
(* AddJob whose save failed: it returns the error and keeps the job.         *)

\* Mutation of Notify: the loop is not told.
NotifyNobody(s) == wake' = [wake EXCEPT ![s] = @]

Notify(s) == wake' = [wake EXCEPT ![s] = TRUE]

AddJob(s, id) ==
  /\ Alive(s) /\ id \notin added
  /\ Write(s, [i \in DOMAIN jobs[s] \cup {id} |->
                 IF i = id THEN [enabled |-> TRUE, next |-> NextRun(id, now), last |-> 0]
                 ELSE jobs[s][i]])
  /\ IF saveErrors' = saveErrors THEN Notify(s) ELSE UNCHANGED wake
  /\ added' = added \cup {id}
  /\ UNCHANGED <<now, fires, lpc, deadline, lifeVars, removed, toggles>>

RemoveJob(s, id) ==
  /\ Alive(s) /\ id \in DOMAIN jobs[s]
  /\ Write(s, Restrict(jobs[s], DOMAIN jobs[s] \ {id}))
  /\ Notify(s)
  /\ removed' = removed \cup {id}
  /\ UNCHANGED <<now, fires, lpc, deadline, lifeVars, added, toggles>>

EnableJob(s, id, enabled) ==
  LET j == jobs[s][id] IN
  /\ Alive(s) /\ id \in DOMAIN jobs[s] /\ toggles < MaxToggles
  /\ Write(s, [jobs[s] EXCEPT ![id] =
                 [j EXCEPT !.enabled = enabled,
                           !.next = IF ~enabled THEN 0
                                    ELSE IF @ = 0 THEN NextFrom(id, j) ELSE @]])
  /\ Notify(s)
  /\ toggles' = toggles + 1
  /\ UNCHANGED <<now, fires, lpc, deadline, lifeVars, added, removed>>

-----------------------------------------------------------------------------
LoopStep(s) == LoopPlan(s) \/ LoopWake(s) \/ LoopTimer(s) \/ LoopExit(s) \/ CheckAndFire(s)
FireStep(i) ==
  FireStart(i) \/ FireAcquire(i) \/ FireSkipped(i) \/ FireFinish(i) \/ FireDeliver(i)
UserStep(s) ==
  \E id \in JobIds :
    AddJob(s, id) \/ RemoveJob(s, id) \/ \E e \in BOOLEAN : EnableJob(s, id, e)

Next ==
  \/ \E s \in Services : Start(s) \/ StopCall(s) \/ StopReturn(s) \/ LoopStep(s)
  \/ \E i \in DOMAIN fires : FireStep(i)
  \/ \E s \in Services : s = cur /\ UserStep(s)
  \/ CancelCtx \/ Crash \/ Tick

Spec == Init /\ [][Next]_vars

(* Turns end (the runtime bounds them) and goroutines are scheduled; nobody *)
(* owes a Stop, a job or a crash.                                           *)
FairSpec ==
  /\ Spec
  /\ \A s \in Services : WF_vars(StopReturn(s)) /\ WF_vars(LoopStep(s))
  /\ \A i \in 1..(MaxTime * Cardinality(JobIds)) :
       WF_vars(i \in DOMAIN fires /\ FireStep(i))

-----------------------------------------------------------------------------
FireStates == {"start", "acquire", "run", "deliver"} \cup Terminal
TypeOK ==
  /\ now \in 1..MaxTime
  /\ IsTable(disk) /\ DOMAIN jobs = Services /\ \A s \in Services : IsTable(jobs[s])
  /\ cur \in 0..MaxServices /\ dead \subseteq Services
  /\ lpc \in [Services -> {"off", "plan", "wait", "fire", "exited"}]
  /\ deadline \in [Services -> Nat] /\ wake \in [Services -> BOOLEAN]
  /\ stopped \subseteq Services /\ stopping \in [Services -> {"no", "waiting", "returned"}]
  /\ ctxDone \in BOOLEAN
  /\ fires \in Seq([svc : Services, id : JobIds, slot : Nat \ {0}, pc : FireStates])
  /\ added \subseteq JobIds /\ removed \subseteq JobIds

(* docs/guides/cron.md: "Two ticks of the same job cannot both fire from   *)
(* the same NextRunAtMs": only a fire that ended without a run, by a crash *)
(* or a cancelled ctx, may be made up for from the same slot.              *)
SlotFiresOnce ==
  \A i, k \in DOMAIN fires :
    i # k /\ fires[i].id = fires[k].id /\ fires[i].slot = fires[k].slot
      => {fires[i].pc, fires[k].pc} \cap {"lost", "skipped"} # {}

(* "Jobs ... deduplicate fire-while-busy": while one run of a job waits    *)
(* for the lane or runs, no other run of that job is in flight.            *)
RunsDoNotOverlap ==
  \A i, k \in DOMAIN fires :
    i # k /\ fires[i].id = fires[k].id
      => ~({fires[i].pc, fires[k].pc} \subseteq {"start", "acquire", "run"})

(* "Disabling one-shots happens before fire, so a crash mid-run does not   *)
(* re-fire on restart."                                                    *)
OneShotFiresOnce ==
  \A i, k \in DOMAIN fires : fires[i].id = fires[k].id /\ IsAt(fires[i].id) => i = k

(* A job a user removed never comes back to the file, not even through a   *)
(* run of it that was in flight, or through a restart.                     *)
RemovedStaysRemoved == removed \cap DOMAIN disk = {}

(* "Jobs survive restarts": a job leaves the file only when a user removes *)
(* it or when its deleteAfterRun run is over.                              *)
JobsSurvive == [][DOMAIN disk \ DOMAIN disk' \subseteq removed' \cup DeleteAfterRun]_vars

(* checkAndFire takes a repeating job off the schedule until its run is    *)
(* over: whatever comes between (a crash and a restart from that file, a   *)
(* payload that does not validate, a toggle, another run), the job is on   *)
(* the schedule or a fire that will put it back is in flight. Only a done  *)
(* ctx leaves it off, until the next start.                                *)
Rescheduling(s, id) ==
  \E i \in DOMAIN fires :
    fires[i].svc = s /\ fires[i].id = id /\ fires[i].pc \in {"start", "acquire", "run"}
NoJobStalls ==
  \A s \in Services : Alive(s) /\ ~ctxDone =>
    \A id \in DOMAIN jobs[s] :
      jobs[s][id].enabled /\ ~IsAt(id) => jobs[s][id].next > 0 \/ Rescheduling(s, id)

Oversleeps(s, id) ==
  /\ lpc[s] = "wait" /\ s \notin dead /\ ~wake[s] /\ s \notin stopped
  /\ id \in DOMAIN jobs[s] /\ IsDue(jobs[s][id])
  /\ now < deadline[s]

(* The loop never sleeps past the time of a one-shot: adding or enabling   *)
(* one wakes it.                                                           *)
OneShotsAreOnTime == \A s \in Services, id \in JobIds : IsAt(id) => ~Oversleeps(s, id)

(* No run of a one-shot starts before its time, not even when the process  *)
(* dies and the next one reads its times from the file.                    *)
OneShotsAreNotEarly == \A i \in DOMAIN fires : IsAt(fires[i].id) => Schedule[fires[i].id].t <= now

(* The promise a reminder makes: once, not early, and not overslept.       *)
OneShotsFireOnceOnTime == OneShotFiresOnce /\ OneShotsAreNotEarly /\ OneShotsAreOnTime

(* "Repeating (expr) jobs reschedule from LastRunAtMs": when the time so   *)
(* computed has come, the loop is not asleep with a later deadline.        *)
RepeatingJobsAreOnTime == \A s \in Services, id \in JobIds : ~Oversleeps(s, id)

(* Stop returns once the turns in flight are over, even with fires queued  *)
(* for the lane: every fire gives back what it took, on every path.        *)
StopReturns == \A s \in Services : stopping[s] = "waiting" /\ Alive(s)
                 ~> (stopping[s] = "returned" \/ ~Alive(s))
=============================================================================
