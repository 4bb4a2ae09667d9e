-------------------------- MODULE CronFiringProofs --------------------------
(***************************************************************************)
(* Proofs about what CronService fires: runs of one job do not overlap, a  *)
(* slot is fired once, a one-shot once and on time. The conditions are     *)
(* those of CronServiceProofs: each service starts alone, and where the    *)
(* argument goes through the file or a toggle, every save has reached the  *)
(* file and nobody has toggled a job.                                      *)
(***************************************************************************)
EXTENDS CronServiceProofs

InFlight(f) == f.pc \in {"start", "acquire", "run"}

\* A job is off the schedule from checkAndFire until its run is over.
FlightInv ==
  /\ \A i \in DOMAIN fires :
       InFlight(fires[i]) /\ fires[i].id \in DOMAIN jobs[cur] => jobs[cur][fires[i].id].next = 0
  /\ \A i, k \in DOMAIN fires :
       i # k /\ fires[i].id = fires[k].id => ~(InFlight(fires[i]) /\ InFlight(fires[k]))

\* A one-shot that was taken is disabled, in memory and in the file.
OneShotInv ==
  /\ \A i \in DOMAIN fires :
       IsAt(fires[i].id) /\ fires[i].id \in DOMAIN disk => ~disk[fires[i].id].enabled
  /\ OneShotFiresOnce

\* The slots a job has used lie before its next run and, once the fire is over, not after
\* the last run the next one is counted from.
Made(f) == f.pc \notin {"lost", "skipped"}
Spent(f, j) ==
  /\ j.next # 0 => f.slot < j.next
  /\ f.pc \in {"done", "deliver"} => j.last = 0 \/ f.slot <= j.last
SlotInv ==
  /\ \A i \in DOMAIN fires :
       Made(fires[i]) /\ fires[i].id \in DOMAIN disk /\ disk[fires[i].id].enabled
         => Spent(fires[i], disk[fires[i].id])
  /\ \A i, k \in DOMAIN fires :
       i # k /\ fires[i].id = fires[k].id /\ fires[i].slot = fires[k].slot
         => ~(Made(fires[i]) /\ Made(fires[k]))

\* The loop sleeps no longer than until the next one-shot, unless it has been woken.
SleepInv ==
  \A id \in JobIds :
    /\ cur > 0 /\ lpc[cur] = "wait" /\ ~wake[cur]
    /\ IsAt(id) /\ id \in DOMAIN jobs[cur] /\ jobs[cur][id].enabled /\ jobs[cur][id].next > 0
    => deadline[cur] <= jobs[cur][id].next \/ deadline[cur] <= now

-----------------------------------------------------------------------------
(* What the steps of the only service do *)

\* A critical section of the current service ended with this table.
Leaves(table) == jobs'[cur] = table /\ (saveErrors' = saveErrors => disk' = table)
LEMMA LeavesIs ==
  ASSUME CronInv, NEW table, IsTable(table), cur \in Services, Write(cur, table)
  PROVE  Leaves(table)
  BY WriteIs DEF CronInv, LifeInv, Leaves

LEMMA StartLeaves ==
  ASSUME CronInv, Alone', NEW s \in Services, Start(s)
  PROVE  /\ s = cur + 1 /\ cur' = s /\ lpc'[cur'] = "plan" /\ UNCHANGED <<fires, now>>
         /\ jobs'[cur'] = StartTable /\ (saveErrors' = saveErrors => disk' = StartTable)
         /\ \A i \in DOMAIN fires : fires[i].pc \in Terminal
<1>1. TypeOK /\ loadErrors \in Nat /\ saveErrors \in Nat
  BY DEF CronInv, LifeInv
<1>2. /\ s = cur + 1 /\ cur' = s /\ UNCHANGED <<now, fires>> /\ lpc' = [lpc EXCEPT ![s] = "plan"]
      /\ IsTable(StartTable) /\ Write(s, StartTable)
  BY <1>1, StartIs
<1>3. jobs'[s] = StartTable /\ (saveErrors' = saveErrors => disk' = StartTable)
  BY <1>1, <1>2, WriteIs
<1>4. lpc'[s] = "plan"
  BY <1>1, <1>2 DEF TypeOK
<1> QED BY <1>2, <1>3, <1>4, StartsAlone

LEMMA TakeLeaves ==
  ASSUME CronInv, Alone, NEW s \in Services, CheckAndFire(s)
  PROVE  /\ s = cur /\ Leaves(Taken(cur)) /\ lpc'[cur] = "plan" /\ UNCHANGED <<now, cur, toggles>>
         /\ \A i \in DOMAIN fires' :
              \/ i \in DOMAIN fires /\ fires'[i] = fires[i]
              \/ /\ i \notin DOMAIN fires /\ fires'[i].pc = "start"
                 /\ fires'[i].id \in DOMAIN jobs[cur] /\ IsDue(jobs[cur][fires'[i].id])
                 /\ fires'[i].slot = jobs[cur][fires'[i].id].next
         /\ \A i, k \in DOMAIN fires' :
              i # k /\ fires'[i].id = fires'[k].id => i \in DOMAIN fires \/ k \in DOMAIN fires
<1>1. TypeOK
  BY DEF CronInv
<1>2. /\ lpc[s] = "fire" /\ Write(s, Taken(s)) /\ lpc' = [lpc EXCEPT ![s] = "plan"]
      /\ UNCHANGED <<now, cur, toggles>>
  BY <1>1, CheckAndFireWrites DEF lifeVars, userVars
<1>3. s = cur
  BY <1>2, WritersAreCurrent
<1>4. lpc'[cur] = "plan"
  BY <1>1, <1>2, <1>3 DEF TypeOK
<1>5. Leaves(Taken(cur))
  BY <1>1, <1>2, <1>3, TakenIs, LeavesIs
<1>6. \A i \in DOMAIN fires' : i \notin DOMAIN fires <=> i \in NewFires
  BY DEF NewFires
<1> QED BY <1>1, <1>2, <1>3, <1>4, <1>5, <1>6, CheckAndFireIs

LEMMA RejectLeaves ==
  ASSUME CronInv, Alone, NEW i \in DOMAIN fires, Rejects(i)
  PROVE  /\ cur \in Services /\ fires[i].id \in JobIds \cap BadPayload
         /\ fires[i].pc = "start" /\ Advance(i, "done") /\ "done" \in FireStates
         /\ Leaves(Rescheduled(cur, fires[i].id))
         /\ UNCHANGED <<now, cur, toggles, loopVars>>
<1>1. TypeOK
  BY DEF CronInv
<1>2. /\ fires[i].svc \in Services /\ fires[i].id \in JobIds \cap BadPayload
      /\ fires[i].pc = "start" /\ Advance(i, "done") /\ "done" \in FireStates
      /\ Write(fires[i].svc, Rescheduled(fires[i].svc, fires[i].id))
      /\ UNCHANGED <<now, cur, toggles, loopVars>>
  BY <1>1, FireWrites DEF lifeVars, userVars, FireStates, Terminal
<1>3. fires[i].svc = cur
  BY <1>2, WritersAreCurrent DEF Terminal
<1> QED BY <1>1, <1>2, <1>3, RescheduledIs, LeavesIs

LEMMA FinishLeaves ==
  ASSUME CronInv, Alone, NEW i \in DOMAIN fires, FireFinish(i)
  PROVE  /\ cur \in Services /\ fires[i].id \in JobIds /\ fires[i].pc = "run"
         /\ IsTable(jobs[cur])
         /\ \E l \in FireStates \cap {"done", "deliver"} : Advance(i, l)
         /\ Leaves(AfterRun(jobs[cur], fires[i].id))
         /\ UNCHANGED <<now, cur, toggles, loopVars>>
<1>1. TypeOK
  BY DEF CronInv
<1>2. /\ fires[i].svc \in Services /\ fires[i].id \in JobIds /\ fires[i].pc = "run"
      /\ \E l \in FireStates \cap {"done", "deliver"} : Advance(i, l)
      /\ Write(fires[i].svc, AfterRun(jobs[fires[i].svc], fires[i].id))
      /\ IsTable(AfterRun(jobs[fires[i].svc], fires[i].id))
      /\ UNCHANGED <<now, cur, toggles, loopVars>>
  BY <1>1, FireWrites DEF lifeVars, userVars, FireStates, Terminal
<1>3. fires[i].svc = cur
  BY <1>2, WritersAreCurrent DEF Terminal
<1>4. IsTable(jobs[cur])
  BY <1>1, <1>2, <1>3 DEF TypeOK
<1> QED BY <1>2, <1>3, <1>4, LeavesIs

LEMMA AddLeaves ==
  ASSUME CronInv, NEW id \in JobIds, cur \in Services, AddJob(cur, id)
  PROVE  /\ Leaves(WithJob(cur, id)) /\ (saveErrors' = saveErrors => wake'[cur])
         /\ \A i \in DOMAIN fires : fires[i].id # id
         /\ DOMAIN WithJob(cur, id) = DOMAIN jobs[cur] \cup {id}
         /\ \A k \in DOMAIN jobs[cur] \ {id} : WithJob(cur, id)[k] = jobs[cur][k]
         /\ UNCHANGED <<now, fires, cur, toggles, lpc, deadline>>
<1>1. TypeOK
  BY DEF CronInv
<1>2. /\ IsTable(WithJob(cur, id)) /\ DOMAIN WithJob(cur, id) = DOMAIN jobs[cur] \cup {id}
      /\ \A k \in DOMAIN jobs[cur] \ {id} : WithJob(cur, id)[k] = jobs[cur][k]
  BY <1>1, WithJobIs
<1>3. /\ Write(cur, WithJob(cur, id)) /\ id \notin added
      /\ UNCHANGED <<now, fires, cur, toggles, lpc, deadline>>
  BY DEF AddJob, WithJob, lifeVars
<1>4. saveErrors' = saveErrors => wake'[cur]
  BY <1>1 DEF AddJob, Notify, TypeOK
<1>5. \A i \in DOMAIN fires : fires[i].id # id
  BY <1>3 DEF CronInv, HistoryInv
<1> QED BY <1>2, <1>3, <1>4, <1>5, LeavesIs

LEMMA RemoveLeaves ==
  ASSUME CronInv, NEW id \in JobIds, cur \in Services, RemoveJob(cur, id)
  PROVE  /\ Leaves(WithoutJob(cur, id)) /\ wake'[cur]
         /\ DOMAIN WithoutJob(cur, id) = DOMAIN jobs[cur] \ {id}
         /\ \A k \in DOMAIN jobs[cur] \ {id} : WithoutJob(cur, id)[k] = jobs[cur][k]
         /\ UNCHANGED <<now, fires, cur, toggles, lpc, deadline>>
<1>1. TypeOK
  BY DEF CronInv
<1>2. /\ IsTable(WithoutJob(cur, id)) /\ DOMAIN WithoutJob(cur, id) = DOMAIN jobs[cur] \ {id}
      /\ \A k \in DOMAIN jobs[cur] \ {id} : WithoutJob(cur, id)[k] = jobs[cur][k]
  BY <1>1, WithoutJobIs
<1>3. /\ Write(cur, WithoutJob(cur, id)) /\ UNCHANGED <<now, fires, cur, toggles, lpc, deadline>>
  BY DEF RemoveJob, WithoutJob, lifeVars
<1>4. wake'[cur]
  BY <1>1 DEF RemoveJob, Notify, TypeOK
<1> QED BY <1>2, <1>3, <1>4, LeavesIs

\* EnableJob is not called.
LEMMA NoToggle ==
  ASSUME CronInv, Untoggled, Untoggled', NEW id \in JobIds, NEW e \in BOOLEAN
  PROVE  ~EnableJob(cur, id, e)
  BY DEF EnableJob, Untoggled

-----------------------------------------------------------------------------
(* Runs of one job do not overlap *)

\* No service, no fire.
LEMMA FlightInit == Init => FlightInv
  BY DEF Init, FlightInv

\* checkAndFire fires only what is on the schedule, and what is in flight is not.
LEMMA FlightStep ==
  CronInv /\ FlightInv /\ Alone /\ Alone' /\ Untoggled /\ Untoggled' /\ [Next]_vars => FlightInv'
<1> SUFFICES ASSUME CronInv, FlightInv, Alone, Alone', Untoggled, Untoggled', [Next]_vars
             PROVE  FlightInv'
  OBVIOUS
<1>t. TypeOK
  BY DEF CronInv
<1>1. ASSUME UNCHANGED <<jobs, fires, cur>> PROVE FlightInv'
  BY <1>1 DEF FlightInv
<1>2. CASE Crash
  <2>1. \A i \in DOMAIN fires' : ~InFlight(fires'[i])
    BY <1>2, <1>t, CrashIs DEF InFlight, Terminal
  <2> QED BY <2>1 DEF FlightInv
<1>3. ASSUME NEW s \in Services, Start(s) PROVE FlightInv'
  <2>1. \A i \in DOMAIN fires' : ~InFlight(fires'[i])
    BY <1>3, StartLeaves DEF InFlight, Terminal
  <2> QED BY <2>1 DEF FlightInv
<1>4. ASSUME NEW s \in Services, CheckAndFire(s) PROVE FlightInv'
  <2>1. /\ s = cur /\ cur' = cur /\ jobs'[cur] = Taken(cur)
        /\ \A i \in DOMAIN fires' :
             \/ i \in DOMAIN fires /\ fires'[i] = fires[i]
             \/ /\ i \notin DOMAIN fires
                /\ fires'[i].id \in DOMAIN jobs[cur] /\ IsDue(jobs[cur][fires'[i].id])
    BY <1>4, TakeLeaves DEF Leaves
  <2>2. \A i, k \in DOMAIN fires' :
          i # k /\ fires'[i].id = fires'[k].id => i \in DOMAIN fires \/ k \in DOMAIN fires
    BY <1>4, TakeLeaves
  <2>3. /\ DOMAIN Taken(cur) = DOMAIN jobs[cur]
        /\ \A id \in DOMAIN jobs[cur] :
             /\ IsDue(jobs[cur][id]) => Taken(cur)[id].next = 0
             /\ ~IsDue(jobs[cur][id]) => Taken(cur)[id] = jobs[cur][id]
    BY <1>t, <2>1, TakenIs
  <2>4. ASSUME NEW i \in DOMAIN fires', InFlight(fires'[i]), fires'[i].id \in DOMAIN jobs'[cur']
        PROVE  jobs'[cur'][fires'[i].id].next = 0
    <3>1. CASE i \in DOMAIN fires
      <4>1. fires'[i] = fires[i] /\ jobs[cur][fires'[i].id].next = 0
        BY <2>1, <2>3, <2>4, <3>1 DEF FlightInv
      <4> QED BY <2>1, <2>3, <2>4, <4>1 DEF IsDue
    <3>2. CASE i \notin DOMAIN fires
      BY <2>1, <2>3, <3>2
    <3> QED BY <3>1, <3>2
  <2>5. ASSUME NEW i \in DOMAIN fires, NEW k \in DOMAIN fires' \ DOMAIN fires,
               fires[i].id = fires'[k].id
        PROVE  ~InFlight(fires[i])
    BY <2>1, <2>5 DEF FlightInv, IsDue
  <2>6. ASSUME NEW i \in DOMAIN fires', NEW k \in DOMAIN fires', i # k, fires'[i].id = fires'[k].id
        PROVE  ~(InFlight(fires'[i]) /\ InFlight(fires'[k]))
    BY <2>1, <2>2, <2>5, <2>6 DEF FlightInv
  <2> QED BY <2>4, <2>6 DEF FlightInv
<1>5. ASSUME NEW i \in DOMAIN fires, Moves(i) PROVE FlightInv'
  <2>1. PICK l \in FireStates :
          Advance(i, l) /\ (l \in {"start", "acquire", "run"} => InFlight(fires[i]))
    BY <1>5 DEF Moves, FireStates, Terminal, InFlight
  <2>2. \A k \in DOMAIN fires' : /\ k \in DOMAIN fires /\ fires'[k].id = fires[k].id
                                 /\ InFlight(fires'[k]) => InFlight(fires[k])
    BY <1>t, <2>1, AdvanceIs DEF InFlight
  <2>3. UNCHANGED <<jobs, cur>>
    BY <1>5 DEF Moves, lifeVars
  <2> QED BY <2>2, <2>3 DEF FlightInv
<1>6. ASSUME NEW i \in DOMAIN fires, NEW l \in FireStates \ {"start", "acquire", "run"},
             NEW table, Advance(i, l), InFlight(fires[i]), jobs'[cur] = table, cur' = cur,
             DOMAIN table \subseteq DOMAIN jobs[cur],
             \A id \in DOMAIN table : id # fires[i].id => table[id].next = jobs[cur][id].next
      PROVE  FlightInv'
  <2>1. \A k \in DOMAIN fires' : /\ k \in DOMAIN fires /\ fires'[k].id = fires[k].id
                                 /\ InFlight(fires'[k]) => k # i /\ InFlight(fires[k])
    BY <1>t, <1>6, AdvanceIs DEF InFlight
  <2>2. \A k \in DOMAIN fires' : InFlight(fires'[k]) => fires'[k].id # fires[i].id
    BY <1>6, <2>1 DEF FlightInv
  <2> QED BY <1>6, <2>1, <2>2 DEF FlightInv
<1>7. ASSUME NEW i \in DOMAIN fires, Rejects(i) PROVE FlightInv'
  <2>1. /\ InFlight(fires[i]) /\ Advance(i, "done") /\ "done" \in FireStates /\ cur' = cur
        /\ jobs'[cur] = Rescheduled(cur, fires[i].id) /\ cur \in Services /\ fires[i].id \in JobIds
    BY <1>7, RejectLeaves DEF Leaves, InFlight
  <2>2. /\ DOMAIN Rescheduled(cur, fires[i].id) = DOMAIN jobs[cur]
        /\ \A id \in DOMAIN jobs[cur] : id # fires[i].id =>
             Rescheduled(cur, fires[i].id)[id].next = jobs[cur][id].next
    BY <1>t, <2>1, RescheduledIs
  <2> QED BY <1>6, <2>1, <2>2
<1>8. ASSUME NEW i \in DOMAIN fires, FireFinish(i) PROVE FlightInv'
  <2> DEFINE table == AfterRun(jobs[cur], fires[i].id)
  <2>1. PICK l \in FireStates \cap {"done", "deliver"} : Advance(i, l)
    BY <1>8, FinishLeaves
  <2>2. /\ InFlight(fires[i]) /\ cur' = cur /\ jobs'[cur] = table
        /\ fires[i].id \in JobIds /\ IsTable(jobs[cur]) /\ now \in Nat
    BY <1>8, <1>t, FinishLeaves DEF Leaves, InFlight, TypeOK
  <2>3. /\ DOMAIN table \subseteq DOMAIN jobs[cur]
        /\ \A id \in DOMAIN table : id # fires[i].id => table[id].next = jobs[cur][id].next
    BY <2>2, AfterRunIs
  <2> HIDE DEF table
  <2> QED BY <1>6, <2>1, <2>2, <2>3
<1>9. ASSUME NEW id \in JobIds, cur \in Services, AddJob(cur, id) PROVE FlightInv'
  <2>1. /\ UNCHANGED <<fires, cur>> /\ jobs'[cur] = WithJob(cur, id)
        /\ \A i \in DOMAIN fires : fires[i].id # id
        /\ DOMAIN WithJob(cur, id) = DOMAIN jobs[cur] \cup {id}
        /\ \A k \in DOMAIN jobs[cur] \ {id} : WithJob(cur, id)[k] = jobs[cur][k]
    BY <1>9, AddLeaves DEF Leaves
  <2> QED BY <2>1 DEF FlightInv
<1>10. ASSUME NEW id \in JobIds, cur \in Services, RemoveJob(cur, id) PROVE FlightInv'
  <2>1. /\ UNCHANGED <<fires, cur>> /\ jobs'[cur] = WithoutJob(cur, id)
        /\ DOMAIN WithoutJob(cur, id) = DOMAIN jobs[cur] \ {id}
        /\ \A k \in DOMAIN jobs[cur] \ {id} : WithoutJob(cur, id)[k] = jobs[cur][k]
    BY <1>10, RemoveLeaves DEF Leaves
  <2> QED BY <2>1 DEF FlightInv
<1>11. ASSUME Still \/ \E s \in Services : Loops(s) PROVE FlightInv'
  BY <1>1, <1>11, StillIs, LoopsAre DEF lifeVars
<1> QED
  BY <1>2, <1>3, <1>4, <1>5, <1>7, <1>8, <1>9, <1>10, <1>11, StepCases, NoToggle

\* "Jobs ... deduplicate fire-while-busy": while a run of a job waits for the lane or runs, no
\* other is in flight, through reloads, crashes, failed saves and files that cannot be read.
THEOREM NoOverlap == Spec /\ []Alone /\ []Untoggled => []RunsDoNotOverlap
<1>1. FlightInv => RunsDoNotOverlap
  BY DEF FlightInv, InFlight, RunsDoNotOverlap
<1> QED BY <1>1, CronInit, CronStep, FlightInit, FlightStep, PTL DEF Spec

-----------------------------------------------------------------------------
(* One-shots fire once *)

\* No fire yet.
LEMMA FiringInit == Init => OneShotInv /\ SlotInv /\ SleepInv
<1> SUFFICES ASSUME Init PROVE OneShotInv /\ SlotInv /\ SleepInv
  OBVIOUS
<1>1. fires = <<>> /\ cur = 0
  BY DEF Init
<1>2. OneShotInv /\ SlotInv
  BY <1>1 DEF OneShotInv, OneShotFiresOnce, SlotInv
<1> QED BY <1>1, <1>2 DEF SleepInv

\* What a calm service decides on is in the file.
LEMMA CalmLeaves ==
  ASSUME Saved, Saved', FileInv, cur \in Services, NEW table, Leaves(table)
  PROVE  disk = jobs[cur] /\ disk' = table
<1>1. cur > 0
  BY DEF Services
<1> QED BY <1>1 DEF Leaves, Saved, FileInv, FileIsCurrent

\* A one-shot is disabled when it is taken, and nothing but a toggle enables it.
LEMMA OneShotStep ==
  CronInv /\ FileInv /\ OneShotInv /\ Calm /\ Calm' /\ [Next]_vars => OneShotInv'
<1> SUFFICES ASSUME CronInv, FileInv, OneShotInv, Alone, Alone', Saved, Saved',
                    Untoggled, Untoggled', [Next]_vars
             PROVE  OneShotInv'
  BY DEF Calm
<1>t. TypeOK /\ cur \in Nat
  BY CronAssumption DEF CronInv, TypeOK
<1>c. ASSUME NEW table, cur \in Services, Leaves(table) PROVE disk = jobs[cur] /\ disk' = table
  BY <1>c, CalmLeaves
<1>s. \* a step that fires nothing and enables no one-shot
      ASSUME DOMAIN fires' = DOMAIN fires, \A i \in DOMAIN fires : fires'[i].id = fires[i].id,
             \A i \in DOMAIN fires : IsAt(fires[i].id) /\ fires[i].id \in DOMAIN disk'
                                       /\ disk'[fires[i].id].enabled
               => fires[i].id \in DOMAIN disk /\ disk[fires[i].id].enabled
      PROVE  OneShotInv'
  BY <1>s DEF OneShotInv, OneShotFiresOnce, IsAt
<1>1. ASSUME Still \/ \E s \in Services : Loops(s) PROVE OneShotInv'
  <2>1. UNCHANGED <<fires, disk>>
    BY <1>1, StillIs, LoopsAre DEF fileVars
  <2> QED BY <1>s, <2>1
<1>2. CASE Crash
  <2>1. disk' = disk
    BY <1>2 DEF Crash, fileVars
  <2> QED BY <1>2, <1>t, <1>s, <2>1, CrashIs
<1>3. ASSUME NEW s \in Services, Start(s) PROVE OneShotInv'
  <2>1. UNCHANGED fires /\ disk' = StartTable
    BY <1>3, StartLeaves DEF Saved
  <2> QED BY <1>s, <1>t, <2>1, StartTableIs
<1>4. ASSUME NEW s \in Services, CheckAndFire(s) PROVE OneShotInv'
  <2>1. /\ cur \in Services /\ Leaves(Taken(cur))
        /\ \A i \in DOMAIN fires' :
             \/ i \in DOMAIN fires /\ fires'[i] = fires[i]
             \/ /\ i \notin DOMAIN fires
                /\ fires'[i].id \in DOMAIN jobs[cur] /\ IsDue(jobs[cur][fires'[i].id])
        /\ \A i, k \in DOMAIN fires' :
             i # k /\ fires'[i].id = fires'[k].id => i \in DOMAIN fires \/ k \in DOMAIN fires
    BY <1>4, TakeLeaves
  <2>2. disk = jobs[cur] /\ disk' = Taken(cur)
    BY <1>c, <2>1
  <2>3. /\ DOMAIN disk' = DOMAIN disk
        /\ \A id \in DOMAIN disk :
             /\ IsDue(disk[id]) => disk'[id].enabled = ~IsAt(id)
             /\ ~IsDue(disk[id]) => disk'[id] = disk[id]
    BY <1>t, <2>1, <2>2, TakenIs
  <2>4. ASSUME NEW i \in DOMAIN fires', IsAt(fires'[i].id), fires'[i].id \in DOMAIN disk'
        PROVE  ~disk'[fires'[i].id].enabled
    BY <2>1, <2>2, <2>3, <2>4 DEF OneShotInv
  <2>5. ASSUME NEW i \in DOMAIN fires, NEW k \in DOMAIN fires' \ DOMAIN fires,
               fires[i].id = fires'[k].id
        PROVE  ~IsAt(fires[i].id)
    BY <2>1, <2>2, <2>5 DEF OneShotInv, IsDue
  <2>6. ASSUME NEW i \in DOMAIN fires', NEW k \in DOMAIN fires', i # k, fires'[i].id = fires'[k].id
        PROVE  ~IsAt(fires'[i].id)
    BY <2>1, <2>5, <2>6 DEF OneShotInv, OneShotFiresOnce
  <2> QED BY <2>4, <2>6 DEF OneShotInv, OneShotFiresOnce, IsAt
<1>5. ASSUME NEW i \in DOMAIN fires, Moves(i) PROVE OneShotInv'
  <2>1. (\E l \in FireStates : Advance(i, l)) /\ disk' = disk
    BY <1>5 DEF Moves, FireStates, Terminal, fileVars
  <2> QED BY <1>t, <1>s, <2>1, AdvanceIs
<1>6. ASSUME NEW i \in DOMAIN fires, Rejects(i) PROVE OneShotInv'
  <2>1. /\ Advance(i, "done") /\ "done" \in FireStates /\ cur \in Services /\ fires[i].id \in JobIds
        /\ disk = jobs[cur] /\ disk' = Rescheduled(cur, fires[i].id)
    BY <1>6, <1>c, RejectLeaves
  <2>2. DOMAIN disk' = DOMAIN disk /\ \A id \in DOMAIN disk : disk'[id].enabled = disk[id].enabled
    BY <1>t, <2>1, RescheduledIs
  <2> QED BY <1>t, <1>s, <2>1, <2>2, AdvanceIs
<1>7. ASSUME NEW i \in DOMAIN fires, FireFinish(i) PROVE OneShotInv'
  <2>1. PICK l \in FireStates \cap {"done", "deliver"} : Advance(i, l)
    BY <1>7, FinishLeaves
  <2>2. /\ fires[i].id \in JobIds /\ IsTable(disk) /\ now \in Nat
        /\ disk' = AfterRun(disk, fires[i].id)
    BY <1>7, <1>c, <1>t, FinishLeaves DEF TypeOK
  <2>3. /\ DOMAIN disk' \subseteq DOMAIN disk
        /\ \A id \in DOMAIN disk' : IsAt(id) /\ disk'[id].enabled => disk[id].enabled
    BY <2>2, AfterRunIs
  <2> QED BY <1>t, <1>s, <2>1, <2>3, AdvanceIs
<1>8. ASSUME NEW id \in JobIds, cur \in Services, AddJob(cur, id) PROVE OneShotInv'
  <2>1. disk = jobs[cur] /\ disk' = WithJob(cur, id) /\ UNCHANGED fires
    BY <1>8, <1>c, AddLeaves
  <2>2. /\ DOMAIN disk' = DOMAIN disk \cup {id} /\ \A k \in DOMAIN disk \ {id} : disk'[k] = disk[k]
        /\ \A i \in DOMAIN fires : fires[i].id # id
    BY <1>8, <2>1, AddLeaves
  <2>3. \A i \in DOMAIN fires : fires[i].id \in DOMAIN disk' =>
          fires[i].id \in DOMAIN disk /\ disk'[fires[i].id] = disk[fires[i].id]
    BY <2>2
  <2> QED BY <1>s, <2>1, <2>3
<1>9. ASSUME NEW id \in JobIds, cur \in Services, RemoveJob(cur, id) PROVE OneShotInv'
  <2>1. disk = jobs[cur] /\ disk' = WithoutJob(cur, id) /\ UNCHANGED fires
    BY <1>9, <1>c, RemoveLeaves
  <2>2. \A k \in DOMAIN disk' : k \in DOMAIN disk /\ disk'[k] = disk[k]
    BY <1>9, <2>1, RemoveLeaves
  <2> QED BY <1>s, <2>1, <2>2
<1> QED BY <1>1, <1>2, <1>3, <1>4, <1>5, <1>6, <1>7, <1>8, <1>9, StepCases, NoToggle

-----------------------------------------------------------------------------
(* A slot is fired once *)

\* A repeating job's next run lies after every slot it has used: after the last run once it
\* is over, off the schedule before.
LEMMA SlotStep ==
  CronInv /\ FileInv /\ OneShotInv /\ SlotInv /\ Calm /\ Calm' /\ [Next]_vars => SlotInv'
<1> SUFFICES ASSUME CronInv, FileInv, OneShotInv, SlotInv, Alone, Alone', Saved, Saved',
                    Untoggled, Untoggled', [Next]_vars
             PROVE  SlotInv'
  BY DEF Calm
<1>t. TypeOK /\ now \in Nat /\ IsTable(disk)
  BY DEF CronInv, TypeOK
<1>f. \A i \in DOMAIN fires : /\ fires[i] \in FireRecord /\ fires[i].id \in JobIds
                              /\ fires[i].slot \in Nat \ {0} /\ fires[i].slot <= now
  BY <1>t, FiresAre DEF FireRecord, CronInv, HistoryInv
<1>j. \A id \in DOMAIN disk : disk[id] \in Job /\ disk[id].next \in Nat /\ disk[id].last \in Nat
  BY <1>t DEF IsTable, Job
<1>c. ASSUME NEW table, cur \in Services, Leaves(table) PROVE disk = jobs[cur] /\ disk' = table
  BY <1>c, CalmLeaves
<1>s. \* a step that fires nothing
      ASSUME DOMAIN fires' = DOMAIN fires,
             \A i \in DOMAIN fires : /\ fires'[i].id = fires[i].id /\ fires'[i].slot = fires[i].slot
                                     /\ Made(fires'[i]) => Made(fires[i]),
             \A i \in DOMAIN fires :
               Made(fires'[i]) /\ fires[i].id \in DOMAIN disk' /\ disk'[fires[i].id].enabled
                 => Spent(fires'[i], disk'[fires[i].id])
      PROVE  SlotInv'
  BY <1>s DEF SlotInv
<1>1. ASSUME Still \/ \E s \in Services : Loops(s) PROVE SlotInv'
  <2>1. UNCHANGED <<fires, disk>>
    BY <1>1, StillIs, LoopsAre DEF fileVars
  <2> QED BY <2>1 DEF SlotInv
<1>2. CASE Crash
  <2>1. disk' = disk
    BY <1>2 DEF Crash, fileVars
  <2>2. /\ DOMAIN fires' = DOMAIN fires
        /\ \A i \in DOMAIN fires : /\ fires'[i].id = fires[i].id /\ fires'[i].slot = fires[i].slot
                                   /\ Made(fires'[i]) => fires'[i].pc = fires[i].pc
    BY <1>2, <1>t, CrashIs DEF Made
  <2> QED BY <1>s, <2>1, <2>2 DEF SlotInv, Made, Spent
<1>3. ASSUME NEW s \in Services, Start(s) PROVE SlotInv'
  <2>1. UNCHANGED fires /\ disk' = StartTable /\ \A i \in DOMAIN fires : fires[i].pc \in Terminal
    BY <1>3, StartLeaves DEF Saved
  <2>2. ASSUME NEW i \in DOMAIN fires, Made(fires[i]), fires[i].id \in DOMAIN disk',
               disk'[fires[i].id].enabled
        PROVE  Spent(fires[i], disk'[fires[i].id])
    <3> DEFINE id == fires[i].id
               j == disk[id]
               k == disk'[id]
    <3>1. id \in DOMAIN disk /\ k.last = j.last /\ j.enabled
          /\ (j.next # 0 => k.next = j.next) /\ (j.next = 0 => k.next = NextFrom(id, j))
      BY <1>t, <2>1, <2>2, StartTableIs
    <3>2. fires[i].pc = "done" /\ Spent(fires[i], j) /\ ~IsAt(id)
      BY <2>1, <2>2, <3>1 DEF SlotInv, OneShotInv, Made, Terminal
    <3>3. NextFrom(id, j) > fires[i].slot
      <4>1. CASE j.last = 0
        <5>1. NextFrom(id, j) > now /\ NextFrom(id, j) \in Nat
          BY <1>f, <1>t, <3>2, <4>1, NextRunIs DEF NextFrom
        <5> QED BY <1>f, <1>t, <5>1
      <4>2. CASE j.last # 0
        <5>1. NextFrom(id, j) > j.last /\ NextFrom(id, j) \in Nat /\ j.last \in Nat
          BY <1>f, <1>j, <3>1, <3>2, <4>2, NextRunIs DEF NextFrom
        <5>2. fires[i].slot <= j.last
          BY <3>2, <4>2 DEF Spent
        <5> QED BY <1>f, <5>1, <5>2
      <4> QED BY <4>1, <4>2
    <3> QED BY <3>1, <3>2, <3>3 DEF Spent
  <2> QED BY <1>s, <2>1, <2>2
<1>4. ASSUME NEW s \in Services, CheckAndFire(s) PROVE SlotInv'
  <2>1. /\ cur \in Services /\ Leaves(Taken(cur))
        /\ \A i \in DOMAIN fires' :
             \/ i \in DOMAIN fires /\ fires'[i] = fires[i]
             \/ /\ i \notin DOMAIN fires /\ fires'[i].pc = "start"
                /\ fires'[i].id \in DOMAIN jobs[cur] /\ IsDue(jobs[cur][fires'[i].id])
                /\ fires'[i].slot = jobs[cur][fires'[i].id].next
        /\ \A i, k \in DOMAIN fires' :
             i # k /\ fires'[i].id = fires'[k].id => i \in DOMAIN fires \/ k \in DOMAIN fires
    BY <1>4, TakeLeaves
  <2>2. disk = jobs[cur] /\ disk' = Taken(cur)
    BY <1>c, <2>1
  <2>3. /\ DOMAIN disk' = DOMAIN disk
        /\ \A id \in DOMAIN disk :
             /\ disk'[id].last = disk[id].last
             /\ IsDue(disk[id]) => disk'[id].next = 0 /\ disk[id].enabled
             /\ ~IsDue(disk[id]) => disk'[id] = disk[id]
    BY <1>t, <2>1, <2>2, TakenIs DEF IsDue
  <2>4. ASSUME NEW i \in DOMAIN fires', Made(fires'[i]), fires'[i].id \in DOMAIN disk',
               disk'[fires'[i].id].enabled
        PROVE  Spent(fires'[i], disk'[fires'[i].id])
    <3>1. CASE i \in DOMAIN fires
      <4>1. fires'[i] = fires[i]
        BY <2>1, <3>1
      <4>2. fires[i].id \in DOMAIN disk /\ disk[fires[i].id].enabled
        BY <2>3, <2>4, <4>1
      <4>3. Spent(fires[i], disk[fires[i].id])
        BY <2>4, <3>1, <4>1, <4>2 DEF SlotInv
      <4> QED BY <2>3, <4>1, <4>2, <4>3 DEF Spent
    <3>2. CASE i \notin DOMAIN fires
      BY <2>1, <2>2, <2>3, <3>2 DEF Spent
    <3> QED BY <3>1, <3>2
  <2>5. ASSUME NEW i \in DOMAIN fires, NEW k \in DOMAIN fires' \ DOMAIN fires,
               fires[i].id = fires'[k].id, fires[i].slot = fires'[k].slot
        PROVE  ~Made(fires[i])
    <3>1. /\ fires[i].id \in DOMAIN disk /\ disk[fires[i].id].enabled
          /\ disk[fires[i].id].next > 0 /\ fires[i].slot = disk[fires[i].id].next
      BY <2>1, <2>2, <2>5 DEF IsDue
    <3> QED BY <1>f, <1>j, <3>1 DEF SlotInv, Spent
  <2>6. ASSUME NEW i \in DOMAIN fires', NEW k \in DOMAIN fires', i # k,
               fires'[i].id = fires'[k].id, fires'[i].slot = fires'[k].slot
        PROVE  ~(Made(fires'[i]) /\ Made(fires'[k]))
    BY <2>1, <2>5, <2>6 DEF SlotInv
  <2> QED BY <2>4, <2>6 DEF SlotInv
<1>5. ASSUME NEW i \in DOMAIN fires, Moves(i) PROVE SlotInv'
  <2>1. PICK l \in FireStates :
          /\ Advance(i, l) /\ Made(fires[i])
          /\ l \in {"done", "deliver"} => fires[i].pc = "deliver"
    BY <1>5 DEF Moves, FireStates, Terminal, Made
  <2>2. disk' = disk
    BY <1>5 DEF Moves, fileVars
  <2>3. /\ DOMAIN fires' = DOMAIN fires
        /\ \A k \in DOMAIN fires :
             /\ fires'[k].id = fires[k].id /\ fires'[k].slot = fires[k].slot
             /\ Made(fires'[k]) => Made(fires[k])
             /\ fires'[k].pc \in {"done", "deliver"} => fires[k].pc \in {"done", "deliver"}
    BY <1>t, <2>1, AdvanceIs DEF Made
  <2> QED BY <1>s, <2>2, <2>3 DEF SlotInv, Spent
<1>6. \* one fire ends, and its job, if still there, has a later next run or none
      ASSUME NEW i \in DOMAIN fires, NEW l \in FireStates \cap {"done", "deliver"}, Advance(i, l),
             Made(fires[i]), DOMAIN disk' \subseteq DOMAIN disk,
             \A id \in DOMAIN disk' : id # fires[i].id =>
               /\ disk'[id].enabled = disk[id].enabled /\ disk'[id].last = disk[id].last
               /\ disk'[id].next = disk[id].next,
             fires[i].id \in DOMAIN disk' /\ disk'[fires[i].id].enabled =>
               LET k == disk'[fires[i].id] IN
               k.next \in Nat /\ k.next > now /\ (k.last = 0 \/ k.last = now)
      PROVE  SlotInv'
  <2>1. /\ DOMAIN fires' = DOMAIN fires
        /\ \A k \in DOMAIN fires :
             /\ fires'[k].id = fires[k].id /\ fires'[k].slot = fires[k].slot
             /\ Made(fires'[k]) => Made(fires[k])
             /\ k # i => fires'[k].pc = fires[k].pc
    BY <1>t, <1>6, AdvanceIs DEF Made
  <2>2. ASSUME NEW k \in DOMAIN fires, Made(fires'[k]), fires[k].id \in DOMAIN disk',
               disk'[fires[k].id].enabled
        PROVE  Spent(fires'[k], disk'[fires[k].id])
    <3>1. CASE fires[k].id = fires[i].id
      BY <1>6, <1>f, <1>t, <2>1, <2>2, <3>1 DEF Spent
    <3>2. CASE fires[k].id # fires[i].id
      <4>1. k # i /\ fires[k].id \in DOMAIN disk /\ disk[fires[k].id].enabled
        BY <1>6, <2>2, <3>2
      <4> QED BY <1>6, <2>1, <2>2, <3>2, <4>1 DEF SlotInv, Spent
    <3> QED BY <3>1, <3>2
  <2> QED BY <1>s, <2>1, <2>2
<1>7. ASSUME NEW i \in DOMAIN fires, Rejects(i) PROVE SlotInv'
  <2> DEFINE id == fires[i].id
  <2>1. /\ Advance(i, "done") /\ "done" \in FireStates /\ cur \in Services
        /\ id \in JobIds \cap BadPayload /\ Made(fires[i])
        /\ disk = jobs[cur] /\ disk' = Rescheduled(cur, id)
    BY <1>7, <1>c, RejectLeaves DEF Made
  <2>2. /\ DOMAIN disk' = DOMAIN disk
        /\ \A k \in DOMAIN disk :
             /\ disk'[k].enabled = disk[k].enabled /\ disk'[k].last = disk[k].last
             /\ disk'[k].next = IF k = id THEN NextRun(id, now) ELSE disk[k].next
    BY <1>t, <2>1, RescheduledIs
  <2>3. id \in DOMAIN disk => disk[id].last = 0
    BY <2>1 DEF CronInv, HistoryInv, Known
  <2>4. id \in DOMAIN disk /\ disk[id].enabled => ~IsAt(id)
    BY DEF OneShotInv
  <2>5. NextRun(id, now) \in Nat /\ (~IsAt(id) => NextRun(id, now) > now)
    BY <1>t, <2>1, NextRunIs
  <2> QED BY <1>6, <2>1, <2>2, <2>3, <2>4, <2>5
<1>8. ASSUME NEW i \in DOMAIN fires, FireFinish(i) PROVE SlotInv'
  <2> DEFINE id == fires[i].id
  <2>1. PICK l \in FireStates \cap {"done", "deliver"} : Advance(i, l)
    BY <1>8, FinishLeaves
  <2>2. Made(fires[i]) /\ id \in JobIds /\ disk' = AfterRun(disk, id)
    BY <1>8, <1>c, FinishLeaves DEF Made
  <2>3. /\ IsTable(disk') /\ DOMAIN disk' \subseteq DOMAIN disk
        /\ \A k \in DOMAIN disk' : k # id => disk'[k] = disk[k]
        /\ id \in DOMAIN disk' => disk'[id].last = now /\ (disk'[id].enabled => disk'[id].next > now)
    BY <1>t, <2>2, AfterRunIs
  <2>4. id \in DOMAIN disk' => disk'[id].next \in Nat
    BY <2>3 DEF IsTable, Job
  <2> QED BY <1>6, <2>1, <2>2, <2>3, <2>4
<1>9. ASSUME NEW id \in JobIds, cur \in Services, AddJob(cur, id) PROVE SlotInv'
  <2>1. disk = jobs[cur] /\ disk' = WithJob(cur, id) /\ UNCHANGED fires
    BY <1>9, <1>c, AddLeaves
  <2>2. /\ DOMAIN disk' = DOMAIN disk \cup {id} /\ \A k \in DOMAIN disk \ {id} : disk'[k] = disk[k]
        /\ \A i \in DOMAIN fires : fires[i].id # id
    BY <1>9, <2>1, AddLeaves
  <2> QED BY <1>s, <2>1, <2>2 DEF SlotInv
<1>10. ASSUME NEW id \in JobIds, cur \in Services, RemoveJob(cur, id) PROVE SlotInv'
  <2>1. disk = jobs[cur] /\ disk' = WithoutJob(cur, id) /\ UNCHANGED fires
    BY <1>10, <1>c, RemoveLeaves
  <2>2. \A k \in DOMAIN disk' : k \in DOMAIN disk /\ disk'[k] = disk[k]
    BY <1>10, <2>1, RemoveLeaves
  <2> QED BY <1>s, <2>1, <2>2 DEF SlotInv
<1> QED BY <1>1, <1>2, <1>3, <1>4, <1>5, <1>7, <1>8, <1>9, <1>10, StepCases, NoToggle

\* docs/guides/cron.md: "Two ticks of the same job cannot both fire from the same NextRunAtMs",
\* of one loop or of two: only a fire that ended without a run may be made up for.
THEOREM OneFirePerSlot == Spec /\ []Calm => []SlotFiresOnce
<1>1. SlotInv => SlotFiresOnce
  BY DEF SlotInv, SlotFiresOnce, Made
<1>2. Calm => Alone /\ Saved
  BY DEF Calm
<1>3. Init => OneShotInv /\ SlotInv
  BY FiringInit
<1> QED
  BY <1>1, <1>2, <1>3, CronInit, CronStep, FileInit, FileStep, OneShotStep, SlotStep, PTL DEF Spec

-----------------------------------------------------------------------------
(* One-shots are not early *)

\* A one-shot is on the schedule for its own time or not at all, and was taken at that time.
Timed(table) == \A id \in DOMAIN table : IsAt(id) => table[id].next \in {0, Schedule[id].t}
EarlyInv ==
  /\ Timed(disk) /\ \A s \in Services : Timed(jobs[s])
  /\ \A i \in DOMAIN fires : IsAt(fires[i].id) => fires[i].slot = Schedule[fires[i].id].t

\* Schedule.Next of a one-shot.
LEMMA TimesOfOneShots ==
  ASSUME NEW id \in JobIds, IsAt(id)
  PROVE  \A from \in Nat : NextRun(id, from) \in {0, Schedule[id].t}
  BY DEF NextRun, IsAt

LEMMA EarlyInit == Init => EarlyInv
<1> SUFFICES ASSUME Init PROVE EarlyInv
  OBVIOUS
<1>1. \A id \in JobIds : IsAt(id) => NextRun(id, 0) \in {0, Schedule[id].t}
  BY TimesOfOneShots
<1> QED BY <1>1, CronAssumption, EmptyIs DEF Init, EarlyInv, Timed

\* A computed time of a one-shot is its own, whatever it is computed from; the others are kept.
LEMMA EarlyStep == CronInv /\ EarlyInv /\ [Next]_vars => EarlyInv'
<1> SUFFICES ASSUME CronInv, EarlyInv, [Next]_vars PROVE EarlyInv'
  OBVIOUS
<1>t. /\ TypeOK /\ loadErrors \in Nat /\ now \in Nat /\ IsTable(disk)
      /\ \A s \in Services : IsTable(jobs[s])
  BY DEF CronInv, LifeInv, TypeOK
<1>n. \A id \in JobIds : IsAt(id) => NextRun(id, now) \in {0, Schedule[id].t}
  BY <1>t, TimesOfOneShots
<1>l. \A id \in JobIds, j \in Job : IsAt(id) => NextFrom(id, j) \in {0, Schedule[id].t}
  BY <1>t, TimesOfOneShots DEF NextFrom, Job
<1>w. ASSUME NEW s \in Services, NEW table, IsTable(table), Write(s, table), Timed(table)
      PROVE  Timed(disk') /\ \A r \in Services : Timed(jobs'[r])
  BY <1>t, <1>w, WriteIs DEF EarlyInv
<1>f. ASSUME DOMAIN fires' = DOMAIN fires,
             \A i \in DOMAIN fires : fires'[i].id = fires[i].id /\ fires'[i].slot = fires[i].slot
      PROVE  \A i \in DOMAIN fires' :
               IsAt(fires'[i].id) => fires'[i].slot = Schedule[fires'[i].id].t
  BY <1>f DEF EarlyInv, IsAt
<1>1. CASE Still
  BY <1>1, StillIs DEF EarlyInv, Timed, IsAt, fileVars
<1>2. CASE Crash
  BY <1>2, <1>f, <1>t, CrashIs DEF EarlyInv, Timed, IsAt, Crash, fileVars
<1>3. ASSUME NEW s \in Services, Start(s) PROVE EarlyInv'
  <2>1. Write(s, StartTable) /\ IsTable(StartTable) /\ UNCHANGED fires
    BY <1>3, <1>t, StartIs
  <2>2. Timed(StartTable)
    <3> SUFFICES ASSUME NEW id \in DOMAIN StartTable, IsAt(id)
                 PROVE  StartTable[id].next \in {0, Schedule[id].t}
      BY DEF Timed
    <3>1. id \in DOMAIN disk /\ id \in JobIds /\ disk[id] \in Job /\ disk[id].next \in {0, Schedule[id].t}
      BY <1>t, StartTableIs DEF EarlyInv, Timed, IsTable
    <3>2. StartTable[id].next = disk[id].next \/ StartTable[id].next = NextFrom(id, disk[id])
      BY <1>t, <3>1, StartTableIs
    <3> QED BY <1>l, <3>1, <3>2
  <2> QED BY <1>f, <1>w, <2>1, <2>2 DEF EarlyInv
<1>4. ASSUME NEW s \in Services, Loops(s) PROVE EarlyInv'
  BY <1>4, LoopsAre DEF EarlyInv, Timed, IsAt, fileVars
<1>5. ASSUME NEW s \in Services, CheckAndFire(s) PROVE EarlyInv'
  <2>1. Write(s, Taken(s)) /\ IsTable(Taken(s)) /\ Timed(Taken(s))
    BY <1>5, <1>t, CheckAndFireWrites, TakenIs DEF EarlyInv, Timed
  <2>2. ASSUME NEW i \in DOMAIN fires', IsAt(fires'[i].id)
        PROVE  fires'[i].slot = Schedule[fires'[i].id].t
    <3>1. CASE i \in DOMAIN fires
      BY <1>5, <1>t, <2>2, <3>1, CheckAndFireIs DEF EarlyInv
    <3>2. CASE i \notin DOMAIN fires
      <4>1. /\ fires'[i].id \in DOMAIN jobs[s] /\ fires'[i].slot = jobs[s][fires'[i].id].next
            /\ IsDue(jobs[s][fires'[i].id])
        BY <1>5, <1>t, <3>2, CheckAndFireIs DEF NewFires
      <4> QED BY <2>2, <4>1 DEF EarlyInv, Timed, IsDue
    <3> QED BY <3>1, <3>2
  <2> QED BY <1>w, <2>1, <2>2 DEF EarlyInv, IsAt
<1>6. ASSUME NEW i \in DOMAIN fires, NEW l \in FireStates, Advance(i, l)
      PROVE  DOMAIN fires' = DOMAIN fires /\ \A k \in DOMAIN fires :
               fires'[k].id = fires[k].id /\ fires'[k].slot = fires[k].slot
  BY <1>6, <1>t, AdvanceIs
<1>7. ASSUME NEW i \in DOMAIN fires, Moves(i) PROVE EarlyInv'
  <2>1. PICK l \in FireStates : Advance(i, l)
    BY <1>7 DEF Moves, FireStates, Terminal
  <2>2. UNCHANGED <<jobs, disk>>
    BY <1>7 DEF Moves, fileVars
  <2> QED BY <1>f, <1>6, <2>1, <2>2 DEF EarlyInv, Timed, IsAt
<1>8. ASSUME NEW i \in DOMAIN fires, Rejects(i) PROVE EarlyInv'
  <2> DEFINE s == fires[i].svc
             id == fires[i].id
  <2>1. /\ s \in Services /\ id \in JobIds /\ Advance(i, "done") /\ "done" \in FireStates
        /\ Write(s, Rescheduled(s, id))
    BY <1>8, <1>t, FireWrites DEF FireStates, Terminal
  <2>2. IsTable(Rescheduled(s, id)) /\ Timed(Rescheduled(s, id))
    BY <1>n, <1>t, <2>1, RescheduledIs DEF EarlyInv, Timed
  <2> HIDE DEF s, id
  <2> QED BY <1>f, <1>w, <1>6, <2>1, <2>2 DEF EarlyInv
<1>9. ASSUME NEW i \in DOMAIN fires, FireFinish(i) PROVE EarlyInv'
  <2> DEFINE s == fires[i].svc
             id == fires[i].id
             table == AfterRun(jobs[s], id)
  <2>1. /\ s \in Services /\ id \in JobIds
        /\ \E l \in FireStates : Advance(i, l)
        /\ Write(s, table) /\ IsTable(table)
    BY <1>9, <1>t, FireWrites DEF FireStates, Terminal
  <2>2. Timed(table)
    <3> SUFFICES ASSUME NEW k \in DOMAIN table, IsAt(k) PROVE table[k].next \in {0, Schedule[k].t}
      BY DEF Timed
    <3>1. k \in DOMAIN jobs[s] /\ (k # id => table[k] = jobs[s][k])
      BY <1>t, <2>1, AfterRunIs
    <3>2. k = id => table[k].next \in {0, jobs[s][k].next, NextRun(k, now)}
      BY <1>t, <2>1, <3>1 DEF AfterRun, Restrict, IsTable, Job
    <3>3. jobs[s][k].next \in {0, Schedule[k].t}
      BY <2>1, <3>1 DEF EarlyInv, Timed
    <3> QED BY <1>n, <2>1, <3>1, <3>2, <3>3
  <2> HIDE DEF s, id, table
  <2> QED BY <1>f, <1>w, <1>6, <2>1, <2>2 DEF EarlyInv
<1>10. ASSUME NEW id \in JobIds, cur \in Services, AddJob(cur, id) PROVE EarlyInv'
  <2>1. Write(cur, WithJob(cur, id)) /\ IsTable(WithJob(cur, id)) /\ UNCHANGED fires
    BY <1>10, <1>t, WithJobIs DEF AddJob, WithJob
  <2>2. Timed(WithJob(cur, id))
    BY <1>n, <1>10 DEF EarlyInv, Timed, WithJob
  <2> QED BY <1>f, <1>w, <1>10, <2>1, <2>2 DEF EarlyInv
<1>11. ASSUME NEW id \in JobIds, cur \in Services, RemoveJob(cur, id) PROVE EarlyInv'
  <2>1. Write(cur, WithoutJob(cur, id)) /\ IsTable(WithoutJob(cur, id)) /\ UNCHANGED fires
    <3>1. Write(cur, WithoutJob(cur, id)) /\ UNCHANGED fires
      BY <1>11 DEF RemoveJob, WithoutJob
    <3>2. IsTable(WithoutJob(cur, id))
      BY <1>11, <1>t, WithoutJobIs
    <3> QED BY <3>1, <3>2
  <2>2. DOMAIN WithoutJob(cur, id) \subseteq DOMAIN jobs[cur]
    BY <1>t, <1>11, WithoutJobIs
  <2>3. \A k \in DOMAIN WithoutJob(cur, id) : WithoutJob(cur, id)[k] = jobs[cur][k]
    BY <1>t, <1>11, WithoutJobIs
  <2>4. Timed(jobs[cur])
    BY <1>11 DEF EarlyInv
  <2>5. Timed(WithoutJob(cur, id))
    BY <2>2, <2>3, <2>4 DEF Timed
  <2> QED BY <1>f, <1>w, <1>11, <2>1, <2>5 DEF EarlyInv
<1>12. ASSUME NEW id \in JobIds, NEW e \in BOOLEAN, cur \in Services, EnableJob(cur, id, e)
       PROVE  EarlyInv'
  <2>1. id \in DOMAIN jobs[cur] /\ Write(cur, Toggled(cur, id, e)) /\ UNCHANGED fires
    BY <1>12 DEF EnableJob, Toggled
  <2>2. IsTable(Toggled(cur, id, e))
    BY <1>12, <1>t, <2>1, ToggledIs
  <2>3. jobs[cur][id] \in Job /\ Timed(jobs[cur])
    BY <1>12, <1>t, <2>1 DEF EarlyInv, IsTable
  <2>4. Timed(Toggled(cur, id, e))
    BY <1>l, <1>12, <2>1, <2>3 DEF Timed, Toggled
  <2> QED BY <1>f, <1>w, <1>12, <2>1, <2>2, <2>4 DEF EarlyInv
<1> QED BY <1>1, <1>2, <1>3, <1>4, <1>5, <1>7, <1>8, <1>9, <1>10, <1>11, <1>12, StepCases

\* A slot is taken when it has come.
LEMMA NotEarly == CronInv /\ EarlyInv => OneShotsAreNotEarly
  BY DEF CronInv, HistoryInv, EarlyInv, OneShotsAreNotEarly

-----------------------------------------------------------------------------
(* One-shots are on time *)

\* The deadline is no later than the next one-shot, or the loop has been woken to set it again.
LEMMA SleepStep ==
  CronInv /\ FileInv /\ OneShotInv /\ SleepInv /\ Calm /\ Calm' /\ [Next]_vars => SleepInv'
<1> SUFFICES ASSUME CronInv, FileInv, OneShotInv, SleepInv, Alone, Alone', Saved, Saved',
                    Untoggled, Untoggled', [Next]_vars
             PROVE  SleepInv'
  BY DEF Calm
<1>t. /\ TypeOK /\ now \in Nat /\ lpc \in [Services -> {"off", "plan", "wait", "fire", "exited"}]
      /\ deadline \in [Services -> Nat] /\ wake \in [Services -> BOOLEAN] /\ cur \in 0..MaxServices
  BY DEF CronInv, TypeOK
<1>c. ASSUME NEW table, cur \in Services, Leaves(table) PROVE disk = jobs[cur] /\ disk' = table
  BY <1>c, CalmLeaves
<1>s. \* a step that leaves the loop alone and puts no one-shot on the schedule
      ASSUME UNCHANGED <<cur, loopVars>>, now' \in {now, now + 1},
             \A id \in DOMAIN jobs'[cur] : IsAt(id) /\ jobs'[cur][id].enabled
               => id \in DOMAIN jobs[cur] /\ jobs'[cur][id] = jobs[cur][id]
      PROVE  SleepInv'
  <2> SUFFICES ASSUME NEW id \in JobIds, cur > 0, lpc[cur] = "wait", ~wake[cur],
                      IsAt(id), id \in DOMAIN jobs'[cur], jobs'[cur][id].enabled,
                      jobs'[cur][id].next > 0
               PROVE  deadline[cur] <= jobs'[cur][id].next \/ deadline[cur] <= now'
    BY <1>s DEF SleepInv, IsAt, loopVars
  <2>1. id \in DOMAIN jobs[cur] /\ jobs'[cur][id] = jobs[cur][id]
    BY <1>s
  <2>2. deadline[cur] <= jobs[cur][id].next \/ deadline[cur] <= now
    BY <2>1 DEF SleepInv
  <2>3. deadline[cur] \in Nat
    BY <1>t DEF Services
  <2> QED BY <1>s, <1>t, <2>1, <2>2, <2>3
<1>p. ASSUME lpc'[cur'] # "wait" \/ wake'[cur'] PROVE SleepInv'
  BY <1>p DEF SleepInv
<1>1. CASE Still
  BY <1>1, <1>s, StillIs
<1>2. CASE Crash
  <2>1. cur > 0 => lpc'[cur] = "exited" /\ cur' = cur
    BY <1>2, <1>t DEF Crash, Services
  <2>2. cur > 0 /\ cur' = cur
    BY <1>2, <1>t DEF Crash
  <2> QED BY <1>p, <2>1, <2>2
<1>3. ASSUME NEW s \in Services, Start(s) PROVE SleepInv'
  BY <1>3, <1>p, StartLeaves
<1>4. ASSUME NEW s \in Services, Loops(s), s # cur PROVE SleepInv'
  <2>1. cur > 0 =>
          /\ lpc'[cur] = lpc[cur] /\ deadline'[cur] = deadline[cur] /\ wake'[cur] = wake[cur]
    <3> SUFFICES ASSUME cur \in Services
                 PROVE  /\ lpc'[cur] = lpc[cur] /\ deadline'[cur] = deadline[cur]
                        /\ wake'[cur] = wake[cur]
      BY <1>t DEF Services
    <3> QED BY <1>4, <1>t DEF Loops, LoopPlan, LoopWake, LoopTimer, LoopExit
  <2>2. UNCHANGED <<cur, jobs, now>>
    BY <1>4, LoopsAre DEF lifeVars
  <2> QED BY <2>1, <2>2 DEF SleepInv
<1>5. ASSUME cur \in Services, LoopPlan(cur) PROVE SleepInv'
  <2>1. /\ deadline'[cur] = now + NextDelay(jobs[cur]) /\ UNCHANGED <<cur, jobs, now>>
    BY <1>5, <1>t DEF LoopPlan, lifeVars
  <2>2. IsTable(jobs[cur])
    BY <1>5, <1>t DEF TypeOK
  <2>3. \A id \in DOMAIN jobs[cur] : jobs[cur][id].enabled /\ jobs[cur][id].next > 0 =>
          now + NextDelay(jobs[cur]) <= jobs[cur][id].next \/ now + NextDelay(jobs[cur]) <= now
    BY <1>t, <2>2, NextDelayIs
  <2> QED BY <2>1, <2>3 DEF SleepInv
<1>6. ASSUME cur \in Services, LoopWake(cur) \/ LoopTimer(cur) \/ LoopExit(cur) PROVE SleepInv'
  <2>1. lpc'[cur] \in {"plan", "fire", "exited"} /\ cur' = cur
    BY <1>6, <1>t DEF LoopWake, LoopTimer, LoopExit, lifeVars
  <2> QED BY <1>p, <2>1
<1>7. ASSUME NEW s \in Services, CheckAndFire(s) PROVE SleepInv'
  <2>1. lpc'[cur] = "plan" /\ cur' = cur
    BY <1>7, TakeLeaves
  <2> QED BY <1>p, <2>1
<1>8. ASSUME NEW i \in DOMAIN fires, Moves(i) PROVE SleepInv'
  <2>1. UNCHANGED <<cur, loopVars, now, jobs>>
    BY <1>8 DEF Moves, lifeVars
  <2> QED BY <1>s, <2>1
<1>9. ASSUME NEW i \in DOMAIN fires, Rejects(i) PROVE SleepInv'
  <2> DEFINE id == fires[i].id
             table == Rescheduled(cur, id)
  <2>1. /\ UNCHANGED <<cur, loopVars, now>> /\ jobs'[cur] = table /\ disk = jobs[cur]
        /\ cur \in Services /\ id \in JobIds
    BY <1>9, <1>c, RejectLeaves DEF Leaves
  <2>2. /\ IsTable(table) /\ DOMAIN table = DOMAIN jobs[cur]
        /\ \A k \in DOMAIN jobs[cur] :
             /\ table[k].enabled = jobs[cur][k].enabled /\ table[k].last = jobs[cur][k].last
             /\ k # id => table[k].next = jobs[cur][k].next
    BY <1>t, <2>1, RescheduledIs
  <2>3. \A k \in DOMAIN table : k # id => table[k] = jobs[cur][k]
    BY <2>1 DEF Rescheduled
  <2>4. id \in DOMAIN jobs[cur] /\ IsAt(id) => ~jobs[cur][id].enabled
    BY <2>1 DEF OneShotInv
  <2> HIDE DEF table
  <2> QED BY <1>s, <2>1, <2>2, <2>3, <2>4
<1>10. ASSUME NEW i \in DOMAIN fires, FireFinish(i) PROVE SleepInv'
  <2> DEFINE id == fires[i].id
             table == AfterRun(jobs[cur], id)
  <2>1. /\ UNCHANGED <<cur, loopVars, now>> /\ jobs'[cur] = table
        /\ id \in JobIds /\ IsTable(jobs[cur])
    BY <1>10, FinishLeaves DEF Leaves
  <2>2. /\ DOMAIN table \subseteq DOMAIN jobs[cur]
        /\ \A k \in DOMAIN table : k # id => table[k] = jobs[cur][k]
        /\ id \in DOMAIN table /\ table[id].enabled => ~IsAt(id)
    BY <1>t, <2>1, AfterRunIs
  <2> HIDE DEF table
  <2> QED BY <1>s, <2>1, <2>2
<1>11. ASSUME NEW id \in JobIds, cur \in Services, AddJob(cur, id) PROVE SleepInv'
  <2>1. wake'[cur] /\ cur' = cur
    BY <1>11, AddLeaves DEF Saved
  <2> QED BY <1>p, <2>1
<1>12. ASSUME NEW id \in JobIds, cur \in Services, RemoveJob(cur, id) PROVE SleepInv'
  <2>1. wake'[cur] /\ cur' = cur
    BY <1>12, RemoveLeaves
  <2> QED BY <1>p, <2>1
<1>13. ASSUME NEW s \in Services, Loops(s) PROVE SleepInv'
  BY <1>4, <1>5, <1>6, <1>13 DEF Loops
<1> QED
  BY <1>1, <1>2, <1>3, <1>7, <1>8, <1>9, <1>10, <1>11, <1>12, <1>13, StepCases, NoToggle

\* What the invariants say of the one-shots.
LEMMA OnTime == CronInv /\ Alone /\ OneShotInv /\ EarlyInv /\ SleepInv => OneShotsFireOnceOnTime
<1> SUFFICES ASSUME CronInv, Alone, OneShotInv, EarlyInv, SleepInv,
                    NEW s \in Services, NEW id \in JobIds, IsAt(id), Oversleeps(s, id)
             PROVE  FALSE
  BY NotEarly DEF OneShotsFireOnceOnTime, OneShotsAreOnTime, OneShotInv
<1>1. /\ cur \in Nat /\ s \in Nat /\ s > 0 /\ now \in Nat /\ deadline[s] \in Nat
      /\ IsTable(jobs[s])
  BY CronAssumption DEF CronInv, TypeOK, Services
<1>2. s = cur
  <2>1. s <= cur
    BY <1>1 DEF CronInv, LifeInv, Oversleeps
  <2>2. ~(s < cur)
    BY DEF Alone, Oversleeps
  <2> QED BY <1>1, <2>1, <2>2
<1>3. jobs[s][id].next \in Nat
  BY <1>1 DEF IsTable, Job, Oversleeps
<1>4. deadline[s] <= jobs[s][id].next \/ deadline[s] <= now
  BY <1>1, <1>2 DEF SleepInv, Oversleeps, IsDue
<1> QED BY <1>1, <1>3, <1>4 DEF Oversleeps, IsDue

\* The promise a reminder makes: once, whatever dies in between ("Disabling one-shots happens
\* before fire, so a crash mid-run does not re-fire on restart"), not before its time, and the
\* loop does not sleep past it.
THEOREM RemindersKept == Spec /\ []Calm => []OneShotsFireOnceOnTime
<1>1. Calm => Alone /\ Saved
  BY DEF Calm
<1>2. Init => OneShotInv /\ SleepInv
  BY FiringInit
<1> QED
  BY <1>1, <1>2, OnTime, CronInit, CronStep, EarlyInit, EarlyStep, FileInit, FileStep,
     OneShotStep, SleepStep, PTL DEF Spec

-----------------------------------------------------------------------------
(* All of it, through crashes at any step *)

\* The service with crashes as its only faults: what the safety run checks for two jobs and one
\* crash, for all of them.
THEOREM CrashesAreHarmless ==
  ASSUME FaultFree
  PROVE  Spec => /\ [](SlotFiresOnce /\ RunsDoNotOverlap /\ OneShotsFireOnceOnTime)
                 /\ [](RemovedStaysRemoved /\ NoJobStalls) /\ JobsSurvive
<1>1. Calm => Alone /\ Saved /\ Untoggled
  BY DEF Calm
<1> QED
  BY <1>1, CalmWhenFaultFree, OneFirePerSlot, NoOverlap, RemindersKept, RemovalIsFinal,
     JobsAreKept, NobodyStalls, PTL

=============================================================================
