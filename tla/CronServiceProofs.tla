-------------------------- MODULE CronServiceProofs --------------------------
(***************************************************************************)
(* Proofs about CronService, for all jobs, schedules, services and bounds. *)
(* What the service promises holds on conditions, and the theorems name    *)
(* the least of them: every service starts alone, no save has failed,      *)
(* nobody has toggled a job. Where they end the code and its documentation *)
(* part, or nothing is promised.                                           *)
(***************************************************************************)
EXTENDS CronService, FiniteSetTheorems, WellFoundedInduction, TLAPS

\* When a service starts, the loop and the fires of those before it are over. Stop waits
\* for the fires only, so this is a condition and no invariant.
Alone == \A s \in Services : s < cur => lpc[s] = "exited" /\ Pending(s) = {}
\* Every save has reached the file; EnableJob is not called; every start read the file.
Saved == saveErrors = 0
Untoggled == toggles = 0
Loaded == loadErrors = 0
Calm == Alone /\ Saved /\ Untoggled

\* Nothing is done by a service that was not started, and errors are counted.
LifeInv ==
  /\ \A s \in Services : s > cur => lpc[s] = "off"
  /\ \A i \in DOMAIN fires : fires[i].svc <= cur
  /\ saveErrors \in Nat /\ toggles \in Nat /\ loadErrors \in Nat

\* AddJob gives fresh ids; a bad payload never runs and has no last run.
Known(table, ids) ==
  DOMAIN table \subseteq ids /\ \A id \in BadPayload \cap DOMAIN table : table[id].last = 0
HistoryInv ==
  /\ Known(disk, added) /\ \A s \in Services : Known(jobs[s], added)
  /\ removed \subseteq added
  /\ \A i \in DOMAIN fires :
       /\ fires[i].id \in added /\ fires[i].slot <= now
       /\ fires[i].id \in BadPayload => fires[i].pc \in {"start", "done", "lost"}

CronInv == TypeOK /\ LifeInv /\ HistoryInv

\* What is in the file and not in the table was removed, or has had its one run.
KeptInv ==
  \A id \in DOMAIN disk : cur > 0 => id \in DOMAIN jobs[cur] \cup removed \cup DeleteAfterRun

\* A crash between any two steps finds in the file what the service had decided.
FileIsCurrent == cur > 0 => disk = jobs[cur]

\* The file is the table, and what was removed is in neither.
FileInv == FileIsCurrent /\ RemovedStaysRemoved

-----------------------------------------------------------------------------
(* The operators the model is built from *)

\* A finite set can be listed without repetition.
LEMMA SetToSeqLists ==
  ASSUME NEW S, IsFiniteSet(S)
  PROVE  /\ SetToSeq(S) \in Seq(S) /\ Len(SetToSeq(S)) = Cardinality(S)
         /\ \A i, k \in 1..Cardinality(S) : i # k => SetToSeq(S)[i] # SetToSeq(S)[k]
         /\ \A x \in S : \E i \in 1..Cardinality(S) : SetToSeq(S)[i] = x
<1>1. Cardinality(S) \in Nat /\ ExistsBijection(1..Cardinality(S), S)
  BY FS_CardinalityType
<1>2. \E f \in [1..Cardinality(S) -> S] : IsInjective(f)
  BY <1>1 DEF ExistsBijection, Bijection, Injection, IsInjective
<1>3. SetToSeq(S) \in [1..Cardinality(S) -> S] /\ IsInjective(SetToSeq(S))
  BY <1>2 DEF SetToSeq
<1>4. SetToSeq(S) \in Surjection(1..Cardinality(S), S)
  <2>1. SetToSeq(S) \in Injection(1..Cardinality(S), S)
    BY <1>3 DEF Injection
  <2>2. IsFiniteSet(1..Cardinality(S)) /\ Cardinality(1..Cardinality(S)) = Cardinality(S)
    BY <1>1, FS_Interval
  <2> QED BY <2>1, <2>2, FS_Injection
<1> QED BY <1>1, <1>3, <1>4 DEF IsInjective, Surjection

\* A set of numbers has a least one.
LEMMA SmallestNat ==
  ASSUME NEW S \in SUBSET Nat, S # {}
  PROVE  \E n \in S : \A m \in S : n <= m
<1>1. PICK n \in S : \A m \in S : ~(<<m, n>> \in OpToRel(<, Nat))
  BY NatLessThanWellFounded, WFMin
<1>2. \A m \in S : (m < n) => <<m, n>> \in OpToRel(<, Nat)
  BY Z3 DEF OpToRel
<1>3. \A m \in S : ~(m < n)
  BY <1>1, <1>2
<1> QED BY <1>3

\* Multiples of a positive number: the next one is later.
LEMMA NextMultiple ==
  ASSUME NEW n \in Nat, NEW t \in Nat \ {0}
  PROVE  (n \div t + 1) * t \in Nat /\ (n \div t + 1) * t > n
<1> DEFINE q == n \div t
<1>1. q \in Nat
  OBVIOUS
<1>2. q * t <= n /\ n < q * t + t
  BY Z3
<1>3. (q + 1) * t = q * t + t /\ q * t \in Nat
  BY <1>1
<1> QED BY <1>1, <1>2, <1>3

\* Schedule.Next: a one-shot has its one time, the others a later one.
LEMMA NextRunIs ==
  ASSUME NEW id \in JobIds, NEW from \in Nat
  PROVE  /\ NextRun(id, from) \in Nat
         /\ ~IsAt(id) => NextRun(id, from) > from
         /\ NextRun(id, from) > 0 /\ IsAt(id) => NextRun(id, from) >= from
<1>1. Schedule[id].t \in Nat \ {0} /\ Schedule[id].kind \in {"at", "every", "cron"}
  BY CronAssumption
<1>2. (from \div Schedule[id].t + 1) * Schedule[id].t > from
      /\ (from \div Schedule[id].t + 1) * Schedule[id].t \in Nat
  BY <1>1, NextMultiple
<1> QED BY <1>1, <1>2 DEF NextRun, IsAt

\* The delay of runLoop is a number, and reaches no further than the next run of any job.
LEMMA NextDelayIs ==
  ASSUME NEW table, IsTable(table), now \in Nat
  PROVE  /\ NextDelay(table) \in Nat
         /\ \A id \in DOMAIN table : table[id].enabled /\ table[id].next > 0 =>
              now + NextDelay(table) <= table[id].next \/ now + NextDelay(table) <= now
<1> DEFINE Left(id) == IF table[id].next > now THEN table[id].next - now ELSE 0
           Rem == {Left(id) : id \in {i \in DOMAIN table : table[i].enabled /\ table[i].next > 0}}
<1>1. \A id \in DOMAIN table : table[id].next \in Nat
  BY DEF IsTable, Job
<1>2. Rem \in SUBSET Nat
  BY <1>1
<1>3. CASE Rem = {}
  <2>1. NextDelay(table) = Hour
    BY <1>3 DEF NextDelay
  <2>2. \A id \in DOMAIN table : ~(table[id].enabled /\ table[id].next > 0)
    BY <1>3
  <2> QED BY <2>1, <2>2, CronAssumption
<1>4. CASE Rem # {}
  <2> DEFINE r == CHOOSE x \in Rem : \A q \in Rem : x <= q
  <2>1. r \in Rem /\ \A q \in Rem : r <= q
    BY <1>2, <1>4, SmallestNat
  <2>2. NextDelay(table) = r
    BY <1>4 DEF NextDelay
  <2>3. ASSUME NEW id \in DOMAIN table, table[id].enabled, table[id].next > 0
        PROVE  r <= Left(id)
    BY <2>1, <2>3
  <2>4. r \in Nat
    BY <1>2, <2>1
  <2> HIDE DEF r, Rem
  <2> QED BY <1>1, <2>2, <2>3, <2>4
<1> QED BY <1>3, <1>4

\* ensureNextRunLocked keeps the jobs, and only fills in what was missing.
LEMMA EnsureNextRunIs ==
  ASSUME NEW table, IsTable(table), now \in Nat
  PROVE  /\ IsTable(EnsureNextRun(table)) /\ DOMAIN EnsureNextRun(table) = DOMAIN table
         /\ \A id \in DOMAIN table :
              LET j == table[id]
                  k == EnsureNextRun(table)[id]
              IN /\ k.enabled = j.enabled /\ k.last = j.last
                 /\ j.next # 0 \/ ~j.enabled => k.next = j.next
                 /\ j.next = 0 /\ j.enabled => k.next = NextFrom(id, j)
<1>1. \A id \in DOMAIN table : id \in JobIds /\ table[id] \in Job
  BY DEF IsTable
<1>2. \A id \in DOMAIN table : NextFrom(id, table[id]) \in Nat
  BY <1>1, NextRunIs DEF NextFrom, Job
<1>3. \A id \in DOMAIN table : EnsureNextRun(table)[id] =
        IF table[id].enabled /\ table[id].next = 0
        THEN [table[id] EXCEPT !.next = NextFrom(id, table[id])] ELSE table[id]
  BY DEF EnsureNextRun
<1>4. DOMAIN EnsureNextRun(table) = DOMAIN table
  BY DEF EnsureNextRun
<1>5. \A id \in DOMAIN table : EnsureNextRun(table)[id] \in Job
  BY <1>1, <1>2, <1>3 DEF Job
<1> QED
  BY <1>1, <1>2, <1>3, <1>4, <1>5 DEF IsTable, Job

\* fire, after the run: the job is gone, or was rescheduled from now.
LEMMA AfterRunIs ==
  ASSUME NEW table, IsTable(table), now \in Nat, NEW id \in JobIds
  PROVE  /\ IsTable(AfterRun(table, id)) /\ DOMAIN AfterRun(table, id) \subseteq DOMAIN table
         /\ DOMAIN table \ DOMAIN AfterRun(table, id) \subseteq DeleteAfterRun
         /\ \A i \in DOMAIN AfterRun(table, id) : i # id => AfterRun(table, id)[i] = table[i]
         /\ id \in DOMAIN AfterRun(table, id) =>
              LET k == AfterRun(table, id)[id] IN
              /\ k.enabled => table[id].enabled /\ ~IsAt(id)
              /\ k.last = now /\ (k.enabled => k.next > now)
<1>1. NextRun(id, now) \in Nat /\ (~IsAt(id) => NextRun(id, now) > now)
  BY NextRunIs
<1> QED BY <1>1 DEF AfterRun, Restrict, IsTable, Job

-----------------------------------------------------------------------------
(* What the steps do to the fires *)

FireRecord == [svc : Services, id : JobIds, slot : Nat \ {0}, pc : FireStates]

\* Each of the fires is one of a service and of a job.
LEMMA FiresAre == ASSUME TypeOK PROVE \A i \in DOMAIN fires : fires[i] \in FireRecord
<1>1. fires \in Seq(FireRecord)
  BY DEF TypeOK, FireRecord
<1> QED BY <1>1

\* A step of one fire changes where that fire is and nothing else about the fires.
LEMMA AdvanceIs ==
  ASSUME TypeOK, NEW i \in DOMAIN fires, NEW l \in FireStates, Advance(i, l)
  PROVE  /\ fires' \in Seq(FireRecord) /\ DOMAIN fires' = DOMAIN fires
         /\ \A k \in DOMAIN fires :
              /\ fires'[k].svc = fires[k].svc /\ fires'[k].id = fires[k].id
              /\ fires'[k].slot = fires[k].slot
              /\ fires'[k].pc = IF k = i THEN l ELSE fires[k].pc
<1>1. fires \in Seq(FireRecord)
  BY DEF TypeOK, FireRecord
<1>2. \A k \in DOMAIN fires : fires[k] \in FireRecord
  BY <1>1
<1>3. fires' = [fires EXCEPT ![i].pc = l] /\ DOMAIN fires = 1..Len(fires) /\ Len(fires) \in Nat
  BY <1>1 DEF Advance
<1>4. /\ fires' = [k \in 1..Len(fires) |-> IF k = i THEN [fires[k] EXCEPT !.pc = l] ELSE fires[k]]
      /\ Len(fires) \in Nat
  BY <1>3
<1>5. \A k \in 1..Len(fires) : fires'[k] \in FireRecord
  BY <1>2, <1>3 DEF FireRecord
<1>6. fires' \in Seq(FireRecord)
  BY <1>4, <1>5
<1> QED BY <1>2, <1>3, <1>6 DEF FireRecord

\* checkAndFire: one new fire for each due job, which gives its slot.
NewFires == {i \in DOMAIN fires' : i \notin DOMAIN fires}
LEMMA CheckAndFireIs ==
  ASSUME TypeOK, NEW s \in Services, CheckAndFire(s)
  PROVE  /\ fires' \in Seq(FireRecord) /\ DOMAIN fires \subseteq DOMAIN fires'
         /\ \A i \in DOMAIN fires : fires'[i] = fires[i]
         /\ \A i \in NewFires :
              /\ fires'[i].svc = s /\ fires'[i].pc = "start"
              /\ fires'[i].id \in DOMAIN jobs[s] /\ IsDue(jobs[s][fires'[i].id])
              /\ fires'[i].slot = jobs[s][fires'[i].id].next
         /\ \A i, k \in NewFires : i # k => fires'[i].id # fires'[k].id
         /\ \A id \in DOMAIN jobs[s] : IsDue(jobs[s][id]) => \E i \in NewFires : fires'[i].id = id
<1> DEFINE due == {id \in DOMAIN jobs[s] : IsDue(jobs[s][id])}
           new == {[svc |-> s, id |-> id, slot |-> jobs[s][id].next, pc |-> "start"] : id \in due}
           q == SetToSeq(new)
<1>1. due \subseteq JobIds /\ \A id \in due : jobs[s][id].next \in Nat \ {0}
  BY DEF TypeOK, IsTable, Job, IsDue
<1>2. IsFiniteSet(new)
  <2>1. IsFiniteSet(due)
    BY <1>1, CronAssumption, FS_Subset
  <2> DEFINE f == [id \in due |-> [svc |-> s, id |-> id, slot |-> jobs[s][id].next, pc |-> "start"]]
  <2>2. f \in Surjection(due, new)
    BY DEF Surjection
  <2> QED BY <2>1, <2>2, FS_Surjection
<1>3. new \subseteq FireRecord
  BY <1>1 DEF FireRecord, FireStates
<1>4. /\ q \in Seq(new) /\ \A i, k \in 1..Len(q) : i # k => q[i] # q[k]
      /\ \A x \in new : \E i \in 1..Len(q) : q[i] = x
  BY <1>2, SetToSeqLists
<1>5. fires' = fires \o q
  BY DEF CheckAndFire
<1> HIDE DEF q, new
<1>6. fires \in Seq(FireRecord) /\ q \in Seq(FireRecord)
  <2>1. q \in Seq(FireRecord)
    BY <1>3, <1>4
  <2> QED BY <2>1 DEF TypeOK, FireRecord
<1>7. \A i \in 1..Len(q) : q[i] \in new
  BY <1>4
<1>8. /\ fires' \in Seq(FireRecord) /\ DOMAIN fires = 1..Len(fires)
      /\ DOMAIN fires' = 1..(Len(fires) + Len(q))
      /\ \A i \in DOMAIN fires : fires'[i] = fires[i]
      /\ \A i \in NewFires : i - Len(fires) \in 1..Len(q) /\ fires'[i] = q[i - Len(fires)]
  BY <1>5, <1>6 DEF NewFires
<1>9. \A i \in NewFires : fires'[i] \in new
  BY <1>7, <1>8
<1>12. ASSUME NEW x \in new PROVE \E i \in NewFires : fires'[i] = x
  <2>1. PICK i \in 1..Len(q) : q[i] = x
    BY <1>4
  <2>2. Len(fires) \in Nat /\ Len(q) \in Nat
    BY <1>6
  <2>3. Len(fires) + i \in NewFires /\ (Len(fires) + i) - Len(fires) = i
    BY <1>8, <2>2 DEF NewFires
  <2>4. fires'[Len(fires) + i] = q[i]
    BY <1>8, <2>3
  <2> QED BY <2>1, <2>3, <2>4
<1> USE DEF new
<1>13. ASSUME NEW id \in DOMAIN jobs[s], IsDue(jobs[s][id]) PROVE \E i \in NewFires : fires'[i].id = id
  <2>1. [svc |-> s, id |-> id, slot |-> jobs[s][id].next, pc |-> "start"] \in new
    BY <1>13
  <2> DEFINE x == [svc |-> s, id |-> id, slot |-> jobs[s][id].next, pc |-> "start"]
  <2>2. x.id = id
    OBVIOUS
  <2> HIDE DEF x, new
  <2>3. PICK i \in NewFires : fires'[i] = x
    BY <1>12, <2>1 DEF x
  <2> QED BY <2>2, <2>3
<1> HIDE DEF new
<1>10. \A i, k \in NewFires : i # k => fires'[i] # fires'[k]
  <2> SUFFICES ASSUME NEW i \in NewFires, NEW k \in NewFires, i # k PROVE fires'[i] # fires'[k]
    OBVIOUS
  <2> DEFINE a == i - Len(fires)
             b == k - Len(fires)
  <2>1. a # b
    BY <1>6, <1>8 DEF NewFires
  <2>2. a \in 1..Len(q) /\ b \in 1..Len(q) /\ fires'[i] = q[a] /\ fires'[k] = q[b]
    BY <1>8
  <2> HIDE DEF a, b
  <2>3. q[a] # q[b]
    BY <1>4, <2>1, <2>2
  <2> QED BY <2>2, <2>3
<1>11. \A i, k \in NewFires : i # k => fires'[i].id # fires'[k].id
  BY <1>9, <1>10 DEF new
<1>14. \A i \in NewFires : /\ fires'[i].svc = s /\ fires'[i].pc = "start"
                          /\ fires'[i].id \in due /\ fires'[i].slot = jobs[s][fires'[i].id].next
  BY <1>9 DEF new
<1> QED BY <1>1, <1>8, <1>11, <1>13, <1>14

\* A crash ends the fires that were still to end, as lost.
LEMMA CrashIs ==
  ASSUME TypeOK, Crash
  PROVE  /\ fires' \in Seq(FireRecord) /\ DOMAIN fires' = DOMAIN fires
         /\ \A k \in DOMAIN fires :
              /\ fires'[k].svc = fires[k].svc /\ fires'[k].id = fires[k].id
              /\ fires'[k].slot = fires[k].slot
              /\ fires'[k].pc = IF fires[k].pc \in Terminal THEN fires[k].pc ELSE "lost"
<1>1. fires \in Seq(FireRecord)
  BY DEF TypeOK, FireRecord
<1>2. \A i \in DOMAIN fires : fires[i] \in FireRecord
  BY <1>1
<1>3. /\ fires' = [i \in 1..Len(fires) |->
           IF fires[i].pc \in Terminal THEN fires[i] ELSE [fires[i] EXCEPT !.pc = "lost"]]
      /\ Len(fires) \in Nat /\ DOMAIN fires = 1..Len(fires)
  BY <1>1 DEF Crash
<1>4. \A i \in 1..Len(fires) : fires'[i] \in FireRecord
  BY <1>2, <1>3 DEF FireRecord, FireStates, Terminal
<1>5. fires' \in Seq(FireRecord)
  BY <1>3, <1>4
<1> QED BY <1>2, <1>3, <1>5 DEF FireRecord

-----------------------------------------------------------------------------
(* The tables that the critical sections write *)

Taken(s) == [id \in DOMAIN jobs[s] |->
               IF IsDue(jobs[s][id]) THEN Take(id, jobs[s][id]) ELSE jobs[s][id]]
Rescheduled(s, id) ==
  IF id \in DOMAIN jobs[s] THEN [jobs[s] EXCEPT ![id].next = NextRun(id, now)] ELSE jobs[s]
WithJob(s, id) ==
  [i \in DOMAIN jobs[s] \cup {id} |->
     IF i = id THEN [enabled |-> TRUE, next |-> NextRun(id, now), last |-> 0] ELSE jobs[s][i]]
WithoutJob(s, id) == Restrict(jobs[s], DOMAIN jobs[s] \ {id})
Toggled(s, id, e) ==
  [jobs[s] EXCEPT ![id] =
     [jobs[s][id] EXCEPT !.enabled = e,
                         !.next = IF ~e THEN 0 ELSE IF @ = 0 THEN NextFrom(id, jobs[s][id]) ELSE @]]

\* checkAndFire takes the due jobs off the schedule and leaves the others alone.
LEMMA TakenIs ==
  ASSUME TypeOK, NEW s \in Services
  PROVE  /\ IsTable(Taken(s)) /\ DOMAIN Taken(s) = DOMAIN jobs[s]
         /\ \A id \in DOMAIN jobs[s] :
              LET j == jobs[s][id]
                  k == Taken(s)[id]
              IN /\ k.last = j.last
                 /\ IsDue(j) => k.next = 0 /\ k.enabled = ~IsAt(id)
                 /\ ~IsDue(j) => k = j
<1>1. IsTable(jobs[s])
  BY DEF TypeOK
<1> QED BY <1>1 DEF IsTable, Job, Taken, Take, IsAt

\* A bad payload: the job gets its next run and nothing else.
LEMMA RescheduledIs ==
  ASSUME TypeOK, NEW s \in Services, NEW id \in JobIds
  PROVE  /\ IsTable(Rescheduled(s, id)) /\ DOMAIN Rescheduled(s, id) = DOMAIN jobs[s]
         /\ \A i \in DOMAIN jobs[s] :
              LET k == Rescheduled(s, id)[i]
              IN /\ k.enabled = jobs[s][i].enabled /\ k.last = jobs[s][i].last
                 /\ k.next = IF i = id THEN NextRun(id, now) ELSE jobs[s][i].next
<1>1. IsTable(jobs[s]) /\ NextRun(id, now) \in Nat
  BY NextRunIs DEF TypeOK
<1> QED BY <1>1 DEF IsTable, Job, Rescheduled

\* AddJob, RemoveJob and EnableJob change one job.
LEMMA WithJobIs ==
  ASSUME TypeOK, NEW s \in Services, NEW id \in JobIds
  PROVE  /\ IsTable(WithJob(s, id)) /\ DOMAIN WithJob(s, id) = DOMAIN jobs[s] \cup {id}
         /\ \A i \in DOMAIN jobs[s] \ {id} : WithJob(s, id)[i] = jobs[s][i]
         /\ WithJob(s, id)[id].last = 0
<1>1. IsTable(jobs[s]) /\ now \in Nat /\ NextRun(id, now) \in Nat
  BY NextRunIs DEF TypeOK
<1> QED BY <1>1 DEF WithJob, IsTable, Job

LEMMA WithoutJobIs ==
  ASSUME TypeOK, NEW s \in Services, NEW id \in JobIds
  PROVE  /\ IsTable(WithoutJob(s, id)) /\ DOMAIN WithoutJob(s, id) = DOMAIN jobs[s] \ {id}
         /\ \A i \in DOMAIN jobs[s] \ {id} : WithoutJob(s, id)[i] = jobs[s][i]
<1>1. IsTable(jobs[s])
  BY DEF TypeOK
<1> QED BY <1>1 DEF WithoutJob, Restrict, IsTable

LEMMA ToggledIs ==
  ASSUME TypeOK, NEW s \in Services, NEW id \in DOMAIN jobs[s], NEW e \in BOOLEAN
  PROVE  /\ IsTable(Toggled(s, id, e)) /\ DOMAIN Toggled(s, id, e) = DOMAIN jobs[s]
         /\ \A i \in DOMAIN jobs[s] : Toggled(s, id, e)[i].last = jobs[s][i].last
<1>1. IsTable(jobs[s]) /\ id \in JobIds /\ now \in Nat
  BY DEF TypeOK, IsTable
<1>2. NextFrom(id, jobs[s][id]) \in Nat
  BY <1>1, NextRunIs DEF NextFrom, IsTable, Job
<1> QED BY <1>1, <1>2 DEF Toggled, IsTable, Job

\* Empty is the table of a service that could not read its file.
LEMMA EmptyIs == IsTable(Empty) /\ DOMAIN Empty = {}
  BY DEF Empty, IsTable

\* A critical section leaves its table in memory, and in the file unless the save fails.
LEMMA WriteIs ==
  ASSUME TypeOK, NEW s \in Services, NEW table, IsTable(table), Write(s, table)
  PROVE  /\ IsTable(disk') /\ DOMAIN jobs' = Services /\ \A r \in Services : IsTable(jobs'[r])
         /\ jobs'[s] = table /\ \A r \in Services \ {s} : jobs'[r] = jobs[r]
         /\ \/ disk' = table /\ saveErrors' = saveErrors
            \/ disk' = disk /\ saveErrors' = saveErrors + 1
  BY DEF Write, SaveFails, TypeOK

-----------------------------------------------------------------------------
(* The steps, by what they do to the tables and the fires *)

\* Steps that touch neither: the clock, and the end of a service.
Still == Tick \/ CancelCtx \/ UNCHANGED vars \/ \E s \in Services : StopCall(s) \/ StopReturn(s)
\* The loop plans, waits and exits.
Loops(s) == LoopPlan(s) \/ LoopWake(s) \/ LoopTimer(s) \/ LoopExit(s)
\* Steps of a fire that leave the table alone.
Moves(i) ==
  /\ UNCHANGED <<now, jobs, fileVars, loopVars, lifeVars, userVars>>
  /\ \/ fires[i].pc = "start" /\ fires[i].id \notin BadPayload /\ Advance(i, "acquire")
     \/ fires[i].pc = "acquire" /\ (Advance(i, "run") \/ (ctxDone /\ Advance(i, "skipped")))
     \/ fires[i].pc = "deliver" /\ Advance(i, "done")
\* The payload is bad.
Rejects(i) == FireStart(i) /\ fires[i].id \in BadPayload

\* These are all the steps.
LEMMA StepCases ==
  ASSUME [Next]_vars
  PROVE  \/ Still \/ Crash
         \/ \E s \in Services : Start(s) \/ Loops(s) \/ CheckAndFire(s)
         \/ \E i \in DOMAIN fires : Moves(i) \/ Rejects(i) \/ FireFinish(i)
         \/ \E id \in JobIds : cur \in Services /\ (AddJob(cur, id) \/ RemoveJob(cur, id))
         \/ \E id \in JobIds, e \in BOOLEAN : cur \in Services /\ EnableJob(cur, id, e)
<1>1. ASSUME NEW i \in DOMAIN fires, FireStep(i) PROVE Moves(i) \/ Rejects(i) \/ FireFinish(i)
  BY <1>1 DEF FireStep, fileVars, FireStart, FireAcquire, FireSkipped, FireDeliver, Moves, Rejects
<1>2. ASSUME NEW s \in Services, s = cur, UserStep(s)
      PROVE  \/ \E id \in JobIds : cur \in Services /\ (AddJob(cur, id) \/ RemoveJob(cur, id))
             \/ \E id \in JobIds, e \in BOOLEAN : cur \in Services /\ EnableJob(cur, id, e)
  BY <1>2 DEF UserStep
<1>3. ASSUME NEW s \in Services, LoopStep(s) PROVE Loops(s) \/ CheckAndFire(s)
  BY <1>3 DEF LoopStep, Loops
<1> QED BY <1>1, <1>2, <1>3 DEF Next, Still

\* The clock goes on or stays, and the tables, the loops and the fires stay.
LEMMA StillIs ==
  ASSUME Still
  PROVE  /\ UNCHANGED <<jobs, fileVars, fires, cur, userVars, loadErrors, loopVars>>
         /\ now' \in {now, now + 1}
  BY DEF Still, vars, fileVars, loopVars, lifeVars, userVars,
         Tick, CancelCtx, StopCall, StopReturn

\* The loop plans, waits and exits: nothing else changes.
LEMMA LoopsAre ==
  ASSUME NEW s \in Services, Loops(s)
  PROVE  /\ UNCHANGED <<now, jobs, fileVars, fires, lifeVars, userVars>>
         /\ lpc[s] \in {"plan", "wait"}
         /\ \E l \in {"plan", "wait", "fire", "exited"} : lpc' = [lpc EXCEPT ![s] = l]
  BY DEF Loops, LoopPlan, LoopWake, LoopTimer, LoopExit

\* What a start does, whether the file can be read or not.
StartTable == IF loadErrors' = loadErrors THEN EnsureNextRun(disk) ELSE Empty
LEMMA StartIs ==
  ASSUME TypeOK, loadErrors \in Nat, NEW s \in Services, Start(s)
  PROVE  /\ s = cur + 1 /\ cur' = s /\ UNCHANGED <<now, fires, userVars>>
         /\ lpc' = [lpc EXCEPT ![s] = "plan"]
         /\ loadErrors' \in {loadErrors, loadErrors + 1}
         /\ IsTable(StartTable) /\ DOMAIN StartTable \subseteq DOMAIN disk /\ Write(s, StartTable)
<1>1. IsTable(disk) /\ now \in Nat
  BY DEF TypeOK
<1>2. IsTable(EnsureNextRun(disk)) /\ DOMAIN EnsureNextRun(disk) = DOMAIN disk
  BY <1>1, EnsureNextRunIs
<1> QED BY <1>2, EmptyIs DEF Start, StartTable

\* A start keeps the jobs that are on and off.
LEMMA StartTableIs ==
  ASSUME TypeOK
  PROVE  /\ DOMAIN StartTable \subseteq DOMAIN disk
         /\ \A id \in DOMAIN StartTable :
              LET j == disk[id]
                  k == StartTable[id]
              IN /\ k.enabled = j.enabled /\ k.last = j.last
                 /\ j.next # 0 \/ ~j.enabled => k.next = j.next
                 /\ j.next = 0 /\ j.enabled => k.next = NextFrom(id, j)
<1>1. IsTable(disk) /\ now \in Nat
  BY DEF TypeOK
<1> QED BY <1>1, EnsureNextRunIs, EmptyIs DEF StartTable

\* What checkAndFire does.
LEMMA CheckAndFireWrites ==
  ASSUME TypeOK, NEW s \in Services, CheckAndFire(s)
  PROVE  /\ lpc[s] = "fire" /\ Write(s, Taken(s)) /\ lpc' = [lpc EXCEPT ![s] = "plan"]
         /\ UNCHANGED <<now, deadline, wake, lifeVars, userVars>>
<1>1. Taken(s) = [id \in DOMAIN jobs[s] |->
                    IF id \in {i \in DOMAIN jobs[s] : IsDue(jobs[s][i])}
                    THEN Take(id, jobs[s][id]) ELSE jobs[s][id]]
  BY DEF Taken
<1> QED BY <1>1 DEF CheckAndFire

\* What the fires do that write their service's table.
LEMMA FireWrites ==
  ASSUME TypeOK, NEW i \in DOMAIN fires
  PROVE  LET s == fires[i].svc
             id == fires[i].id
         IN /\ s \in Services /\ id \in JobIds
            /\ Rejects(i) => /\ fires[i].pc = "start" /\ id \in BadPayload /\ Advance(i, "done")
                             /\ Write(s, Rescheduled(s, id))
                             /\ UNCHANGED <<now, loopVars, lifeVars, userVars>>
            /\ FireFinish(i) => /\ fires[i].pc = "run"
                                /\ Advance(i, "done") \/ Advance(i, "deliver")
                                /\ Write(s, AfterRun(jobs[s], id)) /\ IsTable(AfterRun(jobs[s], id))
                                /\ UNCHANGED <<now, loopVars, lifeVars, userVars>>
<1>1. fires[i].svc \in Services /\ fires[i].id \in JobIds
  BY FiresAre DEF FireRecord
<1>2. IsTable(AfterRun(jobs[fires[i].svc], fires[i].id))
  BY <1>1, AfterRunIs DEF TypeOK
<1> QED BY <1>1, <1>2 DEF Rejects, FireStart, FireFinish, Rescheduled

-----------------------------------------------------------------------------
(* Type correctness *)

\* NewService: an empty table, nothing started.
LEMMA TypeInit == Init => TypeOK
<1> SUFFICES ASSUME Init PROVE TypeOK
  OBVIOUS
<1>1. IsTable(disk)
  BY CronAssumption DEF Init, IsTable, Job
<1>2. fires \in Seq([svc : Services, id : JobIds, slot : Nat \ {0}, pc : FireStates])
  BY DEF Init
<1>3. 1 \in 1..MaxTime /\ 0 \in 0..MaxServices
  BY CronAssumption
<1>4. loadErrors = 0
  BY DEF Init
<1> QED BY <1>1, <1>2, <1>3, EmptyIs, CronAssumption DEF Init, TypeOK

\* Every step keeps the types.
LEMMA TypeStep == TypeOK /\ loadErrors \in Nat /\ [Next]_vars => TypeOK'
<1> SUFFICES ASSUME TypeOK, loadErrors \in Nat, [Next]_vars PROVE TypeOK'
  OBVIOUS
<1> USE DEF fileVars, loopVars, lifeVars, userVars
<1>n. now \in Nat /\ cur \in Nat
  BY CronAssumption DEF TypeOK
<1>t. \A s \in Services : IsTable(jobs[s])
  BY DEF TypeOK
<1>u. \* a step that leaves the tables alone
      ASSUME UNCHANGED <<jobs, fileVars>>
      PROVE  IsTable(disk') /\ DOMAIN jobs' = Services /\ \A r \in Services : IsTable(jobs'[r])
  BY <1>u DEF TypeOK
<1>1. CASE Still
  <2>1. now' \in 1..MaxTime
    BY <1>1, <1>n, CronAssumption DEF TypeOK, Still, Tick, CancelCtx, StopCall, StopReturn, vars
  <2>2. /\ stopped' \subseteq Services /\ stopping' \in [Services -> {"no", "waiting", "returned"}]
        /\ ctxDone' \in BOOLEAN /\ dead' = dead
    <3>t. /\ stopped \subseteq Services /\ stopping \in [Services -> {"no", "waiting", "returned"}]
          /\ ctxDone \in BOOLEAN
      BY DEF TypeOK
    <3>1. CASE Tick
      BY <3>1, <3>t DEF Tick
    <3>2. CASE CancelCtx
      BY <3>2, <3>t DEF CancelCtx
    <3>3. CASE UNCHANGED vars
      BY <3>3, <3>t DEF vars
    <3>4. ASSUME NEW s \in Services, StopCall(s)
          PROVE  /\ stopped' = stopped \cup {s} /\ stopping' = [stopping EXCEPT ![s] = "waiting"]
                 /\ ctxDone' = ctxDone /\ dead' = dead
      BY <3>4 DEF StopCall
    <3>5. ASSUME NEW s \in Services, StopReturn(s)
          PROVE  /\ stopped' = stopped /\ stopping' = [stopping EXCEPT ![s] = "returned"]
                 /\ ctxDone' = ctxDone /\ dead' = dead
      BY <3>5 DEF StopReturn
    <3> QED BY <1>1, <3>t, <3>1, <3>2, <3>3, <3>4, <3>5 DEF Still
  <2> QED BY <1>1, <1>u, <2>1, <2>2, StillIs DEF TypeOK
<1>2. CASE Crash
  <2>1. dead' \subseteq Services
    BY <1>2, CronAssumption DEF Crash, TypeOK, Services
  <2> QED BY <1>2, <1>u, <2>1, CrashIs DEF Crash, TypeOK, FireRecord
<1>3. ASSUME NEW s \in Services, Start(s) PROVE TypeOK'
  <2>1. IsTable(StartTable) /\ Write(s, StartTable) /\ cur' \in 0..MaxServices
    BY <1>3, <1>n, StartIs DEF Services
  <2> QED BY <1>3, <2>1, WriteIs DEF Start, TypeOK
<1>4. ASSUME NEW s \in Services, Loops(s) PROVE TypeOK'
  <2>1. now + NextDelay(jobs[s]) \in Nat
    BY <1>n, <1>t, NextDelayIs
  <2>2. deadline' \in [Services -> Nat] /\ wake' \in [Services -> BOOLEAN]
    <3>t. deadline \in [Services -> Nat] /\ wake \in [Services -> BOOLEAN]
      BY DEF TypeOK
    <3>1. CASE LoopPlan(s)
      <4>1. deadline' = [deadline EXCEPT ![s] = now + NextDelay(jobs[s])] /\ wake' = wake
        BY <3>1 DEF LoopPlan
      <4> QED BY <3>t, <4>1, <2>1
    <3>2. CASE LoopWake(s)
      <4>1. wake' = [wake EXCEPT ![s] = FALSE] /\ deadline' = deadline
        BY <3>2 DEF LoopWake
      <4> QED BY <3>t, <4>1
    <3>3. CASE LoopTimer(s)
      BY <3>3, <3>t DEF LoopTimer
    <3>4. CASE LoopExit(s)
      BY <3>4, <3>t DEF LoopExit
    <3> QED BY <1>4, <3>1, <3>2, <3>3, <3>4 DEF Loops
  <2>3. lpc' \in [Services -> {"off", "plan", "wait", "fire", "exited"}]
    BY <1>4, LoopsAre DEF TypeOK
  <2> QED BY <1>4, <1>u, <2>2, <2>3, LoopsAre DEF TypeOK
<1>5. ASSUME NEW s \in Services, CheckAndFire(s) PROVE TypeOK'
  <2>1. IsTable(Taken(s)) /\ Write(s, Taken(s))
    BY <1>5, TakenIs, CheckAndFireWrites
  <2>2. IsTable(disk') /\ DOMAIN jobs' = Services /\ \A r \in Services : IsTable(jobs'[r])
    BY <2>1, WriteIs
  <2>3. fires' \in Seq(FireRecord)
    BY <1>5, CheckAndFireIs
  <2>4. lpc' \in [Services -> {"off", "plan", "wait", "fire", "exited"}]
        /\ UNCHANGED <<now, deadline, wake, lifeVars, userVars>>
    BY <1>5, CheckAndFireWrites DEF TypeOK
  <2> QED BY <2>2, <2>3, <2>4 DEF TypeOK, FireRecord
<1>6. ASSUME NEW i \in DOMAIN fires, Moves(i) PROVE TypeOK'
  <2>1. PICK l \in FireStates : Advance(i, l)
    BY <1>6 DEF Moves, FireStates, Terminal
  <2> QED BY <1>6, <1>u, <2>1, AdvanceIs DEF Moves, TypeOK, FireRecord
<1>7. ASSUME NEW i \in DOMAIN fires, Rejects(i) \/ FireFinish(i) PROVE TypeOK'
  <2>1. PICK l \in FireStates : Advance(i, l)
    BY <1>7, FireWrites DEF FireStates, Terminal
  <2>2. PICK table : IsTable(table) /\ Write(fires[i].svc, table)
    BY <1>7, FireWrites, RescheduledIs
  <2>3. UNCHANGED <<now, loopVars, lifeVars, userVars>> /\ fires[i].svc \in Services
    BY <1>7, FireWrites
  <2> QED BY <2>1, <2>2, <2>3, WriteIs, AdvanceIs DEF TypeOK, FireRecord
<1>8. ASSUME NEW id \in JobIds, cur \in Services, AddJob(cur, id) \/ RemoveJob(cur, id)
      PROVE  TypeOK'
  <2>1. PICK table : IsTable(table) /\ Write(cur, table)
    BY <1>8, WithJobIs, WithoutJobIs DEF AddJob, RemoveJob, WithJob, WithoutJob
  <2>2. wake' \in [Services -> BOOLEAN]
    BY <1>8 DEF AddJob, RemoveJob, Notify, TypeOK
  <2>3. /\ added' \subseteq JobIds /\ removed' \subseteq JobIds
        /\ UNCHANGED <<now, fires, lpc, deadline, lifeVars>>
    BY <1>8 DEF AddJob, RemoveJob, TypeOK
  <2>4. IsTable(disk') /\ DOMAIN jobs' = Services /\ \A r \in Services : IsTable(jobs'[r])
    BY <1>8, <2>1, WriteIs
  <2> QED BY <2>2, <2>3, <2>4 DEF TypeOK
<1>9. ASSUME NEW id \in JobIds, NEW e \in BOOLEAN, cur \in Services, EnableJob(cur, id, e)
      PROVE  TypeOK'
  <2>1. id \in DOMAIN jobs[cur] /\ Write(cur, Toggled(cur, id, e))
    BY <1>9 DEF EnableJob, Toggled
  <2>2. IsTable(Toggled(cur, id, e))
    BY <1>9, <2>1, ToggledIs
  <2>3. IsTable(disk') /\ DOMAIN jobs' = Services /\ \A r \in Services : IsTable(jobs'[r])
    BY <1>9, <2>1, <2>2, WriteIs
  <2>4. wake' \in [Services -> BOOLEAN] /\ UNCHANGED <<now, fires, lpc, deadline, lifeVars, added, removed>>
    BY <1>9 DEF EnableJob, Notify, TypeOK
  <2> QED BY <2>3, <2>4 DEF TypeOK
<1> QED BY <1>1, <1>2, <1>3, <1>4, <1>5, <1>6, <1>7, <1>8, <1>9, StepCases

-----------------------------------------------------------------------------
(* Which services can act, and what the jobs and their fires have been through *)

\* At first there is no service and the file has the initial jobs.
LEMMA CronInit == Init => CronInv
<1> SUFFICES ASSUME Init PROVE LifeInv /\ HistoryInv
  BY TypeInit DEF CronInv
<1>1. LifeInv
  BY DEF Init, LifeInv, Services
<1>2. HistoryInv
  BY EmptyIs DEF Init, HistoryInv, Known
<1> QED BY <1>1, <1>2

\* A service that was not started does nothing; no step takes an error back.
LEMMA LifeStep == TypeOK /\ LifeInv /\ [Next]_vars => LifeInv'
<1> SUFFICES ASSUME TypeOK, LifeInv, [Next]_vars PROVE LifeInv'
  OBVIOUS
<1> USE DEF fileVars, loopVars, lifeVars, userVars
<1>n. cur \in Nat /\ \A s \in Services : s \in Nat
  BY CronAssumption DEF TypeOK, Services
<1>w. ASSUME NEW s \in Services, NEW table, IsTable(table), Write(s, table)
      PROVE  saveErrors' \in Nat
  BY <1>w, WriteIs DEF LifeInv
<1>1. CASE Still
  BY <1>1, StillIs DEF LifeInv
<1>2. CASE Crash
  <2>1. \A s \in Services : s > cur => lpc'[s] = "off"
    BY <1>2, <1>n DEF Crash, LifeInv
  <2>2. \A i \in DOMAIN fires' : fires'[i].svc <= cur
    BY <1>2, CrashIs DEF LifeInv
  <2> QED BY <1>2, <2>1, <2>2 DEF Crash, LifeInv
<1>3. ASSUME NEW s \in Services, Start(s) PROVE LifeInv'
  <2>1. loadErrors' \in Nat /\ saveErrors' \in Nat
    BY <1>3, <1>w, StartIs DEF LifeInv
  <2>2. /\ s = cur + 1 /\ cur' = s /\ UNCHANGED <<fires, toggles>>
        /\ lpc' = [lpc EXCEPT ![s] = "plan"]
    BY <1>3, StartIs DEF LifeInv
  <2>3. \A i \in DOMAIN fires : fires[i].svc \in Nat
    BY <1>n, FiresAre DEF FireRecord
  <2>4. \A r \in Services : r > cur' => lpc'[r] = "off"
    BY <1>n, <2>2 DEF LifeInv, TypeOK
  <2>5. \A i \in DOMAIN fires' : fires'[i].svc <= cur'
    BY <1>n, <2>2, <2>3 DEF LifeInv
  <2> QED BY <2>1, <2>2, <2>4, <2>5 DEF LifeInv
<1>4. ASSUME NEW s \in Services, Loops(s) PROVE LifeInv'
  <2>1. PICK l \in {"plan", "wait", "fire", "exited"} : lpc' = [lpc EXCEPT ![s] = l]
    BY <1>4, LoopsAre
  <2>2. s <= cur
    BY <1>4, <1>n, LoopsAre DEF LifeInv
  <2>3. UNCHANGED <<cur, fires, saveErrors, toggles, loadErrors>>
    BY <1>4, LoopsAre
  <2>4. \A r \in Services : r > cur => lpc'[r] = "off"
    BY <1>n, <2>1, <2>2 DEF LifeInv, TypeOK
  <2> QED BY <2>3, <2>4 DEF LifeInv
<1>5. ASSUME NEW s \in Services, CheckAndFire(s) PROVE LifeInv'
  <2>1. lpc[s] = "fire" /\ lpc' = [lpc EXCEPT ![s] = "plan"] /\ UNCHANGED <<lifeVars, userVars>>
    BY <1>5, CheckAndFireWrites
  <2>2. saveErrors' \in Nat
    BY <1>5, <1>w, CheckAndFireWrites, TakenIs
  <2>3. s <= cur
    BY <1>n, <2>1 DEF LifeInv
  <2>4. \A i \in DOMAIN fires' : fires'[i].svc <= cur
    BY <1>5, <2>3, CheckAndFireIs DEF LifeInv, NewFires
  <2> QED BY <1>n, <2>1, <2>2, <2>3, <2>4 DEF LifeInv, TypeOK
<1>6. ASSUME NEW i \in DOMAIN fires, Moves(i) \/ Rejects(i) \/ FireFinish(i) PROVE LifeInv'
  <2>1. PICK l \in FireStates : Advance(i, l)
    BY <1>6, FireWrites DEF Moves, FireStates, Terminal
  <2>2. UNCHANGED <<lpc, cur, toggles, loadErrors>>
    BY <1>6, FireWrites DEF Moves
  <2>3. saveErrors' \in Nat
    BY <1>6, <1>w, FireWrites, RescheduledIs DEF Moves, LifeInv
  <2> QED BY <2>1, <2>2, <2>3, AdvanceIs DEF LifeInv
<1>7. ASSUME NEW id \in JobIds, cur \in Services, AddJob(cur, id) \/ RemoveJob(cur, id)
      PROVE  LifeInv'
  <2>1. PICK table : IsTable(table) /\ Write(cur, table)
    BY <1>7, WithJobIs, WithoutJobIs DEF AddJob, RemoveJob, WithJob, WithoutJob
  <2> QED BY <1>7, <1>w, <2>1 DEF AddJob, RemoveJob, LifeInv
<1>8. ASSUME NEW id \in JobIds, NEW e \in BOOLEAN, cur \in Services, EnableJob(cur, id, e)
      PROVE  LifeInv'
  <2>1. id \in DOMAIN jobs[cur] /\ Write(cur, Toggled(cur, id, e))
    BY <1>8 DEF EnableJob, Toggled
  <2>2. saveErrors' \in Nat
    BY <1>8, <1>w, <2>1, ToggledIs
  <2> QED BY <1>8, <2>2 DEF EnableJob, LifeInv
<1> QED BY <1>1, <1>2, <1>3, <1>4, <1>5, <1>6, <1>7, <1>8, StepCases

\* Ids are fresh, slots have come when they are taken, a bad payload never runs.
LEMMA HistoryStep == TypeOK /\ LifeInv /\ HistoryInv /\ [Next]_vars => HistoryInv'
<1> SUFFICES ASSUME TypeOK, LifeInv, HistoryInv, [Next]_vars PROVE HistoryInv'
  OBVIOUS
<1> USE DEF fileVars, loopVars, lifeVars, userVars
<1>n. now \in Nat /\ \A i \in DOMAIN fires : fires[i].slot \in Nat
  BY FiresAre DEF TypeOK, FireRecord
<1>w. \* a critical section that writes a table of known jobs
      ASSUME NEW s \in Services, NEW table, IsTable(table), Write(s, table),
             added \subseteq added', Known(table, added')
      PROVE  Known(disk', added') /\ \A r \in Services : Known(jobs'[r], added')
  <2>1. \A t : Known(t, added) => Known(t, added')
    BY <1>w DEF Known
  <2> QED BY <1>w, <2>1, WriteIs DEF HistoryInv
<1>1. CASE Still
  BY <1>1, <1>n, StillIs DEF HistoryInv
<1>2. CASE Crash
  BY <1>2, CrashIs DEF Crash, HistoryInv
<1>3. ASSUME NEW s \in Services, Start(s) PROVE HistoryInv'
  <2>1. /\ IsTable(StartTable) /\ Write(s, StartTable)
        /\ UNCHANGED <<now, fires, userVars>>
    BY <1>3, StartIs DEF LifeInv
  <2>2. Known(StartTable, added)
    BY EmptyIs, EnsureNextRunIs DEF StartTable, HistoryInv, Known, TypeOK
  <2> QED BY <1>w, <2>1, <2>2 DEF HistoryInv
<1>4. ASSUME NEW s \in Services, Loops(s) PROVE HistoryInv'
  BY <1>4, LoopsAre DEF HistoryInv
<1>5. ASSUME NEW s \in Services, CheckAndFire(s) PROVE HistoryInv'
  <2>1. Write(s, Taken(s)) /\ IsTable(Taken(s)) /\ UNCHANGED <<now, userVars>>
    BY <1>5, CheckAndFireWrites, TakenIs
  <2>2. Known(Taken(s), added)
    BY TakenIs DEF HistoryInv, Known
  <2>3. \A i \in NewFires : /\ fires'[i].id \in added /\ fires'[i].slot <= now
                            /\ fires'[i].pc = "start"
    BY <1>5, CheckAndFireIs DEF HistoryInv, Known, IsDue
  <2>4. \A i \in DOMAIN fires' : i \notin NewFires => i \in DOMAIN fires /\ fires'[i] = fires[i]
    BY <1>5, CheckAndFireIs DEF NewFires
  <2>5. \A i \in DOMAIN fires' :
          /\ fires'[i].id \in added /\ fires'[i].slot <= now
          /\ fires'[i].id \in BadPayload => fires'[i].pc \in {"start", "done", "lost"}
    BY <2>3, <2>4 DEF HistoryInv
  <2> QED BY <1>w, <2>1, <2>2, <2>5 DEF HistoryInv
<1>6. ASSUME NEW i \in DOMAIN fires, Moves(i) PROVE HistoryInv'
  <2>1. PICK l \in FireStates : Advance(i, l) /\ (fires[i].id \in BadPayload => l = "done")
    BY <1>6 DEF Moves, FireStates, Terminal, HistoryInv
  <2> QED BY <1>6, <2>1, AdvanceIs DEF Moves, HistoryInv
<1>7. ASSUME NEW i \in DOMAIN fires, Rejects(i) PROVE HistoryInv'
  <2> DEFINE s == fires[i].svc
             id == fires[i].id
  <2>1. /\ s \in Services /\ id \in JobIds /\ Advance(i, "done")
        /\ Write(s, Rescheduled(s, id)) /\ UNCHANGED <<now, userVars>>
    BY <1>7, FireWrites
  <2>2. IsTable(Rescheduled(s, id)) /\ Known(Rescheduled(s, id), added)
    BY <2>1, RescheduledIs DEF HistoryInv, Known
  <2>3. "done" \in FireStates
    BY DEF FireStates, Terminal
  <2> QED BY <1>w, <2>1, <2>2, <2>3, AdvanceIs DEF HistoryInv
<1>8. ASSUME NEW i \in DOMAIN fires, FireFinish(i) PROVE HistoryInv'
  <2> DEFINE s == fires[i].svc
             id == fires[i].id
             table == AfterRun(jobs[s], id)
  <2>1. /\ s \in Services /\ id \in JobIds /\ fires[i].pc = "run"
        /\ Write(s, table) /\ IsTable(table) /\ UNCHANGED <<now, userVars>>
    BY <1>8, FireWrites
  <2>2. PICK l \in {"done", "deliver"} : Advance(i, l)
    BY <1>8, FireWrites
  <2>3. id \notin BadPayload
    BY <2>1 DEF HistoryInv
  <2>4. /\ DOMAIN table \subseteq DOMAIN jobs[s]
        /\ \A k \in DOMAIN table : k # id => table[k] = jobs[s][k]
    BY <1>n, <2>1, AfterRunIs DEF TypeOK
  <2>5. Known(table, added)
    BY <2>1, <2>3, <2>4 DEF HistoryInv, Known
  <2>6. l \in FireStates
    BY DEF FireStates, Terminal
  <2> HIDE DEF table
  <2> QED BY <1>w, <2>1, <2>2, <2>3, <2>5, <2>6, AdvanceIs DEF HistoryInv
<1>9. ASSUME NEW id \in JobIds, cur \in Services, AddJob(cur, id) PROVE HistoryInv'
  <2>1. /\ Write(cur, WithJob(cur, id)) /\ IsTable(WithJob(cur, id))
        /\ added' = added \cup {id} /\ UNCHANGED <<now, fires, removed>>
    BY <1>9, WithJobIs DEF AddJob, WithJob
  <2>2. Known(WithJob(cur, id), added')
    <3>1. Known(jobs[cur], added)
      BY <1>9 DEF HistoryInv
    <3>2. /\ DOMAIN WithJob(cur, id) = DOMAIN jobs[cur] \cup {id} /\ WithJob(cur, id)[id].last = 0
          /\ \A i \in DOMAIN jobs[cur] \ {id} : WithJob(cur, id)[i] = jobs[cur][i]
      BY <1>9, WithJobIs
    <3> QED BY <2>1, <3>1, <3>2 DEF Known
  <2> QED BY <1>9, <1>w, <2>1, <2>2 DEF HistoryInv
<1>10. ASSUME NEW id \in JobIds, cur \in Services, RemoveJob(cur, id) PROVE HistoryInv'
  <2>1. /\ Write(cur, WithoutJob(cur, id)) /\ IsTable(WithoutJob(cur, id))
        /\ removed' = removed \cup {id} /\ UNCHANGED <<now, fires, added>>
        /\ id \in DOMAIN jobs[cur]
    BY <1>10, WithoutJobIs DEF RemoveJob, WithoutJob
  <2>2. Known(WithoutJob(cur, id), added)
    <3>1. Known(jobs[cur], added)
      BY <1>10 DEF HistoryInv
    <3>2. /\ DOMAIN WithoutJob(cur, id) = DOMAIN jobs[cur] \ {id}
          /\ \A i \in DOMAIN jobs[cur] \ {id} : WithoutJob(cur, id)[i] = jobs[cur][i]
      BY <1>10, WithoutJobIs
    <3> QED BY <3>1, <3>2 DEF Known
  <2> QED BY <1>10, <1>w, <2>1, <2>2 DEF HistoryInv, Known
<1>11. ASSUME NEW id \in JobIds, NEW e \in BOOLEAN, cur \in Services, EnableJob(cur, id, e)
       PROVE  HistoryInv'
  <2>1. /\ id \in DOMAIN jobs[cur] /\ Write(cur, Toggled(cur, id, e))
        /\ UNCHANGED <<now, fires, added, removed>>
    BY <1>11 DEF EnableJob, Toggled
  <2>2. IsTable(Toggled(cur, id, e)) /\ Known(Toggled(cur, id, e), added)
    BY <1>11, <2>1, ToggledIs DEF HistoryInv, Known
  <2> QED BY <1>11, <1>w, <2>1, <2>2 DEF HistoryInv
<1> QED BY <1>1, <1>2, <1>3, <1>4, <1>5, <1>6, <1>7, <1>8, <1>9, <1>10, <1>11, StepCases

LEMMA CronStep == CronInv /\ [Next]_vars => CronInv'
<1>1. LifeInv => loadErrors \in Nat
  BY DEF LifeInv
<1> QED BY <1>1, TypeStep, LifeStep, HistoryStep DEF CronInv

\* Service: the tables, the timers, the fires and the file have the types the code gives them.
THEOREM TypeCorrect == Spec => []TypeOK
<1>1. CronInv => TypeOK
  BY DEF CronInv
<1> QED BY <1>1, CronInit, CronStep, PTL DEF Spec

-----------------------------------------------------------------------------
(* Started alone, the current service is the only one that acts *)

\* checkAndFire and the fires write the current table only.
LEMMA WritersAreCurrent ==
  ASSUME CronInv, Alone
  PROVE  /\ \A s \in Services : lpc[s] = "fire" => s = cur
         /\ \A i \in DOMAIN fires : fires[i].pc \notin Terminal => fires[i].svc = cur
<1>1. cur \in Nat /\ \A s \in Services : s \in Nat
  BY CronAssumption DEF CronInv, TypeOK, Services
<1>2. \A i \in DOMAIN fires : fires[i].svc \in Services /\ fires[i].svc <= cur
  BY FiresAre DEF CronInv, LifeInv, FireRecord
<1>3. \A s \in Services : lpc[s] = "fire" => s <= cur
  BY <1>1 DEF CronInv, LifeInv
<1>4. \A s \in Services : s < cur => lpc[s] # "fire"
  BY DEF Alone
<1>5. \A i \in DOMAIN fires : fires[i].svc < cur => fires[i].pc \in Terminal
  BY <1>2 DEF Alone, Pending
<1> QED BY <1>1, <1>2, <1>3, <1>4, <1>5

\* A service that starts alone finds no fire in flight.
LEMMA StartsAlone ==
  ASSUME CronInv, Alone', NEW s \in Services, Start(s)
  PROVE  \A i \in DOMAIN fires : fires[i].pc \in Terminal
<1>1. fires' = fires /\ s = cur + 1 /\ cur' = s /\ cur \in Nat
  BY CronAssumption DEF CronInv, TypeOK, Start
<1>2. \A i \in DOMAIN fires : fires[i].svc \in Services /\ fires[i].svc \in Nat /\ fires[i].svc <= cur
  BY FiresAre DEF CronInv, LifeInv, FireRecord, Services
<1>3. \A i \in DOMAIN fires : fires[i].svc < cur'
  BY <1>1, <1>2
<1> QED BY <1>1, <1>2, <1>3 DEF Alone, Pending

\* What the steps write, with the service alone: the current table, or the first of the next.
\* It has the jobs of the one it replaces (of the file, at a start), less those that were
\* removed or have had their one run, and with those that were added.
Writes(s, table) == Write(s, table) /\ IsTable(table) /\ s \in Services
LEMMA WriteSteps ==
  ASSUME CronInv, Alone, [Next]_vars
  PROVE  \/ UNCHANGED <<jobs, disk, cur, saveErrors, added, removed>>
         \/ \E s \in Services :
              /\ Start(s) /\ Writes(s, StartTable)
              /\ s = cur + 1 /\ cur' = s /\ UNCHANGED <<added, removed>>
         \/ \E table :
              /\ Writes(cur, table) /\ UNCHANGED <<cur, loadErrors>> /\ removed \subseteq removed'
              /\ DOMAIN jobs[cur] \ DOMAIN table \subseteq removed' \cup DeleteAfterRun
              /\ DOMAIN table \cap removed' \subseteq DOMAIN jobs[cur] \cap removed
<1> USE DEF fileVars, loopVars, lifeVars, userVars, Writes
<1>t. TypeOK /\ loadErrors \in Nat
  BY DEF CronInv, LifeInv
<1>h. removed \subseteq added
  BY DEF CronInv, HistoryInv
<1>1. CASE Still \/ Crash
  BY <1>1, StillIs DEF Crash
<1>2. ASSUME NEW s \in Services, Start(s)
      PROVE  /\ Writes(s, StartTable) /\ s = cur + 1 /\ cur' = s
             /\ UNCHANGED <<added, removed>>
  BY <1>2, <1>t, StartIs
<1>3. ASSUME NEW s \in Services, Loops(s)
      PROVE  UNCHANGED <<jobs, disk, cur, saveErrors, added, removed>>
  BY <1>3, LoopsAre
<1>4. ASSUME NEW s \in Services, CheckAndFire(s)
      PROVE  /\ s = cur /\ Writes(cur, Taken(cur)) /\ UNCHANGED <<cur, loadErrors, removed>>
             /\ DOMAIN Taken(cur) = DOMAIN jobs[cur]
  <2>1. s = cur
    BY <1>4, <1>t, CheckAndFireWrites, WritersAreCurrent
  <2> QED BY <1>4, <1>t, <2>1, CheckAndFireWrites, TakenIs
<1>5. ASSUME NEW i \in DOMAIN fires, Moves(i)
      PROVE  UNCHANGED <<jobs, disk, cur, saveErrors, added, removed>>
  BY <1>5 DEF Moves
<1>6. ASSUME NEW i \in DOMAIN fires, Rejects(i)
      PROVE  LET table == Rescheduled(cur, fires[i].id) IN
             /\ Writes(cur, table) /\ UNCHANGED <<cur, loadErrors, removed>>
             /\ DOMAIN table = DOMAIN jobs[cur]
  <2>1. fires[i].pc \notin Terminal
    BY <1>6, <1>t, FireWrites DEF Terminal
  <2>2. fires[i].svc = cur
    BY <2>1, WritersAreCurrent
  <2> QED BY <1>6, <1>t, <2>2, FireWrites, RescheduledIs
<1>7. ASSUME NEW i \in DOMAIN fires, FireFinish(i)
      PROVE  LET table == AfterRun(jobs[cur], fires[i].id) IN
             /\ Writes(cur, table) /\ UNCHANGED <<cur, loadErrors, removed>>
             /\ DOMAIN table \subseteq DOMAIN jobs[cur]
             /\ DOMAIN jobs[cur] \ DOMAIN table \subseteq DeleteAfterRun
  <2>1. fires[i].pc \notin Terminal
    BY <1>7, <1>t, FireWrites DEF Terminal
  <2>2. fires[i].svc = cur
    BY <2>1, WritersAreCurrent
  <2>3. cur \in Services /\ fires[i].id \in JobIds /\ IsTable(jobs[cur]) /\ now \in Nat
    BY <1>t, <2>2, FireWrites DEF TypeOK
  <2> QED BY <1>7, <1>t, <2>2, <2>3, FireWrites, AfterRunIs
<1>8. ASSUME NEW id \in JobIds, cur \in Services, AddJob(cur, id)
      PROVE  /\ Writes(cur, WithJob(cur, id)) /\ UNCHANGED <<cur, loadErrors, removed>>
             /\ DOMAIN WithJob(cur, id) = DOMAIN jobs[cur] \cup {id} /\ id \notin removed
  <2>1. /\ IsTable(WithJob(cur, id)) /\ DOMAIN WithJob(cur, id) = DOMAIN jobs[cur] \cup {id}
    BY <1>8, <1>t, WithJobIs
  <2> QED BY <1>8, <1>h, <2>1 DEF AddJob, WithJob
<1>9. ASSUME NEW id \in JobIds, cur \in Services, RemoveJob(cur, id)
      PROVE  /\ Writes(cur, WithoutJob(cur, id)) /\ UNCHANGED <<cur, loadErrors>>
             /\ DOMAIN WithoutJob(cur, id) = DOMAIN jobs[cur] \ {id} /\ removed' = removed \cup {id}
  <2>1. /\ IsTable(WithoutJob(cur, id)) /\ DOMAIN WithoutJob(cur, id) = DOMAIN jobs[cur] \ {id}
    BY <1>9, <1>t, WithoutJobIs
  <2> QED BY <1>9, <2>1 DEF RemoveJob, WithoutJob
<1>10. ASSUME NEW id \in JobIds, NEW e \in BOOLEAN, cur \in Services, EnableJob(cur, id, e)
       PROVE  /\ Writes(cur, Toggled(cur, id, e)) /\ UNCHANGED <<cur, loadErrors, removed>>
              /\ DOMAIN Toggled(cur, id, e) = DOMAIN jobs[cur]
  <2>1. id \in DOMAIN jobs[cur] /\ Write(cur, Toggled(cur, id, e))
    BY <1>10 DEF EnableJob, Toggled
  <2>2. IsTable(Toggled(cur, id, e)) /\ DOMAIN Toggled(cur, id, e) = DOMAIN jobs[cur]
    BY <1>10, <1>t, <2>1, ToggledIs
  <2> QED BY <1>10, <2>1, <2>2 DEF EnableJob
<1> HIDE DEF Writes
<1> QED BY <1>1, <1>2, <1>3, <1>4, <1>5, <1>6, <1>7, <1>8, <1>9, <1>10, StepCases

-----------------------------------------------------------------------------
(* The file *)

\* The file follows the table, and a removed job is in neither.
LEMMA FileStep ==
  CronInv /\ FileInv /\ Alone /\ Saved /\ Saved' /\ [Next]_vars => FileInv'
<1> SUFFICES ASSUME CronInv, FileInv, Alone, Saved, Saved', [Next]_vars PROVE FileInv'
  OBVIOUS
<1>t. TypeOK /\ loadErrors \in Nat /\ cur \in Nat
  BY CronAssumption DEF CronInv, LifeInv, TypeOK
<1>w. ASSUME NEW s, NEW table, Writes(s, table)
      PROVE  disk' = table /\ jobs'[s] = table
  BY <1>w, <1>t, WriteIs DEF Writes, Saved
<1>1. CASE UNCHANGED <<jobs, disk, cur, saveErrors, added, removed>>
  BY <1>1 DEF FileInv, FileIsCurrent, RemovedStaysRemoved
<1>2. ASSUME NEW s \in Services, Start(s), Writes(s, StartTable), cur' = s, removed' = removed
      PROVE  FileInv'
  <2>1. DOMAIN StartTable \subseteq DOMAIN disk
    BY <1>2, <1>t, StartIs
  <2> QED BY <1>2, <1>w, <2>1 DEF FileInv, FileIsCurrent, RemovedStaysRemoved
<1>3. ASSUME NEW table, Writes(cur, table), cur' = cur,
             DOMAIN table \cap removed' \subseteq DOMAIN jobs[cur] \cap removed
      PROVE  FileInv'
  <2>1. cur > 0 /\ disk = jobs[cur]
    BY <1>3, <1>t DEF Writes, Services, FileInv, FileIsCurrent
  <2> QED BY <1>3, <1>w, <2>1 DEF FileInv, FileIsCurrent, RemovedStaysRemoved
<1> QED BY <1>1, <1>2, <1>3, WriteSteps

\* No service yet, nothing removed.
LEMMA FileInit == Init => FileInv
  BY DEF Init, FileInv, FileIsCurrent, RemovedStaysRemoved

\* RemoveJob is final: neither a run in flight nor a restart brings the job back to the file.
THEOREM RemovalIsFinal == Spec /\ []Alone /\ []Saved => []RemovedStaysRemoved
<1>1. FileInv => RemovedStaysRemoved
  BY DEF FileInv
<1> QED BY <1>1, CronInit, CronStep, FileInit, FileStep, PTL DEF Spec

\* A job that is in the file stays there or in the table, whatever fails to be saved.
LEMMA KeptStep ==
  CronInv /\ KeptInv /\ Alone /\ Loaded /\ Loaded' /\ [Next]_vars
    => KeptInv' /\ DOMAIN disk \ DOMAIN disk' \subseteq removed' \cup DeleteAfterRun
<1> SUFFICES ASSUME CronInv, KeptInv, Alone, Loaded, Loaded', [Next]_vars
             PROVE  KeptInv' /\ DOMAIN disk \ DOMAIN disk' \subseteq removed' \cup DeleteAfterRun
  OBVIOUS
<1>t. TypeOK /\ loadErrors \in Nat /\ cur \in Nat /\ now \in Nat
  BY CronAssumption DEF CronInv, LifeInv, TypeOK
<1>w. ASSUME NEW s, NEW table, Writes(s, table)
      PROVE  (disk' = table \/ disk' = disk) /\ jobs'[s] = table
  BY <1>w, <1>t, WriteIs DEF Writes
<1>1. CASE UNCHANGED <<jobs, disk, cur, saveErrors, added, removed>>
  BY <1>1 DEF KeptInv
<1>2. ASSUME NEW s \in Services, Start(s), Writes(s, StartTable), cur' = s, removed' = removed
      PROVE  KeptInv' /\ DOMAIN disk \ DOMAIN disk' \subseteq removed' \cup DeleteAfterRun
  <2>1. StartTable = EnsureNextRun(disk)
    BY DEF StartTable, Loaded
  <2>2. DOMAIN StartTable = DOMAIN disk
    BY <1>t, <2>1, EnsureNextRunIs DEF TypeOK
  <2> QED BY <1>2, <1>w, <2>2 DEF KeptInv
<1>3. ASSUME NEW table, Writes(cur, table), cur' = cur, removed \subseteq removed',
             DOMAIN jobs[cur] \ DOMAIN table \subseteq removed' \cup DeleteAfterRun
      PROVE  KeptInv' /\ DOMAIN disk \ DOMAIN disk' \subseteq removed' \cup DeleteAfterRun
  <2>1. cur > 0
    BY <1>3, <1>t DEF Writes, Services
  <2>2. DOMAIN disk \subseteq DOMAIN table \cup removed' \cup DeleteAfterRun
    BY <1>3, <2>1 DEF KeptInv
  <2> QED BY <1>3, <1>w, <2>2 DEF KeptInv
<1> QED BY <1>1, <1>2, <1>3, WriteSteps

\* "Jobs survive restarts", and runs, toggles and saves that fail: with every start reading the
\* file, a job leaves it only when a user removes it or its one run is over.
THEOREM JobsAreKept == Spec /\ []Alone /\ []Loaded => JobsSurvive
<1>1. Init => KeptInv
  BY DEF Init, KeptInv
<1>2. CronInv /\ KeptInv /\ Alone /\ Loaded /\ Loaded' /\ [Next]_vars
        => KeptInv' /\ [DOMAIN disk \ DOMAIN disk' \subseteq removed' \cup DeleteAfterRun]_vars
  BY KeptStep
<1> QED BY <1>1, <1>2, CronInit, CronStep, PTL DEF Spec, JobsSurvive

-----------------------------------------------------------------------------
(* No job stalls *)

\* What Enable and AddJob leave of a repeating job, and the run of one, is on the schedule.
LEMMA BackOnSchedule ==
  ASSUME TypeOK, NEW s \in Services, NEW id \in JobIds, ~IsAt(id)
  PROVE  /\ NextRun(id, now) > 0
         /\ \A j \in Job : NextFrom(id, j) > 0
         /\ WithJob(s, id)[id].next > 0
         /\ \A e \in BOOLEAN : id \in DOMAIN jobs[s] /\ Toggled(s, id, e)[id].enabled => Toggled(s, id, e)[id].next > 0
         /\ id \in DOMAIN AfterRun(jobs[s], id) => AfterRun(jobs[s], id)[id].next > 0
<1>1. now \in Nat /\ IsTable(jobs[s])
  BY DEF TypeOK
<1>2. \A n \in Nat : NextRun(id, n) \in Nat /\ NextRun(id, n) > 0
  BY NextRunIs
<1>3. \A j \in Job : NextFrom(id, j) > 0
  BY <1>1, <1>2 DEF NextFrom, Job
<1>4. NextRun(id, now) > 0
  BY <1>1, <1>2
<1>5. WithJob(s, id)[id].next > 0
  BY <1>4 DEF WithJob
<1>6. ASSUME NEW e \in BOOLEAN, id \in DOMAIN jobs[s], Toggled(s, id, e)[id].enabled
      PROVE  Toggled(s, id, e)[id].next > 0
  BY <1>1, <1>3, <1>6 DEF Toggled, IsTable, Job
<1>7. id \in DOMAIN AfterRun(jobs[s], id) => AfterRun(jobs[s], id)[id].next > 0
  BY <1>1, <1>4 DEF AfterRun, Restrict, IsTable, Job
<1> QED BY <1>3, <1>4, <1>5, <1>6, <1>7

\* A step that writes a table: for its service each job is as before, or on the schedule.
LEMMA WriteKeepsGoing ==
  ASSUME TypeOK, NoJobStalls, NEW s \in Services, NEW table, IsTable(table), Write(s, table),
         UNCHANGED <<cur, dead, ctxDone>>,
         \A r \in Services, id \in JobIds : Rescheduling(r, id) =>
           Rescheduling(r, id)' \/ (r = s /\ (id \in DOMAIN table /\ table[id].enabled /\ ~IsAt(id) => table[id].next > 0)),
         \A id \in DOMAIN table : table[id].enabled /\ ~IsAt(id) =>
           table[id].next > 0 \/ Rescheduling(s, id)' \/ (id \in DOMAIN jobs[s] /\ table[id] = jobs[s][id])
  PROVE  NoJobStalls'
<1> SUFFICES ASSUME NEW r \in Services, Alive(r), ~ctxDone, NEW id \in DOMAIN jobs'[r],
                    jobs'[r][id].enabled, ~IsAt(id)
             PROVE  jobs'[r][id].next > 0 \/ Rescheduling(r, id)'
  BY DEF NoJobStalls, Alive, IsAt
<1>1. /\ jobs'[s] = table /\ \A q \in Services \ {s} : jobs'[q] = jobs[q]
      /\ IsTable(jobs'[r]) /\ id \in JobIds
  BY WriteIs DEF IsTable
<1>2. CASE r # s
  <2>1. jobs[r][id].next > 0 \/ Rescheduling(r, id)
    BY <1>1, <1>2 DEF NoJobStalls
  <2> QED BY <1>1, <1>2, <2>1
<1>3. CASE r = s
  <2>1. CASE id \in DOMAIN jobs[s] /\ table[id] = jobs[s][id]
    <3>1. jobs[s][id].next > 0 \/ Rescheduling(s, id)
      BY <1>1, <1>3, <2>1 DEF NoJobStalls
    <3> QED BY <1>1, <1>3, <2>1, <3>1
  <2> QED BY <1>1, <1>3, <2>1
<1> QED BY <1>2, <1>3

\* A job comes off the schedule with a fire that puts it back, and the file of a process that
\* died is completed by the next start.
LEMMA StallStep == CronInv /\ NoJobStalls /\ [Next]_vars => NoJobStalls'
<1> SUFFICES ASSUME CronInv, NoJobStalls, [Next]_vars PROVE NoJobStalls'
  OBVIOUS
<1> USE DEF fileVars, loopVars, lifeVars, userVars
<1>t. /\ TypeOK /\ loadErrors \in Nat /\ cur \in Nat /\ now \in Nat
      /\ \A s \in Services : s \in Nat /\ s > 0 /\ IsTable(jobs[s])
  BY CronAssumption DEF CronInv, LifeInv, TypeOK, Services
<1>j. \A s \in Services : \A id \in DOMAIN jobs[s] : id \in JobIds /\ jobs[s][id] \in Job
  BY <1>t DEF IsTable
<1>0. ASSUME UNCHANGED <<jobs, cur, dead>>, ctxDone => ctxDone',
             \A r \in Services, id \in JobIds : Rescheduling(r, id) => Rescheduling(r, id)' \/ ctxDone'
      PROVE  NoJobStalls'
  BY <1>0, <1>j DEF NoJobStalls, Alive, IsAt
<1>f. ASSUME UNCHANGED fires PROVE \A r \in Services, id \in JobIds : Rescheduling(r, id) => Rescheduling(r, id)'
  BY <1>f DEF Rescheduling
<1>1. CASE Still
  <2>1. UNCHANGED dead /\ (ctxDone => ctxDone')
    BY <1>1 DEF Still, Tick, CancelCtx, StopCall, StopReturn, vars
  <2> QED BY <1>0, <1>1, <1>f, <2>1, StillIs
<1>2. CASE Crash
  <2>1. \A s \in Services : ~(s <= cur' /\ s \notin dead')
    BY <1>2, <1>t DEF Crash
  <2> QED BY <2>1 DEF NoJobStalls, Alive
<1>3. ASSUME NEW s \in Services, Start(s) PROVE NoJobStalls'
  <2>1. /\ s = cur + 1 /\ cur' = s /\ UNCHANGED <<now, fires, dead, ctxDone>>
        /\ IsTable(StartTable) /\ Write(s, StartTable)
    BY <1>3, <1>t, StartIs DEF Start
  <2>2. jobs'[s] = StartTable /\ \A q \in Services \ {s} : jobs'[q] = jobs[q]
    BY <1>t, <2>1, WriteIs
  <2> SUFFICES ASSUME NEW r \in Services, Alive(r)', ~ctxDone, NEW id \in DOMAIN jobs'[r],
                      jobs'[r][id].enabled, ~IsAt(id)
               PROVE  jobs'[r][id].next > 0 \/ Rescheduling(r, id)'
    BY <2>1 DEF NoJobStalls, IsAt
  <2>3. CASE r = s
    <3>1. /\ id \in DOMAIN disk /\ id \in JobIds /\ disk[id] \in Job
          /\ disk[id].next # 0 \/ ~disk[id].enabled => StartTable[id].next = disk[id].next
          /\ disk[id].next = 0 /\ disk[id].enabled => StartTable[id].next = NextFrom(id, disk[id])
      BY <1>t, <2>2, <2>3, StartTableIs DEF TypeOK, IsTable
    <3>2. StartTable[id].enabled = disk[id].enabled
      BY <1>t, <2>2, <2>3, StartTableIs
    <3>3. NextFrom(id, disk[id]) > 0
      BY <1>t, <3>1, BackOnSchedule
    <3> QED BY <2>2, <2>3, <3>1, <3>2, <3>3 DEF Job
  <2>4. CASE r # s
    <3>1. jobs'[r] = jobs[r] /\ r <= cur
      BY <1>t, <2>1, <2>2, <2>4 DEF Alive
    <3>2. Alive(r)
      BY <2>1, <3>1 DEF Alive
    <3> QED BY <1>f, <1>j, <2>1, <3>1, <3>2 DEF NoJobStalls
  <2> QED BY <2>3, <2>4
<1>4. ASSUME NEW s \in Services, Loops(s) PROVE NoJobStalls'
  BY <1>0, <1>4, <1>f, LoopsAre
<1>5. ASSUME NEW s \in Services, CheckAndFire(s) PROVE NoJobStalls'
  <2>1. Write(s, Taken(s)) /\ UNCHANGED <<cur, dead, ctxDone>>
    BY <1>5, <1>t, CheckAndFireWrites
  <2>2. /\ IsTable(Taken(s)) /\ DOMAIN Taken(s) = DOMAIN jobs[s]
        /\ \A id \in DOMAIN jobs[s] : ~IsDue(jobs[s][id]) => Taken(s)[id] = jobs[s][id]
    BY <1>t, TakenIs
  <2>3. \A r \in Services, id \in JobIds : Rescheduling(r, id) => Rescheduling(r, id)'
    BY <1>5, <1>t, CheckAndFireIs DEF Rescheduling
  <2>4. ASSUME NEW id \in DOMAIN jobs[s], IsDue(jobs[s][id]) PROVE Rescheduling(s, id)'
    <3>1. PICK i \in NewFires : fires'[i].id = id
      BY <1>5, <1>t, <2>4, CheckAndFireIs
    <3>2. fires'[i].svc = s /\ fires'[i].pc = "start" /\ i \in DOMAIN fires'
      BY <1>5, <1>t, CheckAndFireIs DEF NewFires
    <3> QED BY <3>1, <3>2 DEF Rescheduling
  <2> QED BY <1>t, <2>1, <2>2, <2>3, <2>4, WriteKeepsGoing
<1>6. ASSUME NEW i \in DOMAIN fires, Moves(i) PROVE NoJobStalls'
  <2>1. UNCHANGED <<jobs, cur, dead, ctxDone>>
    BY <1>6 DEF Moves
  <2>2. PICK l \in FireStates : /\ Advance(i, l)
                                /\ fires[i].pc = "deliver" \/ l \in {"acquire", "run"} \/ ctxDone
    BY <1>6 DEF Moves, FireStates, Terminal
  <2>3. \A r \in Services, id \in JobIds : Rescheduling(r, id) => Rescheduling(r, id)' \/ ctxDone'
    BY <1>t, <2>1, <2>2, AdvanceIs DEF Rescheduling
  <2> QED BY <1>0, <2>1, <2>3
<1>7. ASSUME NEW i \in DOMAIN fires, NEW table, NEW l \in {"done", "deliver"}, Advance(i, l),
             Write(fires[i].svc, table), IsTable(table), UNCHANGED <<cur, dead, ctxDone>>,
             LET s == fires[i].svc
                 id == fires[i].id
             IN /\ id \in DOMAIN table /\ ~IsAt(id) => table[id].next > 0
                /\ \A k \in DOMAIN table : k # id => k \in DOMAIN jobs[s] /\ table[k] = jobs[s][k]
      PROVE  NoJobStalls'
  <2> DEFINE s == fires[i].svc
             id == fires[i].id
  <2>1. s \in Services /\ id \in JobIds
    BY <1>t, FiresAre DEF FireRecord
  <2>2. \A r \in Services, k \in JobIds : Rescheduling(r, k) => Rescheduling(r, k)' \/ (r = s /\ k = id)
    BY <1>7, <1>t, AdvanceIs DEF Rescheduling, FireStates, Terminal
  <2>3. \A k \in DOMAIN table : table[k].enabled /\ ~IsAt(k) =>
          table[k].next > 0 \/ (k \in DOMAIN jobs[s] /\ table[k] = jobs[s][k])
    BY <1>7
  <2>4. \A r \in Services, k \in JobIds : Rescheduling(r, k) =>
          \/ Rescheduling(r, k)'
          \/ r = s /\ (k \in DOMAIN table /\ table[k].enabled /\ ~IsAt(k) => table[k].next > 0)
    BY <1>7, <2>2
  <2> QED BY <1>7, <1>t, <2>1, <2>3, <2>4, WriteKeepsGoing
<1>8. ASSUME NEW i \in DOMAIN fires, Rejects(i) PROVE NoJobStalls'
  <2> DEFINE s == fires[i].svc
             id == fires[i].id
             table == Rescheduled(s, id)
  <2>1. s \in Services /\ id \in JobIds /\ Advance(i, "done") /\ Write(s, table) /\ UNCHANGED <<cur, dead, ctxDone>>
    BY <1>8, <1>t, FireWrites
  <2>2. /\ IsTable(table) /\ DOMAIN table = DOMAIN jobs[s]
        /\ \A k \in DOMAIN jobs[s] : k = id => table[k].next = NextRun(id, now)
    BY <1>t, <2>1, RescheduledIs
  <2>3. ~IsAt(id) => NextRun(id, now) > 0
    BY <1>t, <2>1, BackOnSchedule
  <2>4. \A k \in DOMAIN table : k # id => table[k] = jobs[s][k]
    BY <1>t, <2>1 DEF Rescheduled
  <2> HIDE DEF table
  <2> QED BY <1>7, <2>1, <2>2, <2>3, <2>4
<1>9. ASSUME NEW i \in DOMAIN fires, FireFinish(i) PROVE NoJobStalls'
  <2> DEFINE s == fires[i].svc
             id == fires[i].id
             table == AfterRun(jobs[s], id)
  <2>1. /\ s \in Services /\ id \in JobIds
        /\ Advance(i, "done") \/ Advance(i, "deliver")
        /\ Write(s, table) /\ IsTable(table) /\ UNCHANGED <<cur, dead, ctxDone>>
    BY <1>9, <1>t, FireWrites
  <2>2. /\ DOMAIN table \subseteq DOMAIN jobs[s]
        /\ \A k \in DOMAIN table : k # id => table[k] = jobs[s][k]
    BY <1>t, <2>1, AfterRunIs
  <2>3. id \in DOMAIN table /\ ~IsAt(id) => table[id].next > 0
    BY <1>t, <2>1, BackOnSchedule
  <2>4. PICK l \in {"done", "deliver"} : Advance(i, l)
    BY <2>1
  <2> HIDE DEF table
  <2> QED BY <1>7, <2>1, <2>2, <2>3, <2>4
<1>10. ASSUME NEW id \in JobIds, cur \in Services, NEW table, IsTable(table), Write(cur, table),
              UNCHANGED <<fires, cur, dead, ctxDone>>,
              id \in DOMAIN table /\ table[id].enabled /\ ~IsAt(id) => table[id].next > 0,
              \A k \in DOMAIN table : k # id => k \in DOMAIN jobs[cur] /\ table[k] = jobs[cur][k]
       PROVE  NoJobStalls'
  <2>1. \A k \in DOMAIN table : table[k].enabled /\ ~IsAt(k) =>
          table[k].next > 0 \/ (k \in DOMAIN jobs[cur] /\ table[k] = jobs[cur][k])
    BY <1>10
  <2> QED BY <1>10, <1>f, <1>t, <2>1, WriteKeepsGoing
<1>11. ASSUME NEW id \in JobIds, cur \in Services, AddJob(cur, id) PROVE NoJobStalls'
  <2>1. Write(cur, WithJob(cur, id)) /\ UNCHANGED <<fires, cur, dead, ctxDone>>
    BY <1>11 DEF AddJob, WithJob
  <2>2. /\ IsTable(WithJob(cur, id)) /\ DOMAIN WithJob(cur, id) = DOMAIN jobs[cur] \cup {id}
        /\ \A k \in DOMAIN jobs[cur] \ {id} : WithJob(cur, id)[k] = jobs[cur][k]
    BY <1>11, <1>t, WithJobIs
  <2>3. ~IsAt(id) => WithJob(cur, id)[id].next > 0
    BY <1>11, <1>t, BackOnSchedule
  <2> QED BY <1>10, <1>11, <2>1, <2>2, <2>3
<1>12. ASSUME NEW id \in JobIds, cur \in Services, RemoveJob(cur, id) PROVE NoJobStalls'
  <2>1. Write(cur, WithoutJob(cur, id)) /\ UNCHANGED <<fires, cur, dead, ctxDone>>
    BY <1>12 DEF RemoveJob, WithoutJob
  <2>2. /\ IsTable(WithoutJob(cur, id)) /\ DOMAIN WithoutJob(cur, id) = DOMAIN jobs[cur] \ {id}
        /\ \A k \in DOMAIN jobs[cur] \ {id} : WithoutJob(cur, id)[k] = jobs[cur][k]
    BY <1>12, <1>t, WithoutJobIs
  <2> QED BY <1>10, <1>12, <2>1, <2>2
<1>13. ASSUME NEW id \in JobIds, NEW e \in BOOLEAN, cur \in Services, EnableJob(cur, id, e) PROVE NoJobStalls'
  <2>1. /\ id \in DOMAIN jobs[cur] /\ Write(cur, Toggled(cur, id, e))
        /\ UNCHANGED <<fires, cur, dead, ctxDone>>
    BY <1>13 DEF EnableJob, Toggled
  <2>2. IsTable(Toggled(cur, id, e)) /\ DOMAIN Toggled(cur, id, e) = DOMAIN jobs[cur]
    BY <1>13, <1>t, <2>1, ToggledIs
  <2>3. \A k \in DOMAIN jobs[cur] : k # id => Toggled(cur, id, e)[k] = jobs[cur][k]
    BY DEF Toggled
  <2>4. Toggled(cur, id, e)[id].enabled /\ ~IsAt(id) => Toggled(cur, id, e)[id].next > 0
    BY <1>13, <1>t, <2>1, BackOnSchedule
  <2> QED BY <1>10, <1>13, <2>1, <2>2, <2>3, <2>4
<1> QED BY <1>1, <1>2, <1>3, <1>4, <1>5, <1>6, <1>8, <1>9, <1>11, <1>12, <1>13, StepCases

\* Repeating jobs keep coming: crashes and failed saves at any step, bad payloads, toggles and runs
\* that overlap leave no enabled one without a next run or a fire that will set it.
THEOREM NobodyStalls == Spec => []NoJobStalls
<1>1. Init => NoJobStalls
  BY DEF Init, NoJobStalls, Empty
<1> QED BY <1>1, CronInit, CronStep, StallStep, PTL DEF Spec

-----------------------------------------------------------------------------
(* When the conditions hold *)

\* Services end by crashes only, and a dead one has neither a loop nor fires.
DeadInv ==
  /\ stopped = {} /\ \A s \in Services : stopping[s] = "no"
  /\ \A s \in dead : s <= cur /\ lpc[s] = "exited" /\ Pending(s) = {}
  /\ \A s \in Services : s < cur => s \in dead

LEMMA DeadStep ==
  ASSUME MaxStops = 0
  PROVE  CronInv /\ DeadInv /\ [Next]_vars => DeadInv'
<1> SUFFICES ASSUME CronInv, DeadInv, [Next]_vars PROVE DeadInv'
  OBVIOUS
<1> USE DEF fileVars, loopVars, lifeVars, userVars
<1>t. /\ TypeOK /\ loadErrors \in Nat /\ cur \in Nat /\ dead \subseteq Services
      /\ \A s \in Services : s \in Nat
      /\ \A i \in DOMAIN fires : fires[i].svc \in Services /\ fires[i].svc <= cur
  <2>1. TypeOK /\ loadErrors \in Nat
    BY DEF CronInv, LifeInv
  <2>2. cur \in Nat /\ dead \subseteq Services /\ \A s \in Services : s \in Nat
    BY <2>1, CronAssumption DEF TypeOK, Services
  <2>3. \A i \in DOMAIN fires : fires[i].svc \in Services
    BY <2>1, FiresAre DEF FireRecord
  <2>4. \A i \in DOMAIN fires : fires[i].svc <= cur
    BY DEF CronInv, LifeInv
  <2> QED BY <2>1, <2>2, <2>3, <2>4
<1>1. CASE Still
  <2>1. \A s \in Services : ~StopCall(s) /\ ~StopReturn(s)
    BY FS_EmptySet DEF StopCall, StopReturn, DeadInv
  <2>2. UNCHANGED <<dead, stopped, stopping>>
    BY <1>1, <2>1 DEF Still, Tick, CancelCtx, vars
  <2> QED BY <1>1, <2>2, StillIs DEF DeadInv, Pending
<1>2. CASE Crash
  <2>1. \A i \in DOMAIN fires' : fires'[i].pc \in Terminal
    BY <1>2, <1>t, CrashIs DEF Terminal
  <2>2. \A s \in Services : Pending(s)' = {}
    BY <2>1 DEF Pending
  <2>3. dead' = 1..cur /\ cur' = cur /\ UNCHANGED <<stopped, stopping>>
    BY <1>2 DEF Crash
  <2>4. lpc' = [s \in Services |-> IF s <= cur THEN "exited" ELSE lpc[s]]
    BY <1>2 DEF Crash
  <2>5. cur <= MaxServices /\ MaxServices \in Nat
    BY CronAssumption DEF CronInv, TypeOK
  <2>6. \A s \in 1..cur : s \in Services /\ s <= cur /\ lpc'[s] = "exited"
    BY <1>t, <2>4, <2>5 DEF Services
  <2>7. \A s \in Services : s < cur => s \in 1..cur
    BY <1>t DEF Services
  <2> QED BY <2>2, <2>3, <2>6, <2>7 DEF DeadInv
<1>3. ASSUME NEW s \in Services, Start(s) PROVE DeadInv'
  <2>1. s = cur + 1 /\ cur' = s /\ fires' = fires /\ lpc' = [lpc EXCEPT ![s] = "plan"]
    BY <1>3, <1>t, StartIs
  <2>2. UNCHANGED <<dead, stopped, stopping>> /\ (cur > 0 => cur \in dead)
    <3>1. cur > 0 => cur \in Services
      BY <1>t, <2>1, CronAssumption DEF Services
    <3> QED BY <1>3, <3>1 DEF Start, DeadInv
  <2>3. s \notin dead
    BY <1>t, <2>1 DEF DeadInv
  <2>4. \A r \in dead : lpc'[r] = lpc[r]
    BY <1>t, <2>1, <2>3 DEF TypeOK
  <2>5. \A r \in Services : r < cur' => r \in dead
    <3>1. \A r \in Services : r < s => r < cur \/ (r = cur /\ cur > 0)
      BY <1>t, <2>1 DEF Services
    <3> QED BY <2>1, <2>2, <3>1 DEF DeadInv
  <2>6. \A r \in dead : r <= cur'
    <3>1. \A r \in dead : r \in Nat /\ r <= cur
      BY <1>t DEF DeadInv
    <3> QED BY <1>t, <2>1, <3>1
  <2> QED BY <2>1, <2>2, <2>4, <2>5, <2>6 DEF DeadInv, Pending
<1>4. ASSUME NEW s \in Services, Loops(s) PROVE DeadInv'
  <2>1. s \notin dead
    BY <1>4, LoopsAre DEF DeadInv
  <2>2. \A r \in dead : lpc'[r] = lpc[r]
    BY <1>4, <1>t, <2>1, LoopsAre DEF TypeOK
  <2> QED BY <1>4, <1>t, <2>2, LoopsAre DEF DeadInv, Pending
<1>5. ASSUME NEW s \in Services, CheckAndFire(s) PROVE DeadInv'
  <2>1. s \notin dead /\ lpc' = [lpc EXCEPT ![s] = "plan"] /\ UNCHANGED lifeVars
    BY <1>5, <1>t, CheckAndFireWrites DEF DeadInv
  <2>2. \A r \in dead : lpc'[r] = lpc[r]
    BY <1>t, <2>1 DEF TypeOK
  <2>3. \A r \in dead, i \in DOMAIN fires' : fires'[i].svc = r => i \in DOMAIN fires /\ fires'[i] = fires[i]
    BY <1>5, <1>t, <2>1, CheckAndFireIs DEF NewFires
  <2>4. \A r \in dead : Pending(r)' = {}
    BY <2>3 DEF DeadInv, Pending
  <2> QED BY <2>1, <2>2, <2>4 DEF DeadInv
<1>6. ASSUME NEW i \in DOMAIN fires, Moves(i) \/ Rejects(i) \/ FireFinish(i) PROVE DeadInv'
  <2>1. fires[i].pc \notin Terminal /\ UNCHANGED <<lpc, lifeVars>>
    BY <1>6, <1>t, FireWrites DEF Moves, Terminal
  <2>2. PICK l \in FireStates : Advance(i, l)
    BY <1>6, <1>t, FireWrites DEF Moves, FireStates, Terminal
  <2>3. /\ DOMAIN fires' = DOMAIN fires
        /\ \A k \in DOMAIN fires : /\ fires'[k].svc = fires[k].svc
                                   /\ k # i => fires'[k].pc = fires[k].pc
    BY <1>t, <2>2, AdvanceIs
  <2>4. fires[i].svc \notin dead
    BY <2>1 DEF DeadInv, Pending
  <2>5. \A r \in dead : Pending(r)' = {}
    BY <2>3, <2>4 DEF DeadInv, Pending
  <2> QED BY <2>1, <2>5 DEF DeadInv
<1>7. ASSUME NEW id \in JobIds, NEW e \in BOOLEAN,
             AddJob(cur, id) \/ RemoveJob(cur, id) \/ EnableJob(cur, id, e)
      PROVE  DeadInv'
  BY <1>7 DEF AddJob, RemoveJob, EnableJob, DeadInv, Pending
<1> QED BY <1>1, <1>2, <1>3, <1>4, <1>5, <1>6, <1>7, StepCases

\* Without a Stop, services follow each other by crashes, which leave nobody behind: the
\* condition of the theorems above holds at every step.
THEOREM CrashesLeaveNobody == ASSUME MaxStops = 0 PROVE Spec => []Alone
<1>1. Init => DeadInv
  BY CronAssumption DEF Init, DeadInv, Services
<1>2. CronInv /\ DeadInv /\ [Next]_vars => DeadInv'
  BY DeadStep
<1>3. DeadInv => Alone
  BY DEF DeadInv, Alone
<1> QED BY <1>1, <1>2, <1>3, CronInit, CronStep, PTL DEF Spec

\* Nothing fails to be saved or read and nothing is toggled where none may.
FaultFree == MaxStops = 0 /\ MaxSaveErrors = 0 /\ MaxToggles = 0 /\ MaxLoadErrors = 0
LEMMA FaultFreeStep ==
  ASSUME FaultFree
  PROVE  Saved /\ Untoggled /\ Loaded /\ [Next]_vars => Saved' /\ Untoggled' /\ Loaded'
<1> SUFFICES ASSUME Saved, Untoggled, Loaded, [Next]_vars PROVE Saved' /\ Untoggled' /\ Loaded'
  OBVIOUS
<1> USE DEF Saved, Untoggled, Loaded, FaultFree, fileVars, loopVars, lifeVars, userVars
<1>1. \A s, table : Write(s, table) => saveErrors' = 0
  BY DEF Write, SaveFails
<1>2. CASE Still \/ Crash
  BY <1>2, StillIs DEF Crash
<1>3. ASSUME NEW s \in Services, Start(s) PROVE Saved' /\ Untoggled' /\ Loaded'
  BY <1>1, <1>3 DEF Start
<1>4. ASSUME NEW s \in Services, Loops(s) PROVE Saved' /\ Untoggled' /\ Loaded'
  BY <1>4, LoopsAre
<1>5. ASSUME NEW s \in Services, CheckAndFire(s) PROVE Saved' /\ Untoggled' /\ Loaded'
  BY <1>1, <1>5 DEF CheckAndFire
<1>6. ASSUME NEW i \in DOMAIN fires, Moves(i) \/ Rejects(i) \/ FireFinish(i)
      PROVE  Saved' /\ Untoggled' /\ Loaded'
  BY <1>1, <1>6 DEF Moves, Rejects, FireStart, FireFinish
<1>7. ASSUME NEW id \in JobIds, NEW e \in BOOLEAN,
             AddJob(cur, id) \/ RemoveJob(cur, id) \/ EnableJob(cur, id, e)
      PROVE  Saved' /\ Untoggled' /\ Loaded'
  BY <1>1, <1>7 DEF AddJob, RemoveJob, EnableJob
<1> QED BY <1>2, <1>3, <1>4, <1>5, <1>6, <1>7, StepCases

LEMMA CalmWhenFaultFree == ASSUME FaultFree PROVE Spec => []Calm /\ []Loaded
<1>1. Init => Saved /\ Untoggled /\ Loaded
  BY DEF Init, Saved, Untoggled, Loaded
<1>2. Saved /\ Untoggled /\ Loaded /\ [Next]_vars => Saved' /\ Untoggled' /\ Loaded'
  BY FaultFreeStep
<1>3. Spec => []Alone
  BY CrashesLeaveNobody DEF FaultFree
<1>4. Alone /\ Saved /\ Untoggled => Calm
  BY DEF Calm
<1> QED BY <1>1, <1>2, <1>3, <1>4, PTL DEF Spec

=============================================================================
