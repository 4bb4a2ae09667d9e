----------------------------- MODULE Heartbeat -----------------------------
(***************************************************************************)
(* The heartbeat plugin (plugins/trigger/heartbeat): each Start of its     *)
(* trigger makes a new Service with a ticker loop and a lane of one slot;  *)
(* a tick that finds the lane taken is skipped; Stop cancels the loop and  *)
(* waits for it and for the turn it may have started.  The gateway starts  *)
(* and stops the trigger on every reload, one call after the other.        *)
(***************************************************************************)
EXTENDS Naturals, FiniteSets

CONSTANTS MaxServices  \* bound: starts of the trigger

VARIABLES
  last,      \* services made so far; service k is the k-th
  current,   \* Plugin.svc: a service or 0
  cancelled, \* services whose run context is cancelled
  loop,      \* the goroutine of each service's Start: "born", "ticking" or "returned"
  turn,      \* its tick's goroutine: "none" (the lane is free), "prompt", "running" or "ending"
  stopping,  \* the service a Stop is waiting for, or 0
  quiet      \* the services whose Stop has returned

vars == <<last, current, cancelled, loop, turn, stopping, quiet>>

Services == 1..MaxServices

Init ==
  /\ last = 0 /\ current = 0 /\ cancelled = {} /\ stopping = 0 /\ quiet = {}
  /\ loop = [k \in Services |-> "none"]
  /\ turn = [k \in Services |-> "none"]

\* hbRunner.Start cancels what a Start without a Stop in between left running, and waits for nothing.
StartTrigger ==
  /\ stopping = 0 /\ last < MaxServices
  /\ last' = last + 1 /\ current' = last + 1
  /\ cancelled' = cancelled \cup ({current} \ {0})
  /\ loop' = [loop EXCEPT ![last + 1] = "born"]
  /\ UNCHANGED <<turn, stopping, quiet>>

\* hbRunner.Stop: cancel, forget the service, and wait (Service.Stop).
StopTrigger ==
  /\ stopping = 0 /\ current # 0
  /\ cancelled' = cancelled \cup {current} /\ stopping' = current /\ current' = 0
  /\ UNCHANGED <<last, loop, turn, quiet>>

\* Mutation of StopReturns: Stop waits for the loop only.
StopReturnsEarly ==
  /\ stopping # 0 /\ loop[stopping] # "ticking"
  /\ quiet' = quiet \cup {stopping} /\ stopping' = 0
  /\ UNCHANGED <<last, current, cancelled, loop, turn>>

\* The wait group of the loop counts it from its first statement on: a goroutine not yet scheduled
\* is not waited for.  Its context is cancelled, and a new ticker has not ticked.
StopReturns ==
  /\ stopping # 0
  /\ loop[stopping] # "ticking" /\ turn[stopping] \notin {"prompt", "running"}
  /\ quiet' = quiet \cup {stopping} /\ stopping' = 0
  /\ UNCHANGED <<last, current, cancelled, loop, turn>>

LoopStarts(k) ==
  /\ loop[k] = "born"
  /\ loop' = [loop EXCEPT ![k] = IF k \in cancelled THEN "returned" ELSE "ticking"]
  /\ UNCHANGED <<last, current, cancelled, turn, stopping, quiet>>

LoopEnds(k) ==
  /\ loop[k] = "ticking" /\ k \in cancelled
  /\ loop' = [loop EXCEPT ![k] = "returned"]
  /\ UNCHANGED <<last, current, cancelled, turn, stopping, quiet>>

\* The select may take a tick even when the context is cancelled.  Without the lane it is skipped.
Tick(k) ==
  /\ loop[k] = "ticking" /\ turn[k] = "none"
  /\ turn' = [turn EXCEPT ![k] = "prompt"]
  /\ UNCHANGED <<last, current, cancelled, loop, stopping, quiet>>

\* HEARTBEAT.md may be missing or empty: no turn.
ReadPrompt(k) ==
  /\ turn[k] = "prompt"
  /\ \E some \in BOOLEAN : turn' = [turn EXCEPT ![k] = IF some THEN "running" ELSE "ending"]
  /\ UNCHANGED <<last, current, cancelled, loop, stopping, quiet>>

\* RunTurn returns an answer, HEARTBEAT_OK or an error, all of which are only logged.
TurnEnds(k) ==
  /\ turn[k] = "running"
  /\ turn' = [turn EXCEPT ![k] = "ending"]
  /\ UNCHANGED <<last, current, cancelled, loop, stopping, quiet>>

\* The deferred calls run in reverse order: the wait group first, then the lane.
Release(k) ==
  /\ turn[k] = "ending"
  /\ turn' = [turn EXCEPT ![k] = "none"]
  /\ UNCHANGED <<last, current, cancelled, loop, stopping, quiet>>

Next ==
  \/ StartTrigger \/ StopTrigger \/ StopReturns
  \/ \E k \in Services :
       LoopStarts(k) \/ LoopEnds(k) \/ Tick(k) \/ ReadPrompt(k) \/ TurnEnds(k) \/ Release(k)

Spec == Init /\ [][Next]_vars

\* A turn whose context is cancelled ends (RunTurn's contract); the goroutines run.
Fairness ==
  /\ WF_vars(StopReturns)
  /\ \A k \in Services :
       WF_vars(LoopStarts(k)) /\ SF_vars(LoopEnds(k)) /\ WF_vars(ReadPrompt(k))
       /\ WF_vars(TurnEnds(k) /\ k \in cancelled) /\ WF_vars(Release(k))

FairSpec == Spec /\ Fairness

-----------------------------------------------------------------------------
(* Properties.                                                             *)

Busy(k) == turn[k] \in {"prompt", "running"}

TypeOK ==
  /\ last \in 0..MaxServices /\ current \in 0..last /\ stopping \in 0..last
  /\ cancelled \subseteq 1..last /\ quiet \subseteq cancelled
  /\ loop \in [Services -> {"none", "born", "ticking", "returned"}]
  /\ turn \in [Services -> {"none", "prompt", "running", "ending"}]

\* When Stop has returned, the service starts no turn and has none: a reload never leaves a
\* heartbeat of the old configuration talking (Service.Stop waits for the loop, then the turn).
StoppedIsQuiet == \A k \in quiet : loop[k] # "ticking" /\ ~Busy(k)

\* The gateway stops before it starts, so at most one heartbeat turn runs at a time; only a Start
\* without a Stop would let two overlap.
TurnsDoNotOverlap ==
  \A j, k \in Services : j # k /\ Busy(j) /\ Busy(k) => \E i \in {j, k} : i \notin quiet /\ i # current

\* Stop returns (nothing else bounds a reload's wait for the heartbeat).
StopEnds == (stopping # 0) ~> (stopping = 0)
=============================================================================
