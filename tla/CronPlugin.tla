----------------------------- MODULE CronPlugin -----------------------------
(***************************************************************************)
(* internal/plugins/trigger/cron, the plugin around the service: which     *)
(* Service object the loop, the cron tools and the slash commands hold     *)
(* while the gateway applies one configuration after the other. A table is *)
(* the set of its jobs; slots, fires and crashes are CronService's.        *)
(***************************************************************************)
EXTENDS Naturals, FiniteSets

CONSTANTS
  JobIds,        \* ids a job can have, a fresh one per addition
  InitialJobs,   \* jobs in the file at the start
  Callers,       \* who operates on jobs: "chat" and "cron" by tool, "slash" by command
  MaxApplies,    \* bound: calls of Apply
  MaxFailures    \* bound: calls of Apply that fail

CronPluginAssumption == MaxApplies \in Nat /\ MaxFailures \in Nat /\ InitialJobs \subseteq JobIds

Services == 1..(2 * MaxApplies)
Chat == 0
Turners == {Chat} \cup Services   \* a service stands for the turn of one of its jobs

VARIABLES
  gpc,        \* where Apply is
  applies, failures,
  triggers,   \* Gateway.triggers holds the cron runner
  mu,         \* Plugin.mu is held across a wait
  svc,        \* Plugin.svc, 0 for nil
  made,       \* services made so far
  started, stopped,  \* services whose Start / Stop was called
  cmds, next, \* the service in the handlers of the slash registry in use, and in the next one
  table, disk,  \* service -> s.jobs; jobs.json
  pc, got,    \* turner -> where its turn is; the service its tool call was given
  used,       \* ids given to jobs
  promised,   \* jobs the user was told exist
  unstarted   \* an operation changed a service that was never started

gwVars == <<gpc, applies, failures, triggers>>
svcVars == <<mu, svc, made, started, stopped>>
jobVars == <<table, disk, used, promised, unstarted>>
turnVars == <<pc, got>>
vars == <<gwVars, svcVars, cmds, next, jobVars, turnVars>>

Init ==
  /\ gpc = "idle" /\ applies = 0 /\ failures = 0 /\ triggers = FALSE
  /\ mu = FALSE /\ svc = 0 /\ made = 0 /\ started = {} /\ stopped = {}
  /\ cmds = 0 /\ next = 0
  /\ table = [s \in Services |-> {}] /\ disk = InitialJobs
  /\ pc = [t \in Turners |-> "none"] /\ got = [t \in Turners |-> 0]
  /\ used = InitialJobs /\ promised = InitialJobs /\ unstarted = FALSE

Active(s) == s \in started \ stopped
InTurn(t) == pc[t] # "none"

-----------------------------------------------------------------------------
(* The steps of Apply that concern the plugin *)

\* Without triggers, at the first Apply or after one that failed, nothing is stopped.
Apply ==
  /\ gpc = "idle" /\ applies < MaxApplies
  /\ applies' = applies + 1
  /\ gpc' = IF triggers THEN "stop" ELSE "ensure"
  /\ UNCHANGED <<failures, triggers, svcVars, cmds, next, jobVars, turnVars>>

\* stopLoop takes Plugin.mu and keeps it while Stop waits for the turns in flight.
StopLoop ==
  /\ gpc = "stop" /\ ~mu
  /\ mu' = TRUE /\ stopped' = stopped \cup {svc}
  /\ gpc' = "drain"
  /\ UNCHANGED <<applies, failures, triggers, svc, made, started, cmds, next, jobVars, turnVars>>

\* Mutation of StopLoopDone: Stop does not wait.
StopLoopDoneEarly ==
  /\ gpc = "drain"
  /\ svc' = 0 /\ mu' = FALSE
  /\ triggers' = FALSE /\ gpc' = "ensure"
  /\ UNCHANGED <<applies, failures, made, started, stopped, cmds, next, jobVars, turnVars>>

\* Mutation of StopLoopDone: Plugin.mu is not given back.
StopLoopDoneLocked ==
  /\ gpc = "drain" /\ ~InTurn(svc)
  /\ svc' = 0
  /\ triggers' = FALSE /\ gpc' = "ensure"
  /\ UNCHANGED <<applies, failures, mu, made, started, stopped, cmds, next, jobVars, turnVars>>

StopLoopDone ==
  /\ gpc = "drain" /\ ~InTurn(svc)
  /\ svc' = 0 /\ mu' = FALSE
  /\ triggers' = FALSE /\ gpc' = "ensure"
  /\ UNCHANGED <<applies, failures, made, started, stopped, cmds, next, jobVars, turnVars>>

EnsureService ==
  /\ gpc = "ensure" /\ ~mu
  /\ IF svc = 0 THEN made' = made + 1 /\ svc' = made + 1 ELSE UNCHANGED <<made, svc>>
  /\ gpc' = "register"
  /\ UNCHANGED <<applies, failures, triggers, mu, started, stopped, cmds, next, jobVars, turnVars>>

\* SlashCommands binds the handlers to the service of this moment.
RegisterSlash ==
  /\ gpc = "register" /\ ~mu
  /\ next' = svc
  /\ gpc' = "channels"
  /\ UNCHANGED <<applies, failures, triggers, svcVars, cmds, jobVars, turnVars>>

\* A later step of Apply fails: no trigger runs until the next one succeeds. The
\* first Apply must not fail, or Run returns.
ApplyFails ==
  /\ gpc \in {"register", "channels"} /\ started # {} /\ failures < MaxFailures
  /\ failures' = failures + 1
  /\ gpc' = "idle"
  /\ UNCHANGED <<applies, triggers, svcVars, cmds, next, jobVars, turnVars>>

\* The channels are up and turnMu.Lock is called: no turn begins from now on.
ReloadLock ==
  /\ gpc = "channels"
  /\ gpc' = "swap"
  /\ UNCHANGED <<applies, failures, triggers, svcVars, cmds, next, jobVars, turnVars>>

\* Mutation of Swap: the registry is swapped without the turn lock.
SwapUnlocked ==
  /\ gpc = "swap"
  /\ cmds' = next
  /\ gpc' = "start"
  /\ UNCHANGED <<applies, failures, triggers, svcVars, next, jobVars, turnVars>>

\* Pipeline.Reload has the write lock once every turn is over.
Swap ==
  /\ gpc = "swap" /\ \A t \in Turners : ~InTurn(t)
  /\ cmds' = next
  /\ gpc' = "start"
  /\ UNCHANGED <<applies, failures, triggers, svcVars, next, jobVars, turnVars>>

\* Mutations of StartLoop: the new service is started and not stored, or forgotten
\* before it is started.
StartLoopLocal ==
  /\ gpc = "start" /\ ~mu
  /\ stopped' = stopped \cup {svc}
  /\ made' = made + 1
  /\ started' = started \cup {made + 1}
  /\ table' = [table EXCEPT ![made + 1] = disk]
  /\ triggers' = TRUE /\ gpc' = "idle"
  /\ UNCHANGED <<applies, failures, mu, svc, cmds, next, disk, used, promised, unstarted, turnVars>>
StartLoopNil ==
  /\ gpc = "start" /\ ~mu
  /\ stopped' = stopped \cup {svc} /\ svc' = 0
  /\ started' = started \cup {0}
  /\ triggers' = TRUE /\ gpc' = "idle"
  /\ UNCHANGED <<applies, failures, mu, made, cmds, next, jobVars, turnVars>>

\* startLoop stops the ensured service, makes another one and starts that: it loads
\* the file and saves it again.
StartLoop ==
  /\ gpc = "start" /\ ~mu
  /\ stopped' = stopped \cup {svc}
  /\ made' = made + 1 /\ svc' = made + 1
  /\ started' = started \cup {made + 1}
  /\ table' = [table EXCEPT ![made + 1] = disk]
  /\ triggers' = TRUE /\ gpc' = "idle"
  /\ UNCHANGED <<applies, failures, mu, cmds, next, disk, used, promised, unstarted, turnVars>>

-----------------------------------------------------------------------------
(* Turns, and the operations in them *)

\* A job is due: the table is saved and its turn begins.
Fire(s) ==
  /\ Active(s) /\ table[s] # {} /\ ~InTurn(s)
  /\ disk' = table[s]
  /\ pc' = [pc EXCEPT ![s] = "turn"]
  /\ UNCHANGED <<gwVars, svcVars, cmds, next, table, used, promised, unstarted, got>>

FireEnds(s) ==
  /\ pc[s] = "turn"
  /\ disk' = table[s]
  /\ pc' = [pc EXCEPT ![s] = "none"]
  /\ UNCHANGED <<gwVars, svcVars, cmds, next, table, used, promised, unstarted, got>>

\* The inbound loop runs once an Apply has succeeded.
ChatTurn ==
  /\ started # {} /\ ~InTurn(Chat) /\ gpc # "swap"
  /\ pc' = [pc EXCEPT ![Chat] = "turn"]
  /\ UNCHANGED <<gwVars, svcVars, cmds, next, jobVars, got>>

ChatTurnEnds ==
  /\ pc[Chat] = "turn"
  /\ pc' = [pc EXCEPT ![Chat] = "none"]
  /\ UNCHANGED <<gwVars, svcVars, cmds, next, jobVars, got>>

\* A cron tool begins with Plugin.Service(), which waits for Plugin.mu.
ToolCall(t) ==
  /\ pc[t] = "turn" /\ (IF t = Chat THEN "chat" ELSE "cron") \in Callers
  /\ pc' = [pc EXCEPT ![t] = "asking"]
  /\ UNCHANGED <<gwVars, svcVars, cmds, next, jobVars, got>>

Service(t) ==
  /\ pc[t] = "asking" /\ ~mu
  /\ got' = [got EXCEPT ![t] = svc]
  /\ pc' = [pc EXCEPT ![t] = "using"]
  /\ UNCHANGED <<gwVars, svcVars, cmds, next, jobVars>>

\* AddJob, RemoveJob or ListJobs on a service: changes are saved at once.
Operate(s) ==
  \/ \E id \in JobIds \ used :
       /\ table' = [table EXCEPT ![s] = @ \cup {id}]
       /\ used' = used \cup {id} /\ promised' = promised \cup {id}
       /\ disk' = table'[s] /\ unstarted' = (unstarted \/ s \notin started)
  \/ \E id \in table[s] :
       /\ table' = [table EXCEPT ![s] = @ \ {id}]
       /\ promised' = promised \ {id} /\ UNCHANGED used
       /\ disk' = table'[s] /\ unstarted' = (unstarted \/ s \notin started)
  \/ UNCHANGED jobVars

\* Without a service the tool answers "cron service not ready".
ToolEnds(t) ==
  /\ pc[t] = "using"
  /\ IF got[t] = 0 THEN UNCHANGED jobVars ELSE Operate(got[t])
  /\ pc' = [pc EXCEPT ![t] = "turn"] /\ got' = [got EXCEPT ![t] = 0]
  /\ UNCHANGED <<gwVars, svcVars, cmds, next>>

\* /cron-add and /cron-remove.
SlashCommand ==
  /\ pc[Chat] = "turn" /\ "slash" \in Callers /\ cmds # 0
  /\ Operate(cmds)
  /\ UNCHANGED <<gwVars, svcVars, cmds, next, turnVars>>

-----------------------------------------------------------------------------
ApplyStep ==
  StopLoop \/ StopLoopDone \/ EnsureService \/ RegisterSlash \/ ReloadLock \/ Swap \/ StartLoop
ToolStep(t) == Service(t) \/ ToolEnds(t)

Next ==
  \/ Apply \/ ApplyStep \/ ApplyFails
  \/ \E s \in Services : Fire(s) \/ FireEnds(s)
  \/ ChatTurn \/ ChatTurnEnds \/ SlashCommand
  \/ \E t \in Turners : ToolCall(t) \/ ToolStep(t)

Spec == Init /\ [][Next]_vars

(* Turns and the calls in them end: a turn calls tools a bounded number of *)
(* times, so sooner or later its step is its end. One service at a time    *)
(* has a turn, so the services share a condition. A new Apply or turn is   *)
(* owed by nobody.                                                         *)
Fairness ==
  /\ WF_vars(ApplyStep)
  /\ SF_vars(ChatTurnEnds)
  /\ SF_vars(\E s \in Services : FireEnds(s))
  /\ WF_vars(ToolStep(Chat)) /\ WF_vars(\E s \in Services : ToolStep(s))
FairSpec == Spec /\ Fairness

-----------------------------------------------------------------------------
TypeOK ==
  /\ gpc \in {"idle", "stop", "drain", "ensure", "register", "channels", "swap", "start"}
  /\ applies \in 0..MaxApplies /\ failures \in 0..MaxFailures /\ triggers \in BOOLEAN
  /\ mu \in BOOLEAN /\ made \in 0..(2 * MaxApplies) /\ {svc, cmds, next} \subseteq 0..made
  /\ started \subseteq 1..made /\ stopped \subseteq 1..made
  /\ table \in [Services -> SUBSET JobIds] /\ disk \subseteq JobIds
  /\ pc \in [Turners -> {"none", "turn", "asking", "using"}]
  /\ got \in [Turners -> 0..made]
  /\ promised \subseteq used /\ used \subseteq JobIds /\ unstarted \in BOOLEAN

(* However many Applies and failures went by, at most one loop runs, and   *)
(* while triggers are on the tools are given the service of that loop.     *)
OneScheduler ==
  /\ Cardinality({s \in Services : Active(s)}) <= 1
  /\ triggers /\ gpc \in {"idle", "stop"} => Active(svc)

(* Once stopLoop has returned no job of the old service is in a turn: its  *)
(* late save would undo what the next service has written.                 *)
NoTurnOutlivesStop ==
  \A s \in stopped : InTurn(s) => gpc = "drain" /\ s = svc

(* A job the user was told exists stays in jobs.json, also when the tool   *)
(* call that made it straddles a reload, as long as nothing operates on a  *)
(* service that is not started.                                            *)
KeptUnlessUnstarted == ~unstarted => promised \subseteq disk

(* The plugin through any number of reloads.                               *)
JobsSurviveReloads == TypeOK /\ OneScheduler /\ NoTurnOutlivesStop /\ KeptUnlessUnstarted

(* "The same operations are available as slash commands": a job added that *)
(* way is one of the jobs that exist, and costs no other job its place.    *)
SlashJobsAreKept == promised \subseteq disk

(* "Restarts background triggers (cron, ...)": Apply ends.                 *)
ApplyEnds == gpc # "idle" ~> gpc = "idle"

(* The one way in which it does not: stopLoop holds Plugin.mu and waits    *)
(* for a turn that waits for Plugin.mu.                                    *)
ApplyEndsUnlessAsked ==
  gpc # "idle" ~> (gpc = "idle" \/ (mu /\ \E s \in Services : pc[s] = "asking"))
=============================================================================
