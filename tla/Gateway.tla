------------------------------ MODULE Gateway ------------------------------
(***************************************************************************)
(* internal/gateway and internal/kernel/pipeline: the goroutine that runs  *)
(* Apply, reload and Shutdown, the inbound loop, the automation turns and  *)
(* the streams of the web channel, all meeting at turnMu and at the        *)
(* runtime pointer it guards. What a turn says is abstracted to the kind   *)
(* of its message; a runtime is the number of the Apply that built it.     *)
(***************************************************************************)
EXTENDS Naturals, FiniteSets

CONSTANTS
  Kinds,        \* the kinds of inbound messages that arrive
  Triggers,     \* automation whose Stop waits for its turns: cron, heartbeat
  Detached,     \* automation whose Stop only cancels: mem-consolidate
  Viewers,      \* callers of RunStream: /v1/responses and web voice
  MaxMessages,  \* bound: inbound messages
  MaxEdits,     \* bound: saves of config or workspace files
  MaxRuntimes,  \* bound: runtimes built
  MaxFailures   \* bound: steps of Apply that fail

AllKinds == {"new", "bad", "direct", "reload", "sync", "stream", "compact"}
ASSUME GatewayAssumption ==
  /\ Kinds \subseteq AllKinds
  /\ "chat" \notin Triggers \cup Detached \cup Viewers
  /\ Triggers \cap Detached = {} /\ Viewers \cap (Triggers \cup Detached) = {}
  /\ MaxRuntimes \in Nat \ {0} /\ {MaxMessages, MaxEdits, MaxFailures} \subseteq Nat

Automation == Triggers \cup Detached
Turners == {"chat"} \cup Automation
Actors == Turners \cup Viewers

VARIABLES
  gpc,        \* where the goroutine of Gateway.Run is
  first,      \* the initial Apply is not over
  on,         \* automation whose loop runs
  ctxDone,    \* the ctx of Run is cancelled
  webUp,      \* the web channel accepts requests
  rt,         \* Pipeline.rt, 0 for nil
  slashGen,   \* the Apply whose registry slashRegistry holds
  built,      \* runtimes built so far
  old,        \* the runtime Reload or Shutdown took out
  closed,     \* runtimes closed
  writer,     \* turnMu: "none", or "waiting" from the call of Lock on
  readers,    \* actor -> read locks it holds
  pc,         \* actor -> where it is
  uses,       \* actor -> the runtime its turn or stream works with
  gen,        \* "chat"'s registry generation, 0 before the lookup
  msg,        \* the kind of the message in handle
  ended,      \* how the agent's turn of that message ended, "none" before or without one
  outcome,    \* what the chat of that message has been sent
  received,   \* messages dequeued
  tokens,     \* signals in manualReloadCh and the watcher's channel
  armed,      \* the watcher's debounce timer runs
  fileVer, asked, loaded,  \* saves; the last one a reload was asked for; the last one read
  failures

gwVars == <<gpc, first, on, ctxDone, webUp>>
rtVars == <<rt, slashGen, built, old, closed>>
chatVars == <<gen, msg, ended, outcome, received>>
actorVars == <<readers, pc, uses, chatVars>>
reloadVars == <<tokens, armed, fileVer, asked, loaded>>
vars == <<gwVars, rtVars, writer, actorVars, reloadVars, failures>>

Init ==
  /\ gpc = "stop" /\ first = TRUE /\ on = {} /\ ctxDone = FALSE /\ webUp = FALSE
  /\ rt = 0 /\ slashGen = 0 /\ built = 0 /\ old = 0 /\ closed = {}
  /\ writer = "none" /\ readers = [a \in Actors |-> 0]
  /\ pc = [a \in Actors |-> IF a = "chat" THEN "off" ELSE "idle"]
  /\ uses = [a \in Actors |-> 0]
  /\ gen = 0 /\ msg = "none" /\ ended = "none" /\ outcome = {} /\ received = 0
  /\ tokens = {} /\ armed = FALSE /\ fileVer = 0 /\ asked = 0 /\ loaded = 0
  /\ failures = 0

Fails == failures < MaxFailures /\ failures' = failures + 1
Goto(a, l) == pc' = [pc EXCEPT ![a] = l]

\* turnMu.RLock: a writer that waits keeps new readers out.
RLock(a) ==
  /\ writer = "none"
  /\ readers' = [readers EXCEPT ![a] = @ + 1]
RUnlock(a) == readers' = [readers EXCEPT ![a] = @ - 1]

-----------------------------------------------------------------------------
(* Pipeline.Run and handle: one message at a time *)

\* PublishOutbound with the ctx of Run: once that is done a message may be dropped.
Published(o) == IF ctxDone THEN {o, {}} ELSE {o}

\* /new is answered before the lock is taken.
Receive(k) ==
  /\ pc["chat"] = "idle" /\ received < MaxMessages
  /\ received' = received + 1
  /\ msg' = k /\ gen' = 0 /\ ended' = "none"
  /\ IF k = "new"
     THEN outcome' \in Published({"reply"}) \cup Published({"error"}) /\ UNCHANGED pc
     ELSE outcome' = {} /\ Goto("chat", "rlock")
  /\ UNCHANGED <<gwVars, rtVars, writer, readers, uses, reloadVars, failures>>

\* Mutation of LoopExit: the loop ends with the bus, which Shutdown closes last.
LoopExitOnClose ==
  /\ pc["chat"] = "idle" /\ gpc = "down"
  /\ Goto("chat", "exit")
  /\ UNCHANGED <<gwVars, rtVars, writer, readers, uses, chatVars, reloadVars, failures>>

LoopExit ==
  /\ pc["chat"] = "idle" /\ ctxDone
  /\ Goto("chat", "exit")
  /\ UNCHANGED <<gwVars, rtVars, writer, readers, uses, chatVars, reloadVars, failures>>

\* handle, RunTurn and RunStream take the lock and read rt.
TakeTurn(a) ==
  /\ pc[a] = "rlock"
  /\ RLock(a)
  /\ uses' = [uses EXCEPT ![a] = rt]
  /\ Goto(a, IF a = "chat" THEN "slash" ELSE "turn")
  /\ UNCHANGED <<gwVars, rtVars, writer, chatVars, reloadVars, failures>>

\* The end of a handle: what the chat got, one of outs, and the deferred RUnlock.
Reply(outs) ==
  /\ \E o \in outs : outcome' = outcome \cup o
  /\ RUnlock("chat")
  /\ uses' = [uses EXCEPT !["chat"] = 0]
  /\ Goto("chat", "idle")

\* slash.PreTurn against the registry stored now. /reload leaves a signal in a
\* channel of capacity one.
Slash ==
  /\ pc["chat"] = "slash"
  /\ gen' = slashGen
  /\ CASE msg = "bad" -> Reply(Published({"error"}))
       [] msg \in {"direct", "reload"} -> Reply(Published({"reply"}))
       [] OTHER -> Goto("chat", "turn") /\ UNCHANGED <<readers, uses, outcome>>
  /\ IF msg = "reload"
     THEN tokens' = tokens \cup {"manual"} /\ asked' = fileVer
     ELSE UNCHANGED <<tokens, asked>>
  /\ UNCHANGED <<gwVars, rtVars, writer, msg, ended, received, armed, fileVer, loaded,
                 failures>>

\* How a turn can end. The reply of a sync turn may be "empty"; "cut" is a stream whose
\* error is context.Canceled or DeadlineExceeded, from the gateway's ctx or any other.
Endings ==
  CASE msg = "sync" -> {"ok", "empty", "failed"}
    [] msg = "stream" -> {"ok", "cut", "failed"}
    [] OTHER -> {"ok", "failed"}

\* What handle sends then: SendStream has streamed its answer already.
Answers(how) ==
  CASE how = "failed" -> Published({"error"})
    [] how = "ok" /\ msg = "stream" -> {{"streamed"}}
    [] how = "ok" /\ msg # "stream" -> Published({"reply"})
    [] OTHER -> {{}}

\* Mutation of ChatTurnEnds: an error of a stream is returned without sendError.
ChatTurnEndsSilent ==
  /\ pc["chat"] = "turn"
  /\ \E how \in Endings :
       /\ ended' = how
       /\ IF msg = "compact" /\ how = "ok"
          THEN Goto("chat", "flush") /\ UNCHANGED <<readers, uses, outcome>>
          ELSE Reply(IF msg = "stream" /\ how = "failed" THEN {{}} ELSE Answers(how))
  /\ UNCHANGED <<gwVars, rtVars, writer, gen, msg, received, reloadVars, failures>>

\* Mutation of ChatTurnEnds: a failed stream falls through to the sync path.
ChatTurnEndsTwice ==
  /\ pc["chat"] = "turn" /\ msg \in {"sync", "stream"}
  /\ \E how \in Endings :
       /\ ended' = how
       /\ Reply(IF msg = "stream" /\ how = "failed" THEN {{"error", "reply"}} ELSE Answers(how))
  /\ UNCHANGED <<gwVars, rtVars, writer, gen, msg, received, reloadVars, failures>>

\* runStream and runSync, and the error path of handle. A summary of /compact goes on to
\* the flush.
ChatTurnEnds ==
  /\ pc["chat"] = "turn"
  /\ \E how \in Endings :
       /\ ended' = how
       /\ IF msg = "compact" /\ how = "ok"
          THEN Goto("chat", "flush") /\ UNCHANGED <<readers, uses, outcome>>
          ELSE Reply(Answers(how))
  /\ UNCHANGED <<gwVars, rtVars, writer, gen, msg, received, reloadVars, failures>>

\* preCompactFlush: RunTurn from inside handle, a second read lock.
Flush ==
  /\ pc["chat"] = "flush"
  /\ RLock("chat")
  /\ Goto("chat", "flushing")
  /\ UNCHANGED <<gwVars, rtVars, writer, uses, chatVars, reloadVars, failures>>

FlushEnds ==
  /\ pc["chat"] = "flushing"
  /\ RUnlock("chat")
  /\ Goto("chat", "rotate")
  /\ UNCHANGED <<gwVars, rtVars, writer, uses, chatVars, reloadVars, failures>>

\* Rotate and seed (Session models them), then the acknowledgement or the error.
Rotate ==
  /\ pc["chat"] = "rotate"
  /\ ended' \in {"ok", "failed"}
  /\ Reply(Published(IF ended' = "ok" THEN {"reply"} ELSE {"error"}))
  /\ UNCHANGED <<gwVars, rtVars, writer, gen, msg, received, reloadVars, failures>>

-----------------------------------------------------------------------------
(* Automation turns and the streams of the web channel *)

TriggerFires(a) ==
  /\ a \in on /\ pc[a] = "idle"
  /\ Goto(a, "rlock")
  /\ UNCHANGED <<gwVars, rtVars, writer, readers, uses, chatVars, reloadVars, failures>>

\* Mutation of RunTurnEnds: a turn that fails keeps its read lock.
RunTurnEndsLocked(a) ==
  /\ pc[a] = "turn"
  /\ RUnlock(a) \/ UNCHANGED readers
  /\ uses' = [uses EXCEPT ![a] = 0]
  /\ Goto(a, "idle")
  /\ UNCHANGED <<gwVars, rtVars, writer, chatVars, reloadVars, failures>>

RunTurnEnds(a) ==
  /\ pc[a] = "turn"
  /\ RUnlock(a)
  /\ uses' = [uses EXCEPT ![a] = 0]
  /\ Goto(a, "idle")
  /\ UNCHANGED <<gwVars, rtVars, writer, chatVars, reloadVars, failures>>

ViewerOpens(v) ==
  /\ webUp /\ pc[v] = "idle"
  /\ Goto(v, "rlock")
  /\ UNCHANGED <<gwVars, rtVars, writer, readers, uses, chatVars, reloadVars, failures>>

\* Mutation of StreamOpens: the error path unlocks before the deferred unlock does.
StreamOpensTwice(v) ==
  /\ pc[v] = "turn"
  /\ \/ /\ uses[v] # 0 /\ RUnlock(v)
        /\ Goto(v, "stream") /\ UNCHANGED uses
     \/ /\ readers' = [readers EXCEPT ![v] = @ - 2]
        /\ Goto(v, "idle") /\ uses' = [uses EXCEPT ![v] = 0]
  /\ UNCHANGED <<gwVars, rtVars, writer, chatVars, reloadVars, failures>>

\* RunStream returns the channel, or fails, and lets go of the lock either way.
StreamOpens(v) ==
  /\ pc[v] = "turn"
  /\ RUnlock(v)
  /\ \/ uses[v] # 0 /\ Goto(v, "stream") /\ UNCHANGED uses
     \/ Goto(v, "idle") /\ uses' = [uses EXCEPT ![v] = 0]
  /\ UNCHANGED <<gwVars, rtVars, writer, chatVars, reloadVars, failures>>

StreamEnds(v) ==
  /\ pc[v] = "stream"
  /\ uses' = [uses EXCEPT ![v] = 0]
  /\ Goto(v, "idle")
  /\ UNCHANGED <<gwVars, rtVars, writer, readers, chatVars, reloadVars, failures>>

-----------------------------------------------------------------------------
(* Requests for a reload *)

EditFile ==
  /\ fileVer < MaxEdits
  /\ fileVer' = fileVer + 1
  /\ UNCHANGED <<gwVars, rtVars, writer, actorVars, tokens, armed, asked, loaded, failures>>

\* WatchConfigPath: a save of config.json (re)arms the debounce timer.
SaveConfig ==
  /\ fileVer < MaxEdits /\ ~first /\ ~ctxDone
  /\ fileVer' = fileVer + 1 /\ asked' = fileVer + 1
  /\ armed' = TRUE
  /\ UNCHANGED <<gwVars, rtVars, writer, actorVars, tokens, loaded, failures>>

Debounced ==
  /\ armed
  /\ armed' = FALSE /\ tokens' = tokens \cup {"watch"}
  /\ UNCHANGED <<gwVars, rtVars, writer, actorVars, fileVer, asked, loaded, failures>>

-----------------------------------------------------------------------------
(* Gateway.Run: reloadFromConfig and Apply *)

\* An initial Apply that fails ends Run; a failed reload is logged.
AfterFailure == IF first THEN "down" ELSE "idle"

\* LoadConfig, then the checks of Apply that come before it touches anything.
Reload(t) ==
  /\ gpc = "idle" /\ t \in tokens /\ built < MaxRuntimes
  /\ tokens' = tokens \ {t}
  /\ loaded' = fileVer
  /\ \/ gpc' = "stop" /\ UNCHANGED failures
     \/ Fails /\ UNCHANGED gpc
  /\ UNCHANGED <<first, on, ctxDone, webUp, rtVars, writer, actorVars, armed, fileVer, asked>>

\* The waited-for triggers that were told to stop are quiet.
Quiet == \A u \in Triggers \ on : pc[u] = "idle"

\* stopTriggers, one trigger after the other.
StopTrigger(t) ==
  /\ gpc \in {"stop", "shutStop"} /\ t \in on /\ Quiet
  /\ on' = on \ {t}
  /\ UNCHANGED <<gpc, first, ctxDone, webUp, rtVars, writer, actorVars, reloadVars, failures>>

\* The system prompt, the slash registry and the runtime of this Apply.
BuildRuntime ==
  /\ gpc = "stop" /\ on = {} /\ Quiet
  /\ \/ built' = built + 1 /\ gpc' = "channels" /\ UNCHANGED failures
     \/ Fails /\ gpc' = AfterFailure /\ UNCHANGED built
  /\ UNCHANGED <<first, on, ctxDone, webUp, rt, slashGen, old, closed, writer, actorVars, reloadVars>>

\* ChannelManager.Apply: a bad config stops nothing; otherwise every old channel is
\* stopped. The web channel's Stop gives up on open requests after five seconds.
StopChannels ==
  /\ gpc = "channels"
  /\ \/ gpc' = "start" /\ webUp' = FALSE /\ UNCHANGED <<closed, failures>>
     \/ /\ Fails /\ gpc' = AfterFailure
        /\ closed' = closed \cup {built} /\ UNCHANGED webUp
  /\ UNCHANGED <<first, on, ctxDone, rt, slashGen, built, old, writer, actorVars, reloadVars>>

\* startAll: the web channel listens as soon as its Start ran, while the others start.
WebListens ==
  /\ gpc = "start" /\ ~webUp
  /\ webUp' = TRUE
  /\ UNCHANGED <<gpc, first, on, ctxDone, rtVars, writer, actorVars, reloadVars, failures>>

\* Mutation of StartChannels: the runtime of a failed Apply is not closed.
StartChannelsLeaks ==
  /\ gpc = "start"
  /\ \/ webUp /\ gpc' = "lock" /\ writer' = "waiting" /\ UNCHANGED failures
     \/ Fails /\ gpc' = AfterFailure /\ UNCHANGED writer
  /\ UNCHANGED <<first, on, ctxDone, webUp, rtVars, actorVars, reloadVars>>

\* All channels are up and turnMu.Lock is called; or one did not start and Apply
\* closes the runtime it built.
StartChannels ==
  /\ gpc = "start"
  /\ \/ webUp /\ gpc' = "lock" /\ writer' = "waiting" /\ UNCHANGED <<closed, failures>>
     \/ /\ Fails /\ gpc' = AfterFailure
        /\ closed' = closed \cup {built} /\ UNCHANGED writer
  /\ UNCHANGED <<first, on, ctxDone, webUp, rt, slashGen, built, old, actorVars, reloadVars>>

\* Mutation of Drained: only the inbound loop is drained.
DrainedChat == readers["chat"] = 0

Drained == \A a \in Actors : readers[a] = 0
\* Mutation of Swap: the registry is stored before the drain.
SwapSlashEarly ==
  /\ gpc = "lock"
  /\ slashGen' = built
  /\ IF Drained THEN old' = rt /\ rt' = built /\ writer' = "none" /\ gpc' = "close"
     ELSE UNCHANGED <<old, rt, writer, gpc>>
  /\ UNCHANGED <<first, on, ctxDone, webUp, built, closed, actorVars, reloadVars, failures>>

\* Under the write lock: runtime, workspace and slash registry change together.
Swap ==
  /\ gpc = "lock" /\ Drained
  /\ old' = rt /\ rt' = built /\ slashGen' = built
  /\ writer' = "none" /\ gpc' = "close"
  /\ UNCHANGED <<first, on, ctxDone, webUp, built, closed, actorVars, reloadVars, failures>>

CloseOld ==
  /\ gpc = "close"
  /\ closed' = closed \cup ({old} \ {0}) /\ old' = 0
  /\ gpc' = "triggers"
  /\ UNCHANGED <<first, on, ctxDone, webUp, rt, slashGen, built, writer, actorVars, reloadVars, failures>>

\* Mutation of StartTriggers: requests that came in meanwhile are taken as served.
StartTriggersDrains ==
  /\ gpc = "triggers"
  /\ on' = Automation /\ tokens' = {}
  /\ first' = FALSE /\ gpc' = "idle"
  /\ IF first THEN Goto("chat", "idle") ELSE UNCHANGED pc
  /\ UNCHANGED <<ctxDone, webUp, rtVars, writer, readers, uses, chatVars, armed, fileVer, asked,
                 loaded, failures>>

\* startTriggers (no trigger of the program fails to start); the first time, Run
\* goes on to start the inbound loop.
StartTriggers ==
  /\ gpc = "triggers"
  /\ on' = Automation
  /\ first' = FALSE /\ gpc' = "idle"
  /\ IF first THEN Goto("chat", "idle") ELSE UNCHANGED pc
  /\ UNCHANGED <<ctxDone, webUp, rtVars, writer, readers, uses, chatVars, reloadVars, failures>>

-----------------------------------------------------------------------------
(* Shutdown, in the goroutine of Run *)

\* The ctx given to Run may end at any time, a signal is seen between reloads.
CtxEnds ==
  /\ ~ctxDone /\ gpc # "down"
  /\ ctxDone' = TRUE
  /\ UNCHANGED <<gpc, first, on, webUp, rtVars, writer, actorVars, reloadVars, failures>>

Shutdown ==
  /\ gpc = "idle"
  /\ ctxDone' = TRUE /\ gpc' = "shutStop"
  /\ UNCHANGED <<first, on, webUp, rtVars, writer, actorVars, reloadVars, failures>>

\* Mutation of WaitPipe: Shutdown does not wait for the inbound loop.
WaitPipeNot ==
  /\ gpc = "shutStop" /\ on = {} /\ Quiet
  /\ webUp' = FALSE /\ writer' = "waiting" /\ gpc' = "take"
  /\ UNCHANGED <<first, on, ctxDone, rtVars, actorVars, reloadVars, failures>>

\* stopTriggers is done, pipeWg.Wait returns, the channels are stopped and
\* TakeRuntimeForShutdown calls Lock.
WaitPipe ==
  /\ gpc = "shutStop" /\ on = {} /\ Quiet
  /\ pc["chat"] = "exit"
  /\ webUp' = FALSE /\ writer' = "waiting" /\ gpc' = "take"
  /\ UNCHANGED <<first, on, ctxDone, rtVars, actorVars, reloadVars, failures>>

TakeRuntimeForShutdown ==
  /\ gpc = "take" /\ Drained
  /\ old' = rt /\ rt' = 0 /\ writer' = "none" /\ gpc' = "shutClose"
  /\ UNCHANGED <<first, on, ctxDone, webUp, slashGen, built, closed, actorVars, reloadVars, failures>>

CloseLast ==
  /\ gpc = "shutClose"
  /\ closed' = closed \cup ({old} \ {0}) /\ old' = 0
  /\ gpc' = "down"
  /\ UNCHANGED <<first, on, ctxDone, webUp, rt, slashGen, built, writer, actorVars, reloadVars, failures>>

-----------------------------------------------------------------------------
ChatStep == TakeTurn("chat") \/ Slash \/ ChatTurnEnds \/ Flush \/ FlushEnds \/ Rotate
ApplyStep ==
  \/ \E t \in Automation : StopTrigger(t)
  \/ BuildRuntime \/ StopChannels \/ WebListens \/ StartChannels \/ Swap \/ CloseOld \/ StartTriggers
ShutdownStep == WaitPipe \/ TakeRuntimeForShutdown \/ CloseLast
TurnStep(a) == TakeTurn(a) \/ RunTurnEnds(a)
StreamStep(v) == TakeTurn(v) \/ StreamOpens(v) \/ StreamEnds(v)

Next ==
  \/ \E k \in Kinds : Receive(k)
  \/ ChatStep \/ LoopExit
  \/ \E a \in Automation : TriggerFires(a) \/ TurnStep(a)
  \/ \E v \in Viewers : ViewerOpens(v) \/ StreamStep(v)
  \/ EditFile \/ SaveConfig \/ Debounced
  \/ \E t \in {"manual", "watch"} : Reload(t)
  \/ ApplyStep \/ CtxEnds \/ Shutdown \/ ShutdownStep

Spec == Init /\ [][Next]_vars

(* Turns are bounded by the runtime and every goroutine is scheduled; a      *)
(* blocked reader gets in when the lock is free. Streams end when the client *)
(* likes, and messages, edits and signals are owed by nobody; what the loop  *)
(* of Run can see it sooner or later acts on.                                *)
FairSpec ==
  /\ Spec
  /\ WF_vars(ChatStep) /\ WF_vars(LoopExit) /\ WF_vars(Debounced)
  /\ \A a \in Automation : WF_vars(TurnStep(a))
  /\ \A v \in Viewers : WF_vars(TakeTurn(v)) /\ WF_vars(StreamOpens(v))
  /\ \A t \in {"manual", "watch"} : WF_vars(Reload(t))
  /\ WF_vars(ApplyStep) /\ WF_vars(ShutdownStep)
  /\ WF_vars(ctxDone /\ Shutdown)
-----------------------------------------------------------------------------
TypeOK ==
  /\ gpc \in {"idle", "stop", "channels", "start", "lock", "close", "triggers",
              "shutStop", "take", "shutClose", "down"}
  /\ first \in BOOLEAN /\ on \subseteq Automation /\ ctxDone \in BOOLEAN /\ webUp \in BOOLEAN
  /\ built \in 0..MaxRuntimes /\ {rt, slashGen, old, gen} \subseteq 0..built
  /\ closed \subseteq 1..built
  /\ writer \in {"none", "waiting"}
  /\ readers \in [Actors -> 0..2] /\ uses \in [Actors -> 0..built]
  /\ pc \in [Actors -> {"off", "idle", "rlock", "slash", "turn", "flush", "flushing", "rotate",
                        "stream", "exit"}]
  /\ msg \in AllKinds \cup {"none"} /\ received \in 0..MaxMessages
  /\ ended \in {"none", "ok", "empty", "cut", "failed"}
  /\ outcome \subseteq {"reply", "error", "streamed"}
  /\ tokens \subseteq {"manual", "watch"} /\ armed \in BOOLEAN
  /\ {fileVer, asked, loaded} \subseteq 0..MaxEdits /\ failures \in 0..MaxFailures

(* Pipeline's "drain-safe reload": whoever is inside turnMu.RLock works    *)
(* with the runtime that is current, and no reload closes it under him.    *)
LockedTurnsKeepTheirRuntime ==
  \A a \in Actors : readers[a] > 0 => uses[a] = rt /\ uses[a] \notin closed

(* A turn runs the slash commands and the runtime of the same Apply,       *)
(* however reloads fall between its steps.                                 *)
TurnIsOfOneApply == gen # 0 /\ readers["chat"] > 0 => gen = uses["chat"]

(* A chat, cron or heartbeat turn never meets the nil runtime, neither     *)
(* before the first Apply nor after TakeRuntimeForShutdown.                *)
TurnsHaveARuntime == \A a \in {"chat"} \cup Triggers : readers[a] > 0 => uses[a] # 0

(* So a turn that holds the lock has a runtime, the current one, open.     *)
TurnsKeepTheirRuntime == LockedTurnsKeepTheirRuntime /\ TurnsHaveARuntime

(* Every runtime that was built is closed, whichever step of Apply failed, *)
(* none while it is current and none twice.                                *)
RuntimesAreClosedOnce ==
  /\ rt \notin closed /\ (old # 0 => old \notin closed)
  /\ gpc = "idle" => (1..built) \ closed = {rt}
  /\ gpc = "down" => closed = 1..built

(* One message, one answer: no message is answered twice, a failed stream  *)
(* by its error and not by the sync path as well, and no path of handle    *)
(* returns in silence but these: the reply of a sync turn is empty, a      *)
(* stream ended in context.Canceled or DeadlineExceeded ("Streaming errors *)
(* that aren't", docs/concepts/pipeline.md:144, are answered), or the ctx  *)
(* of Run ended while the answer waited for the bus.                       *)
OneAnswer ==
  /\ Cardinality(outcome) <= 1
  /\ ended = "failed" => outcome \subseteq {"error"}
  /\ ended \in {"empty", "cut"} => outcome = {}
  /\ received > 0 /\ pc["chat"] \in {"idle", "exit"} /\ outcome = {} =>
       ended \in {"empty", "cut"} \/ ctxDone

(* "in-flight chat turns drain first": an Apply gets its write lock and    *)
(* ends, whatever turns are in flight when it asks for it.                 *)
ApplyReturns == gpc \notin {"idle", "down"} ~> gpc \in {"idle", "down"}

(* The one turn that is not drained: the flush of /compact waits for a     *)
(* second read lock, the writer for the first one to be given back.        *)
FlushLocksUp == pc["chat"] = "flush" /\ writer = "waiting"

(* Every other turn is drained, on whichever path Apply, reload or         *)
(* Shutdown wait for it.                                                   *)
ApplyReturnsUnlessFlushing ==
  gpc \notin {"idle", "down"} ~> (gpc \in {"idle", "down"} \/ FlushLocksUp)

(* After a signal, or the end of its ctx, Run returns.                     *)
ShutdownReturns == ctxDone ~> (gpc = "down" \/ FlushLocksUp)

(* A reload that was asked for, even during another reload or debounce,    *)
(* reads files at least as new as those the request was about.             *)
RequestedFilesAreRead ==
  asked > loaded ~> (loaded >= asked \/ ctxDone \/ built = MaxRuntimes \/ FlushLocksUp)

(* "RunTurn / RunStream take a read lock for the entire turn": the runtime *)
(* of an open stream is not closed.                                        *)
StreamsKeepTheirRuntime == \A v \in Viewers : uses[v] \notin closed

(* "rt may be nil only in tests that never run handles or RunTurn."        *)
NobodySeesNil == \A a \in Actors : readers[a] > 0 => uses[a] # 0

(* "A failed reload ... keeps the previous config running", its triggers   *)
(* included.                                                               *)
FailedReloadKeepsTriggers == gpc = "idle" => on = Automation
=============================================================================
