---------------------------- MODULE GatewayProofs ----------------------------
(***************************************************************************)
(* Proofs about Gateway, for all triggers, viewers and bounds: who holds   *)
(* turnMu works with the open, current runtime, and no runtime is lost.    *)
(***************************************************************************)
EXTENDS Gateway, FiniteSetTheorems, TLAPS

\* handle, RunTurn and RunStream: the read locks an actor holds at each place of its code.
Held(a, l) ==
  CASE l \in {"slash", "turn", "flush", "rotate"} -> 1
    [] l = "flushing" -> 2
    [] OTHER -> 0

\* Where an actor can be at all.
Places(a) ==
  CASE a = "chat" -> {"off", "idle", "rlock", "slash", "turn", "flush", "flushing", "rotate", "exit"}
    [] a \in Automation -> {"idle", "rlock", "turn"}
    [] OTHER -> {"idle", "rlock", "turn", "stream"}

\* Read locks go with the code an actor is in, and rt cannot change under one.
LockInv ==
  /\ \A a \in Actors : pc[a] \in Places(a) /\ readers[a] = Held(a, pc[a])
  /\ \A a \in Actors : readers[a] > 0 => uses[a] = rt

\* Apply between BuildRuntime and Swap: the runtime it built is nobody else's yet.
Building == gpc \in {"channels", "start", "lock"}

\* The runtimes that are open: the current one, the one taken out and the one being put in.
Open == ({rt, old} \cup (IF Building THEN {built} ELSE {})) \ {0}

\* Every runtime is open under exactly one name, or closed.
RuntimeInv ==
  /\ (1..built) \ closed = Open
  /\ old # 0 => old # rt
  /\ Building => rt < built /\ old < built
  /\ old # 0 => gpc \in {"close", "shutClose"}
  /\ gpc = "stop" => built < MaxRuntimes

\* When there is no runtime, and that nobody who needs one runs then.
PhaseInv ==
  /\ first => pc["chat"] = "off" /\ gpc \in {"stop", "channels", "start", "lock", "close", "triggers", "down"}
  /\ first /\ gpc \notin {"close", "triggers"} => rt = 0
  /\ ~first /\ gpc \notin {"shutClose", "down"} => rt # 0
  /\ gpc \in {"close", "triggers"} => rt # 0
  /\ gpc \in {"shutClose", "down"} => rt = 0
  /\ rt = 0 \/ gpc = "take" =>
       pc["chat"] \in {"off", "exit"} /\ on = {} /\ \A t \in Triggers : pc[t] = "idle"

\* The registry and the runtime are swapped together.
SlashInv ==
  /\ rt # 0 => slashGen = rt
  /\ pc["chat"] = "rlock" => gen = 0
  /\ TurnIsOfOneApply

GatewayInv == TypeOK /\ LockInv /\ RuntimeInv /\ PhaseInv /\ SlashInv

\* Gateway.Run starts with nothing built and nobody in.
LEMMA InitInv == Init => GatewayInv
<1> SUFFICES ASSUME Init PROVE GatewayInv
  OBVIOUS
<1> USE GatewayAssumption DEF Init, Actors, Turners, Automation
<1>1. TypeOK
  <2>1. /\ readers \in [Actors -> 0..2] /\ uses \in [Actors -> 0..built]
        /\ pc \in [Actors -> {"off", "idle", "rlock", "slash", "turn", "flush", "flushing", "rotate",
                              "stream", "exit"}]
    OBVIOUS
  <2>2. /\ built \in 0..MaxRuntimes /\ {rt, slashGen, old, gen} \subseteq 0..built
        /\ {fileVer, asked, loaded} \subseteq 0..MaxEdits /\ failures \in 0..MaxFailures
        /\ received \in 0..MaxMessages
    OBVIOUS
  <2> QED
    BY <2>1, <2>2 DEF TypeOK
<1>2. LockInv
  BY DEF LockInv, Held, Places
<1>3. RuntimeInv
  BY DEF RuntimeInv, Building, Open
<1>4. PhaseInv /\ SlashInv
  BY DEF PhaseInv, SlashInv, TurnIsOfOneApply
<1> QED
  BY <1>1, <1>2, <1>3, <1>4 DEF GatewayInv

\* What handle sends after a turn, and how the turn ended.
LEMMA AnswersAreKnown ==
  /\ Endings \subseteq {"ok", "empty", "cut", "failed"}
  /\ \A how \in Endings : /\ Answers(how) \subseteq {{}, {"reply"}, {"error"}, {"streamed"}}
                          /\ how = "failed" => Answers(how) \subseteq {{}, {"error"}}
                          /\ how \in {"empty", "cut"} => Answers(how) = {{}}
                          /\ {} \in Answers(how) => how \in {"empty", "cut"} \/ ctxDone
  BY DEF Endings, Answers, Published

\* A step of Run that leaves the runtimes and the turns alone is well typed when what it changes is.
LEMMA TypeFrame ==
  ASSUME TypeOK, first' \in BOOLEAN, on' \subseteq Automation, ctxDone' \in BOOLEAN, armed' \in BOOLEAN,
         webUp' \in BOOLEAN, writer' \in {"none", "waiting"},
         gpc' \in {"idle", "stop", "channels", "start", "lock", "close", "triggers", "shutStop", "take",
                  "shutClose", "down"},
         pc' \in [Actors -> {"off", "idle", "rlock", "slash", "turn", "flush", "flushing", "rotate",
                            "stream", "exit"}],
         tokens' \subseteq {"manual", "watch"},
         UNCHANGED <<rt, slashGen, built, closed, old, readers, uses, gen, msg, ended, received,
                     outcome, fileVer, asked, loaded, failures>>
  PROVE  TypeOK'
<1>1. /\ built' \in 0..MaxRuntimes /\ {rt', slashGen', old', gen'} \subseteq 0..built'
      /\ closed' \subseteq 1..built' /\ writer' \in {"none", "waiting"}
      /\ readers' \in [Actors -> 0..2] /\ uses' \in [Actors -> 0..built']
  BY DEF TypeOK
<1>2. /\ msg' \in AllKinds \cup {"none"} /\ received' \in 0..MaxMessages
      /\ ended' \in {"none", "ok", "empty", "cut", "failed"}
      /\ outcome' \subseteq {"reply", "error", "streamed"}
  BY DEF TypeOK
<1>3. {fileVer', asked', loaded'} \subseteq 0..MaxEdits /\ failures' \in 0..MaxFailures
  BY DEF TypeOK
<1> QED BY <1>1, <1>2, <1>3 DEF TypeOK

\* Every step of every goroutine keeps the invariant.
LEMMA NextInv == GatewayInv /\ [Next]_vars => GatewayInv'
<1> SUFFICES ASSUME GatewayInv, [Next]_vars PROVE GatewayInv'
  OBVIOUS
<1> USE GatewayAssumption DEF GatewayInv, TypeOK, LockInv, RuntimeInv, PhaseInv, SlashInv,
        TurnIsOfOneApply, Held, Places, Building, Open, Actors, Turners, Automation, AllKinds,
        Goto, RLock, RUnlock, Reply, Published, Fails, AfterFailure, Quiet, Drained,
        gwVars, rtVars, chatVars, actorVars, reloadVars
<1>1. CASE Slash
  BY <1>1 DEF Slash
<1>2. CASE ChatTurnEnds
  BY <1>2, AnswersAreKnown DEF ChatTurnEnds
<1>3. CASE Flush
  BY <1>3 DEF Flush
<1>4. CASE FlushEnds
  BY <1>4 DEF FlushEnds
<1>5. CASE Rotate
  BY <1>5 DEF Rotate
<1>6. CASE LoopExit
  BY <1>6 DEF LoopExit
<1>7. CASE EditFile
  BY <1>7 DEF EditFile
<1>8. CASE SaveConfig
  BY <1>8 DEF SaveConfig
<1>9. CASE Debounced
  <2>1. TypeOK'
    BY <1>9, TypeFrame DEF Debounced
  <2>2. LockInv'
    BY <1>9 DEF Debounced
  <2>3. RuntimeInv'
    BY <1>9 DEF Debounced
  <2>4. PhaseInv'
    BY <1>9 DEF Debounced
  <2>5. SlashInv'
    BY <1>9 DEF Debounced
  <2> QED
    BY <2>1, <2>2, <2>3, <2>4, <2>5
<1>10. CASE BuildRuntime
  BY <1>10 DEF BuildRuntime
<1>11. CASE StopChannels
  <2>1. TypeOK'
    <3>1. closed' \subseteq 1..built'
      BY <1>11 DEF StopChannels
    <3>2. gpc' \in {"start", "down", "idle"} /\ failures' \in 0..MaxFailures
      BY <1>11 DEF StopChannels
    <3>3. webUp' \in BOOLEAN
      BY <1>11 DEF StopChannels
    <3>4. UNCHANGED <<first, on, ctxDone, rt, slashGen, built, old, writer, gen, readers, uses,
                      pc, msg, ended, received, outcome, tokens, armed, fileVer, asked, loaded>>
      BY <1>11 DEF StopChannels
    <3> QED
      BY <3>1, <3>2, <3>3, <3>4
  <2>2. LockInv'
    BY <1>11 DEF StopChannels
  <2>3. RuntimeInv'
    BY <1>11 DEF StopChannels
  <2>4. PhaseInv'
    BY <1>11 DEF StopChannels
  <2>5. SlashInv'
    BY <1>11 DEF StopChannels
  <2> QED
    BY <2>1, <2>2, <2>3, <2>4, <2>5
<1>12. CASE WebListens
  BY <1>12 DEF WebListens
<1>13. CASE StartChannels
  BY <1>13 DEF StartChannels
<1>14. CASE Swap
  BY <1>14 DEF Swap
<1>15. CASE CloseOld
  BY <1>15 DEF CloseOld
<1>16. CASE StartTriggers
  <2>1. TypeOK'
    <3>1. pc' \in [Actors -> {"off", "idle", "rlock", "slash", "turn", "flush", "flushing",
                              "rotate", "stream", "exit"}]
      BY <1>16 DEF StartTriggers
    <3> QED
      BY <1>16, <3>1, TypeFrame DEF StartTriggers
  <2>2. LockInv'
    BY <1>16 DEF StartTriggers
  <2>3. RuntimeInv'
    BY <1>16 DEF StartTriggers
  <2>4. PhaseInv'
    BY <1>16 DEF StartTriggers
  <2>5. SlashInv'
    BY <1>16 DEF StartTriggers
  <2> QED
    BY <2>1, <2>2, <2>3, <2>4, <2>5
<1>17. CASE CtxEnds
  <2>1. TypeOK'
    BY <1>17, TypeFrame DEF CtxEnds
  <2>2. LockInv'
    BY <1>17 DEF CtxEnds
  <2>3. RuntimeInv'
    BY <1>17 DEF CtxEnds
  <2>4. PhaseInv'
    BY <1>17 DEF CtxEnds
  <2>5. SlashInv'
    BY <1>17 DEF CtxEnds
  <2> QED
    BY <2>1, <2>2, <2>3, <2>4, <2>5
<1>18. CASE Shutdown
  <2>1. TypeOK'
    BY <1>18, TypeFrame DEF Shutdown
  <2>2. LockInv' /\ RuntimeInv'
    BY <1>18 DEF Shutdown
  <2>3. PhaseInv' /\ SlashInv'
    BY <1>18 DEF Shutdown
  <2> QED
    BY <2>1, <2>2, <2>3
<1>19. CASE WaitPipe
  <2>1. TypeOK'
    BY <1>19, TypeFrame DEF WaitPipe
  <2>2. LockInv' /\ RuntimeInv'
    BY <1>19 DEF WaitPipe
  <2>3. PhaseInv' /\ SlashInv'
    BY <1>19 DEF WaitPipe
  <2> QED
    BY <2>1, <2>2, <2>3
<1>20. CASE TakeRuntimeForShutdown
  BY <1>20 DEF TakeRuntimeForShutdown
<1>21. CASE CloseLast
  BY <1>21 DEF CloseLast
<1>22. ASSUME NEW k \in Kinds, Receive(k) PROVE GatewayInv'
  BY <1>22 DEF Receive
<1>23. ASSUME NEW a \in Actors, TakeTurn(a) PROVE GatewayInv'
  BY <1>23 DEF TakeTurn
<1>24. ASSUME NEW a \in Automation, TriggerFires(a) PROVE GatewayInv'
  BY <1>24 DEF TriggerFires
<1>25. ASSUME NEW a \in Automation, RunTurnEnds(a) PROVE GatewayInv'
  BY <1>25 DEF RunTurnEnds
<1>26. ASSUME NEW v \in Viewers, ViewerOpens(v) PROVE GatewayInv'
  BY <1>26 DEF ViewerOpens
<1>27. ASSUME NEW v \in Viewers, StreamOpens(v) PROVE GatewayInv'
  BY <1>27 DEF StreamOpens
<1>28. ASSUME NEW v \in Viewers, StreamEnds(v) PROVE GatewayInv'
  BY <1>28 DEF StreamEnds
<1>29. ASSUME NEW t \in {"manual", "watch"}, Reload(t) PROVE GatewayInv'
  BY <1>29 DEF Reload
<1>30. ASSUME NEW t \in Automation, StopTrigger(t) PROVE GatewayInv'
  BY <1>30 DEF StopTrigger
<1>31. CASE UNCHANGED vars
  BY <1>31 DEF vars
<1>32. "chat" \in Actors /\ Automation \subseteq Actors /\ Viewers \subseteq Actors
  OBVIOUS
<1> HIDE DEF GatewayInv, TypeOK, LockInv, RuntimeInv, PhaseInv, SlashInv, Actors, Automation
<1>33. CASE ChatStep
  BY <1>1, <1>2, <1>3, <1>4, <1>5, <1>23, <1>32, <1>33 DEF ChatStep
<1>34. CASE ApplyStep
  BY <1>10, <1>11, <1>12, <1>13, <1>14, <1>15, <1>16, <1>30, <1>34 DEF ApplyStep
<1>35. CASE ShutdownStep
  BY <1>19, <1>20, <1>21, <1>35 DEF ShutdownStep
<1>36. ASSUME NEW a \in Automation, TriggerFires(a) \/ TurnStep(a) PROVE GatewayInv'
  BY <1>23, <1>24, <1>25, <1>32, <1>36 DEF TurnStep
<1>37. ASSUME NEW v \in Viewers, ViewerOpens(v) \/ StreamStep(v) PROVE GatewayInv'
  BY <1>23, <1>26, <1>27, <1>28, <1>32, <1>37 DEF StreamStep
<1> QED
  BY <1>6, <1>7, <1>8, <1>9, <1>17, <1>18, <1>22, <1>29, <1>31, <1>33, <1>34, <1>35, <1>36, <1>37 DEF Next

\* So the invariant holds all the way.
LEMMA AlwaysInv == Spec => []GatewayInv
  BY InitInv, NextInv, PTL DEF Spec

\* Gateway.Run, Apply and Shutdown, the inbound loop, triggers and streams stay well typed.
THEOREM TypeCorrect == Spec => []TypeOK
<1>1. GatewayInv => TypeOK
  BY DEF GatewayInv
<1> QED
  BY <1>1, AlwaysInv, PTL

\* turnMu: a chat, cron, heartbeat or consolidation turn works with the current runtime while it
\* holds the lock, nobody closes it under the turn, and a chat, cron or heartbeat turn has one.
THEOREM DrainSafe == Spec => []TurnsKeepTheirRuntime
<1>1. GatewayInv => TurnsKeepTheirRuntime
  <2> SUFFICES ASSUME GatewayInv, NEW a \in Actors, readers[a] > 0
               PROVE /\ uses[a] = rt /\ uses[a] \notin closed
                     /\ a \in {"chat"} \cup Triggers => uses[a] # 0
    BY DEF TurnsKeepTheirRuntime, LockedTurnsKeepTheirRuntime, TurnsHaveARuntime,
       Actors, Turners, Automation
  <2>1. uses[a] = rt
    BY DEF GatewayInv, LockInv
  <2>2. rt \notin closed
    BY DEF GatewayInv, TypeOK, RuntimeInv, Open
  <2>3. a \in {"chat"} \cup Triggers => rt # 0
    BY DEF GatewayInv, LockInv, PhaseInv, Held
  <2> QED
    BY <2>1, <2>2, <2>3
<1> QED
  BY <1>1, AlwaysInv, PTL

\* handle: the slash registry and the runtime a message meets were built by the same Apply.
THEOREM OneApplyPerTurn == Spec => []TurnIsOfOneApply
<1>1. GatewayInv => TurnIsOfOneApply
  BY DEF GatewayInv, SlashInv
<1> QED
  BY <1>1, AlwaysInv, PTL

\* Apply, its error paths, Reload and Shutdown: no runtime leaks and none is closed while current.
THEOREM NoRuntimeLeaks == Spec => []RuntimesAreClosedOnce
<1>1. GatewayInv => RuntimesAreClosedOnce
  <2> SUFFICES ASSUME GatewayInv PROVE RuntimesAreClosedOnce
    OBVIOUS
  <2> USE DEF GatewayInv, TypeOK, RuntimeInv, PhaseInv, Open, Building
  <2>1. rt \notin closed /\ (old # 0 => old \notin closed)
    OBVIOUS
  <2>2. ASSUME gpc = "idle" PROVE (1..built) \ closed = {rt}
    BY <2>2
  <2>3. ASSUME gpc = "down" PROVE closed = 1..built
    BY <2>3
  <2> QED
    BY <2>1, <2>2, <2>3 DEF RuntimesAreClosedOnce
<1> QED
  BY <1>1, AlwaysInv, PTL

-----------------------------------------------------------------------------
\* Where handle is between the receipt of a message and its answer.
Unanswered == pc["chat"] \in {"rlock", "slash", "turn", "flush", "flushing", "rotate"}

\* A message has no outcome before the step that ends its handle, and from then on one, or
\* none with a reason.
AnswerInv ==
  /\ Unanswered => outcome = {}
  /\ pc["chat"] \in {"rlock", "slash"} => ended = "none"
  /\ \E o : outcome \in {{}, {o}}
  /\ ended = "failed" => outcome \subseteq {"error"}
  /\ ended \in {"empty", "cut"} => outcome = {}
  /\ received > 0 /\ ~Unanswered /\ outcome = {} => ended \in {"empty", "cut"} \/ ctxDone
  /\ pc["chat"] = "off" => received = 0

\* The end of a handle answers a message that had no answer, or has a reason not to.
LEMMA ReplyAnswers ==
  ASSUME TypeOK, AnswerInv, Unanswered, UNCHANGED received, NEW outs, Reply(outs),
         outs \subseteq {{}, {"reply"}, {"error"}, {"streamed"}},
         ended' = "failed" => outs \subseteq {{}, {"error"}},
         ended' \in {"empty", "cut"} => outs = {{}},
         {} \in outs => ended' \in {"empty", "cut"} \/ ctxDone'
  PROVE  AnswerInv'
<1>0. outcome = {} /\ pc'["chat"] = "idle"
  BY DEF AnswerInv, Reply, Goto, TypeOK, Actors, Turners
<1>1. PICK o \in outs : outcome' = o
  BY <1>0 DEF Reply
<1> QED BY <1>0, <1>1 DEF AnswerInv, Unanswered

\* Every step of every goroutine keeps one answer per message.
LEMMA AnswerStep == GatewayInv /\ AnswerInv /\ [Next]_vars => AnswerInv'
<1> SUFFICES ASSUME GatewayInv, AnswerInv, [Next]_vars PROVE AnswerInv'
  OBVIOUS
<1> USE DEF Goto, Unanswered
<1>i. TypeOK /\ (first => pc["chat"] = "off")
  BY DEF GatewayInv, PhaseInv
<1>t. pc \in [Actors -> {"off", "idle", "rlock", "slash", "turn", "flush", "flushing", "rotate",
                         "stream", "exit"}] /\ "chat" \in Actors /\ received \in Nat
  BY <1>i, GatewayAssumption DEF TypeOK, Actors, Turners
<1>n. pc["chat"] = "slash" => ended = "none"
  BY DEF AnswerInv
<1>a. \A a \in Automation \cup Viewers : a # "chat"
  BY GatewayAssumption DEF Automation
<1>0. ASSUME pc'["chat"] = pc["chat"], UNCHANGED <<ended, outcome, received>>, ctxDone => ctxDone' PROVE AnswerInv'
  BY <1>0 DEF AnswerInv
<1>1. ASSUME NEW k \in Kinds, Receive(k) PROVE AnswerInv'
  BY <1>1, <1>t DEF Receive, Published, AnswerInv, gwVars
<1>2. CASE Slash
  <2>1. UNCHANGED <<received, ended, ctxDone>> /\ pc["chat"] = "slash" /\ ended \notin {"empty", "cut", "failed"}
    BY <1>2, <1>n DEF Slash, gwVars
  <2>2. CASE msg = "bad"
    <3>1. Reply(Published({"error"}))
      BY <1>2, <2>2 DEF Slash
    <3> QED BY <1>i, <2>1, <3>1, ReplyAnswers DEF Published
  <2>3. CASE msg \in {"direct", "reload"}
    <3>1. Reply(Published({"reply"}))
      BY <1>2, <2>3 DEF Slash
    <3> QED BY <1>i, <2>1, <3>1, ReplyAnswers DEF Published
  <2>4. CASE msg \notin {"bad", "direct", "reload"}
    <3>1. pc'["chat"] = "turn" /\ outcome' = outcome
      BY <1>2, <1>t, <2>4 DEF Slash
    <3> QED BY <2>1, <3>1 DEF AnswerInv
  <2> QED BY <2>2, <2>3, <2>4
<1>3. CASE ChatTurnEnds
  <2>1. PICK how \in Endings :
          /\ ended' = how
          /\ IF msg = "compact" /\ how = "ok"
             THEN Goto("chat", "flush") /\ UNCHANGED <<readers, uses, outcome>>
             ELSE Reply(Answers(how))
    BY <1>3 DEF ChatTurnEnds
  <2>2. UNCHANGED <<received, ctxDone>> /\ pc["chat"] = "turn"
    BY <1>3 DEF ChatTurnEnds, gwVars
  <2>3. CASE msg = "compact" /\ how = "ok"
    <3>1. pc'["chat"] = "flush" /\ outcome' = outcome
      BY <1>t, <2>1, <2>3
    <3> QED BY <2>1, <2>2, <2>3, <3>1 DEF AnswerInv
  <2>4. CASE ~(msg = "compact" /\ how = "ok")
    <3>1. Reply(Answers(how))
      BY <2>1, <2>4
    <3> QED BY <1>i, <2>1, <2>2, <3>1, AnswersAreKnown, ReplyAnswers
  <2> QED BY <2>3, <2>4
<1>4. CASE Rotate
  <2>1. /\ UNCHANGED <<received, ctxDone>> /\ pc["chat"] = "rotate" /\ ended' \in {"ok", "failed"}
        /\ Reply(Published(IF ended' = "ok" THEN {"reply"} ELSE {"error"}))
    BY <1>4 DEF Rotate, gwVars
  <2> QED BY <1>i, <2>1, ReplyAnswers DEF Published
<1>5. CASE Flush \/ FlushEnds \/ TakeTurn("chat") \/ LoopExit
  BY <1>5, <1>t DEF Flush, FlushEnds, TakeTurn, LoopExit, AnswerInv, chatVars, gwVars
<1>6. ASSUME NEW a \in Automation, TriggerFires(a) \/ TurnStep(a) PROVE AnswerInv'
  BY <1>0, <1>6, <1>a, <1>t DEF TriggerFires, TurnStep, TakeTurn, RunTurnEnds, chatVars, gwVars
<1>7. ASSUME NEW v \in Viewers, ViewerOpens(v) \/ StreamStep(v) PROVE AnswerInv'
  BY <1>0, <1>7, <1>a, <1>t DEF ViewerOpens, StreamStep, TakeTurn, StreamOpens, StreamEnds, chatVars, gwVars
<1>8. CASE StartTriggers
  BY <1>8, <1>i, <1>t DEF StartTriggers, AnswerInv, chatVars, gwVars
<1>9. ASSUME NEW t \in {"manual", "watch"}, Reload(t) PROVE AnswerInv'
  BY <1>0, <1>9 DEF Reload, actorVars, chatVars, gwVars
<1>10. ASSUME NEW t \in Automation, StopTrigger(t) PROVE AnswerInv'
  BY <1>0, <1>10 DEF StopTrigger, actorVars, chatVars, gwVars
<1>11. CASE \/ EditFile \/ SaveConfig \/ Debounced \/ CtxEnds \/ Shutdown \/ ShutdownStep
            \/ BuildRuntime \/ StopChannels \/ WebListens \/ StartChannels \/ Swap \/ CloseOld
  BY <1>0, <1>11 DEF EditFile, SaveConfig, Debounced, CtxEnds, Shutdown, ShutdownStep, WaitPipe,
     TakeRuntimeForShutdown, CloseLast, BuildRuntime, StopChannels, WebListens, StartChannels,
     Swap, CloseOld, actorVars, chatVars, gwVars, rtVars
<1>12. CASE UNCHANGED vars
  BY <1>0, <1>12 DEF vars, actorVars, chatVars, gwVars
<1> QED
  BY <1>1, <1>2, <1>3, <1>4, <1>5, <1>6, <1>7, <1>8, <1>9, <1>10, <1>11, <1>12
     DEF Next, ChatStep, ApplyStep

\* handle: no message is answered twice, nor a failed stream with more than its error; without an
\* answer stay an empty reply, a stream cut by its ctx and what a cancelled Run had to drop.
THEOREM AnsweredOnce == Spec => []OneAnswer
<1>1. Init => AnswerInv
  BY DEF Init, AnswerInv, Unanswered, Actors, Turners
<1>2. TypeOK /\ AnswerInv => OneAnswer
  <2> SUFFICES ASSUME TypeOK, AnswerInv PROVE OneAnswer
    OBVIOUS
  <2>1. PICK o : outcome \in {{}, {o}}
    BY DEF AnswerInv
  <2>2. Cardinality(outcome) \in {0, 1}
    BY <2>1, FS_EmptySet, FS_Singleton
  <2> QED
    BY <2>2 DEF AnswerInv, OneAnswer, Unanswered
<1>3. GatewayInv => TypeOK
  BY DEF GatewayInv
<1> QED
  BY <1>1, <1>2, <1>3, AnswerStep, AlwaysInv, PTL DEF Spec
=============================================================================
