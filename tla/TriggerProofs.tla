---------------------------- MODULE TriggerProofs ----------------------------
(***************************************************************************)
(* Proofs about the triggers: the cron plugin, for any jobs, callers and   *)
(* numbers of Applies and failures, and the heartbeat, for every number of *)
(* services.                                                               *)
(***************************************************************************)
EXTENDS CronPlugin, FiniteSetTheorems, TLAPS

\* An Apply makes two services: one in EnsureService, one in startLoop.
MadeInv ==
  /\ gpc = "idle" => made <= 2 * applies
  /\ gpc \in {"stop", "drain", "ensure"} => applies > 0 /\ made <= 2 * (applies - 1)
  /\ gpc \in {"register", "channels", "swap", "start"} => applies > 0 /\ made <= 2 * applies - 1

\* Where Apply is tells who holds Plugin.mu, whether the trigger runs and in which service. What
\* EnsureService made, and what the slash handlers are bound to, is never started.
PhaseInv ==
  /\ mu <=> gpc = "drain"
  /\ gpc \in {"stop", "drain"} => triggers
  /\ gpc \in {"ensure", "register", "channels", "swap", "start"} => ~triggers
  /\ triggers => svc \in started /\ started \ stopped \subseteq {svc}
  /\ triggers /\ gpc # "drain" => svc \notin stopped
  /\ gpc = "drain" => svc \in stopped
  /\ ~triggers => svc \notin started /\ started \subseteq stopped
  /\ gpc \in {"register", "channels", "swap", "start"} => svc # 0
  /\ cmds \notin started /\ next \notin started
  /\ stopped # {} => started # {}

\* The service made last of those that were started.
Newest(s) == s \in started /\ \A r \in started : r <= s

\* Nobody holds, or is the turn of, a started service other than the newest, and none does when the
\* next one is about to load the file.
HeldInv ==
  /\ svc \in started => Newest(svc)
  /\ \A t \in Turners : got[t] \in started => Newest(got[t]) /\ pc[t] = "using" /\ gpc # "start"
  /\ \A s \in Services : InTurn(s) => Newest(s) /\ gpc # "start"

\* What the user was told is in the file and in the table of the newest service.
KeptInv ==
  ~unstarted => promised \subseteq disk /\ \A s \in started : Newest(s) => promised \subseteq table[s]

\* The inductive invariant.
PluginInv == TypeOK /\ MadeInv /\ PhaseInv /\ HeldInv /\ NoTurnOutlivesStop /\ KeptInv

\* Two services for each Apply.
LEMMA ServicesAre ==
  ASSUME CronPluginAssumption, TypeOK
  PROVE  /\ made \in Nat /\ \A n \in 1..made : n \in Services
         /\ stopped \subseteq Services /\ started \subseteq Services
<1>1. MaxApplies \in Nat /\ made \in Nat /\ made <= 2 * MaxApplies
  BY DEF CronPluginAssumption, TypeOK
<1>2. \A n \in 1..made : n \in Services
  BY <1>1 DEF Services
<1> QED BY <1>1, <1>2 DEF TypeOK

\* NewPlugin, and the file as it is.
LEMMA PluginInit == ASSUME CronPluginAssumption PROVE Init => PluginInv
<1> SUFFICES ASSUME Init PROVE PluginInv
  OBVIOUS
<1> USE DEF Init, CronPluginAssumption
<1>1. TypeOK
  <2>1. 0 \in 0..(2 * MaxApplies) /\ 0 \in 0..MaxApplies /\ 0 \in 0..MaxFailures
    OBVIOUS
  <2>2. \A t \in Turners : 0 \in 0..made
    OBVIOUS
  <2>3. got \in [Turners -> 0..made] /\ {svc, cmds, next} \subseteq 0..made
    BY <2>2
  <2> QED BY <2>1, <2>3 DEF TypeOK
<1>2. MadeInv /\ PhaseInv
  BY DEF MadeInv, PhaseInv
<1>3. HeldInv /\ NoTurnOutlivesStop /\ KeptInv
  BY DEF HeldInv, NoTurnOutlivesStop, KeptInv, InTurn, Turners
<1> QED BY <1>1, <1>2, <1>3 DEF PluginInv

\* The steps of Apply.
LEMMA ApplySteps ==
  ASSUME CronPluginAssumption, PluginInv,
         Apply \/ StopLoop \/ StopLoopDone \/ EnsureService \/ RegisterSlash \/ ApplyFails \/ ReloadLock
  PROVE  PluginInv'
<1> USE DEF CronPluginAssumption, PluginInv, gwVars, svcVars, jobVars, turnVars
<1>1. CASE Apply
  <2> USE <1>1 DEF Apply
  <2>1. TypeOK'
    BY DEF TypeOK
  <2>2. MadeInv' /\ PhaseInv'
    BY DEF TypeOK, MadeInv, PhaseInv
  <2>3. HeldInv' /\ NoTurnOutlivesStop' /\ KeptInv'
    BY DEF HeldInv, NoTurnOutlivesStop, KeptInv, PhaseInv, InTurn, Newest
  <2> QED BY <2>1, <2>2, <2>3
<1>2. CASE StopLoop
  <2> USE <1>2 DEF StopLoop
  <2>1. TypeOK'
    BY DEF TypeOK, PhaseInv
  <2>2. MadeInv' /\ PhaseInv'
    BY DEF TypeOK, MadeInv, PhaseInv
  <2>3. HeldInv' /\ NoTurnOutlivesStop' /\ KeptInv'
    BY DEF HeldInv, NoTurnOutlivesStop, KeptInv, PhaseInv, InTurn, Newest
  <2> QED BY <2>1, <2>2, <2>3
<1>3. CASE StopLoopDone
  <2> USE <1>3 DEF StopLoopDone
  <2>1. TypeOK'
    <3>1. 0 \in 0..made
      BY ServicesAre
    <3> QED BY <3>1 DEF TypeOK
  <2>2. MadeInv' /\ PhaseInv'
    BY DEF TypeOK, MadeInv, PhaseInv
  <2>3. HeldInv' /\ NoTurnOutlivesStop' /\ KeptInv'
    BY DEF TypeOK, HeldInv, NoTurnOutlivesStop, KeptInv, PhaseInv, InTurn, Newest
  <2> QED BY <2>1, <2>2, <2>3
<1>4. CASE EnsureService
  <2> USE <1>4 DEF EnsureService
  <2>1. made \in Nat /\ svc \in 0..made
    BY DEF TypeOK
  <2>2. TypeOK'
    BY <2>1 DEF TypeOK, MadeInv
  <2>3. MadeInv' /\ PhaseInv'
    BY <2>1 DEF TypeOK, MadeInv, PhaseInv
  <2>4. HeldInv' /\ NoTurnOutlivesStop' /\ KeptInv'
    BY DEF TypeOK, HeldInv, NoTurnOutlivesStop, KeptInv, PhaseInv, InTurn, Newest
  <2> QED BY <2>2, <2>3, <2>4
<1>5. CASE RegisterSlash
  <2> USE <1>5 DEF RegisterSlash
  <2>1. TypeOK'
    BY DEF TypeOK
  <2>2. MadeInv' /\ PhaseInv'
    BY DEF TypeOK, MadeInv, PhaseInv
  <2>3. HeldInv' /\ NoTurnOutlivesStop' /\ KeptInv'
    BY DEF HeldInv, NoTurnOutlivesStop, KeptInv, PhaseInv, InTurn, Newest
  <2> QED BY <2>1, <2>2, <2>3
<1>6. CASE ApplyFails
  <2> USE <1>6 DEF ApplyFails
  <2>1. TypeOK'
    BY DEF TypeOK
  <2>2. MadeInv' /\ PhaseInv'
    BY DEF TypeOK, MadeInv, PhaseInv
  <2>3. HeldInv' /\ NoTurnOutlivesStop' /\ KeptInv'
    BY DEF HeldInv, NoTurnOutlivesStop, KeptInv, PhaseInv, InTurn, Newest
  <2> QED BY <2>1, <2>2, <2>3
<1>7. CASE ReloadLock
  <2> USE <1>7 DEF ReloadLock
  <2>1. TypeOK'
    BY DEF TypeOK
  <2>2. MadeInv' /\ PhaseInv'
    BY DEF TypeOK, MadeInv, PhaseInv
  <2>3. HeldInv' /\ NoTurnOutlivesStop' /\ KeptInv'
    BY DEF HeldInv, NoTurnOutlivesStop, KeptInv, PhaseInv, InTurn, Newest
  <2> QED BY <2>1, <2>2, <2>3
<1> QED BY <1>1, <1>2, <1>3, <1>4, <1>5, <1>6, <1>7

\* Reload finds no turn, so that startLoop's service loads what the last one left.
LEMMA SwapStep == ASSUME CronPluginAssumption, PluginInv, Swap PROVE PluginInv'
<1> USE DEF CronPluginAssumption, PluginInv, Swap, gwVars, svcVars, jobVars, turnVars
<1>1. TypeOK'
  BY DEF TypeOK
<1>2. MadeInv' /\ PhaseInv'
  BY DEF TypeOK, MadeInv, PhaseInv
<1>3. \A t \in Turners : got[t] \notin started
  BY DEF HeldInv, InTurn
<1>4. HeldInv' /\ NoTurnOutlivesStop' /\ KeptInv'
  BY <1>3 DEF HeldInv, NoTurnOutlivesStop, KeptInv, PhaseInv, InTurn, Newest, Turners
<1> QED BY <1>1, <1>2, <1>4

LEMMA StartLoopStep == ASSUME CronPluginAssumption, PluginInv, StartLoop PROVE PluginInv'
<1> USE DEF CronPluginAssumption, PluginInv
<1> DEFINE new == made + 1
<1>1. /\ gpc = "start" /\ svc' = new /\ made' = new /\ started' = started \cup {new}
      /\ stopped' = stopped \cup {svc} /\ gpc' = "idle" /\ triggers' = TRUE
      /\ table' = [table EXCEPT ![new] = disk]
      /\ UNCHANGED <<applies, failures, mu, cmds, next, disk, used, promised, unstarted, pc, got>>
  BY DEF StartLoop, turnVars
<1>2. made \in Nat /\ applies \in Nat /\ svc \in 1..made /\ new <= 2 * applies /\ applies <= MaxApplies
  BY <1>1 DEF TypeOK, MadeInv, PhaseInv
<1>3. new \in Services /\ new \in 1..new /\ {svc, cmds, next} \subseteq 0..new
  BY <1>1, <1>2 DEF TypeOK, Services
<1>4. \A s \in started \cup stopped : s \in Nat /\ s < new
  BY <1>2 DEF TypeOK
<1>5. cmds # new /\ next # new /\ svc # new /\ \A t \in Turners : got[t] # new
  <2>1. \A n \in 0..made : n # new
    BY <1>2
  <2> QED BY <2>1 DEF TypeOK
<1>6. new \notin stopped'
  BY <1>1, <1>4, <1>5
<1>7. TypeOK'
  <2>1. table' \in [Services -> SUBSET JobIds]
    BY <1>1, <1>3 DEF TypeOK
  <2>2. 1..made \subseteq 1..new /\ 0..made \subseteq 0..new /\ new \in 0..(2 * MaxApplies)
    BY <1>2
  <2>3. started' \subseteq 1..new /\ stopped' \subseteq 1..new
    BY <1>1, <1>2, <1>3, <2>2 DEF TypeOK
  <2>4. got \in [Turners -> 0..new]
    BY <2>2 DEF TypeOK
  <2> QED BY <1>1, <1>3, <2>1, <2>2, <2>3, <2>4 DEF TypeOK
<1>8. MadeInv'
  BY <1>1, <1>2 DEF MadeInv
<1>9. PhaseInv'
  BY <1>1, <1>2, <1>5, <1>6 DEF PhaseInv
<1>10. new \in started' /\ \A r \in started' : r <= new
  BY <1>1, <1>2, <1>4
<1>11. HeldInv'
  <2>1. Newest(svc)'
    BY <1>1, <1>10 DEF Newest
  <2>2. \A t \in Turners : got'[t] \notin started'
    BY <1>1, <1>5 DEF HeldInv
  <2>3. \A s \in Services : ~InTurn(s)'
    BY <1>1 DEF HeldInv, InTurn
  <2> QED BY <2>1, <2>2, <2>3 DEF HeldInv
<1>12. NoTurnOutlivesStop'
  <2>1. stopped' \subseteq Services
    BY <1>1, <1>2, ServicesAre
  <2> QED BY <1>1, <2>1 DEF NoTurnOutlivesStop, HeldInv, InTurn
<1>13. KeptInv'
  <2>1. \A s \in started' : Newest(s)' => s = new
    BY <1>1, <1>2, <1>4 DEF Newest
  <2>2. table'[new] = disk
    BY <1>1, <1>3 DEF TypeOK
  <2> QED BY <1>1, <2>1, <2>2 DEF KeptInv
<1> QED BY <1>7, <1>8, <1>9, <1>11, <1>12, <1>13

\* A due job: only the newest service fires, and what it saves has every job it has.
LEMMA FireStep ==
  ASSUME CronPluginAssumption, PluginInv, NEW s \in Services, Fire(s) \/ FireEnds(s)
  PROVE  PluginInv'
<1> USE DEF PluginInv, gwVars, svcVars, turnVars
<1>1. /\ disk' = table[s] /\ s \in Turners
      /\ \E l \in {"none", "turn"} : pc' = [pc EXCEPT ![s] = l] /\ (l = "turn" => Fire(s))
      /\ \A t \in Turners : pc[t] # "using" \/ t # s
      /\ UNCHANGED <<gwVars, svcVars, cmds, next, table, used, promised, unstarted, got>>
  BY DEF Fire, FireEnds, InTurn, Turners
<1>2. Newest(s)
  <2>1. CASE Fire(s)
    BY <2>1 DEF Fire, Active, PhaseInv, HeldInv
  <2>2. CASE FireEnds(s)
    BY <2>2 DEF FireEnds, HeldInv, InTurn
  <2> QED BY <2>1, <2>2
<1>3. Fire(s) => triggers /\ gpc # "start" /\ s \notin stopped
  BY DEF Fire, Active, PhaseInv
<1>4. TypeOK'
  BY <1>1 DEF TypeOK
<1>5. MadeInv' /\ PhaseInv'
  BY <1>1 DEF MadeInv, PhaseInv
<1>6. \A t \in Turners : pc[t] = "using" => pc'[t] = "using"
  BY <1>1 DEF TypeOK
<1>7. \A r \in Services : InTurn(r)' => InTurn(r) \/ (r = s /\ Fire(s))
  <2>1. CASE Fire(s)
    <3>1. \A r \in Services : r # s => pc'[r] = pc[r]
      BY <1>1 DEF TypeOK, Turners
    <3> QED BY <2>1, <3>1 DEF InTurn
  <2>2. CASE FireEnds(s)
    <3>1. pc' = [pc EXCEPT ![s] = "none"]
      BY <2>2 DEF FireEnds
    <3> QED BY <3>1 DEF InTurn, TypeOK, Turners
  <2> QED BY <2>1, <2>2
<1>8. HeldInv'
  BY <1>1, <1>2, <1>3, <1>6, <1>7 DEF HeldInv, Newest
<1>9. NoTurnOutlivesStop'
  <2>1. stopped \subseteq Services
    BY ServicesAre
  <2> QED BY <1>1, <1>3, <1>7, <2>1 DEF NoTurnOutlivesStop
<1>10. KeptInv'
  BY <1>1, <1>2 DEF KeptInv, Newest
<1> QED BY <1>4, <1>5, <1>8, <1>9, <1>10

\* Turns of chats, and the calls of a tool up to the service it is given.
LEMMA TurnStep ==
  ASSUME CronPluginAssumption, PluginInv, ChatTurn \/ ChatTurnEnds \/ \E t \in Turners : ToolCall(t) \/ Service(t)
  PROVE  PluginInv'
<1> USE DEF PluginInv, gwVars, svcVars, jobVars
<1>1. PICK t \in Turners :
        /\ \E l \in {"none", "turn", "asking", "using"} :
             /\ pc' = [pc EXCEPT ![t] = l]
             /\ got' = got \/ (got' = [got EXCEPT ![t] = svc] /\ l = "using" /\ ~mu)
        /\ pc[t] # "using"
        /\ t \in Services => InTurn(t)
  <2>1. CASE ChatTurn \/ ChatTurnEnds
    <3>1. Chat \in Turners /\ Chat \notin Services
      BY DEF Turners, Chat, Services
    <3>2. /\ got' = got /\ pc[Chat] # "using"
          /\ pc' = [pc EXCEPT ![Chat] = "turn"] \/ pc' = [pc EXCEPT ![Chat] = "none"]
      BY <2>1 DEF ChatTurn, ChatTurnEnds, InTurn
    <3>3. \E l \in {"none", "turn", "asking", "using"} :
            /\ pc' = [pc EXCEPT ![Chat] = l]
            /\ got' = got \/ (got' = [got EXCEPT ![Chat] = svc] /\ l = "using" /\ ~mu)
      BY <3>2
    <3> QED BY <3>1, <3>2, <3>3
  <2>2. ASSUME NEW t \in Turners, ToolCall(t) \/ Service(t)
        PROVE  /\ \E l \in {"none", "turn", "asking", "using"} :
                    /\ pc' = [pc EXCEPT ![t] = l]
                    /\ got' = got \/ (got' = [got EXCEPT ![t] = svc] /\ l = "using" /\ ~mu)
               /\ pc[t] # "using" /\ InTurn(t)
    <3>1. CASE ToolCall(t)
      <4>1. pc[t] = "turn" /\ pc' = [pc EXCEPT ![t] = "asking"] /\ got' = got
        BY <3>1 DEF ToolCall
      <4> QED BY <4>1 DEF InTurn
    <3>2. CASE Service(t)
      <4>1. /\ pc[t] = "asking" /\ ~mu /\ pc' = [pc EXCEPT ![t] = "using"]
            /\ got' = [got EXCEPT ![t] = svc]
        BY <3>2 DEF Service
      <4> QED BY <4>1 DEF InTurn
    <3> QED BY <2>2, <3>1, <3>2
  <2> QED BY <2>1, <2>2
<1>2. UNCHANGED <<gwVars, svcVars, cmds, next, jobVars>>
  BY DEF ChatTurn, ChatTurnEnds, ToolCall, Service
<1>3. TypeOK'
  BY <1>1, <1>2 DEF TypeOK
<1>4. MadeInv' /\ PhaseInv' /\ KeptInv'
  BY <1>2 DEF MadeInv, PhaseInv, KeptInv, Newest
<1>5. \A s \in Services : InTurn(s)' => InTurn(s)
  BY <1>1 DEF TypeOK, InTurn, Turners
<1>6. \A r \in Turners : got'[r] \in started =>
        \/ got'[r] = svc /\ pc'[r] = "using"
        \/ got'[r] = got[r] /\ (pc[r] = "using" => pc'[r] = "using")
  BY <1>1 DEF TypeOK
<1>7. HeldInv'
  BY <1>2, <1>5, <1>6 DEF HeldInv, Newest, PhaseInv
<1>8. NoTurnOutlivesStop'
  <2>1. stopped \subseteq Services
    BY ServicesAre
  <2> QED BY <1>2, <1>5, <2>1 DEF NoTurnOutlivesStop
<1> QED BY <1>3, <1>4, <1>7, <1>8

\* AddJob, RemoveJob and ListJobs on the service that was handed out: the newest, or one that was
\* never started, which is noted.
LEMMA OperateIs ==
  ASSUME PluginInv, NEW s \in Services, Operate(s), s \in started => Newest(s), UNCHANGED started
  PROVE  /\ KeptInv' /\ table' \in [Services -> SUBSET JobIds] /\ disk' \subseteq JobIds
         /\ promised' \subseteq used' /\ used' \subseteq JobIds /\ unstarted' \in BOOLEAN
<1> USE DEF PluginInv
<1>1. table \in [Services -> SUBSET JobIds] /\ promised \subseteq used /\ used \subseteq JobIds
      /\ disk \subseteq JobIds /\ unstarted \in BOOLEAN /\ \A r \in started : r \in Nat
  BY DEF TypeOK
<1>2. \A r \in started : Newest(r)' => Newest(r)
  BY DEF Newest
<1>3. \A r \in started : Newest(r) /\ Newest(s) => r = s
  BY <1>1 DEF Newest
<1>4. ASSUME NEW id \in JobIds \ used,
             table' = [table EXCEPT ![s] = @ \cup {id}], used' = used \cup {id},
             promised' = promised \cup {id}, disk' = table'[s], unstarted' = (unstarted \/ s \notin started)
      PROVE  /\ KeptInv' /\ table' \in [Services -> SUBSET JobIds] /\ disk' \subseteq JobIds
             /\ promised' \subseteq used' /\ used' \subseteq JobIds /\ unstarted' \in BOOLEAN
  BY <1>1, <1>2, <1>3, <1>4 DEF KeptInv
<1>5. ASSUME NEW id \in table[s],
             table' = [table EXCEPT ![s] = @ \ {id}], used' = used,
             promised' = promised \ {id}, disk' = table'[s], unstarted' = (unstarted \/ s \notin started)
      PROVE  /\ KeptInv' /\ table' \in [Services -> SUBSET JobIds] /\ disk' \subseteq JobIds
             /\ promised' \subseteq used' /\ used' \subseteq JobIds /\ unstarted' \in BOOLEAN
  BY <1>1, <1>2, <1>3, <1>5 DEF KeptInv
<1>6. CASE UNCHANGED jobVars
  BY <1>1, <1>2, <1>6 DEF KeptInv, jobVars
<1> QED BY <1>4, <1>5, <1>6 DEF Operate

\* What a tool or a slash command does: a slash command always has a service that is not started.
LEMMA OperationStep ==
  ASSUME CronPluginAssumption, PluginInv, SlashCommand \/ \E t \in Turners : ToolEnds(t)
  PROVE  PluginInv'
<1> USE DEF PluginInv
<1>1. UNCHANGED <<gwVars, svcVars, cmds, next>>
  BY DEF SlashCommand, ToolEnds
<1> USE DEF gwVars, svcVars
<1>2. \A n \in 1..made : n \in Services
  BY ServicesAre
<1>3. /\ KeptInv' /\ table' \in [Services -> SUBSET JobIds] /\ disk' \subseteq JobIds
      /\ promised' \subseteq used' /\ used' \subseteq JobIds /\ unstarted' \in BOOLEAN
  <2>1. CASE SlashCommand
    <3>1. cmds \in Services /\ cmds \notin started
      BY <1>2, <2>1 DEF SlashCommand, PhaseInv, TypeOK
    <3> QED BY <1>1, <2>1, <3>1, OperateIs DEF SlashCommand
  <2>2. ASSUME NEW t \in Turners, ToolEnds(t), got[t] # 0
        PROVE  got[t] \in Services /\ (got[t] \in started => Newest(got[t])) /\ Operate(got[t])
    BY <1>2, <2>2 DEF ToolEnds, HeldInv, TypeOK
  <2>3. ASSUME NEW t \in Turners, ToolEnds(t), got[t] = 0
        PROVE  UNCHANGED jobVars
    BY <2>3 DEF ToolEnds
  <2>4. CASE UNCHANGED jobVars
    BY <1>1, <2>4 DEF TypeOK, KeptInv, Newest, jobVars
  <2> QED BY <1>1, <2>1, <2>2, <2>3, <2>4, OperateIs
<1>4. \/ pc' = pc /\ got' = got
      \/ \E t \in Turners :
           pc[t] = "using" /\ pc' = [pc EXCEPT ![t] = "turn"] /\ got' = [got EXCEPT ![t] = 0]
  BY DEF SlashCommand, ToolEnds, turnVars
<1>5. pc' \in [Turners -> {"none", "turn", "asking", "using"}] /\ got' \in [Turners -> 0..made]
  BY <1>4 DEF TypeOK
<1>6. TypeOK'
  BY <1>1, <1>3, <1>5 DEF TypeOK
<1>7. MadeInv' /\ PhaseInv'
  BY <1>1 DEF MadeInv, PhaseInv
<1>8. 0 \notin started
  BY DEF TypeOK
<1>9. \A t \in Turners : got'[t] \in started => got'[t] = got[t] /\ pc'[t] = pc[t]
  BY <1>4, <1>8 DEF TypeOK
<1>10. \A s \in Services : InTurn(s)' => InTurn(s)
  BY <1>4 DEF TypeOK, InTurn, Turners
<1>11. HeldInv'
  BY <1>1, <1>9, <1>10 DEF HeldInv, Newest
<1>12. NoTurnOutlivesStop'
  <2>1. stopped \subseteq Services
    BY ServicesAre
  <2> QED BY <1>1, <1>10, <2>1 DEF NoTurnOutlivesStop
<1> QED BY <1>3, <1>6, <1>7, <1>11, <1>12

LEMMA PluginStep == ASSUME CronPluginAssumption PROVE PluginInv /\ [Next]_vars => PluginInv'
<1> SUFFICES ASSUME PluginInv, [Next]_vars PROVE PluginInv'
  OBVIOUS
<1>1. CASE UNCHANGED vars
  BY <1>1 DEF vars, gwVars, svcVars, jobVars, turnVars, PluginInv, TypeOK, MadeInv, PhaseInv, HeldInv,
              NoTurnOutlivesStop, KeptInv, InTurn, Newest
<1> QED
  BY <1>1, ApplySteps, SwapStep, StartLoopStep, FireStep, TurnStep, OperationStep
  DEF Next, ApplyStep, ToolStep

\* Plugin: across any number of Applies, failed ones among them, at most one scheduler runs, no turn of
\* an old one is left, and no job the user was told of is lost, unless something operates on a service
\* that is not started.
THEOREM ReloadsKeepJobs == ASSUME CronPluginAssumption PROVE Spec => []JobsSurviveReloads
<1>1. PluginInv => JobsSurviveReloads
  <2> SUFFICES ASSUME PluginInv PROVE JobsSurviveReloads
    OBVIOUS
  <2> USE DEF PluginInv
  <2>1. \A s \in Services : Active(s) => s = svc
    BY DEF Active, PhaseInv
  <2>2. {s \in Services : Active(s)} \subseteq {svc} /\ IsFiniteSet({svc}) /\ Cardinality({svc}) = 1
    BY <2>1, FS_Singleton
  <2>3. Cardinality({s \in Services : Active(s)}) <= 1
    BY <2>2, FS_Subset
  <2>4. OneScheduler
    BY <2>3 DEF OneScheduler, PhaseInv, Active
  <2> QED BY <2>4 DEF JobsSurviveReloads, KeptInv, KeptUnlessUnstarted
<1> QED BY <1>1, PluginInit, PluginStep, PTL DEF Spec

-----------------------------------------------------------------------------
(* The heartbeat, for every number of services. *)

CONSTANTS MaxServices
VARIABLES last, current, cancelled, loop, turn, stopping, quiet
Heartbeat == INSTANCE Heartbeat

\* A service that a Stop waits for has been cancelled, and so has every quiet one.
WaitedForIsCancelled == stopping # 0 => stopping \in cancelled

\* The inductive invariant: a service whose Stop has returned is quiet for good, since its loop can
\* only begin by finding its context cancelled.
QuietInv == Heartbeat!TypeOK /\ WaitedForIsCancelled /\ Heartbeat!StoppedIsQuiet

\* NewPlugin: nothing runs.
LEMMA InitQuiet == ASSUME MaxServices \in Nat PROVE Heartbeat!Init => QuietInv
  BY DEF Heartbeat!Init, QuietInv, Heartbeat!TypeOK, WaitedForIsCancelled,
         Heartbeat!StoppedIsQuiet, Heartbeat!Services, Heartbeat!Busy

\* Every step of the plugin, its services and their turns keeps the invariant.
LEMMA NextQuiet ==
  ASSUME MaxServices \in Nat
  PROVE  QuietInv /\ [Heartbeat!Next]_(Heartbeat!vars) => QuietInv'
<1> SUFFICES ASSUME QuietInv, [Heartbeat!Next]_(Heartbeat!vars) PROVE QuietInv'
  OBVIOUS
<1> USE DEF QuietInv, Heartbeat!TypeOK, WaitedForIsCancelled, Heartbeat!StoppedIsQuiet,
            Heartbeat!Services, Heartbeat!Busy
<1>1. CASE Heartbeat!StartTrigger
  BY <1>1 DEF Heartbeat!StartTrigger
<1>2. CASE Heartbeat!StopTrigger
  BY <1>2 DEF Heartbeat!StopTrigger
<1>3. CASE Heartbeat!StopReturns
  BY <1>3 DEF Heartbeat!StopReturns
<1>4. ASSUME NEW k \in Heartbeat!Services, Heartbeat!LoopStarts(k) PROVE QuietInv'
  BY <1>4 DEF Heartbeat!LoopStarts
<1>5. ASSUME NEW k \in Heartbeat!Services, Heartbeat!LoopEnds(k) PROVE QuietInv'
  BY <1>5 DEF Heartbeat!LoopEnds
<1>6. ASSUME NEW k \in Heartbeat!Services, Heartbeat!Tick(k) PROVE QuietInv'
  BY <1>6 DEF Heartbeat!Tick
<1>7. ASSUME NEW k \in Heartbeat!Services, Heartbeat!ReadPrompt(k) PROVE QuietInv'
  BY <1>7 DEF Heartbeat!ReadPrompt
<1>8. ASSUME NEW k \in Heartbeat!Services, Heartbeat!TurnEnds(k) PROVE QuietInv'
  BY <1>8 DEF Heartbeat!TurnEnds
<1>9. ASSUME NEW k \in Heartbeat!Services, Heartbeat!Release(k) PROVE QuietInv'
  BY <1>9 DEF Heartbeat!Release
<1>10. CASE UNCHANGED Heartbeat!vars
  BY <1>10 DEF Heartbeat!vars
<1> QED
  BY <1>1, <1>2, <1>3, <1>4, <1>5, <1>6, <1>7, <1>8, <1>9, <1>10 DEF Heartbeat!Next

\* Service.Stop: once it has returned the service neither ticks nor has a turn, however its loop,
\* its ticks and the reloads interleave.
THEOREM StopMeansQuiet ==
  ASSUME MaxServices \in Nat
  PROVE  Heartbeat!Spec => []Heartbeat!StoppedIsQuiet
<1>1. Heartbeat!Init => QuietInv
  BY InitQuiet
<1>2. QuietInv /\ [Heartbeat!Next]_(Heartbeat!vars) => QuietInv'
  BY NextQuiet
<1>3. QuietInv => Heartbeat!StoppedIsQuiet
  BY DEF QuietInv
<1> QED
  BY <1>1, <1>2, <1>3, PTL DEF Heartbeat!Spec

\* hbRunner: as long as every Start but the last had its Stop, two heartbeat turns never overlap.
THEOREM OneTurnAtATime ==
  ASSUME MaxServices \in Nat
  PROVE  Heartbeat!Spec => []Heartbeat!TurnsDoNotOverlap
<1>1. Heartbeat!StoppedIsQuiet => Heartbeat!TurnsDoNotOverlap
  BY DEF Heartbeat!StoppedIsQuiet, Heartbeat!TurnsDoNotOverlap
<1> QED
  BY <1>1, StopMeansQuiet, PTL
=============================================================================
