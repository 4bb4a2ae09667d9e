------------------------------ MODULE MCEndings ------------------------------
(***************************************************************************)
(* The components that must come to an end by themselves, side by side: a  *)
(* behaviour is one of the cron plugin's reloads, the heartbeat, the       *)
(* matrix channel or the command line's voice session. The others are over *)
(* or have not begun, and owe nothing.                                     *)
(***************************************************************************)
EXTENDS Naturals

VARIABLE which  \* the component of this behaviour

VARIABLES cp_gpc, cp_applies, cp_failures, cp_triggers, cp_mu, cp_svc, cp_made,
  cp_started, cp_stopped, cp_cmds, cp_next, cp_table, cp_disk, cp_pc, cp_got, cp_used,
  cp_promised, cp_unstarted
VARIABLES hb_last, hb_current, hb_cancelled, hb_loop, hb_turn, hb_stopping, hb_quiet
VARIABLES mx_log, mx_disk, mx_mem, mx_pc, mx_upto, mx_at, mx_cancelled, mx_built,
  mx_published, mx_manager, mx_current, mx_errors, mx_crashes
VARIABLES cv_conn, cv_ctxDone, cv_registered, cv_stopped, cv_sent, cv_tee, cv_vadQ,
  cv_sttQ, cv_vad, cv_stt, cv_said, cv_events, cv_loop, cv_held, cv_turn, cv_cancelled,
  cv_left, cv_pcm, cv_synth, cv_render, cv_wire
VARIABLES vr_interrupted, vr_keyboard, vr_lines, vr_mic, vr_heard, vr_inner, vr_gate,
  vr_passing, vr_active, vr_timer, vr_replyDone, vr_events, vr_loop, vr_held, vr_cancelled,
  vr_reply, vr_screen, vr_speaker, vr_ended

cp_vars ==
  <<cp_gpc, cp_applies, cp_failures, cp_triggers, cp_mu, cp_svc, cp_made, cp_started,
    cp_stopped, cp_cmds, cp_next, cp_table, cp_disk, cp_pc, cp_got, cp_used, cp_promised,
    cp_unstarted>>
CronPlugin == INSTANCE CronPlugin WITH
  JobIds <- {"standup", "reminder"}, InitialJobs <- {"standup"},
  Callers <- {"chat", "cron", "slash"}, MaxApplies <- 3, MaxFailures <- 1,
  gpc <- cp_gpc, applies <- cp_applies, failures <- cp_failures, triggers <- cp_triggers,
  mu <- cp_mu, svc <- cp_svc, made <- cp_made, started <- cp_started, stopped <- cp_stopped,
  cmds <- cp_cmds, next <- cp_next, table <- cp_table, disk <- cp_disk, pc <- cp_pc,
  got <- cp_got, used <- cp_used, promised <- cp_promised, unstarted <- cp_unstarted

hb_vars ==
  <<hb_last, hb_current, hb_cancelled, hb_loop, hb_turn, hb_stopping, hb_quiet>>
Heartbeat == INSTANCE Heartbeat WITH
  MaxServices <- 2,
  last <- hb_last, current <- hb_current, cancelled <- hb_cancelled, loop <- hb_loop,
  turn <- hb_turn, stopping <- hb_stopping, quiet <- hb_quiet

mx_vars ==
  <<mx_log, mx_disk, mx_mem, mx_pc, mx_upto, mx_at, mx_cancelled, mx_built, mx_published,
    mx_manager, mx_current, mx_errors, mx_crashes>>
Matrix == INSTANCE Matrix WITH
  MaxEvents <- 2, MaxObjects <- 2, MaxErrors <- 1, MaxCrashes <- 1,
  log <- mx_log, disk <- mx_disk, mem <- mx_mem, pc <- mx_pc, upto <- mx_upto, at <- mx_at,
  cancelled <- mx_cancelled, built <- mx_built, published <- mx_published,
  manager <- mx_manager, current <- mx_current, errors <- mx_errors, crashes <- mx_crashes

cv_vars ==
  <<cv_conn, cv_ctxDone, cv_registered, cv_stopped, cv_sent, cv_tee, cv_vadQ, cv_sttQ,
    cv_vad, cv_stt, cv_said, cv_events, cv_loop, cv_held, cv_turn, cv_cancelled, cv_left,
    cv_pcm, cv_synth, cv_render, cv_wire>>
Conversation == INSTANCE Conversation WITH
  Cap <- 1, EventCap <- 1, MaxFrames <- 2, MaxTurns <- 1, MaxChunks <- 1,
  conn <- cv_conn, ctxDone <- cv_ctxDone, registered <- cv_registered,
  stopped <- cv_stopped, sent <- cv_sent, tee <- cv_tee, vadQ <- cv_vadQ, sttQ <- cv_sttQ,
  vad <- cv_vad, stt <- cv_stt, said <- cv_said, events <- cv_events, loop <- cv_loop,
  held <- cv_held, turn <- cv_turn, cancelled <- cv_cancelled, left <- cv_left,
  pcm <- cv_pcm, synth <- cv_synth, render <- cv_render, wire <- cv_wire

vr_vars ==
  <<vr_interrupted, vr_keyboard, vr_lines, vr_mic, vr_heard, vr_inner, vr_gate, vr_passing,
    vr_active, vr_timer, vr_replyDone, vr_events, vr_loop, vr_held, vr_cancelled, vr_reply,
    vr_screen, vr_speaker, vr_ended>>
VoiceRepl == INSTANCE VoiceRepl WITH
  DoneCap <- 1, EventCap <- 1, MaxLines <- 1, MaxHeard <- 1,
  interrupted <- vr_interrupted, keyboard <- vr_keyboard, lines <- vr_lines, mic <- vr_mic,
  heard <- vr_heard, inner <- vr_inner, gate <- vr_gate, passing <- vr_passing,
  active <- vr_active, timer <- vr_timer, replyDone <- vr_replyDone, events <- vr_events,
  loop <- vr_loop, held <- vr_held, cancelled <- vr_cancelled, reply <- vr_reply,
  screen <- vr_screen, speaker <- vr_speaker, ended <- vr_ended

Init ==
  /\ which \in {"cron", "heartbeat", "matrix", "conversation", "repl"}
  /\ CronPlugin!Init
  /\ Heartbeat!Init
  /\ Matrix!Init
  /\ IF which = "conversation" THEN Conversation!Init
     ELSE /\ cv_conn = "closed" /\ cv_ctxDone = TRUE /\ cv_registered = FALSE /\ cv_stopped = TRUE
          /\ cv_sent = 0 /\ cv_tee = "done" /\ cv_vadQ = 0 /\ cv_sttQ = 0
          /\ cv_vad = "done" /\ cv_stt = "over" /\ cv_said = 0 /\ cv_events = <<>>
          /\ cv_loop = "returned" /\ cv_held = "none" /\ cv_turn = 0 /\ cv_cancelled = FALSE
          /\ cv_left = 0 /\ cv_pcm = 0 /\ cv_synth = "closed" /\ cv_render = "none"
          /\ cv_wire = <<>>
  /\ IF which = "repl" THEN VoiceRepl!Init
     ELSE /\ vr_interrupted = TRUE /\ vr_keyboard = "closed" /\ vr_lines = 0 /\ vr_mic = "off"
          /\ vr_heard = 0 /\ vr_inner = "none" /\ vr_gate = "closed" /\ vr_passing = "none"
          /\ vr_active = FALSE /\ vr_timer = FALSE /\ vr_replyDone = 0 /\ vr_events = <<>>
          /\ vr_loop = "returned" /\ vr_held = "none" /\ vr_cancelled = FALSE /\ vr_reply = "short"
          /\ vr_screen = "none" /\ vr_speaker = "none" /\ vr_ended = "none"

Next ==
  /\ UNCHANGED which
  /\ \/ /\ which = "cron" /\ CronPlugin!Next
        /\ UNCHANGED <<hb_vars, mx_vars, cv_vars, vr_vars>>
     \/ /\ which = "heartbeat" /\ Heartbeat!Next
        /\ UNCHANGED <<cp_vars, mx_vars, cv_vars, vr_vars>>
     \/ /\ which = "matrix" /\ Matrix!Next
        /\ UNCHANGED <<cp_vars, hb_vars, cv_vars, vr_vars>>
     \/ /\ which = "conversation" /\ Conversation!Next
        /\ UNCHANGED <<cp_vars, hb_vars, mx_vars, vr_vars>>
     \/ /\ which = "repl" /\ VoiceRepl!Next
        /\ UNCHANGED <<cp_vars, hb_vars, mx_vars, cv_vars>>

Spec == Init /\ [][Next]_<<which, cp_vars, hb_vars, mx_vars, cv_vars, vr_vars>>

\* Every goroutine of the component that runs; the others have no step to take.
FairSpec ==
  /\ Spec
  /\ CronPlugin!Fairness /\ Heartbeat!Fairness /\ Matrix!Fairness
  /\ Conversation!Fairness /\ VoiceRepl!Fairness

-----------------------------------------------------------------------------
(* What each component must keep, and how it must end.                     *)

\* cron plugin: one scheduler, no turn beyond its stop, jobs kept; and Apply ends.
CronReloadsEnd ==
  /\ [](which = "cron" => CronPlugin!CronPluginAssumption /\ CronPlugin!JobsSurviveReloads)
  /\ CronPlugin!ApplyEndsUnlessAsked

\* heartbeat: quiet after Stop, and Stop returns, as does that of a matrix channel.
StopsReturn ==
  /\ [](which = "heartbeat" => /\ Heartbeat!TypeOK /\ Heartbeat!StoppedIsQuiet
                               /\ Heartbeat!TurnsDoNotOverlap)
  /\ Heartbeat!StopEnds /\ Matrix!StopReturns

\* web voice ends with its socket; maven --voice has a timer on its wake window, handles its
\* events, and a signal ends it all.
VoiceSessionsEnd ==
  /\ [](which = "repl" => VoiceRepl!TypeOK /\ VoiceRepl!OpenWindowHasATimer)
  /\ Conversation!ConversationEnds
  /\ VoiceRepl!EventsAreHandled /\ VoiceRepl!InterruptQuits

================================================================================
