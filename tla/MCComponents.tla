------------------------------ MODULE MCComponents ------------------------------
(***************************************************************************)
(* The components that stand alone, side by side: a behaviour is one of    *)
(* WeCom, Feishu, Telegram's inbound side or one of its streams, Matrix,   *)
(* the channel manager, the web sockets, the responses, the sessions, the  *)
(* memory, a voice conversation of the web channel or of the command line. *)
(* The others stay as they began.                                          *)
(***************************************************************************)
EXTENDS Naturals

CONSTANTS wc_MsgIds, wc_Users, wc_AllowFrom, wc_MsgTTL, wc_ReplyTTL, wc_Scan, wc_MaxTries,
  wc_MaxCalls, wc_MaxTime, wc_MaxReloads
CONSTANTS fs_Hooks, fs_Sends, fs_Life, fs_Margin, fs_MaxTime
CONSTANTS tg_MaxUpdates, tg_MaxObjects
CONSTANTS ts_StatusGap, ts_ContentGap, ts_DraftGap, ts_Heartbeat, ts_Waits, ts_ChunkSize,
  ts_MaxCall, ts_MaxEvents, ts_MaxRefusals, ts_MaxTime
CONSTANTS mx_MaxEvents, mx_MaxObjects, mx_MaxErrors, mx_MaxCrashes
CONSTANTS cm_Names, cm_MaxApplies, cm_MaxFaults
CONSTANTS ws_MaxConns, ws_MaxQuestions, ws_MaxReloads, ws_Pieces
CONSTANTS rs_Sessions, rs_MaxEntries, rs_TTL, rs_MaxResponses, rs_MaxReloads, rs_MaxTime
CONSTANTS se_Chats, se_TurnKinds, se_StreamedChats, se_MaxTurns, se_MaxErrors,
  se_MaxCrashes
CONSTANTS me_Facts, me_Day, me_Behind, me_ReviewDays, me_Shown, me_Interval, me_MaxTime,
  me_MaxApplies, me_MaxTurns
CONSTANTS cv_Cap, cv_EventCap, cv_MaxFrames, cv_MaxTurns, cv_MaxChunks
CONSTANTS vr_DoneCap, vr_EventCap, vr_MaxLines, vr_MaxHeard

VARIABLE which  \* the component of this behaviour

VARIABLES wc_now, wc_live, wc_seen, wc_urls, wc_jobs, wc_published, wc_send, wc_outcome
VARIABLES fs_now, fs_mu, fs_token, fs_exp, fs_issued, fs_asked, fs_late, fs_pc, fs_kind,
  fs_gone, fs_got, fs_fetches, fs_published
VARIABLES tg_log, tg_confirmed, tg_live, tg_polls, tg_cancelled, tg_commands, tg_since,
  tg_offset, tg_queue, tg_album, tg_flushing, tg_published, tg_answered
VARIABLES ts_now, ts_asof, ts_mode, ts_pc, ts_left, ts_text, ts_cooldown, ts_status,
  ts_content, ts_toSend, ts_again, ts_refusals, ts_told, ts_toldAll, ts_calls, ts_chat
VARIABLES mx_log, mx_disk, mx_mem, mx_pc, mx_upto, mx_at, mx_cancelled, mx_built,
  mx_published, mx_manager, mx_current, mx_errors, mx_crashes
VARIABLES cm_phase, cm_gen, cm_channels, cm_next, cm_todo, cm_subs, cm_store, cm_conn,
  cm_stopped, cm_unclosed, cm_rootEnds, cm_faults
VARIABLES ws_gen, ws_phase, ws_nextID, ws_conns, ws_clients, ws_asked, ws_writes
VARIABLES rs_now, rs_channels, rs_responses, rs_entries, rs_used
VARIABLES se_router, se_file, se_shape, se_store, se_seeds, se_pc, se_cur, se_seen,
  se_flushed, se_result, se_turns, se_errors, se_crashes, se_conv, se_past, se_misled,
  se_excused
VARIABLES me_now, me_gateway, me_applies, me_built, me_known, me_longTerm, me_made, me_rt,
  me_closing, me_closes, me_shadows, me_journal, me_next, me_pass, me_reviewed, me_upset
VARIABLES cv_conn, cv_ctxDone, cv_registered, cv_stopped, cv_sent, cv_tee, cv_vadQ,
  cv_sttQ, cv_vad, cv_stt, cv_said, cv_events, cv_loop, cv_held, cv_turn, cv_cancelled,
  cv_left, cv_pcm, cv_synth, cv_render, cv_wire
VARIABLES vr_interrupted, vr_keyboard, vr_lines, vr_mic, vr_heard, vr_inner, vr_gate,
  vr_passing, vr_active, vr_timer, vr_replyDone, vr_events, vr_loop, vr_held, vr_cancelled,
  vr_reply, vr_screen, vr_speaker, vr_ended

wc_vars ==
  <<wc_now, wc_live, wc_seen, wc_urls, wc_jobs, wc_published, wc_send, wc_outcome>>
WeCom == INSTANCE WeCom WITH
  MsgIds <- wc_MsgIds, Users <- wc_Users, AllowFrom <- wc_AllowFrom, MsgTTL <- wc_MsgTTL,
  ReplyTTL <- wc_ReplyTTL, Scan <- wc_Scan, MaxTries <- wc_MaxTries,
  MaxCalls <- wc_MaxCalls, MaxTime <- wc_MaxTime, MaxReloads <- wc_MaxReloads,
  now <- wc_now, live <- wc_live, seen <- wc_seen, urls <- wc_urls, jobs <- wc_jobs,
  published <- wc_published, send <- wc_send, outcome <- wc_outcome

fs_vars ==
  <<fs_now, fs_mu, fs_token, fs_exp, fs_issued, fs_asked, fs_late, fs_pc, fs_kind, fs_gone,
    fs_got, fs_fetches, fs_published>>
Feishu == INSTANCE Feishu WITH
  Hooks <- fs_Hooks, Sends <- fs_Sends, Life <- fs_Life, Margin <- fs_Margin,
  MaxTime <- fs_MaxTime,
  now <- fs_now, mu <- fs_mu, token <- fs_token, exp <- fs_exp, issued <- fs_issued,
  asked <- fs_asked, late <- fs_late, pc <- fs_pc, kind <- fs_kind, gone <- fs_gone,
  got <- fs_got, fetches <- fs_fetches, published <- fs_published

tg_vars ==
  <<tg_log, tg_confirmed, tg_live, tg_polls, tg_cancelled, tg_commands, tg_since, tg_offset,
    tg_queue, tg_album, tg_flushing, tg_published, tg_answered>>
Telegram == INSTANCE Telegram WITH
  MaxUpdates <- tg_MaxUpdates, MaxObjects <- tg_MaxObjects,
  log <- tg_log, confirmed <- tg_confirmed, live <- tg_live, polls <- tg_polls,
  cancelled <- tg_cancelled, commands <- tg_commands, since <- tg_since,
  offset <- tg_offset, queue <- tg_queue, album <- tg_album, flushing <- tg_flushing,
  published <- tg_published, answered <- tg_answered

ts_vars ==
  <<ts_now, ts_asof, ts_mode, ts_pc, ts_left, ts_text, ts_cooldown, ts_status, ts_content,
    ts_toSend, ts_again, ts_refusals, ts_told, ts_toldAll, ts_calls, ts_chat>>
TelegramStream == INSTANCE TelegramStream WITH
  StatusGap <- ts_StatusGap, ContentGap <- ts_ContentGap, DraftGap <- ts_DraftGap,
  Heartbeat <- ts_Heartbeat, Waits <- ts_Waits, ChunkSize <- ts_ChunkSize,
  MaxCall <- ts_MaxCall, MaxEvents <- ts_MaxEvents, MaxRefusals <- ts_MaxRefusals,
  MaxTime <- ts_MaxTime,
  now <- ts_now, asof <- ts_asof, mode <- ts_mode, pc <- ts_pc, left <- ts_left,
  text <- ts_text, cooldown <- ts_cooldown, status <- ts_status, content <- ts_content,
  toSend <- ts_toSend, again <- ts_again, refusals <- ts_refusals, told <- ts_told,
  toldAll <- ts_toldAll, calls <- ts_calls, chat <- ts_chat

mx_vars ==
  <<mx_log, mx_disk, mx_mem, mx_pc, mx_upto, mx_at, mx_cancelled, mx_built, mx_published,
    mx_manager, mx_current, mx_errors, mx_crashes>>
Matrix == INSTANCE Matrix WITH
  MaxEvents <- mx_MaxEvents, MaxObjects <- mx_MaxObjects, MaxErrors <- mx_MaxErrors,
  MaxCrashes <- mx_MaxCrashes,
  log <- mx_log, disk <- mx_disk, mem <- mx_mem, pc <- mx_pc, upto <- mx_upto, at <- mx_at,
  cancelled <- mx_cancelled, built <- mx_built, published <- mx_published,
  manager <- mx_manager, current <- mx_current, errors <- mx_errors, crashes <- mx_crashes

cm_vars ==
  <<cm_phase, cm_gen, cm_channels, cm_next, cm_todo, cm_subs, cm_store, cm_conn, cm_stopped,
    cm_unclosed, cm_rootEnds, cm_faults>>
ChannelManager == INSTANCE ChannelManager WITH
  Names <- cm_Names, MaxApplies <- cm_MaxApplies, MaxFaults <- cm_MaxFaults,
  phase <- cm_phase, gen <- cm_gen, channels <- cm_channels, next <- cm_next,
  todo <- cm_todo, subs <- cm_subs, store <- cm_store, conn <- cm_conn,
  stopped <- cm_stopped, unclosed <- cm_unclosed, rootEnds <- cm_rootEnds,
  faults <- cm_faults

ws_vars ==
  <<ws_gen, ws_phase, ws_nextID, ws_conns, ws_clients, ws_asked, ws_writes>>
WebSockets == INSTANCE WebSockets WITH
  MaxConns <- ws_MaxConns, MaxQuestions <- ws_MaxQuestions, MaxReloads <- ws_MaxReloads,
  Pieces <- ws_Pieces,
  gen <- ws_gen, phase <- ws_phase, nextID <- ws_nextID, conns <- ws_conns,
  clients <- ws_clients, asked <- ws_asked, writes <- ws_writes

rs_vars ==
  <<rs_now, rs_channels, rs_responses, rs_entries, rs_used>>
Responses == INSTANCE Responses WITH
  Sessions <- rs_Sessions, MaxEntries <- rs_MaxEntries, TTL <- rs_TTL,
  MaxResponses <- rs_MaxResponses, MaxReloads <- rs_MaxReloads, MaxTime <- rs_MaxTime,
  now <- rs_now, channels <- rs_channels, responses <- rs_responses, entries <- rs_entries,
  used <- rs_used

se_vars ==
  <<se_router, se_file, se_shape, se_store, se_seeds, se_pc, se_cur, se_seen, se_flushed,
    se_result, se_turns, se_errors, se_crashes, se_conv, se_past, se_misled, se_excused>>
Session == INSTANCE Session WITH
  Chats <- se_Chats, TurnKinds <- se_TurnKinds, StreamedChats <- se_StreamedChats,
  MaxTurns <- se_MaxTurns, MaxErrors <- se_MaxErrors, MaxCrashes <- se_MaxCrashes,
  router <- se_router, file <- se_file, shape <- se_shape, store <- se_store,
  seeds <- se_seeds, pc <- se_pc, cur <- se_cur, seen <- se_seen, flushed <- se_flushed,
  result <- se_result, turns <- se_turns, errors <- se_errors, crashes <- se_crashes,
  conv <- se_conv, past <- se_past, misled <- se_misled, excused <- se_excused

me_vars ==
  <<me_now, me_gateway, me_applies, me_built, me_known, me_longTerm, me_made, me_rt,
    me_closing, me_closes, me_shadows, me_journal, me_next, me_pass, me_reviewed, me_upset>>
Memory == INSTANCE Memory WITH
  Facts <- me_Facts, Day <- me_Day, Behind <- me_Behind, ReviewDays <- me_ReviewDays,
  Shown <- me_Shown, Interval <- me_Interval, MaxTime <- me_MaxTime,
  MaxApplies <- me_MaxApplies, MaxTurns <- me_MaxTurns,
  now <- me_now, gateway <- me_gateway, applies <- me_applies, built <- me_built,
  known <- me_known, longTerm <- me_longTerm, made <- me_made, rt <- me_rt,
  closing <- me_closing, closes <- me_closes, shadows <- me_shadows, journal <- me_journal,
  next <- me_next, pass <- me_pass, reviewed <- me_reviewed, upset <- me_upset

cv_vars ==
  <<cv_conn, cv_ctxDone, cv_registered, cv_stopped, cv_sent, cv_tee, cv_vadQ, cv_sttQ,
    cv_vad, cv_stt, cv_said, cv_events, cv_loop, cv_held, cv_turn, cv_cancelled, cv_left,
    cv_pcm, cv_synth, cv_render, cv_wire>>
Conversation == INSTANCE Conversation WITH
  Cap <- cv_Cap, EventCap <- cv_EventCap, MaxFrames <- cv_MaxFrames,
  MaxTurns <- cv_MaxTurns, MaxChunks <- cv_MaxChunks,
  conn <- cv_conn, ctxDone <- cv_ctxDone, registered <- cv_registered,
  stopped <- cv_stopped, sent <- cv_sent, tee <- cv_tee, vadQ <- cv_vadQ, sttQ <- cv_sttQ,
  vad <- cv_vad, stt <- cv_stt, said <- cv_said, events <- cv_events, loop <- cv_loop,
  held <- cv_held, turn <- cv_turn, cancelled <- cv_cancelled, left <- cv_left,
  pcm <- cv_pcm, synth <- cv_synth, render <- cv_render, wire <- cv_wire

vr_vars ==
  <<vr_interrupted, vr_keyboard, vr_lines, vr_mic, vr_heard, vr_inner, vr_gate, vr_passing,
    vr_active, vr_timer, vr_replyDone, vr_events, vr_loop, vr_held, vr_cancelled, vr_reply,
    vr_screen, vr_speaker, vr_ended>>
VoiceRepl == INSTANCE VoiceRepl WITH
  DoneCap <- vr_DoneCap, EventCap <- vr_EventCap, MaxLines <- vr_MaxLines,
  MaxHeard <- vr_MaxHeard,
  interrupted <- vr_interrupted, keyboard <- vr_keyboard, lines <- vr_lines, mic <- vr_mic,
  heard <- vr_heard, inner <- vr_inner, gate <- vr_gate, passing <- vr_passing,
  active <- vr_active, timer <- vr_timer, replyDone <- vr_replyDone, events <- vr_events,
  loop <- vr_loop, held <- vr_held, cancelled <- vr_cancelled, reply <- vr_reply,
  screen <- vr_screen, speaker <- vr_speaker, ended <- vr_ended

vars ==
  <<which, wc_vars, fs_vars, tg_vars, ts_vars, mx_vars, cm_vars, ws_vars, rs_vars, se_vars,
    me_vars, cv_vars, vr_vars>>

\* What the limits of the code give: lives and intervals are numbers of ticks, bounds are numbers.
ASSUME ComponentsAssumption ==
  /\ WeCom!WeComAssumption /\ Feishu!FeishuAssumption /\ ChannelManager!ManagerAssumption
  /\ Responses!ResponsesAssumption /\ Session!SessionAssumption /\ WebSockets!WebSocketsAssumption
  /\ Memory!MemoryAssumption /\ Telegram!TelegramAssumption /\ TelegramStream!StreamAssumption
  /\ Matrix!MatrixAssumption
  /\ Conversation!ConversationAssumption /\ VoiceRepl!VoiceReplAssumption

Init ==
  /\ which \in {"wecom", "feishu", "telegram", "stream", "matrix", "manager", "web", "responses", "session", "memory", "conversation", "repl"}
  /\ WeCom!Init
  /\ Feishu!Init
  /\ Telegram!Init
  /\ TelegramStream!Init
  /\ Matrix!Init
  /\ ChannelManager!Init
  /\ WebSockets!Init
  /\ Responses!Init
  /\ Session!Init
  /\ Memory!Init
  /\ Conversation!Init
  /\ VoiceRepl!Init
  /\ which # "stream" => ts_mode = [draft |-> FALSE, card |-> TRUE]

Next ==
  /\ UNCHANGED which
  /\ \/ /\ which = "wecom" /\ WeCom!Next
        /\ UNCHANGED <<fs_vars, tg_vars, ts_vars, mx_vars, cm_vars, ws_vars, rs_vars, se_vars, me_vars, cv_vars, vr_vars>>
     \/ /\ which = "feishu" /\ Feishu!Next
        /\ UNCHANGED <<wc_vars, tg_vars, ts_vars, mx_vars, cm_vars, ws_vars, rs_vars, se_vars, me_vars, cv_vars, vr_vars>>
     \/ /\ which = "telegram" /\ Telegram!Next
        /\ UNCHANGED <<wc_vars, fs_vars, ts_vars, mx_vars, cm_vars, ws_vars, rs_vars, se_vars, me_vars, cv_vars, vr_vars>>
     \/ /\ which = "stream" /\ TelegramStream!Next
        /\ UNCHANGED <<wc_vars, fs_vars, tg_vars, mx_vars, cm_vars, ws_vars, rs_vars, se_vars, me_vars, cv_vars, vr_vars>>
     \/ /\ which = "matrix" /\ Matrix!Next
        /\ UNCHANGED <<wc_vars, fs_vars, tg_vars, ts_vars, cm_vars, ws_vars, rs_vars, se_vars, me_vars, cv_vars, vr_vars>>
     \/ /\ which = "manager" /\ ChannelManager!Next
        /\ UNCHANGED <<wc_vars, fs_vars, tg_vars, ts_vars, mx_vars, ws_vars, rs_vars, se_vars, me_vars, cv_vars, vr_vars>>
     \/ /\ which = "web" /\ WebSockets!Next
        /\ UNCHANGED <<wc_vars, fs_vars, tg_vars, ts_vars, mx_vars, cm_vars, rs_vars, se_vars, me_vars, cv_vars, vr_vars>>
     \/ /\ which = "responses" /\ Responses!Next
        /\ UNCHANGED <<wc_vars, fs_vars, tg_vars, ts_vars, mx_vars, cm_vars, ws_vars, se_vars, me_vars, cv_vars, vr_vars>>
     \/ /\ which = "session" /\ Session!Next
        /\ UNCHANGED <<wc_vars, fs_vars, tg_vars, ts_vars, mx_vars, cm_vars, ws_vars, rs_vars, me_vars, cv_vars, vr_vars>>
     \/ /\ which = "memory" /\ Memory!Next
        /\ UNCHANGED <<wc_vars, fs_vars, tg_vars, ts_vars, mx_vars, cm_vars, ws_vars, rs_vars, se_vars, cv_vars, vr_vars>>
     \/ /\ which = "conversation" /\ Conversation!Next
        /\ UNCHANGED <<wc_vars, fs_vars, tg_vars, ts_vars, mx_vars, cm_vars, ws_vars, rs_vars, se_vars, me_vars, vr_vars>>
     \/ /\ which = "repl" /\ VoiceRepl!Next
        /\ UNCHANGED <<wc_vars, fs_vars, tg_vars, ts_vars, mx_vars, cm_vars, ws_vars, rs_vars, se_vars, me_vars, cv_vars>>

Spec == Init /\ [][Next]_vars

-----------------------------------------------------------------------------
(* What each component must keep; its module says what it is about.        *)

\* wecom: repeats, answerable chats and where the answers go.
WeComKeepsItsChats ==
  which = "wecom" => WeCom!WeComKeepsItsChats

\* feishu: the shared token and the messages that wait for it.
FeishuTokensAreGood ==
  which = "feishu" => Feishu!FeishuTokensAreGood

\* telegram, inbound: nothing fetched is lost, nothing is published twice.
TelegramHandlesEachUpdate ==
  which = "telegram" => Telegram!TelegramHandlesEachUpdate

\* telegram, one streamed answer: retry_after is respected and the text arrives whole.
TelegramStreamsEndWell ==
  which = "stream" => TelegramStream!TelegramStreamsEndWell

\* matrix: what is published again a reload had overlapped, and no message is left out.
MatrixSyncResumes ==
  which = "matrix" => Matrix!MatrixSyncResumes

\* ChannelManager with the lifecycle of the channels it replaces.
ChannelsAreHandedOver ==
  which = "manager" => ChannelManager!ChannelsAreHandedOver

\* web sockets: the clients of the web channel and their numbers.
WebClientsAreToldApart ==
  which = "web" => WebSockets!WebClientsAreToldApart

\* the response table of the HTTP API.
ResponsesAreContinued ==
  which = "responses" => Responses!ResponsesAreContinued

\* sessions: the router, the histories and the seeds.
SessionsKeepTheirHistory ==
  which = "session" => Session!SessionsKeepTheirHistory

\* memory: the shadow journaler's runtimes, and the journal before the consolidation.
MemoryIsLookedAfter ==
  which = "memory" => Memory!MemoryIsLookedAfter

\* web voice: a barge-in silences, a turn ends once, the handler leaves no sink behind; and the
\* command line's wake window has its timer.
VoiceTurnsDoNotMix ==
  /\ [](which = "conversation" => /\ Conversation!TypeOK /\ Conversation!EndsOnce
                                  /\ Conversation!ReturnedIsQuiet)
  /\ [](which = "repl" => VoiceRepl!TypeOK /\ VoiceRepl!OpenWindowHasATimer)
  /\ Conversation!BargeInSilences

================================================================================
