----------------------------- MODULE VoiceRepl -----------------------------
(***************************************************************************)
(* `maven agent --voice`: the turn loop of the command line with two       *)
(* sources, the keyboard and the microphone behind the wake gate           *)
(* (kernel/voice/wake.go), and two sinks, the screen and the loudspeaker.  *)
(* The loudspeaker's sink is wrapped in NotifyOnDone, whose signal re-arms *)
(* the gate's idle timer.                                                  *)
(*                                                                         *)
(* A spoken event is an onset of speech ("start"), an utterance that       *)
(* begins with the wake phrase ("wake") or another one ("say").  The timer *)
(* has no length: armed, it may run out at any moment.  A short reply fits *)
(* the buffers between the agent and the player, a long one does not.      *)
(***************************************************************************)
EXTENDS Naturals, Sequences

CONSTANTS
  DoneCap,    \* slots of the replyDone channel (1 in main.go)
  EventCap,   \* events between the sources and the turn loop
  MaxLines,   \* bound: lines typed
  MaxHeard    \* bound: events of the microphone

VoiceReplAssumption == DoneCap \in Nat \ {0} /\ EventCap \in Nat

VARIABLES
  interrupted, \* the process got a signal: runCtx is cancelled
  keyboard,    \* KeyboardSource: "reading", "sending" or "closed"
  lines,       \* lines typed
  mic,         \* "on", or "off" when its source has ended
  heard,       \* events the microphone has given
  inner,       \* the event the gate has not taken yet, or "none"
  gate,        \* the gate's goroutine: "select", "forward" or "closed"
  passing,     \* the event the gate is forwarding, or "none"
  active,      \* the conversation window is open
  timer,       \* the idle timer is armed
  replyDone,   \* signals in the replyDone channel
  events,      \* events on their way to the turn loop
  loop,        \* Converse: "select", "wait", "drain", "quit" or "returned"
  held,        \* the event it handles while it waits
  cancelled,   \* the current turn is cancelled
  reply,       \* the length of the current reply: "short" or "long"
  screen,      \* the screen's sink: "none", "rendering" or "done"
  speaker,     \* the loudspeaker's sink: "none", "playing", "broken" or "done"
  ended        \* how the last reply's playback ended: "none", "whole" or "cut"

sources == <<keyboard, lines, mic, heard>>
window == <<gate, passing, active, timer>>
turn == <<cancelled, reply, screen, speaker, ended>>
vars == <<interrupted, sources, inner, window, replyDone, events, loop, held, turn>>

Init ==
  /\ interrupted = FALSE
  /\ keyboard = "reading" /\ lines = 0 /\ mic = "on" /\ heard = 0 /\ inner = "none"
  /\ gate = "select" /\ passing = "none" /\ active = FALSE /\ timer = FALSE
  /\ replyDone = 0 /\ events = <<>> /\ loop = "select" /\ held = "none"
  /\ cancelled = FALSE /\ reply = "short" /\ screen = "none" /\ speaker = "none" /\ ended = "none"

-----------------------------------------------------------------------------
(* The keyboard and the microphone.                                        *)

\* A typed line is an utterance; "exit", "quit" and the end of the input close the source.
ReadLine ==
  /\ keyboard = "reading"
  /\ \/ lines < MaxLines /\ lines' = lines + 1 /\ keyboard' = "sending"
     \/ keyboard' = "closed" /\ UNCHANGED lines
  /\ UNCHANGED <<interrupted, mic, heard, inner, window, replyDone, events, loop, held, turn>>

KeyboardSends ==
  /\ keyboard = "sending"
  /\ \/ Len(events) < EventCap /\ events' = Append(events, "say") /\ keyboard' = "reading"
     \/ interrupted /\ keyboard' = "closed" /\ UNCHANGED events
  /\ UNCHANGED <<interrupted, lines, mic, heard, inner, window, replyDone, loop, held, turn>>

Hear ==
  /\ mic = "on" /\ heard < MaxHeard /\ inner = "none"
  /\ heard' = heard + 1 /\ inner' \in {"start", "say", "wake"}
  /\ UNCHANGED <<interrupted, keyboard, lines, mic, window, replyDone, events, loop, held, turn>>

\* The capture process or the speech service ends.
MicEnds ==
  /\ mic = "on" /\ mic' = "off"
  /\ UNCHANGED <<interrupted, keyboard, lines, heard, inner, window, replyDone, events, loop, held, turn>>

-----------------------------------------------------------------------------
(* The wake gate.                                                          *)

\* wakeGate.step: an utterance opens the window or keeps it open, and stops the timer.
GateTakes ==
  /\ gate = "select" /\ inner # "none"
  /\ inner' = "none"
  /\ IF inner = "wake" \/ (inner = "say" /\ active)
     THEN /\ active' = TRUE /\ timer' = FALSE
          /\ gate' = "forward" /\ passing' = "say"
     ELSE /\ UNCHANGED <<active, timer>>
          /\ IF active THEN gate' = "forward" /\ passing' = "start"
                       ELSE UNCHANGED <<gate, passing>>
  /\ UNCHANGED <<interrupted, sources, replyDone, events, loop, held, turn>>

\* Until the event is forwarded the gate sees neither its timer nor replyDone.
GateForwards ==
  /\ gate = "forward"
  /\ \/ Len(events) < EventCap /\ events' = Append(events, passing) /\ gate' = "select"
     \/ interrupted /\ gate' = "closed" /\ UNCHANGED events
  /\ passing' = "none"
  /\ UNCHANGED <<interrupted, sources, inner, active, timer, replyDone, loop, held, turn>>

WindowCloses ==
  /\ gate = "select" /\ timer
  /\ timer' = FALSE /\ active' = FALSE
  /\ UNCHANGED <<interrupted, sources, inner, gate, passing, replyDone, events, loop, held, turn>>

GateHearsDone ==
  /\ gate = "select" /\ replyDone > 0
  /\ replyDone' = replyDone - 1
  /\ timer' = (timer \/ active)
  /\ UNCHANGED <<interrupted, sources, inner, gate, passing, active, events, loop, held, turn>>

GateEnds ==
  /\ gate = "select" /\ (interrupted \/ (mic = "off" /\ inner = "none"))
  /\ gate' = "closed"
  /\ UNCHANGED <<interrupted, sources, inner, passing, active, timer, replyDone, events, loop, held, turn>>

-----------------------------------------------------------------------------
(* The turn loop (Converse), as in the module Conversation.                *)

TakeEvent ==
  /\ loop = "select" /\ events # <<>>
  /\ held' = Head(events) /\ events' = Tail(events) /\ cancelled' = TRUE /\ loop' = "wait"
  /\ UNCHANGED <<interrupted, sources, inner, window, replyDone, reply, screen, speaker, ended>>

TurnIsOver == screen \in {"none", "done"} /\ speaker \in {"none", "done"}

Handle ==
  /\ loop = "wait" /\ TurnIsOver
  /\ loop' = "select" /\ held' = "none"
  /\ IF held = "say"
     THEN /\ cancelled' = FALSE /\ reply' \in {"short", "long"}
          /\ screen' = "rendering" /\ speaker' = "playing" /\ UNCHANGED ended
     ELSE UNCHANGED turn
  /\ UNCHANGED <<interrupted, sources, inner, window, replyDone, events>>

\* fanIn closes its output when every source has closed, not when one has.
SourcesEnd ==
  /\ loop = "select" /\ events = <<>> /\ keyboard = "closed" /\ gate = "closed"
  /\ loop' = "drain"
  /\ UNCHANGED <<interrupted, sources, inner, window, replyDone, events, held, turn>>

LoopCancelled ==
  /\ loop = "select" /\ interrupted
  /\ loop' = "quit" /\ cancelled' = TRUE
  /\ UNCHANGED <<interrupted, sources, inner, window, replyDone, events, held, reply, screen, speaker, ended>>

Return ==
  /\ loop \in {"drain", "quit"} /\ TurnIsOver
  /\ loop' = "returned"
  /\ UNCHANGED <<interrupted, sources, inner, window, replyDone, events, held, turn>>

-----------------------------------------------------------------------------
(* The sinks.                                                              *)

TurnCancelled == cancelled \/ interrupted

\* Mutation of Blocked: Render waits for the synthesizer whatever became of the turn.
BlockedForGood == speaker = "broken" /\ reply = "long"

\* A player that died drains nothing: with a long reply the Tee before both sinks is blocked.
Blocked == speaker = "broken" /\ reply = "long" /\ ~TurnCancelled

ScreenEnds ==
  /\ screen = "rendering" /\ ~Blocked
  /\ screen' = "done"
  /\ UNCHANGED <<interrupted, sources, inner, window, replyDone, events, loop, held, cancelled, reply, speaker, ended>>

\* Mutation of PlaysWhole: replyDone has no buffer, its signal is lost on a busy gate.
PlaysWholeUnheard ==
  /\ speaker = "playing" /\ ~TurnCancelled
  /\ speaker' = "done" /\ ended' = "whole"
  /\ replyDone' = (IF replyDone < DoneCap /\ gate = "select" THEN replyDone + 1 ELSE replyDone)
  /\ UNCHANGED <<interrupted, sources, inner, window, events, loop, held, cancelled, reply, screen>>

\* The whole reply was played: NotifyOnDone signals, unless the channel is full.
PlaysWhole ==
  /\ speaker = "playing" /\ ~TurnCancelled
  /\ speaker' = "done" /\ ended' = "whole"
  /\ replyDone' = (IF replyDone < DoneCap THEN replyDone + 1 ELSE replyDone)
  /\ UNCHANGED <<interrupted, sources, inner, window, events, loop, held, cancelled, reply, screen>>

PlayerDies ==
  /\ speaker = "playing" /\ speaker' = "broken"
  /\ UNCHANGED <<interrupted, sources, inner, window, replyDone, events, loop, held, cancelled, reply, screen, ended>>

\* The reply is cut by its cancellation, or ends with the player's error (Sink.Render waits for
\* the synthesizer first).
PlaybackCut ==
  /\ speaker \in {"playing", "broken"} /\ ~Blocked /\ (speaker = "broken" \/ TurnCancelled)
  /\ speaker' = "done" /\ ended' = "cut"
  /\ UNCHANGED <<interrupted, sources, inner, window, replyDone, events, loop, held, cancelled, reply, screen>>

Interrupt ==
  /\ ~interrupted /\ interrupted' = TRUE
  /\ UNCHANGED <<sources, inner, window, replyDone, events, loop, held, turn>>

Next ==
  \/ ReadLine \/ KeyboardSends \/ Hear \/ MicEnds
  \/ GateTakes \/ GateForwards \/ WindowCloses \/ GateHearsDone \/ GateEnds
  \/ TakeEvent \/ Handle \/ SourcesEnd \/ LoopCancelled \/ Return
  \/ ScreenEnds \/ PlaysWhole \/ PlayerDies \/ PlaybackCut \/ Interrupt

Spec == Init /\ [][Next]_vars

\* The goroutines run; what the user types or says, the signal and the player's death are free.
\* An armed timer runs out.
Fairness ==
  /\ WF_vars(KeyboardSends) /\ WF_vars(GateTakes) /\ WF_vars(GateForwards) /\ WF_vars(GateEnds)
  /\ WF_vars(GateHearsDone) /\ WF_vars(WindowCloses)
  /\ WF_vars(TakeEvent) /\ WF_vars(Handle) /\ WF_vars(SourcesEnd \/ LoopCancelled \/ Return)
  /\ WF_vars(ScreenEnds) /\ WF_vars(PlaysWhole \/ PlaybackCut)

FairSpec == Spec /\ Fairness

-----------------------------------------------------------------------------
(* Properties.                                                             *)

TypeOK ==
  /\ interrupted \in BOOLEAN /\ active \in BOOLEAN /\ timer \in BOOLEAN /\ cancelled \in BOOLEAN
  /\ keyboard \in {"reading", "sending", "closed"} /\ mic \in {"on", "off"}
  /\ gate \in {"select", "forward", "closed"}
  /\ replyDone \in 0..DoneCap /\ Len(events) <= EventCap
  /\ loop \in {"select", "wait", "drain", "quit", "returned"}
  /\ screen \in {"none", "rendering", "done"} /\ speaker \in {"none", "playing", "broken", "done"}

\* An open window idles out (wake.go, docs/guides/voice.md:32): when the last reply was played to
\* its end and nothing is on its way, the timer is armed; and a dormant gate has none.  replyDone
\* is buffered for this: the gate may be busy when the reply ends, and NotifyOnDone does not wait.
OpenWindowHasATimer ==
  /\ /\ active /\ gate = "select" /\ inner = "none" /\ replyDone = 0
     /\ loop = "select" /\ events = <<>> /\ TurnIsOver /\ ended = "whole"
     => timer
  /\ timer => active

\* An utterance, typed or spoken, gets its turn even when the reply before it is stuck behind a
\* player that died: its cancellation frees both sinks (Converse, cancelTurn).
EventsAreHandled == (loop = "wait") ~> (loop \in {"select", "returned"})

\* A signal ends the program's turn loop.
InterruptQuits == interrupted ~> (loop = "returned")

\* docs/guides/voice.md:32: "The idle timer runs only between turns": the window does not close
\* while a reply is being played.
IdleTimerPauses == [][active /\ ~active' => speaker \in {"none", "done"}]_vars

\* cmd/maven/main.go:308: "type 'exit' to quit".
ExitQuits == (keyboard = "closed" /\ loop = "select" /\ events = <<>> /\ TurnIsOver) ~> (loop = "returned")
=============================================================================
