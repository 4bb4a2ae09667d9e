---------------------------- MODULE Conversation ----------------------------
(***************************************************************************)
(* One voice conversation over a web socket: the goroutines that read the  *)
(* client's audio and split it between the voice activity detector and the *)
(* transcriber (adapter.voiceSource over converse.Tee), the turn loop      *)
(* (converse.Converse over fanIn), the reply pipeline of the current turn  *)
(* (adapter.Agent, Sentencize, Synthesize), the sink that writes its audio *)
(* frames (wsVoiceSink.Render), and the transport's handler around them.   *)
(*                                                                         *)
(* A frame of sound and a chunk of speech carry no content.  Channels in a *)
(* row that only copy (socket reader and Tee; the source's channel, fanIn  *)
(* and its output; deltas, sentences and PCM) are one bounded buffer each. *)
(***************************************************************************)
EXTENDS Naturals, Sequences

CONSTANTS
  Cap,         \* slots of each audio channel (64 and 16 in the code)
  EventCap,    \* events between the source and the turn loop
  MaxFrames,   \* bound: frames of sound the client sends
  MaxTurns,    \* bound: utterances the transcriber finds
  MaxChunks    \* bound: chunks of speech in one reply

ConversationAssumption == {Cap, EventCap, MaxFrames, MaxTurns, MaxChunks} \subseteq Nat

VARIABLES
  conn,        \* the web socket: "open" or "closed"
  ctxDone,     \* the client's context is cancelled
  registered,  \* Transport.voiceClients holds this client
  stopped,     \* Transport.Stop has run
  sent,        \* frames the client has sent
  tee,         \* the goroutine of Tee over the audio: "idle", "vad", "stt" or "done"
  vadQ, sttQ,  \* frames in the two channels of that Tee
  vad,         \* the detector's goroutine: "listening", "sending" or "done"
  stt,         \* the transcriber's loop: "listening", "sending" or "over"
  said,        \* utterances found so far
  events,      \* events on their way to the turn loop
  loop,        \* Converse: "select", "wait", "drain", "quit" or "returned"
  held,        \* the event Converse handles while it waits for the old turn
  turn,        \* the number of the current turn
  cancelled,   \* turnCancel was called for the current turn
  left,        \* chunks the reply of the current turn has yet to produce
  pcm,         \* chunks synthesized and not yet taken by the sink
  synth,       \* the Synthesize goroutine: "running" or "closed"
  render,      \* the sink: "none", "rendering", "clearing", "settling" or "done"
  wire         \* the last frame the client received and the endings since the loop was done with an
               \* event, which is noted as "heard"

source == <<sent, tee, vadQ, sttQ, vad, stt, said>>
reply == <<turn, left, pcm, synth, render>>
handler == <<conn, ctxDone, registered, stopped>>
vars == <<source, events, loop, held, cancelled, reply, handler, wire>>

Record(kind) ==
  wire' = [kind |-> kind, turn |-> turn,
           ends |-> CASE kind = "heard" -> 0 [] kind = "pcm" -> wire.ends [] OTHER -> wire.ends + 1]

Init ==
  /\ conn = "open" /\ ctxDone = FALSE /\ registered = TRUE /\ stopped = FALSE
  /\ sent = 0 /\ tee = "idle" /\ vadQ = 0 /\ sttQ = 0
  /\ vad = "listening" /\ stt = "listening" /\ said = 0
  /\ events = <<>> /\ loop = "select" /\ held = "none"
  /\ turn = 0 /\ cancelled = FALSE /\ left = 0 /\ pcm = 0
  /\ synth = "closed" /\ render = "none" /\ wire = [kind |-> "heard", turn |-> 0, ends |-> 0]

-----------------------------------------------------------------------------
(* The source.                                                             *)

\* The reader of wsPCMOpener hands Tee a binary frame, or ends.
ReadFrame ==
  /\ tee = "idle" /\ conn = "open" /\ sent < MaxFrames
  /\ sent' = sent + 1 /\ tee' = "vad"
  /\ UNCHANGED <<vadQ, sttQ, vad, stt, said, events, loop, held, cancelled, reply, handler, wire>>

ReadEnds ==
  /\ tee = "idle" /\ (conn = "closed" \/ ctxDone)
  /\ tee' = "done"
  /\ UNCHANGED <<sent, vadQ, sttQ, vad, stt, said, events, loop, held, cancelled, reply, handler, wire>>

\* Mutation of TeeSend: it does not watch the context while it sends.
TeeSendOnly ==
  /\ \/ tee = "vad" /\ vadQ < Cap /\ vadQ' = vadQ + 1 /\ tee' = "stt" /\ UNCHANGED sttQ
     \/ tee = "stt" /\ sttQ < Cap /\ sttQ' = sttQ + 1 /\ tee' = "idle" /\ UNCHANGED vadQ
  /\ UNCHANGED <<sent, vad, stt, said, events, loop, held, cancelled, reply, handler, wire>>

\* Tee copies the frame to one output after the other; each send waits for room or the context.
TeeSend ==
  /\ \/ tee = "vad" /\ vadQ < Cap /\ vadQ' = vadQ + 1 /\ tee' = "stt" /\ UNCHANGED sttQ
     \/ tee = "stt" /\ sttQ < Cap /\ sttQ' = sttQ + 1 /\ tee' = "idle" /\ UNCHANGED vadQ
     \/ tee \in {"vad", "stt"} /\ ctxDone /\ tee' = "done" /\ UNCHANGED <<vadQ, sttQ>>
  /\ UNCHANGED <<sent, vad, stt, said, events, loop, held, cancelled, reply, handler, wire>>

\* The detector takes a frame and may find the onset of speech; it ends with its channel.
VadTakes ==
  /\ vad = "listening"
  /\ \/ vadQ > 0 /\ vadQ' = vadQ - 1 /\ vad' \in {"listening", "sending"}
     \/ vadQ = 0 /\ tee = "done" /\ vad' = "done" /\ UNCHANGED vadQ
  /\ UNCHANGED <<sent, tee, sttQ, stt, said, events, loop, held, cancelled, reply, handler, wire>>

VadSends ==
  /\ vad = "sending"
  /\ \/ Len(events) < EventCap /\ events' = Append(events, "start") /\ vad' = "listening"
     \/ ctxDone /\ vad' = "done" /\ UNCHANGED events
  /\ UNCHANGED <<sent, tee, vadQ, sttQ, stt, said, loop, held, cancelled, reply, handler, wire>>

\* The transcriber takes a frame and may complete an utterance; its channel closes with the audio.
SttTakes ==
  /\ stt = "listening"
  /\ \/ /\ sttQ > 0 /\ sttQ' = sttQ - 1
        /\ \/ UNCHANGED <<stt, said>>
           \/ said < MaxTurns /\ said' = said + 1 /\ stt' = "sending"
     \/ ((sttQ = 0 /\ tee = "done") \/ ctxDone) /\ stt' = "over" /\ UNCHANGED <<sttQ, said>>
  /\ UNCHANGED <<sent, tee, vadQ, vad, events, loop, held, cancelled, reply, handler, wire>>

SttSends ==
  /\ stt = "sending"
  /\ \/ Len(events) < EventCap /\ events' = Append(events, "say") /\ stt' = "listening"
     \/ ctxDone /\ stt' = "over" /\ UNCHANGED events
  /\ UNCHANGED <<sent, tee, vadQ, sttQ, vad, said, loop, held, cancelled, reply, handler, wire>>

\* The speech service refuses the connection or drops it: nobody drains its audio from then on.
SttFails ==
  /\ stt = "listening" /\ tee # "done" /\ stt' = "over"
  /\ UNCHANGED <<sent, tee, vadQ, sttQ, vad, said, events, loop, held, cancelled, reply, handler, wire>>

SourceClosed == vad = "done" /\ stt = "over"

-----------------------------------------------------------------------------
(* The turn loop.                                                          *)

\* Every event first cancels the current turn (cancelTurn), then waits for its sinks.
TakeEvent ==
  /\ loop = "select" /\ events # <<>>
  /\ held' = Head(events) /\ events' = Tail(events)
  /\ cancelled' = TRUE /\ loop' = "wait"
  /\ UNCHANGED <<source, reply, handler, wire>>

TurnIsOver == render \in {"none", "done"}

\* Mutation of Handle: Converse waits for the old turn only before it starts another one.
HandleAtOnce ==
  /\ loop = "wait" /\ (held = "start" \/ TurnIsOver)
  /\ loop' = "select" /\ held' = "none" /\ Record("heard")
  /\ IF held = "say"
     THEN /\ turn' = turn + 1 /\ cancelled' = FALSE /\ left' \in 0..MaxChunks
          /\ pcm' = 0 /\ synth' = "running" /\ render' = "rendering"
     ELSE UNCHANGED <<reply, cancelled>>
  /\ UNCHANGED <<source, events, handler>>

\* The old turn is over: an utterance starts the next one.
Handle ==
  /\ loop = "wait" /\ TurnIsOver
  /\ loop' = "select" /\ held' = "none" /\ Record("heard")
  /\ IF held = "say"
     THEN /\ turn' = turn + 1 /\ cancelled' = FALSE /\ left' \in 0..MaxChunks
          /\ pcm' = 0 /\ synth' = "running" /\ render' = "rendering"
     ELSE UNCHANGED <<reply, cancelled>>
  /\ UNCHANGED <<source, events, handler>>

\* Mutation of SourcesEnd: closed sources are noticed at the next event only.
SourcesEndUnseen ==
  /\ loop = "select" /\ events # <<>> /\ SourceClosed
  /\ loop' = "drain"
  /\ UNCHANGED <<source, events, held, cancelled, reply, handler, wire>>

\* The sources are closed: the last turn may finish.  A cancelled context cancels it.
SourcesEnd ==
  /\ loop = "select" /\ events = <<>> /\ SourceClosed
  /\ loop' = "drain"
  /\ UNCHANGED <<source, events, held, cancelled, reply, handler, wire>>

LoopCancelled ==
  /\ loop = "select" /\ ctxDone
  /\ loop' = "quit" /\ cancelled' = TRUE
  /\ UNCHANGED <<source, events, held, reply, handler, wire>>

\* Mutation of Return: the turn loop does not wait for the last turn.
ReturnAtOnce ==
  /\ loop \in {"drain", "quit"}
  /\ loop' = "returned"
  /\ ctxDone' = TRUE /\ registered' = FALSE /\ conn' = "closed"
  /\ UNCHANGED <<source, events, held, cancelled, reply, stopped, wire>>

\* Converse returns and with it the handler: its deferred calls cancel, delete and close.
Return ==
  /\ loop \in {"drain", "quit"} /\ TurnIsOver
  /\ loop' = "returned"
  /\ ctxDone' = TRUE /\ registered' = FALSE /\ conn' = "closed"
  /\ UNCHANGED <<source, events, held, cancelled, reply, stopped, wire>>

-----------------------------------------------------------------------------
(* The reply of the current turn.                                          *)

TurnCancelled == cancelled \/ ctxDone

\* A select between a full pipe and a cancelled context takes either.
Produce ==
  /\ synth = "running" /\ left > 0 /\ pcm < Cap
  /\ left' = left - 1 /\ pcm' = pcm + 1
  /\ UNCHANGED <<source, events, loop, held, cancelled, turn, synth, render, handler, wire>>

SynthEnds ==
  /\ synth = "running" /\ (left = 0 \/ TurnCancelled)
  /\ synth' = "closed"
  /\ UNCHANGED <<source, events, loop, held, cancelled, turn, left, pcm, render, handler, wire>>

\* The speech service fails: the reply ends without the rest.
TtsFails ==
  /\ synth = "running" /\ left > 0
  /\ synth' = "closed" /\ left' = 0
  /\ UNCHANGED <<source, events, loop, held, cancelled, turn, pcm, render, handler, wire>>

\* Render takes a chunk and writes it.  A cancelled write may still reach the client; one that
\* times out (the peer does not read) counts as an interruption too; another error ends Render.
WritePcm ==
  /\ render = "rendering" /\ pcm > 0
  /\ pcm' = pcm - 1
  /\ \/ conn = "open" /\ Record("pcm") /\ UNCHANGED <<render, conn>>
     \/ TurnCancelled /\ render' = "clearing" /\ UNCHANGED <<conn, wire>>
     \/ conn = "open" /\ render' = "clearing" /\ conn' = "closed" /\ UNCHANGED wire
     \/ conn = "closed" /\ render' = "done" /\ UNCHANGED <<conn, wire>>
  /\ UNCHANGED <<source, events, loop, held, cancelled, turn, left, synth, ctxDone, registered, stopped>>

\* The reply is complete: stream_done, written under the turn's context.
WriteDone ==
  /\ render = "rendering" /\ pcm = 0 /\ synth = "closed"
  /\ render' = "done"
  /\ \/ conn = "open" /\ Record("done")
     \/ (conn = "closed" \/ TurnCancelled) /\ UNCHANGED wire
  /\ UNCHANGED <<source, events, loop, held, cancelled, turn, left, pcm, synth, handler>>

SeeCancel ==
  /\ render = "rendering" /\ TurnCancelled
  /\ render' = "clearing"
  /\ UNCHANGED <<source, events, loop, held, cancelled, turn, left, pcm, synth, handler, wire>>

\* Mutation of WriteClear: Render goes on after the clear sentinel.
WriteClearAndResume ==
  /\ render = "clearing"
  /\ render' = (IF pcm > 0 THEN "rendering" ELSE "settling")
  /\ IF conn = "open" THEN Record("clear") ELSE UNCHANGED wire
  /\ UNCHANGED <<source, events, loop, held, cancelled, turn, left, pcm, synth, handler>>

\* An interrupted turn tells the client to drop what it has, on a context of its own ...
WriteClear ==
  /\ render = "clearing"
  /\ render' = "settling"
  /\ IF conn = "open" THEN Record("clear") ELSE UNCHANGED wire
  /\ UNCHANGED <<source, events, loop, held, cancelled, turn, left, pcm, synth, handler>>

\* ... and waits for the synthesizer.
Settle ==
  /\ render = "settling" /\ synth = "closed"
  /\ render' = "done"
  /\ UNCHANGED <<source, events, loop, held, cancelled, turn, left, pcm, synth, handler, wire>>

-----------------------------------------------------------------------------
(* The client and the transport.                                           *)

ClientCloses ==
  /\ conn = "open" /\ conn' = "closed"
  /\ UNCHANGED <<source, events, loop, held, cancelled, reply, ctxDone, registered, stopped, wire>>

\* voiceClients is keyed by session: another connection of the session replaces this entry,
\* and deletes it when it ends.
Displaced ==
  /\ registered /\ loop # "returned" /\ registered' = FALSE
  /\ UNCHANGED <<source, events, loop, held, cancelled, reply, conn, ctxDone, stopped, wire>>

\* Transport.Stop cancels and closes the clients it finds.
Stop ==
  /\ ~stopped /\ stopped' = TRUE
  /\ IF registered THEN ctxDone' = TRUE /\ conn' = "closed" ELSE UNCHANGED <<ctxDone, conn>>
  /\ UNCHANGED <<source, events, loop, held, cancelled, reply, registered, wire>>

SourceStep == ReadEnds \/ TeeSend \/ VadTakes \/ VadSends \/ SttTakes \/ SttSends
LoopStep == TakeEvent \/ Handle \/ SourcesEnd \/ LoopCancelled \/ Return
ReplyStep == Produce \/ SynthEnds
RenderStep == WritePcm \/ WriteDone \/ SeeCancel \/ WriteClear \/ Settle

Next ==
  \/ ReadFrame \/ ReadEnds \/ TeeSend \/ VadTakes \/ VadSends \/ SttTakes \/ SttSends \/ SttFails
  \/ TakeEvent \/ Handle \/ SourcesEnd \/ LoopCancelled \/ Return
  \/ Produce \/ SynthEnds \/ TtsFails
  \/ WritePcm \/ WriteDone \/ SeeCancel \/ WriteClear \/ Settle
  \/ ClientCloses \/ Displaced \/ Stop

Spec == Init /\ [][Next]_vars

\* Each goroutine that can run, runs; the client, the services' failures and Stop are free.
Fairness ==
  /\ WF_vars(ReadEnds) /\ WF_vars(TeeSend) /\ WF_vars(VadTakes) /\ WF_vars(VadSends)
  /\ WF_vars(SttTakes) /\ WF_vars(SttSends)
  /\ WF_vars(LoopStep) /\ WF_vars(ReplyStep) /\ WF_vars(RenderStep)

FairSpec == Spec /\ Fairness

-----------------------------------------------------------------------------
(* Properties.                                                             *)

TypeOK ==
  /\ conn \in {"open", "closed"} /\ ctxDone \in BOOLEAN /\ registered \in BOOLEAN /\ stopped \in BOOLEAN
  /\ sent \in 0..MaxFrames /\ vadQ \in 0..Cap /\ sttQ \in 0..Cap /\ pcm \in 0..Cap
  /\ tee \in {"idle", "vad", "stt", "done"}
  /\ vad \in {"listening", "sending", "done"} /\ stt \in {"listening", "sending", "over"}
  /\ loop \in {"select", "wait", "drain", "quit", "returned"}
  /\ render \in {"none", "rendering", "clearing", "settling", "done"}
  /\ synth \in {"running", "closed"} /\ turn \in 0..MaxTurns /\ Len(events) <= EventCap

\* A barge-in silences the old turn (converse.go, cancelTurn waits on turnWg): once the turn loop
\* has handled an event, no frame of an earlier turn reaches the client, and frames of two turns
\* never mix.
BargeInSilences ==
  [][/\ wire.turn <= wire'.turn
     /\ wire.kind = "heard" /\ wire'.kind # "heard" => wire'.turn > wire.turn]_wire

\* A turn's frames are audio and then at most one ending, stream_done or the clear sentinel:
\* a client that has seen the end of a turn gets nothing more of it.
EndsOnce == wire.ends <= 1 /\ (wire.kind = "pcm" => wire.ends = 0)

\* When the handler has returned no sink of the conversation is still writing.
ReturnedIsQuiet == loop = "returned" => TurnIsOver

\* After a write timed out Render waits for a synthesizer that nobody drains or cancels.
StuckAfterTimeout == render = "settling" /\ ~TurnCancelled

\* The handler has returned and no goroutine of it is left.
Over == loop = "returned" /\ tee = "done" /\ SourceClosed /\ synth = "closed"

\* A closed connection ends its handler and every goroutine of it, unless the transcriber ended
\* before the audio (Tee then waits for room in its channel for ever) or a write timed out
\* (StuckAfterTimeout); and from both Transport.Stop frees a conversation it has an entry for.
ConversationEnds ==
  conn = "closed" ~> (Over \/ (~ctxDone /\ ((stt = "over" /\ tee = "stt") \/ StuckAfterTimeout)))
=============================================================================
