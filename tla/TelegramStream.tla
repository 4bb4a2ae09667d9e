--------------------------- MODULE TelegramStream ---------------------------
(***************************************************************************)
(* internal/plugins/channel/telegram, SendStream: the answer of a turn     *)
(* shown while it grows, as a draft or an edited message beside a status   *)
(* card, then sent as ordinary messages and the rest deleted. The Bot API  *)
(* may take its time over any call, refuse it and tell how long to wait.   *)
(* The clock counts ticks of 250 ms, and the code itself takes no time;    *)
(* the text is the number of its deltas.                                   *)
(***************************************************************************)
EXTENDS Integers, Sequences, FiniteSetsExt

CONSTANTS
  StatusGap, ContentGap, DraftGap, Heartbeat,  \* the pauses of streamState
  Waits,      \* what a 429 may tell to wait
  ChunkSize,  \* text that fits one message
  MaxCall,    \* how long a call may take
  MaxEvents,  \* bound: events of the stream
  MaxRefusals,\* bound: calls the Bot API refuses, the deletions as one
  MaxTime     \* bound: clock

StreamAssumption ==
  /\ Waits \subseteq Nat /\ MaxRefusals \in Nat /\ MaxCall \in Nat /\ Heartbeat \in Nat \ {0}
  /\ ChunkSize \in Nat \ {0} /\ MaxEvents \in Nat \ {0} /\ MaxTime \in Nat \ {0}

Never == 0  \* the zero time

VARIABLES
  now,
  asof,      \* the clock as tickFlush has read it, for all its calls
  mode,      \* useDraft and showCard of this stream
  pc,
  left,      \* events still to come
  text,      \* deltas in textBuf
  cooldown,  \* cooldownUntil
  status, content,  \* the two streamMsg
  toSend,    \* chunks of the final text that Send has not sent yet
  again,     \* finalizeSend has called Send a second time
  refusals,
  told,      \* the latest end of a wait in an answer that setCooldown sees
  toldAll,   \* the latest end of a wait in any answer
  calls,     \* history: how much before told a call was made, and whether one was before toldAll
  chat       \* texts: chunks sent, 0 for the plain text; temps: the messages to delete

vars == <<now, asof, mode, pc, left, text, cooldown, status, content, toSend, again, refusals, told, toldAll, calls, chat>>

Msg == [id : BOOLEAN, dirty : BOOLEAN, last : 0..MaxTime]
NoMsg == [id |-> FALSE, dirty |-> FALSE, last |-> Never]

Init ==
  /\ now = 1 /\ asof = 1 /\ mode \in [draft : BOOLEAN, card : BOOLEAN]
  /\ pc = "stream" /\ left = MaxEvents /\ text = 0 /\ cooldown = Never
  /\ status = NoMsg /\ content = NoMsg
  /\ toSend = 0 /\ again = FALSE /\ refusals = 0
  /\ told = Never /\ toldAll = Never /\ calls = [early |-> 0, inWait |-> FALSE]
  /\ chat = [texts |-> <<>>, temps |-> {}]

\* What the code decides by a clock that it has read, now or before the last call.
InCooldown(clock) == clock < cooldown
Gap(clock, m, gap) == m.last = Never \/ clock - m.last >= gap

-----------------------------------------------------------------------------
(* A call of the Bot API: after a while it is done, or refused with or     *)
(* without a wait                                                          *)

Tries == [ok : {TRUE}, wait : {0}] \cup [ok : {FALSE}, wait : Waits \cup {0}]

Begun ==
  calls' = [early |-> IF now < told THEN Max({calls.early, told - now}) ELSE calls.early,
            inWait |-> calls.inWait \/ now < toldAll]

Lasts == \E d \in 0..MaxCall : now + d <= MaxTime /\ now' = now + d

\* The answer to a call: it may tell how long to wait from now on.
Refused(wait) ==
  /\ refusals < MaxRefusals /\ refusals' = refusals + 1
  /\ toldAll' = IF wait = 0 THEN toldAll ELSE Max({toldAll, now' + wait})

\* setCooldown counts the wait from the clock it is given, and never moves the end back.
SetCooldown(clock, wait) ==
  /\ cooldown' = IF wait = 0 THEN cooldown ELSE Max({cooldown, clock + wait})
  /\ told' = IF wait = 0 THEN told ELSE Max({told, now' + wait})

\* A call with outcome try that shows message name, if it makes one; clock was read before it.
Call(clock, try, name) ==
  /\ Begun /\ Lasts
  /\ IF try.ok THEN /\ chat' = [chat EXCEPT !.temps = @ \cup name]
                    /\ UNCHANGED <<refusals, cooldown, told, toldAll>>
     ELSE Refused(try.wait) /\ SetCooldown(clock, try.wait) /\ UNCHANGED chat

apiVars == <<now, chat, calls, refusals, cooldown, told, toldAll>>
After(clock, m, try) ==
  IF try.ok THEN [m EXCEPT !.dirty = FALSE, !.last = clock] ELSE [m EXCEPT !.dirty = TRUE]

-----------------------------------------------------------------------------
(* upsertMessage for the status card, flushContent for the text            *)

\* Mutation of ShowCard: it does not look at the cooldown.
ShowCardBlind(clock) ==
  \E try \in Tries :
    /\ Call(clock, try, {"status"})
    /\ status' = [After(clock, status, try) EXCEPT !.id = @ \/ try.ok]

\* The card is sent, or edited when it is there; in a cooldown it is only marked.
ShowCard(clock) ==
  IF InCooldown(clock) THEN status' = [status EXCEPT !.dirty = TRUE] /\ UNCHANGED apiVars
  ELSE \E try \in Tries :
         /\ Call(clock, try, {"status"})
         /\ status' = [After(clock, status, try) EXCEPT !.id = @ \/ try.ok]

\* The text is a draft, which is no message, or edited like the card.
FlushContent(clock, m, t, force) ==
  IF \/ ~m.dirty
     \/ ~(force \/ Gap(clock, m, IF mode.draft THEN DraftGap ELSE ContentGap))
     \/ t # 0 /\ InCooldown(clock)
  THEN content' = m /\ UNCHANGED apiVars
  ELSE IF t = 0
  THEN content' = [m EXCEPT !.dirty = FALSE] /\ UNCHANGED apiVars
  ELSE \E try \in Tries :
         /\ Call(clock, try, IF mode.draft THEN {} ELSE {"content"})
         /\ content' = [After(clock, m, try) EXCEPT !.id = @ \/ (try.ok /\ ~mode.draft)]

TryUpdateStatus ==
  IF mode.card /\ ~InCooldown(now) /\ Gap(now, status, StatusGap) THEN ShowCard(now)
  ELSE status' = [status EXCEPT !.dirty = @ \/ mode.card] /\ UNCHANGED apiVars

-----------------------------------------------------------------------------
(* handleEvent *)

sendVars == <<toSend, again>>

\* A delta of the text, shown at once in a private chat; a delta of a tool's input is only kept.
Delta ==
  /\ pc = "stream" /\ left > 0
  /\ left' = left - 1 /\ text' = text + 1
  /\ LET m == [content EXCEPT !.dirty = TRUE] IN
     IF mode.draft THEN FlushContent(now, m, text', FALSE) ELSE content' = m /\ UNCHANGED apiVars
  /\ UNCHANGED <<asof, mode, pc, status, sendVars>>

\* A new iteration empties the text; it, a tool or an error of the stream touches the card.
CardEvent ==
  /\ pc = "stream" /\ left > 0
  /\ left' = left - 1 /\ text' \in {0, text}
  /\ TryUpdateStatus
  /\ UNCHANGED <<asof, mode, pc, content, sendVars>>

EventsEnd ==
  /\ pc = "stream"
  /\ left' = 0 /\ pc' = "last" /\ asof' = now
  /\ UNCHANGED <<mode, text, status, content, sendVars, apiVars>>

\* The ctx of the turn ends: SendStream returns at once, or out of a wait.
CtxEnds ==
  /\ pc \in {"stream", "cool"}
  /\ pc' = "cancelled"
  /\ UNCHANGED <<asof, mode, left, text, status, content, sendVars, apiVars>>

-----------------------------------------------------------------------------
(* tickFlush, at each tick and a last time, by force, after the events:    *)
(* the card, the text, then the card again as a heartbeat, all by the      *)
(* clock it was called with                                                *)

\* The ticker has ticked since the last time.
Ticks ==
  /\ pc = "stream" /\ asof < now
  /\ pc' = "tick" /\ asof' = now
  /\ UNCHANGED <<mode, left, text, status, content, sendVars, apiVars>>

FlushCard ==
  /\ pc \in {"tick", "last"}
  /\ pc' = IF pc = "last" THEN (IF InCooldown(asof) THEN "cool" ELSE "last text")
           ELSE IF InCooldown(asof) THEN "stream" ELSE "tick text"
  /\ IF ~InCooldown(asof) /\ mode.card /\ status.dirty /\ Gap(asof, status, StatusGap)
     THEN ShowCard(asof) ELSE UNCHANGED <<status, apiVars>>
  /\ UNCHANGED <<asof, mode, left, text, content, sendVars>>

FlushText ==
  /\ pc \in {"tick text", "last text"}
  /\ pc' = IF pc = "last text" THEN "last beat" ELSE "tick beat"
  /\ FlushContent(asof, content, text, pc = "last text")
  /\ UNCHANGED <<asof, mode, left, text, status, sendVars>>

FlushBeat ==
  /\ pc \in {"tick beat", "last beat"}
  /\ pc' = IF pc = "last beat" THEN "cool" ELSE "stream"
  /\ IF mode.card /\ status.id /\ ~status.dirty /\ Gap(asof, status, Heartbeat)
     THEN ShowCard(asof) ELSE UNCHANGED <<status, apiVars>>
  /\ UNCHANGED <<asof, mode, left, text, content, sendVars>>

-----------------------------------------------------------------------------
(* finalizeSend and Send *)

finalRest == <<asof, mode, left, text, status, content>>
Chunks == IF text = 0 THEN 1 ELSE (text + ChunkSize - 1) \div ChunkSize

\* waitCooldown, then Send from the first chunk.
SendBegins ==
  /\ pc = "cool" /\ ~InCooldown(now)
  /\ pc' = "send" /\ toSend' = Chunks
  /\ UNCHANGED <<finalRest, again, apiVars>>

\* What the answer to a refused chunk tells is not looked at.
SendChunk ==
  /\ pc = "send" /\ toSend > 0
  /\ Begun /\ Lasts
  /\ \/ /\ chat' = [chat EXCEPT !.texts = Append(@, Chunks - toSend + 1)]
        /\ toSend' = toSend - 1
        /\ UNCHANGED <<pc, refusals, toldAll>>
     \/ /\ \E w \in Waits \cup {0} : Refused(w)
        /\ pc' = "plain" /\ UNCHANGED <<chat, toSend>>
  /\ UNCHANGED <<finalRest, again, cooldown, told>>

\* The plain text is refused: a wait it tells gives Send one more chance.
PlainRefused ==
  \E w \in Waits \cup {0} :
    /\ Refused(w) /\ SetCooldown(now', w)
    /\ again' = (again \/ w # 0)
    /\ pc' = IF w # 0 /\ ~again THEN "cool" ELSE "failed"
    /\ UNCHANGED <<chat, toSend>>

\* Mutation of SendPlain: the plain text stands for one chunk only.
SendPlainOnce ==
  /\ pc = "plain"
  /\ Begun /\ Lasts
  /\ \/ /\ chat' = [chat EXCEPT !.texts = Append(@, 0)]
        /\ toSend' = toSend - 1 /\ pc' = "send"
        /\ UNCHANGED <<again, refusals, cooldown, told, toldAll>>
     \/ PlainRefused
  /\ UNCHANGED finalRest

\* A chunk that is refused is followed at once by the whole text without markup.
SendPlain ==
  /\ pc = "plain"
  /\ Begun /\ Lasts
  /\ \/ /\ chat' = [chat EXCEPT !.texts = Append(@, 0)]
        /\ toSend' = 0 /\ pc' = "send"
        /\ UNCHANGED <<again, refusals, cooldown, told, toldAll>>
     \/ PlainRefused
  /\ UNCHANGED finalRest

\* The card and the placeholder are deleted, but for what the Bot API refuses; nothing follows.
Delete ==
  /\ pc = "send" /\ toSend = 0
  /\ LET own == (IF status.id THEN {"status"} ELSE {}) \cup (IF content.id THEN {"content"} ELSE {}) IN
     /\ IF own = {} THEN UNCHANGED calls ELSE Begun
     /\ \E kept \in SUBSET own :
          /\ refusals' = IF kept = {} THEN refusals ELSE refusals + 1
          /\ refusals' <= MaxRefusals
          /\ chat' = [chat EXCEPT !.temps = @ \ (own \ kept)]
          /\ pc' = IF kept = {} THEN "sent" ELSE "untidy"
  /\ UNCHANGED <<finalRest, now, sendVars, cooldown, told, toldAll>>

Clock ==
  /\ now < MaxTime /\ pc \in {"stream", "cool"}
  /\ now' = now + 1
  /\ UNCHANGED <<finalRest, pc, sendVars, chat, calls, refusals, cooldown, told, toldAll>>

Next ==
  \/ Delta \/ CardEvent \/ EventsEnd \/ CtxEnds
  \/ Ticks \/ FlushCard \/ FlushText \/ FlushBeat
  \/ SendBegins \/ SendChunk \/ SendPlain \/ Delete
  \/ Clock

Spec == Init /\ [][Next]_vars

-----------------------------------------------------------------------------
TypeOK ==
  /\ now \in 1..MaxTime /\ asof \in 1..now /\ left \in 0..MaxEvents /\ text \in 0..MaxEvents
  /\ status \in Msg /\ content \in Msg
  /\ toSend \in 0..MaxEvents /\ refusals \in 0..MaxRefusals
  /\ chat.temps \subseteq {"status", "content"}

(* A wait that the Bot API tells in its answer to anything but a chunk or  *)
(* a deletion is kept by every later call of the stream, the fallback, the *)
(* second Send and the deletions among them, but for what two calls take:  *)
(* setCooldown counts it from a clock read before the call, or before the  *)
(* one ahead of it in the same tickFlush, and no further back.             *)
CooldownKept == calls.early <= 2 * MaxCall

(* A stream that ends well has sent its final text whole, as its chunks in *)
(* their order or plain, whatever was refused on the way, and the card and *)
(* the placeholder are gone unless their deletion was refused.             *)
EndsWell ==
  /\ pc \in {"sent", "untidy"} =>
       \/ chat.texts[Len(chat.texts)] = 0
       \/ \E n \in 0..Len(chat.texts) :
            SubSeq(chat.texts, n + 1, Len(chat.texts)) = [i \in 1..Chunks |-> i]
  /\ pc = "sent" => chat.temps = {}

(* What the Bot API and the reader of the chat see of a stream.            *)
TelegramStreamsEndWell == TypeOK /\ CooldownKept /\ EndsWell

(* docs/channels/telegram.md:109 says "the channel respects retry_after"   *)
(* and :110 that it "parses retry-after and waits". It fails: besides what *)
(* CooldownKept allows, a chunk that is refused is followed at once by the *)
(* plain text. No run checks it.                                           *)
WaitsAreRespected == ~calls.inWait
=============================================================================
