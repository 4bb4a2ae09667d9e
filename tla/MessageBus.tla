----------------------------- MODULE MessageBus -----------------------------
(***************************************************************************)
(* internal/kernel/bus: the inbound and outbound buffers, publishers that  *)
(* block on them, the single dispatcher of outbound messages and Close.    *)
(* One action is one stretch of code between two points where another      *)
(* goroutine can get in: a lock, a select, a channel operation, a wait.    *)
(***************************************************************************)
EXTENDS Naturals, Sequences, FiniteSets

CONSTANTS Publishers,  \* goroutines that call PublishInbound / PublishOutbound
          Closers,     \* goroutines that call Close
          Channels,    \* channel names, the keys of subs
          BufSize,     \* capacity of either buffer
          MaxPublish,  \* bound: publishes per publisher
          MaxResub     \* bound: SetOutboundSubscriber calls

ASSUME BusAssumption ==
  /\ BufSize \in Nat \ {0}
  /\ MaxPublish \in Nat
  /\ MaxResub \in Nat

Streams == {"inbound", "outbound"}
Message == [from : Publishers, n : 1..MaxPublish, stream : Streams, channel : Channels]
NoMessage == [from |-> "none"]

VARIABLES
  closed,     \* b.closed and the closed state of b.done, set together under pubMu
  once,       \* b.closeOnce: "unused", "running" or "done"
  pubMu,      \* goroutines holding b.pubMu
  wg,         \* publishers counted by b.wg
  chanOpen,   \* stream -> the Go channel is not closed
  buf,        \* stream -> contents of the Go channel
  pc, msg,    \* publisher -> where it is, what it publishes
  started,    \* publisher -> publishes begun so far
  cancelled,  \* publishers whose ctx is done
  failures,   \* publisher -> publish-failure events emitted for it
  cpc,        \* closer -> where it is
  subs,       \* channels that have an outbound subscriber
  resubs,     \* SetOutboundSubscriber calls so far
  dpc, dmsg,  \* the DispatchOutbound goroutine and the message in its hands
  dctx,       \* the ctx of DispatchOutbound is done
  handled,    \* history of the messages the dispatcher is done with
  accepted,   \* history: stream -> messages enqueued
  received,   \* history: stream -> messages dequeued
  ended       \* streams whose reader saw the channel closed

pubVars  == <<pc, msg, started, cancelled, failures>>
dispVars == <<dpc, dmsg, dctx, handled, subs, resubs>>
chanVars == <<buf, accepted, received, ended>>
vars == <<closed, once, pubMu, wg, chanOpen, cpc, pubVars, dispVars, chanVars>>

Init ==
  /\ closed = FALSE /\ once = "unused" /\ pubMu = {} /\ wg = {}
  /\ chanOpen = [s \in Streams |-> TRUE]
  /\ buf = [s \in Streams |-> <<>>]
  /\ pc = [p \in Publishers |-> "idle"]
  /\ msg = [p \in Publishers |-> NoMessage]
  /\ started = [p \in Publishers |-> 0]
  /\ cancelled = {} /\ failures = [p \in Publishers |-> 0]
  /\ cpc = [c \in Closers |-> "idle"]
  /\ subs = {} /\ resubs = 0
  /\ dpc = "select" /\ dmsg = NoMessage /\ dctx = FALSE /\ handled = <<>>
  /\ accepted = [s \in Streams |-> <<>>]
  /\ received = [s \in Streams |-> <<>>]
  /\ ended = {}

-----------------------------------------------------------------------------
(* publishEnqueue *)

\* A publish of a normalised message locks pubMu; its ctx is a fresh one.
PubLock(p) ==
  /\ pc[p] = "idle" /\ started[p] < MaxPublish
  /\ pubMu = {}
  /\ pubMu' = {p}
  /\ started' = [started EXCEPT ![p] = @ + 1]
  /\ \E s \in Streams, c \in Channels :
       msg' = [msg EXCEPT ![p] = [from |-> p, n |-> started[p] + 1, stream |-> s, channel |-> c]]
  /\ pc' = [pc EXCEPT ![p] = "locked"]
  /\ UNCHANGED <<closed, once, wg, chanOpen, cpc, cancelled, failures, dispVars, chanVars>>

\* The publish returns; its message and its ctx are gone.
PubReturn(p) ==
  /\ pc' = [pc EXCEPT ![p] = "idle"]
  /\ msg' = [msg EXCEPT ![p] = NoMessage]
  /\ cancelled' = cancelled \ {p}

\* Mutation of PubReject: the rejected publish is not reported.
PubRejectSilent(p) ==
  /\ pc[p] = "locked" /\ closed
  /\ pubMu' = pubMu \ {p}
  /\ PubReturn(p)
  /\ UNCHANGED <<closed, once, wg, chanOpen, cpc, started, failures, dispVars, chanVars>>

PubReject(p) ==
  /\ pc[p] = "locked" /\ closed
  /\ pubMu' = pubMu \ {p}
  /\ failures' = [failures EXCEPT ![p] = @ + 1]
  /\ PubReturn(p)
  /\ UNCHANGED <<closed, once, wg, chanOpen, cpc, started, dispVars, chanVars>>

PubCheck(p) ==
  /\ pc[p] = "locked" /\ ~closed
  /\ pc' = [pc EXCEPT ![p] = "open"]
  /\ UNCHANGED <<closed, once, pubMu, wg, chanOpen, cpc, msg, started, cancelled, failures,
                 dispVars, chanVars>>

PubAdd(p) ==
  /\ pc[p] = "open"
  /\ wg' = wg \cup {p}
  /\ pubMu' = pubMu \ {p}
  /\ pc' = [pc EXCEPT ![p] = "select"]
  /\ UNCHANGED <<closed, once, chanOpen, cpc, msg, started, cancelled, failures, dispVars, chanVars>>

\* The select takes any ready case: room in the buffer, ctx done, or b.done closed.
PubSend(p) ==
  LET s == msg[p].stream IN
  /\ pc[p] = "select" /\ Len(buf[s]) < BufSize
  /\ buf' = [buf EXCEPT ![s] = Append(@, msg[p])]
  /\ accepted' = [accepted EXCEPT ![s] = Append(@, msg[p])]
  /\ pc' = [pc EXCEPT ![p] = "leaving"]
  /\ UNCHANGED <<closed, once, pubMu, wg, chanOpen, cpc, msg, started, cancelled, failures,
                 received, ended, dispVars>>

\* Mutation of PubGiveUp: the select has no case for b.done.
PubGiveUpDeaf(p) ==
  /\ pc[p] = "select" /\ p \in cancelled
  /\ failures' = [failures EXCEPT ![p] = @ + 1]
  /\ pc' = [pc EXCEPT ![p] = "leaving"]
  /\ UNCHANGED <<closed, once, pubMu, wg, chanOpen, cpc, msg, started, cancelled, dispVars, chanVars>>

PubGiveUp(p) ==
  /\ pc[p] = "select" /\ (p \in cancelled \/ closed)
  /\ failures' = [failures EXCEPT ![p] = @ + 1]
  /\ pc' = [pc EXCEPT ![p] = "leaving"]
  /\ UNCHANGED <<closed, once, pubMu, wg, chanOpen, cpc, msg, started, cancelled, dispVars, chanVars>>

\* The deferred wg.Done.
PubDone(p) ==
  /\ pc[p] = "leaving"
  /\ wg' = wg \ {p}
  /\ PubReturn(p)
  /\ UNCHANGED <<closed, once, pubMu, chanOpen, cpc, started, failures, dispVars, chanVars>>

\* The caller's ctx ends while it publishes.
CtxEnds(p) ==
  /\ pc[p] \in {"locked", "open", "select"} /\ p \notin cancelled
  /\ cancelled' = cancelled \cup {p}
  /\ UNCHANGED <<closed, once, pubMu, wg, chanOpen, cpc, pc, msg, started, failures,
                 dispVars, chanVars>>

-----------------------------------------------------------------------------
(* Close, inside and around closeOnce *)

CloseCall(c) ==
  /\ cpc[c] = "idle"
  /\ once' = IF once = "unused" THEN "running" ELSE once
  /\ cpc' = [cpc EXCEPT ![c] = IF once = "unused" THEN "mark" ELSE "join"]
  /\ UNCHANGED <<closed, pubMu, wg, chanOpen, pubVars, dispVars, chanVars>>

\* Mutation of CloseMark: b.closed is stored without b.pubMu.
CloseMarkUnlocked(c) ==
  /\ cpc[c] = "mark"
  /\ closed' = TRUE
  /\ cpc' = [cpc EXCEPT ![c] = "wait"]
  /\ UNCHANGED <<once, pubMu, wg, chanOpen, pubVars, dispVars, chanVars>>

CloseMark(c) ==
  /\ cpc[c] = "mark" /\ pubMu = {}
  /\ closed' = TRUE
  /\ cpc' = [cpc EXCEPT ![c] = "wait"]
  /\ UNCHANGED <<once, pubMu, wg, chanOpen, pubVars, dispVars, chanVars>>

\* Mutation of CloseChannels: no wg.Wait.
CloseChannelsEarly(c) ==
  /\ cpc[c] = "wait"
  /\ chanOpen' = [chanOpen EXCEPT !["inbound"] = FALSE]
  /\ cpc' = [cpc EXCEPT ![c] = "closing"]
  /\ UNCHANGED <<closed, once, pubMu, wg, pubVars, dispVars, chanVars>>

CloseChannels(c) ==
  /\ cpc[c] = "wait" /\ wg = {}
  /\ chanOpen' = [chanOpen EXCEPT !["inbound"] = FALSE]
  /\ cpc' = [cpc EXCEPT ![c] = "closing"]
  /\ UNCHANGED <<closed, once, pubMu, wg, pubVars, dispVars, chanVars>>

CloseFinish(c) ==
  /\ cpc[c] = "closing"
  /\ chanOpen' = [chanOpen EXCEPT !["outbound"] = FALSE]
  /\ once' = "done"
  /\ cpc' = [cpc EXCEPT ![c] = "returned"]
  /\ UNCHANGED <<closed, pubMu, wg, pubVars, dispVars, chanVars>>

\* Mutation of CloseJoin: a flag instead of a sync.Once, nobody waits for the first.
CloseJoinEarly(c) ==
  /\ cpc[c] = "join"
  /\ cpc' = [cpc EXCEPT ![c] = "returned"]
  /\ UNCHANGED <<closed, once, pubMu, wg, chanOpen, pubVars, dispVars, chanVars>>

\* A second caller of Close blocks in Once.Do until the first has finished.
CloseJoin(c) ==
  /\ cpc[c] = "join" /\ once = "done"
  /\ cpc' = [cpc EXCEPT ![c] = "returned"]
  /\ UNCHANGED <<closed, once, pubMu, wg, chanOpen, pubVars, dispVars, chanVars>>

-----------------------------------------------------------------------------
(* The readers: the pipeline on InboundChan, DispatchOutbound on outbound *)

Dequeue(s) ==
  /\ buf[s] # <<>>
  /\ buf' = [buf EXCEPT ![s] = Tail(@)]
  /\ received' = [received EXCEPT ![s] = Append(@, Head(buf[s]))]
  /\ UNCHANGED <<accepted, ended>>

\* Mutation of SeeEnd: the reader stops on close with messages left in the buffer.
SeeEndEarly(s) ==
  /\ ~chanOpen[s] /\ s \notin ended
  /\ ended' = ended \cup {s}
  /\ UNCHANGED <<buf, accepted, received>>

SeeEnd(s) ==
  /\ ~chanOpen[s] /\ buf[s] = <<>> /\ s \notin ended
  /\ ended' = ended \cup {s}
  /\ UNCHANGED <<buf, accepted, received>>

InboundReceive ==
  /\ Dequeue("inbound") \/ SeeEnd("inbound")
  /\ UNCHANGED <<closed, once, pubMu, wg, chanOpen, cpc, pubVars, dispVars>>

\* Mutation of DispatchReceive: a message waits until its channel has a subscriber.
DispatchReceiveWaits ==
  /\ dpc = "select"
  /\ \/ /\ buf["outbound"] # <<>> /\ Head(buf["outbound"]).channel \in subs
        /\ Dequeue("outbound")
        /\ dmsg' = Head(buf["outbound"]) /\ dpc' = "lookup"
     \/ /\ SeeEnd("outbound")
        /\ dpc' = "exited" /\ UNCHANGED dmsg
  /\ UNCHANGED <<closed, once, pubMu, wg, chanOpen, cpc, pubVars, dctx, handled, subs, resubs>>

DispatchReceive ==
  /\ dpc = "select"
  /\ \/ /\ Dequeue("outbound")
        /\ dmsg' = Head(buf["outbound"]) /\ dpc' = "lookup"
     \/ /\ SeeEnd("outbound")
        /\ dpc' = "exited" /\ UNCHANGED dmsg
  /\ UNCHANGED <<closed, once, pubMu, wg, chanOpen, cpc, pubVars, dctx, handled, subs, resubs>>

DispatchCancelled ==
  /\ dpc = "select" /\ dctx
  /\ dpc' = "exited"
  /\ UNCHANGED <<closed, once, pubMu, wg, chanOpen, cpc, pubVars, chanVars,
                 dmsg, dctx, handled, subs, resubs>>

Dispose ==
  /\ handled' = Append(handled, dmsg)
  /\ dpc' = "select" /\ dmsg' = NoMessage

\* Mutation of DispatchLookup: a missing subscriber is not caught before the call.
DispatchLookupNil ==
  /\ dpc = "lookup"
  /\ IF dmsg.channel \in subs THEN UNCHANGED <<dmsg, handled>> ELSE dmsg' = NoMessage /\ UNCHANGED handled
  /\ dpc' = "call"
  /\ UNCHANGED <<closed, once, pubMu, wg, chanOpen, cpc, pubVars, chanVars, dctx, subs, resubs>>

\* The callback is read under RLock and called after RUnlock; without one the
\* message is dropped with a warning.
DispatchLookup ==
  /\ dpc = "lookup"
  /\ IF dmsg.channel \in subs
     THEN dpc' = "call" /\ UNCHANGED <<dmsg, handled>>
     ELSE Dispose
  /\ UNCHANGED <<closed, once, pubMu, wg, chanOpen, cpc, pubVars, chanVars, dctx, subs, resubs>>

\* Mutation of DispatchCall: the panic of a subscriber ends the loop.
DispatchCallNoRecover ==
  /\ dpc = "call"
  /\ handled' = Append(handled, dmsg)
  /\ dpc' \in {"select", "exited"} /\ dmsg' = NoMessage
  /\ UNCHANGED <<closed, once, pubMu, wg, chanOpen, cpc, pubVars, chanVars, dctx, subs, resubs>>

\* Mutation of DispatchCall: a failed delivery is tried again on the spot.
DispatchCallRetry ==
  /\ dpc = "call"
  /\ handled' = Append(handled, dmsg)
  /\ dpc' = IF Len(handled) > 0 THEN "select" ELSE "call"
  /\ dmsg' = IF Len(handled) > 0 THEN NoMessage ELSE dmsg
  /\ UNCHANGED <<closed, once, pubMu, wg, chanOpen, cpc, pubVars, chanVars, dctx, subs, resubs>>

\* The subscriber returns nil, returns an error (reported) or panics (recovered):
\* the loop goes on in all three cases.
DispatchCall ==
  /\ dpc = "call"
  /\ Dispose
  /\ UNCHANGED <<closed, once, pubMu, wg, chanOpen, cpc, pubVars, chanVars, dctx, subs, resubs>>

SetOutboundSubscriber(c) ==
  /\ resubs < MaxResub
  /\ resubs' = resubs + 1
  /\ subs' \in {subs \cup {c}, subs \ {c}}
  /\ UNCHANGED <<closed, once, pubMu, wg, chanOpen, cpc, pubVars, chanVars, dpc, dmsg, dctx, handled>>

CancelDispatch ==
  /\ ~dctx
  /\ dctx' = TRUE
  /\ UNCHANGED <<closed, once, pubMu, wg, chanOpen, cpc, pubVars, chanVars,
                 dpc, dmsg, handled, subs, resubs>>

-----------------------------------------------------------------------------
PublishStep(p) ==
  PubReject(p) \/ PubCheck(p) \/ PubAdd(p) \/ PubSend(p) \/ PubGiveUp(p) \/ PubDone(p)
CloseStep(c) == CloseMark(c) \/ CloseChannels(c) \/ CloseFinish(c) \/ CloseJoin(c)
DispatchStep == DispatchReceive \/ DispatchCancelled \/ DispatchLookup \/ DispatchCall

Next ==
  \/ \E p \in Publishers : PubLock(p) \/ PublishStep(p) \/ CtxEnds(p)
  \/ \E c \in Closers : CloseCall(c) \/ CloseStep(c)
  \/ InboundReceive \/ DispatchStep \/ CancelDispatch
  \/ \E c \in Channels : SetOutboundSubscriber(c)

Spec == Init /\ [][Next]_vars

(* A goroutine that can run does run: the Go scheduler never starves one.  *)
(* Callers, contexts and subscribers owe nothing. The readers are fair by  *)
(* hypothesis of the properties that need them, so that Close is shown to  *)
(* need no reader at all.                                                  *)
ReaderFairness == WF_vars(InboundReceive) /\ WF_vars(DispatchStep)
FairSpec ==
  /\ Spec
  /\ \A p \in Publishers : WF_vars(PublishStep(p))
  /\ \A c \in Closers : WF_vars(CloseStep(c))

-----------------------------------------------------------------------------
SyncTypeOK ==
  /\ closed \in BOOLEAN /\ once \in {"unused", "running", "done"}
  /\ pubMu \in SUBSET Publishers /\ wg \in SUBSET Publishers
  /\ chanOpen \in [Streams -> BOOLEAN]
  /\ cpc \in [Closers -> {"idle", "mark", "wait", "closing", "join", "returned"}]
PublisherTypeOK ==
  /\ pc \in [Publishers -> {"idle", "locked", "open", "select", "leaving"}]
  /\ msg \in [Publishers -> Message \cup {NoMessage}]
  /\ \A p \in Publishers : pc[p] \in {"locked", "open", "select"} => msg[p] \in Message
  /\ started \in [Publishers -> Nat]
  /\ cancelled \in SUBSET Publishers /\ failures \in [Publishers -> Nat]
DispatchTypeOK ==
  /\ subs \in SUBSET Channels /\ resubs \in Nat
  /\ dpc \in {"select", "lookup", "call", "exited"}
  /\ dmsg \in Message \cup {NoMessage}
  /\ dpc \in {"lookup", "call"} => dmsg \in Message
  /\ dctx \in BOOLEAN
  /\ handled \in Seq(Message)
ChannelTypeOK ==
  /\ buf \in [Streams -> Seq(Message)]
  /\ accepted \in [Streams -> Seq(Message)]
  /\ received \in [Streams -> Seq(Message)]
  /\ ended \in SUBSET Streams
TypeOK == SyncTypeOK /\ PublisherTypeOK /\ DispatchTypeOK /\ ChannelTypeOK

(* A publisher that waits in the select of publishEnqueue never finds the  *)
(* Go channel closed: `ch <- msg` would panic there. It is why Close waits *)
(* for b.wg between close(b.done) and close(b.inbound).                    *)
NoSendOnClosedChannel ==
  \A p \in Publishers : pc[p] = "select" => chanOpen[msg[p].stream]

(* Why it never does: b.wg counts exactly the publishers between wg.Add    *)
(* and wg.Done, pubMu keeps the check of b.closed and that Add together,   *)
(* and from close(b.inbound) on the bus is closed and b.wg is empty.       *)
InFlight(p) == pc[p] \in {"select", "leaving"}
WaitGroupInv ==
  /\ wg = {p \in Publishers : InFlight(p)}
  /\ pubMu = {p \in Publishers : pc[p] \in {"locked", "open"}}
  /\ closed => \A p \in Publishers : pc[p] # "open"
CloseInv ==
  /\ \A c \in Closers :
       /\ cpc[c] \in {"wait", "closing"} => closed
       /\ cpc[c] = "closing" => ~chanOpen["inbound"]
       /\ cpc[c] = "returned" => once = "done"
  /\ once = "done" => \A s \in Streams : ~chanOpen[s]
  /\ \A s \in Streams : ~chanOpen[s] => closed /\ wg = {}
  /\ ~chanOpen["outbound"] => ~chanOpen["inbound"]
BusInv == WaitGroupInv /\ CloseInv

(* No message is enqueued twice: the n-th publish of p is the newest of p, *)
(* and while it is under way none of the accepted messages is its own.     *)
FreshInv ==
  /\ \A p \in Publishers : pc[p] \in {"locked", "open", "select"} =>
       msg[p].from = p /\ msg[p].n = started[p]
  /\ \A s \in Streams : \A i \in 1..Len(accepted[s]) :
       LET m == accepted[s][i] IN
       /\ m.n <= started[m.from]
       /\ m.n = started[m.from] => pc[m.from] \in {"idle", "leaving"}

(* "After Close returns, PublishInbound and PublishOutbound always return  *)
(* ErrBusClosed": from then on no publish succeeds, not even one that was  *)
(* under way when Close was called.                                        *)
ClosedForGood ==
  [][(\E c \in Closers : cpc[c] = "returned") => accepted' = accepted]_vars

(* No publish ends silently: each one that p began is under way, enqueued  *)
(* its message, or was reported as a failure, and only one of these.      *)
Enqueued(p) == UNION {{<<s, i>> : i \in {j \in 1..Len(accepted[s]) : accepted[s][j].from = p}} :
                        s \in Streams}
UnderWay(p) == IF pc[p] \in {"locked", "open", "select"} THEN 1 ELSE 0
EveryPublishAccountedFor ==
  \A p \in Publishers :
    started[p] = Cardinality(Enqueued(p)) + failures[p] + UnderWay(p)

(* Each outbound message taken from the buffer is disposed of exactly once *)
(* and in the order it was accepted, whatever the subscriber does.         *)
DispatchedInOrder ==
  handled
    = IF dpc \in {"lookup", "call"}
      THEN SubSeq(received["outbound"], 1, Len(received["outbound"]) - 1)
      ELSE received["outbound"]

(* The bus implements its contract: bounded, loss-free, duplicate-free     *)
(* FIFO streams that stop accepting before a reader can see their end.     *)
Contract == INSTANCE BusContract
              WITH Messages <- Message, Capacity <- BufSize, queue <- buf,
                   shut <- ~chanOpen["inbound"]
ImplementsContract == Contract!CSpec

(* Close returns although nobody drains the buffers and publishers are     *)
(* blocked on full ones: close(b.done) releases them.                      *)
CloseReturns == \A c \in Closers : cpc[c] # "idle" ~> cpc[c] = "returned"

(* A publish blocked by backpressure ends as long as its stream is read;   *)
(* only an outbound one may block on, once the dispatcher's ctx has ended. *)
PublishReturns ==
  ReaderFairness =>
  \A p \in Publishers :
    pc[p] = "select" ~> (pc[p] = "idle" \/ (dctx /\ msg[p].stream = "outbound"))

(* Every outbound message accepted reaches the end of dispatch, a          *)
(* panicking subscriber notwithstanding, unless the dispatcher's ctx ends. *)
AcceptedIsDispatched ==
  ReaderFairness =>
  \A n \in 1..(MaxPublish * Cardinality(Publishers)) :
    Len(accepted["outbound"]) >= n ~> (Len(handled) >= n \/ dctx)
=============================================================================
