-------------------------- MODULE MessageBusProofs --------------------------
(***************************************************************************)
(* What MessageBus guarantees for any number of publishers, closers,       *)
(* channels and any buffer size. The invariant that carries it all says    *)
(* what b.wg, b.pubMu and the progress of Close have to do with each other.*)
(***************************************************************************)
EXTENDS MessageBus, FiniteSetTheorems, TLAPS

\* New() gives every field of the bus a value of its type.
LEMMA TypeInit == Init => TypeOK
<1> SUFFICES ASSUME Init PROVE TypeOK
  OBVIOUS
<1>1. SyncTypeOK
  BY DEF Init, SyncTypeOK
<1>2. PublisherTypeOK
  BY DEF Init, PublisherTypeOK
<1>3. <<>> \in Seq(Message)
  OBVIOUS
<1>4. DispatchTypeOK
  BY <1>3 DEF Init, DispatchTypeOK
<1>5. ChannelTypeOK
  BY <1>3 DEF Init, ChannelTypeOK
<1> QED BY <1>1, <1>2, <1>4, <1>5 DEF TypeOK

\* Moving a message from one end of a buffer to a history keeps both sequences.
LEMMA DequeueTypes ==
  ASSUME NEW s \in Streams, ChannelTypeOK, Dequeue(s)
  PROVE  /\ ChannelTypeOK'
         /\ Head(buf[s]) \in Message
<1>1. buf[s] \in Seq(Message) /\ buf[s] # <<>> /\ received[s] \in Seq(Message)
  BY DEF ChannelTypeOK, Dequeue
<1>2. Tail(buf[s]) \in Seq(Message) /\ Head(buf[s]) \in Message
  BY <1>1
<1>3. Append(received[s], Head(buf[s])) \in Seq(Message)
  BY <1>1, <1>2
<1> QED BY <1>2, <1>3 DEF ChannelTypeOK, Dequeue

\* Seeing a channel closed only adds to the set of streams that ended.
LEMMA SeeEndTypes ==
  ASSUME NEW s \in Streams, ChannelTypeOK, SeeEnd(s)
  PROVE  ChannelTypeOK'
  BY DEF ChannelTypeOK, SeeEnd

\* Every action keeps the types: the buffers stay sequences of messages.
LEMMA TypeStep == TypeOK /\ [Next]_vars => TypeOK'
<1> SUFFICES ASSUME TypeOK, [Next]_vars PROVE TypeOK'
  OBVIOUS
<1> USE DEF TypeOK
<1>0. ASSUME UNCHANGED chanVars PROVE ChannelTypeOK'
  BY <1>0 DEF ChannelTypeOK, chanVars
<1>d. ASSUME UNCHANGED dispVars PROVE DispatchTypeOK'
  BY <1>d DEF DispatchTypeOK, dispVars
<1>p. ASSUME UNCHANGED pubVars PROVE PublisherTypeOK'
  BY <1>p DEF PublisherTypeOK, pubVars
<1>s. ASSUME UNCHANGED <<closed, once, pubMu, wg, chanOpen, cpc>> PROVE SyncTypeOK'
  BY <1>s DEF SyncTypeOK
<1>1. ASSUME NEW p \in Publishers, PubLock(p) PROVE TypeOK'
  <2>1. PICK s \in Streams, c \in Channels :
          msg' = [msg EXCEPT ![p] =
                    [from |-> p, n |-> started[p] + 1, stream |-> s, channel |-> c]]
    BY <1>1 DEF PubLock
  <2>2. [from |-> p, n |-> started[p] + 1, stream |-> s, channel |-> c] \in Message
    BY <1>1, BusAssumption DEF PubLock, Message, PublisherTypeOK
  <2>3. PublisherTypeOK'
    BY <1>1, <2>1, <2>2 DEF PubLock, PublisherTypeOK
  <2>4. SyncTypeOK'
    BY <1>1 DEF PubLock, SyncTypeOK
  <2> QED BY <1>0, <1>d, <1>1, <2>3, <2>4 DEF PubLock
<1>2. ASSUME NEW p \in Publishers,
             PubReject(p) \/ PubCheck(p) \/ PubAdd(p) \/ PubGiveUp(p) \/ PubDone(p) \/ CtxEnds(p)
      PROVE TypeOK'
  <2> USE DEF PubReject, PubCheck, PubAdd, PubGiveUp, PubDone, CtxEnds, PubReturn
  <2>1. SyncTypeOK'
    BY <1>2 DEF SyncTypeOK
  <2>2. PublisherTypeOK'
    BY <1>2 DEF PublisherTypeOK
  <2> QED BY <1>0, <1>d, <1>2, <2>1, <2>2
<1>3. ASSUME NEW p \in Publishers, PubSend(p) PROVE TypeOK'
  <2> DEFINE s == msg[p].stream
  <2>1. msg[p] \in Message /\ s \in Streams
    BY <1>3 DEF PubSend, PublisherTypeOK, Message
  <2>2. Append(buf[s], msg[p]) \in Seq(Message) /\ Append(accepted[s], msg[p]) \in Seq(Message)
    BY <2>1 DEF ChannelTypeOK
  <2>3. ChannelTypeOK'
    BY <1>3, <2>1, <2>2 DEF PubSend, ChannelTypeOK
  <2>4. PublisherTypeOK'
    BY <1>3 DEF PubSend, PublisherTypeOK
  <2> QED BY <1>s, <1>d, <1>3, <2>3, <2>4 DEF PubSend
<1>4. ASSUME NEW c \in Closers, CloseCall(c) \/ CloseStep(c) PROVE TypeOK'
  <2> USE DEF CloseCall, CloseStep, CloseMark, CloseChannels, CloseFinish, CloseJoin
  <2>1. SyncTypeOK'
    BY <1>4 DEF SyncTypeOK
  <2> QED BY <1>0, <1>p, <1>d, <1>4, <2>1
<1>5. CASE InboundReceive
  <2>1. ChannelTypeOK'
    BY <1>5, DequeueTypes, SeeEndTypes DEF InboundReceive, Streams
  <2> QED BY <1>p, <1>d, <1>s, <1>5, <2>1 DEF InboundReceive
<1>6. CASE DispatchReceive
  <2>1. ChannelTypeOK'
    BY <1>6, DequeueTypes, SeeEndTypes DEF DispatchReceive, Streams
  <2>2. DispatchTypeOK'
    BY <1>6, DequeueTypes DEF DispatchReceive, DispatchTypeOK, Streams
  <2> QED BY <1>p, <1>s, <1>6, <2>1, <2>2 DEF DispatchReceive
<1>7. CASE DispatchCancelled \/ DispatchLookup \/ DispatchCall
  <2>1. DispatchTypeOK'
    BY <1>7 DEF DispatchCancelled, DispatchLookup, DispatchCall, Dispose, DispatchTypeOK
  <2> QED
    BY <1>0, <1>p, <1>s, <1>7, <2>1 DEF DispatchCancelled, DispatchLookup, DispatchCall
<1>8. ASSUME NEW c \in Channels, SetOutboundSubscriber(c) PROVE TypeOK'
  <2>1. DispatchTypeOK'
    BY <1>8 DEF SetOutboundSubscriber, DispatchTypeOK
  <2> QED BY <1>0, <1>p, <1>s, <1>8, <2>1 DEF SetOutboundSubscriber
<1>9. CASE CancelDispatch
  <2>1. DispatchTypeOK'
    BY <1>9 DEF CancelDispatch, DispatchTypeOK
  <2> QED BY <1>0, <1>p, <1>s, <1>9, <2>1 DEF CancelDispatch
<1>10. CASE UNCHANGED vars
  BY <1>0, <1>p, <1>d, <1>s, <1>10 DEF vars
<1> QED
  BY <1>1, <1>2, <1>3, <1>4, <1>5, <1>6, <1>7, <1>8, <1>9, <1>10
     DEF Next, PublishStep, DispatchStep

\* b.wg, b.pubMu, the buffers and the histories have the types the code gives them.
THEOREM TypeCorrect == Spec => []TypeOK
  BY TypeInit, TypeStep, PTL DEF Spec

-----------------------------------------------------------------------------
\* A new bus has no publisher in flight and no channel closed.
LEMMA BusInvInit == Init => BusInv
  BY DEF Init, BusInv, WaitGroupInv, CloseInv, InFlight, Streams

\* The steps of publishEnqueue: a send is only ever prepared while b.wg counts it.
LEMMA PublishKeepsBusInv ==
  ASSUME TypeOK, BusInv, NEW p \in Publishers,
         PubLock(p) \/ PublishStep(p) \/ CtxEnds(p)
  PROVE  BusInv'
<1> USE DEF TypeOK, SyncTypeOK, PublisherTypeOK, BusInv, WaitGroupInv, CloseInv, InFlight, Streams
<1>1. CASE PubLock(p)
  BY <1>1 DEF PubLock
<1>2. CASE PubReject(p)
  BY <1>2 DEF PubReject, PubReturn
<1>3. CASE PubCheck(p)
  BY <1>3 DEF PubCheck
<1>4. CASE PubAdd(p)
  <2>1. ~closed
    BY <1>4 DEF PubAdd
  <2>2. \A s \in Streams : chanOpen[s]
    BY <2>1
  <2>3. WaitGroupInv'
    BY <1>4, <2>1 DEF PubAdd
  <2>4. CloseInv'
    BY <1>4, <2>1, <2>2 DEF PubAdd
  <2> QED BY <2>3, <2>4
<1>5. CASE PubSend(p)
  BY <1>5 DEF PubSend
<1>6. CASE PubGiveUp(p)
  BY <1>6 DEF PubGiveUp
<1>7. CASE PubDone(p)
  BY <1>7 DEF PubDone, PubReturn
<1>8. CASE CtxEnds(p)
  BY <1>8 DEF CtxEnds
<1> QED BY <1>1, <1>2, <1>3, <1>4, <1>5, <1>6, <1>7, <1>8 DEF PublishStep

\* The steps of Close: the Go channels are closed only once b.wg has emptied.
LEMMA CloseKeepsBusInv ==
  ASSUME TypeOK, BusInv, NEW c \in Closers, CloseCall(c) \/ CloseStep(c)
  PROVE  BusInv'
<1> USE DEF TypeOK, SyncTypeOK, PublisherTypeOK, BusInv, WaitGroupInv, CloseInv, InFlight, Streams
<1>0. ASSUME UNCHANGED pubVars PROVE pc' = pc
  BY <1>0 DEF pubVars
<1>1. CASE CloseCall(c)
  BY <1>0, <1>1 DEF CloseCall
<1>2. CASE CloseMark(c)
  BY <1>0, <1>2 DEF CloseMark
<1>3. CASE CloseChannels(c)
  BY <1>0, <1>3 DEF CloseChannels
<1>4. CASE CloseFinish(c)
  BY <1>0, <1>4 DEF CloseFinish
<1>5. CASE CloseJoin(c)
  BY <1>0, <1>5 DEF CloseJoin
<1> QED BY <1>1, <1>2, <1>3, <1>4, <1>5 DEF CloseStep

\* No step of any goroutine breaks what b.wg, b.pubMu and the Go channels agree on.
LEMMA BusInvStep == TypeOK /\ BusInv /\ [Next]_vars => BusInv'
<1> SUFFICES ASSUME TypeOK, BusInv, [Next]_vars PROVE BusInv'
  OBVIOUS
<1>1. ASSUME UNCHANGED <<closed, once, pubMu, wg, chanOpen, cpc, pc>> PROVE BusInv'
  BY <1>1 DEF BusInv, WaitGroupInv, CloseInv, InFlight
<1>2. CASE InboundReceive \/ DispatchStep \/ CancelDispatch
  BY <1>1, <1>2 DEF InboundReceive, DispatchStep, DispatchReceive, DispatchCancelled,
                    DispatchLookup, DispatchCall, CancelDispatch, pubVars
<1>3. ASSUME NEW c \in Channels, SetOutboundSubscriber(c) PROVE BusInv'
  BY <1>1, <1>3 DEF SetOutboundSubscriber, pubVars
<1>4. CASE UNCHANGED vars
  BY <1>1, <1>4 DEF vars, pubVars
<1> QED
  BY <1>2, <1>3, <1>4, PublishKeepsBusInv, CloseKeepsBusInv DEF Next

\* b.wg and b.pubMu are used as the comment of Close says: the counter covers
\* exactly the publishes in flight, and it is empty once a Go channel is closed.
THEOREM BusInvariant == Spec => [](TypeOK /\ BusInv)
  BY TypeInit, TypeStep, BusInvInit, BusInvStep, PTL DEF Spec

\* No publisher can reach `ch <- msg` on a closed Go channel, so none panics.
THEOREM NeverSendOnClosed == Spec => []NoSendOnClosedChannel
<1>1. TypeOK /\ BusInv => NoSendOnClosedChannel
  BY DEF TypeOK, PublisherTypeOK, SyncTypeOK, BusInv, WaitGroupInv, CloseInv, InFlight,
         NoSendOnClosedChannel, Message, Streams
<1> QED BY <1>1, BusInvariant, PTL

\* Once any Close has returned, no message is enqueued any more.
THEOREM CloseIsFinal == Spec => ClosedForGood
<1>1. TypeOK /\ BusInv /\ [Next]_vars
        => [(\E c \in Closers : cpc[c] = "returned") => accepted' = accepted]_vars
  <2> SUFFICES ASSUME TypeOK, BusInv, Next, NEW c \in Closers, cpc[c] = "returned"
               PROVE accepted' = accepted
    OBVIOUS
  <2>1. wg = {}
    BY DEF BusInv, CloseInv, Streams
  <2>2. \A p \in Publishers : ~PubSend(p)
    BY <2>1 DEF PubSend, BusInv, WaitGroupInv, InFlight
  <2> QED
    BY <2>2 DEF Next, PubLock, PublishStep, PubReject, PubCheck, PubAdd, PubGiveUp, PubDone,
      CtxEnds, CloseCall, CloseStep, CloseMark, CloseChannels, CloseFinish, CloseJoin,
      InboundReceive, DispatchStep, DispatchReceive, DispatchCancelled, DispatchLookup,
      DispatchCall, CancelDispatch, SetOutboundSubscriber, Dequeue, SeeEnd, chanVars
<1> QED BY <1>1, BusInvariant, PTL DEF Spec, ClosedForGood

-----------------------------------------------------------------------------
\* Nothing is published yet.
LEMMA FreshInit == Init => FreshInv
  BY DEF Init, FreshInv, Streams

\* Publishes are numbered, so a message under way differs from all accepted ones.
LEMMA FreshStep == TypeOK /\ FreshInv /\ [Next]_vars => FreshInv'
<1> SUFFICES ASSUME TypeOK, FreshInv, [Next]_vars PROVE FreshInv'
  OBVIOUS
<1> USE DEF TypeOK, PublisherTypeOK, ChannelTypeOK, FreshInv
<1>m. ASSUME NEW m \in Message PROVE m.from \in Publishers /\ m.n \in Nat
  BY BusAssumption DEF Message
<1>0. ASSUME NEW s \in Streams, NEW i \in 1..Len(accepted[s])
      PROVE accepted[s][i].from \in Publishers /\ accepted[s][i].n \in Nat
  <2>1. accepted[s] \in Seq(Message)
    OBVIOUS
  <2>2. accepted[s][i] \in Message
    BY <2>1
  <2> QED BY <2>2, <1>m
<1>1. ASSUME NEW p \in Publishers, PubLock(p) PROVE FreshInv'
  BY <1>0, <1>1 DEF PubLock, chanVars
\* A publish that moves on or ends leaves the numbers alone and starts no other.
<1>2. ASSUME NEW p \in Publishers,
             PubReject(p) \/ PubCheck(p) \/ PubAdd(p) \/ PubGiveUp(p) \/ PubDone(p) \/ CtxEnds(p)
      PROVE FreshInv'
  <2> USE DEF PubReject, PubCheck, PubAdd, PubGiveUp, PubDone, CtxEnds, PubReturn
  <2>1. UNCHANGED <<started, accepted>>
    BY <1>2 DEF chanVars
  <2>2. \A q \in Publishers : pc'[q] \in {"locked", "open", "select"} =>
          pc[q] \in {"locked", "open", "select"} /\ msg'[q] = msg[q]
    BY <1>2
  <2>3. \A q \in Publishers : pc[q] \in {"idle", "leaving"} => pc'[q] \in {"idle", "leaving"}
    BY <1>2
  <2> QED BY <1>0, <2>1, <2>2, <2>3
<1>3. ASSUME NEW p \in Publishers, PubSend(p) PROVE FreshInv'
  <2> DEFINE t == msg[p].stream
  <2>1. msg[p] \in Message /\ t \in Streams /\ msg[p].from = p /\ msg[p].n = started[p]
    BY <1>3 DEF PubSend, Message
  <2>2. ASSUME NEW s \in Streams, NEW i \in 1..Len(accepted'[s])
        PROVE  \/ accepted'[s][i] = msg[p]
               \/ i \in 1..Len(accepted[s]) /\ accepted'[s][i] = accepted[s][i]
    BY <1>3, <2>1 DEF PubSend
  <2>3. \A q \in Publishers : pc'[q] = IF q = p THEN "leaving" ELSE pc[q]
    BY <1>3 DEF PubSend
  <2>4. started' = started /\ msg' = msg
    BY <1>3 DEF PubSend
  <2>5. ASSUME NEW s \in Streams, NEW i \in 1..Len(accepted'[s]), NEW m, m = accepted'[s][i]
        PROVE  m.n <= started'[m.from] /\ (m.n = started'[m.from] => pc'[m.from] \in {"idle", "leaving"})
    <3>1. CASE m = msg[p]
      BY <2>1, <2>3, <2>4, <3>1
    <3>2. CASE i \in 1..Len(accepted[s]) /\ m = accepted[s][i]
      BY <1>0, <2>3, <2>4, <3>2
    <3> QED BY <2>2, <2>5, <3>1, <3>2
  <2> QED BY <2>3, <2>4, <2>5
<1>4. ASSUME UNCHANGED <<pc, msg, started, accepted>> PROVE FreshInv'
  BY <1>4
<1>5. ASSUME NEW c \in Closers, CloseCall(c) \/ CloseStep(c) PROVE FreshInv'
  BY <1>4, <1>5 DEF CloseCall, CloseStep, CloseMark, CloseChannels, CloseFinish, CloseJoin,
                    pubVars, chanVars
<1>6. CASE InboundReceive \/ DispatchStep \/ CancelDispatch
  BY <1>4, <1>6 DEF InboundReceive, DispatchStep, DispatchReceive, DispatchCancelled, Dequeue,
                    SeeEnd, DispatchLookup, DispatchCall, CancelDispatch, pubVars, chanVars
<1>7. ASSUME NEW c \in Channels, SetOutboundSubscriber(c) PROVE FreshInv'
  BY <1>4, <1>7 DEF SetOutboundSubscriber, pubVars, chanVars
<1>8. CASE UNCHANGED vars
  BY <1>4, <1>8 DEF vars, pubVars, chanVars
<1> QED
  BY <1>1, <1>2, <1>3, <1>5, <1>6, <1>7, <1>8 DEF Next, PublishStep

\* A new bus maps to two empty streams that are not shut.
LEMMA InitRefines == Init => Contract!CInit
  BY DEF Init, Contract!CInit, Streams

\* The one step with something to prove: PubSend maps to CAccept because the
\* channel is open (BusInv) and the message is new (FreshInv).
LEMMA SendRefines ==
  ASSUME TypeOK, BusInv, FreshInv, NEW p \in Publishers, PubSend(p)
  PROVE  Contract!CAccept(msg[p].stream, msg[p]) /\ msg[p] \in Message
           /\ msg[p].stream \in Streams
<1> DEFINE s == msg[p].stream
<1>1. msg[p] \in Message /\ s \in Streams
  BY DEF PubSend, TypeOK, PublisherTypeOK, Message
<1>2. chanOpen["inbound"]
  BY DEF PubSend, TypeOK, SyncTypeOK, BusInv, CloseInv, WaitGroupInv, InFlight, Streams
<1>3. \A i \in 1..Len(accepted[s]) : accepted[s][i] # msg[p]
  BY <1>1 DEF FreshInv, PubSend
<1> QED BY <1>1, <1>2, <1>3 DEF PubSend, Contract!CAccept

\* Taking a message maps to CReceive, seeing the close of a drained channel to CEnd.
LEMMA ReadRefines ==
  ASSUME TypeOK, BusInv, NEW s \in Streams, Dequeue(s) \/ SeeEnd(s), UNCHANGED chanOpen
  PROVE  Contract!CReceive(s) \/ Contract!CEnd(s)
  BY DEF TypeOK, SyncTypeOK, BusInv, CloseInv, Streams, Dequeue, SeeEnd,
         Contract!CReceive, Contract!CEnd

\* Every step of the bus is a step of the contract or leaves its state alone.
LEMMA StepRefines ==
  TypeOK /\ BusInv /\ FreshInv /\ [Next]_vars => [Contract!CNext]_(Contract!contractVars)
<1> SUFFICES ASSUME TypeOK, BusInv, FreshInv, [Next]_vars
             PROVE  Contract!CNext \/ UNCHANGED Contract!contractVars
  OBVIOUS
<1>1. ASSUME UNCHANGED <<chanVars, chanOpen>> PROVE UNCHANGED Contract!contractVars
  BY <1>1 DEF chanVars, Contract!contractVars
<1>2. ASSUME NEW p \in Publishers, PubSend(p) PROVE Contract!CNext
  BY <1>2, SendRefines DEF Contract!CNext
<1>3. ASSUME NEW p \in Publishers,
             \/ PubLock(p) \/ PubReject(p) \/ PubCheck(p) \/ PubAdd(p)
             \/ PubGiveUp(p) \/ PubDone(p) \/ CtxEnds(p)
      PROVE UNCHANGED Contract!contractVars
  BY <1>1, <1>3 DEF PubLock, PubReject, PubCheck, PubAdd, PubGiveUp, PubDone, CtxEnds
<1>4. ASSUME NEW c \in Closers, CloseChannels(c)
      PROVE Contract!CNext \/ UNCHANGED Contract!contractVars
  BY <1>4 DEF CloseChannels, chanVars, TypeOK, SyncTypeOK, Streams, Contract!CNext,
              Contract!CShut, Contract!contractVars
<1>5. ASSUME NEW c \in Closers, CloseCall(c) \/ CloseMark(c) \/ CloseFinish(c) \/ CloseJoin(c)
      PROVE UNCHANGED Contract!contractVars
  <2>1. chanOpen'["inbound"] = chanOpen["inbound"]
    BY <1>5 DEF CloseCall, CloseMark, CloseFinish, CloseJoin, TypeOK, SyncTypeOK, Streams
  <2> QED BY <1>5, <2>1 DEF CloseCall, CloseMark, CloseFinish, CloseJoin, chanVars,
                            Contract!contractVars
<1>6. CASE InboundReceive \/ DispatchReceive
  <2>1. PICK s \in Streams : Dequeue(s) \/ SeeEnd(s)
    BY <1>6 DEF InboundReceive, DispatchReceive, Streams
  <2>2. UNCHANGED chanOpen
    BY <1>6 DEF InboundReceive, DispatchReceive
  <2> QED BY <2>1, <2>2, ReadRefines DEF Contract!CNext
<1>7. CASE DispatchCancelled \/ DispatchLookup \/ DispatchCall \/ CancelDispatch
  BY <1>1, <1>7 DEF DispatchCancelled, DispatchLookup, DispatchCall, CancelDispatch
<1>8. ASSUME NEW c \in Channels, SetOutboundSubscriber(c) PROVE UNCHANGED Contract!contractVars
  BY <1>1, <1>8 DEF SetOutboundSubscriber
<1>9. CASE UNCHANGED vars
  BY <1>1, <1>9 DEF vars
<1> QED
  BY <1>2, <1>3, <1>4, <1>5, <1>6, <1>7, <1>8, <1>9 DEF Next, PublishStep, CloseStep, DispatchStep

\* For every number of publishers and closers and every buffer size the bus is a
\* pair of bounded streams without loss, duplication, reordering or late accepts.
THEOREM BusImplementsContract == Spec => ImplementsContract
<1>1. Spec => []FreshInv
  BY FreshInit, FreshStep, TypeInit, TypeStep, PTL DEF Spec
<1> QED
  BY <1>1, BusInvariant, InitRefines, StepRefines, PTL
     DEF Spec, ImplementsContract, Contract!CSpec

-----------------------------------------------------------------------------
\* While DispatchOutbound has a message in its hands it is the last one it received.
DispatchInv ==
  received["outbound"] = IF dpc \in {"lookup", "call"} THEN Append(handled, dmsg) ELSE handled

\* DispatchOutbound begins with an empty hand.
LEMMA DispatchInit == Init => DispatchInv
  BY DEF Init, DispatchInv, Streams

\* No step of the dispatcher loses, repeats or overtakes a message.
LEMMA DispatchInvStep == TypeOK /\ DispatchInv /\ [Next]_vars => DispatchInv'
<1> SUFFICES ASSUME TypeOK, DispatchInv, [Next]_vars PROVE DispatchInv'
  OBVIOUS
<1> USE DEF TypeOK, DispatchTypeOK, ChannelTypeOK, DispatchInv
<1>0. ASSUME UNCHANGED <<received, dpc, dmsg, handled>> PROVE DispatchInv'
  BY <1>0
<1>1. ASSUME NEW p \in Publishers, PubLock(p) \/ PublishStep(p) \/ CtxEnds(p) PROVE DispatchInv'
  BY <1>0, <1>1 DEF PubLock, PublishStep, PubReject, PubCheck, PubAdd, PubSend, PubGiveUp,
                    PubDone, CtxEnds, PubReturn, dispVars, chanVars
<1>2. ASSUME NEW c \in Closers, CloseCall(c) \/ CloseStep(c) PROVE DispatchInv'
  BY <1>0, <1>2 DEF CloseCall, CloseStep, CloseMark, CloseChannels, CloseFinish, CloseJoin,
                    dispVars, chanVars
<1>3. CASE InboundReceive
  BY <1>3 DEF InboundReceive, Dequeue, SeeEnd, dispVars, Streams
<1>4. CASE DispatchReceive
  BY <1>4 DEF DispatchReceive, Dequeue, SeeEnd, Streams
<1>5. CASE DispatchLookup \/ DispatchCall
  BY <1>5 DEF DispatchLookup, DispatchCall, Dispose, chanVars
<1>6. CASE DispatchCancelled
  BY <1>6 DEF DispatchCancelled, chanVars
<1>7. CASE CancelDispatch
  BY <1>0, <1>7 DEF CancelDispatch, chanVars
<1>8. ASSUME NEW c \in Channels, SetOutboundSubscriber(c) PROVE DispatchInv'
  BY <1>0, <1>8 DEF SetOutboundSubscriber, chanVars
<1>9. CASE UNCHANGED vars
  BY <1>0, <1>9 DEF vars, dispVars, chanVars
<1> QED
  BY <1>1, <1>2, <1>3, <1>4, <1>5, <1>6, <1>7, <1>8, <1>9 DEF Next, DispatchStep

\* Whatever subscribers do, and whether or not there is one, each message that left the outbound
\* buffer is disposed of once, in its order.
THEOREM DispatchKeepsOrder == Spec => []DispatchedInOrder
<1>1. TypeOK /\ DispatchInv => DispatchedInOrder
  <2> SUFFICES ASSUME TypeOK, DispatchInv, dpc \in {"lookup", "call"}
               PROVE  handled = SubSeq(received["outbound"], 1, Len(received["outbound"]) - 1)
    BY DEF DispatchedInOrder, DispatchInv
  <2>1. handled \in Seq(Message) /\ dmsg \in Message
    BY DEF TypeOK, DispatchTypeOK
  <2> DEFINE r == Append(handled, dmsg)
  <2>2. Len(r) - 1 = Len(handled) /\ r \in Seq(Message)
    BY <2>1
  <2>3. SubSeq(r, 1, Len(handled)) = handled
    BY <2>1, <2>2
  <2> QED
    BY <2>2, <2>3 DEF DispatchInv
<1> QED
  BY <1>1, TypeInit, TypeStep, DispatchInit, DispatchInvStep, PTL DEF Spec

-----------------------------------------------------------------------------
\* The accounts of publishEnqueue, with what makes the messages of p countable.
AccountInv == EveryPublishAccountedFor /\ \A p \in Publishers : IsFiniteSet(Enqueued(p))

\* The messages of p among the accepted ones, by stream and place.
LEMMA EnqueuedMember ==
  ASSUME NEW p
  PROVE  \A e : e \in Enqueued(p) <=>
           \E s \in Streams : \E i \in 1..Len(accepted[s]) : e = <<s, i>> /\ accepted[s][i].from = p
  BY DEF Enqueued

\* A message that is enqueued adds one to what its publisher enqueued and nothing to anyone else's.
LEMMA SendCounts ==
  ASSUME TypeOK, FreshInv, AccountInv, NEW p \in Publishers, PubSend(p), NEW q \in Publishers
  PROVE  /\ IsFiniteSet(Enqueued(q)')
         /\ Cardinality(Enqueued(q)') = Cardinality(Enqueued(q)) + (IF q = p THEN 1 ELSE 0)
<1> DEFINE s == msg[p].stream
           new == <<s, Len(accepted[s]) + 1>>
<1>1. s \in Streams /\ msg[p] \in Message /\ msg[p].from = p /\ accepted[s] \in Seq(Message)
  BY DEF PubSend, TypeOK, PublisherTypeOK, ChannelTypeOK, FreshInv, Message
<1>2. accepted' = [accepted EXCEPT ![s] = Append(@, msg[p])]
  BY DEF PubSend
<1>3. accepted \in [Streams -> Seq(Message)]
  BY DEF TypeOK, ChannelTypeOK
<1>4. Len(accepted'[s]) = Len(accepted[s]) + 1 /\ Len(accepted[s]) \in Nat
  BY <1>1, <1>2, <1>3
<1>5. \A i \in 1..Len(accepted[s]) : accepted'[s][i] = accepted[s][i]
  BY <1>1, <1>2, <1>3
<1>6. accepted'[s][Len(accepted[s]) + 1] = msg[p]
  BY <1>1, <1>2, <1>3
<1>7. \A t \in Streams \ {s} : accepted'[t] = accepted[t]
  BY <1>2, <1>3
<1>8. new \notin Enqueued(q) /\ IsFiniteSet(Enqueued(q))
  BY <1>4, EnqueuedMember DEF AccountInv
<1>9. \A t \in Streams : \A i :
        /\ i \in 1..Len(accepted'[t]) <=> i \in 1..Len(accepted[t]) \/ <<t, i>> = new
        /\ i \in 1..Len(accepted[t]) => accepted'[t][i] = accepted[t][i]
        /\ <<t, i>> = new => accepted'[t][i].from = p
  <2> TAKE t \in Streams
  <2> TAKE i
  <2>1. CASE t = s
    <3>1. i \in 1..Len(accepted'[s]) <=> i \in 1..Len(accepted[s]) \/ i = Len(accepted[s]) + 1
      BY <1>4
    <3>2. <<t, i>> = new <=> i = Len(accepted[s]) + 1
      BY <2>1
    <3>3. <<t, i>> = new => accepted'[t][i].from = p
      BY <1>1, <1>6, <2>1, <3>2
    <3> QED BY <1>5, <2>1, <3>1, <3>2, <3>3
  <2>2. CASE t # s
    BY <1>7, <2>2
  <2> QED BY <2>1, <2>2
<1>10. \A e : e \in Enqueued(q)' <=>
          \E t \in Streams : \E i \in 1..Len(accepted'[t]) : e = <<t, i>> /\ accepted'[t][i].from = q
  BY DEF Enqueued
<1>11. \A e : e \in Enqueued(q)' <=> e \in Enqueued(q) \/ (e = new /\ p = q)
  <2> TAKE e
  <2>1. ASSUME e \in Enqueued(q)' PROVE e \in Enqueued(q) \/ (e = new /\ p = q)
    <3>1. PICK t \in Streams :
            \E i \in 1..Len(accepted'[t]) : e = <<t, i>> /\ accepted'[t][i].from = q
      BY <2>1, <1>10
    <3>2. PICK i \in 1..Len(accepted'[t]) : e = <<t, i>> /\ accepted'[t][i].from = q
      BY <3>1
    <3>3. CASE <<t, i>> = new
      BY <3>2, <3>3, <1>9
    <3>4. CASE i \in 1..Len(accepted[t])
      BY <3>2, <3>4, <1>9, EnqueuedMember
    <3> QED BY <3>2, <3>3, <3>4, <1>9
  <2>2. ASSUME e \in Enqueued(q) PROVE e \in Enqueued(q)'
    <3>1. PICK t \in Streams :
            \E i \in 1..Len(accepted[t]) : e = <<t, i>> /\ accepted[t][i].from = q
      BY <2>2, EnqueuedMember
    <3>2. PICK i \in 1..Len(accepted[t]) : e = <<t, i>> /\ accepted[t][i].from = q
      BY <3>1
    <3>3. i \in 1..Len(accepted'[t]) /\ accepted'[t][i].from = q
      BY <3>2, <1>9
    <3> QED BY <3>2, <3>3, <1>10
  <2>3. ASSUME p = q PROVE new \in Enqueued(q)'
    <3>1. s \in Streams /\ Len(accepted[s]) + 1 \in 1..Len(accepted'[s])
      BY <1>1, <1>4
    <3>2. accepted'[s][Len(accepted[s]) + 1].from = q
      BY <1>1, <1>6, <2>3
    <3> QED BY <3>1, <3>2, <1>10
  <2> QED BY <2>1, <2>2, <2>3
<1>12. CASE q = p
  <2>1. Enqueued(q)' = Enqueued(q) \cup {new}
    BY <1>11, <1>12
  <2> QED BY <1>8, <1>12, <2>1, FS_AddElement, FS_CardinalityType
<1>13. CASE q # p
  <2>1. Enqueued(q)' = Enqueued(q)
    BY <1>11, <1>13
  <2> QED BY <1>8, <1>13, <2>1, FS_CardinalityType
<1> QED BY <1>12, <1>13

\* Nothing is begun, enqueued or reported yet.
LEMMA AccountInit == Init => AccountInv
<1> SUFFICES ASSUME Init, NEW p \in Publishers
             PROVE  /\ IsFiniteSet(Enqueued(p))
                    /\ started[p] = Cardinality(Enqueued(p)) + failures[p] + UnderWay(p)
  BY DEF AccountInv, EveryPublishAccountedFor
<1>1. Enqueued(p) = {}
  BY DEF Enqueued, Init
<1> QED BY <1>1, FS_EmptySet DEF Init, UnderWay

\* Each step of publishEnqueue moves a publish from one account to the next.
LEMMA AccountStep == TypeOK /\ FreshInv /\ AccountInv /\ [Next]_vars => AccountInv'
<1> SUFFICES ASSUME TypeOK, FreshInv, AccountInv, [Next]_vars PROVE AccountInv'
  OBVIOUS
<1>c. \A q \in Publishers : Cardinality(Enqueued(q)) \in Nat
  BY FS_CardinalityType DEF AccountInv
<1>e. ASSUME UNCHANGED accepted PROVE \A q : Enqueued(q)' = Enqueued(q)
  BY <1>e DEF Enqueued
<1>0. ASSUME UNCHANGED <<pc, started, failures, accepted>> PROVE AccountInv'
  BY <1>0, <1>e DEF AccountInv, EveryPublishAccountedFor, UnderWay
<1>1. ASSUME NEW p \in Publishers,
             \/ PubLock(p) \/ PubReject(p) \/ PubCheck(p) \/ PubAdd(p)
             \/ PubGiveUp(p) \/ PubDone(p) \/ CtxEnds(p)
      PROVE AccountInv'
  <2>1. UNCHANGED accepted
    BY <1>1 DEF PubLock, PubReject, PubCheck, PubAdd, PubGiveUp, PubDone, CtxEnds, chanVars
  <2>2. \A q \in Publishers :
          started'[q] - failures'[q] - UnderWay(q)' = started[q] - failures[q] - UnderWay(q)
    BY <1>1 DEF PubLock, PubReject, PubCheck, PubAdd, PubGiveUp, PubDone, CtxEnds, PubReturn,
                UnderWay, TypeOK, PublisherTypeOK
  <2>3. \A q \in Publishers : /\ started'[q] \in Int /\ failures'[q] \in Int /\ UnderWay(q)' \in Int
                              /\ started[q] \in Int /\ failures[q] \in Int /\ UnderWay(q) \in Int
    BY <1>1 DEF PubLock, PubReject, PubCheck, PubAdd, PubGiveUp, PubDone, CtxEnds, PubReturn,
                UnderWay, TypeOK, PublisherTypeOK
  <2> QED
    BY <1>c, <1>e, <2>1, <2>2, <2>3 DEF AccountInv, EveryPublishAccountedFor
<1>2. ASSUME NEW p \in Publishers, PubSend(p) PROVE AccountInv'
  <2>1. UNCHANGED <<started, failures>>
    BY <1>2 DEF PubSend
  <2>2. \A q \in Publishers : UnderWay(q)' = UnderWay(q) - (IF q = p THEN 1 ELSE 0)
    BY <1>2 DEF PubSend, UnderWay, TypeOK, PublisherTypeOK
  <2>3. \A q \in Publishers : started[q] \in Int /\ failures[q] \in Int /\ UnderWay(q) \in Int
    BY DEF UnderWay, TypeOK, PublisherTypeOK
  <2>4. \A q \in Publishers :
          /\ IsFiniteSet(Enqueued(q)')
          /\ Cardinality(Enqueued(q)') = Cardinality(Enqueued(q)) + (IF q = p THEN 1 ELSE 0)
    BY <1>2, SendCounts
  <2>5. ASSUME NEW q \in Publishers
        PROVE  started'[q] = Cardinality(Enqueued(q)') + failures'[q] + UnderWay(q)'
    BY <1>c, <2>1, <2>2, <2>3, <2>4 DEF AccountInv, EveryPublishAccountedFor
  <2> QED
    BY <2>4, <2>5 DEF AccountInv, EveryPublishAccountedFor
<1>3. ASSUME NEW c \in Closers, CloseCall(c) \/ CloseStep(c) PROVE AccountInv'
  BY <1>0, <1>3 DEF CloseCall, CloseStep, CloseMark, CloseChannels, CloseFinish, CloseJoin,
                    pubVars, chanVars
<1>4. CASE InboundReceive \/ DispatchStep \/ CancelDispatch
  BY <1>0, <1>4 DEF InboundReceive, DispatchStep, DispatchReceive, DispatchCancelled, Dequeue,
                    SeeEnd, DispatchLookup, DispatchCall, CancelDispatch, pubVars, chanVars
<1>5. ASSUME NEW c \in Channels, SetOutboundSubscriber(c) PROVE AccountInv'
  BY <1>0, <1>5 DEF SetOutboundSubscriber, pubVars, chanVars
<1>6. CASE UNCHANGED vars
  BY <1>0, <1>6 DEF vars, pubVars, chanVars
<1> QED
  BY <1>1, <1>2, <1>3, <1>4, <1>5, <1>6 DEF Next, PublishStep

\* PublishInbound and PublishOutbound lose nothing in silence: what a publisher began is enqueued,
\* reported as failed, or still under way, and only one of them.
THEOREM NothingVanishes == Spec => []EveryPublishAccountedFor
<1>1. AccountInv => EveryPublishAccountedFor
  BY DEF AccountInv
<1> QED
  BY <1>1, TypeInit, TypeStep, FreshInit, FreshStep, AccountInit, AccountStep, PTL DEF Spec
=============================================================================
