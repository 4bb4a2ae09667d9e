--------------------------- MODULE ChannelManager ---------------------------
(***************************************************************************)
(* internal/kernel/channels/manager over the plugin registry: Apply builds *)
(* the next channel objects, stops the last ones and starts the next, all  *)
(* while the dispatcher may look a subscriber up. An object is a WhatsApp channel *)
(* (internal/plugins/channel/whatsapp), which opens its store when it is   *)
(* built and its connection when it starts. Object <<n, g>> is the one     *)
(* that Apply number g built for the channel name n.                       *)
(***************************************************************************)
EXTENDS Naturals, FiniteSets

CONSTANTS
  Names,      \* channels a plugin provides
  MaxApplies, \* bound: Applies
  MaxFaults   \* bound: constructors, starts and closes of a store that fail

None == 0
Gens == 1..MaxApplies

ManagerAssumption == MaxApplies \in Nat

VARIABLES
  phase,     \* where Apply or StopAll is
  gen,       \* number of the last Apply
  channels,  \* ChannelManager.channels: name -> Apply that built its object
  next,      \* the map an Apply is going to install
  todo,      \* the names the loop or the goroutines in progress have not done
  subs,      \* MessageBus.subs
  store,     \* objects whose session store is open
  conn,      \* objects that are connected
  stopped,   \* objects that Stop was called on
  unclosed,  \* objects whose store did not close
  rootEnds,  \* the ctx of the gateway has ended
  faults

objVars == <<store, conn, stopped, unclosed>>
vars == <<phase, gen, channels, next, todo, subs, objVars, rootEnds, faults>>

Of(map) == {<<n, map[n]>> : n \in {m \in Names : map[m] # None}}
Enabled(map) == {n \in Names : map[n] # None}

Init ==
  /\ phase = "idle" /\ gen = 0 /\ todo = {}
  /\ channels = [n \in Names |-> None] /\ next = channels /\ subs = channels
  /\ store = {} /\ conn = {} /\ stopped = {} /\ unclosed = {}
  /\ rootEnds = FALSE /\ faults = 0

Fault == faults < MaxFaults /\ faults' = faults + 1

-----------------------------------------------------------------------------
(* Apply *)

\* Registry.Channels, NewWhatsApp: a plugin whose channel is enabled and can be built
\* contributes it; one that fails is left out.
Build ==
  /\ phase = "idle" /\ gen < MaxApplies /\ ~rootEnds
  /\ gen' = gen + 1
  /\ \E on \in SUBSET Names, bad \in SUBSET Names :
       /\ bad \subseteq on /\ Cardinality(bad) <= 1
       /\ IF bad = {} THEN UNCHANGED faults ELSE Fault
       /\ next' = [n \in Names |-> IF n \in on \ bad THEN gen' ELSE None]
  /\ store' = store \cup Of(next')
  /\ phase' = "stop" /\ todo' = Enabled(channels)
  /\ UNCHANGED <<channels, subs, conn, stopped, unclosed, rootEnds>>

\* Stop: the ctx, the handler and the connection end, then the store is closed.
Stop(o) ==
  /\ stopped' = stopped \cup {o} /\ conn' = conn \ {o}
  /\ \/ store' = store \ {o} /\ UNCHANGED <<unclosed, faults>>
     \/ Fault /\ unclosed' = unclosed \cup {o} /\ UNCHANGED store

StopOld(n) ==
  /\ phase \in {"stop", "stopAll"} /\ n \in todo
  /\ <<n, channels[n]>> \notin stopped
  /\ Stop(<<n, channels[n]>>)
  /\ UNCHANGED <<phase, gen, channels, next, todo, subs, rootEnds>>

Unsubscribe(n) ==
  /\ phase \in {"stop", "stopAll"} /\ n \in todo
  /\ <<n, channels[n]>> \in stopped
  /\ subs' = [subs EXCEPT ![n] = None] /\ todo' = todo \ {n}
  /\ UNCHANGED <<phase, gen, channels, next, objVars, rootEnds, faults>>

\* Mutation of OldAreStopped: the connections of the names that stay are kept till the end.
OldAreStoppedLate ==
  /\ phase = "stop" /\ \A n \in todo : next[n] # None
  /\ phase' = "subscribe" /\ todo' = Enabled(next)
  /\ UNCHANGED <<gen, channels, next, subs, objVars, rootEnds, faults>>

OldAreStopped ==
  /\ phase = "stop" /\ todo = {}
  /\ phase' = "subscribe" /\ todo' = Enabled(next)
  /\ UNCHANGED <<gen, channels, next, subs, objVars, rootEnds, faults>>

Subscribe(n) ==
  /\ phase = "subscribe" /\ n \in todo
  /\ subs' = [subs EXCEPT ![n] = next[n]] /\ todo' = todo \ {n}
  /\ UNCHANGED <<phase, gen, channels, next, objVars, rootEnds, faults>>

\* m.channels = next; the slash commands are passed on; startAll.
Install ==
  /\ phase = "subscribe" /\ todo = {}
  /\ channels' = next
  /\ phase' = "start" /\ todo' = Enabled(next)
  /\ UNCHANGED <<gen, next, subs, objVars, rootEnds, faults>>

\* Each channel starts in a goroutine of its own; one that fails cancels its own ctx.
\* Connect does not look at a ctx that has ended already.
Start(n) ==
  /\ phase = "start" /\ n \in todo
  /\ todo' = todo \ {n}
  /\ \/ conn' = conn \cup {<<n, next[n]>>} /\ UNCHANGED faults
     \/ Fault /\ UNCHANGED conn
  /\ UNCHANGED <<phase, gen, channels, next, subs, store, stopped, unclosed, rootEnds>>

\* errgroup.Wait: Apply returns, with the error of a channel if one failed.
Started ==
  /\ phase = "start" /\ todo = {}
  /\ phase' = "idle" /\ next' = [n \in Names |-> None]
  /\ UNCHANGED <<gen, channels, todo, subs, objVars, rootEnds, faults>>

-----------------------------------------------------------------------------
(* The end *)

\* The ctx of Run ends, and with it the ones of the channels.
RootEnds ==
  /\ ~rootEnds
  /\ rootEnds' = TRUE
  /\ UNCHANGED <<phase, gen, channels, next, todo, subs, objVars, faults>>

\* The goroutine that Start left behind.
Disconnect(o) ==
  /\ o \in conn /\ rootEnds
  /\ conn' = conn \ {o}
  /\ UNCHANGED <<phase, gen, channels, next, todo, subs, store, stopped, unclosed, rootEnds, faults>>

StopAll ==
  /\ phase = "idle" /\ rootEnds
  /\ phase' = "stopAll" /\ todo' = Enabled(channels)
  /\ UNCHANGED <<gen, channels, next, subs, objVars, rootEnds, faults>>

AllStopped ==
  /\ phase = "stopAll" /\ todo = {}
  /\ channels' = [n \in Names |-> None] /\ phase' = "down"
  /\ UNCHANGED <<gen, next, todo, subs, objVars, rootEnds, faults>>

Next ==
  \/ Build \/ OldAreStopped \/ Install \/ Started
  \/ \E n \in Names : StopOld(n) \/ Unsubscribe(n) \/ Subscribe(n) \/ Start(n)
  \/ RootEnds \/ \E o \in Names \X Gens : Disconnect(o)
  \/ StopAll \/ AllStopped

Spec == Init /\ [][Next]_vars
-----------------------------------------------------------------------------
TypeOK ==
  /\ phase \in {"idle", "stop", "subscribe", "start", "stopAll", "down"}
  /\ {channels, next, subs} \subseteq [Names -> 0..MaxApplies] /\ todo \subseteq Names
  /\ store \cup conn \cup stopped \cup unclosed \subseteq Names \X Gens

(* An account is never connected twice: the object of the last Apply is    *)
(* gone before that of the next one connects.                              *)
OneConnection == \A o, p \in conn : o[1] = p[1] => o = p

(* Nothing is left behind: an object that holds its store or a connection  *)
(* is one that the next Apply, or StopAll, is going to stop. Only a store  *)
(* that refused to close is given up.                                      *)
NothingLeaks ==
  /\ (store \cup conn) \ unclosed \subseteq Of(channels) \cup Of(next)
  /\ phase = "down" => store = unclosed /\ conn = {}

(* Whenever the dispatcher looks, what it finds is an object of the last   *)
(* or of the running Apply and not one that was replaced; between Applies  *)
(* the subscribers are the channels.                                       *)
SubscribersAreManaged ==
  /\ Of(subs) \subseteq Of(channels) \cup Of(next)
  /\ phase \in {"idle", "down"} => subs = channels

(* The channels through any number of reloads and the end.                 *)
ChannelsAreHandedOver == TypeOK /\ OneConnection /\ NothingLeaks /\ SubscribersAreManaged
=============================================================================
