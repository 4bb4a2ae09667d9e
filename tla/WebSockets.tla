----------------------------- MODULE WebSockets -----------------------------
(***************************************************************************)
(* The chat side of the web channel (plugins/channel/web/http.go, ws.go):  *)
(* connections are numbered by the WebChannel object that accepted them,   *)
(* "web-1", "web-2" ...; a client's message is published under its number, *)
(* and an answer is written to the connection that the object which writes *)
(* it has under that number at each write - to all its connections when it *)
(* has none (docs/channels/web.md). A reload of the configuration stops    *)
(* the object and starts another one, whose numbers begin again; a stream  *)
(* goes on with the object its turn found, over the reload.                *)
(***************************************************************************)
EXTENDS Naturals, Sequences, FiniteSets

CONSTANTS
  MaxConns,     \* bound: connections ever accepted
  MaxQuestions, \* bound: messages of the clients
  MaxReloads,   \* bound: replacements of the channel object
  Pieces        \* bound: writes of one stream, its deltas and stream_done

VARIABLES
  gen,       \* the WebChannel object in ChannelManager.channels
  phase,     \* where its replacement is: "serving", "shutting", "stopped", "unsubscribed", "subscribed"
  nextID,    \* the nextID counter of each object
  conns,     \* the connections: [gen, id, at, late], late when its object had stopped before
  clients,   \* the clients maps of the objects: a set of [gen, id, conn]
  asked,     \* the messages published: [conn, id, on (the object that answers), left (writes to come), sent]
  writes     \* the writes of the answers: [asker, here, to], here when the asker was registered

vars == <<gen, phase, nextID, conns, clients, asked, writes>>

WebSocketsAssumption == {MaxConns, MaxReloads} \subseteq Nat /\ Pieces \in Nat \ {0}

Objects == 1..(MaxReloads + 1)
NoObject == 0

Init ==
  /\ gen = 1 /\ phase = "serving" /\ nextID = [g \in Objects |-> 0]
  /\ conns = <<>> /\ clients = {} /\ asked = <<>> /\ writes = {}

Registered(g) == {e \in clients : e.gen = g}
IsStopped(g) == g < gen \/ (g = gen /\ phase \notin {"serving", "shutting"})
\* The object whose Send is subscribed to the outbound messages.
Subscriber == CASE phase = "unsubscribed" -> NoObject
                [] phase = "subscribed" -> gen + 1
                [] OTHER -> gen

-----------------------------------------------------------------------------
(* handleWS                                                                *)

\* The handshake: the connection leaves the server's care.  Requests in flight when the server
\* shuts down still get here.
Accept ==
  /\ ~IsStopped(gen) /\ Len(conns) < MaxConns
  /\ conns' = Append(conns, [gen |-> gen, id |-> 0, at |-> "accepted", late |-> FALSE])
  /\ UNCHANGED <<gen, phase, nextID, clients, asked, writes>>

\* Mutation of Number: the number is the count of the clients, not a counter.
NumberByCount(g) == Cardinality(Registered(g)) + 1

\* nextID.Add(1)
Number(g) == nextID[g] + 1

\* The connection gets its number and is stored among its object's clients.
Register(c) ==
  /\ conns[c].at = "accepted"
  /\ LET g == conns[c].gen
         id == Number(g)
     IN  /\ nextID' = [nextID EXCEPT ![g] = @ + 1]
         /\ conns' = [conns EXCEPT ![c].id = id, ![c].at = "open", ![c].late = IsStopped(g)]
         /\ clients' = {e \in clients : ~(e.gen = g /\ e.id = id)}
                         \cup {[gen |-> g, id |-> id, conn |-> c]}
  /\ UNCHANGED <<gen, phase, asked, writes>>

\* A message the allow list lets through is published under the connection's number.
Receive(c) ==
  /\ conns[c].at = "open" /\ Len(asked) < MaxQuestions
  /\ asked' = Append(asked, [conn |-> c, id |-> conns[c].id, on |-> NoObject, left |-> 0, sent |-> FALSE])
  /\ UNCHANGED <<gen, phase, nextID, conns, clients, writes>>

\* The peer goes away ...
Disconnect(c) ==
  /\ conns[c].at = "open"
  /\ conns' = [conns EXCEPT ![c].at = "broken"]
  /\ UNCHANGED <<gen, phase, nextID, clients, asked, writes>>

\* ... and the handler's Read fails: clients.Delete by number.
Unregister(c) ==
  /\ conns[c].at = "broken"
  /\ conns' = [conns EXCEPT ![c].at = "gone"]
  /\ clients' = {e \in clients : ~(e.gen = conns[c].gen /\ e.id = conns[c].id)}
  /\ UNCHANGED <<gen, phase, nextID, asked, writes>>

-----------------------------------------------------------------------------
(* Send, SendStream and writeToClient                                      *)

\* handle looks the channel up once, at the start of the turn, and runStream keeps what it found.
TurnBegins(q) ==
  /\ asked[q].on = NoObject /\ ~asked[q].sent
  /\ asked' = [asked EXCEPT ![q].on = gen, ![q].left = Pieces]
  /\ UNCHANGED <<gen, phase, nextID, conns, clients, writes>>

\* An answer that is no stream, or the report of one that failed, goes over the bus: the dispatcher
\* looks the subscriber up, and drops the message when there is none.
Dispatch(q) ==
  /\ asked[q].left = 0 /\ ~asked[q].sent
  /\ asked' = [asked EXCEPT ![q].on = Subscriber, ![q].sent = TRUE,
                            ![q].left = IF Subscriber = NoObject THEN 0 ELSE 1]
  /\ UNCHANGED <<gen, phase, nextID, conns, clients, writes>>

\* One write of an answer by its object.  A broken connection fails it, and the stream.
WriteToClient(q) ==
  /\ asked[q].left > 0
  /\ LET asker == asked[q].conn
         mine == Registered(asked[q].on)
         here == {e.conn : e \in mine}
         found == {e.conn : e \in {e \in mine : e.id = asked[q].id}}
         to == {c \in (IF found = {} THEN here ELSE found) : conns[c].at = "open"}
     IN  /\ writes' = writes \cup {[asker |-> asker, here |-> asker \in here, to |-> to]}
         /\ asked' = [asked EXCEPT ![q].left = IF found # {} /\ to = {} THEN 0 ELSE @ - 1]
  /\ UNCHANGED <<gen, phase, nextID, conns, clients>>

-----------------------------------------------------------------------------
(* Stop and the next object                                                *)

\* server.Shutdown: no new connection; hijacked ones are not its business.
Shutdown ==
  /\ phase = "serving" /\ gen <= MaxReloads
  /\ phase' = "shutting"
  /\ UNCHANGED <<gen, nextID, conns, clients, asked, writes>>

\* The clients found in the map are closed.
Closed(found) ==
  [c \in DOMAIN conns |-> IF c \in found /\ conns[c].at = "open"
                          THEN [conns[c] EXCEPT !.at = "broken"] ELSE conns[c]]

\* Mutation of CloseClients: the function given to Range stops it after the first client.
CloseFirstClient ==
  /\ phase = "shutting" /\ phase' = "stopped"
  /\ \/ Registered(gen) = {} /\ UNCHANGED conns
     \/ \E e \in Registered(gen) : conns' = Closed({e.conn})
  /\ UNCHANGED <<gen, nextID, clients, asked, writes>>

\* A handshake that is not registered yet is missed.
CloseClients ==
  /\ phase = "shutting" /\ phase' = "stopped"
  /\ conns' = Closed({e.conn : e \in Registered(gen)})
  /\ UNCHANGED <<gen, nextID, clients, asked, writes>>

\* ChannelManager.Apply: the next object subscribes before it takes the old one's place.
Unsubscribe ==
  /\ phase = "stopped" /\ phase' = "unsubscribed"
  /\ UNCHANGED <<gen, nextID, conns, clients, asked, writes>>

Subscribe ==
  /\ phase = "unsubscribed" /\ phase' = "subscribed"
  /\ UNCHANGED <<gen, nextID, conns, clients, asked, writes>>

\* The channels are replaced while turns still run: Reload takes turnMu afterwards.
Replace ==
  /\ phase = "subscribed"
  /\ phase' = "serving" /\ gen' = gen + 1
  /\ UNCHANGED <<nextID, conns, clients, asked, writes>>

Next ==
  \/ Accept \/ Shutdown \/ CloseClients \/ Unsubscribe \/ Subscribe \/ Replace
  \/ \E c \in DOMAIN conns : Register(c) \/ Receive(c) \/ Disconnect(c) \/ Unregister(c)
  \/ \E q \in DOMAIN asked : TurnBegins(q) \/ Dispatch(q) \/ WriteToClient(q)

Spec == Init /\ [][Next]_vars

-----------------------------------------------------------------------------
(* Properties.                                                             *)

TypeOK ==
  /\ gen \in Objects /\ phase \in {"serving", "shutting", "stopped", "unsubscribed", "subscribed"}
  /\ nextID \in [Objects -> 0..MaxConns]
  /\ \A c \in DOMAIN conns : conns[c] \in
       [gen : 1..gen, id : 0..MaxConns, at : {"accepted", "open", "broken", "gone"}, late : BOOLEAN]
  /\ \A e \in clients : e.gen \in 1..gen /\ e.conn \in DOMAIN conns /\ conns[e.conn].id = e.id
  /\ \A q \in DOMAIN asked : asked[q].left \in 0..Pieces /\ asked[q].on \in Objects \cup {NoObject}

\* Each write of an answer looks its client up again (writeToClient), in the object that the turn
\* began with or the dispatcher found, which a reload may have replaced since: as long as the asker
\* is registered with that object, nobody else gets a word of its answer.
OnlyTheAskerIsAnswered == \A w \in writes : w.here => w.to \subseteq {w.asker}

\* Stop leaves no client of the old object connected (one could still talk to the agent, under a
\* number the next object gives to somebody else), but one that was in its handshake.
StopClosesClients ==
  \A c \in DOMAIN conns : conns[c].at = "open" /\ IsStopped(conns[c].gen) => conns[c].late

(* The clients of the web channel and their numbers.                       *)
WebClientsAreToldApart == TypeOK /\ OnlyTheAskerIsAnswered /\ StopClosesClients
=============================================================================
