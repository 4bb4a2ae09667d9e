----------------------------- MODULE Responses -----------------------------
(***************************************************************************)
(* POST /v1/responses (plugins/channel/web/responses) and the table that   *)
(* maps a response to the session it ran in (wsession): a request names    *)
(* its session with a header or continues the session of an earlier        *)
(* response.  The table forgets an entry a while after its last use and    *)
(* keeps a bounded number of them, the least recently used going first.    *)
(* Handlers of several requests run at once. Each Apply of the gateway     *)
(* makes a new web channel with an empty table, so that the responses of   *)
(* the one before are unknown to it; requests that were accepted before    *)
(* the reload go on with the old channel and its table.                    *)
(***************************************************************************)
EXTENDS Naturals, Sequences, FiniteSets, FiniteSetsExt

CONSTANTS
  Sessions,     \* what the Maven-Session-Id header may name
  MaxEntries,   \* maxResponseSessionEntries (500)
  TTL,          \* responseSessionTTL (30 min)
  MaxResponses, \* bound: accepted requests
  MaxReloads,   \* bound: Applies after the first
  MaxTime       \* bound on the clock

VARIABLES
  now,       \* the clock
  channels,  \* how many web channels have been made; each has a number
  responses, \* the accepted requests: [session, at ("streaming", "stored", "completed"), prev, on (its channel)]
  entries,   \* ResponseSessions.entries of all channels: a function of responses to [session, ts]
  used       \* when each stored response was last stored or continued

vars == <<now, channels, responses, entries, used>>

ResponsesAssumption == MaxEntries \in Nat /\ TTL \in Nat /\ MaxTime \in Nat \ {0}

NoSession == "none"
NoResponse == 0

Init == now = 1 /\ channels = 1 /\ responses = <<>> /\ entries = <<>> /\ used = <<>>

\* The table of a channel is the part of entries that its own responses make up.
Of(table, o) == {r \in DOMAIN table : responses[r].on = o}
Without(r) == [s \in DOMAIN entries \ {r} |-> entries[s]]
Put(table, r, session) ==
  [s \in DOMAIN table \cup {r} |-> IF s = r THEN [session |-> session, ts |-> now] ELSE table[s]]
UsedNow(r) == [s \in DOMAIN used \cup {r} |-> IF s = r THEN now ELSE used[s]]

-----------------------------------------------------------------------------
(* ResolveMavenSessionID                                                   *)

Expired(r) == now - entries[r].ts > TTL
Known(o, r) == r \in Of(entries, o) /\ ~Expired(r)

Accept(session, prev, o) ==
  responses' = Append(responses, [session |-> session, at |-> "streaming", prev |-> prev, on |-> o])

\* Without a previous response the header decides; without either the request is refused.
\* A connection made before a reload may bring its request after it.
Post(header, o) ==
  /\ header # NoSession /\ Len(responses) < MaxResponses
  /\ Accept(header, NoResponse, o)
  /\ UNCHANGED <<now, channels, entries, used>>

\* Mutation of Continue: the lookup does not touch the entry it finds.
ContinueQuietly(prev, header, o) ==
  /\ Known(o, prev) /\ Len(responses) < MaxResponses
  /\ used' = UsedNow(prev) /\ UNCHANGED <<now, channels, entries>>
  /\ IF header \in {NoSession, entries[prev].session}
     THEN Accept(entries[prev].session, prev, o) ELSE UNCHANGED responses

\* lookupMavenResponseSession: a known response lends its session and is as new as today; a header
\* that names another session is refused after the lookup.
Continue(prev, header, o) ==
  /\ Known(o, prev) /\ Len(responses) < MaxResponses
  /\ entries' = Put(entries, prev, entries[prev].session) /\ used' = UsedNow(prev)
  /\ IF header \in {NoSession, entries[prev].session}
     THEN Accept(entries[prev].session, prev, o) ELSE UNCHANGED responses
  /\ UNCHANGED <<now, channels>>

\* An unknown response is refused, one of another channel too; the entry of an expired one is
\* removed on the way.
ContinueUnknown(prev) ==
  /\ prev \in DOMAIN entries /\ Expired(prev)
  /\ entries' = Without(prev)
  /\ UNCHANGED <<now, channels, responses, used>>

-----------------------------------------------------------------------------
(* The end of a stream: StoreMavenResponseSession and response.completed    *)

Pruned(o) == [r \in {s \in DOMAIN entries : responses[s].on = o => ~Expired(s)} |-> entries[r]]

\* Mutation of Evicted: the table is full one entry early.
EvictedEarly(table, o) ==
  IF Cardinality(Of(table, o)) < MaxEntries THEN {table}
  ELSE LET oldest == Min({table[s].ts : s \in Of(table, o)})
       IN  {[s \in DOMAIN table \ {r} |-> table[s]] : r \in {r \in Of(table, o) : table[r].ts = oldest}}

\* evictLocked drops oldest entries while there are too many.  Ties go by the order of the map.
Evicted(table, o) ==
  IF Cardinality(Of(table, o)) <= MaxEntries THEN {table}
  ELSE LET oldest == Min({table[s].ts : s \in Of(table, o)})
       IN  {[s \in DOMAIN table \ {r} |-> table[s]] : r \in {r \in Of(table, o) : table[r].ts = oldest}}

\* The session is stored when the agent's stream ends, whether or not the client still listens ...
Store(r) ==
  /\ responses[r].at = "streaming"
  /\ responses' = [responses EXCEPT ![r].at = "stored"]
  /\ LET o == responses[r].on IN entries' \in Evicted(Put(Pruned(o), r, responses[r].session), o)
  /\ used' = UsedNow(r)
  /\ UNCHANGED <<now, channels>>

\* ... and before the client learns that the response is complete.
Complete(r) ==
  /\ responses[r].at = "stored"
  /\ responses' = [responses EXCEPT ![r].at = "completed"]
  /\ UNCHANGED <<now, channels, entries, used>>

\* NewWebChannel, which the old one makes way for.
Reload ==
  /\ channels <= MaxReloads /\ channels' = channels + 1
  /\ UNCHANGED <<now, responses, entries, used>>

Tick ==
  /\ now < MaxTime /\ now' = now + 1
  /\ UNCHANGED <<channels, responses, entries, used>>

Next ==
  \/ \E o \in 1..channels :
       \/ \E header \in Sessions : Post(header, o)
       \/ \E prev \in DOMAIN responses, header \in Sessions \cup {NoSession} : Continue(prev, header, o)
  \/ \E prev \in DOMAIN responses : ContinueUnknown(prev)
  \/ \E r \in DOMAIN responses : Store(r) \/ Complete(r)
  \/ Reload \/ Tick

Spec == Init /\ [][Next]_vars

-----------------------------------------------------------------------------
(* Properties.                                                             *)

TypeOK ==
  /\ now \in 1..MaxTime
  /\ channels \in Nat \ {0}
  /\ \A r \in DOMAIN responses :
       /\ responses[r].session \in Sessions /\ responses[r].prev < r
       /\ responses[r].on \in 1..channels
  /\ DOMAIN entries \subseteq DOMAIN used /\ DOMAIN used \subseteq DOMAIN responses
  /\ \A r \in DOMAIN entries : entries[r].ts \in 1..now

\* The channel that answered can continue a completed response as long as its last use is recent and
\* not more than MaxEntries others of the channel were used as lately (evictLocked is least recently
\* used, lookups refresh): the use of one channel takes nothing from the other's table.
RecentAreKnown ==
  \A r \in DOMAIN responses :
    /\ responses[r].at = "completed"
    /\ now - used[r] <= TTL
    /\ Cardinality({s \in Of(used, responses[r].on) \ {r} : used[s] >= used[r]}) < MaxEntries
    => Known(responses[r].on, r)

\* docs/channels/web.md:139 gives the mapping 30 minutes and 500 entries and names no other end; a
\* reload ends it, since http.go:58 makes an empty table.
ResponsesSurviveReloads ==
  \A r \in DOMAIN responses :
    /\ responses[r].at = "completed"
    /\ now - used[r] <= TTL
    /\ Cardinality({s \in DOMAIN used \ {r} : used[s] >= used[r]}) < MaxEntries
    => Known(channels, r)

\* A table never holds more than it may, and a known response leads to the session that it, and with
\* it every response before it in its chain, ran in; no chain goes on past a reload.
ChainsStayInTheirSession ==
  /\ \A o \in 1..channels : Cardinality(Of(entries, o)) <= MaxEntries
  /\ \A r \in DOMAIN entries : entries[r].session = responses[r].session
  /\ \A r \in DOMAIN responses : responses[r].prev # NoResponse =>
       /\ responses[r].session = responses[responses[r].prev].session
       /\ responses[r].on = responses[responses[r].prev].on

(* The table and the chains of responses.                                  *)
ResponsesAreContinued == TypeOK /\ RecentAreKnown /\ ChainsStayInTheirSession
=============================================================================
