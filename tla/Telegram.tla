------------------------------ MODULE Telegram ------------------------------
(***************************************************************************)
(* internal/plugins/channel/telegram, inbound: the goroutine that reads    *)
(* the updates of a channel object, the albums collected beside it until   *)
(* a timer of their own flushes them, and the slash commands. Stop only    *)
(* cancels: what the object has fetched it still handles, beside the       *)
(* object that replaces it. The polling itself is the telego client's.     *)
(***************************************************************************)
EXTENDS Naturals, Sequences, Functions, SequencesExt

CONSTANTS
  MaxUpdates,  \* bound: updates
  MaxObjects   \* bound: channel objects

\* What handleMessage and handleSlashCommand tell apart; "menu" is a pipeline slash command.
Kinds == {"stranger", "text", "photo", "album", "new", "agent", "local", "menu", "unknown"}
Objects == 1..MaxObjects
TelegramAssumption == MaxUpdates \in Nat /\ MaxObjects \in Nat

VARIABLES
  log,        \* the updates of the bot, by kind
  confirmed,  \* how many of them the Bot API holds no longer
  live,       \* the last object that was built
  polls,      \* object -> its long polling has started
  cancelled,  \* objects whose ctx has ended
  commands,   \* object -> loadSlashCommands found commands
  since,      \* object -> updates the Bot API had dropped when it was started
  offset,     \* object -> updates it has fetched, those included
  queue,      \* object -> the channel updates
  album,      \* object -> mgBuffer, for one media group
  flushing,   \* object -> the flushes between mgMu and the bus
  published,  \* history: the updates of each message on the bus, and its object
  answered    \* updates the channel answered or ignored by itself

pollVars == <<polls, commands, since, offset>>
vars == <<log, confirmed, live, pollVars, cancelled, queue, album, flushing, published, answered>>

Init ==
  /\ log = <<>> /\ confirmed = 0 /\ live = 0
  /\ polls = [o \in Objects |-> FALSE] /\ commands = polls
  /\ cancelled = {}
  /\ offset = [o \in Objects |-> 0] /\ since = offset
  /\ queue = [o \in Objects |-> <<>>] /\ album = queue /\ flushing = queue
  /\ published = <<>> /\ answered = {}

Arrive ==
  /\ Len(log) < MaxUpdates
  /\ \E k \in Kinds : log' = Append(log, k)
  /\ UNCHANGED <<confirmed, live, pollVars, cancelled, queue, album, flushing, published, answered>>

\* LoadCommands: one file of the directory that does not parse, and no command is loaded.
Loaded(files) == files # {} /\ "broken" \notin files

\* ChannelManager.Apply: Stop of the last object, then Start of the next, which may fail
\* before it polls.
Replace ==
  /\ live < MaxObjects
  /\ live' = live + 1
  /\ cancelled' = cancelled \cup ({live} \ {0})
  /\ \E starts \in BOOLEAN, files \in SUBSET {"command", "broken"} :
       /\ polls' = [polls EXCEPT ![live'] = starts]
       /\ commands' = [commands EXCEPT ![live'] = starts /\ Loaded(files)]
  /\ offset' = [offset EXCEPT ![live'] = confirmed] /\ since' = [since EXCEPT ![live'] = confirmed]
  /\ UNCHANGED <<log, confirmed, queue, album, flushing, published, answered>>

\* A request confirms what earlier ones have fetched; its answer goes into the channel.
Fetch(o) ==
  /\ polls[o] /\ o \notin cancelled /\ confirmed < Len(log)
  /\ confirmed' = offset[o]
  /\ \E k \in offset[o]..Len(log) :
       /\ offset' = [offset EXCEPT ![o] = k]
       /\ queue' = [queue EXCEPT ![o] = @ \o [i \in 1..(k - offset[o]) |-> offset[o] + i]]
  /\ UNCHANGED <<log, live, polls, commands, since, cancelled, album, flushing, published, answered>>

-----------------------------------------------------------------------------
(* What becomes of a message *)

\* PublishInbound with runCtx fails only once it has ended.
Publish(o, updates) ==
  \/ published' = Append(published, [of |-> updates, by |-> o])
  \/ o \in cancelled /\ UNCHANGED published

\* The channel itself may end the matter: a stranger is ignored, so is a photo without
\* caption that cannot be fetched; a local command is run; a command of the agent without
\* content, an unknown one, and any while none are loaded, is told so.
Answers(k) == k \in {"stranger", "photo", "local", "agent", "unknown"}

\* Otherwise it is published: a message, /new, a command of the workspace or the pipeline.
Publishes(o, k) ==
  \/ k \in {"text", "photo", "new", "menu"}
  \/ k = "agent" /\ commands[o]

\* handleMessage, dispatchMessage, handleSlashCommand.
Dispatch(o) ==
  LET u == Head(queue[o]) IN
  /\ queue[o] # <<>> /\ log[u] # "album"
  /\ queue' = [queue EXCEPT ![o] = Tail(@)]
  /\ \/ Answers(log[u]) /\ answered' = answered \cup {u} /\ UNCHANGED published
     \/ Publishes(o, log[u]) /\ Publish(o, <<u>>) /\ UNCHANGED answered
  /\ UNCHANGED <<log, confirmed, live, pollVars, cancelled, album, flushing>>

\* bufferMediaGroup: the first part of an album sets its timer.
Buffer(o) ==
  /\ queue[o] # <<>> /\ log[Head(queue[o])] = "album"
  /\ album' = [album EXCEPT ![o] = Append(@, Head(queue[o]))]
  /\ queue' = [queue EXCEPT ![o] = Tail(@)]
  /\ UNCHANGED <<log, confirmed, live, pollVars, cancelled, flushing, published, answered>>

\* flushMediaGroup, under mgMu: the group leaves the buffer, so that a part that comes
\* later begins a new one.
Flush(o) ==
  /\ album[o] # <<>>
  /\ flushing' = [flushing EXCEPT ![o] = Append(@, album[o])]
  /\ album' = [album EXCEPT ![o] = <<>>]
  /\ UNCHANGED <<log, confirmed, live, pollVars, cancelled, queue, published, answered>>

\* Mutation of FlushPublish: the buffer is emptied only now.
FlushPublishClears(o) ==
  \E i \in DOMAIN flushing[o] :
    /\ Publish(o, flushing[o][i])
    /\ flushing' = [flushing EXCEPT ![o] = RemoveAt(@, i)]
    /\ album' = [album EXCEPT ![o] = <<>>]
    /\ UNCHANGED <<log, confirmed, live, pollVars, cancelled, queue, answered>>

\* The parts are extracted, then published as one message.
FlushPublish(o) ==
  \E i \in DOMAIN flushing[o] :
    /\ Publish(o, flushing[o][i])
    /\ flushing' = [flushing EXCEPT ![o] = RemoveAt(@, i)]
    /\ UNCHANGED <<log, confirmed, live, pollVars, cancelled, queue, album, answered>>

Next ==
  \/ Arrive \/ Replace
  \/ \E o \in Objects : Fetch(o) \/ Dispatch(o) \/ Buffer(o) \/ Flush(o) \/ FlushPublish(o)

Spec == Init /\ [][Next]_vars

-----------------------------------------------------------------------------
TypeOK ==
  /\ Range(log) \subseteq Kinds /\ confirmed \in 0..Len(log) /\ live \in 0..MaxObjects
  /\ cancelled \subseteq Objects /\ {polls, commands} \subseteq [Objects -> BOOLEAN]
  /\ offset \in [Objects -> 0..Len(log)]
  /\ \A o \in Objects : Range(queue[o]) \cup Range(album[o]) \subseteq DOMAIN log
  /\ answered \subseteq DOMAIN log

Held(o) == Range(queue[o]) \cup Range(album[o]) \cup UNION {Range(f) : f \in Range(flushing[o])}
PublishedBy(o) == UNION {Range(p.of) : p \in {q \in Range(published) : q.by = o}}

(* An object that has not been stopped loses nothing: what it has fetched, *)
(* and the Bot API may not deliver again, is on its way, published or      *)
(* answered, however the flushes of its albums fall.                       *)
FetchedIsHandled ==
  \A o \in Objects \ cancelled :
    (since[o] + 1)..offset[o] \subseteq Held(o) \cup answered \cup PublishedBy(o)

(* No object publishes an update twice, nor one it still holds: of two     *)
(* messages of an object the parts are disjoint and in their order.        *)
OncePerObject ==
  /\ \A i, j \in DOMAIN published :
       i # j /\ published[i].by = published[j].by
         => Range(published[i].of) \cap Range(published[j].of) = {}
  /\ \A i \in DOMAIN published : \A a, b \in DOMAIN published[i].of :
       a < b => published[i].of[a] < published[i].of[b]
  /\ \A o \in Objects : Held(o) \cap PublishedBy(o) = {}

(* What becomes of the updates of the bot.                                 *)
TelegramHandlesEachUpdate == TypeOK /\ FetchedIsHandled /\ OncePerObject
=============================================================================
