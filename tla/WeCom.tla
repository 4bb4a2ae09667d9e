------------------------------- MODULE WeCom -------------------------------
(***************************************************************************)
(* internal/plugins/channel/wecom with kernel/channels/webhook: callbacks, *)
(* each acknowledged at once and processed by a goroutine of its own, the  *)
(* cache of message ids that drops repeats, the cache of reply URLs, and   *)
(* Send, which can only answer with one of them. A reload replaces the     *)
(* channel object and with it both caches. A callback is its number.       *)
(***************************************************************************)
EXTENDS Integers, Sequences, Functions

CONSTANTS
  MsgIds,     \* values of msgid; a callback may also have none
  Users,      \* sender ids
  AllowFrom,  \* the allow list, empty to let everybody in
  MsgTTL,     \* life of an entry of msgCache
  ReplyTTL,   \* life of an entry of replyCache
  Scan,       \* DefaultCacheScanInterval
  MaxTries,   \* wecomSendMaxRetries
  MaxCalls,   \* bound: callbacks
  MaxTime,    \* bound: clock
  MaxReloads  \* bound: replacements of the channel object

NoId == "none"
Room == "room"

WeComAssumption ==
  /\ MsgTTL \in Nat /\ ReplyTTL \in Nat /\ Scan \in Nat /\ MaxTries \in Nat \ {0}
  /\ MaxTime \in Nat /\ MaxReloads \in Nat

VARIABLES
  now,
  live,      \* number of the live channel object
  seen,      \* object -> msgCache
  urls,      \* object -> replyCache, from chat to callback whose response_url it is
  jobs,      \* the callbacks, with where the goroutine of each is
  published, \* the callbacks whose message is on the bus, in order
  send,      \* the Send the dispatcher is in
  outcome    \* callback -> what became of the answer to it

vars == <<now, live, seen, urls, jobs, published, send, outcome>>

Objects == 0..MaxReloads
NoSend == [call |-> 0, url |-> 0, tries |-> 0, since |-> 0]
NoCache == [items |-> <<>>, gc |-> -1]

Init ==
  /\ now = 0 /\ live = 0
  /\ seen = [o \in Objects |-> NoCache] /\ urls = [o \in Objects |-> NoCache]
  /\ jobs = <<>> /\ published = <<>> /\ send = NoSend /\ outcome = <<>>

-----------------------------------------------------------------------------
(* The caches: items maps a key to a value and its expiry, gc is lastGC    *)

\* Mutation of Collect: what expires before the next scan goes now.
CollectEarly(cache) ==
  [items |-> Restrict(cache.items, {k \in DOMAIN cache.items : cache.items[k].exp >= now + Scan}),
   gc |-> now]

\* gcLocked: the first call and then one in each scan interval drop what has expired.
Collect(cache) ==
  IF cache.gc = -1 \/ now - cache.gc >= Scan
  THEN [items |-> Restrict(cache.items, {k \in DOMAIN cache.items : cache.items[k].exp >= now}),
        gc |-> now]
  ELSE cache

Store(cache, key, value, ttl) ==
  Collect([cache EXCEPT !.items =
             [k \in DOMAIN @ \cup {key} |-> IF k = key THEN [val |-> value, exp |-> now + ttl] ELSE @[k]]])

\* Mutation of IsSeen: the last moment of an entry does not count.
IsSeenShort(cache, id) == id \in DOMAIN cache.items /\ now + 1 < cache.items[id].exp

\* Seen compares with Before, Get with After: at its expiry an id is new, a URL still good.
IsSeen(cache, id) == id \in DOMAIN cache.items /\ now < cache.items[id].exp

-----------------------------------------------------------------------------
(* Callbacks *)

\* resolveChatID, resolveSenderID
Chat(c) == IF jobs[c].group THEN Room ELSE jobs[c].from
Allow(u) == AllowFrom = {} \/ u \in AllowFrom

\* handleIncomingMessage: a well-signed POST is answered 200, then processed by a goroutine.
Deliver ==
  /\ Len(jobs) < MaxCalls
  /\ \E id \in MsgIds \cup {NoId}, u \in Users, group, link \in BOOLEAN :
       jobs' = Append(jobs, [id |-> id, from |-> u, group |-> group, link |-> link,
                             object |-> live, pc |-> "check", checked |-> -1, linked |-> -1])
  /\ UNCHANGED <<now, live, seen, urls, published, send, outcome>>

\* The allow list and msgCache.Seen, which stores the id when it is new.
Check(c) ==
  LET o == jobs[c].object
      dup == jobs[c].id # NoId /\ IsSeen(seen[o], jobs[c].id)
  IN
  /\ jobs[c].pc = "check"
  /\ IF ~Allow(jobs[c].from) \/ dup
     THEN jobs' = [jobs EXCEPT ![c].pc = "dropped"] /\ UNCHANGED seen
     ELSE /\ jobs' = [jobs EXCEPT ![c].pc = "remember", ![c].checked = now]
          /\ seen' = IF jobs[c].id = NoId THEN seen
                     ELSE [seen EXCEPT ![o] = Store(@, jobs[c].id, c, MsgTTL)]
  /\ UNCHANGED <<now, live, urls, published, send, outcome>>

\* Mutation of Remember: the URL is filed under the sender, in a group too.
RememberSender(c) ==
  /\ jobs[c].pc = "remember"
  /\ urls' = IF ~jobs[c].link THEN urls
             ELSE [urls EXCEPT ![jobs[c].object] = Store(@, jobs[c].from, c, ReplyTTL)]
  /\ jobs' = [jobs EXCEPT ![c].pc = "extract", ![c].linked = IF jobs[c].link THEN now ELSE -1]
  /\ UNCHANGED <<now, live, seen, published, send, outcome>>

Remember(c) ==
  /\ jobs[c].pc = "remember"
  /\ urls' = IF ~jobs[c].link THEN urls
             ELSE [urls EXCEPT ![jobs[c].object] = Store(@, Chat(c), c, ReplyTTL)]
  /\ jobs' = [jobs EXCEPT ![c].pc = "extract", ![c].linked = IF jobs[c].link THEN now ELSE -1]
  /\ UNCHANGED <<now, live, seen, published, send, outcome>>

\* The content is extracted, an image downloaded or left as its URL, and published;
\* there may be none, and once Stop has cancelled runCtx the publish may fail.
Publish(c) ==
  /\ jobs[c].pc = "extract"
  /\ jobs' = [jobs EXCEPT ![c].pc = "done"]
  /\ published' \in {published, Append(published, c)}
  /\ UNCHANGED <<now, live, seen, urls, send, outcome>>

-----------------------------------------------------------------------------
(* Send, called by the one dispatcher for the answers in their order *)

Ends(c, how) == send' = NoSend /\ outcome' = Append(outcome, how)

\* replyCache.Get: an expired entry is deleted on the way.
SendBegin ==
  /\ send = NoSend /\ Len(outcome) < Len(published)
  /\ LET c == published[Len(outcome) + 1]
         chat == Chat(c)
         cache == urls[live]
     IN
     IF chat \in DOMAIN cache.items /\ now <= cache.items[chat].exp
     THEN /\ send' = [call |-> c, url |-> cache.items[chat].val, tries |-> 1, since |-> now]
          /\ urls' = [urls EXCEPT ![live] = Collect(@)]
          /\ UNCHANGED outcome
     ELSE /\ Ends(c, "no url")
          /\ urls' = [urls EXCEPT ![live].items = Restrict(@, DOMAIN @ \ {chat})]
  /\ UNCHANGED <<now, live, seen, jobs, published>>

\* Mutation of PostFails: the attempts are counted from zero.
PostFailsOneMore ==
  /\ send # NoSend
  /\ \/ send.tries <= MaxTries /\ send' = [send EXCEPT !.tries = @ + 1] /\ UNCHANGED outcome
     \/ Ends(send.call, "failed")
  /\ UNCHANGED <<now, live, seen, urls, jobs, published>>

\* A retryable error is tried again after a pause, unless it was the last try or the ctx
\* ends meanwhile; any other error ends the Send.
PostFails ==
  /\ send # NoSend
  /\ \/ send.tries < MaxTries /\ send' = [send EXCEPT !.tries = @ + 1] /\ UNCHANGED outcome
     \/ Ends(send.call, "failed")
  /\ UNCHANGED <<now, live, seen, urls, jobs, published>>

PostSucceeds ==
  /\ send # NoSend
  /\ Ends(send.call, "sent")
  /\ UNCHANGED <<now, live, seen, urls, jobs, published>>

\* ChannelManager.Apply: Stop of this object, NewWeComChannel of the next.
Reload ==
  /\ live < MaxReloads
  /\ live' = live + 1
  /\ UNCHANGED <<now, seen, urls, jobs, published, send, outcome>>

Tick ==
  /\ now < MaxTime
  /\ now' = now + 1
  /\ UNCHANGED <<live, seen, urls, jobs, published, send, outcome>>

Next ==
  \/ Deliver \/ \E c \in DOMAIN jobs : Check(c) \/ Remember(c) \/ Publish(c)
  \/ SendBegin \/ PostFails \/ PostSucceeds
  \/ Reload \/ Tick

Spec == Init /\ [][Next]_vars

-----------------------------------------------------------------------------
TypeOK ==
  /\ now \in 0..MaxTime /\ live \in Objects
  /\ \A o \in Objects :
       /\ DOMAIN seen[o].items \subseteq MsgIds
       /\ DOMAIN urls[o].items \subseteq Users \cup {Room}
       /\ {seen[o].gc, urls[o].gc} \subseteq -1..now
  /\ \A c \in DOMAIN jobs : jobs[c].pc \in {"check", "remember", "extract", "done", "dropped"}
  /\ Range(published) \subseteq DOMAIN jobs
  /\ send = NoSend \/ (send.call \in DOMAIN jobs /\ send.tries \in 1..MaxTries)
  /\ Range(outcome) \subseteq {"no url", "failed", "sent"}

(* WeCom delivers a callback again when it is not sure of the first: of    *)
(* two with one id, whatever their goroutines do, the second is published  *)
(* only when the first is older than the life of its entry.                *)
NoRepeats ==
  \A i, j \in DOMAIN published :
    LET p == jobs[published[i]]  q == jobs[published[j]] IN
    i # j /\ p.id # NoId /\ p.id = q.id /\ p.object = q.object
      => p.checked + MsgTTL <= q.checked \/ q.checked + MsgTTL <= p.checked

(* A chat that gave a response_url less than its life ago can be answered: *)
(* no scan of the cache, no other chat and no lookup has removed it.       *)
ChatsStayAnswerable ==
  \A c \in DOMAIN jobs :
    jobs[c].linked >= 0 /\ now <= jobs[c].linked + ReplyTTL
      => Chat(c) \in DOMAIN urls[jobs[c].object].items

(* An answer goes to a URL that its own chat gave and that had not expired *)
(* when Send looked it up.                                                 *)
AnswersGoHome ==
  send # NoSend =>
    /\ Chat(send.url) = Chat(send.call)
    /\ send.since <= jobs[send.url].linked + ReplyTTL

(* Repeats, answerable chats and where the answers go.                     *)
WeComKeepsItsChats == TypeOK /\ NoRepeats /\ ChatsStayAnswerable /\ AnswersGoHome

(* docs/channels/wecom.md: the URL in use is the one of the latest inbound *)
(* of the chat. Two goroutines of one chat may store theirs in either      *)
(* order, so this fails; no run checks it.                                 *)
LatestUrlIsUsed ==
  send # NoSend =>
    \A c \in DOMAIN jobs :
      c > send.url /\ Chat(c) = Chat(send.url) /\ jobs[c].object = jobs[send.url].object
        => ~(jobs[c].linked >= 0 /\ jobs[c].linked < send.since)
=============================================================================
