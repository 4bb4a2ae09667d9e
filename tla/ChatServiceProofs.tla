-------------------------- MODULE ChatServiceProofs -------------------------
(***************************************************************************)
(* Proofs about the channels of chat services: WeCom, for any lives of its *)
(* caches and any callbacks, Feishu, for any number of webhooks and Sends  *)
(* and any life of a token, Telegram, for any number of updates and bot    *)
(* objects and any text, refusals and waits of a streamed answer, and the  *)
(* sync of Matrix, for any events, objects, failed writes and crashes.     *)
(***************************************************************************)
EXTENDS MCComponents, Integers, Sequences, FiniteSets, SequenceTheorems, TLAPS

Places == {"check", "remember", "extract", "done", "dropped"}
Job == [id : wc_MsgIds \cup {WeCom!NoId}, from : wc_Users, group : BOOLEAN, link : BOOLEAN, object : WeCom!Objects,
        pc : Places, checked : Int, linked : Int]

\* A job has passed msgCache once it is beyond "check", and left its URL once it is beyond "remember".
JobsInv ==
  /\ wc_jobs \in Seq(Job)
  /\ \A c \in DOMAIN wc_jobs :
       /\ -1 <= wc_jobs[c].checked /\ wc_jobs[c].checked <= wc_now /\ -1 <= wc_jobs[c].linked
          /\ wc_jobs[c].linked <= wc_now
       /\ wc_jobs[c].pc \in {"check", "dropped"} <=> wc_jobs[c].checked = -1
       /\ wc_jobs[c].pc \in {"check", "dropped", "remember"} => wc_jobs[c].linked = -1

\* What either cache is.
CacheOf(cache, keys) ==
  /\ cache = [items |-> cache.items, gc |-> cache.gc]
  /\ cache.items = [k \in DOMAIN cache.items |-> cache.items[k]]
  /\ DOMAIN cache.items \subseteq keys /\ cache.gc \in -1..wc_now
  /\ \A k \in DOMAIN cache.items : cache.items[k].exp \in Int

CachesInv ==
  /\ wc_seen = [o \in WeCom!Objects |-> wc_seen[o]] /\ wc_urls = [o \in WeCom!Objects |-> wc_urls[o]]
  /\ \A o \in WeCom!Objects : CacheOf(wc_seen[o], wc_MsgIds)
     /\ CacheOf(wc_urls[o], wc_Users \cup {WeCom!Room})

\* An id is remembered at least for the life of the entry of every callback that was let through with
\* it, so that two of them are that far apart.
IdsInv ==
  /\ \A c \in DOMAIN wc_jobs :
       wc_jobs[c].checked # -1 /\ wc_jobs[c].id # WeCom!NoId /\ wc_now < wc_jobs[c].checked + wc_MsgTTL
         => LET items == wc_seen[wc_jobs[c].object].items
            IN  wc_jobs[c].id \in DOMAIN items /\ items[wc_jobs[c].id].exp >= wc_jobs[c].checked + wc_MsgTTL
  /\ \A c, d \in DOMAIN wc_jobs :
       c # d /\ wc_jobs[c].checked # -1 /\ wc_jobs[d].checked # -1 /\ wc_jobs[c].id # WeCom!NoId
       /\ wc_jobs[c].id = wc_jobs[d].id
       /\ wc_jobs[c].object = wc_jobs[d].object
         => wc_jobs[c].checked + wc_MsgTTL <= wc_jobs[d].checked \/ wc_jobs[d].checked + wc_MsgTTL <= wc_jobs[c].checked

\* A callback is published once, by its own goroutine.
WeComPublishedInv ==
  /\ wc_published \in Seq(Nat) /\ wc_outcome \in Seq({"no url", "failed", "sent"})
  /\ \A i \in DOMAIN wc_published : wc_published[i] \in DOMAIN wc_jobs /\ wc_jobs[wc_published[i]].pc = "done"
  /\ \A i, j \in DOMAIN wc_published : i # j => wc_published[i] # wc_published[j]

\* A chat's entry holds the URL of one of its own callbacks, and outlives every URL it was given.
UrlsInv ==
  /\ \A o \in WeCom!Objects : \A chat \in DOMAIN wc_urls[o].items :
       LET url == wc_urls[o].items[chat] IN
       /\ url.val \in DOMAIN wc_jobs /\ WeCom!Chat(url.val) = chat
       /\ wc_jobs[url.val].linked # -1 /\ url.exp = wc_jobs[url.val].linked + wc_ReplyTTL
  /\ \A c \in DOMAIN wc_jobs :
       wc_jobs[c].linked # -1 /\ wc_now <= wc_jobs[c].linked + wc_ReplyTTL
         => LET items == wc_urls[wc_jobs[c].object].items
            IN  WeCom!Chat(c) \in DOMAIN items /\ items[WeCom!Chat(c)].exp >= wc_jobs[c].linked + wc_ReplyTTL

WeComSendInv ==
  wc_send # WeCom!NoSend =>
    /\ wc_send \in [call : DOMAIN wc_jobs, url : DOMAIN wc_jobs, tries : 1..wc_MaxTries, since : Nat]
    /\ WeCom!Chat(wc_send.url) = WeCom!Chat(wc_send.call)
       /\ wc_send.since <= wc_jobs[wc_send.url].linked + wc_ReplyTTL
    /\ wc_jobs[wc_send.url].linked # -1

TimeInv == wc_now \in 0..wc_MaxTime /\ wc_live \in WeCom!Objects

\* The inductive invariant.
WeComInv == TimeInv /\ JobsInv /\ CachesInv /\ IdsInv /\ WeComPublishedInv /\ UrlsInv /\ WeComSendInv

LEMMA LengthOf == \A S : \A s \in Seq(S) : Len(s) \in Nat /\ DOMAIN s = 1..Len(s)
  OBVIOUS

LEMMA ElementsOf == \A S : \A s \in Seq(S) : \A i \in DOMAIN s : s[i] \in S
  OBVIOUS

\* What the invariant says of the properties.
LEMMA WeComInvIsEnough == ASSUME WeCom!WeComAssumption, WeComInv PROVE WeCom!WeComKeepsItsChats
<1> USE DEF WeComInv
<1>1. WeCom!TypeOK
  <2>1. WeCom!Range(wc_published) \subseteq DOMAIN wc_jobs
        /\ WeCom!Range(wc_outcome) \subseteq {"no url", "failed", "sent"}
    <3>1. \A i \in DOMAIN wc_outcome : wc_outcome[i] \in {"no url", "failed", "sent"}
      BY ElementsOf DEF WeComPublishedInv
    <3> QED
      BY <3>1 DEF WeComPublishedInv, WeCom!Range
  <2>2. \A c \in DOMAIN wc_jobs : wc_jobs[c].pc \in {"check", "remember", "extract", "done", "dropped"}
    <3>1. \A c \in DOMAIN wc_jobs : wc_jobs[c] \in Job
      BY ElementsOf DEF JobsInv
    <3> QED
      BY <3>1 DEF Job, Places
  <2>3. wc_send = WeCom!NoSend \/ (wc_send.call \in DOMAIN wc_jobs /\ wc_send.tries \in 1..wc_MaxTries)
    BY DEF WeComSendInv
  <2>4. \A o \in WeCom!Objects : /\ DOMAIN wc_seen[o].items \subseteq wc_MsgIds
                                 /\ DOMAIN wc_urls[o].items \subseteq wc_Users \cup {WeCom!Room}
                                 /\ {wc_seen[o].gc, wc_urls[o].gc} \subseteq -1..wc_now
    BY DEF CachesInv, CacheOf
  <2> QED
    BY <2>1, <2>2, <2>3, <2>4 DEF WeCom!TypeOK, TimeInv
<1>2. WeCom!NoRepeats
  <2> SUFFICES ASSUME NEW i \in DOMAIN wc_published, NEW j \in DOMAIN wc_published, i # j,
                      wc_jobs[wc_published[i]].id # WeCom!NoId,
                      wc_jobs[wc_published[i]].id = wc_jobs[wc_published[j]].id,
                      wc_jobs[wc_published[i]].object = wc_jobs[wc_published[j]].object
               PROVE  \/ wc_jobs[wc_published[i]].checked + wc_MsgTTL <= wc_jobs[wc_published[j]].checked
                      \/ wc_jobs[wc_published[j]].checked + wc_MsgTTL <= wc_jobs[wc_published[i]].checked
    BY DEF WeCom!NoRepeats
  <2>1. /\ wc_published[i] \in DOMAIN wc_jobs /\ wc_published[j] \in DOMAIN wc_jobs
           /\ wc_published[i] # wc_published[j]
        /\ wc_jobs[wc_published[i]].pc = "done" /\ wc_jobs[wc_published[j]].pc = "done"
    BY DEF WeComPublishedInv
  <2>2. wc_jobs[wc_published[i]].checked # -1 /\ wc_jobs[wc_published[j]].checked # -1
    BY <2>1 DEF JobsInv
  <2> QED
    BY <2>1, <2>2 DEF IdsInv
<1>3. WeCom!ChatsStayAnswerable
  BY DEF UrlsInv, WeCom!ChatsStayAnswerable
<1>4. WeCom!AnswersGoHome
  BY DEF WeComSendInv, WeCom!AnswersGoHome
<1> QED
  BY <1>1, <1>2, <1>3, <1>4 DEF WeCom!WeComKeepsItsChats

-----------------------------------------------------------------------------
(* The caches                                                              *)

\* What has not expired stays, and what stays is as it was.
Keeps(old, new) ==
  /\ DOMAIN new.items \subseteq DOMAIN old.items
  /\ \A k \in DOMAIN new.items : new.items[k] = old.items[k]
  /\ \A k \in DOMAIN old.items : old.items[k].exp >= wc_now => k \in DOMAIN new.items

LEMMA CollectKeeps ==
  ASSUME wc_now \in Nat, NEW keys, NEW cache, CacheOf(cache, keys)
  PROVE  CacheOf(WeCom!Collect(cache), keys) /\ Keeps(cache, WeCom!Collect(cache))
<1>1. CASE cache.gc = -1 \/ wc_now - cache.gc >= wc_Scan
  <2> DEFINE kept == {k \in DOMAIN cache.items : cache.items[k].exp >= wc_now}
  <2>1. WeCom!Collect(cache) = [items |-> [k \in kept |-> cache.items[k]], gc |-> wc_now]
    BY <1>1 DEF WeCom!Collect, WeCom!Restrict
  <2> QED
    BY <2>1 DEF CacheOf, Keeps
<1>2. CASE ~(cache.gc = -1 \/ wc_now - cache.gc >= wc_Scan)
  BY <1>2 DEF WeCom!Collect, CacheOf, Keeps
<1> QED
  BY <1>1, <1>2

LEMMA StoreKeeps ==
  ASSUME wc_now \in Nat, NEW keys, NEW cache, CacheOf(cache, keys), NEW key \in keys, NEW value,
         NEW ttl \in Nat
  PROVE  LET new == WeCom!Store(cache, key, value, ttl) IN
         /\ CacheOf(new, keys)
         /\ key \in DOMAIN new.items /\ new.items[key] = [val |-> value, exp |-> wc_now + ttl]
         /\ DOMAIN new.items \subseteq DOMAIN cache.items \cup {key}
         /\ \A k \in DOMAIN new.items : k # key => new.items[k] = cache.items[k]
         /\ \A k \in DOMAIN cache.items : k # key /\ cache.items[k].exp >= wc_now => k \in DOMAIN new.items
<1> DEFINE with == [cache EXCEPT !.items =
                      [k \in DOMAIN @ \cup {key} |-> IF k = key THEN [val |-> value, exp |-> wc_now + ttl] ELSE @[k]]]
<1>1. /\ with = [items |-> with.items, gc |-> cache.gc] /\ with.gc = cache.gc
      /\ with.items = [k \in DOMAIN cache.items \cup {key} |->
                         IF k = key THEN [val |-> value, exp |-> wc_now + ttl] ELSE cache.items[k]]
  BY DEF CacheOf
<1>2. WeCom!Store(cache, key, value, ttl) = WeCom!Collect(with)
  BY DEF WeCom!Store
<1> HIDE DEF with
<1>3. /\ DOMAIN with.items = DOMAIN cache.items \cup {key}
      /\ with.items[key] = [val |-> value, exp |-> wc_now + ttl] /\ with.items[key].exp >= wc_now
      /\ \A k \in DOMAIN cache.items : k # key => with.items[k] = cache.items[k]
  BY <1>1
<1>4. CacheOf(with, keys)
  BY <1>1, <1>3 DEF CacheOf
<1>5. CacheOf(WeCom!Collect(with), keys) /\ Keeps(with, WeCom!Collect(with))
  BY <1>4, CollectKeeps
<1> QED
  BY <1>2, <1>3, <1>5 DEF Keeps

-----------------------------------------------------------------------------
(* The steps                                                               *)

LEMMA ChangedSeq ==
  \A S : \A s \in Seq(S) : \A c \in DOMAIN s : \A v \in S :
    /\ [s EXCEPT ![c] = v] \in Seq(S)
    /\ DOMAIN [s EXCEPT ![c] = v] = DOMAIN s
  OBVIOUS

LEMMA AppendSeq ==
  \A S : \A s \in Seq(S) : \A v \in S :
    /\ Append(s, v) \in Seq(S) /\ Len(s) + 1 \notin DOMAIN s
    /\ DOMAIN Append(s, v) = DOMAIN s \cup {Len(s) + 1} /\ Append(s, v)[Len(s) + 1] = v
    /\ \A i \in DOMAIN s : Append(s, v)[i] = s[i]
  OBVIOUS

\* The parts of a job, and what follows from where it is.
LEMMA JobFacts ==
  ASSUME WeCom!WeComAssumption, WeComInv, NEW c \in DOMAIN wc_jobs
  PROVE  /\ wc_jobs[c] \in Job /\ wc_now \in Nat
         /\ wc_jobs[c].object \in WeCom!Objects /\ wc_jobs[c].from \in wc_Users
            /\ wc_jobs[c].group \in BOOLEAN
         /\ wc_jobs[c].id \in wc_MsgIds \cup {WeCom!NoId} /\ wc_jobs[c].checked \in Int
            /\ wc_jobs[c].linked \in Int
         /\ WeCom!Chat(c) \in wc_Users \cup {WeCom!Room}
<1>1. wc_jobs[c] \in Job
  BY ElementsOf DEF WeComInv, JobsInv
<1> QED
  BY <1>1 DEF Job, WeCom!Chat, WeComInv, TimeInv

\* One job changes, and what is known of a job holds of it.
LEMMA JobsKeep ==
  ASSUME JobsInv, wc_now' = wc_now, wc_jobs' \in Seq(Job), DOMAIN wc_jobs' = DOMAIN wc_jobs,
         NEW c \in DOMAIN wc_jobs, NEW job, wc_jobs'[c] = job,
         \A d \in DOMAIN wc_jobs \ {c} : wc_jobs'[d] = wc_jobs[d],
         -1 <= job.checked, job.checked <= wc_now, -1 <= job.linked, job.linked <= wc_now,
         job.pc \in {"check", "dropped"} <=> job.checked = -1,
         job.pc \in {"check", "dropped", "remember"} => job.linked = -1
  PROVE  JobsInv'
<1>1. ASSUME NEW d \in DOMAIN wc_jobs
      PROVE  /\ -1 <= wc_jobs'[d].checked /\ wc_jobs'[d].checked <= wc_now
                /\ -1 <= wc_jobs'[d].linked /\ wc_jobs'[d].linked <= wc_now
             /\ wc_jobs'[d].pc \in {"check", "dropped"} <=> wc_jobs'[d].checked = -1
             /\ wc_jobs'[d].pc \in {"check", "dropped", "remember"} => wc_jobs'[d].linked = -1
  <2>1. CASE d = c
    BY <2>1
  <2>2. CASE d # c
    <3>1. wc_jobs'[d] = wc_jobs[d]
      BY <2>2
    <3> QED
      BY <3>1 DEF JobsInv
  <2> QED
    BY <2>1, <2>2
<1> QED
  BY <1>1 DEF JobsInv

\* A chat published stays a job done when the jobs stay and no job done comes back.
LEMMA PublishedKeep ==
  ASSUME WeComPublishedInv, wc_published' = wc_published, wc_outcome' = wc_outcome,
         DOMAIN wc_jobs' = DOMAIN wc_jobs,
         \A d \in DOMAIN wc_jobs : wc_jobs[d].pc = "done" => wc_jobs'[d].pc = "done"
  PROVE  WeComPublishedInv'
<1>1. \A i \in DOMAIN wc_published : wc_published[i] \in DOMAIN wc_jobs'
      /\ wc_jobs'[wc_published[i]].pc = "done"
  BY DEF WeComPublishedInv
<1> QED
  BY <1>1 DEF WeComPublishedInv

\* The URLs stay, and so does what they are of.
LEMMA UrlsKeep ==
  ASSUME UrlsInv, UNCHANGED <<wc_now, wc_urls>>, DOMAIN wc_jobs' = DOMAIN wc_jobs,
         \A d \in DOMAIN wc_jobs : WeCom!Chat(d)' = WeCom!Chat(d) /\ wc_jobs'[d].object = wc_jobs[d].object
                                /\ wc_jobs'[d].linked = wc_jobs[d].linked
  PROVE  UrlsInv'
<1>1. ASSUME NEW o \in WeCom!Objects, NEW chat \in DOMAIN wc_urls'[o].items
      PROVE  /\ wc_urls'[o].items[chat].val \in DOMAIN wc_jobs'
                /\ WeCom!Chat(wc_urls[o].items[chat].val)' = chat
             /\ wc_jobs'[wc_urls'[o].items[chat].val].linked # -1
             /\ wc_urls'[o].items[chat].exp = wc_jobs'[wc_urls'[o].items[chat].val].linked + wc_ReplyTTL
  <2> DEFINE v == wc_urls[o].items[chat].val
  <2>1. v \in DOMAIN wc_jobs /\ WeCom!Chat(v) = chat /\ wc_jobs[v].linked # -1
        /\ wc_urls[o].items[chat].exp = wc_jobs[v].linked + wc_ReplyTTL
    BY <1>1 DEF UrlsInv
  <2>2. \A d \in DOMAIN wc_jobs : d = v => WeCom!Chat(d)' = chat
    BY <2>1
  <2> QED
    BY <2>1, <2>2
<1>2. ASSUME NEW d \in DOMAIN wc_jobs', wc_jobs'[d].linked # -1, wc_now' <= wc_jobs'[d].linked + wc_ReplyTTL
      PROVE  /\ WeCom!Chat(d)' \in DOMAIN wc_urls'[wc_jobs'[d].object].items
             /\ wc_urls'[wc_jobs'[d].object].items[WeCom!Chat(d)'].exp >= wc_jobs'[d].linked + wc_ReplyTTL
  <2>1. /\ WeCom!Chat(d) \in DOMAIN wc_urls[wc_jobs[d].object].items
        /\ wc_urls[wc_jobs[d].object].items[WeCom!Chat(d)].exp >= wc_jobs[d].linked + wc_ReplyTTL
    BY <1>2 DEF UrlsInv
  <2> QED
    BY <1>2, <2>1
<1> QED
  BY <1>1, <1>2 DEF UrlsInv

\* A new callback: nothing is known of it yet.
LEMMA DeliverStep == ASSUME WeCom!WeComAssumption, WeComInv, WeCom!Deliver PROVE WeComInv'
<1> USE DEF WeComInv
<1>1. PICK job \in Job : /\ wc_jobs' = Append(wc_jobs, job)
                         /\ job.checked = -1 /\ job.linked = -1 /\ job.pc = "check"
  BY DEF WeCom!Deliver, Job, Places, TimeInv
<1>2. UNCHANGED <<wc_now, wc_live, wc_seen, wc_urls, wc_published, wc_send, wc_outcome>>
  BY DEF WeCom!Deliver
<1>3. /\ DOMAIN wc_jobs' = DOMAIN wc_jobs \cup {Len(wc_jobs) + 1} /\ Len(wc_jobs) + 1 \notin DOMAIN wc_jobs
      /\ wc_jobs'[Len(wc_jobs) + 1] = job /\ \A d \in DOMAIN wc_jobs : wc_jobs'[d] = wc_jobs[d]
      /\ wc_jobs' \in Seq(Job)
  BY <1>1 DEF JobsInv
<1> DEFINE new == Len(wc_jobs) + 1
<1> HIDE DEF new
<1>4. /\ DOMAIN wc_jobs' = DOMAIN wc_jobs \cup {new} /\ wc_jobs'[new].checked = -1
         /\ wc_jobs'[new].linked = -1
      /\ wc_jobs'[new].pc = "check" /\ \A d \in DOMAIN wc_jobs : wc_jobs'[d] = wc_jobs[d]
         /\ WeCom!Chat(d)' = WeCom!Chat(d)
  BY <1>1, <1>3 DEF new, WeCom!Chat
<1>5. JobsInv'
  <2>1. ASSUME NEW d \in DOMAIN wc_jobs'
        PROVE  /\ -1 <= wc_jobs'[d].checked /\ wc_jobs'[d].checked <= wc_now
                  /\ -1 <= wc_jobs'[d].linked /\ wc_jobs'[d].linked <= wc_now
               /\ wc_jobs'[d].pc \in {"check", "dropped"} <=> wc_jobs'[d].checked = -1
               /\ wc_jobs'[d].pc \in {"check", "dropped", "remember"} => wc_jobs'[d].linked = -1
    <3>1. wc_now \in Nat
      BY DEF TimeInv, WeCom!WeComAssumption
    <3>2. CASE d = new
      BY <1>4, <3>1, <3>2
    <3>3. CASE d # new
      BY <1>4, <2>1, <3>3 DEF JobsInv
    <3> QED
      BY <3>2, <3>3
  <2> QED
    BY <1>2, <1>3, <2>1 DEF JobsInv
<1>6. IdsInv'
  BY <1>2, <1>4 DEF IdsInv
<1>7. UrlsInv'
  <2>1. ASSUME NEW o \in WeCom!Objects, NEW chat \in DOMAIN wc_urls'[o].items
        PROVE  /\ wc_urls'[o].items[chat].val \in DOMAIN wc_jobs'
                  /\ WeCom!Chat(wc_urls[o].items[chat].val)' = chat
               /\ wc_jobs'[wc_urls'[o].items[chat].val].linked # -1
               /\ wc_urls'[o].items[chat].exp = wc_jobs'[wc_urls'[o].items[chat].val].linked + wc_ReplyTTL
    <3> DEFINE v == wc_urls[o].items[chat].val
    <3>1. v \in DOMAIN wc_jobs /\ WeCom!Chat(v) = chat /\ wc_jobs[v].linked # -1
          /\ wc_urls[o].items[chat].exp = wc_jobs[v].linked + wc_ReplyTTL
      BY <1>2, <2>1 DEF UrlsInv
    <3>2. \A d \in DOMAIN wc_jobs : d = v => d \in DOMAIN wc_jobs' /\ wc_jobs'[d] = wc_jobs[d]
          /\ WeCom!Chat(d)' = chat
      BY <1>4, <3>1
    <3> QED
      BY <1>2, <3>1, <3>2
  <2>2. ASSUME NEW d \in DOMAIN wc_jobs', wc_jobs'[d].linked # -1, wc_now' <= wc_jobs'[d].linked + wc_ReplyTTL
        PROVE  /\ WeCom!Chat(d)' \in DOMAIN wc_urls'[wc_jobs'[d].object].items
               /\ wc_urls'[wc_jobs'[d].object].items[WeCom!Chat(d)'].exp >= wc_jobs'[d].linked + wc_ReplyTTL
    BY <1>2, <1>4, <2>2 DEF UrlsInv
  <2> QED
    BY <1>2, <2>1, <2>2 DEF UrlsInv
<1>8. WeComPublishedInv'
  BY <1>2, <1>4 DEF WeComPublishedInv
<1>9. WeComSendInv'
  BY <1>2, <1>4 DEF WeComSendInv, WeCom!NoSend
<1>10. TimeInv' /\ CachesInv'
  BY <1>2 DEF TimeInv, CachesInv, CacheOf
<1> QED
  BY <1>5, <1>6, <1>7, <1>8, <1>9, <1>10


\* The look at msgCache: an id that is new, or whose entry has expired, is remembered from now on.
LEMMA CheckStep ==
  ASSUME WeCom!WeComAssumption, WeComInv, NEW c \in DOMAIN wc_jobs, WeCom!Check(c) PROVE WeComInv'
<1> DEFINE o == wc_jobs[c].object
           id == wc_jobs[c].id
<1> USE DEF WeComInv
<1>1. /\ wc_jobs[c] \in Job /\ wc_now \in Nat /\ o \in WeCom!Objects /\ id \in wc_MsgIds \cup {WeCom!NoId}
         /\ wc_MsgTTL \in Nat
      /\ wc_jobs[c].pc = "check" /\ wc_jobs[c].checked = -1 /\ wc_jobs[c].linked = -1
  BY JobFacts DEF WeCom!WeComAssumption, WeCom!Check, JobsInv
<1>2. UNCHANGED <<wc_now, wc_live, wc_urls, wc_published, wc_send, wc_outcome>>
  BY DEF WeCom!Check
<1>3. TimeInv' /\ \A d \in DOMAIN wc_jobs : WeCom!Chat(d) \in wc_Users \cup {WeCom!Room}
  BY <1>2, JobFacts DEF TimeInv
<1>4. ASSUME NEW job \in Job, wc_jobs' = [wc_jobs EXCEPT ![c] = job], job.pc \in {"dropped", "remember"},
             job.id = id, job.object = o, job.from = wc_jobs[c].from, job.group = wc_jobs[c].group,
             job.linked = -1,
             job.pc = "dropped" => job.checked = -1, job.pc = "remember" => job.checked = wc_now
      PROVE  /\ DOMAIN wc_jobs' = DOMAIN wc_jobs /\ wc_jobs'[c] = job
                /\ \A d \in DOMAIN wc_jobs \ {c} : wc_jobs'[d] = wc_jobs[d]
             /\ \A d \in DOMAIN wc_jobs : WeCom!Chat(d)' = WeCom!Chat(d)
             /\ JobsInv' /\ WeComPublishedInv' /\ UrlsInv' /\ WeComSendInv'
  <2>1. wc_jobs' \in Seq(Job) /\ DOMAIN wc_jobs' = DOMAIN wc_jobs
    BY <1>4, ChangedSeq DEF JobsInv
  <2>2. wc_jobs'[c] = job /\ \A d \in DOMAIN wc_jobs \ {c} : wc_jobs'[d] = wc_jobs[d]
    BY <1>4 DEF JobsInv
  <2>3. \A d \in DOMAIN wc_jobs : /\ WeCom!Chat(d)' = WeCom!Chat(d) /\ wc_jobs'[d].object = wc_jobs[d].object
                                  /\ wc_jobs'[d].linked = wc_jobs[d].linked
                                  /\ wc_jobs[d].pc = "done" => wc_jobs'[d].pc = "done"
    BY <1>1, <1>4, <2>2 DEF WeCom!Chat
  <2>4. JobsInv'
    BY <1>1, <1>2, <1>4, <2>1, <2>2 DEF JobsInv
  <2>5. WeComPublishedInv'
    BY <1>2, <2>1, <2>3, PublishedKeep
  <2>6. UrlsInv'
    BY <1>2, <2>1, <2>3, UrlsKeep
  <2>7. WeComSendInv'
    BY <1>2, <2>1, <2>3 DEF WeComSendInv, WeCom!NoSend
  <2> QED
    BY <2>1, <2>2, <2>3, <2>4, <2>5, <2>6, <2>7
<1>5. CASE ~WeCom!Allow(wc_jobs[c].from) \/ (id # WeCom!NoId /\ WeCom!IsSeen(wc_seen[o], id))
  <2> DEFINE job == [wc_jobs[c] EXCEPT !.pc = "dropped"]
  <2>1. wc_jobs' = [wc_jobs EXCEPT ![c] = job] /\ UNCHANGED wc_seen
    BY <1>5 DEF WeCom!Check
  <2>2. /\ job \in Job /\ job.pc = "dropped" /\ job.id = id /\ job.object = o /\ job.from = wc_jobs[c].from
        /\ job.group = wc_jobs[c].group /\ job.linked = -1 /\ job.checked = -1
    BY <1>1 DEF Job, Places
  <2> HIDE DEF job, o, id
  <2>3. /\ DOMAIN wc_jobs' = DOMAIN wc_jobs /\ wc_jobs'[c] = job
           /\ \A d \in DOMAIN wc_jobs \ {c} : wc_jobs'[d] = wc_jobs[d]
        /\ JobsInv' /\ WeComPublishedInv' /\ UrlsInv' /\ WeComSendInv'
    BY <1>4, <2>1, <2>2
  <2>4. IdsInv'
    BY <1>2, <2>1, <2>2, <2>3 DEF IdsInv
  <2>5. CachesInv'
    BY <1>2, <2>1 DEF CachesInv, CacheOf
  <2> QED
    BY <1>3, <2>3, <2>4, <2>5
<1>6. CASE ~(~WeCom!Allow(wc_jobs[c].from) \/ (id # WeCom!NoId /\ WeCom!IsSeen(wc_seen[o], id)))
  <2> DEFINE job == [wc_jobs[c] EXCEPT !.pc = "remember", !.checked = wc_now]
             new == WeCom!Store(wc_seen[o], id, c, wc_MsgTTL)
  <2>1. /\ wc_jobs' = [wc_jobs EXCEPT ![c] = job]
        /\ wc_seen' = IF id = WeCom!NoId THEN wc_seen ELSE [wc_seen EXCEPT ![o] = new]
    BY <1>6 DEF WeCom!Check
  <2>2. /\ job \in Job /\ job.pc = "remember" /\ job.id = id /\ job.object = o /\ job.from = wc_jobs[c].from
        /\ job.group = wc_jobs[c].group /\ job.linked = -1 /\ job.checked = wc_now
    <3>1. wc_now \in Int
      BY <1>1
    <3>2. job \in Job
      BY <1>1, <3>1 DEF Job, Places
    <3> QED
      BY <1>1, <3>2 DEF Job
  <2>3. id = WeCom!NoId \/ id \notin DOMAIN wc_seen[o].items \/ wc_seen[o].items[id].exp <= wc_now
    <3>1. id = WeCom!NoId \/ ~WeCom!IsSeen(wc_seen[o], id)
      BY <1>6
    <3>2. \A k \in DOMAIN wc_seen[o].items : wc_seen[o].items[k].exp \in Int
      BY <1>1 DEF CachesInv, CacheOf
    <3> QED
      BY <1>1, <3>1, <3>2 DEF WeCom!IsSeen
  <2>4. id # WeCom!NoId =>
          /\ CacheOf(new, wc_MsgIds)
          /\ id \in DOMAIN new.items /\ new.items[id].exp = wc_now + wc_MsgTTL
          /\ \A k \in DOMAIN new.items : k # id => new.items[k] = wc_seen[o].items[k]
          /\ \A k \in DOMAIN wc_seen[o].items : k # id /\ wc_seen[o].items[k].exp >= wc_now
             => k \in DOMAIN new.items
    <3>1. CacheOf(wc_seen[o], wc_MsgIds)
      BY <1>1 DEF CachesInv
    <3> SUFFICES ASSUME id # WeCom!NoId PROVE
          /\ CacheOf(new, wc_MsgIds)
          /\ id \in DOMAIN new.items /\ new.items[id].exp = wc_now + wc_MsgTTL
          /\ \A k \in DOMAIN new.items : k # id => new.items[k] = wc_seen[o].items[k]
          /\ \A k \in DOMAIN wc_seen[o].items : k # id /\ wc_seen[o].items[k].exp >= wc_now
             => k \in DOMAIN new.items
      OBVIOUS
    <3>2. id \in wc_MsgIds
      BY <1>1
    <3>3. /\ CacheOf(new, wc_MsgIds)
          /\ id \in DOMAIN new.items /\ new.items[id] = [val |-> c, exp |-> wc_now + wc_MsgTTL]
          /\ \A k \in DOMAIN new.items : k # id => new.items[k] = wc_seen[o].items[k]
          /\ \A k \in DOMAIN wc_seen[o].items : k # id /\ wc_seen[o].items[k].exp >= wc_now
             => k \in DOMAIN new.items
      <4> HIDE DEF id, o
      <4> QED
        BY <1>1, <3>1, <3>2, StoreKeeps DEF new
    <3> HIDE DEF id, o, new
    <3> QED
      BY <3>3
  <2> HIDE DEF job, new, o, id
  <2>5. /\ DOMAIN wc_jobs' = DOMAIN wc_jobs /\ wc_jobs'[c] = job
           /\ \A d \in DOMAIN wc_jobs \ {c} : wc_jobs'[d] = wc_jobs[d]
        /\ JobsInv' /\ WeComPublishedInv' /\ UrlsInv' /\ WeComSendInv'
    BY <1>4, <2>1, <2>2
  <2>6. /\ wc_seen' = [p \in WeCom!Objects |-> wc_seen'[p]]
           /\ \A p \in WeCom!Objects \ {o} : wc_seen'[p] = wc_seen[p]
        /\ id # WeCom!NoId => wc_seen'[o] = new
        /\ id = WeCom!NoId => wc_seen'[o] = wc_seen[o]
    BY <1>1, <2>1 DEF CachesInv
  <2>7. CachesInv'
    <3>1. \A p \in WeCom!Objects : CacheOf(wc_seen'[p], wc_MsgIds)
          /\ CacheOf(wc_urls[p], wc_Users \cup {WeCom!Room})
      BY <1>1, <2>4, <2>6 DEF CachesInv
    <3>2. \A p \in WeCom!Objects : CacheOf(wc_seen[p], wc_MsgIds)'
          /\ CacheOf(wc_urls[p], wc_Users \cup {WeCom!Room})'
      BY <1>2, <3>1 DEF CacheOf
    <3> QED
      BY <1>2, <2>6, <3>2 DEF CachesInv
  <2>8. ASSUME NEW d \in DOMAIN wc_jobs, wc_jobs'[d].checked # -1, wc_jobs'[d].id # WeCom!NoId,
               wc_now < wc_jobs'[d].checked + wc_MsgTTL
        PROVE  /\ wc_jobs'[d].id \in DOMAIN wc_seen'[wc_jobs'[d].object].items
               /\ wc_seen'[wc_jobs'[d].object].items[wc_jobs'[d].id].exp >= wc_jobs'[d].checked + wc_MsgTTL
    <3>1. CASE d = c
      BY <1>1, <2>2, <2>4, <2>5, <2>6, <2>8, <3>1
    <3>2. CASE d # c
      <4>1. /\ wc_jobs'[d] = wc_jobs[d] /\ wc_jobs[d].checked \in Int /\ wc_jobs[d].checked <= wc_now
               /\ wc_jobs[d].object \in WeCom!Objects
        BY <2>5, <3>2, JobFacts DEF JobsInv
      <4>2. /\ wc_jobs[d].id \in DOMAIN wc_seen[wc_jobs[d].object].items
            /\ wc_seen[wc_jobs[d].object].items[wc_jobs[d].id].exp >= wc_jobs[d].checked + wc_MsgTTL
        BY <2>8, <4>1 DEF IdsInv
      <4>3. CASE wc_jobs[d].object = o /\ wc_jobs[d].id = id /\ id # WeCom!NoId
        BY <1>1, <2>4, <2>6, <4>1, <4>3
      <4>4. CASE wc_jobs[d].object = o /\ wc_jobs[d].id # id /\ id # WeCom!NoId
        <5>1. wc_seen[o].items[wc_jobs[d].id].exp \in Int
          BY <1>1, <4>2, <4>4 DEF CachesInv, CacheOf
        <5>2. wc_seen[o].items[wc_jobs[d].id].exp >= wc_now
          BY <1>1, <2>8, <4>1, <4>2, <4>4, <5>1
        <5> QED
          BY <2>4, <2>6, <4>1, <4>2, <4>4, <5>2
      <4>5. CASE wc_jobs[d].object # o \/ id = WeCom!NoId
        BY <2>6, <4>1, <4>2, <4>5
      <4> QED
        BY <4>3, <4>4, <4>5
    <3> QED
      BY <3>1, <3>2
  <2>9. ASSUME NEW d \in DOMAIN wc_jobs, d # c, wc_jobs[d].checked # -1, id # WeCom!NoId, wc_jobs[d].id = id,
               wc_jobs[d].object = o
        PROVE  wc_jobs[d].checked + wc_MsgTTL <= wc_now
    <3>1. wc_jobs[d].checked \in Int
      BY JobFacts
    <3>2. CASE wc_now < wc_jobs[d].checked + wc_MsgTTL
      <4>1. id \in DOMAIN wc_seen[o].items /\ wc_seen[o].items[id].exp >= wc_jobs[d].checked + wc_MsgTTL
        BY <2>9, <3>2 DEF IdsInv
      <4>2. wc_seen[o].items[id].exp \in Int
        BY <1>1, <4>1 DEF CachesInv, CacheOf
      <4> QED
        BY <1>1, <2>3, <2>9, <3>1, <3>2, <4>1, <4>2
    <3> QED
      BY <1>1, <3>1, <3>2
  <2>10. IdsInv'
    <3>1. ASSUME NEW d \in DOMAIN wc_jobs, NEW e \in DOMAIN wc_jobs, d # e, wc_jobs'[d].checked # -1,
                 wc_jobs'[e].checked # -1,
                 wc_jobs'[d].id # WeCom!NoId, wc_jobs'[d].id = wc_jobs'[e].id,
                 wc_jobs'[d].object = wc_jobs'[e].object
          PROVE  wc_jobs'[d].checked + wc_MsgTTL <= wc_jobs'[e].checked \/ wc_jobs'[e].checked + wc_MsgTTL <= wc_jobs'[d].checked
      <4>1. CASE d = c
        BY <2>2, <2>5, <2>9, <3>1, <4>1
      <4>2. CASE e = c
        BY <2>2, <2>5, <2>9, <3>1, <4>2
      <4>3. CASE d # c /\ e # c
        BY <2>5, <3>1, <4>3 DEF IdsInv
      <4> QED
        BY <4>1, <4>2, <4>3
    <3> QED
      BY <1>2, <2>5, <2>8, <3>1 DEF IdsInv
  <2> QED
    BY <1>3, <2>5, <2>7, <2>10
<1> QED
  BY <1>5, <1>6

\* The reply URL is filed under its chat, whose earlier entry it outlives.
LEMMA RememberStep ==
  ASSUME WeCom!WeComAssumption, WeComInv, NEW c \in DOMAIN wc_jobs, WeCom!Remember(c) PROVE WeComInv'
<1> DEFINE o == wc_jobs[c].object
           chat == WeCom!Chat(c)
           job == [wc_jobs[c] EXCEPT !.pc = "extract", !.linked = IF wc_jobs[c].link THEN wc_now ELSE -1]
           new == WeCom!Store(wc_urls[o], chat, c, wc_ReplyTTL)
           linked == wc_jobs[c].link
<1> USE DEF WeComInv
<1>1. /\ wc_jobs[c] \in Job /\ wc_now \in Nat /\ o \in WeCom!Objects /\ chat \in wc_Users \cup {WeCom!Room}
         /\ wc_ReplyTTL \in Nat
      /\ wc_jobs[c].pc = "remember" /\ wc_jobs[c].checked # -1 /\ wc_jobs[c].linked = -1
         /\ wc_jobs[c].checked <= wc_now
      /\ wc_jobs[c].checked \in Int
  BY JobFacts DEF WeCom!WeComAssumption, WeCom!Remember, JobsInv
<1>2. /\ UNCHANGED <<wc_now, wc_live, wc_seen, wc_published, wc_send, wc_outcome>>
         /\ wc_jobs' = [wc_jobs EXCEPT ![c] = job]
      /\ wc_urls' = IF linked THEN [wc_urls EXCEPT ![o] = new] ELSE wc_urls
  BY DEF WeCom!Remember
<1>3. /\ job \in Job /\ job.id = wc_jobs[c].id /\ job.object = o /\ job.from = wc_jobs[c].from
      /\ job.group = wc_jobs[c].group /\ job.pc = "extract" /\ job.checked = wc_jobs[c].checked
      /\ job.linked = IF linked THEN wc_now ELSE -1
  <2>1. (IF wc_jobs[c].link THEN wc_now ELSE -1) \in Int
    BY <1>1
  <2>2. job \in Job
    BY <1>1, <2>1 DEF Job, Places
  <2> QED
    BY <1>1, <2>2 DEF Job
<1> HIDE DEF job
<1>4. wc_jobs' \in Seq(Job) /\ DOMAIN wc_jobs' = DOMAIN wc_jobs
  BY <1>2, <1>3, ChangedSeq DEF JobsInv
<1>5. wc_jobs'[c] = job /\ \A d \in DOMAIN wc_jobs \ {c} : wc_jobs'[d] = wc_jobs[d]
  BY <1>2 DEF JobsInv
<1>6. \A d \in DOMAIN wc_jobs : /\ WeCom!Chat(d)' = WeCom!Chat(d) /\ wc_jobs'[d].object = wc_jobs[d].object
                                   /\ wc_jobs'[d].id = wc_jobs[d].id
                                /\ wc_jobs'[d].checked = wc_jobs[d].checked
                                /\ wc_jobs[d].pc = "done" => wc_jobs'[d].pc = "done"
                                /\ wc_jobs[d].linked # -1 => d # c /\ wc_jobs'[d].linked = wc_jobs[d].linked
  BY <1>1, <1>3, <1>5 DEF WeCom!Chat
<1>7. JobsInv'
  <2>1. job.linked <= wc_now /\ -1 <= job.linked
    BY <1>1, <1>3
  <2> QED
    <3>1. job.pc \in {"check", "dropped"} <=> job.checked = -1
      BY <1>1, <1>3
    <3>2. job.pc \in {"check", "dropped", "remember"} => job.linked = -1
      BY <1>1, <1>3
    <3>3. -1 <= job.checked /\ job.checked <= wc_now
      BY <1>1, <1>3 DEF JobsInv
    <3> QED
      <4>1. JobsInv /\ wc_now' = wc_now
        BY <1>2
      <4> HIDE DEF WeComInv
      <4> QED
        BY <1>4, <1>5, <2>1, <3>1, <3>2, <3>3, <4>1, JobsKeep
<1>8. WeComPublishedInv'
  BY <1>2, <1>4, <1>6, PublishedKeep
<1>9. IdsInv'
  BY <1>2, <1>4, <1>6 DEF IdsInv
<1>10. WeComSendInv'
  BY <1>2, <1>4, <1>6 DEF WeComSendInv, WeCom!NoSend
<1>11. linked =>
         /\ CacheOf(new, wc_Users \cup {WeCom!Room})
         /\ chat \in DOMAIN new.items /\ new.items[chat] = [val |-> c, exp |-> wc_now + wc_ReplyTTL]
         /\ DOMAIN new.items \subseteq DOMAIN wc_urls[o].items \cup {chat}
         /\ \A k \in DOMAIN new.items : k # chat => new.items[k] = wc_urls[o].items[k]
         /\ \A k \in DOMAIN wc_urls[o].items : k # chat /\ wc_urls[o].items[k].exp >= wc_now
            => k \in DOMAIN new.items
  <2>1. CacheOf(wc_urls[o], wc_Users \cup {WeCom!Room})
    BY <1>1 DEF CachesInv
  <2> HIDE DEF chat, o
  <2> QED
    BY <1>1, <2>1, StoreKeeps DEF new
<1> HIDE DEF new, chat, o, linked
<1>12. /\ wc_urls' = [p \in WeCom!Objects |-> wc_urls'[p]]
          /\ \A p \in WeCom!Objects \ {o} : wc_urls'[p] = wc_urls[p]
       /\ wc_urls'[o] = IF linked THEN new ELSE wc_urls[o]
  BY <1>1, <1>2 DEF CachesInv
<1>13. CachesInv'
  <2>1. \A p \in WeCom!Objects : CacheOf(wc_seen[p], wc_MsgIds)
        /\ CacheOf(wc_urls'[p], wc_Users \cup {WeCom!Room})
    BY <1>1, <1>11, <1>12 DEF CachesInv
  <2>2. \A p \in WeCom!Objects : CacheOf(wc_seen[p], wc_MsgIds)'
        /\ CacheOf(wc_urls[p], wc_Users \cup {WeCom!Room})'
    BY <1>2, <2>1 DEF CacheOf
  <2> QED
    BY <1>2, <1>12, <2>2 DEF CachesInv
<1>14. ASSUME NEW p \in WeCom!Objects, NEW k \in DOMAIN wc_urls'[p].items
       PROVE  /\ wc_urls'[p].items[k].val \in DOMAIN wc_jobs' /\ WeCom!Chat(wc_urls[p].items[k].val)' = k
              /\ wc_jobs'[wc_urls'[p].items[k].val].linked # -1
              /\ wc_urls'[p].items[k].exp = wc_jobs'[wc_urls'[p].items[k].val].linked + wc_ReplyTTL
  <2>1. CASE p = o /\ linked /\ k = chat
    <3>1. wc_urls'[p].items[k] = [val |-> c, exp |-> wc_now + wc_ReplyTTL]
      BY <1>11, <1>12, <2>1
    <3>2. WeCom!Chat(c)' = chat /\ wc_now # -1
      BY <1>1, <1>6 DEF chat
    <3>3. \A v : v = c => WeCom!Chat(v)' = chat
      BY <3>2
    <3> QED
      BY <1>3, <1>4, <1>5, <2>1, <3>1, <3>2, <3>3
  <2>2. CASE ~(p = o /\ linked /\ k = chat)
    <3>1. k \in DOMAIN wc_urls[p].items /\ wc_urls'[p].items[k] = wc_urls[p].items[k]
      BY <1>11, <1>12, <1>14, <2>2
    <3> DEFINE v == wc_urls[p].items[k].val
    <3>2. v \in DOMAIN wc_jobs /\ WeCom!Chat(v) = k /\ wc_jobs[v].linked # -1
          /\ wc_urls[p].items[k].exp = wc_jobs[v].linked + wc_ReplyTTL
      BY <3>1 DEF UrlsInv
    <3>3. \A d : d = v => WeCom!Chat(d)' = k /\ wc_jobs'[d].linked = wc_jobs[d].linked
      BY <1>6, <3>2
    <3> QED
      BY <1>4, <3>1, <3>2, <3>3
  <2> QED
    BY <2>1, <2>2
<1>15. ASSUME NEW d \in DOMAIN wc_jobs, wc_jobs'[d].linked # -1, wc_now <= wc_jobs'[d].linked + wc_ReplyTTL
       PROVE  /\ WeCom!Chat(d) \in DOMAIN wc_urls'[wc_jobs[d].object].items
              /\ wc_urls'[wc_jobs[d].object].items[WeCom!Chat(d)].exp >= wc_jobs'[d].linked + wc_ReplyTTL
  <2>1. CASE d = c
    BY <1>1, <1>3, <1>5, <1>11, <1>12, <1>15, <2>1 DEF o, chat
  <2>2. CASE d # c
    <3>1. /\ wc_jobs'[d] = wc_jobs[d] /\ wc_jobs[d].linked \in Int /\ wc_jobs[d].linked <= wc_now
             /\ wc_jobs[d].object \in WeCom!Objects
          /\ WeCom!Chat(d) \in wc_Users \cup {WeCom!Room}
      BY <1>5, <2>2, JobFacts DEF JobsInv
    <3>2. /\ WeCom!Chat(d) \in DOMAIN wc_urls[wc_jobs[d].object].items
          /\ wc_urls[wc_jobs[d].object].items[WeCom!Chat(d)].exp >= wc_jobs[d].linked + wc_ReplyTTL
      BY <1>15, <3>1 DEF UrlsInv
    <3>3. CASE wc_jobs[d].object = o /\ linked /\ WeCom!Chat(d) = chat
      BY <1>1, <1>11, <1>12, <3>1, <3>3
    <3>4. CASE wc_jobs[d].object = o /\ linked /\ WeCom!Chat(d) # chat
      <4>1. wc_urls[o].items[WeCom!Chat(d)].exp \in Int
        BY <1>1, <3>2, <3>4 DEF CachesInv, CacheOf
      <4>2. wc_urls[o].items[WeCom!Chat(d)].exp >= wc_now
        BY <1>1, <1>15, <3>1, <3>2, <3>4, <4>1
      <4> QED
        BY <1>11, <1>12, <3>1, <3>2, <3>4, <4>2
    <3>5. CASE ~(wc_jobs[d].object = o /\ linked)
      BY <1>12, <3>1, <3>2, <3>5
    <3> QED
      BY <3>3, <3>4, <3>5
  <2> QED
    BY <2>1, <2>2
<1>16. UrlsInv'
  <2>1. ASSUME NEW d \in DOMAIN wc_jobs', wc_jobs'[d].linked # -1, wc_now' <= wc_jobs'[d].linked + wc_ReplyTTL
        PROVE  /\ WeCom!Chat(d)' \in DOMAIN wc_urls'[wc_jobs'[d].object].items
               /\ wc_urls'[wc_jobs'[d].object].items[WeCom!Chat(d)'].exp >= wc_jobs'[d].linked + wc_ReplyTTL
    BY <1>2, <1>4, <1>6, <1>15, <2>1
  <2> QED
    BY <1>14, <2>1 DEF UrlsInv
<1> QED
  BY <1>2, <1>7, <1>8, <1>9, <1>10, <1>13, <1>16 DEF TimeInv

\* The message is published, or there was nothing to publish.
LEMMA PublishStep ==
  ASSUME WeCom!WeComAssumption, WeComInv, NEW c \in DOMAIN wc_jobs, WeCom!Publish(c) PROVE WeComInv'
<1> DEFINE job == [wc_jobs[c] EXCEPT !.pc = "done"]
<1> USE DEF WeComInv
<1>1. wc_jobs[c] \in Job /\ wc_jobs[c].pc = "extract" /\ wc_jobs[c].checked # -1 /\ c \in Nat
  BY JobFacts DEF WeCom!Publish, JobsInv
<1>2. /\ UNCHANGED <<wc_now, wc_live, wc_seen, wc_urls, wc_send, wc_outcome>>
         /\ wc_jobs' = [wc_jobs EXCEPT ![c] = job]
      /\ wc_published' \in {wc_published, Append(wc_published, c)}
  BY DEF WeCom!Publish
<1>3. /\ job \in Job /\ job.id = wc_jobs[c].id /\ job.object = wc_jobs[c].object /\ job.from = wc_jobs[c].from
      /\ job.group = wc_jobs[c].group /\ job.pc = "done" /\ job.checked = wc_jobs[c].checked
      /\ job.linked = wc_jobs[c].linked
  BY <1>1 DEF Job, Places
<1> HIDE DEF job
<1>4. wc_jobs' \in Seq(Job) /\ DOMAIN wc_jobs' = DOMAIN wc_jobs
  BY <1>2, <1>3, ChangedSeq DEF JobsInv
<1>5. wc_jobs'[c] = job /\ \A d \in DOMAIN wc_jobs \ {c} : wc_jobs'[d] = wc_jobs[d]
  BY <1>2 DEF JobsInv
<1>6. \A d \in DOMAIN wc_jobs : /\ WeCom!Chat(d)' = WeCom!Chat(d) /\ wc_jobs'[d].object = wc_jobs[d].object
                                   /\ wc_jobs'[d].id = wc_jobs[d].id
                                /\ wc_jobs'[d].checked = wc_jobs[d].checked
                                   /\ wc_jobs'[d].linked = wc_jobs[d].linked
                                /\ wc_jobs[d].pc = "done" => d # c /\ wc_jobs'[d].pc = "done"
  BY <1>1, <1>3, <1>5 DEF WeCom!Chat
<1>7. JobsInv'
  <2>1. /\ -1 <= job.checked /\ job.checked <= wc_now /\ -1 <= job.linked /\ job.linked <= wc_now
        /\ job.pc = "done" /\ job.checked # -1
    BY <1>1, <1>3 DEF JobsInv
  <2> QED
    <3>1. JobsInv /\ wc_now' = wc_now
      BY <1>2
    <3>2. job.pc \in {"check", "dropped"} <=> job.checked = -1
      BY <2>1
    <3>3. job.pc \in {"check", "dropped", "remember"} => job.linked = -1
      BY <2>1
    <3>4. -1 <= job.checked /\ job.checked <= wc_now /\ -1 <= job.linked /\ job.linked <= wc_now
      BY <2>1
    <3> HIDE DEF WeComInv
    <3> QED
      BY <1>4, <1>5, <3>1, <3>2, <3>3, <3>4, JobsKeep, SMTT(30)
<1>8. WeComPublishedInv'
  <2>1. CASE wc_published' = wc_published
    BY <1>2, <1>4, <1>6, <2>1, PublishedKeep
  <2>2. CASE wc_published' = Append(wc_published, c)
    <3>1. /\ wc_published' \in Seq(Nat)
             /\ DOMAIN wc_published' = DOMAIN wc_published \cup {Len(wc_published) + 1}
          /\ wc_published'[Len(wc_published) + 1] = c
          /\ \A i \in DOMAIN wc_published : wc_published'[i] = wc_published[i]
      <4>1. wc_published \in Seq(Nat) /\ c \in Nat
        BY <1>1 DEF WeComPublishedInv
      <4>2. /\ Append(wc_published, c) \in Seq(Nat)
            /\ DOMAIN Append(wc_published, c) = DOMAIN wc_published \cup {Len(wc_published) + 1}
            /\ Append(wc_published, c)[Len(wc_published) + 1] = c
            /\ \A i \in DOMAIN wc_published : Append(wc_published, c)[i] = wc_published[i]
        BY <4>1, AppendSeq
      <4> QED
        BY <2>2, <4>2
    <3>2. \A i \in DOMAIN wc_published : wc_published[i] # c
      BY <1>6 DEF WeComPublishedInv
    <3>3. wc_jobs'[c].pc = "done"
      BY <1>3, <1>5
    <3> QED
      <4>1. \A i \in DOMAIN wc_published' : wc_published'[i] \in DOMAIN wc_jobs'
            /\ wc_jobs'[wc_published'[i]].pc = "done"
        BY <1>4, <1>6, <3>1, <3>3 DEF WeComPublishedInv
      <4>2. ASSUME NEW i \in DOMAIN wc_published', NEW j \in DOMAIN wc_published', i # j
            PROVE  wc_published'[i] # wc_published'[j]
        <5>1. CASE i \in DOMAIN wc_published /\ j \in DOMAIN wc_published
          BY <3>1, <4>2, <5>1 DEF WeComPublishedInv
        <5>2. CASE ~(i \in DOMAIN wc_published /\ j \in DOMAIN wc_published)
          BY <3>1, <3>2, <4>2, <5>2
        <5> QED
          BY <5>1, <5>2
      <4> QED
        BY <1>2, <3>1, <4>1, <4>2 DEF WeComPublishedInv
  <2> QED
    BY <1>2, <2>1, <2>2
<1>9. IdsInv' /\ UrlsInv' /\ WeComSendInv'
  <2>1. IdsInv'
    BY <1>2, <1>4, <1>6 DEF IdsInv
  <2>2. UrlsInv'
    BY <1>2, <1>4, <1>6, UrlsKeep
  <2>3. WeComSendInv'
    BY <1>2, <1>4, <1>6 DEF WeComSendInv, WeCom!NoSend
  <2> QED
    BY <2>1, <2>2, <2>3
<1>10. TimeInv' /\ CachesInv'
  BY <1>2 DEF TimeInv, CachesInv, CacheOf
<1> QED
  BY <1>7, <1>8, <1>9, <1>10

\* Send looks its URL up; one that has expired, or none, removes nothing that could answer.
LEMMA SendBeginStep == ASSUME WeCom!WeComAssumption, WeComInv, WeCom!SendBegin PROVE WeComInv'
<1> DEFINE c == wc_published[Len(wc_outcome) + 1]
           chat == WeCom!Chat(c)
           cache == wc_urls[wc_live]
           good == chat \in DOMAIN cache.items /\ wc_now <= cache.items[chat].exp
<1> USE DEF WeComInv
<1>1. /\ wc_send = WeCom!NoSend /\ Len(wc_outcome) + 1 \in DOMAIN wc_published /\ wc_live \in WeCom!Objects
         /\ wc_now \in Nat
      /\ UNCHANGED <<wc_now, wc_live, wc_seen, wc_jobs, wc_published>>
  <2>1. wc_published \in Seq(Nat) /\ wc_outcome \in Seq({"no url", "failed", "sent"})
    BY DEF WeComPublishedInv
  <2>2. Len(wc_outcome) \in Nat /\ Len(wc_published) \in Nat /\ DOMAIN wc_published = 1..Len(wc_published)
    BY <2>1, LengthOf
  <2>3. Len(wc_outcome) < Len(wc_published)
    BY DEF WeCom!SendBegin
  <2>4. Len(wc_outcome) + 1 \in DOMAIN wc_published
    BY <2>2, <2>3
  <2>5. wc_live \in WeCom!Objects /\ wc_now \in Nat
    BY DEF TimeInv
  <2>6. wc_send = WeCom!NoSend /\ UNCHANGED <<wc_now, wc_live, wc_seen, wc_jobs, wc_published>>
    BY DEF WeCom!SendBegin
  <2> QED
    BY <2>4, <2>5, <2>6
<1>2. c \in DOMAIN wc_jobs
  BY <1>1 DEF WeComPublishedInv
<1>3. \A d : WeCom!Chat(d)' = WeCom!Chat(d)
  BY <1>1 DEF WeCom!Chat
<1>4. CacheOf(cache, wc_Users \cup {WeCom!Room})
  BY <1>1 DEF CachesInv
<1>5. TimeInv' /\ JobsInv' /\ IdsInv'
  BY <1>1 DEF TimeInv, JobsInv, IdsInv
<1>6. ASSUME NEW new, wc_urls' = [wc_urls EXCEPT ![wc_live] = new], CacheOf(new, wc_Users \cup {WeCom!Room}),
             DOMAIN new.items \subseteq DOMAIN cache.items,
             \A k \in DOMAIN new.items : new.items[k] = cache.items[k],
             \A k \in DOMAIN cache.items : cache.items[k].exp >= wc_now => k \in DOMAIN new.items
      PROVE  CachesInv' /\ UrlsInv'
  <2>1. /\ wc_urls' = [p \in WeCom!Objects |-> wc_urls'[p]]
           /\ \A p \in WeCom!Objects \ {wc_live} : wc_urls'[p] = wc_urls[p]
        /\ wc_urls'[wc_live] = new
    BY <1>1, <1>6 DEF CachesInv
  <2>2. CachesInv'
    <3>1. \A p \in WeCom!Objects : CacheOf(wc_seen[p], wc_MsgIds)
          /\ CacheOf(wc_urls'[p], wc_Users \cup {WeCom!Room})
      BY <1>6, <2>1 DEF CachesInv
    <3>2. \A p \in WeCom!Objects : CacheOf(wc_seen[p], wc_MsgIds)'
          /\ CacheOf(wc_urls[p], wc_Users \cup {WeCom!Room})'
      BY <1>1, <3>1 DEF CacheOf
    <3> QED
      BY <1>1, <2>1, <3>2 DEF CachesInv
  <2>3. \A p \in WeCom!Objects : /\ DOMAIN wc_urls'[p].items \subseteq DOMAIN wc_urls[p].items
                                 /\ \A k \in DOMAIN wc_urls'[p].items : wc_urls'[p].items[k] = wc_urls[p].items[k]
                                 /\ \A k \in DOMAIN wc_urls[p].items :
                                      wc_urls[p].items[k].exp >= wc_now => k \in DOMAIN wc_urls'[p].items
    BY <1>6, <2>1
  <2>4. ASSUME NEW d \in DOMAIN wc_jobs, wc_jobs[d].linked # -1, wc_now <= wc_jobs[d].linked + wc_ReplyTTL
        PROVE  /\ WeCom!Chat(d) \in DOMAIN wc_urls'[wc_jobs[d].object].items
               /\ wc_urls'[wc_jobs[d].object].items[WeCom!Chat(d)].exp >= wc_jobs[d].linked + wc_ReplyTTL
    <3>1. wc_jobs[d].object \in WeCom!Objects /\ wc_jobs[d].linked \in Int
      BY JobFacts
    <3>2. /\ WeCom!Chat(d) \in DOMAIN wc_urls[wc_jobs[d].object].items
          /\ wc_urls[wc_jobs[d].object].items[WeCom!Chat(d)].exp >= wc_jobs[d].linked + wc_ReplyTTL
      BY <2>4 DEF UrlsInv
    <3>3. wc_urls[wc_jobs[d].object].items[WeCom!Chat(d)].exp \in Int
      BY <3>1, <3>2 DEF CachesInv, CacheOf
    <3>4. wc_urls[wc_jobs[d].object].items[WeCom!Chat(d)].exp >= wc_now
      BY <1>1, <2>4, <3>1, <3>2, <3>3 DEF WeCom!WeComAssumption
    <3> QED
      BY <2>3, <3>1, <3>2, <3>4
  <2>5. UrlsInv'
    BY <1>1, <1>3, <2>3, <2>4 DEF UrlsInv
  <2> QED
    BY <2>2, <2>5
<1>7. CASE good
  <2>1. /\ wc_send' = [call |-> c, url |-> cache.items[chat].val, tries |-> 1, since |-> wc_now]
        /\ wc_urls' = [wc_urls EXCEPT ![wc_live] = WeCom!Collect(cache)] /\ UNCHANGED wc_outcome
    BY <1>7 DEF WeCom!SendBegin
  <2>2. CacheOf(WeCom!Collect(cache), wc_Users \cup {WeCom!Room}) /\ Keeps(cache, WeCom!Collect(cache))
    BY <1>1, <1>4, CollectKeeps
  <2>3. CachesInv' /\ UrlsInv'
    <3> HIDE DEF cache
    <3> QED
      BY <1>6, <2>1, <2>2 DEF Keeps
  <2>4. WeComPublishedInv'
    BY <1>1, <2>1 DEF WeComPublishedInv
  <2> DEFINE v == cache.items[chat].val
  <2>5. v \in DOMAIN wc_jobs /\ WeCom!Chat(v) = chat /\ wc_jobs[v].linked # -1
        /\ wc_now <= wc_jobs[v].linked + wc_ReplyTTL
    BY <1>1, <1>7 DEF UrlsInv
  <2>6. 1 \in 1..wc_MaxTries
    BY DEF WeCom!WeComAssumption
  <2>7. wc_send' \in [call : DOMAIN wc_jobs, url : DOMAIN wc_jobs, tries : 1..wc_MaxTries, since : Nat]
    BY <1>1, <1>2, <2>1, <2>5, <2>6
  <2>8. wc_send'.url = v /\ wc_send'.call = c /\ wc_send'.since = wc_now
    BY <2>1
  <2>9. \A d, e : d = v /\ e = c => WeCom!Chat(d)' = WeCom!Chat(e)'
    BY <1>3, <2>5
  <2>10. WeComSendInv'
    BY <1>1, <2>5, <2>7, <2>8, <2>9 DEF WeComSendInv
  <2> QED
    BY <1>5, <2>3, <2>4, <2>10
<1>8. CASE ~good
  <2> DEFINE new == [cache EXCEPT !.items = WeCom!Restrict(@, DOMAIN @ \ {chat})]
  <2>1. /\ wc_send' = WeCom!NoSend /\ wc_outcome' = Append(wc_outcome, "no url")
        /\ wc_urls' = [wc_urls EXCEPT ![wc_live] = new]
    BY <1>8 DEF WeCom!SendBegin, WeCom!Ends
  <2>2. /\ new = [items |-> new.items, gc |-> cache.gc] /\ new.gc = cache.gc
        /\ new.items = [k \in DOMAIN cache.items \ {chat} |-> cache.items[k]]
    BY <1>4 DEF CacheOf, WeCom!Restrict
  <2> HIDE DEF new
  <2>3. /\ DOMAIN new.items = DOMAIN cache.items \ {chat}
        /\ \A k \in DOMAIN new.items : new.items[k] = cache.items[k]
    BY <2>2
  <2>4. CacheOf(new, wc_Users \cup {WeCom!Room})
    BY <1>4, <2>2, <2>3 DEF CacheOf
  <2>5. \A k \in DOMAIN cache.items : cache.items[k].exp >= wc_now => k \in DOMAIN new.items
    <3>1. \A k \in DOMAIN cache.items : cache.items[k].exp \in Int
      BY <1>4 DEF CacheOf
    <3> QED
      BY <1>1, <1>8, <2>3, <3>1
  <2>6. CachesInv' /\ UrlsInv'
    <3> HIDE DEF cache
    <3> QED
      BY <1>6, <2>1, <2>3, <2>4, <2>5
  <2>7. wc_outcome' \in Seq({"no url", "failed", "sent"})
    <3>1. "no url" \in {"no url", "failed", "sent"} /\ wc_outcome \in Seq({"no url", "failed", "sent"})
      BY DEF WeComPublishedInv
    <3> QED
      BY <2>1, <3>1, AppendSeq
  <2>8. WeComPublishedInv' /\ WeComSendInv'
    BY <1>1, <2>1, <2>7 DEF WeComPublishedInv, WeComSendInv, WeCom!NoSend
  <2> QED
    BY <1>5, <2>6, <2>8
<1> QED
  BY <1>7, <1>8

\* The posts of a Send keep its URL.
LEMMA PostStep ==
  ASSUME WeCom!WeComAssumption, WeComInv, WeCom!PostFails \/ WeCom!PostSucceeds
  PROVE  WeComInv'
<1> USE DEF WeComInv
<1>1. /\ wc_send # WeCom!NoSend
      /\ \/ wc_send.tries < wc_MaxTries /\ wc_send' = [wc_send EXCEPT !.tries = @ + 1]
            /\ wc_outcome' = wc_outcome
         \/ wc_send' = WeCom!NoSend /\ wc_outcome' = Append(wc_outcome, "failed")
         \/ wc_send' = WeCom!NoSend /\ wc_outcome' = Append(wc_outcome, "sent")
      /\ UNCHANGED <<wc_now, wc_live, wc_seen, wc_urls, wc_jobs, wc_published>>
  BY DEF WeCom!PostFails, WeCom!PostSucceeds, WeCom!Ends
<1>2. \A d : WeCom!Chat(d)' = WeCom!Chat(d)
  BY <1>1 DEF WeCom!Chat
<1>3. TimeInv' /\ JobsInv' /\ IdsInv'
  BY <1>1 DEF TimeInv, JobsInv, IdsInv
<1>4. wc_outcome' \in Seq({"no url", "failed", "sent"})
  <2>1. {"failed", "sent"} \subseteq {"no url", "failed", "sent"}
        /\ wc_outcome \in Seq({"no url", "failed", "sent"})
    BY DEF WeComPublishedInv
  <2>2. Append(wc_outcome, "failed") \in Seq({"no url", "failed", "sent"})
    BY <2>1, AppendSeq
  <2>3. Append(wc_outcome, "sent") \in Seq({"no url", "failed", "sent"})
    BY <2>1, AppendSeq
  <2> QED
    BY <1>1, <2>1, <2>2, <2>3
<1>5. WeComPublishedInv'
  BY <1>1, <1>4 DEF WeComPublishedInv
<1>7. CachesInv' /\ UrlsInv'
  <2>1. CachesInv'
    BY <1>1 DEF CachesInv, CacheOf
  <2>2. UrlsInv'
    BY <1>1, <1>2 DEF UrlsInv
  <2> QED
    BY <2>1, <2>2
<1>6. WeComSendInv'
  <2>1. CASE wc_send' = WeCom!NoSend
    BY <2>1 DEF WeComSendInv, WeCom!NoSend
  <2>2. CASE wc_send.tries < wc_MaxTries /\ wc_send' = [wc_send EXCEPT !.tries = @ + 1]
    <3>1. wc_send \in [call : DOMAIN wc_jobs, url : DOMAIN wc_jobs, tries : 1..wc_MaxTries, since : Nat]
      BY <1>1 DEF WeComSendInv
    <3>2. /\ wc_send'.call = wc_send.call /\ wc_send'.url = wc_send.url /\ wc_send'.since = wc_send.since
          /\ wc_send' \in [call : DOMAIN wc_jobs, url : DOMAIN wc_jobs, tries : 1..wc_MaxTries, since : Nat]
      BY <2>2, <3>1 DEF WeCom!WeComAssumption
    <3> QED
      BY <1>1, <1>2, <3>2 DEF WeComSendInv
  <2> QED
    BY <1>1, <2>1, <2>2
<1> QED
  BY <1>3, <1>5, <1>6, <1>7

\* Time passes, or the channel object is replaced.
LEMMA TimeStep ==
  ASSUME WeCom!WeComAssumption, WeComInv, WeCom!Tick \/ WeCom!Reload \/ UNCHANGED WeCom!vars
  PROVE  WeComInv'
<1> USE DEF WeComInv
<1>1. /\ wc_now' \in {wc_now, wc_now + 1}
         /\ UNCHANGED <<wc_seen, wc_urls, wc_jobs, wc_published, wc_send, wc_outcome>>
      /\ wc_now \in Nat
  BY DEF WeCom!Tick, WeCom!Reload, WeCom!vars, TimeInv
<1>2. TimeInv'
  BY DEF WeCom!Tick, WeCom!Reload, WeCom!vars, TimeInv, WeCom!Objects, WeCom!WeComAssumption
<1>3. \A d : WeCom!Chat(d)' = WeCom!Chat(d)
  BY <1>1 DEF WeCom!Chat
<1>4. CachesInv'
  BY <1>1 DEF CachesInv, CacheOf
<1>5. JobsInv'
  <2>1. \A d \in DOMAIN wc_jobs : wc_jobs[d].checked \in Int /\ wc_jobs[d].linked \in Int
    BY JobFacts
  <2> QED
    BY <1>1, <2>1 DEF JobsInv
<1>6. \A d \in DOMAIN wc_jobs : wc_jobs[d].checked \in Int /\ wc_jobs[d].linked \in Int
  BY JobFacts
<1>7. IdsInv' /\ UrlsInv'
  <2>1. IdsInv'
    BY <1>1, <1>3, <1>6 DEF IdsInv, WeCom!WeComAssumption
  <2>2. UrlsInv'
    BY <1>1, <1>3, <1>6 DEF UrlsInv, WeCom!WeComAssumption
  <2> QED
    BY <2>1, <2>2
<1>8. WeComPublishedInv' /\ WeComSendInv'
  BY <1>1, <1>3 DEF WeComPublishedInv, WeComSendInv, WeCom!NoSend
<1> QED
  BY <1>2, <1>4, <1>5, <1>7, <1>8

LEMMA WeComInit == ASSUME WeCom!WeComAssumption PROVE WeCom!Init => WeComInv
<1> SUFFICES ASSUME WeCom!Init PROVE WeComInv
  OBVIOUS
<1>1. TimeInv /\ JobsInv /\ IdsInv /\ WeComPublishedInv /\ WeComSendInv
  BY DEF WeCom!Init, TimeInv, JobsInv, IdsInv, WeComPublishedInv, WeComSendInv, WeCom!Objects,
     WeCom!WeComAssumption
<1>2. WeCom!NoCache.items = <<>> /\ WeCom!NoCache.gc = -1 /\ DOMAIN WeCom!NoCache.items = {}
  BY DEF WeCom!NoCache
<1>3. WeCom!NoCache = [items |-> WeCom!NoCache.items, gc |-> WeCom!NoCache.gc]
  BY <1>2 DEF WeCom!NoCache
<1>4. WeCom!NoCache.items = [k \in DOMAIN WeCom!NoCache.items |-> WeCom!NoCache.items[k]]
  BY <1>2
<1>5. \A keys : CacheOf(WeCom!NoCache, keys)
  BY <1>1, <1>2, <1>3, <1>4 DEF CacheOf, TimeInv
<1>6. CachesInv /\ UrlsInv
  BY <1>2, <1>5 DEF WeCom!Init, CachesInv, UrlsInv
<1> QED
  BY <1>1, <1>6 DEF WeComInv

\* The WeCom channel, for any callbacks, lives of the caches, scans and reloads: a repeat is published
\* only when the life of the first entry is over, a chat that gave a URL in time can be answered, and
\* an answer goes to a URL of its own chat that had not expired.
THEOREM ChatsKept == ASSUME WeCom!WeComAssumption PROVE WeCom!Spec => []WeCom!WeComKeepsItsChats
<1>1. WeCom!Init => WeComInv
  BY WeComInit
<1>2. WeComInv /\ [WeCom!Next]_(WeCom!vars) => WeComInv'
  BY DeliverStep, CheckStep, RememberStep, PublishStep, SendBeginStep, PostStep, TimeStep DEF WeCom!Next
<1>3. WeComInv => WeCom!WeComKeepsItsChats
  BY WeComInvIsEnough
<1> QED
  BY <1>1, <1>2, <1>3, PTL DEF WeCom!Spec

-----------------------------------------------------------------------------
\* The last fetch stored the cached token, and the one under way was asked for after it expired.
FetchInv ==
  /\ fs_fetches # <<>> => fs_token # 0 /\ fs_fetches[Len(fs_fetches)].exp = fs_exp
  /\ fs_mu # Feishu!Nobody => fs_token = 0 \/ fs_exp <= fs_asked

\* A token that was given out is one that the platform made.
GivenInv == fs_late \subseteq 1..Len(fs_issued)
/\ \A c \in Feishu!Callers : fs_got[c].token \in 0..Len(fs_issued)

\* The inductive invariant.
FeishuInv == Feishu!FeishuTokensAreGood /\ FetchInv /\ GivenInv

\* Everything about the tokens, as one block: what a step that leaves them alone keeps.
Tokens == Feishu!TokenInv /\ Feishu!GivenTokensAreLive /\ Feishu!OneFetchPerLife /\ FetchInv /\ GivenInv
tokenVars == <<fs_mu, fs_token, fs_exp, fs_issued, fs_asked, fs_late, fs_got, fs_fetches>>

\* A step that neither moves the tokens, nor enters or leaves a fetch, nor lets time pass.
LEMMA TokensUntouched ==
  ASSUME Tokens, UNCHANGED <<fs_now, tokenVars>>,
         \A c \in Feishu!Callers : fs_pc'[c] = "fetch" <=> fs_pc[c] = "fetch"
  PROVE  Tokens'
  BY DEF Tokens, tokenVars, Feishu!TokenInv, Feishu!GivenTokensAreLive, Feishu!OneFetchPerLife, FetchInv,
     GivenInv

\* GetTenantAccessToken returning the cached token: it is good now, so it is when it is given.
LEMMA CachedTokenIsGood ==
  ASSUME Feishu!FeishuAssumption, Feishu!TypeOK, Tokens, NEW c \in Feishu!Callers, fs_pc[c] # "fetch",
         Feishu!Cached, Feishu!Return(c, fs_token),
         UNCHANGED <<fs_now, fs_mu, Feishu!cacheVars>>
  PROVE  Tokens'
<1>1. fs_token \in 1..Len(fs_issued) /\ (fs_token \notin fs_late => fs_now < fs_issued[fs_token] + fs_Life)
  BY DEF Feishu!FeishuAssumption, Feishu!TypeOK, Tokens, Feishu!TokenInv, Feishu!Cached
<1>2. \A d \in Feishu!Callers : fs_pc'[d] = "fetch" <=> fs_pc[d] = "fetch"
  BY DEF Feishu!Return, Feishu!TypeOK
<1>3. Feishu!TokenInv' /\ Feishu!OneFetchPerLife' /\ FetchInv'
  BY <1>2 DEF Tokens, Feishu!TokenInv, Feishu!OneFetchPerLife, FetchInv, Feishu!cacheVars
<1>4. fs_got' = [fs_got EXCEPT ![c] = [token |-> fs_token, at |-> fs_now]]
  BY DEF Feishu!Return
<1>5. Feishu!GivenTokensAreLive' /\ GivenInv'
  BY <1>1, <1>4 DEF Tokens, Feishu!GivenTokensAreLive, GivenInv, Feishu!cacheVars, Feishu!TypeOK
<1> QED
  BY <1>3, <1>5 DEF Tokens

\* A token request adds the newest token; the older ones keep their place.
LEMMA AskKeepsTokens ==
  ASSUME Feishu!FeishuAssumption, Feishu!TypeOK, Tokens, NEW c \in Feishu!Callers, Feishu!Ask(c)
  PROVE  Tokens'
<1>1. CASE Feishu!Cached
  BY <1>1, CachedTokenIsGood DEF Feishu!Ask, Feishu!cacheVars
<1>2. CASE ~Feishu!Cached
  <2>1. /\ fs_pc[c] = "lock" /\ fs_mu = Feishu!Nobody /\ fs_mu' = c /\ fs_pc' = [fs_pc EXCEPT ![c] = "fetch"]
        /\ fs_asked' = fs_now /\ fs_issued' = Append(fs_issued, fs_now)
        /\ UNCHANGED <<fs_now, fs_token, fs_exp, fs_late, fs_fetches, fs_got>>
    BY <1>2 DEF Feishu!Ask
  <2>2. /\ Len(fs_issued') = Len(fs_issued) + 1 /\ fs_issued'[Len(fs_issued')] = fs_now /\ fs_issued' # <<>>
        /\ \A i \in 1..Len(fs_issued) : fs_issued'[i] = fs_issued[i]
    <3>1. fs_issued \in Seq(Nat) /\ fs_issued' = Append(fs_issued, fs_now)
      BY <2>1 DEF Feishu!TypeOK
    <3> QED BY <3>1
  <2>3. \A d \in Feishu!Callers : fs_pc'[d] = "fetch" <=> fs_mu' = d
    BY <2>1 DEF Tokens, Feishu!TokenInv, Feishu!TypeOK, Feishu!Callers, Feishu!Nobody, Feishu!FeishuAssumption
  <2>4. fs_token # 0 /\ fs_token \notin fs_late => fs_exp < fs_issued'[fs_token] + fs_Life
    BY <2>2 DEF Tokens, Feishu!TokenInv, Feishu!TypeOK
  <2>5. Feishu!TokenInv'
    BY <2>1, <2>2, <2>3, <2>4 DEF Feishu!TokenInv, Feishu!TypeOK, Feishu!FeishuAssumption
  <2>6. GivenInv' /\ Feishu!GivenTokensAreLive'
    <3>1. Len(fs_issued) \in Nat /\ 1..Len(fs_issued) \subseteq 1..Len(fs_issued')
          /\ 0..Len(fs_issued) \subseteq 0..Len(fs_issued')
      BY <2>2 DEF Feishu!TypeOK
    <3>2. GivenInv'
      BY <2>1, <3>1 DEF Tokens, GivenInv
    <3>3. ASSUME NEW d \in Feishu!Callers, fs_got[d].token # 0
          PROVE  fs_got[d].token \in 1..Len(fs_issued)
                 /\ fs_issued'[fs_got[d].token] = fs_issued[fs_got[d].token]
      BY <2>2, <3>3 DEF Tokens, GivenInv, Feishu!TypeOK
    <3> QED BY <2>1, <3>2, <3>3 DEF Tokens, Feishu!GivenTokensAreLive
  <2>7. FetchInv'
    BY <1>2, <2>1 DEF Tokens, FetchInv, Feishu!Cached, Feishu!TypeOK
  <2>8. Feishu!OneFetchPerLife'
    BY <2>1 DEF Tokens, Feishu!OneFetchPerLife
  <2> QED
    BY <2>5, <2>6, <2>7, <2>8 DEF Tokens
<1> QED
  BY <1>1, <1>2

\* The answer stores a token that is late or was asked for within the margin, and the fetch before it
\* had expired when this one was asked for.
LEMMA AnswerKeepsTokens ==
  ASSUME Feishu!FeishuAssumption, Feishu!TypeOK, Tokens, NEW c \in Feishu!Callers, Feishu!Answer(c)
  PROVE  Tokens'
<1>1. /\ fs_mu = c /\ fs_mu # Feishu!Nobody /\ fs_issued # <<>> /\ fs_issued[Len(fs_issued)] = fs_asked
      /\ fs_asked <= fs_now /\ (fs_token = 0 \/ fs_exp <= fs_asked)
  BY DEF Feishu!Answer, Tokens, Feishu!TokenInv, FetchInv, Feishu!Callers, Feishu!Nobody,
     Feishu!FeishuAssumption
<1>2. /\ fs_mu' = Feishu!Nobody /\ fs_pc' = [fs_pc EXCEPT ![c] = "have"]
         /\ UNCHANGED <<fs_now, fs_issued, fs_asked>>
  BY DEF Feishu!Answer, Feishu!Return
<1>3. \A d \in Feishu!Callers : fs_pc'[d] = "fetch" <=> fs_mu' = d
  BY <1>1, <1>2 DEF Tokens, Feishu!TokenInv, Feishu!TypeOK, Feishu!Callers, Feishu!Nobody,
     Feishu!FeishuAssumption
<1>4. CASE Feishu!Return(c, 0) /\ UNCHANGED <<fs_token, fs_exp, fs_late, fs_fetches>>
  <2>1. fs_got' = [fs_got EXCEPT ![c] = [token |-> 0, at |-> fs_now]]
    BY <1>4 DEF Feishu!Return
  <2>2. GivenInv' /\ Feishu!GivenTokensAreLive'
    <3>1. \A d \in Feishu!Callers : fs_got'[d].token = 0 \/ fs_got'[d] = fs_got[d]
      BY <2>1 DEF Feishu!TypeOK
    <3>2. Len(fs_issued) \in Nat
      BY DEF Feishu!TypeOK
    <3> QED BY <1>2, <1>4, <3>1, <3>2 DEF Tokens, GivenInv, Feishu!GivenTokensAreLive
  <2>3. Feishu!TokenInv' /\ FetchInv' /\ Feishu!OneFetchPerLife'
    BY <1>2, <1>3, <1>4 DEF Tokens, Feishu!TokenInv, FetchInv, Feishu!OneFetchPerLife
  <2> QED
    BY <2>2, <2>3 DEF Tokens
<1>5. CASE /\ fs_token' = Len(fs_issued) /\ fs_exp' = fs_now + (fs_Life - fs_Margin)
           /\ fs_fetches' = Append(fs_fetches, [at |-> fs_asked, exp |-> fs_exp'])
           /\ fs_late' = IF fs_now < fs_asked + fs_Margin THEN fs_late ELSE fs_late \cup {fs_token'}
           /\ Feishu!Return(c, fs_token')
  <2>1. fs_got' = [fs_got EXCEPT ![c] = [token |-> fs_token', at |-> fs_now]]
    BY <1>5 DEF Feishu!Return
  <2>2. /\ fs_token' \in 1..Len(fs_issued) /\ fs_late \subseteq fs_late'
           /\ fs_late' \subseteq 1..Len(fs_issued)
        /\ fs_token' \notin fs_late' => fs_exp' < fs_issued[fs_token'] + fs_Life
           /\ fs_now < fs_issued[fs_token'] + fs_Life
    <3>1. Len(fs_issued) \in 1..Len(fs_issued) /\ fs_token' = Len(fs_issued)
      BY <1>1, <1>5 DEF Feishu!TypeOK
    <3>2. fs_late \subseteq 1..Len(fs_issued) /\ fs_late' \in {fs_late, fs_late \cup {fs_token'}}
      BY <1>5 DEF Tokens, GivenInv
    <3>3. fs_token' \notin fs_late' => fs_now < fs_asked + fs_Margin
      BY <1>5
    <3>4. fs_now \in Nat /\ fs_asked \in Nat /\ fs_Life \in Nat /\ fs_Margin \in Nat /\ fs_Margin < fs_Life
      BY DEF Feishu!TypeOK, Feishu!FeishuAssumption
    <3>5. fs_token' \notin fs_late' => fs_exp' < fs_asked + fs_Life /\ fs_now < fs_asked + fs_Life
      BY <1>5, <3>3, <3>4
    <3> QED BY <1>1, <3>1, <3>2, <3>5
  <2>3. GivenInv' /\ Feishu!GivenTokensAreLive'
    <3>1. \A d \in Feishu!Callers :
            fs_got'[d] = fs_got[d] \/ (fs_got'[d].token = fs_token' /\ fs_got'[d].at = fs_now)
      BY <2>1 DEF Feishu!TypeOK
    <3>2. Len(fs_issued) \in Nat
      BY DEF Feishu!TypeOK
    <3> QED BY <1>2, <2>2, <3>1, <3>2 DEF Tokens, GivenInv, Feishu!GivenTokensAreLive
  <2>4. Feishu!TokenInv'
    BY <1>2, <1>3, <2>2 DEF Feishu!TokenInv
  <2>5. /\ Len(fs_fetches') = Len(fs_fetches) + 1 /\ fs_fetches' # <<>>
        /\ fs_fetches'[Len(fs_fetches')] = [at |-> fs_asked, exp |-> fs_exp']
        /\ \A i \in 1..Len(fs_fetches) : fs_fetches'[i] = fs_fetches[i]
    <3>1. \A S : \A s \in Seq(S) : \A v :
            /\ Len(Append(s, v)) = Len(s) + 1 /\ Append(s, v) # <<>> /\ Append(s, v)[Len(s) + 1] = v
            /\ \A i \in 1..Len(s) : Append(s, v)[i] = s[i]
      OBVIOUS
    <3>2. fs_fetches \in Seq([at : Nat, exp : Nat])
      BY DEF Feishu!TypeOK
    <3>3. fs_fetches' = Append(fs_fetches, [at |-> fs_asked, exp |-> fs_exp'])
      BY <1>5
    <3> QED BY <3>1, <3>2, <3>3
  <2>6. FetchInv'
    BY <1>2, <2>2, <2>5 DEF FetchInv, Feishu!TypeOK
  <2>7. ASSUME NEW i \in 2..Len(fs_fetches') PROVE fs_fetches'[i - 1].exp <= fs_fetches'[i].at
    <3>1. CASE i \in 2..Len(fs_fetches)
      <4>1. i - 1 \in 1..Len(fs_fetches) /\ i \in 1..Len(fs_fetches)
        BY <3>1 DEF Feishu!TypeOK
      <4> QED
        BY <3>1, <4>1, <2>5 DEF Tokens, Feishu!OneFetchPerLife
    <3>2. CASE i = Len(fs_fetches')
      <4>1. Len(fs_fetches) \in 1..Len(fs_fetches) /\ i - 1 = Len(fs_fetches)
        BY <2>5, <2>7, <3>2 DEF Feishu!TypeOK
      <4>2. fs_fetches'[i - 1] = fs_fetches[Len(fs_fetches)]
        BY <4>1, <2>5
      <4>3. fs_token # 0 /\ fs_fetches[Len(fs_fetches)].exp = fs_exp
        BY <4>1 DEF Tokens, FetchInv, Feishu!TypeOK
      <4> QED
        BY <1>1, <2>5, <3>2, <4>2, <4>3
    <3>3. Len(fs_fetches) \in Nat /\ Len(fs_fetches') = Len(fs_fetches) + 1
      BY <2>5 DEF Feishu!TypeOK
    <3>4. i \in 2..Len(fs_fetches) \/ i = Len(fs_fetches')
      BY <2>7, <3>3
    <3> QED
      BY <3>1, <3>2, <3>4
  <2>8. Feishu!OneFetchPerLife'
    BY <2>7 DEF Feishu!OneFetchPerLife
  <2> QED
    BY <2>3, <2>4, <2>6, <2>8 DEF Tokens
<1> QED
  BY <1>4, <1>5 DEF Feishu!Answer

\* Every step keeps the tokens good.
LEMMA TokensStep ==
  ASSUME Feishu!FeishuAssumption, Feishu!TypeOK, Tokens, [Feishu!Next]_(Feishu!vars)
  PROVE  Tokens'
<1> USE DEF Feishu!TypeOK, Feishu!cacheVars
<1>1. ASSUME NEW h \in fs_Hooks, Feishu!HookBegins(h) PROVE Tokens'
  BY <1>1, TokensUntouched DEF Feishu!HookBegins, tokenVars, Feishu!Callers
<1>2. ASSUME NEW h \in fs_Hooks, Feishu!HookPublishes(h) PROVE Tokens'
  BY <1>2, TokensUntouched DEF Feishu!HookPublishes, tokenVars, Feishu!Callers
<1>3. ASSUME NEW s \in fs_Sends, Feishu!SendBegins(s) PROVE Tokens'
  BY <1>3, TokensUntouched DEF Feishu!SendBegins, tokenVars, Feishu!Callers
<1>4. ASSUME NEW s \in fs_Sends, Feishu!SendEnds(s) PROVE Tokens'
  BY <1>4, TokensUntouched DEF Feishu!SendEnds, tokenVars, Feishu!Callers
<1>5. ASSUME NEW c \in Feishu!Callers, Feishu!Peek(c) PROVE Tokens'
  <2>1. CASE Feishu!Cached
    BY <1>5, <2>1, CachedTokenIsGood DEF Feishu!Peek
  <2>2. CASE ~Feishu!Cached
    BY <1>5, <2>2, TokensUntouched DEF Feishu!Peek, tokenVars
  <2> QED
    BY <2>1, <2>2
<1>6. ASSUME NEW c \in Feishu!Callers, Feishu!Ask(c) PROVE Tokens'
  BY <1>6, AskKeepsTokens
<1>7. ASSUME NEW c \in Feishu!Callers, Feishu!Answer(c) PROVE Tokens'
  BY <1>7, AnswerKeepsTokens
<1>8. ASSUME NEW c \in Feishu!Callers, Feishu!CtxEnds(c) PROVE Tokens'
  BY <1>8, TokensUntouched DEF Feishu!CtxEnds, tokenVars
<1>9. CASE Feishu!Tick
  BY <1>9 DEF Feishu!Tick, Tokens, Feishu!TokenInv, Feishu!GivenTokensAreLive, Feishu!OneFetchPerLife,
     FetchInv, GivenInv, Feishu!FeishuAssumption
<1>10. CASE UNCHANGED Feishu!vars
  BY <1>10, TokensUntouched DEF Feishu!vars, tokenVars
<1> QED
  BY <1>1, <1>2, <1>3, <1>4, <1>5, <1>6, <1>7, <1>8, <1>9, <1>10 DEF Feishu!Next

\* What Return writes has its type.
LEMMA ReturnKeepsType ==
  ASSUME Feishu!TypeOK, NEW c \in Feishu!Callers, NEW t \in Nat, Feishu!Return(c, t)
  PROVE  /\ fs_pc' \in [Feishu!Callers -> {"idle", "token", "lock", "fetch", "have", "publish", "done"}]
         /\ fs_got' \in [Feishu!Callers -> [token : Nat, at : Nat]]
  BY DEF Feishu!TypeOK, Feishu!Return

\* The type is kept.
LEMMA FeishuTypeStep ==
  ASSUME Feishu!FeishuAssumption, Feishu!TypeOK, Tokens, [Feishu!Next]_(Feishu!vars)
  PROVE  Feishu!TypeOK'
<1> USE DEF Feishu!TypeOK, Feishu!cacheVars, Feishu!Callers
<1>1. ASSUME NEW h \in fs_Hooks, Feishu!HookBegins(h) PROVE Feishu!TypeOK'
  BY <1>1 DEF Feishu!HookBegins
<1>2. ASSUME NEW h \in fs_Hooks, Feishu!HookPublishes(h) PROVE Feishu!TypeOK'
  BY <1>2 DEF Feishu!HookPublishes
<1>3. ASSUME NEW s \in fs_Sends, Feishu!SendBegins(s) \/ Feishu!SendEnds(s) PROVE Feishu!TypeOK'
  BY <1>3 DEF Feishu!SendBegins, Feishu!SendEnds
<1>4. ASSUME NEW c \in Feishu!Callers, Feishu!Peek(c) PROVE Feishu!TypeOK'
  <2>1. CASE Feishu!Cached
    <3>1. Feishu!Return(c, fs_token)
          /\ UNCHANGED <<fs_now, fs_mu, Feishu!cacheVars, fs_kind, fs_gone, fs_published>>
      BY <1>4, <2>1 DEF Feishu!Peek
    <3>2. /\ fs_pc' \in [Feishu!Callers -> {"idle", "token", "lock", "fetch", "have", "publish", "done"}]
          /\ fs_got' \in [Feishu!Callers -> [token : Nat, at : Nat]]
      <4>1. fs_token \in Nat
        OBVIOUS
      <4> QED BY <3>1, <4>1, ReturnKeepsType
    <3> QED BY <3>1, <3>2
  <2>2. CASE ~Feishu!Cached
    BY <1>4, <2>2 DEF Feishu!Peek
  <2> QED
    BY <2>1, <2>2
<1>5. ASSUME NEW c \in Feishu!Callers, Feishu!Ask(c) PROVE Feishu!TypeOK'
  <2>1. CASE Feishu!Cached
    <3>1. fs_token \in Nat /\ Feishu!Return(c, fs_token)
      BY <1>5, <2>1 DEF Feishu!Ask
    <3>2. UNCHANGED <<fs_now, fs_token, fs_exp, fs_late, fs_fetches, fs_kind, fs_gone, fs_published, fs_mu,
                      fs_asked, fs_issued>>
      BY <1>5, <2>1 DEF Feishu!Ask
    <3> QED
      BY <3>1, <3>2, ReturnKeepsType
  <2>2. CASE ~Feishu!Cached
    <3>1. /\ fs_mu' = c /\ fs_pc' = [fs_pc EXCEPT ![c] = "fetch"] /\ fs_asked' = fs_now
             /\ fs_issued' = Append(fs_issued, fs_now)
          /\ UNCHANGED <<fs_now, fs_token, fs_exp, fs_late, fs_fetches, fs_kind, fs_gone, fs_got,
                         fs_published>>
      BY <1>5, <2>2 DEF Feishu!Ask
    <3>2. fs_issued' \in Seq(Nat) /\ Len(fs_issued') = Len(fs_issued) + 1
      BY <3>1
    <3>3. fs_token' \in 0..Len(fs_issued')
      BY <3>1, <3>2
    <3> QED
      BY <3>1, <3>2, <3>3
  <2> QED
    BY <2>1, <2>2
<1>6. ASSUME NEW c \in Feishu!Callers, Feishu!Answer(c) PROVE Feishu!TypeOK'
  <2>1. fs_issued # <<>> /\ fs_mu' = Feishu!Nobody
        /\ UNCHANGED <<fs_now, fs_issued, fs_asked, fs_kind, fs_gone, fs_published>>
    BY <1>6 DEF Feishu!Answer, Tokens, Feishu!TokenInv, Feishu!Nobody, Feishu!FeishuAssumption
  <2>2. fs_Life - fs_Margin \in Nat
    BY DEF Feishu!FeishuAssumption
  <2>3. CASE Feishu!Return(c, 0) /\ UNCHANGED <<fs_token, fs_exp, fs_late, fs_fetches>>
    BY <2>1, <2>3, ReturnKeepsType
  <2>4. CASE /\ fs_token' = Len(fs_issued) /\ fs_exp' = fs_now + (fs_Life - fs_Margin)
             /\ fs_fetches' = Append(fs_fetches, [at |-> fs_asked, exp |-> fs_exp'])
             /\ fs_late' = IF fs_now < fs_asked + fs_Margin THEN fs_late ELSE fs_late \cup {fs_token'}
             /\ Feishu!Return(c, fs_token')
    <3>1. fs_token' \in 0..Len(fs_issued) /\ fs_exp' \in Nat /\ fs_late' \subseteq Nat
      <4>1. fs_token' \in 0..Len(fs_issued) /\ fs_exp' \in Nat
        BY <2>2, <2>4
      <4>2. fs_token' \in Nat
        BY <4>1
      <4> QED BY <2>4, <4>1, <4>2
    <3>2. fs_fetches' \in Seq([at : Nat, exp : Nat])
      BY <2>4, <3>1
    <3> QED
      <4>1. fs_token' \in Nat /\ Feishu!Return(c, fs_token')
        BY <2>4, <3>1
      <4>2. /\ fs_pc' \in [Feishu!Callers -> {"idle", "token", "lock", "fetch", "have", "publish", "done"}]
            /\ fs_got' \in [Feishu!Callers -> [token : Nat, at : Nat]]
        BY <4>1, ReturnKeepsType
      <4> QED
        BY <2>1, <3>1, <3>2, <4>2
  <2> QED
    BY <1>6, <2>3, <2>4 DEF Feishu!Answer
<1>7. ASSUME NEW c \in Feishu!Callers, Feishu!CtxEnds(c) PROVE Feishu!TypeOK'
  BY <1>7 DEF Feishu!CtxEnds
<1>8. CASE Feishu!Tick
  BY <1>8 DEF Feishu!Tick
<1>9. CASE UNCHANGED Feishu!vars
  BY <1>9 DEF Feishu!vars
<1> QED
  BY <1>1, <1>2, <1>3, <1>4, <1>5, <1>6, <1>7, <1>8, <1>9 DEF Feishu!Next

\* handleWebhook: every way out of a handler publishes, unless its request has gone.
LEMMA NothingDroppedStep ==
  ASSUME Feishu!FeishuAssumption, Feishu!TypeOK, Feishu!NothingIsDropped, [Feishu!Next]_(Feishu!vars)
  PROVE  Feishu!NothingIsDropped'
<1> USE DEF Feishu!TypeOK, Feishu!NothingIsDropped, Feishu!Callers
<1>1. ASSUME NEW h \in fs_Hooks, Feishu!HookBegins(h) PROVE Feishu!NothingIsDropped'
  BY <1>1 DEF Feishu!HookBegins, Feishu!Kinds
<1>2. ASSUME NEW h \in fs_Hooks, Feishu!HookPublishes(h) PROVE Feishu!NothingIsDropped'
  BY <1>2 DEF Feishu!HookPublishes
<1>3. ASSUME NEW s \in fs_Sends, Feishu!SendBegins(s) \/ Feishu!SendEnds(s) PROVE Feishu!NothingIsDropped'
  BY <1>3 DEF Feishu!SendBegins, Feishu!SendEnds, Feishu!FeishuAssumption
<1>4. ASSUME NEW c \in Feishu!Callers, Feishu!Peek(c) \/ Feishu!Ask(c) \/ Feishu!Answer(c)
      PROVE  Feishu!NothingIsDropped'
  BY <1>4 DEF Feishu!Peek, Feishu!Ask, Feishu!Answer, Feishu!Return
<1>5. ASSUME NEW c \in Feishu!Callers, Feishu!CtxEnds(c) PROVE Feishu!NothingIsDropped'
  BY <1>5 DEF Feishu!CtxEnds
<1>6. CASE Feishu!Tick
  BY <1>6 DEF Feishu!Tick
<1>7. CASE UNCHANGED Feishu!vars
  BY <1>7 DEF Feishu!vars
<1> QED
  BY <1>1, <1>2, <1>3, <1>4, <1>5, <1>6, <1>7 DEF Feishu!Next

\* Nothing is cached, asked for or given at the start.
LEMMA FeishuInit == ASSUME Feishu!FeishuAssumption PROVE Feishu!Init => FeishuInv
  BY DEF Feishu!Init, FeishuInv, Feishu!FeishuTokensAreGood, Feishu!TypeOK, Feishu!TokenInv,
     Feishu!GivenTokensAreLive, Feishu!OneFetchPerLife,
         Feishu!NothingIsDropped, FetchInv, GivenInv, Feishu!FeishuAssumption, Feishu!Callers, Feishu!Nobody,
         Feishu!NoToken, Feishu!Kinds

\* GetTenantAccessToken and handleWebhook, for any number of callers: nobody is given a token that the
\* platform no longer takes, a good one is never fetched anew, and no message is lost with its image.
THEOREM TokensAreGood == ASSUME Feishu!FeishuAssumption PROVE Feishu!Spec => []Feishu!FeishuTokensAreGood
<1>1. Feishu!Init => FeishuInv
  BY FeishuInit
<1>2. FeishuInv /\ [Feishu!Next]_(Feishu!vars) => FeishuInv'
  BY FeishuTypeStep, TokensStep, NothingDroppedStep DEF FeishuInv, Feishu!FeishuTokensAreGood, Tokens
<1>3. FeishuInv => Feishu!FeishuTokensAreGood
  BY DEF FeishuInv
<1> QED
  BY <1>1, <1>2, <1>3, PTL DEF Feishu!Spec

-----------------------------------------------------------------------------
Rising(s) == \A a, b \in DOMAIN s : a < b => s[a] < s[b]
Publication == [of : Seq(Nat), by : Telegram!Objects]

\* An object has the updates of its queue q, its album a and its flushes f in hand ...
Hands(q, a, f) == Telegram!Range(q) \cup Telegram!Range(a) \cup UNION {Telegram!Range(x) : x \in Telegram!Range(f)}

\* ... each once, in the order in which they came.
InHand(q, a, f) ==
  /\ q \in Seq(Nat) /\ a \in Seq(Nat) /\ f \in Seq(Seq(Nat))
  /\ Rising(q) /\ Rising(a) /\ \A i \in DOMAIN f : Rising(f[i])
  /\ \A x \in Telegram!Range(a), y \in Telegram!Range(q) : x < y
  /\ \A i \in DOMAIN f : Telegram!Range(f[i]) \cap (Telegram!Range(a) \cup Telegram!Range(q)) = {}
  /\ \A i, j \in DOMAIN f : i # j => Telegram!Range(f[i]) \cap Telegram!Range(f[j]) = {}

\* What an object has in hand or has published it has fetched, and not both.
ObjectInv(o) ==
  /\ InHand(tg_queue[o], tg_album[o], tg_flushing[o])
  /\ Telegram!Held(o) \cap Telegram!PublishedBy(o) = {}
     /\ Telegram!Held(o) \cup Telegram!PublishedBy(o) \subseteq 1..tg_offset[o]
  /\ o \notin tg_cancelled
     => (tg_since[o] + 1)..tg_offset[o] \subseteq Telegram!Held(o) \cup tg_answered \cup Telegram!PublishedBy(o)
  /\ o > tg_live => tg_offset[o] = 0 /\ ~tg_polls[o]

\* The messages on the bus.
TelegramPublishedInv ==
  /\ tg_published \in Seq(Publication)
  /\ \A i, j \in DOMAIN tg_published :
       i # j /\ tg_published[i].by = tg_published[j].by
       => Telegram!Range(tg_published[i].of) \cap Telegram!Range(tg_published[j].of) = {}
  /\ \A i \in DOMAIN tg_published : Rising(tg_published[i].of)

\* The Bot API and the objects.
PollsInv ==
  /\ tg_log \in Seq(Telegram!Kinds) /\ tg_confirmed \in 0..Len(tg_log) /\ tg_live \in 0..tg_MaxObjects
  /\ tg_cancelled \subseteq Telegram!Objects /\ tg_polls \in [Telegram!Objects -> BOOLEAN]
     /\ tg_commands \in [Telegram!Objects -> BOOLEAN]
  /\ tg_offset \in [Telegram!Objects -> 0..Len(tg_log)] /\ tg_since \in [Telegram!Objects -> Nat]
     /\ tg_answered \subseteq 1..Len(tg_log)
  /\ DOMAIN tg_queue = Telegram!Objects /\ DOMAIN tg_album = Telegram!Objects
     /\ DOMAIN tg_flushing = Telegram!Objects

\* The inductive invariant.
TelegramInv == PollsInv /\ TelegramPublishedInv /\ \A o \in Telegram!Objects : ObjectInv(o)

-----------------------------------------------------------------------------
(* Sequences *)

LEMMA SeqIs ==
  ASSUME NEW S, NEW s \in Seq(S)
  PROVE  Len(s) \in Nat /\ DOMAIN s = 1..Len(s) /\ \A i \in DOMAIN s : s[i] \in S
  OBVIOUS

LEMMA HeadAndTail ==
  ASSUME NEW S, NEW s \in Seq(S), s # <<>>
  PROVE  /\ Tail(s) \in Seq(S) /\ Head(s) = s[1] /\ 1 \in DOMAIN s
         /\ DOMAIN Tail(s) = 1..(Len(s) - 1) /\ \A i \in DOMAIN Tail(s) : Tail(s)[i] = s[i + 1]
            /\ i + 1 \in DOMAIN s
         /\ Telegram!Range(s) = {Head(s)} \cup Telegram!Range(Tail(s))
<1>1. /\ Tail(s) \in Seq(S) /\ Head(s) = s[1] /\ 1 \in DOMAIN s
      /\ DOMAIN Tail(s) = 1..(Len(s) - 1) /\ \A i \in DOMAIN Tail(s) : Tail(s)[i] = s[i + 1]
         /\ i + 1 \in DOMAIN s
  OBVIOUS
<1>2. \A i \in DOMAIN s : i = 1 \/ (i - 1 \in DOMAIN Tail(s) /\ s[i] = Tail(s)[i - 1])
  BY <1>1, SeqIs
<1>3. \A x \in Telegram!Range(s) : x \in {Head(s)} \cup Telegram!Range(Tail(s))
  <2> SUFFICES ASSUME NEW i \in DOMAIN s PROVE s[i] \in {Head(s)} \cup Telegram!Range(Tail(s))
    BY DEF Telegram!Range
  <2>1. CASE i = 1
    BY <1>1, <2>1
  <2>2. CASE i # 1
    BY <1>2, <2>2 DEF Telegram!Range
  <2> QED BY <2>1, <2>2
<1>4. Head(s) \in Telegram!Range(s) /\ Telegram!Range(Tail(s)) \subseteq Telegram!Range(s)
  BY <1>1 DEF Telegram!Range
<1> QED BY <1>1, <1>3, <1>4

LEMMA AtTheEnd ==
  ASSUME NEW S, NEW s \in Seq(S), NEW e \in S
  PROVE  /\ Append(s, e) \in Seq(S) /\ DOMAIN Append(s, e) = DOMAIN s \cup {Len(s) + 1}
         /\ Len(s) + 1 \notin DOMAIN s /\ \A i \in DOMAIN s : Append(s, e)[i] = s[i] /\ i < Len(s) + 1
         /\ Append(s, e)[Len(s) + 1] = e
         /\ Telegram!Range(Append(s, e)) = Telegram!Range(s) \cup {e}
<1>1. /\ Append(s, e) \in Seq(S) /\ DOMAIN Append(s, e) = DOMAIN s \cup {Len(s) + 1}
      /\ Len(s) + 1 \notin DOMAIN s /\ \A i \in DOMAIN s : Append(s, e)[i] = s[i] /\ i < Len(s) + 1
      /\ Append(s, e)[Len(s) + 1] = e
  OBVIOUS
<1> QED BY <1>1 DEF Telegram!Range

LEMMA RisingAppend ==
  ASSUME NEW s \in Seq(Nat), NEW e \in Nat, Rising(s), \A x \in Telegram!Range(s) : x < e
  PROVE  Rising(Append(s, e))
<1>1. \A i \in DOMAIN s : s[i] < e /\ i \in Nat
  BY SeqIs DEF Telegram!Range
<1> QED BY <1>1, AtTheEnd, SeqIs DEF Rising

\* What one answer of the Bot API adds to the queue.
Extended(s, n, k) == s \o [i \in 1..(k - n) |-> n + i]
LEMMA Longer ==
  ASSUME NEW s \in Seq(Nat), NEW n \in Nat, NEW k \in Nat, n <= k, Rising(s),
         Telegram!Range(s) \subseteq 1..n,
         NEW t, t = Extended(s, n, k)
  PROVE  t \in Seq(Nat) /\ Rising(t) /\ Telegram!Range(t) = Telegram!Range(s) \cup (n + 1)..k
<1>1. /\ t \in Seq(Nat) /\ DOMAIN t = 1..(Len(s) + (k - n)) /\ Len(s) \in Nat /\ DOMAIN s = 1..Len(s)
      /\ \A i \in DOMAIN s : i \in DOMAIN t /\ t[i] = s[i]
      /\ \A i \in DOMAIN t : i \notin DOMAIN s => i - Len(s) \in 1..(k - n) /\ t[i] = n + (i - Len(s))
  BY DEF Extended
<1>2. \A i \in DOMAIN s : s[i] \in 1..n
  BY DEF Telegram!Range
<1>3. Rising(t)
  <2> SUFFICES ASSUME NEW a \in DOMAIN t, NEW b \in DOMAIN t, a < b PROVE t[a] < t[b]
    BY DEF Rising
  <2>1. CASE a \in DOMAIN s /\ b \in DOMAIN s
    BY <1>1, <2>1 DEF Rising
  <2>2. CASE a \in DOMAIN s /\ b \notin DOMAIN s
    BY <1>1, <1>2, <2>2
  <2>3. CASE a \notin DOMAIN s /\ b \notin DOMAIN s
    BY <1>1, <2>3
  <2>4. ~(a \notin DOMAIN s /\ b \in DOMAIN s)
    BY <1>1
  <2> QED BY <2>1, <2>2, <2>3, <2>4
<1>4. \A x \in (n + 1)..k : x \in Telegram!Range(t)
  <2> SUFFICES ASSUME NEW x \in (n + 1)..k PROVE x \in Telegram!Range(t)
    OBVIOUS
  <2> DEFINE at == Len(s) + (x - n)
  <2>1. at \in 1..(Len(s) + (k - n)) /\ at \notin 1..Len(s) /\ n + (at - Len(s)) = x
    BY <1>1
  <2> HIDE DEF at
  <2>2. at \in DOMAIN t /\ t[at] = x
    BY <1>1, <2>1
  <2> QED BY <2>2 DEF Telegram!Range
<1>5. \A x \in Telegram!Range(t) : x \in Telegram!Range(s) \/ x \in (n + 1)..k
  <2> SUFFICES ASSUME NEW i \in DOMAIN t PROVE t[i] \in Telegram!Range(s) \/ t[i] \in (n + 1)..k
    BY DEF Telegram!Range
  <2>1. CASE i \in DOMAIN s
    BY <1>1, <2>1 DEF Telegram!Range
  <2>2. CASE i \notin DOMAIN s
    BY <1>1, <2>2
  <2> QED BY <2>1, <2>2
<1>6. Telegram!Range(s) \subseteq Telegram!Range(t)
  BY <1>1 DEF Telegram!Range
<1> QED BY <1>1, <1>3, <1>4, <1>5, <1>6

LEMMA Joined ==
  ASSUME NEW S, NEW s \in Seq(S), NEW u \in Seq(S)
  PROVE  /\ s \o u \in Seq(S) /\ Len(s \o u) = Len(s) + Len(u) /\ DOMAIN (s \o u) = 1..(Len(s) + Len(u))
         /\ \A i \in 1..(Len(s) + Len(u)) : (s \o u)[i] = IF i <= Len(s) THEN s[i] ELSE u[i - Len(s)]
  OBVIOUS

LEMMA Without ==
  ASSUME NEW S, NEW s \in Seq(S), NEW i \in DOMAIN s, NEW t, t = Telegram!RemoveAt(s, i)
  PROVE  /\ t \in Seq(S)
         /\ \A j \in DOMAIN t : LET k == IF j < i THEN j ELSE j + 1 IN k \in DOMAIN s /\ k # i /\ t[j] = s[k]
         /\ \A k \in DOMAIN s : k # i => LET j == IF k < i THEN k ELSE k - 1 IN j \in DOMAIN t /\ t[j] = s[k]
<1>1. Len(s) \in Nat /\ DOMAIN s = 1..Len(s) /\ i \in 1..Len(s)
  BY SeqIs
<1> DEFINE b == SubSeq(s, 1, i - 1)
           e == SubSeq(s, i + 1, Len(s))
<1>2. b \in Seq(S) /\ Len(b) = i - 1 /\ \A j \in 1..(i - 1) : b[j] = s[j]
  BY <1>1
<1>3. e \in Seq(S) /\ Len(e) = Len(s) - i /\ \A j \in 1..(Len(s) - i) : e[j] = s[i + j]
  BY <1>1
<1>4. t = b \o e
  BY DEF Telegram!RemoveAt
<1> HIDE DEF b, e
<1>5. /\ t \in Seq(S) /\ DOMAIN t = 1..(Len(b) + Len(e))
      /\ \A j \in 1..(Len(b) + Len(e)) : t[j] = IF j <= Len(b) THEN b[j] ELSE e[j - Len(b)]
  BY <1>2, <1>3, <1>4, Joined
<1>6. Len(b) + Len(e) = Len(s) - 1
  BY <1>1, <1>2, <1>3
<1>7. \A j \in 1..(Len(s) - 1) : t[j] = IF j < i THEN s[j] ELSE s[j + 1]
  <2> SUFFICES ASSUME NEW j \in 1..(Len(s) - 1) PROVE t[j] = IF j < i THEN s[j] ELSE s[j + 1]
    OBVIOUS
  <2>1. CASE j < i
    <3>1. j \in 1..(i - 1) /\ j <= Len(b)
      BY <1>1, <1>2, <2>1
    <3> QED BY <1>2, <1>5, <1>6, <2>1, <3>1
  <2>2. CASE ~(j < i)
    <3>1. j - Len(b) \in 1..(Len(s) - i) /\ ~(j <= Len(b)) /\ i + (j - Len(b)) = j + 1
      BY <1>1, <1>2, <2>2
    <3>2. e[j - Len(b)] = s[i + (j - Len(b))]
      BY <1>3, <3>1
    <3> QED BY <1>5, <1>6, <2>2, <3>1, <3>2
  <2> QED BY <2>1, <2>2
<1>8. DOMAIN t = 1..(Len(s) - 1)
  BY <1>5, <1>6
<1>9. \A j \in DOMAIN t : LET k == IF j < i THEN j ELSE j + 1 IN k \in DOMAIN s /\ k # i /\ t[j] = s[k]
  BY <1>1, <1>7, <1>8
<1>10. ASSUME NEW k \in DOMAIN s, k # i
       PROVE  LET j == IF k < i THEN k ELSE k - 1 IN j \in DOMAIN t /\ t[j] = s[k]
  <2>1. CASE k < i
    BY <1>1, <1>7, <1>8, <2>1
  <2>2. CASE ~(k < i)
    <3>1. k - 1 \in DOMAIN t /\ ~(k - 1 < i) /\ k - 1 + 1 = k
      BY <1>1, <1>8, <1>10, <2>2
    <3> QED BY <1>7, <1>8, <2>2, <3>1
  <2> QED BY <2>1, <2>2
<1> QED BY <1>5, <1>9, <1>10

-----------------------------------------------------------------------------
(* What an object has in hand *)

LEMMA HandsFetch ==
  ASSUME NEW q, NEW a, NEW f, InHand(q, a, f)
  PROVE  \A N, r : /\ r \in Seq(Nat) /\ Rising(r) /\ Telegram!Range(r) = Telegram!Range(q) \cup N
                   /\ \A x \in Hands(q, a, f), y \in N : x < y /\ x # y
                   => InHand(r, a, f) /\ Hands(r, a, f) = Hands(q, a, f) \cup N
<1> SUFFICES ASSUME NEW N, NEW r \in Seq(Nat), Rising(r), Telegram!Range(r) = Telegram!Range(q) \cup N,
                    \A x \in Hands(q, a, f), y \in N : x < y /\ x # y
             PROVE  InHand(r, a, f) /\ Hands(r, a, f) = Hands(q, a, f) \cup N
  OBVIOUS
<1>1. Telegram!Range(a) \subseteq Hands(q, a, f)
      /\ \A i \in DOMAIN f : Telegram!Range(f[i]) \subseteq Hands(q, a, f)
  BY DEF Hands, Telegram!Range
<1>2. Hands(r, a, f) = Hands(q, a, f) \cup N
  BY DEF Hands
<1>3. \A x \in Telegram!Range(a), y \in Telegram!Range(r) : x < y
  BY <1>1 DEF InHand
<1>4. \A i \in DOMAIN f : Telegram!Range(f[i]) \cap (Telegram!Range(a) \cup Telegram!Range(r)) = {}
  BY <1>1 DEF InHand
<1> QED BY <1>2, <1>3, <1>4 DEF InHand

LEMMA HandsNext ==
  ASSUME NEW q, NEW a, NEW f, InHand(q, a, f), q # <<>>
  PROVE  /\ InHand(Tail(q), a, f) /\ Head(q) \in Nat
         /\ Hands(q, a, f) = {Head(q)} \cup Hands(Tail(q), a, f) /\ Head(q) \notin Hands(Tail(q), a, f)
<1>1. q \in Seq(Nat)
  BY DEF InHand
<1>2. /\ Tail(q) \in Seq(Nat) /\ Head(q) = q[1] /\ 1 \in DOMAIN q /\ DOMAIN q = 1..Len(q) /\ Len(q) \in Nat
      /\ DOMAIN Tail(q) = 1..(Len(q) - 1) /\ \A i \in DOMAIN Tail(q) : Tail(q)[i] = q[i + 1]
         /\ i + 1 \in DOMAIN q
      /\ Telegram!Range(q) = {Head(q)} \cup Telegram!Range(Tail(q)) /\ \A i \in DOMAIN q : q[i] \in Nat
  <2>1. DOMAIN q = 1..Len(q) /\ Len(q) \in Nat /\ \A i \in DOMAIN q : q[i] \in Nat
    BY <1>1, SeqIs
  <2> QED BY <1>1, <2>1, HeadAndTail
<1>3. Rising(Tail(q)) /\ \A i \in DOMAIN Tail(q) : Head(q) < Tail(q)[i]
  <2>1. \A i, k \in DOMAIN q : i < k => q[i] < q[k]
    BY DEF InHand, Rising
  <2>2. \A i, k \in DOMAIN Tail(q) : i < k => i + 1 < k + 1 /\ 1 < i + 1
    BY <1>2
  <2>3. \A i \in DOMAIN Tail(q) : 1 < i + 1
    BY <1>2
  <2> QED BY <1>2, <2>1, <2>2, <2>3 DEF Rising
<1>4. Head(q) \notin Telegram!Range(Tail(q))
  <2>1. \A i \in DOMAIN Tail(q) : Head(q) # Tail(q)[i]
    BY <1>2, <1>3
  <2> QED BY <2>1 DEF Telegram!Range
<1>5. Head(q) \notin Telegram!Range(a) /\ Head(q) \in Telegram!Range(q)
  <2>1. Head(q) \in Telegram!Range(q) /\ Head(q) \in Nat
    BY <1>2 DEF Telegram!Range
  <2>2. Head(q) \in Telegram!Range(a) => Head(q) < Head(q)
    BY <2>1 DEF InHand
  <2> QED BY <2>1, <2>2
<1>6. \A i \in DOMAIN f : Head(q) \notin Telegram!Range(f[i])
  BY <1>5 DEF InHand
<1>7. Hands(q, a, f) = {Head(q)} \cup Hands(Tail(q), a, f)
  BY <1>2 DEF Hands
<1>8. Head(q) \notin Hands(Tail(q), a, f)
  BY <1>4, <1>5, <1>6 DEF Hands, Telegram!Range
<1> QED BY <1>2, <1>3, <1>7, <1>8 DEF InHand

LEMMA HandsBuffer ==
  ASSUME NEW q, NEW a, NEW f, InHand(q, a, f), q # <<>>
  PROVE  /\ InHand(Tail(q), Append(a, Head(q)), f)
         /\ Hands(Tail(q), Append(a, Head(q)), f) = Hands(q, a, f)
<1>1. q \in Seq(Nat) /\ a \in Seq(Nat) /\ f \in Seq(Seq(Nat))
  BY DEF InHand
<1>2. /\ Tail(q) \in Seq(Nat) /\ Head(q) = q[1] /\ 1 \in DOMAIN q /\ DOMAIN q = 1..Len(q) /\ Len(q) \in Nat
      /\ DOMAIN Tail(q) = 1..(Len(q) - 1) /\ \A i \in DOMAIN Tail(q) : Tail(q)[i] = q[i + 1]
         /\ i + 1 \in DOMAIN q
      /\ Telegram!Range(q) = {Head(q)} \cup Telegram!Range(Tail(q)) /\ \A i \in DOMAIN q : q[i] \in Nat
  <2>1. DOMAIN q = 1..Len(q) /\ Len(q) \in Nat /\ \A i \in DOMAIN q : q[i] \in Nat
    BY <1>1, SeqIs
  <2> QED BY <1>1, <2>1, HeadAndTail
<1>3. Head(q) \in Nat /\ InHand(Tail(q), a, f)
  BY HandsNext
<1>4. \A i \in DOMAIN Tail(q) : Head(q) < Tail(q)[i]
  <2>1. \A i, k \in DOMAIN q : i < k => q[i] < q[k]
    BY DEF InHand, Rising
  <2>2. \A i \in DOMAIN Tail(q) : 1 < i + 1
    BY <1>2
  <2> QED BY <1>2, <2>1, <2>2
<1>5. \A y \in Telegram!Range(Tail(q)) : Head(q) < y
  BY <1>4 DEF Telegram!Range
<1>6. \A x \in Telegram!Range(a) : x < Head(q)
  BY <1>2 DEF InHand
<1>7. Append(a, Head(q)) \in Seq(Nat) /\ Telegram!Range(Append(a, Head(q))) = Telegram!Range(a) \cup {Head(q)}
  BY <1>1, <1>3, AtTheEnd
<1>8. Rising(Append(a, Head(q)))
  BY <1>1, <1>3, <1>6, RisingAppend DEF InHand
<1>9. \A x \in Telegram!Range(Append(a, Head(q))), y \in Telegram!Range(Tail(q)) : x < y
  BY <1>3, <1>5, <1>7 DEF InHand
<1>10. \A i \in DOMAIN f : Telegram!Range(f[i]) \cap (Telegram!Range(Append(a, Head(q))) \cup Telegram!Range(Tail(q))) = {}
  BY <1>2, <1>7 DEF InHand
<1>11. Hands(Tail(q), Append(a, Head(q)), f) = Hands(q, a, f)
  BY <1>2, <1>7 DEF Hands
<1> QED BY <1>3, <1>7, <1>8, <1>9, <1>10, <1>11 DEF InHand

LEMMA HandsFlush ==
  ASSUME NEW q, NEW a, NEW f, InHand(q, a, f)
  PROVE  InHand(q, <<>>, Append(f, a)) /\ Hands(q, <<>>, Append(f, a)) = Hands(q, a, f)
<1> DEFINE g == Append(f, a)
<1>1. q \in Seq(Nat) /\ a \in Seq(Nat) /\ f \in Seq(Seq(Nat)) /\ Rising(a) /\ Rising(q)
  BY DEF InHand
<1>2. /\ g \in Seq(Seq(Nat)) /\ DOMAIN g = DOMAIN f \cup {Len(f) + 1} /\ Len(f) + 1 \notin DOMAIN f
      /\ \A i \in DOMAIN f : g[i] = f[i]
      /\ g[Len(f) + 1] = a /\ Telegram!Range(g) = Telegram!Range(f) \cup {a}
  BY <1>1, AtTheEnd
<1>3. Telegram!Range(<<>>) = {} /\ <<>> \in Seq(Nat) /\ Rising(<<>>)
  BY DEF Telegram!Range, Rising
<1>4. Telegram!Range(a) \cap Telegram!Range(q) = {}
  <2> SUFFICES ASSUME NEW x \in Telegram!Range(a), x \in Telegram!Range(q) PROVE FALSE
    OBVIOUS
  <2>1. x < x /\ x \in Nat
    BY <1>1, SeqIs DEF InHand, Telegram!Range
  <2> QED BY <2>1
<1> HIDE DEF g
<1>5. \A i \in DOMAIN g : Rising(g[i])
  BY <1>1, <1>2 DEF InHand
<1>6. \A i \in DOMAIN g : Telegram!Range(g[i]) \cap (Telegram!Range(<<>>) \cup Telegram!Range(q)) = {}
  BY <1>2, <1>3, <1>4 DEF InHand
<1>7. \A i, j \in DOMAIN g : i # j => Telegram!Range(g[i]) \cap Telegram!Range(g[j]) = {}
  BY <1>2 DEF InHand
<1>8. Hands(q, <<>>, g) = Hands(q, a, f)
  BY <1>2, <1>3 DEF Hands
<1>9. InHand(q, <<>>, g)
  BY <1>1, <1>2, <1>3, <1>5, <1>6, <1>7 DEF InHand
<1> QED BY <1>8, <1>9 DEF g

LEMMA HandsPublish ==
  ASSUME NEW q, NEW a, NEW f, InHand(q, a, f), NEW i \in DOMAIN f, NEW g, g = Telegram!RemoveAt(f, i)
  PROVE  /\ InHand(q, a, g) /\ f[i] \in Seq(Nat) /\ Rising(f[i])
         /\ Hands(q, a, f) = Telegram!Range(f[i]) \cup Hands(q, a, g)
            /\ Telegram!Range(f[i]) \cap Hands(q, a, g) = {}
<1>1. f \in Seq(Seq(Nat)) /\ f[i] \in Seq(Nat) /\ Rising(f[i])
  BY SeqIs DEF InHand
<1> DEFINE K(j) == IF j < i THEN j ELSE j + 1
           J(k) == IF k < i THEN k ELSE k - 1
<1>2. /\ g \in Seq(Seq(Nat))
      /\ \A j \in DOMAIN g : K(j) \in DOMAIN f /\ K(j) # i /\ g[j] = f[K(j)]
      /\ \A k \in DOMAIN f : k # i => J(k) \in DOMAIN g /\ g[J(k)] = f[k]
  <2> DEFINE S == Seq(Nat)
  <2>1. f \in Seq(S)
    BY <1>1
  <2> HIDE DEF S
  <2>2. /\ g \in Seq(S)
        /\ \A j \in DOMAIN g : LET k == IF j < i THEN j ELSE j + 1 IN k \in DOMAIN f /\ k # i /\ g[j] = f[k]
        /\ \A k \in DOMAIN f : k # i => LET j == IF k < i THEN k ELSE k - 1 IN j \in DOMAIN g /\ g[j] = f[k]
    BY <2>1, Without
  <2>3. g \in Seq(Seq(Nat))
    BY <2>2 DEF S
  <2>4. \A j \in DOMAIN g : K(j) \in DOMAIN f /\ K(j) # i /\ g[j] = f[K(j)]
    BY <2>2
  <2>5. \A k \in DOMAIN f : k # i => J(k) \in DOMAIN g /\ g[J(k)] = f[k]
    BY <2>2
  <2> QED BY <2>3, <2>4, <2>5
<1>3. \A j, k \in DOMAIN g : j # k => K(j) # K(k)
  BY <1>1, <1>2, SeqIs
<1> HIDE DEF K, J
<1>4. \A j \in DOMAIN g : Rising(g[j])
      /\ Telegram!Range(g[j]) \cap (Telegram!Range(a) \cup Telegram!Range(q)) = {}
         /\ Telegram!Range(g[j]) \cap Telegram!Range(f[i]) = {}
  BY <1>2 DEF InHand
<1>5. \A j, k \in DOMAIN g : j # k => Telegram!Range(g[j]) \cap Telegram!Range(g[k]) = {}
  BY <1>2, <1>3 DEF InHand
<1>6. \A x : x \in Telegram!Range(f) <=> x = f[i] \/ x \in Telegram!Range(g)
  BY <1>2 DEF Telegram!Range
<1>7. Hands(q, a, f) = Telegram!Range(f[i]) \cup Hands(q, a, g)
  BY <1>6 DEF Hands
<1>8. Telegram!Range(f[i]) \cap (Telegram!Range(a) \cup Telegram!Range(q)) = {}
  BY DEF InHand
<1>9. \A x \in Telegram!Range(g) : Telegram!Range(f[i]) \cap Telegram!Range(x) = {}
  <2> SUFFICES ASSUME NEW j \in DOMAIN g PROVE Telegram!Range(f[i]) \cap Telegram!Range(g[j]) = {}
    BY DEF Telegram!Range
  <2> QED BY <1>4
<1>10. Telegram!Range(f[i]) \cap Hands(q, a, g) = {}
  BY <1>8, <1>9 DEF Hands
<1> QED BY <1>1, <1>2, <1>4, <1>5, <1>7, <1>10 DEF InHand

-----------------------------------------------------------------------------
(* The bus *)

LEMMA PublishedIs ==
  ASSUME NEW o
  PROVE  \A u : u \in Telegram!PublishedBy(o) <=> \E i \in DOMAIN tg_published : tg_published[i].by = o
         /\ u \in Telegram!Range(tg_published[i].of)
  BY DEF Telegram!PublishedBy, Telegram!Range

\* Publish puts what one object has taken out of its hands on the bus, or drops it when its ctx has ended.
LEMMA Publishing ==
  ASSUME TelegramPublishedInv, NEW o \in Telegram!Objects, NEW us \in Seq(Nat), Rising(us),
         Telegram!Publish(o, us),
         Telegram!Range(us) \cap Telegram!PublishedBy(o) = {}
  PROVE  /\ TelegramPublishedInv'
            /\ \A p \in Telegram!Objects \ {o} : Telegram!PublishedBy(p)' = Telegram!PublishedBy(p)
         /\ Telegram!PublishedBy(o) \subseteq Telegram!PublishedBy(o)'
            /\ Telegram!PublishedBy(o)' \subseteq Telegram!PublishedBy(o) \cup Telegram!Range(us)
         /\ o \notin tg_cancelled => Telegram!Range(us) \subseteq Telegram!PublishedBy(o)'
<1>1. CASE tg_published' = tg_published
  <2>1. CASE o \in tg_cancelled
    BY <1>1, <2>1 DEF TelegramPublishedInv, Telegram!PublishedBy
  <2>2. CASE o \notin tg_cancelled
    <3>1. tg_published' = Append(tg_published, [of |-> us, by |-> o]) /\ [of |-> us, by |-> o] \in Publication
      BY <2>2 DEF Telegram!Publish, Publication
    <3>2. Append(tg_published, [of |-> us, by |-> o]) # tg_published
      BY <3>1, AtTheEnd DEF TelegramPublishedInv
    <3> QED BY <1>1, <3>1, <3>2
  <2> QED BY <2>1, <2>2
<1>2. CASE tg_published' = Append(tg_published, [of |-> us, by |-> o])
  <2> DEFINE m == [of |-> us, by |-> o]
             n == Len(tg_published) + 1
  <2>1. m \in Publication /\ m.of = us /\ m.by = o
    BY DEF Publication
  <2>2. /\ tg_published' \in Seq(Publication) /\ DOMAIN tg_published' = DOMAIN tg_published \cup {n}
           /\ n \notin DOMAIN tg_published
        /\ \A i \in DOMAIN tg_published : tg_published'[i] = tg_published[i]
        /\ tg_published'[n] = m
    BY <1>2, <2>1, AtTheEnd DEF TelegramPublishedInv
  <2> HIDE DEF n, m
  <2>3. \A p : \A u : u \in Telegram!PublishedBy(p)' <=> u \in Telegram!PublishedBy(p) \/ (p = o /\ u \in Telegram!Range(us))
    <3> SUFFICES ASSUME NEW p, NEW u
                 PROVE  u \in Telegram!PublishedBy(p)' <=> u \in Telegram!PublishedBy(p) \/ (p = o /\ u \in Telegram!Range(us))
      OBVIOUS
    <3>1. u \in Telegram!PublishedBy(p)' <=> \E i \in DOMAIN tg_published' : tg_published'[i].by = p
          /\ u \in Telegram!Range(tg_published'[i].of)
      BY DEF Telegram!PublishedBy, Telegram!Range
    <3>2. u \in Telegram!PublishedBy(p) <=> \E i \in DOMAIN tg_published : tg_published[i].by = p
          /\ u \in Telegram!Range(tg_published[i].of)
      BY PublishedIs
    <3> QED BY <2>1, <2>2, <3>1, <3>2
  <2>4. \A i \in DOMAIN tg_published : tg_published[i].by = o
        => Telegram!Range(us) \cap Telegram!Range(tg_published[i].of) = {}
    BY PublishedIs
  <2>5. \A i, j \in DOMAIN tg_published' :
          i # j /\ tg_published'[i].by = tg_published'[j].by
          => Telegram!Range(tg_published'[i].of) \cap Telegram!Range(tg_published'[j].of) = {}
    <3> SUFFICES ASSUME NEW i \in DOMAIN tg_published', NEW j \in DOMAIN tg_published', i # j,
                        tg_published'[i].by = tg_published'[j].by
                 PROVE  Telegram!Range(tg_published'[i].of) \cap Telegram!Range(tg_published'[j].of) = {}
      OBVIOUS
    <3>1. CASE i \in DOMAIN tg_published /\ j \in DOMAIN tg_published
      BY <2>2, <3>1 DEF TelegramPublishedInv
    <3>2. CASE i = n /\ j \in DOMAIN tg_published
      BY <2>1, <2>2, <2>4, <3>2
    <3>3. CASE i \in DOMAIN tg_published /\ j = n
      BY <2>1, <2>2, <2>4, <3>3
    <3> QED BY <2>2, <3>1, <3>2, <3>3
  <2>6. \A i \in DOMAIN tg_published' : Rising(tg_published'[i].of)
    BY <2>1, <2>2 DEF TelegramPublishedInv
  <2> QED BY <2>2, <2>3, <2>5, <2>6 DEF TelegramPublishedInv
<1> QED BY <1>1, <1>2 DEF Telegram!Publish

-----------------------------------------------------------------------------
(* The steps *)

LEMMA HeldIs == \A o : Telegram!Held(o) = Hands(tg_queue[o], tg_album[o], tg_flushing[o])
  BY DEF Telegram!Held, Hands

\* What a step leaves alone.
LEMMA OthersKeep ==
  ASSUME NEW p \in Telegram!Objects, ObjectInv(p),
         tg_queue'[p] = tg_queue[p], tg_album'[p] = tg_album[p], tg_flushing'[p] = tg_flushing[p],
         tg_offset'[p] = tg_offset[p], tg_since'[p] = tg_since[p],
         Telegram!PublishedBy(p)' = Telegram!PublishedBy(p),
         tg_answered \subseteq tg_answered', tg_cancelled \subseteq tg_cancelled',
         p > tg_live' => p > tg_live /\ tg_polls'[p] = tg_polls[p]
  PROVE  ObjectInv(p)'
<1>1. Telegram!Held(p)' = Telegram!Held(p)
  BY DEF Telegram!Held
<1> QED BY <1>1 DEF ObjectInv

\* An object that takes a step on its own, once what it has in hand and has published is known.
LEMMA ObjectKeeps ==
  ASSUME NEW o \in Telegram!Objects, ObjectInv(o), UNCHANGED <<tg_live, tg_cancelled, tg_polls, tg_since>>,
         tg_answered \subseteq tg_answered',
         ~(o > tg_live), NEW h, h = Hands(tg_queue'[o], tg_album'[o], tg_flushing'[o]),
         InHand(tg_queue'[o], tg_album'[o], tg_flushing'[o]),
         h \cap Telegram!PublishedBy(o)' = {}, h \cup Telegram!PublishedBy(o)' \subseteq 1..tg_offset'[o],
         o \notin tg_cancelled
         => (tg_since[o] + 1)..tg_offset'[o] \subseteq h \cup tg_answered' \cup Telegram!PublishedBy(o)'
  PROVE  ObjectInv(o)'
<1>1. Telegram!Held(o)' = h
  BY DEF Telegram!Held, Hands
<1> QED BY <1>1 DEF ObjectInv

\* An object with something in hand has been built, and what it has was fetched.
LEMMA WhoHolds ==
  ASSUME TelegramInv, NEW o \in Telegram!Objects, NEW u, u \in Telegram!Held(o)
  PROVE  ~(o > tg_live) /\ u \in 1..Len(tg_log) /\ u \in 1..tg_offset[o] /\ u \notin Telegram!PublishedBy(o)
         /\ tg_offset[o] \in Nat
<1>1. tg_offset[o] \in 0..Len(tg_log) /\ Len(tg_log) \in Nat
  BY DEF TelegramInv, PollsInv
<1>2. u \in 1..tg_offset[o] /\ u \notin Telegram!PublishedBy(o)
  BY DEF TelegramInv, ObjectInv
<1>3. o > tg_live => tg_offset[o] = 0
  BY DEF TelegramInv, ObjectInv
<1> QED BY <1>1, <1>2, <1>3

LEMMA TelegramInit == ASSUME Telegram!TelegramAssumption PROVE Telegram!Init => TelegramInv
<1> SUFFICES ASSUME Telegram!Init PROVE TelegramInv
  OBVIOUS
<1> USE DEF Telegram!Init
<1>1. PollsInv
  BY DEF PollsInv, Telegram!TelegramAssumption, Telegram!Objects
<1>2. TelegramPublishedInv
  BY DEF TelegramPublishedInv
<1>3. ASSUME NEW o \in Telegram!Objects PROVE ObjectInv(o)
  <2>1. tg_queue[o] = <<>> /\ tg_album[o] = <<>> /\ tg_flushing[o] = <<>> /\ tg_offset[o] = 0
        /\ tg_since[o] = 0 /\ ~tg_polls[o]
    OBVIOUS
  <2>2. InHand(<<>>, <<>>, <<>>)
    BY DEF InHand, Rising, Telegram!Range
  <2>3. Telegram!Held(o) = {} /\ Telegram!PublishedBy(o) = {}
    BY <2>1 DEF Telegram!Held, Telegram!PublishedBy, Telegram!Range
  <2>4. (tg_since[o] + 1)..tg_offset[o] = {}
    BY <2>1
  <2> QED BY <2>1, <2>2, <2>3, <2>4 DEF ObjectInv
<1> QED BY <1>1, <1>2, <1>3 DEF TelegramInv

LEMMA ArriveStep == ASSUME Telegram!TelegramAssumption, TelegramInv, Telegram!Arrive PROVE TelegramInv'
<1>1. PICK k \in Telegram!Kinds : tg_log' = Append(tg_log, k)
  BY DEF Telegram!Arrive
<1>2. tg_log \in Seq(Telegram!Kinds) /\ Len(tg_log) \in Nat /\ tg_log' \in Seq(Telegram!Kinds)
      /\ Len(tg_log') = Len(tg_log) + 1
  BY <1>1 DEF TelegramInv, PollsInv
<1>3. UNCHANGED <<tg_confirmed, tg_live, tg_polls, tg_commands, tg_since, tg_offset, tg_cancelled, tg_queue,
                  tg_album, tg_flushing, tg_published, tg_answered>>
  BY DEF Telegram!Arrive, Telegram!pollVars
<1>4. 0..Len(tg_log) \subseteq 0..Len(tg_log') /\ 1..Len(tg_log) \subseteq 1..Len(tg_log')
  BY <1>2
<1>5. PollsInv'
  BY <1>2, <1>3, <1>4 DEF TelegramInv, PollsInv
<1>6. TelegramPublishedInv'
  BY <1>3 DEF TelegramInv, TelegramPublishedInv
<1>7. \A o \in Telegram!Objects : ObjectInv(o)'
  BY <1>3, OthersKeep DEF TelegramInv, Telegram!PublishedBy
<1> QED BY <1>5, <1>6, <1>7 DEF TelegramInv

LEMMA ReplaceStep == ASSUME Telegram!TelegramAssumption, TelegramInv, Telegram!Replace PROVE TelegramInv'
<1>0. PICK new \in Telegram!Objects : new = tg_live + 1
  BY DEF Telegram!Replace, TelegramInv, PollsInv, Telegram!Objects, Telegram!TelegramAssumption
<1>1. /\ tg_live' = new /\ new \in Telegram!Objects /\ tg_live \in Nat /\ tg_confirmed \in 0..Len(tg_log)
         /\ Len(tg_log) \in Nat
      /\ UNCHANGED <<tg_log, tg_confirmed, tg_queue, tg_album, tg_flushing, tg_published, tg_answered>>
  BY <1>0 DEF Telegram!Replace, TelegramInv, PollsInv
<1>2. PICK starts \in BOOLEAN, files \in SUBSET {"command", "broken"} :
        /\ tg_polls' = [tg_polls EXCEPT ![new] = starts]
        /\ tg_commands' = [tg_commands EXCEPT ![new] = starts /\ Telegram!Loaded(files)]
  BY <1>0, <1>1 DEF Telegram!Replace
<1>3. /\ tg_cancelled' = tg_cancelled \cup ({tg_live} \ {0})
      /\ tg_offset' = [tg_offset EXCEPT ![new] = tg_confirmed]
         /\ tg_since' = [tg_since EXCEPT ![new] = tg_confirmed]
  BY <1>1 DEF Telegram!Replace
<1>4. PollsInv'
  <2>1. tg_polls' \in [Telegram!Objects -> BOOLEAN]
    BY <1>2 DEF TelegramInv, PollsInv
  <2>2. tg_commands' \in [Telegram!Objects -> BOOLEAN]
    BY <1>2 DEF TelegramInv, PollsInv, Telegram!Loaded
  <2>3. tg_cancelled' \subseteq Telegram!Objects
    BY <1>1, <1>3 DEF TelegramInv, PollsInv, Telegram!Objects
  <2>4. tg_offset' \in [Telegram!Objects -> 0..Len(tg_log)] /\ tg_since' \in [Telegram!Objects -> Nat]
    BY <1>1, <1>3 DEF TelegramInv, PollsInv
  <2>5. tg_live' \in 0..tg_MaxObjects
    BY <1>1, Telegram!TelegramAssumption DEF Telegram!Objects, Telegram!TelegramAssumption
  <2> QED BY <1>1, <2>1, <2>2, <2>3, <2>4, <2>5 DEF TelegramInv, PollsInv
<1>5. TelegramPublishedInv'
  BY <1>1 DEF TelegramInv, TelegramPublishedInv
<1>6. \A o \in Telegram!Objects : Telegram!PublishedBy(o)' = Telegram!PublishedBy(o)
      /\ Telegram!Held(o)' = Telegram!Held(o)
  BY <1>1 DEF Telegram!PublishedBy, Telegram!Held
<1>7. ASSUME NEW o \in Telegram!Objects, o # new PROVE ObjectInv(o)'
  <2>1. tg_offset'[o] = tg_offset[o] /\ tg_since'[o] = tg_since[o] /\ tg_polls'[o] = tg_polls[o]
    BY <1>2, <1>3, <1>7 DEF TelegramInv, PollsInv
  <2>2. o > new => o > tg_live
    BY <1>0, <1>1 DEF Telegram!Objects
  <2> QED BY <1>1, <1>3, <1>6, <2>1, <2>2, OthersKeep DEF TelegramInv
<1>8. ObjectInv(new)'
  <2>1. tg_offset[new] = 0
    BY <1>0, <1>1 DEF TelegramInv, ObjectInv
  <2>2. Telegram!Held(new) = {} /\ Telegram!PublishedBy(new) = {}
    BY <1>1, <2>1 DEF TelegramInv, ObjectInv
  <2>3. tg_offset'[new] = tg_confirmed /\ tg_since'[new] = tg_confirmed
    BY <1>1, <1>3 DEF TelegramInv, PollsInv
  <2>4. (tg_since'[new] + 1)..tg_offset'[new] = {}
    BY <1>1, <2>3
  <2>5. InHand(tg_queue'[new], tg_album'[new], tg_flushing'[new])
    BY <1>1 DEF TelegramInv, ObjectInv
  <2>6. ~(new > tg_live')
    BY <1>0, <1>1
  <2> QED BY <1>1, <1>6, <2>2, <2>4, <2>5, <2>6 DEF ObjectInv
<1> QED BY <1>4, <1>5, <1>7, <1>8 DEF TelegramInv

LEMMA FetchStep ==
  ASSUME Telegram!TelegramAssumption, TelegramInv, NEW o \in Telegram!Objects, Telegram!Fetch(o)
  PROVE  TelegramInv'
<1>1. /\ tg_polls[o] /\ tg_confirmed' = tg_offset[o]
      /\ UNCHANGED <<tg_log, tg_live, tg_polls, tg_commands, tg_since, tg_cancelled, tg_album, tg_flushing,
                     tg_published, tg_answered>>
  BY DEF Telegram!Fetch
<1>2. PICK k \in tg_offset[o]..Len(tg_log) :
        /\ tg_offset' = [tg_offset EXCEPT ![o] = k]
        /\ tg_queue' = [tg_queue EXCEPT ![o] = @ \o [i \in 1..(k - tg_offset[o]) |-> tg_offset[o] + i]]
  BY DEF Telegram!Fetch
<1> DEFINE n == tg_offset[o]
           more == tg_queue[o] \o [i \in 1..(k - n) |-> n + i]
<1>3. n \in 0..Len(tg_log) /\ Len(tg_log) \in Nat /\ k \in Nat /\ n \in Nat /\ n <= k /\ k \in 0..Len(tg_log)
  BY <1>2 DEF TelegramInv, PollsInv
<1>4. DOMAIN tg_queue = Telegram!Objects /\ tg_offset \in [Telegram!Objects -> 0..Len(tg_log)]
  BY DEF TelegramInv, PollsInv
<1>5. tg_queue'[o] = more /\ tg_offset'[o] = k /\ \A p \in Telegram!Objects \ {o} : tg_queue'[p] = tg_queue[p]
      /\ tg_offset'[p] = tg_offset[p]
  BY <1>2, <1>4
<1>6. PollsInv'
  BY <1>1, <1>2, <1>3, <1>4 DEF TelegramInv, PollsInv
<1>7. TelegramPublishedInv' /\ \A p : Telegram!PublishedBy(p)' = Telegram!PublishedBy(p)
  BY <1>1 DEF TelegramInv, TelegramPublishedInv, Telegram!PublishedBy
<1>8. ASSUME NEW p \in Telegram!Objects, p # o PROVE ObjectInv(p)'
  BY <1>1, <1>5, <1>7, <1>8, OthersKeep DEF TelegramInv
<1>9. ObjectInv(o)'
  <2>1. /\ InHand(tg_queue[o], tg_album[o], tg_flushing[o])
           /\ Telegram!Held(o) = Hands(tg_queue[o], tg_album[o], tg_flushing[o])
        /\ Telegram!Held(o) \cap Telegram!PublishedBy(o) = {}
           /\ Telegram!Held(o) \cup Telegram!PublishedBy(o) \subseteq 1..n
        /\ o \notin tg_cancelled
           => (tg_since[o] + 1)..n \subseteq Telegram!Held(o) \cup tg_answered \cup Telegram!PublishedBy(o)
        /\ ~(o > tg_live) /\ tg_since[o] \in Nat
    BY <1>1, HeldIs DEF TelegramInv, ObjectInv, PollsInv
  <2> HIDE DEF n, more
  <2>2. InHand(more, tg_album[o], tg_flushing[o])
        /\ Hands(more, tg_album[o], tg_flushing[o]) = Telegram!Held(o) \cup (n + 1)..k
    <3>1. Hands(tg_queue[o], tg_album[o], tg_flushing[o]) \subseteq 1..n
      BY <2>1
    <3>2. InHand(more, tg_album[o], tg_flushing[o])
          /\ Hands(more, tg_album[o], tg_flushing[o]) = Hands(tg_queue[o], tg_album[o], tg_flushing[o]) \cup (n + 1)..k
      <4>1. more = Extended(tg_queue[o], n, k)
        BY DEF more, Extended
      <4>2. n \in Nat /\ k \in Nat /\ n <= k /\ tg_queue[o] \in Seq(Nat) /\ Rising(tg_queue[o])
            /\ Telegram!Range(tg_queue[o]) \subseteq 1..n
        BY <1>3, <2>1, <3>1 DEF InHand, Hands
      <4>3. more \in Seq(Nat) /\ Rising(more)
            /\ Telegram!Range(more) = Telegram!Range(tg_queue[o]) \cup (n + 1)..k
        <5> DEFINE q == tg_queue[o]
        <5>1. /\ n \in Nat /\ k \in Nat /\ n <= k /\ more = Extended(q, n, k)
              /\ q \in Seq(Nat) /\ Rising(q) /\ Telegram!Range(q) \subseteq 1..n
          BY <4>1, <4>2
        <5> HIDE DEF q
        <5>2. more \in Seq(Nat) /\ Rising(more) /\ Telegram!Range(more) = Telegram!Range(q) \cup (n + 1)..k
          BY <5>1, Longer
        <5> QED BY <5>2 DEF q
      <4>4. \A x \in Hands(tg_queue[o], tg_album[o], tg_flushing[o]), y \in (n + 1)..k : x < y /\ x # y
        BY <3>1, <4>2
      <4>5. InHand(tg_queue[o], tg_album[o], tg_flushing[o])
        BY <2>1
      <4> DEFINE N == (n + 1)..k
      <4> HIDE DEF N
      <4>6. \A x \in Hands(tg_queue[o], tg_album[o], tg_flushing[o]), y \in N : x < y /\ x # y
        BY <4>4 DEF N
      <4>7. Telegram!Range(more) = Telegram!Range(tg_queue[o]) \cup N
        BY <4>3 DEF N
      <4>8. InHand(more, tg_album[o], tg_flushing[o])
            /\ Hands(more, tg_album[o], tg_flushing[o]) = Hands(tg_queue[o], tg_album[o], tg_flushing[o]) \cup N
        <5> DEFINE q == tg_queue[o]
                   a == tg_album[o]
                   f == tg_flushing[o]
        <5> HIDE DEF q, a, f
        <5>1. InHand(q, a, f) /\ more \in Seq(Nat) /\ Rising(more)
              /\ Telegram!Range(more) = Telegram!Range(q) \cup N
              /\ \A x \in Hands(q, a, f), y \in N : x < y /\ x # y
          BY <4>3, <4>5, <4>6, <4>7 DEF q, a, f
        <5>0. InHand(q, a, f)
          BY <5>1
        <5>2. \A M, r : /\ r \in Seq(Nat) /\ Rising(r) /\ Telegram!Range(r) = Telegram!Range(q) \cup M
                        /\ \A x \in Hands(q, a, f), y \in M : x < y /\ x # y
                        => InHand(r, a, f) /\ Hands(r, a, f) = Hands(q, a, f) \cup M
          BY ONLY <5>0, HandsFetch
        <5>3. InHand(more, a, f) /\ Hands(more, a, f) = Hands(q, a, f) \cup N
          BY <5>1, <5>2
        <5> QED BY <5>3 DEF q, a, f
      <4> QED BY <4>8 DEF N
    <3> QED BY <2>1, <3>2
  <2> DEFINE h == Telegram!Held(o) \cup (n + 1)..k
  <2>3. h \cap Telegram!PublishedBy(o) = {}
    BY <1>3, <2>1
  <2>4. h \cup Telegram!PublishedBy(o) \subseteq 1..k
    BY <1>3, <2>1
  <2>5. o \notin tg_cancelled
        => (tg_since[o] + 1)..k \subseteq h \cup tg_answered \cup Telegram!PublishedBy(o)
    <3> SUFFICES ASSUME o \notin tg_cancelled, NEW x \in (tg_since[o] + 1)..k, x \notin (n + 1)..k
                 PROVE  x \in Telegram!Held(o) \cup tg_answered \cup Telegram!PublishedBy(o)
      OBVIOUS
    <3>1. x \in (tg_since[o] + 1)..n
      BY <1>3, <2>1
    <3> QED BY <2>1, <3>1
  <2> HIDE DEF h
  <2>6. h = Hands(tg_queue'[o], tg_album'[o], tg_flushing'[o])
        /\ InHand(tg_queue'[o], tg_album'[o], tg_flushing'[o])
    BY <1>1, <1>5, <2>2 DEF h
  <2>7. Telegram!PublishedBy(o)' = Telegram!PublishedBy(o)
        /\ UNCHANGED <<tg_live, tg_cancelled, tg_polls, tg_since, tg_answered>> /\ ObjectInv(o)
    BY <1>1, <1>7 DEF TelegramInv
  <2> QED BY <1>5, <2>1, <2>3, <2>4, <2>5, <2>6, <2>7, ObjectKeeps
<1> QED BY <1>6, <1>7, <1>8, <1>9 DEF TelegramInv

\* handleMessage and handleSlashCommand take the first update of the queue.
LEMMA DispatchStep ==
  ASSUME Telegram!TelegramAssumption, TelegramInv, NEW o \in Telegram!Objects, Telegram!Dispatch(o)
  PROVE  TelegramInv'
<1> DEFINE u == Head(tg_queue[o])
           h == Hands(Tail(tg_queue[o]), tg_album[o], tg_flushing[o])
<1>1. /\ tg_queue[o] # <<>> /\ tg_queue' = [tg_queue EXCEPT ![o] = Tail(@)]
      /\ UNCHANGED <<tg_log, tg_confirmed, tg_live, tg_polls, tg_commands, tg_since, tg_offset, tg_cancelled,
                     tg_album, tg_flushing>>
  BY DEF Telegram!Dispatch, Telegram!pollVars
<1>2. \/ tg_answered' = tg_answered \cup {u} /\ tg_published' = tg_published
      \/ Telegram!Publish(o, <<u>>) /\ tg_answered' = tg_answered
  BY DEF Telegram!Dispatch
<1>3. /\ InHand(tg_queue[o], tg_album[o], tg_flushing[o])
         /\ Telegram!Held(o) = Hands(tg_queue[o], tg_album[o], tg_flushing[o])
      /\ Telegram!Held(o) \cap Telegram!PublishedBy(o) = {}
         /\ Telegram!Held(o) \cup Telegram!PublishedBy(o) \subseteq 1..tg_offset[o]
      /\ o \notin tg_cancelled
         => (tg_since[o] + 1)..tg_offset[o] \subseteq Telegram!Held(o) \cup tg_answered \cup Telegram!PublishedBy(o)
      /\ ObjectInv(o)
  BY HeldIs DEF TelegramInv, ObjectInv
<1>4. InHand(Tail(tg_queue[o]), tg_album[o], tg_flushing[o]) /\ u \in Nat /\ Telegram!Held(o) = {u} \cup h
      /\ u \notin h
  <2>1. InHand(tg_queue[o], tg_album[o], tg_flushing[o]) /\ tg_queue[o] # <<>>
    BY <1>1, <1>3
  <2>2. /\ InHand(Tail(tg_queue[o]), tg_album[o], tg_flushing[o]) /\ u \in Nat
        /\ Hands(tg_queue[o], tg_album[o], tg_flushing[o]) = {u} \cup h /\ u \notin h
    BY <2>1, HandsNext
  <2> QED BY <1>3, <2>2
<1>5. DOMAIN tg_queue = Telegram!Objects
  BY DEF TelegramInv, PollsInv
<1>6. tg_queue'[o] = Tail(tg_queue[o]) /\ \A p \in Telegram!Objects \ {o} : tg_queue'[p] = tg_queue[p]
  BY <1>1, <1>5
<1> HIDE DEF u, h
<1>7. ~(o > tg_live) /\ u \in 1..Len(tg_log) /\ u \notin Telegram!PublishedBy(o)
  BY <1>4, WhoHolds
<1>8. PollsInv'
  BY <1>1, <1>2, <1>5, <1>7 DEF TelegramInv, PollsInv
<1>9. /\ TelegramPublishedInv'
         /\ \A p \in Telegram!Objects \ {o} : Telegram!PublishedBy(p)' = Telegram!PublishedBy(p)
      /\ Telegram!PublishedBy(o) \subseteq Telegram!PublishedBy(o)'
         /\ Telegram!PublishedBy(o)' \subseteq Telegram!PublishedBy(o) \cup {u}
      /\ o \notin tg_cancelled => u \in tg_answered' \cup Telegram!PublishedBy(o)'
         /\ tg_answered \subseteq tg_answered'
      /\ tg_answered \subseteq tg_answered'
  <2>1. CASE tg_answered' = tg_answered \cup {u} /\ tg_published' = tg_published
    BY <2>1 DEF TelegramInv, TelegramPublishedInv, Telegram!PublishedBy
  <2>2. CASE Telegram!Publish(o, <<u>>) /\ tg_answered' = tg_answered
    <3>1. <<u>> \in Seq(Nat) /\ Rising(<<u>>) /\ Telegram!Range(<<u>>) = {u}
      BY <1>4 DEF Rising, Telegram!Range
    <3>2. Telegram!Range(<<u>>) \cap Telegram!PublishedBy(o) = {} /\ TelegramPublishedInv
      BY <1>7, <3>1 DEF TelegramInv
    <3> QED BY <2>2, <3>1, <3>2, Publishing
  <2> QED BY <1>2, <2>1, <2>2
<1>10. ASSUME NEW p \in Telegram!Objects, p # o PROVE ObjectInv(p)'
  BY <1>1, <1>6, <1>9, <1>10, OthersKeep DEF TelegramInv
<1>11. ObjectInv(o)'
  <2>1. h = Hands(tg_queue'[o], tg_album'[o], tg_flushing'[o])
        /\ InHand(tg_queue'[o], tg_album'[o], tg_flushing'[o])
    BY <1>1, <1>4, <1>6 DEF h
  <2>2. h \cap Telegram!PublishedBy(o)' = {} /\ h \cup Telegram!PublishedBy(o)' \subseteq 1..tg_offset'[o]
    BY <1>1, <1>3, <1>4, <1>9
  <2>3. o \notin tg_cancelled
        => (tg_since[o] + 1)..tg_offset'[o] \subseteq h \cup tg_answered' \cup Telegram!PublishedBy(o)'
    BY <1>1, <1>3, <1>4, <1>9
  <2> QED BY <1>1, <1>3, <1>7, <1>9, <2>1, <2>2, <2>3, ObjectKeeps
<1> QED BY <1>8, <1>9, <1>10, <1>11 DEF TelegramInv

\* bufferMediaGroup and flushMediaGroup move the parts of an album.
LEMMA AlbumStep ==
  ASSUME Telegram!TelegramAssumption, TelegramInv, NEW o \in Telegram!Objects,
         Telegram!Buffer(o) \/ Telegram!Flush(o)
  PROVE  TelegramInv'
<1>1. UNCHANGED <<tg_log, tg_confirmed, tg_live, tg_polls, tg_commands, tg_since, tg_offset, tg_cancelled,
                  tg_published, tg_answered>>
  BY DEF Telegram!Buffer, Telegram!Flush, Telegram!pollVars
<1>2. /\ InHand(tg_queue[o], tg_album[o], tg_flushing[o])
         /\ Telegram!Held(o) = Hands(tg_queue[o], tg_album[o], tg_flushing[o]) /\ ObjectInv(o)
      /\ DOMAIN tg_queue = Telegram!Objects /\ DOMAIN tg_album = Telegram!Objects
         /\ DOMAIN tg_flushing = Telegram!Objects
  BY HeldIs DEF TelegramInv, ObjectInv, PollsInv
<1>3. /\ \A p \in Telegram!Objects \ {o} : tg_queue'[p] = tg_queue[p] /\ tg_album'[p] = tg_album[p]
         /\ tg_flushing'[p] = tg_flushing[p]
      /\ DOMAIN tg_queue' = Telegram!Objects /\ DOMAIN tg_album' = Telegram!Objects
         /\ DOMAIN tg_flushing' = Telegram!Objects
  BY <1>2 DEF Telegram!Buffer, Telegram!Flush
<1>4. InHand(tg_queue'[o], tg_album'[o], tg_flushing'[o])
      /\ Hands(tg_queue'[o], tg_album'[o], tg_flushing'[o]) = Telegram!Held(o)
  <2>1. CASE Telegram!Buffer(o)
    <3>1. /\ tg_queue[o] # <<>> /\ tg_queue'[o] = Tail(tg_queue[o])
             /\ tg_album'[o] = Append(tg_album[o], Head(tg_queue[o]))
          /\ tg_flushing'[o] = tg_flushing[o]
      BY <1>2, <2>1 DEF Telegram!Buffer
    <3> QED BY <1>2, <3>1, HandsBuffer
  <2>2. CASE Telegram!Flush(o)
    <3>1. tg_queue'[o] = tg_queue[o] /\ tg_album'[o] = <<>>
          /\ tg_flushing'[o] = Append(tg_flushing[o], tg_album[o])
      BY <1>2, <2>2 DEF Telegram!Flush
    <3> QED BY <1>2, <3>1, HandsFlush
  <2> QED BY <2>1, <2>2
<1>5. PollsInv'
  BY <1>1, <1>3 DEF TelegramInv, PollsInv
<1>6. TelegramPublishedInv' /\ \A p : Telegram!PublishedBy(p)' = Telegram!PublishedBy(p)
  BY <1>1 DEF TelegramInv, TelegramPublishedInv, Telegram!PublishedBy
<1>7. ASSUME NEW p \in Telegram!Objects, p # o PROVE ObjectInv(p)'
  BY <1>1, <1>3, <1>6, <1>7, OthersKeep DEF TelegramInv
<1>8. ObjectInv(o)'
  <2>1. Telegram!Held(o)' = Telegram!Held(o)
    BY <1>4, HeldIs DEF Telegram!Held, Hands
  <2> QED BY <1>1, <1>2, <1>4, <1>6, <2>1 DEF ObjectInv
<1> QED BY <1>5, <1>6, <1>7, <1>8 DEF TelegramInv

\* A flush publishes its album as one message.
LEMMA FlushPublishStep ==
  ASSUME Telegram!TelegramAssumption, TelegramInv, NEW o \in Telegram!Objects, Telegram!FlushPublish(o)
  PROVE  TelegramInv'
<1>1. PICK i \in DOMAIN tg_flushing[o] :
        /\ Telegram!Publish(o, tg_flushing[o][i])
           /\ tg_flushing' = [tg_flushing EXCEPT ![o] = Telegram!RemoveAt(@, i)]
        /\ UNCHANGED <<tg_log, tg_confirmed, tg_live, Telegram!pollVars, tg_cancelled, tg_queue, tg_album,
                       tg_answered>>
  BY DEF Telegram!FlushPublish
<1> DEFINE f == tg_flushing[o][i]
           g == Telegram!RemoveAt(tg_flushing[o], i)
           h == Hands(tg_queue[o], tg_album[o], g)
<1>2. UNCHANGED <<tg_log, tg_confirmed, tg_live, tg_polls, tg_commands, tg_since, tg_offset, tg_cancelled,
                  tg_queue, tg_album, tg_answered>>
  BY <1>1 DEF Telegram!pollVars
<1>3. /\ InHand(tg_queue[o], tg_album[o], tg_flushing[o])
         /\ Telegram!Held(o) = Hands(tg_queue[o], tg_album[o], tg_flushing[o])
      /\ Telegram!Held(o) \cap Telegram!PublishedBy(o) = {}
         /\ Telegram!Held(o) \cup Telegram!PublishedBy(o) \subseteq 1..tg_offset[o]
      /\ o \notin tg_cancelled
         => (tg_since[o] + 1)..tg_offset[o] \subseteq Telegram!Held(o) \cup tg_answered \cup Telegram!PublishedBy(o)
      /\ ObjectInv(o) /\ (o > tg_live => tg_offset[o] = 0) /\ DOMAIN tg_flushing = Telegram!Objects
         /\ TelegramPublishedInv
  BY HeldIs DEF TelegramInv, ObjectInv, PollsInv
<1>4. /\ InHand(tg_queue[o], tg_album[o], g) /\ f \in Seq(Nat) /\ Rising(f)
      /\ Telegram!Held(o) = Telegram!Range(f) \cup h /\ Telegram!Range(f) \cap h = {}
  BY <1>3, HandsPublish
<1>5. tg_flushing'[o] = g /\ DOMAIN tg_flushing' = Telegram!Objects
      /\ \A p \in Telegram!Objects \ {o} : tg_flushing'[p] = tg_flushing[p]
  BY <1>1, <1>3
<1> HIDE DEF f, g, h
<1>6. PollsInv'
  BY <1>2, <1>5 DEF TelegramInv, PollsInv
<1>7. /\ TelegramPublishedInv'
         /\ \A p \in Telegram!Objects \ {o} : Telegram!PublishedBy(p)' = Telegram!PublishedBy(p)
      /\ Telegram!PublishedBy(o) \subseteq Telegram!PublishedBy(o)'
         /\ Telegram!PublishedBy(o)' \subseteq Telegram!PublishedBy(o) \cup Telegram!Range(f)
      /\ o \notin tg_cancelled => Telegram!Range(f) \subseteq Telegram!PublishedBy(o)'
  <2>1. Telegram!Publish(o, f) /\ Telegram!Range(f) \cap Telegram!PublishedBy(o) = {}
    BY <1>1, <1>3, <1>4 DEF f
  <2> QED BY <1>3, <1>4, <2>1, Publishing
<1>8. ASSUME NEW p \in Telegram!Objects, p # o PROVE ObjectInv(p)'
  BY <1>2, <1>5, <1>7, <1>8, OthersKeep DEF TelegramInv
<1>9. ObjectInv(o)'
  <2>1. h = Hands(tg_queue'[o], tg_album'[o], tg_flushing'[o])
        /\ InHand(tg_queue'[o], tg_album'[o], tg_flushing'[o])
    BY <1>2, <1>4, <1>5 DEF h
  <2>2. h \cap Telegram!PublishedBy(o)' = {} /\ h \cup Telegram!PublishedBy(o)' \subseteq 1..tg_offset'[o]
    BY <1>2, <1>3, <1>4, <1>7
  <2>3. o \notin tg_cancelled
        => (tg_since[o] + 1)..tg_offset'[o] \subseteq h \cup tg_answered' \cup Telegram!PublishedBy(o)'
    BY <1>2, <1>3, <1>4, <1>7
  <2>4. CASE ~(o > tg_live)
    BY <1>2, <1>3, <2>1, <2>2, <2>3, <2>4, ObjectKeeps
  <2>5. CASE o > tg_live
    <3>1. Telegram!Held(o)' = h
      BY <2>1 DEF Telegram!Held, Hands
    <3> QED BY <1>2, <1>3, <2>1, <2>2, <2>3, <3>1 DEF ObjectInv
  <2> QED BY <2>4, <2>5
<1> QED BY <1>6, <1>7, <1>8, <1>9 DEF TelegramInv

LEMMA TelegramKeeps ==
  ASSUME Telegram!TelegramAssumption
  PROVE  TelegramInv /\ [Telegram!Next]_(Telegram!vars) => TelegramInv'
<1> SUFFICES ASSUME TelegramInv, [Telegram!Next]_(Telegram!vars) PROVE TelegramInv'
  OBVIOUS
<1>1. CASE Telegram!Arrive
  BY <1>1, ArriveStep
<1>2. CASE Telegram!Replace
  BY <1>2, ReplaceStep
<1>3. ASSUME NEW o \in Telegram!Objects, Telegram!Fetch(o) PROVE TelegramInv'
  BY <1>3, FetchStep
<1>4. ASSUME NEW o \in Telegram!Objects, Telegram!Dispatch(o) PROVE TelegramInv'
  BY <1>4, DispatchStep
<1>5. ASSUME NEW o \in Telegram!Objects, Telegram!Buffer(o) \/ Telegram!Flush(o) PROVE TelegramInv'
  BY <1>5, AlbumStep
<1>6. ASSUME NEW o \in Telegram!Objects, Telegram!FlushPublish(o) PROVE TelegramInv'
  BY <1>6, FlushPublishStep
<1>7. CASE UNCHANGED Telegram!vars
  BY <1>7 DEF Telegram!vars, Telegram!pollVars, TelegramInv, PollsInv, TelegramPublishedInv, ObjectInv,
     Telegram!Held, Telegram!PublishedBy
<1> QED BY <1>1, <1>2, <1>3, <1>4, <1>5, <1>6, <1>7 DEF Telegram!Next

\* The invariant says what is checked.
LEMMA TelegramInvIsEnough ==
  ASSUME Telegram!TelegramAssumption, TelegramInv
  PROVE  Telegram!TelegramHandlesEachUpdate
<1>1. DOMAIN tg_log = 1..Len(tg_log) /\ Telegram!Range(tg_log) \subseteq Telegram!Kinds
  BY SeqIs DEF TelegramInv, PollsInv, Telegram!Range
<1>2. ASSUME NEW o \in Telegram!Objects
      PROVE  Telegram!Range(tg_queue[o]) \cup Telegram!Range(tg_album[o]) \subseteq DOMAIN tg_log
  <2> SUFFICES ASSUME NEW u \in Telegram!Range(tg_queue[o]) \cup Telegram!Range(tg_album[o])
               PROVE  u \in DOMAIN tg_log
    OBVIOUS
  <2>1. u \in Telegram!Held(o)
    BY DEF Telegram!Held
  <2> QED BY <1>1, <2>1, WhoHolds
<1>3. Telegram!TypeOK
  BY <1>1, <1>2 DEF TelegramInv, PollsInv, Telegram!TypeOK
<1>4. Telegram!FetchedIsHandled
  BY DEF TelegramInv, ObjectInv, Telegram!FetchedIsHandled
<1>5. Telegram!OncePerObject
  BY DEF TelegramInv, TelegramPublishedInv, ObjectInv, Rising, Telegram!OncePerObject
<1> QED BY <1>3, <1>4, <1>5 DEF Telegram!TelegramHandlesEachUpdate

-----------------------------------------------------------------------------
(* The theorem *)

\* Telegram, for any updates, albums and reloads: an object that was not stopped loses nothing it has
\* fetched, and none publishes an update twice.
THEOREM UpdatesHandled ==
  ASSUME Telegram!TelegramAssumption
  PROVE  Telegram!Spec => []Telegram!TelegramHandlesEachUpdate
<1>1. Telegram!Init => TelegramInv
  BY TelegramInit
<1>2. TelegramInv /\ [Telegram!Next]_(Telegram!vars) => TelegramInv'
  BY TelegramKeeps
<1>3. TelegramInv => Telegram!TelegramHandlesEachUpdate
  BY TelegramInvIsEnough
<1> QED BY <1>1, <1>2, <1>3, PTL DEF Telegram!Spec

-----------------------------------------------------------------------------
\* What two calls take.
Slack == 2 * ts_MaxCall

\* A cooldown ends as late as any wait the Bot API told, but for two calls, and no call is earlier.
WaitsInv ==
  /\ ts_cooldown \in Nat /\ ts_toldAll \in Nat /\ ts_told \in Nat /\ ts_told <= ts_cooldown + Slack
  /\ ts_calls.early \in Nat /\ ts_calls.early <= Slack
  /\ ts_refusals \in 0..ts_MaxRefusals
ChatInv ==
  /\ ts_chat = [texts |-> ts_chat.texts, temps |-> ts_chat.temps]
  /\ ts_chat.texts \in Seq(Nat) /\ ts_chat.temps \subseteq {"status", "content"}
ApiInv == WaitsInv /\ ChatInv

\* What there is to delete is known by its id.
TempsInv ==
  /\ "status" \in ts_chat.temps => ts_status.id
  /\ "content" \in ts_chat.temps => ts_content.id
  /\ ts_pc = "sent" => ts_chat.temps = {}

\* The last k messages are the first k chunks of the text.
EndsWith(texts, k) ==
  \E n \in Nat : Len(texts) = n + k /\ \A i \in 1..k : texts[n + i] = i
EndsPlain(texts) == Len(texts) > 0 /\ texts[Len(texts)] = 0

\* Send waits for the cooldown, and has sent the chunks before the next one or the plain text.
StreamSendInv ==
  /\ ts_pc \in {"send", "plain"} => ts_cooldown <= ts_now /\ ts_toSend <= TelegramStream!Chunks
  /\ ts_pc = "send" => \/ ts_toSend = 0 /\ EndsPlain(ts_chat.texts)
                       \/ EndsWith(ts_chat.texts, TelegramStream!Chunks - ts_toSend)
  /\ ts_pc \in {"sent", "untidy"}
     => EndsPlain(ts_chat.texts) \/ EndsWith(ts_chat.texts, TelegramStream!Chunks)

\* tickFlush makes two calls at the most by one reading of the clock: once it has shown the card,
\* or failed to, there is no heartbeat.
CardIsDue == ts_status.dirty \/ ts_status.last = ts_asof
FlushInv ==
  /\ ts_pc \in {"tick", "last"} => ts_now = ts_asof
  /\ ts_pc \in {"tick text", "last text"} => ts_now <= ts_asof + ts_MaxCall /\ (ts_now = ts_asof \/ CardIsDue)
  /\ ts_pc \in {"tick beat", "last beat"} => ts_now <= ts_asof + Slack
     /\ (ts_now <= ts_asof + ts_MaxCall \/ CardIsDue)

\* The inductive invariant.
StreamInv ==
  /\ TelegramStream!TypeOK /\ ts_mode \in [draft : BOOLEAN, card : BOOLEAN]
     /\ ts_text + ts_left <= ts_MaxEvents
  /\ ApiInv /\ TempsInv /\ StreamSendInv /\ FlushInv

-----------------------------------------------------------------------------
(* Numbers and sequences *)

LEMMA MaxIs ==
  ASSUME NEW a \in Nat, NEW b \in Nat
  PROVE  TelegramStream!Max({a, b}) \in {a, b} /\ TelegramStream!Max({a, b}) >= a
         /\ TelegramStream!Max({a, b}) >= b
<1>1. \E x \in {a, b} : \A y \in {a, b} : x >= y
  OBVIOUS
<1> QED BY <1>1 DEF TelegramStream!Max

\* A text has a message at least, and no more than it has deltas.
LEMMA ChunksAre ==
  ASSUME TelegramStream!StreamAssumption, NEW t \in 0..ts_MaxEvents
  PROVE  /\ (t + ts_ChunkSize - 1) \div ts_ChunkSize \in Nat
         /\ t # 0 => /\ (t + ts_ChunkSize - 1) \div ts_ChunkSize <= t
                     /\ (t + ts_ChunkSize - 1) \div ts_ChunkSize > 0
<1> DEFINE a == t + ts_ChunkSize - 1
           q == a \div ts_ChunkSize
<1>1. a \in Nat /\ ts_ChunkSize \in Nat \ {0} /\ t \in Nat
  BY DEF TelegramStream!StreamAssumption
<1> HIDE DEF a
<1>2. q \in Nat
  BY <1>1
<1>3. q * ts_ChunkSize <= a /\ a < q * ts_ChunkSize + ts_ChunkSize
  BY <1>1, Z3
<1> HIDE DEF q
<1>4. ASSUME t # 0 PROVE q > 0
  <2>1. a >= ts_ChunkSize
    BY <1>1, <1>4 DEF a
  <2> QED BY <1>1, <1>2, <1>3, <2>1, Z3
<1>5. ASSUME t # 0, q > t PROVE FALSE
  <2>1. q * ts_ChunkSize >= (t + 1) * ts_ChunkSize
    BY <1>1, <1>2, <1>5, Z3
  <2>2. (t + 1) * ts_ChunkSize = t * ts_ChunkSize + ts_ChunkSize /\ t * ts_ChunkSize >= t
    BY <1>1, Z3
  <2>3. t * ts_ChunkSize \in Nat
    BY <1>1
  <2>4. q * ts_ChunkSize \in Nat
    BY <1>1, <1>2
  <2>5. (t + 1) * ts_ChunkSize <= a
    BY <1>1, <1>3, <2>1, <2>2, <2>3, <2>4
  <2> QED BY <1>1, <2>2, <2>3, <2>5 DEF a
<1> QED BY <1>1, <1>2, <1>4, <1>5 DEF q, a

LEMMA ChunksIs ==
  ASSUME TelegramStream!StreamAssumption, TelegramStream!TypeOK
  PROVE  TelegramStream!Chunks \in 1..ts_MaxEvents
<1>1. ts_text \in 0..ts_MaxEvents /\ ts_MaxEvents \in Nat \ {0}
  BY DEF TelegramStream!TypeOK, TelegramStream!StreamAssumption
<1> QED BY <1>1, ChunksAre DEF TelegramStream!Chunks

LEMMA AppendEnds ==
  ASSUME NEW texts \in Seq(Nat), NEW k \in Nat
  PROVE  /\ Append(texts, 0) \in Seq(Nat) /\ EndsPlain(Append(texts, 0))
         /\ Append(texts, k + 1) \in Seq(Nat)
         /\ EndsWith(texts, k) => EndsWith(Append(texts, k + 1), k + 1)
<1>1. EndsPlain(Append(texts, 0))
  BY DEF EndsPlain
<1>2. ASSUME EndsWith(texts, k) PROVE EndsWith(Append(texts, k + 1), k + 1)
  <2>1. PICK n \in Nat : Len(texts) = n + k /\ \A i \in 1..k : texts[n + i] = i
    BY <1>2 DEF EndsWith
  <2>2. Len(Append(texts, k + 1)) = n + (k + 1)
    BY <2>1
  <2>3. ASSUME NEW i \in 1..(k + 1) PROVE Append(texts, k + 1)[n + i] = i
    <3>1. CASE i = k + 1
      BY <2>1, <3>1
    <3>2. CASE i \in 1..k
      <4>1. n + i \in 1..Len(texts)
        BY <2>1, <3>2
      <4> QED BY <2>1, <3>2, <4>1
    <3>3. i = k + 1 \/ i \in 1..k
      OBVIOUS
    <3> QED BY <3>1, <3>2, <3>3
  <2> QED BY <2>2, <2>3 DEF EndsWith
<1> QED BY <1>1, <1>2

\* What Send has sent is what EndsWell asks for.
LEMMA EndsAre ==
  ASSUME NEW texts \in Seq(Nat), NEW k \in Nat, EndsWith(texts, k)
  PROVE  \E n \in 0..Len(texts) : SubSeq(texts, n + 1, Len(texts)) = [i \in 1..k |-> i]
<1>1. PICK n \in Nat : Len(texts) = n + k /\ \A i \in 1..k : texts[n + i] = i
  BY DEF EndsWith
<1>2. n \in 0..Len(texts)
  BY <1>1
<1> DEFINE s == SubSeq(texts, n + 1, Len(texts))
<1>3. \A i \in (n + 1)..Len(texts) : texts[i] \in Nat
  OBVIOUS
<1>4. /\ s \in Seq(Nat) /\ Len(s) = (IF n + 1 <= Len(texts) THEN Len(texts) - (n + 1) + 1 ELSE 0)
      /\ \A i \in 1..(Len(texts) - (n + 1) + 1) : s[i] = texts[n + 1 + i - 1]
  BY <1>1, <1>3, SubSeqProperties
<1> HIDE DEF s
<1>5. Len(s) = k /\ \A i \in 1..k : s[i] = i
  <2>1. Len(s) = k
    BY <1>1, <1>4
  <2>2. ASSUME NEW i \in 1..k PROVE s[i] = i
    <3>1. i \in 1..(Len(texts) - (n + 1) + 1) /\ n + 1 + i - 1 = n + i
      BY <1>1
    <3> QED BY <1>1, <1>4, <3>1
  <2> QED BY <2>1, <2>2
<1>6. s = [i \in 1..k |-> i]
  BY <1>4, <1>5
<1> QED BY <1>2, <1>6 DEF s

-----------------------------------------------------------------------------
(* Calls of the Bot API *)

LEMMA Limits ==
  ASSUME TelegramStream!StreamAssumption
  PROVE  /\ ts_MaxCall \in Nat /\ ts_MaxRefusals \in Nat /\ ts_MaxTime \in Nat /\ ts_MaxEvents \in Nat
         /\ Slack \in Nat /\ Slack = ts_MaxCall + ts_MaxCall
<1>1. ts_MaxCall \in Nat /\ ts_MaxRefusals \in Nat /\ ts_MaxTime \in Nat /\ ts_MaxEvents \in Nat
  BY DEF TelegramStream!StreamAssumption
<1> QED BY <1>1 DEF Slack

LEMMA Numbers ==
  ASSUME TelegramStream!StreamAssumption, TelegramStream!TypeOK
  PROVE  ts_now \in Nat /\ ts_asof \in Nat /\ 1 <= ts_asof /\ ts_asof <= ts_now /\ ts_now <= ts_MaxTime
<1>1. ts_now \in 1..ts_MaxTime /\ ts_asof \in 1..ts_now
  BY DEF TelegramStream!TypeOK
<1> QED BY <1>1, Limits

LEMMA BegunIs ==
  ASSUME TelegramStream!StreamAssumption, TelegramStream!TypeOK, WaitsInv, ts_cooldown <= ts_now,
         TelegramStream!Begun
  PROVE  ts_calls'.early \in Nat /\ ts_calls'.early <= Slack
<1>1. ts_calls'.early = IF ts_now < ts_told
      THEN TelegramStream!Max({ts_calls.early, ts_told - ts_now}) ELSE ts_calls.early
  BY DEF TelegramStream!Begun
<1>2. /\ ts_calls.early \in Nat /\ ts_calls.early <= Slack /\ ts_told \in Nat /\ ts_cooldown \in Nat
      /\ ts_told <= ts_cooldown + Slack /\ ts_now \in Nat /\ Slack \in Nat
  BY Numbers, Limits DEF WaitsInv
<1>3. CASE ts_now < ts_told
  <2>1. ts_told - ts_now \in Nat /\ ts_told - ts_now <= Slack
    BY <1>2, <1>3
  <2>2. ts_calls'.early \in {ts_calls.early, ts_told - ts_now}
    BY <1>1, <1>2, <1>3, <2>1, MaxIs
  <2> QED BY <1>2, <2>1, <2>2
<1> QED BY <1>1, <1>2, <1>3

LEMMA LastsIs ==
  ASSUME TelegramStream!StreamAssumption, TelegramStream!TypeOK, TelegramStream!Lasts
  PROVE  ts_now' \in Nat /\ ts_now <= ts_now' /\ ts_now' <= ts_now + ts_MaxCall /\ ts_now' <= ts_MaxTime
<1>1. PICK d \in 0..ts_MaxCall : ts_now + d <= ts_MaxTime /\ ts_now' = ts_now + d
  BY DEF TelegramStream!Lasts
<1> QED BY <1>1, Numbers, Limits

LEMMA RefusedIs ==
  ASSUME TelegramStream!StreamAssumption, WaitsInv, NEW n \in Nat, ts_now' = n, NEW w \in Nat,
         TelegramStream!Refused(w)
  PROVE  ts_refusals' \in 0..ts_MaxRefusals /\ ts_toldAll' \in Nat
<1>1. ts_refusals' \in 0..ts_MaxRefusals
  <2>1. ts_refusals \in 0..ts_MaxRefusals /\ ts_refusals < ts_MaxRefusals /\ ts_refusals' = ts_refusals + 1
    BY DEF TelegramStream!Refused, WaitsInv
  <2> QED BY <2>1, Limits
<1>2. ts_toldAll \in Nat /\ n + w \in Nat
  <2>1. ts_toldAll \in Nat
    BY DEF WaitsInv
  <2> QED BY <2>1
<1>3. TelegramStream!Max({ts_toldAll, n + w}) \in {ts_toldAll, n + w}
  BY <1>2, MaxIs
<1>4. ts_toldAll' = ts_toldAll \/ ts_toldAll' = TelegramStream!Max({ts_toldAll, n + w})
  BY DEF TelegramStream!Refused
<1> QED BY <1>1, <1>2, <1>3, <1>4

LEMMA CooldownIs ==
  ASSUME TelegramStream!StreamAssumption, WaitsInv, NEW n \in Nat, ts_now' = n, NEW clock \in Nat,
         n <= clock + Slack,
         NEW w \in Nat, TelegramStream!SetCooldown(clock, w)
  PROVE  ts_cooldown' \in Nat /\ ts_told' \in Nat /\ ts_told' <= ts_cooldown' + Slack
<1>1. ts_cooldown \in Nat /\ ts_told \in Nat /\ ts_told <= ts_cooldown + Slack /\ Slack \in Nat
  BY Limits DEF WaitsInv
<1>2. CASE w = 0
  BY <1>1, <1>2 DEF TelegramStream!SetCooldown
<1>3. CASE w # 0
  <2>1. ts_cooldown' = TelegramStream!Max({ts_cooldown, clock + w})
        /\ ts_told' = TelegramStream!Max({ts_told, n + w})
    BY <1>3 DEF TelegramStream!SetCooldown
  <2>2. clock + w \in Nat /\ n + w \in Nat /\ n + w <= (clock + w) + Slack
    BY <1>1
  <2>3. ts_cooldown' \in {ts_cooldown, clock + w} /\ ts_cooldown' >= ts_cooldown /\ ts_cooldown' >= clock + w
    BY <1>1, <2>1, <2>2, MaxIs
  <2>4. ts_told' = ts_told \/ ts_told' = n + w
    BY <1>1, <2>1, <2>2, MaxIs
  <2>5. PICK c \in Nat : c = ts_cooldown' /\ c >= ts_cooldown /\ c >= clock + w
    BY <1>1, <2>2, <2>3
  <2>6. c >= ts_cooldown /\ c >= clock + w
    BY <2>5
  <2>7. ts_told <= c + Slack
    BY <1>1, <2>6
  <2>8. n + w <= c + Slack
    BY <1>1, <2>2, <2>6
  <2> QED BY <1>1, <2>2, <2>4, <2>5, <2>7, <2>8
<1> QED BY <1>2, <1>3

LEMMA WaitIs == ASSUME TelegramStream!StreamAssumption, NEW w \in ts_Waits \cup {0} PROVE w \in Nat
BY DEF TelegramStream!StreamAssumption

\* A call outside the cooldown, by a clock read one call ago at the earliest, shows its message or is refused.
LEMMA CallIs ==
  ASSUME TelegramStream!StreamAssumption, TelegramStream!TypeOK, ApiInv, NEW clock \in Nat, clock <= ts_now,
         ts_now <= clock + ts_MaxCall,
         ~TelegramStream!InCooldown(clock), NEW try \in TelegramStream!Tries, NEW name,
         name \subseteq {"status", "content"}, TelegramStream!Call(clock, try, name)
  PROVE  /\ ApiInv' /\ ts_chat'.texts = ts_chat.texts
         /\ ts_chat'.temps = ts_chat.temps \cup (IF try.ok THEN name ELSE {})
         /\ ts_now' \in Nat /\ ts_now <= ts_now' /\ ts_now' <= ts_now + ts_MaxCall /\ ts_now' <= ts_MaxTime
<1>1. /\ ts_now \in Nat /\ ts_cooldown \in Nat /\ ts_cooldown <= ts_now /\ ts_MaxCall \in Nat
         /\ Slack = ts_MaxCall + ts_MaxCall
      /\ WaitsInv /\ ChatInv
  BY Numbers, Limits DEF TelegramStream!InCooldown, ApiInv, WaitsInv
<1>2. ts_calls'.early \in Nat /\ ts_calls'.early <= Slack
  BY <1>1, BegunIs DEF TelegramStream!Call
<1>3. ts_now' \in Nat /\ ts_now <= ts_now' /\ ts_now' <= ts_now + ts_MaxCall /\ ts_now' <= ts_MaxTime
  BY LastsIs DEF TelegramStream!Call
<1>4. CASE try.ok
  <2>1. ts_chat' = [ts_chat EXCEPT !.temps = @ \cup name]
        /\ UNCHANGED <<ts_refusals, ts_cooldown, ts_told, ts_toldAll>>
    BY <1>4 DEF TelegramStream!Call
  <2>2. ts_chat' = [texts |-> ts_chat.texts, temps |-> ts_chat.temps \cup name]
    BY <1>1, <2>1 DEF ChatInv
  <2>3. ChatInv'
    BY <1>1, <2>2 DEF ChatInv
  <2>4. WaitsInv'
    BY <1>1, <1>2, <2>1 DEF WaitsInv, Slack
  <2> QED BY <1>3, <1>4, <2>2, <2>3, <2>4 DEF ApiInv
<1>5. CASE ~try.ok
  <2>1. try.wait \in Nat
    <3>1. try.wait \in ts_Waits \cup {0}
      BY DEF TelegramStream!Tries
    <3> QED BY <3>1, WaitIs
  <2>2. TelegramStream!Refused(try.wait) /\ TelegramStream!SetCooldown(clock, try.wait) /\ ts_chat' = ts_chat
    BY <1>5 DEF TelegramStream!Call
  <2>3. PICK n \in Nat : ts_now' = n
    BY <1>3
  <2>4. n <= clock + Slack
    BY <1>1, <1>3, <2>3
  <2>5. ts_refusals' \in 0..ts_MaxRefusals /\ ts_toldAll' \in Nat
    BY <1>1, <2>1, <2>2, <2>3, RefusedIs
  <2>6. ts_cooldown' \in Nat /\ ts_told' \in Nat /\ ts_told' <= ts_cooldown' + Slack
    BY <1>1, <2>1, <2>2, <2>3, <2>4, CooldownIs
  <2>7. WaitsInv'
    BY <1>2, <2>5, <2>6 DEF WaitsInv, Slack
  <2>8. ChatInv'
    BY <1>1, <2>2 DEF ChatInv
  <2> QED BY <1>3, <1>5, <2>2, <2>7, <2>8 DEF ApiInv
<1> QED BY <1>4, <1>5

LEMMA SameApi ==
  ASSUME ApiInv, UNCHANGED TelegramStream!apiVars PROVE ApiInv'
<1>1. UNCHANGED <<ts_chat, ts_calls, ts_refusals, ts_cooldown, ts_told, ts_toldAll>>
  BY DEF TelegramStream!apiVars
<1>2. WaitsInv'
  BY <1>1 DEF ApiInv, WaitsInv, Slack
<1>3. ChatInv'
  BY <1>1 DEF ApiInv, ChatInv
<1> QED BY <1>2, <1>3 DEF ApiInv

LEMMA AfterIs ==
  ASSUME NEW clock \in 0..ts_MaxTime, NEW m \in TelegramStream!Msg, NEW try
  PROVE  /\ TelegramStream!After(clock, m, try) \in TelegramStream!Msg
            /\ TelegramStream!After(clock, m, try).id = m.id
         /\ TelegramStream!After(clock, m, try).dirty \/ TelegramStream!After(clock, m, try).last = clock
<1>1. m.id \in BOOLEAN /\ m.dirty \in BOOLEAN /\ m.last \in 0..ts_MaxTime
      /\ m = [id |-> m.id, dirty |-> m.dirty, last |-> m.last]
  BY DEF TelegramStream!Msg
<1>2. CASE try.ok
  <2>1. TelegramStream!After(clock, m, try) = [id |-> m.id, dirty |-> FALSE, last |-> clock]
    BY <1>1, <1>2 DEF TelegramStream!After
  <2> QED BY <1>1, <2>1 DEF TelegramStream!Msg
<1>3. CASE ~try.ok
  <2>1. TelegramStream!After(clock, m, try) = [id |-> m.id, dirty |-> TRUE, last |-> m.last]
    BY <1>1, <1>3 DEF TelegramStream!After
  <2> QED BY <1>1, <2>1 DEF TelegramStream!Msg
<1> QED BY <1>2, <1>3

\* The card: nothing but it is shown, and then its id is known.
LEMMA CardIs ==
  ASSUME TelegramStream!StreamAssumption, TelegramStream!TypeOK, ApiInv, NEW clock \in Nat, clock <= ts_now,
         ts_now <= clock + ts_MaxCall,
         TelegramStream!ShowCard(clock)
  PROVE  /\ ApiInv' /\ ts_status' \in TelegramStream!Msg /\ ts_chat'.texts = ts_chat.texts
         /\ "content" \in ts_chat'.temps => "content" \in ts_chat.temps
         /\ ("status" \in ts_chat.temps => ts_status.id) => ("status" \in ts_chat'.temps => ts_status'.id)
         /\ ts_now' \in Nat /\ ts_now <= ts_now' /\ ts_now' <= ts_now + ts_MaxCall /\ ts_now' <= ts_MaxTime
         /\ ts_status'.dirty \/ ts_status'.last = clock
<1>1. ts_status \in TelegramStream!Msg /\ ts_status.id \in BOOLEAN /\ ts_now \in Nat /\ ts_now <= ts_MaxTime
      /\ ts_MaxCall \in Nat
      /\ clock \in 0..ts_MaxTime
  BY Numbers, Limits DEF TelegramStream!TypeOK, TelegramStream!Msg
<1>2. CASE TelegramStream!InCooldown(clock)
  <2>1. ts_status' = [ts_status EXCEPT !.dirty = TRUE] /\ UNCHANGED TelegramStream!apiVars
    BY <1>2 DEF TelegramStream!ShowCard
  <2>2. ts_status' \in TelegramStream!Msg /\ ts_status'.id = ts_status.id /\ ts_status'.dirty
    BY <1>1, <2>1 DEF TelegramStream!Msg
  <2>3. ApiInv' /\ ts_chat' = ts_chat /\ ts_now' = ts_now
    BY <2>1, SameApi DEF TelegramStream!apiVars
  <2> QED BY <1>1, <2>2, <2>3
<1>3. CASE ~TelegramStream!InCooldown(clock)
  <2>1. PICK try \in TelegramStream!Tries : /\ TelegramStream!Call(clock, try, {"status"})
                                            /\ ts_status' = [TelegramStream!After(clock, ts_status, try) EXCEPT !.id = @ \/ try.ok]
    BY <1>3 DEF TelegramStream!ShowCard
  <2>2. try.ok \in BOOLEAN
    BY DEF TelegramStream!Tries
  <2>3. /\ ApiInv' /\ ts_chat'.texts = ts_chat.texts
           /\ ts_chat'.temps = ts_chat.temps \cup (IF try.ok THEN {"status"} ELSE {})
        /\ ts_now' \in Nat /\ ts_now <= ts_now' /\ ts_now' <= ts_now + ts_MaxCall /\ ts_now' <= ts_MaxTime
    BY <1>3, <2>1, CallIs
  <2> DEFINE a == TelegramStream!After(clock, ts_status, try)
  <2>4. a \in TelegramStream!Msg /\ a.id = ts_status.id /\ (a.dirty \/ a.last = clock)
    BY AfterIs, <1>1
  <2>5. ts_status' = [a EXCEPT !.id = @ \/ try.ok]
    BY <2>1
  <2> HIDE DEF a
  <2>6. /\ ts_status' \in TelegramStream!Msg /\ (ts_status'.id <=> ts_status.id \/ try.ok)
        /\ ts_status'.dirty = a.dirty /\ ts_status'.last = a.last
    BY <1>1, <2>2, <2>4, <2>5 DEF TelegramStream!Msg
  <2> QED BY <2>2, <2>3, <2>4, <2>6
<1> QED BY <1>2, <1>3

\* The text, where it is a message: the same.
LEMMA ContentIs ==
  ASSUME TelegramStream!StreamAssumption, TelegramStream!TypeOK, ApiInv, ts_mode.draft \in BOOLEAN,
         NEW clock \in Nat, clock <= ts_now, ts_now <= clock + ts_MaxCall,
         NEW m \in TelegramStream!Msg, m.id = ts_content.id, NEW t, NEW force,
         TelegramStream!FlushContent(clock, m, t, force)
  PROVE  /\ ApiInv' /\ ts_content' \in TelegramStream!Msg /\ ts_chat'.texts = ts_chat.texts
         /\ "status" \in ts_chat'.temps => "status" \in ts_chat.temps
         /\ ("content" \in ts_chat.temps => ts_content.id) => ("content" \in ts_chat'.temps => ts_content'.id)
         /\ ts_now' \in Nat /\ ts_now <= ts_now' /\ ts_now' <= ts_now + ts_MaxCall /\ ts_now' <= ts_MaxTime
<1>1. m.id \in BOOLEAN /\ ts_now \in Nat /\ ts_now <= ts_MaxTime /\ ts_MaxCall \in Nat
      /\ clock \in 0..ts_MaxTime
  BY Numbers, Limits DEF TelegramStream!Msg
<1>2. CASE ts_content' = m /\ UNCHANGED TelegramStream!apiVars
  <2>1. ApiInv' /\ ts_chat' = ts_chat /\ ts_now' = ts_now
    BY <1>2, SameApi DEF TelegramStream!apiVars
  <2> QED BY <1>1, <1>2, <2>1
<1>3. CASE ts_content' = [m EXCEPT !.dirty = FALSE] /\ UNCHANGED TelegramStream!apiVars
  <2>1. ts_content' \in TelegramStream!Msg /\ ts_content'.id = m.id
    BY <1>1, <1>3 DEF TelegramStream!Msg
  <2>2. ApiInv' /\ ts_chat' = ts_chat /\ ts_now' = ts_now
    BY <1>3, SameApi DEF TelegramStream!apiVars
  <2> QED BY <1>1, <2>1, <2>2
<1>4. CASE t # 0 /\ ~TelegramStream!InCooldown(clock)
           /\ \E try \in TelegramStream!Tries :
                /\ TelegramStream!Call(clock, try, IF ts_mode.draft THEN {} ELSE {"content"})
                /\ ts_content' = [TelegramStream!After(clock, m, try) EXCEPT !.id = @ \/ (try.ok /\ ~ts_mode.draft)]
  <2>1. PICK try \in TelegramStream!Tries :
        /\ TelegramStream!Call(clock, try, IF ts_mode.draft THEN {} ELSE {"content"})
                                            /\ ts_content' = [TelegramStream!After(clock, m, try) EXCEPT !.id = @ \/ (try.ok /\ ~ts_mode.draft)]
    BY <1>4
  <2>2. try.ok \in BOOLEAN
    BY DEF TelegramStream!Tries
  <2>3. /\ ApiInv' /\ ts_chat'.texts = ts_chat.texts
        /\ ts_chat'.temps = ts_chat.temps \cup (IF try.ok THEN (IF ts_mode.draft THEN {} ELSE {"content"}) ELSE {})
        /\ ts_now' \in Nat /\ ts_now <= ts_now' /\ ts_now' <= ts_now + ts_MaxCall /\ ts_now' <= ts_MaxTime
    <3> DEFINE name == IF ts_mode.draft THEN {} ELSE {"content"}
    <3>1. name \subseteq {"status", "content"}
      OBVIOUS
    <3>2. TelegramStream!Call(clock, try, name)
      BY <2>1
    <3> HIDE DEF name
    <3>3. /\ ApiInv' /\ ts_chat'.texts = ts_chat.texts
             /\ ts_chat'.temps = ts_chat.temps \cup (IF try.ok THEN name ELSE {})
          /\ ts_now' \in Nat /\ ts_now <= ts_now' /\ ts_now' <= ts_now + ts_MaxCall /\ ts_now' <= ts_MaxTime
      BY <1>4, <3>1, <3>2, CallIs
    <3> QED BY <3>3 DEF name
  <2> DEFINE a == TelegramStream!After(clock, m, try)
  <2>4. a \in TelegramStream!Msg /\ a.id = m.id
    BY <1>1, AfterIs
  <2>5. ts_content' = [a EXCEPT !.id = @ \/ (try.ok /\ ~ts_mode.draft)]
    BY <2>1
  <2> HIDE DEF a
  <2>6. ts_content' \in TelegramStream!Msg /\ (ts_content'.id <=> m.id \/ (try.ok /\ ~ts_mode.draft))
    BY <1>1, <2>2, <2>4, <2>5 DEF TelegramStream!Msg
  <2> QED BY <2>2, <2>3, <2>6
<1> QED BY <1>2, <1>3, <1>4 DEF TelegramStream!FlushContent

-----------------------------------------------------------------------------
(* The steps *)

LEMMA StreamInit == ASSUME TelegramStream!StreamAssumption PROVE TelegramStream!Init => StreamInv
<1> SUFFICES ASSUME TelegramStream!Init PROVE StreamInv
  OBVIOUS
<1>1. ts_chat = [texts |-> ts_chat.texts, temps |-> ts_chat.temps] /\ ts_chat.texts \in Seq(Nat)
      /\ ts_chat.temps = {}
  BY DEF TelegramStream!Init
<1>2. ts_cooldown = 0 /\ ts_told = 0 /\ ts_toldAll = 0 /\ ts_calls.early = 0
      /\ ts_refusals \in 0..ts_MaxRefusals /\ ts_MaxCall \in Nat
  BY DEF TelegramStream!Init, TelegramStream!Never, TelegramStream!StreamAssumption
<1>3. TelegramStream!TypeOK
  BY DEF TelegramStream!Init, TelegramStream!TypeOK, TelegramStream!Msg, TelegramStream!NoMsg,
     TelegramStream!StreamAssumption, TelegramStream!Never
<1>4. ApiInv
  BY <1>2, <1>1, Limits DEF ApiInv, WaitsInv, ChatInv
<1>5. ts_text + ts_left <= ts_MaxEvents /\ ts_mode \in [draft : BOOLEAN, card : BOOLEAN]
  BY DEF TelegramStream!Init, TelegramStream!StreamAssumption
<1>6. TempsInv /\ StreamSendInv /\ FlushInv
  BY <1>1 DEF TelegramStream!Init, TempsInv, StreamSendInv, FlushInv
<1> QED BY <1>3, <1>4, <1>5, <1>6 DEF StreamInv

\* What a step before the final text may do: show the card or the text, and take its time over it.
Shows ==
  /\ ApiInv' /\ ts_status' \in TelegramStream!Msg /\ ts_content' \in TelegramStream!Msg
  /\ ts_chat'.texts = ts_chat.texts
  /\ "status" \in ts_chat'.temps => ts_status'.id
  /\ "content" \in ts_chat'.temps => ts_content'.id
  /\ ts_now' \in Nat /\ ts_now <= ts_now' /\ ts_now' <= ts_now + ts_MaxCall /\ ts_now' <= ts_MaxTime

LEMMA ShowsNothing ==
  ASSUME TelegramStream!StreamAssumption, StreamInv, UNCHANGED TelegramStream!apiVars,
         ts_status' \in TelegramStream!Msg, ts_status'.id = ts_status.id, ts_content' \in TelegramStream!Msg,
         ts_content'.id = ts_content.id
  PROVE  Shows /\ ts_now' = ts_now
<1>1. ApiInv /\ TempsInv /\ ts_now \in Nat /\ ts_now <= ts_MaxTime /\ ts_MaxCall \in Nat
  BY Numbers, Limits DEF StreamInv
<1>2. ts_now' = ts_now /\ ts_chat' = ts_chat
  BY DEF TelegramStream!apiVars
<1>3. ApiInv'
  BY <1>1, SameApi
<1> QED BY <1>1, <1>2, <1>3 DEF Shows, TempsInv

LEMMA ShowsCard ==
  ASSUME TelegramStream!StreamAssumption, StreamInv, NEW clock \in Nat, clock <= ts_now,
         ts_now <= clock + ts_MaxCall,
         TelegramStream!ShowCard(clock), ts_content' = ts_content
  PROVE  Shows /\ (ts_status'.dirty \/ ts_status'.last = clock)
<1>1. TelegramStream!TypeOK /\ ApiInv /\ TempsInv /\ ts_content \in TelegramStream!Msg
  BY DEF StreamInv, TelegramStream!TypeOK
<1> QED BY <1>1, CardIs DEF Shows, TempsInv

LEMMA ShowsText ==
  ASSUME TelegramStream!StreamAssumption, StreamInv, NEW clock \in Nat, clock <= ts_now,
         ts_now <= clock + ts_MaxCall,
         NEW m \in TelegramStream!Msg, m.id = ts_content.id, NEW t, NEW force,
         TelegramStream!FlushContent(clock, m, t, force), ts_status' = ts_status
  PROVE  Shows
<1>1. TelegramStream!TypeOK /\ ApiInv /\ TempsInv /\ ts_status \in TelegramStream!Msg
      /\ ts_mode.draft \in BOOLEAN
  BY DEF StreamInv, TelegramStream!TypeOK
<1> QED BY <1>1, ContentIs DEF Shows, TempsInv

LEMMA ShownIs ==
  ASSUME TelegramStream!StreamAssumption, StreamInv, Shows, FlushInv', ts_mode' = ts_mode, ts_asof' = ts_asof,
         ts_toSend' = ts_toSend,
         ts_left' \in 0..ts_MaxEvents, ts_text' \in 0..ts_MaxEvents, ts_text' + ts_left' <= ts_MaxEvents,
         ts_pc' \notin {"send", "plain", "sent", "untidy"}
  PROVE  StreamInv'
<1>1. TelegramStream!TypeOK /\ ts_asof \in Nat /\ 1 <= ts_asof /\ ts_asof <= ts_now /\ ts_now \in Nat
      /\ ts_MaxTime \in Nat
  BY Numbers, Limits DEF StreamInv
<1>2. PICK n \in Nat : n = ts_now' /\ ts_now <= n /\ n <= ts_MaxTime
  BY DEF Shows
<1>3. n \in 1..ts_MaxTime /\ ts_asof \in 1..n
  BY <1>1, <1>2
<1>4. ts_refusals' \in 0..ts_MaxRefusals /\ ts_chat'.temps \subseteq {"status", "content"}
  BY DEF Shows, ApiInv, WaitsInv, ChatInv
<1>5. ts_status' \in TelegramStream!Msg /\ ts_content' \in TelegramStream!Msg
      /\ ts_toSend' \in 0..ts_MaxEvents
  BY <1>1 DEF Shows, TelegramStream!TypeOK
<1>6. TelegramStream!TypeOK'
  BY <1>2, <1>3, <1>4, <1>5 DEF TelegramStream!TypeOK
<1> QED BY <1>6 DEF StreamInv, Shows, TempsInv, StreamSendInv

LEMMA EventStep ==
  ASSUME TelegramStream!StreamAssumption, StreamInv, TelegramStream!Delta \/ TelegramStream!CardEvent
  PROVE  StreamInv'
<1>1. TelegramStream!TypeOK /\ ts_content \in TelegramStream!Msg /\ ts_status \in TelegramStream!Msg
      /\ ts_mode.card \in BOOLEAN
      /\ ts_now \in Nat /\ ts_MaxCall \in Nat /\ ts_now <= ts_now + ts_MaxCall
  BY Numbers, Limits DEF StreamInv, TelegramStream!TypeOK
<1>2. ts_mode' = ts_mode /\ ts_asof' = ts_asof /\ ts_toSend' = ts_toSend /\ ts_pc' = "stream"
  BY DEF TelegramStream!Delta, TelegramStream!CardEvent, TelegramStream!sendVars
<1>3. ts_left' \in 0..ts_MaxEvents /\ ts_text' \in 0..ts_MaxEvents /\ ts_text' + ts_left' <= ts_MaxEvents
  <2>1. ts_left \in 0..ts_MaxEvents /\ ts_text \in 0..ts_MaxEvents /\ ts_text + ts_left <= ts_MaxEvents
        /\ ts_MaxEvents \in Nat
    BY DEF StreamInv, TelegramStream!TypeOK, TelegramStream!StreamAssumption
  <2>2. ts_left > 0 /\ ts_left' = ts_left - 1
        /\ (ts_text' = ts_text + 1 \/ ts_text' = ts_text \/ ts_text' = 0)
    BY DEF TelegramStream!Delta, TelegramStream!CardEvent
  <2> QED BY <2>1, <2>2
<1>4. [ts_content EXCEPT !.dirty = TRUE] \in TelegramStream!Msg
      /\ [ts_content EXCEPT !.dirty = TRUE].id = ts_content.id
      /\ [ts_status EXCEPT !.dirty = @ \/ ts_mode.card] \in TelegramStream!Msg
         /\ [ts_status EXCEPT !.dirty = @ \/ ts_mode.card].id = ts_status.id
  BY <1>1 DEF TelegramStream!Msg
<1>5. Shows
  <2>1. CASE TelegramStream!Delta
    <3> DEFINE m == [ts_content EXCEPT !.dirty = TRUE]
    <3>1. ts_status' = ts_status
      BY <2>1 DEF TelegramStream!Delta
    <3>2. CASE ts_mode.draft
      <4>1. TelegramStream!FlushContent(ts_now, m, ts_text', FALSE)
        BY <2>1, <3>2 DEF TelegramStream!Delta
      <4> HIDE DEF m
      <4>2. m \in TelegramStream!Msg /\ m.id = ts_content.id
        BY <1>4 DEF m
      <4>3. ts_now <= ts_now
        BY <1>1
      <4> QED BY <1>1, <3>1, <4>1, <4>2, <4>3, ShowsText
    <3>3. CASE ~ts_mode.draft
      <4>1. ts_content' = m /\ UNCHANGED TelegramStream!apiVars
        BY <2>1, <3>3 DEF TelegramStream!Delta
      <4> QED BY <1>1, <1>4, <3>1, <4>1, ShowsNothing
    <3> QED BY <3>2, <3>3
  <2>2. CASE TelegramStream!CardEvent
    <3>1. ts_content' = ts_content /\ TelegramStream!TryUpdateStatus
      BY <2>2 DEF TelegramStream!CardEvent
    <3>2. CASE TelegramStream!ShowCard(ts_now)
      BY <1>1, <3>1, <3>2, ShowsCard
    <3>3. CASE ts_status' = [ts_status EXCEPT !.dirty = @ \/ ts_mode.card] /\ UNCHANGED TelegramStream!apiVars
      BY <1>1, <1>4, <3>1, <3>3, ShowsNothing
    <3> QED BY <3>1, <3>2, <3>3 DEF TelegramStream!TryUpdateStatus
  <2> QED BY <2>1, <2>2
<1>6. FlushInv'
  BY <1>2 DEF FlushInv
<1> QED BY <1>2, <1>3, <1>5, <1>6, ShownIs

LEMMA FlushStep ==
  ASSUME TelegramStream!StreamAssumption, StreamInv,
         TelegramStream!FlushCard \/ TelegramStream!FlushText \/ TelegramStream!FlushBeat
  PROVE  StreamInv'
<1>1. TelegramStream!TypeOK /\ FlushInv /\ ts_content \in TelegramStream!Msg
      /\ ts_status \in TelegramStream!Msg
      /\ ts_now \in Nat /\ ts_MaxCall \in Nat /\ ts_asof \in Nat /\ 1 <= ts_asof /\ ts_asof <= ts_now
  BY Numbers, Limits DEF StreamInv, TelegramStream!TypeOK
<1>2. ts_mode' = ts_mode /\ ts_asof' = ts_asof /\ ts_toSend' = ts_toSend
      /\ ts_pc' \notin {"send", "plain", "sent", "untidy"}
  BY DEF TelegramStream!FlushCard, TelegramStream!FlushText, TelegramStream!FlushBeat, TelegramStream!sendVars
<1>3. ts_left' \in 0..ts_MaxEvents /\ ts_text' \in 0..ts_MaxEvents /\ ts_text' + ts_left' <= ts_MaxEvents
  BY DEF TelegramStream!FlushCard, TelegramStream!FlushText, TelegramStream!FlushBeat, StreamInv,
     TelegramStream!TypeOK
<1>4. ASSUME UNCHANGED <<ts_status, ts_content, TelegramStream!apiVars>> PROVE Shows /\ ts_now' = ts_now
  BY <1>1, <1>4, ShowsNothing
<1>5. CASE TelegramStream!FlushCard
  <2>1. ts_pc \in {"tick", "last"} /\ ts_now = ts_asof
        /\ ts_pc' \in {"cool", "stream", "last text", "tick text"}
        /\ ts_content' = ts_content
           /\ (TelegramStream!ShowCard(ts_asof) \/ UNCHANGED <<ts_status, TelegramStream!apiVars>>)
    BY <1>1, <1>5 DEF TelegramStream!FlushCard, FlushInv
  <2>2. ts_now = ts_asof
    BY <2>1
  <2>3. ts_now <= ts_asof + ts_MaxCall
    BY <1>1, <2>2
  <2>4. CASE TelegramStream!ShowCard(ts_asof)
    <3>1. Shows /\ (ts_status'.dirty \/ ts_status'.last = ts_asof)
      BY <1>1, <2>1, <2>4, <2>3, ShowsCard
    <3>2. FlushInv'
      BY <1>2, <2>1, <3>1 DEF Shows, FlushInv, CardIsDue
    <3> QED BY <1>2, <1>3, <3>1, <3>2, ShownIs
  <2>5. CASE UNCHANGED <<ts_status, TelegramStream!apiVars>>
    <3>1. Shows /\ ts_now' = ts_now
      BY <1>4, <2>1, <2>5
    <3>2. FlushInv'
      BY <1>1, <1>2, <2>1, <2>3, <3>1 DEF FlushInv
    <3> QED BY <1>2, <1>3, <3>1, <3>2, ShownIs
  <2> QED BY <2>1, <2>4, <2>5
<1>6. CASE TelegramStream!FlushText
  <2>1. ts_pc \in {"tick text", "last text"} /\ ts_pc' \in {"tick beat", "last beat"}
        /\ ts_status' = ts_status
           /\ TelegramStream!FlushContent(ts_asof, ts_content, ts_text, ts_pc = "last text")
    BY <1>6 DEF TelegramStream!FlushText
  <2>2. ts_now <= ts_asof + ts_MaxCall /\ (ts_now = ts_asof \/ CardIsDue)
    BY <1>1, <2>1 DEF FlushInv
  <2>3. Shows
    BY <1>1, <2>1, <2>2, ShowsText
  <2>4. CardIsDue' = CardIsDue
    BY <1>2, <2>1 DEF CardIsDue
  <2>5. PICK n \in Nat : ts_now' = n /\ n <= ts_now + ts_MaxCall
    BY <2>3 DEF Shows
  <2>6. n <= ts_asof + Slack /\ (n <= ts_asof + ts_MaxCall \/ CardIsDue)
    <3>1. Slack \in Nat /\ Slack = ts_MaxCall + ts_MaxCall
      BY Limits
    <3> QED BY <1>1, <2>2, <2>5, <3>1
  <2>7. FlushInv'
    BY <1>2, <2>1, <2>4, <2>5, <2>6 DEF FlushInv, Slack
  <2> QED BY <1>2, <1>3, <2>3, <2>7, ShownIs
<1>7. CASE TelegramStream!FlushBeat
  <2>1. ts_pc \in {"tick beat", "last beat"} /\ ts_pc' \in {"stream", "cool"} /\ ts_content' = ts_content
    BY <1>7 DEF TelegramStream!FlushBeat
  <2>2. FlushInv'
    BY <2>1 DEF FlushInv
  <2>3. CASE UNCHANGED <<ts_status, TelegramStream!apiVars>>
    BY <1>2, <1>3, <1>4, <2>1, <2>2, <2>3, ShownIs
  <2>4. CASE ~ts_status.dirty /\ TelegramStream!Gap(ts_asof, ts_status, ts_Heartbeat)
        /\ TelegramStream!ShowCard(ts_asof)
    <3>1. ts_status.last # ts_asof
      BY <1>1, <2>4 DEF TelegramStream!Gap, TelegramStream!Never, TelegramStream!StreamAssumption
    <3>2. ts_now <= ts_asof + ts_MaxCall
      BY <1>1, <2>1, <2>4, <3>1 DEF FlushInv, CardIsDue
    <3>3. Shows
      BY <1>1, <2>1, <2>4, <3>2, ShowsCard
    <3> QED BY <1>2, <1>3, <2>2, <3>3, ShownIs
  <2> QED BY <1>7, <2>3, <2>4 DEF TelegramStream!FlushBeat
<1> QED BY <1>5, <1>6, <1>7

\* The steps that show nothing.
LEMMA QuietStep ==
  ASSUME TelegramStream!StreamAssumption, StreamInv,
         TelegramStream!EventsEnd \/ TelegramStream!CtxEnds \/ TelegramStream!Ticks \/ TelegramStream!SendBegins \/ TelegramStream!Clock \/ UNCHANGED TelegramStream!vars
  PROVE  StreamInv'
<1>1. TelegramStream!TypeOK /\ ApiInv /\ TempsInv /\ StreamSendInv /\ FlushInv
      /\ TelegramStream!Chunks \in 1..ts_MaxEvents
      /\ ts_now \in Nat /\ ts_asof \in Nat /\ 1 <= ts_asof /\ ts_asof <= ts_now /\ ts_now <= ts_MaxTime
         /\ ts_MaxTime \in Nat
      /\ ts_left \in 0..ts_MaxEvents /\ ts_text \in 0..ts_MaxEvents /\ ts_text + ts_left <= ts_MaxEvents
         /\ ts_MaxEvents \in Nat
  <2>1. TelegramStream!TypeOK /\ ApiInv /\ TempsInv /\ StreamSendInv /\ FlushInv
        /\ ts_text + ts_left <= ts_MaxEvents
    BY DEF StreamInv
  <2>2. ts_left \in 0..ts_MaxEvents /\ ts_text \in 0..ts_MaxEvents
    BY <2>1 DEF TelegramStream!TypeOK
  <2> QED BY <2>1, <2>2, Numbers, Limits, ChunksIs
<1>2. UNCHANGED <<ts_mode, ts_text, ts_status, ts_content, ts_cooldown, ts_told, ts_toldAll, ts_refusals,
                  ts_calls, ts_chat>>
  BY DEF TelegramStream!EventsEnd, TelegramStream!CtxEnds, TelegramStream!Ticks, TelegramStream!SendBegins,
     TelegramStream!Clock, TelegramStream!apiVars, TelegramStream!finalRest, TelegramStream!vars
<1>3. ApiInv' /\ ts_cooldown \in Nat
  BY <1>1, <1>2 DEF ApiInv, WaitsInv, ChatInv, Slack
<1>4. CASE TelegramStream!EventsEnd \/ TelegramStream!CtxEnds \/ TelegramStream!Ticks \/ TelegramStream!Clock
  <2>1. /\ ts_left' \in {0, ts_left} /\ ts_toSend' = ts_toSend
        /\ ts_now' \in Nat /\ ts_now <= ts_now' /\ ts_now' <= ts_MaxTime /\ ts_asof' \in 1..ts_now'
    BY <1>1, <1>4 DEF TelegramStream!EventsEnd, TelegramStream!CtxEnds, TelegramStream!Ticks,
       TelegramStream!Clock, TelegramStream!sendVars, TelegramStream!finalRest, TelegramStream!apiVars
  <2>2. TelegramStream!TypeOK' /\ ts_text' + ts_left' <= ts_MaxEvents
    BY <1>1, <1>2, <2>1 DEF TelegramStream!TypeOK
  <2>3. ts_pc' \notin {"send", "plain", "sent", "untidy", "tick text", "last text", "tick beat", "last beat"}
        /\ (ts_pc' \in {"tick", "last"} => ts_asof' = ts_now')
    BY <1>4 DEF TelegramStream!EventsEnd, TelegramStream!CtxEnds, TelegramStream!Ticks, TelegramStream!Clock,
       TelegramStream!apiVars
  <2>4. FlushInv'
    BY <2>3 DEF FlushInv
  <2> QED BY <1>1, <1>2, <1>3, <2>2, <2>3, <2>4 DEF StreamInv, TempsInv, StreamSendInv
<1>5. CASE TelegramStream!SendBegins
  <2>1. ts_toSend' = TelegramStream!Chunks /\ TelegramStream!Chunks' = TelegramStream!Chunks
        /\ ts_now' = ts_now /\ ts_asof' = ts_asof /\ ts_left' = ts_left /\ ts_pc' = "send"
        /\ ts_cooldown <= ts_now
    BY <1>1, <1>2, <1>3, <1>5 DEF TelegramStream!SendBegins, TelegramStream!Chunks, TelegramStream!finalRest,
       TelegramStream!apiVars, TelegramStream!InCooldown
  <2>2. EndsWith(ts_chat.texts, 0)
    <3>1. Len(ts_chat.texts) \in Nat /\ Len(ts_chat.texts) = Len(ts_chat.texts) + 0 /\ 1..0 = {}
      BY <1>1 DEF ApiInv, ChatInv
    <3> QED BY <3>1 DEF EndsWith
  <2>3. TelegramStream!Chunks' - ts_toSend' = 0
    BY <1>1, <2>1
  <2>4. TelegramStream!TypeOK'
    BY <1>1, <1>2, <2>1 DEF TelegramStream!TypeOK
  <2>5. FlushInv'
    BY <2>1 DEF FlushInv
  <2>6. ts_cooldown' <= ts_now' /\ ts_toSend' <= TelegramStream!Chunks'
    BY <1>1, <1>2, <2>1
  <2>7. StreamSendInv'
    BY <1>1, <1>2, <2>1, <2>2, <2>3, <2>6 DEF StreamSendInv
  <2>8. StreamSendInv' /\ FlushInv'
    BY <2>5, <2>7
  <2> QED BY <1>1, <1>2, <1>3, <2>1, <2>4, <2>8 DEF StreamInv, TempsInv
<1>6. CASE UNCHANGED TelegramStream!vars
  <2>1. UNCHANGED <<ts_now, ts_asof, ts_mode, ts_pc, ts_left, ts_text, ts_status, ts_content, ts_toSend,
                    ts_chat, ts_cooldown>> /\ TelegramStream!Chunks' = TelegramStream!Chunks
    BY <1>6 DEF TelegramStream!vars, TelegramStream!Chunks
  <2>2. TempsInv' /\ FlushInv' /\ ts_text' + ts_left' <= ts_MaxEvents
    BY <1>1, <2>1 DEF TempsInv, FlushInv, CardIsDue, Slack
  <2>3. StreamSendInv'
    BY <1>1, <2>1 DEF StreamSendInv
  <2>4. TelegramStream!TypeOK'
    BY <1>1, <1>2, <1>3, <2>1 DEF TelegramStream!TypeOK
  <2> QED BY <1>1, <1>2, <1>3, <2>2, <2>3, <2>4 DEF StreamInv
<1> QED BY <1>4, <1>5, <1>6

\* Send, its fallback and the deletions.
LEMMA SendingStep ==
  ASSUME TelegramStream!StreamAssumption, StreamInv,
         TelegramStream!SendChunk \/ TelegramStream!SendPlain \/ TelegramStream!Delete
  PROVE  StreamInv'
<1>1. /\ TelegramStream!TypeOK /\ ApiInv /\ WaitsInv /\ ChatInv /\ TempsInv /\ StreamSendInv
         /\ TelegramStream!Chunks \in 1..ts_MaxEvents
      /\ ts_chat.texts \in Seq(Nat) /\ ts_toSend \in Nat /\ ts_toSend \in 0..ts_MaxEvents
      /\ ts_now \in Nat /\ ts_MaxCall \in Nat /\ ts_asof \in Nat /\ 1 <= ts_asof /\ ts_asof <= ts_now
         /\ ts_now <= ts_MaxTime
      /\ ts_MaxTime \in Nat /\ ts_MaxEvents \in Nat /\ ts_cooldown \in Nat
  <2>1. TelegramStream!TypeOK /\ ApiInv /\ TempsInv /\ StreamSendInv
    BY DEF StreamInv
  <2>2. WaitsInv /\ ChatInv /\ ts_chat.texts \in Seq(Nat) /\ ts_cooldown \in Nat
    BY <2>1 DEF ApiInv, WaitsInv, ChatInv
  <2>3. ts_toSend \in 0..ts_MaxEvents
    BY <2>1 DEF TelegramStream!TypeOK
  <2> QED BY <2>1, <2>2, <2>3, Numbers, Limits, ChunksIs
<1>2. UNCHANGED <<ts_mode, ts_left, ts_text, ts_status, ts_content, ts_asof>>
      /\ TelegramStream!Chunks' = TelegramStream!Chunks
  BY DEF TelegramStream!SendChunk, TelegramStream!SendPlain, TelegramStream!Delete, TelegramStream!finalRest,
     TelegramStream!Chunks
<1>3. ts_pc \in {"send", "plain"} /\ ts_cooldown <= ts_now /\ ts_toSend <= TelegramStream!Chunks
  BY <1>1 DEF TelegramStream!SendChunk, TelegramStream!SendPlain, TelegramStream!Delete, StreamSendInv
<1>4. PICK n \in Nat : ts_now' = n /\ ts_now <= n /\ n <= ts_MaxTime /\ ts_cooldown <= n
  <2>1. CASE TelegramStream!SendChunk \/ TelegramStream!SendPlain
    BY <1>1, <1>3, <2>1, LastsIs DEF TelegramStream!SendChunk, TelegramStream!SendPlain
  <2>2. CASE TelegramStream!Delete
    BY <1>1, <1>3, <2>2 DEF TelegramStream!Delete
  <2> QED BY <2>1, <2>2
<1>5. ts_calls'.early \in Nat /\ ts_calls'.early <= Slack
  <2>1. CASE TelegramStream!Begun
    BY <1>1, <1>3, <2>1, BegunIs
  <2>2. CASE ts_calls' = ts_calls
    BY <1>1, <2>2 DEF WaitsInv
  <2> QED BY <2>1, <2>2 DEF TelegramStream!SendChunk, TelegramStream!SendPlain, TelegramStream!Delete
<1>6. ASSUME WaitsInv', ChatInv', TempsInv', StreamSendInv', ts_toSend' \in 0..ts_MaxEvents,
             ts_pc' \notin {"tick", "last", "tick text", "last text", "tick beat", "last beat"}
      PROVE  StreamInv'
  <2>1. n \in 1..ts_MaxTime /\ ts_asof \in 1..n
    BY <1>1, <1>4
  <2>2. ts_refusals' \in 0..ts_MaxRefusals /\ ts_chat'.temps \subseteq {"status", "content"}
    BY <1>6 DEF WaitsInv, ChatInv
  <2>3. TelegramStream!TypeOK'
    BY <1>1, <1>2, <1>4, <1>6, <2>1, <2>2 DEF TelegramStream!TypeOK
  <2>4. FlushInv'
    BY <1>6 DEF FlushInv
  <2> QED BY <1>2, <1>6, <2>3, <2>4 DEF StreamInv, ApiInv
<1>7. CASE TelegramStream!SendChunk
  <2>1. ts_pc = "send" /\ ts_toSend > 0 /\ ts_cooldown' = ts_cooldown /\ ts_told' = ts_told
    BY <1>7 DEF TelegramStream!SendChunk
  <2> DEFINE k == TelegramStream!Chunks - ts_toSend
  <2>2. k \in Nat /\ EndsWith(ts_chat.texts, k)
    BY <1>1, <1>3, <2>1 DEF StreamSendInv
  <2>3. CASE /\ ts_chat' = [ts_chat EXCEPT !.texts = Append(@, TelegramStream!Chunks - ts_toSend + 1)]
             /\ ts_toSend' = ts_toSend - 1 /\ UNCHANGED <<ts_pc, ts_refusals, ts_toldAll>>
    <3>1. ts_chat' = [texts |-> Append(ts_chat.texts, k + 1), temps |-> ts_chat.temps]
      BY <1>1, <2>3 DEF ChatInv
    <3>2. Append(ts_chat.texts, k + 1) \in Seq(Nat) /\ EndsWith(Append(ts_chat.texts, k + 1), k + 1)
      BY <1>1, <2>2, AppendEnds
    <3>3. TelegramStream!Chunks' - ts_toSend' = k + 1 /\ ts_toSend' \in 0..ts_MaxEvents
          /\ ts_toSend' <= TelegramStream!Chunks'
      BY <1>1, <1>2, <1>3, <2>1, <2>3
    <3> HIDE DEF k
    <3>4. WaitsInv'
      BY <1>1, <1>5, <2>1, <2>3 DEF WaitsInv, Slack
    <3>5. ChatInv'
      BY <1>1, <3>1, <3>2 DEF ChatInv
    <3>6. TempsInv'
      BY <1>1, <1>2, <2>1, <2>3, <3>1 DEF TempsInv
    <3>7. ts_cooldown' <= ts_now'
      BY <1>4, <2>1
    <3>8. StreamSendInv'
      BY <1>2, <2>1, <2>3, <3>1, <3>2, <3>3, <3>7 DEF StreamSendInv
    <3> QED BY <1>6, <2>1, <2>3, <3>3, <3>4, <3>6, <3>8, <3>5
  <2>4. ASSUME NEW w \in ts_Waits \cup {0}, TelegramStream!Refused(w), ts_pc' = "plain",
               UNCHANGED <<ts_chat, ts_toSend>>
        PROVE  StreamInv'
    <3>1. ts_refusals' \in 0..ts_MaxRefusals /\ ts_toldAll' \in Nat
      <4>1. w \in Nat
        BY WaitIs
      <4> QED BY <1>1, <1>4, <2>4, <4>1, RefusedIs
    <3>2. WaitsInv' /\ ChatInv'
      BY <1>1, <1>5, <2>1, <2>4, <3>1 DEF WaitsInv, ChatInv, Slack
    <3>3. ts_cooldown' <= ts_now'
      BY <1>4, <2>1
    <3>4. TempsInv' /\ StreamSendInv'
      BY <1>1, <1>2, <1>3, <2>4, <3>3 DEF TempsInv, StreamSendInv
    <3>5. ts_toSend' \in 0..ts_MaxEvents
      BY <1>1, <2>4 DEF TelegramStream!TypeOK
    <3> QED BY <1>6, <2>4, <3>2, <3>4, <3>5
  <2> QED BY <1>7, <2>3, <2>4 DEF TelegramStream!SendChunk
<1>8. CASE TelegramStream!SendPlain
  <2>1. ts_pc = "plain"
    BY <1>8 DEF TelegramStream!SendPlain
  <2>2. CASE /\ ts_chat' = [ts_chat EXCEPT !.texts = Append(@, 0)]
             /\ ts_toSend' = 0 /\ ts_pc' = "send"
                /\ UNCHANGED <<ts_again, ts_refusals, ts_cooldown, ts_told, ts_toldAll>>
    <3>1. ts_chat' = [texts |-> Append(ts_chat.texts, 0), temps |-> ts_chat.temps]
      BY <1>1, <2>2 DEF ChatInv
    <3>2. Append(ts_chat.texts, 0) \in Seq(Nat) /\ EndsPlain(Append(ts_chat.texts, 0))
      BY <1>1, AppendEnds
    <3>3. WaitsInv'
      BY <1>1, <1>5, <2>2 DEF WaitsInv, Slack
    <3>4. ChatInv'
      BY <1>1, <3>1, <3>2 DEF ChatInv
    <3>5. ts_cooldown' <= ts_now'
      BY <1>4, <2>2
    <3>6. TempsInv' /\ StreamSendInv'
      BY <1>1, <1>2, <2>1, <2>2, <3>1, <3>2, <3>5 DEF TempsInv, StreamSendInv
    <3> QED BY <1>1, <1>6, <2>2, <3>3, <3>6, <3>4
  <2>3. CASE TelegramStream!PlainRefused
    <3>1. PICK w \in ts_Waits \cup {0} :
            /\ TelegramStream!Refused(w) /\ TelegramStream!SetCooldown(ts_now', w)
            /\ ts_pc' = IF w # 0 /\ ~ts_again THEN "cool" ELSE "failed"
            /\ UNCHANGED <<ts_chat, ts_toSend>>
      BY <2>3 DEF TelegramStream!PlainRefused
    <3>2. w \in Nat
      BY WaitIs
    <3>3. ts_refusals' \in 0..ts_MaxRefusals /\ ts_toldAll' \in Nat
      BY <1>1, <1>4, <3>1, <3>2, RefusedIs
    <3>4. ts_cooldown' \in Nat /\ ts_told' \in Nat /\ ts_told' <= ts_cooldown' + Slack
      <4>1. TelegramStream!SetCooldown(n, w)
        BY <1>4, <3>1
      <4>2. n <= n + Slack
        BY Limits
      <4> QED BY <1>1, <1>4, <3>2, <4>1, <4>2, CooldownIs
    <3>5. WaitsInv' /\ ChatInv'
      BY <1>1, <1>5, <3>1, <3>3, <3>4 DEF WaitsInv, ChatInv, Slack
    <3>6. TempsInv' /\ StreamSendInv' /\ ts_toSend' \in 0..ts_MaxEvents
      BY <1>1, <1>2, <3>1 DEF TempsInv, StreamSendInv, TelegramStream!TypeOK
    <3> QED BY <1>6, <3>1, <3>5, <3>6
  <2> QED BY <1>8, <2>2, <2>3 DEF TelegramStream!SendPlain
<1>9. CASE TelegramStream!Delete
  <2>1. ts_pc = "send" /\ ts_toSend = 0 /\ UNCHANGED <<ts_toSend, ts_cooldown, ts_told, ts_toldAll>>
    BY <1>9 DEF TelegramStream!Delete, TelegramStream!sendVars
  <2> DEFINE own == (IF ts_status.id THEN {"status"} ELSE {}) \cup (IF ts_content.id THEN {"content"} ELSE {})
  <2>2. ts_chat.temps \subseteq own
    BY <1>1 DEF TempsInv, ChatInv
  <2>3. PICK kept \in SUBSET own :
          /\ ts_refusals' = IF kept = {} THEN ts_refusals ELSE ts_refusals + 1
          /\ ts_refusals' <= ts_MaxRefusals
          /\ ts_chat' = [ts_chat EXCEPT !.temps = @ \ (own \ kept)]
          /\ ts_pc' = IF kept = {} THEN "sent" ELSE "untidy"
    BY <1>9 DEF TelegramStream!Delete
  <2>4. ts_chat' = [texts |-> ts_chat.texts, temps |-> ts_chat.temps \ (own \ kept)]
    BY <1>1, <2>3 DEF ChatInv
  <2>5. ts_pc' = "sent" => ts_chat'.temps = {}
    BY <2>2, <2>3, <2>4
  <2>6. ts_pc' \in {"sent", "untidy"} /\ ts_chat'.temps \subseteq ts_chat.temps
        /\ ts_chat'.texts = ts_chat.texts
        /\ ts_chat' = [texts |-> ts_chat'.texts, temps |-> ts_chat'.temps]
    BY <2>3, <2>4
  <2>7. ts_refusals' \in 0..ts_MaxRefusals
    <3>1. ts_refusals \in 0..ts_MaxRefusals
      BY <1>1 DEF WaitsInv
    <3> HIDE DEF own
    <3>2. ts_refusals' \in {ts_refusals, ts_refusals + 1} /\ ts_refusals' <= ts_MaxRefusals
      BY <2>3
    <3> QED BY <3>1, <3>2, Limits
  <2> HIDE DEF own
  <2>8. WaitsInv' /\ ChatInv'
    BY <1>1, <1>5, <2>1, <2>6, <2>7 DEF WaitsInv, ChatInv, Slack
  <2>9. EndsPlain(ts_chat.texts) \/ EndsWith(ts_chat.texts, TelegramStream!Chunks)
    <3>1. TelegramStream!Chunks - ts_toSend = TelegramStream!Chunks
      BY <1>1, <2>1
    <3> QED BY <1>1, <2>1, <3>1 DEF StreamSendInv
  <2>10. TempsInv' /\ StreamSendInv' /\ ts_toSend' \in 0..ts_MaxEvents
    BY <1>1, <1>2, <2>1, <2>5, <2>6, <2>9 DEF TempsInv, StreamSendInv, TelegramStream!TypeOK
  <2> QED BY <1>6, <2>6, <2>8, <2>10
<1> QED BY <1>7, <1>8, <1>9

\* SendStream, for any text, gaps, refusals, waits and length of a call: a wait that setCooldown sees
\* is kept but for two calls, and a stream that ends well has left its text whole and nothing temporary.
THEOREM StreamsEndWell ==
  ASSUME TelegramStream!StreamAssumption PROVE TelegramStream!Spec => []TelegramStream!TelegramStreamsEndWell
<1>1. TelegramStream!Init => StreamInv
  BY StreamInit
<1>2. StreamInv /\ [TelegramStream!Next]_(TelegramStream!vars) => StreamInv'
  BY EventStep, FlushStep, QuietStep, SendingStep DEF TelegramStream!Next
<1>3. StreamInv => TelegramStream!TelegramStreamsEndWell
  <2> SUFFICES ASSUME StreamInv PROVE TelegramStream!TelegramStreamsEndWell
    OBVIOUS
  <2>1. TelegramStream!Chunks \in Nat /\ ts_chat.texts \in Seq(Nat)
    BY ChunksIs, Limits DEF StreamInv, ApiInv, ChatInv
  <2>2. TelegramStream!EndsWell
    BY <2>1, EndsAre DEF TelegramStream!EndsWell, StreamInv, StreamSendInv, TempsInv, EndsPlain
  <2>3. TelegramStream!CooldownKept
    BY DEF StreamInv, ApiInv, WaitsInv, TelegramStream!CooldownKept, Slack
  <2> QED BY <2>2, <2>3 DEF StreamInv, TelegramStream!TelegramStreamsEndWell
<1> QED BY <1>1, <1>2, <1>3, PTL DEF TelegramStream!Spec

-----------------------------------------------------------------------------
Syncing == {"filter", "poll", "save", "handle"}
Alive == Syncing \cup {"built"}

Publishes == [event : Nat, object : Matrix!Objects]

ShapeInv ==
  /\ Matrix!TypeOK
  /\ mx_log \in Seq(Matrix!Kinds) /\ Len(mx_log) <= mx_MaxEvents
  /\ mx_published \in Seq(Publishes)
  /\ mx_upto \in [Matrix!Objects -> Nat] /\ mx_at \in [Matrix!Objects -> Nat]
     /\ mx_built \in [Matrix!Objects -> Nat]
  /\ mx_errors \in Nat

\* Objects are built in their order; one of them syncs, the next waits for its end.
OrderInv ==
  /\ \A o, p \in Matrix!Objects : mx_pc[o] = "new" /\ o < p => mx_pc[p] = "new"
  /\ mx_current # 0 => mx_pc[mx_current] \notin {"new", "built"}
  /\ \A o \in Matrix!Objects : mx_pc[o] \in Syncing => o = mx_current
  /\ \A o \in Matrix!Objects : mx_pc[o] = "built" => mx_manager # "idle" /\ Matrix!Last(o)

\* The response in hand, and what is known of it.
ResponseInv ==
  /\ mx_disk.batch <= Len(mx_log)
  /\ \A o \in Matrix!Objects :
       /\ mx_mem[o].batch <= Len(mx_log) /\ (mx_pc[o] \in Alive => mx_mem[o].device)
       /\ mx_pc[o] = "new" => ~mx_mem[o].device
       /\ mx_pc[o] = "save" => mx_at[o] = mx_mem[o].batch + 1 /\ mx_at[o] <= mx_upto[o]
          /\ mx_upto[o] <= Len(mx_log)
       /\ mx_pc[o] = "handle" => /\ 1 <= mx_at[o] /\ mx_at[o] <= mx_upto[o] /\ mx_upto[o] = mx_mem[o].batch
                                 /\ mx_disk.batch = mx_mem[o].batch

\* What was published was published by an object before those to come.
MatrixPublishedInv ==
  /\ \A o \in Matrix!Objects : mx_built[o] <= Len(mx_published)
  /\ \A i \in DOMAIN mx_published :
       /\ mx_pc[mx_published[i].object] \notin {"new", "built"}
       /\ 1 <= mx_published[i].event /\ mx_published[i].event <= Len(mx_log)
       /\ \A o \in Matrix!Objects : mx_pc[o] \in Alive => mx_published[i].object <= o

\* A reload let q read the token before publish i.
Overlaps(q, i) == mx_published[i].object < q /\ mx_mem[q].device /\ mx_built[q] < i

\* The event an object takes next.
Position(o) == IF mx_pc[o] = "handle" THEN mx_at[o] ELSE mx_mem[o].batch + 1

\* What an object has still before it has not been published, unless a reload overlapped: for the object
\* alive, and for those that will read the file.
TokenInv ==
  /\ \A o \in Matrix!Objects, i \in DOMAIN mx_published :
       mx_pc[o] \in Alive /\ mx_published[i].event >= Position(o) =>
         \E q \in Matrix!Objects : q <= o /\ Overlaps(q, i)
  /\ \A i \in DOMAIN mx_published :
       mx_published[i].event > mx_disk.batch => \E q \in Matrix!Objects : mx_pc[q] # "new" /\ Overlaps(q, i)

\* An object with a ctx has published the messages up to its position, from its first on.
LeftOutInv ==
  \A o \in Matrix!Objects \ mx_cancelled : mx_pc[o] \in Syncing =>
    \A i \in DOMAIN mx_published : mx_published[i].object = o =>
      \A e \in mx_published[i].event..(Position(o) - 1) : mx_log[e] = "message" =>
        \E k \in DOMAIN mx_published : mx_published[k].object = o /\ mx_published[k].event = e

\* The two properties, with their sets written out.
RepeatsInv ==
  \A i, j \in DOMAIN mx_published : i < j /\ mx_published[i].event = mx_published[j].event =>
    \E q \in Matrix!Objects : q <= mx_published[j].object /\ Overlaps(q, i)
PublishedLeftOutInv ==
  \A i, j \in DOMAIN mx_published :
    mx_published[i].object = mx_published[j].object /\ mx_published[j].object \notin mx_cancelled =>
      \A e \in mx_published[i].event..mx_published[j].event : mx_log[e] = "message" =>
        \E k \in DOMAIN mx_published : mx_published[k].object = mx_published[j].object
        /\ mx_published[k].event = e

\* The inductive invariant.
MatrixInv ==
  /\ ShapeInv /\ OrderInv /\ ResponseInv /\ MatrixPublishedInv /\ TokenInv /\ LeftOutInv
  /\ RepeatsInv /\ PublishedLeftOutInv

-----------------------------------------------------------------------------
\* The numbers of the model are numbers.
LEMMA Facts ==
  ASSUME Matrix!MatrixAssumption, MatrixInv
  PROVE  /\ {mx_MaxEvents, mx_MaxObjects, mx_MaxErrors, mx_MaxCrashes} \subseteq Nat
            /\ Matrix!Objects \subseteq Nat
         /\ Len(mx_log) \in Nat /\ Len(mx_published) \in Nat /\ mx_disk.batch \in Nat
         /\ DOMAIN mx_published = 1..Len(mx_published)
         /\ \A i \in DOMAIN mx_published : mx_published[i].event \in Nat
            /\ mx_published[i].object \in Matrix!Objects
         /\ \A o \in Matrix!Objects : {mx_mem[o].batch, mx_upto[o], mx_at[o], mx_built[o], Position(o)} \subseteq Nat
<1>1. \A o \in Matrix!Objects : mx_mem[o].batch \in Nat /\ mx_upto[o] \in Nat /\ mx_at[o] \in Nat
      /\ mx_built[o] \in Nat
  BY DEF MatrixInv, ShapeInv, Matrix!TypeOK, Matrix!State, Matrix!MatrixAssumption
<1>2. mx_disk.batch \in Nat
  BY DEF MatrixInv, ShapeInv, Matrix!TypeOK, Matrix!State, Matrix!MatrixAssumption
<1>3. Len(mx_log) \in Nat /\ mx_published \in Seq(Publishes)
  BY DEF MatrixInv, ShapeInv
<1>4. /\ Len(mx_published) \in Nat /\ DOMAIN mx_published = 1..Len(mx_published)
      /\ \A i \in DOMAIN mx_published : mx_published[i] \in Publishes
  BY <1>3
<1>5. \A i \in DOMAIN mx_published : mx_published[i].event \in Nat
      /\ mx_published[i].object \in Matrix!Objects
  BY <1>4 DEF Publishes
<1> QED BY <1>1, <1>2, <1>3, <1>4, <1>5 DEF Matrix!MatrixAssumption, Matrix!Objects, Position

LEMMA InvImplies == Matrix!MatrixAssumption /\ MatrixInv => Matrix!TypeOK /\ Matrix!OnlyReloadsRepeat
                    /\ Matrix!NoMessageLeftOut
<1> SUFFICES ASSUME Matrix!MatrixAssumption, MatrixInv
             PROVE  Matrix!TypeOK /\ Matrix!OnlyReloadsRepeat /\ Matrix!NoMessageLeftOut
  OBVIOUS
<1>1. Matrix!TypeOK
  BY DEF MatrixInv, ShapeInv
<1>2. Matrix!OnlyReloadsRepeat
  <2> SUFFICES ASSUME NEW p \in Matrix!Repeats
               PROVE  \E o \in (mx_published[p[1]].object + 1)..mx_published[p[2]].object :
                        mx_mem[o].device /\ mx_built[o] < p[1]
    BY DEF Matrix!OnlyReloadsRepeat
  <2>1. /\ p[1] \in DOMAIN mx_published /\ p[2] \in DOMAIN mx_published /\ p[1] < p[2]
        /\ mx_published[p[1]].event = mx_published[p[2]].event
    BY DEF Matrix!Repeats
  <2>2. PICK q \in Matrix!Objects : q <= mx_published[p[2]].object /\ Overlaps(q, p[1])
    BY <2>1 DEF MatrixInv, RepeatsInv
  <2>3. q \in (mx_published[p[1]].object + 1)..mx_published[p[2]].object
    BY Facts, <2>1, <2>2 DEF Overlaps, Matrix!Objects
  <2> QED BY <2>2, <2>3 DEF Overlaps
<1>3. Matrix!NoMessageLeftOut
  BY DEF MatrixInv, PublishedLeftOutInv, Matrix!NoMessageLeftOut
<1> QED BY <1>1, <1>2, <1>3

LEMMA MatrixInit == Matrix!MatrixAssumption /\ Matrix!Init => MatrixInv
<1> SUFFICES ASSUME Matrix!MatrixAssumption, Matrix!Init PROVE MatrixInv
  OBVIOUS
<1>1. DOMAIN mx_published = {} /\ Len(mx_published) = 0 /\ Len(mx_log) = 0 /\ Matrix!Range(mx_log) = {}
  BY DEF Matrix!Init, Matrix!Range
<1>2. ShapeInv
  BY <1>1 DEF Matrix!Init, ShapeInv, Matrix!TypeOK, Matrix!State, Matrix!MatrixAssumption
<1>3. OrderInv /\ ResponseInv
  BY <1>1 DEF Matrix!Init, OrderInv, ResponseInv, Syncing, Alive
<1>4. MatrixPublishedInv /\ TokenInv /\ LeftOutInv /\ RepeatsInv /\ PublishedLeftOutInv
  BY <1>1 DEF Matrix!Init, MatrixPublishedInv, TokenInv, LeftOutInv, RepeatsInv, PublishedLeftOutInv
<1> QED BY <1>2, <1>3, <1>4 DEF MatrixInv

-----------------------------------------------------------------------------
(* The steps                                                               *)

\* A step that neither publishes nor brings an event leaves alone what was published.
LEMMA Quietly ==
  ASSUME Matrix!MatrixAssumption, MatrixInv, UNCHANGED <<mx_log, mx_published>>,
         mx_cancelled \subseteq mx_cancelled',
         \A q \in Matrix!Objects : mx_mem[q].device => mx_mem'[q].device /\ mx_built'[q] = mx_built[q]
  PROVE  /\ \A q \in Matrix!Objects, i \in DOMAIN mx_published : Overlaps(q, i) => Overlaps(q, i)'
         /\ RepeatsInv' /\ PublishedLeftOutInv'
<1>1. \A q \in Matrix!Objects, i \in DOMAIN mx_published : Overlaps(q, i) => Overlaps(q, i)'
  BY DEF Overlaps
<1>2. RepeatsInv'
  BY <1>1 DEF MatrixInv, RepeatsInv
<1>3. PublishedLeftOutInv'
  BY DEF MatrixInv, PublishedLeftOutInv
<1> QED BY <1>1, <1>2, <1>3

\* The manager takes a step, no object does.
LEMMA StopLastKeeps ==
  ASSUME Matrix!MatrixAssumption, MatrixInv, Matrix!StopLast PROVE MatrixInv'
<1>0. /\ mx_manager = "built" /\ mx_manager' = "stopping" /\ mx_cancelled \subseteq mx_cancelled'
      /\ UNCHANGED <<mx_log, mx_disk, mx_mem, mx_pc, mx_upto, mx_at, mx_built, mx_published, mx_current,
                     mx_errors, mx_crashes>>
  BY DEF Matrix!StopLast, Matrix!objVars
<1>1. RepeatsInv' /\ PublishedLeftOutInv' 
  BY <1>0, Quietly
<1>2. ShapeInv'
  BY <1>0 DEF MatrixInv, ShapeInv, Matrix!TypeOK
<1>3. OrderInv'
  BY <1>0 DEF MatrixInv, OrderInv, Matrix!Last
<1>4. ResponseInv' /\ MatrixPublishedInv'
  BY <1>0 DEF MatrixInv, ResponseInv, MatrixPublishedInv
<1>5. TokenInv'
  BY <1>0 DEF MatrixInv, TokenInv, Overlaps, Position
<1>6. LeftOutInv'
  BY <1>0 DEF MatrixInv, LeftOutInv, Position
<1> QED BY <1>1, <1>2, <1>3, <1>4, <1>5, <1>6 DEF MatrixInv

\* An event arrives.
LEMMA ArriveKeeps ==
  ASSUME Matrix!MatrixAssumption, MatrixInv, Matrix!Arrive PROVE MatrixInv'
<1>1. PICK k \in Matrix!Kinds : mx_log' = Append(mx_log, k)
  BY DEF Matrix!Arrive
<1>2. /\ mx_log \in Seq(Matrix!Kinds) /\ Len(mx_log) < mx_MaxEvents
      /\ UNCHANGED <<mx_disk, mx_mem, mx_pc, mx_upto, mx_at, mx_built, mx_cancelled, mx_published,
                     mx_manager, mx_current, mx_errors, mx_crashes>>
  BY DEF Matrix!Arrive, Matrix!objVars, MatrixInv, ShapeInv
<1>3. /\ mx_log' \in Seq(Matrix!Kinds) /\ Len(mx_log') = Len(mx_log) + 1
         /\ Matrix!Range(mx_log') \subseteq Matrix!Kinds
      /\ \A e \in 1..Len(mx_log) : mx_log'[e] = mx_log[e]
  BY <1>1, <1>2, Facts DEF Matrix!Range
<1>4. ShapeInv'
  BY <1>2, <1>3, Facts DEF MatrixInv, ShapeInv, Matrix!TypeOK
<1>5. OrderInv'
  BY <1>2 DEF MatrixInv, OrderInv, Matrix!Last
<1>6. ResponseInv' /\ MatrixPublishedInv'
  BY <1>2, <1>3, Facts DEF MatrixInv, ResponseInv, MatrixPublishedInv
<1>7. TokenInv' /\ RepeatsInv'
  BY <1>2 DEF MatrixInv, TokenInv, RepeatsInv, Overlaps, Position
<1>8. LeftOutInv'
  <2> SUFFICES ASSUME NEW o \in Matrix!Objects \ mx_cancelled, mx_pc[o] \in Syncing,
                      NEW i \in DOMAIN mx_published,
                      mx_published[i].object = o, NEW e \in mx_published[i].event..(Position(o) - 1),
                      mx_log'[e] = "message"
               PROVE  \E j \in DOMAIN mx_published : mx_published[j].object = o /\ mx_published[j].event = e
    BY <1>2 DEF LeftOutInv, Position
  <2>1. Position(o) - 1 <= Len(mx_log) /\ 1 <= mx_published[i].event
    <3>1. mx_pc[o] = "handle" => mx_at[o] <= mx_upto[o] /\ mx_upto[o] = mx_mem[o].batch
      BY DEF MatrixInv, ResponseInv
    <3>2. mx_mem[o].batch <= Len(mx_log) /\ 1 <= mx_published[i].event
      BY DEF MatrixInv, ResponseInv, MatrixPublishedInv
    <3>3. mx_at[o] \in Nat /\ mx_mem[o].batch \in Nat /\ Len(mx_log) \in Nat
      BY Facts
    <3> QED BY <3>1, <3>2, <3>3 DEF Position
  <2>2. e \in 1..Len(mx_log)
    BY <2>1, Facts
  <2>3. LeftOutInv /\ mx_log[e] = "message"
    BY <1>3, <2>2 DEF MatrixInv
  <2> QED BY <2>3 DEF LeftOutInv
<1>9. PublishedLeftOutInv'
  <2>0. mx_published' = mx_published /\ mx_cancelled' = mx_cancelled /\ PublishedLeftOutInv
    BY <1>2 DEF MatrixInv
  <2> SUFFICES ASSUME NEW i \in DOMAIN mx_published, NEW j \in DOMAIN mx_published,
                      mx_published[i].object = mx_published[j].object,
                      mx_published[j].object \notin mx_cancelled,
                      NEW e \in mx_published[i].event..mx_published[j].event, mx_log'[e] = "message"
               PROVE  \E n \in DOMAIN mx_published :
                        mx_published[n].object = mx_published[j].object /\ mx_published[n].event = e
    BY <2>0 DEF PublishedLeftOutInv
  <2>1. e \in 1..Len(mx_log)
    <3>1. 1 <= mx_published[i].event /\ mx_published[j].event <= Len(mx_log)
      BY DEF MatrixInv, MatrixPublishedInv
    <3>2. mx_published[i].event \in Nat /\ mx_published[j].event \in Nat /\ Len(mx_log) \in Nat
      BY Facts
    <3> QED BY <3>1, <3>2
  <2>2. mx_log[e] = "message"
    BY <1>3, <2>1
  <2> QED BY <2>0, <2>2 DEF PublishedLeftOutInv
<1> QED BY <1>4, <1>5, <1>6, <1>7, <1>8, <1>9 DEF MatrixInv

\* The process dies: nobody is alive.
LEMMA CrashKeeps ==
  ASSUME Matrix!MatrixAssumption, MatrixInv, Matrix!Crash PROVE MatrixInv'
<1>0. /\ mx_pc' = [o \in Matrix!Objects |-> IF mx_pc[o] = "new" THEN "new" ELSE "ended"]
      /\ mx_manager' = "idle" /\ mx_current' = 0
      /\ UNCHANGED <<mx_log, mx_disk, mx_mem, mx_upto, mx_at, mx_built, mx_cancelled, mx_published,
                     mx_errors>>
  BY DEF Matrix!Crash
<1>1. RepeatsInv' /\ PublishedLeftOutInv'
  BY <1>0, Quietly
<1>2. ShapeInv'
  BY <1>0 DEF MatrixInv, ShapeInv, Matrix!TypeOK, Matrix!MatrixAssumption
<1>3. OrderInv'
  BY <1>0 DEF MatrixInv, OrderInv, Syncing
<1>4. ResponseInv' /\ MatrixPublishedInv'
  BY <1>0, Facts DEF MatrixInv, ResponseInv, MatrixPublishedInv, Alive, Syncing
<1>5. TokenInv'
  BY <1>0 DEF MatrixInv, TokenInv, Overlaps, Alive, Syncing
<1>6. LeftOutInv'
  BY <1>0 DEF LeftOutInv, Syncing
<1> QED BY <1>1, <1>2, <1>3, <1>4, <1>5, <1>6 DEF MatrixInv

\* An object that syncs takes a step: it is the only one, and none is built or started by it.
LEMMA SyncOrder ==
  ASSUME Matrix!MatrixAssumption, MatrixInv, NEW o \in Matrix!Objects, mx_pc[o] \in Syncing,
         NEW s \in Syncing \cup {"ended"}, mx_pc' = [mx_pc EXCEPT ![o] = s],
         UNCHANGED <<mx_manager, mx_current>>
  PROVE  /\ OrderInv' /\ mx_pc'[o] = s /\ o = mx_current
         /\ \A p \in Matrix!Objects \ {o} : mx_pc'[p] = mx_pc[p] /\ mx_pc[p] \notin Syncing
         /\ mx_pc' \in [Matrix!Objects -> {"new", "built", "filter", "poll", "save", "handle", "ended"}]
<1>1. OrderInv /\ mx_pc \in [Matrix!Objects -> {"new", "built", "filter", "poll", "save", "handle", "ended"}]
  BY DEF MatrixInv, ShapeInv, Matrix!TypeOK
<1>2. \A p \in Matrix!Objects \ {o} : mx_pc'[p] = mx_pc[p] /\ mx_pc[p] \notin Syncing
  BY <1>1 DEF OrderInv
<1>3. mx_pc'[o] = s /\ s \notin {"new", "built"}
  BY <1>1 DEF Syncing
<1>4. OrderInv'
  BY <1>1, <1>2, <1>3 DEF OrderInv, Matrix!Last, Syncing
<1> QED BY <1>1, <1>2, <1>3, <1>4 DEF OrderInv, Syncing

\* The file is written by an object that goes on, or the step ends it.
LEMMA FilterKeeps ==
  ASSUME Matrix!MatrixAssumption, MatrixInv, NEW o \in Matrix!Objects, Matrix!Filter(o) PROVE MatrixInv'
<1>0. /\ mx_pc[o] = "filter" /\ mx_mem' = [mx_mem EXCEPT ![o].filter = TRUE]
      /\ UNCHANGED <<mx_log, mx_upto, mx_at, mx_built, mx_cancelled, mx_published, mx_manager, mx_current,
                     mx_crashes>>
  BY DEF Matrix!Filter
<1>1. PICK s \in {"poll", "ended"} : mx_pc' = [mx_pc EXCEPT ![o] = s]
  BY DEF Matrix!Filter
<1>2. (mx_disk' = mx_disk \/ mx_disk' = mx_mem'[o]) /\ mx_errors' \in Nat
  BY DEF Matrix!Filter, Matrix!Persisted, Matrix!PersistFails, MatrixInv, ShapeInv
<1>3. /\ OrderInv' /\ mx_pc'[o] = s /\ \A p \in Matrix!Objects \ {o} : mx_pc'[p] = mx_pc[p]
         /\ mx_pc[p] \notin Syncing
      /\ mx_pc' \in [Matrix!Objects -> {"new", "built", "filter", "poll", "save", "handle", "ended"}]
  BY <1>0, <1>1, SyncOrder DEF Syncing
<1>4. mx_mem \in [Matrix!Objects -> Matrix!State] /\ mx_mem' \in [Matrix!Objects -> Matrix!State]
      /\ mx_disk' \in Matrix!State
      /\ \A p \in Matrix!Objects : mx_mem'[p].batch = mx_mem[p].batch /\ mx_mem'[p].device = mx_mem[p].device
      /\ mx_disk'.batch \in {mx_disk.batch, mx_mem[o].batch}
  BY <1>0, <1>2 DEF MatrixInv, ShapeInv, Matrix!TypeOK, Matrix!State
<1>5. /\ RepeatsInv' /\ PublishedLeftOutInv'
      /\ \A q \in Matrix!Objects, i \in DOMAIN mx_published : Overlaps(q, i) => Overlaps(q, i)'
  BY <1>0, <1>4, Quietly
<1>6. ShapeInv'
  BY <1>0, <1>2, <1>3, <1>4 DEF MatrixInv, ShapeInv, Matrix!TypeOK
<1>7. \A p \in Matrix!Objects : /\ mx_pc'[p] \in Alive => mx_pc[p] \in Alive
                                /\ mx_pc'[p] \in Syncing => mx_pc[p] \in Syncing
                                /\ (mx_pc'[p] = "new" <=> mx_pc[p] = "new")
                                   /\ (mx_pc'[p] = "built" <=> mx_pc[p] = "built")
                                /\ mx_pc'[p] \notin {"save", "handle"}
                                   /\ (mx_pc'[p] \in Alive => mx_pc[p] # "handle")
  BY <1>0, <1>1, <1>3 DEF Alive, Syncing
<1>8. \A p \in Matrix!Objects : mx_pc'[p] \in Alive => Position(p)' = Position(p)
  BY <1>4, <1>7 DEF Position
<1>9. ResponseInv'
  BY <1>0, <1>4, <1>7 DEF MatrixInv, ResponseInv
<1>10. MatrixPublishedInv'
  BY <1>0, <1>7, Facts DEF MatrixInv, MatrixPublishedInv
<1>11. TokenInv'
  <2>1. ASSUME NEW p \in Matrix!Objects, NEW i \in DOMAIN mx_published, mx_pc'[p] \in Alive,
               mx_published[i].event >= Position(p)'
        PROVE  \E q \in Matrix!Objects : q <= p /\ Overlaps(q, i)'
    BY <1>5, <1>7, <1>8, <2>1 DEF MatrixInv, TokenInv
  <2>2. ASSUME NEW i \in DOMAIN mx_published, mx_published[i].event > mx_disk'.batch
        PROVE  \E q \in Matrix!Objects : mx_pc'[q] # "new" /\ Overlaps(q, i)'
    <3>1. CASE mx_disk'.batch = mx_disk.batch
      BY <1>5, <1>7, <2>2, <3>1 DEF MatrixInv, TokenInv
    <3>2. CASE mx_disk'.batch = mx_mem[o].batch
      <4>1. mx_pc[o] \in Alive /\ mx_published[i].event >= Position(o)
        BY <1>0, <2>2, <3>2, Facts DEF Alive, Syncing, Position
      <4>2. PICK q \in Matrix!Objects : q <= o /\ Overlaps(q, i)
        BY <4>1 DEF MatrixInv, TokenInv
      <4>3. mx_pc[q] # "new"
        BY <1>0, <4>2, Facts DEF MatrixInv, OrderInv
      <4> QED BY <1>5, <1>7, <4>2, <4>3
    <3> QED BY <1>4, <3>1, <3>2
  <2> QED BY <1>0, <2>1, <2>2 DEF TokenInv
<1>12. LeftOutInv'
  <2> SUFFICES ASSUME NEW p \in Matrix!Objects \ mx_cancelled, mx_pc'[p] \in Syncing
               PROVE  mx_pc[p] \in Syncing /\ Position(p)' = Position(p)
    BY <1>0 DEF MatrixInv, LeftOutInv
  <2> QED BY <1>7, <1>8 DEF Alive
<1> QED BY <1>3, <1>5, <1>6, <1>9, <1>10, <1>11, <1>12 DEF MatrixInv

\* A request: the response begins where the token in memory ends.
LEMMA PollKeeps ==
  ASSUME Matrix!MatrixAssumption, MatrixInv, NEW o \in Matrix!Objects, Matrix!Poll(o) PROVE MatrixInv'
<1>0. /\ mx_pc[o] = "poll" /\ mx_mem[o].batch < Len(mx_log) /\ mx_pc' = [mx_pc EXCEPT ![o] = "save"]
      /\ mx_at' = [mx_at EXCEPT ![o] = mx_mem[o].batch + 1]
      /\ UNCHANGED <<mx_log, mx_disk, mx_mem, mx_built, mx_cancelled, mx_published, mx_manager, mx_current,
                     mx_errors, mx_crashes>>
  BY DEF Matrix!Poll
<1>1. PICK k \in (mx_mem[o].batch + 1)..Len(mx_log) : mx_upto' = [mx_upto EXCEPT ![o] = k]
  BY DEF Matrix!Poll
<1>2. ShapeInv /\ ResponseInv /\ MatrixPublishedInv /\ TokenInv /\ LeftOutInv
  BY DEF MatrixInv
<1>3. /\ OrderInv' /\ mx_pc'[o] = "save" /\ \A p \in Matrix!Objects \ {o} : mx_pc'[p] = mx_pc[p]
         /\ mx_pc[p] \notin Syncing
      /\ mx_pc' \in [Matrix!Objects -> {"new", "built", "filter", "poll", "save", "handle", "ended"}]
  BY <1>0, SyncOrder DEF Syncing
<1>4. RepeatsInv' /\ PublishedLeftOutInv'
  BY <1>0, Quietly
<1>5. ShapeInv'
  <2>1. k \in 0..(mx_MaxEvents + 1) /\ mx_mem[o].batch + 1 \in 0..(mx_MaxEvents + 1) /\ k \in Nat
    <3>1. mx_mem[o].batch \in Nat /\ Len(mx_log) <= mx_MaxEvents /\ mx_MaxEvents \in Nat
          /\ Len(mx_log) \in Nat
      BY <1>2, Facts DEF ShapeInv
    <3> QED BY <1>0, <1>1, <3>1
  <2>2. mx_upto' \in [Matrix!Objects -> Nat] /\ mx_at' \in [Matrix!Objects -> Nat]
        /\ \A p \in Matrix!Objects : {mx_upto'[p], mx_at'[p]} \subseteq 0..(mx_MaxEvents + 1)
    BY <1>0, <1>1, <1>2, <2>1 DEF ShapeInv, Matrix!TypeOK
  <2> QED BY <1>0, <1>2, <1>3, <2>2 DEF ShapeInv, Matrix!TypeOK
<1>6. \A p \in Matrix!Objects : /\ (mx_pc'[p] \in Alive <=> mx_pc[p] \in Alive)
                                   /\ (mx_pc'[p] \in Syncing <=> mx_pc[p] \in Syncing)
                                /\ (mx_pc'[p] = "new" <=> mx_pc[p] = "new")
                                   /\ (mx_pc'[p] = "built" <=> mx_pc[p] = "built")
                                /\ (mx_pc'[p] = "handle" <=> mx_pc[p] = "handle")
                                /\ (p # o => mx_at'[p] = mx_at[p] /\ mx_upto'[p] = mx_upto[p])
                                /\ Position(p)' = Position(p)
  BY <1>0, <1>1, <1>2, <1>3 DEF Alive, Syncing, Position, ShapeInv
<1>7. mx_at'[o] = mx_mem[o].batch + 1 /\ mx_upto'[o] = k
  BY <1>0, <1>1, <1>2 DEF ShapeInv
<1>8. ResponseInv'
  <2>1. mx_disk'.batch <= Len(mx_log') /\ \A p \in Matrix!Objects : mx_mem'[p].batch <= Len(mx_log')
        /\ (mx_pc'[p] \in Alive => mx_mem'[p].device) /\ (mx_pc'[p] = "new" => ~mx_mem'[p].device)
    BY <1>0, <1>2, <1>6 DEF ResponseInv
  <2>2. ASSUME NEW p \in Matrix!Objects, mx_pc'[p] = "save"
        PROVE  mx_at'[p] = mx_mem'[p].batch + 1 /\ mx_at'[p] <= mx_upto'[p] /\ mx_upto'[p] <= Len(mx_log')
    <3>1. p = o
      BY <1>3, <2>2 DEF Syncing
    <3> QED BY <1>0, <1>1, <1>7, <3>1, Facts
  <2>3. ASSUME NEW p \in Matrix!Objects, mx_pc'[p] = "handle"
        PROVE  FALSE
    BY <1>3, <2>3 DEF Syncing
  <2> QED BY <2>1, <2>2, <2>3 DEF ResponseInv
<1>9. MatrixPublishedInv' /\ TokenInv'
  BY <1>0, <1>2, <1>6 DEF MatrixPublishedInv, TokenInv, Overlaps
<1>10. LeftOutInv'
  BY <1>0, <1>2, <1>6 DEF LeftOutInv
<1> QED BY <1>3, <1>4, <1>5, <1>8, <1>9, <1>10 DEF MatrixInv

\* The token is in the file before the first event of its response is handled.
LEMMA SaveNextBatchKeeps ==
  ASSUME Matrix!MatrixAssumption, MatrixInv, NEW o \in Matrix!Objects, Matrix!SaveNextBatch(o)
  PROVE  MatrixInv'
<1>0. /\ mx_pc[o] = "save" /\ mx_mem' = [mx_mem EXCEPT ![o].batch = mx_upto[o]]
      /\ UNCHANGED <<mx_log, mx_upto, mx_at, mx_built, mx_cancelled, mx_published, mx_manager, mx_current,
                     mx_crashes>>
  BY DEF Matrix!SaveNextBatch
<1>1. PICK s \in {"handle", "ended"} : mx_pc' = [mx_pc EXCEPT ![o] = s]
      /\ (s = "handle" => mx_disk' = mx_mem'[o])
  BY DEF Matrix!SaveNextBatch, Matrix!Persisted
<1>2. ShapeInv /\ OrderInv /\ ResponseInv /\ MatrixPublishedInv /\ TokenInv /\ LeftOutInv
  BY DEF MatrixInv
<1>3. /\ OrderInv' /\ mx_pc'[o] = s /\ \A p \in Matrix!Objects \ {o} : mx_pc'[p] = mx_pc[p]
         /\ mx_pc[p] \notin Syncing
      /\ mx_pc' \in [Matrix!Objects -> {"new", "built", "filter", "poll", "save", "handle", "ended"}]
  BY <1>0, <1>1, SyncOrder DEF Syncing
<1>4. (mx_disk' = mx_disk \/ mx_disk' = mx_mem'[o]) /\ mx_errors' \in Nat
  BY <1>2 DEF Matrix!SaveNextBatch, Matrix!Persisted, Matrix!PersistFails, ShapeInv
<1>5. mx_at[o] = mx_mem[o].batch + 1 /\ mx_at[o] <= mx_upto[o] /\ mx_upto[o] <= Len(mx_log)
      /\ mx_upto[o] \in 0..mx_MaxEvents
  BY <1>0, <1>2, Facts DEF ResponseInv, ShapeInv
<1>6. /\ mx_mem' \in [Matrix!Objects -> Matrix!State] /\ mx_disk' \in Matrix!State
      /\ mx_mem'[o].batch = mx_upto[o] /\ \A p \in Matrix!Objects \ {o} : mx_mem'[p] = mx_mem[p]
      /\ \A p \in Matrix!Objects : mx_mem'[p].device = mx_mem[p].device
      /\ mx_disk'.batch \in {mx_disk.batch, mx_upto[o]} /\ (s = "handle" => mx_disk'.batch = mx_upto[o])
  BY <1>0, <1>1, <1>2, <1>4, <1>5 DEF ShapeInv, Matrix!TypeOK, Matrix!State
<1>7. /\ RepeatsInv' /\ PublishedLeftOutInv'
      /\ \A q \in Matrix!Objects, i \in DOMAIN mx_published : Overlaps(q, i) => Overlaps(q, i)'
  BY <1>0, <1>6, Quietly
<1>8. ShapeInv'
  BY <1>0, <1>2, <1>3, <1>4, <1>6 DEF ShapeInv, Matrix!TypeOK
<1>9. \A p \in Matrix!Objects : /\ (mx_pc'[p] \in Alive => mx_pc[p] \in Alive)
                                   /\ (mx_pc'[p] \in Syncing => mx_pc[p] \in Syncing)
                                /\ (mx_pc'[p] = "new" <=> mx_pc[p] = "new")
                                   /\ (mx_pc'[p] = "built" <=> mx_pc[p] = "built")
                                /\ mx_pc'[p] # "save" /\ (mx_pc'[p] = "handle" => p = o /\ s = "handle")
                                /\ (mx_pc'[p] \in Alive => Position(p)' = Position(p))
  BY <1>0, <1>1, <1>3, <1>5, <1>6 DEF Alive, Syncing, Position
<1>10. ResponseInv'
  <2>1. mx_disk'.batch <= Len(mx_log')
    BY <1>0, <1>2, <1>5, <1>6 DEF ResponseInv
  <2>2. \A p \in Matrix!Objects : /\ mx_mem'[p].batch <= Len(mx_log')
                                     /\ (mx_pc'[p] \in Alive => mx_mem'[p].device)
                                  /\ (mx_pc'[p] = "new" => ~mx_mem'[p].device)
    BY <1>0, <1>2, <1>5, <1>6, <1>9 DEF ResponseInv
  <2>3. ASSUME NEW p \in Matrix!Objects, mx_pc'[p] = "handle"
        PROVE  /\ 1 <= mx_at'[p] /\ mx_at'[p] <= mx_upto'[p] /\ mx_upto'[p] = mx_mem'[p].batch
               /\ mx_disk'.batch = mx_mem'[p].batch
    <3>1. p = o /\ s = "handle"
      BY <1>9, <2>3
    <3> QED BY <1>0, <1>5, <1>6, <3>1, Facts
  <2> QED BY <1>9, <2>1, <2>2, <2>3 DEF ResponseInv
<1>11. MatrixPublishedInv'
  BY <1>0, <1>2, <1>9, Facts DEF MatrixPublishedInv
<1>12. TokenInv'
  <2>1. ASSUME NEW p \in Matrix!Objects, NEW i \in DOMAIN mx_published, mx_pc'[p] \in Alive,
               mx_published[i].event >= Position(p)'
        PROVE  \E q \in Matrix!Objects : q <= p /\ Overlaps(q, i)'
    BY <1>2, <1>7, <1>9, <2>1 DEF TokenInv
  <2>2. ASSUME NEW i \in DOMAIN mx_published, mx_published[i].event > mx_disk'.batch
        PROVE  \E q \in Matrix!Objects : mx_pc'[q] # "new" /\ Overlaps(q, i)'
    <3>1. CASE mx_disk'.batch = mx_disk.batch
      BY <1>2, <1>7, <1>9, <2>2, <3>1 DEF TokenInv
    <3>2. CASE mx_disk'.batch = mx_upto[o]
      <4>1. mx_pc[o] \in Alive /\ mx_published[i].event >= Position(o)
        BY <1>0, <1>5, <2>2, <3>2, Facts DEF Alive, Syncing, Position
      <4>2. PICK q \in Matrix!Objects : q <= o /\ Overlaps(q, i)
        BY <1>2, <4>1 DEF TokenInv
      <4>3. mx_pc[q] # "new"
        <5>1. mx_pc[o] # "new" /\ (q = o \/ q < o)
          BY <1>0, <4>2, Facts
        <5>2. q < o /\ mx_pc[q] = "new" => mx_pc[o] = "new"
          BY <1>2 DEF OrderInv
        <5> QED BY <5>1, <5>2
      <4> QED BY <1>7, <1>9, <4>2, <4>3
    <3> QED BY <1>6, <3>1, <3>2
  <2> QED BY <1>0, <2>1, <2>2 DEF TokenInv
<1>13. LeftOutInv'
  <2> SUFFICES ASSUME NEW p \in Matrix!Objects \ mx_cancelled, mx_pc'[p] \in Syncing
               PROVE  mx_pc[p] \in Syncing /\ Position(p)' = Position(p)
    BY <1>0, <1>2 DEF LeftOutInv
  <2> QED BY <1>9 DEF Alive
<1> QED BY <1>3, <1>7, <1>8, <1>10, <1>11, <1>12, <1>13 DEF MatrixInv

\* A sync that its ctx ends.
LEMMA PollEndsKeeps ==
  ASSUME Matrix!MatrixAssumption, MatrixInv, NEW o \in Matrix!Objects, Matrix!PollEnds(o) PROVE MatrixInv'
<1>0. /\ mx_pc[o] \in Syncing /\ mx_pc' = [mx_pc EXCEPT ![o] = "ended"]
      /\ UNCHANGED <<mx_log, mx_disk, mx_mem, mx_upto, mx_at, mx_built, mx_cancelled, mx_published,
                     mx_manager, mx_current, mx_errors, mx_crashes>>
  BY DEF Matrix!PollEnds, Syncing
<1>1. ShapeInv /\ ResponseInv /\ MatrixPublishedInv /\ TokenInv /\ LeftOutInv
  BY DEF MatrixInv
<1>2. /\ OrderInv' /\ mx_pc'[o] = "ended" /\ \A p \in Matrix!Objects \ {o} : mx_pc'[p] = mx_pc[p]
      /\ mx_pc' \in [Matrix!Objects -> {"new", "built", "filter", "poll", "save", "handle", "ended"}]
  BY <1>0, SyncOrder
<1>3. RepeatsInv' /\ PublishedLeftOutInv'
  BY <1>0, Quietly
<1>4. ShapeInv'
  BY <1>0, <1>1, <1>2 DEF ShapeInv, Matrix!TypeOK
<1>5. \A p \in Matrix!Objects : /\ (p # o => mx_pc'[p] = mx_pc[p])
                                   /\ (p = o => mx_pc'[p] = "ended" /\ mx_pc[p] \notin {"new", "built"})
  BY <1>0, <1>2 DEF Syncing
<1>6. ResponseInv' /\ MatrixPublishedInv'
  BY <1>0, <1>1, <1>5, Facts DEF ResponseInv, MatrixPublishedInv, Alive, Syncing
<1>7. TokenInv'
  BY <1>0, <1>1, <1>5 DEF TokenInv, Overlaps, Position, Alive, Syncing
<1>8. LeftOutInv'
  BY <1>0, <1>1, <1>5 DEF LeftOutInv, Position, Syncing
<1> QED BY <1>2, <1>3, <1>4, <1>6, <1>7, <1>8 DEF MatrixInv

\* The next object reads the file, and the device id it may add leaves the token alone.
LEMMA BuildKeeps ==
  ASSUME Matrix!MatrixAssumption, MatrixInv, NEW o \in Matrix!Objects, Matrix!Build(o) PROVE MatrixInv'
<1>0. /\ mx_manager = "idle" /\ mx_pc[o] = "new" /\ \A p \in 1..(o - 1) : mx_pc[p] # "new"
      /\ mx_built' = [mx_built EXCEPT ![o] = Len(mx_published)] /\ mx_manager' = "built"
      /\ UNCHANGED <<mx_log, mx_upto, mx_at, mx_cancelled, mx_published, mx_current, mx_crashes>>
  BY DEF Matrix!Build
<1>1. \/ /\ mx_mem' = [mx_mem EXCEPT ![o] = [mx_disk EXCEPT !.device = TRUE]]
         /\ (mx_disk' = mx_disk \/ mx_disk' = mx_mem'[o]) /\ mx_errors' = mx_errors
            /\ mx_pc' = [mx_pc EXCEPT ![o] = "built"]
      \/ /\ UNCHANGED <<mx_mem, mx_disk>> /\ mx_errors' = mx_errors + 1
            /\ mx_pc' = [mx_pc EXCEPT ![o] = "ended"]
  BY DEF Matrix!Build, Matrix!Persisted, Matrix!PersistFails
<1>2. ShapeInv /\ OrderInv /\ ResponseInv /\ MatrixPublishedInv /\ TokenInv /\ LeftOutInv
  BY DEF MatrixInv
<1>3. PICK s \in {"built", "ended"} : mx_pc' = [mx_pc EXCEPT ![o] = s] /\ (s = "ended" => mx_mem' = mx_mem)
        /\ (s = "built" => mx_mem' = [mx_mem EXCEPT ![o] = [mx_disk EXCEPT !.device = TRUE]])
  BY <1>1
<1>4. /\ mx_pc'[o] = s /\ \A p \in Matrix!Objects \ {o} : mx_pc'[p] = mx_pc[p] /\ mx_mem'[p] = mx_mem[p]
         /\ mx_built'[p] = mx_built[p]
      /\ mx_pc' \in [Matrix!Objects -> {"new", "built", "filter", "poll", "save", "handle", "ended"}]
      /\ mx_built' \in [Matrix!Objects -> Nat] /\ mx_built'[o] = Len(mx_published) /\ mx_errors' \in Nat
  <2>1. mx_pc \in [Matrix!Objects -> {"new", "built", "filter", "poll", "save", "handle", "ended"}]
        /\ mx_mem \in [Matrix!Objects -> Matrix!State] /\ mx_built \in [Matrix!Objects -> Nat]
           /\ mx_errors \in Nat
    BY <1>2 DEF ShapeInv, Matrix!TypeOK
  <2>2. Len(mx_published) \in Nat
    BY Facts
  <2>3. mx_pc'[o] = s /\ (\A p \in Matrix!Objects \ {o} : mx_pc'[p] = mx_pc[p])
        /\ mx_pc' \in [Matrix!Objects -> {"new", "built", "filter", "poll", "save", "handle", "ended"}]
    BY <1>3, <2>1
  <2>4. \A p \in Matrix!Objects \ {o} : mx_mem'[p] = mx_mem[p]
    BY <1>3, <2>1
  <2>5. mx_built' \in [Matrix!Objects -> Nat] /\ mx_built'[o] = Len(mx_published)
        /\ \A p \in Matrix!Objects \ {o} : mx_built'[p] = mx_built[p]
    BY <1>0, <2>1, <2>2
  <2>6. mx_errors' \in Nat
    BY <1>1, <2>1
  <2> QED BY <2>3, <2>4, <2>5, <2>6
<1>5. /\ mx_mem' \in [Matrix!Objects -> Matrix!State] /\ mx_disk' \in Matrix!State
         /\ mx_disk'.batch = mx_disk.batch
      /\ (s = "built" => mx_mem'[o].batch = mx_disk.batch /\ mx_mem'[o].device)
      /\ (s = "ended" => mx_mem'[o] = mx_mem[o])
  <2>1. mx_disk \in Matrix!State /\ [mx_disk EXCEPT !.device = TRUE] \in Matrix!State
        /\ mx_mem \in [Matrix!Objects -> Matrix!State]
        /\ [mx_disk EXCEPT !.device = TRUE].batch = mx_disk.batch /\ [mx_disk EXCEPT !.device = TRUE].device
    BY <1>2 DEF ShapeInv, Matrix!TypeOK, Matrix!State
  <2> QED BY <1>1, <1>3, <2>1
<1>6. ~mx_mem[o].device
  BY <1>0, <1>2 DEF ResponseInv
<1>7. /\ RepeatsInv' /\ PublishedLeftOutInv'
      /\ \A q \in Matrix!Objects, i \in DOMAIN mx_published : Overlaps(q, i) => Overlaps(q, i)'
  <2>1. \A q \in Matrix!Objects : mx_mem[q].device => mx_mem'[q].device /\ mx_built'[q] = mx_built[q]
    BY <1>4, <1>6
  <2> QED BY <1>0, <2>1, Quietly
<1>8. ShapeInv'
  BY <1>0, <1>2, <1>4, <1>5 DEF ShapeInv, Matrix!TypeOK
<1>9. OrderInv'
  <2>1. \A p, q \in Matrix!Objects : mx_pc'[p] = "new" /\ p < q => mx_pc'[q] = "new"
    <3> SUFFICES ASSUME NEW p \in Matrix!Objects, NEW q \in Matrix!Objects, mx_pc'[p] = "new", p < q
                 PROVE  mx_pc'[q] = "new"
      OBVIOUS
    <3>1. p # o /\ mx_pc[p] = "new"
      BY <1>4
    <3>2. p > o
      <4>1. p \notin 1..(o - 1) /\ p # o
        BY <1>0, <3>1
      <4>2. p \in Nat /\ o \in Nat /\ p >= 1
        BY Facts DEF Matrix!Objects
      <4> QED BY <4>1, <4>2
    <3>3. mx_pc[q] = "new"
      BY <1>2, <3>1 DEF OrderInv
    <3>4. q # o
      <4>1. {p, q, o} \subseteq Nat
        BY Facts
      <4> QED BY <3>2, <4>1
    <3> QED BY <1>4, <3>3, <3>4
  <2>2. mx_current # 0 => mx_pc'[mx_current] \notin {"new", "built"}
    <3>1. mx_current # 0 => mx_current \in Matrix!Objects /\ mx_current # o
      BY <1>0, <1>2, Facts DEF OrderInv, ShapeInv, Matrix!TypeOK, Matrix!Objects
    <3> QED BY <1>2, <1>4, <3>1 DEF OrderInv
  <2>3. \A p \in Matrix!Objects : mx_pc'[p] \in Syncing => p = mx_current
    BY <1>2, <1>4 DEF OrderInv, Syncing
  <2>4. \A p \in Matrix!Objects : mx_pc'[p] = "built" => p = o
    BY <1>0, <1>2, <1>4 DEF OrderInv
  <2>5. mx_pc'[o] # "new" /\ \A p \in Matrix!Objects : p > o => mx_pc'[p] = "new"
    <3>1. ASSUME NEW p \in Matrix!Objects, p > o PROVE mx_pc'[p] = "new"
      <4>1. o < p /\ p # o
        BY <3>1, Facts
      <4>2. mx_pc[p] = "new"
        BY <1>0, <1>2, <4>1 DEF OrderInv
      <4> QED BY <1>4, <4>1, <4>2
    <3> QED BY <1>4, <3>1
  <2> QED BY <1>0, <2>1, <2>2, <2>3, <2>4, <2>5 DEF OrderInv, Matrix!Last
<1>10. ResponseInv'
  <2>1. \A p \in Matrix!Objects : mx_pc'[p] \in {"save", "handle"} => p # o
    BY <1>4
  <2>2. \A p \in Matrix!Objects : mx_mem'[p].batch <= Len(mx_log)
        /\ (mx_pc'[p] \in Alive => mx_mem'[p].device)
                          /\ (mx_pc'[p] = "new" => ~mx_mem'[p].device)
    BY <1>2, <1>4, <1>5 DEF ResponseInv, Alive, Syncing
  <2> QED BY <1>0, <1>2, <1>4, <1>5, <2>1, <2>2 DEF ResponseInv
<1>11. MatrixPublishedInv'
  <2>1. ASSUME NEW i \in DOMAIN mx_published
        PROVE  mx_published[i].object \in Matrix!Objects /\ mx_published[i].object < o
               /\ mx_pc[mx_published[i].object] # "new"
    <3>1. mx_published[i].object \in Matrix!Objects /\ mx_pc[mx_published[i].object] # "new"
      BY <1>2, Facts DEF MatrixPublishedInv
    <3> QED BY <1>0, <1>2, <3>1, Facts DEF OrderInv
  <2>2. \A i \in DOMAIN mx_published : \A p \in Matrix!Objects : mx_pc'[p] \in Alive
        => mx_published[i].object <= p
    <3> SUFFICES ASSUME NEW i \in DOMAIN mx_published, NEW p \in Matrix!Objects, mx_pc'[p] \in Alive
                 PROVE  mx_published[i].object <= p
      OBVIOUS
    <3>1. CASE p = o
      BY <2>1, <3>1, Facts
    <3>2. CASE p # o
      BY <1>2, <1>4, <3>2 DEF MatrixPublishedInv
    <3> QED BY <3>1, <3>2
  <2>3. \A i \in DOMAIN mx_published : mx_pc'[mx_published[i].object] \notin {"new", "built"}
    BY <1>2, <1>4, <2>1, Facts DEF MatrixPublishedInv
  <2>4. \A p \in Matrix!Objects : mx_built'[p] <= Len(mx_published)
    <3>1. Len(mx_published) \in Nat /\ \A p \in Matrix!Objects : mx_built[p] <= Len(mx_published)
      BY <1>2, Facts DEF MatrixPublishedInv
    <3>2. mx_built'[o] = Len(mx_published) /\ \A p \in Matrix!Objects \ {o} : mx_built'[p] = mx_built[p]
      BY <1>4
    <3> QED BY <3>1, <3>2
  <2> QED BY <1>0, <1>2, <2>2, <2>3, <2>4 DEF MatrixPublishedInv
<1>12. TokenInv'
  <2>1. ASSUME NEW p \in Matrix!Objects, NEW i \in DOMAIN mx_published, mx_pc'[p] \in Alive,
               mx_published[i].event >= Position(p)'
        PROVE  \E q \in Matrix!Objects : q <= p /\ Overlaps(q, i)'
    <3>1. CASE p # o
      <4>1. mx_pc[p] \in Alive /\ Position(p)' = Position(p)
        BY <1>0, <1>4, <2>1, <3>1 DEF Position
      <4> QED BY <1>2, <1>7, <2>1, <4>1 DEF TokenInv
    <3>2. CASE p = o
      <4>1. s = "built" /\ mx_published[i].event > mx_disk.batch
        BY <1>4, <1>5, <2>1, <3>2, Facts DEF Alive, Syncing, Position
      <4>2. PICK q \in Matrix!Objects : mx_pc[q] # "new" /\ Overlaps(q, i)
        BY <1>2, <4>1 DEF TokenInv
      <4>3. q <= p
        BY <1>0, <1>2, <3>2, <4>2, Facts DEF OrderInv
      <4> QED BY <1>7, <4>2, <4>3
    <3> QED BY <3>1, <3>2
  <2>2. ASSUME NEW i \in DOMAIN mx_published, mx_published[i].event > mx_disk'.batch
        PROVE  \E q \in Matrix!Objects : mx_pc'[q] # "new" /\ Overlaps(q, i)'
    <3>1. PICK q \in Matrix!Objects : mx_pc[q] # "new" /\ Overlaps(q, i)
      BY <1>2, <1>5, <2>2 DEF TokenInv
    <3> QED BY <1>0, <1>4, <1>7, <3>1
  <2> QED BY <1>0, <2>1, <2>2 DEF TokenInv
<1>13. LeftOutInv'
  <2> SUFFICES ASSUME NEW p \in Matrix!Objects \ mx_cancelled, mx_pc'[p] \in Syncing
               PROVE  mx_pc[p] \in Syncing /\ Position(p)' = Position(p)
    BY <1>0, <1>2 DEF LeftOutInv
  <2>1. p # o
    BY <1>4 DEF Syncing
  <2> QED BY <1>0, <1>4, <2>1 DEF Position
<1> QED BY <1>7, <1>8, <1>9, <1>10, <1>11, <1>12, <1>13 DEF MatrixInv

\* The wait is over: the next object syncs from where the file was when it read it.
LEMMA StartNextKeeps ==
  ASSUME Matrix!MatrixAssumption, MatrixInv, NEW o \in Matrix!Objects, Matrix!StartNext(o) PROVE MatrixInv'
<1>0. /\ Matrix!Last(o) /\ (mx_current # 0 => mx_pc[mx_current] = "ended") /\ mx_current' = o
         /\ mx_manager' = "idle"
      /\ UNCHANGED <<mx_log, mx_disk, mx_mem, mx_upto, mx_at, mx_built, mx_cancelled, mx_published,
                     mx_errors, mx_crashes>>
  BY DEF Matrix!StartNext
<1>1. PICK s \in {"filter", "ended"} : mx_pc' = [mx_pc EXCEPT ![o] = s]
      /\ (s = "filter" => mx_pc[o] = "built")
  BY DEF Matrix!StartNext
<1>2. ShapeInv /\ OrderInv /\ ResponseInv /\ MatrixPublishedInv /\ TokenInv /\ LeftOutInv
  BY DEF MatrixInv
<1>3. /\ mx_pc'[o] = s /\ \A p \in Matrix!Objects \ {o} : mx_pc'[p] = mx_pc[p]
      /\ mx_pc' \in [Matrix!Objects -> {"new", "built", "filter", "poll", "save", "handle", "ended"}]
  BY <1>1, <1>2 DEF ShapeInv, Matrix!TypeOK
<1>4. RepeatsInv' /\ PublishedLeftOutInv'
  BY <1>0, Quietly
<1>5. ShapeInv'
  <2>1. o \in 0..mx_MaxObjects
    BY Facts DEF Matrix!Objects
  <2> QED BY <1>0, <1>2, <1>3, <2>1 DEF ShapeInv, Matrix!TypeOK
<1>6. /\ mx_pc[o] # "new" /\ \A p \in Matrix!Objects : p > o => mx_pc[p] = "new"
      /\ \A p \in Matrix!Objects : mx_pc[p] \notin Syncing /\ (mx_pc[p] = "built" => p = o)
  <2>1. \A p \in Matrix!Objects : mx_pc[p] \notin Syncing
    BY <1>0, <1>2, Facts DEF OrderInv, Syncing, Matrix!Objects
  <2>2. \A p \in Matrix!Objects : mx_pc[p] = "built" => p = o
    BY <1>0, <1>2, Facts DEF OrderInv, Matrix!Last
  <2> QED BY <1>0, <2>1, <2>2 DEF Matrix!Last
<1>7. \A p \in Matrix!Objects : /\ (mx_pc'[p] = "new" <=> mx_pc[p] = "new") /\ mx_pc'[p] # "built"
                                /\ (mx_pc'[p] \in Alive => p = o /\ s = "filter" /\ mx_pc[o] \in Alive)
                                /\ (mx_pc'[p] \in Alive => Position(p)' = Position(p))
                                /\ mx_pc'[p] \notin {"save", "handle"}
  BY <1>0, <1>1, <1>3, <1>6 DEF Alive, Syncing, Position
<1>8. OrderInv'
  BY <1>0, <1>2, <1>3, <1>7 DEF OrderInv, Syncing, Alive
<1>9. ResponseInv'
  BY <1>0, <1>2, <1>7 DEF ResponseInv
<1>10. MatrixPublishedInv'
  BY <1>0, <1>2, <1>7, Facts DEF MatrixPublishedInv
<1>11. TokenInv'
  BY <1>0, <1>2, <1>7 DEF TokenInv, Overlaps
<1>12. LeftOutInv'
  <2> SUFFICES ASSUME NEW p \in Matrix!Objects \ mx_cancelled, mx_pc'[p] \in Syncing,
                      NEW i \in DOMAIN mx_published,
                      mx_published[i].object = p
               PROVE  FALSE
    BY <1>0 DEF LeftOutInv
  <2>1. p = o /\ mx_pc[o] = "built"
    BY <1>1, <1>7 DEF Alive
  <2> QED BY <1>2, <2>1 DEF MatrixPublishedInv
<1> QED BY <1>4, <1>5, <1>8, <1>9, <1>10, <1>11, <1>12 DEF MatrixInv

\* The events of the response, one by one.
LEMMA HandleKeeps ==
  ASSUME Matrix!MatrixAssumption, MatrixInv, NEW o \in Matrix!Objects, Matrix!Handle(o) PROVE MatrixInv'
<1>0. /\ mx_pc[o] = "handle" /\ mx_at' = [mx_at EXCEPT ![o] = @ + 1]
      /\ UNCHANGED <<mx_log, mx_disk, mx_mem, mx_upto, mx_built, mx_cancelled, mx_manager, mx_current,
                     mx_errors, mx_crashes>>
  BY DEF Matrix!Handle
<1>1. PICK s \in {"poll", "handle"} :
        mx_pc' = [mx_pc EXCEPT ![o] = s] /\ s = IF mx_at[o] = mx_upto[o] THEN "poll" ELSE "handle"
  BY DEF Matrix!Handle
<1>2. /\ ShapeInv /\ OrderInv /\ ResponseInv /\ MatrixPublishedInv /\ TokenInv /\ LeftOutInv
      /\ RepeatsInv /\ PublishedLeftOutInv
  BY DEF MatrixInv
<1>3. /\ OrderInv' /\ mx_pc'[o] = s /\ \A p \in Matrix!Objects \ {o} : mx_pc'[p] = mx_pc[p]
         /\ mx_pc[p] \notin Syncing
      /\ mx_pc' \in [Matrix!Objects -> {"new", "built", "filter", "poll", "save", "handle", "ended"}]
  BY <1>0, <1>1, SyncOrder DEF Syncing
<1>4. /\ 1 <= mx_at[o] /\ mx_at[o] <= mx_upto[o] /\ mx_upto[o] = mx_mem[o].batch
         /\ mx_disk.batch = mx_mem[o].batch
      /\ mx_mem[o].batch <= Len(mx_log) /\ mx_mem[o].batch \in 0..mx_MaxEvents
  BY <1>0, <1>2, Facts DEF ResponseInv, ShapeInv, Matrix!TypeOK, Matrix!State
<1>5. /\ mx_at'[o] = mx_at[o] + 1 /\ \A p \in Matrix!Objects \ {o} : mx_at'[p] = mx_at[p]
      /\ mx_at' \in [Matrix!Objects -> Nat] /\ mx_at'[o] \in 0..(mx_MaxEvents + 1)
  <2>1. mx_at[o] + 1 \in 0..(mx_MaxEvents + 1) /\ mx_at[o] + 1 \in Nat
    BY <1>4, Facts
  <2> QED BY <1>0, <1>2, <2>1 DEF ShapeInv
<1>6. \A p \in Matrix!Objects : /\ (mx_pc'[p] \in Alive <=> mx_pc[p] \in Alive)
                                   /\ (mx_pc'[p] \in Syncing <=> p = o)
                                /\ (mx_pc'[p] = "new" <=> mx_pc[p] = "new")
                                   /\ (mx_pc'[p] = "built" <=> mx_pc[p] = "built")
                                /\ mx_pc'[p] # "save" /\ (mx_pc'[p] = "handle" => p = o /\ s = "handle")
                                /\ (p # o /\ mx_pc'[p] \in Alive => mx_pc[p] = "built" /\ Position(p)' = Position(p))
  BY <1>0, <1>1, <1>3, <1>5 DEF Alive, Syncing, Position
<1>7. Position(o) = mx_at[o] /\ Position(o)' = mx_at[o] + 1
  BY <1>0, <1>1, <1>3, <1>4, <1>5 DEF Position
<1>13. ASSUME NEW p \in Matrix!Objects, NEW i \in DOMAIN mx_published, mx_pc'[p] \in Alive,
              mx_published[i].event >= Position(p)'
       PROVE  mx_pc[p] \in Alive /\ mx_published[i].event >= Position(p)
  <2>1. mx_at[o] \in Nat /\ mx_published[i].event \in Nat
    BY Facts
  <2>2. CASE p = o
    BY <1>6, <1>7, <1>13, <2>1, <2>2
  <2>3. CASE p # o
    BY <1>6, <1>13, <2>3
  <2> QED BY <2>2, <2>3
<1>8. ResponseInv'
  <2>1. ASSUME NEW p \in Matrix!Objects, mx_pc'[p] = "handle"
        PROVE  /\ 1 <= mx_at'[p] /\ mx_at'[p] <= mx_upto[p] /\ mx_upto[p] = mx_mem[p].batch
                  /\ mx_disk.batch = mx_mem[p].batch
    <3>1. p = o /\ mx_at[o] # mx_upto[o]
      BY <1>1, <1>6, <2>1
    <3> QED BY <1>4, <1>5, <3>1, Facts
  <2> QED BY <1>0, <1>2, <1>6, <2>1 DEF ResponseInv
<1>9. mx_published' \in Seq(Publishes) => ShapeInv'
  <2>1. \A p \in Matrix!Objects : {mx_upto'[p], mx_at'[p]} \subseteq 0..(mx_MaxEvents + 1)
    BY <1>0, <1>2, <1>5 DEF ShapeInv, Matrix!TypeOK
  <2> QED BY <1>0, <1>2, <1>3, <1>5, <2>1 DEF ShapeInv, Matrix!TypeOK
<1>10. CASE mx_published' = mx_published /\ (mx_log[mx_at[o]] # "message" \/ o \in mx_cancelled)
  <2>1. /\ RepeatsInv' /\ PublishedLeftOutInv'
        /\ \A q \in Matrix!Objects, i \in DOMAIN mx_published : Overlaps(q, i) => Overlaps(q, i)'
    BY <1>0, <1>10, Quietly
  <2>2. MatrixPublishedInv'
    BY <1>0, <1>2, <1>6, <1>10, Facts DEF MatrixPublishedInv
  <2>3. TokenInv'
    <3>1. ASSUME NEW p \in Matrix!Objects, NEW i \in DOMAIN mx_published, mx_pc'[p] \in Alive,
                 mx_published[i].event >= Position(p)'
          PROVE  \E q \in Matrix!Objects : q <= p /\ Overlaps(q, i)'
      <4>1. mx_pc[p] \in Alive /\ mx_published[i].event >= Position(p)
        BY <1>13, <3>1
      <4> QED BY <1>2, <2>1, <4>1 DEF TokenInv
    <3>2. ASSUME NEW i \in DOMAIN mx_published, mx_published[i].event > mx_disk.batch
          PROVE  \E q \in Matrix!Objects : mx_pc'[q] # "new" /\ Overlaps(q, i)'
      BY <1>2, <1>6, <2>1, <3>2 DEF TokenInv
    <3> QED BY <1>0, <1>10, <3>1, <3>2 DEF TokenInv
  <2>4. LeftOutInv'
    <3> SUFFICES ASSUME NEW p \in Matrix!Objects \ mx_cancelled, mx_pc'[p] \in Syncing,
                        NEW i \in DOMAIN mx_published,
                        mx_published[i].object = p, NEW e \in mx_published[i].event..(Position(p)' - 1),
                        mx_log[e] = "message"
                 PROVE  \E k \in DOMAIN mx_published : mx_published[k].object = p /\ mx_published[k].event = e
      BY <1>0, <1>10 DEF LeftOutInv
    <3>1. p = o /\ e # mx_at[o]
      BY <1>6, <1>10
    <3>2. e \in mx_published[i].event..(Position(o) - 1)
      BY <1>7, <3>1, Facts
    <3> QED BY <1>0, <1>2, <3>1, <3>2 DEF LeftOutInv, Syncing
  <2>5. ShapeInv'
    BY <1>2, <1>9, <1>10 DEF ShapeInv
  <2> QED BY <1>3, <1>8, <2>1, <2>2, <2>3, <2>4, <2>5 DEF MatrixInv
<1>11. CASE mx_published' = Append(mx_published, [event |-> mx_at[o], object |-> o])
  <2>n. PICK n \in Nat : n = Len(mx_published) + 1
    BY Facts
  <2>0. mx_published \in Seq(Publishes) /\ [event |-> mx_at[o], object |-> o] \in Publishes
    BY <1>2, Facts DEF ShapeInv, Publishes
  <2>1. /\ mx_published' \in Seq(Publishes) /\ Len(mx_published') = n /\ n \notin DOMAIN mx_published
        /\ DOMAIN mx_published' = DOMAIN mx_published \cup {n}
        /\ \A i \in DOMAIN mx_published : mx_published'[i] = mx_published[i] /\ i < n
        /\ mx_published'[n].event = mx_at[o] /\ mx_published'[n].object = o
    BY <1>11, <2>0, <2>n
  <2>2. ShapeInv'
    BY <1>9, <2>1
  <2>3. \A q \in Matrix!Objects, i \in DOMAIN mx_published : Overlaps(q, i) => Overlaps(q, i)'
    BY <1>0, <2>1 DEF Overlaps
  <2>4. \A i \in DOMAIN mx_published : mx_published[i].object = o => mx_published[i].event < mx_at[o]
    <3> SUFFICES ASSUME NEW i \in DOMAIN mx_published, mx_published[i].object = o,
                        mx_published[i].event >= mx_at[o]
                 PROVE  FALSE
      BY Facts
    <3>1. PICK q \in Matrix!Objects : q <= o /\ Overlaps(q, i)
      BY <1>0, <1>2, <1>7 DEF TokenInv, Alive, Syncing
    <3> QED BY <3>1, Facts DEF Overlaps
  <2>5. \A p \in Matrix!Objects : mx_pc'[p] \in Alive /\ p # o => o < p /\ mx_mem[p].device /\ mx_built[p] < n
    <3> SUFFICES ASSUME NEW p \in Matrix!Objects, mx_pc'[p] \in Alive, p # o
                 PROVE  o < p /\ mx_mem[p].device /\ mx_built[p] < n
      OBVIOUS
    <3>1. mx_pc[p] = "built" /\ Matrix!Last(p) /\ mx_mem[p].device /\ mx_built[p] <= Len(mx_published)
      BY <1>2, <1>6 DEF OrderInv, ResponseInv, MatrixPublishedInv, Alive
    <3>2. ~(o > p)
      BY <1>0, <3>1 DEF Matrix!Last
    <3> QED BY <2>n, <3>1, <3>2, Facts
  <2>6. MatrixPublishedInv'
    <3>1. \A p \in Matrix!Objects : mx_built'[p] <= Len(mx_published')
      BY <1>0, <1>2, <2>1, <2>n, Facts DEF MatrixPublishedInv
    <3>2. ASSUME NEW i \in DOMAIN mx_published
          PROVE  /\ mx_pc'[mx_published'[i].object] \notin {"new", "built"}
                 /\ 1 <= mx_published'[i].event /\ mx_published'[i].event <= Len(mx_log')
                 /\ \A p \in Matrix!Objects : mx_pc'[p] \in Alive => mx_published'[i].object <= p
      <4>1. /\ mx_pc[mx_published[i].object] \notin {"new", "built"}
            /\ 1 <= mx_published[i].event /\ mx_published[i].event <= Len(mx_log)
            /\ \A p \in Matrix!Objects : mx_pc[p] \in Alive => mx_published[i].object <= p
        BY <1>2 DEF MatrixPublishedInv
      <4>2. mx_published'[i] = mx_published[i] /\ mx_log' = mx_log
            /\ mx_published[i].object \in Matrix!Objects
        BY <1>0, <2>1, Facts
      <4> QED BY <1>6, <4>1, <4>2
    <3>3. /\ mx_pc'[mx_published'[n].object] \notin {"new", "built"}
          /\ 1 <= mx_published'[n].event /\ mx_published'[n].event <= Len(mx_log')
      <4>1. mx_published'[n].object = o /\ mx_published'[n].event = mx_at[o] /\ mx_log' = mx_log
        BY <1>0, <2>1
      <4>2. mx_at[o] \in Nat /\ mx_upto[o] \in Nat /\ mx_mem[o].batch \in Nat /\ Len(mx_log) \in Nat
        BY Facts
      <4>3. 1 <= mx_at[o] /\ mx_at[o] <= Len(mx_log)
        BY <1>4, <4>2
      <4> QED BY <1>1, <1>3, <4>1, <4>3
    <3>4. \A p \in Matrix!Objects : mx_pc'[p] \in Alive => mx_published'[n].object <= p
      BY <2>1, <2>5, Facts
    <3> QED BY <2>1, <3>1, <3>2, <3>3, <3>4 DEF MatrixPublishedInv
  <2>7. TokenInv'
    <3>1. ASSUME NEW p \in Matrix!Objects, NEW i \in DOMAIN mx_published, mx_pc'[p] \in Alive,
                 mx_published[i].event >= Position(p)'
          PROVE  \E q \in Matrix!Objects : q <= p /\ Overlaps(q, i)'
      <4>1. mx_pc[p] \in Alive /\ mx_published[i].event >= Position(p)
        BY <1>13, <3>1
      <4> QED BY <1>2, <2>3, <4>1 DEF TokenInv
    <3>2. ASSUME NEW p \in Matrix!Objects, mx_pc'[p] \in Alive, mx_at[o] >= Position(p)'
          PROVE  \E q \in Matrix!Objects : q <= p /\ Overlaps(q, n)'
      <4>1. p # o
        BY <1>7, <3>2, Facts
      <4>2. Overlaps(p, n)'
        BY <1>0, <2>1, <2>5, <3>2, <4>1 DEF Overlaps
      <4> QED BY <4>2, Facts
    <3>3. ASSUME NEW i \in DOMAIN mx_published, mx_published[i].event > mx_disk.batch
          PROVE  \E q \in Matrix!Objects : mx_pc'[q] # "new" /\ Overlaps(q, i)'
      BY <1>2, <1>6, <2>3, <3>3 DEF TokenInv
    <3>4. ~(mx_at[o] > mx_disk.batch)
      BY <1>4, Facts
    <3>5. \A p \in Matrix!Objects, i \in DOMAIN mx_published' :
            mx_pc'[p] \in Alive /\ mx_published'[i].event >= Position(p)' =>
              \E q \in Matrix!Objects : q <= p /\ Overlaps(q, i)'
      BY <2>1, <3>1, <3>2
    <3>6. \A i \in DOMAIN mx_published' :
            mx_published'[i].event > mx_disk'.batch => \E q \in Matrix!Objects : mx_pc'[q] # "new"
            /\ Overlaps(q, i)'
      BY <1>0, <2>1, <3>3, <3>4
    <3> QED BY <3>5, <3>6 DEF TokenInv
  <2>8. ASSUME o \notin mx_cancelled, NEW i \in DOMAIN mx_published, mx_published[i].object = o,
               NEW e \in mx_published[i].event..mx_at[o], mx_log[e] = "message"
        PROVE  \E k \in DOMAIN mx_published' : mx_published'[k].object = o /\ mx_published'[k].event = e
    <3>1. CASE e = mx_at[o]
      BY <2>1, <3>1
    <3>2. CASE e # mx_at[o]
      <4>1. e \in mx_published[i].event..(Position(o) - 1)
        BY <1>7, <3>2, Facts
      <4>2. PICK k \in DOMAIN mx_published : mx_published[k].object = o /\ mx_published[k].event = e
        BY <1>0, <1>2, <2>8, <4>1 DEF LeftOutInv, Syncing
      <4> QED BY <2>1, <4>2
    <3> QED BY <3>1, <3>2
  <2>9. LeftOutInv'
    <3> SUFFICES ASSUME o \notin mx_cancelled, NEW i \in DOMAIN mx_published', mx_published'[i].object = o,
                        NEW e \in mx_published'[i].event..mx_at[o], mx_log[e] = "message"
                 PROVE  \E k \in DOMAIN mx_published' : mx_published'[k].object = o
                        /\ mx_published'[k].event = e
      <4>1. Position(o)' - 1 = mx_at[o]
        BY <1>7, Facts
      <4> QED BY <1>0, <1>6, <4>1 DEF LeftOutInv
    <3>1. CASE i = n
      <4>1. e = mx_at[o]
        BY <2>1, <3>1, Facts
      <4> QED BY <2>1, <4>1
    <3>2. CASE i \in DOMAIN mx_published
      BY <2>1, <2>8, <3>2
    <3> QED BY <2>1, <3>1, <3>2
  <2>10. RepeatsInv'
    <3> SUFFICES ASSUME NEW i \in DOMAIN mx_published', NEW j \in DOMAIN mx_published', i < j,
                        mx_published'[i].event = mx_published'[j].event
                 PROVE  \E q \in Matrix!Objects : q <= mx_published'[j].object /\ Overlaps(q, i)'
      BY DEF RepeatsInv
    <3>1. i \in DOMAIN mx_published
      BY <2>1, <2>n, Facts
    <3>2. CASE j \in DOMAIN mx_published
      BY <1>2, <2>1, <2>3, <3>1, <3>2 DEF RepeatsInv
    <3>3. CASE j = n
      <4>1. mx_published[i].event >= Position(o) /\ mx_pc[o] \in Alive
        BY <1>0, <1>7, <2>1, <3>1, <3>3, Facts DEF Alive, Syncing
      <4> QED BY <1>2, <2>1, <2>3, <3>1, <3>3, <4>1 DEF TokenInv
    <3> QED BY <2>1, <3>2, <3>3
  <2>11. PublishedLeftOutInv'
    <3> SUFFICES ASSUME NEW i \in DOMAIN mx_published', NEW j \in DOMAIN mx_published',
                        mx_published'[i].object = mx_published'[j].object,
                        mx_published'[j].object \notin mx_cancelled,
                        NEW e \in mx_published'[i].event..mx_published'[j].event, mx_log[e] = "message"
                 PROVE  \E k \in DOMAIN mx_published' :
                          mx_published'[k].object = mx_published'[j].object /\ mx_published'[k].event = e
      BY <1>0 DEF PublishedLeftOutInv
    <3>1. CASE i \in DOMAIN mx_published /\ j \in DOMAIN mx_published
      <4>1. PICK k \in DOMAIN mx_published :
              mx_published[k].object = mx_published[j].object /\ mx_published[k].event = e
        BY <1>2, <2>1, <3>1 DEF PublishedLeftOutInv
      <4> QED BY <2>1, <3>1, <4>1
    <3>2. CASE i \in DOMAIN mx_published /\ j = n
      BY <2>1, <2>8, <3>2
    <3>3. CASE i = n /\ j \in DOMAIN mx_published
      <4>1. mx_published[j].object = o /\ mx_published[j].event < mx_at[o]
            /\ mx_published'[i].event = mx_at[o]
            /\ mx_published'[j].event = mx_published[j].event
        BY <2>1, <2>4, <3>3
      <4>2. mx_published[j].event \in Nat /\ mx_at[o] \in Nat
        BY <3>3, Facts
      <4>3. ~(e \in mx_at[o]..mx_published[j].event)
        BY <4>1, <4>2
      <4> QED BY <4>1, <4>3
    <3>4. CASE i = n /\ j = n
      <4>1. e = mx_at[o]
        BY <2>1, <3>4, Facts
      <4> QED BY <2>1, <3>4, <4>1
    <3> QED BY <2>1, <3>1, <3>2, <3>3, <3>4
  <2> QED BY <1>3, <1>8, <2>2, <2>6, <2>7, <2>9, <2>10, <2>11 DEF MatrixInv
<1> QED BY <1>10, <1>11 DEF Matrix!Handle

-----------------------------------------------------------------------------
\* mautrix's sync over fileSyncStore: a message is published again only when a reload had let an
\* object read the token before it was published the first time, whatever writes fail and processes
\* die, and an object that is not stopped leaves none out.
THEOREM SyncResumes ==
  ASSUME Matrix!MatrixAssumption
  PROVE  Matrix!Spec => []Matrix!MatrixSyncResumes
<1>1. Matrix!Init => MatrixInv
  BY MatrixInit
<1>2. MatrixInv /\ [Matrix!Next]_(Matrix!vars) => MatrixInv'
  <2> SUFFICES ASSUME MatrixInv, [Matrix!Next]_(Matrix!vars) PROVE MatrixInv'
    OBVIOUS
  <2>1. CASE UNCHANGED Matrix!vars
    <3>1. ShapeInv' /\ OrderInv'
      BY <2>1 DEF Matrix!vars, Matrix!objVars, MatrixInv, ShapeInv, Matrix!TypeOK, OrderInv, Matrix!Last
    <3>2. ResponseInv' /\ MatrixPublishedInv'
      BY <2>1 DEF Matrix!vars, Matrix!objVars, MatrixInv, ResponseInv, MatrixPublishedInv
    <3>3. TokenInv' /\ LeftOutInv'
      BY <2>1 DEF Matrix!vars, Matrix!objVars, MatrixInv, TokenInv, LeftOutInv, Overlaps, Position
    <3>4. RepeatsInv' /\ PublishedLeftOutInv'
      BY <2>1 DEF Matrix!vars, Matrix!objVars, MatrixInv, RepeatsInv, PublishedLeftOutInv, Overlaps
    <3> QED
      BY <3>1, <3>2, <3>3, <3>4 DEF MatrixInv
  <2> QED
    BY <2>1, ArriveKeeps, BuildKeeps, StartNextKeeps, FilterKeeps, PollKeeps, SaveNextBatchKeeps,
       HandleKeeps, PollEndsKeeps, StopLastKeeps, CrashKeeps DEF Matrix!Next, Matrix!SyncStep
<1>3. MatrixInv => Matrix!MatrixSyncResumes
  BY InvImplies DEF Matrix!MatrixSyncResumes
<1> QED BY <1>1, <1>2, <1>3, PTL DEF Matrix!Spec

-----------------------------------------------------------------------------
(* In the composition, as it is model-checked.                             *)

\* A behaviour of the components is one of WeCom's.
LEMMA WeComRuns == Spec => WeCom!Spec
<1>1. Init => WeCom!Init
  BY DEF Init
<1>2. [Next]_vars => [WeCom!Next]_(WeCom!vars)
  BY DEF Next, vars, wc_vars, WeCom!vars
<1> QED BY <1>1, <1>2, PTL DEF Spec, WeCom!Spec

\* wecom: what the run checks of repeats, answerable chats and where the answers go.
THEOREM WeComChats == Spec => []WeComKeepsItsChats
<1>1. WeCom!WeComKeepsItsChats => WeComKeepsItsChats
  BY DEF WeComKeepsItsChats
<1>2. WeCom!Spec => []WeCom!WeComKeepsItsChats
  BY ChatsKept, ComponentsAssumption
<1> QED BY <1>1, <1>2, WeComRuns, PTL

\* A behaviour of the components is one of Feishu's.
LEMMA FeishuRuns == Spec => Feishu!Spec
<1>1. Init => Feishu!Init
  BY DEF Init
<1>2. [Next]_vars => [Feishu!Next]_(Feishu!vars)
  BY DEF Next, vars, fs_vars, Feishu!vars
<1> QED BY <1>1, <1>2, PTL DEF Spec, Feishu!Spec

\* feishu: what the run checks of the shared token and the messages that wait for it.
THEOREM FeishuTokens == Spec => []FeishuTokensAreGood
<1>1. Feishu!FeishuTokensAreGood => FeishuTokensAreGood
  BY DEF FeishuTokensAreGood
<1>2. Feishu!Spec => []Feishu!FeishuTokensAreGood
  BY TokensAreGood, ComponentsAssumption
<1> QED BY <1>1, <1>2, FeishuRuns, PTL

\* A behaviour of the components is one of Telegram's.
LEMMA TelegramRuns == Spec => Telegram!Spec
<1>1. Init => Telegram!Init
  BY DEF Init
<1>2. [Next]_vars => [Telegram!Next]_(Telegram!vars)
  BY DEF Next, vars, tg_vars, Telegram!vars, Telegram!pollVars
<1> QED BY <1>1, <1>2, PTL DEF Spec, Telegram!Spec

\* telegram: what the run checks of the updates fetched, collected and published.
THEOREM TelegramUpdates == Spec => []TelegramHandlesEachUpdate
<1>1. Telegram!TelegramHandlesEachUpdate => TelegramHandlesEachUpdate
  BY DEF TelegramHandlesEachUpdate
<1>2. Telegram!Spec => []Telegram!TelegramHandlesEachUpdate
  BY UpdatesHandled, ComponentsAssumption
<1> QED BY <1>1, <1>2, TelegramRuns, PTL

\* A behaviour of the components is one of TelegramStream's.
LEMMA TelegramStreamRuns == Spec => TelegramStream!Spec
<1>1. Init => TelegramStream!Init
  BY DEF Init
<1>2. [Next]_vars => [TelegramStream!Next]_(TelegramStream!vars)
  BY DEF Next, vars, ts_vars, TelegramStream!vars, TelegramStream!apiVars, TelegramStream!finalRest, TelegramStream!sendVars
<1> QED BY <1>1, <1>2, PTL DEF Spec, TelegramStream!Spec

\* telegram: what the run checks of streamed answers, cooldowns and what is left in the chat.
THEOREM TelegramStreams == Spec => []TelegramStreamsEndWell
<1>1. TelegramStream!TelegramStreamsEndWell => TelegramStreamsEndWell
  BY DEF TelegramStreamsEndWell
<1>2. TelegramStream!Spec => []TelegramStream!TelegramStreamsEndWell
  BY StreamsEndWell, ComponentsAssumption
<1> QED BY <1>1, <1>2, TelegramStreamRuns, PTL

\* A behaviour of the components is one of Matrix's.
LEMMA MatrixRuns == Spec => Matrix!Spec
<1>1. Init => Matrix!Init
  BY DEF Init
<1>2. [Next]_vars => [Matrix!Next]_(Matrix!vars)
  BY DEF Next, vars, mx_vars, Matrix!vars, Matrix!objVars
<1> QED BY <1>1, <1>2, PTL DEF Spec, Matrix!Spec

\* matrix: what the run checks of a sync resumed from the file.
THEOREM MatrixSync == Spec => []MatrixSyncResumes
<1>1. Matrix!MatrixSyncResumes => MatrixSyncResumes
  BY DEF MatrixSyncResumes
<1>2. Matrix!Spec => []Matrix!MatrixSyncResumes
  BY SyncResumes, ComponentsAssumption
<1> QED BY <1>1, <1>2, MatrixRuns, PTL
=============================================================================
