------------------------------- MODULE Feishu -------------------------------
(***************************************************************************)
(* internal/plugins/channel/feishu: webhook handlers and Sends that share  *)
(* one tenant access token, cached until a minute before it expires and    *)
(* fetched anew under the write lock. A webhook handler ends its request   *)
(* only when it returns; an image it cannot fetch becomes a placeholder.   *)
(***************************************************************************)
EXTENDS Naturals, Sequences, FiniteSets

CONSTANTS
  Hooks,     \* webhook requests
  Sends,     \* calls of Send
  Life,      \* seconds a token lives, as the open platform tells
  Margin,    \* the 60 seconds a cached token is given up before
  MaxTime    \* bound: clock

FeishuAssumption ==
  /\ Life \in Nat /\ Margin \in Nat /\ Margin < Life
  /\ Hooks \cap Sends = {} /\ "nobody" \notin Hooks \cup Sends

Callers == Hooks \cup Sends
Nobody == "nobody"
Kinds == {"text", "image", "other"}

VARIABLES
  now,
  mu,         \* holder of the write lock of feishuClient.mu
  token, exp, \* the cached token (0 for "") and tokenExp
  issued,     \* when the open platform made each token
  asked,      \* when the token request under way was sent
  late,       \* tokens whose answer took the margin or longer: no timeout bounds the request
  pc,
  kind,       \* webhook -> the event it carries
  gone,       \* callers whose ctx has ended
  got,        \* caller -> the token it was given and when; token 0 for an error
  fetches,    \* history of the fetches: when asked, expiry stored
  published   \* webhook -> what it put on the bus

vars == <<now, mu, token, exp, issued, asked, late, pc, kind, gone, got, fetches, published>>
NoToken == [token |-> 0, at |-> 0]

Init ==
  /\ now = 0 /\ mu = Nobody /\ token = 0 /\ exp = 0 /\ issued = <<>> /\ asked = 0 /\ late = {}
  /\ pc = [c \in Callers |-> "idle"]
  /\ kind = [h \in Hooks |-> "other"]
  /\ gone = {} /\ got = [c \in Callers |-> NoToken]
  /\ fetches = <<>> /\ published = [h \in Hooks |-> "nothing"]

Cached == token # 0 /\ now < exp
cacheVars == <<token, exp, issued, asked, late, fetches>>

-----------------------------------------------------------------------------
(* Webhook requests and Sends begin and end                                *)

\* An event with the right token from an allowed sender; anything else changes nothing.
HookBegins(h) ==
  /\ pc[h] = "idle"
  /\ \E k \in Kinds :
       /\ kind' = [kind EXCEPT ![h] = k]
       /\ pc' = [pc EXCEPT ![h] = IF k = "image" THEN "token" ELSE IF k = "text" THEN "publish" ELSE "done"]
  /\ UNCHANGED <<now, mu, cacheVars, gone, got, published>>

SendBegins(s) ==
  /\ pc[s] = "idle"
  /\ pc' = [pc EXCEPT ![s] = "token"]
  /\ UNCHANGED <<now, mu, cacheVars, kind, gone, got, published>>

\* With a token the image is downloaded, or left as a URL; without one there is only text.
\* The request's own ctx bounds the wait for the bus.
HookPublishes(h) ==
  /\ pc[h] \in {"publish", "have"}
  /\ pc' = [pc EXCEPT ![h] = "done"]
  /\ \/ published' = [published EXCEPT ![h] = IF kind[h] = "text" THEN "text"
                                              ELSE IF got[h].token = 0 THEN "placeholder" ELSE "image"]
     \/ h \in gone /\ UNCHANGED published
  /\ UNCHANGED <<now, mu, cacheVars, kind, gone, got>>

SendEnds(s) ==
  /\ pc[s] = "have"
  /\ pc' = [pc EXCEPT ![s] = "done"]
  /\ UNCHANGED <<now, mu, cacheVars, kind, gone, got, published>>

-----------------------------------------------------------------------------
(* GetTenantAccessToken *)

\* It returns a token, or an error.
Return(c, t) ==
  /\ pc' = [pc EXCEPT ![c] = "have"]
  /\ got' = [got EXCEPT ![c] = [token |-> t, at |-> now]]

\* The look under RLock.
Peek(c) ==
  /\ pc[c] = "token" /\ mu = Nobody
  /\ IF Cached THEN Return(c, token) ELSE pc' = [pc EXCEPT ![c] = "lock"] /\ UNCHANGED got
  /\ UNCHANGED <<now, mu, cacheVars, kind, gone, published>>

\* Mutation of Ask: no second look after the lock.
AskAgain(c) ==
  /\ pc[c] = "lock" /\ mu = Nobody
  /\ mu' = c /\ pc' = [pc EXCEPT ![c] = "fetch"]
  /\ asked' = now /\ issued' = Append(issued, now)
  /\ UNCHANGED <<now, token, exp, late, fetches, kind, gone, got, published>>

\* The second look, under the lock, and the request; the lock is held until it is answered.
Ask(c) ==
  /\ pc[c] = "lock" /\ mu = Nobody
  /\ IF Cached
     THEN Return(c, token) /\ UNCHANGED <<mu, asked, issued>>
     ELSE /\ mu' = c /\ pc' = [pc EXCEPT ![c] = "fetch"]
          /\ asked' = now /\ issued' = Append(issued, now)
          /\ UNCHANGED got
  /\ UNCHANGED <<now, token, exp, late, fetches, kind, gone, published>>

\* Mutation of Answer: tokenExp without the margin.
AnswerNoMargin(c) ==
  /\ pc[c] = "fetch"
  /\ mu' = Nobody
  /\ \/ /\ token' = Len(issued) /\ exp' = now + Life
        /\ fetches' = Append(fetches, [at |-> asked, exp |-> exp'])
        /\ late' = IF now < asked + Margin THEN late ELSE late \cup {token'}
        /\ Return(c, token')
     \/ Return(c, 0) /\ UNCHANGED <<token, exp, late, fetches>>
  /\ UNCHANGED <<now, issued, asked, kind, gone, published>>

\* The answer, an error of any kind, or the end of the caller's ctx.
Answer(c) ==
  /\ pc[c] = "fetch"
  /\ mu' = Nobody
  /\ \/ /\ token' = Len(issued) /\ exp' = now + (Life - Margin)
        /\ fetches' = Append(fetches, [at |-> asked, exp |-> exp'])
        /\ late' = IF now < asked + Margin THEN late ELSE late \cup {token'}
        /\ Return(c, token')
     \/ Return(c, 0) /\ UNCHANGED <<token, exp, late, fetches>>
  /\ UNCHANGED <<now, issued, asked, kind, gone, published>>

\* The client hangs up, or Stop closes the server.
CtxEnds(c) ==
  /\ pc[c] \notin {"idle", "done"} /\ c \notin gone
  /\ gone' = gone \cup {c}
  /\ UNCHANGED <<now, mu, cacheVars, pc, kind, got, published>>

Tick ==
  /\ now < MaxTime
  /\ now' = now + 1
  /\ UNCHANGED <<mu, cacheVars, pc, kind, gone, got, published>>

Next ==
  \/ \E h \in Hooks : HookBegins(h) \/ HookPublishes(h)
  \/ \E s \in Sends : SendBegins(s) \/ SendEnds(s)
  \/ \E c \in Callers : Peek(c) \/ Ask(c) \/ Answer(c) \/ CtxEnds(c)
  \/ Tick

Spec == Init /\ [][Next]_vars

-----------------------------------------------------------------------------
TypeOK ==
  /\ now \in Nat /\ exp \in Nat /\ asked \in Nat
  /\ issued \in Seq(Nat) /\ token \in 0..Len(issued) /\ late \subseteq Nat
  /\ mu \in Callers \cup {Nobody}
  /\ pc \in [Callers -> {"idle", "token", "lock", "fetch", "have", "publish", "done"}]
  /\ kind \in [Hooks -> Kinds] /\ gone \subseteq Callers
  /\ got \in [Callers -> [token : Nat, at : Nat]]
  /\ fetches \in Seq([at : Nat, exp : Nat])
  /\ published \in [Hooks -> {"nothing", "text", "placeholder", "image"}]

(* The lock is held exactly while a token is fetched, the request is the   *)
(* newest one, and what is cached is given up before it expires, but for a *)
(* token that was as long under way as the margin.                         *)
TokenInv ==
  /\ \A c \in Callers : pc[c] = "fetch" <=> mu = c
  /\ mu # Nobody => issued # <<>> /\ issued[Len(issued)] = asked
                    /\ asked <= now
  /\ token # 0 /\ token \notin late => exp < issued[token] + Life

(* Whoever is given a token, the platform still accepts it then, however   *)
(* long ago it was cached: only an answer slower than the margin brings    *)
(* one that is given out after its end.                                    *)
GivenTokensAreLive ==
  \A c \in Callers : got[c].token # 0 /\ got[c].token \notin late
                      => got[c].at < issued[got[c].token] + Life

(* However many requests find the token expired at once, one of them       *)
(* fetches: the platform is never asked while a cached token is good.      *)
OneFetchPerLife ==
  \A i \in 2..Len(fetches) : fetches[i - 1].exp <= fetches[i].at

(* A message is published whatever happens to its image and to the token,  *)
(* unless its sender hung up.                                              *)
NothingIsDropped ==
  \A h \in Hooks : pc[h] = "done" /\ kind[h] # "other" /\ h \notin gone => published[h] # "nothing"

(* The shared token and the messages that wait for it.                     *)
FeishuTokensAreGood ==
  TypeOK /\ TokenInv /\ GivenTokensAreLive /\ OneFetchPerLife /\ NothingIsDropped
=============================================================================
