------------------------------ MODULE Session ------------------------------
(***************************************************************************)
(* internal/kernel/session and agent/postaction: which session a chat is   *)
(* in (the router and its file), what history a turn of it sees (the store *)
(* of .jsonl files) and how /new and /compact move it to a fresh session.  *)
(* The inbound loop handles one message at a time; a crash may fall        *)
(* between any two of its steps. A history is the set of the turns in it,  *)
(* a summary of turn t is -t.                                              *)
(***************************************************************************)
EXTENDS Integers, FiniteSets, Functions

CONSTANTS
  Chats,          \* StableRouteKey of each chat
  TurnKinds,      \* which of "chat", "isolated", "new" and "compact" arrive
  StreamedChats,  \* chats on a StreamChannel whose messages lack ForceSync
  MaxTurns,       \* bound: messages handled
  MaxErrors,      \* bound: writes of session-router.json and of seed files that fail
  MaxCrashes      \* bound: restarts of the process

SessionAssumption ==
  Chats # {} /\ MaxTurns \in Nat /\ MaxErrors \in Nat /\ MaxCrashes \in Nat

Ids == [chat : Chats, kind : {"chat", "rotated", "isolated"}, token : 0..MaxTurns]
Default(c) == [chat |-> c, kind |-> "chat", token |-> 0]

VARIABLES
  router, file,   \* Router.sessions and the mapping in session-router.json
  shape,          \* that file is "whole", "empty" (or absent), or "cut" in the middle
  store,          \* session id -> its .jsonl file
  seeds,          \* session id -> .maven/history/<id>.json
  pc,             \* where handle is
  cur,            \* the message in hand: chat, kind, session id, new session id
  seen,           \* the history its turn was given
  flushed,        \* preCompactFlush has run
  result,         \* what became of the last message
  turns, errors, crashes,
  conv,           \* chat -> what its user was told the conversation consists of
  past,           \* chat -> all that was ever saved of it, isolated turns apart
  misled,         \* chats whose session a restart took from an empty file
  excused         \* chats that lost history to a crash or a failed write

fileVars == <<file, shape, store, seeds>>
userVars == <<conv, past, misled, excused>>
turnVars == <<cur, seen, flushed>>
countVars == <<turns, errors, crashes>>
vars == <<router, fileVars, pc, turnVars, result, countVars, userVars>>

Init ==
  /\ router = [c \in {} |-> Default(c)] /\ file = router /\ shape = "empty"
  /\ store = [i \in {} |-> {}] /\ seeds = store
  /\ pc = "idle" /\ seen = {} /\ flushed = FALSE /\ result = "none"
  /\ cur = LET c == CHOOSE c \in Chats : TRUE
           IN [chat |-> c, kind |-> "none", sid |-> Default(c), new |-> Default(c)]
  /\ turns = 0 /\ errors = 0 /\ crashes = 0
  /\ conv = [c \in Chats |-> {}] /\ past = conv /\ misled = {} /\ excused = {}

\* Router.Resolve: the mapping, or the chat's own session.
Current(c) == IF c \in DOMAIN router THEN router[c] ELSE Default(c)

\* Session ids are told apart by the clock, here the number of the message.
NewId(c, kind) == [chat |-> c, kind |-> kind, token |-> turns']

\* ResolveSDKSessionID
SessionFor(c, kind) == IF kind = "isolated" THEN NewId(c, "isolated") ELSE Current(c)

IsIsolated(id) == id.kind = "isolated"

\* Store.Load through NoIsolatedStore: a session without a file has no history.
Load(id) == IF IsIsolated(id) \/ id \notin DOMAIN store THEN {} ELSE store[id]

WithEntry(f, k, v) == [x \in DOMAIN f \cup {k} |-> IF x = k THEN v ELSE f[x]]
Fails == errors < MaxErrors /\ errors' = errors + 1

Done(r) == pc' = "idle" /\ result' = r

\* persistLocked: os.WriteFile opens the file and thereby empties it, before it writes.
FileOpens == file' = [c \in {} |-> Default(c)] /\ shape' = "empty"

\* It cannot be opened, and keeps what it holds; memory has been changed all the same.
FileStays(c) ==
  /\ Done("error")
  /\ excused' = excused \cup {c}
  /\ UNCHANGED <<file, shape>>

\* The user is told of a fresh conversation, and his chat is in a session of its own.
Afresh(history) ==
  /\ conv' = [conv EXCEPT ![cur.chat] = history]
  /\ misled' = misled \ {cur.chat} /\ excused' = excused \ {cur.chat}
  /\ UNCHANGED past

-----------------------------------------------------------------------------
(* A message arrives *)

\* A chat, isolated or /compact message: the session is resolved and the runtime
\* loads its history.
Begin(c, kind) ==
  /\ pc = "idle" /\ kind # "new" /\ turns < MaxTurns
  /\ turns' = turns + 1
  /\ cur' = [chat |-> c, kind |-> kind, sid |-> SessionFor(c, kind), new |-> Default(c)]
  /\ seen' = Load(SessionFor(c, kind))
  /\ flushed' = FALSE /\ pc' = "turn"
  /\ UNCHANGED <<router, fileVars, result, errors, crashes, userVars>>

\* Mutation of New: the rotation stays in memory.
NewUnsaved(c) ==
  /\ pc = "idle" /\ turns < MaxTurns
  /\ turns' = turns + 1
  /\ cur' = [chat |-> c, kind |-> "new", sid |-> Current(c), new |-> NewId(c, "rotated")]
  /\ router' = WithEntry(router, c, NewId(c, "rotated"))
  /\ conv' = [conv EXCEPT ![c] = {}] /\ Done("ok")
  /\ UNCHANGED <<fileVars, seen, flushed, errors, crashes, past, misled, excused>>

\* /new: HandleBuiltin rotates. Memory is changed before the file is opened, and
\* stays changed when that fails.
New(c) ==
  /\ pc = "idle" /\ turns < MaxTurns
  /\ turns' = turns + 1
  /\ cur' = [chat |-> c, kind |-> "new", sid |-> Current(c), new |-> NewId(c, "rotated")]
  /\ router' = WithEntry(router, c, NewId(c, "rotated"))
  /\ \/ FileOpens /\ pc' = "write" /\ UNCHANGED <<errors, result, excused>>
     \/ Fails /\ FileStays(c)
  /\ UNCHANGED <<store, seeds, seen, flushed, crashes, conv, past, misled>>

-----------------------------------------------------------------------------
(* The write of session-router.json, after its truncation                  *)

\* /new is acknowledged, /compact goes on to the seed, Set had failed already.
FileWritten ==
  /\ pc \in {"write", "restore"}
  /\ file' = router /\ shape' = "whole"
  /\ CASE pc = "restore" -> Done("error") /\ UNCHANGED userVars
       [] pc = "write" /\ cur.kind = "new" -> Done("ok") /\ Afresh({})
       [] OTHER -> pc' = "seed" /\ UNCHANGED <<result, userVars>>
  /\ UNCHANGED <<router, store, seeds, turnVars, countVars>>

\* A failed write leaves the file empty, or what was written of it.
WriteFails ==
  /\ pc \in {"write", "restore"}
  /\ Fails /\ Done("error")
  /\ shape' \in {"empty", "cut"}
  /\ excused' = excused \cup {cur.chat}
  /\ UNCHANGED <<router, file, store, seeds, turnVars, turns, crashes, conv, past, misled>>

-----------------------------------------------------------------------------
(* The turn and the save of its history *)

TurnEnds ==
  /\ pc = "turn"
  /\ \/ pc' = "save" /\ UNCHANGED result
     \/ Done("error")
  /\ UNCHANGED <<router, fileVars, turnVars, countVars, userVars>>

\* Mutation of SaveBegin: NoIsolatedStore passes every session on.
SaveBeginAll ==
  /\ pc = "save"
  /\ store' = WithEntry(store, cur.sid, {})
  /\ pc' = "saving"
  /\ UNCHANGED <<router, file, shape, seeds, turnVars, result, countVars, userVars>>

\* Store.Save truncates the file of the session; isolated sessions have none.
SaveBegin ==
  /\ pc = "save"
  /\ store' = IF IsIsolated(cur.sid) THEN store ELSE WithEntry(store, cur.sid, {})
  /\ pc' = "saving"
  /\ UNCHANGED <<router, file, shape, seeds, turnVars, result, countVars, userVars>>

\* The history is written out. A sync /compact goes on with its post-action, unless
\* the summary is empty; a streamed turn has none.
SaveEnd ==
  /\ pc = "saving"
  /\ IF IsIsolated(cur.sid) THEN UNCHANGED <<store, conv, past>>
     ELSE /\ store' = [store EXCEPT ![cur.sid] = seen \cup {turns}]
          /\ conv' = [conv EXCEPT ![cur.chat] = @ \cup {turns}]
          /\ past' = [past EXCEPT ![cur.chat] = @ \cup {turns}]
  /\ IF cur.kind = "compact" /\ cur.chat \notin StreamedChats
     THEN \/ pc' = (IF flushed THEN "rotate" ELSE "flush") /\ UNCHANGED result
          \/ ~flushed /\ Done("error")
     ELSE Done("ok")
  /\ UNCHANGED <<router, file, shape, seeds, turnVars, countVars, misled, excused>>

-----------------------------------------------------------------------------
(* HandlePostResponse of /compact *)

\* preCompactFlush runs one more turn in the old session.
Flush ==
  /\ pc = "flush"
  /\ flushed' = TRUE /\ seen' = Load(cur.sid)
  /\ pc' \in {"save", "rotate"}
  /\ UNCHANGED <<router, fileVars, cur, result, countVars, userVars>>

CompactRotate ==
  /\ pc = "rotate"
  /\ cur' = [cur EXCEPT !.new = [chat |-> cur.chat, kind |-> "rotated", token |-> turns]]
  /\ router' = WithEntry(router, cur.chat, cur'.new)
  /\ \/ FileOpens /\ pc' = "write" /\ UNCHANGED <<errors, result, excused>>
     \/ Fails /\ FileStays(cur.chat)
  /\ UNCHANGED <<store, seeds, seen, flushed, turns, crashes, conv, past, misled>>

\* Mutation of Seed: the summary is filed under the route key, not the session id.
SeedByRoute ==
  /\ pc = "seed"
  /\ seeds' = WithEntry(seeds, cur.chat, {-turns})
  /\ Done("ok") /\ Afresh({-turns})
  /\ UNCHANGED <<router, file, shape, store, turnVars, countVars>>

\* seedSessionSummary
Seed ==
  /\ pc = "seed"
  /\ seeds' = WithEntry(seeds, cur.new, {-turns})
  /\ Done("ok") /\ Afresh({-turns})
  /\ UNCHANGED <<router, file, shape, store, turnVars, countVars>>

\* Mutation of SeedFails: the chat stays in the unseeded session.
SeedFailsKeeps ==
  /\ pc = "seed" /\ Fails
  /\ Done("error")
  /\ UNCHANGED <<router, fileVars, turnVars, turns, crashes, userVars>>

\* The seed file cannot be written: Router.Set puts the old session back, dropping the
\* entry if it is the default one. What becomes of its own write is not looked at.
SeedFails ==
  /\ pc = "seed"
  /\ router' = IF cur.sid = Default(cur.chat) THEN Restrict(router, DOMAIN router \ {cur.chat})
               ELSE WithEntry(router, cur.chat, cur.sid)
  /\ \/ Fails /\ FileOpens /\ pc' = "restore" /\ UNCHANGED <<result, excused>>
     \/ errors + 1 < MaxErrors /\ errors' = errors + 2 /\ FileStays(cur.chat)
  /\ UNCHANGED <<store, seeds, turnVars, turns, crashes, conv, past, misled>>

-----------------------------------------------------------------------------
(* The process dies and starts again from the files                        *)

\* A write under way is over, or leaves the file as a failed one does. New takes an empty
\* file for a router without chats and refuses one that is cut: wireCore fails, and the
\* gateway does not start until somebody removes the file.
Crash ==
  LET fell == IF shape' = "whole" THEN {} ELSE DOMAIN router
  IN
  /\ pc # "down" /\ crashes < MaxCrashes
  /\ crashes' = crashes + 1
  /\ \/ UNCHANGED <<file, shape>>
     \/ pc \in {"write", "restore"} /\ file' = router /\ shape' = "whole"
     \/ pc \in {"write", "restore"} /\ shape' = "cut" /\ UNCHANGED file
  /\ router' = file'
  /\ pc' = IF shape' = "cut" THEN "down" ELSE "idle"
  /\ result' = IF pc = "idle" THEN result ELSE "lost"
  /\ misled' = misled \cup fell
  /\ excused' = excused \cup fell \cup
                (IF pc \in {"saving", "write", "seed", "restore"} THEN {cur.chat} ELSE {})
  /\ UNCHANGED <<store, seeds, turnVars, turns, errors, conv, past>>

Next ==
  \/ \E c \in Chats : ("new" \in TurnKinds /\ New(c)) \/ \E k \in TurnKinds : Begin(c, k)
  \/ FileWritten \/ WriteFails
  \/ TurnEnds \/ SaveBegin \/ SaveEnd
  \/ Flush \/ CompactRotate \/ Seed \/ SeedFails
  \/ Crash

Spec == Init /\ [][Next]_vars

-----------------------------------------------------------------------------
Items == -MaxTurns..MaxTurns
TypeOK ==
  /\ {DOMAIN router, DOMAIN file} \subseteq SUBSET Chats
  /\ Range(router) \cup Range(file) \subseteq Ids /\ shape \in {"whole", "empty", "cut"}
  /\ DOMAIN store \cup DOMAIN seeds \subseteq Ids
  /\ Range(store) \cup Range(seeds) \subseteq SUBSET Items
  /\ pc \in {"idle", "turn", "save", "saving", "flush", "rotate", "write", "seed", "restore", "down"}
  /\ cur \in [chat : Chats, kind : TurnKinds \cup {"none"}, sid : Ids, new : Ids]
  /\ seen \subseteq Items /\ flushed \in BOOLEAN
  /\ result \in {"none", "ok", "error", "lost"}
  /\ turns \in 0..MaxTurns /\ errors \in 0..MaxErrors /\ crashes \in 0..MaxCrashes
  /\ {conv, past} \subseteq [Chats -> SUBSET Items] /\ {misled, excused} \subseteq SUBSET Chats

(* A turn is given nothing but its own chat's conversation since the last  *)
(* acknowledged /new or /compact: no other chat's, no isolated turn's and, *)
(* after whatever failed writes and restarts, none of what the user was    *)
(* told is gone. A restart that finds the router's file empty, because a   *)
(* write of it was cut short, brings old turns back into the chats it had  *)
(* moved, until their next /new or /compact: of their own still.           *)
SeesOnlyItsConversation ==
  pc = "turn" => seen \subseteq (IF cur.kind = "isolated" THEN {}
                                ELSE IF cur.chat \in misled THEN past[cur.chat] ELSE conv[cur.chat])

(* Nothing of the conversation is missing from a turn, not even after a    *)
(* /compact that could not write its seed, unless since the chat's last    *)
(* acknowledged /new or /compact a write of the router for it failed, a    *)
(* crash cut its save, /new or /compact short, or a restart found the      *)
(* router's file empty.                                                    *)
NothingIsForgotten ==
  pc = "turn" /\ cur.kind # "isolated" /\ cur.chat \notin excused
    => {t \in conv[cur.chat] : t > 0} \subseteq seen

(* Isolated turns leave no file behind and no chat is ever moved into one. *)
IsolatedLeavesNoTrace ==
  \A id \in DOMAIN store \cup Range(router) \cup Range(file) : ~IsIsolated(id)

(* The chats, their sessions and the files, through failures and restarts. *)
SessionsKeepTheirHistory ==
  TypeOK /\ SeesOnlyItsConversation /\ NothingIsForgotten /\ IsolatedLeavesNoTrace

(* docs/concepts/sessions.md: "the new session's history is seeded with    *)
(* the summary as a system message": the next turn is given it.            *)
SummaryIsSeen ==
  pc = "turn" /\ cur.kind # "isolated" /\ cur.chat \notin excused
    => {t \in conv[cur.chat] : t < 0} \subseteq seen

(* docs/concepts/sessions.md: "The router persists mappings to             *)
(* `<workspace>/.maven/session-router.json`": after a restart no chat is   *)
(* given what a /new or a /compact took from it.                           *)
RotationsSurviveCrashes ==
  pc = "turn" /\ cur.kind # "isolated" => seen \subseteq conv[cur.chat]

(* docs/guides/slash-commands.md on /compact: "The router rotates the      *)
(* session", whatever channel it was typed in.                             *)
CompactRotates ==
  pc = "idle" /\ cur.kind = "compact" /\ result = "ok" => Current(cur.chat) # cur.sid
=============================================================================
