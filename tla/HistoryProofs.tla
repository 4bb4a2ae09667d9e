---------------------------- MODULE HistoryProofs ---------------------------
(***************************************************************************)
(* Proofs about what is remembered: Session, for any number of chats,      *)
(* messages, failed writes and crashes, and Memory, for any facts, days and *)
(* intervals, and wherever the local day begins.                           *)
(***************************************************************************)
EXTENDS MCComponents, Integers, Sequences, FiniteSets, Functions, TLAPS

\* Router.Resolve over either copy of the mapping.
Resolved(map, c) == IF c \in DOMAIN map THEN map[c] ELSE Session!Default(c)

Turns(history) == {t \in history : t > 0}
Isolated == se_cur.kind = "isolated"
Working == se_pc \notin {"idle", "down"}
Writing == se_pc \in {"write", "restore"}

\* At turn t a mapping leads a chat to a session of its own, not an isolated one and none of the future.
OwnSession(id, c, t) == id \in Session!Ids /\ id.chat = c /\ ~Session!IsIsolated(id) /\ id.token <= t
GoodMap(map, t) ==
  /\ map = [c \in DOMAIN map |-> map[c]] /\ DOMAIN map \subseteq se_Chats
  /\ \A c \in DOMAIN map : OwnSession(map[c], c, t)

\* The session a rotation makes is always new: what has a file is older.
FilesInv ==
  /\ GoodMap(se_router, se_turns) /\ GoodMap(se_file, se_turns) /\ (se_shape # "whole" => DOMAIN se_file = {})
  /\ se_store \in [DOMAIN se_store -> SUBSET Session!Items]
     /\ se_seeds \in [DOMAIN se_seeds -> SUBSET Session!Items]
  /\ DOMAIN se_store \cup DOMAIN se_seeds \subseteq Session!Ids
  /\ \A id \in DOMAIN se_store : ~Session!IsIsolated(id) /\ id.token < se_turns

\* The message in hand works in the session its chat is in, which a /compact alone leaves.
MessageInv ==
  Working =>
    /\ se_cur.sid.chat = se_cur.chat /\ (Session!IsIsolated(se_cur.sid) <=> Isolated)
    /\ ~Isolated => se_cur.sid.token < se_turns
       /\ (se_pc \notin {"write", "seed"} => Session!Current(se_cur.chat) = se_cur.sid)
    /\ se_pc \in {"flush", "rotate", "write", "seed", "restore"} => ~Isolated
    /\ se_pc = "saving" /\ ~Isolated => se_cur.sid \in DOMAIN se_store
    /\ se_pc \in {"write", "seed"} =>
       /\ se_cur.new = [chat |-> se_cur.chat, kind |-> "rotated", token |-> se_turns]
                                  /\ se_cur.chat \in DOMAIN se_router /\ se_router[se_cur.chat] = se_cur.new
    /\ se_pc = "seed" => se_file = se_router /\ se_shape = "whole"
    /\ Writing => se_shape = "empty"

\* A session holds turns of its own chat alone.
OwnTurns == \A id \in DOMAIN se_store : se_store[id] \subseteq se_past[id.chat]

\* Wherever a failed seed, or a crash that finds the file whole, may put a chat, it finds nothing that
\* its user was told is gone.
NothingComesBack ==
  /\ \A c \in se_Chats \ se_misled :
       Session!Load(Session!Current(c)) \subseteq se_conv[c]
       /\ (se_shape = "whole" => Session!Load(Resolved(se_file, c)) \subseteq se_conv[c])
  /\ Working /\ ~Isolated /\ se_cur.chat \notin se_misled
     => Session!Load(se_cur.sid) \subseteq se_conv[se_cur.chat]
  /\ se_pc \in {"turn", "save", "saving"} =>
       IF Isolated THEN se_seen = {}
       ELSE se_seen \subseteq se_past[se_cur.chat]
       /\ (se_cur.chat \notin se_misled => se_seen \subseteq se_conv[se_cur.chat])

\* The turns of a conversation are in its session, or in hand while that is written or left.
NothingIsLost ==
  /\ se_shape = "whole" => \A c \in se_Chats \ se_excused : Session!Current(c) = Resolved(se_file, c)
  /\ \A c \in se_Chats \ se_excused :
       (se_pc \in {"saving", "write", "seed"} /\ ~Isolated /\ c = se_cur.chat) \/ Turns(se_conv[c]) \subseteq Session!Load(Session!Current(c))
  /\ se_pc \in {"turn", "save", "saving"} /\ ~Isolated /\ se_cur.chat \notin se_excused
     => Turns(se_conv[se_cur.chat]) \subseteq se_seen
  /\ se_pc \in {"write", "seed"} /\ se_cur.chat \notin se_excused
     => Turns(se_conv[se_cur.chat]) \subseteq Session!Load(se_cur.sid)

\* The inductive invariant.
SessionInv == Session!TypeOK /\ FilesInv /\ MessageInv /\ OwnTurns /\ NothingComesBack /\ NothingIsLost

-----------------------------------------------------------------------------
(* Mappings and histories                                                  *)

LEMMA ResolvedIsOwn ==
  ASSUME Session!SessionAssumption, NEW map, NEW t \in Nat, GoodMap(map, t), NEW c \in se_Chats
  PROVE  OwnSession(Resolved(map, c), c, t)
  BY DEF Session!SessionAssumption, GoodMap, OwnSession, Resolved, Session!Default, Session!Ids,
     Session!IsIsolated

LEMMA WithEntryIsGood ==
  ASSUME NEW map, NEW t \in Nat, NEW u \in Nat, t <= u, GoodMap(map, t),
         NEW c \in se_Chats, NEW id, OwnSession(id, c, u)
  PROVE  /\ GoodMap(Session!WithEntry(map, c, id), u)
         /\ Resolved(Session!WithEntry(map, c, id), c) = id
         /\ \A d \in se_Chats \ {c} : Resolved(Session!WithEntry(map, c, id), d) = Resolved(map, d)
  BY DEF GoodMap, OwnSession, Session!WithEntry, Resolved, Session!Ids

LEMMA LaterIsGood ==
  ASSUME NEW map, NEW t \in Nat, GoodMap(map, t) PROVE GoodMap(map, t + 1)
  BY DEF GoodMap, OwnSession, Session!Ids

LEMMA RestrictIsGood ==
  ASSUME NEW map, NEW t \in Nat, GoodMap(map, t), NEW c \in se_Chats
  PROVE  /\ GoodMap(Session!Restrict(map, DOMAIN map \ {c}), t)
         /\ Resolved(Session!Restrict(map, DOMAIN map \ {c}), c) = Session!Default(c)
         /\ \A d \in se_Chats \ {c} : Resolved(Session!Restrict(map, DOMAIN map \ {c}), d) = Resolved(map, d)
  BY DEF GoodMap, Session!Restrict, Resolved

LEMMA GoodMapType ==
  ASSUME NEW map, NEW t, GoodMap(map, t)
  PROVE  DOMAIN map \in SUBSET se_Chats /\ Session!Range(map) \subseteq Session!Ids
  BY DEF GoodMap, OwnSession, Session!Range

LEMMA EmptyIsGood ==
  ASSUME NEW t, Session!FileOpens
  PROVE  GoodMap(se_file', t) /\ se_shape' = "empty" /\ DOMAIN se_file' = {}
  BY DEF Session!FileOpens, GoodMap

\* A session of this turn has no file yet.
LEMMA NewIsEmpty ==
  ASSUME Session!TypeOK, FilesInv, NEW id \in Session!Ids, ~(id.token < se_turns) PROVE Session!Load(id) = {}
  BY DEF Session!TypeOK, FilesInv, Session!Load

\* The parts of the type that the proofs of the steps go by.
LEMMA TypeFacts ==
  ASSUME Session!SessionAssumption, Session!TypeOK, FilesInv, MessageInv
  PROVE  /\ se_turns \in Nat /\ se_cur.chat \in se_Chats /\ se_cur.sid \in Session!Ids
         /\ \A c \in se_Chats : OwnSession(Session!Current(c), c, se_turns)
         /\ Working /\ ~Isolated => OwnSession(se_cur.sid, se_cur.chat, se_turns)
<1>1. se_turns \in Nat /\ se_cur.chat \in se_Chats /\ se_cur.sid \in Session!Ids
  BY DEF Session!TypeOK, Session!SessionAssumption
<1>2. \A c \in se_Chats : OwnSession(Session!Current(c), c, se_turns)
  BY <1>1, ResolvedIsOwn DEF FilesInv, Session!Current, Resolved
<1>3. ASSUME Working, ~Isolated PROVE OwnSession(se_cur.sid, se_cur.chat, se_turns)
  BY <1>1, <1>3 DEF MessageInv, OwnSession, Session!Ids, Session!SessionAssumption
<1> QED
  BY <1>1, <1>2, <1>3

-----------------------------------------------------------------------------
(* The steps                                                               *)

\* A message begins in the session of its chat, or in a new one that has no history.
LEMMA BeginStep ==
  ASSUME Session!SessionAssumption, SessionInv, NEW c \in se_Chats, NEW k \in se_TurnKinds,
         Session!Begin(c, k)
  PROVE  SessionInv'
<1> USE DEF SessionInv
<1>1. /\ se_pc = "idle" /\ se_turns \in Nat /\ se_turns < se_MaxTurns /\ se_turns' = se_turns + 1
         /\ se_turns' \in 0..se_MaxTurns
      /\ se_cur' = [chat |-> c, kind |-> k, sid |-> Session!SessionFor(c, k), new |-> Session!Default(c)]
      /\ se_seen' = Session!Load(Session!SessionFor(c, k)) /\ se_flushed' = FALSE /\ se_pc' = "turn"
      /\ UNCHANGED <<se_router, se_file, se_shape, se_store, se_seeds, se_result, se_errors, se_crashes,
                     se_conv, se_past, se_misled, se_excused>>
  BY DEF Session!Begin, Session!TypeOK, Session!SessionAssumption, Session!fileVars, Session!userVars
<1>2. OwnSession(Session!Current(c), c, se_turns)
  BY TypeFacts
<1>3. /\ Session!SessionFor(c, k) \in Session!Ids /\ Session!SessionFor(c, k).chat = c
      /\ Session!IsIsolated(Session!SessionFor(c, k)) <=> k = "isolated"
      /\ k # "isolated" => Session!SessionFor(c, k) = Session!Current(c)
         /\ Session!SessionFor(c, k).token < se_turns'
  BY <1>1, <1>2 DEF Session!SessionFor, Session!NewId, OwnSession, Session!Ids, Session!IsIsolated
<1>4. Session!Load(Session!SessionFor(c, k)) \subseteq Session!Items
      /\ (k = "isolated" => Session!Load(Session!SessionFor(c, k)) = {})
  BY <1>3 DEF Session!Load, FilesInv, Session!TypeOK
<1>5. Session!Default(c) \in Session!Ids
  BY <1>1 DEF Session!Default, Session!Ids, Session!SessionAssumption
<1>6. Session!TypeOK'
  BY <1>1, <1>3, <1>4, <1>5 DEF Session!TypeOK
<1>7. FilesInv'
  <2>1. GoodMap(se_router', se_turns') /\ GoodMap(se_file', se_turns')
    BY <1>1, LaterIsGood DEF FilesInv
  <2> QED
    BY <1>1, <2>1 DEF FilesInv, Session!Ids
<1>8. \A d \in se_Chats : Session!Current(d)' = Session!Current(d)
      /\ Resolved(se_file, d)' = Resolved(se_file, d)
  BY <1>1 DEF Session!Current, Resolved, Session!Default
<1>9. \A id : Session!Load(id)' = Session!Load(id)
  BY <1>1 DEF Session!Load
<1>10. se_cur'.chat = c /\ se_cur'.kind = k /\ se_cur'.sid = Session!SessionFor(c, k)
       /\ (Isolated' <=> k = "isolated")
  BY <1>1 DEF Isolated
<1>11. MessageInv'
  BY <1>1, <1>3, <1>8, <1>10 DEF MessageInv, Writing
<1>12. NothingComesBack'
  <2>1. k # "isolated" => Session!Load(Session!SessionFor(c, k)) \subseteq se_past[c]
    BY <1>3 DEF OwnTurns, Session!Load
  <2> QED
    BY <1>1, <1>3, <1>4, <1>8, <1>9, <1>10, <2>1 DEF NothingComesBack
<1>13. NothingIsLost'
  BY <1>1, <1>3, <1>8, <1>9, <1>10 DEF NothingIsLost
<1>14. OwnTurns'
  BY <1>1 DEF OwnTurns
<1> QED
  BY <1>6, <1>7, <1>11, <1>12, <1>13, <1>14

\* /new puts the chat in a session without history: in memory at once, in the file after its truncation.
LEMMA NewStep ==
  ASSUME Session!SessionAssumption, SessionInv, "new" \in se_TurnKinds, NEW c \in se_Chats, Session!New(c)
  PROVE  SessionInv'
<1> DEFINE id == Session!NewId(c, "rotated")
<1> USE DEF SessionInv
<1>1. /\ se_pc = "idle" /\ se_turns \in Nat /\ se_turns < se_MaxTurns /\ se_turns' = se_turns + 1
         /\ se_turns' \in 0..se_MaxTurns
      /\ se_cur' = [chat |-> c, kind |-> "new", sid |-> Session!Current(c), new |-> id]
      /\ se_router' = Session!WithEntry(se_router, c, id)
      /\ UNCHANGED <<se_store, se_seeds, se_seen, se_flushed, se_crashes, se_conv, se_past, se_misled>>
  BY DEF Session!New, Session!TypeOK, Session!SessionAssumption
<1>2. \/ Session!FileOpens /\ se_pc' = "write" /\ UNCHANGED <<se_errors, se_result, se_excused>>
      \/ /\ se_pc' = "idle" /\ se_errors' \in 0..se_MaxErrors /\ se_result' = "error"
            /\ se_excused' = se_excused \cup {c}
         /\ UNCHANGED <<se_file, se_shape>>
  BY DEF Session!New, Session!Done, Session!FileStays, Session!Fails, Session!TypeOK,
     Session!SessionAssumption
<1>3. id \in Session!Ids /\ OwnSession(id, c, se_turns') /\ id.token = se_turns'
      /\ id = [chat |-> c, kind |-> "rotated", token |-> se_turns']
  BY <1>1 DEF Session!NewId, Session!Ids, OwnSession, Session!IsIsolated
<1>4. /\ GoodMap(se_router', se_turns') /\ Resolved(se_router', c) = id
      /\ \A d \in se_Chats \ {c} : Resolved(se_router', d) = Resolved(se_router, d)
  <2>1. se_turns' \in Nat /\ se_turns <= se_turns'
    BY <1>1
  <2> QED
    BY <1>1, <1>3, <2>1, WithEntryIsGood DEF FilesInv
<1>5. GoodMap(se_file', se_turns') /\ (se_shape' # "whole" => DOMAIN se_file' = {})
      /\ se_shape' \in {"whole", "empty", "cut"}
  <2>1. GoodMap(se_file, se_turns')
    BY <1>1, LaterIsGood DEF FilesInv
  <2> QED
    BY <1>2, <2>1, EmptyIsGood DEF FilesInv, Session!TypeOK
<1>6. OwnSession(Session!Current(c), c, se_turns)
  BY TypeFacts
<1>7. Session!TypeOK'
  <2>1. se_cur' \in [chat : se_Chats, kind : se_TurnKinds \cup {"none"}, sid : Session!Ids, new : Session!Ids]
    BY <1>1, <1>3, <1>6 DEF OwnSession
  <2>2. {DOMAIN se_router, DOMAIN se_file}' \subseteq SUBSET se_Chats
        /\ (Session!Range(se_router) \cup Session!Range(se_file))' \subseteq Session!Ids
    BY <1>4, <1>5, GoodMapType
  <2> QED
    BY <1>1, <1>2, <1>5, <2>1, <2>2 DEF Session!TypeOK
<1>8. FilesInv'
  BY <1>1, <1>4, <1>5 DEF FilesInv, Session!Ids
<1>9. Session!Load(id) = {} /\ \A i : Session!Load(i)' = Session!Load(i)
  <2>1. ~(id.token < se_turns)
    BY <1>1, <1>3
  <2> QED
    BY <1>1, <1>3, <2>1, NewIsEmpty DEF Session!Load
<1>10. /\ Session!Current(c)' = id /\ \A d \in se_Chats \ {c} : Session!Current(d)' = Session!Current(d)
       /\ \A d \in se_Chats : Session!Current(d) = Resolved(se_router, d)
          /\ Session!Current(d)' = Resolved(se_router', d)
       /\ \A d \in se_Chats : Resolved(se_file, d)' = Resolved(se_file', d)
  BY <1>4 DEF Session!Current, Resolved, Session!Default
<1>11. se_cur'.chat = c /\ se_cur'.kind = "new" /\ se_cur'.sid = Session!Current(c) /\ se_cur'.new = id
       /\ ~Isolated'
  BY <1>1 DEF Isolated
<1>12. c \in DOMAIN se_router' /\ se_router'[c] = id
  BY <1>1 DEF Session!WithEntry
<1>13. Session!Load(Session!Current(c)) = {} \/ Session!Current(c) \in DOMAIN se_store
  BY DEF Session!Load
<1> HIDE DEF id
<1>14. MessageInv'
  <2>1. CASE se_pc' = "idle"
    BY <2>1 DEF MessageInv, Working
  <2>2. CASE se_pc' = "write" /\ Session!FileOpens
    BY <1>1, <1>3, <1>6, <1>11, <1>12, <2>2, EmptyIsGood DEF MessageInv, OwnSession, Writing, Session!Ids
  <2> QED
    BY <1>2, <2>1, <2>2
<1>15. NothingComesBack'
  <2>1. ASSUME NEW d \in se_Chats \ se_misled
        PROVE  /\ Session!Load(Session!Current(d))' \subseteq se_conv'[d]
               /\ se_shape' = "whole" => Session!Load(Resolved(se_file, d))' \subseteq se_conv'[d]
    <3>1. Session!Load(Session!Current(d))' \subseteq se_conv'[d]
      BY <1>1, <1>9, <1>10 DEF NothingComesBack
    <3>2. CASE Session!FileOpens
      BY <3>1, <3>2, EmptyIsGood
    <3>3. CASE UNCHANGED <<se_file, se_shape>>
      BY <1>1, <1>9, <1>10, <3>1, <3>3 DEF NothingComesBack
    <3> QED
      BY <1>2, <3>1, <3>2, <3>3
  <2>2. c \notin se_misled => Session!Load(se_cur'.sid) \subseteq se_conv[c]
    BY <1>11 DEF NothingComesBack
  <2>3. Session!Load(se_cur.sid)' = Session!Load(se_cur'.sid)
    BY <1>1 DEF Session!Load
  <2>4. se_pc' \notin {"turn", "save", "saving"}
    BY <1>2
  <2>5. \A d \in se_Chats \ se_misled' : /\ Session!Load(Session!Current(d))' \subseteq se_conv'[d]
                                         /\ se_shape' = "whole"
                                            => Session!Load(Resolved(se_file, d))' \subseteq se_conv'[d]
    BY <1>1, <2>1
  <2>6. Working' /\ ~Isolated' /\ se_cur'.chat \notin se_misled'
        => Session!Load(se_cur.sid)' \subseteq se_conv'[se_cur'.chat]
    BY <1>1, <1>11, <2>2, <2>3
  <2> QED
    BY <2>4, <2>5, <2>6 DEF NothingComesBack
<1>16. NothingIsLost'
  <2>1. se_shape' = "whole" => \A d \in se_Chats \ se_excused' : Session!Current(d)' = Resolved(se_file, d)'
    <3>1. CASE Session!FileOpens
      BY <3>1, EmptyIsGood
    <3>2. CASE UNCHANGED <<se_file, se_shape>> /\ se_excused' = se_excused \cup {c}
      BY <1>10, <3>2 DEF NothingIsLost
    <3> QED
      BY <1>2, <3>1, <3>2
  <2>2. ASSUME NEW d \in se_Chats \ se_excused', d # c \/ se_pc' = "idle"
        PROVE  Turns(se_conv[d])' \subseteq Session!Load(Session!Current(d))'
    <3>1. d # c /\ d \notin se_excused
      BY <1>2, <2>2
    <3>2. Turns(se_conv[d]) \subseteq Session!Load(Session!Current(d))
      BY <1>1, <2>2, <3>1 DEF NothingIsLost
    <3> QED
      BY <1>1, <1>9, <1>10, <3>1, <3>2 DEF Turns
  <2>3. c \notin se_excused => Turns(se_conv[c])' \subseteq Session!Load(se_cur'.sid)
    BY <1>1, <1>11 DEF NothingIsLost, Turns
  <2>4. se_excused \subseteq se_excused'
    BY <1>2
  <2> QED
    BY <1>1, <1>2, <1>9, <1>11, <2>1, <2>2, <2>3, <2>4 DEF NothingIsLost
<1>17. OwnTurns'
  BY <1>1 DEF OwnTurns
<1> QED
  BY <1>7, <1>8, <1>14, <1>15, <1>16, <1>17

\* The file is written out again: it says what memory says.
LEMMA FileWrittenStep ==
  ASSUME Session!SessionAssumption, SessionInv, Session!FileWritten
  PROVE  SessionInv'
<1> USE DEF SessionInv
<1>1. /\ se_pc \in {"write", "restore"} /\ se_file' = se_router /\ se_shape' = "whole" /\ Working
      /\ UNCHANGED <<se_router, se_store, se_seeds, se_cur, se_seen, se_flushed, se_turns, se_errors,
                     se_crashes>>
  BY DEF Session!FileWritten, Session!turnVars, Session!countVars, Working
<1>2. \/ se_pc' = "idle" /\ se_result' = "error" /\ se_pc = "restore"
         /\ UNCHANGED <<se_conv, se_past, se_misled, se_excused>>
      \/ se_pc = "write" /\ se_pc' = "idle" /\ se_result' = "ok" /\ Session!Afresh({})
      \/ se_pc = "write" /\ se_pc' = "seed" /\ se_result' = se_result
         /\ UNCHANGED <<se_conv, se_past, se_misled, se_excused>>
  <2>1. CASE se_pc = "restore"
    BY <2>1 DEF Session!FileWritten, Session!Done, Session!userVars
  <2>2. CASE se_pc = "write" /\ se_cur.kind = "new"
    BY <2>2 DEF Session!FileWritten, Session!Done
  <2>3. CASE se_pc = "write" /\ se_cur.kind # "new"
    BY <2>3 DEF Session!FileWritten, Session!userVars
  <2> QED
    BY <1>1, <2>1, <2>2, <2>3
<1>3. /\ se_cur.chat \in se_Chats /\ se_cur.sid \in Session!Ids /\ se_turns \in Nat /\ ~Isolated /\ ~Isolated'
      /\ se_pc = "write" => /\ Session!Current(se_cur.chat) = se_cur.new /\ se_cur.new \in Session!Ids
                               /\ ~(se_cur.new.token < se_turns)
      /\ se_pc = "restore" => Session!Current(se_cur.chat) = se_cur.sid
  BY <1>1, TypeFacts DEF MessageInv, Isolated, Session!Current, Session!TypeOK
<1>4. /\ \A i : Session!Load(i)' = Session!Load(i)
      /\ \A d \in se_Chats : Session!Current(d)' = Session!Current(d)
         /\ Resolved(se_file, d)' = Session!Current(d)
  BY <1>1 DEF Session!Load, Session!Current, Resolved, Session!Default
<1>5. se_pc = "write" => Session!Load(se_cur.new) = {}
  BY <1>3, NewIsEmpty
<1>6. Session!Afresh({}) => /\ se_conv' = [se_conv EXCEPT ![se_cur.chat] = {}] /\ UNCHANGED se_past
                            /\ se_misled' = se_misled \ {se_cur.chat}
                               /\ se_excused' = se_excused \ {se_cur.chat}
  BY DEF Session!Afresh
<1>7. Session!TypeOK'
  <2>1. se_conv' \in [se_Chats -> SUBSET Session!Items] /\ se_past' = se_past
        /\ se_misled' \subseteq se_misled /\ se_excused' \subseteq se_excused
    BY <1>2, <1>6 DEF Session!TypeOK
  <2> QED
    BY <1>1, <1>2, <2>1 DEF Session!TypeOK
<1>8. FilesInv'
  BY <1>1 DEF FilesInv
<1>9. MessageInv'
  BY <1>1, <1>2, <1>3, <1>4 DEF MessageInv, Working, Writing
<1>10. ASSUME NEW d \in se_Chats
       PROVE  /\ d \notin se_misled' => Session!Load(Session!Current(d)) \subseteq se_conv'[d]
              /\ d \notin se_excused' => \/ se_pc' = "seed" /\ d = se_cur.chat
                                         \/ Turns(se_conv'[d]) \subseteq Session!Load(Session!Current(d))
  <2>1. CASE Session!Afresh({}) /\ d = se_cur.chat /\ se_pc = "write"
    BY <1>3, <1>5, <1>6, <2>1 DEF Session!TypeOK, Turns
  <2>2. CASE Session!Afresh({}) /\ d # se_cur.chat
    BY <1>1, <1>6, <2>2 DEF Session!TypeOK, NothingComesBack, NothingIsLost
  <2>3. CASE UNCHANGED <<se_conv, se_misled, se_excused>> /\ (se_pc' = "seed" \/ se_pc = "restore")
    BY <1>1, <2>3 DEF NothingComesBack, NothingIsLost
  <2> QED
    BY <1>2, <2>1, <2>2, <2>3
<1>11. NothingComesBack'
  <2>1. se_past' = se_past
    BY <1>2, <1>6
  <2>2. se_pc' = "seed" => UNCHANGED <<se_conv, se_misled>>
    BY <1>2
  <2>3. se_pc' \in {"idle", "seed"}
    BY <1>2
  <2>4. se_pc' = "seed" /\ se_cur.chat \notin se_misled'
        => Session!Load(se_cur.sid)' \subseteq se_conv'[se_cur.chat]
    BY <1>1, <1>3, <1>4, <2>2 DEF NothingComesBack
  <2>5. Session!Load(se_cur.sid)' \subseteq se_conv'[se_cur.chat] \/ se_cur'.chat \in se_misled' \/ ~Working'
    BY <1>1, <2>3, <2>4 DEF Working
  <2>6. \A d \in se_Chats \ se_misled' : Session!Load(Session!Current(d))' \subseteq se_conv'[d]
        /\ Session!Load(Resolved(se_file, d))' \subseteq se_conv'[d]
    BY <1>4, <1>10
  <2> QED
    BY <1>1, <2>3, <2>5, <2>6 DEF NothingComesBack
<1>12. NothingIsLost'
  <2>1. \A d \in se_Chats : Turns(se_conv[d])' = Turns(se_conv'[d])
    BY DEF Turns
  <2>2. se_pc' = "seed" => se_pc = "write" /\ UNCHANGED <<se_conv, se_excused>>
    BY <1>2
  <2>3. se_pc' \in {"idle", "seed"}
    BY <1>2
  <2> QED
    BY <1>1, <1>3, <1>4, <1>10, <2>1, <2>2, <2>3 DEF NothingIsLost
<1>13. OwnTurns'
  BY <1>1, <1>2, <1>6 DEF OwnTurns
<1> QED
  BY <1>7, <1>8, <1>9, <1>11, <1>12, <1>13

\* The file stays as the truncation or the failed write left it: whose write it was may lose history.
LEMMA WriteFailsStep ==
  ASSUME Session!SessionAssumption, SessionInv, Session!WriteFails
  PROVE  SessionInv'
<1> USE DEF SessionInv
<1>1. /\ se_pc \in {"write", "restore"} /\ se_pc' = "idle" /\ se_result' = "error"
         /\ se_errors' \in 0..se_MaxErrors
      /\ se_shape' \in {"empty", "cut"} /\ se_excused' = se_excused \cup {se_cur.chat} /\ Writing /\ Working
      /\ UNCHANGED <<se_router, se_file, se_store, se_seeds, se_cur, se_seen, se_flushed, se_turns,
                     se_crashes, se_conv, se_past, se_misled>>
  BY DEF Session!WriteFails, Session!Done, Session!Fails, Session!turnVars, Session!TypeOK,
     Session!SessionAssumption, Writing, Working
<1>2. se_cur.chat \in se_Chats /\ DOMAIN se_file = {}
  BY <1>1, TypeFacts DEF MessageInv, FilesInv
<1>3. (\A i : Session!Load(i)' = Session!Load(i))
      /\ \A d \in se_Chats : Session!Current(d)' = Session!Current(d)
  BY <1>1 DEF Session!Load, Session!Current, Session!Default
<1>4. Session!TypeOK' /\ FilesInv' /\ MessageInv'
  BY <1>1, <1>2 DEF Session!TypeOK, FilesInv, MessageInv, Working
<1>5. NothingComesBack'
  BY <1>1, <1>3 DEF NothingComesBack, Working
<1>6. NothingIsLost'
  BY <1>1, <1>3 DEF NothingIsLost, Turns
<1>7. OwnTurns'
  BY <1>1 DEF OwnTurns
<1> QED
  BY <1>4, <1>5, <1>6, <1>7

\* The agent ends its turn, or fails.
LEMMA TurnEndsStep ==
  ASSUME Session!SessionAssumption, SessionInv, Session!TurnEnds
  PROVE  SessionInv'
<1> USE DEF SessionInv
<1>1. /\ se_pc = "turn"
      /\ \/ se_pc' = "save" /\ UNCHANGED se_result
         \/ se_pc' = "idle" /\ se_result' = "error"
      /\ UNCHANGED <<se_router, se_file, se_shape, se_store, se_seeds, se_cur, se_seen, se_flushed, se_turns,
                     se_errors, se_crashes>>
      /\ UNCHANGED <<se_conv, se_past, se_misled, se_excused>>
  BY DEF Session!TurnEnds, Session!Done, Session!fileVars, Session!turnVars, Session!countVars,
     Session!userVars
<1>2. \A d \in se_Chats : Session!Current(d)' = Session!Current(d)
      /\ Resolved(se_file, d)' = Resolved(se_file, d)
  BY <1>1 DEF Session!Current, Resolved, Session!Default
<1>3. (\A id : Session!Load(id)' = Session!Load(id)) /\ (Isolated' <=> Isolated) /\ se_cur'.chat \in se_Chats
  BY <1>1, TypeFacts DEF Session!Load, Isolated
<1>4. Session!TypeOK' /\ FilesInv'
  BY <1>1 DEF Session!TypeOK, FilesInv
<1>5. MessageInv'
  BY <1>1, <1>2, <1>3 DEF MessageInv, Working, Writing
<1>6. NothingComesBack'
  BY <1>1, <1>2, <1>3 DEF NothingComesBack, Working
<1>7. NothingIsLost'
  BY <1>1, <1>2, <1>3 DEF NothingIsLost
<1>8. OwnTurns'
  BY <1>1 DEF OwnTurns
<1> QED
  BY <1>4, <1>5, <1>6, <1>7, <1>8

\* Store.Save truncates the file: what it held is in hand.
LEMMA SaveBeginStep ==
  ASSUME Session!SessionAssumption, SessionInv, Session!SaveBegin
  PROVE  SessionInv'
<1> USE DEF SessionInv
<1>1. /\ se_pc = "save" /\ se_pc' = "saving"
      /\ se_store' = IF Isolated THEN se_store ELSE Session!WithEntry(se_store, se_cur.sid, {})
      /\ UNCHANGED <<se_router, se_file, se_shape, se_seeds, se_cur, se_seen, se_flushed, se_result,
                     se_turns, se_errors, se_crashes>>
      /\ UNCHANGED <<se_conv, se_past, se_misled, se_excused>> /\ Working /\ Working' /\ ~Writing'
  BY DEF Session!SaveBegin, Session!turnVars, Session!countVars, Session!userVars, MessageInv, Working,
     Writing
<1>2. \A d \in se_Chats : Session!Current(d)' = Session!Current(d)
      /\ Resolved(se_file, d)' = Resolved(se_file, d)
  BY <1>1 DEF Session!Current, Resolved, Session!Default
<1>3. /\ se_cur.chat \in se_Chats /\ se_cur.sid \in Session!Ids /\ (Isolated' <=> Isolated)
      /\ ~Isolated => Session!Current(se_cur.chat) = se_cur.sid /\ ~Session!IsIsolated(se_cur.sid)
         /\ se_cur.sid.token < se_turns
      /\ \A d \in se_Chats : Session!Current(d).chat = d
  BY <1>1, TypeFacts DEF MessageInv, Isolated, OwnSession
<1>4. /\ DOMAIN se_store' = IF Isolated THEN DOMAIN se_store ELSE DOMAIN se_store \cup {se_cur.sid}
      /\ se_store' \in [DOMAIN se_store' -> SUBSET Session!Items]
      /\ DOMAIN se_store' \subseteq Session!Ids
  BY <1>1, <1>3 DEF Session!WithEntry, FilesInv
<1>5. \A id : /\ Session!Load(id)' \subseteq Session!Load(id)
              /\ Isolated \/ id # se_cur.sid => Session!Load(id)' = Session!Load(id)
  BY <1>1 DEF Session!Load, Session!WithEntry
<1>6. Session!TypeOK'
  <2>1. Session!Range(se_store') \subseteq SUBSET Session!Items
    BY <1>4 DEF Session!Range
  <2> QED
    BY <1>1, <1>4, <2>1 DEF Session!TypeOK
<1>7. FilesInv'
  BY <1>1, <1>3, <1>4 DEF FilesInv
<1>8. MessageInv'
  BY <1>1, <1>2, <1>3, <1>4 DEF MessageInv
<1>9. NothingComesBack'
  BY <1>1, <1>2, <1>3, <1>5 DEF NothingComesBack
<1>10. NothingIsLost'
  BY <1>1, <1>2, <1>3, <1>5 DEF NothingIsLost
<1>11. OwnTurns'
  BY <1>1 DEF OwnTurns, Session!WithEntry
<1> QED
  BY <1>6, <1>7, <1>8, <1>9, <1>10, <1>11

\* The history is written: what was in hand and the turn itself.
LEMMA SaveEndStep ==
  ASSUME Session!SessionAssumption, SessionInv, Session!SaveEnd
  PROVE  SessionInv'
<1> USE DEF SessionInv
<1>1. /\ se_pc = "saving" /\ se_pc' \in {"rotate", "flush", "idle"}
         /\ se_result' \in {se_result, "ok", "error"}
      /\ se_pc' # "idle" => se_cur.kind = "compact"
      /\ UNCHANGED <<se_router, se_file, se_shape, se_seeds, se_cur, se_seen, se_flushed, se_turns,
                     se_errors, se_crashes, se_misled, se_excused>>
      /\ Working /\ (Working' <=> se_pc' # "idle") /\ ~Writing'
  BY DEF Session!SaveEnd, Session!turnVars, Session!countVars, Session!Done, Working, Writing
<1>2. /\ Isolated => UNCHANGED <<se_store, se_conv, se_past>>
      /\ ~Isolated => /\ se_store' = [se_store EXCEPT ![se_cur.sid] = se_seen \cup {se_turns}]
                      /\ se_conv' = [se_conv EXCEPT ![se_cur.chat] = @ \cup {se_turns}]
                      /\ se_past' = [se_past EXCEPT ![se_cur.chat] = @ \cup {se_turns}]
  BY <1>1 DEF Session!SaveEnd, MessageInv
<1>3. \A d \in se_Chats : Session!Current(d)' = Session!Current(d)
      /\ Resolved(se_file, d)' = Resolved(se_file, d)
  BY <1>1 DEF Session!Current, Resolved, Session!Default
<1>4. /\ se_cur.chat \in se_Chats /\ se_cur.sid \in Session!Ids /\ (Isolated' <=> Isolated)
         /\ se_turns \in 0..se_MaxTurns
      /\ ~Isolated => /\ Session!Current(se_cur.chat) = se_cur.sid /\ ~Session!IsIsolated(se_cur.sid)
                         /\ se_cur.sid.chat = se_cur.chat
                      /\ se_cur.sid \in DOMAIN se_store
      /\ \A d \in se_Chats : Session!Current(d).chat = d
  BY <1>1, TypeFacts DEF MessageInv, Isolated, OwnSession, Session!TypeOK
<1>5. \A d \in se_Chats : Resolved(se_file, d).chat = d
  BY TypeFacts, ResolvedIsOwn DEF FilesInv, OwnSession
<1>6. /\ se_seen \cup {se_turns} \in SUBSET Session!Items
      /\ ~Isolated => se_seen \subseteq se_past[se_cur.chat]
         /\ (se_cur.chat \notin se_misled => se_seen \subseteq se_conv[se_cur.chat])
  BY <1>1, <1>4 DEF Session!TypeOK, Session!Items, Session!SessionAssumption, NothingComesBack
<1>7. /\ DOMAIN se_store' = DOMAIN se_store /\ se_store' \in [DOMAIN se_store' -> SUBSET Session!Items]
      /\ se_conv' \in [se_Chats -> SUBSET Session!Items] /\ se_past' \in [se_Chats -> SUBSET Session!Items]
  BY <1>2, <1>4, <1>6 DEF FilesInv, Session!TypeOK
<1>8. /\ \A id : Isolated \/ id # se_cur.sid => Session!Load(id)' = Session!Load(id)
      /\ ~Isolated => Session!Load(se_cur.sid)' = se_seen \cup {se_turns}
  <2>1. ASSUME NEW id, Isolated \/ id # se_cur.sid PROVE Session!Load(id)' = Session!Load(id)
    <3>1. id \in DOMAIN se_store => se_store'[id] = se_store[id]
      BY <1>2, <2>1 DEF FilesInv
    <3> QED
      BY <1>7, <3>1 DEF Session!Load
  <2>2. ASSUME ~Isolated PROVE se_store'[se_cur.sid] = se_seen \cup {se_turns}
    BY <1>2, <1>4, <2>2
  <2> QED
    BY <1>1, <1>4, <1>7, <2>1, <2>2 DEF Session!Load
<1>9. /\ \A d \in se_Chats : se_conv[d] \subseteq se_conv'[d]
         /\ (Isolated \/ d # se_cur.chat => se_conv'[d] = se_conv[d])
      /\ ~Isolated => se_conv'[se_cur.chat] = se_conv[se_cur.chat] \cup {se_turns}
  BY <1>2, <1>4 DEF Session!TypeOK
<1>10. Session!TypeOK'
  <2>1. Session!Range(se_store') \subseteq SUBSET Session!Items
    BY <1>7 DEF Session!Range
  <2> QED
    BY <1>1, <1>7, <2>1 DEF Session!TypeOK
<1>11. FilesInv'
  BY <1>1, <1>7 DEF FilesInv
<1>12. ~Isolated \/ se_pc' = "idle"
  BY <1>1 DEF Isolated
<1>13. MessageInv'
  BY <1>1, <1>3, <1>4, <1>7, <1>12 DEF MessageInv
<1>14. NothingComesBack'
  <2>1. ASSUME NEW d \in se_Chats \ se_misled
        PROVE  /\ Session!Load(Session!Current(d))' \subseteq se_conv'[d]
               /\ se_shape' = "whole" => Session!Load(Resolved(se_file, d))' \subseteq se_conv'[d]
    <3>1. CASE Isolated \/ d # se_cur.chat
      <4>1. Isolated \/ (Session!Current(d) # se_cur.sid /\ Resolved(se_file, d) # se_cur.sid)
        BY <1>4, <1>5, <3>1
      <4> QED
        BY <1>1, <1>3, <1>8, <1>9, <2>1, <3>1, <4>1 DEF NothingComesBack
    <3>2. CASE ~Isolated /\ d = se_cur.chat
      <4>1. \A id : Session!Load(id)' \subseteq Session!Load(id) \cup se_conv'[d]
        <5>1. Session!Load(se_cur.sid)' \subseteq se_conv'[d]
          BY <1>6, <1>8, <1>9, <3>2
        <5>2. \A id : id # se_cur.sid => Session!Load(id)' = Session!Load(id)
          BY <1>8
        <5> QED
          BY <1>1, <5>1, <5>2
      <4> QED
        BY <1>1, <1>3, <1>9, <2>1, <3>2, <4>1 DEF NothingComesBack
    <3> QED
      BY <3>1, <3>2
  <2>2. ~Isolated /\ se_cur.chat \notin se_misled => Session!Load(se_cur.sid)' \subseteq se_conv'[se_cur.chat]
    BY <1>6, <1>8, <1>9
  <2> QED
    BY <1>1, <1>4, <2>1, <2>2 DEF NothingComesBack
<1>15. NothingIsLost'
  <2>1. ASSUME NEW d \in se_Chats \ se_excused
        PROVE  Turns(se_conv[d])' \subseteq Session!Load(Session!Current(d))'
    <3>1. CASE Isolated \/ d # se_cur.chat
      <4>1. Isolated \/ Session!Current(d) # se_cur.sid
        BY <1>4, <2>1, <3>1
      <4> QED
        BY <1>3, <1>8, <1>9, <2>1, <3>1, <4>1 DEF NothingIsLost, Turns
    <3>2. CASE ~Isolated /\ d = se_cur.chat
      <4>1. Turns(se_conv[d]) \subseteq se_seen
        BY <1>1, <2>1, <3>2 DEF NothingIsLost
      <4> QED
        <5>1. Session!Load(Session!Current(d))' = se_seen \cup {se_turns}
          BY <1>1, <1>3, <1>4, <1>8, <3>2
        <5>2. se_conv'[d] = se_conv[d] \cup {se_turns}
          BY <1>9, <3>2
        <5> QED
          BY <4>1, <5>1, <5>2 DEF Turns
    <3> QED
      BY <3>1, <3>2
  <2> QED
    BY <1>1, <1>3, <2>1 DEF NothingIsLost
<1>16. OwnTurns'
  <2>1. ASSUME NEW id \in DOMAIN se_store' PROVE se_store'[id] \subseteq se_past'[id.chat]
    <3>1. CASE Isolated
      BY <1>2, <3>1, <2>1 DEF OwnTurns
    <3>2. CASE ~Isolated /\ id = se_cur.sid
      BY <1>2, <1>4, <1>6, <3>2 DEF Session!TypeOK
    <3>3. CASE ~Isolated /\ id # se_cur.sid
      <4>1. id.chat \in se_Chats /\ id \in DOMAIN se_store
        BY <1>7, <2>1 DEF FilesInv, Session!Ids
      <4>2. se_store'[id] = se_store[id]
        BY <1>2, <3>3, <4>1 DEF FilesInv
      <4>3. se_past[id.chat] \subseteq se_past'[id.chat]
        BY <1>2, <1>4, <3>3, <4>1 DEF Session!TypeOK
      <4> QED
        BY <4>1, <4>2, <4>3 DEF OwnTurns
    <3> QED
      BY <3>1, <3>2, <3>3
  <2> QED
    BY <2>1 DEF OwnTurns
<1> QED
  BY <1>10, <1>11, <1>13, <1>14, <1>15, <1>16

\* The flush before a rotation runs one more turn of the old session.
LEMMA FlushStep ==
  ASSUME Session!SessionAssumption, SessionInv, Session!Flush
  PROVE  SessionInv'
<1> USE DEF SessionInv
<1>1. /\ se_pc = "flush" /\ se_pc' \in {"save", "rotate"} /\ se_flushed' = TRUE
         /\ se_seen' = Session!Load(se_cur.sid)
      /\ UNCHANGED <<se_router, se_file, se_shape, se_store, se_seeds, se_cur, se_result, se_turns,
                     se_errors, se_crashes>>
      /\ UNCHANGED <<se_conv, se_past, se_misled, se_excused>> /\ Working /\ Working' /\ ~Writing'
  BY DEF Session!Flush, Session!fileVars, Session!countVars, Session!userVars, Working, Writing
<1>2. \A d \in se_Chats : Session!Current(d)' = Session!Current(d)
      /\ Resolved(se_file, d)' = Resolved(se_file, d)
  BY <1>1 DEF Session!Current, Resolved, Session!Default
<1>3. /\ (\A id : Session!Load(id)' = Session!Load(id)) /\ se_cur'.chat \in se_Chats
         /\ se_cur.chat \in se_Chats
      /\ ~Isolated /\ ~Isolated' /\ Session!Current(se_cur.chat) = se_cur.sid
  BY <1>1, TypeFacts DEF Session!Load, Isolated, MessageInv
<1>4. Session!Load(se_cur.sid) \subseteq Session!Items
  BY DEF Session!Load, FilesInv
<1>5. Session!TypeOK' /\ FilesInv'
  BY <1>1, <1>4 DEF Session!TypeOK, FilesInv
<1>6. MessageInv'
  BY <1>1, <1>2, <1>3 DEF MessageInv
<1>7. NothingComesBack'
  <2>1. Session!Load(se_cur.sid) \subseteq se_past[se_cur.chat]
    BY <1>1 DEF OwnTurns, Session!Load, MessageInv
  <2> QED
    BY <1>1, <1>2, <1>3, <2>1 DEF NothingComesBack
<1>8. NothingIsLost'
  BY <1>1, <1>2, <1>3 DEF NothingIsLost
<1>9. OwnTurns'
  BY <1>1 DEF OwnTurns
<1> QED
  BY <1>5, <1>6, <1>7, <1>8, <1>9

\* A /compact moves its chat to a session without history; if the file cannot be written it is there
\* in memory only.
LEMMA CompactRotateStep ==
  ASSUME Session!SessionAssumption, SessionInv, Session!CompactRotate
  PROVE  SessionInv'
<1> DEFINE new == [chat |-> se_cur.chat, kind |-> "rotated", token |-> se_turns]
<1> USE DEF SessionInv
<1>1. /\ se_pc = "rotate" /\ se_cur' = [se_cur EXCEPT !.new = new]
         /\ se_router' = Session!WithEntry(se_router, se_cur.chat, new)
      /\ UNCHANGED <<se_store, se_seeds, se_seen, se_flushed, se_turns, se_crashes, se_conv, se_past,
                     se_misled>> /\ Working
  BY DEF Session!CompactRotate, Working
<1>2. \/ se_pc' = "write" /\ Session!FileOpens /\ UNCHANGED <<se_errors, se_result, se_excused>>
      \/ /\ se_pc' = "idle" /\ se_result' = "error" /\ se_errors' \in 0..se_MaxErrors
         /\ se_excused' = se_excused \cup {se_cur.chat} /\ UNCHANGED <<se_file, se_shape>>
  BY <1>1 DEF Session!CompactRotate, Session!Done, Session!FileStays, Session!Fails, Session!TypeOK,
     Session!SessionAssumption
<1>3. /\ se_cur.chat \in se_Chats /\ se_turns \in Nat /\ se_turns \in 0..se_MaxTurns /\ new \in Session!Ids
      /\ ~Isolated /\ OwnSession(new, se_cur.chat, se_turns) /\ ~(new.token < se_turns)
      /\ se_cur.sid.token < se_turns /\ Session!Current(se_cur.chat) = se_cur.sid
  BY <1>1, TypeFacts DEF MessageInv, Session!TypeOK, Session!Ids, OwnSession, Session!IsIsolated
<1>4. /\ se_cur'.chat = se_cur.chat /\ se_cur'.kind = se_cur.kind /\ se_cur'.sid = se_cur.sid
         /\ se_cur'.new = new
      /\ se_cur' \in [chat : se_Chats, kind : se_TurnKinds \cup {"none"}, sid : Session!Ids, new : Session!Ids]
  BY <1>1, <1>3 DEF Session!TypeOK
<1>5. /\ GoodMap(se_router', se_turns) /\ Resolved(se_router', se_cur.chat) = new
      /\ \A d \in se_Chats \ {se_cur.chat} : Resolved(se_router', d) = Resolved(se_router, d)
      /\ se_cur.chat \in DOMAIN se_router' /\ se_router'[se_cur.chat] = new
  <2>1. GoodMap(se_router, se_turns) /\ se_turns <= se_turns
    BY <1>3 DEF FilesInv
  <2>2. se_cur.chat \in DOMAIN se_router' /\ se_router'[se_cur.chat] = new
    BY <1>1 DEF Session!WithEntry
  <2> HIDE DEF new
  <2> QED
    BY <1>1, <1>3, <2>1, <2>2, WithEntryIsGood
<1>6. GoodMap(se_file', se_turns) /\ (se_shape' # "whole" => DOMAIN se_file' = {})
      /\ se_shape' \in {"whole", "empty", "cut"}
  BY <1>2, EmptyIsGood DEF FilesInv, Session!TypeOK
<1>7. Session!TypeOK'
  <2>1. {DOMAIN se_router, DOMAIN se_file}' \subseteq SUBSET se_Chats
        /\ (Session!Range(se_router) \cup Session!Range(se_file))' \subseteq Session!Ids
    BY <1>5, <1>6, GoodMapType
  <2> QED
    BY <1>1, <1>2, <1>3, <1>4, <1>6, <2>1 DEF Session!TypeOK
<1>8. FilesInv'
  BY <1>1, <1>5, <1>6 DEF FilesInv
<1>9. Session!Load(new) = {} /\ (\A i : Session!Load(i)' = Session!Load(i)) /\ ~Isolated'
  BY <1>1, <1>3, <1>4, NewIsEmpty DEF Session!Load, Isolated
<1>10. /\ Session!Current(se_cur.chat)' = new
          /\ \A d \in se_Chats \ {se_cur.chat} : Session!Current(d)' = Session!Current(d)
       /\ \A d \in se_Chats : Session!Current(d) = Resolved(se_router, d)
          /\ Session!Current(d)' = Resolved(se_router', d)
       /\ \A d \in se_Chats : Resolved(se_file, d)' = Resolved(se_file', d)
  BY <1>4, <1>5 DEF Session!Current, Resolved, Session!Default
<1> HIDE DEF new
<1>11. MessageInv'
  <2>1. CASE se_pc' = "idle"
    BY <2>1 DEF MessageInv, Working
  <2>2. CASE se_pc' = "write" /\ Session!FileOpens
    BY <1>1, <1>3, <1>4, <1>5, <1>9, <2>2, EmptyIsGood DEF MessageInv, new, Isolated, Writing
  <2> QED
    BY <1>2, <2>1, <2>2
<1>12. NothingComesBack'
  <2>1. ASSUME NEW d \in se_Chats \ se_misled
        PROVE  /\ Session!Load(Session!Current(d))' \subseteq se_conv'[d]
               /\ se_shape' = "whole" => Session!Load(Resolved(se_file, d))' \subseteq se_conv'[d]
    <3>1. Session!Load(Session!Current(d))' \subseteq se_conv'[d]
      BY <1>1, <1>9, <1>10 DEF NothingComesBack
    <3>2. CASE Session!FileOpens
      BY <3>1, <3>2, EmptyIsGood
    <3>3. CASE UNCHANGED <<se_file, se_shape>>
      BY <1>1, <1>9, <1>10, <3>1, <3>3 DEF NothingComesBack
    <3> QED
      BY <1>2, <3>1, <3>2, <3>3
  <2>2. se_cur.chat \notin se_misled => Session!Load(se_cur'.sid) \subseteq se_conv[se_cur.chat]
    BY <1>1, <1>3, <1>4 DEF NothingComesBack
  <2>3. Session!Load(se_cur.sid)' = Session!Load(se_cur'.sid)
    BY <1>1 DEF Session!Load
  <2>4. se_pc' \notin {"turn", "save", "saving"}
    BY <1>2
  <2>5. \A d \in se_Chats \ se_misled' : /\ Session!Load(Session!Current(d))' \subseteq se_conv'[d]
                                         /\ se_shape' = "whole"
                                            => Session!Load(Resolved(se_file, d))' \subseteq se_conv'[d]
    BY <1>1, <2>1
  <2>6. Working' /\ ~Isolated' /\ se_cur'.chat \notin se_misled'
        => Session!Load(se_cur.sid)' \subseteq se_conv'[se_cur'.chat]
    BY <1>1, <1>4, <2>2, <2>3
  <2> QED
    BY <2>4, <2>5, <2>6 DEF NothingComesBack
<1>13. NothingIsLost'
  <2>1. se_shape' = "whole" => \A d \in se_Chats \ se_excused' : Session!Current(d)' = Resolved(se_file, d)'
    <3>1. CASE Session!FileOpens
      BY <3>1, EmptyIsGood
    <3>2. CASE UNCHANGED <<se_file, se_shape>> /\ se_excused' = se_excused \cup {se_cur.chat}
      BY <1>10, <3>2 DEF NothingIsLost
    <3> QED
      BY <1>2, <3>1, <3>2
  <2>2. ASSUME NEW d \in se_Chats \ se_excused', d # se_cur.chat \/ se_pc' = "idle"
        PROVE  Turns(se_conv[d])' \subseteq Session!Load(Session!Current(d))'
    <3>1. d # se_cur.chat /\ d \notin se_excused
      BY <1>2, <2>2
    <3>2. Turns(se_conv[d]) \subseteq Session!Load(Session!Current(d))
      BY <1>1, <2>2, <3>1 DEF NothingIsLost
    <3> QED
      BY <1>1, <1>9, <1>10, <3>1, <3>2 DEF Turns
  <2>3. se_cur.chat \notin se_excused => Turns(se_conv[se_cur.chat])' \subseteq Session!Load(se_cur.sid)
    BY <1>1, <1>3 DEF NothingIsLost, Turns
  <2>4. se_excused \subseteq se_excused'
    BY <1>2
  <2> QED
    BY <1>1, <1>2, <1>4, <1>9, <2>1, <2>2, <2>3, <2>4 DEF NothingIsLost
<1>14. OwnTurns'
  BY <1>1 DEF OwnTurns
<1> QED
  BY <1>7, <1>8, <1>11, <1>12, <1>13, <1>14

\* The summary replaces what the user was told of the conversation.
LEMMA SeedStep ==
  ASSUME Session!SessionAssumption, SessionInv, Session!Seed
  PROVE  SessionInv'
<1> USE DEF SessionInv
<1>1. /\ se_pc = "seed" /\ se_pc' = "idle" /\ se_result' = "ok"
         /\ se_seeds' = Session!WithEntry(se_seeds, se_cur.new, {-se_turns})
      /\ se_conv' = [se_conv EXCEPT ![se_cur.chat] = {-se_turns}]
      /\ se_misled' = se_misled \ {se_cur.chat} /\ se_excused' = se_excused \ {se_cur.chat}
      /\ UNCHANGED <<se_router, se_file, se_shape, se_store, se_cur, se_seen, se_flushed, se_turns,
                     se_errors, se_crashes, se_past>>
      /\ Working
  BY DEF Session!Seed, Session!Done, Session!Afresh, Session!turnVars, Session!countVars, Working
<1>2. /\ se_cur.chat \in se_Chats /\ se_turns \in Nat /\ -se_turns \in Session!Items
         /\ se_cur.new \in Session!Ids /\ ~(se_cur.new.token < se_turns)
      /\ Session!Current(se_cur.chat) = se_cur.new /\ se_file = se_router
  BY <1>1, TypeFacts DEF MessageInv, Session!TypeOK, Session!Items, Session!SessionAssumption, Session!Current
<1>3. Session!Load(se_cur.new) = {} /\ \A i : Session!Load(i)' = Session!Load(i)
  BY <1>1, <1>2, NewIsEmpty DEF Session!Load
<1>4. \A d \in se_Chats : Session!Current(d)' = Session!Current(d)
      /\ Resolved(se_file, d)' = Session!Current(d)
  BY <1>1, <1>2 DEF Session!Current, Resolved, Session!Default
<1>5. /\ se_seeds' \in [DOMAIN se_seeds' -> SUBSET Session!Items] /\ DOMAIN se_seeds' \subseteq Session!Ids
      /\ Session!Range(se_seeds') \subseteq SUBSET Session!Items
  <2>1. se_seeds \in [DOMAIN se_seeds -> SUBSET Session!Items] /\ DOMAIN se_seeds \subseteq Session!Ids
    BY DEF FilesInv
  <2>2. {-se_turns} \in SUBSET Session!Items
    BY <1>2
  <2>3. se_seeds' = [x \in DOMAIN se_seeds \cup {se_cur.new} |-> IF x = se_cur.new THEN {-se_turns} ELSE se_seeds[x]]
    BY <1>1 DEF Session!WithEntry
  <2>4. se_seeds' \in [DOMAIN se_seeds \cup {se_cur.new} -> SUBSET Session!Items]
        /\ DOMAIN se_seeds' = DOMAIN se_seeds \cup {se_cur.new}
    <3> HIDE DEF SessionInv
    <3> QED
      BY <2>1, <2>2, <2>3
  <2> QED
    BY <1>2, <2>1, <2>4 DEF Session!Range
<1>6. se_conv' \in [se_Chats -> SUBSET Session!Items]
  BY <1>1, <1>2 DEF Session!TypeOK
<1>7. Session!TypeOK' /\ FilesInv'
  <2>1. se_misled' \subseteq se_misled /\ se_excused' \subseteq se_excused
    BY <1>1
  <2>2. DOMAIN se_store' = DOMAIN se_store /\ Session!Range(se_store') = Session!Range(se_store)
    BY <1>1
  <2>3. Session!TypeOK'
    BY <1>1, <1>5, <1>6, <2>1, <2>2 DEF Session!TypeOK
  <2> QED
    BY <1>1, <1>5, <2>3 DEF FilesInv
<1>8. MessageInv'
  BY <1>1 DEF MessageInv, Working
<1>9. ASSUME NEW d \in se_Chats
      PROVE  /\ d \in se_misled' \/ Session!Load(Session!Current(d)) \subseteq se_conv'[d]
             /\ d \in se_excused' \/ Turns(se_conv'[d]) \subseteq Session!Load(Session!Current(d))
  <2>1. CASE d = se_cur.chat
    BY <1>1, <1>2, <1>3, <2>1 DEF Session!TypeOK, Turns
  <2>2. CASE d # se_cur.chat
    BY <1>1, <1>2, <2>2 DEF Session!TypeOK, NothingComesBack, NothingIsLost
  <2> QED
    BY <2>1, <2>2
<1>10. NothingComesBack'
  BY <1>1, <1>3, <1>4, <1>9 DEF NothingComesBack, Working
<1>11. NothingIsLost'
  <2>1. \A d \in se_Chats : Turns(se_conv[d])' = Turns(se_conv'[d])
    BY DEF Turns
  <2> QED
    BY <1>1, <1>3, <1>4, <1>9, <2>1 DEF NothingIsLost
<1>12. OwnTurns'
  BY <1>1 DEF OwnTurns
<1> QED
  BY <1>7, <1>8, <1>10, <1>11, <1>12

\* A /compact whose seed cannot be written goes back to the session it came from.
LEMMA SeedFailsStep ==
  ASSUME Session!SessionAssumption, SessionInv, Session!SeedFails
  PROVE  SessionInv'
<1> USE DEF SessionInv
<1>1. /\ se_pc = "seed" /\ se_errors' \in 0..se_MaxErrors
      /\ se_router' = IF se_cur.sid = Session!Default(se_cur.chat)
         THEN Session!Restrict(se_router, DOMAIN se_router \ {se_cur.chat})
                   ELSE Session!WithEntry(se_router, se_cur.chat, se_cur.sid)
      /\ \/ se_pc' = "restore" /\ Session!FileOpens /\ UNCHANGED <<se_result, se_excused>>
         \/ /\ se_pc' = "idle" /\ se_result' = "error" /\ se_excused' = se_excused \cup {se_cur.chat}
            /\ UNCHANGED <<se_file, se_shape>>
      /\ UNCHANGED <<se_store, se_seeds, se_cur, se_seen, se_flushed, se_turns, se_crashes, se_conv, se_past,
                     se_misled>> /\ Working
  BY DEF Session!SeedFails, Session!Done, Session!Fails, Session!FileStays, Session!turnVars, Session!TypeOK,
     Session!SessionAssumption, Working
<1>2. /\ se_cur.chat \in se_Chats /\ se_turns \in Nat /\ ~Isolated /\ ~Isolated'
         /\ OwnSession(se_cur.sid, se_cur.chat, se_turns)
      /\ se_file = se_router /\ se_cur.sid.token < se_turns
  BY <1>1, TypeFacts DEF MessageInv, Isolated
<1>3. /\ GoodMap(se_router', se_turns) /\ Resolved(se_router', se_cur.chat) = se_cur.sid
      /\ \A d \in se_Chats \ {se_cur.chat} : Resolved(se_router', d) = Resolved(se_router, d)
  <2>1. CASE se_cur.sid = Session!Default(se_cur.chat)
    BY <1>1, <1>2, <2>1, RestrictIsGood DEF FilesInv
  <2>2. CASE se_cur.sid # Session!Default(se_cur.chat)
    BY <1>1, <1>2, <2>2, WithEntryIsGood DEF FilesInv
  <2> QED
    BY <2>1, <2>2
<1>4. GoodMap(se_file', se_turns) /\ (se_shape' # "whole" => DOMAIN se_file' = {})
      /\ se_shape' \in {"whole", "empty", "cut"}
  BY <1>1, EmptyIsGood DEF FilesInv, Session!TypeOK
<1>5. Session!TypeOK'
  <2>1. {DOMAIN se_router, DOMAIN se_file}' \subseteq SUBSET se_Chats
        /\ (Session!Range(se_router) \cup Session!Range(se_file))' \subseteq Session!Ids
    BY <1>3, <1>4, GoodMapType
  <2>2. se_excused' \subseteq se_Chats /\ se_pc' \in {"idle", "restore"}
        /\ se_result' \in {"none", "ok", "error", "lost"}
    BY <1>1, <1>2 DEF Session!TypeOK
  <2> QED
    BY <1>1, <1>2, <1>4, <2>1, <2>2 DEF Session!TypeOK
<1>6. FilesInv'
  BY <1>1, <1>3, <1>4 DEF FilesInv
<1>7. /\ \A i : Session!Load(i)' = Session!Load(i)
      /\ \A d \in se_Chats : /\ Session!Current(d) = Resolved(se_router, d)
                                /\ Session!Current(d)' = Resolved(se_router', d)
                             /\ Resolved(se_file, d)' = Resolved(se_file', d)
  BY <1>1 DEF Session!Load, Session!Current, Resolved, Session!Default
<1>8. Session!Current(se_cur.chat)' = se_cur.sid
      /\ \A d \in se_Chats \ {se_cur.chat} : Session!Current(d)' = Session!Current(d)
  BY <1>1, <1>2, <1>3, <1>7
<1>9. MessageInv'
  <2>1. CASE se_pc' = "idle"
    BY <2>1 DEF MessageInv, Working
  <2>2. CASE se_pc' = "restore" /\ Session!FileOpens
    BY <1>1, <1>2, <1>8, <2>2, EmptyIsGood DEF MessageInv, Writing, OwnSession
  <2> QED
    BY <1>1, <2>1, <2>2
<1>10. ASSUME NEW d \in se_Chats \ se_misled
      PROVE  /\ Session!Load(Session!Current(d))' \subseteq se_conv'[d]
             /\ se_shape' = "whole" => Session!Load(Resolved(se_file, d))' \subseteq se_conv'[d]
  <2>1. Session!Load(Session!Current(d))' \subseteq se_conv'[d]
    BY <1>1, <1>2, <1>7, <1>8 DEF NothingComesBack
  <2>2. CASE Session!FileOpens
    BY <2>1, <2>2, EmptyIsGood
  <2>3. CASE UNCHANGED <<se_file, se_shape>>
    BY <1>1, <1>7, <2>1, <2>3 DEF NothingComesBack
  <2> QED
    BY <1>1, <2>1, <2>2, <2>3
<1>11. NothingComesBack'
  <2>1. se_cur.chat \notin se_misled => Session!Load(se_cur.sid)' \subseteq se_conv[se_cur.chat]
    BY <1>1, <1>2, <1>7 DEF NothingComesBack
  <2>2. se_pc' \notin {"turn", "save", "saving"}
    BY <1>1
  <2>3. \A d \in se_Chats \ se_misled' : /\ Session!Load(Session!Current(d))' \subseteq se_conv'[d]
                                         /\ se_shape' = "whole"
                                            => Session!Load(Resolved(se_file, d))' \subseteq se_conv'[d]
    BY <1>1, <1>10
  <2>4. Working' /\ ~Isolated' /\ se_cur'.chat \notin se_misled'
        => Session!Load(se_cur.sid)' \subseteq se_conv'[se_cur'.chat]
    BY <1>1, <2>1
  <2> QED
    BY <2>2, <2>3, <2>4 DEF NothingComesBack
<1>12. NothingIsLost'
  <2>1. se_shape' = "whole" => \A d \in se_Chats \ se_excused' : Session!Current(d)' = Resolved(se_file, d)'
    <3>1. CASE Session!FileOpens
      BY <3>1, EmptyIsGood
    <3>2. CASE UNCHANGED <<se_file, se_shape>> /\ se_excused' = se_excused \cup {se_cur.chat}
      BY <1>7, <1>8, <3>2 DEF NothingIsLost
    <3> QED
      BY <1>1, <3>1, <3>2
  <2>2. ASSUME NEW d \in se_Chats \ se_excused'
        PROVE  Turns(se_conv[d])' \subseteq Session!Load(Session!Current(d))'
    <3>1. d \notin se_excused
      BY <1>1, <2>2
    <3>2. CASE d = se_cur.chat
      BY <1>1, <1>2, <1>7, <1>8, <3>1, <3>2 DEF NothingIsLost, Turns
    <3>3. CASE d # se_cur.chat
      BY <1>1, <1>2, <1>7, <1>8, <3>1, <3>3 DEF NothingIsLost, Turns
    <3> QED
      BY <3>2, <3>3
  <2>3. se_pc' \in {"restore", "idle"}
    BY <1>1
  <2> QED
    BY <2>1, <2>2, <2>3 DEF NothingIsLost
<1>13. OwnTurns'
  BY <1>1 DEF OwnTurns
<1> QED
  BY <1>5, <1>6, <1>9, <1>11, <1>12, <1>13

\* After a crash every chat is where the file says, those moved by a file that is gone in their own session.
LEMMA CrashStep ==
  ASSUME Session!SessionAssumption, SessionInv, Session!Crash
  PROVE  SessionInv'
<1> USE DEF SessionInv
<1>1. /\ se_pc' \in {"idle", "down"} /\ se_result' \in {se_result, "lost"} /\ se_router' = se_file'
         /\ se_crashes' \in 0..se_MaxCrashes
      /\ \/ UNCHANGED <<se_file, se_shape>>
         \/ Writing /\ se_file' = se_router /\ se_shape' = "whole"
         \/ Writing /\ UNCHANGED se_file /\ se_shape' = "cut"
      /\ UNCHANGED <<se_store, se_seeds, se_cur, se_seen, se_flushed, se_turns, se_errors, se_conv, se_past>>
  BY DEF Session!Crash, Session!turnVars, Session!TypeOK, Session!SessionAssumption, Writing
<1>2. /\ se_misled' = se_misled \cup (IF se_shape' = "whole" THEN {} ELSE DOMAIN se_router)
      /\ se_excused' = se_excused \cup (IF se_shape' = "whole" THEN {} ELSE DOMAIN se_router)
                    \cup (IF se_pc \in {"saving", "write", "seed", "restore"} THEN {se_cur.chat} ELSE {})
  BY DEF Session!Crash
<1>3. se_cur.chat \in se_Chats /\ (Writing => Working)
  BY TypeFacts DEF Writing, Working
<1>4. /\ \A i : Session!Load(i)' = Session!Load(i)
      /\ \A d \in se_Chats : /\ Session!Current(d)' = Resolved(se_file', d)
                                /\ Resolved(se_file, d)' = Resolved(se_file', d)
                             /\ Session!Current(d) = Resolved(se_router, d)
  BY <1>1 DEF Session!Load, Session!Current, Resolved, Session!Default
<1>5. (Writing => se_shape = "empty") /\ (se_shape' # "whole" => DOMAIN se_file' = {})
  BY <1>1, <1>3 DEF MessageInv, FilesInv
<1>6. FilesInv'
  BY <1>1, <1>5 DEF FilesInv
<1>7. Session!TypeOK'
  <2>1. {DOMAIN se_router, DOMAIN se_file}' \subseteq SUBSET se_Chats
        /\ (Session!Range(se_router) \cup Session!Range(se_file))' \subseteq Session!Ids
    BY <1>6, GoodMapType DEF FilesInv
  <2>2. {se_misled, se_excused}' \subseteq SUBSET se_Chats
    BY <1>2, <1>3 DEF Session!TypeOK
  <2>3. se_shape' \in {"whole", "empty", "cut"} /\ se_pc' \in {"idle", "down"}
        /\ se_result' \in {"none", "ok", "error", "lost"}
    BY <1>1 DEF Session!TypeOK
  <2> QED
    BY <1>1, <2>1, <2>2, <2>3 DEF Session!TypeOK
<1>8. MessageInv'
  BY <1>1 DEF MessageInv, Working
<1>9. ASSUME NEW d \in se_Chats, se_shape' # "whole", d \notin DOMAIN se_router
      PROVE  Resolved(se_file', d) = Session!Current(d)
  BY <1>4, <1>5, <1>9 DEF Resolved
<1>10. ASSUME NEW d \in se_Chats, se_shape' = "whole"
       PROVE  \/ se_shape = "whole" /\ se_file' = se_file
              \/ Writing /\ Resolved(se_file', d) = Session!Current(d)
  BY <1>1, <1>4, <1>10
<1>11. NothingComesBack'
  <2>1. ASSUME NEW d \in se_Chats \ se_misled' PROVE Session!Load(Resolved(se_file', d)) \subseteq se_conv[d]
    <3>1. CASE se_shape' # "whole"
      BY <1>2, <1>9, <2>1, <3>1 DEF NothingComesBack
    <3>2. CASE se_shape' = "whole"
      BY <1>2, <1>10, <2>1, <3>2 DEF NothingComesBack
    <3> QED
      BY <3>1, <3>2
  <2> QED
    BY <1>1, <1>4, <2>1 DEF NothingComesBack, Working
<1>12. NothingIsLost'
  <2>1. ASSUME NEW d \in se_Chats \ se_excused'
        PROVE  Turns(se_conv[d])' \subseteq Session!Load(Resolved(se_file', d))
    <3>1. Turns(se_conv[d])' = Turns(se_conv[d])
      BY <1>1 DEF Turns
    <3>2. d \notin se_excused /\ (se_pc \in {"saving", "write", "seed"} => d # se_cur.chat)
      BY <1>2, <2>1
    <3>3. Turns(se_conv[d]) \subseteq Session!Load(Session!Current(d))
      BY <3>2, <2>1 DEF NothingIsLost
    <3>4. CASE se_shape' # "whole"
      BY <1>2, <1>9, <2>1, <3>1, <3>3, <3>4
    <3>5. CASE se_shape' = "whole"
      BY <1>10, <2>1, <3>1, <3>2, <3>3, <3>5 DEF NothingIsLost
    <3> QED
      BY <3>4, <3>5
  <2> QED
    BY <1>1, <1>4, <2>1 DEF NothingIsLost
<1>13. OwnTurns'
  BY <1>1 DEF OwnTurns
<1> QED
  BY <1>6, <1>7, <1>8, <1>11, <1>12, <1>13

-----------------------------------------------------------------------------
(* The theorem                                                             *)

\* No files and no conversations.
LEMMA SessionInit == ASSUME Session!SessionAssumption PROVE Session!Init => SessionInv
<1> SUFFICES ASSUME Session!Init PROVE SessionInv
  OBVIOUS
<1>1. PICK c \in se_Chats : se_cur = [chat |-> c, kind |-> "none", sid |-> Session!Default(c), new |-> Session!Default(c)]
  BY DEF Session!Init, Session!SessionAssumption
<1>2. Session!Default(c) \in Session!Ids
  BY DEF Session!Default, Session!Ids, Session!SessionAssumption
<1>3. Session!TypeOK
  <2>1. se_cur \in [chat : se_Chats, kind : se_TurnKinds \cup {"none"}, sid : Session!Ids, new : Session!Ids]
    BY <1>1, <1>2
  <2>2. /\ DOMAIN se_router = {} /\ DOMAIN se_file = {} /\ DOMAIN se_store = {} /\ DOMAIN se_seeds = {}
        /\ Session!Range(se_router) = {} /\ Session!Range(se_file) = {} /\ Session!Range(se_store) = {}
           /\ Session!Range(se_seeds) = {}
    BY DEF Session!Init, Session!Range
  <2>3. se_conv \in [se_Chats -> SUBSET Session!Items] /\ se_past = se_conv
    BY DEF Session!Init
  <2> QED
    <3>1. /\ se_pc = "idle" /\ se_seen = {} /\ se_flushed = FALSE /\ se_result = "none" /\ se_turns = 0
             /\ se_errors = 0
          /\ se_crashes = 0 /\ se_excused = {} /\ se_misled = {} /\ se_shape = "empty"
      BY DEF Session!Init
    <3> QED
      <4>1. {DOMAIN se_router, DOMAIN se_file} \subseteq SUBSET se_Chats
            /\ Session!Range(se_router) \cup Session!Range(se_file) \subseteq Session!Ids
        BY <2>2
      <4>2. DOMAIN se_store \cup DOMAIN se_seeds \subseteq Session!Ids
            /\ Session!Range(se_store) \cup Session!Range(se_seeds) \subseteq SUBSET Session!Items
        BY <2>2
      <4>3. se_turns \in 0..se_MaxTurns /\ se_errors \in 0..se_MaxErrors /\ se_crashes \in 0..se_MaxCrashes
        BY <3>1 DEF Session!SessionAssumption
      <4> QED
        BY <2>1, <2>3, <3>1, <4>1, <4>2, <4>3 DEF Session!TypeOK
<1>4. FilesInv
  BY DEF Session!Init, FilesInv, GoodMap
<1>5. MessageInv
  BY DEF Session!Init, MessageInv, Working
<1>6. OwnTurns /\ NothingComesBack /\ NothingIsLost
  BY DEF Session!Init, OwnTurns, NothingComesBack, NothingIsLost, Session!Load, Session!Current, Resolved,
     Turns, Working
<1> QED
  BY <1>3, <1>4, <1>5, <1>6 DEF SessionInv

\* A step that changes nothing.
LEMMA SessionStutter == ASSUME SessionInv, UNCHANGED Session!vars PROVE SessionInv'
  BY DEF Session!vars, Session!fileVars, Session!turnVars, Session!countVars, Session!userVars, Working,
     Writing, SessionInv, Session!TypeOK, FilesInv, MessageInv, OwnTurns, NothingComesBack,
         NothingIsLost, Session!Load, Session!Current, Resolved, Turns, Isolated, Session!Default

\* Session and post-actions: whichever writes fail and wherever the process dies, a turn is given the
\* conversation of its own chat since the last /new or /compact that was acknowledged, with turns of
\* its own before that only in a chat whose session was lost with the router's file, all of it unless
\* its chat is excused, and isolated turns leave nothing behind.
THEOREM HistoryKept ==
  ASSUME Session!SessionAssumption
  PROVE  Session!Spec => []Session!SessionsKeepTheirHistory
<1>1. Session!Init => SessionInv
  BY SessionInit
<1>2. SessionInv /\ [Session!Next]_(Session!vars) => SessionInv'
  BY BeginStep, NewStep, FileWrittenStep, WriteFailsStep, TurnEndsStep, SaveBeginStep, SaveEndStep, FlushStep,
     CompactRotateStep, SeedStep,
     SeedFailsStep, CrashStep, SessionStutter DEF Session!Next
<1>3. SessionInv => Session!SessionsKeepTheirHistory
  <2> SUFFICES ASSUME SessionInv PROVE Session!SessionsKeepTheirHistory
    OBVIOUS
  <2>1. Session!SeesOnlyItsConversation
    BY DEF SessionInv, NothingComesBack, Session!SeesOnlyItsConversation, Isolated
  <2>2. Session!NothingIsForgotten
    BY DEF SessionInv, NothingIsLost, Session!NothingIsForgotten, Isolated, Turns
  <2>3. Session!IsolatedLeavesNoTrace
    BY DEF SessionInv, FilesInv, GoodMap, OwnSession, Session!IsolatedLeavesNoTrace, Session!Range
  <2> QED
    BY <2>1, <2>2, <2>3 DEF SessionInv, Session!SessionsKeepTheirHistory
<1> QED
  BY <1>1, <1>2, <1>3, PTL DEF Session!Spec

-----------------------------------------------------------------------------
Line == [fact : me_Facts, at : Nat]
Shadow == [fact : me_Facts, at : {"event", "search", "remember", "done"}, rt : Nat]

\* What is told, written and read is of the conversations.
KnowledgeInv ==
  /\ me_built \cup me_known \cup me_longTerm \subseteq me_Facts
  /\ me_journal \in Seq(Line) /\ me_shadows \in Seq(Shadow)
  /\ me_pass \in [at : {"none", "prompt", "turn"}, lines : SUBSET DOMAIN me_journal, knows : SUBSET me_Facts]
  /\ me_reviewed \subseteq DOMAIN me_journal /\ (me_pass.at = "none" => me_pass.lines = {})

\* A runtime that is not made yet has never been closed.
RuntimesInv ==
  /\ me_made <= me_applies /\ me_applies \in 0..me_MaxApplies /\ me_made \in Nat /\ me_rt \in 0..me_made
     /\ me_closing \subseteq 1..me_made
  /\ me_gateway \in {"idle", "stopped", "built", "down"}
  /\ me_gateway \in {"stopped", "built"} => me_applies < me_MaxApplies
  /\ me_closes \in [1..me_MaxApplies -> Nat] /\ \A r \in 1..me_MaxApplies : r > me_made => me_closes[r] = 0
  /\ Memory!ShadowsAreClosedOnce

\* A tick is never in the past, nor more than an interval away ...
TickerInv ==
  /\ me_now \in 0..me_MaxTime /\ me_next \in Nat /\ me_upset \in Nat /\ me_upset <= me_now
  /\ me_next # 0 => me_now <= me_next /\ me_next <= me_now + me_Interval
  /\ \A i \in DOMAIN me_journal : me_journal[i].at <= me_now

\* ... and a line that is still to be read, and has the time, will be by a tick at most an interval
\* after it.
DueInv ==
  \A i \in DOMAIN me_journal :
    Memory!Fits(i) /\ me_next # 0 /\ me_upset <= me_journal[i].at
    /\ me_journal[i].at + me_Interval <= Memory!Leaves(i)
    => i \in me_reviewed \cup me_pass.lines \/ me_next <= me_journal[i].at + me_Interval

\* The inductive invariant.
MemoryInv == KnowledgeInv /\ RuntimesInv /\ TickerInv /\ DueInv

-----------------------------------------------------------------------------
(* Lines and days *)

LEMMA LinesOf ==
  ASSUME NEW S PROVE \A s \in Seq(S) : /\ Len(s) \in Nat /\ DOMAIN s = 1..Len(s)
                                       /\ \A i \in DOMAIN s : s[i] \in S
  OBVIOUS
LEMMA LineAdded ==
  ASSUME NEW S
  PROVE  \A s \in Seq(S) : \A e \in S :
           /\ Append(s, e) \in Seq(S) /\ DOMAIN Append(s, e) = DOMAIN s \cup {Len(s) + 1}
           /\ \A i \in DOMAIN s : Append(s, e)[i] = s[i]
           /\ Append(s, e)[Len(s) + 1] = e
  OBVIOUS
LEMMA ItemChanged ==
  ASSUME NEW S
  PROVE  \A s \in Seq(S) : \A i \in DOMAIN s : \A e \in S : [s EXCEPT ![i] = e] \in Seq(S)
  OBVIOUS

\* A day has Day ticks.
LEMMA DayBegins == ASSUME NEW d \in Nat \ {0} PROVE \A t \in Nat : t \div d \in Nat /\ t < (t \div d) * d + d
  OBVIOUS

\* What the lemmas below go by.
LEMMA MemoryFacts ==
  ASSUME Memory!MemoryAssumption, MemoryInv
  PROVE  /\ me_Interval \in Nat /\ me_MaxTime \in Nat /\ me_MaxApplies \in Nat /\ me_now \in Nat
            /\ me_next \in Nat /\ me_upset \in Nat
         /\ \A i \in DOMAIN me_journal : me_journal[i] \in Line /\ me_journal[i].at \in Nat
            /\ me_journal[i].at <= me_now /\ i \in Nat
         /\ \A s \in DOMAIN me_shadows : me_shadows[s] \in Shadow
<1>1. /\ me_Interval \in Nat /\ me_MaxTime \in Nat /\ me_MaxApplies \in Nat /\ me_now \in Nat
         /\ me_next \in Nat /\ me_upset \in Nat
  BY DEF Memory!MemoryAssumption, MemoryInv, TickerInv
<1>2. me_journal \in Seq(Line) /\ me_shadows \in Seq(Shadow)
  BY DEF MemoryInv, KnowledgeInv
<1>3. DOMAIN me_journal = 1..Len(me_journal) /\ Len(me_journal) \in Nat
      /\ \A i \in DOMAIN me_journal : me_journal[i] \in Line
  BY <1>2, LinesOf
<1>4. \A s \in DOMAIN me_shadows : me_shadows[s] \in Shadow
  BY <1>2, LinesOf
<1>5. \A i \in DOMAIN me_journal : me_journal[i].at \in Nat /\ me_journal[i].at <= me_now /\ i \in Nat
  BY <1>3 DEF MemoryInv, TickerInv, Line
<1> QED BY <1>1, <1>3, <1>4, <1>5

\* Until an interval after it was written, a line that has the time is within the window of a pass.
LEMMA StaysInReview ==
  ASSUME Memory!MemoryAssumption, MemoryInv, NEW i \in DOMAIN me_journal,
         me_now <= me_journal[i].at + me_Interval,
         me_journal[i].at + me_Interval <= Memory!Leaves(i)
  PROVE  Memory!InReview(i)
<1>1. me_journal[i].at \in Nat /\ me_now \in Nat /\ me_Interval \in Nat /\ Memory!Leaves(i) \in Int
  BY MemoryFacts, DayBegins DEF Memory!MemoryAssumption, Memory!Leaves, Memory!DayOf
<1> QED BY <1>1 DEF Memory!InReview

\* An interval that leaves the first day of the window, and what the clock is behind, to spare gives
\* every line the time.
LEMMA EveryLineHasTime ==
  ASSUME Memory!MemoryAssumption, MemoryInv, me_Interval + me_Day + me_Behind <= me_ReviewDays * me_Day + 1,
         NEW i \in DOMAIN me_journal
  PROVE  me_journal[i].at + me_Interval <= Memory!Leaves(i)
<1> DEFINE t == me_journal[i].at
           first == Memory!DayOf(t) * me_Day
           window == me_ReviewDays * me_Day
<1>1. t \in Nat /\ me_Day \in Nat \ {0} /\ me_ReviewDays \in Nat /\ me_Interval \in Nat /\ me_Behind \in Int
  BY MemoryFacts DEF Memory!MemoryAssumption
<1>2. Memory!DayOf(t) \in Nat /\ t < first + me_Day
  BY <1>1, DayBegins DEF Memory!DayOf
<1>3. first \in Nat /\ window \in Nat
  BY <1>1, <1>2
<1>4. me_Interval + me_Day + me_Behind <= window + 1 /\ Memory!Leaves(i) = first - me_Behind + window
  BY DEF Memory!Leaves
<1> HIDE DEF first, window, t
<1>5. t + me_Interval <= first - me_Behind + window
  BY <1>1, <1>2, <1>3, <1>4
<1> QED BY <1>4, <1>5 DEF t

\* The invariant says what is checked.
LEMMA MemoryInvIsEnough == ASSUME Memory!MemoryAssumption, MemoryInv PROVE Memory!MemoryIsLookedAfter
<1>1. Memory!TypeOK
  <2>1. me_made \in 0..me_MaxApplies /\ me_now \in 0..me_MaxTime /\ me_applies \in 0..me_MaxApplies
    BY MemoryFacts DEF MemoryInv, RuntimesInv, TickerInv
  <2>2. \A s \in DOMAIN me_shadows : me_shadows[s].at \in {"event", "search", "remember", "done"}
    BY MemoryFacts DEF Shadow
  <2>3. \A i \in DOMAIN me_journal : me_journal[i].fact \in me_Facts /\ me_journal[i].at <= me_now
    BY MemoryFacts DEF Line
  <2> QED BY <2>1, <2>2, <2>3 DEF MemoryInv, KnowledgeInv, RuntimesInv, Memory!TypeOK
<1>2. Memory!ReviewedInTime
  <2> SUFFICES ASSUME NEW i \in DOMAIN me_journal, ~Memory!InReview(i), Memory!Fits(i), me_next # 0,
                      me_upset <= me_journal[i].at,
                      me_journal[i].at + me_Interval <= Memory!Leaves(i)
               PROVE  i \in me_reviewed \cup me_pass.lines
    BY DEF Memory!ReviewedInTime
  <2>1. i \in me_reviewed \cup me_pass.lines \/ me_next <= me_journal[i].at + me_Interval
    BY DEF MemoryInv, DueInv
  <2>2. me_journal[i].at \in Nat /\ me_now \in Nat /\ me_next \in Nat /\ me_now <= me_next
        /\ me_Interval \in Nat
    BY MemoryFacts DEF MemoryInv, TickerInv
  <2>3. CASE me_next <= me_journal[i].at + me_Interval
    <3>1. me_now <= me_journal[i].at + me_Interval
      BY <2>2, <2>3
    <3> QED BY <3>1, StaysInReview
  <2> QED BY <2>1, <2>3
<1> QED BY <1>1, <1>2 DEF MemoryInv, RuntimesInv, Memory!MemoryIsLookedAfter

-----------------------------------------------------------------------------
(* The steps *)

LEMMA MemoryInit == ASSUME Memory!MemoryAssumption PROVE Memory!Init => MemoryInv
<1> SUFFICES ASSUME Memory!Init PROVE MemoryInv
  OBVIOUS
<1>1. me_journal = <<>> /\ me_shadows = <<>> /\ DOMAIN me_journal = {} /\ DOMAIN me_shadows = {}
  BY DEF Memory!Init
<1>2. KnowledgeInv
  BY <1>1 DEF Memory!Init, KnowledgeInv, Memory!NoPass
<1>3. RuntimesInv
  BY DEF Memory!Init, RuntimesInv, Memory!ShadowsAreClosedOnce, Memory!MemoryAssumption
<1>4. TickerInv /\ DueInv
  BY <1>1 DEF Memory!Init, TickerInv, DueInv, Memory!MemoryAssumption
<1> QED BY <1>2, <1>3, <1>4 DEF MemoryInv

\* A restart, a skipped tick or a failed pass excuses what was written before it; what is written
\* at the same time is due an interval later.
LEMMA UpsetExcuses ==
  ASSUME Memory!MemoryAssumption, MemoryInv, me_journal' = me_journal, me_upset' = me_now,
         me_next' \in {me_now + me_Interval, 0, me_next}
  PROVE  DueInv'
<1> SUFFICES ASSUME NEW i \in DOMAIN me_journal, me_next' # 0, me_now <= me_journal[i].at
             PROVE  me_next' <= me_journal[i].at + me_Interval
  BY DEF DueInv, Memory!Fits, Memory!DayOf, Memory!Leaves
<1> QED BY MemoryFacts DEF MemoryInv, TickerInv

\* Whoever starts, stops and restarts the triggers.
LEMMA TriggersStep ==
  ASSUME Memory!MemoryAssumption, MemoryInv, Memory!StopTriggers \/ Memory!Reload \/ Memory!Shutdown
  PROVE  MemoryInv'
<1>1. /\ UNCHANGED <<me_now, me_longTerm, me_shadows, me_journal, me_pass, me_reviewed>> /\ me_upset' = me_now
      /\ me_next' \in {me_now + me_Interval, 0}
  BY DEF Memory!StopTriggers, Memory!Reload, Memory!Shutdown
<1>2. KnowledgeInv'
  BY <1>1 DEF Memory!StopTriggers, Memory!Reload, Memory!Shutdown, MemoryInv, KnowledgeInv
<1>3. TickerInv'
  BY <1>1, MemoryFacts DEF MemoryInv, TickerInv
<1>4. DueInv'
  BY <1>1, UpsetExcuses
<1>5. CASE Memory!StopTriggers
  <2>1. RuntimesInv'
    BY <1>5 DEF Memory!StopTriggers, MemoryInv, RuntimesInv, Memory!ShadowsAreClosedOnce, Memory!runtimeVars
  <2> QED BY <1>2, <1>3, <1>4, <2>1 DEF MemoryInv
<1>6. CASE Memory!Reload
  <2>1. me_gateway = "built" /\ me_gateway' = "idle" /\ me_applies' = me_applies + 1 /\ me_closes' = me_closes
    BY <1>6 DEF Memory!Reload
  <2>2. /\ me_made \in Nat /\ me_applies \in Nat /\ me_made <= me_applies /\ me_applies < me_MaxApplies
           /\ me_MaxApplies \in Nat
        /\ me_rt \in 0..me_made /\ me_closing \subseteq 1..me_made /\ me_rt \notin me_closing
        /\ me_closes \in [1..me_MaxApplies -> Nat] /\ \A r \in 1..me_MaxApplies : r > me_made
           => me_closes[r] = 0
        /\ \A r \in 1..me_made : me_closes[r] = (IF r \in me_closing \/ r = me_rt THEN 0 ELSE 1)
    BY <2>1, MemoryFacts DEF MemoryInv, RuntimesInv, Memory!ShadowsAreClosedOnce
  <2>3. \/ me_made' = me_made + 1 /\ me_rt' = me_made + 1 /\ me_closing' = me_closing \cup ({me_rt} \ {0})
        \/ me_made' = me_made /\ me_rt' = 0 /\ me_closing' = me_closing \cup ({me_rt} \ {0})
        \/ me_made' = me_made /\ me_rt' = me_rt /\ me_closing' = me_closing
    BY <1>6 DEF Memory!Reload, Memory!Adopt
  <2>4. me_made' \in Nat /\ me_made' <= me_applies' /\ me_applies' \in 0..me_MaxApplies
        /\ me_rt' \in 0..me_made' /\ me_rt' \notin me_closing'
    BY <2>1, <2>2, <2>3
  <2>5. me_closing' \subseteq 1..me_made'
    <3> SUFFICES ASSUME NEW x \in me_closing' PROVE x \in 1..me_made'
      OBVIOUS
    <3>1. x \in me_closing \/ (x = me_rt /\ me_rt # 0)
      BY <2>3
    <3>2. x \in 1..me_made
      <4>1. me_made \in Nat /\ me_rt \in 0..me_made /\ me_closing \subseteq 1..me_made
        BY <2>2
      <4>2. CASE x \in me_closing
        BY <4>1, <4>2
      <4>3. CASE x = me_rt /\ me_rt # 0
        BY <4>1, <4>3
      <4> QED BY <3>1, <4>2, <4>3
    <3>3. me_made' = me_made + 1 \/ me_made' = me_made
      BY <2>3
    <3>4. me_made \in Nat
      BY <2>2
    <3> QED BY <3>2, <3>3, <3>4
  <2>6. \A r \in 1..me_MaxApplies : r > me_made' => me_closes'[r] = 0
    BY <2>1, <2>2, <2>3
  <2>7. ASSUME NEW r \in 1..me_made' PROVE me_closes'[r] = (IF r \in me_closing' \/ r = me_rt' THEN 0 ELSE 1)
    <3>1. CASE r \in 1..me_made
      BY <2>1, <2>2, <2>3, <3>1
    <3>2. CASE r \notin 1..me_made
      <4>1. r = me_made + 1 /\ me_rt' = r /\ r \in 1..me_MaxApplies
        BY <2>2, <2>3, <3>2
      <4> QED BY <2>1, <2>2, <4>1
    <3> QED BY <3>1, <3>2
  <2>8. RuntimesInv'
    BY <2>1, <2>2, <2>4, <2>5, <2>6, <2>7 DEF RuntimesInv, Memory!ShadowsAreClosedOnce
  <2> QED BY <1>2, <1>3, <1>4, <2>8 DEF MemoryInv
<1>7. CASE Memory!Shutdown
  <2>1. RuntimesInv'
    <3>1. /\ me_made <= me_applies /\ me_applies \in 0..me_MaxApplies /\ me_made \in Nat
             /\ me_rt \in 0..me_made
          /\ me_closing \subseteq 1..me_made /\ me_rt \notin me_closing /\ me_MaxApplies \in Nat
          /\ me_closes \in [1..me_MaxApplies -> Nat] /\ \A r \in 1..me_MaxApplies : r > me_made
             => me_closes[r] = 0
          /\ \A r \in 1..me_made : me_closes[r] = (IF r \in me_closing \/ r = me_rt THEN 0 ELSE 1)
      BY DEF MemoryInv, RuntimesInv, Memory!ShadowsAreClosedOnce, Memory!MemoryAssumption
    <3>2. /\ me_gateway' = "down" /\ me_rt' = 0 /\ UNCHANGED <<me_made, me_applies, me_closing>>
          /\ me_closes' = IF me_rt = 0 THEN me_closes ELSE [me_closes EXCEPT ![me_rt] = @ + 1]
      BY <1>7 DEF Memory!Shutdown
    <3>3. me_rt # 0 => me_rt \in 1..me_made /\ me_rt \in 1..me_MaxApplies
      BY <3>1
    <3>4. \A r \in 1..me_MaxApplies : me_closes'[r] = IF r = me_rt THEN me_closes[r] + 1 ELSE me_closes[r]
      BY <3>1, <3>2
    <3>5. me_closes' \in [1..me_MaxApplies -> Nat]
      BY <3>1, <3>2, <3>3
    <3>6. \A r \in 1..me_made : r \in 1..me_MaxApplies
      BY <3>1
    <3>7. \A r \in 1..me_made : me_closes'[r] = IF r \in me_closing THEN 0 ELSE 1
      BY <3>1, <3>4, <3>6
    <3>8. \A r \in 1..me_MaxApplies : r > me_made => me_closes'[r] = 0
      BY <3>1, <3>3, <3>4
    <3>9. Memory!ShadowsAreClosedOnce'
      <4>1. 0 \notin me_closing /\ \A r \in 1..me_made : r # 0
        BY <3>1
      <4> QED BY <3>2, <3>7, <4>1 DEF Memory!ShadowsAreClosedOnce
    <3> QED BY <3>1, <3>2, <3>5, <3>8, <3>9 DEF RuntimesInv
  <2> QED BY <1>2, <1>3, <1>4, <2>1 DEF MemoryInv
<1> QED BY <1>5, <1>6, <1>7

\* The rest of Apply, and the goroutine that closes what an Apply replaced.
LEMMA ApplyStep ==
  ASSUME Memory!MemoryAssumption, MemoryInv, Memory!BuildPrompt \/ Memory!ApplyFails \/ Memory!CloseOld
  PROVE  MemoryInv'
<1>1. UNCHANGED <<me_now, me_longTerm, me_shadows, me_journal, me_next, me_pass, me_reviewed, me_upset>>
  BY DEF Memory!BuildPrompt, Memory!ApplyFails, Memory!CloseOld, Memory!passVars
<1>2. KnowledgeInv'
  BY <1>1 DEF Memory!BuildPrompt, Memory!ApplyFails, Memory!CloseOld, Memory!applyVars, MemoryInv,
     KnowledgeInv
<1>3. TickerInv' /\ DueInv'
  BY <1>1 DEF MemoryInv, TickerInv, DueInv, Memory!Fits, Memory!DayOf, Memory!Leaves
<1>4. RuntimesInv'
  <2>1. CASE Memory!BuildPrompt
    BY <2>1 DEF Memory!BuildPrompt, Memory!runtimeVars, MemoryInv, RuntimesInv, Memory!ShadowsAreClosedOnce
  <2>2. CASE Memory!ApplyFails
    BY <2>2, MemoryFacts DEF Memory!ApplyFails, Memory!runtimeVars, MemoryInv, RuntimesInv,
       Memory!ShadowsAreClosedOnce
  <2>3. CASE Memory!CloseOld
    <3>1. PICK r \in me_closing : /\ me_closing' = me_closing \ {r}
                                     /\ me_closes' = [me_closes EXCEPT ![r] = @ + 1]
                                  /\ UNCHANGED <<Memory!applyVars, me_made, me_rt>>
      BY <2>3 DEF Memory!CloseOld
    <3>2. r \in 1..me_made /\ r \in 1..me_MaxApplies /\ me_closes \in [1..me_MaxApplies -> Nat]
      BY MemoryFacts DEF MemoryInv, RuntimesInv
    <3>3. me_closes' \in [1..me_MaxApplies -> Nat] /\ me_closes'[r] = me_closes[r] + 1
          /\ \A s \in 1..me_MaxApplies \ {r} : me_closes'[s] = me_closes[s]
      BY <3>1, <3>2
    <3>4. \A x \in 1..me_MaxApplies : x > me_made => me_closes'[x] = 0
      BY <3>2, <3>3, MemoryFacts DEF MemoryInv, RuntimesInv
    <3>5. me_closing' \subseteq 1..me_made' /\ me_rt' \notin me_closing' /\ r # me_rt
          /\ UNCHANGED <<me_gateway, me_applies, me_made, me_rt>>
      BY <3>1 DEF Memory!applyVars, MemoryInv, RuntimesInv, Memory!ShadowsAreClosedOnce
    <3>6. ASSUME NEW x \in 1..me_made PROVE me_closes'[x] = (IF x \in me_closing' \/ x = me_rt' THEN 0 ELSE 1)
      <4>1. x \in 1..me_MaxApplies /\ me_closes[x] = (IF x \in me_closing \/ x = me_rt THEN 0 ELSE 1)
        BY <3>6, MemoryFacts DEF MemoryInv, RuntimesInv, Memory!ShadowsAreClosedOnce
      <4> QED BY <3>1, <3>2, <3>3, <3>5, <4>1
    <3> QED BY <3>3, <3>4, <3>5, <3>6 DEF MemoryInv, RuntimesInv, Memory!ShadowsAreClosedOnce
  <2> QED BY <2>1, <2>2, <2>3
<1> QED BY <1>2, <1>3, <1>4 DEF MemoryInv

\* The shadow of a turn; what it writes is in time for the next tick.
LEMMA ShadowStep ==
  ASSUME Memory!MemoryAssumption, MemoryInv,
         \/ \E f \in me_Facts : Memory!TurnCompletes(f)
         \/ \E s \in DOMAIN me_shadows : Memory!TakeRuntime(s) \/ Memory!Search(s) \/ Memory!Remember(s) \/ Memory!ShadowFails(s)
  PROVE  MemoryInv'
<1>1. UNCHANGED <<me_now, Memory!applyVars, me_longTerm, Memory!runtimeVars, Memory!passVars>>
  BY DEF Memory!TurnCompletes, Memory!TakeRuntime, Memory!Search, Memory!Remember, Memory!ShadowFails
<1>2. RuntimesInv'
  BY <1>1 DEF Memory!applyVars, Memory!runtimeVars, MemoryInv, RuntimesInv, Memory!ShadowsAreClosedOnce
<1>3. ASSUME NEW f \in me_Facts, Memory!TurnCompletes(f) PROVE MemoryInv'
  <2>1. me_shadows' \in Seq(Shadow) /\ me_journal' = me_journal
    <3>1. [fact |-> f, at |-> "event", rt |-> 0] \in Shadow
      BY DEF Shadow
    <3> QED BY <1>3, <3>1, LineAdded DEF Memory!TurnCompletes, MemoryInv, KnowledgeInv
  <2> QED BY <1>1, <1>2, <2>1 DEF Memory!applyVars, Memory!passVars, MemoryInv, KnowledgeInv, TickerInv,
             DueInv, Memory!Fits, Memory!DayOf, Memory!Leaves
<1>4. ASSUME NEW s \in DOMAIN me_shadows,
             Memory!TakeRuntime(s) \/ Memory!Search(s) \/ Memory!Remember(s) \/ Memory!ShadowFails(s)
      PROVE  me_shadows' \in Seq(Shadow)
  <2>1. me_shadows[s] \in Shadow /\ me_rt \in Nat
    BY MemoryFacts DEF MemoryInv, RuntimesInv
  <2> DEFINE States == {"event", "search", "remember", "done"}
  <2>2. \A at \in States : /\ [me_shadows[s] EXCEPT !.at = at] \in Shadow
                           /\ [me_shadows[s] EXCEPT !.rt = me_rt, !.at = at] \in Shadow
    BY <2>1 DEF Shadow
  <2>3. ASSUME NEW e \in Shadow, me_shadows' = [me_shadows EXCEPT ![s] = e] PROVE me_shadows' \in Seq(Shadow)
    BY <2>3, ItemChanged DEF MemoryInv, KnowledgeInv
  <2>4. CASE Memory!TakeRuntime(s)
    <3> DEFINE to == IF me_rt = 0 THEN "done" ELSE "search"
    <3>1. me_shadows' = [me_shadows EXCEPT ![s] = [me_shadows[s] EXCEPT !.rt = me_rt, !.at = to]]
          /\ to \in States
      BY <2>4 DEF Memory!TakeRuntime
    <3> HIDE DEF to, States
    <3>2. [me_shadows[s] EXCEPT !.rt = me_rt, !.at = to] \in Shadow
      BY <2>2, <3>1
    <3> QED BY <2>3, <3>1, <3>2
  <2>5. CASE Memory!Search(s) \/ Memory!Remember(s) \/ Memory!ShadowFails(s)
    <3>1. \E at \in States : me_shadows' = [me_shadows EXCEPT ![s] = [me_shadows[s] EXCEPT !.at = at]]
      <4>1. CASE Memory!Search(s)
        <5>1. PICK to \in {"done", "remember"} : me_shadows' = [me_shadows EXCEPT ![s] = [me_shadows[s] EXCEPT !.at = to]]
          BY <4>1 DEF Memory!Search
        <5> QED BY <5>1
      <4>2. CASE Memory!Remember(s) \/ Memory!ShadowFails(s)
        <5>1. me_shadows' = [me_shadows EXCEPT ![s] = [me_shadows[s] EXCEPT !.at = "done"]]
          BY <4>2 DEF Memory!Remember, Memory!ShadowFails
        <5> QED BY <5>1
      <4> QED BY <2>5, <4>1, <4>2
    <3> HIDE DEF States
    <3>2. PICK at \in States : me_shadows' = [me_shadows EXCEPT ![s] = [me_shadows[s] EXCEPT !.at = at]]
      BY <3>1
    <3>3. [me_shadows[s] EXCEPT !.at = at] \in Shadow
      BY <2>2
    <3> QED BY <2>3, <3>2, <3>3
  <2> QED BY <1>4, <2>4, <2>5
<1>5. ASSUME NEW s \in DOMAIN me_shadows, Memory!TakeRuntime(s) \/ Memory!Search(s) \/ Memory!ShadowFails(s)
      PROVE  MemoryInv'
  <2>1. me_journal' = me_journal
    BY <1>5 DEF Memory!TakeRuntime, Memory!Search, Memory!ShadowFails
  <2> QED BY <1>1, <1>2, <1>4, <1>5, <2>1
          DEF Memory!applyVars, Memory!passVars, MemoryInv, KnowledgeInv, TickerInv, DueInv, Memory!Fits,
          Memory!DayOf, Memory!Leaves
<1>6. ASSUME NEW s \in DOMAIN me_shadows, Memory!Remember(s) PROVE MemoryInv'
  <2> DEFINE line == [fact |-> me_shadows[s].fact, at |-> me_now]
  <2>1. line \in Line
    BY MemoryFacts DEF Line, Shadow
  <2>2. me_journal' = Append(me_journal, line)
    BY <1>6 DEF Memory!Remember
  <2>3. /\ me_journal' \in Seq(Line) /\ DOMAIN me_journal' = DOMAIN me_journal \cup {Len(me_journal) + 1}
        /\ \A i \in DOMAIN me_journal : me_journal'[i] = me_journal[i]
        /\ me_journal'[Len(me_journal) + 1] = line
    BY <2>1, <2>2, LineAdded DEF MemoryInv, KnowledgeInv
  <2>4. DOMAIN me_journal = 1..Len(me_journal) /\ Len(me_journal) \in Nat
    BY LinesOf DEF MemoryInv, KnowledgeInv
  <2>5. KnowledgeInv'
    BY <1>1, <1>4, <1>6, <2>3 DEF Memory!applyVars, Memory!passVars, MemoryInv, KnowledgeInv
  <2>6. TickerInv'
    BY <1>1, <2>3, MemoryFacts DEF Memory!passVars, MemoryInv, TickerInv
  <2>7. DueInv'
    <3> SUFFICES ASSUME NEW i \in DOMAIN me_journal', Memory!Fits(i)', me_next # 0,
                        me_upset <= me_journal'[i].at,
                        me_journal'[i].at + me_Interval <= Memory!Leaves(i)'
                 PROVE  i \in me_reviewed \cup me_pass.lines \/ me_next <= me_journal'[i].at + me_Interval
      BY <1>1 DEF Memory!passVars, DueInv
    <3>1. CASE i \in DOMAIN me_journal
      <4>1. \A j \in 1..i : j \in DOMAIN me_journal /\ me_journal'[j] = me_journal[j]
        BY <2>3, <2>4, <3>1
      <4>2. {j \in 1..i : Memory!DayOf(me_journal'[j].at) = Memory!DayOf(me_journal'[i].at)}
              = {j \in 1..i : Memory!DayOf(me_journal[j].at) = Memory!DayOf(me_journal[i].at)}
        BY <2>3, <3>1, <4>1
      <4>3. Memory!Fits(i)
        BY <4>2 DEF Memory!Fits, Memory!DayOf
      <4>4. me_journal[i].at + me_Interval <= Memory!Leaves(i)
        BY <2>3, <3>1 DEF Memory!Leaves, Memory!DayOf
      <4> QED BY <2>3, <3>1, <4>3, <4>4 DEF MemoryInv, DueInv
    <3>2. CASE i = Len(me_journal) + 1
      BY <2>3, <3>2, MemoryFacts DEF MemoryInv, TickerInv
    <3> QED BY <2>3, <3>1, <3>2
  <2> QED BY <1>2, <2>5, <2>6, <2>7 DEF MemoryInv
<1> QED BY <1>3, <1>5, <1>6

\* A tick reads whatever is due, or is itself an upset.
LEMMA TickStep == ASSUME Memory!MemoryAssumption, MemoryInv, Memory!Tick PROVE MemoryInv'
<1>1. /\ me_next # 0 /\ me_now = me_next /\ me_next' = me_now + me_Interval
      /\ UNCHANGED <<me_now, Memory!applyVars, me_longTerm, Memory!runtimeVars, me_shadows, me_journal,
                     me_reviewed>>
  BY DEF Memory!Tick
<1>2. RuntimesInv'
  BY <1>1 DEF Memory!applyVars, Memory!runtimeVars, MemoryInv, RuntimesInv, Memory!ShadowsAreClosedOnce
<1>3. CASE me_pass.at # "none"
  <2>1. me_upset' = me_now /\ me_pass' = me_pass
    BY <1>3 DEF Memory!Tick
  <2>2. DueInv'
    BY <1>1, <2>1, UpsetExcuses
  <2>3. TickerInv' /\ KnowledgeInv'
    BY <1>1, <2>1, MemoryFacts DEF Memory!applyVars, MemoryInv, TickerInv, KnowledgeInv
  <2> QED BY <1>2, <2>2, <2>3 DEF MemoryInv
<1>4. CASE me_pass.at = "none"
  <2> DEFINE files == {Memory!DayOf(me_journal[i].at) : i \in {j \in DOMAIN me_journal : Memory!InReview(j)}}
             lines(read) == {i \in DOMAIN me_journal : Memory!InReview(i) /\ Memory!Fits(i) /\ Memory!DayOf(me_journal[i].at) \in read}
  <2>1. PICK read \in SUBSET files :
          /\ me_pass' = IF lines(read) = {}
             THEN Memory!NoPass ELSE [at |-> "prompt", lines |-> lines(read), knows |-> {}]
          /\ me_upset' = IF read = files THEN me_upset ELSE me_now
    BY <1>4 DEF Memory!Tick
  <2>2. me_pass' \in [at : {"none", "prompt", "turn"}, lines : SUBSET DOMAIN me_journal, knows : SUBSET me_Facts]
        /\ me_pass'.lines = lines(read)
    BY <2>1 DEF Memory!NoPass
  <2>3. TickerInv' /\ KnowledgeInv'
    <3> HIDE DEF files, lines
    <3>1. me_upset' \in {me_upset, me_now} /\ (me_pass'.at = "none" => me_pass'.lines = {})
      BY <2>1 DEF Memory!NoPass
    <3>2. TickerInv'
      BY <1>1, <3>1, MemoryFacts DEF Memory!applyVars, MemoryInv, TickerInv
    <3>3. KnowledgeInv'
      BY <1>1, <2>2, <3>1 DEF Memory!applyVars, MemoryInv, KnowledgeInv
    <3> QED BY <3>2, <3>3
  <2>4. ASSUME read = files PROVE DueInv'
    <3>1. me_journal' = me_journal /\ me_upset' = me_upset
      BY <1>1, <2>1, <2>4
    <3>2. \A i \in DOMAIN me_journal : Memory!Fits(i)' = Memory!Fits(i)
          /\ Memory!Leaves(i)' = Memory!Leaves(i)
      BY <3>1 DEF Memory!Fits, Memory!DayOf, Memory!Leaves
    <3> SUFFICES ASSUME NEW i \in DOMAIN me_journal', Memory!Fits(i)', me_next' # 0,
                        me_upset' <= me_journal'[i].at,
                        me_journal'[i].at + me_Interval <= Memory!Leaves(i)'
                 PROVE  i \in me_reviewed' \cup me_pass'.lines \/ me_next' <= me_journal'[i].at + me_Interval
      BY DEF DueInv
    <3>3. i \in DOMAIN me_journal /\ Memory!Fits(i) /\ me_upset <= me_journal[i].at
          /\ me_journal[i].at + me_Interval <= Memory!Leaves(i)
      BY <3>1, <3>2
    <3>4. CASE i \in me_pass.lines
      BY <1>4, <3>4 DEF MemoryInv, KnowledgeInv
    <3>5. CASE me_next <= me_journal[i].at + me_Interval
      <4>1. Memory!InReview(i)
        BY <1>1, <3>3, <3>5, StaysInReview
      <4>2. Memory!DayOf(me_journal[i].at) \in files
        BY <3>3, <4>1
      <4> QED BY <2>2, <2>4, <3>3, <4>1, <4>2
    <3> QED BY <1>1, <3>3, <3>4, <3>5 DEF MemoryInv, DueInv
  <2>5. ASSUME read # files PROVE DueInv'
    BY <1>1, <2>1, <2>5, UpsetExcuses
  <2> QED BY <1>2, <2>3, <2>4, <2>5 DEF MemoryInv
<1> QED BY <1>3, <1>4

\* The turn of a pass.
LEMMA PassStep ==
  ASSUME Memory!MemoryAssumption, MemoryInv, Memory!PassBegins \/ Memory!PassEnds \/ Memory!PassFails
  PROVE  MemoryInv'
<1>1. UNCHANGED <<me_now, Memory!applyVars, Memory!runtimeVars, me_shadows, me_journal, me_next>>
  BY DEF Memory!PassBegins, Memory!PassEnds, Memory!PassFails
<1>2. RuntimesInv'
  BY <1>1 DEF Memory!applyVars, Memory!runtimeVars, MemoryInv, RuntimesInv, Memory!ShadowsAreClosedOnce
<1>3. me_pass \in [at : {"none", "prompt", "turn"}, lines : SUBSET DOMAIN me_journal, knows : SUBSET me_Facts]
  BY DEF MemoryInv, KnowledgeInv
<1>4. CASE Memory!PassBegins
  <2>1. me_pass' = [me_pass EXCEPT !.at = "turn", !.knows = me_known]
        /\ UNCHANGED <<me_longTerm, me_reviewed, me_upset>>
    BY <1>4 DEF Memory!PassBegins
  <2>2. me_known \subseteq me_Facts
    BY DEF MemoryInv, KnowledgeInv
  <2>3. me_pass' \in [at : {"none", "prompt", "turn"}, lines : SUBSET DOMAIN me_journal, knows : SUBSET me_Facts]
        /\ me_pass'.lines = me_pass.lines
    BY <1>3, <2>1, <2>2
  <2> QED BY <1>1, <1>2, <2>1, <2>3 DEF Memory!applyVars, MemoryInv, KnowledgeInv, TickerInv, DueInv,
             Memory!Fits, Memory!DayOf, Memory!Leaves
<1>5. CASE Memory!PassEnds
  <2>1. me_reviewed' = me_reviewed \cup me_pass.lines /\ me_pass' = Memory!NoPass /\ me_upset' = me_upset
    BY <1>5 DEF Memory!PassEnds
  <2>2. me_longTerm' \subseteq me_Facts
    <3>1. {me_journal[i].fact : i \in me_pass.lines} \subseteq me_Facts
      BY <1>3, MemoryFacts DEF Line
    <3> QED BY <1>3, <1>5, <3>1 DEF Memory!PassEnds, MemoryInv, KnowledgeInv
  <2>3. KnowledgeInv'
    BY <1>1, <1>3, <2>1, <2>2 DEF Memory!applyVars, MemoryInv, KnowledgeInv, Memory!NoPass
  <2>4. me_reviewed' \cup me_pass'.lines = me_reviewed \cup me_pass.lines
    BY <2>1 DEF Memory!NoPass
  <2>5. DueInv' /\ TickerInv'
    BY <1>1, <2>1, <2>4 DEF MemoryInv, TickerInv, DueInv, Memory!Fits, Memory!DayOf, Memory!Leaves
  <2> QED BY <1>2, <2>3, <2>5 DEF MemoryInv
<1>6. CASE Memory!PassFails
  <2>1. me_pass' = Memory!NoPass /\ me_upset' = me_now /\ UNCHANGED <<me_longTerm, me_reviewed>>
    BY <1>6 DEF Memory!PassFails
  <2>2. DueInv'
    BY <1>1, <2>1, UpsetExcuses
  <2>3. TickerInv' /\ KnowledgeInv'
    BY <1>1, <2>1, MemoryFacts DEF Memory!applyVars, MemoryInv, TickerInv, KnowledgeInv, Memory!NoPass
  <2> QED BY <1>2, <2>2, <2>3 DEF MemoryInv
<1> QED BY <1>4, <1>5, <1>6

LEMMA MemoryKeeps ==
  ASSUME Memory!MemoryAssumption
  PROVE  MemoryInv /\ [Memory!Next]_(Memory!vars) => MemoryInv'
<1> SUFFICES ASSUME MemoryInv, [Memory!Next]_(Memory!vars) PROVE MemoryInv'
  OBVIOUS
<1>1. CASE Memory!StopTriggers \/ Memory!Reload \/ Memory!Shutdown
  BY <1>1, TriggersStep
<1>2. CASE Memory!BuildPrompt \/ Memory!ApplyFails \/ Memory!CloseOld
  BY <1>2, ApplyStep
<1>3. CASE \/ \E f \in me_Facts : Memory!TurnCompletes(f)
           \/ \E s \in DOMAIN me_shadows : Memory!TakeRuntime(s) \/ Memory!Search(s) \/ Memory!Remember(s) \/ Memory!ShadowFails(s)
  BY <1>3, ShadowStep
<1>4. CASE Memory!Tick
  BY <1>4, TickStep
<1>5. CASE Memory!PassBegins \/ Memory!PassEnds \/ Memory!PassFails
  BY <1>5, PassStep
<1>6. CASE Memory!Clock
  <2>1. /\ me_now < me_MaxTime /\ me_now' = me_now + 1 /\ (me_next # 0 => me_now < me_next)
        /\ UNCHANGED <<Memory!applyVars, me_longTerm, Memory!runtimeVars, me_shadows, me_journal,
                       Memory!passVars>>
    BY <1>6 DEF Memory!Clock
  <2>2. KnowledgeInv' /\ RuntimesInv'
    BY <2>1 DEF Memory!applyVars, Memory!runtimeVars, Memory!passVars, MemoryInv, KnowledgeInv, RuntimesInv,
       Memory!ShadowsAreClosedOnce
  <2>3. DueInv'
    BY <2>1 DEF Memory!passVars, MemoryInv, DueInv, Memory!Fits, Memory!DayOf, Memory!Leaves
  <2>4. TickerInv'
    BY <2>1, MemoryFacts DEF Memory!passVars, MemoryInv, TickerInv
  <2> QED BY <2>2, <2>3, <2>4 DEF MemoryInv
<1>7. CASE UNCHANGED Memory!vars
  BY <1>7 DEF Memory!vars, MemoryInv, KnowledgeInv, RuntimesInv, Memory!ShadowsAreClosedOnce, TickerInv,
     DueInv, Memory!Fits, Memory!DayOf, Memory!Leaves
<1> QED BY <1>1, <1>2, <1>3, <1>4, <1>5, <1>6, <1>7 DEF Memory!Next

-----------------------------------------------------------------------------
(* The theorem *)

\* The memory, for any conversations, restarts and failures: each shadow runtime is closed once, and
\* a line of the journal comes before a pass while its day is in the window, if that is an interval
\* or more.
THEOREM MemoryKept == ASSUME Memory!MemoryAssumption PROVE Memory!Spec => []Memory!MemoryIsLookedAfter
<1>1. Memory!Init => MemoryInv
  BY MemoryInit
<1>2. MemoryInv /\ [Memory!Next]_(Memory!vars) => MemoryInv'
  BY MemoryKeeps
<1>3. MemoryInv => Memory!MemoryIsLookedAfter
  BY MemoryInvIsEnough
<1> QED BY <1>1, <1>2, <1>3, PTL DEF Memory!Spec

\* An interval of a day less than the window, less what the clock is behind UTC, leaves no line out.
THEOREM NoLineIsLeftOut ==
  ASSUME Memory!MemoryAssumption, me_Interval + me_Day + me_Behind <= me_ReviewDays * me_Day + 1
  PROVE  Memory!Spec => []Memory!EveryLineIsReviewed
<1>1. Memory!Init => MemoryInv
  BY MemoryInit
<1>2. MemoryInv /\ [Memory!Next]_(Memory!vars) => MemoryInv'
  BY MemoryKeeps
<1>3. MemoryInv => Memory!EveryLineIsReviewed
  BY MemoryInvIsEnough, EveryLineHasTime DEF Memory!MemoryIsLookedAfter, Memory!ReviewedInTime,
     Memory!EveryLineIsReviewed
<1> QED BY <1>1, <1>2, <1>3, PTL DEF Memory!Spec

-----------------------------------------------------------------------------
(* In the composition, as it is model-checked.                             *)

\* A behaviour of the components is one of Session's.
LEMMA SessionRuns == Spec => Session!Spec
<1>1. Init => Session!Init
  BY DEF Init
<1>2. [Next]_vars => [Session!Next]_(Session!vars)
  BY DEF Next, vars, se_vars, Session!vars, Session!fileVars, Session!turnVars, Session!countVars, Session!userVars
<1> QED BY <1>1, <1>2, PTL DEF Spec, Session!Spec

\* sessions: what the run checks of the router, the histories and the seeds.
THEOREM SessionsHistory == Spec => []SessionsKeepTheirHistory
<1>1. Session!SessionsKeepTheirHistory => SessionsKeepTheirHistory
  BY DEF SessionsKeepTheirHistory
<1>2. Session!Spec => []Session!SessionsKeepTheirHistory
  BY HistoryKept, ComponentsAssumption
<1> QED BY <1>1, <1>2, SessionRuns, PTL

\* A behaviour of the components is one of Memory's.
LEMMA MemoryRuns == Spec => Memory!Spec
<1>1. Init => Memory!Init
  BY DEF Init
<1>2. [Next]_vars => [Memory!Next]_(Memory!vars)
  BY DEF Next, vars, me_vars, Memory!vars, Memory!applyVars, Memory!runtimeVars, Memory!passVars
<1> QED BY <1>1, <1>2, PTL DEF Spec, Memory!Spec

\* memory: what the run checks of the runtimes, the journal and the passes.
THEOREM MemoryLookedAfter == Spec => []MemoryIsLookedAfter
<1>1. Memory!MemoryIsLookedAfter => MemoryIsLookedAfter
  BY DEF MemoryIsLookedAfter
<1>2. Memory!Spec => []Memory!MemoryIsLookedAfter
  BY MemoryKept, ComponentsAssumption
<1> QED BY <1>1, <1>2, MemoryRuns, PTL
=============================================================================
