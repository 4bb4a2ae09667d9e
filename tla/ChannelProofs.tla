---------------------------- MODULE ChannelProofs ---------------------------
(***************************************************************************)
(* Proofs about the channel manager, for any channels, Applies and faults, *)
(* and the web channel: its responses, for any sessions, limits and lives  *)
(* of entries, and its connections, for any number of clients and reloads; *)
(* and the spoken conversations, over the web and at the command line, for *)
(* any frames, turns and lines, and any capacity of their channels.        *)
(***************************************************************************)
EXTENDS MCComponents, Integers, Sequences, FiniteSets, FiniteSetTheorems, WellFoundedInduction, TLAPS

NoChannels == [n \in cm_Names |-> ChannelManager!None]

\* Objects are numbered by their Apply: those of next by the running one, those of channels by an
\* earlier one until next is installed.
ManagerNumbersInv ==
  /\ cm_gen \in 0..cm_MaxApplies
  /\ \A n \in cm_Names : cm_channels[n] <= cm_gen /\ cm_next[n] \in {ChannelManager!None, cm_gen}
  /\ \A o \in cm_stopped : o[2] <= cm_gen
  /\ cm_phase \in {"stop", "subscribe"} => \A n \in cm_Names : cm_channels[n] # ChannelManager!None
     => cm_channels[n] < cm_gen
  /\ cm_phase \in {"idle", "stopAll", "down"} => cm_next = NoChannels
  /\ cm_phase = "start" => cm_channels = cm_next
  /\ cm_phase = "down" => cm_channels = NoChannels

\* How far the loops of Apply and StopAll are.
ProgressInv ==
  /\ cm_phase \in {"stop", "stopAll"} =>
       /\ cm_todo \subseteq ChannelManager!Enabled(cm_channels)
       /\ \A n \in ChannelManager!Enabled(cm_channels) \ cm_todo : <<n, cm_channels[n]>> \in cm_stopped
       /\ \A n \in cm_Names : cm_subs[n] = IF n \in cm_todo THEN cm_channels[n] ELSE ChannelManager!None
  /\ cm_phase = "subscribe" =>
       /\ cm_todo \subseteq ChannelManager!Enabled(cm_next)
          /\ ChannelManager!Of(cm_channels) \subseteq cm_stopped
       /\ \A n \in cm_Names : cm_subs[n] = IF n \in cm_todo THEN ChannelManager!None ELSE cm_next[n]
  /\ cm_phase = "start" => cm_todo \subseteq ChannelManager!Enabled(cm_next)
  /\ cm_phase \in {"start", "idle", "down"} => cm_subs = cm_channels

\* What was stopped holds nothing but a store that did not close; what was not has its store.
ResourcesInv ==
  /\ cm_conn \subseteq ChannelManager!Of(cm_channels) \ cm_stopped
  /\ cm_store \ cm_unclosed \subseteq ChannelManager!Of(cm_channels) \cup ChannelManager!Of(cm_next)
  /\ ChannelManager!Of(cm_channels) \subseteq cm_store \cup cm_stopped
     /\ ChannelManager!Of(cm_next) \subseteq cm_store \ cm_stopped
  /\ cm_stopped \cap cm_store = cm_unclosed

\* The inductive invariant.
ManagerInv == ChannelManager!TypeOK /\ ManagerNumbersInv /\ ProgressInv /\ ResourcesInv

\* What the invariant says of the properties.
LEMMA ManagerInvIsEnough ==
  ASSUME cm_MaxApplies \in Nat, ManagerInv
  PROVE  ChannelManager!ChannelsAreHandedOver
<1>1. ChannelManager!OneConnection
  BY DEF ManagerInv, ResourcesInv, ChannelManager!OneConnection, ChannelManager!Of
<1>2. (cm_store \cup cm_conn) \ cm_unclosed \subseteq ChannelManager!Of(cm_channels) \cup ChannelManager!Of(cm_next)
  BY DEF ManagerInv, ResourcesInv
<1>3. ASSUME cm_phase = "down" PROVE cm_store = cm_unclosed /\ cm_conn = {}
  BY <1>3 DEF ManagerInv, ResourcesInv, ManagerNumbersInv, NoChannels, ChannelManager!Of
<1>4. ChannelManager!Of(cm_subs) \subseteq ChannelManager!Of(cm_channels) \cup ChannelManager!Of(cm_next)
  BY DEF ManagerInv, ChannelManager!TypeOK, ProgressInv, ChannelManager!Of, ChannelManager!Enabled
<1>5. ASSUME cm_phase \in {"idle", "down"} PROVE cm_subs = cm_channels
  BY <1>5 DEF ManagerInv, ProgressInv
<1> QED
  BY <1>1, <1>2, <1>3, <1>4, <1>5 DEF ManagerInv, ChannelManager!ChannelsAreHandedOver,
     ChannelManager!NothingLeaks, ChannelManager!SubscribersAreManaged

\* NewManager: no channels yet.
LEMMA ManagerInit == ASSUME cm_MaxApplies \in Nat PROVE ChannelManager!Init => ManagerInv
  BY DEF ChannelManager!Init, ManagerInv, ChannelManager!TypeOK, ManagerNumbersInv, ProgressInv, ResourcesInv,
     NoChannels, ChannelManager!Of, ChannelManager!Gens, ChannelManager!None

\* Apply builds the next objects: their number is new, so none of them was stopped.
LEMMA BuildKeeps == ASSUME cm_MaxApplies \in Nat, ManagerInv, ChannelManager!Build PROVE ManagerInv'
<1> USE DEF ManagerInv, ChannelManager!None
<1>1. cm_gen' = cm_gen + 1 /\ cm_gen' \in ChannelManager!Gens /\ cm_next = NoChannels
  BY DEF ChannelManager!Build, ManagerNumbersInv, ChannelManager!Gens
<1>2. PICK on \in SUBSET cm_Names : cm_next' = [n \in cm_Names |-> IF n \in on THEN cm_gen' ELSE ChannelManager!None]
  <2>1. PICK all \in SUBSET cm_Names, bad \in SUBSET cm_Names :
           cm_next' = [n \in cm_Names |-> IF n \in all \ bad THEN cm_gen' ELSE ChannelManager!None]
    BY DEF ChannelManager!Build
  <2> QED
    BY <2>1
<1>3. /\ ChannelManager!Of(cm_next') \subseteq cm_Names \X ChannelManager!Gens
         /\ \A o \in ChannelManager!Of(cm_next') : o[2] = cm_gen'
      /\ ChannelManager!Of(cm_next) = {}
  BY <1>1, <1>2 DEF ChannelManager!Of, NoChannels
<1>4. cm_next' \in [cm_Names -> 0..cm_MaxApplies]
  BY <1>1, <1>2 DEF ChannelManager!Gens
<1>5. /\ cm_phase = "idle" /\ cm_phase' = "stop" /\ cm_todo' = ChannelManager!Enabled(cm_channels)
         /\ cm_store' = cm_store \cup ChannelManager!Of(cm_next')
      /\ UNCHANGED <<cm_channels, cm_subs, cm_conn, cm_stopped, cm_unclosed, cm_rootEnds>>
  BY DEF ChannelManager!Build
<1>6. ChannelManager!TypeOK'
  BY <1>1, <1>3, <1>4, <1>5 DEF ChannelManager!TypeOK, ChannelManager!Enabled
<1>7. ManagerNumbersInv'
  BY <1>1, <1>2, <1>5 DEF ManagerNumbersInv, ChannelManager!TypeOK, ChannelManager!Gens
<1>8. ProgressInv'
  BY <1>5 DEF ProgressInv, ChannelManager!TypeOK, ChannelManager!Enabled
<1>9. cm_stopped \cap ChannelManager!Of(cm_next') = {}
  BY <1>1, <1>3 DEF ManagerNumbersInv
<1>10. ChannelManager!Of(cm_channels') = ChannelManager!Of(cm_channels)
  BY <1>5 DEF ChannelManager!Of
<1>11. ResourcesInv'
  BY <1>3, <1>5, <1>9, <1>10 DEF ResourcesInv
<1> QED
  BY <1>6, <1>7, <1>8, <1>11

\* An old object is stopped: it is not one of the next ones.
LEMMA StopOldKeeps ==
  ASSUME cm_MaxApplies \in Nat, ManagerInv, NEW n \in cm_Names, ChannelManager!StopOld(n)
  PROVE  ManagerInv'
<1> DEFINE o == <<n, cm_channels[n]>>
<1> USE DEF ManagerInv, ChannelManager!None
<1>1. /\ cm_phase \in {"stop", "stopAll"} /\ n \in cm_todo /\ o \notin cm_stopped
      /\ cm_stopped' = cm_stopped \cup {o} /\ cm_conn' = cm_conn \ {o}
      /\ \/ cm_store' = cm_store \ {o} /\ UNCHANGED cm_unclosed
         \/ cm_unclosed' = cm_unclosed \cup {o} /\ UNCHANGED cm_store
      /\ UNCHANGED <<cm_phase, cm_gen, cm_channels, cm_next, cm_todo, cm_subs, cm_rootEnds>>
  BY DEF ChannelManager!StopOld, ChannelManager!Stop
<1>2. o \in ChannelManager!Of(cm_channels) /\ o \in cm_Names \X ChannelManager!Gens /\ o[2] = cm_channels[n]
  BY <1>1 DEF ProgressInv, ChannelManager!Enabled, ChannelManager!Of, ChannelManager!TypeOK,
     ChannelManager!Gens
<1>3. o \notin ChannelManager!Of(cm_next) /\ o \in cm_store /\ o \notin cm_unclosed
  <2>1. o \notin ChannelManager!Of(cm_next)
    BY <1>1, <1>2 DEF ManagerNumbersInv, ChannelManager!Of, NoChannels, ChannelManager!TypeOK
  <2> QED
    BY <1>1, <1>2, <2>1 DEF ResourcesInv
<1>4. ChannelManager!Of(cm_channels') = ChannelManager!Of(cm_channels)
      /\ ChannelManager!Of(cm_next') = ChannelManager!Of(cm_next)
  BY <1>1 DEF ChannelManager!Of
<1> HIDE DEF o
<1>5. ChannelManager!TypeOK'
  BY <1>1, <1>2 DEF ChannelManager!TypeOK
<1>6. ManagerNumbersInv'
  BY <1>1, <1>2 DEF ManagerNumbersInv
<1>7. ProgressInv'
  BY <1>1, <1>2 DEF ProgressInv, ChannelManager!Enabled
<1>8. ResourcesInv'
  BY <1>1, <1>2, <1>3, <1>4 DEF ResourcesInv
<1> QED
  BY <1>5, <1>6, <1>7, <1>8

\* Every step of Apply, StopAll and the channels keeps the invariant.
LEMMA ManagerStep ==
  ASSUME cm_MaxApplies \in Nat, ManagerInv, [ChannelManager!Next]_(ChannelManager!vars)
  PROVE  ManagerInv'
<1> USE DEF ManagerInv, ChannelManager!None, ChannelManager!objVars
<1>1. CASE ChannelManager!Build
  BY <1>1, BuildKeeps
<1>2. ASSUME NEW n \in cm_Names, ChannelManager!StopOld(n) PROVE ManagerInv'
  BY <1>2, StopOldKeeps
<1>3. ASSUME NEW n \in cm_Names, ChannelManager!Unsubscribe(n) PROVE ManagerInv'
  <2>1. ChannelManager!TypeOK' /\ ManagerNumbersInv'
    BY <1>3 DEF ChannelManager!Unsubscribe, ChannelManager!TypeOK, ManagerNumbersInv
  <2>2. ProgressInv'
    BY <1>3 DEF ChannelManager!Unsubscribe, ProgressInv, ChannelManager!TypeOK, ChannelManager!Enabled
  <2>3. ResourcesInv'
    BY <1>3 DEF ChannelManager!Unsubscribe, ResourcesInv, ChannelManager!Of
  <2> QED
    BY <2>1, <2>2, <2>3
<1>4. CASE ChannelManager!OldAreStopped
  <2>1. ChannelManager!Of(cm_channels) \subseteq cm_stopped
        /\ \A n \in cm_Names : cm_subs[n] = ChannelManager!None
    BY <1>4 DEF ChannelManager!OldAreStopped, ProgressInv, ChannelManager!Enabled, ChannelManager!Of
  <2>2. ChannelManager!TypeOK' /\ ManagerNumbersInv'
    BY <1>4 DEF ChannelManager!OldAreStopped, ChannelManager!TypeOK, ManagerNumbersInv, ChannelManager!Enabled
  <2>3. ProgressInv'
    BY <1>4, <2>1 DEF ChannelManager!OldAreStopped, ProgressInv, ChannelManager!TypeOK,
       ChannelManager!Enabled, ChannelManager!Of
  <2>4. ResourcesInv'
    BY <1>4 DEF ChannelManager!OldAreStopped, ResourcesInv, ChannelManager!Of
  <2> QED
    BY <2>2, <2>3, <2>4
<1>5. ASSUME NEW n \in cm_Names, ChannelManager!Subscribe(n) PROVE ManagerInv'
  <2>1. ChannelManager!TypeOK' /\ ManagerNumbersInv'
    BY <1>5 DEF ChannelManager!Subscribe, ChannelManager!TypeOK, ManagerNumbersInv
  <2>2. ProgressInv'
    BY <1>5 DEF ChannelManager!Subscribe, ProgressInv, ChannelManager!TypeOK, ChannelManager!Enabled,
       ChannelManager!Of
  <2>3. ResourcesInv'
    BY <1>5 DEF ChannelManager!Subscribe, ResourcesInv, ChannelManager!Of
  <2> QED
    BY <2>1, <2>2, <2>3
<1>6. CASE ChannelManager!Install
  <2>1. /\ cm_phase = "subscribe" /\ cm_todo = {} /\ cm_channels' = cm_next /\ cm_phase' = "start"
           /\ cm_todo' = ChannelManager!Enabled(cm_next)
        /\ UNCHANGED <<cm_gen, cm_next, cm_subs, cm_store, cm_conn, cm_stopped, cm_unclosed, cm_rootEnds,
                       cm_faults>>
    BY <1>6 DEF ChannelManager!Install
  <2>2. \A n \in cm_Names : cm_subs[n] = cm_next[n]
    BY <2>1 DEF ProgressInv
  <2>3. cm_subs = cm_next
    BY <2>2 DEF ChannelManager!TypeOK
  <2>4. ChannelManager!Of(cm_channels) \subseteq cm_stopped
        /\ ChannelManager!Of(cm_channels') = ChannelManager!Of(cm_next)
           /\ ChannelManager!Of(cm_next') = ChannelManager!Of(cm_next)
    BY <2>1 DEF ProgressInv, ChannelManager!Of
  <2>5. ChannelManager!TypeOK' /\ ManagerNumbersInv'
    BY <2>1 DEF ChannelManager!TypeOK, ManagerNumbersInv, ChannelManager!Enabled
  <2>6. ProgressInv'
    BY <2>1, <2>3 DEF ProgressInv, ChannelManager!Enabled
  <2>7. ResourcesInv'
    BY <2>1, <2>4 DEF ResourcesInv
  <2> QED
    BY <2>5, <2>6, <2>7
<1>7. ASSUME NEW n \in cm_Names, ChannelManager!Start(n) PROVE ManagerInv'
  <2>1. /\ cm_phase = "start" /\ n \in cm_todo /\ cm_todo' = cm_todo \ {n}
        /\ cm_conn' \in {cm_conn, cm_conn \cup {<<n, cm_next[n]>>}}
        /\ UNCHANGED <<cm_phase, cm_gen, cm_channels, cm_next, cm_subs, cm_store, cm_stopped, cm_unclosed,
                       cm_rootEnds>>
    BY <1>7 DEF ChannelManager!Start
  <2>2. cm_channels = cm_next /\ <<n, cm_next[n]>> \in ChannelManager!Of(cm_next)
    BY <2>1 DEF ManagerNumbersInv, ProgressInv, ChannelManager!Of, ChannelManager!Enabled
  <2>3. ChannelManager!Of(cm_next) \subseteq cm_Names \X ChannelManager!Gens
    BY DEF ChannelManager!TypeOK, ChannelManager!Of, ChannelManager!Gens
  <2>4. ChannelManager!TypeOK' /\ ManagerNumbersInv'
    BY <2>1, <2>2, <2>3 DEF ChannelManager!TypeOK, ManagerNumbersInv
  <2>5. ProgressInv'
    BY <2>1 DEF ProgressInv, ChannelManager!Enabled
  <2>6. ResourcesInv'
    BY <2>1, <2>2 DEF ResourcesInv, ChannelManager!Of
  <2> QED
    BY <2>4, <2>5, <2>6
<1>8. CASE ChannelManager!Started
  <2>1. /\ cm_phase = "start" /\ cm_phase' = "idle" /\ cm_next' = NoChannels
        /\ UNCHANGED <<cm_gen, cm_channels, cm_todo, cm_subs, cm_store, cm_conn, cm_stopped, cm_unclosed,
                       cm_rootEnds, cm_faults>>
    BY <1>8 DEF ChannelManager!Started, NoChannels
  <2>2. ChannelManager!Of(cm_next) = ChannelManager!Of(cm_channels)
        /\ ChannelManager!Of(cm_channels') = ChannelManager!Of(cm_channels)
           /\ ChannelManager!Of(cm_next') = {}
    BY <2>1 DEF ManagerNumbersInv, ChannelManager!Of, NoChannels
  <2>3. ChannelManager!TypeOK' /\ ManagerNumbersInv'
    BY <2>1 DEF ChannelManager!TypeOK, ManagerNumbersInv, NoChannels
  <2>4. ProgressInv'
    BY <2>1 DEF ProgressInv
  <2>5. ResourcesInv'
    BY <2>1, <2>2 DEF ResourcesInv
  <2> QED
    BY <2>3, <2>4, <2>5
<1>9. CASE ChannelManager!RootEnds
  BY <1>9 DEF ChannelManager!RootEnds, ChannelManager!TypeOK, ManagerNumbersInv, ProgressInv, ResourcesInv,
     ChannelManager!Of, ChannelManager!Enabled
<1>10. ASSUME NEW o \in cm_Names \X ChannelManager!Gens, ChannelManager!Disconnect(o) PROVE ManagerInv'
  BY <1>10 DEF ChannelManager!Disconnect, ChannelManager!TypeOK, ManagerNumbersInv, ProgressInv, ResourcesInv,
     ChannelManager!Of, ChannelManager!Enabled
<1>11. CASE ChannelManager!StopAll
  <2>1. /\ cm_phase = "idle" /\ cm_phase' = "stopAll" /\ cm_todo' = ChannelManager!Enabled(cm_channels)
        /\ UNCHANGED <<cm_gen, cm_channels, cm_next, cm_subs, cm_store, cm_conn, cm_stopped, cm_unclosed,
                       cm_rootEnds, cm_faults>>
    BY <1>11 DEF ChannelManager!StopAll
  <2>2. ChannelManager!TypeOK' /\ ManagerNumbersInv'
    BY <2>1 DEF ChannelManager!TypeOK, ManagerNumbersInv, ChannelManager!Enabled
  <2>3. ProgressInv'
    BY <2>1 DEF ProgressInv, ChannelManager!TypeOK, ChannelManager!Enabled
  <2>4. ResourcesInv'
    BY <2>1 DEF ResourcesInv, ChannelManager!Of
  <2> QED
    BY <2>2, <2>3, <2>4
<1>12. CASE ChannelManager!AllStopped
  <2>1. /\ cm_phase = "stopAll" /\ cm_todo = {} /\ cm_channels' = NoChannels /\ cm_phase' = "down"
        /\ UNCHANGED <<cm_gen, cm_next, cm_todo, cm_subs, cm_store, cm_conn, cm_stopped, cm_unclosed,
                       cm_rootEnds, cm_faults>>
    BY <1>12 DEF ChannelManager!AllStopped, NoChannels
  <2>2. /\ ChannelManager!Of(cm_channels) \subseteq cm_stopped /\ ChannelManager!Of(cm_channels') = {}
           /\ ChannelManager!Of(cm_next) = {} /\ ChannelManager!Of(cm_next') = {}
        /\ \A n \in cm_Names : cm_subs[n] = ChannelManager!None
    BY <2>1 DEF ProgressInv, ManagerNumbersInv, ChannelManager!Enabled, ChannelManager!Of, NoChannels
  <2>3. cm_subs = NoChannels
    BY <2>2 DEF ChannelManager!TypeOK, NoChannels
  <2>4. ChannelManager!TypeOK' /\ ManagerNumbersInv'
    BY <2>1 DEF ChannelManager!TypeOK, ManagerNumbersInv, NoChannels
  <2>5. ProgressInv'
    BY <2>1, <2>3 DEF ProgressInv
  <2>6. ResourcesInv'
    BY <2>1, <2>2 DEF ResourcesInv
  <2> QED
    BY <2>4, <2>5, <2>6
<1>13. CASE UNCHANGED ChannelManager!vars
  BY <1>13 DEF ChannelManager!vars, ChannelManager!TypeOK, ManagerNumbersInv, ProgressInv, ResourcesInv,
     ChannelManager!Of, ChannelManager!Enabled
<1> QED
  BY <1>1, <1>2, <1>3, <1>4, <1>5, <1>6, <1>7, <1>8, <1>9, <1>10, <1>11, <1>12, <1>13 DEF ChannelManager!Next

\* ChannelManager.Apply and StopAll, for any number of channels, reloads and faults: an account is
\* never connected twice, whatever is open is going to be stopped, and the dispatcher never finds a
\* channel that was replaced.
THEOREM HandedOver ==
  ASSUME cm_MaxApplies \in Nat
  PROVE  ChannelManager!Spec => []ChannelManager!ChannelsAreHandedOver
<1>1. ChannelManager!Init => ManagerInv
  BY ManagerInit
<1>2. ManagerInv /\ [ChannelManager!Next]_(ChannelManager!vars) => ManagerInv'
  BY ManagerStep
<1>3. ManagerInv => ChannelManager!ChannelsAreHandedOver
  BY ManagerInvIsEnough
<1> QED
  BY <1>1, <1>2, <1>3, PTL DEF ChannelManager!Spec

-----------------------------------------------------------------------------
Response == [session : rs_Sessions, at : {"streaming", "stored", "completed"}, prev : Nat, on : Nat]

\* Each entry is that of its response, and as old as its last use.
EntriesInv ==
  /\ rs_responses \in Seq(Response)
  /\ rs_entries = [r \in DOMAIN rs_entries |-> [session |-> rs_responses[r].session, ts |-> rs_used[r]]]
  /\ \A r \in DOMAIN rs_used : rs_used[r] \in 1..rs_now
  /\ \A r \in DOMAIN rs_responses : rs_responses[r].at = "streaming" <=> r \notin DOMAIN rs_used

\* The responses of r's channel used as lately as r, or later.
AsRecent(r) == {s \in Responses!Of(rs_used, rs_responses[r].on) \ {r} : rs_used[s] >= rs_used[r]}

\* What the table has forgotten is old, or had to make room for enough others used since.
ForgottenInv ==
  \A r \in DOMAIN rs_used \ DOMAIN rs_entries :
    rs_now - rs_used[r] > rs_TTL \/ Cardinality(AsRecent(r)) >= rs_MaxEntries

\* The inductive invariant.
ResponsesInv == Responses!TypeOK /\ EntriesInv /\ ForgottenInv /\ Responses!ChainsStayInTheirSession

-----------------------------------------------------------------------------
(* The operators the model is built from *)

\* The operators of the library, as the model has them.
LEMMA CardinalityIs == \A S : Responses!Cardinality(S) = Cardinality(S)
  BY DEF Responses!Cardinality, Cardinality, Responses!IsFiniteSet, IsFiniteSet

\* A set of numbers has a least one.
LEMMA LeastIs ==
  ASSUME NEW S \in SUBSET Nat, S # {}
  PROVE  Responses!Min(S) \in S /\ \A m \in S : Responses!Min(S) <= m
<1>1. PICK n \in S : \A m \in S : ~(<<m, n>> \in OpToRel(<, Nat))
  BY NatLessThanWellFounded, WFMin
<1>2. \A m \in S : (m < n) => <<m, n>> \in OpToRel(<, Nat)
  BY Z3 DEF OpToRel
<1>3. \A m \in S : n <= m
  <2> SUFFICES ASSUME NEW m \in S PROVE n <= m
    OBVIOUS
  <2>1. m \in Nat /\ n \in Nat
    OBVIOUS
  <2>2. ~(m < n)
    BY <1>1, <1>2
  <2> QED BY <2>1, <2>2
<1> QED BY <1>3 DEF Responses!Min

\* The members of a sequence, and what appending to it and changing one does.
LEMMA ResponseMembersOf ==
  ASSUME NEW S PROVE \A s \in Seq(S) : /\ Len(s) \in Nat /\ DOMAIN s = 1..Len(s)
                                       /\ \A i \in DOMAIN s : s[i] \in S
  OBVIOUS
LEMMA ResponseAppendIs ==
  ASSUME NEW S
  PROVE  \A s \in Seq(S) : \A e \in S :
           /\ Append(s, e) \in Seq(S) /\ Len(Append(s, e)) = Len(s) + 1
           /\ \A i \in DOMAIN s : Append(s, e)[i] = s[i]
           /\ Append(s, e)[Len(s) + 1] = e
  OBVIOUS
LEMMA ResponseChangeIs ==
  ASSUME NEW S
  PROVE  \A s \in Seq(S) : \A i \in DOMAIN s : \A e \in S :
           /\ [s EXCEPT ![i] = e] \in Seq(S) /\ DOMAIN [s EXCEPT ![i] = e] = DOMAIN s
           /\ \A k \in DOMAIN s : [s EXCEPT ![i] = e][k] = IF k = i THEN e ELSE s[k]
  OBVIOUS

\* What the lemmas below go by.
LEMMA Facts ==
  ASSUME Responses!ResponsesAssumption, ResponsesInv
  PROVE  /\ rs_now \in Nat /\ rs_MaxEntries \in Nat /\ rs_TTL \in Nat
         /\ Len(rs_responses) \in Nat /\ DOMAIN rs_responses = 1..Len(rs_responses)
         /\ \A r \in DOMAIN rs_responses : rs_responses[r] \in Response
         /\ IsFiniteSet(DOMAIN rs_used) /\ IsFiniteSet(DOMAIN rs_entries)
         /\ DOMAIN rs_entries \subseteq DOMAIN rs_used /\ DOMAIN rs_used \subseteq DOMAIN rs_responses
         /\ \A r \in DOMAIN rs_used : rs_used[r] \in Nat /\ rs_used[r] <= rs_now
         /\ \A r \in DOMAIN rs_entries : rs_entries[r].ts = rs_used[r]
            /\ rs_entries[r].session = rs_responses[r].session
         /\ rs_channels \in Nat \ {0} /\ \A r \in DOMAIN rs_responses : rs_responses[r].on \in 1..rs_channels
         /\ \A o \in 1..rs_channels : Cardinality(Responses!Of(rs_entries, o)) <= rs_MaxEntries
<1>1. rs_responses \in Seq(Response)
  BY DEF ResponsesInv, EntriesInv
<1>2. Len(rs_responses) \in Nat /\ DOMAIN rs_responses = 1..Len(rs_responses)
      /\ \A r \in DOMAIN rs_responses : rs_responses[r] \in Response
  BY <1>1, ResponseMembersOf
<1>3. DOMAIN rs_entries \subseteq DOMAIN rs_used /\ DOMAIN rs_used \subseteq DOMAIN rs_responses
      /\ rs_now \in Nat
  BY DEF ResponsesInv, Responses!TypeOK
<1>4. IsFiniteSet(DOMAIN rs_responses)
  BY <1>2, FS_Interval
<1>5. IsFiniteSet(DOMAIN rs_used) /\ IsFiniteSet(DOMAIN rs_entries)
  BY <1>3, <1>4, FS_Subset
<1>6. \A r \in DOMAIN rs_used : rs_used[r] \in Nat /\ rs_used[r] <= rs_now
  BY <1>3 DEF ResponsesInv, EntriesInv
<1>7. \A r \in DOMAIN rs_entries : rs_entries[r].ts = rs_used[r]
      /\ rs_entries[r].session = rs_responses[r].session
  BY DEF ResponsesInv, EntriesInv
<1>8. /\ rs_channels \in Nat \ {0}
      /\ \A r \in DOMAIN rs_responses : rs_responses[r].on \in 1..rs_channels
      /\ \A o \in 1..rs_channels : Cardinality(Responses!Of(rs_entries, o)) <= rs_MaxEntries
  BY CardinalityIs DEF ResponsesInv, Responses!TypeOK, Responses!ChainsStayInTheirSession
<1> QED BY <1>2, <1>3, <1>5, <1>6, <1>7, <1>8 DEF Responses!ResponsesAssumption

\* Time and the use of others make a forgotten response no better.
LEMMA StaysForgotten ==
  ASSUME Responses!ResponsesAssumption, ResponsesInv, rs_now' \in Nat, rs_now <= rs_now',
         IsFiniteSet(DOMAIN rs_used'), DOMAIN rs_used \subseteq DOMAIN rs_used',
         \A s \in DOMAIN rs_used : rs_responses'[s].on = rs_responses[s].on,
         \A s \in DOMAIN rs_used : rs_used'[s] \in Nat /\ rs_used[s] <= rs_used'[s],
         NEW r \in DOMAIN rs_used \ DOMAIN rs_entries, rs_used'[r] = rs_used[r]
  PROVE  rs_now' - rs_used'[r] > rs_TTL \/ Cardinality(AsRecent(r)') >= rs_MaxEntries
<1>1. AsRecent(r) \subseteq AsRecent(r)'
  BY Facts DEF AsRecent, Responses!Of
<1>2. IsFiniteSet(AsRecent(r)')
  BY FS_Subset DEF AsRecent, Responses!Of
<1>3. Cardinality(AsRecent(r)) <= Cardinality(AsRecent(r)')
      /\ Cardinality(AsRecent(r)) \in Nat /\ Cardinality(AsRecent(r)') \in Nat
  BY <1>1, <1>2, FS_Subset, FS_CardinalityType
<1>4. rs_now - rs_used[r] > rs_TTL \/ Cardinality(AsRecent(r)) >= rs_MaxEntries
  BY DEF ResponsesInv, ForgottenInv
<1> QED BY <1>3, <1>4, Facts

\* A response is accepted in its session, with one before it that ran there too.
LEMMA AcceptIs ==
  ASSUME Responses!ResponsesAssumption, ResponsesInv, NEW session \in rs_Sessions, NEW prev \in Nat,
         NEW o \in 1..rs_channels,
         prev = Responses!NoResponse
           \/ (prev \in DOMAIN rs_responses /\ rs_responses[prev].session = session /\ rs_responses[prev].on = o),
         Responses!Accept(session, prev, o)
  PROVE  /\ rs_responses' \in Seq(Response)
            /\ DOMAIN rs_responses' = DOMAIN rs_responses \cup {Len(rs_responses) + 1}
         /\ \A r \in DOMAIN rs_responses : rs_responses'[r] = rs_responses[r]
         /\ rs_responses'[Len(rs_responses) + 1] = [session |-> session, at |-> "streaming", prev |-> prev, on |-> o]
         /\ Len(rs_responses) + 1 \notin DOMAIN rs_responses
<1>1. [session |-> session, at |-> "streaming", prev |-> prev, on |-> o] \in Response
  BY Facts DEF Response
<1>2. rs_responses \in Seq(Response)
  BY DEF ResponsesInv, EntriesInv
<1>3. rs_responses' = Append(rs_responses, [session |-> session, at |-> "streaming", prev |-> prev, on |-> o])
  BY DEF Responses!Accept
<1>4. /\ rs_responses' \in Seq(Response) /\ Len(rs_responses') = Len(rs_responses) + 1
      /\ \A r \in DOMAIN rs_responses : rs_responses'[r] = rs_responses[r]
      /\ rs_responses'[Len(rs_responses) + 1] = [session |-> session, at |-> "streaming", prev |-> prev, on |-> o]
  BY <1>1, <1>2, <1>3, ResponseAppendIs
<1>5. DOMAIN rs_responses' = 1..Len(rs_responses')
  BY <1>4, ResponseMembersOf
<1> QED BY <1>4, <1>5, Facts

\* The parts of the invariant that the new response touches.
LEMMA AcceptKeeps ==
  ASSUME Responses!ResponsesAssumption, ResponsesInv, NEW session \in rs_Sessions, NEW prev \in Nat,
         NEW o \in 1..rs_channels,
         prev = Responses!NoResponse
           \/ (prev \in DOMAIN rs_responses /\ rs_responses[prev].session = session /\ rs_responses[prev].on = o),
         Responses!Accept(session, prev, o), DOMAIN rs_used' = DOMAIN rs_used, rs_channels' = rs_channels
  PROVE  /\ rs_responses' \in Seq(Response) /\ DOMAIN rs_responses \subseteq DOMAIN rs_responses'
         /\ \A r \in DOMAIN rs_responses : rs_responses'[r] = rs_responses[r]
         /\ \A r \in DOMAIN rs_responses' : /\ rs_responses'[r].session \in rs_Sessions
                                               /\ rs_responses'[r].prev < r
                                             /\ rs_responses'[r].on \in 1..rs_channels'
         /\ \A r \in DOMAIN rs_responses' : rs_responses'[r].at = "streaming" <=> r \notin DOMAIN rs_used'
         /\ \A r \in DOMAIN rs_responses' : rs_responses'[r].prev # Responses!NoResponse =>
              /\ rs_responses'[r].session = rs_responses'[rs_responses'[r].prev].session
              /\ rs_responses'[r].on = rs_responses'[rs_responses'[r].prev].on
<1>1. /\ rs_responses' \in Seq(Response)
         /\ DOMAIN rs_responses' = DOMAIN rs_responses \cup {Len(rs_responses) + 1}
      /\ \A r \in DOMAIN rs_responses : rs_responses'[r] = rs_responses[r]
      /\ rs_responses'[Len(rs_responses) + 1] = [session |-> session, at |-> "streaming", prev |-> prev, on |-> o]
      /\ Len(rs_responses) + 1 \notin DOMAIN rs_responses
  BY AcceptIs
<1>2. \A r \in DOMAIN rs_responses : /\ rs_responses[r].session \in rs_Sessions /\ rs_responses[r].prev < r
                                      /\ rs_responses[r].on \in 1..rs_channels
  BY DEF ResponsesInv, Responses!TypeOK
<1>3. prev < Len(rs_responses) + 1
  BY Facts DEF Responses!NoResponse
<1>4. \A r \in DOMAIN rs_responses : rs_responses[r].at = "streaming" <=> r \notin DOMAIN rs_used
  BY DEF ResponsesInv, EntriesInv
<1>5. Len(rs_responses) + 1 \notin DOMAIN rs_used
  BY <1>1, Facts
<1>6. \A r \in DOMAIN rs_responses : rs_responses[r].prev # Responses!NoResponse =>
        /\ rs_responses[r].prev \in DOMAIN rs_responses
        /\ rs_responses[r].session = rs_responses[rs_responses[r].prev].session
        /\ rs_responses[r].on = rs_responses[rs_responses[r].prev].on
  <2>1. \A r \in DOMAIN rs_responses : rs_responses[r].prev \in Nat /\ r \in Nat /\ r <= Len(rs_responses)
    BY Facts DEF Response
  <2> QED BY <1>2, <2>1, Facts DEF ResponsesInv, Responses!ChainsStayInTheirSession, Responses!NoResponse
<1> QED BY <1>1, <1>2, <1>3, <1>4, <1>5, <1>6

-----------------------------------------------------------------------------
(* The steps *)

LEMMA ResponsesInit == ASSUME Responses!ResponsesAssumption PROVE Responses!Init => ResponsesInv
<1> SUFFICES ASSUME Responses!Init PROVE ResponsesInv
  OBVIOUS
<1>1. DOMAIN rs_responses = {} /\ DOMAIN rs_entries = {} /\ DOMAIN rs_used = {} /\ rs_now = 1
  BY DEF Responses!Init
<1>2. rs_responses \in Seq(Response)
      /\ rs_entries = [r \in {} |-> [session |-> rs_responses[r].session, ts |-> rs_used[r]]]
  BY DEF Responses!Init
<1>3. \A o \in 1..rs_channels : Cardinality(Responses!Of(rs_entries, o)) = 0
  BY <1>1, FS_EmptySet DEF Responses!Of
<1> QED
  BY <1>1, <1>2, <1>3, CardinalityIs DEF Responses!Init, ResponsesInv, Responses!TypeOK, EntriesInv, ForgottenInv,
     Responses!ChainsStayInTheirSession,
                          Responses!ResponsesAssumption

\* Without a previous response.
LEMMA PostStep ==
  ASSUME Responses!ResponsesAssumption, ResponsesInv, NEW header \in rs_Sessions, NEW o \in 1..rs_channels,
         Responses!Post(header, o)
  PROVE  ResponsesInv'
<1>1. Responses!Accept(header, Responses!NoResponse, o)
      /\ UNCHANGED <<rs_now, rs_channels, rs_entries, rs_used>> /\ Responses!NoResponse \in Nat
  BY DEF Responses!Post, Responses!NoResponse
<1>2. /\ rs_responses' \in Seq(Response) /\ DOMAIN rs_responses \subseteq DOMAIN rs_responses'
      /\ \A r \in DOMAIN rs_responses : rs_responses'[r] = rs_responses[r]
      /\ \A r \in DOMAIN rs_responses' : /\ rs_responses'[r].session \in rs_Sessions
                                            /\ rs_responses'[r].prev < r
                                          /\ rs_responses'[r].on \in 1..rs_channels'
      /\ \A r \in DOMAIN rs_responses' : rs_responses'[r].at = "streaming" <=> r \notin DOMAIN rs_used'
      /\ \A r \in DOMAIN rs_responses' : rs_responses'[r].prev # Responses!NoResponse =>
           /\ rs_responses'[r].session = rs_responses'[rs_responses'[r].prev].session
           /\ rs_responses'[r].on = rs_responses'[rs_responses'[r].prev].on
  BY <1>1, AcceptKeeps
<1>3. \A r \in DOMAIN rs_entries : r \in DOMAIN rs_responses
  BY Facts
<1>4. Responses!TypeOK'
  BY <1>1, <1>2 DEF ResponsesInv, Responses!TypeOK
<1>5. EntriesInv'
  BY <1>1, <1>2, <1>3 DEF ResponsesInv, EntriesInv
<1>6. ForgottenInv'
  <2>1. \A s \in DOMAIN rs_used : AsRecent(s)' = AsRecent(s)
    BY <1>1, <1>2, Facts DEF AsRecent, Responses!Of
  <2> QED BY <1>1, <2>1 DEF ResponsesInv, ForgottenInv
<1>7. Responses!ChainsStayInTheirSession'
  BY <1>1, <1>2, <1>3, CardinalityIs DEF ResponsesInv, Responses!ChainsStayInTheirSession, Responses!Of
<1> QED BY <1>4, <1>5, <1>6, <1>7 DEF ResponsesInv

\* A known response is used, and perhaps continued.
LEMMA ContinueStep ==
  ASSUME Responses!ResponsesAssumption, ResponsesInv, NEW prev \in DOMAIN rs_responses,
         NEW header \in rs_Sessions \cup {Responses!NoSession}, NEW o \in 1..rs_channels,
         Responses!Continue(prev, header, o)
  PROVE  ResponsesInv'
<1>1. /\ prev \in DOMAIN rs_entries /\ rs_responses[prev].on = o /\ UNCHANGED <<rs_now, rs_channels>>
      /\ rs_entries' = [s \in DOMAIN rs_entries \cup {prev} |->
                       IF s = prev
                       THEN [session |-> rs_entries[prev].session, ts |-> rs_now] ELSE rs_entries[s]]
      /\ rs_used' = [s \in DOMAIN rs_used \cup {prev} |-> IF s = prev THEN rs_now ELSE rs_used[s]]
      /\ Responses!Accept(rs_entries[prev].session, prev, o) \/ rs_responses' = rs_responses
  BY DEF Responses!Continue, Responses!Known, Responses!Put, Responses!UsedNow, Responses!Of
<1>2. prev \in DOMAIN rs_used /\ rs_entries[prev].session = rs_responses[prev].session
      /\ rs_responses[prev].session \in rs_Sessions /\ prev \in Nat
  BY <1>1, Facts DEF Response
<1>3. DOMAIN rs_used' = DOMAIN rs_used /\ DOMAIN rs_entries' = DOMAIN rs_entries
      /\ \A s \in DOMAIN rs_used : rs_used'[s] = IF s = prev THEN rs_now ELSE rs_used[s]
  BY <1>1, <1>2
<1>4. /\ rs_responses' \in Seq(Response) /\ DOMAIN rs_responses \subseteq DOMAIN rs_responses'
      /\ \A r \in DOMAIN rs_responses : rs_responses'[r] = rs_responses[r]
      /\ \A r \in DOMAIN rs_responses' : /\ rs_responses'[r].session \in rs_Sessions
                                            /\ rs_responses'[r].prev < r
                                          /\ rs_responses'[r].on \in 1..rs_channels'
      /\ \A r \in DOMAIN rs_responses' : rs_responses'[r].at = "streaming" <=> r \notin DOMAIN rs_used'
      /\ \A r \in DOMAIN rs_responses' : rs_responses'[r].prev # Responses!NoResponse =>
           /\ rs_responses'[r].session = rs_responses'[rs_responses'[r].prev].session
           /\ rs_responses'[r].on = rs_responses'[rs_responses'[r].prev].on
  <2>1. CASE Responses!Accept(rs_entries[prev].session, prev, o)
    BY <1>1, <1>2, <1>3, <2>1, AcceptKeeps
  <2>2. CASE rs_responses' = rs_responses
    BY <1>1, <1>3, <2>2 DEF ResponsesInv, Responses!TypeOK, EntriesInv, Responses!ChainsStayInTheirSession
  <2> QED BY <1>1, <2>1, <2>2
<1>5. \A s \in DOMAIN rs_used : rs_used'[s] \in Nat /\ rs_used[s] <= rs_used'[s] /\ rs_used'[s] \in 1..rs_now
  BY <1>3, Facts DEF ResponsesInv, EntriesInv
<1>6. rs_entries' = [r \in DOMAIN rs_entries' |-> [session |-> rs_responses'[r].session, ts |-> rs_used'[r]]]
  <2>1. \A r \in DOMAIN rs_entries : rs_entries[r] = [session |-> rs_responses[r].session, ts |-> rs_used[r]]
    BY DEF ResponsesInv, EntriesInv
  <2>2. \A r \in DOMAIN rs_entries : rs_entries'[r] = [session |-> rs_responses'[r].session, ts |-> rs_used'[r]]
    BY <1>1, <1>2, <1>3, <1>4, <2>1, Facts
  <2>3. rs_entries' = [r \in DOMAIN rs_entries' |-> rs_entries'[r]]
    BY <1>1
  <2> QED BY <1>3, <2>2, <2>3
<1>7. Responses!TypeOK'
  <2>1. DOMAIN rs_entries' \subseteq DOMAIN rs_used' /\ DOMAIN rs_used' \subseteq DOMAIN rs_responses'
    BY <1>3, <1>4, Facts
  <2>2. \A r \in DOMAIN rs_entries' : rs_entries'[r].ts \in 1..rs_now'
    BY <1>1, <1>3, <1>5, <1>6, Facts
  <2>3. rs_now' \in 1..rs_MaxTime /\ rs_channels' \in Nat \ {0}
    BY <1>1 DEF ResponsesInv, Responses!TypeOK
  <2> QED BY <1>4, <2>1, <2>2, <2>3 DEF Responses!TypeOK
<1>8. EntriesInv'
  BY <1>1, <1>3, <1>4, <1>5, <1>6 DEF EntriesInv
<1>9. ForgottenInv'
  <2> SUFFICES ASSUME NEW r \in DOMAIN rs_used \ DOMAIN rs_entries
               PROVE  rs_now' - rs_used'[r] > rs_TTL \/ Cardinality(AsRecent(r)') >= rs_MaxEntries
    BY <1>3 DEF ForgottenInv
  <2>1. rs_used'[r] = rs_used[r]
    BY <1>1, <1>3
  <2>2. \A s \in DOMAIN rs_used : rs_responses'[s].on = rs_responses[s].on
    BY <1>4, Facts
  <2> QED BY <1>1, <1>3, <1>5, <2>1, <2>2, Facts, StaysForgotten
<1>10. Responses!ChainsStayInTheirSession'
  <2>1. \A q \in 1..rs_channels : Responses!Of(rs_entries, q)' = Responses!Of(rs_entries, q)
    BY <1>3, <1>4, Facts DEF Responses!Of
  <2> QED BY <1>1, <1>3, <1>4, <1>6, <2>1, Facts, CardinalityIs DEF ResponsesInv, Responses!ChainsStayInTheirSession
<1> QED BY <1>7, <1>8, <1>9, <1>10 DEF ResponsesInv

\* An expired entry goes.
LEMMA ContinueUnknownStep ==
  ASSUME Responses!ResponsesAssumption, ResponsesInv, NEW prev \in DOMAIN rs_responses,
         Responses!ContinueUnknown(prev)
  PROVE  ResponsesInv'
<1>1. /\ prev \in DOMAIN rs_entries /\ rs_now - rs_entries[prev].ts > rs_TTL
         /\ UNCHANGED <<rs_now, rs_channels, rs_responses, rs_used>>
      /\ rs_entries' = [s \in DOMAIN rs_entries \ {prev} |-> rs_entries[s]]
  BY DEF Responses!ContinueUnknown, Responses!Without, Responses!Expired
<1>2. DOMAIN rs_entries' = DOMAIN rs_entries \ {prev}
      /\ \A r \in DOMAIN rs_entries' : rs_entries'[r] = rs_entries[r]
  BY <1>1
<1>3. Responses!TypeOK'
  BY <1>1, <1>2 DEF ResponsesInv, Responses!TypeOK
<1>4. EntriesInv'
  BY <1>1, <1>2 DEF ResponsesInv, EntriesInv
<1>5. ForgottenInv'
  BY <1>1, <1>2, Facts DEF ResponsesInv, ForgottenInv, AsRecent, Responses!Of
<1>6. \A o \in 1..rs_channels : Cardinality(Responses!Of(rs_entries, o)') <= rs_MaxEntries
  <2> SUFFICES ASSUME NEW o \in 1..rs_channels
               PROVE  Cardinality(Responses!Of(rs_entries, o)') <= rs_MaxEntries
    OBVIOUS
  <2>1. Responses!Of(rs_entries, o)' \subseteq Responses!Of(rs_entries, o)
        /\ IsFiniteSet(Responses!Of(rs_entries, o))
    BY <1>1, <1>2, Facts, FS_Subset DEF Responses!Of
  <2> QED BY <2>1, Facts, FS_Subset, FS_CardinalityType
<1>7. Responses!ChainsStayInTheirSession'
  BY <1>1, <1>2, <1>6, Facts, CardinalityIs DEF ResponsesInv, Responses!ChainsStayInTheirSession
<1> QED BY <1>3, <1>4, <1>5, <1>7 DEF ResponsesInv

RoomIsMade(table, mine, kept) ==
  /\ DOMAIN kept \subseteq DOMAIN table
  /\ kept = [s \in DOMAIN kept |-> table[s]]
  /\ Cardinality(mine \cap DOMAIN kept) <= rs_MaxEntries
  /\ \A r \in DOMAIN table \ DOMAIN kept : r \in mine /\ Cardinality(mine \ {r}) = rs_MaxEntries
  /\ \A r \in DOMAIN table \ DOMAIN kept : \A s \in mine : table[r].ts <= table[s].ts

\* Making room in a channel's table drops at most its entry that was used least lately.
LEMMA EvictedIs ==
  ASSUME rs_MaxEntries \in Nat, NEW o, NEW table, table = [s \in DOMAIN table |-> table[s]],
         NEW mine, mine = Responses!Of(table, o), IsFiniteSet(mine), \A s \in mine : table[s].ts \in Nat,
         Cardinality(mine) <= rs_MaxEntries + 1, NEW kept, kept \in Responses!Evicted(table, o)
  PROVE  RoomIsMade(table, mine, kept)
<1>1. Cardinality(mine) \in Nat /\ mine \subseteq DOMAIN table
  BY FS_CardinalityType DEF Responses!Of
<1>2. CASE Cardinality(mine) <= rs_MaxEntries
  <2>1. kept = table
    BY <1>2, CardinalityIs DEF Responses!Evicted
  <2>2. mine \cap DOMAIN kept = mine
    BY <1>1, <2>1
  <2> QED BY <1>2, <2>1, <2>2 DEF RoomIsMade
<1>3. CASE ~(Cardinality(mine) <= rs_MaxEntries)
  <2> DEFINE oldest == Responses!Min({table[s].ts : s \in mine})
  <2>1. PICK r \in mine : table[r].ts = oldest /\ kept = [s \in DOMAIN table \ {r} |-> table[s]]
    BY <1>3, CardinalityIs DEF Responses!Evicted
  <2>2. DOMAIN kept = DOMAIN table \ {r}
    BY <2>1
  <2>3. Cardinality(mine) = rs_MaxEntries + 1
    BY <1>1, <1>3
  <2>4. Cardinality(mine \ {r}) = rs_MaxEntries
    <3>1. Cardinality(mine \ {r}) = Cardinality(mine) - 1
      BY <2>1, FS_RemoveElement
    <3> QED BY <2>3, <3>1
  <2>5. \A s \in mine : oldest <= table[s].ts
    <3>1. {table[s].ts : s \in mine} \in SUBSET Nat /\ {table[s].ts : s \in mine} # {}
      BY <2>1
    <3>2. \A m \in {table[s].ts : s \in mine} : oldest <= m
      BY <3>1, LeastIs
    <3> QED BY <3>2
  <2>6. \A q \in DOMAIN table \ DOMAIN kept : q = r
    BY <2>2
  <2>7. mine \cap DOMAIN kept = mine \ {r}
    BY <1>1, <2>2
  <2>8. DOMAIN kept \subseteq DOMAIN table /\ kept = [s \in DOMAIN kept |-> table[s]]
    BY <2>1, <2>2
  <2> HIDE DEF oldest
  <2>9. \A q \in DOMAIN table \ DOMAIN kept : q \in mine /\ Cardinality(mine \ {q}) = rs_MaxEntries
    BY <2>1, <2>4, <2>6
  <2>10. \A q \in DOMAIN table \ DOMAIN kept : \A s \in mine : table[q].ts <= table[s].ts
    BY <2>1, <2>5, <2>6
  <2>11. Cardinality(mine \cap DOMAIN kept) <= rs_MaxEntries
    <3>1. Cardinality(mine \cap DOMAIN kept) = Cardinality(mine \ {r})
      BY <2>7
    <3>2. Cardinality(mine \cap DOMAIN kept) = rs_MaxEntries
      BY <2>4, <3>1
    <3> QED BY <3>2
  <2> QED BY <2>8, <2>9, <2>10, <2>11 DEF RoomIsMade
<1> QED BY <1>2, <1>3

\* The response is stored, what has expired in its channel goes, and so does the oldest entry there if
\* there are too many; the tables of the other channels stay as they are.
LEMMA StoreStep ==
  ASSUME Responses!ResponsesAssumption, ResponsesInv, NEW r \in DOMAIN rs_responses, Responses!Store(r)
  PROVE  ResponsesInv'
<1> DEFINE o == rs_responses[r].on
           table == Responses!Put(Responses!Pruned(o), r, rs_responses[r].session)
           mine == Responses!Of(table, o)
<1>1. /\ rs_responses[r].at = "streaming" /\ rs_responses' = [rs_responses EXCEPT ![r].at = "stored"]
      /\ rs_entries' \in Responses!Evicted(table, o) /\ UNCHANGED <<rs_now, rs_channels>>
      /\ rs_used' = [s \in DOMAIN rs_used \cup {r} |-> IF s = r THEN rs_now ELSE rs_used[s]]
  BY DEF Responses!Store, Responses!UsedNow
<1>2. r \notin DOMAIN rs_used /\ r \notin DOMAIN rs_entries
  BY <1>1, Facts DEF ResponsesInv, EntriesInv
<1>3. /\ rs_responses' \in Seq(Response) /\ DOMAIN rs_responses' = DOMAIN rs_responses
      /\ \A s \in DOMAIN rs_responses : /\ rs_responses'[s].session = rs_responses[s].session
                                        /\ rs_responses'[s].prev = rs_responses[s].prev
                                        /\ rs_responses'[s].on = rs_responses[s].on
                                        /\ rs_responses'[s].at = IF s = r
                                           THEN "stored" ELSE rs_responses[s].at
  <2>1. rs_responses \in Seq(Response) /\ rs_responses[r] \in Response
    BY Facts DEF ResponsesInv, EntriesInv
  <2>2. [rs_responses[r] EXCEPT !.at = "stored"] \in Response
    BY <2>1 DEF Response
  <2>3. rs_responses' = [rs_responses EXCEPT ![r] = [rs_responses[r] EXCEPT !.at = "stored"]]
    BY <1>1
  <2>4. /\ rs_responses' \in Seq(Response) /\ DOMAIN rs_responses' = DOMAIN rs_responses
        /\ \A s \in DOMAIN rs_responses :
             rs_responses'[s] = IF s = r THEN [rs_responses[r] EXCEPT !.at = "stored"] ELSE rs_responses[s]
    BY <2>1, <2>2, <2>3, ResponseChangeIs
  <2> QED BY <2>1, <2>4 DEF Response
<1>4. /\ DOMAIN table = {s \in DOMAIN rs_entries : rs_responses[s].on = o => ~Responses!Expired(s)} \cup {r}
      /\ table = [s \in DOMAIN table |-> table[s]]
      /\ \A s \in DOMAIN table :
           table[s] = IF s = r THEN [session |-> rs_responses[r].session, ts |-> rs_now] ELSE rs_entries[s]
  BY DEF Responses!Put, Responses!Pruned
<1>5. /\ DOMAIN rs_used' = DOMAIN rs_used \cup {r} /\ rs_used'[r] = rs_now
      /\ \A s \in DOMAIN rs_used : rs_used'[s] = rs_used[s]
  BY <1>1, <1>2
<1>6. \A s \in DOMAIN table : s \in DOMAIN rs_used'
                             /\ table[s] = [session |-> rs_responses'[s].session, ts |-> rs_used'[s]]
  <2>1. \A s \in DOMAIN rs_entries : rs_entries[s] = [session |-> rs_responses[s].session, ts |-> rs_used[s]]
    BY DEF ResponsesInv, EntriesInv
  <2> QED BY <1>2, <1>3, <1>4, <1>5, <2>1, Facts
<1>7. mine = {s \in Responses!Of(rs_entries, o) : ~Responses!Expired(s)} \cup {r}
      /\ mine \subseteq DOMAIN table /\ o \in 1..rs_channels
  BY <1>4, Facts DEF Responses!Of
<1>8. IsFiniteSet(mine) /\ Cardinality(mine) <= rs_MaxEntries + 1
  <2> DEFINE fresh == {s \in Responses!Of(rs_entries, o) : ~Responses!Expired(s)}
  <2>1. IsFiniteSet(Responses!Of(rs_entries, o)) /\ Cardinality(Responses!Of(rs_entries, o)) <= rs_MaxEntries
    BY <1>7, Facts, FS_Subset DEF Responses!Of
  <2>2. IsFiniteSet(fresh) /\ Cardinality(fresh) <= Cardinality(Responses!Of(rs_entries, o))
    BY <2>1, FS_Subset
  <2>3. Cardinality(Responses!Of(rs_entries, o)) \in Nat /\ Cardinality(fresh) \in Nat
    BY <2>1, <2>2, FS_CardinalityType
  <2>4. r \notin fresh
    BY <1>2 DEF Responses!Of
  <2>5. IsFiniteSet(fresh \cup {r}) /\ Cardinality(fresh \cup {r}) = Cardinality(fresh) + 1
    BY <2>2, <2>4, FS_AddElement
  <2>6. mine = fresh \cup {r}
    BY <1>7
  <2> HIDE DEF fresh, mine
  <2> QED BY <2>1, <2>2, <2>3, <2>5, <2>6, Facts
<1>9. \A s \in DOMAIN rs_used' : rs_used'[s] \in 1..rs_now
  <2>1. \A s \in DOMAIN rs_used : rs_used[s] \in 1..rs_now
    BY DEF ResponsesInv, EntriesInv
  <2>2. rs_now \in 1..rs_now
    BY DEF ResponsesInv, Responses!TypeOK
  <2> QED BY <1>5, <2>1, <2>2
<1>10. \A s \in DOMAIN table : table[s].ts \in Nat
  <2> HIDE DEF table
  <2>1. \A s \in DOMAIN table : s \in DOMAIN rs_used' /\ table[s].ts = rs_used'[s]
    BY <1>6
  <2> QED BY <1>9, <2>1, Facts
<1>11. /\ DOMAIN rs_entries' \subseteq DOMAIN table
       /\ rs_entries' = [s \in DOMAIN rs_entries' |-> table[s]]
       /\ Cardinality(mine \cap DOMAIN rs_entries') <= rs_MaxEntries
       /\ \A q \in DOMAIN table \ DOMAIN rs_entries' :
            /\ q \in mine /\ Cardinality(mine \ {q}) = rs_MaxEntries
            /\ \A s \in mine : table[q].ts <= table[s].ts
  <2>1. mine = Responses!Of(table, o)
    OBVIOUS
  <2>2. \A s \in mine : table[s].ts \in Nat
    BY <1>7, <1>10
  <2>3. rs_entries' \in Responses!Evicted(table, o) /\ table = [s \in DOMAIN table |-> table[s]]
        /\ rs_MaxEntries \in Nat
    BY <1>1, <1>4, Facts
  <2>4. RoomIsMade(table, mine, rs_entries')
    <3> HIDE DEF table, mine, o
    <3> QED BY <1>8, <2>1, <2>2, <2>3, EvictedIs
  <2> HIDE DEF table, mine, o
  <2> QED BY <2>4 DEF RoomIsMade
<1>12. \A s \in DOMAIN rs_responses : s \in mine <=> s \in DOMAIN table /\ rs_responses[s].on = o
  BY DEF Responses!Of
<1> HIDE DEF table, mine
<1>13. rs_entries' = [s \in DOMAIN rs_entries' |-> [session |-> rs_responses'[s].session, ts |-> rs_used'[s]]]
  BY <1>6, <1>11
<1>14. Responses!TypeOK'
  <2>1. DOMAIN rs_entries' \subseteq DOMAIN rs_used' /\ DOMAIN rs_used' \subseteq DOMAIN rs_responses'
    BY <1>3, <1>5, <1>6, <1>11, Facts
  <2>2. \A s \in DOMAIN rs_entries' : rs_entries'[s].ts \in 1..rs_now'
    <3>1. \A s \in DOMAIN rs_entries' : s \in DOMAIN rs_used' /\ rs_entries'[s].ts = rs_used'[s]
      BY <1>13, <2>1
    <3> QED BY <1>1, <1>9, <3>1
  <2>3. rs_now' \in 1..rs_MaxTime /\ rs_channels' \in Nat \ {0}
    BY <1>1 DEF ResponsesInv, Responses!TypeOK
  <2>4. \A s \in DOMAIN rs_responses' : /\ rs_responses'[s].session \in rs_Sessions
                                           /\ rs_responses'[s].prev < s
                                        /\ rs_responses'[s].on \in 1..rs_channels'
    BY <1>1, <1>3 DEF ResponsesInv, Responses!TypeOK
  <2> QED BY <2>1, <2>2, <2>3, <2>4 DEF Responses!TypeOK
<1>15. EntriesInv'
  <2>1. \A s \in DOMAIN rs_responses : rs_responses[s].at = "streaming" <=> s \notin DOMAIN rs_used
    BY DEF ResponsesInv, EntriesInv
  <2>2. \A s \in DOMAIN rs_responses' : rs_responses'[s].at = "streaming" <=> s \notin DOMAIN rs_used'
    BY <1>3, <1>5, <2>1
  <2> QED BY <1>1, <1>3, <1>9, <1>13, <2>2 DEF EntriesInv
<1>16. ForgottenInv'
  <2>1. IsFiniteSet(DOMAIN rs_used')
    <3>1. IsFiniteSet(DOMAIN rs_used)
      BY Facts
    <3>2. IsFiniteSet(DOMAIN rs_used \cup {r})
      BY <3>1, FS_AddElement
    <3> QED BY <1>5, <3>2
  <2> SUFFICES ASSUME NEW q \in DOMAIN rs_used' \ DOMAIN rs_entries'
               PROVE  rs_now' - rs_used'[q] > rs_TTL \/ Cardinality(AsRecent(q)') >= rs_MaxEntries
    BY DEF ForgottenInv
  <2>2. CASE q \in DOMAIN table
    <3>1. q \in mine /\ Cardinality(mine \ {q}) = rs_MaxEntries /\ \A s \in mine : table[q].ts <= table[s].ts
      BY <1>11, <2>2
    <3>2. \A s \in mine \ {q} : s \in DOMAIN rs_used' \ {q} /\ rs_used'[s] >= rs_used'[q]
      BY <1>6, <1>7, <1>9, <2>2, <3>1
    <3>3. \A s \in mine : rs_responses'[s].on = o
      <4>1. mine \subseteq DOMAIN rs_responses
        BY <1>5, <1>6, <1>7, Facts
      <4> QED BY <1>3, <1>12, <4>1
    <3>4. mine \ {q} \subseteq AsRecent(q)'
      BY <3>1, <3>2, <3>3 DEF AsRecent, Responses!Of
    <3>5. IsFiniteSet(AsRecent(q)')
      BY <2>1, FS_Subset DEF AsRecent, Responses!Of
    <3>6. Cardinality(mine \ {q}) <= Cardinality(AsRecent(q)') /\ Cardinality(AsRecent(q)') \in Nat
      BY <3>4, <3>5, FS_Subset, FS_CardinalityType
    <3> QED BY <3>1, <3>6, Facts
  <2>3. CASE q \notin DOMAIN table
    <3>1. q # r /\ q \in DOMAIN rs_used
      BY <1>4, <1>5, <2>3
    <3>2. CASE q \in DOMAIN rs_entries
      <4>1. rs_now - rs_entries[q].ts > rs_TTL
        BY <1>4, <2>3, <3>2 DEF Responses!Expired
      <4> QED BY <1>1, <1>5, <3>1, <3>2, <4>1, Facts
    <3>3. CASE q \notin DOMAIN rs_entries
      <4>1. q \in DOMAIN rs_used \ DOMAIN rs_entries /\ rs_used'[q] = rs_used[q]
        BY <1>5, <3>1, <3>3
      <4>2. \A s \in DOMAIN rs_used : rs_used'[s] \in Nat /\ rs_used[s] <= rs_used'[s]
        BY <1>5, Facts
      <4>3. rs_now' \in Nat /\ rs_now <= rs_now' /\ DOMAIN rs_used \subseteq DOMAIN rs_used'
        BY <1>1, <1>5, Facts
      <4>4. \A s \in DOMAIN rs_used : rs_responses'[s].on = rs_responses[s].on
        BY <1>3, Facts
      <4> QED BY <2>1, <4>1, <4>2, <4>3, <4>4, StaysForgotten
    <3> QED BY <3>2, <3>3
  <2> QED BY <2>2, <2>3
<1>17. Responses!ChainsStayInTheirSession'
  <2>1. \A s \in DOMAIN rs_entries' : rs_entries'[s].session = rs_responses'[s].session
    BY <1>13
  <2>2. \A s \in DOMAIN rs_responses' : rs_responses'[s].prev # Responses!NoResponse =>
          /\ rs_responses'[s].session = rs_responses'[rs_responses'[s].prev].session
          /\ rs_responses'[s].on = rs_responses'[rs_responses'[s].prev].on
    <3>1. \A s \in DOMAIN rs_responses : rs_responses[s].prev \in Nat /\ s \in Nat /\ s <= Len(rs_responses)
      BY Facts DEF Response
    <3>2. \A s \in DOMAIN rs_responses : rs_responses[s].prev < s
      BY DEF ResponsesInv, Responses!TypeOK
    <3>3. \A s \in DOMAIN rs_responses : rs_responses[s].prev # Responses!NoResponse =>
            /\ rs_responses[s].prev \in DOMAIN rs_responses
            /\ rs_responses[s].session = rs_responses[rs_responses[s].prev].session
            /\ rs_responses[s].on = rs_responses[rs_responses[s].prev].on
      BY <3>1, <3>2, Facts DEF ResponsesInv, Responses!ChainsStayInTheirSession, Responses!NoResponse
    <3> QED BY <1>3, <3>3
  <2>3. ASSUME NEW q \in 1..rs_channels PROVE Cardinality(Responses!Of(rs_entries, q)') <= rs_MaxEntries
    <3>1. \A s \in DOMAIN rs_entries' : s \in DOMAIN rs_responses /\ s \in DOMAIN table
                                     /\ rs_responses'[s].on = rs_responses[s].on
      BY <1>3, <1>5, <1>6, <1>11, Facts
    <3>2. CASE q = o
      <4>1. Responses!Of(rs_entries, q)' = mine \cap DOMAIN rs_entries'
        BY <1>12, <3>1, <3>2 DEF Responses!Of
      <4> QED BY <1>11, <4>1
    <3>3. CASE q # o
      <4>1. Responses!Of(rs_entries, q)' \subseteq Responses!Of(rs_entries, q)
        <5>1. ASSUME NEW s \in Responses!Of(rs_entries, q)' PROVE s \in Responses!Of(rs_entries, q)
          <6>1. s \in DOMAIN rs_entries' /\ rs_responses'[s].on = q
            BY DEF Responses!Of
          <6>2. rs_responses[s].on = q /\ s # r /\ s \in DOMAIN table
            BY <3>1, <3>3, <6>1 DEF o
          <6> QED BY <1>4, <6>2 DEF Responses!Of
        <5> QED BY <5>1
      <4>2. IsFiniteSet(Responses!Of(rs_entries, q))
            /\ Cardinality(Responses!Of(rs_entries, q)) <= rs_MaxEntries
        BY Facts, FS_Subset DEF Responses!Of
      <4>3. Cardinality(Responses!Of(rs_entries, q)') <= Cardinality(Responses!Of(rs_entries, q))
            /\ Cardinality(Responses!Of(rs_entries, q)') \in Nat
               /\ Cardinality(Responses!Of(rs_entries, q)) \in Nat
        BY <4>1, <4>2, FS_Subset, FS_CardinalityType
      <4> QED BY <4>2, <4>3, Facts
    <3> QED BY <3>2, <3>3
  <2> QED BY <1>1, <2>1, <2>2, <2>3, CardinalityIs DEF Responses!ChainsStayInTheirSession
<1> QED BY <1>14, <1>15, <1>16, <1>17 DEF ResponsesInv

\* The client learns that the response is complete.
LEMMA CompleteStep ==
  ASSUME Responses!ResponsesAssumption, ResponsesInv, NEW r \in DOMAIN rs_responses, Responses!Complete(r)
  PROVE  ResponsesInv'
<1>1. rs_responses[r].at = "stored" /\ rs_responses' = [rs_responses EXCEPT ![r].at = "completed"]
      /\ UNCHANGED <<rs_now, rs_channels, rs_entries, rs_used>>
  BY DEF Responses!Complete
<1>2. /\ rs_responses' \in Seq(Response) /\ DOMAIN rs_responses' = DOMAIN rs_responses
      /\ \A s \in DOMAIN rs_responses : /\ rs_responses'[s].session = rs_responses[s].session
                                        /\ rs_responses'[s].prev = rs_responses[s].prev
                                        /\ rs_responses'[s].on = rs_responses[s].on
                                        /\ rs_responses'[s].at = "streaming" <=> rs_responses[s].at = "streaming"
  <2>1. rs_responses \in Seq(Response) /\ rs_responses[r] \in Response
    BY Facts DEF ResponsesInv, EntriesInv
  <2>2. [rs_responses[r] EXCEPT !.at = "completed"] \in Response
    BY <2>1 DEF Response
  <2>3. rs_responses' = [rs_responses EXCEPT ![r] = [rs_responses[r] EXCEPT !.at = "completed"]]
    BY <1>1
  <2>4. /\ rs_responses' \in Seq(Response) /\ DOMAIN rs_responses' = DOMAIN rs_responses
        /\ \A s \in DOMAIN rs_responses :
             rs_responses'[s] = IF s = r THEN [rs_responses[r] EXCEPT !.at = "completed"] ELSE rs_responses[s]
    BY <2>1, <2>2, <2>3, ResponseChangeIs
  <2> QED BY <1>1, <2>1, <2>4 DEF Response
<1>3. Responses!TypeOK'
  BY <1>1, <1>2 DEF ResponsesInv, Responses!TypeOK
<1>4. EntriesInv'
  BY <1>1, <1>2, Facts DEF ResponsesInv, EntriesInv
<1>5. ForgottenInv'
  <2>1. \A s \in DOMAIN rs_used : rs_responses'[s].on = rs_responses[s].on
    BY <1>2, Facts
  <2>2. \A s \in DOMAIN rs_used : AsRecent(s)' = AsRecent(s)
    BY <1>1, <2>1 DEF AsRecent, Responses!Of
  <2> QED BY <1>1, <2>2 DEF ResponsesInv, ForgottenInv
<1>6. \A s \in DOMAIN rs_responses : rs_responses[s].prev # Responses!NoResponse =>
        /\ rs_responses[s].prev \in DOMAIN rs_responses
        /\ rs_responses[s].session = rs_responses[rs_responses[s].prev].session
        /\ rs_responses[s].on = rs_responses[rs_responses[s].prev].on
  <2>1. \A s \in DOMAIN rs_responses : rs_responses[s].prev \in Nat /\ s \in Nat /\ s <= Len(rs_responses)
    BY Facts DEF Response
  <2>2. \A s \in DOMAIN rs_responses : rs_responses[s].prev < s
    BY DEF ResponsesInv, Responses!TypeOK
  <2> QED BY <2>1, <2>2, Facts DEF ResponsesInv, Responses!ChainsStayInTheirSession, Responses!NoResponse
<1>7. Responses!ChainsStayInTheirSession'
  <2>1. \A q \in 1..rs_channels : Responses!Of(rs_entries, q)' = Responses!Of(rs_entries, q)
    BY <1>1, <1>2, Facts DEF Responses!Of
  <2> QED BY <1>1, <1>2, <1>6, <2>1, Facts, CardinalityIs DEF ResponsesInv, Responses!ChainsStayInTheirSession
<1> QED BY <1>3, <1>4, <1>5, <1>7 DEF ResponsesInv

\* A new channel has no responses yet.
LEMMA ResponseReloadStep ==
  ASSUME Responses!ResponsesAssumption, ResponsesInv, Responses!Reload
  PROVE  ResponsesInv'
<1>1. rs_channels' = rs_channels + 1 /\ UNCHANGED <<rs_now, rs_responses, rs_entries, rs_used>>
  BY DEF Responses!Reload
<1>2. rs_channels \in Nat \ {0} /\ rs_channels' \in Nat \ {0} /\ 1..rs_channels \subseteq 1..rs_channels'
      /\ \A r \in DOMAIN rs_responses : rs_responses[r].on \in 1..rs_channels
  BY <1>1, Facts
<1>3. Responses!TypeOK'
  BY <1>1, <1>2 DEF ResponsesInv, Responses!TypeOK
<1>4. EntriesInv'
  BY <1>1 DEF ResponsesInv, EntriesInv
<1>5. ForgottenInv'
  BY <1>1 DEF ResponsesInv, ForgottenInv, AsRecent, Responses!Of
<1>6. \A q \in 1..rs_channels' : Cardinality(Responses!Of(rs_entries, q)') <= rs_MaxEntries
  <2> SUFFICES ASSUME NEW q \in 1..rs_channels'
               PROVE  Cardinality(Responses!Of(rs_entries, q)') <= rs_MaxEntries
    OBVIOUS
  <2>1. Responses!Of(rs_entries, q)' = Responses!Of(rs_entries, q)
    BY <1>1 DEF Responses!Of
  <2>2. CASE q \in 1..rs_channels
    BY <2>1, <2>2, Facts
  <2>3. CASE q \notin 1..rs_channels
    <3>1. Responses!Of(rs_entries, q) = {}
      BY <1>2, <2>3, Facts DEF Responses!Of
    <3> QED BY <2>1, <3>1, FS_EmptySet, Facts
  <2> QED BY <2>2, <2>3
<1>7. Responses!ChainsStayInTheirSession'
  BY <1>1, <1>6, CardinalityIs DEF ResponsesInv, Responses!ChainsStayInTheirSession
<1> QED BY <1>3, <1>4, <1>5, <1>7 DEF ResponsesInv

LEMMA TickStep == ASSUME Responses!ResponsesAssumption, ResponsesInv, Responses!Tick PROVE ResponsesInv'
<1>1. rs_now < rs_MaxTime /\ rs_now' = rs_now + 1
      /\ UNCHANGED <<rs_channels, rs_responses, rs_entries, rs_used>>
  BY DEF Responses!Tick
<1>2. rs_now \in 1..rs_MaxTime /\ rs_now' \in 1..rs_MaxTime /\ rs_now' \in Nat
  BY <1>1 DEF ResponsesInv, Responses!TypeOK, Responses!ResponsesAssumption
<1>3. Responses!TypeOK'
  BY <1>1, <1>2 DEF ResponsesInv, Responses!TypeOK
<1>4. EntriesInv'
  BY <1>1, <1>2 DEF ResponsesInv, EntriesInv
<1>5. ForgottenInv'
  BY <1>1, <1>2, Facts DEF ResponsesInv, ForgottenInv, AsRecent, Responses!Of
<1>6. Responses!ChainsStayInTheirSession'
  BY <1>1, CardinalityIs DEF ResponsesInv, Responses!ChainsStayInTheirSession, Responses!Of
<1> QED BY <1>3, <1>4, <1>5, <1>6 DEF ResponsesInv

-----------------------------------------------------------------------------
(* The theorem *)

LEMMA ResponsesKeep ==
  ASSUME Responses!ResponsesAssumption
  PROVE  ResponsesInv /\ [Responses!Next]_(Responses!vars) => ResponsesInv'
<1> SUFFICES ASSUME ResponsesInv, [Responses!Next]_(Responses!vars) PROVE ResponsesInv'
  OBVIOUS
<1>1. ASSUME NEW o \in 1..rs_channels, NEW header \in rs_Sessions, Responses!Post(header, o)
      PROVE  ResponsesInv'
  BY <1>1, PostStep
<1>2. ASSUME NEW o \in 1..rs_channels, NEW prev \in DOMAIN rs_responses,
             NEW header \in rs_Sessions \cup {Responses!NoSession}, Responses!Continue(prev, header, o)
      PROVE  ResponsesInv'
  BY <1>2, ContinueStep
<1>3. ASSUME NEW prev \in DOMAIN rs_responses, Responses!ContinueUnknown(prev) PROVE ResponsesInv'
  BY <1>3, ContinueUnknownStep
<1>4. ASSUME NEW r \in DOMAIN rs_responses, Responses!Store(r) PROVE ResponsesInv'
  BY <1>4, StoreStep
<1>5. ASSUME NEW r \in DOMAIN rs_responses, Responses!Complete(r) PROVE ResponsesInv'
  BY <1>5, CompleteStep
<1>6. CASE Responses!Tick
  BY <1>6, TickStep
<1>7. CASE Responses!Reload
  BY <1>7, ResponseReloadStep
<1>8. CASE UNCHANGED Responses!vars
  BY <1>8 DEF Responses!vars, ResponsesInv, Responses!TypeOK, EntriesInv, ForgottenInv, AsRecent,
     Responses!Of, Responses!ChainsStayInTheirSession
<1> QED BY <1>1, <1>2, <1>3, <1>4, <1>5, <1>6, <1>7, <1>8 DEF Responses!Next

\* A response whose last use is recent and not followed by that of MaxEntries others is in the table.
LEMMA ResponsesHold ==
  ASSUME Responses!ResponsesAssumption, ResponsesInv
  PROVE  Responses!ResponsesAreContinued
<1> SUFFICES ASSUME NEW r \in DOMAIN rs_responses, rs_responses[r].at = "completed",
                    rs_now - rs_used[r] <= rs_TTL,
                    Cardinality(AsRecent(r)) < rs_MaxEntries
             PROVE  Responses!Known(rs_responses[r].on, r)
  BY CardinalityIs DEF ResponsesInv, Responses!ResponsesAreContinued, Responses!RecentAreKnown, AsRecent
<1>1. r \in DOMAIN rs_used
  BY DEF ResponsesInv, EntriesInv
<1>2. IsFiniteSet(AsRecent(r))
  BY Facts, FS_Subset DEF AsRecent, Responses!Of
<1>3. Cardinality(AsRecent(r)) \in Nat
  BY <1>2, FS_CardinalityType
<1>4. rs_now - rs_used[r] \in Int
  BY <1>1, Facts
<1>5. r \in DOMAIN rs_entries
  BY <1>1, <1>3, <1>4, Facts DEF ResponsesInv, ForgottenInv
<1> QED BY <1>4, <1>5, Facts DEF Responses!Known, Responses!Of, Responses!Expired

\* POST /v1/responses, over any number of reloads: the channel that completed a response can continue
\* it while it was used lately and not as many others of the channel as its table holds were used
\* since, each channel's table keeps to its limit however requests interleave, and a chain of
\* responses stays in one session and ends with its channel.
THEOREM ResponsesContinued ==
  ASSUME Responses!ResponsesAssumption
  PROVE  Responses!Spec => []Responses!ResponsesAreContinued
<1>1. Responses!Init => ResponsesInv
  BY ResponsesInit
<1>2. ResponsesInv /\ [Responses!Next]_(Responses!vars) => ResponsesInv'
  BY ResponsesKeep
<1>3. ResponsesInv => Responses!ResponsesAreContinued
  BY ResponsesHold
<1> QED BY <1>1, <1>2, <1>3, PTL DEF Responses!Spec

-----------------------------------------------------------------------------
Conn == [gen : WebSockets!Objects, id : 0..ws_MaxConns, at : {"accepted", "open", "broken", "gone"}, late : BOOLEAN]
Question == [conn : Nat, id : Nat, on : WebSockets!Objects \cup {WebSockets!NoObject}, left : 0..ws_Pieces, sent : BOOLEAN]

\* The connections that object g has numbered.
Numbered(g) == {c \in DOMAIN ws_conns : ws_conns[c].gen = g /\ ws_conns[c].id # 0}

\* An object's counter has given each of its connections a number of its own.
SocketNumbersInv ==
  /\ ws_conns \in Seq(Conn) /\ ws_asked \in Seq(Question) /\ Len(ws_conns) <= ws_MaxConns
  /\ \A g \in WebSockets!Objects : ws_nextID[g] = Cardinality(Numbered(g))
  /\ \A c \in DOMAIN ws_conns :
       /\ ws_conns[c].gen <= ws_gen /\ ws_conns[c].id <= ws_nextID[ws_conns[c].gen]
       /\ ws_conns[c].at = "accepted" <=> ws_conns[c].id = 0
  /\ \A c, d \in DOMAIN ws_conns :
       ws_conns[c].gen = ws_conns[d].gen /\ ws_conns[c].id = ws_conns[d].id /\ ws_conns[c].id # 0 => c = d

\* Who is registered has its own number, and whoever is connected is registered.
ClientsInv ==
  /\ ws_clients \subseteq [gen : WebSockets!Objects, id : Nat \ {0}, conn : DOMAIN ws_conns]
  /\ \A e \in ws_clients : e.gen = ws_conns[e.conn].gen /\ e.id = ws_conns[e.conn].id
  /\ \A c \in DOMAIN ws_conns : ws_conns[c].at \in {"open", "broken"} =>
       [gen |-> ws_conns[c].gen, id |-> ws_conns[c].id, conn |-> c] \in ws_clients

\* A message carries the number of its client.
AskedInv ==
  \A q \in DOMAIN ws_asked :
    ws_asked[q].conn \in DOMAIN ws_conns /\ ws_asked[q].id = ws_conns[ws_asked[q].conn].id
    /\ ws_asked[q].id # 0

\* The inductive invariant.
SocketsInv ==
  /\ ws_gen \in WebSockets!Objects /\ ws_nextID \in [WebSockets!Objects -> Nat]
  /\ ws_phase \in {"serving", "shutting", "stopped", "unsubscribed", "subscribed"}
  /\ ws_phase # "serving" => ws_gen <= ws_MaxReloads
  /\ SocketNumbersInv /\ ClientsInv /\ AskedInv /\ WebSockets!OnlyTheAskerIsAnswered
     /\ WebSockets!StopClosesClients

-----------------------------------------------------------------------------
(* Sequences *)

LEMMA SocketMembersOf ==
  ASSUME NEW S PROVE \A s \in Seq(S) : /\ Len(s) \in Nat /\ DOMAIN s = 1..Len(s)
                                       /\ \A i \in DOMAIN s : s[i] \in S
  OBVIOUS
LEMMA SocketAppendIs ==
  ASSUME NEW S
  PROVE  \A s \in Seq(S) : \A e \in S :
           /\ Append(s, e) \in Seq(S) /\ Len(Append(s, e)) = Len(s) + 1
           /\ DOMAIN Append(s, e) = DOMAIN s \cup {Len(s) + 1} /\ Len(s) + 1 \notin DOMAIN s
           /\ \A i \in DOMAIN s : Append(s, e)[i] = s[i]
           /\ Append(s, e)[Len(s) + 1] = e
  OBVIOUS
LEMMA SocketChangeIs ==
  ASSUME NEW S
  PROVE  \A s \in Seq(S) : \A i \in DOMAIN s : \A e \in S :
           /\ [s EXCEPT ![i] = e] \in Seq(S) /\ DOMAIN [s EXCEPT ![i] = e] = DOMAIN s
           /\ Len([s EXCEPT ![i] = e]) = Len(s)
           /\ \A k \in DOMAIN s : [s EXCEPT ![i] = e][k] = IF k = i THEN e ELSE s[k]
  OBVIOUS

\* What the lemmas below go by.
LEMMA SocketFacts ==
  ASSUME WebSockets!WebSocketsAssumption, SocketsInv
  PROVE  /\ ws_MaxConns \in Nat /\ ws_Pieces \in Nat \ {0} /\ ws_MaxReloads \in Nat /\ ws_gen \in Nat
         /\ ws_conns \in Seq(Conn) /\ DOMAIN ws_conns = 1..Len(ws_conns) /\ Len(ws_conns) \in Nat
         /\ ws_asked \in Seq(Question) /\ DOMAIN ws_asked = 1..Len(ws_asked)
         /\ \A c \in DOMAIN ws_conns : /\ ws_conns[c] \in Conn /\ ws_conns[c].gen \in WebSockets!Objects
                                          /\ ws_conns[c].id \in Nat
                                       /\ ws_conns[c].gen \in Nat /\ c \in Nat
         /\ \A q \in DOMAIN ws_asked : ws_asked[q] \in Question
         /\ \A g \in WebSockets!Objects : g \in Nat /\ ws_nextID[g] \in Nat
         /\ IsFiniteSet(DOMAIN ws_conns) /\ Cardinality(DOMAIN ws_conns) = Len(ws_conns)
<1>1. ws_conns \in Seq(Conn) /\ ws_asked \in Seq(Question) /\ ws_gen \in WebSockets!Objects
      /\ ws_nextID \in [WebSockets!Objects -> Nat]
  BY DEF SocketsInv, SocketNumbersInv
<1>2. ws_MaxConns \in Nat /\ ws_Pieces \in Nat \ {0} /\ ws_MaxReloads \in Nat
  BY DEF WebSockets!WebSocketsAssumption
<1>3. \A g \in WebSockets!Objects : g \in Nat /\ ws_nextID[g] \in Nat
  BY <1>1, <1>2 DEF WebSockets!Objects
<1>4. /\ DOMAIN ws_conns = 1..Len(ws_conns) /\ Len(ws_conns) \in Nat /\ DOMAIN ws_asked = 1..Len(ws_asked)
      /\ \A c \in DOMAIN ws_conns : ws_conns[c] \in Conn
      /\ \A q \in DOMAIN ws_asked : ws_asked[q] \in Question
  BY <1>1, SocketMembersOf
<1>5. \A c \in DOMAIN ws_conns : ws_conns[c].gen \in WebSockets!Objects /\ ws_conns[c].id \in Nat
      /\ ws_conns[c].gen \in Nat /\ c \in Nat
  BY <1>2, <1>3, <1>4 DEF Conn
<1>6. IsFiniteSet(DOMAIN ws_conns) /\ Cardinality(DOMAIN ws_conns) = Len(ws_conns)
  <2>1. \A n \in Nat : IsFiniteSet(1..n) /\ Cardinality(1..n) = IF 1 > n THEN 0 ELSE n - 1 + 1
    BY FS_Interval
  <2> QED BY <1>4, <2>1
<1> QED BY <1>1, <1>2, <1>3, <1>4, <1>5, <1>6

\* The invariant says what is checked.
LEMMA SocketsInvIsEnough ==
  ASSUME WebSockets!WebSocketsAssumption, SocketsInv
  PROVE  WebSockets!WebClientsAreToldApart
<1>1. \A c \in DOMAIN ws_conns : ws_conns[c] \in
        [gen : 1..ws_gen, id : 0..ws_MaxConns, at : {"accepted", "open", "broken", "gone"}, late : BOOLEAN]
  <2> SUFFICES ASSUME NEW c \in DOMAIN ws_conns
               PROVE  ws_conns[c] \in [gen : 1..ws_gen, id : 0..ws_MaxConns,
                                    at : {"accepted", "open", "broken", "gone"}, late : BOOLEAN]
    OBVIOUS
  <2>1. ws_conns[c] \in Conn /\ ws_conns[c].gen \in WebSockets!Objects /\ ws_gen \in Nat
    BY SocketFacts
  <2>2. ws_conns[c].gen <= ws_gen
    BY DEF SocketsInv, SocketNumbersInv
  <2>3. ws_conns[c].gen \in 1..ws_gen
    BY <2>1, <2>2 DEF WebSockets!Objects
  <2> QED BY <2>1, <2>3 DEF Conn
<1>2. ws_nextID \in [WebSockets!Objects -> 0..ws_MaxConns]
  <2> SUFFICES ASSUME NEW g \in WebSockets!Objects PROVE ws_nextID[g] \in 0..ws_MaxConns
    BY DEF SocketsInv
  <2>1. IsFiniteSet(DOMAIN ws_conns) /\ Cardinality(DOMAIN ws_conns) = Len(ws_conns)
    BY SocketFacts
  <2>2. Cardinality(Numbered(g)) <= Cardinality(DOMAIN ws_conns)
    BY <2>1, FS_Subset DEF Numbered
  <2> QED BY <2>1, <2>2, SocketFacts DEF SocketsInv, SocketNumbersInv
<1>3. \A e \in ws_clients : e.gen \in 1..ws_gen /\ e.conn \in DOMAIN ws_conns /\ ws_conns[e.conn].id = e.id
  <2> SUFFICES ASSUME NEW e \in ws_clients
               PROVE  e.gen \in 1..ws_gen /\ e.conn \in DOMAIN ws_conns /\ ws_conns[e.conn].id = e.id
    OBVIOUS
  <2>1. e \in [gen : WebSockets!Objects, id : Nat \ {0}, conn : DOMAIN ws_conns]
    BY DEF SocketsInv, ClientsInv
  <2>2. e.gen \in WebSockets!Objects /\ e.conn \in DOMAIN ws_conns
    BY <2>1
  <2>3. e.gen = ws_conns[e.conn].gen /\ e.id = ws_conns[e.conn].id
    BY DEF SocketsInv, ClientsInv
  <2>4. ws_conns[e.conn].gen <= ws_gen
    BY <2>2 DEF SocketsInv, SocketNumbersInv
  <2> QED BY <2>2, <2>3, <2>4, SocketFacts DEF WebSockets!Objects
<1>4. \A q \in DOMAIN ws_asked : ws_asked[q].left \in 0..ws_Pieces
      /\ ws_asked[q].on \in WebSockets!Objects \cup {WebSockets!NoObject}
  BY SocketFacts DEF Question
<1> QED BY <1>1, <1>2, <1>3, <1>4 DEF SocketsInv, WebSockets!WebClientsAreToldApart, WebSockets!TypeOK

-----------------------------------------------------------------------------
(* The steps *)

LEMMA SocketsInit == ASSUME WebSockets!WebSocketsAssumption PROVE WebSockets!Init => SocketsInv
<1> SUFFICES ASSUME WebSockets!Init PROVE SocketsInv
  OBVIOUS
<1>1. DOMAIN ws_conns = {} /\ DOMAIN ws_asked = {} /\ ws_clients = {} /\ ws_writes = {} /\ Len(ws_conns) = 0
      /\ ws_conns \in Seq(Conn) /\ ws_asked \in Seq(Question) /\ ws_gen \in WebSockets!Objects
         /\ ws_nextID \in [WebSockets!Objects -> Nat]
      /\ ws_phase = "serving" /\ \A g \in WebSockets!Objects : ws_nextID[g] = 0
  BY DEF WebSockets!Init, WebSockets!Objects, WebSockets!WebSocketsAssumption
<1>2. \A g : Numbered(g) = {}
  BY <1>1 DEF Numbered
<1>3. \A g \in WebSockets!Objects : ws_nextID[g] = Cardinality(Numbered(g))
  BY <1>1, <1>2, FS_EmptySet
<1> QED
  BY <1>1, <1>3 DEF SocketsInv, SocketNumbersInv, ClientsInv, AskedInv, WebSockets!OnlyTheAskerIsAnswered,
     WebSockets!StopClosesClients,
                    WebSockets!WebSocketsAssumption

\* handleWS accepts a connection: it has no number yet.
LEMMA AcceptStep == ASSUME WebSockets!WebSocketsAssumption, SocketsInv, WebSockets!Accept PROVE SocketsInv'
<1> DEFINE new == [gen |-> ws_gen, id |-> 0, at |-> "accepted", late |-> FALSE]
           n == Len(ws_conns) + 1
<1>1. /\ ~WebSockets!IsStopped(ws_gen) /\ Len(ws_conns) < ws_MaxConns /\ ws_conns' = Append(ws_conns, new)
      /\ UNCHANGED <<ws_gen, ws_phase, ws_nextID, ws_clients, ws_asked, ws_writes>>
  BY DEF WebSockets!Accept
<1>2. new \in Conn
  BY SocketFacts DEF Conn, SocketsInv
<1>3. /\ ws_conns' \in Seq(Conn) /\ Len(ws_conns') = n /\ DOMAIN ws_conns' = DOMAIN ws_conns \cup {n}
         /\ n \notin DOMAIN ws_conns
      /\ ws_conns'[n] = new /\ \A c \in DOMAIN ws_conns : ws_conns'[c] = ws_conns[c]
  BY <1>1, <1>2, SocketAppendIs DEF SocketsInv, SocketNumbersInv
<1>4. /\ ws_conns'[n].gen = ws_gen /\ ws_conns'[n].id = 0 /\ ws_conns'[n].at = "accepted"
  BY <1>3
<1> HIDE DEF new, n
<1>5. \A g : Numbered(g)' = Numbered(g)
  BY <1>3, <1>4 DEF Numbered
<1>6. SocketNumbersInv'
  <2>1. \A g \in WebSockets!Objects : ws_nextID'[g] = Cardinality(Numbered(g)')
    BY <1>1, <1>5 DEF SocketsInv, SocketNumbersInv
  <2>2. \A c \in DOMAIN ws_conns' : /\ ws_conns'[c].gen <= ws_gen'
                                       /\ ws_conns'[c].id <= ws_nextID'[ws_conns'[c].gen]
                                    /\ ws_conns'[c].at = "accepted" <=> ws_conns'[c].id = 0
    BY <1>1, <1>3, <1>4, SocketFacts DEF SocketsInv, SocketNumbersInv
  <2>3. \A c, d \in DOMAIN ws_conns' :
          ws_conns'[c].gen = ws_conns'[d].gen /\ ws_conns'[c].id = ws_conns'[d].id /\ ws_conns'[c].id # 0
          => c = d
    BY <1>3, <1>4 DEF SocketsInv, SocketNumbersInv
  <2>4. Len(ws_conns') <= ws_MaxConns
    BY <1>1, <1>3, SocketFacts DEF n
  <2> QED BY <1>1, <1>3, <2>1, <2>2, <2>3, <2>4 DEF SocketsInv, SocketNumbersInv
<1>7. ClientsInv'
  BY <1>1, <1>3, <1>4 DEF SocketsInv, ClientsInv
<1>8. AskedInv'
  BY <1>1, <1>3 DEF SocketsInv, AskedInv
<1>9. WebSockets!StopClosesClients'
  BY <1>1, <1>3, <1>4 DEF SocketsInv, WebSockets!StopClosesClients, WebSockets!IsStopped
<1> QED BY <1>1, <1>6, <1>7, <1>8, <1>9 DEF SocketsInv, WebSockets!OnlyTheAskerIsAnswered

\* A connection changes, but not its object; what the numbers and the messages need of it.
LEMMA OneChanges ==
  ASSUME WebSockets!WebSocketsAssumption, SocketsInv, NEW c \in DOMAIN ws_conns, NEW new \in Conn,
         ws_conns' = [ws_conns EXCEPT ![c] = new]
  PROVE  /\ ws_conns' \in Seq(Conn) /\ DOMAIN ws_conns' = DOMAIN ws_conns /\ Len(ws_conns') = Len(ws_conns)
         /\ ws_conns'[c] = new /\ \A d \in DOMAIN ws_conns \ {c} : ws_conns'[d] = ws_conns[d]
  BY SocketChangeIs, SocketFacts

\* The connection gets the next number.
LEMMA RegisterStep ==
  ASSUME WebSockets!WebSocketsAssumption, SocketsInv, NEW c \in DOMAIN ws_conns, WebSockets!Register(c)
  PROVE  SocketsInv'
<1> DEFINE g == ws_conns[c].gen
           id == ws_nextID[g] + 1
           new == [ws_conns[c] EXCEPT !.id = id, !.at = "open", !.late = WebSockets!IsStopped(g)]
           mine == [gen |-> g, id |-> id, conn |-> c]
<1>1. /\ ws_conns[c].at = "accepted" /\ ws_nextID' = [ws_nextID EXCEPT ![g] = @ + 1]
      /\ ws_conns' = [ws_conns EXCEPT ![c] = new]
      /\ ws_clients' = {e \in ws_clients : ~(e.gen = g /\ e.id = id)} \cup {mine}
      /\ UNCHANGED <<ws_gen, ws_phase, ws_asked, ws_writes>>
  BY DEF WebSockets!Register, WebSockets!Number
<1>2. /\ ws_conns[c].id = 0 /\ g \in WebSockets!Objects /\ ws_nextID[g] \in Nat /\ id \in Nat /\ id # 0
         /\ g <= ws_gen
      /\ ws_conns[c] \in Conn
  <2>1. g \in WebSockets!Objects /\ ws_conns[c] \in Conn
    BY SocketFacts
  <2>2. ws_nextID[g] \in Nat
    BY <2>1, SocketFacts
  <2>3. ws_conns[c].id = 0 /\ g <= ws_gen
    BY <1>1 DEF SocketsInv, SocketNumbersInv
  <2> QED BY <2>1, <2>2, <2>3
<1>3. \A d \in DOMAIN ws_conns : ws_conns[d].gen = g => ws_conns[d].id < id
  <2> SUFFICES ASSUME NEW d \in DOMAIN ws_conns, ws_conns[d].gen = g PROVE ws_conns[d].id < id
    OBVIOUS
  <2>1. ws_conns[d].id <= ws_nextID[g] /\ ws_conns[d].id \in Nat
    BY SocketFacts DEF SocketsInv, SocketNumbersInv
  <2> QED BY <1>2, <2>1
<1>4. /\ IsFiniteSet(DOMAIN ws_conns) /\ Cardinality(DOMAIN ws_conns) = Len(ws_conns)
  BY SocketFacts
<1>5. c \notin Numbered(g) /\ IsFiniteSet(Numbered(g)) /\ Numbered(g) \cup {c} \subseteq DOMAIN ws_conns
  BY <1>2, <1>4, FS_Subset DEF Numbered
<1>6. Cardinality(Numbered(g) \cup {c}) = id /\ IsFiniteSet(Numbered(g) \cup {c})
  <2>1. Cardinality(Numbered(g) \cup {c}) = Cardinality(Numbered(g)) + 1 /\ IsFiniteSet(Numbered(g) \cup {c})
    BY <1>5, FS_AddElement
  <2> QED BY <1>2, <2>1 DEF SocketsInv, SocketNumbersInv
<1>7. id <= ws_MaxConns
  <2>1. Cardinality(Numbered(g) \cup {c}) <= Cardinality(DOMAIN ws_conns)
    BY <1>4, <1>5, FS_Subset
  <2> QED BY <1>2, <1>4, <1>6, <2>1, SocketFacts DEF SocketsInv, SocketNumbersInv
<1>8. new \in Conn /\ new.gen = g /\ new.id = id /\ new.at = "open" /\ new.late = WebSockets!IsStopped(g)
  <2>1. id \in 0..ws_MaxConns /\ WebSockets!IsStopped(g) \in BOOLEAN
    BY <1>2, <1>7, SocketFacts DEF WebSockets!IsStopped
  <2> HIDE DEF id, g
  <2>2. ws_conns[c].gen = g
    BY DEF g
  <2> QED BY <1>2, <2>1, <2>2 DEF Conn
<1>9. /\ ws_conns' \in Seq(Conn) /\ DOMAIN ws_conns' = DOMAIN ws_conns /\ Len(ws_conns') = Len(ws_conns)
      /\ ws_conns'[c].gen = g /\ ws_conns'[c].id = id /\ ws_conns'[c].at = "open"
         /\ ws_conns'[c].late = WebSockets!IsStopped(g)
      /\ \A d \in DOMAIN ws_conns \ {c} : ws_conns'[d] = ws_conns[d]
  <2> HIDE DEF new
  <2> QED BY <1>1, <1>8, OneChanges
<1> HIDE DEF new
<1>10. ws_nextID' \in [WebSockets!Objects -> Nat] /\ ws_nextID'[g] = id
       /\ \A o \in WebSockets!Objects \ {g} : ws_nextID'[o] = ws_nextID[o]
  BY <1>1, <1>2 DEF SocketsInv
<1>11. \A o : Numbered(o)' = IF o = g THEN Numbered(g) \cup {c} ELSE Numbered(o)
  BY <1>2, <1>9 DEF Numbered
<1>12. SocketNumbersInv'
  <2>1. \A o \in WebSockets!Objects : ws_nextID'[o] = Cardinality(Numbered(o)')
    BY <1>6, <1>10, <1>11 DEF SocketsInv, SocketNumbersInv
  <2>2. \A d \in DOMAIN ws_conns' : /\ ws_conns'[d].gen <= ws_gen'
                                       /\ ws_conns'[d].id <= ws_nextID'[ws_conns'[d].gen]
                                    /\ ws_conns'[d].at = "accepted" <=> ws_conns'[d].id = 0
    <3> SUFFICES ASSUME NEW d \in DOMAIN ws_conns
                 PROVE  /\ ws_conns'[d].gen <= ws_gen /\ ws_conns'[d].id <= ws_nextID'[ws_conns'[d].gen]
                        /\ ws_conns'[d].at = "accepted" <=> ws_conns'[d].id = 0
      BY <1>1, <1>9
    <3>1. CASE d = c
      BY <1>2, <1>9, <1>10, <3>1
    <3>2. CASE d # c
      <4>1. ws_conns'[d] = ws_conns[d] /\ ws_conns[d].gen \in WebSockets!Objects /\ ws_conns[d].id \in Nat
        BY <1>9, <3>2, SocketFacts
      <4>2. /\ ws_conns[d].gen <= ws_gen /\ ws_conns[d].id <= ws_nextID[ws_conns[d].gen]
            /\ ws_conns[d].at = "accepted" <=> ws_conns[d].id = 0
        BY DEF SocketsInv, SocketNumbersInv
      <4>3. ws_conns[d].id <= ws_nextID'[ws_conns[d].gen]
        <5>1. CASE ws_conns[d].gen = g
          BY <1>2, <1>10, <4>1, <4>2, <5>1
        <5>2. CASE ws_conns[d].gen # g
          BY <1>10, <4>1, <4>2, <5>2
        <5> QED BY <5>1, <5>2
      <4> QED BY <4>1, <4>2, <4>3
    <3> QED BY <3>1, <3>2
  <2>3. \A d, e \in DOMAIN ws_conns' :
          ws_conns'[d].gen = ws_conns'[e].gen /\ ws_conns'[d].id = ws_conns'[e].id /\ ws_conns'[d].id # 0
          => d = e
    <3>1. \A d \in DOMAIN ws_conns \ {c} : ~(ws_conns'[d].gen = g /\ ws_conns'[d].id = id)
      <4> SUFFICES ASSUME NEW d \in DOMAIN ws_conns \ {c}, ws_conns[d].gen = g, ws_conns[d].id = id
                   PROVE  FALSE
        BY <1>9
      <4>1. ws_conns[d].id < id /\ ws_conns[d].id \in Nat
        BY <1>3, SocketFacts
      <4> QED BY <4>1
    <3> HIDE DEF g, id
    <3>2. \A d, e \in DOMAIN ws_conns :
            ws_conns[d].gen = ws_conns[e].gen /\ ws_conns[d].id = ws_conns[e].id /\ ws_conns[d].id # 0
            => d = e
      BY DEF SocketsInv, SocketNumbersInv
    <3> QED BY <1>9, <3>1, <3>2
  <2>4. Len(ws_conns') <= ws_MaxConns /\ ws_asked' \in Seq(Question)
    BY <1>1, <1>9, SocketFacts DEF SocketsInv, SocketNumbersInv
  <2> QED BY <1>9, <2>1, <2>2, <2>3, <2>4 DEF SocketNumbersInv
<1>13. ClientsInv'
  <2>1. \A e \in ws_clients : e.conn # c
    BY <1>2 DEF SocketsInv, ClientsInv
  <2>2. \A e \in ws_clients' : /\ e \in [gen : WebSockets!Objects, id : Nat \ {0}, conn : DOMAIN ws_conns']
                               /\ e.gen = ws_conns'[e.conn].gen /\ e.id = ws_conns'[e.conn].id
    BY <1>1, <1>2, <1>9, <2>1 DEF SocketsInv, ClientsInv
  <2>3. ASSUME NEW d \in DOMAIN ws_conns', ws_conns'[d].at \in {"open", "broken"}
        PROVE  [gen |-> ws_conns'[d].gen, id |-> ws_conns'[d].id, conn |-> d] \in ws_clients'
    <3>1. CASE d = c
      BY <1>1, <1>9, <3>1
    <3>2. CASE d # c
      <4>1. [gen |-> ws_conns[d].gen, id |-> ws_conns[d].id, conn |-> d] \in ws_clients
        BY <1>9, <2>3, <3>2 DEF SocketsInv, ClientsInv
      <4>2. ~(ws_conns[d].gen = g /\ ws_conns[d].id = id)
        <5> SUFFICES ASSUME ws_conns[d].gen = g, ws_conns[d].id = id PROVE FALSE
          OBVIOUS
        <5>1. ws_conns[d].id < id /\ ws_conns[d].id \in Nat
          BY <1>3, <1>9, SocketFacts
        <5> QED BY <5>1
      <4> QED BY <1>1, <1>9, <3>2, <4>1, <4>2
    <3> QED BY <3>1, <3>2
  <2> QED BY <2>2, <2>3 DEF ClientsInv
<1>14. AskedInv'
  <2>1. \A q \in DOMAIN ws_asked : ws_asked[q].conn # c
    BY <1>2 DEF SocketsInv, AskedInv
  <2> QED BY <1>1, <1>9, <2>1 DEF SocketsInv, AskedInv
<1>15. WebSockets!StopClosesClients'
  BY <1>1, <1>9 DEF SocketsInv, WebSockets!StopClosesClients, WebSockets!IsStopped
<1> QED BY <1>1, <1>10, <1>12, <1>13, <1>14, <1>15 DEF SocketsInv, WebSockets!OnlyTheAskerIsAnswered

\* A message goes out under its client's number.
LEMMA ReceiveStep ==
  ASSUME WebSockets!WebSocketsAssumption, SocketsInv, NEW c \in DOMAIN ws_conns, WebSockets!Receive(c)
  PROVE  SocketsInv'
<1> DEFINE new == [conn |-> c, id |-> ws_conns[c].id, on |-> WebSockets!NoObject, left |-> 0, sent |-> FALSE]
           n == Len(ws_asked) + 1
<1>1. /\ ws_conns[c].at = "open" /\ ws_asked' = Append(ws_asked, new)
      /\ UNCHANGED <<ws_gen, ws_phase, ws_nextID, ws_conns, ws_clients, ws_writes>>
  BY DEF WebSockets!Receive
<1>2. new \in Question /\ ws_conns[c].id # 0
  BY <1>1, SocketFacts DEF Question, SocketsInv, SocketNumbersInv
<1>3. /\ ws_asked' \in Seq(Question) /\ DOMAIN ws_asked' = DOMAIN ws_asked \cup {n} /\ ws_asked'[n] = new
      /\ \A q \in DOMAIN ws_asked : ws_asked'[q] = ws_asked[q]
  BY <1>1, <1>2, SocketAppendIs DEF SocketsInv, SocketNumbersInv
<1>4. ws_asked'[n].conn = c /\ ws_asked'[n].id = ws_conns[c].id
  BY <1>3
<1> HIDE DEF new, n
<1>5. SocketNumbersInv'
  BY <1>1, <1>3 DEF SocketsInv, SocketNumbersInv, Numbered
<1>6. ClientsInv'
  BY <1>1 DEF SocketsInv, ClientsInv
<1>7. AskedInv'
  BY <1>1, <1>2, <1>3, <1>4 DEF SocketsInv, AskedInv
<1>8. WebSockets!StopClosesClients'
  BY <1>1 DEF SocketsInv, WebSockets!StopClosesClients, WebSockets!IsStopped
<1> QED BY <1>1, <1>5, <1>6, <1>7, <1>8 DEF SocketsInv, WebSockets!OnlyTheAskerIsAnswered

\* Connections end: the numbers stay.
LEMMA EndsKeepNumbers ==
  ASSUME WebSockets!WebSocketsAssumption, SocketsInv, ws_conns' \in Seq(Conn),
         DOMAIN ws_conns' = DOMAIN ws_conns,
         Len(ws_conns') = Len(ws_conns), UNCHANGED <<ws_nextID, ws_asked>>, ws_gen' \in WebSockets!Objects,
         ws_gen <= ws_gen',
         \A d \in DOMAIN ws_conns : /\ ws_conns'[d].gen = ws_conns[d].gen /\ ws_conns'[d].id = ws_conns[d].id
                                    /\ ws_conns'[d].at = "accepted" <=> ws_conns[d].at = "accepted"
  PROVE  SocketNumbersInv' /\ AskedInv'
<1>1. \A o : Numbered(o)' = Numbered(o)
  BY DEF Numbered
<1>2. \A o \in WebSockets!Objects : ws_nextID'[o] = Cardinality(Numbered(o)')
  BY <1>1 DEF SocketsInv, SocketNumbersInv
<1>3. \A d \in DOMAIN ws_conns' : /\ ws_conns'[d].gen <= ws_gen'
                                     /\ ws_conns'[d].id <= ws_nextID'[ws_conns'[d].gen]
                                  /\ ws_conns'[d].at = "accepted" <=> ws_conns'[d].id = 0
  <2> SUFFICES ASSUME NEW d \in DOMAIN ws_conns PROVE ws_conns[d].gen <= ws_gen'
    BY DEF SocketsInv, SocketNumbersInv
  <2>1. ws_conns[d].gen <= ws_gen /\ ws_conns[d].gen \in Nat /\ ws_gen \in Nat /\ ws_gen' \in Nat
    BY SocketFacts DEF SocketsInv, SocketNumbersInv
  <2> QED BY <2>1
<1>4. SocketNumbersInv'
  BY <1>2, <1>3 DEF SocketsInv, SocketNumbersInv
<1>5. AskedInv'
  BY DEF SocketsInv, AskedInv
<1> QED BY <1>4, <1>5

\* The peer goes away, and the handler with it.
LEMMA DisconnectStep ==
  ASSUME WebSockets!WebSocketsAssumption, SocketsInv, NEW c \in DOMAIN ws_conns, WebSockets!Disconnect(c)
  PROVE  SocketsInv'
<1> DEFINE new == [ws_conns[c] EXCEPT !.at = "broken"]
<1>1. ws_conns[c].at = "open" /\ ws_conns' = [ws_conns EXCEPT ![c] = new]
      /\ UNCHANGED <<ws_gen, ws_phase, ws_nextID, ws_clients, ws_asked, ws_writes>>
  BY DEF WebSockets!Disconnect
<1>2. new \in Conn /\ new.gen = ws_conns[c].gen /\ new.id = ws_conns[c].id /\ new.at = "broken"
      /\ new.late = ws_conns[c].late
  BY SocketFacts DEF Conn
<1>3. /\ ws_conns' \in Seq(Conn) /\ DOMAIN ws_conns' = DOMAIN ws_conns /\ Len(ws_conns') = Len(ws_conns)
      /\ ws_conns'[c] = new /\ \A d \in DOMAIN ws_conns \ {c} : ws_conns'[d] = ws_conns[d]
  <2> HIDE DEF new
  <2> QED BY <1>1, <1>2, OneChanges
<1> HIDE DEF new
<1>4. \A d \in DOMAIN ws_conns : /\ ws_conns'[d].gen = ws_conns[d].gen /\ ws_conns'[d].id = ws_conns[d].id
                                 /\ ws_conns'[d].at = "accepted" <=> ws_conns[d].at = "accepted"
                                 /\ ws_conns'[d].at = IF d = c THEN "broken" ELSE ws_conns[d].at
                                 /\ ws_conns'[d].late = ws_conns[d].late
  BY <1>1, <1>2, <1>3
<1>5. SocketNumbersInv' /\ AskedInv'
  BY <1>1, <1>3, <1>4, SocketFacts, EndsKeepNumbers DEF SocketsInv
<1>6. ClientsInv'
  BY <1>1, <1>3, <1>4 DEF SocketsInv, ClientsInv
<1>7. WebSockets!StopClosesClients'
  BY <1>1, <1>3, <1>4 DEF SocketsInv, WebSockets!StopClosesClients, WebSockets!IsStopped
<1> QED BY <1>1, <1>5, <1>6, <1>7 DEF SocketsInv, WebSockets!OnlyTheAskerIsAnswered

LEMMA UnregisterStep ==
  ASSUME WebSockets!WebSocketsAssumption, SocketsInv, NEW c \in DOMAIN ws_conns, WebSockets!Unregister(c)
  PROVE  SocketsInv'
<1> DEFINE new == [ws_conns[c] EXCEPT !.at = "gone"]
<1>1. /\ ws_conns[c].at = "broken" /\ ws_conns' = [ws_conns EXCEPT ![c] = new]
      /\ ws_clients' = {e \in ws_clients : ~(e.gen = ws_conns[c].gen /\ e.id = ws_conns[c].id)}
      /\ UNCHANGED <<ws_gen, ws_phase, ws_nextID, ws_asked, ws_writes>>
  BY DEF WebSockets!Unregister
<1>2. new \in Conn /\ new.gen = ws_conns[c].gen /\ new.id = ws_conns[c].id /\ new.at = "gone"
      /\ new.late = ws_conns[c].late
  BY SocketFacts DEF Conn
<1>3. /\ ws_conns' \in Seq(Conn) /\ DOMAIN ws_conns' = DOMAIN ws_conns /\ Len(ws_conns') = Len(ws_conns)
      /\ ws_conns'[c] = new /\ \A d \in DOMAIN ws_conns \ {c} : ws_conns'[d] = ws_conns[d]
  <2> HIDE DEF new
  <2> QED BY <1>1, <1>2, OneChanges
<1> HIDE DEF new
<1>4. \A d \in DOMAIN ws_conns : /\ ws_conns'[d].gen = ws_conns[d].gen /\ ws_conns'[d].id = ws_conns[d].id
                                 /\ ws_conns'[d].at = "accepted" <=> ws_conns[d].at = "accepted"
                                 /\ ws_conns'[d].at = IF d = c THEN "gone" ELSE ws_conns[d].at
                                 /\ ws_conns'[d].late = ws_conns[d].late
  BY <1>1, <1>2, <1>3
<1>5. SocketNumbersInv' /\ AskedInv'
  BY <1>1, <1>3, <1>4, SocketFacts, EndsKeepNumbers DEF SocketsInv
<1>6. ClientsInv'
  <2>1. ws_conns[c].id # 0
    BY <1>1 DEF SocketsInv, SocketNumbersInv
  <2>2. ASSUME NEW d \in DOMAIN ws_conns, ws_conns'[d].at \in {"open", "broken"}
        PROVE  [gen |-> ws_conns[d].gen, id |-> ws_conns[d].id, conn |-> d] \in ws_clients'
    <3>1. d # c /\ ws_conns[d].at \in {"open", "broken"}
      BY <1>4, <2>2
    <3>2. [gen |-> ws_conns[d].gen, id |-> ws_conns[d].id, conn |-> d] \in ws_clients
      BY <3>1 DEF SocketsInv, ClientsInv
    <3>3. ~(ws_conns[d].gen = ws_conns[c].gen /\ ws_conns[d].id = ws_conns[c].id)
      BY <2>1, <3>1 DEF SocketsInv, SocketNumbersInv
    <3> QED BY <1>1, <3>2, <3>3
  <2>3. \A e \in ws_clients' : e \in ws_clients
    BY <1>1
  <2> QED BY <1>3, <1>4, <2>2, <2>3 DEF SocketsInv, ClientsInv
<1>7. WebSockets!StopClosesClients'
  BY <1>1, <1>3, <1>4 DEF SocketsInv, WebSockets!StopClosesClients, WebSockets!IsStopped
<1> QED BY <1>1, <1>5, <1>6, <1>7 DEF SocketsInv, WebSockets!OnlyTheAskerIsAnswered

\* An answer goes on; what it is about stays.
LEMMA AnswerKeeps ==
  ASSUME WebSockets!WebSocketsAssumption, SocketsInv, NEW q \in DOMAIN ws_asked, NEW new \in Question,
         new.conn = ws_asked[q].conn, new.id = ws_asked[q].id, ws_asked' = [ws_asked EXCEPT ![q] = new],
         UNCHANGED <<ws_gen, ws_phase, ws_nextID, ws_conns, ws_clients>>, WebSockets!OnlyTheAskerIsAnswered'
  PROVE  SocketsInv'
<1>1. /\ ws_asked' \in Seq(Question) /\ DOMAIN ws_asked' = DOMAIN ws_asked /\ ws_asked'[q] = new
      /\ \A r \in DOMAIN ws_asked \ {q} : ws_asked'[r] = ws_asked[r]
  BY SocketChangeIs, SocketFacts
<1>2. \A r \in DOMAIN ws_asked : ws_asked'[r].conn = ws_asked[r].conn /\ ws_asked'[r].id = ws_asked[r].id
  BY <1>1
<1>3. SocketNumbersInv'
  BY <1>1 DEF SocketsInv, SocketNumbersInv, Numbered
<1>4. ClientsInv' /\ AskedInv'
  BY <1>1, <1>2 DEF SocketsInv, ClientsInv, AskedInv
<1>5. WebSockets!StopClosesClients'
  BY DEF SocketsInv, WebSockets!StopClosesClients, WebSockets!IsStopped
<1> QED BY <1>3, <1>4, <1>5 DEF SocketsInv

\* writeToClient finds, under the asker's number, the asker and nobody else.
LEMMA WriteStep ==
  ASSUME WebSockets!WebSocketsAssumption, SocketsInv, NEW q \in DOMAIN ws_asked, WebSockets!WriteToClient(q)
  PROVE  SocketsInv'
<1> DEFINE asker == ws_asked[q].conn
           mine == WebSockets!Registered(ws_asked[q].on)
           here == {e.conn : e \in mine}
           found == {e.conn : e \in {e \in mine : e.id = ws_asked[q].id}}
           to == {c \in (IF found = {} THEN here ELSE found) : ws_conns[c].at = "open"}
           new == [ws_asked[q] EXCEPT !.left = IF found # {} /\ to = {} THEN 0 ELSE @ - 1]
<1>1. /\ ws_asked[q].left > 0 /\ UNCHANGED <<ws_gen, ws_phase, ws_nextID, ws_conns, ws_clients>>
      /\ ws_writes' = ws_writes \cup {[asker |-> asker, here |-> asker \in here, to |-> to]}
      /\ ws_asked' = [ws_asked EXCEPT ![q] = new]
  BY DEF WebSockets!WriteToClient
<1>2. asker \in here => to \subseteq {asker}
  <2> SUFFICES ASSUME asker \in here, NEW c \in to PROVE c = asker
    OBVIOUS
  <2>1. PICK e \in ws_clients : e.gen = ws_asked[q].on /\ e.conn = asker
    BY DEF WebSockets!Registered
  <2>2. ws_asked[q].conn \in DOMAIN ws_conns /\ ws_asked[q].id = ws_conns[asker].id /\ ws_asked[q].id # 0
    BY DEF SocketsInv, AskedInv
  <2>3. e.gen = ws_conns[asker].gen /\ e.id = ws_asked[q].id
    BY <2>1, <2>2 DEF SocketsInv, ClientsInv
  <2>4. found # {}
    BY <2>1, <2>3 DEF WebSockets!Registered
  <2>5. PICK f \in ws_clients : f.gen = ws_asked[q].on /\ f.id = ws_asked[q].id /\ f.conn = c
    BY <2>4 DEF WebSockets!Registered
  <2>6. f.conn \in DOMAIN ws_conns /\ f.gen = ws_conns[c].gen /\ f.id = ws_conns[c].id
    BY <2>5 DEF SocketsInv, ClientsInv
  <2>7. ws_conns[c].gen = ws_conns[asker].gen /\ ws_conns[c].id = ws_conns[asker].id /\ ws_conns[c].id # 0
        /\ c \in DOMAIN ws_conns /\ asker \in DOMAIN ws_conns
    BY <2>1, <2>2, <2>3, <2>5, <2>6
  <2> HIDE DEF asker
  <2> QED BY <2>7 DEF SocketsInv, SocketNumbersInv
<1>3. WebSockets!OnlyTheAskerIsAnswered'
  <2> DEFINE w == [asker |-> asker, here |-> asker \in here, to |-> to]
  <2> HIDE DEF asker, here, to
  <2>1. w.here => w.to \subseteq {w.asker}
    BY <1>2
  <2>2. \A v \in ws_writes : v.here => v.to \subseteq {v.asker}
    BY DEF SocketsInv, WebSockets!OnlyTheAskerIsAnswered
  <2>3. ws_writes' = ws_writes \cup {w}
    BY <1>1
  <2> HIDE DEF w
  <2> QED BY <2>1, <2>2, <2>3 DEF WebSockets!OnlyTheAskerIsAnswered
<1> HIDE DEF found, to, here, asker, mine
<1>4. new \in Question /\ new.conn = ws_asked[q].conn /\ new.id = ws_asked[q].id
  <2>1. ws_asked[q] \in Question /\ ws_asked[q].left \in 0..ws_Pieces /\ ws_Pieces \in Nat
    BY SocketFacts DEF Question
  <2>2. ws_asked[q].left - 1 \in 0..ws_Pieces /\ 0 \in 0..ws_Pieces
    BY <1>1, <2>1
  <2> DEFINE left == IF found # {} /\ to = {} THEN 0 ELSE ws_asked[q].left - 1
  <2>3. left \in 0..ws_Pieces
    BY <2>2
  <2>4. new = [ws_asked[q] EXCEPT !.left = left]
    BY <2>1 DEF Question
  <2> HIDE DEF left, new
  <2> QED BY <2>1, <2>3, <2>4 DEF Question
<1> HIDE DEF new
<1> QED BY <1>1, <1>3, <1>4, AnswerKeeps

\* The object that answers a message is found, at the start of a turn or by the dispatcher.
LEMMA FoundStep ==
  ASSUME WebSockets!WebSocketsAssumption, SocketsInv, NEW q \in DOMAIN ws_asked,
         WebSockets!TurnBegins(q) \/ WebSockets!Dispatch(q)
  PROVE  SocketsInv'
<1>1. WebSockets!Subscriber \in WebSockets!Objects \cup {WebSockets!NoObject} /\ ws_gen \in WebSockets!Objects
      /\ 1 \in 0..ws_Pieces /\ 0 \in 0..ws_Pieces
      /\ ws_Pieces \in 0..ws_Pieces
  BY SocketFacts DEF WebSockets!Subscriber, SocketsInv, WebSockets!Objects, WebSockets!NoObject,
     WebSockets!WebSocketsAssumption
<1>2. ws_asked[q] \in Question
  BY SocketFacts
<1>3. UNCHANGED <<ws_gen, ws_phase, ws_nextID, ws_conns, ws_clients, ws_writes>>
  BY DEF WebSockets!TurnBegins, WebSockets!Dispatch
<1>4. WebSockets!OnlyTheAskerIsAnswered'
  BY <1>3 DEF SocketsInv, WebSockets!OnlyTheAskerIsAnswered
<1>5. CASE WebSockets!TurnBegins(q)
  <2> DEFINE new == [ws_asked[q] EXCEPT !.on = ws_gen, !.left = ws_Pieces]
  <2>1. new \in Question /\ new.conn = ws_asked[q].conn /\ new.id = ws_asked[q].id
    BY <1>1, <1>2 DEF Question
  <2>2. ws_asked' = [ws_asked EXCEPT ![q] = new]
    BY <1>5 DEF WebSockets!TurnBegins
  <2> HIDE DEF new
  <2> QED BY <1>3, <1>4, <2>1, <2>2, AnswerKeeps
<1>6. CASE WebSockets!Dispatch(q)
  <2> DEFINE left == IF WebSockets!Subscriber = WebSockets!NoObject THEN 0 ELSE 1
             new == [ws_asked[q] EXCEPT !.on = WebSockets!Subscriber, !.sent = TRUE, !.left = left]
  <2>1. left \in 0..ws_Pieces
    BY <1>1
  <2>2. ws_asked' = [ws_asked EXCEPT ![q] = new]
    BY <1>6 DEF WebSockets!Dispatch
  <2> HIDE DEF left
  <2>3. new \in Question /\ new.conn = ws_asked[q].conn /\ new.id = ws_asked[q].id
    BY <1>1, <1>2, <2>1 DEF Question
  <2> HIDE DEF new
  <2> QED BY <1>3, <1>4, <2>2, <2>3, AnswerKeeps
<1> QED BY <1>5, <1>6

\* Stop closes whoever is registered.
LEMMA CloseClientsStep ==
  ASSUME WebSockets!WebSocketsAssumption, SocketsInv, WebSockets!CloseClients
  PROVE  SocketsInv'
<1> DEFINE found == {e.conn : e \in WebSockets!Registered(ws_gen)}
<1>1. /\ ws_phase = "shutting" /\ ws_phase' = "stopped"
         /\ UNCHANGED <<ws_gen, ws_nextID, ws_clients, ws_asked, ws_writes>>
      /\ ws_conns' = [c \in DOMAIN ws_conns |-> IF c \in found /\ ws_conns[c].at = "open"
                                          THEN [ws_conns[c] EXCEPT !.at = "broken"] ELSE ws_conns[c]]
  BY DEF WebSockets!CloseClients, WebSockets!Closed
<1> HIDE DEF found
<1>2. DOMAIN ws_conns' = DOMAIN ws_conns /\ ws_conns' \in Seq(Conn) /\ Len(ws_conns') = Len(ws_conns)
  <2>1. \A c \in DOMAIN ws_conns : ws_conns'[c] \in Conn
    BY <1>1, SocketFacts DEF Conn
  <2>2. ws_conns' = [c \in 1..Len(ws_conns) |-> ws_conns'[c]]
    BY <1>1, SocketFacts
  <2> QED BY <1>1, <2>1, <2>2, SocketFacts
<1>3. \A d \in DOMAIN ws_conns : /\ ws_conns'[d].gen = ws_conns[d].gen /\ ws_conns'[d].id = ws_conns[d].id
                                 /\ ws_conns'[d].at = "accepted" <=> ws_conns[d].at = "accepted"
                                 /\ ws_conns'[d].at \in {"open", "broken"} <=> ws_conns[d].at \in {"open", "broken"}
                                 /\ ws_conns'[d].at = "open" <=> ws_conns[d].at = "open" /\ d \notin found
                                 /\ ws_conns'[d].late = ws_conns[d].late
  <2> SUFFICES ASSUME NEW d \in DOMAIN ws_conns
               PROVE  /\ ws_conns'[d].gen = ws_conns[d].gen /\ ws_conns'[d].id = ws_conns[d].id
                      /\ ws_conns'[d].at = "accepted" <=> ws_conns[d].at = "accepted"
                      /\ ws_conns'[d].at \in {"open", "broken"} <=> ws_conns[d].at \in {"open", "broken"}
                      /\ ws_conns'[d].at = "open" <=> ws_conns[d].at = "open" /\ d \notin found
                      /\ ws_conns'[d].late = ws_conns[d].late
    OBVIOUS
  <2>1. ws_conns[d] \in Conn
    BY SocketFacts
  <2> QED BY <1>1, <2>1 DEF Conn
<1>4. SocketNumbersInv' /\ AskedInv'
  BY <1>1, <1>2, <1>3, SocketFacts, EndsKeepNumbers DEF SocketsInv
<1>5. ClientsInv'
  BY <1>1, <1>2, <1>3 DEF SocketsInv, ClientsInv
<1>6. WebSockets!StopClosesClients'
  <2> SUFFICES ASSUME NEW c \in DOMAIN ws_conns, ws_conns'[c].at = "open",
                      ws_conns[c].gen < ws_gen \/ ws_conns[c].gen = ws_gen
               PROVE  ws_conns[c].late
    BY <1>1, <1>2, <1>3 DEF WebSockets!StopClosesClients, WebSockets!IsStopped
  <2>1. ws_conns[c].at = "open" /\ c \notin found
    BY <1>3
  <2>2. CASE ws_conns[c].gen < ws_gen
    BY <2>1, <2>2 DEF SocketsInv, WebSockets!StopClosesClients, WebSockets!IsStopped
  <2>3. CASE ws_conns[c].gen = ws_gen
    <3>1. [gen |-> ws_conns[c].gen, id |-> ws_conns[c].id, conn |-> c] \in ws_clients
      BY <2>1 DEF SocketsInv, ClientsInv
    <3> QED BY <2>1, <2>3, <3>1 DEF found, WebSockets!Registered
  <2> QED BY <2>2, <2>3
<1> QED BY <1>1, <1>4, <1>5, <1>6 DEF SocketsInv, WebSockets!OnlyTheAskerIsAnswered

\* The server shuts down, the next object takes its place.
LEMMA SocketReloadStep ==
  ASSUME WebSockets!WebSocketsAssumption, SocketsInv,
         WebSockets!Shutdown \/ WebSockets!Unsubscribe \/ WebSockets!Subscribe \/ WebSockets!Replace
  PROVE  SocketsInv'
<1>1. CASE WebSockets!Shutdown \/ WebSockets!Unsubscribe \/ WebSockets!Subscribe
  BY <1>1 DEF WebSockets!Shutdown, WebSockets!Unsubscribe, WebSockets!Subscribe, SocketsInv, SocketNumbersInv,
     Numbered, ClientsInv, AskedInv, WebSockets!OnlyTheAskerIsAnswered,
              WebSockets!StopClosesClients, WebSockets!IsStopped
<1>2. CASE WebSockets!Replace
  <2>1. /\ ws_phase = "subscribed" /\ ws_phase' = "serving" /\ ws_gen' = ws_gen + 1
        /\ UNCHANGED <<ws_nextID, ws_conns, ws_clients, ws_asked, ws_writes>>
    BY <1>2 DEF WebSockets!Replace
  <2>2. ws_gen' \in WebSockets!Objects
    BY <2>1, SocketFacts DEF SocketsInv, WebSockets!Objects
  <2>3. SocketNumbersInv' /\ AskedInv'
    BY <2>1, <2>2, SocketFacts, EndsKeepNumbers DEF SocketsInv, SocketNumbersInv
  <2>4. ClientsInv'
    BY <2>1 DEF SocketsInv, ClientsInv
  <2>5. WebSockets!StopClosesClients'
    BY <2>1, SocketFacts DEF SocketsInv, WebSockets!StopClosesClients, WebSockets!IsStopped
  <2> QED BY <2>1, <2>2, <2>3, <2>4, <2>5 DEF SocketsInv, WebSockets!OnlyTheAskerIsAnswered
<1> QED BY <1>1, <1>2

-----------------------------------------------------------------------------
(* The theorem *)

LEMMA SocketsKeep ==
  ASSUME WebSockets!WebSocketsAssumption
  PROVE  SocketsInv /\ [WebSockets!Next]_(WebSockets!vars) => SocketsInv'
<1> SUFFICES ASSUME SocketsInv, [WebSockets!Next]_(WebSockets!vars) PROVE SocketsInv'
  OBVIOUS
<1>1. CASE WebSockets!Accept
  BY <1>1, AcceptStep
<1>2. CASE WebSockets!Shutdown \/ WebSockets!Unsubscribe \/ WebSockets!Subscribe \/ WebSockets!Replace
  BY <1>2, SocketReloadStep
<1>3. CASE WebSockets!CloseClients
  BY <1>3, CloseClientsStep
<1>4. ASSUME NEW c \in DOMAIN ws_conns, WebSockets!Register(c) \/ WebSockets!Receive(c) PROVE SocketsInv'
  BY <1>4, RegisterStep, ReceiveStep
<1>5. ASSUME NEW c \in DOMAIN ws_conns, WebSockets!Disconnect(c) \/ WebSockets!Unregister(c) PROVE SocketsInv'
  BY <1>5, DisconnectStep, UnregisterStep
<1>6. ASSUME NEW q \in DOMAIN ws_asked,
             WebSockets!TurnBegins(q) \/ WebSockets!Dispatch(q) \/ WebSockets!WriteToClient(q)
      PROVE  SocketsInv'
  BY <1>6, FoundStep, WriteStep
<1>7. CASE UNCHANGED WebSockets!vars
  BY <1>7 DEF WebSockets!vars, SocketsInv, SocketNumbersInv, Numbered, ClientsInv, AskedInv,
     WebSockets!OnlyTheAskerIsAnswered,
              WebSockets!StopClosesClients, WebSockets!IsStopped
<1> QED BY <1>1, <1>2, <1>3, <1>4, <1>5, <1>6, <1>7 DEF WebSockets!Next

\* The web channel, for any clients, messages and reloads, which streams outlive: as long as the asker
\* is registered with the object that answers nobody else gets a word of its answer, and Stop leaves only a client connected that was in its handshake.
THEOREM ClientsToldApart ==
  ASSUME WebSockets!WebSocketsAssumption
  PROVE  WebSockets!Spec => []WebSockets!WebClientsAreToldApart
<1>1. WebSockets!Init => SocketsInv
  BY SocketsInit
<1>2. SocketsInv /\ [WebSockets!Next]_(WebSockets!vars) => SocketsInv'
  BY SocketsKeep
<1>3. SocketsInv => WebSockets!WebClientsAreToldApart
  BY SocketsInvIsEnough
<1> QED BY <1>1, <1>2, <1>3, PTL DEF WebSockets!Spec

-----------------------------------------------------------------------------
ConversationEvents == {"start", "say"}
Says(s) == {i \in DOMAIN s : s[i] = "say"}

\* Utterances on their way to the turn loop.
Waiting == Cardinality(Says(cv_events))
Sending == IF cv_stt = "sending" THEN 1 ELSE 0
Handled == IF cv_held = "say" THEN 1 ELSE 0

\* Each turn is of an utterance, and no utterance has two.
UtterancesInv ==
  /\ cv_events \in Seq(ConversationEvents) /\ cv_held \in ConversationEvents \cup {"none"}
  /\ IsFiniteSet(Says(cv_events)) /\ Waiting \in Nat
  /\ cv_turn \in Nat /\ cv_said \in 0..cv_MaxTurns /\ cv_left \in Nat
  /\ cv_turn + Handled + Waiting + Sending <= cv_said

\* Until Render has written the ending of its turn the client has seen none, and what the client saw
\* is not of a turn to come.
WireInv ==
  /\ cv_wire = [kind |-> cv_wire.kind, turn |-> cv_wire.turn, ends |-> cv_wire.ends]
  /\ cv_wire.kind \in {"heard", "pcm", "done", "clear"} /\ cv_wire.turn \in Nat /\ cv_wire.ends \in Nat
  /\ cv_wire.turn <= cv_turn
  /\ cv_render \in {"rendering", "clearing"} => cv_wire.ends = 0
     /\ (cv_wire.kind = "heard" => cv_wire.turn < cv_turn)

\* The inductive invariant.
ConversationInv == Conversation!TypeOK /\ UtterancesInv /\ WireInv /\ Conversation!EndsOnce
/\ Conversation!ReturnedIsQuiet

-----------------------------------------------------------------------------
(* Utterances in a queue *)

LEMMA SaysAppend ==
  ASSUME NEW s \in Seq(ConversationEvents), IsFiniteSet(Says(s)), NEW e \in ConversationEvents
  PROVE  /\ Append(s, e) \in Seq(ConversationEvents) /\ Len(Append(s, e)) = Len(s) + 1
         /\ IsFiniteSet(Says(Append(s, e)))
         /\ Cardinality(Says(Append(s, e))) = Cardinality(Says(s)) + (IF e = "say" THEN 1 ELSE 0)
<1>1. DOMAIN Append(s, e) = DOMAIN s \cup {Len(s) + 1} /\ Len(s) + 1 \notin DOMAIN s
  OBVIOUS
<1>2. Append(s, e)[Len(s) + 1] = e /\ \A i \in DOMAIN s : Append(s, e)[i] = s[i]
  OBVIOUS
<1>3. Says(Append(s, e)) = Says(s) \cup (IF e = "say" THEN {Len(s) + 1} ELSE {})
  BY <1>1, <1>2 DEF Says
<1>4. Len(s) + 1 \notin Says(s)
  BY <1>1 DEF Says
<1>5. CASE e = "say"
  <2>1. Says(Append(s, e)) = Says(s) \cup {Len(s) + 1}
    BY <1>3, <1>5
  <2> QED BY <1>4, <1>5, <2>1, FS_AddElement
<1>6. CASE e # "say"
  <2>1. Says(Append(s, e)) = Says(s)
    BY <1>3, <1>6
  <2>2. Cardinality(Says(s)) \in Nat
    BY FS_CardinalityType
  <2> QED BY <1>6, <2>1, <2>2
<1> QED BY <1>5, <1>6

LEMMA SaysTail ==
  ASSUME NEW s \in Seq(ConversationEvents), IsFiniteSet(Says(s)), s # <<>>
  PROVE  /\ Head(s) \in ConversationEvents /\ Tail(s) \in Seq(ConversationEvents) /\ Len(Tail(s)) = Len(s) - 1
         /\ IsFiniteSet(Says(Tail(s)))
         /\ Cardinality(Says(Tail(s))) = Cardinality(Says(s)) - (IF Head(s) = "say" THEN 1 ELSE 0)
<1>1. Head(s) \in ConversationEvents /\ Tail(s) \in Seq(ConversationEvents) /\ Len(Tail(s)) = Len(s) - 1
      /\ Head(s) = s[1]
  OBVIOUS
<1>2. DOMAIN s = 1..Len(s) /\ DOMAIN Tail(s) = 1..(Len(s) - 1) /\ Len(s) \in Nat \ {0}
      /\ \A i \in 1..(Len(s) - 1) : Tail(s)[i] = s[i + 1]
  OBVIOUS
<1> DEFINE S == Says(s) \ {1}
           T == Says(Tail(s))
           f == [i \in S |-> i - 1]
<1>3. IsFiniteSet(S) /\ Cardinality(S) = Cardinality(Says(s)) - (IF 1 \in Says(s) THEN 1 ELSE 0)
  <2>1. IsFiniteSet(S) /\ Cardinality(S) = IF 1 \in Says(s)
        THEN Cardinality(Says(s)) - 1 ELSE Cardinality(Says(s))
    BY FS_RemoveElement
  <2>2. Cardinality(Says(s)) \in Nat
    BY FS_CardinalityType
  <2> QED BY <2>1, <2>2
<1>4. 1 \in Says(s) <=> Head(s) = "say"
  BY <1>1, <1>2 DEF Says
<1>5. \A i \in S : i \in 2..Len(s) /\ s[i] = "say" /\ i - 1 \in T
  <2> SUFFICES ASSUME NEW i \in S PROVE i \in 2..Len(s) /\ s[i] = "say" /\ i - 1 \in T
    OBVIOUS
  <2>1. i \in 2..Len(s) /\ s[i] = "say"
    BY <1>2 DEF Says
  <2>2. i - 1 \in 1..(Len(s) - 1) /\ (i - 1) + 1 = i
    BY <1>2, <2>1
  <2>3. Tail(s)[i - 1] = "say"
    BY <1>2, <2>1, <2>2
  <2> QED BY <1>2, <2>1, <2>2, <2>3 DEF Says
<1>6. \A j \in T : j \in Nat /\ j + 1 \in S /\ (j + 1) - 1 = j
  BY <1>2 DEF Says
<1> HIDE DEF S, T
<1>7. ExistsBijection(S, T)
  <2>1. f \in [S -> T]
    BY <1>5
  <2>2. \A i, j \in S : f[i] = f[j] => i = j
    BY <1>5
  <2>3. \A j \in T : \E i \in S : f[i] = j
    BY <1>6
  <2> HIDE DEF f
  <2>4. f \in Injection(S, T)
    BY <2>1, <2>2, Zenon DEF Injection, IsInjective
  <2>5. f \in Surjection(S, T)
    BY <2>1, <2>3, Zenon DEF Surjection
  <2> QED BY <2>4, <2>5, Zenon DEF Bijection, ExistsBijection
<1>8. IsFiniteSet(T) /\ Cardinality(T) = Cardinality(S)
  BY <1>3, <1>7, FS_Bijection
<1> QED BY <1>1, <1>3, <1>4, <1>8 DEF S, T

-----------------------------------------------------------------------------
(* The steps *)

LEMMA ConversationInit ==
  ASSUME Conversation!ConversationAssumption
  PROVE  Conversation!Init => ConversationInv
<1> SUFFICES ASSUME Conversation!Init PROVE ConversationInv
  OBVIOUS
<1>1. cv_events \in Seq(ConversationEvents) /\ Len(cv_events) = 0 /\ Says(cv_events) = {}
  BY DEF Conversation!Init, Says
<1>2. IsFiniteSet(Says(cv_events)) /\ Cardinality(Says(cv_events)) = 0
  BY <1>1, FS_EmptySet
<1>0. cv_Cap \in Nat /\ cv_EventCap \in Nat /\ cv_MaxFrames \in Nat /\ cv_MaxTurns \in Nat
  BY DEF Conversation!ConversationAssumption
<1>3. Conversation!TypeOK
  <2>1. cv_sent \in 0..cv_MaxFrames /\ cv_vadQ \in 0..cv_Cap /\ cv_sttQ \in 0..cv_Cap /\ cv_pcm \in 0..cv_Cap
        /\ cv_turn \in 0..cv_MaxTurns
        /\ Len(cv_events) <= cv_EventCap
    BY <1>0, <1>1 DEF Conversation!Init
  <2> QED BY <2>1 DEF Conversation!Init, Conversation!TypeOK
<1>4. UtterancesInv
  BY <1>1, <1>2 DEF Conversation!Init, UtterancesInv, Waiting, Sending, Handled,
     Conversation!ConversationAssumption
<1>5. WireInv /\ Conversation!EndsOnce /\ Conversation!ReturnedIsQuiet
  BY DEF Conversation!Init, WireInv, Conversation!EndsOnce, Conversation!ReturnedIsQuiet
<1> QED BY <1>3, <1>4, <1>5 DEF ConversationInv

\* The source: it leaves the turn and the wire alone.
LEMMA SourceKeeps ==
  ASSUME Conversation!ConversationAssumption, ConversationInv,
         Conversation!ReadFrame \/ Conversation!ReadEnds \/ Conversation!TeeSend \/ Conversation!VadTakes \/ Conversation!VadSends \/ Conversation!SttTakes \/ Conversation!SttSends \/ Conversation!SttFails
  PROVE  ConversationInv' /\ UNCHANGED cv_wire
<1>0. Conversation!TypeOK /\ UtterancesInv /\ WireInv /\ Conversation!EndsOnce /\ Conversation!ReturnedIsQuiet
      /\ cv_Cap \in Nat /\ cv_EventCap \in Nat /\ cv_MaxFrames \in Nat /\ cv_MaxTurns \in Nat
  BY DEF ConversationInv, Conversation!ConversationAssumption
<1>1. UNCHANGED <<cv_loop, cv_held, cv_cancelled, cv_turn, cv_left, cv_pcm, cv_synth, cv_render, cv_conn,
                  cv_ctxDone, cv_registered, cv_stopped, cv_wire>>
  BY DEF Conversation!ReadFrame, Conversation!ReadEnds, Conversation!TeeSend, Conversation!VadTakes,
     Conversation!VadSends, Conversation!SttTakes, Conversation!SttSends, Conversation!SttFails,
     Conversation!reply, Conversation!handler
<1>2. WireInv' /\ Conversation!EndsOnce' /\ Conversation!ReturnedIsQuiet'
  BY <1>0, <1>1 DEF WireInv, Conversation!EndsOnce, Conversation!ReturnedIsQuiet, Conversation!TurnIsOver
<1>3. ASSUME Len(cv_events') <= cv_EventCap,
             cv_sent' \in 0..cv_MaxFrames, cv_vadQ' \in 0..cv_Cap, cv_sttQ' \in 0..cv_Cap,
             cv_tee' \in {"idle", "vad", "stt", "done"},
             cv_vad' \in {"listening", "sending", "done"}, cv_stt' \in {"listening", "sending", "over"}
      PROVE  Conversation!TypeOK'
  BY <1>0, <1>1, <1>3 DEF Conversation!TypeOK
<1>4. ASSUME UNCHANGED <<cv_stt, cv_said, cv_events>> PROVE UtterancesInv'
  BY <1>0, <1>1, <1>4 DEF UtterancesInv, Waiting, Sending, Handled
<1>5. CASE Conversation!ReadFrame \/ Conversation!ReadEnds \/ Conversation!TeeSend
  <2>1. cv_sent' \in 0..cv_MaxFrames /\ cv_vadQ' \in 0..cv_Cap /\ cv_sttQ' \in 0..cv_Cap
        /\ cv_tee' \in {"idle", "vad", "stt", "done"}
    <3>1. CASE Conversation!ReadFrame
      BY <1>0, <3>1 DEF Conversation!ReadFrame, Conversation!TypeOK
    <3>2. CASE Conversation!ReadEnds
      BY <1>0, <3>2 DEF Conversation!ReadEnds, Conversation!TypeOK
    <3>3. CASE Conversation!TeeSend
      BY <1>0, <3>3 DEF Conversation!TeeSend, Conversation!TypeOK
    <3> QED BY <1>5, <3>1, <3>2, <3>3
  <2>2. UNCHANGED <<cv_vad, cv_stt, cv_said, cv_events>>
    BY <1>5 DEF Conversation!ReadFrame, Conversation!ReadEnds, Conversation!TeeSend
  <2>3. Conversation!TypeOK'
    BY <1>0, <1>3, <2>1, <2>2 DEF Conversation!TypeOK
  <2> QED BY <1>1, <1>2, <1>4, <2>2, <2>3 DEF ConversationInv
<1>6. CASE Conversation!VadTakes
  <2>1. cv_vadQ' \in 0..cv_Cap /\ cv_vad' \in {"listening", "sending", "done"}
        /\ UNCHANGED <<cv_sent, cv_tee, cv_sttQ, cv_stt, cv_said, cv_events>>
    BY <1>0, <1>6 DEF Conversation!VadTakes, Conversation!TypeOK
  <2>2. Conversation!TypeOK'
    BY <1>0, <1>3, <2>1 DEF Conversation!TypeOK
  <2> QED BY <1>1, <1>2, <1>4, <2>1, <2>2 DEF ConversationInv
<1>7. CASE Conversation!VadSends
  <2>1. cv_vad' \in {"listening", "done"} /\ UNCHANGED <<cv_sent, cv_tee, cv_vadQ, cv_sttQ, cv_stt, cv_said>>
    BY <1>7 DEF Conversation!VadSends
  <2>2. CASE Len(cv_events) < cv_EventCap /\ cv_events' = Append(cv_events, "start")
    <3>1. /\ cv_events' \in Seq(ConversationEvents) /\ Len(cv_events') = Len(cv_events) + 1
          /\ IsFiniteSet(Says(cv_events')) /\ Cardinality(Says(cv_events')) = Cardinality(Says(cv_events))
      <4>1. cv_events \in Seq(ConversationEvents) /\ IsFiniteSet(Says(cv_events))
            /\ "start" \in ConversationEvents /\ Cardinality(Says(cv_events)) \in Nat
        BY <1>0 DEF UtterancesInv, ConversationEvents, Waiting
      <4> QED BY <2>2, <4>1, SaysAppend
    <3>2. Conversation!TypeOK'
      BY <1>0, <1>3, <2>1, <2>2, <3>1 DEF Conversation!TypeOK, UtterancesInv
    <3>3. UtterancesInv'
      BY <1>0, <1>1, <2>1, <3>1 DEF UtterancesInv, Waiting, Sending, Handled
    <3> QED BY <1>1, <1>2, <3>2, <3>3 DEF ConversationInv
  <2>3. CASE UNCHANGED cv_events
    <3>1. Conversation!TypeOK'
      BY <1>0, <1>3, <2>1, <2>3 DEF Conversation!TypeOK
    <3> QED BY <1>1, <1>2, <1>4, <2>1, <2>3, <3>1 DEF ConversationInv
  <2> QED BY <1>7, <2>2, <2>3 DEF Conversation!VadSends
<1>8. CASE Conversation!SttTakes \/ Conversation!SttFails
  <2>1. /\ cv_sttQ' \in 0..cv_Cap /\ cv_stt' \in {"listening", "sending", "over"} /\ cv_stt = "listening"
        /\ cv_said' \in 0..cv_MaxTurns
           /\ ((cv_said' = cv_said /\ cv_stt' # "sending") \/ cv_said' = cv_said + 1)
        /\ UNCHANGED <<cv_sent, cv_tee, cv_vadQ, cv_vad, cv_events>>
    BY <1>0, <1>8 DEF Conversation!SttTakes, Conversation!SttFails, Conversation!TypeOK, UtterancesInv
  <2>2. Conversation!TypeOK'
    BY <1>0, <1>3, <2>1 DEF Conversation!TypeOK
  <2>3. UtterancesInv'
    BY <1>0, <1>1, <2>1 DEF UtterancesInv, Waiting, Sending, Handled
  <2> QED BY <1>1, <1>2, <2>2, <2>3 DEF ConversationInv
<1>9. CASE Conversation!SttSends
  <2>1. cv_stt = "sending" /\ cv_stt' \in {"listening", "over"}
        /\ UNCHANGED <<cv_sent, cv_tee, cv_vadQ, cv_sttQ, cv_vad, cv_said>>
    BY <1>9 DEF Conversation!SttSends
  <2>2. CASE Len(cv_events) < cv_EventCap /\ cv_events' = Append(cv_events, "say")
    <3>1. /\ cv_events' \in Seq(ConversationEvents) /\ Len(cv_events') = Len(cv_events) + 1
          /\ IsFiniteSet(Says(cv_events')) /\ Cardinality(Says(cv_events')) = Cardinality(Says(cv_events)) + 1
      <4>1. cv_events \in Seq(ConversationEvents) /\ IsFiniteSet(Says(cv_events))
            /\ "say" \in ConversationEvents
        BY <1>0 DEF UtterancesInv, ConversationEvents
      <4> QED BY <2>2, <4>1, SaysAppend
    <3>2. Conversation!TypeOK'
      BY <1>0, <1>3, <2>1, <2>2, <3>1 DEF Conversation!TypeOK, UtterancesInv
    <3>3. UtterancesInv'
      BY <1>0, <1>1, <2>1, <3>1 DEF UtterancesInv, Waiting, Sending, Handled
    <3> QED BY <1>1, <1>2, <3>2, <3>3 DEF ConversationInv
  <2>3. CASE UNCHANGED cv_events
    <3>1. Conversation!TypeOK'
      BY <1>0, <1>3, <2>1, <2>3 DEF Conversation!TypeOK
    <3>2. UtterancesInv'
      BY <1>0, <1>1, <2>1, <2>3 DEF UtterancesInv, Waiting, Sending, Handled
    <3> QED BY <1>1, <1>2, <3>1, <3>2 DEF ConversationInv
  <2> QED BY <1>9, <2>2, <2>3 DEF Conversation!SttSends
<1> QED BY <1>1, <1>5, <1>6, <1>7, <1>8, <1>9

\* What BargeInSilences asks of a step.
Silent == /\ cv_wire.turn <= cv_wire'.turn
          /\ cv_wire.kind = "heard" /\ cv_wire'.kind # "heard" => cv_wire'.turn > cv_wire.turn

\* The turn loop.
LEMMA LoopKeeps ==
  ASSUME Conversation!ConversationAssumption, ConversationInv,
         Conversation!TakeEvent \/ Conversation!Handle \/ Conversation!SourcesEnd \/ Conversation!LoopCancelled \/ Conversation!Return
  PROVE  ConversationInv' /\ (cv_wire' = cv_wire \/ Silent)
<1>0. Conversation!TypeOK /\ UtterancesInv /\ WireInv /\ Conversation!EndsOnce /\ Conversation!ReturnedIsQuiet
      /\ cv_EventCap \in Nat /\ cv_MaxTurns \in Nat
  BY DEF ConversationInv, Conversation!ConversationAssumption
<1>1. UNCHANGED Conversation!source
  BY DEF Conversation!TakeEvent, Conversation!Handle, Conversation!SourcesEnd, Conversation!LoopCancelled,
     Conversation!Return
<1>2. CASE Conversation!TakeEvent
  <2>1. /\ cv_held' \in ConversationEvents /\ cv_events' \in Seq(ConversationEvents)
           /\ Len(cv_events') = Len(cv_events) - 1
        /\ IsFiniteSet(Says(cv_events'))
        /\ Cardinality(Says(cv_events')) = Cardinality(Says(cv_events)) - (IF cv_held' = "say" THEN 1 ELSE 0)
    <3>1. cv_events \in Seq(ConversationEvents) /\ IsFiniteSet(Says(cv_events)) /\ cv_events # <<>>
          /\ cv_held' = Head(cv_events) /\ cv_events' = Tail(cv_events)
      BY <1>0, <1>2 DEF UtterancesInv, Conversation!TakeEvent
    <3> QED BY <3>1, SaysTail
  <2>2. Cardinality(Says(cv_events')) \in Nat
    BY <2>1, FS_CardinalityType
  <2>3. UNCHANGED <<cv_turn, cv_left, cv_pcm, cv_synth, cv_render, cv_conn, cv_ctxDone, cv_registered,
                    cv_stopped, cv_wire>> /\ cv_loop' = "wait" /\ cv_cancelled' = TRUE
    BY <1>2 DEF Conversation!TakeEvent, Conversation!reply, Conversation!handler
  <2>4. UtterancesInv'
    <3>1. cv_turn + Handled' + Waiting' + Sending' <= cv_said
      BY <1>0, <1>1, <2>1, <2>2 DEF UtterancesInv, Waiting, Sending, Handled, Conversation!source
    <3> QED BY <1>0, <1>1, <2>1, <2>2, <2>3, <3>1 DEF UtterancesInv, Waiting, Conversation!source
  <2>5. Conversation!TypeOK'
    BY <1>0, <1>1, <2>1, <2>3 DEF Conversation!TypeOK, Conversation!source, UtterancesInv
  <2>6. WireInv' /\ Conversation!EndsOnce' /\ Conversation!ReturnedIsQuiet'
    BY <1>0, <2>3 DEF WireInv, Conversation!EndsOnce, Conversation!ReturnedIsQuiet
  <2> QED BY <2>3, <2>4, <2>5, <2>6 DEF ConversationInv
<1>3. CASE Conversation!Handle
  <2>1. /\ cv_loop' = "select" /\ cv_held' = "none" /\ cv_render \in {"none", "done"}
           /\ UNCHANGED <<cv_events, cv_conn, cv_ctxDone, cv_registered, cv_stopped>>
        /\ cv_wire' = [kind |-> "heard", turn |-> cv_turn, ends |-> 0]
    BY <1>3 DEF Conversation!Handle, Conversation!TurnIsOver, Conversation!Record, Conversation!handler
  <2>2. cv_turn \in Nat /\ cv_wire.turn <= cv_turn /\ Silent /\ Conversation!EndsOnce'
    BY <1>0, <2>1 DEF UtterancesInv, WireInv, Silent, Conversation!EndsOnce
  <2>3. Conversation!ReturnedIsQuiet'
    BY <2>1 DEF Conversation!ReturnedIsQuiet
  <2>4. CASE cv_held = "say"
    <3>1. cv_turn' = cv_turn + 1 /\ cv_cancelled' = FALSE /\ cv_left' \in 0..cv_MaxChunks /\ cv_pcm' = 0
          /\ cv_synth' = "running" /\ cv_render' = "rendering"
      BY <1>3, <2>4 DEF Conversation!Handle
    <3>2. cv_turn' \in Nat /\ cv_left' \in Nat /\ cv_turn' + Handled' + Waiting' + Sending' <= cv_said'
          /\ cv_turn' \in 0..cv_MaxTurns
      BY <1>0, <1>1, <2>1, <2>4, <3>1 DEF UtterancesInv, Waiting, Sending, Handled, Conversation!source,
         Conversation!ConversationAssumption
    <3>3. UtterancesInv'
      BY <1>0, <1>1, <2>1, <3>2 DEF UtterancesInv, Waiting, Conversation!source
    <3>4. WireInv'
      BY <2>1, <2>2, <3>1 DEF WireInv
    <3>5. Conversation!TypeOK'
      BY <1>0, <1>1, <2>1, <3>1, <3>2 DEF Conversation!TypeOK, Conversation!source,
         Conversation!ConversationAssumption
    <3> QED BY <2>2, <2>3, <3>3, <3>4, <3>5 DEF ConversationInv
  <2>5. CASE cv_held # "say"
    <3>1. UNCHANGED <<cv_turn, cv_left, cv_pcm, cv_synth, cv_render, cv_cancelled>>
      BY <1>3, <2>5 DEF Conversation!Handle, Conversation!reply
    <3>2. UtterancesInv'
      BY <1>0, <1>1, <2>1, <2>5, <3>1 DEF UtterancesInv, Waiting, Sending, Handled, Conversation!source
    <3>3. WireInv'
      BY <2>1, <2>2, <3>1 DEF WireInv
    <3>4. Conversation!TypeOK'
      BY <1>0, <1>1, <2>1, <3>1 DEF Conversation!TypeOK, Conversation!source
    <3> QED BY <2>2, <2>3, <3>2, <3>3, <3>4 DEF ConversationInv
  <2> QED BY <2>4, <2>5
<1>4. CASE Conversation!SourcesEnd \/ Conversation!LoopCancelled \/ Conversation!Return
  <2>1. /\ UNCHANGED <<cv_turn, cv_left, cv_pcm, cv_synth, cv_render, cv_wire, cv_events, cv_held,
                       cv_stopped>>
        /\ cv_loop' \in {"drain", "quit", "returned"} /\ (cv_loop' = "returned" => Conversation!TurnIsOver)
        /\ cv_conn' \in {cv_conn, "closed"} /\ cv_ctxDone' \in {cv_ctxDone, TRUE}
           /\ cv_registered' \in {cv_registered, FALSE}
    BY <1>4 DEF Conversation!SourcesEnd, Conversation!LoopCancelled, Conversation!Return, Conversation!reply,
       Conversation!handler
  <2>2. UtterancesInv' /\ WireInv' /\ Conversation!EndsOnce' /\ Conversation!ReturnedIsQuiet'
    BY <1>0, <1>1, <2>1 DEF UtterancesInv, Waiting, Sending, Handled, Conversation!source, WireInv,
       Conversation!EndsOnce, Conversation!ReturnedIsQuiet, Conversation!TurnIsOver
  <2>3. cv_conn' \in {"open", "closed"} /\ cv_ctxDone' \in BOOLEAN /\ cv_registered' \in BOOLEAN
    <3>1. (cv_conn' = cv_conn \/ cv_conn' = "closed") /\ (cv_ctxDone' = cv_ctxDone \/ cv_ctxDone' = TRUE)
          /\ (cv_registered' = cv_registered \/ cv_registered' = FALSE)
      BY <2>1
    <3>2. cv_conn \in {"open", "closed"} /\ cv_ctxDone \in BOOLEAN /\ cv_registered \in BOOLEAN
      BY <1>0 DEF Conversation!TypeOK
    <3> QED BY <3>1, <3>2
  <2>4. Conversation!TypeOK'
    BY <1>0, <1>1, <2>1, <2>3 DEF Conversation!TypeOK, Conversation!source
  <2> QED BY <2>1, <2>2, <2>4 DEF ConversationInv
<1> QED BY <1>2, <1>3, <1>4

\* The reply, the sink, the client and the transport.
LEMMA ReplyKeeps ==
  ASSUME Conversation!ConversationAssumption, ConversationInv,
         \/ Conversation!Produce \/ Conversation!SynthEnds \/ Conversation!TtsFails
         \/ Conversation!WritePcm \/ Conversation!WriteDone \/ Conversation!SeeCancel \/ Conversation!WriteClear \/ Conversation!Settle
         \/ Conversation!ClientCloses \/ Conversation!Displaced \/ Conversation!Stop \/ UNCHANGED Conversation!vars
  PROVE  ConversationInv' /\ (cv_wire' = cv_wire \/ Silent)
<1>0. Conversation!TypeOK /\ UtterancesInv /\ WireInv /\ Conversation!EndsOnce /\ Conversation!ReturnedIsQuiet
      /\ cv_Cap \in Nat
  BY DEF ConversationInv, Conversation!ConversationAssumption
<1>1. UNCHANGED <<Conversation!source, cv_events, cv_loop, cv_held, cv_cancelled, cv_turn>>
  BY DEF Conversation!Produce, Conversation!SynthEnds, Conversation!TtsFails, Conversation!WritePcm,
     Conversation!WriteDone, Conversation!SeeCancel, Conversation!WriteClear, Conversation!Settle,
     Conversation!ClientCloses, Conversation!Displaced,
         Conversation!Stop, Conversation!vars, Conversation!reply
<1>2. cv_left' \in Nat /\ cv_pcm' \in 0..cv_Cap /\ cv_synth' \in {"running", "closed"}
  BY <1>0 DEF Conversation!Produce, Conversation!SynthEnds, Conversation!TtsFails, Conversation!WritePcm,
     Conversation!WriteDone, Conversation!SeeCancel, Conversation!WriteClear, Conversation!Settle,
     Conversation!ClientCloses, Conversation!Displaced,
         Conversation!Stop, Conversation!vars, Conversation!reply, Conversation!TypeOK, UtterancesInv
<1>3. /\ cv_conn' \in {"open", "closed"} /\ cv_ctxDone' \in BOOLEAN /\ cv_registered' \in BOOLEAN
         /\ cv_stopped' \in BOOLEAN
  BY <1>0 DEF Conversation!Produce, Conversation!SynthEnds, Conversation!TtsFails, Conversation!WritePcm,
     Conversation!WriteDone, Conversation!SeeCancel, Conversation!WriteClear, Conversation!Settle,
     Conversation!ClientCloses, Conversation!Displaced,
         Conversation!Stop, Conversation!vars, Conversation!handler, Conversation!TypeOK
<1>4. UtterancesInv'
  BY <1>0, <1>1, <1>2 DEF UtterancesInv, Waiting, Sending, Handled, Conversation!source
<1>5. \/ UNCHANGED <<cv_render, cv_wire>>
      \/ cv_render = "rendering" /\ cv_render' = "rendering"
         /\ cv_wire' = [kind |-> "pcm", turn |-> cv_turn, ends |-> cv_wire.ends]
      \/ cv_render \in {"rendering", "clearing", "settling"}
         /\ cv_render' \in {"clearing", "settling", "done"}
         /\ (cv_render' = "clearing" => cv_render = "rendering") /\ cv_wire' = cv_wire
      \/ /\ cv_render \in {"rendering", "clearing"} /\ cv_render' \in {"settling", "done"}
         /\ cv_wire' \in {[kind |-> k, turn |-> cv_turn, ends |-> cv_wire.ends + 1] : k \in {"done", "clear"}}
  BY DEF Conversation!Produce, Conversation!SynthEnds, Conversation!TtsFails, Conversation!WritePcm,
     Conversation!WriteDone, Conversation!SeeCancel, Conversation!WriteClear, Conversation!Settle,
     Conversation!ClientCloses, Conversation!Displaced,
         Conversation!Stop, Conversation!vars, Conversation!reply, Conversation!Record
<1>6. /\ cv_render' \in {"none", "rendering", "clearing", "settling", "done"}
      /\ WireInv' /\ Conversation!EndsOnce' /\ (Conversation!TurnIsOver => Conversation!TurnIsOver')
         /\ (cv_wire' = cv_wire \/ Silent)
  BY <1>0, <1>1, <1>5 DEF WireInv, Conversation!EndsOnce, Conversation!TurnIsOver, Silent, UtterancesInv,
     Conversation!TypeOK
<1>7. Conversation!ReturnedIsQuiet'
  BY <1>0, <1>1, <1>6 DEF Conversation!ReturnedIsQuiet
<1>8. Conversation!TypeOK'
  BY <1>0, <1>1, <1>2, <1>3, <1>6 DEF Conversation!TypeOK, Conversation!source
<1> QED BY <1>4, <1>6, <1>7, <1>8 DEF ConversationInv

\* A conversation over a web socket, for any frames, utterances, replies and buffers: a turn's frames
\* come before its one ending, no frame of a turn comes after an event that cancelled it, and the
\* handler does not return before the sink.
THEOREM TurnsApart ==
  ASSUME Conversation!ConversationAssumption
  PROVE  Conversation!Spec => [](Conversation!TypeOK /\ Conversation!EndsOnce /\ Conversation!ReturnedIsQuiet)
         /\ Conversation!BargeInSilences
<1>1. Conversation!Init => ConversationInv
  BY ConversationInit
<1>2. ConversationInv /\ [Conversation!Next]_(Conversation!vars) => ConversationInv'
      /\ (cv_wire' = cv_wire \/ Silent)
  BY SourceKeeps, LoopKeeps, ReplyKeeps DEF Conversation!Next
<1>3. ConversationInv => Conversation!TypeOK /\ Conversation!EndsOnce /\ Conversation!ReturnedIsQuiet
  BY DEF ConversationInv
<1>4. cv_wire' = cv_wire \/ Silent => [/\ cv_wire.turn <= cv_wire'.turn
                                       /\ cv_wire.kind = "heard" /\ cv_wire'.kind # "heard"
                                          => cv_wire'.turn > cv_wire.turn]_cv_wire
  BY DEF Silent
<1> QED BY <1>1, <1>2, <1>3, <1>4, PTL DEF Conversation!Spec, Conversation!BargeInSilences

-----------------------------------------------------------------------------
ReplEvents == {"start", "say"}
HasSay(s) == \E i \in DOMAIN s : s[i] = "say"

\* What is in hand: the gate's event while it forwards it, the loop's while it waits.
InHandInv ==
  /\ vr_events \in Seq(ReplEvents) /\ vr_passing \in ReplEvents \cup {"none"}
     /\ vr_held \in ReplEvents \cup {"none"}
  /\ vr_gate # "forward" => vr_passing = "none"
  /\ vr_gate = "forward" => vr_passing \in ReplEvents
  /\ vr_loop # "wait" => vr_held = "none"

\* An open window without a timer waits for an utterance, for its reply, or for the signal of its end;
\* a reply that was cut gives none.
WindowInv ==
  vr_active /\ ~vr_timer =>
    \/ vr_passing = "say" \/ HasSay(vr_events) \/ vr_held = "say"
    \/ vr_speaker \in {"playing", "broken"} \/ vr_replyDone > 0 \/ vr_ended = "cut" \/ vr_gate = "closed"

\* The inductive invariant.
ReplInv == VoiceRepl!TypeOK /\ InHandInv /\ WindowInv /\ (vr_timer => vr_active)

-----------------------------------------------------------------------------
LEMMA HasSayIs ==
  ASSUME NEW s \in Seq(ReplEvents)
  PROVE  /\ ~HasSay(<<>>)
         /\ \A e \in ReplEvents : /\ Append(s, e) \in Seq(ReplEvents) /\ Len(Append(s, e)) = Len(s) + 1
                                  /\ HasSay(Append(s, e)) <=> HasSay(s) \/ e = "say"
         /\ s # <<>> => /\ Head(s) \in ReplEvents /\ Tail(s) \in Seq(ReplEvents) /\ Len(Tail(s)) = Len(s) - 1
                        /\ HasSay(s) => Head(s) = "say" \/ HasSay(Tail(s))
<1>1. ASSUME NEW e \in ReplEvents PROVE HasSay(Append(s, e)) <=> HasSay(s) \/ e = "say"
  <2>1. DOMAIN Append(s, e) = DOMAIN s \cup {Len(s) + 1}
    OBVIOUS
  <2>2. Append(s, e)[Len(s) + 1] = e /\ \A i \in DOMAIN s : Append(s, e)[i] = s[i]
    OBVIOUS
  <2> QED BY <2>1, <2>2 DEF HasSay
<1>2. ASSUME s # <<>>, HasSay(s), Head(s) # "say" PROVE HasSay(Tail(s))
  <2>1. PICK i \in DOMAIN s : s[i] = "say"
    BY <1>2 DEF HasSay
  <2>2. i # 1 /\ i \in 1..Len(s)
    BY <1>2, <2>1
  <2>3. i - 1 \in DOMAIN Tail(s) /\ Tail(s)[i - 1] = s[i]
    BY <1>2, <2>2
  <2> QED BY <2>1, <2>3 DEF HasSay
<1> QED BY <1>1, <1>2 DEF HasSay

LEMMA ReplInit == ASSUME VoiceRepl!VoiceReplAssumption PROVE VoiceRepl!Init => ReplInv
<1> SUFFICES ASSUME VoiceRepl!Init PROVE ReplInv
  OBVIOUS
<1>1. vr_events \in Seq(ReplEvents) /\ Len(vr_events) = 0 /\ vr_replyDone \in 0..vr_DoneCap
      /\ Len(vr_events) <= vr_EventCap
  BY DEF VoiceRepl!Init, VoiceRepl!VoiceReplAssumption
<1>2. VoiceRepl!TypeOK
  BY <1>1 DEF VoiceRepl!Init, VoiceRepl!TypeOK
<1>3. InHandInv /\ WindowInv /\ (vr_timer => vr_active)
  BY <1>1 DEF VoiceRepl!Init, InHandInv, WindowInv
<1> QED BY <1>2, <1>3 DEF ReplInv

LEMMA ReplStep ==
  ASSUME VoiceRepl!VoiceReplAssumption PROVE ReplInv /\ [VoiceRepl!Next]_(VoiceRepl!vars) => ReplInv'
<1> SUFFICES ASSUME ReplInv, [VoiceRepl!Next]_(VoiceRepl!vars) PROVE ReplInv'
  OBVIOUS
<1> USE DEF ReplInv
<1>0. vr_DoneCap \in Nat \ {0} /\ vr_EventCap \in Nat /\ vr_events \in Seq(ReplEvents)
  BY DEF VoiceRepl!VoiceReplAssumption, InHandInv
<1>1. CASE VoiceRepl!ReadLine \/ VoiceRepl!Hear \/ VoiceRepl!MicEnds \/ VoiceRepl!Interrupt \/ UNCHANGED VoiceRepl!vars
  <2>1. CASE VoiceRepl!ReadLine
    <3>1. VoiceRepl!TypeOK'
      BY <1>0, <2>1 DEF VoiceRepl!ReadLine, VoiceRepl!vars, VoiceRepl!sources, VoiceRepl!window,
         VoiceRepl!turn, VoiceRepl!TypeOK
    <3>2. InHandInv'
      BY <1>0, <2>1 DEF VoiceRepl!ReadLine, VoiceRepl!vars, VoiceRepl!sources, VoiceRepl!window,
         VoiceRepl!turn, InHandInv
    <3>3. WindowInv' /\ (vr_timer' => vr_active')
      BY <1>0, <2>1 DEF VoiceRepl!ReadLine, VoiceRepl!vars, VoiceRepl!sources, VoiceRepl!window,
         VoiceRepl!turn, WindowInv, InHandInv, VoiceRepl!TypeOK
    <3> QED BY <3>1, <3>2, <3>3
  <2>2. CASE VoiceRepl!Hear
    <3>1. VoiceRepl!TypeOK'
      BY <1>0, <2>2 DEF VoiceRepl!Hear, VoiceRepl!vars, VoiceRepl!sources, VoiceRepl!window, VoiceRepl!turn,
         VoiceRepl!TypeOK
    <3>2. InHandInv'
      BY <1>0, <2>2 DEF VoiceRepl!Hear, VoiceRepl!vars, VoiceRepl!sources, VoiceRepl!window, VoiceRepl!turn,
         InHandInv
    <3>3. WindowInv' /\ (vr_timer' => vr_active')
      BY <1>0, <2>2 DEF VoiceRepl!Hear, VoiceRepl!vars, VoiceRepl!sources, VoiceRepl!window, VoiceRepl!turn,
         WindowInv, InHandInv, VoiceRepl!TypeOK
    <3> QED BY <3>1, <3>2, <3>3
  <2>3. CASE VoiceRepl!MicEnds
    <3>1. VoiceRepl!TypeOK'
      BY <1>0, <2>3 DEF VoiceRepl!MicEnds, VoiceRepl!vars, VoiceRepl!sources, VoiceRepl!window,
         VoiceRepl!turn, VoiceRepl!TypeOK
    <3>2. InHandInv'
      BY <1>0, <2>3 DEF VoiceRepl!MicEnds, VoiceRepl!vars, VoiceRepl!sources, VoiceRepl!window,
         VoiceRepl!turn, InHandInv
    <3>3. WindowInv' /\ (vr_timer' => vr_active')
      BY <1>0, <2>3 DEF VoiceRepl!MicEnds, VoiceRepl!vars, VoiceRepl!sources, VoiceRepl!window,
         VoiceRepl!turn, WindowInv, InHandInv, VoiceRepl!TypeOK
    <3> QED BY <3>1, <3>2, <3>3
  <2>4. CASE VoiceRepl!Interrupt
    <3>1. VoiceRepl!TypeOK'
      BY <1>0, <2>4 DEF VoiceRepl!Interrupt, VoiceRepl!vars, VoiceRepl!sources, VoiceRepl!window,
         VoiceRepl!turn, VoiceRepl!TypeOK
    <3>2. InHandInv'
      BY <1>0, <2>4 DEF VoiceRepl!Interrupt, VoiceRepl!vars, VoiceRepl!sources, VoiceRepl!window,
         VoiceRepl!turn, InHandInv
    <3>3. WindowInv' /\ (vr_timer' => vr_active')
      BY <1>0, <2>4 DEF VoiceRepl!Interrupt, VoiceRepl!vars, VoiceRepl!sources, VoiceRepl!window,
         VoiceRepl!turn, WindowInv, InHandInv, VoiceRepl!TypeOK
    <3> QED BY <3>1, <3>2, <3>3
  <2>5. CASE UNCHANGED VoiceRepl!vars
    <3>1. VoiceRepl!TypeOK'
      BY <1>0, <2>5 DEF VoiceRepl!vars, VoiceRepl!sources, VoiceRepl!window, VoiceRepl!turn, VoiceRepl!TypeOK
    <3>2. InHandInv'
      BY <1>0, <2>5 DEF VoiceRepl!vars, VoiceRepl!sources, VoiceRepl!window, VoiceRepl!turn, InHandInv
    <3>3. WindowInv' /\ (vr_timer' => vr_active')
      BY <1>0, <2>5 DEF VoiceRepl!vars, VoiceRepl!sources, VoiceRepl!window, VoiceRepl!turn, WindowInv,
         InHandInv, VoiceRepl!TypeOK
    <3> QED BY <3>1, <3>2, <3>3
  <2> QED BY <1>1, <2>1, <2>2, <2>3, <2>4, <2>5
<1>2. CASE VoiceRepl!KeyboardSends
  <2>1. CASE Len(vr_events) < vr_EventCap /\ vr_events' = Append(vr_events, "say") /\ vr_keyboard' = "reading"
    <3>1. vr_events' \in Seq(ReplEvents) /\ HasSay(vr_events') /\ Len(vr_events') <= vr_EventCap
      BY <1>0, <2>1, HasSayIs DEF ReplEvents
    <3> QED BY <1>2, <2>1, <3>1 DEF VoiceRepl!KeyboardSends, VoiceRepl!window, VoiceRepl!turn,
               VoiceRepl!TypeOK, InHandInv, WindowInv
  <2>2. CASE vr_keyboard' = "closed" /\ UNCHANGED vr_events
    BY <1>2, <2>2 DEF VoiceRepl!KeyboardSends, VoiceRepl!window, VoiceRepl!turn, VoiceRepl!TypeOK, InHandInv,
       WindowInv
  <2> QED BY <1>2, <2>1, <2>2 DEF VoiceRepl!KeyboardSends
<1>3. CASE VoiceRepl!GateTakes
  <2>1. VoiceRepl!TypeOK'
    <3>1. vr_active' \in BOOLEAN /\ vr_timer' \in BOOLEAN /\ vr_gate' \in {"select", "forward", "closed"}
      BY <1>3 DEF VoiceRepl!GateTakes, VoiceRepl!TypeOK
    <3>2. UNCHANGED <<vr_interrupted, vr_cancelled, vr_keyboard, vr_mic, vr_replyDone, vr_events, vr_loop,
                      vr_screen, vr_speaker>>
      BY <1>3 DEF VoiceRepl!GateTakes, VoiceRepl!sources, VoiceRepl!turn
    <3> QED BY <3>1, <3>2 DEF VoiceRepl!TypeOK
  <2>2. InHandInv'
    BY <1>3 DEF VoiceRepl!GateTakes, VoiceRepl!sources, VoiceRepl!turn, InHandInv, ReplEvents
  <2>3. vr_passing = "none"
    BY <1>3 DEF VoiceRepl!GateTakes, InHandInv
  <2>4. WindowInv' /\ (vr_timer' => vr_active')
    BY <1>3, <2>3 DEF VoiceRepl!GateTakes, VoiceRepl!sources, VoiceRepl!turn, WindowInv
  <2> QED BY <2>1, <2>2, <2>4
<1>4. CASE VoiceRepl!GateForwards
  <2>1. CASE Len(vr_events) < vr_EventCap /\ vr_events' = Append(vr_events, vr_passing) /\ vr_gate' = "select"
    <3>1. vr_passing \in ReplEvents
      BY <1>4 DEF VoiceRepl!GateForwards, InHandInv
    <3>2. vr_events' \in Seq(ReplEvents) /\ Len(vr_events') <= vr_EventCap
          /\ (HasSay(vr_events') <=> HasSay(vr_events) \/ vr_passing = "say")
      BY <1>0, <2>1, <3>1, HasSayIs
    <3> QED BY <1>4, <2>1, <3>1, <3>2 DEF VoiceRepl!GateForwards, VoiceRepl!sources, VoiceRepl!turn,
               VoiceRepl!TypeOK, InHandInv, WindowInv
  <2>2. CASE vr_gate' = "closed" /\ UNCHANGED vr_events
    BY <1>4, <2>2 DEF VoiceRepl!GateForwards, VoiceRepl!sources, VoiceRepl!turn, VoiceRepl!TypeOK, InHandInv,
       WindowInv
  <2> QED BY <1>4, <2>1, <2>2 DEF VoiceRepl!GateForwards
<1>5. CASE VoiceRepl!WindowCloses \/ VoiceRepl!GateHearsDone \/ VoiceRepl!GateEnds
  <2>1. CASE VoiceRepl!WindowCloses
    <3>1. VoiceRepl!TypeOK'
      BY <1>0, <2>1 DEF VoiceRepl!WindowCloses, VoiceRepl!sources, VoiceRepl!turn, VoiceRepl!TypeOK
    <3>2. InHandInv'
      BY <1>0, <2>1 DEF VoiceRepl!WindowCloses, VoiceRepl!sources, VoiceRepl!turn, InHandInv
    <3>3. WindowInv' /\ (vr_timer' => vr_active')
      BY <1>0, <2>1 DEF VoiceRepl!WindowCloses, VoiceRepl!sources, VoiceRepl!turn, WindowInv, InHandInv,
         VoiceRepl!TypeOK
    <3> QED BY <3>1, <3>2, <3>3
  <2>2. CASE VoiceRepl!GateHearsDone
    <3>1. VoiceRepl!TypeOK'
      BY <1>0, <2>2 DEF VoiceRepl!GateHearsDone, VoiceRepl!sources, VoiceRepl!turn, VoiceRepl!TypeOK
    <3>2. InHandInv'
      BY <1>0, <2>2 DEF VoiceRepl!GateHearsDone, VoiceRepl!sources, VoiceRepl!turn, InHandInv
    <3>3. WindowInv' /\ (vr_timer' => vr_active')
      BY <1>0, <2>2 DEF VoiceRepl!GateHearsDone, VoiceRepl!sources, VoiceRepl!turn, WindowInv, InHandInv,
         VoiceRepl!TypeOK
    <3> QED BY <3>1, <3>2, <3>3
  <2>3. CASE VoiceRepl!GateEnds
    <3>1. VoiceRepl!TypeOK'
      BY <1>0, <2>3 DEF VoiceRepl!GateEnds, VoiceRepl!sources, VoiceRepl!turn, VoiceRepl!TypeOK
    <3>2. InHandInv'
      BY <1>0, <2>3 DEF VoiceRepl!GateEnds, VoiceRepl!sources, VoiceRepl!turn, InHandInv
    <3>3. WindowInv' /\ (vr_timer' => vr_active')
      BY <1>0, <2>3 DEF VoiceRepl!GateEnds, VoiceRepl!sources, VoiceRepl!turn, WindowInv, InHandInv,
         VoiceRepl!TypeOK
    <3> QED BY <3>1, <3>2, <3>3
  <2> QED BY <1>5, <2>1, <2>2, <2>3
<1>6. CASE VoiceRepl!TakeEvent
  <2>1. /\ vr_held' \in ReplEvents /\ vr_events' \in Seq(ReplEvents) /\ Len(vr_events') = Len(vr_events) - 1
        /\ HasSay(vr_events) => vr_held' = "say" \/ HasSay(vr_events')
    BY <1>0, <1>6, HasSayIs DEF VoiceRepl!TakeEvent
  <2>2. Len(vr_events') <= vr_EventCap
    BY <1>0, <2>1 DEF VoiceRepl!TypeOK
  <2>3. vr_loop = "select" /\ vr_held = "none"
    BY <1>6 DEF VoiceRepl!TakeEvent, InHandInv
  <2> QED BY <1>6, <2>1, <2>2, <2>3 DEF VoiceRepl!TakeEvent, VoiceRepl!sources, VoiceRepl!window,
             VoiceRepl!TypeOK, InHandInv, WindowInv
<1>7. CASE VoiceRepl!Handle
  <2>1. /\ vr_loop = "wait" /\ vr_loop' = "select" /\ vr_held' = "none"
        /\ UNCHANGED <<vr_interrupted, vr_keyboard, vr_lines, vr_mic, vr_heard, vr_gate, vr_passing,
                       vr_active, vr_timer, vr_replyDone, vr_events>>
    BY <1>7 DEF VoiceRepl!Handle, VoiceRepl!sources, VoiceRepl!window
  <2>2. \/ vr_held = "say" /\ vr_cancelled' = FALSE /\ vr_screen' = "rendering" /\ vr_speaker' = "playing"
        \/ vr_held # "say" /\ UNCHANGED <<vr_cancelled, vr_screen, vr_speaker, vr_ended>>
    BY <1>7 DEF VoiceRepl!Handle, VoiceRepl!turn
  <2>3. VoiceRepl!TypeOK'
    BY <2>1, <2>2 DEF VoiceRepl!TypeOK
  <2>4. InHandInv'
    BY <2>1 DEF InHandInv
  <2>5. WindowInv' /\ (vr_timer' => vr_active')
    BY <2>1, <2>2 DEF WindowInv
  <2> QED BY <2>3, <2>4, <2>5
<1>8. CASE VoiceRepl!SourcesEnd \/ VoiceRepl!LoopCancelled \/ VoiceRepl!Return
  <2>1. CASE VoiceRepl!SourcesEnd
    <3>1. VoiceRepl!TypeOK'
      BY <1>0, <2>1 DEF VoiceRepl!SourcesEnd, VoiceRepl!sources, VoiceRepl!window, VoiceRepl!turn,
         VoiceRepl!TypeOK
    <3>2. InHandInv'
      BY <1>0, <2>1 DEF VoiceRepl!SourcesEnd, VoiceRepl!sources, VoiceRepl!window, VoiceRepl!turn, InHandInv
    <3>3. WindowInv' /\ (vr_timer' => vr_active')
      BY <1>0, <2>1 DEF VoiceRepl!SourcesEnd, VoiceRepl!sources, VoiceRepl!window, VoiceRepl!turn, WindowInv,
         InHandInv, VoiceRepl!TypeOK
    <3> QED BY <3>1, <3>2, <3>3
  <2>2. CASE VoiceRepl!LoopCancelled
    <3>1. VoiceRepl!TypeOK'
      BY <1>0, <2>2 DEF VoiceRepl!LoopCancelled, VoiceRepl!sources, VoiceRepl!window, VoiceRepl!turn,
         VoiceRepl!TypeOK
    <3>2. InHandInv'
      BY <1>0, <2>2 DEF VoiceRepl!LoopCancelled, VoiceRepl!sources, VoiceRepl!window, VoiceRepl!turn,
         InHandInv
    <3>3. WindowInv' /\ (vr_timer' => vr_active')
      BY <1>0, <2>2 DEF VoiceRepl!LoopCancelled, VoiceRepl!sources, VoiceRepl!window, VoiceRepl!turn,
         WindowInv, InHandInv, VoiceRepl!TypeOK
    <3> QED BY <3>1, <3>2, <3>3
  <2>3. CASE VoiceRepl!Return
    <3>1. VoiceRepl!TypeOK'
      BY <1>0, <2>3 DEF VoiceRepl!Return, VoiceRepl!sources, VoiceRepl!window, VoiceRepl!turn,
         VoiceRepl!TypeOK
    <3>2. InHandInv'
      BY <1>0, <2>3 DEF VoiceRepl!Return, VoiceRepl!sources, VoiceRepl!window, VoiceRepl!turn, InHandInv
    <3>3. WindowInv' /\ (vr_timer' => vr_active')
      BY <1>0, <2>3 DEF VoiceRepl!Return, VoiceRepl!sources, VoiceRepl!window, VoiceRepl!turn, WindowInv,
         InHandInv, VoiceRepl!TypeOK
    <3> QED BY <3>1, <3>2, <3>3
  <2> QED BY <1>8, <2>1, <2>2, <2>3
<1>9. CASE VoiceRepl!ScreenEnds \/ VoiceRepl!PlayerDies \/ VoiceRepl!PlaybackCut
  BY <1>9 DEF VoiceRepl!ScreenEnds, VoiceRepl!PlayerDies, VoiceRepl!PlaybackCut, VoiceRepl!sources,
     VoiceRepl!window, VoiceRepl!turn, VoiceRepl!TypeOK, InHandInv, WindowInv
<1>10. CASE VoiceRepl!PlaysWhole
  <2>1. vr_replyDone' \in 0..vr_DoneCap /\ vr_replyDone' > 0
    BY <1>0, <1>10 DEF VoiceRepl!PlaysWhole, VoiceRepl!TypeOK
  <2> QED BY <1>10, <2>1 DEF VoiceRepl!PlaysWhole, VoiceRepl!sources, VoiceRepl!window, VoiceRepl!TypeOK,
             InHandInv, WindowInv
<1> QED BY <1>1, <1>2, <1>3, <1>4, <1>5, <1>6, <1>7, <1>8, <1>9, <1>10 DEF VoiceRepl!Next

\* The wake gate, for any lines, events and buffers: an open window whose last reply was played to its
\* end has its timer, since the end is signalled though the gate is busy.
THEOREM WindowsIdleOut ==
  ASSUME VoiceRepl!VoiceReplAssumption
  PROVE  VoiceRepl!Spec => [](VoiceRepl!TypeOK /\ VoiceRepl!OpenWindowHasATimer)
<1>1. VoiceRepl!Init => ReplInv
  BY ReplInit
<1>2. ReplInv /\ [VoiceRepl!Next]_(VoiceRepl!vars) => ReplInv'
  BY ReplStep
<1>3. ReplInv => VoiceRepl!TypeOK /\ VoiceRepl!OpenWindowHasATimer
  <2>1. ~HasSay(<<>>)
    BY DEF HasSay
  <2> QED BY <2>1 DEF ReplInv, VoiceRepl!OpenWindowHasATimer, InHandInv, WindowInv, VoiceRepl!TurnIsOver
<1> QED BY <1>1, <1>2, <1>3, PTL DEF VoiceRepl!Spec

-----------------------------------------------------------------------------
(* In the composition, as it is model-checked.                             *)

\* A behaviour of the components is one of ChannelManager's.
LEMMA ChannelManagerRuns == Spec => ChannelManager!Spec
<1>1. Init => ChannelManager!Init
  BY DEF Init
<1>2. [Next]_vars => [ChannelManager!Next]_(ChannelManager!vars)
  BY DEF Next, vars, cm_vars, ChannelManager!vars, ChannelManager!objVars
<1> QED BY <1>1, <1>2, PTL DEF Spec, ChannelManager!Spec

\* The channels: what the run checks of their connections, stores and subscribers.
THEOREM ChannelsHandedOver == Spec => []ChannelsAreHandedOver
<1>1. ChannelManager!ChannelsAreHandedOver => ChannelsAreHandedOver
  BY DEF ChannelsAreHandedOver
<1>2. ChannelManager!Spec => []ChannelManager!ChannelsAreHandedOver
  BY HandedOver, ComponentsAssumption DEF ChannelManager!ManagerAssumption
<1> QED BY <1>1, <1>2, ChannelManagerRuns, PTL

\* A behaviour of the components is one of Responses's.
LEMMA ResponsesRuns == Spec => Responses!Spec
<1>1. Init => Responses!Init
  BY DEF Init
<1>2. [Next]_vars => [Responses!Next]_(Responses!vars)
  BY DEF Next, vars, rs_vars, Responses!vars
<1> QED BY <1>1, <1>2, PTL DEF Spec, Responses!Spec

\* web: what the run checks of the response table.
THEOREM ResponsesKept == Spec => []ResponsesAreContinued
<1>1. Responses!ResponsesAreContinued => ResponsesAreContinued
  BY DEF ResponsesAreContinued
<1>2. Responses!Spec => []Responses!ResponsesAreContinued
  BY ResponsesContinued, ComponentsAssumption
<1> QED BY <1>1, <1>2, ResponsesRuns, PTL

\* A behaviour of the components is one of WebSockets's.
LEMMA WebSocketsRuns == Spec => WebSockets!Spec
<1>1. Init => WebSockets!Init
  BY DEF Init
<1>2. [Next]_vars => [WebSockets!Next]_(WebSockets!vars)
  BY DEF Next, vars, ws_vars, WebSockets!vars
<1> QED BY <1>1, <1>2, PTL DEF Spec, WebSockets!Spec

\* web: what the run checks of the connections and their numbers.
THEOREM WebClients == Spec => []WebClientsAreToldApart
<1>1. WebSockets!WebClientsAreToldApart => WebClientsAreToldApart
  BY DEF WebClientsAreToldApart
<1>2. WebSockets!Spec => []WebSockets!WebClientsAreToldApart
  BY ClientsToldApart, ComponentsAssumption
<1> QED BY <1>1, <1>2, WebSocketsRuns, PTL

\* A behaviour of the components is one of Conversation's.
LEMMA ConversationRuns == Spec => Conversation!Spec
<1>1. Init => Conversation!Init
  BY DEF Init
<1>2. [Next]_vars => [Conversation!Next]_(Conversation!vars)
  BY DEF Next, vars, cv_vars, Conversation!vars, Conversation!source, Conversation!reply, Conversation!handler
<1> QED BY <1>1, <1>2, PTL DEF Spec, Conversation!Spec

\* A behaviour of the components is one of VoiceRepl's.
LEMMA VoiceReplRuns == Spec => VoiceRepl!Spec
<1>1. Init => VoiceRepl!Init
  BY DEF Init
<1>2. [Next]_vars => [VoiceRepl!Next]_(VoiceRepl!vars)
  BY DEF Next, vars, vr_vars, VoiceRepl!vars, VoiceRepl!sources, VoiceRepl!window, VoiceRepl!turn
<1> QED BY <1>1, <1>2, PTL DEF Spec, VoiceRepl!Spec

\* converse, the voice session: what the run checks of the turns of both conversations.
THEOREM VoiceTurns == Spec => VoiceTurnsDoNotMix
<1>1. Conversation!Spec => /\ [](Conversation!TypeOK /\ Conversation!EndsOnce /\ Conversation!ReturnedIsQuiet)
                           /\ Conversation!BargeInSilences
  BY TurnsApart, ComponentsAssumption
<1>2. VoiceRepl!Spec => [](VoiceRepl!TypeOK /\ VoiceRepl!OpenWindowHasATimer)
  BY WindowsIdleOut, ComponentsAssumption
<1> QED BY <1>1, <1>2, ConversationRuns, VoiceReplRuns, PTL DEF VoiceTurnsDoNotMix
=============================================================================
