------------------------------- MODULE Matrix -------------------------------
(***************************************************************************)
(* internal/plugins/channel/matrix: the sync loop of a channel object over *)
(* the event log of the homeserver, resumed from .matrix/state.json, which *)
(* every object reads once, when it is built. A reload builds the next     *)
(* object before it stops the last one. The loop itself is the mautrix     *)
(* client's: it saves the token of a response before it handles it.        *)
(***************************************************************************)
EXTENDS Naturals, Sequences, Functions

CONSTANTS
  MaxEvents,   \* bound: events in the log of the homeserver
  MaxObjects,  \* bound: channel objects built
  MaxErrors,   \* bound: writes of state.json that fail
  MaxCrashes   \* bound: restarts of the process

MatrixAssumption == {MaxEvents, MaxObjects, MaxErrors, MaxCrashes} \subseteq Nat

\* What handleMessageEvent and handleMemberEvent tell apart.
Kinds == {"message", "ignored", "invite"}
Objects == 1..MaxObjects
State == [batch : 0..MaxEvents, filter : BOOLEAN, device : BOOLEAN]

VARIABLES
  log,        \* the events of the homeserver, by kind
  disk,       \* state.json
  mem,        \* object -> fileSyncStore.state
  pc,         \* object -> where it is
  upto, at,   \* object -> the response in hand: last event, next event to handle
  cancelled,  \* objects whose ctx has ended
  built,      \* object -> publishes there had been when it was built
  published,  \* history: event and object of each publish
  manager,    \* ChannelManager.Apply: "idle", "built", "stopping"
  current,    \* the object of the last completed Apply, 0 for none
  errors, crashes

objVars == <<mem, pc, upto, at, built>>
vars == <<log, disk, objVars, cancelled, published, manager, current, errors, crashes>>

Init ==
  /\ log = <<>> /\ disk = [batch |-> 0, filter |-> FALSE, device |-> FALSE]
  /\ mem = [o \in Objects |-> disk]
  /\ pc = [o \in Objects |-> "new"]
  /\ upto = [o \in Objects |-> 0] /\ at = upto /\ built = upto
  /\ cancelled = {} /\ published = <<>>
  /\ manager = "idle" /\ current = 0
  /\ errors = 0 /\ crashes = 0

Arrive ==
  /\ Len(log) < MaxEvents
  /\ \E k \in Kinds : log' = Append(log, k)
  /\ UNCHANGED <<disk, objVars, cancelled, published, manager, current, errors, crashes>>

-----------------------------------------------------------------------------
(* persist writes a temporary file and renames it; memory is changed first *)

Persisted(state) == disk' = state /\ UNCHANGED errors
PersistFails == errors < MaxErrors /\ errors' = errors + 1 /\ UNCHANGED disk

-----------------------------------------------------------------------------
(* ChannelManager.Apply                                                    *)

Last(o) == pc[o] # "new" /\ \A p \in Objects : p > o => pc[p] = "new"

\* NewMatrixChannel, openFileSyncStore: a device id is chosen and saved when there is none.
\* An object that cannot save it is not built and the Apply goes on without the channel.
Build(o) ==
  /\ manager = "idle" /\ pc[o] = "new" /\ \A p \in 1..(o - 1) : pc[p] # "new"
  /\ built' = [built EXCEPT ![o] = Len(published)]
  /\ \/ /\ mem' = [mem EXCEPT ![o] = [disk EXCEPT !.device = TRUE]]
        /\ IF disk.device THEN UNCHANGED <<disk, errors>> ELSE Persisted(mem'[o])
        /\ pc' = [pc EXCEPT ![o] = "built"]
     \/ /\ ~disk.device /\ PersistFails
        /\ pc' = [pc EXCEPT ![o] = "ended"]
        /\ UNCHANGED mem
  /\ manager' = "built"
  /\ UNCHANGED <<log, upto, at, cancelled, published, current, crashes>>

\* Stop of the last object: its ctx is cancelled first, so that the wait can end.
StopLast ==
  /\ manager = "built"
  /\ cancelled' = IF current = 0 THEN cancelled ELSE cancelled \cup {current}
  /\ manager' = "stopping"
  /\ UNCHANGED <<log, disk, objVars, published, current, errors, crashes>>

\* syncWG.Wait is over: the new object starts.
StartNext(o) ==
  /\ manager = "stopping" /\ Last(o)
  /\ current # 0 => pc[current] = "ended"
  /\ pc' = [pc EXCEPT ![o] = IF pc[o] = "built" THEN "filter" ELSE "ended"]
  /\ current' = o /\ manager' = "idle"
  /\ UNCHANGED <<log, disk, mem, upto, at, built, cancelled, published, errors, crashes>>

-----------------------------------------------------------------------------
(* SyncWithContext                                                         *)

\* The filter is created once and its id saved; a store that fails ends the sync.
Filter(o) ==
  /\ pc[o] = "filter"
  /\ mem' = [mem EXCEPT ![o].filter = TRUE]
  /\ IF mem[o].filter
     THEN pc' = [pc EXCEPT ![o] = "poll"] /\ UNCHANGED <<disk, errors>>
     ELSE \/ Persisted(mem'[o]) /\ pc' = [pc EXCEPT ![o] = "poll"]
          \/ PersistFails /\ pc' = [pc EXCEPT ![o] = "ended"]
  /\ UNCHANGED <<log, upto, at, built, cancelled, published, manager, current, crashes>>

\* A response to a request since the token in memory.
Poll(o) ==
  /\ pc[o] = "poll" /\ mem[o].batch < Len(log)
  /\ \E k \in (mem[o].batch + 1)..Len(log) : upto' = [upto EXCEPT ![o] = k]
  /\ at' = [at EXCEPT ![o] = mem[o].batch + 1]
  /\ pc' = [pc EXCEPT ![o] = "save"]
  /\ UNCHANGED <<log, disk, mem, built, cancelled, published, manager, current, errors, crashes>>

\* Mutation of SaveNextBatch: the token in memory moves on, a failed write ends nothing.
SaveNextBatchQuietly(o) ==
  /\ pc[o] = "save"
  /\ mem' = [mem EXCEPT ![o].batch = upto[o]]
  /\ Persisted(mem'[o]) \/ PersistFails
  /\ pc' = [pc EXCEPT ![o] = "handle"]
  /\ UNCHANGED <<log, upto, at, built, cancelled, published, manager, current, crashes>>

SaveNextBatch(o) ==
  /\ pc[o] = "save"
  /\ mem' = [mem EXCEPT ![o].batch = upto[o]]
  /\ \/ Persisted(mem'[o]) /\ pc' = [pc EXCEPT ![o] = "handle"]
     \/ PersistFails /\ pc' = [pc EXCEPT ![o] = "ended"]
  /\ UNCHANGED <<log, upto, at, built, cancelled, published, manager, current, crashes>>

\* Mutation of Handle: an event the bot does not take ends the batch.
HandleStops(o) ==
  /\ pc[o] = "handle"
  /\ at' = [at EXCEPT ![o] = @ + 1]
  /\ pc' = [pc EXCEPT ![o] = IF at[o] = upto[o] \/ log[at[o]] = "ignored" THEN "poll" ELSE "handle"]
  /\ \/ log[at[o]] = "message" /\ published' = Append(published, [event |-> at[o], object |-> o])
     \/ (log[at[o]] # "message" \/ o \in cancelled) /\ UNCHANGED published
  /\ UNCHANGED <<log, disk, mem, upto, built, cancelled, manager, current, errors, crashes>>

\* The events of the response in order. A message is published, which fails only when
\* the ctx has ended; an invite is joined, whatever becomes of it; the rest is ignored.
Handle(o) ==
  /\ pc[o] = "handle"
  /\ at' = [at EXCEPT ![o] = @ + 1]
  /\ pc' = [pc EXCEPT ![o] = IF at[o] = upto[o] THEN "poll" ELSE "handle"]
  /\ \/ log[at[o]] = "message" /\ published' = Append(published, [event |-> at[o], object |-> o])
     \/ (log[at[o]] # "message" \/ o \in cancelled) /\ UNCHANGED published
  /\ UNCHANGED <<log, disk, mem, upto, built, cancelled, manager, current, errors, crashes>>

\* The request for the next response fails once the ctx has ended.
PollEnds(o) ==
  /\ pc[o] \in {"filter", "poll"} /\ o \in cancelled
  /\ pc' = [pc EXCEPT ![o] = "ended"]
  /\ UNCHANGED <<log, disk, mem, upto, at, built, cancelled, published, manager, current, errors, crashes>>

\* The process dies; the next one builds its own object.
Crash ==
  /\ crashes < MaxCrashes
  /\ crashes' = crashes + 1
  /\ pc' = [o \in Objects |-> IF pc[o] = "new" THEN "new" ELSE "ended"]
  /\ manager' = "idle" /\ current' = 0
  /\ UNCHANGED <<log, disk, mem, upto, at, built, cancelled, published, errors>>

SyncStep(o) == Filter(o) \/ Poll(o) \/ SaveNextBatch(o) \/ Handle(o) \/ PollEnds(o)
Next ==
  \/ Arrive
  \/ \E o \in Objects : Build(o) \/ StartNext(o) \/ SyncStep(o)
  \/ StopLast \/ Crash

Spec == Init /\ [][Next]_vars
Fairness == \A o \in Objects : WF_vars(SyncStep(o)) /\ WF_vars(StartNext(o))
FairSpec == Spec /\ Fairness

-----------------------------------------------------------------------------
TypeOK ==
  /\ Range(log) \subseteq Kinds
  /\ disk \in State /\ mem \in [Objects -> State]
  /\ pc \in [Objects -> {"new", "built", "filter", "poll", "save", "handle", "ended"}]
  /\ \A o \in Objects : {upto[o], at[o]} \subseteq 0..(MaxEvents + 1)
  /\ manager \in {"idle", "built", "stopping"} /\ current \in 0..MaxObjects

\* A repeat is a second publish of one event.
Repeats == {p \in (DOMAIN published) \X (DOMAIN published) :
              p[1] < p[2] /\ published[p[1]].event = published[p[2]].event}

(* "Lets the bot pick up where it left off after restart": a message is    *)
(* published again only by or after an object that a reload had let read   *)
(* the token too early, not because state.json could not be written or the *)
(* process died.                                                           *)
OnlyReloadsRepeat ==
  \A p \in Repeats :
    \E o \in (published[p[1]].object + 1)..published[p[2]].object :
      mem[o].device /\ built[o] < p[1]

(* While its ctx lives an object leaves no message out: what it publishes  *)
(* is every message since the token it started from.                       *)
NoMessageLeftOut ==
  \A j \in DOMAIN published :
    LET o == published[j].object
        firsts == {i \in DOMAIN published : published[i].object = o}
    IN
    o \notin cancelled =>
      \A i \in firsts : \A e \in published[i].event..published[j].event :
        log[e] = "message" => \E k \in firsts : published[k].event = e

(* What a chat sees of a sync resumed from the file.                       *)
MatrixSyncResumes == TypeOK /\ OnlyReloadsRepeat /\ NoMessageLeftOut

(* Stop waits for the sync goroutine, which its cancel ends.               *)
StopReturns == manager = "stopping" ~> manager = "idle"

(* Stronger claims, which fail and which no run checks. A hot reload does  *)
(* not repeat a message either: but the next object has read the token     *)
(* before the last one stops. And an object built after a message was      *)
(* published does not: but such an object may have written the older token *)
(* to the file since.                                                      *)
ReloadRepeatsNothing == Repeats = {}
RestartRepeatsNothing == \A p \in Repeats : built[published[p[2]].object] < p[1]
=============================================================================
