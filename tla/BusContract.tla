---------------------------- MODULE BusContract ----------------------------
(***************************************************************************)
(* What internal/kernel/bus promises to the rest of the gateway, free of   *)
(* locks, wait groups and program counters: two bounded first-in first-out *)
(* streams that accept every message at most once while the bus is open,   *)
(* lose and reorder nothing they accepted, never accept again once shut,   *)
(* and show their readers the end only when nothing is left to read.       *)
(***************************************************************************)
EXTENDS Naturals, Sequences

CONSTANTS Streams,   \* "inbound" and "outbound"
          Messages,  \* what may be published
          Capacity   \* room in one stream

VARIABLES queue,     \* stream -> messages accepted and not yet received
          accepted,  \* stream -> history of the accepted messages
          received,  \* stream -> history of the received messages
          shut,      \* no message is accepted any more
          ended      \* streams whose reader has been told of the end

contractVars == <<queue, accepted, received, shut, ended>>

CInit ==
  /\ queue = [s \in Streams |-> <<>>]
  /\ accepted = [s \in Streams |-> <<>>]
  /\ received = [s \in Streams |-> <<>>]
  /\ shut = FALSE
  /\ ended = {}

CAccept(s, m) ==
  /\ ~shut
  /\ Len(queue[s]) < Capacity
  /\ \A i \in 1..Len(accepted[s]) : accepted[s][i] # m
  /\ queue' = [queue EXCEPT ![s] = Append(@, m)]
  /\ accepted' = [accepted EXCEPT ![s] = Append(@, m)]
  /\ UNCHANGED <<received, shut, ended>>

CReceive(s) ==
  /\ queue[s] # <<>>
  /\ queue' = [queue EXCEPT ![s] = Tail(@)]
  /\ received' = [received EXCEPT ![s] = Append(@, Head(queue[s]))]
  /\ UNCHANGED <<accepted, shut, ended>>

CShut ==
  /\ ~shut
  /\ shut' = TRUE
  /\ UNCHANGED <<queue, accepted, received, ended>>

CEnd(s) ==
  /\ shut
  /\ queue[s] = <<>>
  /\ ended' = ended \cup {s}
  /\ UNCHANGED <<queue, accepted, received, shut>>

CNext ==
  \/ \E s \in Streams, m \in Messages : CAccept(s, m)
  \/ \E s \in Streams : CReceive(s) \/ CEnd(s)
  \/ CShut

CSpec == CInit /\ [][CNext]_contractVars
=============================================================================
