------------------------------ MODULE EventFeed ------------------------------
(***************************************************************************)
(* What a watch service promises, whatever the resource: events are        *)
(* appended to a log, a watcher names the version it already has, and it   *)
(* then receives the events after that version without a gap, each at      *)
(* least once, until it leaves or the server stops.  A list request is     *)
(* answered with a gap-free prefix of the log in one message.              *)
(*                                                                         *)
(* NodeStore and ResourceStores implement it (INSTANCE EventFeed in each). *)
(***************************************************************************)
EXTENDS Integers, Sequences

CONSTANTS Event,      \* what can be published
          Session,    \* the watch and list requests
          MaxEvents   \* bound on the length of the log

VARIABLES log,        \* the published events; the version of one is its position
          live,       \* the requests being served
          from,       \* the version after which a request wants the events
          seen        \* the versions a request has been sent

vars == <<log, live, from, seen>>

Init ==
  /\ log = <<>>
  /\ live = {}
  /\ from = [s \in Session |-> 0]
  /\ seen = [s \in Session |-> {}]

Publish(e) ==
  /\ Len(log) < MaxEvents
  /\ log' = Append(log, e)
  /\ UNCHANGED <<live, from, seen>>

Subscribe(s, m) ==
  /\ s \notin live
  /\ live' = live \cup {s}
  /\ from' = [from EXCEPT ![s] = m]
  /\ seen' = [seen EXCEPT ![s] = {}]
  /\ UNCHANGED log

\* Sending version v leaves s with everything between from[s] and v, so
\* either all of it was sent before or it is part of the same message.
Sends(s, v) ==
  seen' = [seen EXCEPT ![s] = @ \cup (from[s] + 1) .. v \cup {v}]

Deliver(s, v) ==
  /\ s \in live
  /\ v \in 1 .. Len(log)
  /\ Sends(s, v)
  /\ UNCHANGED <<log, live, from>>

\* A list request gets the versions up to v, none if v = from[s], and ends.
Answer(s, v) ==
  /\ s \in live
  /\ v \in from[s] .. Len(log)
  /\ seen' = [seen EXCEPT ![s] = (from[s] + 1) .. v]
  /\ live' = live \ {s}
  /\ UNCHANGED <<log, from>>

Unsubscribe(s) ==
  /\ s \in live
  /\ live' = live \ {s}
  /\ UNCHANGED <<log, from, seen>>

Stop ==
  /\ live' = {}
  /\ UNCHANGED <<log, from, seen>>

Next ==
  \/ \E e \in Event : Publish(e)
  \/ \E s \in Session :
       \/ \E m \in 0 .. MaxEvents : Subscribe(s, m)
       \/ \E v \in 1 .. MaxEvents : Deliver(s, v)
       \/ \E v \in 0 .. MaxEvents : Answer(s, v)
       \/ Unsubscribe(s)
  \/ Stop

Spec == Init /\ [][Next]_vars
==============================================================================
