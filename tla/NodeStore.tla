------------------------------ MODULE NodeStore ------------------------------
(***************************************************************************)
(* The node part of the datastore (datastore_node.go) together with the    *)
(* gRPC requests that read it (ListNode and WatchNode in quarkcmsvc.go),   *)
(* during one life of the connection manager process.                      *)
(*                                                                         *)
(* The threads are the single node worker, which runs SetNode and          *)
(* DeleteNode one after the other, and one goroutine per gRPC request.     *)
(* They share the datastore without a lock: only the increment of the      *)
(* resource version is under a mutex.  A step of this module ends where    *)
(* another thread can see the difference.                                  *)
(*                                                                         *)
(* A definition named ...Bug is what the definition after it would be with *)
(* a plausible mistake in the code.  No other definition uses it: it is    *)
(* there to see that the properties notice the mistake.                    *)
(***************************************************************************)
EXTENDS Integers, Sequences, Functions

CONSTANTS Name,         \* node names
          IP,           \* node addresses, the one of a node that has none included
          IPv4,         \* the addresses that ConvertIP takes
          Attr,         \* hostname, creation time, subnet and mask, as one value
          Observed,     \* Observed[n]: what the API server may report of node n
          Nil,          \* no object
          Session,      \* gRPC requests, a WatchNode or a ListNode each
          MaxVersion    \* bound: events published in one life of the process

ASSUME IPv4Assumption == IPv4 \subseteq IP
ASSUME ObservedAssumption == Observed \in [Name -> SUBSET [ip : IP, attr : Attr]]
ASSUME MaxVersionAssumption == MaxVersion \in Nat

NodeObject == [ip : IP, attr : Attr, rv : 1 .. MaxVersion]
NodeEventObject == [type : {"set", "delete"}, name : Name, node : NodeObject]

ASSUME NilAssumption == Nil \notin NodeObject /\ Nil \notin NodeEventObject

VARIABLES
  up,         \* the process is running
  rv,         \* NodeResourceVersion
  nodeMap,    \* NodeMap
  eventMap,   \* NodeEventMap
  nodeIPMap,  \* NodeIPMap, the set of its keys
  queueMap,   \* NodeQueueMap, the set of its keys
  wpc,        \* where the node worker is in SetNode or DeleteNode
  cur,        \* newNodeEvent of the worker, Nil when it is idle
  todo,       \* the queues EnqueueNode has still to visit
  spc,        \* where each request is
  from,       \* minResourceVersion of its ListNode
  smax,       \* maxResourceVersion of its ListNode, 0 outside the loop
  pending,    \* versions listed or dequeued and not sent
  queue,      \* versions in its work queue
  open,       \* the requests whose stream accepts messages
  sent        \* versions sent on the stream, in order

storeVars   == <<rv, nodeMap, eventMap, nodeIPMap>>
writerVars  == <<wpc, cur, todo>>
sessionVars == <<spc, from, smax, pending, queue, open, sent>>
vars == <<up, storeVars, queueMap, writerVars, sessionVars>>

-----------------------------------------------------------------------------
\* An empty datastore and no request.
Init ==
  /\ up = TRUE
  /\ rv = 0
  /\ nodeMap = [n \in Name |-> Nil]
  /\ eventMap = <<>>
  /\ nodeIPMap = {}
  /\ queueMap = {}
  /\ wpc = "idle"
  /\ cur = Nil
  /\ todo = {}
  /\ spc = [s \in Session |-> "idle"]
  /\ from = [s \in Session |-> 0]
  /\ smax = [s \in Session |-> 0]
  /\ pending = [s \in Session |-> <<>>]
  /\ queue = [s \in Session |-> <<>>]
  /\ open = {}
  /\ sent = [s \in Session |-> <<>>]

-----------------------------------------------------------------------------
(* The node worker.                                                        *)

UnchangedBug(n, o) == FALSE

\* SetNode returns early when the stored node has the same fields.
Unchanged(n, o) ==
  /\ nodeMap[n] # Nil
  /\ nodeMap[n].ip = o.ip
  /\ nodeMap[n].attr = o.attr

SetNode(n, o) ==
  /\ wpc = "idle"
  /\ rv < MaxVersion
  /\ ~Unchanged(n, o)
  /\ LET node == [ip |-> o.ip, attr |-> o.attr, rv |-> rv + 1] IN
       /\ nodeMap' = [nodeMap EXCEPT ![n] = node]
       /\ cur' = [type |-> "set", name |-> n, node |-> node]
  /\ rv' = rv + 1
  /\ wpc' = "storing"
  /\ UNCHANGED <<up, eventMap, nodeIPMap, queueMap, todo, sessionVars>>

DeleteNodeBug(n) ==
  /\ wpc = "idle"
  /\ rv < MaxVersion
  /\ nodeMap[n] # Nil
  /\ cur' = [type |-> "delete", name |-> n, node |-> nodeMap[n]]
  /\ rv' = rv + 1
  /\ wpc' = "storing"
  /\ UNCHANGED <<up, nodeMap, eventMap, nodeIPMap, queueMap, todo, sessionVars>>

DeleteNode(n) ==
  /\ wpc = "idle"
  /\ rv < MaxVersion
  /\ nodeMap[n] # Nil
  /\ nodeIPMap' = nodeIPMap \ {nodeMap[n].ip}
  /\ cur' = [type |-> "delete", name |-> n, node |-> nodeMap[n]]
  /\ rv' = rv + 1
  /\ wpc' = "storing"
  /\ UNCHANGED <<up, nodeMap, eventMap, queueMap, todo, sessionVars>>

\* Only a set is stored in the log.
StoreNodeEventBug ==
  /\ wpc = "storing"
  /\ eventMap' = IF cur.type = "set" THEN Append(eventMap, cur) ELSE eventMap
  /\ todo' = queueMap
  /\ wpc' = "enqueueing"
  /\ UNCHANGED <<up, rv, nodeMap, nodeIPMap, queueMap, cur, sessionVars>>

\* Only the watches that have listed are offered the event.
StoreForListedBug ==
  /\ wpc = "storing"
  /\ eventMap' = [v \in DOMAIN eventMap \cup {rv} |->
                    IF v = rv THEN cur ELSE eventMap[v]]
  /\ todo' = {s \in queueMap : spc[s] = "sending"}
  /\ wpc' = "enqueueing"
  /\ UNCHANGED <<up, rv, nodeMap, nodeIPMap, queueMap, cur, sessionVars>>

\* NodeEventMap[resourceVersion] = newNodeEvent, then the range of EnqueueNode
\* starts on the queues there are.
StoreNodeEvent ==
  /\ wpc = "storing"
  /\ eventMap' = [v \in DOMAIN eventMap \cup {rv} |->
                    IF v = rv THEN cur ELSE eventMap[v]]
  /\ todo' = queueMap
  /\ wpc' = "enqueueing"
  /\ UNCHANGED <<up, rv, nodeMap, nodeIPMap, queueMap, cur, sessionVars>>

\* The event is added twice.
EnqueueTwiceBug(s) ==
  /\ wpc = "enqueueing"
  /\ s \in todo
  /\ queue' = [queue EXCEPT ![s] = @ \o <<rv, rv>>]
  /\ todo' = todo \ {s}
  /\ UNCHANGED <<up, storeVars, queueMap, wpc, cur, spc, from, smax, pending, open, sent>>

\* The event is dropped while the queue holds another.
EnqueueDropsBug(s) ==
  /\ wpc = "enqueueing"
  /\ s \in todo
  /\ queue' = [queue EXCEPT ![s] = IF @ = <<>> THEN <<rv>> ELSE @]
  /\ todo' = todo \ {s}
  /\ UNCHANGED <<up, storeVars, queueMap, wpc, cur, spc, from, smax, pending, open, sent>>

EnqueueNode(s) ==
  /\ wpc = "enqueueing"
  /\ s \in todo
  /\ queue' = [queue EXCEPT ![s] = Append(@, rv)]
  /\ todo' = todo \ {s}
  /\ UNCHANGED <<up, storeVars, queueMap, wpc, cur, spc, from, smax, pending, open, sent>>

\* DeleteNode leaves the node in NodeMap.
FinishNodeBug ==
  /\ wpc = "enqueueing"
  /\ todo = {}
  /\ nodeIPMap' = IF cur.type = "set" THEN nodeIPMap \cup {cur.node.ip} ELSE nodeIPMap
  /\ wpc' = "idle"
  /\ cur' = Nil
  /\ UNCHANGED <<up, rv, nodeMap, eventMap, queueMap, todo, sessionVars>>

\* What follows EnqueueNode: SetNode adds the address to NodeIPMap, DeleteNode
\* removes the node from NodeMap.
FinishNode ==
  /\ wpc = "enqueueing"
  /\ todo = {}
  /\ \/ /\ cur.type = "set"
        /\ nodeIPMap' = nodeIPMap \cup {cur.node.ip}
        /\ UNCHANGED nodeMap
     \/ /\ cur.type = "delete"
        /\ nodeMap' = [nodeMap EXCEPT ![cur.name] = Nil]
        /\ UNCHANGED nodeIPMap
  /\ wpc' = "idle"
  /\ cur' = Nil
  /\ UNCHANGED <<up, rv, eventMap, queueMap, todo, sessionVars>>

-----------------------------------------------------------------------------
(* The gRPC requests.                                                      *)

\* A client calls WatchNode with the largest version it has.
WatchNode(s, m) ==
  /\ spc[s] = "idle"
  /\ spc' = [spc EXCEPT ![s] = "adding"]
  /\ from' = [from EXCEPT ![s] = m]
  /\ open' = open \cup {s}
  /\ UNCHANGED <<up, storeVars, queueMap, writerVars, smax, pending, queue, sent>>

\* A client calls ListNode, which lists after version 0 and has no queue.
ListNode(s) ==
  /\ spc[s] = "idle"
  /\ spc' = [spc EXCEPT ![s] = "list"]
  /\ open' = open \cup {s}
  /\ UNCHANGED <<up, storeVars, queueMap, writerVars, from, smax, pending, queue, sent>>

\* A key added to a Go map while a range over it is under way may or may not
\* be visited by the range.
AddNodeQueue(s) ==
  /\ spc[s] = "adding"
  /\ queueMap' = queueMap \cup {s}
  /\ spc' = [spc EXCEPT ![s] = "list"]
  /\ \/ todo' = todo
     \/ wpc = "enqueueing" /\ todo' = todo \cup {s}
  /\ UNCHANGED <<up, storeVars, wpc, cur, from, smax, pending, queue, open, sent>>

ListNodeStart(s) ==
  /\ spc[s] = "list"
  /\ smax' = [smax EXCEPT ![s] = rv]
  /\ spc' = [spc EXCEPT ![s] = "listing"]
  /\ UNCHANGED <<up, storeVars, queueMap, writerVars, from, pending, queue, open, sent>>

\* The loop variable i of ListNode.
NextListed(s) == from[s] + Len(pending[s]) + 1

Reading(s) == spc[s] = "listing" /\ NextListed(s) <= smax[s]

ListNodeRead(s) ==
  /\ Reading(s)
  /\ NextListed(s) \in DOMAIN eventMap
  /\ pending' = [pending EXCEPT ![s] = Append(@, NextListed(s))]
  /\ UNCHANGED <<up, storeVars, queueMap, writerVars, spc, from, smax, queue, open, sent>>

\* *nodeEventMap[i] of a version that is counted and not yet stored: the nil
\* dereference is recovered nowhere and ends the process.
ListNodeNil(s) ==
  /\ Reading(s)
  /\ NextListed(s) \notin DOMAIN eventMap
  /\ up' = FALSE
  /\ UNCHANGED <<storeVars, queueMap, writerVars, sessionVars>>

\* ConvertIP panics on what is not an IPv4 address.
Tellable(v) == eventMap[v].node.ip \in IPv4

\* The loop of ListNode stops below maxResourceVersion (i < instead of i <=).
ListNodeEndBug(s) ==
  /\ spc[s] = "listing"
  /\ NextListed(s) >= smax[s]
  /\ \/ /\ s \in queueMap
        /\ spc' = [spc EXCEPT ![s] = "sending"]
        /\ UNCHANGED <<pending, sent, open>>
     \/ /\ s \notin queueMap
        /\ \A v \in Range(pending[s]) : Tellable(v)
        /\ spc' = [spc EXCEPT ![s] = "closed"]
        /\ sent' = IF s \in open THEN [sent EXCEPT ![s] = pending[s]] ELSE sent
        /\ pending' = [pending EXCEPT ![s] = <<>>]
        /\ open' = open \ {s}
  /\ smax' = [smax EXCEPT ![s] = 0]
  /\ UNCHANGED <<up, storeVars, queueMap, writerVars, from, queue>>

\* WatchNode goes on to send what is listed; ListNode answers with all of it.
ListNodeEnd(s) ==
  /\ spc[s] = "listing"
  /\ NextListed(s) > smax[s]
  /\ \/ /\ s \in queueMap
        /\ spc' = [spc EXCEPT ![s] = "sending"]
        /\ UNCHANGED <<pending, sent, open>>
     \/ /\ s \notin queueMap
        /\ \A v \in Range(pending[s]) : Tellable(v)
        /\ spc' = [spc EXCEPT ![s] = "closed"]
        /\ sent' = IF s \in open THEN [sent EXCEPT ![s] = pending[s]] ELSE sent
        /\ pending' = [pending EXCEPT ![s] = <<>>]
        /\ open' = open \ {s}
  /\ smax' = [smax EXCEPT ![s] = 0]
  /\ UNCHANGED <<up, storeVars, queueMap, writerVars, from, queue>>

\* sendNodeStream of the next listed event or of the dequeued one.
SendNode(s) ==
  /\ spc[s] = "sending"
  /\ pending[s] # <<>>
  /\ Tellable(Head(pending[s]))
  /\ s \in open
  /\ sent' = [sent EXCEPT ![s] = Append(@, Head(pending[s]))]
  /\ pending' = [pending EXCEPT ![s] = Tail(@)]
  /\ UNCHANGED <<up, storeVars, queueMap, writerVars, spc, from, smax, queue, open>>

\* The error is logged and the watch goes on.
SendFailsBug(s) ==
  /\ spc[s] = "sending"
  /\ pending[s] # <<>>
  /\ Tellable(Head(pending[s]))
  /\ s \notin open
  /\ pending' = [pending EXCEPT ![s] = Tail(@)]
  /\ UNCHANGED <<up, storeVars, queueMap, writerVars, spc, from, smax, queue, open, sent>>

\* stream.Send reports an error and WatchNode returns, to its deferred calls.
SendFails(s) ==
  /\ spc[s] = "sending"
  /\ pending[s] # <<>>
  /\ Tellable(Head(pending[s]))
  /\ s \notin open
  /\ spc' = [spc EXCEPT ![s] = "removing"]
  /\ pending' = [pending EXCEPT ![s] = <<>>]
  /\ UNCHANGED <<up, storeVars, queueMap, writerVars, from, smax, queue, open, sent>>

\* The message of a node without an IPv4 address: the panic of ConvertIP, in
\* ListNode and in sendNodeStream, is recovered nowhere.
ConvertIPPanics(s) ==
  /\ \/ /\ spc[s] = "sending"
        /\ pending[s] # <<>>
        /\ ~Tellable(Head(pending[s]))
     \/ /\ spc[s] = "listing"
        /\ NextListed(s) > smax[s]
        /\ s \notin queueMap
        /\ \E v \in Range(pending[s]) : ~Tellable(v)
  /\ up' = FALSE
  /\ UNCHANGED <<storeVars, queueMap, writerVars, sessionVars>>

\* The dequeued event is added again, as after a failure.
RequeueBug(s) ==
  /\ spc[s] = "sending"
  /\ pending[s] = <<>>
  /\ queue[s] # <<>>
  /\ pending' = [pending EXCEPT ![s] = <<Head(queue[s])>>]
  /\ queue' = [queue EXCEPT ![s] = Append(Tail(@), Head(@))]
  /\ UNCHANGED <<up, storeVars, queueMap, writerVars, spc, from, smax, open, sent>>

\* Only the newest event of the queue is kept.
CoalesceBug(s) ==
  /\ spc[s] = "sending"
  /\ pending[s] = <<>>
  /\ queue[s] # <<>>
  /\ pending' = [pending EXCEPT ![s] = <<queue[s][Len(queue[s])]>>]
  /\ queue' = [queue EXCEPT ![s] = <<>>]
  /\ UNCHANGED <<up, storeVars, queueMap, writerVars, spc, from, smax, open, sent>>

DequeueNode(s) ==
  /\ spc[s] = "sending"
  /\ pending[s] = <<>>
  /\ queue[s] # <<>>
  /\ pending' = [pending EXCEPT ![s] = <<Head(queue[s])>>]
  /\ queue' = [queue EXCEPT ![s] = Tail(@)]
  /\ UNCHANGED <<up, storeVars, queueMap, writerVars, spc, from, smax, open, sent>>

\* A range that has not reached a removed key never does; the queue is then
\* shut down, with what it holds.
RemoveNodeQueue(s) ==
  /\ spc[s] = "removing"
  /\ queueMap' = queueMap \ {s}
  /\ todo' = todo \ {s}
  /\ queue' = [queue EXCEPT ![s] = <<>>]
  /\ spc' = [spc EXCEPT ![s] = "closed"]
  /\ UNCHANGED <<up, storeVars, wpc, cur, from, smax, pending, open, sent>>

\* The client is gone; nothing but a later send notices.
Disconnect(s) ==
  /\ s \in open
  /\ open' = open \ {s}
  /\ UNCHANGED <<up, storeVars, queueMap, writerVars, spc, from, smax, pending, queue, sent>>

-----------------------------------------------------------------------------
\* Two threads access one Go map at the same time and one of them writes: the
\* runtime stops the process ("concurrent map ..."), or does not notice.
WritesQueueMap(s) == spc[s] \in {"adding", "removing"}

\* The node worker changes NodeIPMap, before DeleteNode publishes or after
\* SetNode has; the pod worker may look an address up in it at any time.
WritesIPMap ==
  \/ wpc = "enqueueing" /\ todo = {} /\ cur.type = "set"
  \/ wpc = "storing" /\ cur.type = "delete"

MapConflict ==
  \/ WritesIPMap
  \/ wpc = "storing" /\ \E s \in Session : Reading(s)
  \/ wpc = "enqueueing" /\ queueMap # {} /\ \E s \in Session : WritesQueueMap(s)
  \/ \E s, t \in Session : s # t /\ WritesQueueMap(s) /\ WritesQueueMap(t)

MapRace ==
  /\ MapConflict
  /\ up' = FALSE
  /\ UNCHANGED <<storeVars, queueMap, writerVars, sessionVars>>

-----------------------------------------------------------------------------
\* What a thread does once it has begun; the rest of Next is what the cluster
\* and the clients do.
WriterStep ==
  up /\ (StoreNodeEvent \/ (\E s \in Session : EnqueueNode(s)) \/ FinishNode)

SessionStep(s) ==
  /\ up
  /\ \/ AddNodeQueue(s)
     \/ ListNodeStart(s)
     \/ ListNodeRead(s)
     \/ ListNodeNil(s)
     \/ ListNodeEnd(s)
     \/ SendNode(s)
     \/ SendFails(s)
     \/ ConvertIPPanics(s)
     \/ DequeueNode(s)
     \/ RemoveNodeQueue(s)

ClusterStep ==
  up /\ \E n \in Name : (\E o \in Observed[n] : SetNode(n, o)) \/ DeleteNode(n)

ClientStep(s) ==
  up /\ ((\E m \in 0 .. MaxVersion : WatchNode(s, m)) \/ ListNode(s) \/ Disconnect(s))

Next ==
  \/ ClusterStep
  \/ WriterStep
  \/ \E s \in Session : SessionStep(s) \/ ClientStep(s)
  \/ up /\ MapRace

Spec == Init /\ [][Next]_vars

\* The Go scheduler runs every goroutine that can run.
FairSpec ==
  /\ Spec
  /\ WF_vars(WriterStep)
  /\ \A s \in Session : WF_vars(SessionStep(s))

-----------------------------------------------------------------------------
(* Properties.                                                             *)

Versions == 1 .. MaxVersion

\* Every variable stays within its type: versions never pass the bound, the
\* event log has an entry for each version but the one being published, and
\* the worker holds an event exactly while it publishes one.
TypeOK ==
  /\ up \in BOOLEAN
  /\ rv \in 0 .. MaxVersion
  /\ nodeMap \in [Name -> NodeObject \cup {Nil}]
  /\ eventMap \in Seq(NodeEventObject)
  /\ DOMAIN eventMap = IF wpc = "storing" THEN 1 .. (rv - 1) ELSE 1 .. rv
  /\ nodeIPMap \subseteq IP
  /\ queueMap \subseteq Session
  /\ wpc \in {"idle", "storing", "enqueueing"}
  /\ cur \in IF wpc = "idle" THEN {Nil} ELSE NodeEventObject
  /\ wpc # "idle" => rv > 0
  /\ todo \subseteq IF wpc = "enqueueing" THEN queueMap ELSE {}
  /\ spc \in [Session -> {"idle", "adding", "list", "listing", "sending",
                          "removing", "closed"}]
  /\ from \in [Session -> 0 .. MaxVersion]
  /\ smax \in [Session -> 0 .. MaxVersion]
  /\ pending \in [Session -> Seq(Versions)]
  /\ queue \in [Session -> Seq(Versions)]
  /\ open \subseteq Session
  /\ sent \in [Session -> Seq(Versions)]

Sent(s) == Range(sent[s])

\* A stream never skips an event: when a version has been sent, so has every
\* earlier version the client asked for (WatchNode registers the queue before
\* it lists, quarkcmsvc.go:96-99).
GapFree(s) == \A v \in Sent(s) : (from[s] + 1) .. (v - 1) \subseteq Sent(s)

StreamGapFree == \A s \in Session : GapFree(s)

\* The versions EnqueueNode has offered to the queue of s so far.
EnqueuedUpTo(s) ==
  IF wpc = "storing" \/ s \in todo THEN rv - 1 ELSE rv

\* No event falls between the listing and the queue: once WatchNode has
\* listed, every published event after the client's version has been sent, is
\* about to be, or waits in the queue.
NoEventLost ==
  \A s \in queueMap :
    spc[s] = "sending" =>
      (from[s] + 1) .. EnqueuedUpTo(s) \subseteq
        Sent(s) \cup Range(pending[s]) \cup Range(queue[s])

\* An event that is both listed and queued is sent twice, but the stream goes
\* back at most once, where the queue takes over from the listing.
OneRewind ==
  \A s \in Session :
    \A i, j \in 2 .. Len(sent[s]) :
      /\ sent[s][i] <= sent[s][i - 1]
      /\ sent[s][j] <= sent[s][j - 1]
      => i = j

\* The last event of node n before version v, as what it leaves of the node.
After(n, v) ==
  LET own == {u \in DOMAIN eventMap : u < v /\ eventMap[u].name = n}
      last == CHOOSE u \in own : \A w \in own : w <= u
  IN IF own = {} \/ eventMap[last].type = "delete" THEN Nil ELSE eventMap[last].node

\* Between two operations of the worker the events replayed from the first
\* give the map of nodes: a client that has them all knows what the server
\* knows.
LogMatchesMap ==
  wpc = "idle" => \A n \in Name : nodeMap[n] = After(n, rv + 1)

\* No event is redundant: a set event changes the node it names, and a delete
\* event carries the node that the last set event left.
NoRedundantEvent ==
  \A v \in DOMAIN eventMap :
    LET e == eventMap[v]
        before == After(e.name, v)
    IN IF e.type = "set"
       THEN /\ e.node.rv = v
            /\ before # Nil => <<before.ip, before.attr>> # <<e.node.ip, e.node.attr>>
       ELSE e.node = before

\* Between two operations of the worker NodeIPMap holds the addresses of the
\* nodes and nothing else ("generating node ip set", controller.go:63).
IPSetExact ==
  wpc = "idle" =>
    nodeIPMap = {nodeMap[n].ip : n \in {k \in Name : nodeMap[k] # Nil}}

\* ListNode never looks up a version that has no event: NodeEventMap is
\* "map[resource version] => node event object" (datastore.go:30).
ListedVersionStored ==
  \A s \in Session : Reading(s) => NextListed(s) \in DOMAIN eventMap

\* The requests being served and what they were sent, as EventFeed sees them.
Live == IF up THEN open ELSE {}

Feed == INSTANCE EventFeed WITH
  Event     <- NodeEventObject,
  MaxEvents <- MaxVersion,
  log       <- eventMap,
  live      <- Live,
  seen      <- [s \in Session |-> Sent(s)]

\* The watch service is an EventFeed: the log only grows at its end, and each
\* stream is a gap-free replay of it.
ImplementsFeed == Feed!Spec

\* A watcher that stays connected is sent every event after its version, also
\* those published after it has listed, unless the process stops.
EveryEventDelivered ==
  \A s \in Session : \A v \in Versions :
    (spc[s] = "sending" /\ v \in DOMAIN eventMap /\ v > from[s])
      ~> (v \in Sent(s) \/ s \notin open \/ ~up)

\* A watch whose client is gone is unregistered once an event is there to be
\* sent to it, unless the process stops.
DeadWatchRemoved ==
  \A s \in Session :
    (s \in queueMap /\ s \notin open /\ queue[s] # <<>>) ~> (s \notin queueMap \/ ~up)

-----------------------------------------------------------------------------
(* What makes the safety of the streams inductive: where in the history of  *)
(* versions each request is.  Proved in NodeStoreProofs.                    *)

\* Versions above this one wait in the queue of s or were not offered to it.
LeftQueue(s) == EnqueuedUpTo(s) - Len(queue[s])

\* A queue holds the last versions offered, in order and without a gap.
QueueIsSuffix(s) ==
  /\ Len(queue[s]) <= EnqueuedUpTo(s)
  /\ \A i \in 1 .. Len(queue[s]) : queue[s][i] = LeftQueue(s) + i

\* Where a request is decides whether it is registered and what it holds.
Phases(s) ==
  /\ spc[s] \in {"idle", "adding", "closed"} => s \notin queueMap
  /\ spc[s] \in {"sending", "removing"} => s \in queueMap
  /\ s \notin queueMap => queue[s] = <<>>
  /\ spc[s] \notin {"listing", "sending"} => pending[s] = <<>>
  /\ spc[s] \in {"idle", "adding", "list", "listing"} => sent[s] = <<>>

\* The listing holds the first versions asked for, and the queue has released
\* none that the listing will not reach.
ListingOK(s) ==
  spc[s] = "listing" =>
    /\ \A i \in 1 .. Len(pending[s]) : pending[s][i] = from[s] + i
    /\ s \in queueMap => LeftQueue(s) <= smax[s]

\* While sending, what left the queue or was listed is sent or pending, and
\* what is pending continues what is sent.
SendingOK(s) ==
  spc[s] = "sending" =>
    /\ (from[s] + 1) .. LeftQueue(s) \subseteq Sent(s) \cup Range(pending[s])
    /\ \A i \in 1 .. Len(pending[s]) :
         /\ pending[s][i] = pending[s][1] + i - 1
         /\ (from[s] + 1) .. (pending[s][1] - 1) \subseteq Sent(s)

\* Only versions with an event are held or were sent.
InLog(s) ==
  Range(pending[s]) \cup Range(queue[s]) \cup Sent(s) \subseteq DOMAIN eventMap

SessionInv(s) ==
  /\ QueueIsSuffix(s)
  /\ Phases(s)
  /\ ListingOK(s)
  /\ SendingOK(s)
  /\ InLog(s)
  /\ GapFree(s)

StreamInv == TypeOK /\ \A s \in Session : SessionInv(s)
==============================================================================
