---------------------------- MODULE ResourceStores ----------------------------
(***************************************************************************)
(* The datastores of pods, services, endpoints, config maps, ingresses and *)
(* RdmaIngresses with their gRPC requests, during one life of the process. *)
(* Each is the node store and service again, with an object, a comparison  *)
(* and a message of its own (Resources); NodeStore has the finer steps,    *)
(* here a step ends where the order of version, event, queues and map      *)
(* shows.                                                                  *)
(*                                                                         *)
(* kind says which of the six it is; they share nothing but the process.   *)
(*                                                                         *)
(* A definition named ...Bug is a plausible mistake in the next one.       *)
(***************************************************************************)
EXTENDS Resources

CONSTANTS Kind,        \* the kinds of stores looked at
          Looks,       \* Looks[kind][name]: what an object may look like
          Session,     \* gRPC requests, a WatchX or a ListX each
          MaxVersion   \* bound: events published in one life of the process

ASSUME KindAssumption == Kind \subseteq (Kinds \ {"node"}) \cap DOMAIN Looks
ASSUME MaxVersionAssumption == MaxVersion \in Nat

\* What can be published of an object of a kind. (The value comes first: TLC
\* compares the fields of records in the order in which it met their names, and
\* it can compare the values of two kinds, but not a name with a port.)
EventObject(k) ==
  UNION {
    {[value |-> Stored(k, op.value), key |-> op.key, type |-> type] :
       type \in {"set", "delete"},
       op \in UNION {ToSet(Handle(k, "set", name, o)) :
                      o \in {p \in Looks[k][name] : ~Unhandled(k, name, p)}}} :
    name \in DOMAIN Looks[k]}

ASSUME NilAssumption == \A k \in Kind : Nil \notin EventObject(k)

\* The rules of an RdmaIngress are a sequence.
ASSUME RulesAssumption ==
  "rdmaingress" \in Kind =>
    \A name \in DOMAIN Looks["rdmaingress"] : \A o \in Looks["rdmaingress"][name] :
      /\ Len(o.rules) \in Nat
      /\ DOMAIN o.rules = 1 .. Len(o.rules)

VARIABLES
  kind,      \* which store this is
  up,        \* the process is running
  version,   \* XResourceVersion
  store,     \* XMap
  eventMap,  \* XEventMap
  queueMap,  \* XQueueMap, the set of its keys
  ops,       \* the operations the worker has still to do for its item
  cur,       \* newXEvent of the worker, Nil when it has none
  wpc,       \* where the worker is in SetX or DeleteX
  spc,       \* where each request is
  from,      \* minResourceVersion of its ListX
  smax,      \* maxResourceVersion of its ListX, 0 outside
  pending,   \* versions listed or dequeued and not sent
  queue,     \* versions in its work queue
  open,      \* the requests whose client is there
  sent       \* the messages it was sent

writerVars  == <<ops, cur, wpc>>
storeVars   == <<version, store, eventMap>>
sessionVars == <<spc, from, smax, pending, queue, open, sent>>
vars == <<kind, up, storeVars, queueMap, writerVars, sessionVars>>

Key == DOMAIN Looks[kind]

Init ==
  /\ kind \in Kind
  /\ up = TRUE
  /\ version = 0
  /\ store = NoStore
  /\ eventMap = <<>>
  /\ queueMap = {}
  /\ ops = <<>>
  /\ cur = Nil
  /\ wpc = "idle"
  /\ spc = [s \in Session |-> "idle"]
  /\ from = [s \in Session |-> 0]
  /\ smax = [s \in Session |-> 0]
  /\ pending = [s \in Session |-> <<>>]
  /\ queue = [s \in Session |-> <<>>]
  /\ open = {}
  /\ sent = [s \in Session |-> <<>>]

-----------------------------------------------------------------------------
(* The worker.                                                             *)

\* The controller hands an item to the handler.
HandleItem(type, name, o) ==
  /\ ops = <<>>
  /\ ~Panics(kind, type, name, o)
  /\ ops' = Handle(kind, type, name, o)
  /\ UNCHANGED <<kind, up, storeVars, queueMap, cur, wpc, sessionVars>>

\* An operation that changes nothing.
Skip ==
  /\ wpc = "idle"
  /\ ops # <<>>
  /\ ~Takes(kind, store, Head(ops))
  /\ ops' = Tail(ops)
  /\ UNCHANGED <<kind, up, storeVars, queueMap, cur, wpc, sessionVars>>

\* SetX takes a version and changes the map.
Set ==
  /\ wpc = "idle"
  /\ ops # <<>>
  /\ LET op == Head(ops) IN
       /\ op.value # Nil
       /\ Takes(kind, store, op)
       /\ store' = With(store, op.key, Stored(kind, op.value))
       /\ cur' = [type |-> "set", key |-> op.key, value |-> Stored(kind, op.value)]
  /\ version < MaxVersion
  /\ version' = version + 1
  /\ wpc' = "storing"
  /\ UNCHANGED <<kind, up, eventMap, queueMap, ops, sessionVars>>

\* DeleteX takes a version; its event carries what is deleted.
Delete ==
  /\ wpc = "idle"
  /\ ops # <<>>
  /\ LET op == Head(ops) IN
       /\ op.value = Nil
       /\ Takes(kind, store, op)
       /\ cur' = [type |-> "delete", key |-> op.key, value |-> store[op.key]]
  /\ version < MaxVersion
  /\ version' = version + 1
  /\ wpc' = "storing"
  /\ UNCHANGED <<kind, up, store, eventMap, queueMap, ops, sessionVars>>

\* Only a set is stored in the log.
StoreEventBug ==
  /\ wpc = "storing"
  /\ eventMap' = IF cur.type = "set" THEN Append(eventMap, cur) ELSE eventMap
  /\ wpc' = "enqueueing"
  /\ UNCHANGED <<kind, up, version, store, queueMap, ops, cur, sessionVars>>

\* XEventMap[resourceVersion] = newXEvent.
StoreEvent ==
  /\ wpc = "storing"
  /\ eventMap' = Append(eventMap, cur)
  /\ wpc' = "enqueueing"
  /\ UNCHANGED <<kind, up, version, store, queueMap, ops, cur, sessionVars>>

\* The deleted object stays in the map.
EnqueueBug ==
  /\ wpc = "enqueueing"
  /\ queue' = [s \in Session |-> IF s \in queueMap THEN Append(queue[s], version)
                                 ELSE queue[s]]
  /\ ops' = Tail(ops)
  /\ cur' = Nil
  /\ wpc' = "idle"
  /\ UNCHANGED <<kind, up, version, eventMap, store, queueMap, spc, from, smax, pending, open, sent>>

\* EnqueueX adds the event to every queue, and DeleteX ends with its delete.
Enqueue ==
  /\ wpc = "enqueueing"
  /\ queue' = [s \in Session |-> IF s \in queueMap THEN Append(queue[s], version)
                                 ELSE queue[s]]
  /\ store' = IF cur.type = "delete" THEN Without(store, cur.key) ELSE store
  /\ ops' = Tail(ops)
  /\ cur' = Nil
  /\ wpc' = "idle"
  /\ UNCHANGED <<kind, up, version, eventMap, queueMap, spc, from, smax, pending, open, sent>>

-----------------------------------------------------------------------------
(* The messages, by what they say beside the version and the type.         *)

PodMessage(key, v) ==
  [key |-> key, ip |-> ConvertIP(v.ip), nodeName |-> v.nodeName, containerId |-> v.container]

\* strings.Split of "" is one empty string, here Nil.
Split(list) == IF list = <<>> THEN <<Nil>> ELSE list

ServiceMessage(key, v) ==
  [name |-> key, clusterIp |-> ConvertIP(v.clusterIP), ports |-> Split(v.ports)]

EndpointsMessage(key, v) == [name |-> key, ipWithPorts |-> Split(v.ipWithPorts)]

ConfigMapMessage(key, v) == [name |-> key, value |-> v.value]

IngressMessage(key, v) == [name |-> key, service |-> v.service, portNumber |-> v.port]

RdmaIngressMessage(key, v) ==
  [portNumber |-> key, service |-> v.service, targetPortNumber |-> v.targetPort]

\* The message of the kind.
MessageOf(key, v) ==
  CASE kind = "pod"         -> PodMessage(key, v)
    [] kind = "service"     -> ServiceMessage(key, v)
    [] kind = "endpoints"   -> EndpointsMessage(key, v)
    [] kind = "configmap"   -> ConfigMapMessage(key, v)
    [] kind = "ingress"     -> IngressMessage(key, v)
    [] kind = "rdmaingress" -> RdmaIngressMessage(key, v)

\* The addresses that a message converts.
Tellable(v) ==
  CASE kind = "pod"     -> IsIPv4(v.ip)
    [] kind = "service" -> IsIPv4(v.clusterIP)
    [] OTHER            -> TRUE

\* What is sent for a version.
Telling(v) ==
  [version |-> v, type |-> eventMap[v].type,
   says |-> MessageOf(eventMap[v].key, eventMap[v].value)]

-----------------------------------------------------------------------------
(* The gRPC requests.                                                      *)

\* A client calls WatchX with the largest version it has.
Watch(s, m) ==
  /\ spc[s] = "idle"
  /\ spc' = [spc EXCEPT ![s] = "adding"]
  /\ from' = [from EXCEPT ![s] = m]
  /\ open' = open \cup {s}
  /\ UNCHANGED <<kind, up, storeVars, queueMap, writerVars, smax, pending, queue, sent>>

\* A client calls ListX, which lists after version 0 and has no queue.
List(s) ==
  /\ spc[s] = "idle"
  /\ spc' = [spc EXCEPT ![s] = "list"]
  /\ open' = open \cup {s}
  /\ UNCHANGED <<kind, up, storeVars, queueMap, writerVars, from, smax, pending, queue, sent>>

AddQueue(s) ==
  /\ spc[s] = "adding"
  /\ queueMap' = queueMap \cup {s}
  /\ spc' = [spc EXCEPT ![s] = "list"]
  /\ UNCHANGED <<kind, up, storeVars, writerVars, from, smax, pending, queue, open, sent>>

\* ListX reads the version first.
ListStart(s) ==
  /\ spc[s] = "list"
  /\ smax' = [smax EXCEPT ![s] = version]
  /\ spc' = [spc EXCEPT ![s] = "listing"]
  /\ UNCHANGED <<kind, up, storeVars, queueMap, writerVars, from, pending, queue, open, sent>>

Listed(s) == [i \in 1 .. (smax[s] - from[s]) |-> from[s] + i]

\* *xEventMap[i] of a version that is counted and not yet stored.
ListNil(s) ==
  /\ spc[s] = "listing"
  /\ ~(ToSet(Listed(s)) \subseteq DOMAIN eventMap)
  /\ up' = FALSE
  /\ UNCHANGED <<kind, storeVars, queueMap, writerVars, sessionVars>>

\* ListX answers with all events in one message.
ListAnswer(s) ==
  /\ spc[s] = "listing"
  /\ s \notin queueMap
  /\ ToSet(Listed(s)) \subseteq DOMAIN eventMap
  /\ \A v \in ToSet(Listed(s)) : Tellable(eventMap[v].value)
  /\ sent' = IF s \in open
             THEN [sent EXCEPT ![s] = [i \in DOMAIN Listed(s) |-> Telling(Listed(s)[i])]]
             ELSE sent
  /\ spc' = [spc EXCEPT ![s] = "closed"]
  /\ smax' = [smax EXCEPT ![s] = 0]
  /\ open' = open \ {s}
  /\ UNCHANGED <<kind, up, storeVars, queueMap, writerVars, from, pending, queue>>

\* WatchX has its list and goes on to send it.
ListEnd(s) ==
  /\ spc[s] = "listing"
  /\ s \in queueMap
  /\ ToSet(Listed(s)) \subseteq DOMAIN eventMap
  /\ pending' = [pending EXCEPT ![s] = Listed(s)]
  /\ smax' = [smax EXCEPT ![s] = 0]
  /\ spc' = [spc EXCEPT ![s] = "sending"]
  /\ UNCHANGED <<kind, up, storeVars, queueMap, writerVars, from, queue, open, sent>>

\* The version that a request is about to put into a message.
Told(s) ==
  IF spc[s] = "sending" /\ pending[s] # <<>> THEN {Head(pending[s])}
  ELSE IF spc[s] = "listing" /\ s \notin queueMap /\ ToSet(Listed(s)) \subseteq DOMAIN eventMap
  THEN ToSet(Listed(s))
  ELSE {}

\* ConvertIP panics while the message is built.
TellPanics(s) ==
  /\ \E v \in Told(s) : ~Tellable(eventMap[v].value)
  /\ up' = FALSE
  /\ UNCHANGED <<kind, storeVars, queueMap, writerVars, sessionVars>>

\* sendXStream of the next listed event or of the dequeued one.
Send(s) ==
  /\ spc[s] = "sending"
  /\ pending[s] # <<>>
  /\ Tellable(eventMap[Head(pending[s])].value)
  /\ s \in open
  /\ sent' = [sent EXCEPT ![s] = Append(@, Telling(Head(pending[s])))]
  /\ pending' = [pending EXCEPT ![s] = Tail(@)]
  /\ UNCHANGED <<kind, up, storeVars, queueMap, writerVars, spc, from, smax, queue, open>>

\* stream.Send reports an error and WatchX returns, to its deferred calls.
SendFails(s) ==
  /\ spc[s] = "sending"
  /\ pending[s] # <<>>
  /\ Tellable(eventMap[Head(pending[s])].value)
  /\ s \notin open
  /\ spc' = [spc EXCEPT ![s] = "removing"]
  /\ pending' = [pending EXCEPT ![s] = <<>>]
  /\ UNCHANGED <<kind, up, storeVars, queueMap, writerVars, from, smax, queue, open, sent>>

\* Only the newest event of the queue is kept.
CoalesceBug(s) ==
  /\ spc[s] = "sending"
  /\ pending[s] = <<>>
  /\ queue[s] # <<>>
  /\ pending' = [pending EXCEPT ![s] = <<Last(queue[s])>>]
  /\ queue' = [queue EXCEPT ![s] = <<>>]
  /\ UNCHANGED <<kind, up, storeVars, queueMap, writerVars, spc, from, smax, open, sent>>

\* The queue is a stack.
DequeueBug(s) ==
  /\ spc[s] = "sending"
  /\ pending[s] = <<>>
  /\ queue[s] # <<>>
  /\ pending' = [pending EXCEPT ![s] = <<Last(queue[s])>>]
  /\ queue' = [queue EXCEPT ![s] = Front(@)]
  /\ UNCHANGED <<kind, up, storeVars, queueMap, writerVars, spc, from, smax, open, sent>>

Dequeue(s) ==
  /\ spc[s] = "sending"
  /\ pending[s] = <<>>
  /\ queue[s] # <<>>
  /\ pending' = [pending EXCEPT ![s] = <<Head(queue[s])>>]
  /\ queue' = [queue EXCEPT ![s] = Tail(@)]
  /\ UNCHANGED <<kind, up, storeVars, queueMap, writerVars, spc, from, smax, open, sent>>

RemoveQueue(s) ==
  /\ spc[s] = "removing"
  /\ queueMap' = queueMap \ {s}
  /\ queue' = [queue EXCEPT ![s] = <<>>]
  /\ spc' = [spc EXCEPT ![s] = "closed"]
  /\ UNCHANGED <<kind, up, storeVars, writerVars, from, smax, pending, open, sent>>

\* The client is gone; nothing but a later send notices.
Disconnect(s) ==
  /\ s \in open
  /\ open' = open \ {s}
  /\ UNCHANGED <<kind, up, storeVars, queueMap, writerVars, spc, from, smax, pending, queue, sent>>

\* The operations of a datastore, called by the worker and by requests.
Datastore ==
  \/ Skip \/ Set \/ Delete \/ StoreEvent \/ Enqueue
  \/ \E s \in Session : AddQueue(s) \/ ListStart(s) \/ ListNil(s) \/ RemoveQueue(s)

\* Pods are filtered, compared by address and node, and get their container.
PodDatastore         == kind = "pod" /\ Datastore
ServiceDatastore     == kind = "service" /\ Datastore
EndpointsDatastore   == kind = "endpoints" /\ Datastore
\* Without a delete that anything calls.
ConfigMapDatastore   == kind = "configmap" /\ Datastore
IngressDatastore     == kind = "ingress" /\ Datastore
\* Keyed by port.
RdmaIngressDatastore == kind = "rdmaingress" /\ Datastore

\* The code of ListX and WatchX around those.
Serve(s) ==
  \/ ListAnswer(s)
  \/ ListEnd(s)
  \/ TellPanics(s)
  \/ Send(s)
  \/ SendFails(s)
  \/ Dequeue(s)

ServePod(s)         == kind = "pod" /\ Serve(s)
ServeService(s)     == kind = "service" /\ Serve(s)
ServeEndpoints(s)   == kind = "endpoints" /\ Serve(s)
ServeConfigMap(s)   == kind = "configmap" /\ Serve(s)
ServeIngress(s)     == kind = "ingress" /\ Serve(s)
ServeRdmaIngress(s) == kind = "rdmaingress" /\ Serve(s)

\* The calls of a client.
Call(s) == List(s) \/ \E m \in {0} \cup DOMAIN eventMap : Watch(s, m)

-----------------------------------------------------------------------------
\* Any object may be set again, and one that was seen may be deleted.
Controller ==
  \E name \in Key : \E type \in {"set", "delete"} : \E o \in Looks[kind][name] :
    HandleItem(type, name, o)

Stores ==
  \/ PodDatastore \/ ServiceDatastore \/ EndpointsDatastore
  \/ ConfigMapDatastore \/ IngressDatastore \/ RdmaIngressDatastore

Request(s) ==
  \/ ServePod(s) \/ ServeService(s) \/ ServeEndpoints(s)
  \/ ServeConfigMap(s) \/ ServeIngress(s) \/ ServeRdmaIngress(s)

Client(s) == Call(s) \/ Disconnect(s)

Next ==
  /\ up
  /\ \/ Controller
     \/ Stores
     \/ \E s \in Session : Request(s) \/ Client(s)

Spec == Init /\ [][Next]_vars

-----------------------------------------------------------------------------
(* Properties.                                                             *)

\* Every variable stays within its type: the log has an event for each version
\* but the one being published.
StoresTypeOK ==
  /\ kind \in Kind
  /\ up \in BOOLEAN
  /\ version \in 0 .. MaxVersion
  /\ DOMAIN eventMap = 1 .. (IF wpc = "storing" THEN version - 1 ELSE version)
  /\ queueMap \subseteq Session
  /\ wpc \in {"idle", "storing", "enqueueing"}
  /\ cur = Nil <=> wpc = "idle"
  /\ wpc # "idle" => ops # <<>> /\ Head(ops).key = cur.key
  /\ spc \in [Session -> {"idle", "adding", "list", "listing", "sending", "removing", "closed"}]
  /\ from \in [Session -> 0 .. MaxVersion]
  /\ smax \in [Session -> 0 .. MaxVersion]
  /\ \A s \in Session :
       /\ ToSet(pending[s]) \cup ToSet(queue[s]) \subseteq DOMAIN eventMap
       /\ {m.version : m \in ToSet(sent[s])} \subseteq DOMAIN eventMap
  /\ open \subseteq Session

\* What the messages of this kind are about.
SubjectOf(says) ==
  IF kind = "pod" THEN says.key
  ELSE IF kind = "rdmaingress" THEN says.portNumber
  ELSE says.name

\* What a client that handles messages in order knows in the end: the last
\* message about each subject, if it is a set.
Knows(messages) ==
  {m \in ToSet(messages) :
     /\ m.type = "set"
     /\ \E i \in DOMAIN messages :
          /\ messages[i] = m
          /\ \A j \in DOMAIN messages :
               SubjectOf(messages[j].says) = SubjectOf(m.says) => j <= i}

\* The messages of the versions a client had before its request.
Before(s) == [v \in 1 .. from[s] |-> Telling(v)]

\* A watcher that has been sent all that waits for it knows exactly the objects
\* of the store, each as it is: whatever was listed, queued or both, however
\* often a set repeated what was there, whatever the handler made of an object.
WatcherHasStore ==
  \A s \in queueMap :
    wpc = "idle" /\ spc[s] = "sending" /\ pending[s] = <<>> /\ queue[s] = <<>> =>
      {m.says : m \in Knows(Before(s) \o sent[s])}
        = {MessageOf(key, store[key]) : key \in DOMAIN store}

\* No message about an object changes nothing for a client that has all before
\* it.
NoIdleMessage ==
  \A v \in DOMAIN eventMap :
    LET e == eventMap[v]
        earlier == {u \in 1 .. (v - 1) : eventMap[u].key = e.key}
        last == CHOOSE u \in earlier : \A w \in earlier : w <= u
    IN IF e.type = "delete"
       THEN earlier # {} /\ eventMap[last] = [e EXCEPT !.type = "set"]
       ELSE earlier # {} => eventMap[last] # e

Feed == INSTANCE EventFeed WITH
  Event     <- UNION {EventObject(k) : k \in Kind},
  MaxEvents <- MaxVersion,
  log       <- eventMap,
  live      <- IF up THEN open ELSE {},
  seen      <- [s \in Session |-> {m.version : m \in ToSet(sent[s])}]

\* Every one of the services is an EventFeed, as the node service is: the log
\* only grows at its end, and each stream is a gap-free replay of it.
ImplementsFeed == Feed!Spec

\* Building a message never ends the process: the manager keeps "watching the
\* cluster for changes and syncing to RDMASvc" (root.go:34-36).
MessagesCanBeBuilt ==
  \A s \in Session : \A v \in Told(s) : Tellable(eventMap[v].value)
==============================================================================
