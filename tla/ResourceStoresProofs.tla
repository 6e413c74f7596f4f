------------------------- MODULE ResourceStoresProofs -------------------------
(***************************************************************************)
(* Proofs about ResourceStores, for each of the six kinds, every set of    *)
(* objects, requests and every bound on the versions: no event is idle, a  *)
(* watcher that has been sent everything knows the store, and each service *)
(* is an EventFeed.                                                        *)
(*                                                                         *)
(* The last event about an object tells what the map has of it (Leads).    *)
(* All that a watcher is sent is a listing up to some version and then a   *)
(* queue from some version that is not later (Streams), so the last        *)
(* message about an object is about its last event (EndsWith).             *)
(***************************************************************************)
EXTENDS ResourceStores, SequenceTheorems, TLAPS

-----------------------------------------------------------------------------
(* The invariant.                                                          *)

\* The last version that was offered to the queues.
Offered == IF wpc = "idle" THEN version ELSE version - 1

\* The log with the event that is about to be stored, and the map without the
\* object that is about to go.
Log == IF wpc = "storing" THEN Append(eventMap, cur) ELSE eventMap
Map == IF wpc # "idle" /\ cur.type = "delete" THEN Without(store, cur.key) ELSE store

\* No later event is about the same object.
IsLast(log, v) == \A w \in DOMAIN log : log[w].key = log[v].key => w <= v

\* The last event about each object tells what the map has of it.
Leads(log, map) ==
  /\ \A v \in DOMAIN log : IsLast(log, v) =>
       IF log[v].type = "delete" THEN log[v].key \notin DOMAIN map
       ELSE /\ log[v].type = "set"
            /\ log[v].key \in DOMAIN map
            /\ log[v].value = map[log[v].key]
  /\ \A key \in DOMAIN map : \E v \in DOMAIN log : log[v].key = key
  /\ \A u \in DOMAIN log : \E v \in DOMAIN log : log[v].key = log[u].key /\ IsLast(log, v)

\* u is the last event before v about the object of v.
LastBefore(log, v, u) ==
  /\ u \in 1 .. (v - 1)
  /\ log[u].key = log[v].key
  /\ \A w \in 1 .. (v - 1) : log[w].key = log[v].key => w <= u

\* Event v says something new.
SaysNew(log, v) ==
  IF log[v].type = "delete"
  THEN \E u \in 1 .. (v - 1) :
         LastBefore(log, v, u) /\ log[u] = [log[v] EXCEPT !.type = "set"]
  ELSE (\E w \in 1 .. (v - 1) : log[w].key = log[v].key) =>
         \E u \in 1 .. (v - 1) : LastBefore(log, v, u) /\ log[u] # log[v]

\* What a set may put into the map.
Publishable(key, value) ==
  \A type \in {"set", "delete"} : [type |-> type, key |-> key, value |-> value] \in EventObject(kind)

\* The worker.
WorkerInv ==
  /\ kind \in Kind
  /\ up \in BOOLEAN
  /\ version \in 0 .. MaxVersion
  /\ wpc \in {"idle", "storing", "enqueueing"}
  /\ eventMap \in Seq(EventObject(kind))
  /\ Len(eventMap) = IF wpc = "storing" THEN version - 1 ELSE version
  /\ ops \in Seq(ToSet(ops))
  /\ \A op \in ToSet(ops) : op.value # Nil => Publishable(op.key, Stored(kind, op.value))
  /\ IF wpc = "idle" THEN cur = Nil
     ELSE /\ cur \in EventObject(kind)
          /\ ops # <<>>
          /\ Head(ops).key = cur.key
          /\ version > 0
  /\ \A key \in DOMAIN store : Publishable(key, store[key])

\* The log tells of the map, and each event tells something.
LogInv ==
  /\ Leads(Log, Map)
  /\ \A v \in DOMAIN Log : SaysNew(Log, v)

\* The i-th version that is sent to a watcher that had f: the listing goes up
\* to m, and the queue goes on after c.
Course(f, m, c, i) == IF i <= m - f THEN f + i ELSE c + i - (m - f)

\* All messages there may be.
Message == {Telling(v) : v \in DOMAIN eventMap}

\* The types and the phases of a request.
Phases(s) ==
  /\ from[s] \in 0 .. Len(eventMap)
  /\ smax[s] \in 0 .. version
  /\ pending[s] \in Seq(DOMAIN eventMap)
  /\ queue[s] \in Seq(DOMAIN eventMap)
  /\ sent[s] \in Seq(Message)
  /\ s \notin queueMap => queue[s] = <<>>
  /\ spc[s] \in {"idle", "adding", "closed"} => s \notin queueMap
  /\ spc[s] \in {"sending", "removing"} => s \in queueMap
  /\ spc[s] # "sending" => pending[s] = <<>>
  /\ spc[s] \in {"idle", "adding", "list", "listing"} => sent[s] = <<>>
  /\ spc[s] = "idle" => s \notin open /\ from[s] = 0

\* Before a watcher sends, its queue has what was offered to it, and nothing
\* between the listing and the queue is missing.
Listens(s) ==
  /\ spc[s] \in {"list", "listing"} /\ s \in queueMap =>
       /\ Len(queue[s]) <= Offered
       /\ \A i \in 1 .. Len(queue[s]) : queue[s][i] = Offered - Len(queue[s]) + i
  /\ spc[s] = "listing" =>
       /\ from[s] <= smax[s]
       /\ s \in queueMap => Offered - Len(queue[s]) <= smax[s]

\* What was sent, and in what follows the versions that wait, is the course of
\* a listing and a queue.
Streams(s, m, c) ==
  /\ from[s] <= m
  /\ \A i \in 1 .. Len(sent[s]) : sent[s][i].version = Course(from[s], m, c, i)
  /\ spc[s] = "sending" =>
       /\ Len(sent[s]) + Len(pending[s]) + Len(queue[s]) = (m - from[s]) + (Offered - c)
       /\ Len(sent[s]) + Len(pending[s]) >= m - from[s]
       /\ \A i \in 1 .. Len(pending[s]) :
            pending[s][i] = Course(from[s], m, c, Len(sent[s]) + i)
       /\ \A i \in 1 .. Len(queue[s]) :
            queue[s][i] = Course(from[s], m, c, Len(sent[s]) + Len(pending[s]) + i)

\* What holds of a request.
SessionInv(s) ==
  /\ Phases(s)
  /\ Listens(s)
  /\ \E m \in 0 .. Len(eventMap) : \E c \in 0 .. m : Streams(s, m, c)

\* The variables of the requests.
Shape ==
  /\ queueMap \subseteq Session
  /\ open \subseteq Session
  /\ spc \in [Session -> {"idle", "adding", "list", "listing", "sending", "removing", "closed"}]
  /\ from \in [Session -> Nat]
  /\ smax \in [Session -> Nat]
  /\ pending \in [Session -> Seq(Nat)]
  /\ queue \in [Session -> Seq(Nat)]
  /\ DOMAIN sent = Session
  /\ sent = [s \in Session |-> sent[s]]

\* The inductive invariant.
StoresInv ==
  /\ WorkerInv
  /\ LogInv
  /\ Shape
  /\ \A s \in Session : SessionInv(s)

-----------------------------------------------------------------------------
(* What the handlers make of an object.                                    *)

\* The elements of a sequence.
LEMMA OverItsElements ==
  ASSUME NEW S, NEW q \in Seq(S)
  PROVE  q \in Seq(ToSet(q)) /\ ToSet(q) \subseteq S
<1>1. Len(q) \in Nat /\ DOMAIN q = 1 .. Len(q) /\ q \in [1 .. Len(q) -> S]
  BY LenProperties
<1>2. \A i \in 1 .. Len(q) : q[i] \in ToSet(q) /\ q[i] \in S
  BY <1>1 DEF ToSet
<1>3. q \in [1 .. Len(q) -> ToSet(q)]
  BY <1>1, <1>2
<1>4. q \in Seq(ToSet(q))
  BY <1>1, <1>3, SeqDef
<1>5. QED
  BY <1>1, <1>2, <1>4 DEF ToSet

\* A sequence of one element, or none.
LEMMA SmallSeq ==
  /\ <<>> \in Seq(ToSet(<<>>)) /\ ToSet(<<>>) = {}
  /\ \A e : <<e>> \in Seq(ToSet(<<e>>)) /\ ToSet(<<e>>) = {e}
<1>1. <<>> \in Seq({})
  OBVIOUS
<1>2. ASSUME NEW e PROVE <<e>> \in Seq({e})
  OBVIOUS
<1>3. QED
  BY <1>1, <1>2, OverItsElements DEF ToSet

\* All but the first.
LEMMA TailElements ==
  ASSUME NEW q, q \in Seq(ToSet(q)), q # <<>>
  PROVE  /\ Head(q) \in ToSet(q)
         /\ Tail(q) \in Seq(ToSet(Tail(q)))
         /\ ToSet(Tail(q)) \subseteq ToSet(q)
<1>1. Tail(q) \in Seq(ToSet(q)) /\ Head(q) \in ToSet(q)
  BY HeadTailProperties
<1>2. QED
  BY <1>1, OverItsElements

\* The configuration of a map gives two operations at most.
LEMMA ConfigMapOps ==
  ASSUME NEW name, NEW o
  PROVE  LET q == PutConfig(o.config, "podSubnet") \o PutConfig(o.config, "serviceSubnet")
         IN  q \in Seq(ToSet(q))
<1>1. ASSUME NEW n
      PROVE  PutConfig(o.config, n) \in Seq(ToSet(PutConfig(o.config, n)))
  <2> DEFINE e == Put(n, [value |-> RetrieveConfig(o.config, n)])
  <2>1. PutConfig(o.config, n) = <<>> \/ PutConfig(o.config, n) = <<e>>
    BY DEF PutConfig, ConfigMapObject
  <2>2. <<e>> \in Seq(ToSet(<<e>>))
    BY SmallSeq
  <2>3. QED
    BY <2>1, <2>2, SmallSeq
<1>2. ASSUME NEW p, NEW r, p \in Seq(ToSet(p)), r \in Seq(ToSet(r))
      PROVE  p \o r \in Seq(ToSet(p \o r))
  <2> DEFINE S == ToSet(p) \cup ToSet(r)
  <2>1. p \in Seq(S) /\ r \in Seq(S)
    BY <1>2, SeqMonotonic
  <2>2. p \o r \in Seq(S)
    BY <2>1
  <2>3. QED
    BY <2>2, OverItsElements
<1>3. QED
  BY <1>1, <1>2

\* A handler's operations are a sequence, and those of a delete item set nothing.
LEMMA HandlerOps ==
  ASSUME NEW k \in Kind, NEW name \in DOMAIN Looks[k], NEW o \in Looks[k][name],
         NEW type \in {"set", "delete"}
  PROVE  LET q == Handle(k, type, name, o)
         IN  /\ q \in Seq(ToSet(q))
             /\ type = "delete" => \A op \in ToSet(q) : op.value = Nil
<1> DEFINE q == Handle(k, type, name, o)
<1>1. k \in {"pod", "service", "endpoints", "configmap", "ingress", "rdmaingress"}
  BY KindAssumption DEF Kinds
<1>2. CASE k \in {"pod", "service", "endpoints", "ingress"}
  <2>1. q = <<>> \/ (\E e : q = <<e>>)
    <3>1. CASE k = "pod"
      BY <3>1 DEF Handle, PodHandle
    <3>2. CASE k = "service"
      BY <3>2 DEF Handle, ServiceHandle
    <3>3. CASE k = "endpoints"
      BY <3>3 DEF Handle, EndpointsHandle
    <3>4. CASE k = "ingress"
      BY <3>4 DEF Handle, IngressHandle
    <3>5. QED
      BY <1>2, <3>1, <3>2, <3>3, <3>4
  <2>2. type = "delete" => q = <<Unset(name)>> \/ q = <<Unset(Last(name))>>
    BY <1>2 DEF Handle, PodHandle, ServiceHandle, EndpointsHandle, IngressHandle
  <2>3. q \in Seq(ToSet(q))
    <3>1. CASE q = <<>>
      BY <3>1, SmallSeq
    <3>2. ASSUME NEW e, q = <<e>> PROVE q \in Seq(ToSet(q))
      <4>1. <<e>> \in Seq(ToSet(<<e>>))
        BY SmallSeq
      <4>2. QED
        BY <3>2, <4>1
    <3>3. QED
      BY <2>1, <3>1, <3>2
  <2>4. ASSUME type = "delete", NEW op \in ToSet(q) PROVE op.value = Nil
    <3>1. PICK key : q = <<Unset(key)>>
      BY <2>2, <2>4
    <3>2. ToSet(<<Unset(key)>>) = {Unset(key)}
      BY SmallSeq
    <3>3. QED
      BY <2>4, <3>1, <3>2 DEF Unset, Put
  <2>5. QED
    BY <2>3, <2>4
<1>3. CASE k = "configmap"
  BY <1>3, SmallSeq, ConfigMapOps DEF Handle, ConfigMapHandle
<1>4. CASE k = "rdmaingress"
  <2>1. Len(o.rules) \in Nat /\ DOMAIN o.rules = 1 .. Len(o.rules)
    BY <1>4, RulesAssumption
  <2>2. q = RdmaIngressHandle(type, o)
    BY <1>4 DEF Handle
  <2>3. DOMAIN q = 1 .. Len(o.rules) /\ q = [i \in 1 .. Len(o.rules) |-> q[i]]
    BY <2>1, <2>2 DEF RdmaIngressHandle
  <2>4. q \in [1 .. Len(o.rules) -> ToSet(q)]
    BY <2>3 DEF ToSet
  <2>5. q \in Seq(ToSet(q))
    BY <2>1, <2>4, SeqDef
  <2>6. type = "delete" => \A i \in DOMAIN q : q[i].value = Nil
    BY <2>2, <2>3 DEF RdmaIngressHandle, Unset, Put
  <2>7. QED
    BY <2>5, <2>6 DEF ToSet
<1>5. QED
  BY <1>1, <1>2, <1>3, <1>4

\* What a set item asks for can be published.
LEMMA HandlerPublishes ==
  ASSUME NEW k \in Kind, NEW name \in DOMAIN Looks[k], NEW o \in Looks[k][name],
         ~Panics(k, "set", name, o), NEW op \in ToSet(Handle(k, "set", name, o)),
         NEW type \in {"set", "delete"}
  PROVE  [type |-> type, key |-> op.key, value |-> Stored(k, op.value)] \in EventObject(k)
<1>1. o \in {p \in Looks[k][name] : ~Unhandled(k, name, p)}
  BY DEF Panics
<1> DEFINE Ev(t, q) == [type |-> t, key |-> q.key, value |-> Stored(k, q.value)]
           X(n) == UNION {ToSet(Handle(k, "set", n, p)) :
                            p \in {p \in Looks[k][n] : ~Unhandled(k, n, p)}}
           Y(n) == {Ev(t, q) : t \in {"set", "delete"}, q \in X(n)}
<1>2. op \in X(name)
  BY <1>1
<1>3. ASSUME NEW Q, op \in Q PROVE Ev(type, op) \in {Ev(t, q) : t \in {"set", "delete"}, q \in Q}
  <2> HIDE DEF Ev
  <2>1. QED
    BY <1>3
<1>4. Ev(type, op) \in Y(name)
  <2> HIDE DEF X, Ev
  <2>1. QED
    BY <1>2, <1>3
<1>5. EventObject(k) = UNION {Y(n) : n \in DOMAIN Looks[k]}
  BY SMT DEF EventObject
<1>6. QED
  <2> HIDE DEF Y
  <2>1. QED
    BY <1>4, <1>5

\* An event has a type, a key and a value.
LEMMA EventShape ==
  ASSUME NEW k, NEW e \in EventObject(k)
  PROVE  e.type \in {"set", "delete"} /\ e = [type |-> e.type, key |-> e.key, value |-> e.value]
BY DEF EventObject

\* An object is the same as what is stored of it.
LEMMA SameAsStored ==
  ASSUME NEW k \in Kind, NEW v PROVE Same(k, Stored(k, v), v)
<1>1. k \in {"pod", "service", "endpoints", "configmap", "ingress", "rdmaingress"}
  BY KindAssumption DEF Kinds
<1>2. QED
  BY <1>1 DEF Same, Stored, PodSame, ServiceSame, EndpointsSame, ConfigMapSame, IngressSame,
              RdmaIngressSame

-----------------------------------------------------------------------------
(* The worker.                                                             *)

WorkerStep ==
  \/ \E name \in Key : \E type \in {"set", "delete"} : \E o \in Looks[kind][name] :
       HandleItem(type, name, o)
  \/ Skip \/ Set \/ Delete \/ StoreEvent \/ Enqueue

RequestStep(s) ==
  \/ AddQueue(s) \/ ListStart(s) \/ ListNil(s) \/ RemoveQueue(s)
  \/ Serve(s)
  \/ Call(s)
  \/ Disconnect(s)

\* Whatever its kind, a step is one of the worker or of a request.
LEMMA Steps == Next => up /\ (WorkerStep \/ \E s \in Session : RequestStep(s))
<1>1. Stores => Datastore
  BY DEF Stores, PodDatastore, ServiceDatastore, EndpointsDatastore, ConfigMapDatastore,
         IngressDatastore, RdmaIngressDatastore
<1>2. ASSUME NEW s \in Session, Request(s) \/ Client(s) PROVE RequestStep(s)
  BY <1>2 DEF Request, Client, ServePod, ServeService, ServeEndpoints, ServeConfigMap,
              ServeIngress, ServeRdmaIngress, RequestStep
<1>3. QED
  BY <1>1, <1>2 DEF Next, Controller, Datastore, WorkerStep, RequestStep

\* A step that leaves the worker and the datastore alone.
Apart == UNCHANGED <<kind, storeVars, writerVars>> /\ up' \in BOOLEAN

\* The requests leave them alone.
LEMMA RequestApart ==
  ASSUME NEW s \in Session, RequestStep(s), up \in BOOLEAN
  PROVE  Apart
BY DEF RequestStep, Serve, Call, AddQueue, ListStart, ListNil, RemoveQueue, ListAnswer,
       ListEnd, TellPanics, Send, SendFails, Dequeue, List, Watch, Disconnect, Apart,
       storeVars, writerVars

\* A step that leaves the worker's state alone keeps what holds of it.
LEMMA WorkerFrame ==
  ASSUME Apart
  PROVE  (WorkerInv => WorkerInv') /\ (LogInv => LogInv')
<1>1. /\ kind' = kind /\ version' = version /\ wpc' = wpc /\ eventMap' = eventMap
      /\ ops' = ops /\ cur' = cur /\ store' = store /\ up' \in BOOLEAN
  BY DEF Apart, storeVars, writerVars
<1>2. WorkerInv => WorkerInv'
  BY <1>1 DEF WorkerInv, Publishable
<1>3. LogInv => LogInv'
  BY <1>1 DEF LogInv, Log, Map
<1>4. QED
  BY <1>2, <1>3

\* An event in the log is one that was published.
LEMMA LogTypes ==
  ASSUME WorkerInv
  PROVE  /\ version \in Nat /\ Len(eventMap) \in Nat
         /\ DOMAIN eventMap = 1 .. Len(eventMap)
         /\ Offered \in Nat /\ Offered <= Len(eventMap) /\ Len(eventMap) <= version
         /\ cur = Nil <=> wpc = "idle"
         /\ cur # Nil => cur.type \in {"set", "delete"}
<1>1. eventMap \in Seq(EventObject(kind)) /\ version \in Nat
  BY MaxVersionAssumption DEF WorkerInv
<1>2. Nil \notin EventObject(kind)
  BY NilAssumption DEF WorkerInv
<1>3. Len(eventMap) \in Nat /\ DOMAIN eventMap = 1 .. Len(eventMap)
  BY <1>1
<1>4. cur \in EventObject(kind) => cur.type \in {"set", "delete"}
  BY EventShape
<1>5. QED
  BY <1>1, <1>2, <1>3, <1>4 DEF WorkerInv, Offered

\* Each step of the worker keeps the types of what it works with.
LEMMA WorkerKeeps ==
  ASSUME WorkerInv, WorkerStep, up
  PROVE  WorkerInv'
<1>1. /\ kind \in Kind /\ version \in Nat /\ eventMap \in Seq(EventObject(kind))
      /\ ops \in Seq(ToSet(ops))
  BY MaxVersionAssumption DEF WorkerInv
<1>2. ASSUME NEW name \in Key, NEW type \in {"set", "delete"}, NEW o \in Looks[kind][name],
             HandleItem(type, name, o)
      PROVE  WorkerInv'
  <2> DEFINE q == Handle(kind, type, name, o)
  <2>1. /\ ops' = q /\ kind' = kind /\ up' = up /\ version' = version /\ store' = store
        /\ eventMap' = eventMap /\ cur' = cur /\ wpc' = wpc /\ ops = <<>>
        /\ ~Panics(kind, type, name, o)
    BY <1>2 DEF HandleItem, storeVars
  <2>2. q \in Seq(ToSet(q)) /\ (type = "delete" => \A op \in ToSet(q) : op.value = Nil)
    BY <1>1, HandlerOps DEF Key
  <2>3. ASSUME NEW op \in ToSet(q), op.value # Nil
        PROVE  Publishable(op.key, Stored(kind, op.value))
    <3>1. type = "set"
      BY <2>2, <2>3
    <3>2. ~Panics(kind, "set", name, o) /\ op \in ToSet(Handle(kind, "set", name, o))
      BY <2>1, <2>3, <3>1
    <3>3. QED
      BY <1>1, <3>2, HandlerPublishes DEF Publishable, Key
  <2>4. wpc = "idle"
    BY <2>1 DEF WorkerInv
  <2>5. QED
    BY <1>1, <2>1, <2>2, <2>3, <2>4 DEF WorkerInv, Publishable
<1>3. CASE Skip
  <2>1. /\ ops' = Tail(ops) /\ ops # <<>> /\ kind' = kind /\ up' = up /\ version' = version
        /\ store' = store /\ eventMap' = eventMap /\ cur' = cur /\ wpc' = wpc /\ wpc = "idle"
    BY <1>3 DEF Skip, storeVars
  <2>2. ops' \in Seq(ToSet(ops')) /\ ToSet(ops') \subseteq ToSet(ops)
    BY <1>1, <2>1, TailElements
  <2>3. QED
    BY <2>1, <2>2 DEF WorkerInv, Publishable
<1>4. CASE Set
  <2> DEFINE op == Head(ops)
             e == [type |-> "set", key |-> op.key, value |-> Stored(kind, op.value)]
  <2>1. /\ wpc = "idle" /\ ops # <<>> /\ op.value # Nil
        /\ store' = With(store, op.key, Stored(kind, op.value)) /\ cur' = e
        /\ version < MaxVersion /\ version' = version + 1 /\ wpc' = "storing"
        /\ kind' = kind /\ up' = up /\ eventMap' = eventMap /\ ops' = ops
    BY <1>4 DEF Set
  <2>2. op \in ToSet(ops)
    BY <1>1, <2>1, TailElements
  <2>3. Publishable(op.key, Stored(kind, op.value))
    BY <2>1, <2>2 DEF WorkerInv
  <2>4. e \in EventObject(kind)
    BY <2>3 DEF Publishable
  <2>5. \A key \in DOMAIN store' : Publishable(key, store'[key])
    BY <2>1, <2>3 DEF WorkerInv, With
  <2>6. version' \in 0 .. MaxVersion /\ Len(eventMap') = version' - 1 /\ version' > 0
    BY <1>1, <2>1, MaxVersionAssumption DEF WorkerInv
  <2>7. QED
    BY <2>1, <2>4, <2>5, <2>6 DEF WorkerInv, Publishable
<1>5. CASE Delete
  <2> DEFINE op == Head(ops)
             e == [type |-> "delete", key |-> op.key, value |-> store[op.key]]
  <2>1. /\ wpc = "idle" /\ ops # <<>> /\ op.value = Nil /\ cur' = e
        /\ Takes(kind, store, op)
        /\ version < MaxVersion /\ version' = version + 1 /\ wpc' = "storing"
        /\ kind' = kind /\ up' = up /\ eventMap' = eventMap /\ ops' = ops /\ store' = store
    BY <1>5 DEF Delete
  <2>2. op.key \in DOMAIN store
    BY <2>1 DEF Takes
  <2>3. e \in EventObject(kind)
    BY <2>2 DEF WorkerInv, Publishable
  <2>4. version' \in 0 .. MaxVersion /\ Len(eventMap') = version' - 1 /\ version' > 0
    BY <1>1, <2>1, MaxVersionAssumption DEF WorkerInv
  <2>5. QED
    BY <2>1, <2>3, <2>4 DEF WorkerInv, Publishable
<1>6. CASE StoreEvent
  <2>1. /\ wpc = "storing" /\ wpc' = "enqueueing" /\ eventMap' = Append(eventMap, cur)
        /\ kind' = kind /\ up' = up /\ version' = version /\ ops' = ops /\ store' = store
        /\ cur' = cur
    BY <1>6 DEF StoreEvent
  <2>2. eventMap' \in Seq(EventObject(kind)) /\ Len(eventMap') = version'
    BY <1>1, <2>1 DEF WorkerInv
  <2>3. QED
    BY <2>1, <2>2 DEF WorkerInv, Publishable
<1>7. CASE Enqueue
  <2>1. /\ wpc = "enqueueing" /\ wpc' = "idle" /\ cur' = Nil /\ ops' = Tail(ops)
        /\ store' = IF cur.type = "delete" THEN Without(store, cur.key) ELSE store
        /\ kind' = kind /\ up' = up /\ version' = version /\ eventMap' = eventMap
    BY <1>7 DEF Enqueue
  <2>2. ops' \in Seq(ToSet(ops')) /\ ToSet(ops') \subseteq ToSet(ops)
    BY <1>1, <2>1, TailElements DEF WorkerInv
  <2>3. \A key \in DOMAIN store' : Publishable(key, store'[key])
    BY <2>1 DEF WorkerInv, Without
  <2>4. QED
    BY <2>1, <2>2, <2>3 DEF WorkerInv, Publishable
<1>8. QED
  BY <1>2, <1>3, <1>4, <1>5, <1>6, <1>7 DEF WorkerStep

-----------------------------------------------------------------------------
(* The log.                                                                *)

\* The elements of a log with one more event.
LEMMA AppendLog ==
  ASSUME NEW S, NEW log \in Seq(S), NEW e \in S
  PROVE  LET n == Len(log) + 1  next == Append(log, e)
         IN  /\ n \in Nat \ {0} /\ DOMAIN log = 1 .. (n - 1) /\ DOMAIN next = 1 .. n
             /\ next[n] = e
             /\ \A v \in 1 .. (n - 1) : next[v] = log[v]
OBVIOUS

\* The map that follows an event is told by the log with it.
LEMMA LeadsOn ==
  ASSUME NEW S, NEW log \in Seq(S), NEW e \in S, NEW map, Leads(log, map),
         e.type \in {"set", "delete"},
         NEW next, next = IF e.type = "delete" THEN Without(map, e.key)
                          ELSE With(map, e.key, e.value)
  PROVE  Leads(Append(log, e), next)
<1> DEFINE n == Len(log) + 1
           on == Append(log, e)
<1>1. /\ n \in Nat \ {0} /\ DOMAIN log = 1 .. (n - 1) /\ DOMAIN on = 1 .. n /\ on[n] = e
      /\ \A v \in 1 .. (n - 1) : on[v] = log[v]
  BY AppendLog
<1> HIDE DEF n, on
<1>2. ASSUME NEW key, key # e.key
      PROVE  (key \in DOMAIN next <=> key \in DOMAIN map)
             /\ (key \in DOMAIN map => next[key] = map[key])
  BY <1>2 DEF With, Without
<1>3. IF e.type = "delete" THEN e.key \notin DOMAIN next
      ELSE e.key \in DOMAIN next /\ next[e.key] = e.value
  BY DEF With, Without
<1>4. IsLast(on, n)
  BY <1>1 DEF IsLast
<1>5. ASSUME NEW v \in 1 .. (n - 1), log[v].key # e.key
      PROVE  v \in DOMAIN on /\ on[v] = log[v] /\ (IsLast(on, v) <=> IsLast(log, v))
  <2>1. v \in DOMAIN on /\ on[v] = log[v]
    BY <1>1
  <2>2. ASSUME NEW w \in DOMAIN on
        PROVE  (on[w].key = on[v].key => w <= v) <=>
                 (w \in DOMAIN log /\ log[w].key = log[v].key => w <= v)
    BY <1>1, <1>5, <2>1, <2>2
  <2>3. DOMAIN log \subseteq DOMAIN on
    BY <1>1
  <2>4. QED
    BY <2>1, <2>2, <2>3 DEF IsLast
<1>6. ASSUME NEW v \in 1 .. (n - 1), log[v].key = e.key PROVE ~IsLast(on, v)
  BY <1>1, <1>6 DEF IsLast
<1>7. ASSUME NEW v \in DOMAIN on, IsLast(on, v)
      PROVE  IF on[v].type = "delete" THEN on[v].key \notin DOMAIN next
             ELSE /\ on[v].type = "set"
                  /\ on[v].key \in DOMAIN next
                  /\ on[v].value = next[on[v].key]
  <2>1. CASE v = n
    BY <1>1, <1>3, <2>1
  <2>2. CASE v # n
    <3>1. v \in 1 .. (n - 1) /\ log[v].key # e.key
      BY <1>1, <1>6, <1>7, <2>2
    <3>2. on[v] = log[v] /\ IsLast(log, v) /\ v \in DOMAIN log
      BY <1>1, <1>5, <1>7, <3>1
    <3>3. QED
      BY <1>2, <3>1, <3>2 DEF Leads
  <2>3. QED
    BY <2>1, <2>2
<1>8. ASSUME NEW key \in DOMAIN next PROVE \E v \in DOMAIN on : on[v].key = key
  <2>1. CASE key = e.key
    BY <1>1, <2>1
  <2>2. CASE key # e.key
    <3>1. PICK v \in DOMAIN log : log[v].key = key
      BY <1>2, <2>2 DEF Leads
    <3>2. QED
      BY <1>1, <3>1
  <2>3. QED
    BY <2>1, <2>2
<1>9. ASSUME NEW u \in DOMAIN on
      PROVE  \E v \in DOMAIN on : on[v].key = on[u].key /\ IsLast(on, v)
  <2>1. CASE on[u].key = e.key
    BY <1>1, <1>4, <2>1
  <2>2. CASE on[u].key # e.key
    <3>1. u \in DOMAIN log /\ on[u] = log[u]
      BY <1>1, <2>2
    <3>2. PICK v \in DOMAIN log : log[v].key = log[u].key /\ IsLast(log, v)
      BY <3>1 DEF Leads
    <3>3. QED
      BY <1>1, <1>5, <2>2, <3>1, <3>2
  <2>3. QED
    BY <2>1, <2>2
<1>10. QED
  BY <1>7, <1>8, <1>9 DEF Leads, on

\* An event that changes the map says something new.
LEMMA SaysNewOn ==
  ASSUME NEW k, NEW log \in Seq(EventObject(k)), NEW e \in EventObject(k), NEW map,
         Leads(log, map), \A v \in DOMAIN log : SaysNew(log, v),
         e.type = "delete" => e.key \in DOMAIN map /\ e.value = map[e.key],
         e.type = "set" => (e.key \in DOMAIN map => map[e.key] # e.value)
  PROVE  \A v \in DOMAIN Append(log, e) : SaysNew(Append(log, e), v)
<1> DEFINE n == Len(log) + 1
           on == Append(log, e)
<1>1. /\ n \in Nat \ {0} /\ DOMAIN log = 1 .. (n - 1) /\ DOMAIN on = 1 .. n /\ on[n] = e
      /\ \A v \in 1 .. (n - 1) : on[v] = log[v]
  BY AppendLog
<1>2. ASSUME NEW v \in DOMAIN log PROVE log[v] \in EventObject(k)
  BY <1>2
<1>3. /\ e.type \in {"set", "delete"}
      /\ e = [type |-> e.type, key |-> e.key, value |-> e.value]
  BY EventShape
<1> HIDE DEF n, on
<1>4. ASSUME NEW v \in 1 .. n, NEW u \in 1 .. (v - 1)
      PROVE  u \in 1 .. (n - 1) /\ on[u] = log[u]
  BY <1>1, <1>4
<1>5. ASSUME NEW v \in 1 .. (n - 1) PROVE SaysNew(on, v)
  <2>1. SaysNew(log, v) /\ on[v] = log[v]
    BY <1>1, <1>5
  <2>2. \A u \in 1 .. (v - 1) : on[u] = log[u]
    BY <1>1, <1>5
  <2>3. \A u \in 1 .. (v - 1) : LastBefore(on, v, u) <=> LastBefore(log, v, u)
    BY <2>1, <2>2 DEF LastBefore
  <2>4. QED
    BY <2>1, <2>2, <2>3 DEF SaysNew
<1>6. ASSUME NEW u \in DOMAIN log, log[u].key = e.key, IsLast(log, u)
      PROVE  u \in 1 .. (n - 1) /\ LastBefore(on, n, u) /\ on[u] = log[u]
  <2>1. u \in 1 .. (n - 1) /\ on[u] = log[u]
    BY <1>1, <1>6
  <2>2. on[n] = e /\ \A w \in 1 .. (n - 1) : w \in DOMAIN log /\ on[w] = log[w]
    BY <1>1
  <2>3. QED
    BY <1>6, <2>1, <2>2 DEF IsLast, LastBefore
<1>7. SaysNew(on, n)
  <2>1. CASE e.type = "delete"
    <3>1. PICK w \in DOMAIN log : log[w].key = e.key
      BY <2>1 DEF Leads
    <3>2. PICK u \in DOMAIN log : log[u].key = e.key /\ IsLast(log, u)
      BY <3>1 DEF Leads
    <3>3. log[u].type = "set" /\ log[u].value = e.value
      <4>1. IF log[u].type = "delete" THEN log[u].key \notin DOMAIN map
            ELSE log[u].type = "set" /\ log[u].value = map[log[u].key]
        BY <3>2 DEF Leads
      <4>2. QED
        BY <2>1, <3>2, <4>1
    <3>4. log[u] = [type |-> log[u].type, key |-> log[u].key, value |-> log[u].value]
      BY <1>2, EventShape
    <3>5. log[u] = [type |-> "set", key |-> e.key, value |-> e.value]
      BY <3>2, <3>3, <3>4
    <3>6. log[u] = [e EXCEPT !.type = "set"]
      BY <1>3, <3>5
    <3>7. QED
      BY <1>1, <1>6, <2>1, <3>2, <3>6 DEF SaysNew
  <2>2. CASE e.type = "set"
    <3>1. ASSUME NEW w \in 1 .. (n - 1), on[w].key = e.key
          PROVE  \E u \in 1 .. (n - 1) : LastBefore(on, n, u) /\ on[u] # e
      <4>1. w \in DOMAIN log /\ log[w].key = e.key
        BY <1>1, <3>1
      <4>2. PICK u \in DOMAIN log : log[u].key = e.key /\ IsLast(log, u)
        BY <4>1 DEF Leads
      <4>3. log[u] # e
        BY <2>2, <4>2, SMTT(20) DEF Leads
      <4>4. QED
        BY <1>6, <4>2, <4>3
    <3>2. QED
      BY <1>1, <2>2, <3>1 DEF SaysNew
  <2>3. QED
    BY <1>3, <2>1, <2>2
<1>8. \A v \in DOMAIN on : v = n \/ v \in 1 .. (n - 1)
  BY <1>1
<1>9. QED
  BY <1>5, <1>7, <1>8 DEF on

\* Taking a version puts an event into the log that the map calls for; what
\* the worker then does only catches up with it.
LEMMA LogKeeps ==
  ASSUME WorkerInv, LogInv, WorkerStep, up
  PROVE  LogInv'
<1>1. WorkerInv' /\ kind' = kind
  BY WorkerKeeps DEF WorkerStep, HandleItem, Skip, Set, Delete, StoreEvent, Enqueue
<1>2. kind \in Kind /\ eventMap \in Seq(EventObject(kind))
  BY DEF WorkerInv
<1>3. ASSUME NEW name \in Key, NEW type \in {"set", "delete"}, NEW o \in Looks[kind][name],
             HandleItem(type, name, o)
      PROVE  LogInv'
  BY <1>3 DEF HandleItem, LogInv, Log, Map, storeVars
<1>4. CASE Skip
  BY <1>4 DEF Skip, LogInv, Log, Map, storeVars
<1>5. CASE Set
  <2> DEFINE op == Head(ops)
  <2>1. /\ wpc = "idle" /\ wpc' = "storing" /\ eventMap' = eventMap
        /\ cur' = [type |-> "set", key |-> op.key, value |-> Stored(kind, op.value)]
        /\ store' = With(store, op.key, Stored(kind, op.value))
        /\ op.value # Nil /\ Takes(kind, store, op)
    BY <1>5 DEF Set
  <2>2. Log = eventMap /\ Map = store /\ Log' = Append(eventMap, cur') /\ Map' = store'
    BY <2>1 DEF Log, Map
  <2>3. cur' \in EventObject(kind)
    BY <1>1, <2>1 DEF WorkerInv
  <2>4. op.key \in DOMAIN store => store[op.key] # Stored(kind, op.value)
    <3>1. op.key \in DOMAIN store => ~Same(kind, store[op.key], op.value)
      BY <2>1 DEF Takes
    <3>2. QED
      BY <1>2, <3>1, SameAsStored
  <2>5. Leads(Log', Map')
    BY <1>2, <2>1, <2>2, <2>3, LeadsOn DEF LogInv
  <2>6. \A v \in DOMAIN Log' : SaysNew(Log', v)
    BY <1>2, <2>1, <2>2, <2>3, <2>4, SaysNewOn DEF LogInv
  <2>7. QED
    BY <2>5, <2>6 DEF LogInv
<1>6. CASE Delete
  <2> DEFINE op == Head(ops)
  <2>1. /\ wpc = "idle" /\ wpc' = "storing" /\ eventMap' = eventMap
        /\ cur' = [type |-> "delete", key |-> op.key, value |-> store[op.key]]
        /\ store' = store /\ op.value = Nil /\ Takes(kind, store, op)
    BY <1>6 DEF Delete
  <2>2. /\ Log = eventMap /\ Map = store /\ Log' = Append(eventMap, cur')
        /\ Map' = Without(store, op.key)
    BY <2>1 DEF Log, Map
  <2>3. cur' \in EventObject(kind) /\ op.key \in DOMAIN store
    BY <1>1, <2>1 DEF WorkerInv, Takes
  <2>4. Leads(Log', Map')
    BY <1>2, <2>1, <2>2, <2>3, LeadsOn DEF LogInv
  <2>5. \A v \in DOMAIN Log' : SaysNew(Log', v)
    BY <1>2, <2>1, <2>2, <2>3, SaysNewOn DEF LogInv
  <2>6. QED
    BY <2>4, <2>5 DEF LogInv
<1>7. CASE StoreEvent
  <2>1. Log' = Log /\ Map' = Map
    BY <1>7 DEF StoreEvent, Log, Map
  <2>2. QED
    BY <2>1 DEF LogInv
<1>8. CASE Enqueue
  <2>1. Log' = Log /\ Map' = Map
    BY <1>8 DEF Enqueue, Log, Map
  <2>2. QED
    BY <2>1 DEF LogInv
<1>9. QED
  BY <1>3, <1>4, <1>5, <1>6, <1>7, <1>8 DEF WorkerStep

\* The empty datastore has an empty log.
LEMMA WorkerInit == Init => WorkerInv /\ LogInv
<1>1. SUFFICES ASSUME Init PROVE WorkerInv /\ LogInv
  OBVIOUS
<1>2. /\ kind \in Kind /\ up = TRUE /\ version = 0 /\ wpc = "idle" /\ eventMap = <<>>
      /\ ops = <<>> /\ cur = Nil /\ DOMAIN store = {}
  BY <1>1 DEF Init, NoStore
<1>3. <<>> \in Seq(EventObject(kind)) /\ Len(<<>>) = 0 /\ DOMAIN <<>> = {}
  OBVIOUS
<1>4. WorkerInv
  BY <1>2, <1>3, SmallSeq, MaxVersionAssumption DEF WorkerInv
<1>5. LogInv
  BY <1>2, <1>3 DEF LogInv, Log, Map, Leads
<1>6. QED
  BY <1>4, <1>5

\* Only the worker changes the datastore.
LEMMA WorkerInvStep == WorkerInv /\ LogInv /\ [Next]_vars => WorkerInv' /\ LogInv'
<1>1. SUFFICES ASSUME WorkerInv, LogInv, [Next]_vars PROVE WorkerInv' /\ LogInv'
  OBVIOUS
<1>2. CASE up /\ WorkerStep
  BY <1>1, <1>2, WorkerKeeps, LogKeeps
<1>3. ASSUME NEW s \in Session, RequestStep(s) PROVE WorkerInv' /\ LogInv'
  <2>1. Apart
    BY <1>1, <1>3, RequestApart DEF WorkerInv
  <2>2. QED
    BY <1>1, <2>1, WorkerFrame
<1>4. CASE UNCHANGED vars
  <2>1. Apart
    BY <1>1, <1>4 DEF vars, Apart, WorkerInv
  <2>2. QED
    BY <1>1, <2>1, WorkerFrame
<1>5. QED
  BY <1>1, <1>2, <1>3, <1>4, Steps

\* In every reachable state each event of the log changed what clients know:
\* no set repeats what was last published of its object, and each delete
\* undoes the set that came last.
THEOREM EachEventCounts == Spec => []NoIdleMessage
<1>1. ASSUME WorkerInv, LogInv, NEW v \in DOMAIN eventMap
      PROVE  LET e == eventMap[v]
                 earlier == {u \in 1 .. (v - 1) : eventMap[u].key = e.key}
                 last == CHOOSE u \in earlier : \A w \in earlier : w <= u
             IN  IF e.type = "delete"
                 THEN earlier # {} /\ eventMap[last] = [e EXCEPT !.type = "set"]
                 ELSE earlier # {} => eventMap[last] # e
  <2> DEFINE e == eventMap[v]
             earlier == {u \in 1 .. (v - 1) : eventMap[u].key = e.key}
             last == CHOOSE u \in earlier : \A w \in earlier : w <= u
  <2>1. Len(eventMap) \in Nat /\ DOMAIN eventMap = 1 .. Len(eventMap)
    BY <1>1, LogTypes
  <2>2. SaysNew(eventMap, v)
    <3>1. CASE wpc # "storing"
      BY <1>1, <3>1 DEF LogInv, Log
    <3>2. CASE wpc = "storing"
      <4>1. eventMap \in Seq(EventObject(kind)) /\ cur \in EventObject(kind)
        BY <1>1, <3>2 DEF WorkerInv
      <4>2. Log = Append(eventMap, cur)
        BY <3>2 DEF Log
      <4>3. v \in DOMAIN Log /\ \A u \in DOMAIN eventMap : Log[u] = eventMap[u]
        BY <2>1, <4>1, <4>2, AppendLog
      <4>4. SaysNew(Log, v)
        BY <1>1, <4>3 DEF LogInv
      <4>5. Log[v] = eventMap[v] /\ \A u \in 1 .. (v - 1) : Log[u] = eventMap[u]
        BY <2>1, <4>3
      <4>6. \A u \in 1 .. (v - 1) : LastBefore(Log, v, u) <=> LastBefore(eventMap, v, u)
        BY <4>5 DEF LastBefore
      <4>7. QED
        BY <4>4, <4>5, <4>6 DEF SaysNew
    <3>3. QED
      BY <3>1, <3>2
  <2>3. ASSUME NEW u, LastBefore(eventMap, v, u) PROVE last = u /\ u \in earlier
    <3>1. u \in earlier /\ \A w \in earlier : w <= u
      BY <2>3 DEF LastBefore
    <3>2. \A w \in earlier : w \in Int
      BY <2>1
    <3>3. ASSUME NEW w \in earlier, \A x \in earlier : x <= w PROVE w = u
      BY <3>1, <3>2, <3>3
    <3>4. last \in earlier /\ \A w \in earlier : w <= last
      BY <3>1
    <3>5. QED
      BY <3>1, <3>3, <3>4
  <2>4. CASE e.type = "delete"
    BY <2>2, <2>3, <2>4 DEF SaysNew
  <2>5. CASE e.type # "delete"
    BY <2>2, <2>3, <2>5 DEF SaysNew
  <2>6. QED
    BY <2>4, <2>5
<1>2. WorkerInv /\ LogInv => NoIdleMessage
  BY <1>1 DEF NoIdleMessage
<1>3. QED
  BY <1>2, WorkerInit, WorkerInvStep, PTL DEF Spec

-----------------------------------------------------------------------------
(* The requests.                                                           *)

\* What a request may assume of the steps of others: events are only added,
\* and nothing is offered to a queue that it has.
SameRequest(t) ==
  /\ spc'[t] = spc[t] /\ from'[t] = from[t] /\ smax'[t] = smax[t]
  /\ pending'[t] = pending[t] /\ queue'[t] = queue[t] /\ sent'[t] = sent[t]
  /\ t \in queueMap' <=> t \in queueMap
  /\ t \in open' => t \in open
  /\ kind' = kind /\ version <= version'
  /\ Len(eventMap) <= Len(eventMap')
  /\ \A v \in DOMAIN eventMap : eventMap'[v] = eventMap[v]
  /\ t \in queueMap => Offered' = Offered

\* A longer log tells the same of what it had before.
LEMMA MessagesStay ==
  ASSUME WorkerInv, WorkerInv', kind' = kind, Len(eventMap) <= Len(eventMap'),
         \A v \in DOMAIN eventMap : eventMap'[v] = eventMap[v]
  PROVE  /\ DOMAIN eventMap \subseteq DOMAIN eventMap'
         /\ \A v \in DOMAIN eventMap : Telling(v)' = Telling(v)
         /\ Message \subseteq Message'
<1>1. /\ Len(eventMap) \in Nat /\ DOMAIN eventMap = 1 .. Len(eventMap)
      /\ Len(eventMap') \in Nat /\ DOMAIN eventMap' = 1 .. Len(eventMap')
  <2>1. eventMap \in Seq(EventObject(kind)) /\ eventMap' \in Seq(EventObject(kind'))
    BY DEF WorkerInv
  <2>2. QED
    BY <2>1
<1>2. DOMAIN eventMap \subseteq DOMAIN eventMap'
  BY <1>1
<1>3. ASSUME NEW v \in DOMAIN eventMap PROVE Telling(v)' = Telling(v)
  BY <1>3 DEF Telling, MessageOf, PodMessage, ServiceMessage, EndpointsMessage,
              ConfigMapMessage, IngressMessage, RdmaIngressMessage
<1>4. Message \subseteq Message'
  <2>1. ASSUME NEW v \in DOMAIN eventMap PROVE Telling(v) \in Message'
    BY <1>2, <1>3, <2>1 DEF Message
  <2>2. QED
    BY <2>1 DEF Message
<1>5. QED
  BY <1>2, <1>3, <1>4

\* Such a step keeps the invariant of the request.
LEMMA RequestFrame ==
  ASSUME WorkerInv, WorkerInv', NEW t \in Session, SessionInv(t), SameRequest(t)
  PROVE  SessionInv(t)'
<1>1. /\ version \in Nat /\ version' \in Nat /\ Len(eventMap) \in Nat /\ Len(eventMap') \in Nat
  <2>1. version \in Nat /\ Len(eventMap) \in Nat
    BY LogTypes
  <2>2. version' \in Nat /\ Len(eventMap') \in Nat
    <3>1. version' \in 0 .. MaxVersion /\ eventMap' \in Seq(EventObject(kind'))
      BY DEF WorkerInv
    <3>2. QED
      BY <3>1, MaxVersionAssumption
  <2>3. QED
    BY <2>1, <2>2
<1>2. DOMAIN eventMap \subseteq DOMAIN eventMap' /\ Message \subseteq Message'
  BY MessagesStay DEF SameRequest
<1>3. Phases(t)'
  <2>1. /\ pending'[t] \in Seq(DOMAIN eventMap') /\ queue'[t] \in Seq(DOMAIN eventMap')
        /\ sent'[t] \in Seq(Message')
    BY <1>2, SeqMonotonic DEF SessionInv, Phases, SameRequest
  <2>2. from'[t] \in 0 .. Len(eventMap') /\ smax'[t] \in 0 .. version'
    BY <1>1 DEF SessionInv, Phases, SameRequest
  <2>3. QED
    BY <2>1, <2>2 DEF SessionInv, Phases, SameRequest
<1>4. Listens(t)'
  BY DEF SessionInv, Listens, SameRequest
<1>5. PICK m \in 0 .. Len(eventMap) : \E c \in 0 .. m : Streams(t, m, c)
  BY DEF SessionInv
<1>6. PICK c \in 0 .. m : Streams(t, m, c)
  BY <1>5
<1>7. Streams(t, m, c)'
  <2>1. spc[t] = "sending" => Offered' = Offered
    BY DEF SessionInv, Phases, SameRequest
  <2>2. /\ spc'[t] = spc[t] /\ from'[t] = from[t] /\ pending'[t] = pending[t]
        /\ queue'[t] = queue[t] /\ sent'[t] = sent[t]
    BY DEF SameRequest
  <2>3. CASE spc[t] = "sending"
    BY <1>6, <2>1, <2>2, <2>3 DEF Streams
  <2>4. CASE spc[t] # "sending"
    BY <1>6, <2>2, <2>4 DEF Streams
  <2>5. QED
    BY <2>3, <2>4
<1>8. m \in 0 .. Len(eventMap')
  BY <1>1, <1>5 DEF SameRequest
<1>9. QED
  BY <1>3, <1>4, <1>7, <1>8 DEF SessionInv

\* The steps of the worker but Enqueue leave the requests alone.
LEMMA WorkerFromRequests ==
  ASSUME WorkerInv, WorkerStep, ~Enqueue, NEW t \in Session
  PROVE  SameRequest(t)
<1>1. /\ version \in Nat /\ eventMap \in Seq(EventObject(kind))
      /\ Len(eventMap) \in Nat /\ DOMAIN eventMap = 1 .. Len(eventMap)
  BY LogTypes DEF WorkerInv
<1>2. CASE StoreEvent
  <2>1. cur \in EventObject(kind)
    BY <1>2 DEF StoreEvent, WorkerInv
  <2>2. \A v \in DOMAIN eventMap : eventMap'[v] = eventMap[v]
    BY <1>1, <1>2, <2>1, AppendLog DEF StoreEvent
  <2>3. Len(eventMap) <= Len(eventMap')
    BY <1>1, <1>2, <2>1 DEF StoreEvent
  <2>4. QED
    BY <1>1, <1>2, <2>2, <2>3 DEF StoreEvent, SameRequest, Offered, sessionVars
<1>3. CASE Set \/ Delete
  BY <1>1, <1>3 DEF Set, Delete, SameRequest, Offered, sessionVars
<1>4. ASSUME NEW name \in Key, NEW type \in {"set", "delete"}, NEW o \in Looks[kind][name],
             HandleItem(type, name, o)
      PROVE  SameRequest(t)
  BY <1>1, <1>4 DEF HandleItem, SameRequest, Offered, sessionVars, storeVars
<1>5. CASE Skip
  BY <1>1, <1>5 DEF Skip, SameRequest, Offered, sessionVars, storeVars
<1>6. QED
  BY <1>2, <1>3, <1>4, <1>5 DEF WorkerStep

\* The steps of a request leave the others alone.
LEMMA RequestsApart ==
  ASSUME WorkerInv, Shape, NEW s \in Session, NEW t \in Session, s # t, RequestStep(s)
  PROVE  SameRequest(t)
<1>1. Apart
  BY RequestApart DEF WorkerInv
<1>2. /\ kind' = kind /\ version' = version /\ eventMap' = eventMap /\ wpc' = wpc
      /\ version \in Nat /\ Len(eventMap) \in Nat
  BY <1>1, LogTypes DEF Apart, storeVars, writerVars
<1>3. SUFFICES /\ spc'[t] = spc[t] /\ from'[t] = from[t] /\ smax'[t] = smax[t]
               /\ pending'[t] = pending[t] /\ queue'[t] = queue[t] /\ sent'[t] = sent[t]
               /\ t \in queueMap' <=> t \in queueMap
               /\ t \in open' => t \in open
  BY <1>2 DEF SameRequest, Offered
<1>4. CASE Call(s)
  BY <1>4 DEF Shape, Call, List, Watch
<1>5. CASE AddQueue(s) \/ ListStart(s) \/ ListNil(s) \/ RemoveQueue(s) \/ Disconnect(s)
  BY <1>5 DEF Shape, AddQueue, ListStart, ListNil, RemoveQueue, Disconnect, sessionVars
<1>6. CASE ListAnswer(s)
  BY <1>6 DEF Shape, ListAnswer
<1>7. CASE ListEnd(s) \/ TellPanics(s) \/ Send(s) \/ SendFails(s) \/ Dequeue(s)
  BY <1>7 DEF Shape, ListEnd, TellPanics, Send, SendFails, Dequeue, sessionVars
<1>8. QED
  BY <1>4, <1>5, <1>6, <1>7 DEF RequestStep, Serve

\* Every queue gets the version next to the one offered last.
LEMMA EnqueueKeeps ==
  ASSUME WorkerInv, WorkerInv', Shape, Enqueue, NEW t \in Session, SessionInv(t)
  PROVE  SessionInv(t)'
<1>1. /\ wpc = "enqueueing" /\ wpc' = "idle" /\ version' = version /\ kind' = kind
      /\ eventMap' = eventMap /\ queueMap' = queueMap /\ open' = open
      /\ spc' = spc /\ from' = from /\ smax' = smax /\ pending' = pending /\ sent' = sent
      /\ queue'[t] = IF t \in queueMap THEN Append(queue[t], version) ELSE queue[t]
  BY DEF Enqueue
<1>2. /\ version \in Nat \ {0} /\ Len(eventMap) = version
      /\ DOMAIN eventMap = 1 .. Len(eventMap)
      /\ Offered = version - 1 /\ Offered' = version
  BY <1>1, LogTypes DEF WorkerInv, Offered
<1>3. CASE t \notin queueMap
  <2>1. SameRequest(t)
    BY <1>1, <1>2, <1>3 DEF SameRequest
  <2>2. QED
    BY <2>1, RequestFrame
<1>4. CASE t \in queueMap
  <2> DEFINE n == Len(queue[t])
  <2>1. queue[t] \in Seq(DOMAIN eventMap) /\ n \in Nat /\ version \in DOMAIN eventMap
    BY <1>2 DEF SessionInv, Phases
  <2>2. /\ queue'[t] \in Seq(DOMAIN eventMap) /\ Len(queue'[t]) = n + 1
        /\ queue'[t][n + 1] = version
        /\ \A i \in 1 .. n : queue'[t][i] = queue[t][i]
    BY <1>1, <1>4, <2>1
  <2>3. Message' = Message
    BY <1>1, MessagesStay DEF Message, Telling, MessageOf, PodMessage, ServiceMessage,
       EndpointsMessage, ConfigMapMessage, IngressMessage, RdmaIngressMessage
  <2>4. Phases(t)'
    BY <1>1, <1>4, <2>2, <2>3 DEF SessionInv, Phases
  <2> HIDE DEF n
  <2>5. \A i \in 1 .. (n + 1) : i = n + 1 \/ i \in 1 .. n
    BY <2>1
  <2>6. Listens(t)'
    <3>1. ASSUME spc[t] \in {"list", "listing"}
          PROVE  /\ n <= Offered
                 /\ \A i \in 1 .. n : queue[t][i] = Offered - n + i
      BY <1>4, <3>1 DEF SessionInv, Listens, n
    <3>2. ASSUME spc[t] \in {"list", "listing"}, NEW i \in 1 .. (n + 1)
          PROVE  queue'[t][i] = Offered' - (n + 1) + i
      <4>1. CASE i = n + 1
        BY <1>2, <2>1, <2>2, <4>1
      <4>2. CASE i \in 1 .. n
        <5>1. queue'[t][i] = Offered - n + i
          BY <2>2, <3>1, <3>2, <4>2
        <5>2. QED
          BY <1>2, <2>1, <4>2, <5>1
      <4>3. QED
        BY <2>5, <4>1, <4>2
    <3>3. spc[t] \in {"list", "listing"} => n + 1 <= Offered'
      BY <1>2, <2>1, <3>1
    <3>4. spc[t] = "listing" => from[t] <= smax[t] /\ Offered - n <= smax[t]
      BY <1>4 DEF SessionInv, Listens, n
    <3>5. Offered' - (n + 1) = Offered - n
      BY <1>2, <2>1
    <3>6. QED
      BY <1>1, <2>2, <3>2, <3>3, <3>4, <3>5 DEF Listens
  <2>7. PICK m \in 0 .. Len(eventMap) : \E c \in 0 .. m : Streams(t, m, c)
    BY DEF SessionInv
  <2>8. PICK c \in 0 .. m : Streams(t, m, c)
    BY <2>7
  <2>9. Streams(t, m, c)'
    <3> DEFINE f == from[t]  a == Len(sent[t])  b == Len(pending[t])
    <3>1. f \in Nat /\ a \in Nat /\ b \in Nat /\ m \in Nat /\ c \in Nat
      <4>1. f \in Nat
        BY DEF Shape
      <4>2. sent[t] \in Seq(Message) /\ pending[t] \in Seq(DOMAIN eventMap)
        BY DEF SessionInv, Phases
      <4>3. a \in Nat /\ b \in Nat
        BY <4>2
      <4>4. QED
        BY <1>2, <4>1, <4>3
    <3>2. f <= m /\ \A i \in 1 .. a : sent[t][i].version = Course(f, m, c, i)
      BY <2>8 DEF Streams
    <3>3. ASSUME spc[t] = "sending"
          PROVE  /\ a + b + n = (m - f) + (Offered - c) /\ a + b >= m - f
                 /\ \A i \in 1 .. b : pending[t][i] = Course(f, m, c, a + i)
                 /\ \A i \in 1 .. n : queue[t][i] = Course(f, m, c, a + b + i)
      BY <2>8, <3>3 DEF Streams, n
    <3> HIDE DEF f, a, b
    <3>4. ASSUME spc[t] = "sending"
          PROVE  Course(f, m, c, a + b + (n + 1)) = version
      BY <1>2, <2>1, <3>1, <3>2, <3>3, <3>4, SMTT(20) DEF Course
    <3>5. ASSUME spc[t] = "sending", NEW i \in 1 .. (n + 1)
          PROVE  queue'[t][i] = Course(f, m, c, a + b + i)
      BY <2>2, <2>5, <3>3, <3>4, <3>5
    <3>6. spc[t] = "sending" => a + b + (n + 1) = (m - f) + (Offered' - c)
      <4>1. Offered \in Nat /\ Offered' = Offered + 1
        BY <1>2, <2>1
      <4>2. spc[t] = "sending" => a + b + n = (m - f) + (Offered - c)
        BY <3>3
      <4>3. n \in Nat
        BY <2>1
      <4>4. QED
        BY <3>1, <4>1, <4>2, <4>3
    <3>7. QED
      BY <1>1, <2>2, <3>2, <3>3, <3>5, <3>6 DEF Streams, f, a, b
  <2>10. QED
    BY <1>1, <2>4, <2>6, <2>7, <2>8, <2>9 DEF SessionInv
<1>5. QED
  BY <1>3, <1>4

-----------------------------------------------------------------------------
(* The steps of a request.                                                 *)

\* The versions a request lists.
LEMMA ListedVersions ==
  ASSUME WorkerInv, Shape, NEW s \in Session, SessionInv(s), spc[s] = "listing"
  PROVE  LET n == smax[s] - from[s] IN
         /\ n \in Nat /\ from[s] \in Nat /\ smax[s] \in Nat
         /\ Listed(s) \in Seq(Nat) /\ Len(Listed(s)) = n
         /\ DOMAIN Listed(s) = 1 .. n
         /\ \A i \in 1 .. n : Listed(s)[i] = from[s] + i
         /\ ToSet(Listed(s)) \subseteq DOMAIN eventMap =>
              /\ Listed(s) \in Seq(DOMAIN eventMap)
              /\ smax[s] <= Len(eventMap)
<1> DEFINE n == smax[s] - from[s]
<1>1. /\ from[s] \in Nat /\ smax[s] \in Nat /\ from[s] <= smax[s]
      /\ from[s] <= Len(eventMap) /\ Len(eventMap) \in Nat
      /\ DOMAIN eventMap = 1 .. Len(eventMap)
  BY LogTypes DEF Shape, SessionInv, Phases, Listens
<1>2. n \in Nat /\ Listed(s) = [i \in 1 .. n |-> from[s] + i]
  BY <1>1 DEF Listed
<1>3. /\ DOMAIN Listed(s) = 1 .. n /\ \A i \in 1 .. n : Listed(s)[i] = from[s] + i
      /\ Listed(s) \in [1 .. n -> Nat]
  BY <1>1, <1>2
<1>4. Listed(s) \in Seq(Nat) /\ Len(Listed(s)) = n
  <2>1. Listed(s) \in Seq(Nat)
    BY <1>2, <1>3, SeqDef
  <2>2. QED
    BY <1>2, <1>3, <2>1, LenProperties
<1>5. ASSUME ToSet(Listed(s)) \subseteq DOMAIN eventMap
      PROVE  Listed(s) \in Seq(DOMAIN eventMap) /\ smax[s] <= Len(eventMap)
  <2>1. Listed(s) \in Seq(DOMAIN eventMap)
    BY <1>4, <1>5, OverItsElements, SeqMonotonic
  <2>2. CASE n = 0
    BY <1>1, <2>1, <2>2
  <2>3. CASE n # 0
    <3>1. n \in 1 .. n /\ Listed(s)[n] = smax[s]
      BY <1>1, <1>2, <1>3, <2>3
    <3>2. smax[s] \in ToSet(Listed(s))
      BY <1>3, <3>1 DEF ToSet
    <3>3. QED
      BY <1>1, <1>5, <2>1, <3>2
  <2>4. QED
    BY <2>1, <2>2, <2>3
<1>6. QED
  BY <1>1, <1>2, <1>3, <1>4, <1>5

\* The variables of the requests keep their shape.
LEMMA ShapeKeeps ==
  ASSUME WorkerInv, WorkerInv', Shape, \A s \in Session : SessionInv(s),
         WorkerStep \/ \E s \in Session : RequestStep(s)
  PROVE  Shape'
<1>1. version \in Nat /\ DOMAIN eventMap \subseteq Nat
  BY LogTypes
<1>2. CASE Enqueue
  <2>1. queue' \in [Session -> Seq(Nat)]
    BY <1>1, <1>2 DEF Enqueue, Shape
  <2>2. QED
    BY <1>2, <2>1 DEF Enqueue, Shape
<1>3. CASE WorkerStep /\ ~Enqueue
  BY <1>3 DEF WorkerStep, HandleItem, Skip, Set, Delete, StoreEvent, Shape, sessionVars
<1>4. ASSUME NEW s \in Session, RequestStep(s) PROVE Shape'
  <2>1. CASE Call(s) \/ AddQueue(s) \/ ListNil(s) \/ TellPanics(s) \/ Disconnect(s)
    <3>1. CASE List(s)
      BY <3>1 DEF List, Shape
    <3>2. ASSUME NEW m \in {0} \cup DOMAIN eventMap, Watch(s, m) PROVE Shape'
      <4>1. m \in Nat
        BY <1>1
      <4>2. QED
        BY <3>2, <4>1 DEF Watch, Shape
    <3>3. CASE AddQueue(s)
      BY <3>3 DEF AddQueue, Shape
    <3>4. CASE ListNil(s) \/ TellPanics(s) \/ Disconnect(s)
      BY <3>4 DEF ListNil, TellPanics, Disconnect, Shape, sessionVars
    <3>5. QED
      BY <2>1, <3>1, <3>2, <3>3, <3>4 DEF Call
  <2>2. CASE ListStart(s)
    BY <1>1, <2>2 DEF ListStart, Shape
  <2>3. CASE ListAnswer(s)
    <3>1. DOMAIN sent' = Session /\ sent' = [t \in Session |-> sent'[t]]
      BY <2>3 DEF ListAnswer, Shape
    <3>2. QED
      BY <2>3, <3>1 DEF ListAnswer, Shape
  <2>4. CASE ListEnd(s)
    <3>1. Listed(s) \in Seq(Nat)
      BY <2>4, ListedVersions DEF ListEnd
    <3>2. QED
      BY <2>4, <3>1 DEF ListEnd, Shape
  <2>5. CASE Send(s)
    <3>1. Tail(pending[s]) \in Seq(Nat)
      BY <2>5 DEF Send, Shape
    <3>2. DOMAIN sent' = Session /\ sent' = [t \in Session |-> sent'[t]]
      BY <2>5 DEF Send, Shape
    <3>3. QED
      BY <2>5, <3>1, <3>2 DEF Send, Shape
  <2>6. CASE Dequeue(s)
    <3>1. <<Head(queue[s])>> \in Seq(Nat) /\ Tail(queue[s]) \in Seq(Nat)
      BY <2>6 DEF Dequeue, Shape
    <3>2. QED
      BY <2>6, <3>1 DEF Dequeue, Shape
  <2>7. CASE SendFails(s) \/ RemoveQueue(s)
    <3>1. <<>> \in Seq(Nat)
      OBVIOUS
    <3>2. CASE SendFails(s)
      BY <3>1, <3>2 DEF SendFails, Shape
    <3>3. CASE RemoveQueue(s)
      BY <3>1, <3>3 DEF RemoveQueue, Shape
    <3>4. QED
      BY <2>7, <3>2, <3>3
  <2>8. QED
    BY <1>4, <2>1, <2>2, <2>3, <2>4, <2>5, <2>6, <2>7 DEF RequestStep, Serve
<1>5. QED
  BY <1>2, <1>3, <1>4

\* A request that has been sent nothing and sends nothing may go on from where
\* it is.
LEMMA NothingSent ==
  ASSUME NEW s \in Session, from[s] \in 0 .. Len(eventMap), Len(eventMap) \in Nat,
         spc[s] # "sending", sent[s] = <<>>
  PROVE  \E m \in 0 .. Len(eventMap) : \E c \in 0 .. m : Streams(s, m, c)
<1>1. from[s] <= from[s] /\ 1 .. Len(sent[s]) = {}
  OBVIOUS
<1>2. Streams(s, from[s], 0)
  BY <1>1, Zenon DEF Streams
<1>3. QED
  BY <1>2

\* Before anything is sent.
LEMMA OpeningKeeps ==
  ASSUME WorkerInv, WorkerInv', Shape, Shape', NEW s \in Session, SessionInv(s), Apart,
         Call(s) \/ AddQueue(s) \/ ListStart(s)
  PROVE  SessionInv(s)'
<1>1. /\ kind' = kind /\ version' = version /\ eventMap' = eventMap /\ wpc' = wpc
      /\ version \in Nat /\ Len(eventMap) \in Nat /\ Offered \in Nat /\ Offered <= Len(eventMap)
      /\ Len(eventMap) <= version /\ DOMAIN eventMap = 1 .. Len(eventMap) /\ Offered' = Offered
  BY LogTypes DEF Apart, storeVars, writerVars, Offered
<1>2. Message' = Message
  BY <1>1 DEF Message, Telling, MessageOf, PodMessage, ServiceMessage,
              EndpointsMessage, ConfigMapMessage, IngressMessage, RdmaIngressMessage
<1>3. /\ spc[s] \in {"idle", "adding", "list"} /\ spc'[s] \in {"adding", "list", "listing"}
      /\ pending' = pending /\ queue' = queue /\ sent' = sent
      /\ from'[s] \in 0 .. Len(eventMap)
      /\ spc'[s] = "adding" => s \notin queueMap'
      /\ spc'[s] = "list" => smax'[s] = smax[s]
      /\ spc'[s] = "listing" => smax'[s] = version /\ queueMap' = queueMap /\ from' = from
      /\ smax'[s] \in 0 .. version
  BY <1>1, SMTT(20) DEF Call, List, Watch, AddQueue, ListStart, Shape, SessionInv, Phases
<1>4. s \notin queueMap' => s \notin queueMap
  BY DEF Call, List, Watch, AddQueue, ListStart
<1>5. Phases(s)'
  BY <1>1, <1>2, <1>3, <1>4 DEF SessionInv, Phases
<1>6. Listens(s)'
  <2>1. CASE spc[s] = "list"
    <3>1. spc'[s] = "listing"
      BY <2>1 DEF Call, List, Watch, AddQueue, ListStart, Shape
    <3>2. Len(queue[s]) \in Nat /\ from[s] <= version
      BY <1>1 DEF SessionInv, Phases
    <3>3. Offered - Len(queue[s]) <= version
      BY <1>1, <3>2
    <3>4. QED
      BY <1>1, <1>3, <2>1, <3>1, <3>2, <3>3 DEF SessionInv, Listens
  <2>2. CASE spc[s] # "list"
    <3>1. spc'[s] # "listing" /\ queue'[s] = <<>>
      BY <1>3, <2>2 DEF Call, List, Watch, AddQueue, ListStart, Shape, SessionInv, Phases
    <3>2. Len(queue'[s]) = 0
      BY <3>1
    <3>3. QED
      BY <1>1, <3>1, <3>2 DEF Listens
  <2>3. QED
    BY <2>1, <2>2
<1>7. \E m \in 0 .. Len(eventMap') : \E c \in 0 .. m : Streams(s, m, c)'
  <2>1. sent'[s] = <<>> /\ spc'[s] # "sending"
    BY <1>3 DEF SessionInv, Phases
  <2>2. from'[s] <= from'[s] /\ 1 .. Len(sent'[s]) = {}
    BY <1>1, <1>3, <2>1
  <2>3. \A m : m = from'[s] => Streams(s, m, 0)'
    BY <2>1, <2>2, Zenon DEF Streams
  <2>4. QED
    BY <1>1, <1>3, <2>3
<1>8. QED
  BY <1>5, <1>6, <1>7 DEF SessionInv

\* A panic of the process and the loss of a client leave what was sent.
LEMMA LosingKeeps ==
  ASSUME WorkerInv, WorkerInv', NEW s \in Session, SessionInv(s), Apart,
         ListNil(s) \/ TellPanics(s) \/ Disconnect(s)
  PROVE  SessionInv(s)'
<1>1. /\ kind' = kind /\ version' = version /\ eventMap' = eventMap /\ wpc' = wpc
      /\ version \in Nat /\ Len(eventMap) \in Nat
  BY LogTypes DEF Apart, storeVars, writerVars
<1>2. SameRequest(s)
  BY <1>1 DEF ListNil, TellPanics, Disconnect, SameRequest, Offered, sessionVars
<1>3. QED
  BY <1>2, RequestFrame

\* What was sent and what waits, as the one step left it that is about to be
\* taken.
LEMMA Holds ==
  ASSUME WorkerInv, Shape, NEW s \in Session, SessionInv(s)
  PROVE  /\ from[s] \in Nat /\ from[s] <= Len(eventMap)
         /\ Len(eventMap) \in Nat /\ DOMAIN eventMap = 1 .. Len(eventMap)
         /\ Offered \in Nat
         /\ pending[s] \in Seq(DOMAIN eventMap) /\ Len(pending[s]) \in Nat
         /\ queue[s] \in Seq(DOMAIN eventMap) /\ Len(queue[s]) \in Nat
         /\ sent[s] \in Seq(Message) /\ Len(sent[s]) \in Nat
BY LogTypes DEF Shape, SessionInv, Phases

\* What a step of a request leaves alone.
LEMMA ApartStays ==
  ASSUME WorkerInv, Apart
  PROVE  /\ kind' = kind /\ version' = version /\ eventMap' = eventMap /\ wpc' = wpc
         /\ Offered' = Offered /\ Message' = Message
         /\ \A v : Telling(v)' = Telling(v)
<1>1. /\ kind' = kind /\ version' = version /\ eventMap' = eventMap /\ wpc' = wpc
  BY DEF Apart, storeVars, writerVars
<1>2. QED
  BY <1>1 DEF Offered, Message, Telling, MessageOf, PodMessage, ServiceMessage,
              EndpointsMessage, ConfigMapMessage, IngressMessage, RdmaIngressMessage

\* A list request is answered with the versions it listed, in their order.
LEMMA ListAnswerKeeps ==
  ASSUME WorkerInv, WorkerInv', Shape, NEW s \in Session, SessionInv(s), Apart, ListAnswer(s)
  PROVE  SessionInv(s)'
<1> DEFINE n == smax[s] - from[s]
<1>1. /\ eventMap' = eventMap /\ version' = version /\ Message' = Message /\ Offered' = Offered
      /\ from[s] \in Nat /\ from[s] <= Len(eventMap) /\ Len(eventMap) \in Nat
      /\ version \in Nat
  BY ApartStays, Holds, LogTypes
<1>2. /\ n \in Nat /\ smax[s] \in Nat /\ smax[s] <= Len(eventMap)
      /\ DOMAIN Listed(s) = 1 .. n
      /\ \A i \in 1 .. n : Listed(s)[i] = from[s] + i /\ Listed(s)[i] \in DOMAIN eventMap
  BY ListedVersions DEF ListAnswer, ToSet
<1>3. /\ spc[s] = "listing" /\ spc'[s] = "closed" /\ smax'[s] = 0 /\ s \notin open'
      /\ from' = from /\ pending' = pending /\ queue' = queue /\ queueMap' = queueMap
      /\ s \notin queueMap
  BY DEF ListAnswer, Shape
<1>4. sent'[s] = [i \in 1 .. n |-> Telling(Listed(s)[i])] \/ sent'[s] = <<>>
  BY <1>2, <1>3 DEF ListAnswer, Shape, SessionInv, Phases
<1>5. CASE sent'[s] = [i \in 1 .. n |-> Telling(Listed(s)[i])]
  <2>1. \A i \in 1 .. n : sent'[s][i] \in Message /\ sent'[s][i].version = from[s] + i
    BY <1>2, <1>5 DEF Message, Telling
  <2>2. sent'[s] \in [1 .. n -> Message]
    BY <1>5, <2>1
  <2>3. sent'[s] \in Seq(Message) /\ Len(sent'[s]) = n
    <3>1. sent'[s] \in Seq(Message)
      BY <1>2, <2>2, SeqDef
    <3>2. QED
      BY <1>2, <2>2, <3>1, LenProperties
  <2>4. Phases(s)'
    BY <1>1, <1>3, <2>3 DEF SessionInv, Phases
  <2>5. Listens(s)'
    BY <1>3 DEF Listens
  <2>6. \A m : m = smax[s] => Streams(s, m, 0)'
    <3>1. \A i \in 1 .. n : Course(from[s], smax[s], 0, i) = from[s] + i
      BY <1>1, <1>2 DEF Course
    <3>2. QED
      BY <1>1, <1>2, <1>3, <2>1, <2>3, <3>1 DEF Streams
  <2>7. QED
    BY <1>1, <1>2, <2>4, <2>5, <2>6 DEF SessionInv
<1>6. CASE sent'[s] = <<>>
  <2>1. Phases(s)'
    BY <1>1, <1>3, <1>6 DEF SessionInv, Phases
  <2>2. Listens(s)'
    BY <1>3 DEF Listens
  <2>3. from'[s] <= from'[s] /\ 1 .. Len(sent'[s]) = {}
    BY <1>1, <1>3, <1>6
  <2>4. \A m : m = from'[s] => Streams(s, m, 0)'
    BY <1>3, <2>3, Zenon DEF Streams
  <2>5. QED
    BY <1>1, <1>3, <2>1, <2>2, <2>4 DEF SessionInv
<1>7. QED
  BY <1>4, <1>5, <1>6

\* The listing of a watch reaches up to its queue.
LEMMA ListEndKeeps ==
  ASSUME WorkerInv, WorkerInv', Shape, NEW s \in Session, SessionInv(s), Apart, ListEnd(s)
  PROVE  SessionInv(s)'
<1> DEFINE n == smax[s] - from[s]
           l == Len(queue[s])
<1>1. /\ eventMap' = eventMap /\ version' = version /\ Message' = Message /\ Offered' = Offered
      /\ from[s] \in Nat /\ from[s] <= Len(eventMap) /\ Len(eventMap) \in Nat
      /\ version \in Nat /\ Offered \in Nat /\ l \in Nat
  BY ApartStays, Holds, LogTypes
<1>2. /\ n \in Nat /\ smax[s] \in Nat /\ smax[s] <= Len(eventMap)
      /\ Listed(s) \in Seq(DOMAIN eventMap) /\ Len(Listed(s)) = n
      /\ \A i \in 1 .. n : Listed(s)[i] = from[s] + i
  BY ListedVersions DEF ListEnd
<1>3. /\ spc[s] = "listing" /\ spc'[s] = "sending" /\ smax'[s] = 0 /\ open' = open
      /\ from' = from /\ pending'[s] = Listed(s) /\ queue' = queue /\ queueMap' = queueMap
      /\ sent' = sent /\ s \in queueMap
  BY DEF ListEnd, Shape
<1>4. /\ sent[s] = <<>> /\ l <= Offered /\ Offered - l <= smax[s] /\ from[s] <= smax[s]
      /\ \A i \in 1 .. l : queue[s][i] = Offered - l + i
  BY <1>3 DEF SessionInv, Phases, Listens
<1>5. Phases(s)'
  BY <1>1, <1>2, <1>3 DEF SessionInv, Phases
<1>6. Listens(s)'
  BY <1>3 DEF Listens
<1> HIDE DEF l
<1>7. PICK m \in 0 .. Len(eventMap) : m = smax[s]
  BY <1>1, <1>2
<1>8. PICK c \in 0 .. m : c = Offered - l
  BY <1>1, <1>2, <1>4, <1>7
<1>9. /\ \A i \in 1 .. n : Course(from[s], m, c, 0 + i) = from[s] + i
      /\ \A i \in 1 .. l : Course(from[s], m, c, 0 + n + i) = c + i
  BY <1>1, <1>2, <1>7, <1>8 DEF Course
<1>10. Streams(s, m, c)'
  <2>1. Len(sent'[s]) = 0 /\ Len(pending'[s]) = n /\ Len(queue'[s]) = l
    BY <1>2, <1>3, <1>4 DEF l
  <2>2. \A i \in 1 .. n : pending'[s][i] = Course(from[s], m, c, 0 + i)
    BY <1>2, <1>3, <1>9
  <2>3. \A i \in 1 .. l : queue'[s][i] = Course(from[s], m, c, 0 + n + i)
    BY <1>3, <1>4, <1>8, <1>9
  <2>4. 0 + n + l = (m - from[s]) + (Offered' - c) /\ 0 + n >= m - from[s]
    BY <1>1, <1>2, <1>7, <1>8
  <2>5. 1 .. 0 = {} /\ from[s] <= m
    BY <1>4, <1>7
  <2>6. QED
    BY <1>3, <2>1, <2>2, <2>3, <2>4, <2>5, Zenon DEF Streams
<1>11. QED
  BY <1>1, <1>5, <1>6, <1>7, <1>8, <1>10 DEF SessionInv

\* The version that is sent takes its place behind those sent before.
LEMMA SendKeeps ==
  ASSUME WorkerInv, WorkerInv', Shape, NEW s \in Session, SessionInv(s), Apart, Send(s)
  PROVE  SessionInv(s)'
<1> DEFINE f == from[s]  a == Len(sent[s])  b == Len(pending[s])  l == Len(queue[s])
           h == Head(pending[s])
<1>1. /\ eventMap' = eventMap /\ version' = version /\ Message' = Message /\ Offered' = Offered
      /\ f \in Nat /\ Len(eventMap) \in Nat /\ Offered \in Nat
      /\ a \in Nat /\ b \in Nat /\ l \in Nat
      /\ sent[s] \in Seq(Message) /\ pending[s] \in Seq(DOMAIN eventMap)
  BY ApartStays, Holds
<1>2. /\ spc[s] = "sending" /\ spc' = spc /\ smax' = smax /\ open' = open /\ from' = from
      /\ queue' = queue /\ queueMap' = queueMap /\ pending[s] # <<>>
      /\ pending'[s] = Tail(pending[s]) /\ sent'[s] = Append(sent[s], Telling(h))
  BY DEF Send, Shape
<1>3. /\ h \in DOMAIN eventMap /\ h = pending[s][1] /\ b > 0
      /\ pending'[s] \in Seq(DOMAIN eventMap) /\ Len(pending'[s]) = b - 1
      /\ \A i \in 1 .. (b - 1) : pending'[s][i] = pending[s][i + 1]
  <2>1. h \in DOMAIN eventMap /\ Tail(pending[s]) \in Seq(DOMAIN eventMap)
    BY <1>1, <1>2, HeadTailProperties
  <2>2. h = pending[s][1] /\ b > 0 /\ Len(Tail(pending[s])) = b - 1
    BY <1>1, <1>2
  <2>3. \A i \in 1 .. (b - 1) : Tail(pending[s])[i] = pending[s][i + 1]
    BY <1>1, <1>2
  <2>4. QED
    BY <1>2, <2>1, <2>2, <2>3
<1>4. Telling(h) \in Message /\ Telling(h).version = h
  BY <1>3 DEF Message, Telling
<1>5. /\ sent'[s] \in Seq(Message) /\ Len(sent'[s]) = a + 1 /\ sent'[s][a + 1] = Telling(h)
      /\ \A i \in 1 .. a : sent'[s][i] = sent[s][i]
  BY <1>1, <1>2, <1>4
<1>6. Phases(s)'
  BY <1>1, <1>2, <1>3, <1>5 DEF SessionInv, Phases
<1>7. Listens(s)'
  BY <1>2 DEF Listens
<1>8. PICK m \in 0 .. Len(eventMap) : \E c \in 0 .. m : Streams(s, m, c)
  BY DEF SessionInv
<1>9. PICK c \in 0 .. m : Streams(s, m, c)
  BY <1>8
<1>10. Streams(s, m, c)'
  <2>1. /\ f <= m /\ \A i \in 1 .. a : sent[s][i].version = Course(f, m, c, i)
        /\ a + b + l = (m - f) + (Offered - c) /\ a + b >= m - f
        /\ \A i \in 1 .. b : pending[s][i] = Course(f, m, c, a + i)
        /\ \A i \in 1 .. l : queue[s][i] = Course(f, m, c, a + b + i)
    BY <1>2, <1>9 DEF Streams
  <2>2. Len(queue'[s]) = l /\ queue'[s] = queue[s] /\ from'[s] = f
    BY <1>2
  <2> HIDE DEF f, a, b, l, h
  <2>3. \A i \in 1 .. (a + 1) : sent'[s][i].version = Course(f, m, c, i)
    <3>1. h = Course(f, m, c, a + 1)
      <4>1. 1 \in 1 .. b
        BY <1>1, <1>3
      <4>2. QED
        BY <1>3, <2>1, <4>1
    <3>2. \A i \in 1 .. (a + 1) : i = a + 1 \/ i \in 1 .. a
      BY <1>1
    <3>3. QED
      BY <1>4, <1>5, <2>1, <3>1, <3>2
  <2>4. \A i \in 1 .. (b - 1) : pending'[s][i] = Course(f, m, c, (a + 1) + i)
    <3>1. \A i \in 1 .. (b - 1) : i + 1 \in 1 .. b /\ a + (i + 1) = (a + 1) + i
      BY <1>1
    <3>2. QED
      BY <1>3, <2>1, <3>1
  <2>5. /\ (a + 1) + (b - 1) + l = (m - f) + (Offered' - c)
        /\ (a + 1) + (b - 1) >= m - f
        /\ \A i \in 1 .. l : queue[s][i] = Course(f, m, c, (a + 1) + (b - 1) + i)
    <3>1. (a + 1) + (b - 1) = a + b
      BY <1>1
    <3>2. QED
      BY <1>1, <2>1, <3>1
  <2>6. QED
    BY <1>1, <1>2, <1>3, <1>5, <2>1, <2>2, <2>3, <2>4, <2>5, Zenon DEF Streams
<1>11. QED
  BY <1>1, <1>6, <1>7, <1>8, <1>9, <1>10 DEF SessionInv

\* The version taken off the queue is the next one.
LEMMA DequeueKeeps ==
  ASSUME WorkerInv, WorkerInv', Shape, NEW s \in Session, SessionInv(s), Apart, Dequeue(s)
  PROVE  SessionInv(s)'
<1> DEFINE f == from[s]  a == Len(sent[s])  l == Len(queue[s])  h == Head(queue[s])
<1>1. /\ eventMap' = eventMap /\ version' = version /\ Message' = Message /\ Offered' = Offered
      /\ f \in Nat /\ Len(eventMap) \in Nat /\ Offered \in Nat
      /\ a \in Nat /\ l \in Nat /\ queue[s] \in Seq(DOMAIN eventMap)
  BY ApartStays, Holds
<1>2. /\ spc[s] = "sending" /\ spc' = spc /\ smax' = smax /\ open' = open /\ from' = from
      /\ sent' = sent /\ queueMap' = queueMap /\ pending[s] = <<>> /\ queue[s] # <<>>
      /\ pending'[s] = <<h>> /\ queue'[s] = Tail(queue[s])
  BY DEF Dequeue, Shape
<1>3. /\ h \in DOMAIN eventMap /\ h = queue[s][1] /\ l > 0
      /\ queue'[s] \in Seq(DOMAIN eventMap) /\ Len(queue'[s]) = l - 1
      /\ \A i \in 1 .. (l - 1) : queue'[s][i] = queue[s][i + 1]
  <2>1. h \in DOMAIN eventMap /\ Tail(queue[s]) \in Seq(DOMAIN eventMap)
    BY <1>1, <1>2, HeadTailProperties
  <2>2. h = queue[s][1] /\ l > 0 /\ Len(Tail(queue[s])) = l - 1
    BY <1>1, <1>2
  <2>3. \A i \in 1 .. (l - 1) : Tail(queue[s])[i] = queue[s][i + 1]
    BY <1>1, <1>2
  <2>4. QED
    BY <1>2, <2>1, <2>2, <2>3
<1>4. /\ pending'[s] \in Seq(DOMAIN eventMap) /\ Len(pending'[s]) = 1 /\ pending'[s][1] = h
      /\ Len(pending[s]) = 0
  BY <1>2, <1>3
<1>5. Phases(s)'
  BY <1>1, <1>2, <1>3, <1>4 DEF SessionInv, Phases
<1>6. Listens(s)'
  BY <1>2 DEF Listens
<1>7. PICK m \in 0 .. Len(eventMap) : \E c \in 0 .. m : Streams(s, m, c)
  BY DEF SessionInv
<1>8. PICK c \in 0 .. m : Streams(s, m, c)
  BY <1>7
<1>9. Streams(s, m, c)'
  <2>1. /\ f <= m /\ \A i \in 1 .. a : sent[s][i].version = Course(f, m, c, i)
        /\ a + 0 + l = (m - f) + (Offered - c) /\ a + 0 >= m - f
        /\ \A i \in 1 .. l : queue[s][i] = Course(f, m, c, a + 0 + i)
    BY <1>2, <1>4, <1>8 DEF Streams
  <2>2. Len(sent'[s]) = a /\ sent'[s] = sent[s] /\ from'[s] = f
    BY <1>2
  <2> HIDE DEF f, a, l, h
  <2>3. \A i \in 1 .. 1 : pending'[s][i] = Course(f, m, c, a + i)
    <3>1. a + 0 + 1 = a + 1 /\ 1 \in 1 .. l /\ \A i \in 1 .. 1 : i = 1
      BY <1>1, <1>3
    <3>2. QED
      BY <1>3, <1>4, <2>1, <3>1
  <2>4. \A i \in 1 .. (l - 1) : queue'[s][i] = Course(f, m, c, a + 1 + i)
    <3>1. \A i \in 1 .. (l - 1) : i + 1 \in 1 .. l /\ a + 0 + (i + 1) = a + 1 + i
      BY <1>1
    <3>2. QED
      BY <1>3, <2>1, <3>1
  <2>5. /\ a + 1 + (l - 1) = (m - f) + (Offered' - c)
        /\ a + 1 >= m - f
    BY <1>1, <1>7, <1>8, <2>1
  <2>6. QED
    BY <1>2, <1>3, <1>4, <2>1, <2>2, <2>3, <2>4, <2>5, Zenon DEF Streams
<1>10. QED
  BY <1>1, <1>5, <1>6, <1>7, <1>8, <1>9 DEF SessionInv

\* A watch that ends drops what waits.
LEMMA EndingKeeps ==
  ASSUME WorkerInv, WorkerInv', Shape, NEW s \in Session, SessionInv(s), Apart,
         SendFails(s) \/ RemoveQueue(s)
  PROVE  SessionInv(s)'
<1>1. /\ eventMap' = eventMap /\ version' = version /\ Message' = Message /\ Offered' = Offered
      /\ from[s] \in Nat /\ Len(eventMap) \in Nat
  BY ApartStays, Holds
<1>2. /\ spc[s] \in {"sending", "removing"} /\ spc'[s] \in {"removing", "closed"}
      /\ smax' = smax /\ open' = open /\ from' = from /\ sent' = sent /\ pending'[s] = <<>>
      /\ spc'[s] = "removing" => queue' = queue /\ queueMap' = queueMap
      /\ spc'[s] = "closed" => queue'[s] = <<>> /\ s \notin queueMap'
  BY DEF SendFails, RemoveQueue, Shape, SessionInv, Phases
<1>3. <<>> \in Seq(DOMAIN eventMap)
  OBVIOUS
<1>4. Phases(s)'
  BY <1>1, <1>2, <1>3 DEF SessionInv, Phases
<1>5. Listens(s)'
  BY <1>2 DEF Listens
<1>6. PICK m \in 0 .. Len(eventMap) : \E c \in 0 .. m : Streams(s, m, c)
  BY DEF SessionInv
<1>7. PICK c \in 0 .. m : Streams(s, m, c)
  BY <1>6
<1>8. Streams(s, m, c)'
  BY <1>2, <1>7 DEF Streams
<1>9. QED
  BY <1>1, <1>4, <1>5, <1>6, <1>7, <1>8 DEF SessionInv

-----------------------------------------------------------------------------
(* The invariant holds.                                                    *)

\* The invariant holds at the start.
LEMMA StoresInit == Init => StoresInv
<1>1. SUFFICES ASSUME Init PROVE StoresInv
  OBVIOUS
<1>2. WorkerInv /\ LogInv
  BY <1>1, WorkerInit
<1>3. <<>> \in Seq(Nat) /\ <<>> \in Seq(DOMAIN eventMap) /\ <<>> \in Seq(Message) /\ Len(<<>>) = 0
  OBVIOUS
<1>4. Shape
  BY <1>1, <1>3 DEF Init, Shape
<1>5. ASSUME NEW s \in Session PROVE SessionInv(s)
  <2>1. /\ version = 0 /\ Len(eventMap) = 0 /\ spc[s] = "idle" /\ s \notin queueMap
        /\ s \notin open /\ from[s] = 0 /\ smax[s] = 0 /\ pending[s] = <<>>
        /\ queue[s] = <<>> /\ sent[s] = <<>>
    BY <1>1, <1>3 DEF Init
  <2>2. Phases(s) /\ Listens(s)
    BY <1>3, <2>1 DEF Phases, Listens
  <2>3. QED
    BY <2>1, <2>2, NothingSent DEF SessionInv
<1>6. QED
  BY <1>2, <1>4, <1>5 DEF StoresInv

\* Each step keeps it: of the worker, of the request itself and of others.
LEMMA StoresStep == StoresInv /\ [Next]_vars => StoresInv'
<1>1. SUFFICES ASSUME StoresInv, [Next]_vars PROVE StoresInv'
  OBVIOUS
<1>2. /\ WorkerInv /\ LogInv /\ WorkerInv' /\ LogInv' /\ Shape
      /\ \A s \in Session : SessionInv(s)
  BY <1>1, WorkerInvStep DEF StoresInv
<1>3. CASE up /\ WorkerStep
  <2>1. Shape'
    BY <1>2, <1>3, ShapeKeeps
  <2>2. ASSUME NEW t \in Session PROVE SessionInv(t)'
    <3>1. CASE Enqueue
      BY <1>2, <3>1, EnqueueKeeps
    <3>2. CASE ~Enqueue
      <4>1. SameRequest(t)
        BY <1>2, <1>3, <3>2, WorkerFromRequests
      <4>2. QED
        BY <1>2, <4>1, RequestFrame
    <3>3. QED
      BY <3>1, <3>2
  <2>3. QED
    BY <1>2, <2>1, <2>2 DEF StoresInv
<1>4. ASSUME NEW s \in Session, RequestStep(s) PROVE StoresInv'
  <2>1. Shape' /\ Apart
    BY <1>2, <1>4, ShapeKeeps, RequestApart DEF WorkerInv
  <2>2. ASSUME NEW t \in Session PROVE SessionInv(t)'
    <3>1. CASE t # s
      <4>1. SameRequest(t)
        BY <1>2, <1>4, <3>1, RequestsApart
      <4>2. QED
        BY <1>2, <4>1, RequestFrame
    <3>2. CASE t = s
      BY <1>2, <1>4, <2>1, <3>2, OpeningKeeps, LosingKeeps, ListAnswerKeeps, ListEndKeeps,
         SendKeeps, DequeueKeeps, EndingKeeps DEF RequestStep, Serve
    <3>3. QED
      BY <3>1, <3>2
  <2>3. QED
    BY <1>2, <2>1, <2>2 DEF StoresInv
<1>5. CASE UNCHANGED vars
  <2>1. Shape'
    BY <1>2, <1>5 DEF vars, sessionVars, Shape
  <2>2. ASSUME NEW t \in Session PROVE SessionInv(t)'
    <3>1. version \in Nat /\ Len(eventMap) \in Nat
      BY <1>2, LogTypes
    <3>2. SameRequest(t)
      BY <1>5, <3>1 DEF vars, storeVars, sessionVars, writerVars, SameRequest, Offered
    <3>3. QED
      BY <1>2, <3>2, RequestFrame
  <2>3. QED
    BY <1>2, <2>1, <2>2 DEF StoresInv
<1>6. QED
  BY <1>1, <1>3, <1>4, <1>5, Steps

\* The invariant holds in every reachable state of each of the six stores.
THEOREM StoresInvariant == Spec => []StoresInv
<1>1. QED
  BY StoresInit, StoresStep, PTL DEF Spec

-----------------------------------------------------------------------------
(* What follows from it: the types, and what a watcher knows.              *)

\* Every variable stays within its type, whichever store it is.
THEOREM StoresTypes == Spec => []StoresTypeOK
<1>1. ASSUME StoresInv PROVE StoresTypeOK
  <2>1. /\ WorkerInv /\ Shape /\ \A s \in Session : SessionInv(s)
        /\ version \in 0 .. MaxVersion /\ Len(eventMap) \in Nat /\ Len(eventMap) <= version
        /\ DOMAIN eventMap = 1 .. Len(eventMap) /\ (cur = Nil <=> wpc = "idle")
    BY <1>1, LogTypes DEF StoresInv, WorkerInv
  <2>2. /\ kind \in Kind /\ up \in BOOLEAN
        /\ DOMAIN eventMap = 1 .. (IF wpc = "storing" THEN version - 1 ELSE version)
        /\ wpc \in {"idle", "storing", "enqueueing"}
        /\ wpc # "idle" => ops # <<>> /\ Head(ops).key = cur.key
    BY <2>1 DEF WorkerInv
  <2>3. ASSUME NEW s \in Session PROVE from[s] \in 0 .. MaxVersion /\ smax[s] \in 0 .. MaxVersion
    BY <2>1, MaxVersionAssumption DEF SessionInv, Phases
  <2>4. from \in [Session -> 0 .. MaxVersion] /\ smax \in [Session -> 0 .. MaxVersion]
    BY <2>1, <2>3 DEF Shape
  <2>5. ASSUME NEW s \in Session
        PROVE  /\ ToSet(pending[s]) \cup ToSet(queue[s]) \subseteq DOMAIN eventMap
               /\ {m.version : m \in ToSet(sent[s])} \subseteq DOMAIN eventMap
    <3>1. /\ pending[s] \in Seq(DOMAIN eventMap) /\ queue[s] \in Seq(DOMAIN eventMap)
          /\ sent[s] \in Seq(Message)
      BY <2>1, Holds
    <3>2. ToSet(pending[s]) \cup ToSet(queue[s]) \subseteq DOMAIN eventMap
      BY <3>1, OverItsElements
    <3>3. ToSet(sent[s]) \subseteq Message
      BY <3>1, OverItsElements
    <3>4. \A m \in Message : m.version \in DOMAIN eventMap
      BY DEF Message, Telling
    <3>5. QED
      BY <3>2, <3>3, <3>4
  <2>6. QED
    BY <2>1, <2>2, <2>4, <2>5 DEF StoresTypeOK, Shape
<1>2. QED
  BY <1>1, StoresInvariant, PTL

\* A message is about the object of its event.
LEMMA Subject ==
  ASSUME kind \in Kind, NEW key, NEW v
  PROVE  SubjectOf(MessageOf(key, v)) = key
<1>1. kind \in {"pod", "service", "endpoints", "configmap", "ingress", "rdmaingress"}
  BY KindAssumption DEF Kinds
<1>2. QED
  BY <1>1 DEF SubjectOf, MessageOf, PodMessage, ServiceMessage, EndpointsMessage,
              ConfigMapMessage, IngressMessage, RdmaIngressMessage

\* Message j of the course is the last about the object of version v, and is of v.
EndsWith(log, n, m, c, v) ==
  \E j \in 1 .. (m + (n - c)) :
    /\ Course(0, m, c, j) = v
    /\ \A k \in 1 .. (m + (n - c)) : log[Course(0, m, c, k)].key = log[v].key => k <= j

\* A course that ends at the version n tells last of an object what the log
\* tells last of it.
LEMMA LastTold ==
  ASSUME NEW log, NEW n \in Nat, DOMAIN log = 1 .. n,
         NEW m \in 0 .. n, NEW c \in 0 .. m,
         NEW v \in 1 .. n, IsLast(log, v)
  PROVE  EndsWith(log, n, m, c, v)
<1> DEFINE j == IF v > c THEN m + (v - c) ELSE v
<1>1. j \in 1 .. (m + (n - c)) /\ Course(0, m, c, j) = v
  BY DEF Course
<1>2. ASSUME NEW i \in 1 .. (m + (n - c)), log[Course(0, m, c, i)].key = log[v].key
      PROVE  i <= j
  <2>1. Course(0, m, c, i) \in 1 .. n
    BY DEF Course
  <2>2. Course(0, m, c, i) <= v
    BY <1>2, <2>1 DEF IsLast
  <2>3. QED
    BY <2>2 DEF Course
<1> HIDE DEF j
<1>3. QED
  BY <1>1, <1>2 DEF EndsWith

\* In every reachable state a watcher that has been sent all that waits for it
\* knows exactly the objects of the store.
THEOREM WatchersHaveStore == Spec => []WatcherHasStore
<1>1. ASSUME StoresInv, NEW s \in queueMap, wpc = "idle", spc[s] = "sending",
             pending[s] = <<>>, queue[s] = <<>>
      PROVE  {m.says : m \in Knows(Before(s) \o sent[s])}
               = {MessageOf(key, store[key]) : key \in DOMAIN store}
  <2> DEFINE f == from[s]
             all == Before(s) \o sent[s]
             n == version
  <2>1. s \in Session /\ WorkerInv /\ LogInv /\ Shape /\ SessionInv(s)
    BY <1>1 DEF StoresInv, Shape
  <2>2. /\ n \in Nat /\ Len(eventMap) = n /\ DOMAIN eventMap = 1 .. n /\ Offered = n
        /\ f \in Nat /\ f <= n /\ sent[s] \in Seq(Message) /\ Len(sent[s]) \in Nat
        /\ kind \in Kind
    BY <1>1, <2>1, LogTypes, Holds DEF WorkerInv, Offered
  <2>3. Leads(eventMap, store)
    BY <1>1, <2>1 DEF LogInv, Log, Map
  <2>4. PICK m \in 0 .. n : \E c \in 0 .. m : Streams(s, m, c)
    BY <2>1, <2>2 DEF SessionInv
  <2>5. PICK c \in 0 .. m : Streams(s, m, c)
    BY <2>4
  <2>6. /\ f <= m /\ Len(sent[s]) = (m - f) + (n - c)
        /\ \A i \in 1 .. Len(sent[s]) : sent[s][i].version = Course(f, m, c, i)
    <3>1. Len(pending[s]) = 0 /\ Len(queue[s]) = 0
      BY <1>1
    <3>2. /\ f <= m
          /\ Len(sent[s]) + Len(pending[s]) + Len(queue[s]) = (m - f) + (Offered - c)
          /\ \A i \in 1 .. Len(sent[s]) : sent[s][i].version = Course(f, m, c, i)
      BY <1>1, <2>5 DEF Streams
    <3>3. QED
      BY <2>2, <2>4, <2>5, <3>1, <3>2
  <2>7. /\ Before(s) \in Seq(Message) /\ Len(Before(s)) = f
        /\ \A i \in 1 .. f : Before(s)[i] = Telling(i)
    <3>1. \A i \in 1 .. f : Telling(i) \in Message
      BY <2>2 DEF Message
    <3>2. Before(s) \in [1 .. f -> Message] /\ \A i \in 1 .. f : Before(s)[i] = Telling(i)
      BY <3>1 DEF Before
    <3>3. Before(s) \in Seq(Message)
      BY <2>2, <3>2, SeqDef
    <3>4. QED
      BY <2>2, <3>2, <3>3, LenProperties
  <2> DEFINE l == m + (n - c)
             V(i) == Course(0, m, c, i)
  <2>8. /\ all \in Seq(Message) /\ Len(all) = l /\ DOMAIN all = 1 .. l
        /\ \A i \in 1 .. l : all[i] = IF i <= f THEN Before(s)[i] ELSE sent[s][i - f]
    <3>1. f + Len(sent[s]) = l
      BY <2>2, <2>4, <2>5, <2>6
    <3>2. /\ all \in Seq(Message) /\ Len(all) = f + Len(sent[s])
          /\ \A i \in 1 .. (f + Len(sent[s])) :
               all[i] = IF i <= f THEN Before(s)[i] ELSE sent[s][i - f]
      <4>1. /\ all \in Seq(Message) /\ Len(all) = Len(Before(s)) + Len(sent[s])
            /\ \A i \in 1 .. (Len(Before(s)) + Len(sent[s])) :
                 all[i] = IF i <= Len(Before(s)) THEN Before(s)[i]
                          ELSE sent[s][i - Len(Before(s))]
        BY <2>2, <2>7, ConcatProperties, Zenon
      <4>2. QED
        BY <2>7, <4>1, Zenon
    <3>3. DOMAIN all = 1 .. Len(all)
      BY <3>2, LenProperties
    <3>4. QED
      BY <3>1, <3>2, <3>3
  <2>9. \A x \in Message : x = Telling(x.version)
    BY DEF Message, Telling
  <2> HIDE DEF all, f, n
  <2>10. ASSUME NEW i \in 1 .. l PROVE V(i) \in 1 .. n /\ all[i] = Telling(V(i))
    <3>1. V(i) \in 1 .. n
      BY <2>2, <2>4, <2>5 DEF Course
    <3>2. CASE i <= f
      <4>1. V(i) = i /\ i \in 1 .. f
        BY <2>2, <2>4, <2>6, <3>2 DEF Course
      <4>2. QED
        BY <2>7, <2>8, <3>1, <3>2, <4>1
    <3>3. CASE i > f
      <4>1. i - f \in 1 .. Len(sent[s])
        BY <2>2, <2>4, <2>5, <2>6, <3>3
      <4>2. Course(f, m, c, i - f) = V(i)
        BY <2>2, <2>4, <2>5, <2>6, <3>3 DEF Course
      <4>3. all[i] = sent[s][i - f] /\ sent[s][i - f].version = V(i)
        BY <2>2, <2>6, <2>8, <3>3, <4>1, <4>2
      <4>4. all[i] \in Message
        BY <2>2, <4>1, <4>3
      <4>5. QED
        BY <2>9, <3>1, <4>3, <4>4
    <3>4. QED
      BY <2>2, <3>2, <3>3
  <2>11. ASSUME NEW v \in 1 .. n
         PROVE  /\ Telling(v).type = eventMap[v].type
                /\ Telling(v).says = MessageOf(eventMap[v].key, eventMap[v].value)
                /\ SubjectOf(Telling(v).says) = eventMap[v].key
    BY <2>2, Subject DEF Telling
  <2> HIDE DEF V, l
  <2>12. ASSUME NEW x \in Knows(all)
         PROVE  \E key \in DOMAIN store : x.says = MessageOf(key, store[key])
    <3>1. PICK i \in 1 .. l :
            /\ all[i] = x /\ x.type = "set"
            /\ \A j \in 1 .. l : SubjectOf(all[j].says) = SubjectOf(x.says) => j <= i
      BY <2>8, <2>12 DEF Knows
    <3> DEFINE v == V(i)
    <3>2. v \in 1 .. n /\ x = Telling(v)
      BY <2>10, <3>1
    <3>3. PICK w \in 1 .. n : eventMap[w].key = eventMap[v].key /\ IsLast(eventMap, w)
      BY <2>2, <2>3, <3>2 DEF Leads
    <3>4. PICK j \in 1 .. l :
            /\ V(j) = w
            /\ \A k \in 1 .. l : eventMap[V(k)].key = eventMap[w].key => k <= j
      <4>1. n \in Nat /\ DOMAIN eventMap = 1 .. n /\ IsLast(eventMap, w)
        BY <2>2, <3>3
      <4>2. EndsWith(eventMap, n, m, c, w)
        BY <4>1, LastTold
      <4>3. QED
        BY <4>2 DEF EndsWith, V, l
    <3>5. SubjectOf(all[j].says) = SubjectOf(x.says)
      BY <2>10, <2>11, <3>2, <3>3, <3>4
    <3>6. j <= i /\ i <= j
      BY <3>1, <3>3, <3>4, <3>5
    <3>7. l \in Int
      BY <2>2, <2>4, <2>5 DEF l
    <3>8. i = j
      BY <3>6, <3>7
    <3>9. eventMap[w].type = "set" /\ w = v
      BY <2>11, <3>1, <3>2, <3>4, <3>8
    <3>10. /\ eventMap[w].key \in DOMAIN store
           /\ eventMap[w].value = store[eventMap[w].key]
      BY <2>2, <2>3, <3>3, <3>9 DEF Leads
    <3>11. QED
      BY <2>11, <3>2, <3>9, <3>10
  <2>13. ASSUME NEW key \in DOMAIN store
         PROVE  \E x \in Knows(all) : x.says = MessageOf(key, store[key])
    <3>1. PICK u \in 1 .. n : eventMap[u].key = key
      BY <2>2, <2>3 DEF Leads
    <3>2. PICK w \in 1 .. n : eventMap[w].key = key /\ IsLast(eventMap, w)
      BY <2>2, <2>3, <3>1 DEF Leads
    <3>3. eventMap[w].type = "set" /\ eventMap[w].value = store[key]
      BY <2>2, <2>3, <3>2 DEF Leads
    <3>4. PICK j \in 1 .. l :
            /\ V(j) = w
            /\ \A k \in 1 .. l : eventMap[V(k)].key = eventMap[w].key => k <= j
      <4>1. n \in Nat /\ DOMAIN eventMap = 1 .. n /\ IsLast(eventMap, w)
        BY <2>2, <3>2
      <4>2. EndsWith(eventMap, n, m, c, w)
        BY <4>1, LastTold
      <4>3. QED
        BY <4>2 DEF EndsWith, V, l
    <3>5. /\ all[j] = Telling(w) /\ Telling(w).type = "set"
          /\ Telling(w).says = MessageOf(key, store[key])
      BY <2>10, <2>11, <3>2, <3>3, <3>4
    <3>6. ASSUME NEW k \in 1 .. l, SubjectOf(all[k].says) = SubjectOf(Telling(w).says)
          PROVE  k <= j
      <4>1. V(k) \in 1 .. n /\ all[k] = Telling(V(k))
        BY <2>10
      <4>2. eventMap[V(k)].key = eventMap[w].key
        BY <2>11, <3>6, <4>1
      <4>3. QED
        BY <3>4, <4>2
    <3>7. Telling(w) \in Knows(all)
      <4>1. Telling(w) \in ToSet(all)
        BY <2>8, <3>5 DEF ToSet
      <4>2. QED
        BY <2>8, <3>5, <3>6, <4>1 DEF Knows
    <3>8. QED
      BY <3>5, <3>7
  <2>14. {x.says : x \in Knows(all)} = {MessageOf(key, store[key]) : key \in DOMAIN store}
    BY <2>12, <2>13
  <2>15. QED
    BY <2>14 DEF all
<1>2. StoresInv => WatcherHasStore
  BY <1>1 DEF WatcherHasStore
<1>3. QED
  BY <1>2, StoresInvariant, PTL

-----------------------------------------------------------------------------
(* Each service is an EventFeed.                                           *)

\* The versions a request was sent, and the requests being served.
Said(s) == {m.version : m \in ToSet(sent[s])}
Seen == [s \in Session |-> Said(s)]
Live == IF up THEN open ELSE {}

\* EventFeed sees nothing of a step that leaves these alone.
LEMMA Unseen ==
  ASSUME UNCHANGED <<up, open, eventMap, from, sent>>
  PROVE  UNCHANGED Feed!vars
<1>1. Seen' = Seen /\ Live' = Live
  BY DEF Seen, Said, Live
<1>2. QED
  BY <1>1 DEF Feed!vars, Seen, Said, Live

\* Storing an event publishes it.
LEMMA StorePublishes ==
  ASSUME StoresInv, StoreEvent
  PROVE  Feed!Next
<1>1. /\ kind \in Kind /\ cur \in EventObject(kind) /\ eventMap \in Seq(EventObject(kind))
      /\ Len(eventMap) = version - 1 /\ version \in 0 .. MaxVersion
  BY DEF StoresInv, WorkerInv, StoreEvent
<1>2. cur \in UNION {EventObject(k) : k \in Kind}
  BY <1>1
<1>3. Seen' = Seen /\ Live' = Live /\ from' = from /\ eventMap' = Append(eventMap, cur)
  BY DEF StoreEvent, sessionVars, Seen, Said, Live
<1>4. Len(eventMap) < MaxVersion
  BY <1>1, MaxVersionAssumption
<1>5. Feed!Publish(cur)
  BY <1>3, <1>4 DEF Feed!Publish, Seen, Said, Live
<1>6. QED
  BY <1>2, <1>5 DEF Feed!Next

\* A call subscribes; a list request does so from the start.
LEMMA CallSubscribes ==
  ASSUME StoresInv, up, NEW s \in Session, Call(s)
  PROVE  Feed!Next
<1>1. /\ Shape /\ SessionInv(s) /\ version \in 0 .. MaxVersion
      /\ DOMAIN eventMap = 1 .. Len(eventMap) /\ Len(eventMap) <= version /\ Len(eventMap) \in Nat
  BY LogTypes DEF StoresInv, WorkerInv
<1>2. spc[s] = "idle" /\ s \notin open /\ from[s] = 0 /\ sent[s] = <<>>
  BY <1>1 DEF Call, List, Watch, SessionInv, Phases
<1>3. PICK m \in {0} \cup DOMAIN eventMap : from' = [from EXCEPT ![s] = m]
  <2>1. CASE List(s)
    <3>1. from' = [from EXCEPT ![s] = 0]
      BY <1>1, <1>2, <2>1 DEF List, Shape
    <3>2. QED
      BY <3>1
  <2>2. QED
    BY <2>1 DEF Call, Watch
<1>4. m \in 0 .. MaxVersion
  BY <1>1, <1>3, MaxVersionAssumption
<1>5. /\ open' = open \cup {s} /\ up' = up /\ eventMap' = eventMap /\ sent' = sent
  BY DEF Call, List, Watch, storeVars
<1>6. Live' = Live \cup {s} /\ s \notin Live
  BY <1>2, <1>5 DEF Live
<1>7. Said(s) = {}
  BY <1>2 DEF Said, ToSet
<1>8. Seen' = [Seen EXCEPT ![s] = {}]
  BY <1>5, <1>7 DEF Seen, Said
<1>9. Feed!Subscribe(s, m)
  BY <1>3, <1>5, <1>6, <1>8 DEF Feed!Subscribe, Live, Seen, Said
<1>10. QED
  BY <1>4, <1>9 DEF Feed!Next

\* What was sent before the version that comes next is all that the client
\* asked for before it.
LEMMA SentBefore ==
  ASSUME NEW f \in Nat, NEW m \in Nat, NEW c \in 0 .. m, NEW a \in Nat, f <= m,
         NEW u \in (f + 1) .. (Course(f, m, c, a + 1) - 1)
  PROVE  \E i \in 1 .. a : Course(f, m, c, i) = u
<1>1. CASE u <= m
  <2>1. u - f \in 1 .. a /\ Course(f, m, c, u - f) = u
    BY <1>1 DEF Course
  <2>2. QED
    BY <2>1
<1>2. CASE u > m
  <2>1. (m - f) + (u - c) \in 1 .. a /\ Course(f, m, c, (m - f) + (u - c)) = u
    BY <1>2 DEF Course
  <2>2. QED
    BY <2>1
<1>3. QED
  BY <1>1, <1>2

\* A send delivers the version that is next.
LEMMA SendDelivers ==
  ASSUME StoresInv, up, NEW s \in Session, Send(s)
  PROVE  Feed!Next
<1> DEFINE f == from[s]  a == Len(sent[s])  h == Head(pending[s])
<1>1. /\ WorkerInv /\ Shape /\ SessionInv(s) /\ version \in 0 .. MaxVersion
      /\ Len(eventMap) <= version
  BY LogTypes DEF StoresInv, WorkerInv
<1>2. /\ f \in Nat /\ a \in Nat /\ sent[s] \in Seq(Message)
      /\ pending[s] \in Seq(DOMAIN eventMap) /\ Len(eventMap) \in Nat
      /\ DOMAIN eventMap = 1 .. Len(eventMap)
  BY <1>1, Holds
<1>3. /\ spc[s] = "sending" /\ pending[s] # <<>> /\ s \in open
      /\ sent' = [sent EXCEPT ![s] = Append(@, Telling(h))]
      /\ open' = open /\ up' = up /\ eventMap' = eventMap /\ from' = from
  BY DEF Send, storeVars
<1>4. h = pending[s][1] /\ 1 \in 1 .. Len(pending[s]) /\ h \in 1 .. Len(eventMap)
  BY <1>2, <1>3
<1>5. PICK m \in 0 .. Len(eventMap) : \E c \in 0 .. m : Streams(s, m, c)
  BY <1>1 DEF SessionInv
<1>6. PICK c \in 0 .. m : Streams(s, m, c)
  BY <1>5
<1>7. /\ f <= m /\ h = Course(f, m, c, a + 1)
      /\ \A i \in 1 .. a : sent[s][i].version = Course(f, m, c, i)
  BY <1>3, <1>4, <1>6 DEF Streams
<1>8. DOMAIN sent[s] = 1 .. a
  BY <1>2
<1>9. Said(s) = {sent[s][i].version : i \in 1 .. a}
  BY <1>8 DEF Said, ToSet
<1>10. Telling(h).version = h /\ Telling(h) \in Message
  BY <1>2, <1>4 DEF Telling, Message
<1> HIDE DEF f, a, h
<1>11. (f + 1) .. (h - 1) \subseteq Said(s)
  <2>1. ASSUME NEW u \in (f + 1) .. (h - 1) PROVE u \in Said(s)
    <3>1. m \in Nat
      BY <1>2, <1>5
    <3>2. u \in (f + 1) .. (Course(f, m, c, a + 1) - 1)
      BY <1>7
    <3>3. PICK i \in 1 .. a : Course(f, m, c, i) = u
      BY <1>2, <1>7, <3>1, <3>2, SentBefore
    <3>4. QED
      BY <1>7, <1>9, <3>3
  <2>2. QED
    BY <2>1
<1>12. {x.version : x \in ToSet(Append(sent[s], Telling(h)))} = Said(s) \cup {h}
  <2>1. ToSet(Append(sent[s], Telling(h))) = ToSet(sent[s]) \cup {Telling(h)}
    <3> DEFINE q == sent[s]  e == Telling(h)
    <3>1. /\ DOMAIN q = 1 .. a /\ DOMAIN Append(q, e) = 1 .. (a + 1)
          /\ Append(q, e)[a + 1] = e /\ \A i \in 1 .. a : Append(q, e)[i] = q[i]
      BY <1>2, <1>10 DEF a
    <3> HIDE DEF q, e
    <3>2. \A i \in 1 .. (a + 1) : i = a + 1 \/ i \in 1 .. a
      BY <1>2
    <3>3. a + 1 \in 1 .. (a + 1) /\ \A i \in 1 .. a : i \in 1 .. (a + 1)
      BY <1>2
    <3>4. ToSet(Append(q, e)) = ToSet(q) \cup {e}
      BY <3>1, <3>2, <3>3 DEF ToSet
    <3>5. QED
      BY <3>4 DEF q, e
  <2>2. QED
    BY <1>10, <2>1 DEF Said
<1>13. Said(s) \cup {h} = Said(s) \cup (f + 1) .. h \cup {h}
  <2>1. ASSUME NEW u \in (f + 1) .. h PROVE u \in Said(s) \cup {h}
    <3>1. u = h \/ u \in (f + 1) .. (h - 1)
      BY <1>2, <1>4
    <3>2. QED
      BY <1>11, <3>1
  <2>2. QED
    BY <2>1
<1>14. Seen' = [Seen EXCEPT ![s] = @ \cup (from[s] + 1) .. h \cup {h}]
  <2>1. \A t \in Session : Said(t)' = IF t = s THEN Said(s) \cup {h} ELSE Said(t)
    BY <1>1, <1>3, <1>12 DEF Said, Shape
  <2>2. QED
    BY <1>13, <2>1 DEF Seen, f
<1>15. s \in Live /\ Live' = Live
  BY <1>3 DEF Live
<1>16. Feed!Deliver(s, h)
  BY <1>3, <1>4, <1>14, <1>15 DEF Feed!Deliver, Feed!Sends, Seen, Said, Live
<1>17. h \in 1 .. MaxVersion
  BY <1>1, <1>2, <1>4, MaxVersionAssumption
<1>18. QED
  BY <1>16, <1>17 DEF Feed!Next

\* A list request whose client is there is answered with all it listed.
LEMMA ListAnswers ==
  ASSUME StoresInv, up, NEW s \in Session, ListAnswer(s)
  PROVE  Feed!Next \/ UNCHANGED Feed!vars
<1> DEFINE n == smax[s] - from[s]
<1>1. /\ WorkerInv /\ Shape /\ SessionInv(s) /\ version \in 0 .. MaxVersion
      /\ Len(eventMap) <= version /\ Len(eventMap) \in Nat
  BY LogTypes DEF StoresInv, WorkerInv
<1>2. /\ n \in Nat /\ from[s] \in Nat /\ smax[s] \in Nat /\ smax[s] <= Len(eventMap)
      /\ DOMAIN Listed(s) = 1 .. n
      /\ \A i \in 1 .. n : Listed(s)[i] = from[s] + i
  BY <1>1, ListedVersions DEF ListAnswer
<1>3. open' = open \ {s} /\ up' = up /\ eventMap' = eventMap /\ from' = from
  BY DEF ListAnswer, storeVars
<1>4. CASE s \notin open
  BY <1>3, <1>4, Unseen DEF ListAnswer
<1>5. CASE s \in open
  <2>1. sent' = [sent EXCEPT ![s] = [i \in 1 .. n |-> Telling(Listed(s)[i])]]
    BY <1>2, <1>5 DEF ListAnswer
  <2>2. sent'[s] = [i \in 1 .. n |-> Telling(Listed(s)[i])]
    BY <1>1, <2>1 DEF Shape
  <2>3. \A i \in 1 .. n : sent'[s][i].version = from[s] + i
    BY <1>2, <2>2 DEF Telling
  <2>4. Said(s)' = (from[s] + 1) .. smax[s]
    <3>1. ToSet(sent'[s]) = {sent'[s][i] : i \in 1 .. n}
      BY <2>2 DEF ToSet
    <3>2. Said(s)' = {sent'[s][i].version : i \in 1 .. n}
      BY <3>1 DEF Said
    <3>3. \A u \in (from[s] + 1) .. smax[s] : u - from[s] \in 1 .. n /\ from[s] + (u - from[s]) = u
      BY <1>2
    <3>4. \A i \in 1 .. n : from[s] + i \in (from[s] + 1) .. smax[s]
      BY <1>2
    <3>5. QED
      BY <2>3, <3>2, <3>3, <3>4
  <2>5. Seen' = [Seen EXCEPT ![s] = (from[s] + 1) .. smax[s]]
    <3>1. \A t \in Session : t # s => Said(t)' = Said(t)
      BY <1>1, <2>1 DEF Said, Shape
    <3>2. QED
      BY <2>4, <3>1 DEF Seen
  <2>6. s \in Live /\ Live' = Live \ {s}
    BY <1>3, <1>5 DEF Live
  <2>7. PICK v \in 0 .. MaxVersion : v = smax[s]
    BY <1>1, <1>2, MaxVersionAssumption
  <2>8. v \in from[s] .. Len(eventMap)
    BY <1>1, <1>2, <2>7
  <2>9. Feed!Answer(s, v)
    BY <1>3, <2>5, <2>6, <2>7, <2>8 DEF Feed!Answer, Seen, Said, Live
  <2>10. QED
    BY <2>9 DEF Feed!Next
<1>6. QED
  BY <1>4, <1>5

\* The end of the process ends all requests.
LEMMA StopStops ==
  ASSUME up' = FALSE, eventMap' = eventMap, from' = from, sent' = sent
  PROVE  Feed!Next
<1>1. Live' = {} /\ Seen' = Seen
  BY DEF Live, Seen, Said
<1>2. QED
  BY <1>1 DEF Feed!Next, Feed!Stop, Seen, Said, Live

\* The service starts where the EventFeed does.
LEMMA FeedInit == Init => Feed!Init
<1>1. SUFFICES ASSUME Init PROVE Feed!Init
  OBVIOUS
<1>2. \A s \in Session : Said(s) = {}
  BY <1>1 DEF Init, Said, ToSet
<1>3. QED
  BY <1>1, <1>2 DEF Init, Feed!Init, Said

\* Each step of a store and its requests is a step of the feed, or none.
LEMMA FeedStep == StoresInv /\ [Next]_vars => [Feed!Next]_(Feed!vars)
<1>1. SUFFICES ASSUME StoresInv, [Next]_vars PROVE Feed!Next \/ UNCHANGED Feed!vars
  OBVIOUS
<1>2. CASE WorkerStep
  <2>1. CASE StoreEvent
    BY <1>1, <2>1, StorePublishes
  <2>2. CASE ~StoreEvent
    BY <1>2, <2>2, Unseen DEF WorkerStep, HandleItem, Skip, Set, Delete, Enqueue, storeVars,
                              sessionVars
  <2>3. QED
    BY <2>1, <2>2
<1>3. ASSUME up, NEW s \in Session, RequestStep(s) PROVE Feed!Next \/ UNCHANGED Feed!vars
  <2>1. CASE Call(s)
    BY <1>1, <1>3, <2>1, CallSubscribes
  <2>2. CASE Send(s)
    BY <1>1, <1>3, <2>2, SendDelivers
  <2>3. CASE ListAnswer(s)
    BY <1>1, <1>3, <2>3, ListAnswers
  <2>4. CASE ListNil(s) \/ TellPanics(s)
    BY <2>4, StopStops DEF ListNil, TellPanics, storeVars, sessionVars
  <2>5. CASE Disconnect(s)
    <3>1. /\ s \in Live /\ Live' = Live \ {s} /\ Seen' = Seen
          /\ eventMap' = eventMap /\ from' = from
      BY <1>3, <2>5 DEF Disconnect, Live, Seen, Said, storeVars
    <3>2. Feed!Unsubscribe(s)
      BY <3>1 DEF Feed!Unsubscribe, Seen, Said, Live
    <3>3. QED
      BY <3>2 DEF Feed!Next
  <2>6. CASE \/ AddQueue(s) \/ ListStart(s) \/ RemoveQueue(s)
             \/ ListEnd(s) \/ SendFails(s) \/ Dequeue(s)
    BY <2>6, Unseen DEF AddQueue, ListStart, RemoveQueue, ListEnd, SendFails, Dequeue, storeVars
  <2>7. QED
    BY <1>3, <2>1, <2>2, <2>3, <2>4, <2>5, <2>6 DEF RequestStep, Serve
<1>4. CASE UNCHANGED vars
  BY <1>4, Unseen DEF vars, storeVars, sessionVars
<1>5. QED
  BY <1>1, <1>2, <1>3, <1>4, Steps

\* Every one of the services is an EventFeed: whatever the objects, the
\* interleaving of worker and requests and the bound on the log, each stream
\* replays the log without a gap.
THEOREM FeedsImplemented == Spec => ImplementsFeed
<1>1. Spec => Feed!Spec
  BY StoresInvariant, FeedInit, FeedStep, PTL DEF Spec, Feed!Spec
<1>2. QED
  BY <1>1 DEF ImplementsFeed
==============================================================================
