------------------------------ MODULE Controller ------------------------------
(***************************************************************************)
(* One controller of the connection manager with its handler and the map   *)
(* it keeps in the datastore: the informer copies the objects of the API   *)
(* server into its indexer and adds an event item for each change to a     *)
(* work queue, and one worker takes the items and applies them.            *)
(*                                                                         *)
(* kind says which controller it is: the six of controllerbuilder.go look  *)
(* the object of an item up when they process it, the one of               *)
(* rdmaingresscontroller.go puts the object into the item.  All are parts  *)
(* of one process: a panic in one ends the others.                         *)
(*                                                                         *)
(* An item carries a tracking id of its own, so a work queue never merges  *)
(* two.  The informer is client-go's: what it may do is modelled from the  *)
(* callbacks registered with it.  A handler is one step here; the steps    *)
(* of the datastore are in NodeStore and ResourceStores.                   *)
(*                                                                         *)
(* A definition named ...Bug is a plausible mistake in the next one.       *)
(***************************************************************************)
EXTENDS Resources

CONSTANTS Kind,       \* the kinds of controllers looked at
          Looks,      \* Looks[kind][name]: what an object may look like
          MaxChange   \* bound: changes in the API server, and lives of the process

ASSUME KindAssumption == Kind \subseteq Kinds \cap DOMAIN Looks
ASSUME LooksAssumption ==
  \A k \in Kind : \A name \in DOMAIN Looks[k] : Nil \notin Looks[k][name]
ASSUME NamesAssumption == \A k \in Kind : IsFiniteSet(DOMAIN Looks[k])
ASSUME MaxChangeAssumption == MaxChange \in Nat

\* What an item may be in any of the controllers.
AnyObject(k) == UNION {Looks[k][name] \cup {Nil} : name \in DOMAIN Looks[k]}
AnyItem(k) == [key : DOMAIN Looks[k], type : {"set", "delete"}, obj : AnyObject(k)]

ASSUME NilAssumption == \A k \in Kind : Nil \notin [item : AnyItem(k), obj : AnyObject(k)]

\* The rules of an RdmaIngress are a sequence, and what a handler puts into the
\* datastore is something.
ASSUME RulesAssumption ==
  "rdmaingress" \in Kind =>
    \A o \in AnyObject("rdmaingress") \ {Nil} :
      Len(o.rules) \in Nat /\ DOMAIN o.rules = 1 .. Len(o.rules)
ASSUME ValuesAssumption ==
  \A k \in Kind : \A name \in DOMAIN Looks[k] : \A o \in AnyObject(k) \ {Nil} :
    ~Unhandled(k, name, o) =>
      \A i \in DOMAIN Handle(k, "set", name, o) : Handle(k, "set", name, o)[i].value # Nil

VARIABLES
  kind,      \* the kind of this controller
  cluster,   \* the objects in the API server
  changes,   \* how often they have changed
  up,        \* the process is running
  indexer,   \* informer.GetIndexer()
  queue,     \* c.queue, c.workqueue
  cur,       \* the item being processed and its Obj, Nil between two items
  store,     \* the map of the datastore
  applied,   \* history: the object last handled under each name
  dropped,   \* history: names whose delete got no item
  drift      \* history: the handlers went on from what they cannot undo

processVars == <<up, indexer, queue, cur, store, applied, dropped, drift>>
vars == <<kind, cluster, changes, processVars>>

Key == DOMAIN Looks[kind]

\* What an object may be, and what an item may carry.
ObjectOf(k) == Looks[kind][k] \cup {Nil}
Object == AnyObject(kind)

Nothing == [k \in Key |-> Nil]

\* An item of the six controllers has no object until it is processed.
EventItem == AnyItem(kind)

Item(k, type, o) ==
  [key |-> k, type |-> type, obj |-> IF kind = "rdmaingress" THEN o ELSE Nil]

Init ==
  /\ kind \in Kind
  /\ cluster \in {c \in [Key -> Object] : \A k \in Key : c[k] \in ObjectOf(k)}
  /\ changes = 0
  /\ up = FALSE
  /\ indexer = Nothing
  /\ queue = <<>>
  /\ cur = Nil
  /\ store = NoStore
  /\ applied = Nothing
  /\ dropped = {}
  /\ drift = FALSE

\* An object is created, changed, touched or deleted, also while the process
\* is down.
Change(k, o) ==
  /\ changes < MaxChange
  /\ cluster' = [cluster EXCEPT ![k] = o]
  /\ changes' = changes + 1
  /\ UNCHANGED <<kind, processVars>>

\* The handlers are registered when the informer has already listed.
StartBug ==
  /\ ~up
  /\ up' = TRUE
  /\ indexer' = cluster
  /\ UNCHANGED <<kind, cluster, changes, queue, cur, store, applied, dropped, drift>>

\* The process starts: the worker begins once the informer has listed, and
\* every object listed is an add, in any order.
Start ==
  /\ ~up
  /\ up' = TRUE
  /\ indexer' = cluster
  /\ queue' \in {[i \in DOMAIN keys |-> Item(keys[i], "set", cluster[keys[i]])] :
                   keys \in SetToSeqs({k \in Key : cluster[k] # Nil})}
  /\ UNCHANGED <<kind, cluster, changes, cur, store, applied, dropped, drift>>

\* controller.Start and rdmaingresscontroller.Start.
StartController     == kind # "rdmaingress" /\ Start
StartRdmaController == kind = "rdmaingress" /\ Start

\* The callbacks: an item for the object as it is now, or was before its delete.
Enqueue(k) ==
  queue' = Append(queue, IF cluster[k] = Nil THEN Item(k, "delete", indexer[k])
                         ELSE Item(k, "set", cluster[k]))

\* An item that is queued already is not added again, as with a queue of keys.
InformOnceBug(k) ==
  /\ up
  /\ indexer[k] # cluster[k]
  /\ indexer' = [indexer EXCEPT ![k] = cluster[k]]
  /\ IF \E i \in DOMAIN queue : queue[i].key = k THEN UNCHANGED queue ELSE Enqueue(k)
  /\ dropped' = dropped \ {k}
  /\ UNCHANGED <<kind, cluster, changes, up, cur, store, applied, drift>>

\* The informer goes on while the process is down.
InformDownBug(k) ==
  /\ indexer[k] # cluster[k]
  /\ indexer' = [indexer EXCEPT ![k] = cluster[k]]
  /\ Enqueue(k)
  /\ dropped' = dropped \ {k}
  /\ UNCHANGED <<kind, cluster, changes, up, cur, store, applied, drift>>

\* The informer learns of the state of an object, which may skip states in
\* between (a new list after a broken watch), and calls AddFunc, UpdateFunc or
\* DeleteFunc.
Inform(k) ==
  /\ up
  /\ indexer[k] # cluster[k]
  /\ indexer' = [indexer EXCEPT ![k] = cluster[k]]
  /\ Enqueue(k)
  /\ dropped' = dropped \ {k}
  /\ UNCHANGED <<kind, cluster, changes, up, cur, store, applied, drift>>

\* A delete that only a new list shows comes as a tombstone, of which
\* MetaNamespaceKeyFunc makes no key: enqueueRdmaIngress returns.
InformTombstone(k) ==
  /\ up
  /\ kind = "rdmaingress"
  /\ indexer[k] # Nil
  /\ cluster[k] = Nil
  /\ indexer' = [indexer EXCEPT ![k] = Nil]
  /\ dropped' = dropped \cup {k}
  /\ UNCHANGED <<kind, cluster, changes, up, queue, cur, store, applied, drift>>

\* UpdateFunc for a change in what the handler does not look at (the status of
\* a node changes all the time), or for the resync every 30 seconds.
InformTouched(k) ==
  /\ up
  /\ indexer[k] # Nil
  /\ changes < MaxChange
  /\ changes' = changes + 1
  /\ queue' = Append(queue, Item(k, "set", indexer[k]))
  /\ UNCHANGED <<kind, cluster, up, indexer, cur, store, applied, dropped, drift>>

\* The object is read from the API server.
FetchBug ==
  /\ up
  /\ cur = Nil
  /\ kind # "rdmaingress"
  /\ queue # <<>>
  /\ cur' = [item |-> Head(queue), obj |-> cluster[Head(queue).key]]
  /\ queue' = Tail(queue)
  /\ UNCHANGED <<kind, cluster, changes, up, indexer, store, applied, dropped, drift>>

\* processNextItem takes an item and processItem looks its object up, as it is
\* now.
Fetch ==
  /\ up
  /\ cur = Nil
  /\ kind # "rdmaingress"
  /\ queue # <<>>
  /\ cur' = [item |-> Head(queue), obj |-> indexer[Head(queue).key]]
  /\ queue' = Tail(queue)
  /\ UNCHANGED <<kind, cluster, changes, up, indexer, store, applied, dropped, drift>>

\* processNextWorkItem has its object with it.
FetchRdmaIngress ==
  /\ up
  /\ cur = Nil
  /\ kind = "rdmaingress"
  /\ queue # <<>>
  /\ cur' = [item |-> Head(queue), obj |-> Head(queue).obj]
  /\ queue' = Tail(queue)
  /\ UNCHANGED <<kind, cluster, changes, up, indexer, store, applied, dropped, drift>>

\* What a datastore that starts empty holds of an object.
Contents(k, o) ==
  IF o = Nil THEN NoStore ELSE ApplyAll(kind, NoStore, Handle(kind, "set", k, o))

\* What handling an item leaves behind that handling what there is now, on an
\* empty datastore, would not: a key the object no longer has, a config map
\* that is deleted, a key that two objects share, a target port that changes
\* alone.
Drifts(k, type, o) ==
  LET before == Contents(k, applied[k])
      after  == IF type = "set" THEN Contents(k, o) ELSE NoStore
      keys   == {op.key : op \in ToSet(Handle(kind, type, k, o))}
  IN \/ type = "set" /\ ~(DOMAIN before \subseteq DOMAIN after)
     \/ kind = "configmap" /\ ~(DOMAIN before \subseteq DOMAIN after)
     \/ \E j \in Key \ {k} : keys \cap DOMAIN Contents(j, applied[j]) # {}
     \/ /\ kind = "rdmaingress"
        /\ \E key \in DOMAIN before \cap DOMAIN after :
             /\ before[key].service = after[key].service
             /\ before[key].targetPort # after[key].targetPort

\* The handler runs.
HandleItem ==
  /\ cur # Nil
  /\ LET k == cur.item.key
         type == cur.item.type
     IN /\ ~Panics(kind, type, k, cur.obj)
        /\ store' = ApplyAll(kind, store, Handle(kind, type, k, cur.obj))
        /\ applied' = [applied EXCEPT ![k] = IF type = "set" THEN cur.obj ELSE Nil]
        /\ drift' = (drift \/ Drifts(k, type, cur.obj))
  /\ cur' = Nil
  /\ UNCHANGED <<kind, cluster, changes, up, indexer, queue, dropped>>

\* The process ends, and with it every queue and store.
ProcessEnds ==
  /\ up' = FALSE
  /\ indexer' = Nothing
  /\ queue' = <<>>
  /\ cur' = Nil
  /\ store' = NoStore
  /\ applied' = Nothing
  /\ dropped' = {}
  /\ drift' = FALSE

\* The handler panics, and HandleCrash lets the panic end the process.
HandlePanics ==
  /\ cur # Nil
  /\ Panics(kind, cur.item.type, cur.item.key, cur.obj)
  /\ ProcessEnds
  /\ UNCHANGED <<kind, cluster, changes>>

\* The process dies of something else: another controller, a gRPC request.
Dies ==
  /\ up
  /\ changes < MaxChange
  /\ changes' = changes + 1
  /\ ProcessEnds
  /\ UNCHANGED <<kind, cluster>>

Worker == Fetch \/ FetchRdmaIngress \/ HandleItem \/ HandlePanics

Next ==
  \/ \E k \in Key :
       \/ \E o \in ObjectOf(k) : Change(k, o)
       \/ Inform(k)
       \/ InformTombstone(k)
       \/ InformTouched(k)
  \/ StartController
  \/ StartRdmaController
  \/ Worker
  \/ Dies

Spec == Init /\ [][Next]_vars

\* The cluster restarts the process, the informer does not stay behind for
\* ever, and the worker runs.
FairSpec ==
  /\ Spec
  /\ WF_vars(StartController \/ StartRdmaController)
  /\ WF_vars(Worker)
  /\ WF_vars(\E k \in Key : Inform(k))

-----------------------------------------------------------------------------
(* Properties.                                                             *)

\* Every variable stays within its type, and a process that is down has
\* nothing.
TypeOK ==
  /\ kind \in Kind
  /\ cluster \in [Key -> Object]
  /\ changes \in 0 .. MaxChange
  /\ up \in BOOLEAN
  /\ indexer \in [Key -> Object]
  /\ queue \in Seq(EventItem)
  /\ cur \in [item : EventItem, obj : Object] \cup {Nil}
  /\ applied \in [Key -> Object]
  /\ dropped \subseteq Key
  /\ drift \in BOOLEAN
  /\ ~up => indexer = Nothing /\ queue = <<>> /\ cur = Nil /\ applied = Nothing

\* The items of k that wait in the queue.
Waiting(k) == {i \in DOMAIN queue : queue[i].key = k}

\* The last waiting item of a name does what its object calls for; and while
\* no item waits, what the worker has in hand, or has handled, is the object
\* as the informer knows it.  An object that was deleted and created again, or
\* changed between the lookup and the handler, is never lost; only an
\* RdmaIngress whose delete got no item stays.
LastItemDecides ==
  \A k \in Key :
    IF Waiting(k) # {}
    THEN \E i \in Waiting(k) :
           /\ \A j \in Waiting(k) : j <= i
           /\ k \notin dropped =>
                /\ queue[i].type = "delete" <=> indexer[k] = Nil
                /\ kind = "rdmaingress" /\ queue[i].type = "set" => queue[i].obj = indexer[k]
    ELSE IF cur # Nil /\ cur.item.key = k
    THEN k \notin dropped =>
           /\ cur.item.type = "delete" <=> indexer[k] = Nil
           /\ cur.item.type = "set" => cur.obj = indexer[k]
    ELSE k \notin dropped => applied[k] = indexer[k]

\* The datastore holds what a restarted process would make of the objects last
\* handled, whatever they looked like before and in whatever order they came,
\* unless a handler has gone on from what it cannot undo (Drifts).
StoreAsIfRestarted ==
  ~drift =>
    /\ DOMAIN store = UNION {DOMAIN Contents(k, applied[k]) : k \in Key}
    /\ \A k \in Key : \A key \in DOMAIN Contents(k, applied[k]) :
         store[key] = Contents(k, applied[k])[key]

\* A worker only dies of an object the informer has seen deleted, never of
\* one that merely lags behind, or of one no handler is prepared for.
DiesOfDeletedOnly ==
  [][up /\ ~up' /\ changes' = changes =>
       \/ cur.obj # Nil /\ Unhandled(kind, cur.item.key, cur.obj)
       \/ \E i \in DOMAIN queue :
            queue[i].key = cur.item.key /\ queue[i].type = "delete"]_vars

\* When the cluster stops changing, the process stops dying and every object of
\* the cluster, and no other, has been handled; unless one is left that no
\* handler is prepared for, which keeps the process from serving any other.
Settles ==
  \/ <>[](up /\ \A k \in Key : k \in dropped \/ applied[k] = cluster[k])
  \/ <>[](\E k \in Key : cluster[k] # Nil /\ Unhandled(kind, k, cluster[k]))
==============================================================================
