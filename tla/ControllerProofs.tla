--------------------------- MODULE ControllerProofs ---------------------------
(***************************************************************************)
(* The last item of a name decides, for every kind of controller, any      *)
(* objects and any number of changes.  With the types LastItemDecides is   *)
(* inductive: it says where the present state of an object is on its way   *)
(* from the informer to the datastore, and each step moves one object one  *)
(* place on.                                                               *)
(*                                                                         *)
(* And the datastore is what a restarted process would make of the objects *)
(* last handled.  The proof goes key by key: whatever was there, the       *)
(* operations of a set item end with what they make of an empty datastore  *)
(* (Agree), and those of a delete item remove all that the object last     *)
(* handled made, since the item of an RdmaIngress carries that object      *)
(* (UndoInv).                                                              *)
(***************************************************************************)
EXTENDS Controller, FiniteSetTheorems, SequenceTheorems, TLAPS

\* i is the last waiting item of k.
IsLast(q, i, k) ==
  /\ i \in DOMAIN q
  /\ q[i].key = k
  /\ \A j \in DOMAIN q : q[j].key = k => j <= i

\* An item, or what the worker has fetched for it, tells the state of k.
ItemTells(item, k) ==
  k \notin dropped =>
    /\ item.type = "delete" <=> indexer[k] = Nil
    /\ kind = "rdmaingress" /\ item.type = "set" => item.obj = indexer[k]

CurTells(k) ==
  k \notin dropped =>
    /\ cur.item.type = "delete" <=> indexer[k] = Nil
    /\ cur.item.type = "set" => cur.obj = indexer[k]

\* No item of k waits.
NoneWaits(q, k) == \A i \in DOMAIN q : q[i].key # k

InHand(k) == cur # Nil /\ cur.item.key = k

\* LastItemDecides for one name, by where its state is.
Decided(k) ==
  \/ \E i \in DOMAIN queue : IsLast(queue, i, k) /\ ItemTells(queue[i], k)
  \/ NoneWaits(queue, k) /\ InHand(k) /\ CurTells(k)
  \/ NoneWaits(queue, k) /\ ~InHand(k) /\ (k \notin dropped => applied[k] = indexer[k])

\* LastItemDecides says so of every name.
LEMMA DecidedMeans == LastItemDecides <=> \A k \in Key : Decided(k)
<1> SUFFICES ASSUME NEW k \in Key
             PROVE  Decided(k) <=>
                      IF Waiting(k) # {}
                      THEN \E i \in Waiting(k) :
                             (\A j \in Waiting(k) : j <= i) /\ ItemTells(queue[i], k)
                      ELSE IF cur # Nil /\ cur.item.key = k THEN CurTells(k)
                      ELSE k \notin dropped => applied[k] = indexer[k]
  BY DEF LastItemDecides, ItemTells, CurTells
<1>1. Waiting(k) = {} <=> NoneWaits(queue, k)
  BY DEF Waiting, NoneWaits
<1>2. \A i : IsLast(queue, i, k) <=> i \in Waiting(k) /\ \A j \in Waiting(k) : j <= i
  BY DEF Waiting, IsLast
<1>3. \A i : IsLast(queue, i, k) => ~NoneWaits(queue, k)
  BY DEF IsLast, NoneWaits
<1> QED BY <1>1, <1>2, <1>3 DEF Decided, InHand, Waiting

\* The inductive invariant.
ControllerInv == TypeOK /\ \A k \in Key : Decided(k)

-----------------------------------------------------------------------------
(* Queues.                                                                 *)

\* What an item is made of.
LEMMA ItemParts ==
  ASSUME NEW k, NEW type, NEW o
  PROVE  /\ Item(k, type, o).key = k
         /\ Item(k, type, o).type = type
         /\ kind = "rdmaingress" => Item(k, type, o).obj = o
BY DEF Item

\* What the callbacks make of an object is an item.
LEMMA ItemType ==
  ASSUME TypeOK, NEW k \in Key, NEW type \in {"set", "delete"}, NEW o \in Object
  PROVE  Item(k, type, o) \in EventItem
<1>1. Nil \in Object
  BY DEF Object, AnyObject, Key
<1> QED BY <1>1 DEF Item, EventItem, AnyItem, Object, Key

\* A new item at the end is the last of its name and changes no other's.
LEMMA AppendLast ==
  ASSUME NEW S, NEW q \in Seq(S), NEW e \in S
  PROVE  /\ IsLast(Append(q, e), Len(q) + 1, e.key)
         /\ Append(q, e)[Len(q) + 1] = e
         /\ \A k, i : k # e.key /\ IsLast(q, i, k) =>
              IsLast(Append(q, e), i, k) /\ Append(q, e)[i] = q[i]
         /\ \A k : k # e.key /\ NoneWaits(q, k) => NoneWaits(Append(q, e), k)
<1> DEFINE r == Append(q, e)
<1>1. /\ r \in Seq(S) /\ Len(r) = Len(q) + 1 /\ Len(q) \in Nat
      /\ r[Len(q) + 1] = e /\ \A i \in 1 .. Len(q) : r[i] = q[i]
  BY AppendProperties
<1>2. DOMAIN q = 1 .. Len(q) /\ DOMAIN r = 1 .. (Len(q) + 1)
  BY <1>1
<1> HIDE DEF r
<1>3. \A i \in DOMAIN r : i = Len(q) + 1 \/ (i \in DOMAIN q /\ r[i] = q[i])
  BY <1>1, <1>2
<1>4. IsLast(r, Len(q) + 1, e.key)
  BY <1>1, <1>2 DEF IsLast
<1>5. ASSUME NEW k, NEW i, k # e.key, IsLast(q, i, k)
      PROVE  IsLast(r, i, k) /\ r[i] = q[i]
  BY <1>1, <1>2, <1>3, <1>5 DEF IsLast
<1>6. ASSUME NEW k, k # e.key, NoneWaits(q, k) PROVE NoneWaits(r, k)
  BY <1>1, <1>3, <1>6 DEF NoneWaits
<1> QED BY <1>1, <1>4, <1>5, <1>6 DEF r

\* Without its head a queue has the same last items, one place on, but for a
\* name whose last item the head was.
LEMMA TailLast ==
  ASSUME NEW S, NEW q \in Seq(S), q # <<>>
  PROVE  /\ \A k, i : IsLast(q, i, k) =>
              \/ i - 1 \in DOMAIN Tail(q) /\ IsLast(Tail(q), i - 1, k) /\ Tail(q)[i - 1] = q[i]
              \/ q[i] = Head(q) /\ k = Head(q).key /\ NoneWaits(Tail(q), k)
         /\ \A k : NoneWaits(q, k) => k # Head(q).key /\ NoneWaits(Tail(q), k)
<1> DEFINE r == Tail(q)
<1>1. /\ r \in Seq(S) /\ Len(r) = Len(q) - 1 /\ Len(q) \in Nat \ {0} /\ Head(q) = q[1]
      /\ \A i \in 1 .. (Len(q) - 1) : r[i] = q[i + 1]
  BY HeadTailProperties
<1>2. DOMAIN q = 1 .. Len(q) /\ DOMAIN r = 1 .. (Len(q) - 1)
  BY <1>1
<1> HIDE DEF r
<1>3. \A i \in DOMAIN r : i + 1 \in DOMAIN q /\ r[i] = q[i + 1]
  BY <1>1, <1>2
<1>4. ASSUME NEW k, NEW i, IsLast(q, i, k)
      PROVE  \/ i - 1 \in DOMAIN r /\ IsLast(r, i - 1, k) /\ r[i - 1] = q[i]
             \/ q[i] = Head(q) /\ k = Head(q).key /\ NoneWaits(r, k)
  <2>1. CASE i = 1
    <3>1. \A j \in DOMAIN r : r[j].key # k
      BY <1>2, <1>3, <1>4, <2>1 DEF IsLast
    <3> QED BY <1>1, <1>4, <2>1, <3>1 DEF IsLast, NoneWaits
  <2>2. CASE i # 1
    <3>1. i \in 2 .. Len(q)
      BY <1>1, <1>2, <1>4, <2>2 DEF IsLast
    <3>2. i - 1 \in DOMAIN r /\ r[i - 1] = q[i]
      <4>1. i - 1 \in 1 .. (Len(q) - 1) /\ (i - 1) + 1 = i
        BY <1>1, <3>1
      <4> QED BY <1>2, <1>3, <4>1
    <3>3. \A j \in DOMAIN r : r[j].key = k => j <= i - 1
      BY <1>1, <1>2, <1>3, <1>4, <3>1 DEF IsLast
    <3> QED BY <1>4, <3>2, <3>3 DEF IsLast
  <2> QED BY <2>1, <2>2
<1>5. ASSUME NEW k, NoneWaits(q, k) PROVE k # Head(q).key /\ NoneWaits(r, k)
  BY <1>1, <1>2, <1>3, <1>5 DEF NoneWaits
<1> QED BY <1>4, <1>5 DEF r

\* A sequence of a set without repetition has every element of the set.
LEMMA SequencesOfSet ==
  ASSUME NEW S, IsFiniteSet(S), NEW f \in SetToSeqs(S)
  PROVE  /\ f \in Seq(S)
         /\ \A x \in S : \E i \in DOMAIN f : f[i] = x
         /\ \A i, j \in DOMAIN f : f[i] = f[j] => i = j
<1> DEFINE D == 1 .. Cardinality(S)
<1> DEFINE R == {f[i] : i \in D}
<1>1. f \in [D -> S] /\ \A i, j \in D : i # j => f[i] # f[j]
  BY DEF SetToSeqs
<1>2. Cardinality(S) \in Nat
  BY FS_CardinalityType
<1>3. IsFiniteSet(D) /\ Cardinality(D) = Cardinality(S)
  BY <1>2, FS_Interval
<1>4. f \in Surjection(D, R) /\ f \in Injection(D, R)
  BY <1>1 DEF Surjection, Injection, IsInjective
<1>5. Cardinality(R) = Cardinality(S)
  BY <1>3, <1>4, FS_Surjection
<1>6. R = S
  BY <1>1, <1>5, FS_Subset
<1>7. f \in Seq(S)
  BY <1>1, <1>2, IsASeq
<1> QED BY <1>1, <1>6, <1>7

-----------------------------------------------------------------------------
(* Types.                                                                  *)

\* The objects of a name, and no object, are objects.
LEMMA ObjectHasNil == \A k \in Key : ObjectOf(k) \subseteq Object /\ Nil \in ObjectOf(k)
BY DEF ObjectOf, Object, AnyObject, Key

\* What the worker has in hand is something.
LEMMA CurIsNotNil ==
  ASSUME kind \in Kind
  PROVE  Nil \notin [item : EventItem, obj : Object]
BY NilAssumption DEF EventItem, Object

\* The types hold at the start.
LEMMA TypeInit == Init => TypeOK
<1> SUFFICES ASSUME Init PROVE TypeOK
  OBVIOUS
<1>1. cluster \in [Key -> Object]
  BY ObjectHasNil DEF Init
<1>2. Nothing \in [Key -> Object]
  BY ObjectHasNil DEF Nothing
<1>3. <<>> \in Seq(EventItem)
  OBVIOUS
<1>4. up \in BOOLEAN /\ drift \in BOOLEAN /\ dropped \subseteq Key
  BY Zenon DEF Init
<1>5. changes \in 0 .. MaxChange
  BY MaxChangeAssumption DEF Init
<1>6. kind \in Kind /\ indexer = Nothing /\ queue = <<>> /\ cur = Nil /\ applied = Nothing
  BY DEF Init
<1> QED BY <1>1, <1>2, <1>3, <1>4, <1>5, <1>6 DEF TypeOK

\* The kind of a controller is for ever.
LEMMA KindStays == [Next]_vars => kind' = kind
BY DEF Next, vars, Change, Inform, InformTombstone, InformTouched, StartController,
       StartRdmaController, Start, Worker, Fetch, FetchRdmaIngress, HandleItem, HandlePanics,
       Dies

\* The queue a process starts with has one item for each object listed.
LEMMA StartQueue ==
  ASSUME TypeOK, Start
  PROVE  /\ queue' \in Seq(EventItem)
         /\ \A i \in DOMAIN queue' :
              /\ queue'[i].key \in Key
              /\ queue'[i].type = "set"
              /\ cluster[queue'[i].key] # Nil
              /\ kind = "rdmaingress" => queue'[i].obj = cluster[queue'[i].key]
         /\ \A k \in Key : cluster[k] # Nil => \E i \in DOMAIN queue' : IsLast(queue', i, k)
<1> DEFINE Listed == {k \in Key : cluster[k] # Nil}
<1>1. PICK keys \in SetToSeqs(Listed) :
        queue' = [i \in DOMAIN keys |-> Item(keys[i], "set", cluster[keys[i]])]
  BY DEF Start
<1>2. IsFiniteSet(Listed)
  <2>1. IsFiniteSet(Key)
    BY NamesAssumption DEF Key, TypeOK
  <2> QED BY <2>1, FS_Subset
<1>3. /\ keys \in Seq(Listed)
      /\ \A k \in Listed : \E i \in DOMAIN keys : keys[i] = k
      /\ \A i, j \in DOMAIN keys : keys[i] = keys[j] => i = j
  BY <1>2, SequencesOfSet
<1> HIDE DEF Listed
<1>4. DOMAIN keys = 1 .. Len(keys) /\ Len(keys) \in Nat /\ \A i \in DOMAIN keys : keys[i] \in Listed
  BY <1>3
<1>5. \A k \in Listed : k \in Key /\ cluster[k] # Nil /\ cluster[k] \in Object
  BY DEF Listed, TypeOK
<1>6. ASSUME NEW i \in DOMAIN keys
      PROVE  /\ queue'[i] = Item(keys[i], "set", cluster[keys[i]])
             /\ queue'[i] \in EventItem
             /\ queue'[i].key = keys[i] /\ queue'[i].type = "set"
             /\ kind = "rdmaingress" => queue'[i].obj = cluster[keys[i]]
  BY <1>1, <1>4, <1>5, ItemType, ItemParts
<1>7. DOMAIN queue' = DOMAIN keys
  BY <1>1
<1>8. queue' \in Seq(EventItem)
  <2>1. queue' \in [1 .. Len(keys) -> EventItem]
    BY <1>1, <1>4, <1>6
  <2> QED BY <1>4, <2>1, IsASeq
<1>9. ASSUME NEW k \in Key, cluster[k] # Nil
      PROVE  \E i \in DOMAIN queue' : IsLast(queue', i, k)
  <2>1. PICK i \in DOMAIN keys : keys[i] = k
    BY <1>3, <1>9 DEF Listed
  <2>2. \A j \in DOMAIN queue' : queue'[j].key = k => j = i
    BY <1>3, <1>6, <1>7, <2>1
  <2>3. i <= i
    BY <1>4
  <2> QED BY <1>6, <1>7, <2>1, <2>2, <2>3 DEF IsLast
<1> QED BY <1>4, <1>5, <1>6, <1>7, <1>8, <1>9

\* The item a callback adds, as the object is then.
LEMMA EnqueueItem ==
  ASSUME TypeOK, NEW k \in Key, Enqueue(k)
  PROVE  \E e \in EventItem :
           /\ queue' = Append(queue, e)
           /\ e.key = k
           /\ e.type = "delete" <=> cluster[k] = Nil
           /\ kind = "rdmaingress" /\ e.type = "set" => e.obj = cluster[k]
<1>1. cluster[k] \in Object /\ indexer[k] \in Object
  BY DEF TypeOK
<1>2. CASE cluster[k] = Nil
  BY <1>1, <1>2, ItemType, ItemParts DEF Enqueue
<1>3. CASE cluster[k] # Nil
  BY <1>1, <1>3, ItemType, ItemParts DEF Enqueue
<1> QED BY <1>2, <1>3

\* What the worker takes off the queue.
LEMMA FetchItem ==
  ASSUME TypeOK, Fetch \/ FetchRdmaIngress
  PROVE  /\ queue # <<>> /\ queue \in Seq(EventItem)
         /\ queue' = Tail(queue) /\ queue' \in Seq(EventItem)
         /\ Head(queue) \in EventItem /\ Head(queue).key \in Key
         /\ cur' \in [item : EventItem, obj : Object]
         /\ cur'.item = Head(queue)
         /\ kind # "rdmaingress" => cur'.obj = indexer[Head(queue).key]
         /\ kind = "rdmaingress" => cur'.obj = Head(queue).obj
<1>1. queue # <<>> /\ queue \in Seq(EventItem) /\ queue' = Tail(queue)
  BY DEF Fetch, FetchRdmaIngress, TypeOK
<1>2. Head(queue) \in EventItem /\ queue' \in Seq(EventItem)
  BY <1>1, HeadTailProperties
<1>3. Head(queue).key \in Key /\ Head(queue).obj \in Object
  BY <1>2 DEF EventItem, AnyItem, Object, Key
<1>4. indexer[Head(queue).key] \in Object
  BY <1>3 DEF TypeOK
<1> QED BY <1>1, <1>2, <1>3, <1>4 DEF Fetch, FetchRdmaIngress

\* Each step keeps the types.
LEMMA TypeStep == TypeOK /\ [Next]_vars => TypeOK'
<1> SUFFICES ASSUME TypeOK, [Next]_vars PROVE TypeOK'
  OBVIOUS
<1>1. kind' = kind /\ Key' = Key /\ Object' = Object /\ EventItem' = EventItem
      /\ Nothing' = Nothing
  <2>1. kind' = kind
    BY KindStays
  <2>2. Key' = Key /\ Object' = Object /\ EventItem' = EventItem
    BY <2>1 DEF Key, Object, EventItem
  <2> QED BY <2>1, <2>2 DEF Nothing
<1>2. Nothing \in [Key -> Object]
  BY ObjectHasNil DEF Nothing
<1> USE <1>1, MaxChangeAssumption
<1>3. ASSUME NEW k \in Key, NEW o \in ObjectOf(k), Change(k, o) PROVE TypeOK'
  <2>1. cluster' \in [Key -> Object]
    BY <1>3, ObjectHasNil DEF Change, TypeOK
  <2> QED BY <1>3, <2>1 DEF Change, TypeOK, processVars
<1>4. ASSUME NEW k \in Key, Inform(k) PROVE TypeOK'
  <2>1. queue' \in Seq(EventItem)
    BY <1>4, EnqueueItem, AppendProperties DEF Inform, TypeOK
  <2>2. indexer' \in [Key -> Object] /\ dropped' \subseteq Key
    BY <1>4 DEF Inform, TypeOK
  <2> QED BY <1>4, <2>1, <2>2 DEF Inform, TypeOK
<1>5. ASSUME NEW k \in Key, InformTombstone(k) PROVE TypeOK'
  <2>1. indexer' \in [Key -> Object] /\ dropped' \subseteq Key
    BY <1>5, ObjectHasNil DEF InformTombstone, TypeOK
  <2> QED BY <1>5, <2>1 DEF InformTombstone, TypeOK
<1>6. ASSUME NEW k \in Key, InformTouched(k) PROVE TypeOK'
  <2>1. Item(k, "set", indexer[k]) \in EventItem
    BY ItemType DEF TypeOK
  <2>2. queue' \in Seq(EventItem)
    BY <1>6, <2>1, AppendProperties DEF InformTouched, TypeOK
  <2> QED BY <1>6, <2>2 DEF InformTouched, TypeOK
<1>7. CASE StartController \/ StartRdmaController
  <2>1. Start
    BY <1>7 DEF StartController, StartRdmaController
  <2>2. queue' \in Seq(EventItem)
    BY <2>1, StartQueue
  <2> QED BY <2>1, <2>2 DEF Start, TypeOK
<1>8. CASE Fetch \/ FetchRdmaIngress
  <2>1. queue' \in Seq(EventItem) /\ cur' \in [item : EventItem, obj : Object]
    BY <1>8, FetchItem
  <2> QED BY <1>8, <2>1 DEF Fetch, FetchRdmaIngress, TypeOK
<1>9. CASE HandleItem
  <2>1. cur \in [item : EventItem, obj : Object] /\ cur.item.key \in Key /\ cur.obj \in Object
    BY <1>9 DEF HandleItem, TypeOK, EventItem, AnyItem, Key
  <2>2. applied' \in [Key -> Object]
    BY <1>9, <2>1, ObjectHasNil DEF HandleItem, TypeOK
  <2>3. drift' \in BOOLEAN
    BY <1>9 DEF HandleItem, TypeOK
  <2>4. up
    BY <1>9 DEF HandleItem, TypeOK
  <2> QED BY <1>9, <2>2, <2>3, <2>4 DEF HandleItem, TypeOK
<1>10. CASE HandlePanics \/ Dies
  <2>1. ProcessEnds /\ kind' = kind /\ cluster' = cluster /\ changes' \in 0 .. MaxChange
    BY <1>10 DEF HandlePanics, Dies, TypeOK
  <2>2. <<>> \in Seq(EventItem)
    OBVIOUS
  <2> QED BY <1>2, <2>1, <2>2 DEF ProcessEnds, TypeOK
<1>11. CASE UNCHANGED vars
  BY <1>11 DEF vars, processVars, TypeOK
<1> QED BY <1>3, <1>4, <1>5, <1>6, <1>7, <1>8, <1>9, <1>10, <1>11 DEF Next, Worker

-----------------------------------------------------------------------------
(* Each step keeps each name decided.                                      *)

\* A step that leaves a name, its items and what is in hand alone.
LEMMA Undisturbed ==
  ASSUME NEW k, Decided(k), kind' = kind,
         queue' = queue, cur' = cur, indexer'[k] = indexer[k], applied'[k] = applied[k],
         k \in dropped => k \in dropped'
  PROVE  Decided(k)'
BY DEF Decided, InHand, CurTells, ItemTells

\* A step that adds an item for one name leaves the others decided, and that one,
\* if the item tells what the informer has now.
LEMMA AppendedDecides ==
  ASSUME TypeOK, NEW k, Decided(k), kind' = kind,
         NEW e \in EventItem, queue' = Append(queue, e), cur' = cur, applied' = applied,
         k # e.key => indexer'[k] = indexer[k] /\ (k \in dropped => k \in dropped'),
         k = e.key =>
           /\ e.type = "delete" <=> indexer'[k] = Nil
           /\ kind = "rdmaingress" /\ e.type = "set" => e.obj = indexer'[k]
  PROVE  Decided(k)'
<1>1. queue \in Seq(EventItem)
  BY DEF TypeOK
<1> DEFINE r == Append(queue, e)
<1>2. /\ IsLast(r, Len(queue) + 1, e.key)
      /\ r[Len(queue) + 1] = e
      /\ \A n, i : n # e.key /\ IsLast(queue, i, n) => IsLast(r, i, n) /\ r[i] = queue[i]
      /\ \A n : n # e.key /\ NoneWaits(queue, n) => NoneWaits(r, n)
  BY <1>1, AppendLast
<1> SUFFICES ASSUME queue' = r PROVE Decided(k)'
  OBVIOUS
<1> HIDE DEF r
<1>3. CASE k = e.key
  BY <1>2, <1>3 DEF Decided, ItemTells, IsLast
<1>4. CASE k # e.key
  <2>1. CASE \E i \in DOMAIN queue : IsLast(queue, i, k) /\ ItemTells(queue[i], k)
    BY <1>2, <1>4, <2>1 DEF Decided, ItemTells, IsLast
  <2>2. CASE NoneWaits(queue, k)
    <3>1. NoneWaits(r, k) /\ \A i \in DOMAIN queue : ~IsLast(queue, i, k)
      BY <1>2, <1>4, <2>2 DEF IsLast, NoneWaits
    <3>2. InHand(k)' = InHand(k) /\ (CurTells(k) => CurTells(k)')
      BY <1>4 DEF InHand, CurTells
    <3> QED BY <1>4, <3>1, <3>2 DEF Decided
  <2> QED BY <2>1, <2>2 DEF Decided
<1> QED BY <1>3, <1>4

\* A fetched item is in hand if it was the last of its name.
LEMMA FetchDecides ==
  ASSUME TypeOK, NEW k \in Key, Decided(k), Fetch \/ FetchRdmaIngress
  PROVE  Decided(k)'
<1> DEFINE h == Head(queue)
<1>1. /\ queue \in Seq(EventItem) /\ queue # <<>> /\ queue' = Tail(queue)
      /\ cur' \in [item : EventItem, obj : Object] /\ cur'.item = h
      /\ kind # "rdmaingress" => cur'.obj = indexer[h.key]
      /\ kind = "rdmaingress" => cur'.obj = h.obj
  BY FetchItem
<1>2. cur = Nil /\ cur' # Nil /\ kind' = kind /\ indexer' = indexer /\ applied' = applied
      /\ dropped' = dropped
  <2>1. cur' # Nil
    BY <1>1, CurIsNotNil DEF TypeOK
  <2> QED BY <2>1 DEF Fetch, FetchRdmaIngress
<1>3. /\ \A i : IsLast(queue, i, k) =>
           \/ i - 1 \in DOMAIN queue' /\ IsLast(queue', i - 1, k) /\ queue'[i - 1] = queue[i]
           \/ queue[i] = h /\ k = h.key /\ NoneWaits(queue', k)
      /\ NoneWaits(queue, k) => k # h.key /\ NoneWaits(queue', k)
  BY <1>1, TailLast
<1> HIDE DEF h
<1>4. CASE \E i \in DOMAIN queue : IsLast(queue, i, k) /\ ItemTells(queue[i], k)
  <2>1. PICK i \in DOMAIN queue : IsLast(queue, i, k) /\ ItemTells(queue[i], k)
    BY <1>4
  <2>2. CASE i - 1 \in DOMAIN queue' /\ IsLast(queue', i - 1, k) /\ queue'[i - 1] = queue[i]
    BY <1>2, <2>1, <2>2 DEF Decided, ItemTells
  <2>3. CASE queue[i] = h /\ k = h.key /\ NoneWaits(queue', k)
    <3>1. InHand(k)'
      BY <1>1, <1>2, <2>3 DEF InHand
    <3>2. CurTells(k)'
      BY <1>1, <1>2, <2>1, <2>3 DEF ItemTells, CurTells
    <3> QED BY <2>3, <3>1, <3>2 DEF Decided
  <2> QED BY <1>3, <2>1, <2>2, <2>3
<1>5. CASE NoneWaits(queue, k)
  <2>1. ~InHand(k) /\ ~InHand(k)'
    BY <1>1, <1>2, <1>3, <1>5 DEF InHand
  <2>2. k \notin dropped => applied[k] = indexer[k]
    BY <1>5, <2>1 DEF Decided, IsLast, NoneWaits
  <2> QED BY <1>2, <1>3, <1>5, <2>1, <2>2 DEF Decided
<1> QED BY <1>4, <1>5 DEF Decided

\* What is handled is applied.
LEMMA HandleDecides ==
  ASSUME TypeOK, NEW k \in Key, Decided(k), HandleItem
  PROVE  Decided(k)'
<1>1. /\ cur # Nil /\ cur' = Nil /\ queue' = queue /\ indexer' = indexer /\ dropped' = dropped
      /\ kind' = kind
      /\ applied' = [applied EXCEPT ![cur.item.key] =
                       IF cur.item.type = "set" THEN cur.obj ELSE Nil]
  BY DEF HandleItem
<1>2. cur.item.type \in {"set", "delete"} /\ applied \in [Key -> Object]
  BY <1>1 DEF TypeOK, EventItem, AnyItem
<1>3. CASE \E i \in DOMAIN queue : IsLast(queue, i, k) /\ ItemTells(queue[i], k)
  BY <1>1, <1>3 DEF Decided, ItemTells
<1>4. CASE NoneWaits(queue, k) /\ InHand(k) /\ CurTells(k)
  BY <1>1, <1>2, <1>4 DEF Decided, InHand, CurTells
<1>5. CASE NoneWaits(queue, k) /\ ~InHand(k) /\ (k \notin dropped => applied[k] = indexer[k])
  BY <1>1, <1>2, <1>5 DEF Decided, InHand
<1> QED BY <1>3, <1>4, <1>5 DEF Decided

\* A process that starts has an item for every object, and nothing of the others.
LEMMA StartDecides ==
  ASSUME TypeOK, NEW k \in Key, Start
  PROVE  Decided(k)'
<1>1. /\ cur' = Nil /\ indexer' = cluster /\ applied' = Nothing /\ kind' = kind
  BY DEF Start, TypeOK
<1>2. CASE cluster[k] = Nil
  <2>1. NoneWaits(queue', k)
    BY <1>2, StartQueue DEF NoneWaits
  <2>2. applied'[k] = indexer'[k] /\ ~InHand(k)'
    BY <1>1, <1>2 DEF Nothing, InHand
  <2> QED BY <2>1, <2>2 DEF Decided
<1>3. CASE cluster[k] # Nil
  <2>1. PICK i \in DOMAIN queue' : IsLast(queue', i, k)
    BY <1>3, StartQueue
  <2>2. ItemTells(queue[i], k)'
    BY <1>1, <1>3, <2>1, StartQueue DEF ItemTells, IsLast
  <2> QED BY <2>1, <2>2 DEF Decided
<1> QED BY <1>2, <1>3

\* A process that is down has nothing, and has applied nothing.
LEMMA DownDecides ==
  ASSUME NEW k \in Key, Key' = Key, indexer' = Nothing', applied' = Nothing', queue' = <<>>,
         cur' = Nil
  PROVE  Decided(k)'
<1>1. NoneWaits(queue', k) /\ ~InHand(k)'
  BY DEF NoneWaits, InHand
<1> QED BY <1>1 DEF Decided

\* Each step leaves the state of a name somewhere on its way.
LEMMA DecidedStep ==
  ASSUME ControllerInv, [Next]_vars, NEW k \in Key
  PROVE  Decided(k)'
<1>1. TypeOK /\ Decided(k) /\ kind' = kind
  BY KindStays DEF ControllerInv
<1> USE <1>1
<1>2. ASSUME NEW n \in Key, NEW o \in ObjectOf(n), Change(n, o) PROVE Decided(k)'
  BY <1>2, Undisturbed DEF Change, processVars
<1>3. ASSUME NEW n \in Key, Inform(n) PROVE Decided(k)'
  <2>1. PICK e \in EventItem :
          /\ queue' = Append(queue, e)
          /\ e.key = n
          /\ e.type = "delete" <=> cluster[n] = Nil
          /\ kind = "rdmaingress" /\ e.type = "set" => e.obj = cluster[n]
    BY <1>3, EnqueueItem DEF Inform
  <2>2. /\ indexer'[n] = cluster[n] /\ cur' = cur /\ applied' = applied
        /\ k # n => indexer'[k] = indexer[k] /\ (k \in dropped => k \in dropped')
    BY <1>3 DEF Inform, TypeOK
  <2> QED BY <2>1, <2>2, AppendedDecides
<1>4. ASSUME NEW n \in Key, InformTombstone(n) PROVE Decided(k)'
  <2>1. CASE k # n
    BY <1>4, <2>1, Undisturbed DEF InformTombstone, TypeOK
  <2>2. CASE k = n
    <3>1. k \in dropped' /\ queue' = queue /\ cur' = cur /\ applied' = applied
      BY <1>4, <2>2 DEF InformTombstone
    <3> QED BY <3>1 DEF Decided, ItemTells, CurTells, InHand
  <2> QED BY <2>1, <2>2
<1>5. ASSUME NEW n \in Key, InformTouched(n) PROVE Decided(k)'
  <2> DEFINE e == Item(n, "set", indexer[n])
  <2>1. /\ e \in EventItem /\ e.key = n /\ e.type = "set"
        /\ kind = "rdmaingress" => e.obj = indexer[n]
    BY ItemType, ItemParts DEF TypeOK
  <2>2. /\ queue' = Append(queue, e) /\ cur' = cur /\ applied' = applied
        /\ indexer' = indexer /\ dropped' = dropped /\ indexer[n] # Nil
    BY <1>5 DEF InformTouched
  <2> HIDE DEF e
  <2> QED BY <2>1, <2>2, AppendedDecides
<1>6. CASE StartController \/ StartRdmaController
  BY <1>6, StartDecides DEF StartController, StartRdmaController
<1>7. CASE Fetch \/ FetchRdmaIngress
  BY <1>7, FetchDecides
<1>8. CASE HandleItem
  BY <1>8, HandleDecides
<1>9. CASE HandlePanics \/ Dies
  <2>1. ProcessEnds /\ Key' = Key
    BY <1>9 DEF HandlePanics, Dies, Key
  <2>2. Nothing' = Nothing
    BY <2>1 DEF Nothing
  <2> QED BY <2>1, <2>2, DownDecides DEF ProcessEnds
<1>10. CASE UNCHANGED vars
  BY <1>10, Undisturbed DEF vars, processVars
<1> QED BY <1>2, <1>3, <1>4, <1>5, <1>6, <1>7, <1>8, <1>9, <1>10 DEF Next, Worker

\* The inductive invariant holds at the start ...
LEMMA ControllerInit == Init => ControllerInv
<1> SUFFICES ASSUME Init, NEW k \in Key PROVE Decided(k)
  BY TypeInit DEF ControllerInv
<1>1. NoneWaits(queue, k) /\ ~InHand(k) /\ applied[k] = indexer[k]
  BY DEF Init, NoneWaits, InHand, Nothing
<1> QED BY <1>1 DEF Decided

\* ... and is kept.
LEMMA ControllerStep == ControllerInv /\ [Next]_vars => ControllerInv'
<1> SUFFICES ASSUME ControllerInv, [Next]_vars PROVE ControllerInv'
  OBVIOUS
<1>1. TypeOK' /\ Key' = Key
  BY TypeStep, KindStays DEF ControllerInv, Key
<1>2. \A k \in Key : Decided(k)'
  BY DecidedStep
<1> QED BY <1>1, <1>2 DEF ControllerInv

\* Every reachable state is well typed, and a process that is down has nothing.
THEOREM ControllerTypes == Spec => []TypeOK
<1> QED BY TypeInit, TypeStep, PTL DEF Spec

\* Whatever the informer skips, repeats or learns late, and however often the
\* process dies (controller.go:120-183, rdmaingresscontroller.go:160-200): the
\* last item of a name that waits, or what the worker has in hand or has
\* handled, is the object as the informer knows it.
THEOREM LastItemAlwaysDecides == Spec => []LastItemDecides
<1>1. Spec => []ControllerInv
  BY ControllerInit, ControllerStep, PTL DEF Spec
<1>2. ControllerInv => LastItemDecides
  BY DecidedMeans DEF ControllerInv
<1> QED BY <1>1, <1>2, PTL

-----------------------------------------------------------------------------
(* What the worker may die of.                                             *)

\* A delete of k waits.
DeleteWaits(q, k) == \E i \in DOMAIN q : q[i].key = k /\ q[i].type = "delete"

\* The items of the six controllers are never dropped, those of RdmaIngresses
\* have their object with them; and where an object was looked up and not found,
\* its delete waits.
LookupInv ==
  /\ kind # "rdmaingress" => dropped = {}
  /\ kind = "rdmaingress" => \A i \in DOMAIN queue : queue[i].type = "set" => queue[i].obj # Nil
  /\ cur # Nil /\ cur.item.type = "set" /\ cur.obj = Nil => DeleteWaits(queue, cur.item.key)

\* At the start nothing is in hand.
LEMMA LookupInit == Init => LookupInv
BY DEF Init, LookupInv

\* A new item that has its object leaves what waits waiting.
LEMMA AppendLooksUp ==
  ASSUME TypeOK, LookupInv, NEW e \in EventItem, queue' = Append(queue, e), kind' = kind,
         cur' = cur, kind # "rdmaingress" => dropped' = {},
         kind = "rdmaingress" /\ e.type = "set" => e.obj # Nil
  PROVE  LookupInv'
<1>1. /\ queue \in Seq(EventItem) /\ Len(queue) \in Nat
      /\ DOMAIN queue = 1 .. Len(queue) /\ DOMAIN queue' = 1 .. (Len(queue) + 1)
      /\ queue'[Len(queue) + 1] = e /\ \A i \in DOMAIN queue : queue'[i] = queue[i]
  BY AppendProperties DEF TypeOK
<1>2. \A i \in DOMAIN queue' : i = Len(queue) + 1 \/ i \in DOMAIN queue
  BY <1>1
<1>3. \A i \in DOMAIN queue : i \in DOMAIN queue'
  BY <1>1
<1>4. ASSUME NEW k, DeleteWaits(queue, k) PROVE DeleteWaits(queue', k)
  BY <1>1, <1>3, <1>4 DEF DeleteWaits
<1>5. \A i \in DOMAIN queue' : kind = "rdmaingress" /\ queue'[i].type = "set" => queue'[i].obj # Nil
  BY <1>1, <1>2 DEF LookupInv
<1> QED BY <1>4, <1>5 DEF LookupInv

\* What is not found any more was deleted, so the last item of its name, which
\* is not the one in hand, is a delete.
LEMMA FetchLooksUp ==
  ASSUME ControllerInv, LookupInv, Fetch \/ FetchRdmaIngress
  PROVE  LookupInv'
<1> DEFINE h == Head(queue)
<1>1. /\ queue \in Seq(EventItem) /\ queue # <<>> /\ queue' = Tail(queue) /\ h.key \in Key
      /\ cur'.item = h
      /\ kind # "rdmaingress" => cur'.obj = indexer[h.key]
      /\ kind = "rdmaingress" => cur'.obj = h.obj
  BY FetchItem DEF ControllerInv
<1>2. cur = Nil /\ kind' = kind /\ dropped' = dropped
  BY DEF Fetch, FetchRdmaIngress
<1>3. /\ Len(queue) \in Nat \ {0} /\ h = queue[1] /\ DOMAIN queue = 1 .. Len(queue)
      /\ DOMAIN queue' = 1 .. (Len(queue) - 1)
      /\ \A i \in 1 .. (Len(queue) - 1) : queue'[i] = queue[i + 1]
  BY <1>1, HeadTailProperties
<1> HIDE DEF h
<1>4. \A i \in DOMAIN queue' : i + 1 \in DOMAIN queue /\ queue'[i] = queue[i + 1]
  BY <1>3
<1>5. kind = "rdmaingress" => \A i \in DOMAIN queue' : queue'[i].type = "set" => queue'[i].obj # Nil
  BY <1>4 DEF LookupInv
<1>6. ASSUME h.type = "set", cur'.obj = Nil PROVE DeleteWaits(queue', h.key)
  <2>1. kind # "rdmaingress"
    BY <1>1, <1>3, <1>6 DEF LookupInv
  <2>2. indexer[h.key] = Nil /\ h.key \notin dropped
    BY <1>1, <1>6, <2>1 DEF LookupInv
  <2>3. PICK i \in DOMAIN queue : IsLast(queue, i, h.key) /\ ItemTells(queue[i], h.key)
    <3>1. ~NoneWaits(queue, h.key)
      BY <1>3 DEF NoneWaits
    <3> QED BY <1>1, <3>1 DEF ControllerInv, Decided
  <2>4. queue[i].type = "delete" /\ queue[i].key = h.key
    BY <2>2, <2>3 DEF ItemTells, IsLast
  <2>5. i # 1
    BY <1>3, <1>6, <2>4
  <2>6. i - 1 \in DOMAIN queue' /\ queue'[i - 1] = queue[i]
    <3>1. i - 1 \in 1 .. (Len(queue) - 1) /\ (i - 1) + 1 = i
      BY <1>3, <2>5
    <3> QED BY <1>3, <3>1
  <2> QED BY <2>4, <2>6 DEF DeleteWaits
<1> QED BY <1>1, <1>2, <1>5, <1>6 DEF LookupInv

\* The lookups keep finding what is there, or its delete to come.
LEMMA LookupStep == ControllerInv /\ LookupInv /\ [Next]_vars => LookupInv'
<1> SUFFICES ASSUME ControllerInv, LookupInv, [Next]_vars PROVE LookupInv'
  OBVIOUS
<1>1. TypeOK /\ kind' = kind
  BY KindStays DEF ControllerInv
<1> USE <1>1
<1>2. ASSUME NEW k \in Key, NEW o \in ObjectOf(k), Change(k, o) PROVE LookupInv'
  BY <1>2 DEF Change, processVars, LookupInv
<1>3. ASSUME NEW k \in Key, Inform(k) PROVE LookupInv'
  <2>1. PICK e \in EventItem :
          /\ queue' = Append(queue, e)
          /\ e.type = "delete" <=> cluster[k] = Nil
          /\ kind = "rdmaingress" /\ e.type = "set" => e.obj = cluster[k]
    BY <1>3, EnqueueItem DEF Inform
  <2>2. cur' = cur /\ (kind # "rdmaingress" => dropped' = {})
    BY <1>3 DEF Inform, LookupInv
  <2> QED BY <2>1, <2>2, AppendLooksUp
<1>4. ASSUME NEW k \in Key, InformTombstone(k) PROVE LookupInv'
  BY <1>4 DEF InformTombstone, LookupInv
<1>5. ASSUME NEW k \in Key, InformTouched(k) PROVE LookupInv'
  <2> DEFINE e == Item(k, "set", indexer[k])
  <2>1. e \in EventItem /\ (kind = "rdmaingress" => e.obj = indexer[k])
    BY ItemType, ItemParts DEF TypeOK
  <2>2. queue' = Append(queue, e) /\ cur' = cur /\ dropped' = dropped /\ indexer[k] # Nil
    BY <1>5 DEF InformTouched
  <2> HIDE DEF e
  <2> QED BY <2>1, <2>2, AppendLooksUp DEF LookupInv
<1>6. CASE StartController \/ StartRdmaController
  <2>1. Start
    BY <1>6 DEF StartController, StartRdmaController
  <2>2. cur' = Nil /\ dropped' = dropped
    BY <2>1 DEF Start, TypeOK
  <2> QED BY <2>1, <2>2, StartQueue DEF LookupInv
<1>7. CASE Fetch \/ FetchRdmaIngress
  BY <1>7, FetchLooksUp
<1>8. CASE HandleItem
  BY <1>8 DEF HandleItem, LookupInv
<1>9. CASE HandlePanics \/ Dies
  BY <1>9 DEF HandlePanics, Dies, ProcessEnds, LookupInv
<1>10. CASE UNCHANGED vars
  BY <1>10 DEF vars, processVars, LookupInv
<1> QED BY <1>2, <1>3, <1>4, <1>5, <1>6, <1>7, <1>8, <1>9, <1>10 DEF Next, Worker

\* The process only ends of itself over an object that no handler is prepared
\* for, or one whose delete is already waiting behind (the type assertion of
\* the handlers, and processItem): never over one that merely lags behind.
THEOREM DiesOnlyOfDeleted == Spec => DiesOfDeletedOnly
<1> DEFINE OfDeleted ==
      up /\ ~up' /\ changes' = changes =>
        \/ cur.obj # Nil /\ Unhandled(kind, cur.item.key, cur.obj)
        \/ DeleteWaits(queue, cur.item.key)
<1>1. ControllerInv /\ LookupInv /\ [Next]_vars => [OfDeleted]_vars
  <2> SUFFICES ASSUME ControllerInv, LookupInv, Next, up, ~up', changes' = changes
               PROVE  \/ cur.obj # Nil /\ Unhandled(kind, cur.item.key, cur.obj)
                      \/ DeleteWaits(queue, cur.item.key)
    OBVIOUS
  <2>1. changes' # changes + 1
    BY DEF ControllerInv, TypeOK
  <2>2. HandlePanics
    BY <2>1 DEF Next, Change, processVars, Inform, InformTombstone, InformTouched, StartController,
                StartRdmaController, Start, Worker, Fetch, FetchRdmaIngress, HandleItem, Dies
  <2>3. cur # Nil /\ cur.item.type = "set"
        /\ (cur.obj # Nil => Unhandled(kind, cur.item.key, cur.obj))
    BY <2>2 DEF HandlePanics, Panics
  <2> QED BY <2>3 DEF LookupInv
<1>2. Spec => [](ControllerInv /\ LookupInv)
  BY ControllerInit, ControllerStep, LookupInit, LookupStep, PTL DEF Spec
<1>3. [OfDeleted]_vars => [up /\ ~up' /\ changes' = changes =>
         \/ cur.obj # Nil /\ Unhandled(kind, cur.item.key, cur.obj)
         \/ \E i \in DOMAIN queue :
              queue[i].key = cur.item.key /\ queue[i].type = "delete"]_vars
  BY DEF DeleteWaits
<1> QED BY <1>1, <1>2, <1>3, PTL DEF Spec, DiesOfDeletedOnly

-----------------------------------------------------------------------------
(* Induction on natural numbers, from the library's well-founded orders.   *)

\* A set of natural numbers has a least element.
LEMMA Least ==
  ASSUME NEW T \in SUBSET Nat, T # {}
  PROVE  \E x \in T : \A y \in T : x <= y
<1> DEFINE F == {0 .. n : n \in T}
<1>1. F \subseteq FiniteSubsetsOf(Nat) /\ F # {}
  <2>1. ASSUME NEW n \in T PROVE 0 .. n \in FiniteSubsetsOf(Nat)
    <3>1. IsFiniteSet(0 .. n)
      BY FS_Interval
    <3> QED BY <3>1 DEF FiniteSubsetsOf
  <2>2. F # {}
    OBVIOUS
  <2> QED BY <2>1, <2>2
<1>2. PICK m \in F : \A s \in F : <<s, m>> \notin StrictSubsetOrdering(Nat)
  BY <1>1, FS_StrictSubsetOrderingWellFounded, WFMin
<1>3. PICK x \in T : m = 0 .. x
  OBVIOUS
<1>4. ASSUME NEW y \in T, y < x PROVE FALSE
  <2>1. 0 .. y \in F
    OBVIOUS
  <2>2. <<0 .. y, 0 .. x>> \in StrictSubsetOrdering(Nat)
    BY <1>4 DEF StrictSubsetOrdering
  <2> QED BY <2>1, <2>2, <1>2, <1>3
<1> QED BY <1>4

\* Induction, on sets: what holds of 0 and is handed on holds up to any bound.
LEMMA InductionUpTo ==
  ASSUME NEW S, NEW k \in Nat, 0 \in S, \A n \in 0 .. (k - 1) : n \in S => n + 1 \in S
  PROVE  0 .. k \subseteq S
<1> SUFFICES ASSUME (0 .. k) \ S # {} PROVE FALSE
  OBVIOUS
<1>1. PICK x \in (0 .. k) \ S : \A y \in (0 .. k) \ S : x <= y
  <2>1. (0 .. k) \ S \in SUBSET Nat
    OBVIOUS
  <2> QED BY <2>1, Least
<1>2. x - 1 \in 0 .. (k - 1) /\ x - 1 \in S
  BY <1>1
<1> QED BY <1>1, <1>2

-----------------------------------------------------------------------------
(* Operations, applied one after the other.                                *)

\* The operations of a handler are a sequence.
IsList(ops) == Len(ops) \in Nat /\ DOMAIN ops = 1 .. Len(ops)

\* f has the maps between the operations, the first and the last included.
Course(kd, map, ops, f) ==
  /\ f[0] = map
  /\ \A n \in 1 .. Len(ops) : f[n] = Apply(kd, f[n - 1], ops[n])
  /\ ApplyAll(kd, map, ops) = f[Len(ops)]

\* The recursion of ApplyAll has a solution.
LEMMA ApplyAllSteps ==
  ASSUME NEW kd, NEW map, NEW ops, Len(ops) \in Nat
  PROVE  \E f : Course(kd, map, ops, f)
<1> DEFINE L == Len(ops)
           Eq(g, k) == g = [n \in 0 .. k |-> IF n = 0 THEN map ELSE Apply(kd, g[n - 1], ops[n])]
           S == {k \in 0 .. L : \E g : Eq(g, k)}
<1>1. 0 \in S
  <2> DEFINE g == [n \in 0 .. 0 |-> map]
  <2>1. g = [n \in 0 .. 0 |-> IF n = 0 THEN map ELSE Apply(kd, g[n - 1], ops[n])]
    OBVIOUS
  <2> HIDE DEF g
  <2> QED BY <2>1
<1>2. ASSUME NEW k \in 0 .. (L - 1), k \in S PROVE k + 1 \in S
  <2>1. PICK g : Eq(g, k)
    BY <1>2
  <2> DEFINE h == [n \in 0 .. (k + 1) |-> IF n <= k THEN g[n] ELSE Apply(kd, g[k], ops[k + 1])]
  <2>2. \A n \in 0 .. (k + 1) : h[n] = IF n = 0 THEN map ELSE Apply(kd, h[n - 1], ops[n])
    <3> TAKE n \in 0 .. (k + 1)
    <3>1. CASE n = 0
      BY <2>1, <3>1
    <3>2. CASE n \in 1 .. k
      <4>1. h[n] = g[n] /\ h[n - 1] = g[n - 1] /\ n # 0
        BY <3>2
      <4> QED BY <2>1, <3>2, <4>1
    <3>3. CASE n = k + 1
      <4>1. h[n] = Apply(kd, g[k], ops[k + 1]) /\ h[n - 1] = g[k] /\ n # 0
        BY <3>3
      <4> QED BY <3>3, <4>1
    <3> QED BY <3>1, <3>2, <3>3
  <2>3. DOMAIN h = 0 .. (k + 1) /\ h = [n \in 0 .. (k + 1) |-> h[n]]
    OBVIOUS
  <2> HIDE DEF h
  <2>4. Eq(h, k + 1)
    BY <2>2, <2>3
  <2> HIDE DEF Eq
  <2> QED BY <2>4
<1>3. \E g : Eq(g, L)
  <2> HIDE DEF S
  <2>1. 0 .. L \subseteq S
    BY <1>1, <1>2, InductionUpTo
  <2> QED BY <2>1 DEF S
<1> DEFINE f == CHOOSE g : Eq(g, L)
<1>4. ApplyAll(kd, map, ops) = f[L]
  BY DEF ApplyAll
<1>5. Eq(f, L)
  BY <1>3
<1> HIDE DEF f
<1>6. \A n \in 0 .. L : f[n] = IF n = 0 THEN map ELSE Apply(kd, f[n - 1], ops[n])
  BY <1>5
<1>7. Course(kd, map, ops, f)
  BY <1>4, <1>6 DEF Course
<1> QED BY <1>7

-----------------------------------------------------------------------------
(* What operations do to one key.                                          *)

\* f and g have the same under a key.
SameAt(key, f, g) ==
  /\ key \in DOMAIN f <=> key \in DOMAIN g
  /\ key \in DOMAIN f => f[key] = g[key]

\* What a handler puts has the fields that Same compares, and no other.
Plain(kd, v) ==
  /\ kd = "pod" => v = [ip |-> v.ip, nodeName |-> v.nodeName]
  /\ kd = "service" => v = [clusterIP |-> v.clusterIP, ports |-> v.ports]
  /\ kd = "endpoints" => v = [ipWithPorts |-> v.ipWithPorts]
  /\ kd = "configmap" => v = [value |-> v.value]
  /\ kd = "ingress" => v = [service |-> v.service, port |-> v.port]
  /\ kd = "rdmaingress" => v = [service |-> v.service, targetPort |-> v.targetPort]

\* What a map has was put there.
MadeOf(kd, w) == \E v : Plain(kd, v) /\ w = Stored(kd, v)

\* A list of operations that put something.
Puts(kd, ops) ==
  IsList(ops) /\ \A i \in DOMAIN ops : ops[i].value # Nil /\ Plain(kd, ops[i].value)

\* The effect of an operation under each key.
LEMMA ApplyAt ==
  ASSUME NEW kd, NEW map, NEW op, NEW key
  PROVE  /\ op.key # key \/ ~Takes(kd, map, op) => SameAt(key, Apply(kd, map, op), map)
         /\ op.key = key /\ Takes(kd, map, op) /\ op.value # Nil =>
              /\ key \in DOMAIN Apply(kd, map, op)
              /\ Apply(kd, map, op)[key] = Stored(kd, op.value)
         /\ op.key = key /\ op.value = Nil => key \notin DOMAIN Apply(kd, map, op)
<1>1. CASE ~Takes(kd, map, op)
  BY <1>1 DEF Apply, SameAt, Takes
<1>2. CASE Takes(kd, map, op) /\ op.value = Nil
  BY <1>2 DEF Apply, SameAt, Without
<1>3. CASE Takes(kd, map, op) /\ op.value # Nil
  BY <1>3 DEF Apply, SameAt, With
<1> QED BY <1>1, <1>2, <1>3

\* What a set finds to be the same is the same, but for the target port of a
\* rule (datastore_rdmaingress.go:42).
LEMMA SameIsSame ==
  ASSUME NEW kd \in Kinds, NEW w, MadeOf(kd, w), NEW v, Plain(kd, v), Same(kd, w, v)
  PROVE  \/ w = Stored(kd, v)
         \/ kd = "rdmaingress" /\ w.service = v.service
<1>1. PICK u : Plain(kd, u) /\ w = Stored(kd, u)
  BY DEF MadeOf
<1>2. CASE kd = "pod"
  BY <1>1, <1>2 DEF Plain, Stored, Same, PodSame
<1>3. CASE kd = "service"
  BY <1>1, <1>3 DEF Plain, Stored, Same, ServiceSame
<1>4. CASE kd = "endpoints"
  BY <1>1, <1>4 DEF Plain, Stored, Same, EndpointsSame
<1>5. CASE kd = "configmap"
  BY <1>1, <1>5 DEF Plain, Stored, Same, ConfigMapSame
<1>6. CASE kd = "ingress"
  BY <1>1, <1>6 DEF Plain, Stored, Same, IngressSame
<1>7. CASE kd = "rdmaingress"
  BY <1>1, <1>7 DEF Plain, Stored, Same, RdmaIngressSame
<1>8. CASE kd = "node"
  BY <1>8 DEF Stored, Same
<1> QED BY <1>2, <1>3, <1>4, <1>5, <1>6, <1>7, <1>8 DEF Kinds

\* Under a key, f came of map and g of nothing, by the same operations: none has
\* done anything yet, or both have the same, or nothing was done to map since
\* its rule has the service that it was to get.
Agree(kd, key, map, f, g) ==
  \/ key \notin DOMAIN g /\ SameAt(key, f, map)
  \/ key \in DOMAIN g /\ SameAt(key, f, g)
  \/ /\ kd = "rdmaingress"
     /\ key \in DOMAIN g /\ key \in DOMAIN map /\ SameAt(key, f, map)
     /\ map[key].service = g[key].service

\* Another operation keeps the agreement.
LEMMA AgreeStep ==
  ASSUME NEW kd \in Kinds, NEW key, NEW map, NEW f, NEW g, Agree(kd, key, map, f, g),
         NEW op, op.value # Nil, Plain(kd, op.value),
         key \in DOMAIN map => MadeOf(kd, map[key])
  PROVE  Agree(kd, key, map, Apply(kd, f, op), Apply(kd, g, op))
<1> DEFINE f2 == Apply(kd, f, op)
           g2 == Apply(kd, g, op)
           v == op.value
<1>1. /\ op.key # key \/ ~Takes(kd, f, op) => SameAt(key, f2, f)
      /\ op.key = key /\ Takes(kd, f, op) => key \in DOMAIN f2 /\ f2[key] = Stored(kd, v)
  BY ApplyAt
<1>2. /\ op.key # key \/ ~Takes(kd, g, op) => SameAt(key, g2, g)
      /\ op.key = key /\ Takes(kd, g, op) => key \in DOMAIN g2 /\ g2[key] = Stored(kd, v)
  BY ApplyAt
<1> SUFFICES Agree(kd, key, map, f2, g2)
  OBVIOUS
<1> HIDE DEF f2, g2
<1>3. ASSUME SameAt(key, f2, f), SameAt(key, g2, g) PROVE Agree(kd, key, map, f2, g2)
  <2>1. /\ \A h : SameAt(key, f, h) => SameAt(key, f2, h)
        /\ \A h : SameAt(key, h, g) => SameAt(key, h, g2)
        /\ key \in DOMAIN g2 <=> key \in DOMAIN g
        /\ key \in DOMAIN g => g2[key] = g[key]
    BY <1>3 DEF SameAt
  <2> QED BY <2>1 DEF Agree
<1>4. ASSUME key \in DOMAIN f2, key \in DOMAIN g2, f2[key] = g2[key]
      PROVE  Agree(kd, key, map, f2, g2)
  BY <1>4 DEF Agree, SameAt
<1>5. CASE op.key # key
  BY <1>1, <1>2, <1>3, <1>5
<1>6. CASE op.key = key /\ Refused(kd, v)
  <2>1. ~Takes(kd, f, op) /\ ~Takes(kd, g, op)
    BY <1>6 DEF Takes
  <2> QED BY <1>1, <1>2, <1>3, <2>1
<1>7. CASE op.key = key /\ ~Refused(kd, v)
  <2>1. /\ Takes(kd, f, op) <=> (key \in DOMAIN f => ~Same(kd, f[key], v))
        /\ Takes(kd, g, op) <=> (key \in DOMAIN g => ~Same(kd, g[key], v))
    BY <1>7 DEF Takes
  <2>2. CASE key \notin DOMAIN g /\ SameAt(key, f, map)
    <3>1. key \in DOMAIN g2 /\ g2[key] = Stored(kd, v)
      BY <1>2, <1>7, <2>1, <2>2
    <3>2. CASE Takes(kd, f, op)
      BY <1>1, <1>4, <1>7, <3>1, <3>2
    <3>3. CASE ~Takes(kd, f, op)
      <4>1. /\ SameAt(key, f2, f) /\ key \in DOMAIN f /\ key \in DOMAIN map /\ f[key] = map[key]
            /\ Same(kd, map[key], v)
        BY <1>1, <2>1, <2>2, <3>3 DEF SameAt
      <4>2. map[key] = Stored(kd, v) \/ (kd = "rdmaingress" /\ map[key].service = v.service)
        BY <4>1, SameIsSame
      <4>3. SameAt(key, f2, map) /\ key \in DOMAIN f2 /\ f2[key] = map[key]
        BY <2>2, <4>1 DEF SameAt
      <4>4. CASE map[key] = Stored(kd, v)
        BY <1>4, <3>1, <4>3, <4>4
      <4>5. CASE kd = "rdmaingress" /\ map[key].service = v.service
        <5>1. g2[key] = v
          BY <3>1, <4>5 DEF Stored
        <5> QED BY <3>1, <4>1, <4>3, <4>5, <5>1 DEF Agree
      <4> QED BY <4>2, <4>4, <4>5
    <3> QED BY <3>2, <3>3
  <2>3. CASE key \in DOMAIN g /\ SameAt(key, f, g)
    <3>1. Takes(kd, f, op) <=> Takes(kd, g, op)
      BY <2>1, <2>3 DEF SameAt
    <3> QED BY <1>1, <1>2, <1>3, <1>4, <1>7, <3>1
  <2>4. CASE /\ kd = "rdmaingress"
             /\ key \in DOMAIN g /\ key \in DOMAIN map /\ SameAt(key, f, map)
             /\ map[key].service = g[key].service
    <3>1. key \in DOMAIN f /\ f[key] = map[key]
      BY <2>4 DEF SameAt
    <3>2. Takes(kd, f, op) <=> Takes(kd, g, op)
      BY <2>1, <2>4, <3>1 DEF Same, RdmaIngressSame
    <3> QED BY <1>1, <1>2, <1>3, <1>4, <1>7, <3>2
  <2> QED BY <2>2, <2>3, <2>4 DEF Agree
<1> QED BY <1>5, <1>6, <1>7

\* Putting the same onto a map and onto nothing ends in agreement.
LEMMA PutsAgree ==
  ASSUME NEW kd \in Kinds, NEW ops, Puts(kd, ops), NEW map, NEW key,
         key \in DOMAIN map => MadeOf(kd, map[key])
  PROVE  Agree(kd, key, map, ApplyAll(kd, map, ops), ApplyAll(kd, NoStore, ops))
<1>1. Len(ops) \in Nat /\ DOMAIN ops = 1 .. Len(ops)
  BY DEF Puts, IsList
<1>2. PICK g : Course(kd, NoStore, ops, g)
  BY <1>1, ApplyAllSteps
<1>3. PICK f : Course(kd, map, ops, f)
  BY <1>1, ApplyAllSteps
<1> DEFINE S == {n \in 0 .. Len(ops) : Agree(kd, key, map, f[n], g[n])}
<1>4. 0 \in S
  BY <1>1, <1>2, <1>3 DEF Agree, SameAt, NoStore, Course
<1>5. ASSUME NEW n \in 0 .. (Len(ops) - 1), n \in S PROVE n + 1 \in S
  <2>1. n + 1 \in 1 .. Len(ops) /\ (n + 1) - 1 = n
    BY <1>1
  <2>2. f[n + 1] = Apply(kd, f[n], ops[n + 1]) /\ g[n + 1] = Apply(kd, g[n], ops[n + 1])
    BY <1>2, <1>3, <2>1 DEF Course
  <2>3. ops[n + 1].value # Nil /\ Plain(kd, ops[n + 1].value)
    BY <1>1, <2>1 DEF Puts
  <2> QED BY <1>1, <1>5, <2>1, <2>2, <2>3, AgreeStep
<1> HIDE DEF S
<1>6. 0 .. Len(ops) \subseteq S
  BY <1>1, <1>4, <1>5, InductionUpTo
<1> QED BY <1>1, <1>2, <1>3, <1>6 DEF S, Course

\* Operations on other keys leave a key alone.
LEMMA OthersStay ==
  ASSUME NEW kd, NEW ops, IsList(ops), NEW map, NEW key,
         \A i \in DOMAIN ops : ops[i].key # key
  PROVE  SameAt(key, ApplyAll(kd, map, ops), map)
<1>1. Len(ops) \in Nat /\ DOMAIN ops = 1 .. Len(ops)
  BY DEF IsList
<1>2. PICK f : Course(kd, map, ops, f)
  BY <1>1, ApplyAllSteps
<1> DEFINE S == {n \in 0 .. Len(ops) : SameAt(key, f[n], map)}
<1>3. 0 \in S
  BY <1>1, <1>2 DEF SameAt, Course
<1>4. ASSUME NEW n \in 0 .. (Len(ops) - 1), n \in S PROVE n + 1 \in S
  <2>1. n + 1 \in 1 .. Len(ops) /\ (n + 1) - 1 = n
    BY <1>1
  <2>2. f[n + 1] = Apply(kd, f[n], ops[n + 1])
    BY <1>2, <2>1 DEF Course
  <2>3. SameAt(key, f[n + 1], f[n])
    BY <1>1, <2>1, <2>2, ApplyAt
  <2> QED BY <1>4, <2>1, <2>3 DEF SameAt
<1> HIDE DEF S
<1>5. 0 .. Len(ops) \subseteq S
  BY <1>1, <1>3, <1>4, InductionUpTo
<1> QED BY <1>1, <1>2, <1>5 DEF S, Course

\* Whatever is put into an empty map is made of something put.
LEMMA PutsMake ==
  ASSUME NEW kd, NEW ops, Puts(kd, ops), NEW key, key \in DOMAIN ApplyAll(kd, NoStore, ops)
  PROVE  MadeOf(kd, ApplyAll(kd, NoStore, ops)[key])
<1>1. Len(ops) \in Nat /\ DOMAIN ops = 1 .. Len(ops)
  BY DEF Puts, IsList
<1>2. PICK f : Course(kd, NoStore, ops, f)
  BY <1>1, ApplyAllSteps
<1> DEFINE S == {n \in 0 .. Len(ops) : key \in DOMAIN f[n] => MadeOf(kd, f[n][key])}
<1>3. 0 \in S
  BY <1>1, <1>2 DEF NoStore, Course
<1>4. ASSUME NEW n \in 0 .. (Len(ops) - 1), n \in S PROVE n + 1 \in S
  <2>1. n + 1 \in 1 .. Len(ops) /\ (n + 1) - 1 = n
    BY <1>1
  <2>2. f[n + 1] = Apply(kd, f[n], ops[n + 1])
    BY <1>2, <2>1 DEF Course
  <2>3. ops[n + 1].value # Nil /\ Plain(kd, ops[n + 1].value)
    BY <1>1, <2>1 DEF Puts
  <2>4. \/ SameAt(key, f[n + 1], f[n])
        \/ f[n + 1][key] = Stored(kd, ops[n + 1].value)
    BY <2>2, <2>3, ApplyAt
  <2>5. key \in DOMAIN f[n + 1] => MadeOf(kd, f[n + 1][key])
    BY <1>4, <2>3, <2>4 DEF SameAt, MadeOf
  <2> QED BY <2>1, <2>5
<1> HIDE DEF S
<1>5. 0 .. Len(ops) \subseteq S
  BY <1>1, <1>3, <1>4, InductionUpTo
<1> QED BY <1>1, <1>2, <1>5 DEF S, Course

\* After a list of deletes none of its keys is left.
LEMMA UnsetsRemove ==
  ASSUME NEW kd, NEW ops, IsList(ops), \A i \in DOMAIN ops : ops[i].value = Nil, NEW map,
         NEW j \in DOMAIN ops
  PROVE  ops[j].key \notin DOMAIN ApplyAll(kd, map, ops)
<1>1. Len(ops) \in Nat /\ DOMAIN ops = 1 .. Len(ops)
  BY DEF IsList
<1>2. PICK f : Course(kd, map, ops, f)
  BY <1>1, ApplyAllSteps
<1> DEFINE key == ops[j].key
           S == {n \in 0 .. Len(ops) : j <= n => key \notin DOMAIN f[n]}
<1>3. 0 \in S
  BY <1>1
<1>4. ASSUME NEW n \in 0 .. (Len(ops) - 1), n \in S PROVE n + 1 \in S
  <2>1. n + 1 \in 1 .. Len(ops) /\ (n + 1) - 1 = n
    BY <1>1
  <2>2. f[n + 1] = Apply(kd, f[n], ops[n + 1]) /\ ops[n + 1].value = Nil
    BY <1>1, <1>2, <2>1 DEF Course
  <2>3. ops[n + 1].key = key => key \notin DOMAIN f[n + 1]
    BY <2>2, ApplyAt
  <2>4. ops[n + 1].key # key => SameAt(key, f[n + 1], f[n]) /\ j # n + 1
    BY <2>2, ApplyAt
  <2> QED BY <1>1, <1>4, <2>1, <2>3, <2>4 DEF SameAt
<1> HIDE DEF S
<1>5. 0 .. Len(ops) \subseteq S
  BY <1>1, <1>3, <1>4, InductionUpTo
<1> QED BY <1>1, <1>2, <1>5 DEF S, Course

-----------------------------------------------------------------------------
(* What the handlers call the datastore with.                              *)

\* A list of one operation, and two lists in a row.
LEMMA ShortLists ==
  /\ IsList(<<>>) /\ DOMAIN <<>> = {}
  /\ \A e : IsList(<<e>>) /\ DOMAIN <<e>> = {1} /\ <<e>>[1] = e
  /\ \A e, d : /\ IsList(<<e>> \o <<d>>) /\ DOMAIN (<<e>> \o <<d>>) = {1, 2}
               /\ (<<e>> \o <<d>>)[1] = e /\ (<<e>> \o <<d>>)[2] = d
  /\ \A e : <<>> \o <<e>> = <<e>> /\ <<e>> \o <<>> = <<e>>
  /\ <<>> \o <<>> = <<>>
BY DEF IsList

\* A function on the numbers up to n is a list of n.
LEMMA ListOf ==
  ASSUME NEW n \in Nat, NEW ops, DOMAIN ops = 1 .. n, ops = [i \in 1 .. n |-> ops[i]]
  PROVE  IsList(ops)
<1>1. ops \in Seq({ops[i] : i \in 1 .. n})
  <2>1. ops \in [1 .. n -> {ops[i] : i \in 1 .. n}]
    OBVIOUS
  <2> QED BY <2>1, IsASeq
<1> QED BY <1>1 DEF IsList

\* What a configuration may have of one entry.
LEMMA OneEntry ==
  ASSUME NEW config, NEW n
  PROVE  \/ PutConfig(config, n) = <<>>
         \/ \E v : PutConfig(config, n) = <<Put(n, [value |-> v])>>
<1> DEFINE e == Put(n, [value |-> RetrieveConfig(config, n)])
<1>1. PutConfig(config, n) = <<>> \/ PutConfig(config, n) = <<e>>
  BY Zenon DEF PutConfig, ConfigMapObject
<1> QED BY <1>1

\* A set item puts, and only plain values.
LEMMA SetPuts ==
  ASSUME kind \in Kind, NEW k \in Key, NEW o \in Object, o # Nil, ~Unhandled(kind, k, o)
  PROVE  Puts(kind, Handle(kind, "set", k, o))
<1> DEFINE ops == Handle(kind, "set", k, o)
<1>1. kind \in {"node", "pod", "service", "endpoints", "configmap", "ingress", "rdmaingress"}
  BY KindAssumption DEF Kinds
<1>2. \A i \in DOMAIN ops : ops[i].value # Nil
  BY ValuesAssumption DEF Key, Object
<1> SUFFICES IsList(ops) /\ \A i \in DOMAIN ops : Plain(kind, ops[i].value)
  BY <1>2 DEF Puts
<1>3. ASSUME NEW key, NEW v, ops = <<Put(key, v)>>, Plain(kind, v)
      PROVE  IsList(ops) /\ \A i \in DOMAIN ops : Plain(kind, ops[i].value)
  BY <1>3, ShortLists DEF Put
<1>4. CASE kind = "node"
  <2>1. ops = <<Put(k, [ip |-> o.ip, attr |-> o.attr])>>
    BY <1>4 DEF Handle, NodeHandle
  <2>2. Plain(kind, [ip |-> o.ip, attr |-> o.attr])
    BY <1>4 DEF Plain
  <2> QED BY <1>3, <2>1, <2>2
<1>5. CASE kind = "pod"
  <2> DEFINE v == [ip |-> o.ip, nodeName |-> o.nodeName]
             e == Put(k, v)
  <2>1. ops = <<>> \/ ops = <<e>>
    BY <1>5, Zenon DEF Handle, PodHandle
  <2>2. ops = <<>> \/ ops = <<Put(k, v)>>
    BY <2>1
  <2>3. Plain(kind, v)
    BY <1>5 DEF Plain
  <2> HIDE DEF ops, v
  <2>4. CASE ops = <<>>
    BY <2>4, ShortLists
  <2>5. CASE ops = <<Put(k, v)>>
    BY <1>3, <2>3, <2>5
  <2> QED BY <2>2, <2>4, <2>5
<1>6. CASE kind = "service"
  <2> DEFINE v == [clusterIP |-> o.clusterIP, ports |-> o.ports]
  <2>1. ops = <<Put(k, v)>>
    BY <1>6 DEF Handle, ServiceHandle, ServiceObject
  <2>2. Plain(kind, v)
    BY <1>6 DEF Plain
  <2> QED BY <1>3, <2>1, <2>2
<1>7. CASE kind = "endpoints"
  <2> DEFINE v == [ipWithPorts |-> IPWithPorts(o.subsets)]
  <2>1. ops = <<Put(k, v)>>
    BY <1>7 DEF Handle, EndpointsHandle, EndpointsObject
  <2>2. Plain(kind, v)
    BY <1>7 DEF Plain
  <2> QED BY <1>3, <2>1, <2>2
<1>8. CASE kind = "configmap"
  <2> DEFINE p == PutConfig(o.config, "podSubnet")
             s == PutConfig(o.config, "serviceSubnet")
  <2>1. ops = <<>> \/ ops = p \o s
    BY <1>8 DEF Handle, ConfigMapHandle
  <2>2. p = <<>> \/ \E v : p = <<Put("podSubnet", [value |-> v])>>
    BY OneEntry
  <2>3. s = <<>> \/ \E v : s = <<Put("serviceSubnet", [value |-> v])>>
    BY OneEntry
  <2>4. \A n, v : Plain(kind, Put(n, [value |-> v]).value)
    BY <1>8 DEF Plain, Put
  <2> HIDE DEF p, s, ops
  <2>5. CASE ops = <<>>
    BY <2>5, ShortLists
  <2>6. CASE p = <<>> /\ s = <<>> /\ ops = p \o s
    BY <2>6, ShortLists
  <2>7. ASSUME NEW v, p = <<Put("podSubnet", [value |-> v])>>, s = <<>>, ops = p \o s
        PROVE  IsList(ops) /\ \A i \in DOMAIN ops : Plain(kind, ops[i].value)
    BY <2>4, <2>7, ShortLists
  <2>8. ASSUME NEW v, s = <<Put("serviceSubnet", [value |-> v])>>, p = <<>>, ops = p \o s
        PROVE  IsList(ops) /\ \A i \in DOMAIN ops : Plain(kind, ops[i].value)
    BY <2>4, <2>8, ShortLists
  <2>9. ASSUME NEW v, p = <<Put("podSubnet", [value |-> v])>>,
               NEW w, s = <<Put("serviceSubnet", [value |-> w])>>, ops = p \o s
        PROVE  IsList(ops) /\ \A i \in DOMAIN ops : Plain(kind, ops[i].value)
    BY <2>4, <2>9, ShortLists
  <2>10. IsList(ops) /\ \A i \in DOMAIN ops : Plain(kind, ops[i].value)
    BY <2>1, <2>2, <2>3, <2>5, <2>6, <2>7, <2>8, <2>9
  <2> QED BY <2>10
<1>9. CASE kind = "ingress"
  <2>1. CASE o.backend = Nil
    BY <1>9, <2>1, ShortLists DEF Handle, IngressHandle
  <2>2. CASE o.backend # Nil
    <3> DEFINE v == [service |-> o.backend.service, port |-> o.backend.port % 65536]
    <3>1. ops = <<Put(Last(k), v)>>
      BY <1>9, <2>2 DEF Handle, IngressHandle, IngressObject
    <3>2. Plain(kind, v)
      BY <1>9 DEF Plain
    <3> QED BY <1>3, <3>1, <3>2
  <2> QED BY <2>1, <2>2
<1>10. CASE kind = "rdmaingress"
  <2>1. Len(o.rules) \in Nat /\ DOMAIN o.rules = 1 .. Len(o.rules)
    BY <1>10, RulesAssumption DEF Object
  <2>2. ops = RdmaIngressHandle("set", o)
    BY <1>10 DEF Handle
  <2>3. DOMAIN ops = 1 .. Len(o.rules) /\ ops = [i \in 1 .. Len(o.rules) |-> ops[i]]
    BY <2>1, <2>2 DEF RdmaIngressHandle
  <2>4. IsList(ops)
    BY <2>1, <2>3, ListOf
  <2>5. \A i \in DOMAIN ops : Plain(kind, ops[i].value)
    BY <1>10, <2>2 DEF RdmaIngressHandle, RdmaIngressObject, Plain, Put
  <2> QED BY <2>4, <2>5
<1> QED BY <1>1, <1>4, <1>5, <1>6, <1>7, <1>8, <1>9, <1>10

\* A delete item deletes, and all that a set item of the same object puts, but
\* for config maps.
LEMMA DeleteUnsets ==
  ASSUME kind \in Kind, NEW k \in Key, NEW o, kind = "rdmaingress" => o \in Object \ {Nil}
  PROVE  LET ops == Handle(kind, "delete", k, o)
         IN  /\ IsList(ops) /\ \A i \in DOMAIN ops : ops[i].value = Nil
             /\ \A p \in Object \ {Nil} :
                  kind # "configmap" /\ (kind = "rdmaingress" => p = o) =>
                    \A i \in DOMAIN Handle(kind, "set", k, p) :
                      \E j \in DOMAIN ops : ops[j].key = Handle(kind, "set", k, p)[i].key
<1> DEFINE ops == Handle(kind, "delete", k, o)
           Undoes == /\ IsList(ops) /\ \A i \in DOMAIN ops : ops[i].value = Nil
                     /\ \A p \in Object \ {Nil} :
                          kind # "configmap" /\ (kind = "rdmaingress" => p = o) =>
                            \A i \in DOMAIN Handle(kind, "set", k, p) :
                              \E j \in DOMAIN ops : ops[j].key = Handle(kind, "set", k, p)[i].key
<1> SUFFICES Undoes
  OBVIOUS
<1>1. kind \in {"node", "pod", "service", "endpoints", "configmap", "ingress", "rdmaingress"}
  BY KindAssumption DEF Kinds
<1>2. ASSUME NEW key, ops = <<Unset(key)>>,
             \A p \in Object \ {Nil} : \A i \in DOMAIN Handle(kind, "set", k, p) :
               Handle(kind, "set", k, p)[i].key = key
      PROVE  Undoes
  <2>1. IsList(ops) /\ DOMAIN ops = {1} /\ ops[1] = Unset(key)
    BY <1>2, ShortLists
  <2>2. Unset(key).value = Nil /\ Unset(key).key = key
    BY DEF Unset, Put
  <2> HIDE DEF ops
  <2> QED BY <1>2, <2>1, <2>2
<1>3. ASSUME NEW key, NEW q, q = <<>> \/ \E v : q = <<Put(key, v)>>
      PROVE  \A i \in DOMAIN q : q[i].key = key
  <2>1. CASE q = <<>>
    BY <2>1, ShortLists
  <2>2. ASSUME NEW v, q = <<Put(key, v)>> PROVE \A i \in DOMAIN q : q[i].key = key
    <3>1. DOMAIN q = {1} /\ q[1] = Put(key, v)
      BY <2>2, ShortLists
    <3> QED BY <3>1 DEF Put
  <2> QED BY <1>3, <2>1, <2>2
<1>4. CASE kind \in {"node", "pod", "service", "endpoints", "ingress"}
  <2> DEFINE key == IF kind = "ingress" THEN Last(k) ELSE k
  <2>1. ops = <<Unset(key)>>
    BY <1>4 DEF Handle, NodeHandle, PodHandle, ServiceHandle, EndpointsHandle, IngressHandle
  <2>2. ASSUME NEW p
        PROVE  LET q == Handle(kind, "set", k, p) IN q = <<>> \/ \E v : q = <<Put(key, v)>>
    <3> DEFINE q == Handle(kind, "set", k, p)
    <3>1. CASE kind = "node"
      BY <3>1 DEF Handle, NodeHandle
    <3>2. CASE kind = "pod"
      <4> DEFINE e == Put(k, [ip |-> p.ip, nodeName |-> p.nodeName])
      <4>1. q = <<>> \/ q = <<e>>
        BY <3>2, Zenon DEF Handle, PodHandle
      <4> QED BY <3>2, <4>1
    <3>3. CASE kind = "service"
      BY <3>3 DEF Handle, ServiceHandle
    <3>4. CASE kind = "endpoints"
      BY <3>4 DEF Handle, EndpointsHandle
    <3>5. CASE kind = "ingress"
      <4> DEFINE e == Put(Last(k), [service |-> p.backend.service, port |-> p.backend.port % 65536])
      <4>1. q = <<>> \/ q = <<e>>
        BY <3>5 DEF Handle, IngressHandle, IngressObject
      <4> QED BY <3>5, <4>1
    <3> QED BY <1>4, <3>1, <3>2, <3>3, <3>4, <3>5
  <2> HIDE DEF key, ops, Undoes
  <2>3. \A p : \A i \in DOMAIN Handle(kind, "set", k, p) : Handle(kind, "set", k, p)[i].key = key
    BY <1>3, <2>2
  <2> QED BY <1>2, <2>1, <2>3
<1>5. CASE kind = "configmap"
  <2>1. ops = <<>>
    BY <1>5 DEF Handle, ConfigMapHandle
  <2> QED BY <1>5, <2>1, ShortLists
<1>6. CASE kind = "rdmaingress"
  <2>1. o \in Object \ {Nil} /\ Len(o.rules) \in Nat /\ DOMAIN o.rules = 1 .. Len(o.rules)
    BY <1>6, RulesAssumption DEF Object
  <2> DEFINE q == Handle(kind, "set", k, o)
             n == Len(o.rules)
  <2>2. ops = RdmaIngressHandle("delete", o) /\ q = RdmaIngressHandle("set", o)
    BY <1>6 DEF Handle
  <2> HIDE DEF ops, q
  <2>3. ops = [i \in 1 .. n |-> Unset(o.rules[i].port % 65536)]
    BY <2>1, <2>2 DEF RdmaIngressHandle
  <2>4. /\ DOMAIN q = 1 .. n
        /\ \A i \in 1 .. n : q[i].key = o.rules[i].port % 65536
    <3>1. q = [i \in 1 .. n |->
                 Put(o.rules[i].port % 65536,
                     [service |-> o.rules[i].service, targetPort |-> o.rules[i].targetPort % 65536])]
      BY <2>1, <2>2 DEF RdmaIngressHandle, RdmaIngressObject
    <3> QED BY <3>1 DEF Put
  <2>5. IsList(ops)
    <3>1. DOMAIN ops = 1 .. n /\ ops = [i \in 1 .. n |-> ops[i]]
      BY <2>3
    <3> QED BY <2>1, <3>1, ListOf
  <2>6. /\ DOMAIN ops = 1 .. n
        /\ \A i \in 1 .. n : ops[i].value = Nil /\ ops[i].key = o.rules[i].port % 65536
    BY <2>3 DEF Unset, Put
  <2>7. \A i \in DOMAIN q : i \in DOMAIN ops /\ ops[i].key = q[i].key
    BY <2>4, <2>6
  <2> QED BY <1>6, <2>1, <2>5, <2>6, <2>7 DEF ops, q
<1> HIDE DEF Undoes
<1> QED BY <1>1, <1>4, <1>5, <1>6

-----------------------------------------------------------------------------
(* A delete undoes what was told before.                                   *)

\* Before the item at i, o is what was told of k.
ToldBefore(i, k, o) ==
  \/ \E j \in 1 .. (i - 1) :
       /\ queue[j].key = k /\ queue[j].type = "set" /\ queue[j].obj = o
       /\ \A m \in (j + 1) .. (i - 1) : queue[m].key # k
  \/ /\ \A j \in 1 .. (i - 1) : queue[j].key # k
     /\ InHand(k) => cur.item.type = "set" /\ cur.obj = o
     /\ ~InHand(k) => applied[k] = o

\* A delete of an RdmaIngress carries the object that was told of before; and
\* whatever was applied, its handler was prepared for.
UndoInv ==
  /\ \A k \in Key : applied[k] # Nil => ~Unhandled(kind, k, applied[k])
  /\ kind = "rdmaingress" =>
       /\ ~up => dropped = {}
       /\ \A k \in Key : indexer[k] # Nil => k \notin dropped
       /\ \A i \in DOMAIN queue : queue[i].obj # Nil
       /\ cur # Nil => cur.obj # Nil
       /\ \A i \in DOMAIN queue :
            queue[i].type = "delete" => ToldBefore(i, queue[i].key, queue[i].obj)
       /\ cur # Nil /\ cur.item.type = "delete" => applied[cur.item.key] = cur.obj

\* At the start nothing waits and nothing was applied.
LEMMA UndoInit == Init => UndoInv
<1> SUFFICES ASSUME Init PROVE UndoInv
  OBVIOUS
<1>1. queue = <<>> /\ cur = Nil /\ indexer = Nothing /\ applied = Nothing /\ dropped = {}
  BY DEF Init
<1>2. DOMAIN queue = {} /\ \A k \in Key : applied[k] = Nil /\ indexer[k] = Nil
  BY <1>1 DEF Nothing
<1> QED BY <1>1, <1>2 DEF UndoInv

\* A step that leaves the queue, the item in hand and what was applied alone.
LEMMA UndoSame ==
  ASSUME UndoInv, kind' = kind, queue' = queue, cur' = cur, applied' = applied,
         kind = "rdmaingress" => /\ ~up' => dropped' = {}
                                 /\ \A k \in Key : indexer'[k] # Nil => k \notin dropped'
  PROVE  UndoInv'
<1>1. Key' = Key
  BY DEF Key
<1>2. \A i, k, o : ToldBefore(i, k, o)' <=> ToldBefore(i, k, o)
  BY DEF ToldBefore, InHand
<1> QED BY <1>1, <1>2 DEF UndoInv

\* An item that is added to the end, with the object that is known.
LEMMA UndoAppend ==
  ASSUME TypeOK, UndoInv, NEW e \in EventItem, Decided(e.key), queue' = Append(queue, e),
         kind' = kind, cur' = cur, applied' = applied,
         kind = "rdmaingress" => /\ ~up' => dropped' = {}
                                 /\ \A k \in Key : indexer'[k] # Nil => k \notin dropped'
                                 /\ e.obj # Nil
                                 /\ e.type = "delete" => e.obj = indexer[e.key]
  PROVE  UndoInv'
<1>0. PICK n \in Nat : n = Len(queue)
  BY DEF TypeOK
<1>1. /\ n \in Nat /\ DOMAIN queue = 1 .. n /\ DOMAIN queue' = 1 .. (n + 1)
      /\ queue'[n + 1] = e /\ \A i \in 1 .. n : queue'[i] = queue[i]
      /\ queue \in Seq(EventItem)
  BY <1>0, AppendProperties DEF TypeOK
<1>2. Key' = Key
  BY DEF Key
<1>3. CASE kind # "rdmaingress"
  BY <1>2, <1>3 DEF UndoInv
<1>4. CASE kind = "rdmaingress"
  <2>1. ASSUME NEW i \in 1 .. n, NEW k, NEW o, ToldBefore(i, k, o) PROVE ToldBefore(i, k, o)'
    <3>1. \A j \in 1 .. (i - 1) : queue'[j] = queue[j]
      BY <1>1
    <3>2. ASSUME NEW j \in 1 .. (i - 1), NEW m \in (j + 1) .. (i - 1) PROVE m \in 1 .. (i - 1)
      BY <1>1
    <3>3. CASE \E j \in 1 .. (i - 1) :
                 /\ queue[j].key = k /\ queue[j].type = "set" /\ queue[j].obj = o
                 /\ \A m \in (j + 1) .. (i - 1) : queue[m].key # k
      <4>1. PICK j \in 1 .. (i - 1) :
                 /\ queue[j].key = k /\ queue[j].type = "set" /\ queue[j].obj = o
                 /\ \A m \in (j + 1) .. (i - 1) : queue[m].key # k
        BY <3>3
      <4>2. \A m \in (j + 1) .. (i - 1) : queue'[m] = queue[m]
        BY <3>1, <3>2
      <4> QED BY <3>1, <4>1, <4>2 DEF ToldBefore
    <3>4. CASE ~\E j \in 1 .. (i - 1) :
                 /\ queue[j].key = k /\ queue[j].type = "set" /\ queue[j].obj = o
                 /\ \A m \in (j + 1) .. (i - 1) : queue[m].key # k
      <4>1. /\ \A j \in 1 .. (i - 1) : queue[j].key # k
            /\ InHand(k) => cur.item.type = "set" /\ cur.obj = o
            /\ ~InHand(k) => applied[k] = o
        BY <2>1, <3>4 DEF ToldBefore
      <4> QED BY <3>1, <4>1 DEF ToldBefore, InHand
    <3> QED BY <3>3, <3>4
  <2>2. ASSUME e.type = "delete" PROVE ToldBefore(n + 1, e.key, e.obj)'
    <3> DEFINE k == e.key
    <3>1. k \in Key /\ e.obj = indexer[k] /\ indexer[k] # Nil /\ k \notin dropped
      BY <1>4, <2>2 DEF UndoInv, EventItem, AnyItem, Key
    <3>2. (n + 1) - 1 = n
      BY <1>1
    <3> HIDE DEF k
    <3>3. CASE \E i \in DOMAIN queue : IsLast(queue, i, k) /\ ItemTells(queue[i], k)
      <4>1. PICK i \in 1 .. n : IsLast(queue, i, k) /\ ItemTells(queue[i], k)
        BY <1>1, <3>3
      <4>2. queue[i].key = k /\ queue[i].type = "set" /\ queue[i].obj = e.obj
        <5>1. queue[i] \in EventItem
          BY <1>1
        <5>2. queue[i].type \in {"set", "delete"}
          BY <5>1 DEF EventItem, AnyItem
        <5> QED BY <1>4, <3>1, <4>1, <5>2 DEF IsLast, ItemTells
      <4>3. ASSUME NEW m \in (i + 1) .. n PROVE queue'[m].key # k
        <5>1. m \in DOMAIN queue /\ queue'[m] = queue[m] /\ ~(m <= i)
          BY <1>1
        <5> QED BY <4>1, <5>1 DEF IsLast
      <4>4. queue'[i] = queue[i]
        BY <1>1
      <4> QED BY <3>2, <4>2, <4>3, <4>4 DEF ToldBefore, k
    <3>4. CASE NoneWaits(queue, k) /\ InHand(k) /\ CurTells(k)
      <4>1. cur.item.type = "set" /\ cur.obj = e.obj
        <5>1. cur \in [item : EventItem, obj : Object]
          BY <3>4 DEF TypeOK, InHand
        <5>2. cur.item.type \in {"set", "delete"}
          BY <5>1 DEF EventItem, AnyItem
        <5> QED BY <3>1, <3>4, <5>2 DEF CurTells
      <4>2. \A j \in 1 .. n : queue'[j].key # k
        BY <1>1, <3>4 DEF NoneWaits
      <4> QED BY <3>2, <3>4, <4>1, <4>2 DEF ToldBefore, InHand, k
    <3>5. CASE NoneWaits(queue, k) /\ ~InHand(k) /\ (k \notin dropped => applied[k] = indexer[k])
      <4>1. \A j \in 1 .. n : queue'[j].key # k
        BY <1>1, <3>5 DEF NoneWaits
      <4> QED BY <3>1, <3>2, <3>5, <4>1 DEF ToldBefore, InHand, k
    <3>6. Decided(k)
      BY DEF k
    <3> QED BY <3>3, <3>4, <3>5, <3>6 DEF Decided
  <2>3. \A i \in DOMAIN queue' :
          queue'[i].type = "delete" => ToldBefore(i, queue[i].key, queue[i].obj)'
    <3>1. \A i \in 1 .. (n + 1) : i = n + 1 \/ i \in 1 .. n
      BY <1>1
    <3>2. ASSUME NEW i \in 1 .. n, queue'[i].type = "delete"
          PROVE  ToldBefore(i, queue[i].key, queue[i].obj)'
      <4>1. queue'[i] = queue[i] /\ ToldBefore(i, queue[i].key, queue[i].obj)
        BY <1>1, <1>4, <3>2 DEF UndoInv
      <4>2. ToldBefore(i, queue[i].key, queue[i].obj)' <=>
              \E k, o : k = queue'[i].key /\ o = queue'[i].obj /\ ToldBefore(i, k, o)'
        OBVIOUS
      <4> QED BY <2>1, <4>1, <4>2
    <3>3. queue'[n + 1].type = "delete" =>
            ToldBefore(n + 1, queue[n + 1].key, queue[n + 1].obj)'
      BY <1>1, <2>2
    <3> QED BY <1>1, <3>1, <3>2, <3>3
  <2>4. \A i \in DOMAIN queue' : queue'[i].obj # Nil
    <3>1. \A i \in 1 .. (n + 1) : i = n + 1 \/ i \in 1 .. n
      BY <1>1
    <3> QED BY <1>1, <1>4, <3>1 DEF UndoInv
  <2> QED BY <1>2, <1>4, <2>3, <2>4 DEF UndoInv
<1> QED BY <1>3, <1>4

\* The worker takes the head, so what was told before any other item is still
\* told, by what is in hand now if not by the queue.
LEMMA UndoFetch ==
  ASSUME TypeOK, UndoInv, Fetch \/ FetchRdmaIngress
  PROVE  UndoInv'
<1> DEFINE h == Head(queue)
<1>1. /\ queue \in Seq(EventItem) /\ queue # <<>> /\ queue' = Tail(queue)
      /\ cur'.item = h /\ cur' \in [item : EventItem, obj : Object]
      /\ kind = "rdmaingress" => cur'.obj = h.obj
      /\ h \in EventItem
  BY FetchItem
<1>2. /\ cur = Nil /\ up' = up /\ kind' = kind /\ dropped' = dropped /\ applied' = applied
      /\ indexer' = indexer
  BY DEF Fetch, FetchRdmaIngress
<1>3. PICK n \in Nat \ {0} : n = Len(queue)
  BY <1>1, HeadTailProperties
<1>4. /\ h = queue[1] /\ DOMAIN queue = 1 .. n /\ DOMAIN queue' = 1 .. (n - 1)
      /\ \A i \in 1 .. (n - 1) : queue'[i] = queue[i + 1]
  BY <1>1, <1>3, HeadTailProperties
<1>5. Key' = Key
  BY <1>2 DEF Key
<1>6. cur' # Nil
  BY <1>1, CurIsNotNil DEF TypeOK
<1> HIDE DEF h
<1>7. CASE kind # "rdmaingress"
  BY <1>2, <1>5, <1>7 DEF UndoInv
<1>8. CASE kind = "rdmaingress"
  <2>1. ASSUME NEW i \in 1 .. (n - 1), NEW k, NEW o, ToldBefore(i + 1, k, o)
        PROVE  ToldBefore(i, k, o)'
    <3>1. (i + 1) - 1 = i /\ i \in Nat \ {0}
      BY <1>3
    <3>2. ASSUME NEW m \in 1 .. (i - 1) PROVE queue'[m] = queue[m + 1] /\ m + 1 \in 2 .. i
      BY <1>3, <1>4
    <3>3. CASE \E j \in 1 .. i :
                 /\ queue[j].key = k /\ queue[j].type = "set" /\ queue[j].obj = o
                 /\ \A m \in (j + 1) .. i : queue[m].key # k
      <4>1. PICK j \in 1 .. i :
                 /\ queue[j].key = k /\ queue[j].type = "set" /\ queue[j].obj = o
                 /\ \A m \in (j + 1) .. i : queue[m].key # k
        BY <3>3
      <4>2. CASE j = 1
        <5>1. cur'.item.key = k /\ cur'.item.type = "set" /\ cur'.obj = o
          BY <1>1, <1>4, <1>8, <4>1, <4>2
        <5>2. \A m \in 1 .. (i - 1) : queue'[m].key # k
          <6> TAKE m \in 1 .. (i - 1)
          <6>1. m + 1 \in (j + 1) .. i
            BY <3>2, <4>2
          <6> QED BY <3>2, <4>1, <6>1
        <5> QED BY <1>6, <5>1, <5>2 DEF ToldBefore, InHand
      <4>3. CASE j # 1
        <5>1. j - 1 \in 1 .. (i - 1) /\ (j - 1) + 1 = j
          BY <3>1, <4>3
        <5>2. queue'[j - 1] = queue[j]
          BY <3>2, <5>1
        <5>3. ASSUME NEW m \in ((j - 1) + 1) .. (i - 1) PROVE queue'[m].key # k
          <6>1. m \in 1 .. (i - 1) /\ m + 1 \in (j + 1) .. i
            BY <3>1, <5>1
          <6> QED BY <3>2, <4>1, <6>1
        <5> QED BY <4>1, <5>1, <5>2, <5>3 DEF ToldBefore
      <4> QED BY <4>2, <4>3
    <3>4. CASE /\ \A j \in 1 .. i : queue[j].key # k
               /\ InHand(k) => cur.item.type = "set" /\ cur.obj = o
               /\ ~InHand(k) => applied[k] = o
      <4>1. \A m \in 1 .. (i - 1) : queue'[m].key # k
        <5> TAKE m \in 1 .. (i - 1)
        <5>1. m + 1 \in 1 .. i
          BY <3>2
        <5> QED BY <3>2, <3>4, <5>1
      <4>2. ~InHand(k)' /\ applied'[k] = o
        <5>1. 1 \in 1 .. i
          BY <3>1
        <5>2. h.key # k
          BY <1>4, <3>4, <5>1
        <5> QED BY <1>1, <1>2, <3>4, <5>2 DEF InHand
      <4> QED BY <4>1, <4>2 DEF ToldBefore
    <3> QED BY <2>1, <3>1, <3>3, <3>4 DEF ToldBefore
  <2>2. ASSUME NEW i \in DOMAIN queue', queue'[i].type = "delete"
        PROVE  ToldBefore(i, queue[i].key, queue[i].obj)'
    <3>1. i \in 1 .. (n - 1) /\ i + 1 \in DOMAIN queue /\ queue'[i] = queue[i + 1]
      BY <1>3, <1>4
    <3>2. ToldBefore(i + 1, queue[i + 1].key, queue[i + 1].obj)
      BY <1>8, <2>2, <3>1 DEF UndoInv
    <3>3. \A k, o : ToldBefore(i + 1, k, o) => ToldBefore(i, k, o)'
      BY <2>1, <3>1
    <3> QED BY <3>1, <3>2, <3>3
  <2>3. \A i \in DOMAIN queue' : queue'[i].obj # Nil
    <3> TAKE i \in DOMAIN queue'
    <3>1. i + 1 \in DOMAIN queue /\ queue'[i] = queue[i + 1]
      BY <1>3, <1>4
    <3> QED BY <1>8, <3>1 DEF UndoInv
  <2>4. 1 \in DOMAIN queue
    BY <1>3, <1>4
  <2>5. cur'.obj # Nil
    BY <1>1, <1>4, <1>8, <2>4 DEF UndoInv
  <2>6. cur'.item.type = "delete" => applied'[cur'.item.key] = cur'.obj
    <3> SUFFICES ASSUME h.type = "delete" PROVE applied[h.key] = h.obj
      BY <1>1, <1>2, <1>8
    <3>1. ToldBefore(1, h.key, h.obj)
      BY <1>4, <1>8, <2>4 DEF UndoInv
    <3>2. 1 .. (1 - 1) = {}
      OBVIOUS
    <3>3. ~InHand(h.key)
      BY <1>2 DEF InHand
    <3> QED BY <3>1, <3>2, <3>3 DEF ToldBefore
  <2> QED BY <1>2, <1>5, <1>8, <2>2, <2>3, <2>5, <2>6 DEF UndoInv
<1> QED BY <1>7, <1>8

\* The handler applies what is in hand, and finds it prepared for.
LEMMA UndoHandle ==
  ASSUME TypeOK, UndoInv, HandleItem
  PROVE  UndoInv'
<1> DEFINE k == cur.item.key
           o == IF cur.item.type = "set" THEN cur.obj ELSE Nil
<1>1. /\ cur # Nil /\ cur' = Nil /\ queue' = queue /\ indexer' = indexer /\ dropped' = dropped
      /\ kind' = kind /\ up' = up
      /\ ~Panics(kind, cur.item.type, k, cur.obj)
      /\ applied' = [applied EXCEPT ![k] = o]
  BY DEF HandleItem
<1>2. k \in Key /\ applied \in [Key -> Object] /\ Key' = Key
  BY <1>1 DEF TypeOK, EventItem, AnyItem, Key
<1>3. \A j \in Key : applied'[j] = IF j = k THEN o ELSE applied[j]
  BY <1>1, <1>2
<1>4. o # Nil => ~Unhandled(kind, k, o)
  BY <1>1 DEF Panics
<1>5. \A j \in Key : applied'[j] # Nil => ~Unhandled(kind, j, applied'[j])
  BY <1>3, <1>4 DEF UndoInv
<1> HIDE DEF k, o
<1>6. ASSUME NEW i, NEW j \in Key, NEW p, ToldBefore(i, j, p) PROVE ToldBefore(i, j, p)'
  <2>1. CASE \E l \in 1 .. (i - 1) :
               /\ queue[l].key = j /\ queue[l].type = "set" /\ queue[l].obj = p
               /\ \A m \in (l + 1) .. (i - 1) : queue[m].key # j
    BY <1>1, <2>1 DEF ToldBefore
  <2>2. CASE /\ \A l \in 1 .. (i - 1) : queue[l].key # j
             /\ InHand(j) => cur.item.type = "set" /\ cur.obj = p
             /\ ~InHand(j) => applied[j] = p
    <3>1. applied'[j] = p
      <4>1. InHand(j) <=> j = k
        BY <1>1 DEF InHand, k
      <4> QED BY <1>3, <2>2, <4>1 DEF o
    <3>2. ~InHand(j)'
      BY <1>1 DEF InHand
    <3> QED BY <1>1, <2>2, <3>1, <3>2 DEF ToldBefore
  <2> QED BY <1>6, <2>1, <2>2 DEF ToldBefore
<1>7. \A i \in DOMAIN queue : queue[i].key \in Key
  <2> TAKE i \in DOMAIN queue
  <2>1. queue[i] \in EventItem
    BY DEF TypeOK
  <2> QED BY <2>1 DEF EventItem, AnyItem, Key
<1>8. kind = "rdmaingress" =>
        \A i \in DOMAIN queue' : queue'[i].type = "delete" =>
          ToldBefore(i, queue[i].key, queue[i].obj)'
  BY <1>1, <1>6, <1>7 DEF UndoInv
<1> QED BY <1>1, <1>2, <1>5, <1>8 DEF UndoInv

\* Each step keeps what a delete undoes.
LEMMA UndoStep == ControllerInv /\ UndoInv /\ [Next]_vars => UndoInv'
<1> SUFFICES ASSUME ControllerInv, UndoInv, [Next]_vars PROVE UndoInv'
  OBVIOUS
<1>1. TypeOK /\ kind' = kind /\ \A k \in Key : Decided(k)
  BY KindStays DEF ControllerInv
<1>2. Key' = Key
  BY <1>1 DEF Key
<1>3. ASSUME NEW k \in Key, NEW o \in ObjectOf(k), Change(k, o) PROVE UndoInv'
  BY <1>1, <1>3, UndoSame DEF Change, processVars, UndoInv
<1>4. ASSUME NEW k \in Key, Inform(k) PROVE UndoInv'
  <2>1. PICK e \in EventItem :
          /\ queue' = Append(queue, e) /\ e.key = k
          /\ e.type = "delete" <=> cluster[k] = Nil
          /\ kind = "rdmaingress" => e.obj # Nil /\ (e.type = "delete" => e.obj = indexer[k])
    <3>1. cluster[k] \in Object /\ indexer[k] \in Object
      BY <1>1 DEF TypeOK
    <3>2. CASE cluster[k] = Nil
      <4> DEFINE e == Item(k, "delete", indexer[k])
      <4>1. e \in EventItem /\ queue' = Append(queue, e)
        BY <1>1, <1>4, <3>1, <3>2, ItemType DEF Inform, Enqueue
      <4>2. indexer[k] # Nil
        BY <1>4, <3>2 DEF Inform
      <4>3. e.key = k /\ e.type = "delete" /\ (kind = "rdmaingress" => e.obj = indexer[k])
        BY ItemParts
      <4> HIDE DEF e
      <4> QED BY <3>2, <4>1, <4>2, <4>3
    <3>3. CASE cluster[k] # Nil
      <4> DEFINE e == Item(k, "set", cluster[k])
      <4>1. e \in EventItem /\ queue' = Append(queue, e)
        BY <1>1, <1>4, <3>1, <3>3, ItemType DEF Inform, Enqueue
      <4>2. e.key = k /\ e.type = "set" /\ (kind = "rdmaingress" => e.obj = cluster[k])
        BY ItemParts
      <4> HIDE DEF e
      <4> QED BY <3>3, <4>1, <4>2
    <3> QED BY <3>2, <3>3
  <2>2. /\ cur' = cur /\ applied' = applied /\ up /\ up' = up /\ dropped' = dropped \ {k}
        /\ indexer' = [indexer EXCEPT ![k] = cluster[k]]
    BY <1>4 DEF Inform
  <2>3. kind = "rdmaingress" => \A j \in Key : indexer'[j] # Nil => j \notin dropped'
    BY <1>1, <2>2 DEF UndoInv, TypeOK
  <2> QED BY <1>1, <2>1, <2>2, <2>3, UndoAppend
<1>5. ASSUME NEW k \in Key, InformTombstone(k) PROVE UndoInv'
  <2>1. /\ queue' = queue /\ cur' = cur /\ applied' = applied /\ up /\ up' = up
        /\ dropped' = dropped \cup {k} /\ indexer' = [indexer EXCEPT ![k] = Nil]
    BY <1>5 DEF InformTombstone
  <2>2. kind = "rdmaingress" => \A j \in Key : indexer'[j] # Nil => j \notin dropped'
    BY <1>1, <2>1 DEF UndoInv, TypeOK
  <2> QED BY <1>1, <2>1, <2>2, UndoSame
<1>6. ASSUME NEW k \in Key, InformTouched(k) PROVE UndoInv'
  <2> DEFINE e == Item(k, "set", indexer[k])
  <2>1. /\ e \in EventItem /\ e.key = k /\ e.type = "set"
        /\ kind = "rdmaingress" => e.obj = indexer[k]
    BY <1>1, ItemType, ItemParts DEF TypeOK
  <2>2. /\ queue' = Append(queue, e) /\ cur' = cur /\ applied' = applied /\ up' = up
        /\ indexer' = indexer /\ dropped' = dropped /\ indexer[k] # Nil
    BY <1>6 DEF InformTouched
  <2> HIDE DEF e
  <2>3. kind = "rdmaingress" => /\ ~up' => dropped' = {}
                                /\ \A j \in Key : indexer'[j] # Nil => j \notin dropped'
    BY <2>2 DEF UndoInv
  <2> QED BY <1>1, <2>1, <2>2, <2>3, UndoAppend
<1>7. CASE StartController \/ StartRdmaController
  <2>1. Start
    BY <1>7 DEF StartController, StartRdmaController
  <2>2. /\ ~up /\ cur = Nil /\ cur' = Nil /\ applied' = applied /\ dropped' = dropped /\ up'
        /\ indexer' = cluster
    BY <1>1, <2>1 DEF Start, TypeOK
  <2>3. kind = "rdmaingress" => dropped' = {}
    BY <2>2 DEF UndoInv
  <2>4. /\ \A i \in DOMAIN queue' : queue'[i].type = "set"
        /\ kind = "rdmaingress" => \A i \in DOMAIN queue' : queue'[i].obj # Nil
    BY <1>1, <2>1, StartQueue
  <2> QED BY <1>1, <1>2, <2>2, <2>3, <2>4 DEF UndoInv
<1>8. CASE Fetch \/ FetchRdmaIngress
  BY <1>1, <1>8, UndoFetch
<1>9. CASE HandleItem
  BY <1>1, <1>9, UndoHandle
<1>10. CASE HandlePanics \/ Dies
  <2>1. /\ queue' = <<>> /\ cur' = Nil /\ indexer' = Nothing /\ applied' = Nothing
        /\ dropped' = {}
    BY <1>10 DEF HandlePanics, Dies, ProcessEnds
  <2>2. DOMAIN queue' = {} /\ \A k \in Key : applied'[k] = Nil /\ indexer'[k] = Nil
    BY <2>1 DEF Nothing
  <2> QED BY <1>1, <1>2, <2>1, <2>2 DEF UndoInv
<1>11. CASE UNCHANGED vars
  BY <1>1, <1>11, UndoSame DEF vars, processVars, UndoInv
<1> QED BY <1>3, <1>4, <1>5, <1>6, <1>7, <1>8, <1>9, <1>10, <1>11 DEF Next, Worker

-----------------------------------------------------------------------------
(* The datastore, key by key.                                              *)

\* Contents, of any kind of controller.
Made(kd, k, o) == IF o = Nil THEN NoStore ELSE ApplyAll(kd, NoStore, Handle(kd, "set", k, o))

\* Under a key a map has what the objects make of it.
MadeAt(kd, map, objs, key) ==
  /\ key \in DOMAIN map <=> \E k \in DOMAIN Looks[kd] : key \in DOMAIN Made(kd, k, objs[k])
  /\ \A k \in DOMAIN Looks[kd] :
       key \in DOMAIN Made(kd, k, objs[k]) => map[key] = Made(kd, k, objs[k])[key]

\* What Drifts excludes.
LEMMA NoDrift ==
  ASSUME NEW k \in Key, NEW type, NEW o, ~Drifts(k, type, o)
  PROVE  LET before == Made(kind, k, applied[k])
             after  == IF type = "set" THEN Made(kind, k, o) ELSE NoStore
             ops    == Handle(kind, type, k, o)
         IN  /\ type = "set" \/ kind = "configmap" => DOMAIN before \subseteq DOMAIN after
             /\ \A j \in Key \ {k} : \A i \in DOMAIN ops :
                  ops[i].key \notin DOMAIN Made(kind, j, applied[j])
             /\ kind = "rdmaingress" =>
                  \A key \in DOMAIN before \cap DOMAIN after :
                    before[key].service = after[key].service =>
                      before[key].targetPort = after[key].targetPort
<1>1. \A j, p : Contents(j, p) = Made(kind, j, p)
  BY DEF Contents, Made
<1> DEFINE ops == Handle(kind, type, k, o)
<1>2. \A i \in DOMAIN ops : ops[i].key \in {op.key : op \in ToSet(ops)}
  BY DEF ToSet
<1> QED BY <1>1, <1>2 DEF Drifts

\* What an object that was handled makes is made of something put.
LEMMA AppliedMade ==
  ASSUME TypeOK, UndoInv, NEW k \in Key, applied[k] # Nil
  PROVE  /\ Puts(kind, Handle(kind, "set", k, applied[k]))
         /\ \A key \in DOMAIN Made(kind, k, applied[k]) :
              MadeOf(kind, Made(kind, k, applied[k])[key])
<1>1. Puts(kind, Handle(kind, "set", k, applied[k]))
  BY SetPuts DEF TypeOK, UndoInv
<1> QED BY <1>1, PutsMake DEF Made

\* Where one object changes that makes nothing of a key, before or after, the
\* map may stay as it is.
LEMMA MadeElsewhere ==
  ASSUME TypeOK, NEW k \in Key, NEW o, NEW key, MadeAt(kind, store, applied, key),
         key \notin DOMAIN Made(kind, k, applied[k]), key \notin DOMAIN Made(kind, k, o),
         NEW map, SameAt(key, map, store)
  PROVE  MadeAt(kind, map, [applied EXCEPT ![k] = o], key)
<1> DEFINE objs == [applied EXCEPT ![k] = o]
<1>1. \A j \in Key : objs[j] = IF j = k THEN o ELSE applied[j]
  BY DEF TypeOK
<1> HIDE DEF objs
<1>2. \A j \in Key : /\ key \in DOMAIN Made(kind, j, objs[j]) <=>
                          key \in DOMAIN Made(kind, j, applied[j])
                     /\ key \in DOMAIN Made(kind, j, objs[j]) =>
                          Made(kind, j, objs[j])[key] = Made(kind, j, applied[j])[key]
  BY <1>1
<1>3. MadeAt(kind, map, objs, key)
  BY <1>2 DEF MadeAt, SameAt, Key
<1> QED BY <1>3 DEF objs

\* A set item.
LEMMA SetMade ==
  ASSUME TypeOK, UndoInv, NEW k \in Key, NEW o \in Object, o # Nil, ~Unhandled(kind, k, o),
         ~Drifts(k, "set", o), NEW key, MadeAt(kind, store, applied, key)
  PROVE  MadeAt(kind, ApplyAll(kind, store, Handle(kind, "set", k, o)),
                [applied EXCEPT ![k] = o], key)
<1> DEFINE ops    == Handle(kind, "set", k, o)
           map    == ApplyAll(kind, store, ops)
           objs   == [applied EXCEPT ![k] = o]
           before == Made(kind, k, applied[k])
           after  == Made(kind, k, o)
<1>1. kind \in Kinds /\ kind \in Kind
  BY KindAssumption DEF TypeOK
<1>2. Puts(kind, ops) /\ IsList(ops) /\ after = ApplyAll(kind, NoStore, ops)
  BY <1>1, SetPuts DEF Puts, Made
<1>3. /\ DOMAIN before \subseteq DOMAIN after
      /\ \A j \in Key \ {k} : \A i \in DOMAIN ops :
           ops[i].key \notin DOMAIN Made(kind, j, applied[j])
      /\ kind = "rdmaingress" =>
           \A x \in DOMAIN before \cap DOMAIN after :
             before[x].service = after[x].service => before[x].targetPort = after[x].targetPort
  BY NoDrift
<1>4. \A j \in Key : objs[j] = IF j = k THEN o ELSE applied[j]
  BY DEF TypeOK
<1>5. CASE \A i \in DOMAIN ops : ops[i].key # key
  <2>1. SameAt(key, map, store) /\ SameAt(key, after, NoStore)
    BY <1>2, <1>5, OthersStay
  <2>2. key \notin DOMAIN after /\ key \notin DOMAIN before
    BY <1>3, <2>1 DEF SameAt, NoStore
  <2> QED BY <2>1, <2>2, MadeElsewhere
<1>6. CASE \E i \in DOMAIN ops : ops[i].key = key
  <2>1. \A j \in Key \ {k} : key \notin DOMAIN Made(kind, j, applied[j])
    BY <1>3, <1>6
  <2>2. /\ key \in DOMAIN store <=> key \in DOMAIN before
        /\ key \in DOMAIN before => store[key] = before[key]
    BY <2>1 DEF MadeAt, Key
  <2>3. key \in DOMAIN before => MadeOf(kind, before[key])
    <3>1. applied[k] = Nil => before = NoStore
      BY DEF Made
    <3>2. applied[k] = Nil => key \notin DOMAIN before
      BY <3>1 DEF NoStore
    <3> QED BY <3>2, AppliedMade
  <2>4. key \in DOMAIN after => MadeOf(kind, after[key])
    BY <1>2, PutsMake
  <2> HIDE DEF before, after, map, objs, ops
  <2>5. Agree(kind, key, store, map, after)
    <3>1. key \in DOMAIN store => MadeOf(kind, store[key])
      BY <2>2, <2>3
    <3> QED BY <1>1, <1>2, <3>1, PutsAgree DEF map
  <2>6. SameAt(key, map, after)
    <3>1. CASE key \notin DOMAIN after /\ SameAt(key, map, store)
      BY <1>3, <2>2, <3>1 DEF SameAt
    <3>2. CASE key \in DOMAIN after /\ SameAt(key, map, after)
      BY <3>2
    <3>3. CASE /\ kind = "rdmaingress"
               /\ key \in DOMAIN after /\ key \in DOMAIN store /\ SameAt(key, map, store)
               /\ store[key].service = after[key].service
      <4>1. /\ key \in DOMAIN before /\ map[key] = before[key] /\ key \in DOMAIN map
            /\ before[key].service = after[key].service
            /\ before[key].targetPort = after[key].targetPort
        BY <1>3, <2>2, <3>3 DEF SameAt
      <4>2. /\ before[key] = [service |-> before[key].service,
                              targetPort |-> before[key].targetPort]
            /\ after[key] = [service |-> after[key].service, targetPort |-> after[key].targetPort]
        BY <2>3, <2>4, <3>3, <4>1 DEF MadeOf, Plain, Stored
      <4> QED BY <3>3, <4>1, <4>2 DEF SameAt
    <3> QED BY <2>5, <3>1, <3>2, <3>3 DEF Agree
  <2>7. /\ Made(kind, k, objs[k]) = after
        /\ \A j \in Key \ {k} : key \notin DOMAIN Made(kind, j, objs[j])
    BY <1>4, <2>1 DEF after
  <2>8. MadeAt(kind, map, objs, key)
    BY <2>6, <2>7 DEF MadeAt, SameAt, Key
  <2> QED BY <2>8 DEF map, objs, ops
<1> QED BY <1>5, <1>6

\* A delete item.
LEMMA DeleteMade ==
  ASSUME TypeOK, UndoInv, NEW k \in Key, NEW o,
         kind = "rdmaingress" => o # Nil /\ applied[k] = o,
         ~Drifts(k, "delete", o), NEW key, MadeAt(kind, store, applied, key)
  PROVE  MadeAt(kind, ApplyAll(kind, store, Handle(kind, "delete", k, o)),
                [applied EXCEPT ![k] = Nil], key)
<1> DEFINE ops    == Handle(kind, "delete", k, o)
           map    == ApplyAll(kind, store, ops)
           objs   == [applied EXCEPT ![k] = Nil]
           before == Made(kind, k, applied[k])
<1>1. kind \in Kind /\ applied[k] \in Object
  BY DEF TypeOK
<1>2. /\ IsList(ops) /\ \A i \in DOMAIN ops : ops[i].value = Nil
      /\ \A p \in Object \ {Nil} :
           kind # "configmap" /\ (kind = "rdmaingress" => p = o) =>
             \A i \in DOMAIN Handle(kind, "set", k, p) :
               \E j \in DOMAIN ops : ops[j].key = Handle(kind, "set", k, p)[i].key
  BY <1>1, DeleteUnsets
<1>3. /\ kind = "configmap" => DOMAIN before \subseteq DOMAIN NoStore
      /\ \A j \in Key \ {k} : \A i \in DOMAIN ops :
           ops[i].key \notin DOMAIN Made(kind, j, applied[j])
  BY NoDrift
<1>4. Made(kind, k, Nil) = NoStore /\ DOMAIN NoStore = {}
  BY DEF Made, NoStore
<1>5. \A j \in Key : objs[j] = IF j = k THEN Nil ELSE applied[j]
  BY DEF TypeOK
<1>6. CASE \A i \in DOMAIN ops : ops[i].key # key
  <2>1. SameAt(key, map, store)
    BY <1>2, <1>6, OthersStay
  <2>2. key \notin DOMAIN before
    <3>1. CASE applied[k] = Nil
      BY <1>4, <3>1
    <3>2. CASE kind = "configmap"
      BY <1>3, <1>4, <3>2
    <3>3. CASE applied[k] # Nil /\ kind # "configmap"
      <4> DEFINE sets == Handle(kind, "set", k, applied[k])
      <4>1. IsList(sets) /\ before = ApplyAll(kind, NoStore, sets)
        BY <3>3, AppliedMade DEF Puts, Made
      <4>2. \A i \in DOMAIN sets : \E j \in DOMAIN ops : ops[j].key = sets[i].key
        BY <1>1, <1>2, <3>3
      <4> HIDE DEF sets, ops
      <4>3. \A i \in DOMAIN sets : sets[i].key # key
        BY <1>6, <4>2
      <4>4. SameAt(key, ApplyAll(kind, NoStore, sets), NoStore)
        BY <4>1, <4>3, OthersStay
      <4> QED BY <1>4, <4>1, <4>4 DEF SameAt
    <3> QED BY <3>1, <3>2, <3>3
  <2> QED BY <1>4, <2>1, <2>2, MadeElsewhere
<1>7. CASE \E i \in DOMAIN ops : ops[i].key = key
  <2>1. key \notin DOMAIN map
    BY <1>2, <1>7, UnsetsRemove
  <2>2. \A j \in Key : key \notin DOMAIN Made(kind, j, objs[j])
    BY <1>3, <1>4, <1>5, <1>7
  <2> HIDE DEF map, objs
  <2>3. MadeAt(kind, map, objs, key)
    BY <2>1, <2>2 DEF MadeAt, Key
  <2> QED BY <2>3 DEF map, objs
<1> QED BY <1>6, <1>7

\* The handler takes the datastore to what the objects it has handled make.
LEMMA HandleMade ==
  ASSUME TypeOK, UndoInv, HandleItem, ~drift', NEW key, MadeAt(kind, store, applied, key)
  PROVE  MadeAt(kind, store', applied', key)
<1> DEFINE k    == cur.item.key
           type == cur.item.type
<1>1. /\ ~Panics(kind, type, k, cur.obj) /\ cur # Nil
      /\ store' = ApplyAll(kind, store, Handle(kind, type, k, cur.obj))
      /\ applied' = [applied EXCEPT ![k] = IF type = "set" THEN cur.obj ELSE Nil]
      /\ ~Drifts(k, type, cur.obj)
  BY DEF HandleItem
<1>2. cur.item \in EventItem /\ cur.obj \in Object
  BY <1>1 DEF TypeOK
<1>3. k \in Key /\ type \in {"set", "delete"}
  BY <1>2 DEF EventItem, AnyItem, Key
<1>4. CASE type = "set"
  <2>1. cur.obj # Nil /\ ~Unhandled(kind, k, cur.obj)
    BY <1>1, <1>4 DEF Panics
  <2>2. /\ store' = ApplyAll(kind, store, Handle(kind, "set", k, cur.obj))
        /\ applied' = [applied EXCEPT ![k] = cur.obj] /\ ~Drifts(k, "set", cur.obj)
    BY <1>1, <1>4
  <2> QED BY <1>2, <1>3, <2>1, <2>2, SetMade
<1>5. CASE type = "delete"
  <2>1. kind = "rdmaingress" => cur.obj # Nil /\ applied[k] = cur.obj
    BY <1>1, <1>5 DEF UndoInv
  <2>2. /\ store' = ApplyAll(kind, store, Handle(kind, "delete", k, cur.obj))
        /\ applied' = [applied EXCEPT ![k] = Nil] /\ ~Drifts(k, "delete", cur.obj)
    BY <1>1, <1>5
  <2> QED BY <1>2, <1>3, <2>1, <2>2, DeleteMade
<1> QED BY <1>3, <1>4, <1>5

\* The invariant of the datastore.
MadeInv == ~drift => \A key : MadeAt(kind, store, applied, key)

\* StoreAsIfRestarted says so of all keys at once.
LEMMA MadeIsRestarted == MadeInv => StoreAsIfRestarted
<1>1. \A k, o : Contents(k, o) = Made(kind, k, o)
  BY DEF Contents, Made
<1> SUFFICES ASSUME \A key : MadeAt(kind, store, applied, key)
             PROVE  /\ DOMAIN store = UNION {DOMAIN Made(kind, k, applied[k]) : k \in Key}
                    /\ \A k \in Key : \A key \in DOMAIN Made(kind, k, applied[k]) :
                         store[key] = Made(kind, k, applied[k])[key]
  BY <1>1 DEF StoreAsIfRestarted, MadeInv
<1>2. \A key : /\ key \in DOMAIN store <=>
                     \E k \in Key : key \in DOMAIN Made(kind, k, applied[k])
               /\ \A k \in Key : key \in DOMAIN Made(kind, k, applied[k]) =>
                    store[key] = Made(kind, k, applied[k])[key]
  BY DEF MadeAt, Key
<1>3. DOMAIN store = UNION {DOMAIN Made(kind, k, applied[k]) : k \in Key}
  BY <1>2
<1> QED BY <1>2, <1>3

\* Nothing handled, nothing there.
LEMMA NothingMade ==
  ASSUME NEW kd, NEW objs, \A k \in DOMAIN Looks[kd] : objs[k] = Nil
  PROVE  \A key : MadeAt(kd, NoStore, objs, key)
BY DEF MadeAt, Made, NoStore

\* At the start the datastore is empty.
LEMMA MadeInit == Init => MadeInv
<1> SUFFICES ASSUME Init PROVE \A key : MadeAt(kind, store, applied, key)
  BY DEF MadeInv
<1>1. store = NoStore /\ \A k \in DOMAIN Looks[kind] : applied[k] = Nil
  BY DEF Init, Nothing, Key
<1> QED BY <1>1, NothingMade

\* Only the handler and the end of the process touch the datastore.
LEMMA MadeStep == TypeOK /\ UndoInv /\ MadeInv /\ [Next]_vars => MadeInv'
<1> SUFFICES ASSUME TypeOK, UndoInv, MadeInv, [Next]_vars, ~drift'
             PROVE  \A key : MadeAt(kind', store', applied', key)
  BY DEF MadeInv
<1>1. kind' = kind
  BY KindStays
<1>2. CASE store' = store /\ applied' = applied /\ drift' = drift
  BY <1>1, <1>2 DEF MadeInv
<1>3. CASE HandleItem
  <2>1. ~drift
    BY <1>3 DEF HandleItem
  <2> QED BY <1>1, <1>3, <2>1, HandleMade DEF MadeInv
<1>4. CASE HandlePanics \/ Dies
  <2>1. store' = NoStore /\ \A k \in DOMAIN Looks[kind] : applied'[k] = Nil
    BY <1>4 DEF HandlePanics, Dies, ProcessEnds, Nothing, Key
  <2> QED BY <1>1, <2>1, NothingMade
<1>5. ASSUME ~HandleItem, ~HandlePanics, ~Dies
      PROVE  store' = store /\ applied' = applied /\ drift' = drift
  BY <1>5 DEF Next, Worker, Change, Inform, InformTombstone, InformTouched, StartController,
     StartRdmaController, Start, Fetch, FetchRdmaIngress, vars, processVars
<1> QED BY <1>2, <1>3, <1>4, <1>5

\* Whatever items came in whatever order, the datastore is what a restarted
\* process would make of the objects last handled, until a handler goes on
\* from what it cannot undo.
THEOREM StoresAsIfRestarted == Spec => []StoreAsIfRestarted
<1> DEFINE I == ControllerInv /\ UndoInv /\ MadeInv
<1>1. Init => I
  BY ControllerInit, UndoInit, MadeInit
<1>2. I /\ [Next]_vars => I'
  BY ControllerStep, UndoStep, MadeStep DEF ControllerInv
<1>3. I => StoreAsIfRestarted
  BY MadeIsRestarted
<1> QED BY <1>1, <1>2, <1>3, PTL DEF Spec
=============================================================================
