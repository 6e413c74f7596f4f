---------------------------- MODULE NodeLogProofs ----------------------------
(***************************************************************************)
(* The log of NodeStore replays to its map, and none of its events is      *)
(* redundant, for every set of nodes and addresses and every bound on the  *)
(* versions.  The invariant says in which of the three steps of SetNode    *)
(* and DeleteNode the map is ahead of the log or behind it, and that only  *)
(* the node at hand differs.                                               *)
(***************************************************************************)
EXTENDS NodeStoreProofs, WellFoundedInduction

\* What the log leaves of node n, with all events it has.
Left(n) == After(n, Len(eventMap) + 1)

\* The event at hand changes the node it is about.
CurChanges ==
  IF cur.type = "set"
  THEN /\ cur.node.rv = rv
       /\ Left(cur.name) # Nil =>
            <<Left(cur.name).ip, Left(cur.name).attr>> # <<cur.node.ip, cur.node.attr>>
  ELSE cur.node = Left(cur.name)

\* The map and the log, step by step of the worker.
MapInv ==
  /\ wpc = "idle" => \A n \in Name : nodeMap[n] = Left(n)
  /\ wpc # "idle" =>
       /\ \A n \in Name \ {cur.name} : nodeMap[n] = Left(n)
       /\ nodeMap[cur.name] = cur.node
  /\ wpc = "storing" => CurChanges
  /\ wpc = "enqueueing" => Left(cur.name) = IF cur.type = "set" THEN cur.node ELSE Nil

\* The inductive invariant.
LogInv == TypeOK /\ MapInv /\ NoRedundantEvent

-----------------------------------------------------------------------------
(* The last event of a node in a log.                                      *)

\* A non-empty set of versions has a greatest one.
LEMMA Greatest ==
  ASSUME NEW l \in Nat, NEW T, T \subseteq 1 .. l, T # {}
  PROVE  \E u \in T : \A x \in T : x <= u
<1> DEFINE Above == {u \in Nat : \A x \in T : x <= u}
<1> DEFINE R == OpToRel(<, Nat)
<1>1. l \in Above
  OBVIOUS
<1>2. PICK u \in Above : \A w \in Above : <<w, u>> \notin R
  <2>1. IsWellFoundedOn(R, Nat)
    BY NatLessThanWellFounded
  <2>2. Above \subseteq Nat /\ Above # {}
    BY <1>1
  <2> HIDE DEF Above, R
  <2> QED BY <2>1, <2>2, WFMin
<1>3. \A w \in Above : ~(w < u)
  <2> SUFFICES ASSUME NEW w \in Above, w < u PROVE <<w, u>> \in R
    BY <1>2
  <2> QED BY DEF OpToRel
<1>4. u \in Nat /\ \A x \in T : x \in Nat /\ 1 <= x /\ x <= u
  <2>1. \A x \in T : x \in Nat /\ 1 <= x
    OBVIOUS
  <2>2. u \in Nat /\ \A x \in T : x <= u
    BY <1>2
  <2> QED BY <2>1, <2>2
<1>5. PICK t : t \in T
  OBVIOUS
<1> HIDE DEF R
<1>6. u \in T
  <2> SUFFICES ASSUME u \notin T PROVE FALSE
    OBVIOUS
  <2>1. u - 1 \in Nat
    <3>1. t \in Nat /\ 1 <= t /\ t <= u /\ u \in Nat
      BY <1>4, <1>5
    <3> QED BY <3>1
  <2>2. \A w \in T : w <= u - 1
    BY <1>4
  <2>3. u - 1 \in Above
    BY <2>1, <2>2
  <2>4. u - 1 < u
    BY <1>4
  <2> QED BY <1>3, <2>3, <2>4
<1> QED BY <1>4, <1>6

\* After, of any log.
LastOf(log, n, v) ==
  LET own == {u \in DOMAIN log : u < v /\ log[u].name = n}
      last == CHOOSE u \in own : \A w \in own : w <= u
  IN IF own = {} \/ log[last].type = "delete" THEN Nil ELSE log[last].node

\* An event at the end leaves the past of the log as it was, and decides the
\* node it is about.
LEMMA LastOfAppend ==
  ASSUME NEW l \in Nat, NEW log, DOMAIN log = 1 .. l,
         NEW log2, DOMAIN log2 = 1 .. (l + 1),
         \A u \in 1 .. l : log2[u] = log[u],
         NEW n
  PROVE  /\ \A v \in 1 .. (l + 1) : LastOf(log2, n, v) = LastOf(log, n, v)
         /\ log2[l + 1].name # n => LastOf(log2, n, l + 2) = LastOf(log, n, l + 1)
         /\ log2[l + 1].name = n =>
              LastOf(log2, n, l + 2) =
                IF log2[l + 1].type = "delete" THEN Nil ELSE log2[l + 1].node
<1> DEFINE Own(v) == {u \in DOMAIN log : u < v /\ log[u].name = n}
<1> DEFINE Own2(v) == {u \in DOMAIN log2 : u < v /\ log2[u].name = n}
<1>1. ASSUME NEW v, NEW w, Own2(w) = Own(v) PROVE LastOf(log2, n, w) = LastOf(log, n, v)
  <2> DEFINE last == CHOOSE u \in Own(v) : \A x \in Own(v) : x <= u
  <2> DEFINE last2 == CHOOSE u \in Own2(w) : \A x \in Own2(w) : x <= u
  <2>1. last2 = last
    BY <1>1
  <2>2. CASE Own(v) = {}
    BY <1>1, <2>2 DEF LastOf
  <2>3. CASE Own(v) # {}
    <3>1. Own(v) \subseteq 1 .. l
      OBVIOUS
    <3>2. \E u \in Own(v) : \A x \in Own(v) : x <= u
      <4> HIDE DEF Own
      <4> QED BY <2>3, <3>1, Greatest
    <3>3. last \in Own(v)
      <4> HIDE DEF Own
      <4> QED BY <3>2
    <3>4. log2[last] = log[last]
      <4> HIDE DEF last, Own
      <4> QED BY <3>1, <3>3
    <3>5. LastOf(log, n, v) = IF log[last].type = "delete" THEN Nil ELSE log[last].node
      BY <2>3 DEF LastOf
    <3>6. LastOf(log2, n, w) = IF log2[last2].type = "delete" THEN Nil ELSE log2[last2].node
      BY <1>1, <2>3 DEF LastOf
    <3> HIDE DEF last, last2
    <3> QED BY <2>1, <3>4, <3>5, <3>6
  <2> QED BY <2>2, <2>3
<1>2. ASSUME NEW v \in 1 .. (l + 1) PROVE Own2(v) = Own(v)
  OBVIOUS
<1>3. ASSUME log2[l + 1].name # n PROVE Own2(l + 2) = Own(l + 1)
  BY <1>3
<1>4. ASSUME log2[l + 1].name = n
      PROVE  LastOf(log2, n, l + 2) =
               IF log2[l + 1].type = "delete" THEN Nil ELSE log2[l + 1].node
  <2> DEFINE last == CHOOSE u \in Own2(l + 2) : \A x \in Own2(l + 2) : x <= u
  <2>1. l + 1 \in Own2(l + 2) /\ \A x \in Own2(l + 2) : x \in Nat /\ x <= l + 1
    BY <1>4
  <2>2. last = l + 1
    <3>1. \E u \in Own2(l + 2) : \A x \in Own2(l + 2) : x <= u
      <4> HIDE DEF Own2
      <4> QED BY <2>1
    <3>2. last \in Own2(l + 2) /\ \A x \in Own2(l + 2) : x <= last
      <4> HIDE DEF Own2
      <4> QED BY <3>1
    <3> HIDE DEF last, Own2
    <3> QED BY <2>1, <3>2
  <2>3. Own2(l + 2) # {}
    BY <2>1
  <2>4. LastOf(log2, n, l + 2) = IF log2[last].type = "delete" THEN Nil ELSE log2[last].node
    BY <2>3 DEF LastOf
  <2> HIDE DEF last
  <2> QED BY <2>2, <2>4
<1> HIDE DEF Own, Own2
<1> QED BY <1>1, <1>2, <1>3, <1>4

-----------------------------------------------------------------------------
(* The invariant.                                                          *)

\* Intervals from 1 tell their ends.
LEMMA SameInterval ==
  ASSUME NEW a \in Nat, NEW b \in Nat, 1 .. a = 1 .. b
  PROVE  a = b
<1>1. CASE a < b
  <2>1. b \in 1 .. b /\ b \notin 1 .. a
    BY <1>1
  <2> QED BY <2>1
<1>2. CASE b < a
  <2>1. a \in 1 .. a /\ a \notin 1 .. b
    BY <1>2
  <2> QED BY <2>1
<1> QED BY <1>1, <1>2

\* How long the log is.
LEMMA LogLength ==
  ASSUME TypeOK
  PROVE  /\ eventMap \in Seq(NodeEventObject) /\ rv \in Nat /\ Len(eventMap) \in Nat
         /\ DOMAIN eventMap = 1 .. Len(eventMap)
         /\ Len(eventMap) = IF wpc = "storing" THEN rv - 1 ELSE rv
<1>1. /\ eventMap \in Seq(NodeEventObject) /\ rv \in 0 .. MaxVersion
      /\ wpc = "storing" => rv > 0
      /\ DOMAIN eventMap = IF wpc = "storing" THEN 1 .. (rv - 1) ELSE 1 .. rv
  BY DEF TypeOK
<1>2. DOMAIN eventMap = 1 .. Len(eventMap) /\ Len(eventMap) \in Nat /\ rv \in Nat
  BY <1>1, MaxVersionAssumption
<1>3. CASE wpc = "storing"
  <2>1. 1 .. Len(eventMap) = 1 .. (rv - 1) /\ rv - 1 \in Nat
    BY <1>1, <1>2, <1>3
  <2>2. Len(eventMap) = rv - 1
    BY <1>2, <2>1, SameInterval
  <2> QED BY <1>1, <1>2, <1>3, <2>2
<1>4. CASE wpc # "storing"
  <2>1. 1 .. Len(eventMap) = 1 .. rv
    BY <1>1, <1>2, <1>4
  <2>2. Len(eventMap) = rv
    BY <1>2, <2>1, SameInterval
  <2> QED BY <1>1, <1>2, <1>4, <2>2
<1> QED BY <1>3, <1>4

\* After and Left are LastOf, of the log and of the log to come.
LEMMA AfterIsLastOf ==
  ASSUME NEW n
  PROVE  /\ \A v : After(n, v) = LastOf(eventMap, n, v)
         /\ \A v : After(n, v)' = LastOf(eventMap', n, v)
         /\ Left(n) = LastOf(eventMap, n, Len(eventMap) + 1)
         /\ Left(n)' = LastOf(eventMap', n, Len(eventMap') + 1)
BY DEF After, Left, LastOf

\* A step that adds no event keeps what the log leaves.
LEMMA SameLog ==
  ASSUME eventMap' = eventMap
  PROVE  /\ \A n : Left(n)' = Left(n)
         /\ NoRedundantEvent => NoRedundantEvent'
BY DEF Left, After, NoRedundantEvent

\* Of an empty log nothing is left, and the map is empty.
LEMMA LogInit == Init => LogInv
<1> SUFFICES ASSUME Init PROVE LogInv
  OBVIOUS
<1>1. TypeOK
  BY TypeInit
<1>2. DOMAIN eventMap = {} /\ wpc = "idle" /\ \A n \in Name : nodeMap[n] = Nil
  BY DEF Init
<1>3. \A n \in Name : Left(n) = Nil
  BY <1>2 DEF Left, After
<1>4. NoRedundantEvent
  BY <1>2 DEF NoRedundantEvent
<1> QED BY <1>1, <1>2, <1>3, <1>4 DEF LogInv, MapInv

\* Storing the event makes the log say of its node what the worker has done
\* to the map, or is about to do.
LEMMA StoreKeeps ==
  ASSUME LogInv, TypeOK', StoreNodeEvent
  PROVE  MapInv' /\ NoRedundantEvent'
<1> DEFINE l == Len(eventMap)
<1>1. TypeOK /\ wpc = "storing" /\ CurChanges /\ NoRedundantEvent
  BY DEF LogInv, MapInv, StoreNodeEvent
<1>2. l \in Nat /\ DOMAIN eventMap = 1 .. l /\ rv = l + 1
  BY <1>1, LogLength
<1>3. /\ cur \in NodeEventObject
      /\ cur' = cur /\ nodeMap' = nodeMap /\ wpc' = "enqueueing" /\ rv' = rv
  BY <1>1 DEF StoreNodeEvent, TypeOK
<1>4. cur.name \in Name /\ cur.type \in {"set", "delete"}
  BY <1>3 DEF NodeEventObject
<1>5. /\ DOMAIN eventMap' = 1 .. (l + 1)
      /\ \A u \in 1 .. l : eventMap'[u] = eventMap[u]
      /\ eventMap'[l + 1] = cur
  BY <1>2 DEF StoreNodeEvent
<1>6. Len(eventMap') = l + 1
  BY <1>2, <1>5 DEF TypeOK
<1> HIDE DEF l
<1>7. ASSUME NEW n
      PROVE  /\ \A v \in 1 .. (l + 1) : LastOf(eventMap', n, v) = LastOf(eventMap, n, v)
             /\ cur.name # n => LastOf(eventMap', n, l + 2) = LastOf(eventMap, n, l + 1)
             /\ cur.name = n => LastOf(eventMap', n, l + 2) =
                                  IF cur.type = "delete" THEN Nil ELSE cur.node
  <2>1. /\ \A v \in 1 .. (l + 1) : LastOf(eventMap', n, v) = LastOf(eventMap, n, v)
        /\ eventMap'[l + 1].name # n =>
             LastOf(eventMap', n, l + 2) = LastOf(eventMap, n, l + 1)
        /\ eventMap'[l + 1].name = n =>
             LastOf(eventMap', n, l + 2) =
               IF eventMap'[l + 1].type = "delete" THEN Nil ELSE eventMap'[l + 1].node
    BY <1>2, <1>5, LastOfAppend, SMTT(20)
  <2> QED BY <1>5, <2>1
<1>8. ASSUME NEW n
      PROVE  /\ cur.name # n => Left(n)' = Left(n)
             /\ cur.name = n => Left(n)' = IF cur.type = "delete" THEN Nil ELSE cur.node
  <2>1. Left(n) = LastOf(eventMap, n, l + 1)
    BY AfterIsLastOf DEF l
  <2>2. Left(n)' = LastOf(eventMap', n, l + 2)
    <3>1. Len(eventMap') + 1 = l + 2
      BY <1>2, <1>6
    <3> QED BY <3>1, AfterIsLastOf
  <2> QED BY <1>7, <2>1, <2>2
<1>9. MapInv'
  BY <1>1, <1>3, <1>4, <1>8 DEF LogInv, MapInv
<1>10. NoRedundantEvent'
  <2> SUFFICES ASSUME NEW v \in 1 .. (l + 1)
               PROVE  LET e == eventMap'[v]
                          before == LastOf(eventMap', e.name, v)
                      IN IF e.type = "set"
                         THEN /\ e.node.rv = v
                              /\ before # Nil => <<before.ip, before.attr>>
                                                # <<e.node.ip, e.node.attr>>
                         ELSE e.node = before
    BY <1>5, AfterIsLastOf DEF NoRedundantEvent
  <2>1. LastOf(eventMap', eventMap'[v].name, v) = LastOf(eventMap, eventMap'[v].name, v)
    BY <1>7
  <2>2. CASE v = l + 1
    <3>1. LastOf(eventMap, cur.name, v) = Left(cur.name)
      BY <2>2, AfterIsLastOf DEF l
    <3> QED BY <1>1, <1>2, <1>5, <2>1, <2>2, <3>1 DEF CurChanges
  <2>3. CASE v \in 1 .. l
    <3>1. LastOf(eventMap, eventMap[v].name, v) = After(eventMap[v].name, v)
      BY AfterIsLastOf
    <3> QED BY <1>1, <1>2, <1>5, <2>1, <2>3, <3>1 DEF NoRedundantEvent
  <2> QED BY <1>2, <2>2, <2>3
<1> QED BY <1>9, <1>10

\* Each step keeps the invariant.
LEMMA LogStep == LogInv /\ TypeOK' /\ [Next]_vars => LogInv'
<1> SUFFICES ASSUME LogInv, TypeOK', [Next]_vars PROVE MapInv' /\ NoRedundantEvent'
  BY DEF LogInv
<1>1. TypeOK /\ MapInv /\ NoRedundantEvent
  BY DEF LogInv
<1>2. ASSUME NEW n \in Name, NEW o \in Observed[n], SetNode(n, o)
      PROVE  MapInv' /\ NoRedundantEvent'
  <2>1. eventMap' = eventMap /\ \A k : Left(k)' = Left(k)
    BY <1>2, SameLog DEF SetNode
  <2>2. /\ cur'.type = "set" /\ cur'.name = n /\ cur'.node.rv = rv'
        /\ cur'.node.ip = o.ip /\ cur'.node.attr = o.attr
        /\ nodeMap' = [nodeMap EXCEPT ![n] = cur'.node] /\ wpc' = "storing"
    BY <1>2 DEF SetNode
  <2>3. wpc = "idle" /\ \A k \in Name : nodeMap[k] = Left(k)
    BY <1>1, <1>2 DEF MapInv, SetNode
  <2>4. nodeMap \in [Name -> NodeObject \cup {Nil}]
    BY <1>1 DEF TypeOK
  <2>5. CurChanges'
    <3>1. Left(n) # Nil => <<Left(n).ip, Left(n).attr>> # <<o.ip, o.attr>>
      BY <1>2, <2>3 DEF SetNode, Unchanged
    <3> QED BY <2>1, <2>2, <3>1 DEF CurChanges
  <2>6. MapInv'
    BY <2>1, <2>2, <2>3, <2>4, <2>5 DEF MapInv
  <2> QED BY <1>1, <2>1, <2>6, SameLog
<1>3. ASSUME NEW n \in Name, DeleteNode(n) PROVE MapInv' /\ NoRedundantEvent'
  <2>1. eventMap' = eventMap /\ \A k : Left(k)' = Left(k)
    BY <1>3, SameLog DEF DeleteNode
  <2>2. /\ cur'.type = "delete" /\ cur'.name = n /\ cur'.node = nodeMap[n]
        /\ nodeMap' = nodeMap /\ wpc' = "storing"
    BY <1>3 DEF DeleteNode
  <2>3. \A k \in Name : nodeMap[k] = Left(k)
    BY <1>1, <1>3 DEF MapInv, DeleteNode
  <2>4. CurChanges'
    BY <2>1, <2>2, <2>3 DEF CurChanges
  <2>5. MapInv'
    BY <2>1, <2>2, <2>3, <2>4 DEF MapInv
  <2> QED BY <1>1, <2>1, <2>5, SameLog
<1>4. CASE StoreNodeEvent
  BY <1>4, StoreKeeps
<1>5. CASE FinishNode
  <2>1. eventMap' = eventMap /\ \A k : Left(k)' = Left(k)
    BY <1>5, SameLog DEF FinishNode
  <2>2. /\ wpc = "enqueueing" /\ wpc' = "idle" /\ cur.name \in Name
        /\ nodeMap \in [Name -> NodeObject \cup {Nil}]
    BY <1>1, <1>5 DEF FinishNode, TypeOK, NodeEventObject
  <2>3. \A k \in Name : nodeMap'[k] = Left(k)
    <3>1. CASE cur.type = "set"
      BY <1>1, <1>5, <2>2, <3>1 DEF FinishNode, MapInv
    <3>2. CASE cur.type = "delete"
      BY <1>1, <1>5, <2>2, <3>2 DEF FinishNode, MapInv
    <3> QED BY <1>5, <3>1, <3>2 DEF FinishNode
  <2>4. MapInv'
    BY <2>1, <2>2, <2>3 DEF MapInv
  <2> QED BY <1>1, <2>1, <2>4, SameLog
<1>6. ASSUME eventMap' = eventMap, nodeMap' = nodeMap, wpc' = wpc, cur' = cur, rv' = rv
      PROVE  MapInv' /\ NoRedundantEvent'
  BY <1>1, <1>6, SameLog DEF MapInv, CurChanges
<1>7. ASSUME NEW s \in Session, EnqueueNode(s) PROVE MapInv' /\ NoRedundantEvent'
  BY <1>6, <1>7 DEF EnqueueNode, storeVars
<1>8. ASSUME NEW s \in Session, SessionStep(s) \/ ClientStep(s)
      PROVE  MapInv' /\ NoRedundantEvent'
  <2>1. eventMap' = eventMap /\ nodeMap' = nodeMap /\ wpc' = wpc /\ cur' = cur /\ rv' = rv
    BY <1>8 DEF SessionStep, ClientStep, AddNodeQueue, ListNodeStart, ListNodeRead,
       ListNodeNil, ConvertIPPanics, ListNodeEnd, SendNode, SendFails, DequeueNode,
       RemoveNodeQueue,
       WatchNode, ListNode, Disconnect, storeVars, writerVars
  <2> QED BY <1>6, <2>1
<1>9. CASE MapRace \/ UNCHANGED vars
  BY <1>6, <1>9 DEF MapRace, vars, storeVars, writerVars
<1> QED BY <1>2, <1>3, <1>4, <1>5, <1>7, <1>8, <1>9 DEF Next, ClusterStep, WriterStep

\* The invariant holds in every state.
LEMMA LogInvariant == Spec => []LogInv
<1>1. LogInv /\ [Next]_vars => LogInv'
  BY TypeStep, LogStep DEF LogInv
<1> QED BY LogInit, <1>1, PTL DEF Spec

\* Between two operations of the worker the events replayed from the first
\* give NodeMap: a client that has them all knows what the server knows
\* (SetNode and DeleteNode, datastore_node.go).
THEOREM LogReplaysToMap == Spec => []LogMatchesMap
<1>1. LogInv => LogMatchesMap
  BY LogLength DEF LogInv, MapInv, LogMatchesMap, Left
<1> QED BY LogInvariant, <1>1, PTL

\* A set event changes the node it names and a delete event carries the node
\* the last set event left: SetNode returns early for an unchanged node and
\* DeleteNode for one that is not there.
THEOREM EveryEventTells == Spec => []NoRedundantEvent
<1>1. LogInv => NoRedundantEvent
  BY DEF LogInv
<1> QED BY LogInvariant, <1>1, PTL

-----------------------------------------------------------------------------
(* The addresses of the nodes.                                             *)

\* Each node has an address of its own for as long as it is observed.
Fixed(a) ==
  /\ \A n \in Name : \A o \in Observed[n] : o.ip = a[n]
  /\ \A m, n \in Name : a[m] = a[n] => m = n

FixedAddresses == \E a \in [Name -> IP] : Fixed(a)

\* Only the address of the node at hand may be missing from NodeIPMap: a set
\* adds it last, a delete removes it first.
IPInv(a) ==
  /\ \A n \in Name : nodeMap[n] # Nil => nodeMap[n].ip = a[n]
  /\ wpc # "idle" => cur.node.ip = a[cur.name]
  /\ nodeIPMap \subseteq {a[n] : n \in Name}
  /\ \A n \in Name :
       wpc = "idle" \/ n # cur.name => (a[n] \in nodeIPMap <=> nodeMap[n] # Nil)
  /\ wpc # "idle" /\ cur.type = "delete" => a[cur.name] \notin nodeIPMap
  /\ wpc # "idle" /\ cur.type = "set" => nodeMap[cur.name] # Nil

\* Each step keeps it.
LEMMA IPStep ==
  ASSUME NEW a \in [Name -> IP], Fixed(a), TypeOK, IPInv(a), [Next]_vars
  PROVE  IPInv(a)'
<1>1. ASSUME NEW n \in Name, NEW o \in Observed[n], SetNode(n, o) PROVE IPInv(a)'
  <2>1. /\ wpc = "idle" /\ wpc' = "storing" /\ nodeIPMap' = nodeIPMap
        /\ cur'.type = "set" /\ cur'.name = n /\ cur'.node.ip = o.ip
        /\ nodeMap' = [nodeMap EXCEPT ![n] = cur'.node] /\ cur' \in NodeEventObject
    BY <1>1, TypeStep DEF SetNode, TypeOK
  <2>2. o.ip = a[n] /\ cur'.node # Nil
    BY <2>1, NilAssumption DEF Fixed, NodeEventObject
  <2>3. nodeMap \in [Name -> NodeObject \cup {Nil}]
    BY DEF TypeOK
  <2>4. \A k \in Name : nodeMap'[k] = IF k = n THEN cur'.node ELSE nodeMap[k]
    BY <2>1, <2>3
  <2> QED BY <2>1, <2>2, <2>4 DEF IPInv
<1>2. ASSUME NEW n \in Name, DeleteNode(n) PROVE IPInv(a)'
  <2>1. /\ wpc = "idle" /\ wpc' = "storing" /\ nodeIPMap' = nodeIPMap \ {nodeMap[n].ip}
        /\ cur'.type = "delete" /\ cur'.name = n /\ cur'.node = nodeMap[n]
        /\ nodeMap' = nodeMap /\ nodeMap[n] # Nil
    BY <1>2 DEF DeleteNode
  <2>2. nodeMap[n].ip = a[n] /\ \A k \in Name : a[k] = a[n] => k = n
    BY <2>1 DEF IPInv, Fixed
  <2> QED BY <2>1, <2>2 DEF IPInv
<1>3. CASE FinishNode
  <2>1. /\ wpc = "enqueueing" /\ wpc' = "idle" /\ cur.name \in Name
        /\ nodeMap \in [Name -> NodeObject \cup {Nil}] /\ cur.type \in {"set", "delete"}
    BY <1>3 DEF FinishNode, TypeOK, NodeEventObject
  <2>2. cur.node.ip = a[cur.name] /\ \A k \in Name : a[k] = a[cur.name] => k = cur.name
    BY <2>1 DEF IPInv, Fixed
  <2>3. CASE cur.type = "set"
    <3>1. nodeIPMap' = nodeIPMap \cup {a[cur.name]} /\ nodeMap' = nodeMap
      BY <1>3, <2>2, <2>3 DEF FinishNode
    <3> QED BY <2>1, <2>2, <2>3, <3>1 DEF IPInv
  <2>4. CASE cur.type = "delete"
    <3>1. nodeIPMap' = nodeIPMap /\ nodeMap' = [nodeMap EXCEPT ![cur.name] = Nil]
      BY <1>3, <2>4 DEF FinishNode
    <3>2. \A k \in Name : nodeMap'[k] = IF k = cur.name THEN Nil ELSE nodeMap[k]
      BY <2>1, <3>1
    <3> QED BY <2>1, <2>2, <2>4, <3>1, <3>2 DEF IPInv
  <2> QED BY <2>1, <2>3, <2>4
<1>4. ASSUME nodeMap' = nodeMap, nodeIPMap' = nodeIPMap, cur' = cur,
             wpc' = "idle" <=> wpc = "idle"
      PROVE  IPInv(a)'
  BY <1>4 DEF IPInv
<1>5. CASE StoreNodeEvent \/ (\E s \in Session : EnqueueNode(s)) \/ MapRace \/ UNCHANGED vars
  BY <1>4, <1>5 DEF StoreNodeEvent, EnqueueNode, MapRace, vars, storeVars, writerVars
<1>6. ASSUME NEW s \in Session, SessionStep(s) \/ ClientStep(s) PROVE IPInv(a)'
  <2>1. nodeMap' = nodeMap /\ nodeIPMap' = nodeIPMap /\ cur' = cur /\ wpc' = wpc
    BY <1>6 DEF SessionStep, ClientStep, AddNodeQueue, ListNodeStart, ListNodeRead,
       ListNodeNil, ConvertIPPanics, ListNodeEnd, SendNode, SendFails, DequeueNode,
       RemoveNodeQueue,
       WatchNode, ListNode, Disconnect, storeVars, writerVars
  <2> QED BY <1>4, <2>1
<1> QED BY <1>1, <1>2, <1>3, <1>5, <1>6 DEF Next, ClusterStep, WriterStep

\* The invariant, for one choice of the addresses and in every state.
IPInvariant == \E a \in [Name -> IP] : Fixed(a) /\ IPInv(a)

\* As long as every node keeps an address of its own, NodeIPMap is exactly the
\* set of the addresses of the nodes whenever the worker is idle: SetNode adds
\* the address last and DeleteNode removes it first (datastore_node.go:71, 82).
THEOREM AddressesExact == FixedAddresses /\ Spec => []IPSetExact
<1>1. FixedAddresses /\ Init => TypeOK /\ IPInvariant
  <2> SUFFICES ASSUME NEW a \in [Name -> IP], Fixed(a), Init PROVE IPInv(a)
    BY TypeInit DEF FixedAddresses, IPInvariant
  <2> QED BY DEF Init, IPInv
<1>2. TypeOK /\ IPInvariant /\ [Next]_vars => (TypeOK /\ IPInvariant)'
  BY TypeStep, IPStep DEF IPInvariant
<1>3. TypeOK /\ IPInvariant => IPSetExact
  <2> SUFFICES ASSUME TypeOK, NEW a \in [Name -> IP], IPInv(a), wpc = "idle",
                      NEW ip
               PROVE  ip \in nodeIPMap <=>
                        \E n \in Name : nodeMap[n] # Nil /\ nodeMap[n].ip = ip
    BY DEF IPInvariant, IPSetExact
  <2> QED BY DEF IPInv
<1> QED BY <1>1, <1>2, <1>3, PTL DEF Spec
=============================================================================
