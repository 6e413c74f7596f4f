---------------------------- MODULE NodeSyncProofs ----------------------------
(***************************************************************************)
(* The client and the server together, through broken streams and          *)
(* restarts, for every set of nodes and addresses and every bound: what    *)
(* NodeStoreProofs says of one life of the server holds in all of them,    *)
(* and the version a client resumes from never goes back.                  *)
(*                                                                         *)
(* And until a restart, unless a stream is cut while it repeats events,    *)
(* the client has the nodes of the version it handled last: View says what *)
(* it has of each address wherever it is in its stream, which needs that   *)
(* the stream makes no leap (PathInv of NodeStreamProofs).                 *)
(***************************************************************************)
EXTENDS NodeSync, NodeStreamProofs, NodeLogProofs

\* The inductive invariant: the server keeps its own whatever the client does.
SyncInv == StreamInv /\ SyncTypeOK

\* The constants, as the steps need them.
LEMMA Bounds ==
  /\ MaxVersion \in Nat /\ MaxWatch \in Nat /\ MaxRestart \in Nat
  /\ \A s : s \in 0 .. MaxWatch <=> s \in Session
BY MaxVersionAssumption, RequestAssumption

\* A server that was just started satisfies the invariant of the streams,
\* whichever requests are over.
LEMMA RestartKeeps ==
  ASSUME TypeOK, ServerRestart
  PROVE  StreamInv'
<1>1. <<>> \in Seq(NodeEventObject) /\ <<>> \in Seq(Versions) /\ DOMAIN <<>> = 1 .. 0
  OBVIOUS
<1>2. /\ up' = TRUE /\ rv' = 0 /\ nodeMap' = [n \in Name |-> Nil] /\ eventMap' = <<>>
      /\ nodeIPMap' = {} /\ queueMap' = {} /\ wpc' = "idle" /\ cur' = Nil /\ todo' = {}
      /\ spc' = [s \in Session |-> IF s < req THEN "closed" ELSE "idle"]
      /\ from' = [s \in Session |-> 0] /\ smax' = [s \in Session |-> 0]
      /\ pending' = [s \in Session |-> <<>>] /\ queue' = [s \in Session |-> <<>>]
      /\ open' = {} /\ sent' = [s \in Session |-> <<>>]
  BY DEF ServerRestart
<1>3. nodeMap' \in [Name -> NodeObject \cup {Nil}]
  BY <1>2
<1>4. spc' \in [Session -> {"idle", "adding", "list", "listing", "sending", "removing",
                            "closed"}]
  BY <1>2
<1>5. TypeOK'
  BY <1>1, <1>2, <1>3, <1>4, Bounds DEF TypeOK
<1>6. ASSUME NEW s \in Session PROVE SessionInv(s)'
  <2>1. /\ rv' = 0 /\ wpc' = "idle" /\ todo' = {} /\ s \notin queueMap'
        /\ spc'[s] \in {"closed", "idle"}
        /\ pending'[s] = <<>> /\ queue'[s] = <<>> /\ sent'[s] = <<>>
    BY <1>2
  <2> QED BY <2>1, RangeSmall DEF SessionInv, QueueIsSuffix, Phases, ListingOK, SendingOK,
             InLog, GapFree, Sent, EnqueuedUpTo
<1> QED BY <1>5, <1>6 DEF StreamInv

\* Whatever step the client and the network take is one of the server's own
\* steps, none, or a restart.
LEMMA ServerMoves ==
  ASSUME SyncInv, [SyncNext]_syncVars
  PROVE  [Next]_vars \/ ServerRestart
<1>1. CASE ServerStep
  BY <1>1 DEF ServerStep, Next
<1>2. CASE ClientList
  <2>1. 0 \in Session
    BY Bounds
  <2> QED BY <1>2, <2>1 DEF ClientList, ClientStep, Next
<1>3. CASE ClientWatch
  <2>1. req \in Session /\ cmax \in 0 .. MaxVersion
    BY <1>3, Bounds DEF SyncInv, SyncTypeOK, ClientWatch
  <2> QED BY <1>3, <2>1 DEF ClientWatch, ClientStep, Next
<1>4. CASE StreamBreaks
  <2>1. PICK s \in 1 .. (MaxWatch - 1) : up /\ Disconnect(s)
    BY <1>4 DEF StreamBreaks
  <2>2. s \in Session
    BY <2>1, Bounds
  <2> QED BY <2>1, <2>2 DEF ClientStep, Next
<1>5. CASE ClientHandle \/ ClientListed \/ ClientExits \/ ClientDrop \/ UNCHANGED syncVars
  BY <1>5 DEF ClientHandle, ClientListed, ClientExits, ClientDrop, syncVars
<1> QED BY <1>1, <1>2, <1>3, <1>4, <1>5 DEF SyncNext, ClientTurn

\* The server never takes back what it sent.
LEMMA SentGrows ==
  ASSUME StreamInv, TypeOK', [Next]_vars, NEW s \in Session
  PROVE  /\ Len(sent[s]) \in Nat /\ Len(sent'[s]) \in Nat /\ Len(sent[s]) <= Len(sent'[s])
         /\ \A i \in 1 .. Len(sent[s]) : sent'[s][i] = sent[s][i]
<1>1. sent[s] \in Seq(Versions) /\ sent'[s] \in Seq(Versions)
  BY DEF StreamInv, TypeOK
<1>2. Len(sent[s]) \in Nat /\ Len(sent'[s]) \in Nat
  BY <1>1
<1>3. CASE sent'[s] = sent[s]
  BY <1>2, <1>3
<1>4. ASSUME NEW t \in Session, SendNode(t), sent'[s] # sent[s]
      PROVE  /\ Len(sent[s]) <= Len(sent'[s])
             /\ \A i \in 1 .. Len(sent[s]) : sent'[s][i] = sent[s][i]
  <2>1. /\ sent'[s] = Append(sent[s], Head(pending[s])) /\ pending[s] # <<>>
        /\ pending[s] \in Seq(Versions)
    BY <1>4 DEF SendNode, StreamInv, TypeOK
  <2>2. Head(pending[s]) \in Versions
    BY <2>1, HeadTailProperties
  <2> QED BY <1>1, <1>2, <2>1, <2>2, AppendProperties
<1>5. ASSUME NEW t \in Session, ListNodeEnd(t), sent'[s] # sent[s]
      PROVE  /\ Len(sent[s]) <= Len(sent'[s])
             /\ \A i \in 1 .. Len(sent[s]) : sent'[s][i] = sent[s][i]
  <2>1. s = t /\ spc[t] = "listing"
    BY <1>5, SMTT(20) DEF ListNodeEnd, StreamInv, TypeOK
  <2>2. sent[s] = <<>>
    BY <2>1 DEF StreamInv, SessionInv, Phases
  <2>3. Len(sent[s]) = 0
    BY <2>2
  <2> QED BY <1>2, <2>3
<1>6. \/ sent' = sent
      \/ \E t \in Session : SendNode(t) \/ ListNodeEnd(t)
  <2>1. ASSUME NEW t \in Session, SessionStep(t) \/ ClientStep(t)
        PROVE  sent' = sent \/ SendNode(t) \/ ListNodeEnd(t)
    BY <2>1 DEF SessionStep, ClientStep, AddNodeQueue, ListNodeStart, ListNodeRead,
       ListNodeNil, ConvertIPPanics, SendFails, DequeueNode, RemoveNodeQueue, WatchNode,
       ListNode, Disconnect,
       sessionVars
  <2>2. CASE ClusterStep \/ WriterStep \/ MapRace \/ UNCHANGED vars
    BY <2>2 DEF ClusterStep, WriterStep, SetNode, DeleteNode, StoreNodeEvent, EnqueueNode,
       FinishNode, MapRace, vars, sessionVars
  <2> QED BY <2>1, <2>2 DEF Next
<1> QED BY <1>2, <1>3, <1>4, <1>5, <1>6

\* A message of the current request is an event of the log.
LEMMA MessageTypes ==
  ASSUME SyncInv, ClientHandle
  PROVE  /\ req \in Session
         /\ sent[req][got + 1] \in Versions
         /\ sent[req][got + 1] \in DOMAIN eventMap
         /\ eventMap[sent[req][got + 1]] \in NodeEventObject
<1>1. req \in Session
  BY Bounds DEF SyncInv, SyncTypeOK, ClientHandle
<1>2. /\ sent[req] \in Seq(Versions) /\ eventMap \in Seq(NodeEventObject)
      /\ Sent(req) \subseteq DOMAIN eventMap
  BY <1>1 DEF SyncInv, StreamInv, TypeOK, SessionInv, InLog
<1>3. got \in Nat /\ got < Len(sent[req]) /\ Len(sent[req]) \in Nat
  BY <1>2 DEF SyncInv, SyncTypeOK, ClientHandle
<1>4. got + 1 \in 1 .. Len(sent[req])
  BY <1>3
<1>5. sent[req][got + 1] \in Versions /\ sent[req][got + 1] \in Sent(req)
  BY <1>2, <1>4 DEF Sent, Range
<1> QED BY <1>1, <1>2, <1>5

\* Handling a message keeps the types of the client, and its resume point does
\* not go back.
LEMMA HandleKeeps ==
  ASSUME SyncInv, ClientHandle
  PROVE  SyncTypeOK' /\ cmax' >= cmax
<1> DEFINE v == sent[req][got + 1]
<1> DEFINE e == eventMap[v]
<1>1. req \in Session /\ v \in Versions /\ e \in NodeEventObject /\ SyncTypeOK
  BY MessageTypes DEF SyncInv
<1>2. /\ Handle(v) /\ got' = got + 1 /\ got < Len(sent[req])
      /\ cpc \in {"listing", "watching"} /\ sent' = sent
      /\ cpc' = cpc /\ req' = req /\ restarts' = restarts /\ cut' = cut
  BY DEF ClientHandle, vars, sessionVars
<1> HIDE DEF v
<1>3. cmax \in 0 .. MaxVersion /\ v \in 1 .. MaxVersion
  BY <1>1 DEF SyncTypeOK, Versions
<1>4. cmax' \in 0 .. MaxVersion /\ at' \in 0 .. cmax' /\ cmax' >= cmax
  BY <1>2, <1>3, Bounds DEF Handle
<1>5. cnodes' \in [IP -> ClientNode \cup {Nil}]
  <2>1. cnodes \in [IP -> ClientNode \cup {Nil}]
    BY <1>1 DEF SyncTypeOK
  <2>2. [name |-> e.name, attr |-> e.node.attr, rv |-> v] \in ClientNode
    BY <1>1 DEF ClientNode, NodeEventObject, NodeObject
  <2> HIDE DEF e
  <2>3. \/ cnodes' = [cnodes EXCEPT ![e.node.ip] =
                       [name |-> e.name, attr |-> e.node.attr, rv |-> v]]
        \/ cnodes' = [cnodes EXCEPT ![e.node.ip] = Nil]
        \/ cnodes' = cnodes
    BY <1>2 DEF Handle, e
  <2> QED BY <2>1, <2>2, <2>3
<1>6. got' \in 0 .. IF cpc' \in {"listing", "watching"} THEN Len(sent'[req']) ELSE 0
  <2>1. Len(sent[req]) \in Nat
    BY <1>1 DEF SyncInv, StreamInv, TypeOK
  <2>2. got \in 0 .. Len(sent[req])
    BY <1>1, <1>2 DEF SyncTypeOK
  <2> QED BY <1>2, <2>1, <2>2
<1>7. cut \in BOOLEAN
  BY <1>1 DEF SyncTypeOK
<1> QED BY <1>1, <1>2, <1>4, <1>5, <1>6, <1>7 DEF SyncTypeOK

\* Each step keeps the types of the client.
LEMMA ClientKeeps ==
  ASSUME SyncInv, TypeOK', [SyncNext]_syncVars
  PROVE  SyncTypeOK'
<1>1. SyncTypeOK /\ StreamInv
  BY DEF SyncInv
<1>2. \A s \in Session : Len(sent'[s]) \in Nat
  <2>1. \A s \in Session : sent'[s] \in Seq(Versions)
    BY DEF TypeOK
  <2> QED BY <2>1
<1>3. ASSUME [Next]_vars, cpc' = cpc, req' = req, got' = got, cnodes' = cnodes, cmax' = cmax,
             at' = at, cut' = cut, restarts' = restarts
      PROVE  SyncTypeOK'
  <2>1. CASE cpc \in {"listing", "watching"}
    <3>1. req \in Session
      BY <1>1, <2>1, Bounds DEF SyncTypeOK
    <3>2. Len(sent[req]) \in Nat /\ Len(sent'[req]) \in Nat /\ Len(sent[req]) <= Len(sent'[req])
      BY <1>1, <1>3, <3>1, SentGrows
    <3>3. got \in 0 .. Len(sent'[req])
      BY <1>1, <2>1, <3>2 DEF SyncTypeOK
    <3> QED BY <1>1, <1>3, <2>1, <3>3 DEF SyncTypeOK
  <2>2. CASE cpc \notin {"listing", "watching"}
    BY <1>1, <1>3, <2>2 DEF SyncTypeOK
  <2> QED BY <2>1, <2>2
<1>4. CASE ServerStep \/ StreamBreaks \/ UNCHANGED syncVars
  <2>1. [Next]_vars \/ ServerRestart
    BY ServerMoves
  <2>2. /\ cpc' = cpc /\ req' = req /\ got' = got /\ cnodes' = cnodes /\ cmax' = cmax
        /\ at' = at /\ cut' = cut /\ restarts' = restarts
    BY <1>4 DEF ServerStep, StreamBreaks, syncVars, clientVars
  <2>3. restarts \in 0 .. MaxRestart
    BY <1>1 DEF SyncTypeOK
  <2>4. ~ServerRestart
    BY <2>2, <2>3, Bounds DEF ServerRestart
  <2> QED BY <1>3, <2>1, <2>2, <2>4
<1>5. CASE ClientHandle
  BY <1>5, HandleKeeps
<1>6. CASE ClientList
  <2>1. 0 \in Session /\ Len(sent'[0]) \in Nat
    <3>1. 0 \in Session
      BY Bounds
    <3> QED BY <1>2, <3>1
  <2>2. cut \in BOOLEAN
    BY <1>1 DEF SyncTypeOK
  <2> QED BY <1>1, <1>6, <2>1, <2>2 DEF ClientList, SyncTypeOK
<1>7. CASE ClientListed
  <2>1. cut' \in BOOLEAN
    BY <1>1, <1>7 DEF ClientListed, SyncTypeOK
  <2> QED BY <1>1, <1>7, <2>1, Bounds DEF ClientListed, SyncTypeOK
<1>8. CASE ClientWatch
  <2>1. req \in Session /\ Len(sent'[req]) \in Nat
    <3>1. req \in Session
      BY <1>1, <1>8, Bounds DEF ClientWatch, SyncTypeOK
    <3> QED BY <1>2, <3>1
  <2>2. cut' \in BOOLEAN
    BY <1>1, <1>8 DEF ClientWatch, SyncTypeOK
  <2> QED BY <1>1, <1>8, <2>1, <2>2 DEF ClientWatch, SyncTypeOK
<1>9. CASE ClientDrop
  <2>1. cut' \in BOOLEAN
    BY <1>1, <1>9, Zenon DEF ClientDrop, SyncTypeOK
  <2> QED BY <1>1, <1>9, <2>1, Bounds DEF ClientDrop, SyncTypeOK
<1>10. CASE ServerRestart
  <2>1. cut' \in BOOLEAN
    BY <1>1, <1>10 DEF ServerRestart, SyncTypeOK, clientVars
  <2> QED BY <1>1, <1>10, <2>1, Bounds DEF ServerRestart, SyncTypeOK, clientVars
<1>11. CASE ClientExits
  <2>1. cut' \in BOOLEAN
    BY <1>1, <1>11 DEF ClientExits, SyncTypeOK
  <2> QED BY <1>1, <1>11, <2>1 DEF ClientExits, SyncTypeOK
<1> QED BY <1>4, <1>5, <1>6, <1>7, <1>8, <1>9, <1>10, <1>11 DEF SyncNext, ClientTurn

\* The client has nothing yet and the server is empty.
LEMMA SyncInitially == SyncInit => SyncInv
<1> SUFFICES ASSUME SyncInit PROVE SyncInv
  OBVIOUS
<1>1. StreamInv
  BY StreamInit DEF SyncInit
<1>2. cnodes \in [IP -> ClientNode \cup {Nil}] /\ cut \in BOOLEAN
  BY DEF SyncInit, NoNodes
<1> QED BY <1>1, <1>2, Bounds DEF SyncInit, SyncInv, SyncTypeOK

\* Each step keeps both invariants.
LEMMA SyncStep == SyncInv /\ [SyncNext]_syncVars => SyncInv'
<1> SUFFICES ASSUME SyncInv, [SyncNext]_syncVars PROVE SyncInv'
  OBVIOUS
<1>1. StreamInv'
  BY ServerMoves, StreamStep, RestartKeeps DEF SyncInv, StreamInv
<1>2. TypeOK'
  BY <1>1 DEF StreamInv
<1> QED BY <1>1, <1>2, ClientKeeps DEF SyncInv

\* In every state of the composition.
LEMMA SyncInvariant == SyncSpec => []SyncInv
BY SyncInitially, SyncStep, PTL DEF SyncSpec

-----------------------------------------------------------------------------
(* The theorems.                                                           *)

\* Every variable of the client (node_informer.rs) stays within its type: an
\* entry of the nodes is made of an event of the server's log, also when the
\* server was restarted under the client.
THEOREM ClientTypes == SyncSpec => []SyncTypeOK
<1>1. SyncInv => SyncTypeOK
  BY DEF SyncInv
<1> QED BY SyncInvariant, <1>1, PTL

\* Through broken streams and restarts, each life of the server sends its
\* streams without a gap (WatchNode, quarkcmsvc.go:96-113).
THEOREM StreamsOfAllLives == SyncSpec => []StreamGapFree
<1>1. SyncInv => StreamGapFree
  BY DEF SyncInv, StreamInv, SessionInv, StreamGapFree
<1> QED BY SyncInvariant, <1>1, PTL

\* The version a client resumes from never goes back, whatever is sent twice,
\* lost or restarted: max_resource_version only takes a larger version
\* (node_informer.rs:116).
THEOREM ResumePointNeverFalls == SyncSpec => ResumePointGrows
<1>1. SyncInv /\ [SyncNext]_syncVars => [cmax' >= cmax]_syncVars
  <2> SUFFICES ASSUME SyncInv, SyncNext PROVE cmax' >= cmax
    OBVIOUS
  <2>1. cmax \in Int
    BY DEF SyncInv, SyncTypeOK
  <2>2. CASE ClientHandle
    BY <2>2, HandleKeeps
  <2>3. CASE ~ClientHandle
    <3>1. cmax' = cmax
      BY <2>3 DEF SyncNext, ServerStep, ClientTurn, ClientList, ClientListed, ClientWatch,
         ClientExits, ClientDrop, StreamBreaks, ServerRestart, clientVars
    <3> QED BY <2>1, <3>1
  <2> QED BY <2>2, <2>3
<1> QED BY SyncInvariant, <1>1, PTL DEF SyncSpec, ResumePointGrows

-----------------------------------------------------------------------------
(* What the client knows, before any restart.                              *)

IPOf(v) == eventMap[v].node.ip

\* No later event that the client knows of is about this address.
Latest(d) == \A w \in (d + 1) .. cmax : IPOf(w) # IPOf(d)

\* What the client holds after it has handled event d.
Leaves(d) ==
  IF eventMap[d].type = "set"
  THEN [name |-> eventMap[d].name, attr |-> eventMap[d].node.attr, rv |-> d]
  ELSE Nil

\* Up to the last message handled the client has what the latest event of each
\* address leaves.  Behind it, where the stream went back, it may have what an
\* earlier event left, and then the latest one is still to come.
View ==
  /\ \A d \in 1 .. cmax : Latest(d) /\ d <= at => cnodes[IPOf(d)] = Leaves(d)
  /\ \A d \in 1 .. cmax : Latest(d) /\ d > at /\ cnodes[IPOf(d)] # Nil =>
       /\ cnodes[IPOf(d)].rv <= d
       /\ eventMap[d].type = "delete" => cnodes[IPOf(d)].rv < d
  /\ \A ip \in IP : (\A w \in 1 .. cmax : IPOf(w) # ip) => cnodes[ip] = Nil

\* The answer of list_node is the log in order, and it has no queue.
Request0 ==
  /\ from[0] = 0
  /\ 0 \notin queueMap
  /\ spc[0] \notin {"adding", "sending", "removing"}
  /\ \A i \in 1 .. Len(sent[0]) : sent[0][i] = i

\* Where the client is in the messages of its request.
Place ==
  /\ cmax <= Len(eventMap)
  /\ cpc \in {"waiting", "watching"} => req >= 1
  /\ cpc = "new" => at = 0 /\ cmax = 0
  /\ cpc = "listing" => at = got /\ cmax = got
  /\ cpc = "waiting" /\ ~cut => at = cmax
  /\ cpc = "watching" /\ ~cut => at = IF got = 0 THEN from[req] ELSE sent[req][got]
  /\ cpc = "watching" => from[req] <= cmax /\ \A i \in 1 .. got : sent[req][i] <= cmax

KnowInv == Request0 /\ Place /\ (~cut => View)

\* Handling a message that does not leap ahead keeps the view: whether it is
\* new, repeated where nothing was missed, or the first after going back.
LEMMA HandleKeepsView ==
  ASSUME NEW v \in Nat \ {0}, TypeOK, SyncTypeOK, View,
         cmax <= Len(eventMap), v <= Len(eventMap), v <= at + 1,
         Handle(v), eventMap' = eventMap
  PROVE  View'
<1>1. /\ cmax \in Nat /\ at \in Nat /\ at <= cmax
      /\ cnodes \in [IP -> ClientNode \cup {Nil}]
      /\ eventMap \in Seq(NodeEventObject) /\ Len(eventMap) \in Nat
  <2>1. eventMap \in Seq(NodeEventObject)
    BY DEF TypeOK
  <2> QED BY <2>1, Bounds DEF SyncTypeOK
<1>2. \A d \in 1 .. Len(eventMap) :
        /\ eventMap[d] \in NodeEventObject
        /\ IPOf(d) \in IP /\ eventMap[d].type \in {"set", "delete"}
  <2>1. \A d \in 1 .. Len(eventMap) : eventMap[d] \in NodeEventObject
    BY <1>1
  <2> QED BY <2>1 DEF NodeEventObject, NodeObject, IPOf
<1>3. /\ v \in 1 .. Len(eventMap) /\ IPOf(v) \in IP /\ at' = v
      /\ cmax' \in Nat /\ cmax' >= v /\ cmax' >= cmax
      /\ v <= cmax => cmax' = cmax
      /\ v > cmax => cmax' = cmax + 1 /\ v = cmax + 1 /\ at = cmax
  BY <1>1, <1>2 DEF Handle
<1>4. cmax' <= Len(eventMap)
  BY <1>1, <1>3
<1> DEFINE ip == IPOf(v)
<1> DEFINE c == cnodes[IPOf(v)]
\* What the step does to the entries.
<1>5. \A p \in IP : p # ip => cnodes'[p] = cnodes[p]
  BY <1>1, <1>3 DEF Handle, IPOf
<1>6. eventMap[v].type = "set" => cnodes'[ip] = Leaves(v)
  BY <1>1, <1>3 DEF Handle, IPOf, Leaves
<1>7. eventMap[v].type = "delete" =>
        cnodes'[ip] = IF c # Nil /\ c.rv < v THEN Nil ELSE c
  BY <1>1, <1>3 DEF Handle, IPOf
<1>8. Leaves(v).rv = v \/ eventMap[v].type = "delete"
  BY <1>2, <1>3 DEF Leaves
<1>9. eventMap[v].type \in {"set", "delete"}
  BY <1>2, <1>3
<1>10. \A d \in 1 .. cmax' : IPOf(d) \in IP /\ eventMap[d].type \in {"set", "delete"}
  BY <1>1, <1>2, <1>3, <1>4
<1>11. Nil # Leaves(v) => eventMap[v].type = "set"
  BY DEF Leaves
\* Entries that are not Nil have a version.
<1>12. c # Nil => c.rv \in Int
  BY <1>1, <1>3, Bounds DEF ClientNode, Versions
<1>13. ASSUME NEW d \in 1 .. cmax', \A w \in (d + 1) .. cmax' : IPOf(w) # IPOf(d)
       PROVE  /\ d <= at' => cnodes'[IPOf(d)] = Leaves(d)
              /\ d > at' /\ cnodes'[IPOf(d)] # Nil =>
                   /\ cnodes'[IPOf(d)].rv <= d
                   /\ eventMap[d].type = "delete" => cnodes'[IPOf(d)].rv < d
  <2>1. d \in Nat /\ (d > cmax => d = v /\ v > cmax)
    BY <1>1, <1>3
  <2>2. d <= cmax => d \in 1 .. cmax /\ Latest(d)
    BY <1>1, <1>3, <1>13 DEF Latest
  <2>3. IPOf(d) = ip => d >= v
    BY <1>1, <1>3, <1>13, <2>1
  <2>4. CASE IPOf(d) # ip
    <3>1. cnodes'[IPOf(d)] = cnodes[IPOf(d)] /\ d <= cmax
      BY <1>1, <1>5, <1>10, <2>1, <2>4
    <3>2. CASE d <= at
      <4>1. cnodes[IPOf(d)] = Leaves(d)
        BY <2>2, <3>1, <3>2 DEF View
      <4>2. CASE eventMap[d].type = "set"
        BY <2>1, <3>1, <4>1, <4>2 DEF Leaves
      <4>3. CASE eventMap[d].type # "set"
        BY <3>1, <4>1, <4>3 DEF Leaves
      <4> QED BY <4>2, <4>3
    <3>3. CASE d > at
      <4>1. d > v \/ d = v
        BY <1>1, <1>3, <2>1, <3>3
      <4>2. d # v
        BY <2>4
      <4> QED BY <1>1, <1>3, <2>1, <2>2, <3>1, <3>3, <4>1, <4>2 DEF View
    <3> QED BY <1>1, <2>1, <3>2, <3>3
  <2>5. CASE IPOf(d) = ip /\ d = v
    <3>1. CASE eventMap[v].type = "set"
      BY <1>3, <1>6, <2>5, <3>1
    <3>2. CASE eventMap[v].type = "delete"
      <4>1. Leaves(v) = Nil
        BY <3>2 DEF Leaves
      <4>2. CASE v <= at
        <5>1. c = Nil
          BY <1>1, <1>3, <2>2, <2>5, <4>1, <4>2 DEF View
        <5> QED BY <1>3, <1>7, <2>5, <3>2, <4>1, <5>1
      <4>3. CASE v > at /\ v <= cmax
        <5>1. c = Nil \/ c.rv < v
          BY <1>1, <2>2, <2>5, <3>2, <4>3 DEF View
        <5> QED BY <1>3, <1>7, <2>5, <3>2, <4>1, <5>1
      <4>4. CASE v > cmax
        <5>1. c = Nil \/ c.rv < v
          <6>1. CASE \A w \in 1 .. cmax : IPOf(w) # ip
            BY <1>3, <6>1 DEF View
          <6>2. CASE \E w \in 1 .. cmax : IPOf(w) = ip
            <7> DEFINE T == {w \in 1 .. cmax : IPOf(w) = ip}
            <7>1. T \subseteq 1 .. cmax /\ T # {}
              BY <6>2
            <7> HIDE DEF T
            <7>2. PICK u \in T : \A x \in T : x <= u
              BY <1>1, <7>1, Greatest
            <7>3. u \in 1 .. cmax /\ IPOf(u) = ip /\ \A w \in (u + 1) .. cmax : w \notin T
              BY <1>1, <7>1, <7>2 DEF T
            <7>4. Latest(u)
              BY <1>1, <7>3 DEF Latest, T
            <7>5. c = Leaves(u)
              BY <1>1, <1>3, <4>4, <7>3, <7>4 DEF View
            <7>6. Leaves(u) = Nil \/ Leaves(u).rv = u
              BY DEF Leaves
            <7> QED BY <1>1, <4>4, <7>3, <7>5, <7>6
          <6> QED BY <6>1, <6>2
        <5> QED BY <1>3, <1>7, <2>5, <3>2, <4>1, <5>1
      <4> QED BY <1>1, <4>2, <4>3, <4>4
    <3> QED BY <1>9, <3>1, <3>2
  <2>6. CASE IPOf(d) = ip /\ d # v
    <3>1. d > v /\ d <= cmax /\ d > at'
      BY <1>1, <1>3, <2>1, <2>3, <2>6
    <3>2. CASE eventMap[v].type = "set"
      BY <1>1, <1>3, <1>6, <1>8, <2>1, <2>6, <3>1, <3>2
    <3>3. CASE eventMap[v].type = "delete"
      <4>1. cnodes'[ip] = Nil \/ cnodes'[ip] = c
        BY <1>7, <3>3
      <4>2. CASE d <= at
        <5>1. c = Leaves(d)
          BY <2>2, <2>6, <3>1, <4>2 DEF View
        <5>2. CASE eventMap[d].type = "set"
          BY <1>3, <2>1, <2>6, <4>1, <5>1, <5>2, <3>1 DEF Leaves
        <5>3. CASE eventMap[d].type # "set"
          BY <2>6, <3>1, <4>1, <5>1, <5>3 DEF Leaves
        <5> QED BY <5>2, <5>3
      <4>3. CASE d > at
        <5>1. c # Nil => c.rv <= d /\ (eventMap[d].type = "delete" => c.rv < d)
          BY <2>2, <2>6, <3>1, <4>3 DEF View
        <5> QED BY <1>3, <2>1, <2>6, <3>1, <4>1, <5>1
      <4> QED BY <1>1, <2>1, <4>2, <4>3
    <3> QED BY <1>9, <3>2, <3>3
  <2> QED BY <2>4, <2>5, <2>6
<1>14. ASSUME NEW p \in IP, \A w \in 1 .. cmax' : IPOf(w) # p
       PROVE  cnodes'[p] = Nil
  <2>1. p # ip
    BY <1>1, <1>3, <1>14
  <2>2. \A w \in 1 .. cmax : IPOf(w) # p
    BY <1>1, <1>3, <1>14
  <2> QED BY <1>5, <2>1, <2>2 DEF View
<1>15. \A d : IPOf(d)' = IPOf(d) /\ Leaves(d)' = Leaves(d)
  BY DEF IPOf, Leaves
<1> HIDE DEF ip, c
<1> QED BY <1>13, <1>14, <1>15 DEF View, Latest

\* The log only grows at its end, by the event at hand.
LEMMA LogGrows ==
  ASSUME TypeOK, TypeOK', [Next]_vars
  PROVE  /\ Len(eventMap) \in Nat /\ Len(eventMap') \in Nat
         /\ Len(eventMap) <= Len(eventMap')
         /\ \A v \in 1 .. Len(eventMap) : eventMap'[v] = eventMap[v]
         /\ \/ eventMap' = eventMap
            \/ /\ wpc = "storing" /\ cur \in NodeEventObject
               /\ Len(eventMap') = Len(eventMap) + 1
               /\ eventMap'[Len(eventMap')] = cur
<1>1. /\ Len(eventMap) \in Nat /\ DOMAIN eventMap = 1 .. Len(eventMap)
      /\ Len(eventMap') \in Nat /\ DOMAIN eventMap' = 1 .. Len(eventMap')
  BY LogLength DEF TypeOK
<1>2. CASE eventMap' = eventMap
  BY <1>1, <1>2
<1>3. CASE StoreNodeEvent
  <2>1. rv = Len(eventMap) + 1 /\ wpc = "storing" /\ cur \in NodeEventObject
    BY <1>3, LogLength DEF StoreNodeEvent, TypeOK
  <2>2. /\ DOMAIN eventMap' = 1 .. (Len(eventMap) + 1)
        /\ \A u \in 1 .. Len(eventMap) : eventMap'[u] = eventMap[u]
        /\ eventMap'[Len(eventMap) + 1] = cur
    BY <1>1, <1>3, <2>1 DEF StoreNodeEvent
  <2>3. Len(eventMap') = Len(eventMap) + 1
    <3>1. 1 .. Len(eventMap') = 1 .. (Len(eventMap) + 1)
      BY <1>1, <2>2, Zenon
    <3>2. Len(eventMap) + 1 \in Nat
      BY <1>1
    <3> QED BY <1>1, <3>1, <3>2, SameInterval
  <2> QED BY <1>1, <2>1, <2>2, <2>3
<1>4. eventMap' = eventMap \/ StoreNodeEvent
  <2>1. ASSUME NEW t \in Session, SessionStep(t) \/ ClientStep(t)
        PROVE  eventMap' = eventMap
    BY <2>1 DEF SessionStep, ClientStep, AddNodeQueue, ListNodeStart, ListNodeRead,
       ListNodeNil, ConvertIPPanics, ListNodeEnd, SendNode, SendFails, DequeueNode,
       RemoveNodeQueue, WatchNode,
       ListNode, Disconnect, storeVars
  <2>2. CASE ClusterStep \/ WriterStep \/ MapRace \/ UNCHANGED vars
    BY <2>2 DEF ClusterStep, WriterStep, SetNode, DeleteNode, EnqueueNode, FinishNode,
       MapRace, vars, storeVars
  <2> QED BY <2>1, <2>2 DEF Next
<1> QED BY <1>2, <1>3, <1>4

\* The view only depends on the events the client knows of.
LEMMA SameView ==
  ASSUME SyncTypeOK, View, cmax <= Len(eventMap), Len(eventMap) \in Nat,
         cnodes' = cnodes, cmax' = cmax, at' = at,
         \A v \in 1 .. Len(eventMap) : eventMap'[v] = eventMap[v]
  PROVE  View'
<1>1. cmax \in Nat /\ \A v \in 1 .. cmax : v \in 1 .. Len(eventMap)
  BY Bounds DEF SyncTypeOK
<1>2. \A v \in 1 .. cmax : IPOf(v)' = IPOf(v) /\ Leaves(v)' = Leaves(v)
  BY <1>1 DEF IPOf, Leaves
<1>3. \A v \in 1 .. cmax : eventMap'[v] = eventMap[v]
  BY <1>1
<1>4. \A d \in 1 .. cmax : Latest(d)' => Latest(d)
  <2> SUFFICES ASSUME NEW d \in 1 .. cmax, Latest(d)', NEW w \in (d + 1) .. cmax
               PROVE  IPOf(w) # IPOf(d)
    BY DEF Latest
  <2>1. w \in 1 .. cmax
    BY <1>1
  <2> QED BY <1>2, <2>1 DEF Latest
<1> QED BY <1>2, <1>3, <1>4 DEF View

\* A step of one of the other threads or requests keeps the answer of list_node.
LEMMA Request0Keeps ==
  ASSUME StreamInv, Request0, ServerStep \/ StreamBreaks
  PROVE  Request0'
<1>1. TypeOK /\ 0 \in Session /\ SessionInv(0)
  BY Bounds DEF StreamInv
<1>2. CASE SameSession(0)
  BY <1>2 DEF SameSession, Request0
<1>3. CASE ClusterStep \/ WriterStep \/ (up /\ MapRace)
  <2>1. ~EnqueueNode(0)
    BY <1>1 DEF EnqueueNode, Request0, TypeOK
  <2> QED BY <1>1, <1>2, <1>3, <2>1, WriterFrame DEF ClusterStep, WriterStep
<1>4. ASSUME NEW s \in Session, s # 0, SessionStep(s) PROVE Request0'
  BY <1>1, <1>2, <1>4, SessionsApart
<1>5. CASE SessionStep(0)
  <2>1. CASE ListNodeEnd(0)
    <3>1. \A i \in 1 .. Len(pending[0]) : pending[0][i] = i
      <4>1. pending[0] \in Seq(Versions) /\ from[0] = 0
        BY <1>1 DEF TypeOK, Request0
      <4>2. \A i \in 1 .. Len(pending[0]) : pending[0][i] = 0 + i /\ i \in Int
        BY <1>1, <2>1, <4>1 DEF ListNodeEnd, SessionInv, ListingOK
      <4> QED BY <4>2
    <3> QED BY <1>1, <2>1, <3>1 DEF ListNodeEnd, Request0, TypeOK
  <2>2. CASE ListNodeStart(0) \/ ListNodeRead(0) \/ ListNodeNil(0) \/ ConvertIPPanics(0)
    BY <1>1, <2>2
       DEF ListNodeStart, ListNodeRead, ListNodeNil, ConvertIPPanics, Reading, Request0, TypeOK,
                      sessionVars
  <2>3. ~(\/ AddNodeQueue(0) \/ SendNode(0) \/ SendFails(0) \/ DequeueNode(0)
          \/ RemoveNodeQueue(0))
    BY DEF Request0, AddNodeQueue, SendNode, SendFails, DequeueNode, RemoveNodeQueue
  <2> QED BY <1>5, <2>1, <2>2, <2>3 DEF SessionStep
<1>6. CASE StreamBreaks
  <2>1. PICK s \in 1 .. (MaxWatch - 1) : Disconnect(s)
    BY <1>6 DEF StreamBreaks
  <2>2. s \in Session /\ s # 0
    BY <2>1, Bounds
  <2> QED BY <1>1, <1>2, <2>1, <2>2, SessionsApart
<1> QED BY <1>3, <1>4, <1>5, <1>6 DEF ServerStep

\* What the server does leaves the client where it is.
LEMMA QuietKeepsPlace ==
  ASSUME SyncInv, TypeOK', KnowInv, ServerStep \/ StreamBreaks
  PROVE  KnowInv'
<1>1. StreamInv /\ TypeOK /\ SyncTypeOK /\ Place /\ Request0
  BY DEF SyncInv, StreamInv, KnowInv
<1>2. /\ cpc' = cpc /\ req' = req /\ got' = got /\ cnodes' = cnodes /\ cmax' = cmax
      /\ at' = at /\ cut' = cut /\ restarts' = restarts
  BY DEF ServerStep, StreamBreaks, clientVars
<1>3. [Next]_vars
  <2>1. restarts \in Int
    BY <1>1, Bounds DEF SyncTypeOK
  <2>2. ~ServerRestart
    BY <1>2, <2>1 DEF ServerRestart
  <2>3. SyncNext
    BY DEF SyncNext
  <2> QED BY <2>2, <2>3, ServerMoves
<1>4. /\ Len(eventMap) \in Nat /\ Len(eventMap') \in Nat /\ Len(eventMap) <= Len(eventMap')
      /\ \A v \in 1 .. Len(eventMap) : eventMap'[v] = eventMap[v]
  BY <1>1, <1>3, LogGrows
<1>5. from' = from
  <2>1. ASSUME NEW t \in Session, SessionStep(t) \/ Disconnect(t)
        PROVE  from' = from
    BY <2>1 DEF SessionStep, AddNodeQueue, ListNodeStart, ListNodeRead,
       ListNodeNil, ConvertIPPanics, ListNodeEnd, SendNode, SendFails, DequeueNode,
       RemoveNodeQueue,
       Disconnect, sessionVars
  <2>2. CASE ClusterStep \/ WriterStep \/ MapRace
    BY <2>2 DEF ClusterStep, WriterStep, SetNode, DeleteNode, StoreNodeEvent, EnqueueNode,
       FinishNode, MapRace, sessionVars
  <2>3. \A t \in 1 .. (MaxWatch - 1) : t \in Session
    BY Bounds
  <2> QED BY <2>1, <2>2, <2>3 DEF ServerStep, StreamBreaks
<1>6. cpc = "watching" =>
        /\ req \in Session /\ got \in 0 .. Len(sent[req])
        /\ Len(sent[req]) \in Nat
        /\ \A i \in 1 .. Len(sent[req]) : sent'[req][i] = sent[req][i]
  <2>1. cpc = "watching" => req \in Session /\ got \in 0 .. Len(sent[req])
    BY <1>1, Bounds DEF SyncTypeOK
  <2> QED BY <1>1, <1>3, <2>1, SentGrows
<1>7. cmax \in Nat
  BY <1>1, Bounds DEF SyncTypeOK
<1>8. Place'
  <2>1. cmax' <= Len(eventMap')
    BY <1>1, <1>2, <1>4, <1>7 DEF Place
  <2>2. cpc = "watching" =>
          /\ \A i \in 1 .. got : i \in 1 .. Len(sent[req])
          /\ got # 0 => got \in 1 .. Len(sent[req])
    BY <1>6
  <2> QED BY <1>1, <1>2, <1>5, <1>6, <2>1, <2>2 DEF Place
<1>9. ~cut' => View'
  BY <1>1, <1>2, <1>4, SameView DEF KnowInv, Place
<1>10. Request0'
  BY <1>1, Request0Keeps
<1> QED BY <1>8, <1>9, <1>10 DEF KnowInv

\* A message is handled: the client moves on to its version.
LEMMA HandleKeepsPlace ==
  ASSUME SyncInv, SyncTypeOK', PathInv, KnowInv, ClientHandle
  PROVE  KnowInv'
<1> DEFINE v == sent[req][got + 1]
<1>1. /\ StreamInv /\ TypeOK /\ SyncTypeOK /\ Place /\ Request0
      /\ req \in Session /\ v \in Versions /\ v \in DOMAIN eventMap
  BY MessageTypes DEF SyncInv, StreamInv, KnowInv
<1>2. /\ Handle(v) /\ got' = got + 1 /\ got < Len(sent[req])
      /\ cpc \in {"listing", "watching"} /\ cpc' = cpc /\ req' = req /\ cut' = cut
      /\ sent' = sent /\ eventMap' = eventMap /\ from' = from /\ queueMap' = queueMap
      /\ spc' = spc
  BY DEF ClientHandle, vars, storeVars, sessionVars
<1>3. /\ Len(eventMap) \in Nat /\ v \in 1 .. Len(eventMap) /\ got \in Nat
      /\ cmax \in Nat /\ at \in 0 .. cmax /\ Len(sent[req]) \in Nat
  <2>1. v \in 1 .. Len(eventMap) /\ Len(eventMap) \in Nat
    BY <1>1, LogLength
  <2>2. sent[req] \in Seq(Versions)
    BY <1>1 DEF TypeOK
  <2> QED BY <1>1, <1>2, <2>1, <2>2, Bounds, SMTT(20) DEF SyncTypeOK
<1>4. at' = v /\ cmax' = IF v > cmax THEN v ELSE cmax
  BY <1>2 DEF Handle
<1>5. got + 1 \in 1 .. Len(sent[req]) /\ (got # 0 => got \in 1 .. Len(sent[req]))
  BY <1>2, <1>3
<1>6. cpc = "listing" => v = got + 1 /\ at = got /\ cmax = got
  <2>1. cpc = "listing" => req = 0
    BY <1>1 DEF SyncTypeOK
  <2> QED BY <1>1, <1>5, <2>1 DEF Place, Request0
<1>7. ~cut => v <= at + 1
  <2>1. CASE cpc = "watching" /\ ~cut
    <3>1. NoLeap(from[req], sent[req])
      BY <1>1 DEF PathInv
    <3>2. at = IF got = 0 THEN from[req] ELSE sent[req][got]
      BY <1>1, <2>1 DEF Place
    <3>3. got + 1 = 1 <=> got = 0
      BY <1>3
    <3>4. v <= (IF got + 1 = 1 THEN from[req] ELSE sent[req][(got + 1) - 1]) + 1
      BY <1>5, <3>1 DEF NoLeap
    <3>5. (got + 1) - 1 = got
      BY <1>3
    <3> QED BY <3>2, <3>3, <3>4, <3>5
  <2>2. CASE cpc = "listing"
    BY <1>3, <1>6, <2>2
  <2> QED BY <1>2, <2>1, <2>2
<1>8. Place'
  <2>1. cmax' <= Len(eventMap') /\ v <= cmax' /\ cmax <= cmax' /\ cmax' \in Nat
    BY <1>1, <1>2, <1>3, <1>4 DEF Place
  <2>2. CASE cpc = "watching"
    <3>1. got' # 0 /\ sent'[req'][got'] = v /\ at' = v
      BY <1>2, <1>3, <1>4
    <3>2. from[req] <= cmax /\ \A i \in 1 .. got : sent[req][i] <= cmax
      BY <1>1, <2>2 DEF Place
    <3>3. from[req] \in Int /\ \A i \in 1 .. Len(sent[req]) : sent[req][i] \in Int
      <4>1. sent[req] \in Seq(Versions)
        BY <1>1 DEF TypeOK
      <4> QED BY <1>1, <4>1, VersionsAreInts, SessionTypes
    <3>4. ASSUME NEW i \in 1 .. (got + 1) PROVE sent[req][i] <= cmax'
      <4>1. CASE i = got + 1
        BY <2>1, <4>1
      <4>2. CASE i \in 1 .. got
        <5>1. sent[req][i] <= cmax /\ sent[req][i] \in Int
          BY <1>2, <1>3, <3>2, <3>3, <4>2
        <5> QED BY <1>3, <2>1, <5>1
      <4> QED BY <1>3, <4>1, <4>2
    <3>5. from'[req'] <= cmax'
      BY <1>2, <1>3, <2>1, <3>2, <3>3
    <3> HIDE DEF v
    <3> QED BY <1>1, <1>2, <2>1, <2>2, <3>1, <3>4, <3>5 DEF Place
  <2>3. CASE cpc = "listing"
    <3>1. at' = got' /\ cmax' = got'
      BY <1>2, <1>3, <1>4, <1>6, <2>3
    <3> QED BY <1>1, <1>2, <2>1, <2>3, <3>1 DEF Place
  <2> QED BY <1>2, <2>2, <2>3
<1>9. ~cut' => View'
  <2> SUFFICES ASSUME ~cut PROVE View'
    BY <1>2
  <2>1. v \in Nat \ {0} /\ v <= Len(eventMap) /\ v <= at + 1 /\ cmax <= Len(eventMap) /\ View
    BY <1>1, <1>3, <1>7 DEF Place, KnowInv
  <2> HIDE DEF v
  <2> QED BY <1>1, <1>2, <2>1, HandleKeepsView
<1>10. Request0'
  BY <1>1, <1>2 DEF Request0
<1> QED BY <1>8, <1>9, <1>10 DEF KnowInv

\* A step of the client that handles no message.
LEMMA CallKeepsPlace ==
  ASSUME SyncInv, KnowInv,
         ClientList \/ ClientListed \/ ClientExits \/ ClientWatch \/ ClientDrop
  PROVE  KnowInv'
<1>1. /\ StreamInv /\ TypeOK /\ SyncTypeOK /\ Place /\ Request0 /\ 0 \in Session
      /\ cmax \in Nat /\ at \in 0 .. cmax /\ req \in Nat /\ Len(eventMap) \in Nat
      /\ cut \in BOOLEAN
  <2>1. StreamInv /\ TypeOK /\ SyncTypeOK /\ Place /\ Request0 /\ 0 \in Session
    BY Bounds DEF SyncInv, StreamInv, KnowInv
  <2>2. cut \in BOOLEAN
    BY <2>1 DEF SyncTypeOK
  <2> QED BY <2>1, <2>2, LogLength, Bounds DEF SyncTypeOK
<1>2. /\ eventMap' = eventMap /\ sent' = sent /\ queueMap' = queueMap
      /\ cnodes' = cnodes /\ cmax' = cmax /\ at' = at
  BY DEF ClientList, ClientListed, ClientExits, ClientWatch, ClientDrop, ListNode, WatchNode,
         storeVars, vars, sessionVars
<1>3. cut => cut'
  BY DEF ClientList, ClientListed, ClientExits, ClientWatch, ClientDrop
<1>4. ~cut' => View'
  BY <1>1, <1>2, <1>3, SameView DEF KnowInv, Place
<1>5. CASE ClientList
  <2>1. /\ spc' = [spc EXCEPT ![0] = "list"] /\ from' = from /\ cpc = "new"
        /\ cpc' = "listing" /\ got' = got /\ req' = req
    BY <1>5 DEF ClientList, ListNode
  <2>2. got = 0
    BY <1>1, <2>1 DEF SyncTypeOK
  <2>3. Request0'
    BY <1>1, <1>2, <2>1 DEF Request0, TypeOK
  <2>4. Place'
    BY <1>1, <1>2, <2>1, <2>2 DEF Place
  <2> QED BY <1>4, <2>3, <2>4 DEF KnowInv
<1>6. CASE ClientListed
  <2>1. /\ spc' = spc /\ from' = from /\ cpc = "listing" /\ cpc' = "waiting"
        /\ req' = req + 1
    BY <1>6 DEF ClientListed, vars, sessionVars
  <2>2. Request0'
    BY <1>1, <1>2, <2>1 DEF Request0
  <2>3. Place'
    BY <1>1, <1>2, <2>1 DEF Place
  <2> QED BY <1>4, <2>2, <2>3 DEF KnowInv
<1>7. CASE ClientWatch
  <2>1. /\ spc' = [spc EXCEPT ![req] = "adding"] /\ from' = [from EXCEPT ![req] = cmax]
        /\ cpc = "waiting" /\ cpc' = "watching" /\ req' = req /\ got' = got /\ cut' = cut
        /\ req \in Session
    BY <1>1, <1>7, Bounds DEF ClientWatch, WatchNode
  <2>2. req >= 1 /\ got = 0 /\ (~cut => at = cmax)
    BY <1>1, <2>1 DEF Place, SyncTypeOK
  <2>3. from'[req] = cmax
    BY <1>1, <2>1 DEF TypeOK
  <2>4. Request0'
    <3>1. req # 0
      BY <2>2
    <3> QED BY <1>1, <1>2, <2>1, <3>1 DEF Request0, TypeOK
  <2>5. Place'
    BY <1>1, <1>2, <2>1, <2>2, <2>3 DEF Place
  <2> QED BY <1>4, <2>4, <2>5 DEF KnowInv
<1>8. CASE ClientDrop
  <2>1. /\ spc' = spc /\ from' = from /\ cpc = "watching" /\ cpc' = "waiting"
        /\ req' = req + 1 /\ cut' = (cut \/ at < cmax)
    BY <1>8 DEF ClientDrop, vars, sessionVars
  <2>2. Request0'
    BY <1>1, <1>2, <2>1 DEF Request0
  <2>3. ~cut' => at = cmax
    <3>1. ~cut' => ~(at < cmax)
      BY <2>1, Zenon
    <3> QED BY <1>1, <3>1
  <2>4. Place'
    BY <1>1, <1>2, <2>1, <2>3 DEF Place
  <2> QED BY <1>4, <2>2, <2>4 DEF KnowInv
<1>9. CASE ClientExits
  <2>1. spc' = spc /\ from' = from /\ cpc' = "exited"
    BY <1>9 DEF ClientExits, vars, sessionVars
  <2>2. Request0'
    BY <1>1, <1>2, <2>1 DEF Request0
  <2>3. Place'
    BY <1>1, <1>2, <2>1 DEF Place
  <2> QED BY <1>4, <2>2, <2>3 DEF KnowInv
<1> QED BY <1>5, <1>6, <1>7, <1>8, <1>9

\* Each step but a restart keeps what is known of the client.
LEMMA KnowStep ==
  ASSUME SyncInv, SyncInv', PathInv, KnowInv, [SyncNext]_syncVars, ~ServerRestart
  PROVE  KnowInv'
<1>1. TypeOK' /\ SyncTypeOK'
  BY DEF SyncInv, StreamInv
<1>2. CASE UNCHANGED syncVars
  BY <1>2 DEF syncVars, clientVars, vars, storeVars, sessionVars, KnowInv, Request0, Place,
              View, Latest, IPOf, Leaves
<1>3. CASE ServerStep \/ StreamBreaks
  BY <1>1, <1>3, QuietKeepsPlace
<1>4. CASE ClientHandle
  BY <1>1, <1>4, HandleKeepsPlace
<1>5. CASE ClientList \/ ClientListed \/ ClientExits \/ ClientWatch \/ ClientDrop
  BY <1>5, CallKeepsPlace
<1> QED BY <1>2, <1>3, <1>4, <1>5 DEF SyncNext, ClientTurn

-----------------------------------------------------------------------------
(* What the client has is what the log says, and what the log says is the  *)
(* map of the server.                                                      *)

\* Each event is about a node at its address.
EventAddr(a) == \A v \in 1 .. Len(eventMap) : IPOf(v) = a[eventMap[v].name]

\* The log keeps it.
LEMMA EventAddrStep ==
  ASSUME NEW a, TypeOK, TypeOK', IPInv(a), EventAddr(a), [Next]_vars
  PROVE  EventAddr(a)'
<1>1. /\ Len(eventMap) \in Nat /\ Len(eventMap') \in Nat
      /\ \A v \in 1 .. Len(eventMap) : eventMap'[v] = eventMap[v]
      /\ \/ eventMap' = eventMap
         \/ /\ wpc = "storing"
            /\ Len(eventMap') = Len(eventMap) + 1
            /\ eventMap'[Len(eventMap')] = cur
  BY LogGrows
<1>2. wpc = "storing" => cur.node.ip = a[cur.name]
  BY DEF IPInv
<1>3. ASSUME NEW v \in 1 .. Len(eventMap') PROVE eventMap'[v].node.ip = a[eventMap'[v].name]
  <2>1. CASE v \in 1 .. Len(eventMap)
    BY <1>1, <2>1 DEF EventAddr, IPOf
  <2>2. CASE v \notin 1 .. Len(eventMap)
    <3>1. wpc = "storing" /\ v = Len(eventMap') /\ eventMap'[v] = cur
      BY <1>1, <2>2
    <3> QED BY <1>2, <3>1
  <2> QED BY <2>1, <2>2
<1> QED BY <1>3 DEF EventAddr, IPOf

\* The last event of a node is what is left of the node.
LEMMA LatestIsLast ==
  ASSUME NEW a \in [Name -> IP], Fixed(a), TypeOK, SyncTypeOK, EventAddr(a),
         cmax <= Len(eventMap), NEW d \in 1 .. cmax, Latest(d)
  PROVE  /\ eventMap[d].name \in Name
         /\ After(eventMap[d].name, cmax + 1) =
              IF eventMap[d].type = "delete" THEN Nil ELSE eventMap[d].node
<1> DEFINE n == eventMap[d].name
<1> DEFINE own == {u \in DOMAIN eventMap : u < cmax + 1 /\ eventMap[u].name = n}
<1> DEFINE last == CHOOSE u \in own : \A w \in own : w <= u
<1>1. /\ cmax \in Nat /\ DOMAIN eventMap = 1 .. Len(eventMap) /\ Len(eventMap) \in Nat
      /\ \A v \in 1 .. Len(eventMap) : eventMap[v].name \in Name /\ IPOf(v) = a[eventMap[v].name]
  <2>1. /\ eventMap \in Seq(NodeEventObject) /\ DOMAIN eventMap = 1 .. Len(eventMap)
        /\ Len(eventMap) \in Nat
    BY LogLength
  <2>2. \A v \in 1 .. Len(eventMap) : eventMap[v] \in NodeEventObject
    BY <2>1
  <2> QED BY <2>1, <2>2, Bounds DEF SyncTypeOK, EventAddr, NodeEventObject
<1>2. d \in own /\ \A w \in own : w <= d /\ w \in Nat
  <2>1. d \in own
    BY <1>1
  <2>2. ASSUME NEW w \in own PROVE w <= d /\ w \in Nat
    <3>1. w \in 1 .. cmax /\ eventMap[w].name = n /\ w \in 1 .. Len(eventMap)
          /\ d \in 1 .. Len(eventMap)
      BY <1>1
    <3>2. IPOf(w) = IPOf(d)
      BY <1>1, <3>1
    <3>3. w \notin (d + 1) .. cmax
      BY <3>2 DEF Latest
    <3> QED BY <1>1, <3>1, <3>3
  <2> QED BY <2>1, <2>2
<1>3. last = d
  <2> HIDE DEF own
  <2>1. last \in own /\ \A w \in own : w <= last
    BY <1>2
  <2> HIDE DEF last
  <2> QED BY <1>1, <1>2, <2>1
<1>4. After(n, cmax + 1) =
        IF own = {} \/ eventMap[last].type = "delete" THEN Nil ELSE eventMap[last].node
  BY DEF After
<1>5. After(n, cmax + 1) = IF eventMap[d].type = "delete" THEN Nil ELSE eventMap[d].node
  <2> HIDE DEF own, last
  <2> QED BY <1>2, <1>3, <1>4
<1>6. n \in Name
  BY <1>1
<1> QED BY <1>5, <1>6

\* What is left of a node was said by an event about it.
LEMMA LeftWasSaid ==
  ASSUME TypeOK, SyncTypeOK, cmax <= Len(eventMap), NEW n,
         After(n, cmax + 1) # Nil
  PROVE  \E u \in 1 .. cmax : eventMap[u].name = n /\ After(n, cmax + 1) = eventMap[u].node
<1> DEFINE own == {u \in DOMAIN eventMap : u < cmax + 1 /\ eventMap[u].name = n}
<1> DEFINE last == CHOOSE u \in own : \A w \in own : w <= u
<1>1. cmax \in Nat /\ DOMAIN eventMap = 1 .. Len(eventMap) /\ Len(eventMap) \in Nat
  BY LogLength, Bounds DEF SyncTypeOK
<1>2. After(n, cmax + 1) =
        IF own = {} \/ eventMap[last].type = "delete" THEN Nil ELSE eventMap[last].node
  BY DEF After
<1>3. own \subseteq 1 .. cmax /\ \A u \in own : eventMap[u].name = n
  BY <1>1
<1> HIDE DEF own
<1>4. own # {} /\ After(n, cmax + 1) = eventMap[last].node
  BY <1>2
<1>5. last \in own
  BY <1>1, <1>3, <1>4, Greatest
<1> QED BY <1>3, <1>4, <1>5

\* At the last version the client has exactly the view after it.
LEMMA ViewIsExact ==
  ASSUME NEW a \in [Name -> IP], Fixed(a), TypeOK, SyncTypeOK, EventAddr(a),
         NoRedundantEvent, cmax <= Len(eventMap), View, at = cmax
  PROVE  cnodes = ViewAfter(cmax)
<1>1. /\ cmax \in Nat /\ Len(eventMap) \in Nat /\ DOMAIN eventMap = 1 .. Len(eventMap)
      /\ \A v \in 1 .. cmax : v \in 1 .. Len(eventMap) /\ eventMap[v] \in NodeEventObject
      /\ cnodes \in [IP -> ClientNode \cup {Nil}]
  <2>1. /\ eventMap \in Seq(NodeEventObject) /\ DOMAIN eventMap = 1 .. Len(eventMap)
        /\ Len(eventMap) \in Nat
    BY LogLength
  <2>2. \A v \in 1 .. Len(eventMap) : eventMap[v] \in NodeEventObject
    BY <2>1
  <2>3. cmax \in Nat
    BY Bounds DEF SyncTypeOK
  <2> QED BY <2>1, <2>2, <2>3 DEF SyncTypeOK
<1>2. \A v \in 1 .. cmax : /\ IPOf(v) = a[eventMap[v].name] /\ eventMap[v].name \in Name
                           /\ eventMap[v].node # Nil
                           /\ eventMap[v].type \in {"set", "delete"}
  BY <1>1, NilAssumption DEF EventAddr, NodeEventObject
<1>3. ASSUME NEW n \in Name, After(n, cmax + 1) # Nil
      PROVE  /\ After(n, cmax + 1).ip = a[n]
             /\ \E u \in 1 .. cmax : IPOf(u) = a[n]
  <2>1. PICK u \in 1 .. cmax : eventMap[u].name = n /\ After(n, cmax + 1) = eventMap[u].node
    BY <1>1, <1>3, LeftWasSaid
  <2> QED BY <1>2, <2>1 DEF IPOf
<1>4. ASSUME NEW ip \in IP PROVE cnodes[ip] = ViewAfter(cmax)[ip]
  <2> DEFINE Has(n) == After(n, cmax + 1) # Nil /\ After(n, cmax + 1).ip = ip
  <2> DEFINE c == CHOOSE n \in Name : Has(n)
  <2>1. ViewAfter(cmax)[ip] =
          IF \E n \in Name : Has(n)
          THEN [name |-> c, attr |-> After(c, cmax + 1).attr, rv |-> After(c, cmax + 1).rv]
          ELSE Nil
    BY DEF ViewAfter
  <2>2. ASSUME NEW n \in Name, Has(n) PROVE a[n] = ip /\ \E u \in 1 .. cmax : IPOf(u) = ip
    BY <1>3, <2>2
  <2>3. CASE \A w \in 1 .. cmax : IPOf(w) # ip
    <3>1. cnodes[ip] = Nil
      BY <2>3 DEF View
    <3>2. ~\E n \in Name : Has(n)
      BY <2>2, <2>3
    <3> HIDE DEF Has
    <3> QED BY <2>1, <3>1, <3>2
  <2>4. CASE \E w \in 1 .. cmax : IPOf(w) = ip
    <3> DEFINE T == {w \in 1 .. cmax : IPOf(w) = ip}
    <3>1. T \subseteq 1 .. cmax /\ T # {}
      BY <2>4
    <3>2. PICK d \in T : \A x \in T : x <= d
      <4> HIDE DEF T
      <4> QED BY <1>1, <3>1, Greatest
    <3>3. d \in 1 .. cmax /\ IPOf(d) = ip /\ Latest(d)
      BY <1>1, <3>2 DEF Latest
    <3> DEFINE n == eventMap[d].name
    <3>4. /\ n \in Name /\ a[n] = ip
          /\ After(n, cmax + 1) = IF eventMap[d].type = "delete" THEN Nil ELSE eventMap[d].node
      BY <1>2, <3>3, LatestIsLast
    <3>5. cnodes[ip] = Leaves(d)
      BY <1>1, <3>3 DEF View
    <3>6. \A m \in Name : Has(m) => m = n
      BY <2>2, <3>4 DEF Fixed
    <3>7. CASE eventMap[d].type = "delete"
      <4>1. ~Has(n)
        BY <3>4, <3>7
      <4>2. Leaves(d) = Nil
        BY <3>7 DEF Leaves
      <4> HIDE DEF Has, n
      <4> QED BY <2>1, <3>5, <3>6, <4>1, <4>2
    <3>8. CASE eventMap[d].type = "set"
      <4>1. Has(n) /\ After(n, cmax + 1) = eventMap[d].node
        BY <1>2, <3>3, <3>4, <3>8 DEF IPOf
      <4>2. eventMap[d].node.rv = d
        BY <1>1, <3>3, <3>8 DEF NoRedundantEvent
      <4>3. Leaves(d) = [name |-> n, attr |-> eventMap[d].node.attr, rv |-> d]
        BY <3>8 DEF Leaves
      <4> HIDE DEF Has, n
      <4>4. c = n
        BY <3>4, <3>6, <4>1
      <4> HIDE DEF c
      <4> QED BY <2>1, <3>4, <3>5, <4>1, <4>2, <4>3, <4>4
    <3> QED BY <1>2, <3>3, <3>7, <3>8
  <2> QED BY <2>3, <2>4
<1>5. ViewAfter(cmax) = [ip \in IP |-> ViewAfter(cmax)[ip]]
  BY DEF ViewAfter
<1> QED BY <1>1, <1>4, <1>5

\* A client that has handled all that the server has for it is at the server's
\* version.
LEMMA QuietAtEnd ==
  ASSUME SyncInv, PathInv, KnowInv, Quiescent, ~cut
  PROVE  at = cmax /\ cmax = Len(eventMap) /\ rv = Len(eventMap)
<1>1. /\ StreamInv /\ TypeOK /\ SyncTypeOK /\ Place /\ req \in Session /\ wpc = "idle"
      /\ spc[req] = "sending" /\ pending[req] = <<>> /\ queue[req] = <<>>
      /\ got = Len(sent[req]) /\ cpc = "watching"
  BY Bounds DEF SyncInv, StreamInv, KnowInv, Quiescent, SyncTypeOK
<1>2. /\ rv = Len(eventMap) /\ rv \in Nat /\ from[req] \in Nat /\ sent[req] \in Seq(Versions)
      /\ cmax \in Nat /\ at \in 0 .. cmax
  BY <1>1, LogLength, SessionTypes, Bounds DEF SyncTypeOK
<1>3. EnqueuedUpTo(req) = rv
  BY <1>1 DEF EnqueuedUpTo, TypeOK
<1>4. Course(req) = sent[req]
  <2>1. sent[req] \o <<>> = sent[req]
    BY <1>2, ConcatEmptySeq
  <2> QED BY <1>1, <2>1 DEF Course
<1>5. EndOf(from[req], sent[req]) >= rv
  BY <1>1, <1>3, <1>4 DEF PathInv, PathOK
<1>6. at = EndOf(from[req], sent[req])
  <2>1. got = 0 <=> sent[req] = <<>>
    BY <1>1, <1>2
  <2> QED BY <1>1, <2>1 DEF Place, EndOf
<1>7. cmax <= Len(eventMap)
  BY <1>1 DEF Place
<1> QED BY <1>2, <1>5, <1>6, <1>7

-----------------------------------------------------------------------------
(* The inductive invariant of the client's knowledge.                      *)

AddrInv == \E a \in [Name -> IP] : Fixed(a) /\ IPInv(a) /\ EventAddr(a)

ClientInv == SyncInv /\ (restarts = 0 => PathInv /\ LogInv /\ KnowInv /\ AddrInv)

\* The client knows nothing of an empty server.
LEMMA ClientInvInit == FixedAddresses /\ SyncInit => ClientInv
<1> SUFFICES ASSUME FixedAddresses, SyncInit PROVE ClientInv
  OBVIOUS
<1>1. Init /\ SyncInv
  BY SyncInitially DEF SyncInit
<1>2. PathInv /\ LogInv
  BY <1>1, PathInit, LogInit
<1>3. 0 \in Session /\ Len(eventMap) = 0 /\ Len(<<>>) = 0
  BY <1>1, Bounds DEF Init
<1>4. KnowInv
  <2>1. Request0
    BY <1>1, <1>3 DEF Init, Request0
  <2>2. Place
    BY <1>3 DEF SyncInit, Place
  <2>3. View
    BY DEF SyncInit, NoNodes, View
  <2> QED BY <2>1, <2>2, <2>3 DEF KnowInv
<1>5. AddrInv
  <2>1. PICK a \in [Name -> IP] : Fixed(a)
    BY DEF FixedAddresses
  <2>2. IPInv(a)
    BY <1>1 DEF Init, IPInv
  <2>3. EventAddr(a)
    BY <1>3 DEF EventAddr
  <2> QED BY <2>1, <2>2, <2>3 DEF AddrInv
<1> QED BY <1>1, <1>2, <1>4, <1>5 DEF ClientInv

\* Each step keeps it; a restart ends what it says.
LEMMA ClientInvStep == ClientInv /\ [SyncNext]_syncVars => ClientInv'
<1> SUFFICES ASSUME ClientInv, [SyncNext]_syncVars PROVE ClientInv'
  OBVIOUS
<1>1. SyncInv /\ SyncInv'
  BY SyncStep DEF ClientInv
<1>2. StreamInv' /\ TypeOK /\ TypeOK'
  BY <1>1 DEF SyncInv, StreamInv
<1> SUFFICES ASSUME restarts' = 0 PROVE PathInv' /\ LogInv' /\ KnowInv' /\ AddrInv'
  BY <1>1 DEF ClientInv
<1>3. restarts = 0 /\ ~ServerRestart
  <2>1. ServerRestart => restarts' = restarts + 1
    BY DEF ServerRestart
  <2>2. ~ServerRestart => restarts' = restarts
    BY DEF SyncNext, ServerStep, ClientTurn, ClientList, ClientHandle, ClientListed,
       ClientExits, ClientWatch, ClientDrop, StreamBreaks, syncVars
  <2>3. restarts \in Nat
    BY <1>1, Bounds DEF SyncInv, SyncTypeOK
  <2>4. restarts' # restarts + 1
    BY <2>3
  <2> QED BY <2>1, <2>2, <2>4
<1>4. [Next]_vars
  BY <1>1, <1>3, ServerMoves
<1>5. PathInv /\ LogInv /\ KnowInv /\ AddrInv
  BY <1>3 DEF ClientInv
<1>6. PathInv' /\ LogInv' /\ KnowInv'
  BY <1>1, <1>2, <1>3, <1>4, <1>5, PathStep, LogStep, KnowStep
<1>7. AddrInv'
  <2>1. PICK a \in [Name -> IP] : Fixed(a) /\ IPInv(a) /\ EventAddr(a)
    BY <1>5 DEF AddrInv
  <2>2. IPInv(a)' /\ EventAddr(a)'
    BY <1>2, <1>4, <2>1, IPStep, EventAddrStep
  <2> QED BY <2>1, <2>2 DEF AddrInv
<1> QED BY <1>6, <1>7

\* What it says of the client.
LEMMA ClientKnows ==
  ASSUME ClientInv, restarts = 0, ~cut, at = cmax
  PROVE  cnodes = ViewAfter(cmax)
<1>1. PICK a \in [Name -> IP] : Fixed(a) /\ EventAddr(a)
  BY DEF ClientInv, AddrInv
<1> QED BY <1>1, ViewIsExact DEF ClientInv, SyncInv, LogInv, KnowInv, Place

\* While each node has an address of its own: whenever the last message that
\* the client handled (node_informer.rs:88-118) is the newest it has seen, its
\* nodes are exactly those of the server at that version, however often the
\* stream was broken and taken up again.
THEOREM ClientExact == FixedAddresses /\ SyncSpec => []ClientAtVersion
<1>1. ClientInv => ClientAtVersion
  BY ClientKnows DEF ClientAtVersion
<1> QED BY ClientInvInit, ClientInvStep, <1>1, PTL DEF SyncSpec

\* And once it has handled all that the server has for it, those are the nodes
\* that the server has now.
THEOREM ClientSynced == FixedAddresses /\ SyncSpec => []SyncedWhenQuiet
<1>1. ClientInv => SyncedWhenQuiet
  <2> SUFFICES ASSUME ClientInv, Quiescent, restarts = 0, ~cut PROVE Synced
    BY DEF SyncedWhenQuiet
  <2>1. SyncInv /\ PathInv /\ LogInv /\ KnowInv /\ wpc = "idle"
    BY DEF ClientInv, Quiescent
  <2>2. PICK a \in [Name -> IP] : Fixed(a) /\ IPInv(a)
    BY DEF ClientInv, AddrInv
  <2>3. at = cmax /\ cmax = Len(eventMap)
    BY <2>1, QuietAtEnd
  <2>4. cnodes = ViewAfter(cmax)
    BY <2>3, ClientKnows
  <2>5. \A n \in Name : After(n, cmax + 1) = nodeMap[n]
    BY <2>1, <2>3 DEF LogInv, MapInv, Left
  <2>6. \A n \in Name : nodeMap[n] # Nil => nodeMap[n].ip = a[n] /\ a[n] \in IP
    BY <2>2 DEF IPInv
  <2>7. ASSUME NEW ip \in IP
        PROVE  /\ (\E n \in Name : nodeMap[n] # Nil /\ nodeMap[n].ip = ip) =>
                     \E n \in Name :
                       /\ nodeMap[n] # Nil /\ nodeMap[n].ip = ip
                       /\ cnodes[ip] = [name |-> n, attr |-> nodeMap[n].attr,
                                        rv |-> nodeMap[n].rv]
               /\ ~(\E n \in Name : nodeMap[n] # Nil /\ nodeMap[n].ip = ip) => cnodes[ip] = Nil
    <3> DEFINE Has(n) == After(n, cmax + 1) # Nil /\ After(n, cmax + 1).ip = ip
    <3> DEFINE c == CHOOSE n \in Name : Has(n)
    <3>1. cnodes[ip] =
            IF \E n \in Name : Has(n)
            THEN [name |-> c, attr |-> After(c, cmax + 1).attr, rv |-> After(c, cmax + 1).rv]
            ELSE Nil
      BY <2>4 DEF ViewAfter
    <3>2. \A n \in Name : Has(n) <=> nodeMap[n] # Nil /\ nodeMap[n].ip = ip
      BY <2>5
    <3> HIDE DEF Has
    <3>3. (\E n \in Name : Has(n)) => c \in Name /\ Has(c)
      OBVIOUS
    <3> HIDE DEF c
    <3> QED BY <2>5, <3>1, <3>2, <3>3
  <2>8. ASSUME NEW m \in Name, NEW n \in Name, nodeMap[m] # Nil, nodeMap[n] # Nil,
               nodeMap[m].ip = nodeMap[n].ip
        PROVE  m = n
    BY <2>2, <2>6, <2>8 DEF Fixed
  <2>9. ASSUME NEW n \in Name, nodeMap[n] # Nil
        PROVE  /\ cnodes[nodeMap[n].ip] # Nil
               /\ cnodes[nodeMap[n].ip].name = n
               /\ cnodes[nodeMap[n].ip].attr = nodeMap[n].attr
    <3>1. nodeMap[n].ip \in IP
      BY <2>6, <2>9
    <3>2. PICK m \in Name :
            /\ nodeMap[m] # Nil /\ nodeMap[m].ip = nodeMap[n].ip
            /\ cnodes[nodeMap[n].ip] = [name |-> m, attr |-> nodeMap[m].attr,
                                        rv |-> nodeMap[m].rv]
      BY <2>7, <2>9, <3>1
    <3>3. m = n
      BY <2>8, <2>9, <3>2
    <3>4. cnodes[nodeMap[n].ip] # Nil
      <4> DEFINE o == [name |-> m, attr |-> nodeMap[m].attr, rv |-> nodeMap[m].rv]
      <4>1. nodeMap[m] \in NodeObject
        BY <2>1, <3>2 DEF LogInv, TypeOK
      <4>2. o \in ClientNode
        BY <4>1 DEF NodeObject, ClientNode, Versions
      <4>3. o # Nil
        BY <4>2, ClientNilAssumption
      <4> QED BY <3>2, <4>3
    <3> QED BY <3>2, <3>3, <3>4
  <2>10. ASSUME NEW ip \in IP, cnodes[ip] # Nil
         PROVE  nodeMap[cnodes[ip].name] # Nil /\ nodeMap[cnodes[ip].name].ip = ip
    <3>1. \E n \in Name : nodeMap[n] # Nil /\ nodeMap[n].ip = ip
      BY <2>7, <2>10
    <3>2. PICK n \in Name :
            /\ nodeMap[n] # Nil /\ nodeMap[n].ip = ip
            /\ cnodes[ip] = [name |-> n, attr |-> nodeMap[n].attr, rv |-> nodeMap[n].rv]
      BY <2>7, <2>10, <3>1
    <3> QED BY <3>2
  <2> QED BY <2>9, <2>10 DEF Synced
<1> QED BY ClientInvInit, ClientInvStep, <1>1, PTL DEF SyncSpec
=============================================================================
