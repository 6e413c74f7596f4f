--------------------------- MODULE NodeStreamProofs ---------------------------
(***************************************************************************)
(* What a request of NodeStore is sent, for every set of nodes, requests   *)
(* and addresses and every bound on the versions.                          *)
(*                                                                         *)
(* NodeStore implements EventFeed: each step of the worker, of a request   *)
(* or of a client is a step of EventFeed or changes nothing that it sees.  *)
(* StreamInv of NodeStoreProofs is what makes a send a Deliver.            *)
(*                                                                         *)
(* A stream goes back at most once.  The invariant looks at what is sent,  *)
(* pending and queued as one sequence: it goes up by one, except at one    *)
(* place, where the queue took over.                                       *)
(***************************************************************************)
EXTENDS NodeStoreProofs

-----------------------------------------------------------------------------
(* The invariant of the refinement.                                        *)

\* What StreamInv does not say of a request that is not served yet, or has no
\* queue: its stream is closed, and it asks for all versions.
Early(s) ==
  /\ spc[s] = "idle" => s \notin open
  /\ spc[s] \in {"idle", "list", "listing"} /\ s \notin queueMap => from[s] = 0

FeedInv == StreamInv /\ \A s \in Session : Early(s)

\* The inductive invariant holds at the start ...
LEMMA FeedInvInit == Init => FeedInv
BY StreamInit DEF Init, FeedInv, Early

\* ... and is kept.
LEMMA FeedInvStep == FeedInv /\ [Next]_vars => FeedInv'
<1> SUFFICES ASSUME FeedInv, [Next]_vars PROVE FeedInv'
  OBVIOUS
<1>1. StreamInv /\ StreamInv' /\ TypeOK /\ \A s \in Session : Early(s) /\ SessionInv(s)
  BY StreamStep DEF FeedInv, StreamInv
<1> SUFFICES ASSUME NEW t \in Session PROVE Early(t)'
  BY <1>1 DEF FeedInv
<1> USE <1>1
<1>2. CASE ClusterStep \/ WriterStep \/ (up /\ MapRace) \/ UNCHANGED vars
  BY <1>2 DEF ClusterStep, WriterStep, MapRace, vars, SetNode, DeleteNode, StoreNodeEvent,
              EnqueueNode, FinishNode, sessionVars, Early
<1>3. ASSUME NEW s \in Session, SessionStep(s) PROVE Early(t)'
  <2>1. CASE AddNodeQueue(s)
    BY <2>1 DEF AddNodeQueue, Early, TypeOK
  <2>2. CASE ListNodeStart(s) \/ ListNodeRead(s) \/ ListNodeNil(s) \/ ConvertIPPanics(s)
    BY <2>2
       DEF ListNodeStart, ListNodeRead, ListNodeNil, ConvertIPPanics, sessionVars, Early, TypeOK
  <2>3. CASE ListNodeEnd(s)
    BY <2>3 DEF ListNodeEnd, Early, TypeOK
  <2>4. CASE SendNode(s) \/ SendFails(s) \/ DequeueNode(s)
    BY <2>4 DEF SendNode, SendFails, DequeueNode, Early, TypeOK
  <2>5. CASE RemoveNodeQueue(s)
    BY <2>5 DEF RemoveNodeQueue, Early, TypeOK
  <2> QED BY <1>3, <2>1, <2>2, <2>3, <2>4, <2>5 DEF SessionStep
<1>4. ASSUME NEW s \in Session, ClientStep(s) PROVE Early(t)'
  BY <1>4 DEF ClientStep, WatchNode, ListNode, Disconnect, Early, TypeOK
<1> QED BY <1>2, <1>3, <1>4 DEF Next

-----------------------------------------------------------------------------
(* The steps, as EventFeed sees them.                                      *)

\* The versions that were sent, by request.
Seen == [s \in Session |-> Sent(s)]

\* EventFeed sees nothing of a step that leaves the log, the streams and the
\* versions asked for alone.
LEMMA Unseen ==
  ASSUME eventMap' = eventMap, up' = up, open' = open, from' = from, sent' = sent
  PROVE  UNCHANGED Feed!vars
<1>1. \A s \in Session : Sent(s)' = Sent(s)
  BY DEF Sent
<1> QED BY <1>1 DEF Feed!vars, Live

\* The worker stores an event: it is published.
LEMMA StorePublishes ==
  ASSUME FeedInv, up, StoreNodeEvent
  PROVE  Feed!Next
<1>1. /\ TypeOK /\ rv \in 1 .. MaxVersion /\ cur \in NodeEventObject
      /\ eventMap \in Seq(NodeEventObject) /\ DOMAIN eventMap = 1 .. (rv - 1)
  BY MaxVersionAssumption DEF FeedInv, StreamInv, TypeOK, StoreNodeEvent
<1>2. Len(eventMap) = rv - 1
  BY <1>1, MaxVersionAssumption
<1>3. eventMap' = Append(eventMap, cur)
  <2> DEFINE longer == Append(eventMap, cur)
  <2>1. /\ longer \in Seq(NodeEventObject) /\ Len(longer) = rv
        /\ \A i \in 1 .. (rv - 1) : longer[i] = eventMap[i]
        /\ longer[rv] = cur
    BY <1>1, <1>2, AppendProperties
  <2>2. eventMap' = [v \in 1 .. rv |-> IF v = rv THEN cur ELSE eventMap[v]]
    <3>1. (1 .. (rv - 1)) \cup {rv} = 1 .. rv
      BY <1>1, MaxVersionAssumption
    <3> QED BY <1>1, <3>1 DEF StoreNodeEvent
  <2>3. eventMap' \in Seq(NodeEventObject) /\ Len(eventMap') = rv
    <3>1. eventMap' \in [1 .. rv -> NodeEventObject] /\ rv \in Nat
      BY <1>1, <2>2, MaxVersionAssumption
    <3> QED BY <3>1, IsASeq
  <2>4. \A i \in 1 .. Len(eventMap') : eventMap'[i] = longer[i]
    BY <1>1, <2>1, <2>2, <2>3, MaxVersionAssumption
  <2> QED BY <2>1, <2>3, <2>4, SeqEqual
<1>4. UNCHANGED <<Live, from, Seen>>
  BY DEF StoreNodeEvent, sessionVars, Live, Seen, Sent
<1>5. Feed!Publish(cur)
  BY <1>1, <1>2, <1>3, <1>4, MaxVersionAssumption DEF Feed!Publish, Seen
<1> QED BY <1>1, <1>5 DEF Feed!Next

\* The request of a client subscribes it.
LEMMA CallSubscribes ==
  ASSUME FeedInv, up, NEW s \in Session,
         (\E m \in 0 .. MaxVersion : WatchNode(s, m)) \/ ListNode(s)
  PROVE  Feed!Next
<1>1. TypeOK /\ SessionInv(s) /\ Early(s)
  BY DEF FeedInv, StreamInv
<1>2. spc[s] = "idle" /\ s \notin open /\ s \notin queueMap /\ from[s] = 0 /\ sent[s] = <<>>
  BY <1>1 DEF WatchNode, ListNode, SessionInv, Phases, Early
<1>3. PICK m \in 0 .. MaxVersion : from' = [from EXCEPT ![s] = m]
  <2>1. CASE ListNode(s)
    <3>1. from' = [from EXCEPT ![s] = 0] /\ 0 \in 0 .. MaxVersion
      BY <1>1, <1>2, <2>1, MaxVersionAssumption DEF ListNode, TypeOK
    <3> QED BY <3>1
  <2>2. CASE \E m \in 0 .. MaxVersion : WatchNode(s, m)
    BY <2>2 DEF WatchNode
  <2> QED BY <2>1, <2>2
<1>4. /\ up' = up /\ open' = open \cup {s} /\ sent' = sent /\ eventMap' = eventMap
  BY DEF WatchNode, ListNode, storeVars
<1>5. Seen' = [Seen EXCEPT ![s] = {}]
  BY <1>2, <1>4, RangeSmall DEF Seen, Sent
<1>6. Feed!Subscribe(s, m)
  BY <1>2, <1>3, <1>4, <1>5 DEF Feed!Subscribe, Live, Seen
<1> QED BY <1>6 DEF Feed!Next

\* A send delivers the first version pending, and all that the client asked for
\* before it was sent already.
LEMMA SendDelivers ==
  ASSUME FeedInv, up, NEW s \in Session, SendNode(s)
  PROVE  Feed!Next
<1> DEFINE h == Head(pending[s])
<1>1. /\ TypeOK /\ SessionInv(s) /\ pending[s] \in Seq(Versions)
      /\ sent[s] \in Seq(Versions) /\ from[s] \in Nat
  BY SessionTypes DEF FeedInv, StreamInv
<1>2. h \in Versions /\ h = pending[s][1] /\ 1 \in 1 .. Len(pending[s])
      /\ h \in Range(pending[s])
  BY <1>1, RangeHeadTail DEF SendNode
<1>3. (from[s] + 1) .. (h - 1) \subseteq Sent(s)
  BY <1>1, <1>2 DEF SendNode, SessionInv, SendingOK
<1>4. h \in 1 .. Len(eventMap)
  <2>1. h \in DOMAIN eventMap /\ eventMap \in Seq(NodeEventObject)
    BY <1>1, <1>2 DEF SessionInv, InLog, TypeOK
  <2> QED BY <2>1
<1>5. sent' = [sent EXCEPT ![s] = Append(@, h)] /\ sent \in [Session -> Seq(Versions)]
  BY <1>1 DEF SendNode, TypeOK
<1> HIDE DEF h
<1>6. Range(Append(sent[s], h)) = Sent(s) \cup {h}
  BY <1>1, <1>2, RangeAppend DEF Sent
<1>7. Sent(s) \cup {h} = Sent(s) \cup (from[s] + 1) .. h \cup {h}
  BY <1>1, <1>2, <1>3 DEF Versions
<1>8. Seen' = [Seen EXCEPT ![s] = @ \cup (from[s] + 1) .. h \cup {h}]
  BY <1>5, <1>6, <1>7 DEF Seen, Sent
<1>9. s \in Live /\ UNCHANGED <<eventMap, Live, from>>
  BY DEF SendNode, Live, storeVars
<1>10. Feed!Deliver(s, h)
  BY <1>4, <1>8, <1>9 DEF Feed!Deliver, Feed!Sends, Seen
<1> QED BY <1>2, <1>10 DEF Feed!Next, Versions

\* The end of a listing answers a list request whose client is there, and is
\* not seen otherwise.
LEMMA ListEndAnswers ==
  ASSUME FeedInv, up, NEW s \in Session, ListNodeEnd(s)
  PROVE  Feed!Next \/ UNCHANGED Feed!vars
<1> DEFINE n == Len(pending[s])
<1>1. /\ TypeOK /\ SessionInv(s) /\ Early(s) /\ pending[s] \in Seq(Versions) /\ n \in Nat
      /\ eventMap \in Seq(NodeEventObject) /\ Len(eventMap) \in Nat
  BY SessionTypes DEF FeedInv, StreamInv, TypeOK
<1>2. CASE s \in queueMap
  BY <1>2, Unseen DEF ListNodeEnd, storeVars, writerVars
<1>3. CASE s \notin queueMap /\ s \notin open
  <2>1. open' = open
    BY <1>3 DEF ListNodeEnd
  <2> QED BY <1>3, <2>1, Unseen DEF ListNodeEnd, storeVars, writerVars
<1>4. CASE s \notin queueMap /\ s \in open
  <2>1. from[s] = 0 /\ \A i \in 1 .. n : pending[s][i] = i
    BY <1>1, <1>4 DEF ListNodeEnd, SessionInv, ListingOK, Early
  <2>2. Range(pending[s]) = 1 .. n
    <3>1. DOMAIN pending[s] = 1 .. n
      BY <1>1
    <3> QED BY <2>1, <3>1 DEF Range
  <2>3. n \in 0 .. Len(eventMap) /\ n \in 0 .. MaxVersion
    <3>1. n \in Range(pending[s]) \/ n = 0
      BY <1>1, <2>2
    <3>2. CASE n \in Range(pending[s])
      <4>1. n \in DOMAIN eventMap
        BY <1>1, <3>2 DEF SessionInv, InLog
      <4>2. n \in 1 .. Len(eventMap)
        BY <1>1, <4>1
      <4>3. n \in 1 .. rv /\ rv \in 0 .. MaxVersion
        BY <1>1, <4>1, MaxVersionAssumption DEF TypeOK
      <4> QED BY <4>2, <4>3, MaxVersionAssumption
    <3> QED BY <1>1, <3>1, <3>2, MaxVersionAssumption
  <2>4. Seen' = [Seen EXCEPT ![s] = 1 .. n]
    <3>1. sent' = [sent EXCEPT ![s] = pending[s]] /\ sent \in [Session -> Seq(Versions)]
      BY <1>1, <1>4 DEF ListNodeEnd, TypeOK
    <3> QED BY <2>2, <3>1 DEF Seen, Sent
  <2>5. s \in Live /\ Live' = Live \ {s} /\ UNCHANGED <<eventMap, from>>
    BY <1>4 DEF ListNodeEnd, Live, storeVars
  <2> HIDE DEF n
  <2>6. Feed!Answer(s, n)
    BY <2>1, <2>3, <2>4, <2>5 DEF Feed!Answer, Seen
  <2> QED BY <2>3, <2>6 DEF Feed!Next
<1> QED BY <1>2, <1>3, <1>4

\* When the process ends, so does the feed.
LEMMA StopStops ==
  ASSUME up' = FALSE, eventMap' = eventMap, from' = from, sent' = sent
  PROVE  Feed!Next
<1>1. Live' = {} /\ Seen' = Seen
  BY DEF Live, Seen, Sent
<1> QED BY <1>1 DEF Feed!Next, Feed!Stop, Seen

\* The initial states of the store are those of the feed.
LEMMA FeedInit == Init => Feed!Init
<1> SUFFICES ASSUME Init PROVE Feed!Init
  OBVIOUS
<1>1. \A s \in Session : Sent(s) = {}
  BY RangeSmall DEF Init, Sent
<1> QED BY <1>1 DEF Init, Feed!Init, Live

\* Every step of the store is a step of the feed, or none.
LEMMA FeedStep == FeedInv /\ [Next]_vars => [Feed!Next]_(Feed!vars)
<1> SUFFICES ASSUME FeedInv, [Next]_vars PROVE Feed!Next \/ UNCHANGED Feed!vars
  OBVIOUS
<1>1. CASE ClusterStep
  BY <1>1, Unseen DEF ClusterStep, SetNode, DeleteNode, sessionVars
<1>2. CASE WriterStep
  <2>1. CASE StoreNodeEvent
    BY <1>2, <2>1, StorePublishes DEF WriterStep
  <2>2. CASE FinishNode \/ \E s \in Session : EnqueueNode(s)
    BY <2>2, Unseen DEF FinishNode, EnqueueNode, storeVars, sessionVars
  <2> QED BY <1>2, <2>1, <2>2 DEF WriterStep
<1>3. ASSUME NEW s \in Session, SessionStep(s) PROVE Feed!Next \/ UNCHANGED Feed!vars
  <2>1. CASE SendNode(s)
    BY <1>3, <2>1, SendDelivers DEF SessionStep
  <2>2. CASE ListNodeEnd(s)
    BY <1>3, <2>2, ListEndAnswers DEF SessionStep
  <2>3. CASE ListNodeNil(s) \/ ConvertIPPanics(s)
    BY <2>3, StopStops DEF ListNodeNil, ConvertIPPanics, storeVars, sessionVars
  <2>4. CASE \/ AddNodeQueue(s) \/ ListNodeStart(s) \/ ListNodeRead(s)
             \/ SendFails(s) \/ DequeueNode(s) \/ RemoveNodeQueue(s)
    BY <2>4, Unseen DEF AddNodeQueue, ListNodeStart, ListNodeRead, SendFails, DequeueNode,
                        RemoveNodeQueue, storeVars, writerVars
  <2> QED BY <1>3, <2>1, <2>2, <2>3, <2>4 DEF SessionStep
<1>4. ASSUME NEW s \in Session, ClientStep(s) PROVE Feed!Next \/ UNCHANGED Feed!vars
  <2>1. CASE Disconnect(s)
    <3>1. s \in Live /\ Live' = Live \ {s} /\ UNCHANGED <<eventMap, from, Seen>>
      BY <1>4, <2>1 DEF ClientStep, Disconnect, Live, Seen, Sent, storeVars
    <3> QED BY <3>1 DEF Feed!Next, Feed!Unsubscribe, Seen
  <2>2. CASE ~Disconnect(s)
    BY <1>4, <2>2, CallSubscribes DEF ClientStep
  <2> QED BY <2>1, <2>2
<1>5. CASE up /\ MapRace
  BY <1>5, StopStops DEF MapRace, storeVars, sessionVars
<1>6. CASE UNCHANGED vars
  BY <1>6, Unseen DEF vars, storeVars, sessionVars
<1> QED BY <1>1, <1>2, <1>3, <1>4, <1>5, <1>6 DEF Next

\* The node service is an EventFeed: whatever the interleaving of the worker
\* with WatchNode and ListNode, the log only grows at its end and each stream
\* is a gap-free replay of it.
THEOREM FeedImplemented == Spec => ImplementsFeed
<1>1. Spec => []FeedInv
  BY FeedInvInit, FeedInvStep, PTL DEF Spec
<1>2. Spec => Feed!Spec
  BY <1>1, FeedInit, FeedStep, PTL DEF Spec, Feed!Spec
<1> QED BY <1>2 DEF ImplementsFeed

-----------------------------------------------------------------------------
(* What is sent, pending and queued, as one sequence.                      *)

\* Each version follows the one before it, except at position b.
StepsExceptAt(q, b) == \A i \in 2 .. Len(q) : i # b => q[i] = q[i - 1] + 1

Steady(q) == StepsExceptAt(q, 0)

JumpsOnce(q) == \E b \in Nat : StepsExceptAt(q, b)

\* All that a request has sent and holds.
Course(s) == sent[s] \o pending[s] \o queue[s]

\* The jump is still to come, or what the request holds ends with the last
\* version it was offered.
CourseOK(s) ==
  spc[s] = "sending" =>
    /\ JumpsOnce(Course(s))
    /\ Steady(Course(s)) \/
         (Course(s) # <<>> /\ Course(s)[Len(Course(s))] = EnqueuedUpTo(s))

\* The inductive invariant.
RewindInv == StreamInv /\ \A s \in Session : JumpsOnce(sent[s]) /\ CourseOK(s)

-----------------------------------------------------------------------------
(* Sequences that jump once.                                               *)

\* The start of such a sequence is one.
LEMMA JumpsOncePrefix ==
  ASSUME NEW p \in Seq(Versions), NEW q \in Seq(Versions), JumpsOnce(p \o q)
  PROVE  JumpsOnce(p)
<1>1. PICK b \in Nat : StepsExceptAt(p \o q, b)
  BY DEF JumpsOnce
<1>2. /\ Len(p) \in Nat /\ Len(q) \in Nat /\ Len(p \o q) = Len(p) + Len(q)
      /\ \A i \in 1 .. Len(p) : (p \o q)[i] = p[i]
  BY ConcatProperties
<1>3. StepsExceptAt(p, b)
  <2> SUFFICES ASSUME NEW i \in 2 .. Len(p), i # b PROVE p[i] = p[i - 1] + 1
    BY DEF StepsExceptAt
  <2>1. i \in 2 .. Len(p \o q) /\ i \in 1 .. Len(p) /\ i - 1 \in 1 .. Len(p)
    BY <1>2
  <2> QED BY <1>1, <1>2, <2>1 DEF StepsExceptAt
<1> QED BY <1>3 DEF JumpsOnce

\* One more version keeps a sequence one that jumps once, if it follows the
\* last or is the first jump.
LEMMA JumpsOnceAppend ==
  ASSUME NEW q \in Seq(Versions), NEW v \in Versions, JumpsOnce(q),
         Steady(q) \/ (q # <<>> /\ q[Len(q)] = v - 1)
  PROVE  JumpsOnce(Append(q, v))
<1>1. /\ Len(q) \in Nat /\ Len(Append(q, v)) = Len(q) + 1
      /\ \A i \in 1 .. Len(q) : Append(q, v)[i] = q[i] /\ Append(q, v)[i] \in Int
      /\ Append(q, v)[Len(q) + 1] = v /\ v \in Int
  <2>1. \A i \in 1 .. Len(q) : q[i] \in Versions
    OBVIOUS
  <2>2. Versions \subseteq Int
    BY DEF Versions
  <2>3. \A i \in 1 .. Len(q) : q[i] \in Int
    BY <2>1, <2>2
  <2> QED BY <2>2, <2>3, AppendProperties
<1>2. ASSUME NEW b \in Nat, StepsExceptAt(q, b), NEW c \in Nat,
             \A i \in 2 .. Len(q) : i # c => i # b,
             Len(q) + 1 = c \/ Len(q) = 0 \/ q[Len(q)] = v - 1
      PROVE  StepsExceptAt(Append(q, v), c)
  <2> SUFFICES ASSUME NEW i \in 2 .. (Len(q) + 1), i # c
               PROVE  Append(q, v)[i] = Append(q, v)[i - 1] + 1
    BY <1>1 DEF StepsExceptAt
  <2>1. CASE i \in 2 .. Len(q)
    <3>1. i \in 1 .. Len(q) /\ i - 1 \in 1 .. Len(q) /\ i # b
      BY <1>1, <1>2, <2>1
    <3>2. q[i] = q[i - 1] + 1
      BY <1>2, <2>1, <3>1 DEF StepsExceptAt
    <3> QED BY <1>1, <3>1, <3>2
  <2>2. CASE i = Len(q) + 1
    <3>1. i - 1 = Len(q) /\ Len(q) \in 1 .. Len(q)
      BY <1>1, <2>2
    <3>2. q[Len(q)] = v - 1
      BY <1>1, <1>2, <2>2, <3>1
    <3> QED BY <1>1, <2>2, <3>1, <3>2
  <2> QED BY <1>1, <2>1, <2>2
<1>3. CASE Steady(q)
  <2>1. StepsExceptAt(Append(q, v), Len(q) + 1)
    BY <1>1, <1>2, <1>3 DEF Steady
  <2> QED BY <1>1, <2>1 DEF JumpsOnce
<1>4. CASE q # <<>> /\ q[Len(q)] = v - 1
  <2>1. PICK b \in Nat : StepsExceptAt(q, b)
    BY DEF JumpsOnce
  <2>2. StepsExceptAt(Append(q, v), b)
    BY <1>2, <1>4, <2>1
  <2> QED BY <2>2 DEF JumpsOnce
<1> QED BY <1>3, <1>4

\* Two sequences without a jump make one that jumps once.
LEMMA SteadyConcat ==
  ASSUME NEW p \in Seq(Versions), NEW q \in Seq(Versions), Steady(p), Steady(q)
  PROVE  JumpsOnce(p \o q)
<1> DEFINE b == Len(p) + 1
<1>1. /\ Len(p) \in Nat /\ Len(q) \in Nat /\ Len(p \o q) = Len(p) + Len(q)
      /\ \A i \in 1 .. (Len(p) + Len(q)) :
           (p \o q)[i] = IF i <= Len(p) THEN p[i] ELSE q[i - Len(p)]
  BY ConcatProperties
<1>2. StepsExceptAt(p \o q, b)
  <2> SUFFICES ASSUME NEW i \in 2 .. (Len(p) + Len(q)), i # b
               PROVE  (p \o q)[i] = (p \o q)[i - 1] + 1
    BY <1>1 DEF StepsExceptAt
  <2>1. CASE i <= Len(p)
    <3>1. (p \o q)[i] = p[i] /\ (p \o q)[i - 1] = p[i - 1]
      BY <1>1, <2>1
    <3>2. p[i] = p[i - 1] + 1
      BY <1>1, <2>1 DEF Steady, StepsExceptAt
    <3> QED BY <3>1, <3>2
  <2>2. CASE i > Len(p) + 1
    <3> DEFINE j == i - Len(p)
    <3>1. j \in 2 .. Len(q) /\ j - 1 = i - 1 - Len(p)
      BY <1>1, <2>2
    <3>2. (p \o q)[i] = q[j] /\ (p \o q)[i - 1] = q[j - 1]
      BY <1>1, <2>2, <3>1
    <3>3. q[j] = q[j - 1] + 1
      <4> HIDE DEF j
      <4> QED BY <3>1 DEF Steady, StepsExceptAt
    <3> QED BY <3>2, <3>3
  <2> QED BY <1>1, <2>1, <2>2, SMTT(20)
<1>3. b \in Nat
  BY <1>1
<1> QED BY <1>2, <1>3 DEF JumpsOnce

\* The last version of two sequences is that of the second.
LEMMA LastOfConcat ==
  ASSUME NEW p \in Seq(Versions), NEW q \in Seq(Versions), q # <<>>
  PROVE  p \o q # <<>> /\ (p \o q)[Len(p \o q)] = q[Len(q)]
<1> DEFINE l == Len(p) + Len(q)
<1>1. Len(p) \in Nat /\ Len(q) \in Nat \ {0} /\ Len(p \o q) = l
  BY ConcatProperties
<1>2. l \in 1 .. l /\ ~(l <= Len(p)) /\ l - Len(p) = Len(q)
  BY <1>1
<1>3. (p \o q)[l] = q[l - Len(p)]
  BY <1>1, <1>2, ConcatProperties
<1> QED BY <1>1, <1>2, <1>3

\* The head of one sequence can be the end of the other.
LEMMA MoveHead ==
  ASSUME NEW p \in Seq(Versions), NEW q \in Seq(Versions), q # <<>>
  PROVE  Append(p, Head(q)) \o Tail(q) = p \o q
<1>1. Head(q) \in Versions /\ Tail(q) \in Seq(Versions)
  BY HeadTailProperties
<1>2. Append(p, Head(q)) = p \o <<Head(q)>> /\ <<Head(q)>> \in Seq(Versions)
  BY <1>1, AppendIsConcat
<1>3. (p \o <<Head(q)>>) \o Tail(q) = p \o (<<Head(q)>> \o Tail(q))
  BY <1>1, <1>2, ConcatAssociative
<1>4. <<Head(q)>> \o Tail(q) = q
  OBVIOUS
<1> QED BY <1>2, <1>3, <1>4

\* An appended version can be appended to what comes before.
LEMMA AppendLater ==
  ASSUME NEW p \in Seq(Versions), NEW q \in Seq(Versions), NEW v \in Versions
  PROVE  p \o Append(q, v) = Append(p \o q, v)
<1>1. Append(q, v) = q \o <<v>> /\ <<v>> \in Seq(Versions) /\ p \o q \in Seq(Versions)
  BY AppendIsConcat, ConcatProperties
<1>2. Append(p \o q, v) = (p \o q) \o <<v>>
  BY <1>1, AppendIsConcat
<1> QED BY <1>1, <1>2, ConcatAssociative

-----------------------------------------------------------------------------
(* Each step of a request.                                                 *)

\* The parts of a course are sequences of versions.
LEMMA CourseTypes ==
  ASSUME TypeOK, NEW s \in Session
  PROVE  /\ sent[s] \in Seq(Versions) /\ pending[s] \in Seq(Versions)
         /\ queue[s] \in Seq(Versions) /\ sent[s] \o pending[s] \in Seq(Versions)
         /\ Course(s) \in Seq(Versions)
<1>1. sent[s] \in Seq(Versions) /\ pending[s] \in Seq(Versions) /\ queue[s] \in Seq(Versions)
  BY DEF TypeOK
<1>2. sent[s] \o pending[s] \in Seq(Versions)
  BY <1>1, ConcatProperties
<1> QED BY <1>1, <1>2, ConcatProperties DEF Course

\* What a request that lists or is registered holds has no jump in it.
LEMMA HeldSteady ==
  ASSUME StreamInv, NEW s \in Session
  PROVE  /\ Steady(queue[s])
         /\ spc[s] = "listing" => Steady(pending[s])
<1>1. /\ SessionInv(s) /\ Len(queue[s]) \in Nat /\ Len(pending[s]) \in Nat
      /\ from[s] \in Nat /\ EnqueuedUpTo(s) \in Nat
  BY SessionTypes, EnqueuedType DEF StreamInv, Offered
<1>2. LeftQueue(s) \in Int
  BY <1>1 DEF LeftQueue
<1>3. ASSUME NEW i \in 2 .. Len(queue[s]) PROVE queue[s][i] = queue[s][i - 1] + 1
  <2>1. i \in 1 .. Len(queue[s]) /\ i - 1 \in 1 .. Len(queue[s])
    BY <1>1
  <2>2. queue[s][i] = LeftQueue(s) + i /\ queue[s][i - 1] = LeftQueue(s) + (i - 1)
    BY <1>1, <2>1 DEF SessionInv, QueueIsSuffix
  <2> QED BY <1>2, <2>1, <2>2
<1>4. ASSUME spc[s] = "listing", NEW i \in 2 .. Len(pending[s])
      PROVE  pending[s][i] = pending[s][i - 1] + 1
  <2>1. i \in 1 .. Len(pending[s]) /\ i - 1 \in 1 .. Len(pending[s])
    BY <1>1
  <2>2. pending[s][i] = from[s] + i /\ pending[s][i - 1] = from[s] + (i - 1)
    BY <1>1, <1>4, <2>1 DEF SessionInv, ListingOK
  <2> QED BY <1>1, <2>1, <2>2
<1> QED BY <1>3, <1>4 DEF Steady, StepsExceptAt

\* A sequence without a jump jumps once at most.
LEMMA SteadyJumpsOnce == \A q : Steady(q) => JumpsOnce(q)
BY DEF Steady, JumpsOnce

\* Where the listing ends the course is the listing and then the queue.
LEMMA ListingEnds ==
  ASSUME RewindInv, NEW s \in Session, ListNodeEnd(s)
  PROVE  JumpsOnce(sent'[s]) /\ CourseOK(s)'
<1>1. /\ TypeOK /\ StreamInv /\ SessionInv(s) /\ JumpsOnce(sent[s])
  BY DEF RewindInv, StreamInv
<1>2. spc[s] = "listing" /\ sent[s] = <<>> /\ queue' = queue
  BY <1>1 DEF ListNodeEnd, SessionInv, Phases
<1>3. Steady(pending[s]) /\ Steady(queue[s])
  BY <1>1, <1>2, HeldSteady
<1>4. pending[s] \in Seq(Versions) /\ queue[s] \in Seq(Versions) /\ Len(queue[s]) \in Nat
      /\ EnqueuedUpTo(s) \in Nat
  BY <1>1, SessionTypes, EnqueuedType DEF Offered
<1>5. CASE s \in queueMap
  <2>1. /\ sent' = sent /\ pending' = pending /\ EnqueuedUpTo(s)' = EnqueuedUpTo(s)
    BY <1>5 DEF ListNodeEnd, EnqueuedUpTo, storeVars, writerVars
  <2>2. Course(s)' = pending[s] \o queue[s]
    <3>1. <<>> \o pending[s] = pending[s]
      BY <1>4, ConcatEmptySeq
    <3> QED BY <1>2, <2>1, <3>1 DEF Course
  <2>3. JumpsOnce(Course(s)')
    BY <1>3, <1>4, <2>2, SteadyConcat
  <2>4. CASE queue[s] = <<>>
    <3>1. Course(s)' = pending[s]
      BY <1>4, <2>2, <2>4, ConcatEmptySeq
    <3>2. Steady(Course(s))'
      BY <1>3, <3>1 DEF Steady, StepsExceptAt
    <3>3. JumpsOnce(Course(s))'
      BY <2>3 DEF JumpsOnce, StepsExceptAt
    <3> QED BY <1>1, <2>1, <3>2, <3>3 DEF CourseOK
  <2>5. CASE queue[s] # <<>>
    <3>1. /\ pending[s] \o queue[s] # <<>>
          /\ (pending[s] \o queue[s])[Len(pending[s] \o queue[s])] = queue[s][Len(queue[s])]
      BY <1>4, <2>5, LastOfConcat
    <3>2. Len(queue[s]) \in 1 .. Len(queue[s])
      BY <1>4, <2>5
    <3>3. queue[s][Len(queue[s])] = EnqueuedUpTo(s)
      <4>1. queue[s][Len(queue[s])] = LeftQueue(s) + Len(queue[s])
        BY <1>1, <3>2 DEF SessionInv, QueueIsSuffix
      <4> QED BY <1>4, <4>1 DEF LeftQueue
    <3>4. Course(s)' # <<>> /\ Course(s)'[Len(Course(s)')] = EnqueuedUpTo(s)'
      BY <2>1, <2>2, <3>1, <3>3
    <3>5. JumpsOnce(Course(s))'
      BY <2>3 DEF JumpsOnce, StepsExceptAt
    <3> QED BY <1>1, <2>1, <3>4, <3>5 DEF CourseOK
  <2> QED BY <2>4, <2>5
<1>6. CASE s \notin queueMap
  <2>1. spc'[s] = "closed" /\ (sent'[s] = pending[s] \/ sent'[s] = sent[s])
    BY <1>1, <1>6 DEF ListNodeEnd, TypeOK
  <2> QED BY <1>1, <1>3, <2>1, SteadyJumpsOnce DEF CourseOK
<1> QED BY <1>5, <1>6

\* Sending and dequeuing move what a request holds and leave its course as it
\* is.
LEMMA CourseStays ==
  ASSUME TypeOK, NEW s \in Session, SendNode(s) \/ DequeueNode(s)
  PROVE  Course(s)' = Course(s)
<1>1. /\ sent[s] \in Seq(Versions) /\ pending[s] \in Seq(Versions) /\ queue[s] \in Seq(Versions)
  BY CourseTypes
<1>2. CASE SendNode(s)
  <2>1. /\ sent'[s] = Append(sent[s], Head(pending[s])) /\ pending'[s] = Tail(pending[s])
        /\ pending[s] # <<>> /\ queue' = queue
    BY <1>2 DEF SendNode, TypeOK
  <2>2. sent'[s] \o pending'[s] = sent[s] \o pending[s]
    BY <1>1, <2>1, MoveHead
  <2> QED BY <2>1, <2>2 DEF Course
<1>3. CASE DequeueNode(s)
  <2>1. /\ pending[s] = <<>> /\ queue[s] # <<>> /\ sent' = sent
        /\ pending'[s] = <<Head(queue[s])>> /\ queue'[s] = Tail(queue[s])
    BY <1>3 DEF DequeueNode, TypeOK
  <2>2. Head(queue[s]) \in Versions
    BY <1>1, <2>1, HeadTailProperties
  <2>3. sent[s] \o <<>> = sent[s]
    BY <1>1, ConcatEmptySeq
  <2>4. sent[s] \o <<Head(queue[s])>> = Append(sent[s], Head(queue[s]))
    BY <1>1, <2>2, AppendIsConcat
  <2>5. Append(sent[s], Head(queue[s])) \o Tail(queue[s]) = sent[s] \o queue[s]
    BY <1>1, <2>1, MoveHead
  <2> QED BY <2>1, <2>3, <2>4, <2>5 DEF Course
<1> QED BY <1>2, <1>3

\* The three parts of a course can be put together in either order.
LEMMA ThreeParts ==
  \A p, q, r \in Seq(Versions) : q \o r \in Seq(Versions) /\ (p \o q) \o r = p \o (q \o r)
BY ConcatAssociative, ConcatProperties

\* EnqueueNode adds the version it publishes at the end of the course.
LEMMA CourseGrows ==
  ASSUME TypeOK, NEW s \in Session, EnqueueNode(s)
  PROVE  /\ rv \in Versions /\ Course(s) \in Seq(Versions)
         /\ Course(s)' = Append(Course(s), rv)
         /\ EnqueuedUpTo(s) = rv - 1 /\ EnqueuedUpTo(s)' = rv
         /\ sent' = sent /\ spc' = spc /\ from' = from
<1>1. rv \in Versions /\ wpc = "enqueueing" /\ s \in todo
  BY MaxVersionAssumption DEF EnqueueNode, TypeOK, Versions
<1>2. /\ EnqueuedUpTo(s) = rv - 1 /\ EnqueuedUpTo(s)' = rv
      /\ sent' = sent /\ pending' = pending /\ spc' = spc /\ from' = from
      /\ queue'[s] = Append(queue[s], rv)
  BY <1>1 DEF EnqueueNode, EnqueuedUpTo, storeVars, TypeOK
<1>3. /\ sent[s] \o pending[s] \in Seq(Versions) /\ queue[s] \in Seq(Versions)
      /\ Course(s) \in Seq(Versions)
  BY CourseTypes
<1> DEFINE p == sent[s] \o pending[s]
<1>4. Course(s) = p \o queue[s] /\ Course(s)' = p \o Append(queue[s], rv)
  BY <1>2 DEF Course
<1>5. p \in Seq(Versions)
  BY <1>3
<1> HIDE DEF p
<1>6. p \o Append(queue[s], rv) = Append(p \o queue[s], rv)
  BY <1>1, <1>3, <1>5, AppendLater
<1> QED BY <1>1, <1>2, <1>3, <1>4, <1>6

\* Sending and dequeuing keep the one jump where it is.
LEMMA MovingKeeps ==
  ASSUME RewindInv, TypeOK', NEW s \in Session, SendNode(s) \/ DequeueNode(s)
  PROVE  JumpsOnce(sent'[s]) /\ CourseOK(s)'
<1>1. TypeOK /\ CourseOK(s) /\ JumpsOnce(sent[s])
  BY DEF RewindInv, StreamInv
<1>2. /\ spc[s] = "sending" /\ spc' = spc /\ EnqueuedUpTo(s)' = EnqueuedUpTo(s)
  BY DEF SendNode, DequeueNode, EnqueuedUpTo, storeVars, writerVars
<1>3. Course(s)' = Course(s)
  BY <1>1, CourseStays
<1>4. /\ JumpsOnce(Course(s)')
      /\ Steady(Course(s)') \/
           (Course(s)' # <<>> /\ Course(s)'[Len(Course(s)')] = EnqueuedUpTo(s)')
  BY <1>1, <1>2, <1>3 DEF CourseOK
<1>5. CourseOK(s)'
  BY <1>4 DEF CourseOK, JumpsOnce, Steady, StepsExceptAt
<1>6. JumpsOnce(sent'[s])
  <2>1. sent'[s] \in Seq(Versions) /\ pending'[s] \in Seq(Versions)
        /\ queue'[s] \in Seq(Versions)
    BY DEF TypeOK
  <2>2. /\ pending'[s] \o queue'[s] \in Seq(Versions)
        /\ Course(s)' = sent'[s] \o (pending'[s] \o queue'[s])
    BY <2>1, ThreeParts DEF Course
  <2> QED BY <1>4, <2>1, <2>2, JumpsOncePrefix
<1> QED BY <1>5, <1>6

\* A version added to the queue follows the one before it, or is the first of
\* the queue after the listing.
LEMMA OfferKeeps ==
  ASSUME RewindInv, NEW s \in Session, EnqueueNode(s)
  PROVE  JumpsOnce(sent'[s]) /\ CourseOK(s)'
<1>1. TypeOK /\ CourseOK(s) /\ JumpsOnce(sent[s])
  BY DEF RewindInv, StreamInv
<1>2. /\ rv \in Versions /\ Course(s) \in Seq(Versions)
      /\ Course(s)' = Append(Course(s), rv)
      /\ EnqueuedUpTo(s) = rv - 1 /\ EnqueuedUpTo(s)' = rv
      /\ sent' = sent /\ spc' = spc
  BY <1>1, CourseGrows
<1>3. CASE spc[s] = "sending"
  <2>1. JumpsOnce(Append(Course(s), rv))
    BY <1>1, <1>2, <1>3, JumpsOnceAppend DEF CourseOK
  <2>2. /\ Append(Course(s), rv) # <<>>
        /\ Append(Course(s), rv)[Len(Append(Course(s), rv))] = rv
    BY <1>2, AppendProperties
  <2>3. /\ JumpsOnce(Course(s)')
        /\ Course(s)' # <<>> /\ Course(s)'[Len(Course(s)')] = EnqueuedUpTo(s)'
    BY <1>2, <2>1, <2>2
  <2>4. CourseOK(s)'
    BY <2>3 DEF CourseOK, JumpsOnce, StepsExceptAt
  <2> QED BY <1>1, <1>2, <2>4
<1>4. CASE spc[s] # "sending"
  BY <1>1, <1>2, <1>4 DEF CourseOK
<1> QED BY <1>3, <1>4

\* A step that leaves a request as it is keeps its course.
LEMMA CourseFrame ==
  ASSUME RewindInv, NEW s \in Session, SameSession(s)
  PROVE  JumpsOnce(sent'[s]) /\ CourseOK(s)'
<1>1. CourseOK(s) /\ JumpsOnce(sent[s]) /\ SessionInv(s)
  BY DEF RewindInv, StreamInv
<1>2. sent'[s] = sent[s] /\ Course(s)' = Course(s) /\ spc'[s] = spc[s]
  BY DEF SameSession, Course
<1>3. spc[s] = "sending" => EnqueuedUpTo(s)' = EnqueuedUpTo(s)
  BY <1>1 DEF SameSession, SessionInv, Phases
<1> QED BY <1>1, <1>2, <1>3 DEF CourseOK, JumpsOnce, Steady, StepsExceptAt

\* Every other step of a request leaves what it has sent and does not make it
\* send.
LEMMA OtherStepKeeps ==
  ASSUME RewindInv, NEW s \in Session,
         \/ \E m \in 0 .. MaxVersion : WatchNode(s, m)
         \/ ListNode(s)
         \/ AddNodeQueue(s)
         \/ ListNodeStart(s)
         \/ ListNodeRead(s)
         \/ ListNodeNil(s)
         \/ ConvertIPPanics(s)
         \/ SendFails(s)
         \/ RemoveNodeQueue(s)
         \/ Disconnect(s)
  PROVE  JumpsOnce(sent'[s]) /\ CourseOK(s)'
<1>1. TypeOK /\ CourseOK(s) /\ JumpsOnce(sent[s])
  BY DEF RewindInv, StreamInv
<1>2. CASE ListNodeNil(s) \/ ConvertIPPanics(s) \/ Disconnect(s)
  <2>1. SameSession(s)
    BY <1>2
       DEF ListNodeNil, ConvertIPPanics, Disconnect, SameSession, EnqueuedUpTo, storeVars, writerVars,
                sessionVars
  <2> QED BY <2>1, CourseFrame
<1>3. CASE ~(ListNodeNil(s) \/ ConvertIPPanics(s) \/ Disconnect(s))
  <2>1. sent' = sent /\ spc'[s] # "sending"
    BY <1>1, <1>3 DEF WatchNode, ListNode, AddNodeQueue, ListNodeStart, ListNodeRead, Reading,
       SendFails, RemoveNodeQueue, TypeOK
  <2> QED BY <1>1, <2>1 DEF CourseOK
<1> QED BY <1>2, <1>3

-----------------------------------------------------------------------------
(* The stream goes back at most once.                                      *)

\* Nothing is sent at first.
LEMMA RewindInit == Init => RewindInv
<1> SUFFICES ASSUME Init, NEW s \in Session PROVE JumpsOnce(sent[s]) /\ CourseOK(s)
  BY StreamInit DEF RewindInv
<1>1. spc[s] = "idle" /\ sent[s] = <<>>
  BY DEF Init
<1>2. Steady(<<>>)
  BY DEF Steady, StepsExceptAt
<1> QED BY <1>1, <1>2, SteadyJumpsOnce DEF CourseOK

\* Each step keeps the course of each request.
LEMMA RewindStep == RewindInv /\ StreamInv' /\ [Next]_vars => RewindInv'
<1> SUFFICES ASSUME RewindInv, StreamInv', [Next]_vars, NEW t \in Session
             PROVE  JumpsOnce(sent'[t]) /\ CourseOK(t)'
  BY DEF RewindInv, JumpsOnce, StepsExceptAt
<1>1. TypeOK /\ TypeOK'
  BY DEF RewindInv, StreamInv
<1>2. CASE ClusterStep \/ WriterStep \/ (up /\ MapRace)
  <2>1. CASE EnqueueNode(t)
    BY <2>1, OfferKeeps
  <2>2. CASE ~EnqueueNode(t)
    <3>1. SameSession(t)
      BY <1>1, <1>2, <2>2, WriterFrame DEF ClusterStep, WriterStep
    <3> QED BY <3>1, CourseFrame
  <2> QED BY <2>1, <2>2
<1>3. ASSUME NEW s \in Session, SessionStep(s) \/ ClientStep(s)
      PROVE  JumpsOnce(sent'[t]) /\ CourseOK(t)'
  <2>1. CASE s = t
    BY <1>1, <1>3, <2>1, OtherStepKeeps, ListingEnds, MovingKeeps DEF SessionStep, ClientStep
  <2>2. CASE s # t
    <3>1. SameSession(t)
      BY <1>1, <1>3, <2>2, SessionsApart DEF ClientStep
    <3> QED BY <3>1, CourseFrame
  <2> QED BY <2>1, <2>2
<1>4. CASE UNCHANGED vars
  <2>1. SameSession(t)
    BY <1>4 DEF vars, storeVars, writerVars, sessionVars, SameSession, EnqueuedUpTo
  <2> QED BY <2>1, CourseFrame
<1> QED BY <1>2, <1>3, <1>4 DEF Next

\* WatchNode registers its queue before it lists (quarkcmsvc.go:96-113), so an
\* event may be sent twice; but the stream goes back at most once, where the
\* queue takes over from the listing.
THEOREM StreamsRewindOnce == Spec => []OneRewind
<1>1. RewindInv => OneRewind
  <2> SUFFICES ASSUME RewindInv, NEW s \in Session,
                      NEW i \in 2 .. Len(sent[s]), NEW j \in 2 .. Len(sent[s]),
                      sent[s][i] <= sent[s][i - 1], sent[s][j] <= sent[s][j - 1]
               PROVE  i = j
    BY DEF OneRewind
  <2>1. JumpsOnce(sent[s]) /\ sent[s] \in Seq(Versions)
    BY SessionTypes DEF RewindInv, StreamInv
  <2>2. PICK b \in Nat : StepsExceptAt(sent[s], b)
    BY <2>1 DEF JumpsOnce
  <2>3. ASSUME NEW k \in 2 .. Len(sent[s]), sent[s][k] <= sent[s][k - 1] PROVE k = b
    <3>1. k - 1 \in 1 .. Len(sent[s]) /\ sent[s][k - 1] \in Int
      <4>1. Len(sent[s]) \in Nat /\ k - 1 \in 1 .. Len(sent[s])
        BY <2>1
      <4>2. sent[s][k - 1] \in Versions
        BY <2>1, <4>1
      <4> QED BY <4>1, <4>2 DEF Versions
    <3>2. k # b => sent[s][k] = sent[s][k - 1] + 1
      BY <2>2 DEF StepsExceptAt
    <3> QED BY <2>3, <3>1, <3>2
  <2> QED BY <2>3
<1>2. RewindInv /\ [Next]_vars => RewindInv'
  BY StreamStep, RewindStep DEF RewindInv
<1> QED BY RewindInit, <1>1, <1>2, PTL DEF Spec

-----------------------------------------------------------------------------
(* The stream never leaps forward: each version is at most one above the   *)
(* one before it, the first at most one above the version asked for.  So   *)
(* what a client does not have yet comes in order.                         *)

NoLeap(f, q) == \A i \in 1 .. Len(q) : q[i] <= (IF i = 1 THEN f ELSE q[i - 1]) + 1

EndOf(f, q) == IF q = <<>> THEN f ELSE q[Len(q)]

\* All that a request has sent and holds does not leap, and goes as far as what
\* was offered to it.
PathOK(s) ==
  spc[s] = "sending" =>
    NoLeap(from[s], Course(s)) /\ EndOf(from[s], Course(s)) >= EnqueuedUpTo(s)

\* The inductive invariant.
PathInv == StreamInv /\ \A s \in Session : NoLeap(from[s], sent[s]) /\ PathOK(s)

\* The versions of a sequence are integers.
LEMMA VersionsAreInts ==
  ASSUME NEW q \in Seq(Versions)
  PROVE  Len(q) \in Nat /\ \A i \in 1 .. Len(q) : q[i] \in Int
<1>1. Len(q) \in Nat /\ \A i \in 1 .. Len(q) : q[i] \in Versions
  OBVIOUS
<1>2. Versions \subseteq Int
  BY DEF Versions
<1>3. \A i \in 1 .. Len(q) : q[i] \in Int
  BY <1>1, <1>2
<1> QED BY <1>1, <1>3

\* The start of such a sequence is one.
LEMMA NoLeapPrefix ==
  ASSUME NEW f \in Int, NEW p \in Seq(Versions), NEW q \in Seq(Versions), NoLeap(f, p \o q)
  PROVE  NoLeap(f, p)
<1>1. /\ Len(p) \in Nat /\ Len(q) \in Nat /\ Len(p \o q) = Len(p) + Len(q)
      /\ \A i \in 1 .. Len(p) : (p \o q)[i] = p[i]
  BY ConcatProperties
<1> SUFFICES ASSUME NEW i \in 1 .. Len(p)
             PROVE  p[i] <= (IF i = 1 THEN f ELSE p[i - 1]) + 1
  BY DEF NoLeap
<1>2. i \in 1 .. Len(p \o q) /\ (i # 1 => i - 1 \in 1 .. Len(p))
  BY <1>1
<1> QED BY <1>1, <1>2 DEF NoLeap

\* A version at most one above the last can follow.
LEMMA NoLeapAppend ==
  ASSUME NEW f \in Int, NEW q \in Seq(Versions), NEW v \in Versions,
         NoLeap(f, q), v <= EndOf(f, q) + 1
  PROVE  NoLeap(f, Append(q, v)) /\ EndOf(f, Append(q, v)) = v
<1>1. /\ Len(q) \in Nat /\ Len(Append(q, v)) = Len(q) + 1 /\ Append(q, v) # <<>>
      /\ \A i \in 1 .. Len(q) : Append(q, v)[i] = q[i]
      /\ Append(q, v)[Len(q) + 1] = v
  BY AppendProperties
<1>2. ASSUME NEW i \in 1 .. (Len(q) + 1)
      PROVE  Append(q, v)[i] <= (IF i = 1 THEN f ELSE Append(q, v)[i - 1]) + 1
  <2>1. CASE i \in 1 .. Len(q)
    <3>1. i # 1 => i - 1 \in 1 .. Len(q)
      BY <1>1, <2>1
    <3> QED BY <1>1, <2>1, <3>1 DEF NoLeap
  <2>2. CASE i = Len(q) + 1
    <3>1. CASE q = <<>>
      BY <1>1, <2>2, <3>1 DEF EndOf
    <3>2. CASE q # <<>>
      <4>1. Len(q) \in 1 .. Len(q) /\ i # 1 /\ i - 1 = Len(q)
        BY <1>1, <2>2, <3>2
      <4> QED BY <1>1, <2>2, <3>2, <4>1 DEF EndOf
    <3> QED BY <3>1, <3>2
  <2> QED BY <1>1, <2>1, <2>2
<1> QED BY <1>1, <1>2 DEF NoLeap, EndOf

\* A sequence can follow another where that ends.
LEMMA NoLeapConcat ==
  ASSUME NEW f \in Int, NEW p \in Seq(Versions), NEW q \in Seq(Versions),
         NoLeap(f, p), NoLeap(EndOf(f, p), q)
  PROVE  NoLeap(f, p \o q) /\ EndOf(f, p \o q) = EndOf(EndOf(f, p), q)
<1>1. /\ Len(p) \in Nat /\ Len(q) \in Nat /\ Len(p \o q) = Len(p) + Len(q)
      /\ \A i \in 1 .. (Len(p) + Len(q)) :
           (p \o q)[i] = IF i <= Len(p) THEN p[i] ELSE q[i - Len(p)]
      /\ p = <<>> <=> Len(p) = 0
  BY ConcatProperties
<1>2. ASSUME NEW i \in 1 .. (Len(p) + Len(q))
      PROVE  (p \o q)[i] <= (IF i = 1 THEN f ELSE (p \o q)[i - 1]) + 1
  <2>1. CASE i <= Len(p)
    <3>1. i \in 1 .. Len(p) /\ (i # 1 => i - 1 \in 1 .. (Len(p) + Len(q)) /\ i - 1 <= Len(p))
      BY <1>1, <2>1
    <3> QED BY <1>1, <2>1, <3>1 DEF NoLeap
  <2>2. CASE i = Len(p) + 1
    <3>1. 1 \in 1 .. Len(q) /\ (p \o q)[i] = q[1] /\ q[1] <= EndOf(f, p) + 1
      <4>1. 1 \in 1 .. Len(q) /\ ~(i <= Len(p)) /\ i - Len(p) = 1
        BY <1>1, <2>2
      <4> QED BY <1>1, <4>1 DEF NoLeap
    <3>2. CASE p = <<>>
      BY <1>1, <2>2, <3>1, <3>2 DEF EndOf
    <3>3. CASE p # <<>>
      <4>1. i - 1 = Len(p) /\ i # 1 /\ i - 1 \in 1 .. (Len(p) + Len(q)) /\ i - 1 <= Len(p)
        BY <1>1, <2>2, <3>3
      <4> QED BY <1>1, <3>1, <3>3, <4>1 DEF EndOf
    <3> QED BY <3>2, <3>3
  <2>3. CASE i > Len(p) + 1
    <3> DEFINE j == i - Len(p)
    <3>1. /\ j \in 1 .. Len(q) /\ j # 1 /\ i # 1 /\ j - 1 = (i - 1) - Len(p)
          /\ i - 1 \in 1 .. (Len(p) + Len(q)) /\ ~(i - 1 <= Len(p)) /\ ~(i <= Len(p))
      BY <1>1, <2>3
    <3>2. (p \o q)[i] = q[j] /\ (p \o q)[i - 1] = q[j - 1]
      BY <1>1, <3>1
    <3>3. q[j] <= q[j - 1] + 1
      <4> HIDE DEF j
      <4> QED BY <3>1 DEF NoLeap
    <3> QED BY <3>1, <3>2, <3>3
  <2> QED BY <1>1, <2>1, <2>2, <2>3
<1>3. EndOf(f, p \o q) = EndOf(EndOf(f, p), q)
  <2>1. CASE q = <<>>
    BY <2>1, ConcatEmptySeq DEF EndOf
  <2>2. CASE q # <<>>
    BY <2>2, LastOfConcat DEF EndOf
  <2> QED BY <2>1, <2>2
<1> QED BY <1>1, <1>2, <1>3 DEF NoLeap

\* Where a sequence ends is an integer.
LEMMA EndIsInt ==
  ASSUME NEW f \in Int, NEW q \in Seq(Versions)
  PROVE  EndOf(f, q) \in Int
<1>1. q # <<>> => Len(q) \in 1 .. Len(q)
  BY VersionsAreInts
<1> QED BY <1>1, VersionsAreInts DEF EndOf

\* What was listed starts after the version asked for, and the queue not later
\* than where the listing ends.
LEMMA ListingLeads ==
  ASSUME PathInv, NEW s \in Session, ListNodeEnd(s)
  PROVE  NoLeap(from'[s], sent'[s]) /\ PathOK(s)'
<1>1. /\ TypeOK /\ SessionInv(s) /\ NoLeap(from[s], sent[s])
      /\ from[s] \in Nat /\ smax[s] \in Nat
      /\ pending[s] \in Seq(Versions) /\ queue[s] \in Seq(Versions)
      /\ Len(pending[s]) \in Nat /\ Len(queue[s]) \in Nat /\ EnqueuedUpTo(s) \in Nat
  BY SessionTypes, EnqueuedType DEF Offered, PathInv, StreamInv
<1>2. /\ spc[s] = "listing" /\ sent[s] = <<>> /\ queue' = queue /\ from' = from
      /\ from[s] + Len(pending[s]) >= smax[s]
  <2>1. from[s] + Len(pending[s]) + 1 > smax[s]
    BY DEF ListNodeEnd, NextListed
  <2> QED BY <1>1, <2>1 DEF ListNodeEnd, SessionInv, Phases
<1>3. \A i \in 1 .. Len(pending[s]) : pending[s][i] = from[s] + i
  BY <1>1, <1>2 DEF SessionInv, ListingOK
<1>4. /\ NoLeap(from[s], pending[s])
      /\ EndOf(from[s], pending[s]) = from[s] + Len(pending[s])
  <2>1. \A i \in 1 .. Len(pending[s]) : i # 1 => i - 1 \in 1 .. Len(pending[s])
    BY <1>1
  <2>2. pending[s] # <<>> => Len(pending[s]) \in 1 .. Len(pending[s])
    BY <1>1
  <2>3. pending[s] = <<>> => Len(pending[s]) = 0
    BY <1>1
  <2>4. NoLeap(from[s], pending[s])
    BY <1>1, <1>3, <2>1, SMTT(20) DEF NoLeap
  <2> QED BY <1>1, <1>3, <2>2, <2>3, <2>4 DEF EndOf
<1>5. CASE s \in queueMap
  <2>1. sent' = sent /\ pending' = pending /\ EnqueuedUpTo(s)' = EnqueuedUpTo(s)
    BY <1>5 DEF ListNodeEnd, EnqueuedUpTo, storeVars, writerVars
  <2>2. Course(s)' = pending[s] \o queue[s]
    <3>1. <<>> \o pending[s] = pending[s]
      BY <1>1, ConcatEmptySeq
    <3> QED BY <1>2, <2>1, <3>1 DEF Course
  <2>3. /\ \A i \in 1 .. Len(queue[s]) : queue[s][i] = LeftQueue(s) + i
        /\ LeftQueue(s) <= EndOf(from[s], pending[s]) /\ LeftQueue(s) \in Int
        /\ LeftQueue(s) + Len(queue[s]) = EnqueuedUpTo(s)
    <3>1. LeftQueue(s) <= smax[s] /\ LeftQueue(s) \in Int
      BY <1>1, <1>2, <1>5 DEF SessionInv, ListingOK, LeftQueue
    <3> QED BY <1>1, <1>2, <1>4, <3>1 DEF SessionInv, QueueIsSuffix, LeftQueue
  <2> DEFINE e == EndOf(from[s], pending[s])
  <2>4. e \in Int /\ LeftQueue(s) <= e
    BY <1>1, <1>4, <2>3
  <2> HIDE DEF e
  <2>5. NoLeap(e, queue[s])
    <3>1. \A i \in 1 .. Len(queue[s]) : i # 1 => i - 1 \in 1 .. Len(queue[s])
      BY <1>1
    <3>2. ASSUME NEW i \in 1 .. Len(queue[s])
          PROVE  queue[s][i] <= (IF i = 1 THEN e ELSE queue[s][i - 1]) + 1
      <4>1. queue[s][i] = LeftQueue(s) + i /\ i \in Int
        BY <1>1, <2>3
      <4>2. i # 1 => queue[s][i - 1] = LeftQueue(s) + (i - 1)
        BY <2>3, <3>1
      <4> QED BY <2>3, <2>4, <4>1, <4>2
    <3> QED BY <3>2 DEF NoLeap
  <2>6. EndOf(e, queue[s]) >= EnqueuedUpTo(s)
    <3>1. CASE queue[s] = <<>>
      <4>1. Len(queue[s]) = 0
        BY <3>1
      <4> QED BY <1>1, <2>3, <2>4, <3>1, <4>1 DEF EndOf, e
    <3>2. CASE queue[s] # <<>>
      <4>1. Len(queue[s]) \in 1 .. Len(queue[s])
        BY <1>1, <3>2
      <4> QED BY <1>1, <2>3, <3>2, <4>1, SMTT(20) DEF EndOf
    <3> QED BY <3>1, <3>2
  <2>7. /\ NoLeap(from[s], pending[s] \o queue[s])
        /\ EndOf(from[s], pending[s] \o queue[s]) >= EnqueuedUpTo(s)
    BY <1>1, <1>4, <2>5, <2>6, NoLeapConcat DEF e
  <2>8. /\ NoLeap(from'[s], Course(s)')
        /\ EndOf(from'[s], Course(s)') >= EnqueuedUpTo(s)'
    BY <1>2, <2>1, <2>2, <2>7
  <2> QED BY <1>1, <1>2, <2>1, <2>8 DEF PathOK, NoLeap, EndOf
<1>6. CASE s \notin queueMap
  <2>1. spc'[s] = "closed" /\ (sent'[s] = pending[s] \/ sent'[s] = sent[s])
    BY <1>1, <1>6 DEF ListNodeEnd, TypeOK
  <2> QED BY <1>1, <1>2, <1>4, <2>1 DEF PathOK
<1> QED BY <1>5, <1>6

\* Sending and dequeuing follow the path.
LEMMA MovingFollows ==
  ASSUME PathInv, TypeOK', NEW s \in Session, SendNode(s) \/ DequeueNode(s)
  PROVE  NoLeap(from'[s], sent'[s]) /\ PathOK(s)'
<1>1. TypeOK /\ PathOK(s) /\ from[s] \in Int
  BY SessionTypes DEF PathInv, StreamInv
<1>2. /\ spc[s] = "sending" /\ spc' = spc /\ from' = from
      /\ EnqueuedUpTo(s)' = EnqueuedUpTo(s)
  BY DEF SendNode, DequeueNode, EnqueuedUpTo, storeVars, writerVars
<1>3. Course(s)' = Course(s)
  BY <1>1, CourseStays
<1>4. NoLeap(from[s], Course(s)')
  BY <1>1, <1>2, <1>3 DEF PathOK
<1>5. PathOK(s)'
  BY <1>1, <1>2, <1>3 DEF PathOK, NoLeap, EndOf
<1>6. sent'[s] \in Seq(Versions) /\ pending'[s] \in Seq(Versions) /\ queue'[s] \in Seq(Versions)
  BY DEF TypeOK
<1>7. /\ pending'[s] \o queue'[s] \in Seq(Versions)
      /\ Course(s)' = sent'[s] \o (pending'[s] \o queue'[s])
  BY <1>6, ThreeParts DEF Course
<1>8. NoLeap(from[s], sent'[s])
  BY <1>1, <1>4, <1>6, <1>7, NoLeapPrefix
<1> QED BY <1>2, <1>5, <1>8

\* What EnqueueNode adds is the next version that is offered.
LEMMA OfferFollows ==
  ASSUME PathInv, NEW s \in Session, EnqueueNode(s)
  PROVE  NoLeap(from'[s], sent'[s]) /\ PathOK(s)'
<1>1. TypeOK /\ PathOK(s) /\ NoLeap(from[s], sent[s]) /\ from[s] \in Int
  BY SessionTypes DEF PathInv, StreamInv
<1>2. /\ rv \in Versions /\ Course(s) \in Seq(Versions)
      /\ Course(s)' = Append(Course(s), rv)
      /\ EnqueuedUpTo(s) = rv - 1 /\ EnqueuedUpTo(s)' = rv
      /\ sent' = sent /\ spc' = spc /\ from' = from
  BY <1>1, CourseGrows
<1>3. CASE spc[s] = "sending"
  <2>1. rv \in Int /\ EndOf(from[s], Course(s)) \in Int
    BY <1>1, <1>2, EndIsInt DEF Versions
  <2>2. rv <= EndOf(from[s], Course(s)) + 1 /\ NoLeap(from[s], Course(s))
    BY <1>1, <1>2, <1>3, <2>1 DEF PathOK
  <2>3. /\ NoLeap(from[s], Append(Course(s), rv))
        /\ EndOf(from[s], Append(Course(s), rv)) = rv
    BY <1>1, <1>2, <2>2, NoLeapAppend
  <2>4. NoLeap(from'[s], Course(s)') /\ EndOf(from'[s], Course(s)') >= EnqueuedUpTo(s)'
    BY <1>2, <2>1, <2>3
  <2> QED BY <1>1, <1>2, <2>4 DEF PathOK, NoLeap, EndOf
<1>4. CASE spc[s] # "sending"
  BY <1>1, <1>2, <1>4 DEF PathOK
<1> QED BY <1>3, <1>4

\* A step that leaves a request as it is keeps its path.
LEMMA PathFrame ==
  ASSUME PathInv, NEW s \in Session, SameSession(s)
  PROVE  NoLeap(from'[s], sent'[s]) /\ PathOK(s)'
<1>1. PathOK(s) /\ NoLeap(from[s], sent[s]) /\ SessionInv(s)
  BY DEF PathInv, StreamInv
<1>2. sent'[s] = sent[s] /\ from'[s] = from[s] /\ Course(s)' = Course(s) /\ spc'[s] = spc[s]
  BY DEF SameSession, Course
<1>3. spc[s] = "sending" => EnqueuedUpTo(s)' = EnqueuedUpTo(s)
  BY <1>1 DEF SameSession, SessionInv, Phases
<1> QED BY <1>1, <1>2, <1>3 DEF PathOK, NoLeap, EndOf

\* Every other step of a request leaves what it has sent and does not make it
\* send; a call names the version before anything is sent.
LEMMA OtherStepFollows ==
  ASSUME PathInv, NEW s \in Session,
         \/ \E m \in 0 .. MaxVersion : WatchNode(s, m)
         \/ ListNode(s)
         \/ AddNodeQueue(s)
         \/ ListNodeStart(s)
         \/ ListNodeRead(s)
         \/ ListNodeNil(s)
         \/ ConvertIPPanics(s)
         \/ SendFails(s)
         \/ RemoveNodeQueue(s)
         \/ Disconnect(s)
  PROVE  NoLeap(from'[s], sent'[s]) /\ PathOK(s)'
<1>1. TypeOK /\ PathOK(s) /\ NoLeap(from[s], sent[s]) /\ SessionInv(s)
  BY DEF PathInv, StreamInv
<1>2. CASE ListNodeNil(s) \/ ConvertIPPanics(s) \/ Disconnect(s)
  <2>1. SameSession(s)
    BY <1>2
       DEF ListNodeNil, ConvertIPPanics, Disconnect, SameSession, EnqueuedUpTo, storeVars, writerVars,
                sessionVars
  <2> QED BY <2>1, PathFrame
<1>3. CASE \E m \in 0 .. MaxVersion : WatchNode(s, m)
  <2>1. sent'[s] = <<>> /\ spc'[s] # "sending"
    BY <1>1, <1>3 DEF WatchNode, SessionInv, Phases, TypeOK
  <2>2. \A i : i \notin 1 .. Len(<<>>)
    OBVIOUS
  <2> QED BY <2>1, <2>2 DEF PathOK, NoLeap
<1>4. CASE ~(ListNodeNil(s) \/ ConvertIPPanics(s) \/ Disconnect(s)
             \/ \E m \in 0 .. MaxVersion : WatchNode(s, m))
  <2>1. sent' = sent /\ from' = from /\ spc'[s] # "sending"
    BY <1>1, <1>4 DEF ListNode, AddNodeQueue, ListNodeStart, ListNodeRead, Reading,
       SendFails, RemoveNodeQueue, TypeOK
  <2> QED BY <1>1, <2>1 DEF PathOK
<1> QED BY <1>2, <1>3, <1>4

\* Nothing is sent at first.
LEMMA PathInit == Init => PathInv
<1> SUFFICES ASSUME Init, NEW s \in Session PROVE NoLeap(from[s], sent[s]) /\ PathOK(s)
  BY StreamInit DEF PathInv
<1>1. spc[s] = "idle" /\ sent[s] = <<>>
  BY DEF Init
<1>2. \A i : i \notin 1 .. Len(<<>>)
  OBVIOUS
<1> QED BY <1>1, <1>2 DEF PathOK, NoLeap

\* Each step keeps the path of each request.
LEMMA PathStep == PathInv /\ StreamInv' /\ [Next]_vars => PathInv'
<1> SUFFICES ASSUME PathInv, StreamInv', [Next]_vars, NEW t \in Session
             PROVE  NoLeap(from'[t], sent'[t]) /\ PathOK(t)'
  BY DEF PathInv, NoLeap
<1>1. TypeOK /\ TypeOK'
  BY DEF PathInv, StreamInv
<1>2. CASE ClusterStep \/ WriterStep \/ (up /\ MapRace)
  <2>1. CASE EnqueueNode(t)
    BY <2>1, OfferFollows
  <2>2. CASE ~EnqueueNode(t)
    <3>1. SameSession(t)
      BY <1>1, <1>2, <2>2, WriterFrame DEF ClusterStep, WriterStep
    <3> QED BY <3>1, PathFrame
  <2> QED BY <2>1, <2>2
<1>3. ASSUME NEW s \in Session, SessionStep(s) \/ ClientStep(s)
      PROVE  NoLeap(from'[t], sent'[t]) /\ PathOK(t)'
  <2>1. CASE s = t
    BY <1>1, <1>3, <2>1, OtherStepFollows, ListingLeads, MovingFollows
       DEF SessionStep, ClientStep
  <2>2. CASE s # t
    <3>1. SameSession(t)
      BY <1>1, <1>3, <2>2, SessionsApart DEF ClientStep
    <3> QED BY <3>1, PathFrame
  <2> QED BY <2>1, <2>2
<1>4. CASE UNCHANGED vars
  <2>1. SameSession(t)
    BY <1>4 DEF vars, storeVars, writerVars, sessionVars, SameSession, EnqueuedUpTo
  <2> QED BY <2>1, PathFrame
<1> QED BY <1>2, <1>3, <1>4 DEF Next
=============================================================================
