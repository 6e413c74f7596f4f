--------------------------- MODULE NodeStoreProofs ---------------------------
(***************************************************************************)
(* Proofs about NodeStore, for every set of nodes, requests and addresses  *)
(* and every bound on the versions.                                        *)
(***************************************************************************)
EXTENDS NodeStore, SequenceTheorems, TLAPS

-----------------------------------------------------------------------------
(* Type correctness.                                                       *)

\* The empty datastore is well typed.
LEMMA TypeInit == Init => TypeOK
<1>1. SUFFICES ASSUME Init PROVE TypeOK
  OBVIOUS
<1>2. <<>> \in Seq(NodeEventObject) /\ <<>> \in Seq(Versions) /\ DOMAIN <<>> = 1 .. 0
  OBVIOUS
<1>3. nodeMap \in [Name -> NodeObject \cup {Nil}]
  BY <1>1 DEF Init
<1>4. QED
  BY <1>1, <1>2, <1>3, MaxVersionAssumption DEF Init, TypeOK

\* Each step of the worker, of a request, of the cluster or of a client keeps
\* the types.
LEMMA TypeStep == TypeOK /\ [Next]_vars => TypeOK'
<1>1. SUFFICES ASSUME TypeOK, [Next]_vars PROVE TypeOK'
  OBVIOUS
<1> USE <1>1, MaxVersionAssumption
<1>2. ASSUME NEW n \in Name, NEW o \in Observed[n], SetNode(n, o) PROVE TypeOK'
  <2>1. o \in [ip : IP, attr : Attr]
    BY ObservedAssumption
  <2> DEFINE node == [ip |-> o.ip, attr |-> o.attr, rv |-> rv + 1]
  <2>2. rv + 1 \in 1 .. MaxVersion
    BY <1>2 DEF SetNode, TypeOK
  <2>3. node \in NodeObject
    BY <2>1, <2>2 DEF NodeObject
  <2>4. cur' \in NodeEventObject
    BY <1>2, <2>3 DEF SetNode, NodeEventObject
  <2>5. nodeMap' \in [Name -> NodeObject \cup {Nil}]
    BY <1>2, <2>3 DEF SetNode, TypeOK
  <2>6. QED
    BY <1>2, <2>2, <2>4, <2>5 DEF SetNode, TypeOK, sessionVars
<1>3. ASSUME NEW n \in Name, DeleteNode(n) PROVE TypeOK'
  <2>1. nodeMap[n] \in NodeObject
    BY <1>3 DEF DeleteNode, TypeOK
  <2>2. cur' \in NodeEventObject
    BY <1>3, <2>1 DEF DeleteNode, NodeEventObject
  <2>3. QED
    BY <1>3, <2>2 DEF DeleteNode, TypeOK, sessionVars
<1>4. CASE StoreNodeEvent
  <2>1. eventMap' \in [1 .. rv -> NodeEventObject]
    BY <1>4 DEF StoreNodeEvent, TypeOK
  <2>2. eventMap' \in Seq(NodeEventObject)
    BY <2>1, IsASeq DEF TypeOK
  <2>3. QED
    BY <1>4, <2>1, <2>2 DEF StoreNodeEvent, TypeOK, sessionVars
<1>5. ASSUME NEW s \in Session, EnqueueNode(s) PROVE TypeOK'
  BY <1>5 DEF EnqueueNode, TypeOK, Versions, storeVars
<1>6. CASE FinishNode
  <2>1. cur.name \in Name /\ (cur.type = "set" => cur.node.ip \in IP)
    BY <1>6 DEF FinishNode, TypeOK, NodeEventObject, NodeObject
  <2>2. QED
    BY <1>6, <2>1 DEF FinishNode, TypeOK, sessionVars
<1>7. ASSUME NEW s \in Session, NEW m \in 0 .. MaxVersion, WatchNode(s, m) PROVE TypeOK'
  BY <1>7 DEF WatchNode, TypeOK, storeVars, writerVars
<1>8. ASSUME NEW s \in Session, ListNode(s) PROVE TypeOK'
  BY <1>8 DEF ListNode, TypeOK, storeVars, writerVars
<1>9. ASSUME NEW s \in Session, AddNodeQueue(s) PROVE TypeOK'
  BY <1>9 DEF AddNodeQueue, TypeOK, storeVars
<1>10. ASSUME NEW s \in Session, ListNodeStart(s) PROVE TypeOK'
  BY <1>10 DEF ListNodeStart, TypeOK, storeVars, writerVars
<1>11. ASSUME NEW s \in Session, ListNodeRead(s) PROVE TypeOK'
  <2>1. NextListed(s) \in Versions
    BY <1>11 DEF ListNodeRead, Reading, NextListed, TypeOK, Versions
  <2>2. QED
    BY <1>11, <2>1 DEF ListNodeRead, TypeOK, storeVars, writerVars
<1>12. ASSUME NEW s \in Session, ListNodeNil(s) \/ ConvertIPPanics(s) PROVE TypeOK'
  BY <1>12 DEF ListNodeNil, ConvertIPPanics, TypeOK, storeVars, writerVars, sessionVars
<1>13. ASSUME NEW s \in Session, ListNodeEnd(s) PROVE TypeOK'
  <2>1. <<>> \in Seq(Versions) /\ pending[s] \in Seq(Versions)
    BY DEF TypeOK
  <2>2. sent' \in [Session -> Seq(Versions)] /\ pending' \in [Session -> Seq(Versions)]
    <3>1. CASE s \in queueMap
      BY <1>13, <3>1 DEF ListNodeEnd, TypeOK
    <3>2. CASE s \notin queueMap
      <4>1. pending' = [pending EXCEPT ![s] = <<>>]
        BY <1>13, <3>2 DEF ListNodeEnd
      <4>2. sent' = [sent EXCEPT ![s] = pending[s]] \/ sent' = sent
        BY <1>13, <3>2 DEF ListNodeEnd
      <4>3. QED
        BY <2>1, <4>1, <4>2 DEF TypeOK
    <3>3. QED
      BY <3>1, <3>2
  <2>3. spc' \in [Session -> {"idle", "adding", "list", "listing", "sending",
                           "removing", "closed"}]
    BY <1>13 DEF ListNodeEnd, TypeOK
  <2>4. smax' \in [Session -> 0 .. MaxVersion] /\ open' \subseteq Session
    BY <1>13 DEF ListNodeEnd, TypeOK
  <2>5. /\ up' = up /\ rv' = rv /\ nodeMap' = nodeMap /\ eventMap' = eventMap
        /\ nodeIPMap' = nodeIPMap /\ queueMap' = queueMap /\ wpc' = wpc /\ cur' = cur
        /\ todo' = todo /\ from' = from /\ queue' = queue
    BY <1>13 DEF ListNodeEnd, storeVars, writerVars
  <2>6. QED
    BY <2>2, <2>3, <2>4, <2>5 DEF TypeOK
<1>14. ASSUME NEW s \in Session, SendNode(s) PROVE TypeOK'
  BY <1>14, SMTT(20) DEF SendNode, TypeOK, storeVars, writerVars
<1>15. ASSUME NEW s \in Session, SendFails(s) PROVE TypeOK'
  BY <1>15 DEF SendFails, TypeOK, storeVars, writerVars
<1>16. ASSUME NEW s \in Session, DequeueNode(s) PROVE TypeOK'
  BY <1>16, SMTT(20) DEF DequeueNode, TypeOK, storeVars, writerVars
<1>17. ASSUME NEW s \in Session, RemoveNodeQueue(s) PROVE TypeOK'
  BY <1>17 DEF RemoveNodeQueue, TypeOK, storeVars
<1>18. ASSUME NEW s \in Session, Disconnect(s) PROVE TypeOK'
  BY <1>18 DEF Disconnect, TypeOK, storeVars, writerVars
<1>19. CASE MapRace
  BY <1>19 DEF MapRace, TypeOK, storeVars, writerVars, sessionVars
<1>20. CASE UNCHANGED vars
  BY <1>20 DEF vars, TypeOK, storeVars, writerVars, sessionVars
<1>21. QED
  BY <1>2, <1>3, <1>4, <1>5, <1>6, <1>7, <1>8, <1>9, <1>10, <1>11, <1>12, <1>13,
     <1>14, <1>15, <1>16, <1>17, <1>18, <1>19, <1>20
     DEF Next, ClusterStep, WriterStep, SessionStep, ClientStep

\* Every reachable state is well typed.
THEOREM TypeCorrect == Spec => []TypeOK
<1>1. QED
  BY TypeInit, TypeStep, PTL DEF Spec

-----------------------------------------------------------------------------
(* The elements of a sequence.                                             *)

\* An appended element is the only new one.
LEMMA RangeAppend ==
  ASSUME NEW S, NEW q \in Seq(S), NEW e \in S
  PROVE  Range(Append(q, e)) = Range(q) \cup {e}
<1>1. Append(q, e) \in Seq(S) /\ Len(Append(q, e)) = Len(q) + 1 /\ Len(q) \in Nat
  OBVIOUS
<1>2. \A i \in 1 .. Len(q) : Append(q, e)[i] = q[i]
  OBVIOUS
<1>3. Append(q, e)[Len(q) + 1] = e
  OBVIOUS
<1>4. DOMAIN q = 1 .. Len(q) /\ DOMAIN Append(q, e) = 1 .. (Len(q) + 1)
  OBVIOUS
<1>5. ASSUME NEW x PROVE x \in Range(Append(q, e)) <=> x \in Range(q) \cup {e}
  BY <1>1, <1>2, <1>3, <1>4 DEF Range
<1>6. QED
  BY <1>5

\* Taking the head off a sequence takes one element at most.
LEMMA RangeHeadTail ==
  ASSUME NEW S, NEW q \in Seq(S), q # <<>>
  PROVE  Range(q) = {Head(q)} \cup Range(Tail(q))
<1>1. Len(q) \in Nat \ {0} /\ Head(q) = q[1]
  OBVIOUS
<1>2. Tail(q) \in Seq(S) /\ Len(Tail(q)) = Len(q) - 1
  BY HeadTailProperties
<1>3. \A i \in 1 .. (Len(q) - 1) : Tail(q)[i] = q[i + 1]
  OBVIOUS
<1>4. DOMAIN q = 1 .. Len(q) /\ DOMAIN Tail(q) = 1 .. (Len(q) - 1)
  BY <1>2
<1>5. ASSUME NEW x PROVE x \in Range(q) <=> x = q[1] \/ x \in Range(Tail(q))
  <2>1. ASSUME NEW i \in DOMAIN q, x = q[i] PROVE x = q[1] \/ x \in Range(Tail(q))
    <3>1. i = 1 \/ i - 1 \in 1 .. (Len(q) - 1)
      BY <1>1, <1>4
    <3>2. CASE i - 1 \in 1 .. (Len(q) - 1)
      BY <1>3, <1>4, <2>1, <3>2 DEF Range
    <3>3. QED
      BY <2>1, <3>1, <3>2
  <2>2. ASSUME x \in Range(Tail(q)) PROVE x \in Range(q)
    <3>1. PICK i \in 1 .. (Len(q) - 1) : x = Tail(q)[i]
      BY <1>4, <2>2 DEF Range
    <3>2. x = q[i + 1] /\ i + 1 \in DOMAIN q
      BY <1>1, <1>3, <1>4, <3>1
    <3>3. QED
      BY <3>2 DEF Range
  <2>3. q[1] \in Range(q)
    BY <1>1, <1>4 DEF Range
  <2>4. QED
    BY <2>1, <2>2, <2>3 DEF Range
<1>6. QED
  BY <1>1, <1>5

\* The empty sequence has no element and a singleton has one.
LEMMA RangeSmall == Range(<<>>) = {} /\ \A e : Range(<<e>>) = {e}
BY DEF Range

-----------------------------------------------------------------------------
(* No stream skips an event.                                               *)

\* The number of versions offered to a queue is a version or 0.
Offered == \A s \in Session : EnqueuedUpTo(s) \in Nat

\* The types say so.
LEMMA EnqueuedType == TypeOK => Offered
<1>1. SUFFICES ASSUME TypeOK, NEW s \in Session PROVE EnqueuedUpTo(s) \in Nat
  BY DEF Offered
<1>2. QED
  BY <1>1, MaxVersionAssumption DEF TypeOK, EnqueuedUpTo

\* The same after a step.
LEMMA EnqueuedTypeNext == TypeOK' => Offered'
BY EnqueuedType, PTL

\* The types of what one request holds.
LEMMA SessionTypes ==
  ASSUME TypeOK, NEW s \in Session
  PROVE  /\ rv \in Nat
         /\ from[s] \in Nat /\ smax[s] \in Nat
         /\ pending[s] \in Seq(Versions) /\ Len(pending[s]) \in Nat
         /\ queue[s] \in Seq(Versions) /\ Len(queue[s]) \in Nat
         /\ sent[s] \in Seq(Versions)
<1>1. /\ rv \in 0 .. MaxVersion /\ from[s] \in 0 .. MaxVersion /\ smax[s] \in 0 .. MaxVersion
      /\ pending[s] \in Seq(Versions) /\ queue[s] \in Seq(Versions)
      /\ sent[s] \in Seq(Versions)
  BY DEF TypeOK
<1>2. QED
  BY <1>1, MaxVersionAssumption

\* What one request may assume of a step of somebody else: its own state is
\* left alone, events are only added, and what was offered to its queue stays
\* the same, or it has no queue.
SameSession(s) ==
  /\ spc'[s] = spc[s] /\ from'[s] = from[s] /\ smax'[s] = smax[s]
  /\ pending'[s] = pending[s] /\ queue'[s] = queue[s] /\ sent'[s] = sent[s]
  /\ s \in queueMap' <=> s \in queueMap
  /\ DOMAIN eventMap \subseteq DOMAIN eventMap'
  /\ \/ EnqueuedUpTo(s)' = EnqueuedUpTo(s)
     \/ s \notin queueMap /\ EnqueuedUpTo(s) <= EnqueuedUpTo(s)'

\* Such a step keeps the invariant of the request.
LEMMA SessionFrame ==
  ASSUME TypeOK, TypeOK', NEW s \in Session, SessionInv(s), SameSession(s)
  PROVE  SessionInv(s)'
<1>1. EnqueuedUpTo(s) \in Nat /\ EnqueuedUpTo(s)' \in Nat
  BY EnqueuedType, EnqueuedTypeNext DEF Offered
<1>2. Sent(s)' = Sent(s) /\ Range(pending'[s]) = Range(pending[s])
       /\ Range(queue'[s]) = Range(queue[s])
  BY DEF SameSession, Sent
<1>3. s \in queueMap => LeftQueue(s)' = LeftQueue(s)
  BY DEF SameSession, LeftQueue
<1>4. s \notin queueMap => Len(queue'[s]) = 0
  BY DEF SameSession, SessionInv, Phases
<1>5. QueueIsSuffix(s)'
  <2>1. CASE s \in queueMap
    BY <1>3, <2>1 DEF SameSession, SessionInv, QueueIsSuffix
  <2>2. CASE s \notin queueMap
    BY <1>1, <1>4, <2>2 DEF QueueIsSuffix
  <2>3. QED
    BY <2>1, <2>2
<1>6. Phases(s)'
  BY DEF SameSession, SessionInv, Phases
<1>7. ListingOK(s)'
  BY <1>3 DEF SameSession, SessionInv, ListingOK
<1>8. SendingOK(s)'
  <2>1. SUFFICES ASSUME spc[s] = "sending" PROVE SendingOK(s)'
    BY DEF SameSession, SendingOK
  <2>2. s \in queueMap /\ LeftQueue(s)' = LeftQueue(s)
    BY <1>3, <2>1 DEF SessionInv, Phases
  <2>3. QED
    BY <1>2, <2>1, <2>2 DEF SameSession, SessionInv, SendingOK
<1>9. InLog(s)'
  BY <1>2 DEF SameSession, SessionInv, InLog
<1>10. GapFree(s)'
  BY <1>2 DEF SameSession, SessionInv, GapFree
<1>11. QED
  BY <1>5, <1>6, <1>7, <1>8, <1>9, <1>10 DEF SessionInv

\* The steps of the worker, other than EnqueueNode of its own queue, leave a
\* request as it is.
LEMMA WriterFrame ==
  ASSUME TypeOK, NEW t \in Session,
         \/ \E n \in Name : \E o \in Observed[n] : SetNode(n, o)
         \/ \E n \in Name : DeleteNode(n)
         \/ StoreNodeEvent
         \/ \E s \in Session : s # t /\ EnqueueNode(s)
         \/ FinishNode
         \/ MapRace
  PROVE  SameSession(t)
<1>1. rv \in Nat /\ todo \subseteq queueMap /\ (wpc # "enqueueing" => todo = {})
  BY MaxVersionAssumption DEF TypeOK
<1>2. ASSUME NEW n \in Name, NEW o \in Observed[n], SetNode(n, o) PROVE SameSession(t)
  BY <1>1, <1>2 DEF SetNode, SameSession, EnqueuedUpTo, sessionVars
<1>3. ASSUME NEW n \in Name, DeleteNode(n) PROVE SameSession(t)
  BY <1>1, <1>3 DEF DeleteNode, SameSession, EnqueuedUpTo, sessionVars
<1>4. CASE StoreNodeEvent
  BY <1>1, <1>4 DEF StoreNodeEvent, SameSession, EnqueuedUpTo, sessionVars
<1>5. ASSUME NEW s \in Session, s # t, EnqueueNode(s) PROVE SameSession(t)
  BY <1>1, <1>5 DEF EnqueueNode, SameSession, EnqueuedUpTo, storeVars, TypeOK
<1>6. CASE FinishNode
  BY <1>1, <1>6 DEF FinishNode, SameSession, EnqueuedUpTo, sessionVars
<1>7. CASE MapRace
  BY <1>7 DEF MapRace, SameSession, EnqueuedUpTo, sessionVars, storeVars, writerVars
<1>8. QED
  BY <1>2, <1>3, <1>4, <1>5, <1>6, <1>7

\* The steps of one request leave the others as they are.
LEMMA SessionsApart ==
  ASSUME TypeOK, NEW s \in Session, NEW t \in Session, s # t,
         \/ SessionStep(s)
         \/ \E m \in 0 .. MaxVersion : WatchNode(s, m)
         \/ ListNode(s)
         \/ Disconnect(s)
  PROVE  SameSession(t)
<1>1. ASSUME NEW m \in 0 .. MaxVersion, WatchNode(s, m) PROVE SameSession(t)
  BY <1>1 DEF WatchNode, SameSession, EnqueuedUpTo, storeVars, writerVars, TypeOK
<1>2. CASE ListNode(s)
  BY <1>2 DEF ListNode, SameSession, EnqueuedUpTo, storeVars, writerVars, TypeOK
<1>3. CASE Disconnect(s)
  BY <1>3 DEF Disconnect, SameSession, EnqueuedUpTo, storeVars, writerVars, TypeOK
<1>4. CASE AddNodeQueue(s)
  <2>1. t \in todo' <=> t \in todo
    BY <1>4 DEF AddNodeQueue
  <2>2. QED
    BY <1>4, <2>1 DEF AddNodeQueue, SameSession, EnqueuedUpTo, storeVars, TypeOK
<1>5. CASE ListNodeStart(s)
  BY <1>5 DEF ListNodeStart, SameSession, EnqueuedUpTo, storeVars, writerVars, TypeOK
<1>6. CASE ListNodeRead(s)
  BY <1>6 DEF ListNodeRead, SameSession, EnqueuedUpTo, storeVars, writerVars, TypeOK
<1>7. CASE ListNodeNil(s) \/ ConvertIPPanics(s)
  BY <1>7
     DEF ListNodeNil, ConvertIPPanics, SameSession, EnqueuedUpTo, storeVars, writerVars, sessionVars
<1>8. CASE ListNodeEnd(s)
  BY <1>8 DEF ListNodeEnd, SameSession, EnqueuedUpTo, storeVars, writerVars, TypeOK
<1>9. CASE SendNode(s)
  BY <1>9 DEF SendNode, SameSession, EnqueuedUpTo, storeVars, writerVars, TypeOK
<1>10. CASE SendFails(s)
  BY <1>10 DEF SendFails, SameSession, EnqueuedUpTo, storeVars, writerVars, TypeOK
<1>11. CASE DequeueNode(s)
  BY <1>11 DEF DequeueNode, SameSession, EnqueuedUpTo, storeVars, writerVars, TypeOK
<1>12. CASE RemoveNodeQueue(s)
  <2>1. t \in todo' <=> t \in todo
    BY <1>12 DEF RemoveNodeQueue
  <2>2. QED
    BY <1>12, <2>1 DEF RemoveNodeQueue, SameSession, EnqueuedUpTo, storeVars, TypeOK
<1>13. QED
  BY <1>1, <1>2, <1>3, <1>4, <1>5, <1>6, <1>7, <1>8, <1>9, <1>10, <1>11, <1>12
     DEF SessionStep

\* Appending the version being published keeps a queue the suffix of what was
\* offered.
LEMMA EnqueueNodeKeeps ==
  ASSUME StreamInv, TypeOK', NEW s \in Session, EnqueueNode(s)
  PROVE  SessionInv(s)'
<1>1. TypeOK /\ SessionInv(s)
  BY DEF StreamInv
<1>2. rv \in Versions /\ wpc = "enqueueing" /\ s \in queueMap /\ queue[s] \in Seq(Versions)
  BY <1>1, MaxVersionAssumption DEF EnqueueNode, TypeOK, Versions
<1>3. EnqueuedUpTo(s) = rv - 1 /\ EnqueuedUpTo(s)' = rv
  BY <1>1, <1>2 DEF EnqueueNode, EnqueuedUpTo, storeVars
<1>4. /\ queue'[s] = Append(queue[s], rv)
      /\ Len(queue'[s]) = Len(queue[s]) + 1 /\ Len(queue[s]) \in Nat
      /\ Range(queue'[s]) = Range(queue[s]) \cup {rv}
  BY <1>1, <1>2, RangeAppend DEF EnqueueNode, TypeOK
<1>5. LeftQueue(s)' = LeftQueue(s)
  BY <1>2, <1>3, <1>4 DEF LeftQueue, Versions
<1>6. /\ spc' = spc /\ from' = from /\ smax' = smax /\ pending' = pending /\ sent' = sent
      /\ queueMap' = queueMap /\ eventMap' = eventMap
  BY DEF EnqueueNode, storeVars
<1>7. QueueIsSuffix(s)'
  <2>1. Len(queue'[s]) <= EnqueuedUpTo(s)'
    BY <1>1, <1>2, <1>3, <1>4 DEF SessionInv, QueueIsSuffix, Versions
  <2>2. ASSUME NEW i \in 1 .. Len(queue'[s]) PROVE queue'[s][i] = LeftQueue(s)' + i
    <3>1. CASE i \in 1 .. Len(queue[s])
      BY <1>1, <1>2, <1>4, <1>5, <3>1 DEF SessionInv, QueueIsSuffix
    <3>2. CASE i = Len(queue[s]) + 1
      BY <1>2, <1>3, <1>4, <1>5, <3>2 DEF LeftQueue, Versions
    <3>3. QED
      BY <1>4, <3>1, <3>2
  <2>3. QED
    BY <2>1, <2>2 DEF QueueIsSuffix
<1>8. Phases(s)'
  BY <1>1, <1>2, <1>6 DEF SessionInv, Phases
<1>9. ListingOK(s)'
  BY <1>1, <1>5, <1>6 DEF SessionInv, ListingOK
<1>10. SendingOK(s)'
  BY <1>1, <1>5, <1>6 DEF SessionInv, SendingOK, Sent
<1>11. InLog(s)'
  <2>1. rv \in DOMAIN eventMap
    BY <1>1, <1>2 DEF TypeOK, Versions
  <2>2. QED
    BY <1>1, <1>4, <1>6, <2>1 DEF SessionInv, InLog, Sent
<1>12. GapFree(s)'
  BY <1>1, <1>6 DEF SessionInv, GapFree, Sent
<1>13. QED
  BY <1>7, <1>8, <1>9, <1>10, <1>11, <1>12 DEF SessionInv

\* Opening a request, registering its queue and losing its client hold and
\* send nothing.
LEMMA QuietStepKeeps ==
  ASSUME StreamInv, TypeOK', NEW s \in Session,
         \/ \E m \in 0 .. MaxVersion : WatchNode(s, m)
         \/ ListNode(s)
         \/ AddNodeQueue(s)
         \/ ListNodeNil(s)
         \/ ConvertIPPanics(s)
         \/ Disconnect(s)
  PROVE  SessionInv(s)'
<1>1. TypeOK /\ SessionInv(s)
  BY DEF StreamInv
<1>2. CASE ListNodeNil(s) \/ ConvertIPPanics(s) \/ Disconnect(s)
  <2>1. SameSession(s)
    BY <1>2
       DEF ListNodeNil, ConvertIPPanics, Disconnect, SameSession, EnqueuedUpTo, storeVars, writerVars,
                sessionVars
  <2>2. QED
    BY <1>1, <2>1, SessionFrame
<1>3. CASE (\E m \in 0 .. MaxVersion : WatchNode(s, m)) \/ ListNode(s) \/ AddNodeQueue(s)
  <2>1. /\ spc[s] \in {"idle", "adding"} /\ spc'[s] \in {"adding", "list"}
        /\ spc'[s] = "adding" => queueMap' = queueMap
        /\ pending' = pending /\ queue' = queue /\ sent' = sent
    BY <1>1, <1>3 DEF WatchNode, ListNode, AddNodeQueue, TypeOK
  <2>2. s \notin queueMap /\ queue[s] = <<>> /\ pending[s] = <<>> /\ sent[s] = <<>>
    BY <1>1, <2>1 DEF SessionInv, Phases
  <2>3. EnqueuedUpTo(s)' \in Nat
    BY EnqueuedTypeNext DEF Offered
  <2>4. QueueIsSuffix(s)'
    BY <2>1, <2>2, <2>3 DEF QueueIsSuffix
  <2>5. Phases(s)'
    BY <2>1, <2>2 DEF Phases
  <2>6. ListingOK(s)' /\ SendingOK(s)'
    BY <2>1 DEF ListingOK, SendingOK
  <2>7. InLog(s)' /\ GapFree(s)'
    BY <2>1, <2>2, RangeSmall DEF InLog, GapFree, Sent
  <2>8. QED
    BY <2>4, <2>5, <2>6, <2>7 DEF SessionInv
<1>4. QED
  BY <1>2, <1>3

\* The listing starts at a version that covers everything offered to the queue.
LEMMA ListNodeStartKeeps ==
  ASSUME StreamInv, TypeOK', NEW s \in Session, ListNodeStart(s)
  PROVE  SessionInv(s)'
<1>1. TypeOK /\ SessionInv(s) /\ rv \in Nat /\ Len(queue[s]) \in Nat
  BY SessionTypes DEF StreamInv
<1>2. /\ spc[s] = "list" /\ spc'[s] = "listing" /\ smax'[s] = rv
      /\ from' = from /\ pending' = pending /\ queue' = queue /\ sent' = sent
      /\ queueMap' = queueMap /\ eventMap' = eventMap
      /\ EnqueuedUpTo(s)' = EnqueuedUpTo(s)
  BY <1>1 DEF ListNodeStart, TypeOK, storeVars, writerVars, EnqueuedUpTo
<1>3. LeftQueue(s)' = LeftQueue(s) /\ LeftQueue(s) <= rv
  BY <1>1, <1>2 DEF LeftQueue, EnqueuedUpTo
<1>4. pending[s] = <<>> /\ sent[s] = <<>>
  BY <1>1, <1>2 DEF SessionInv, Phases
<1>5. QueueIsSuffix(s)'
  BY <1>1, <1>2, <1>3 DEF SessionInv, QueueIsSuffix
<1>6. Phases(s)'
  BY <1>1, <1>2 DEF SessionInv, Phases
<1>7. ListingOK(s)' /\ SendingOK(s)'
  BY <1>2, <1>3, <1>4 DEF ListingOK, SendingOK
<1>8. InLog(s)' /\ GapFree(s)'
  BY <1>1, <1>2 DEF SessionInv, InLog, GapFree, Sent
<1>9. QED
  BY <1>5, <1>6, <1>7, <1>8 DEF SessionInv

\* Reading the next event extends the listing by the next version.
LEMMA ListNodeReadKeeps ==
  ASSUME StreamInv, TypeOK', NEW s \in Session, ListNodeRead(s)
  PROVE  SessionInv(s)'
<1> DEFINE v == NextListed(s)
<1>1. /\ TypeOK /\ SessionInv(s) /\ pending[s] \in Seq(Versions) /\ from[s] \in Nat
      /\ smax[s] \in 0 .. MaxVersion
  BY SessionTypes DEF StreamInv, TypeOK
<1>2. v \in Versions /\ v \in DOMAIN eventMap
  BY <1>1, MaxVersionAssumption DEF ListNodeRead, Reading, NextListed, Versions
<1>3. /\ spc[s] = "listing" /\ spc' = spc /\ smax' = smax
      /\ from' = from /\ queue' = queue /\ sent' = sent
      /\ queueMap' = queueMap /\ eventMap' = eventMap
      /\ EnqueuedUpTo(s)' = EnqueuedUpTo(s) /\ LeftQueue(s)' = LeftQueue(s)
  BY <1>1 DEF ListNodeRead, Reading, storeVars, writerVars, EnqueuedUpTo, LeftQueue
<1>4. pending'[s] = Append(pending[s], v)
  BY <1>1 DEF ListNodeRead, TypeOK
<1>5. /\ Range(pending'[s]) = Range(pending[s]) \cup {v}
      /\ Len(pending'[s]) = Len(pending[s]) + 1 /\ Len(pending[s]) \in Nat
  BY <1>1, <1>2, <1>4, RangeAppend
<1>6. QueueIsSuffix(s)'
  BY <1>1, <1>3 DEF SessionInv, QueueIsSuffix
<1>7. Phases(s)'
  BY <1>1, <1>3 DEF SessionInv, Phases
<1>8. ListingOK(s)'
  <2>1. ASSUME NEW i \in 1 .. Len(pending'[s]) PROVE pending'[s][i] = from[s] + i
    <3>1. CASE i \in 1 .. Len(pending[s])
      BY <1>1, <1>3, <1>4, <3>1 DEF SessionInv, ListingOK
    <3>2. CASE i = Len(pending[s]) + 1
      <4>1. pending'[s][i] = v
        BY <1>1, <1>2, <1>4, <3>2
      <4>2. v = from[s] + i
        BY <1>1, <1>5, <3>2 DEF NextListed
      <4>3. QED
        BY <4>1, <4>2
    <3>3. QED
      BY <1>5, <3>1, <3>2
  <2>2. QED
    BY <1>1, <1>3, <2>1 DEF SessionInv, ListingOK
<1>9. SendingOK(s)'
  BY <1>3 DEF SendingOK
<1>10. InLog(s)' /\ GapFree(s)'
  BY <1>1, <1>2, <1>3, <1>5 DEF SessionInv, InLog, GapFree, Sent
<1>11. QED
  BY <1>6, <1>7, <1>8, <1>9, <1>10 DEF SessionInv

\* When the listing is complete it reaches up to what left the queue; a list
\* request answers with it.
LEMMA ListNodeEndKeeps ==
  ASSUME StreamInv, TypeOK', NEW s \in Session, ListNodeEnd(s)
  PROVE  SessionInv(s)'
<1> DEFINE n == Len(pending[s])
<1>1. /\ TypeOK /\ SessionInv(s) /\ pending[s] \in Seq(Versions) /\ from[s] \in Nat
      /\ smax[s] \in Nat /\ n \in Nat /\ Len(queue[s]) \in Nat /\ EnqueuedUpTo(s) \in Nat
  BY SessionTypes, EnqueuedType DEF StreamInv, Offered
<1>2. /\ spc[s] = "listing" /\ sent[s] = <<>> /\ smax[s] < from[s] + n + 1
      /\ \A i \in 1 .. n : pending[s][i] = from[s] + i
  BY <1>1 DEF ListNodeEnd, NextListed, SessionInv, Phases, ListingOK
<1>3. /\ from' = from /\ queue' = queue /\ queueMap' = queueMap /\ eventMap' = eventMap
      /\ EnqueuedUpTo(s)' = EnqueuedUpTo(s) /\ LeftQueue(s)' = LeftQueue(s)
  BY DEF ListNodeEnd, storeVars, writerVars, EnqueuedUpTo, LeftQueue
<1>4. Range(pending[s]) = (from[s] + 1) .. (from[s] + n)
  <2>1. DOMAIN pending[s] = 1 .. n
    BY <1>1
  <2>2. ASSUME NEW v \in (from[s] + 1) .. (from[s] + n) PROVE v \in Range(pending[s])
    <3>1. v - from[s] \in 1 .. n /\ from[s] + (v - from[s]) = v
      BY <1>1
    <3>2. pending[s][v - from[s]] = v
      BY <1>2, <3>1
    <3>3. QED
      BY <2>1, <3>1, <3>2 DEF Range
  <2>3. ASSUME NEW i \in 1 .. n PROVE pending[s][i] \in (from[s] + 1) .. (from[s] + n)
    BY <1>1, <1>2
  <2>4. QED
    BY <2>1, <2>2, <2>3 DEF Range
<1>5. QueueIsSuffix(s)'
  BY <1>1, <1>3 DEF SessionInv, QueueIsSuffix
<1>6. CASE s \in queueMap
  <2>1. spc'[s] = "sending" /\ pending' = pending /\ sent' = sent
    BY <1>1, <1>6 DEF ListNodeEnd, TypeOK
  <2>2. Phases(s)'
    BY <1>1, <1>3, <1>6, <2>1 DEF SessionInv, Phases
  <2>3. LeftQueue(s) \in Int /\ LeftQueue(s) <= smax[s]
    BY <1>1, <1>2, <1>6 DEF SessionInv, ListingOK, LeftQueue
  <2>4. (from[s] + 1) .. LeftQueue(s) \subseteq Range(pending[s])
    BY <1>1, <1>2, <1>4, <2>3
  <2>5. ASSUME NEW i \in 1 .. n
        PROVE  /\ pending[s][i] = pending[s][1] + i - 1
               /\ (from[s] + 1) .. (pending[s][1] - 1) = {}
    <3>1. 1 \in 1 .. n
      BY <1>1
    <3>2. pending[s][1] = from[s] + 1 /\ pending[s][i] = from[s] + i
      BY <1>2, <3>1
    <3>3. QED
      BY <1>1, <3>2
  <2>6. SendingOK(s)'
    BY <1>3, <2>1, <2>4, <2>5 DEF SendingOK, Sent
  <2>7. ListingOK(s)' /\ InLog(s)' /\ GapFree(s)'
    BY <1>1, <1>3, <2>1 DEF SessionInv, ListingOK, InLog, GapFree, Sent
  <2>8. QED
    BY <1>5, <2>2, <2>6, <2>7 DEF SessionInv
<1>7. CASE s \notin queueMap
  <2>1. spc'[s] = "closed" /\ pending'[s] = <<>> /\ sent'[s] \in {pending[s], <<>>}
    BY <1>1, <1>2, <1>7 DEF ListNodeEnd, TypeOK
  <2>2. Phases(s)'
    BY <1>1, <1>3, <1>7, <2>1 DEF SessionInv, Phases
  <2>3. ListingOK(s)' /\ SendingOK(s)'
    BY <2>1 DEF ListingOK, SendingOK
  <2>4. Sent(s)' \in {Range(pending[s]), {}}
    BY <2>1, RangeSmall DEF Sent
  <2>5. InLog(s)'
    BY <1>1, <1>3, <2>1, <2>4, RangeSmall DEF SessionInv, InLog
  <2>6. GapFree(s)'
    BY <1>1, <1>3, <1>4, <2>4 DEF GapFree
  <2>7. QED
    BY <1>5, <2>2, <2>3, <2>5, <2>6 DEF SessionInv
<1>8. QED
  BY <1>6, <1>7

\* Sending the first pending version continues what was sent before it.
LEMMA SendNodeKeeps ==
  ASSUME StreamInv, TypeOK', NEW s \in Session, SendNode(s)
  PROVE  SessionInv(s)'
<1> DEFINE h == Head(pending[s])
<1>1. TypeOK /\ SessionInv(s) /\ pending[s] \in Seq(Versions) /\ sent[s] \in Seq(Versions)
      /\ from[s] \in Nat /\ s \in queueMap
  BY SessionTypes DEF StreamInv, SendNode, SessionInv, Phases
<1>2. /\ spc[s] = "sending" /\ spc' = spc /\ smax' = smax /\ from' = from /\ queue' = queue
      /\ queueMap' = queueMap /\ eventMap' = eventMap
      /\ EnqueuedUpTo(s)' = EnqueuedUpTo(s) /\ LeftQueue(s)' = LeftQueue(s)
  BY DEF SendNode, storeVars, writerVars, EnqueuedUpTo, LeftQueue
<1>3. pending[s] # <<>> /\ pending'[s] = Tail(pending[s]) /\ sent'[s] = Append(sent[s], h)
  BY <1>1 DEF SendNode, TypeOK
<1>4. /\ h \in Versions /\ h = pending[s][1] /\ 1 \in 1 .. Len(pending[s])
      /\ Len(pending'[s]) = Len(pending[s]) - 1 /\ Len(pending[s]) \in Nat
      /\ \A i \in 1 .. (Len(pending[s]) - 1) : pending'[s][i] = pending[s][i + 1]
  BY <1>1, <1>3
<1>5. Range(pending[s]) = {h} \cup Range(pending'[s])
  BY <1>1, <1>3, RangeHeadTail
<1>6. Sent(s)' = Sent(s) \cup {h}
  BY <1>1, <1>3, <1>4, RangeAppend DEF Sent
<1>7. (from[s] + 1) .. (h - 1) \subseteq Sent(s)
  BY <1>1, <1>2, <1>4 DEF SessionInv, SendingOK
<1>8. QueueIsSuffix(s)' /\ Phases(s)' /\ ListingOK(s)'
  BY <1>1, <1>2 DEF SessionInv, QueueIsSuffix, Phases, ListingOK
<1>9. GapFree(s)'
  <2>1. ASSUME NEW v \in Sent(s)' PROVE (from[s] + 1) .. (v - 1) \subseteq Sent(s)'
    BY <1>1, <1>6, <1>7 DEF SessionInv, GapFree
  <2>2. QED
    BY <1>2, <2>1 DEF GapFree
<1>10. InLog(s)'
  BY <1>1, <1>2, <1>5, <1>6 DEF SessionInv, InLog
<1>11. SendingOK(s)'
  <2>1. (from[s] + 1) .. LeftQueue(s) \subseteq Sent(s)' \cup Range(pending'[s])
    BY <1>1, <1>2, <1>5, <1>6 DEF SessionInv, SendingOK
  <2>2. ASSUME NEW i \in 1 .. Len(pending'[s])
        PROVE  /\ pending'[s][i] = pending'[s][1] + i - 1
               /\ (from[s] + 1) .. (pending'[s][1] - 1) \subseteq Sent(s)'
    <3>1. i + 1 \in 1 .. Len(pending[s]) /\ 2 \in 1 .. Len(pending[s])
          /\ i \in 1 .. (Len(pending[s]) - 1) /\ 1 \in 1 .. (Len(pending[s]) - 1)
      BY <1>4
    <3>2. \A j \in 1 .. Len(pending[s]) : pending[s][j] = h + j - 1
      BY <1>1, <1>2, <1>4 DEF SessionInv, SendingOK
    <3>3. pending'[s][i] = h + (i + 1) - 1 /\ pending'[s][1] = h + 2 - 1
      <4>1. pending'[s][i] = pending[s][i + 1] /\ pending'[s][1] = pending[s][1 + 1] /\ 1 + 1 = 2
        BY <1>4, <3>1
      <4>2. QED
        BY <3>1, <3>2, <4>1
    <3>4. h \in Int /\ i \in Int
      BY <1>4, <3>1 DEF Versions
    <3>5. pending'[s][i] = pending'[s][1] + i - 1
      BY <3>3, <3>4
    <3>6. (from[s] + 1) .. (pending'[s][1] - 1) \subseteq ((from[s] + 1) .. (h - 1)) \cup {h}
      <4>1. pending'[s][1] - 1 = h
        BY <3>3, <3>4
      <4>2. (from[s] + 1) .. h \subseteq ((from[s] + 1) .. (h - 1)) \cup {h}
        BY <1>1, <3>4
      <4>3. QED
        BY <4>1, <4>2
    <3>7. QED
      BY <1>6, <1>7, <3>5, <3>6
  <2>3. QED
    BY <1>2, <2>1, <2>2 DEF SendingOK
<1>12. QED
  BY <1>8, <1>9, <1>10, <1>11 DEF SessionInv

\* The version taken off the queue follows all that left it before.
LEMMA DequeueNodeKeeps ==
  ASSUME StreamInv, TypeOK', NEW s \in Session, DequeueNode(s)
  PROVE  SessionInv(s)'
<1> DEFINE h == Head(queue[s])
<1>1. TypeOK /\ SessionInv(s) /\ queue[s] \in Seq(Versions) /\ Len(queue[s]) \in Nat
      /\ from[s] \in Nat /\ s \in queueMap /\ EnqueuedUpTo(s) \in Nat
  BY SessionTypes, EnqueuedType DEF StreamInv, DequeueNode, SessionInv, Phases, Offered
<1>2. /\ spc[s] = "sending" /\ spc' = spc /\ smax' = smax /\ from' = from /\ sent' = sent
      /\ queueMap' = queueMap /\ eventMap' = eventMap
      /\ EnqueuedUpTo(s)' = EnqueuedUpTo(s)
  BY DEF DequeueNode, storeVars, writerVars, EnqueuedUpTo
<1>3. /\ pending[s] = <<>> /\ queue[s] # <<>>
      /\ queue'[s] = Tail(queue[s]) /\ pending'[s] = <<h>>
  BY <1>1 DEF DequeueNode, TypeOK
<1>4. /\ h \in Versions /\ h = queue[s][1] /\ 1 \in 1 .. Len(queue[s])
      /\ Len(queue'[s]) = Len(queue[s]) - 1
      /\ \A i \in 1 .. (Len(queue[s]) - 1) : queue'[s][i] = queue[s][i + 1]
  BY <1>1, <1>3
<1>5. h \in Int /\ h = LeftQueue(s) + 1 /\ LeftQueue(s)' = LeftQueue(s) + 1
  <2>1. LeftQueue(s)' = EnqueuedUpTo(s) - (Len(queue[s]) - 1)
    BY <1>2, <1>4 DEF LeftQueue
  <2>2. h = LeftQueue(s) + 1
    BY <1>1, <1>4 DEF SessionInv, QueueIsSuffix
  <2>3. QED
    BY <1>1, <1>4, <2>1, <2>2 DEF LeftQueue, Versions
<1>6. Range(queue[s]) = {h} \cup Range(queue'[s])
  BY <1>1, <1>3, RangeHeadTail
<1>7. (from[s] + 1) .. (h - 1) \subseteq Sent(s)
  <2>1. (from[s] + 1) .. LeftQueue(s) \subseteq Sent(s)
    BY <1>1, <1>2, <1>3, RangeSmall DEF SessionInv, SendingOK
  <2>2. LeftQueue(s) = h - 1
    BY <1>1, <1>5 DEF LeftQueue
  <2>3. QED
    BY <2>1, <2>2
<1>8. QueueIsSuffix(s)'
  <2>1. Len(queue'[s]) <= EnqueuedUpTo(s)'
    BY <1>1, <1>2, <1>4 DEF SessionInv, QueueIsSuffix
  <2>2. ASSUME NEW i \in 1 .. Len(queue'[s]) PROVE queue'[s][i] = LeftQueue(s)' + i
    <3>1. i \in 1 .. (Len(queue[s]) - 1) /\ i + 1 \in 1 .. Len(queue[s])
      BY <1>1, <1>4
    <3>2. queue'[s][i] = LeftQueue(s) + (i + 1)
      BY <1>1, <1>4, <3>1 DEF SessionInv, QueueIsSuffix
    <3>3. QED
      BY <1>1, <1>5, <3>1, <3>2 DEF LeftQueue
  <2>3. QED
    BY <2>1, <2>2 DEF QueueIsSuffix
<1>9. Phases(s)' /\ ListingOK(s)'
  BY <1>1, <1>2 DEF SessionInv, Phases, ListingOK
<1>10. GapFree(s)'
  BY <1>1, <1>2 DEF SessionInv, GapFree, Sent
<1>11. Range(pending'[s]) = {h}
  BY <1>3, RangeSmall
<1>12. InLog(s)'
  BY <1>1, <1>2, <1>6, <1>11 DEF SessionInv, InLog, Sent
<1>13. SendingOK(s)'
  <2>1. (from[s] + 1) .. LeftQueue(s)' \subseteq Sent(s) \cup {h}
    BY <1>1, <1>5, <1>7
  <2>2. Len(pending'[s]) = 1 /\ pending'[s][1] = h
    BY <1>3
  <2>3. \A i \in 1 .. Len(pending'[s]) :
          /\ pending'[s][i] = pending'[s][1] + i - 1
          /\ (from[s] + 1) .. (pending'[s][1] - 1) \subseteq Sent(s)
    BY <1>5, <1>7, <2>2
  <2>4. QED
    BY <1>2, <1>11, <2>1, <2>3 DEF SendingOK, Sent
<1>14. QED
  BY <1>8, <1>9, <1>10, <1>12, <1>13 DEF SessionInv

\* A watch that ends drops what it holds and leaves what it sent.
LEMMA ClosingKeeps ==
  ASSUME StreamInv, TypeOK', NEW s \in Session, SendFails(s) \/ RemoveNodeQueue(s)
  PROVE  SessionInv(s)'
<1>1. TypeOK /\ SessionInv(s) /\ spc[s] \in {"sending", "removing"} /\ s \in queueMap
  BY DEF StreamInv, SendFails, RemoveNodeQueue, SessionInv, Phases
<1>2. /\ spc'[s] \in {"removing", "closed"} /\ pending'[s] = <<>>
      /\ from' = from /\ sent' = sent /\ eventMap' = eventMap
      /\ spc'[s] = "removing" =>
           /\ queue' = queue /\ s \in queueMap'
           /\ EnqueuedUpTo(s)' = EnqueuedUpTo(s) /\ LeftQueue(s)' = LeftQueue(s)
      /\ spc'[s] = "closed" => queue'[s] = <<>> /\ s \notin queueMap'
  BY <1>1 DEF SendFails, RemoveNodeQueue, TypeOK, storeVars, writerVars, EnqueuedUpTo,
              LeftQueue, SessionInv, Phases
<1>3. EnqueuedUpTo(s)' \in Nat
  BY EnqueuedTypeNext DEF Offered
<1>4. QueueIsSuffix(s)'
  <2>1. CASE spc'[s] = "removing"
    BY <1>1, <1>2, <2>1 DEF SessionInv, QueueIsSuffix
  <2>2. CASE spc'[s] = "closed"
    BY <1>2, <1>3, <2>2 DEF QueueIsSuffix
  <2>3. QED
    BY <1>2, <2>1, <2>2
<1>5. Phases(s)' /\ ListingOK(s)' /\ SendingOK(s)'
  BY <1>1, <1>2 DEF Phases, ListingOK, SendingOK
<1>6. Range(queue'[s]) \subseteq Range(queue[s]) /\ Range(pending'[s]) = {}
  BY <1>2, RangeSmall
<1>7. InLog(s)' /\ GapFree(s)'
  BY <1>1, <1>2, <1>6 DEF SessionInv, InLog, GapFree, Sent
<1>8. QED
  BY <1>4, <1>5, <1>7 DEF SessionInv

\* The empty datastore satisfies the invariant.
LEMMA StreamInit == Init => StreamInv
<1>1. SUFFICES ASSUME Init, NEW s \in Session PROVE SessionInv(s)
  BY TypeInit DEF StreamInv
<1>2. /\ rv = 0 /\ wpc = "idle" /\ todo = {} /\ spc[s] = "idle" /\ s \notin queueMap
      /\ pending[s] = <<>> /\ queue[s] = <<>> /\ sent[s] = <<>>
  BY <1>1 DEF Init
<1>3. QED
  BY <1>2, RangeSmall DEF SessionInv, QueueIsSuffix, Phases, ListingOK, SendingOK, InLog,
                          GapFree, Sent, EnqueuedUpTo

\* Each step keeps the invariant of each request, the one that acts and the
\* others.
LEMMA StreamStep == StreamInv /\ [Next]_vars => StreamInv'
<1>1. SUFFICES ASSUME StreamInv, [Next]_vars PROVE StreamInv'
  OBVIOUS
<1>2. TypeOK /\ TypeOK'
  BY <1>1, TypeStep DEF StreamInv
<1>3. SUFFICES ASSUME NEW t \in Session PROVE SessionInv(t)'
  BY <1>2 DEF StreamInv
<1>4. SessionInv(t)
  BY <1>1 DEF StreamInv
<1>5. ASSUME SameSession(t) PROVE SessionInv(t)'
  BY <1>2, <1>4, <1>5, SessionFrame
<1>6. CASE ClusterStep \/ WriterStep \/ (up /\ MapRace)
  <2>1. CASE EnqueueNode(t)
    BY <1>1, <1>2, <2>1, EnqueueNodeKeeps
  <2>2. CASE ~EnqueueNode(t)
    <3>1. SameSession(t)
      BY <1>2, <1>6, <2>2, WriterFrame DEF ClusterStep, WriterStep
    <3>2. QED
      BY <1>5, <3>1
  <2>3. QED
    BY <2>1, <2>2
<1>7. ASSUME NEW s \in Session, SessionStep(s) \/ ClientStep(s) PROVE SessionInv(t)'
  <2>1. CASE s = t
    BY <1>1, <1>2, <1>7, <2>1, QuietStepKeeps, ListNodeStartKeeps, ListNodeReadKeeps,
       ListNodeEndKeeps, SendNodeKeeps, DequeueNodeKeeps, ClosingKeeps
       DEF SessionStep, ClientStep
  <2>2. CASE s # t
    <3>1. SameSession(t)
      BY <1>2, <1>7, <2>2, SessionsApart DEF ClientStep
    <3>2. QED
      BY <1>5, <3>1
  <2>3. QED
    BY <2>1, <2>2
<1>8. CASE UNCHANGED vars
  <2>1. SameSession(t)
    BY <1>8 DEF vars, storeVars, writerVars, sessionVars, SameSession, EnqueuedUpTo
  <2>2. QED
    BY <1>5, <2>1
<1>9. QED
  BY <1>1, <1>6, <1>7, <1>8 DEF Next

\* The invariant holds in every reachable state.
THEOREM StreamInvariant == Spec => []StreamInv
<1>1. QED
  BY StreamInit, StreamStep, PTL DEF Spec

\* No stream ever skips an event its client asked for.
THEOREM GapFreeStreams == Spec => []StreamGapFree
<1>1. StreamInv => StreamGapFree
  BY DEF StreamInv, SessionInv, StreamGapFree
<1>2. QED
  BY <1>1, StreamInvariant, PTL

\* No published event falls between the listing and the queue of a watch.
THEOREM NothingLost == Spec => []NoEventLost
<1>1. StreamInv => NoEventLost
  <2>1. SUFFICES ASSUME StreamInv, NEW s \in queueMap, spc[s] = "sending",
                        NEW v \in (from[s] + 1) .. EnqueuedUpTo(s)
                 PROVE  v \in Sent(s) \cup Range(pending[s]) \cup Range(queue[s])
    BY DEF NoEventLost
  <2>2. s \in Session /\ TypeOK
    BY <2>1 DEF StreamInv, TypeOK
  <2>3. /\ SessionInv(s) /\ EnqueuedUpTo(s) \in Nat /\ from[s] \in Nat
        /\ Len(queue[s]) \in Nat /\ queue[s] \in Seq(Versions)
    BY <2>1, <2>2, SessionTypes, EnqueuedType DEF StreamInv, Offered
  <2>4. LeftQueue(s) \in Int /\ v \in Int
    BY <2>3 DEF LeftQueue
  <2>5. CASE v <= LeftQueue(s)
    BY <2>1, <2>3, <2>4, <2>5 DEF SessionInv, SendingOK
  <2>6. CASE v > LeftQueue(s)
    <3>1. v - LeftQueue(s) \in 1 .. Len(queue[s])
      BY <2>3, <2>4, <2>6 DEF LeftQueue
    <3>2. queue[s][v - LeftQueue(s)] = v
      BY <2>3, <2>4, <3>1 DEF SessionInv, QueueIsSuffix
    <3>3. QED
      BY <2>3, <3>1, <3>2 DEF Range
  <2>7. QED
    BY <2>4, <2>5, <2>6
<1>2. QED
  BY <1>1, StreamInvariant, PTL
==============================================================================
