------------------------------- MODULE NodeSync -------------------------------
(***************************************************************************)
(* The node informer of the Rust client (node_informer.rs) on the server   *)
(* of NodeStore: NodeInformer::new lists once, run then watches for ever,  *)
(* starting each watch_node at the largest version it has handled.  The    *)
(* connection may break at any time and the server may be restarted, with  *)
(* an empty datastore.                                                     *)
(*                                                                         *)
(* Request 0 is the list_node of new, requests 1, 2, ... are the successive *)
(* calls of run_watch.                                                     *)
(***************************************************************************)
EXTENDS NodeStore

CONSTANTS MaxWatch,   \* bound: calls of run_watch
          MaxRestart  \* bound: restarts of the server

ASSUME RequestAssumption ==
  MaxWatch \in Nat /\ MaxRestart \in Nat /\ Session = 0 .. MaxWatch

VARIABLES
  cpc,        \* where the client is: "new", "listing", "waiting" or "watching",
              \* or "exited"
  req,        \* its current or next request
  got,        \* how many messages of that request it has handled
  cnodes,     \* RDMA_CTLINFO.nodes, by address
  cmax,       \* max_resource_version
  restarts,   \* restarts so far
  at,         \* version of the last message handled
  cut         \* some stream ended on a message older than cmax

clientVars == <<cpc, req, got, cnodes, cmax, at, cut>>
syncVars == <<vars, clientVars, restarts>>

\* An entry of RDMA_CTLINFO.nodes.
ClientNode == [name : Name, attr : Attr, rv : Versions]

ASSUME ClientNilAssumption == Nil \notin ClientNode

\* CtrlInfo::default()
NoNodes == [ip \in IP |-> Nil]

SyncInit ==
  /\ Init
  /\ cpc = "new"
  /\ req = 0
  /\ got = 0
  /\ cnodes = NoNodes
  /\ cmax = 0
  /\ restarts = 0
  /\ at = 0
  /\ cut = FALSE

\* NodeInformer::new calls list_node.
ClientList ==
  /\ cpc = "new"
  /\ up
  /\ ListNode(0)
  /\ cpc' = "listing"
  /\ UNCHANGED <<req, got, cnodes, cmax, restarts, at, cut>>

\* A delete only counts when its version is new to the client.
HandleOldDeleteBug(v) ==
  LET e == eventMap[v]
      ip == e.node.ip
  IN /\ cnodes' = IF e.type = "set"
                  THEN [cnodes EXCEPT ![ip] = [name |-> e.name, attr |-> e.node.attr, rv |-> v]]
                  ELSE IF v > cmax THEN [cnodes EXCEPT ![ip] = Nil] ELSE cnodes
     /\ cmax' = IF v > cmax THEN v ELSE cmax
     /\ at' = v

\* max_resource_version follows the sets only.
HandleSetMaxBug(v) ==
  LET e == eventMap[v]
      ip == e.node.ip
  IN /\ cnodes' = [cnodes EXCEPT ![ip] =
                     IF e.type = "set" THEN [name |-> e.name, attr |-> e.node.attr, rv |-> v]
                     ELSE Nil]
     /\ cmax' = IF e.type = "set" /\ v > cmax THEN v ELSE cmax
     /\ at' = v

\* max_resource_version follows every message.
HandleLastBug(v) ==
  LET e == eventMap[v]
      ip == e.node.ip
  IN /\ cnodes' = [cnodes EXCEPT ![ip] =
                     IF e.type = "set" THEN [name |-> e.name, attr |-> e.node.attr, rv |-> v]
                     ELSE Nil]
     /\ cmax' = v
     /\ at' = v

\* handle: a set is stored under the address of the node whatever is there, a
\* delete only removes an older entry.
Handle(v) ==
  LET e == eventMap[v]
      ip == e.node.ip
  IN /\ \/ /\ e.type = "set"
           /\ cnodes' = [cnodes EXCEPT ![ip] =
                           [name |-> e.name, attr |-> e.node.attr, rv |-> v]]
        \/ /\ e.type = "delete"
           /\ cnodes[ip] # Nil /\ cnodes[ip].rv < v
           /\ cnodes' = [cnodes EXCEPT ![ip] = Nil]
        \/ /\ e.type = "delete"
           /\ ~(cnodes[ip] # Nil /\ cnodes[ip].rv < v)
           /\ UNCHANGED cnodes
     /\ cmax' = IF v > cmax THEN v ELSE cmax
     /\ at' = v

\* The next message of the current request: of the answer of list_node, or of
\* the stream of watch_node.
ClientHandle ==
  /\ cpc \in {"listing", "watching"}
  /\ got < Len(sent[req])
  /\ Handle(sent[req][got + 1])
  /\ got' = got + 1
  /\ UNCHANGED <<vars, cpc, req, restarts, cut>>

\* connect or list_node fails: new returns the error, and so does main.
ClientExits ==
  /\ cpc \in {"new", "listing"}
  /\ got = 0
  /\ cpc' = "exited"
  /\ UNCHANGED <<vars, req, got, cnodes, cmax, restarts, at, cut>>

\* new returns once the answer is handled, and run calls run_watch.
ClientListed ==
  /\ cpc = "listing"
  /\ spc[req] = "closed"
  /\ got = Len(sent[req])
  /\ cpc' = "waiting"
  /\ req' = req + 1
  /\ got' = 0
  /\ UNCHANGED <<vars, cnodes, cmax, restarts, at, cut>>

\* The client names the version it expects instead of the one it has.
ClientWatchBug ==
  /\ cpc = "waiting"
  /\ up
  /\ req <= MaxWatch
  /\ WatchNode(req, cmax + 1)
  /\ cpc' = "watching"
  /\ UNCHANGED <<req, got, cnodes, cmax, restarts, at, cut>>

ClientWatch ==
  /\ cpc = "waiting"
  /\ up
  /\ req <= MaxWatch
  /\ WatchNode(req, cmax)
  /\ cpc' = "watching"
  /\ UNCHANGED <<req, got, cnodes, cmax, restarts, at, cut>>

\* The stream fails for the client: run_watch returns and run calls it again
\* after a second.  What was sent and not handled is lost.
ClientDrop ==
  /\ cpc = "watching"
  /\ req < MaxWatch
  /\ cpc' = "waiting"
  /\ req' = req + 1
  /\ got' = 0
  /\ cut' = (cut \/ at < cmax)
  /\ UNCHANGED <<vars, cnodes, cmax, restarts, at>>

\* The stream fails for the server, before or after it does for the client.
\* An answer of list_node that is lost is ClientExits.
StreamBreaks ==
  /\ up
  /\ \E s \in 1 .. (MaxWatch - 1) : Disconnect(s)
  /\ UNCHANGED <<clientVars, restarts>>

\* The pod of the server is restarted, after a crash or not, once the client
\* has lost its connection to it.
ServerRestart ==
  /\ restarts < MaxRestart
  /\ cpc = "waiting"
  /\ restarts' = restarts + 1
  /\ up' = TRUE
  /\ rv' = 0
  /\ nodeMap' = [n \in Name |-> Nil]
  /\ eventMap' = <<>>
  /\ nodeIPMap' = {}
  /\ queueMap' = {}
  /\ wpc' = "idle"
  /\ cur' = Nil
  /\ todo' = {}
  /\ spc' = [s \in Session |-> IF s < req THEN "closed" ELSE "idle"]
  /\ from' = [s \in Session |-> 0]
  /\ smax' = [s \in Session |-> 0]
  /\ pending' = [s \in Session |-> <<>>]
  /\ queue' = [s \in Session |-> <<>>]
  /\ open' = {}
  /\ sent' = [s \in Session |-> <<>>]
  /\ UNCHANGED clientVars

ServerStep ==
  /\ \/ ClusterStep
     \/ WriterStep
     \/ \E s \in Session : SessionStep(s)
     \/ up /\ MapRace
  /\ UNCHANGED <<clientVars, restarts>>

ClientTurn == ClientList \/ ClientHandle \/ ClientListed \/ ClientWatch

SyncNext ==
  \/ ServerStep
  \/ ClientTurn
  \/ ClientExits
  \/ ClientDrop
  \/ StreamBreaks
  \/ ServerRestart

SyncSpec == SyncInit /\ [][SyncNext]_syncVars

\* The client's tasks run when they can, and a client notices that its server
\* has closed the stream or died.
SyncFairSpec ==
  /\ SyncSpec
  /\ WF_syncVars(WriterStep /\ UNCHANGED <<clientVars, restarts>>)
  /\ \A s \in Session : WF_syncVars(SessionStep(s) /\ UNCHANGED <<clientVars, restarts>>)
  /\ WF_syncVars(ClientTurn)
  /\ WF_syncVars(ClientDrop /\ (req \notin open \/ ~up))

-----------------------------------------------------------------------------
(* Properties.                                                             *)

\* Every variable of the client stays within its type, and the client has not
\* handled more messages of its request than were sent.
SyncTypeOK ==
  /\ cpc \in {"new", "listing", "waiting", "watching", "exited"}
  /\ req \in 0 .. (MaxWatch + 1)
  /\ cpc \in {"new", "listing", "exited"} => req = 0
  /\ cpc = "watching" => req <= MaxWatch
  /\ got \in 0 .. IF cpc \in {"listing", "watching"} THEN Len(sent[req]) ELSE 0
  /\ cnodes \in [IP -> ClientNode \cup {Nil}]
  /\ cmax \in 0 .. MaxVersion
  /\ restarts \in 0 .. MaxRestart
  /\ at \in 0 .. cmax
  /\ cut \in BOOLEAN

\* What a client holds that knows exactly the nodes of the server after
\* version v, each under its address.
ViewAfter(v) ==
  [ip \in IP |->
     IF \E n \in Name : After(n, v + 1) # Nil /\ After(n, v + 1).ip = ip
     THEN LET n == CHOOSE n \in Name : After(n, v + 1) # Nil /\ After(n, v + 1).ip = ip
          IN [name |-> n, attr |-> After(n, v + 1).attr, rv |-> After(n, v + 1).rv]
     ELSE Nil]

\* Whenever the last message the client handled is the newest it has seen, its
\* nodes are exactly those of the server at that version - unless the server
\* was restarted or a stream was cut while it repeated older events.
ClientAtVersion ==
  restarts = 0 /\ ~cut /\ at = cmax => cnodes = ViewAfter(cmax)

\* The server has nothing left to say to a connected client, and the client
\* has handled everything.
Quiescent ==
  /\ up
  /\ wpc = "idle"
  /\ cpc = "watching"
  /\ spc[req] = "sending"
  /\ req \in open
  /\ pending[req] = <<>>
  /\ queue[req] = <<>>
  /\ got = Len(sent[req])

Synced ==
  /\ \A n \in Name : nodeMap[n] # Nil =>
       /\ cnodes[nodeMap[n].ip] # Nil
       /\ cnodes[nodeMap[n].ip].name = n
       /\ cnodes[nodeMap[n].ip].attr = nodeMap[n].attr
  /\ \A ip \in IP : cnodes[ip] # Nil =>
       nodeMap[cnodes[ip].name] # Nil /\ nodeMap[cnodes[ip].name].ip = ip

\* Once everything has been sent and handled the client has exactly the nodes
\* of the server, with the same escapes.
SyncedWhenQuiet == Quiescent /\ restarts = 0 /\ ~cut => Synced

\* "watching the cluster for changes and syncing to RDMASvc" (root.go:34-36): a
\* restarted server is synced to as well, once it has seen a node of the cluster
\* again: only a stream cut among repeated events is excused.
SyncedAfterRestart ==
  Quiescent /\ ~cut /\ (\E n \in Name : nodeMap[n] # Nil) => Synced

\* The version a client resumes from never goes back, whatever order the
\* messages come in and however often it reconnects.
ResumePointGrows == [][cmax' >= cmax]_syncVars

\* A client that can still reconnect handles every event, unless the server
\* stops or is restarted, or the client never had its list and has exited.
ClientCatchesUp ==
  \A v \in Versions :
    (v \in DOMAIN eventMap /\ restarts = 0)
      ~> (cmax >= v \/ ~up \/ restarts > 0 \/ cpc = "exited")
==============================================================================
