------------------------------- MODULE PodStore -------------------------------
(***************************************************************************)
(* How a pod of this node gets into the pod datastore: the CNI plugin      *)
(* (Ipam) gives its sandbox an address and writes it into Allocated,       *)
(* kubelet reports the address in the pod object, and SetPod publishes the *)
(* pod with the container that Allocated names at that address by then,    *)
(* unless the address is one of NodeIPMap, which the node controller fills *)
(* at a time of its own.                                                   *)
(*                                                                         *)
(* A pod may go through several sandboxes, one after the other; a pod on   *)
(* the host network has none, and the address of its node.  The calls of   *)
(* the plugin come one after the other, one ADD and one DEL for a sandbox, *)
(* and none is killed: what else may happen to Allocated is in Ipam, and   *)
(* what goes wrong here is the manager's own.  The work queue is the set   *)
(* of pods with an item in it, as the last item of an object decides       *)
(* (Controller, LastItemDecides).                                          *)
(*                                                                         *)
(* A definition named ...Bug is a plausible mistake in the next one.       *)
(***************************************************************************)
EXTENDS Ipam

CONSTANTS
  HostPod,     \* the pods on the host network
  NodeAddress, \* the address of the node
  Pending,     \* a pod object without an address
  MaxRestart   \* bound: restarts of the manager

ASSUME NodeAddressAssumption ==
  NodeAddress \notin Addr \cup {Nil, Pending} /\ Pending \notin Addr \cup {Nil}
ASSUME PodAssumption == HostPod \cap {NameOf[sb] : sb \in Sandbox} = {}
ASSUME MaxRestartAssumption == MaxRestart \in Nat

VARIABLES
  object,    \* Status.PodIP of each pod object, Pending without, Nil for no object
  reported,  \* sandboxes kubelet has reported
  due,       \* pods with an item in the queue of the pod controller
  nodeDue,   \* the node has an item in the queue of the node controller
  nodeIPMap, \* NodeIPMap
  podMap,    \* PodMap
  blind,     \* history: pods whose container was not found when last handled
  restarts   \* restarts so far

managerVars == <<due, nodeDue, nodeIPMap, podMap, blind, restarts>>
vars == <<ipamVars, object, reported, managerVars>>

Pod == {NameOf[sb] : sb \in Sandbox} \cup HostPod

PodObject == [ip : Addr \cup {NodeAddress}, container : Sandbox]

ASSUME PodObjectAssumption == Nil \notin PodObject

PodInit ==
  /\ Init
  /\ object = [p \in Pod |-> IF p \in HostPod THEN NodeAddress ELSE Pending]
  /\ reported = {}
  /\ due = Pod
  /\ nodeDue = TRUE
  /\ nodeIPMap = {}
  /\ podMap = [p \in Pod |-> Nil]
  /\ blind = {}
  /\ restarts = 0

-----------------------------------------------------------------------------
(* kubelet.                                                                *)

\* kubelet sets up a sandbox for a pod that is there and has no other.
Orderly(sb) ==
  /\ ~Overlaps
  /\ pc[sb] # "gone"
  /\ pc[sb] = "new" =>
       /\ object[NameOf[sb]] # Nil
       /\ \A t \in Sandbox \ {sb} : NameOf[t] = NameOf[sb] => pc[t] \in {"new", "gone"}

PluginStep ==
  /\ \E sb \in Sandbox : (Orderly(sb) /\ Kubelet(sb)) \/ CallStep(sb)
  /\ UNCHANGED <<object, reported, managerVars>>

\* The address of a new sandbox goes into the status of its pod.
KubeletReports(sb) ==
  /\ pc[sb] = "running"
  /\ sb \notin reported
  /\ object[NameOf[sb]] # Nil
  /\ object' = [object EXCEPT ![NameOf[sb]] = addr[sb]]
  /\ reported' = reported \cup {sb}
  /\ due' = due \cup {NameOf[sb]}
  /\ UNCHANGED <<ipamVars, nodeDue, nodeIPMap, podMap, blind, restarts>>

\* Anything else in a pod object changes.
Touched(p) ==
  /\ object[p] # Nil
  /\ due' = due \cup {p}
  /\ UNCHANGED <<ipamVars, object, reported, nodeDue, nodeIPMap, podMap, blind, restarts>>

\* The object of a pod is deleted, once kubelet has deleted its sandboxes.
ObjectDeleted(p) ==
  /\ object[p] # Nil
  /\ \A sb \in Sandbox : NameOf[sb] = p => pc[sb] \in {"new", "gone"}
  /\ object' = [object EXCEPT ![p] = Nil]
  /\ due' = due \cup {p}
  /\ UNCHANGED <<ipamVars, reported, nodeDue, nodeIPMap, podMap, blind, restarts>>

-----------------------------------------------------------------------------
(* The manager.                                                            *)

\* The container of an address that is not in the file is any one.
GetContainerIdBug(ip) ==
  IF ip \in Addr /\ Read[ip] # Nil THEN Read[ip] ELSE CHOOSE sb \in Sandbox : TRUE

\* What the file has for an address, whatever pod asks.
GetContainerId(ip) == IF ip \in Addr THEN Read[ip] ELSE Nil

DeletePod(p) ==
  /\ podMap' = [podMap EXCEPT ![p] = Nil]
  /\ blind' = blind \ {p}

\* A pod without a container is published as well.
SetPodBug(p, ip) ==
  /\ podMap' = IF ip \in nodeIPMap \/ (podMap[p] # Nil /\ podMap[p].ip = ip) THEN podMap
               ELSE [podMap EXCEPT ![p] = [ip |-> ip, container |-> GetContainerId(ip)]]
  /\ UNCHANGED blind

\* SetPod compares before it looks at the file.
SetPod(p, ip) ==
  LET container == GetContainerId(ip)
      changed == podMap[p] = Nil \/ podMap[p].ip # ip
  IN IF ip \in nodeIPMap \/ ~changed THEN UNCHANGED <<podMap, blind>>
     ELSE IF container = Nil
     THEN blind' = blind \cup {p} /\ UNCHANGED podMap
     ELSE /\ podMap' = [podMap EXCEPT ![p] = [ip |-> ip, container |-> container]]
          /\ blind' = blind \ {p}

\* A pod is set again under its old address.
HandlePodBug(p) ==
  /\ p \in due
  /\ due' = due \ {p}
  /\ IF object[p] = Nil THEN DeletePod(p)
     ELSE IF object[p] = Pending THEN UNCHANGED <<podMap, blind>>
     ELSE SetPod(p, IF podMap[p] = Nil THEN object[p] ELSE podMap[p].ip)
  /\ UNCHANGED <<ipamVars, object, reported, nodeDue, nodeIPMap, restarts>>

HandlePod(p) ==
  /\ p \in due
  /\ due' = due \ {p}
  /\ IF object[p] = Nil THEN DeletePod(p)
     ELSE IF object[p] = Pending THEN UNCHANGED <<podMap, blind>>
     ELSE SetPod(p, object[p])
  /\ UNCHANGED <<ipamVars, object, reported, nodeDue, nodeIPMap, restarts>>

\* The worker of the node controller runs beside that of the pod controller.
HandleNode ==
  /\ nodeDue
  /\ nodeDue' = FALSE
  /\ nodeIPMap' = {NodeAddress}
  /\ UNCHANGED <<ipamVars, object, reported, due, podMap, blind, restarts>>

\* The pods that were in the queue stay in it, and no other is listed.
ManagerRestartsBug ==
  /\ restarts < MaxRestart
  /\ restarts' = restarts + 1
  /\ nodeDue' = TRUE
  /\ nodeIPMap' = {}
  /\ podMap' = [p \in Pod |-> Nil]
  /\ blind' = {}
  /\ UNCHANGED <<ipamVars, object, reported, due>>

\* The manager starts with nothing: the node informer lists, then that of the
\* pods, and the node's item may still wait.
ManagerRestarts ==
  /\ restarts < MaxRestart
  /\ restarts' = restarts + 1
  /\ due' = {p \in Pod : object[p] # Nil}
  /\ nodeDue' = TRUE
  /\ nodeIPMap' = {}
  /\ podMap' = [p \in Pod |-> Nil]
  /\ blind' = {}
  /\ UNCHANGED <<ipamVars, object, reported>>

\* A pod on the host network is listed and stays as it is.
PodNext ==
  \/ PluginStep
  \/ \E sb \in Sandbox : KubeletReports(sb)
  \/ \E p \in Pod \ HostPod : Touched(p) \/ ObjectDeleted(p)
  \/ \E p \in Pod : HandlePod(p)
  \/ HandleNode
  \/ ManagerRestarts

PodSpec == PodInit /\ [][PodNext]_vars

\* kubelet reports what runs, and the worker handles what is queued.
PodFairSpec ==
  /\ PodSpec
  /\ \A sb \in Sandbox : WF_vars(KubeletReports(sb))
  /\ \A p \in Pod : WF_vars(HandlePod(p))

-----------------------------------------------------------------------------
(* Properties.                                                             *)

\* Every variable of kubelet and the manager stays within its type.
PodTypeOK ==
  /\ object \in [Pod -> Addr \cup {NodeAddress, Pending, Nil}]
  /\ reported \subseteq Sandbox
  /\ due \subseteq Pod
  /\ nodeDue \in BOOLEAN
  /\ nodeIPMap = (IF nodeDue THEN {} ELSE {NodeAddress})
  /\ podMap \in [Pod -> PodObject \cup {Nil}]
  /\ blind \subseteq Pod
  /\ restarts \in 0 .. MaxRestart

\* A pod on the host network is never published, even while the worker of the
\* pod controller is ahead of that of the node controller and NodeIPMap is
\* empty ("Sync start node controller first, to generating node ip set for
\* filtering pod ip", controller.go:63, waits for the listing only).
HostPodsHidden == \A p \in HostPod : podMap[p] = Nil

\* The sandbox sb runs, its pod has been handled since it was reported, and the
\* file could be read then.
Settled(sb) ==
  /\ pc[sb] = "running"
  /\ sb \in reported
  /\ object[NameOf[sb]] # Nil
  /\ NameOf[sb] \notin due \cup blind

\* A running pod is published under its address, and the container it is
\* published with is its own or one that is gone: two running pods are never
\* mixed up, whatever addresses they had before, and whenever the manager was
\* restarted.
RunningPodsDistinct ==
  \A sb \in Sandbox : Settled(sb) =>
    LET pod == podMap[NameOf[sb]] IN
      /\ pod # Nil
      /\ pod.ip = addr[sb]
      /\ pod.container = sb \/ addr[pod.container] = Nil

\* Every running pod is published, across restarts of the manager, unless the
\* file was being written when it was handled: nothing makes the manager look
\* again (datastore_pod.go:60-63).
RunningPodPublished ==
  \A sb \in Sandbox :
    (pc[sb] = "running") ~>
      \/ podMap[NameOf[sb]] # Nil /\ podMap[NameOf[sb]].ip = addr[sb]
      \/ pc[sb] # "running"
      \/ object[NameOf[sb]] = Nil
      \/ NameOf[sb] \in blind

\* The manager is "watching the cluster for changes and syncing to RDMASvc"
\* (root.go:34-36): a running pod is published with the container it runs in.
PodFollowsSandbox ==
  \A sb \in Sandbox : Settled(sb) /\ podMap[NameOf[sb]] # Nil =>
    podMap[NameOf[sb]].container = sb
==============================================================================
