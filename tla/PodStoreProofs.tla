---------------------------- MODULE PodStoreProofs ----------------------------
(***************************************************************************)
(* What SetPod publishes, while calls of the plugin run one after another. *)
(*                                                                         *)
(* Pods on the host network are never published, even while NodeIPMap is   *)
(* still empty.  The filter of SetPod has no part in the proof: what keeps *)
(* them out is that Allocated has no container for the address of a node,  *)
(* which is not one of the pod CIDR.                                       *)
(*                                                                         *)
(* Running pods are published under their own address and never mixed up.  *)
(* The steps of the plugin are steps of Ipam, whose invariants carry over; *)
(* that kubelet's calls leave them undisturbed is part of the invariant,   *)
(* and rests on a pod having one sandbox at a time.                        *)
(***************************************************************************)
EXTENDS PodStore, IpamProofs

-----------------------------------------------------------------------------
(* Pods on the host network.                                               *)

\* The inductive invariant: a pod on the host network has the address of its
\* node for as long as its object is there, and is not in the map.
HostInv ==
  /\ DOMAIN object = Pod /\ object = [p \in Pod |-> object[p]]
  /\ DOMAIN podMap = Pod /\ podMap = [p \in Pod |-> podMap[p]]
  /\ \A p \in HostPod : object[p] \in {NodeAddress, Nil} /\ podMap[p] = Nil

\* A sandbox is never of a pod on the host network.
LEMMA SandboxPods == \A sb \in Sandbox : NameOf[sb] \in Pod \ HostPod
BY PodAssumption DEF Pod

\* Pods on the host network are pods.
LEMMA HostPodsArePods == HostPod \subseteq Pod
BY DEF Pod

\* At the start the map is empty.
LEMMA HostInit == PodInit => HostInv
BY HostPodsArePods DEF PodInit, HostInv

\* The address of a node has no container, whatever the file says.
LEMMA NoContainer == GetContainerId(NodeAddress) = Nil
BY NodeAddressAssumption DEF GetContainerId

\* The handler takes no pod on the host network into the map.
LEMMA HandlePodKeeps ==
  ASSUME HostInv, NEW p \in Pod, HandlePod(p)
  PROVE  HostInv'
<1> USE DEF HostInv
<1>1. object' = object
  BY DEF HandlePod
<1>2. podMap' = podMap \/ \E v : podMap' = [podMap EXCEPT ![p] = v]
  BY DEF HandlePod, DeletePod, SetPod
<1>3. p \in HostPod => podMap' = podMap \/ podMap' = [podMap EXCEPT ![p] = Nil]
  <2>1. SUFFICES ASSUME p \in HostPod, object[p] # Nil
                 PROVE  podMap' = podMap
    BY DEF HandlePod, DeletePod
  <2>2. object[p] = NodeAddress
    BY <2>1
  <2> QED BY <2>1, <2>2, NoContainer, NodeAddressAssumption DEF HandlePod, SetPod
<1> QED BY <1>1, <1>2, <1>3, HostPodsArePods

\* Every step keeps the pods on the host network out of it.
LEMMA HostStep == HostInv /\ [PodNext]_vars => HostInv'
<1> SUFFICES ASSUME HostInv, [PodNext]_vars PROVE HostInv'
  OBVIOUS
<1>1. CASE PluginStep \/ HandleNode \/ UNCHANGED vars
  BY <1>1 DEF PluginStep, HandleNode, vars, managerVars, HostInv
<1>2. ASSUME NEW sb \in Sandbox, KubeletReports(sb) PROVE HostInv'
  BY <1>2, SandboxPods, HostPodsArePods DEF KubeletReports, HostInv
<1>3. ASSUME NEW p \in Pod \ HostPod, Touched(p) \/ ObjectDeleted(p) PROVE HostInv'
  BY <1>3, HostPodsArePods DEF Touched, ObjectDeleted, HostInv
<1>4. ASSUME NEW p \in Pod, HandlePod(p) PROVE HostInv'
  BY <1>4, HandlePodKeeps
<1>5. CASE ManagerRestarts
  BY <1>5, HostPodsArePods DEF ManagerRestarts, HostInv
<1> QED BY <1>1, <1>2, <1>3, <1>4, <1>5 DEF PodNext

\* However far the worker of the pod controller is ahead of that of the node
\* controller (controller.go:63), and whatever Allocated says, SetPod never
\* publishes a pod on the host network.
THEOREM HostPodsNeverPublished == PodSpec => []HostPodsHidden
<1>1. HostInv => HostPodsHidden
  BY DEF HostInv, HostPodsHidden
<1> QED BY <1>1, HostInit, HostStep, PTL DEF PodSpec

-----------------------------------------------------------------------------
(* Types.                                                                  *)

\* The types hold at the start ...
LEMMA PodTypeInit == PodInit => PodTypeOK
<1> SUFFICES ASSUME PodInit PROVE PodTypeOK
  OBVIOUS
<1>1. object \in [Pod -> Addr \cup {NodeAddress, Pending, Nil}] /\ podMap \in [Pod -> PodObject \cup {Nil}]
  BY DEF PodInit
<1>2. restarts \in 0 .. MaxRestart
  BY MaxRestartAssumption DEF PodInit
<1> QED BY <1>1, <1>2 DEF PodInit, PodTypeOK

\* What the file has for an address is a sandbox, or nothing.
LEMMA ContainerType ==
  ASSUME TypeOK, NEW ip
  PROVE  /\ GetContainerId(ip) \in Sandbox \cup {Nil}
         /\ GetContainerId(ip) # Nil => ip \in Addr /\ Read[ip] = GetContainerId(ip)
<1>1. Read \in IpSet
  BY ReadIpSet DEF TypeOK
<1> QED BY <1>1 DEF GetContainerId, IpSet

\* What the handler of a pod may do to PodMap and blind.
LEMMA HandlePodDoes ==
  ASSUME TypeOK, PodTypeOK, NEW p \in Pod, HandlePod(p)
  PROVE  \/ object[p] = Nil /\ podMap' = [podMap EXCEPT ![p] = Nil] /\ blind' = blind \ {p}
         \/ /\ podMap' = podMap /\ blind' = blind
            /\ object[p] \in Addr => podMap[p] # Nil /\ podMap[p].ip = object[p]
         \/ podMap' = podMap /\ blind' = blind \cup {p}
         \/ /\ object[p] \in Addr /\ Read[object[p]] \in Sandbox
            /\ podMap' = [podMap EXCEPT ![p] = [ip |-> object[p], container |-> Read[object[p]]]]
            /\ blind' = blind \ {p}
<1>1. CASE object[p] = Nil
  BY <1>1 DEF HandlePod, DeletePod
<1>2. CASE object[p] = Pending
  BY <1>2, NodeAddressAssumption DEF HandlePod
<1>3. CASE object[p] # Nil /\ object[p] # Pending
  <2>1. SetPod(p, object[p])
    BY <1>3 DEF HandlePod
  <2>2. CASE object[p] \in nodeIPMap
    <3>1. object[p] \notin Addr
      BY <2>2, NodeAddressAssumption DEF PodTypeOK
    <3> QED BY <2>1, <2>2, <3>1 DEF SetPod
  <2>3. CASE podMap[p] # Nil /\ podMap[p].ip = object[p]
    BY <2>1, <2>3 DEF SetPod
  <2>4. CASE object[p] \notin nodeIPMap /\ (podMap[p] = Nil \/ podMap[p].ip # object[p])
    <3>1. CASE GetContainerId(object[p]) = Nil
      BY <2>1, <2>4, <3>1 DEF SetPod
    <3>2. CASE GetContainerId(object[p]) # Nil
      BY <2>1, <2>4, <3>2, ContainerType DEF SetPod
    <3> QED BY <3>1, <3>2
  <2> QED BY <2>2, <2>3, <2>4
<1> QED BY <1>1, <1>2, <1>3

\* ... and are kept.
LEMMA PodTypeStep == TypeOK /\ PodTypeOK /\ [PodNext]_vars => PodTypeOK'
<1> SUFFICES ASSUME TypeOK, PodTypeOK, [PodNext]_vars PROVE PodTypeOK'
  OBVIOUS
<1> USE DEF PodTypeOK
<1>1. CASE PluginStep \/ UNCHANGED vars
  BY <1>1 DEF PluginStep, vars, managerVars
<1>2. ASSUME NEW sb \in Sandbox, KubeletReports(sb) PROVE PodTypeOK'
  <2>1. NameOf[sb] \in Pod /\ addr[sb] \in Addr \cup {Nil}
    BY SandboxPods DEF TypeOK
  <2> QED BY <1>2, <2>1 DEF KubeletReports
<1>3. ASSUME NEW p \in Pod, Touched(p) \/ ObjectDeleted(p) PROVE PodTypeOK'
  BY <1>3 DEF Touched, ObjectDeleted
<1>4. ASSUME NEW p \in Pod, HandlePod(p) PROVE PodTypeOK'
  <2>1. podMap' \in [Pod -> PodObject \cup {Nil}] /\ blind' \subseteq Pod
    BY <1>4, HandlePodDoes DEF PodObject
  <2> QED BY <1>4, <2>1 DEF HandlePod
<1>5. CASE HandleNode
  BY <1>5 DEF HandleNode
<1>6. CASE ManagerRestarts
  <2>1. restarts' \in 0 .. MaxRestart
    BY <1>6, MaxRestartAssumption DEF ManagerRestarts
  <2> QED BY <1>6, <2>1 DEF ManagerRestarts
<1> QED BY <1>1, <1>2, <1>3, <1>4, <1>5, <1>6 DEF PodNext

-----------------------------------------------------------------------------
(* The calls of the plugin, as kubelet makes them.                         *)

\* Of two sandboxes of a pod, one has not begun or is done.
OneSandbox ==
  \A s, t \in Sandbox :
    s # t /\ NameOf[s] = NameOf[t] => pc[s] \in {"new", "gone"} \/ pc[t] \in {"new", "gone"}

\* A sandbox has an address from Allocate to DeleteNetNS, unless its ADD fails.
HasAddress ==
  \A sb \in Sandbox :
    /\ pc[sb] = "gone" => addr[sb] = Nil
    /\ pc[sb] \in {"add-create", "add-write", "activate", "running"} => addr[sb] # Nil

PluginInv ==
  /\ CallsInv
  /\ HonestInv
  /\ ~disturbed
  /\ OneSandbox
  /\ HasAddress

\* At the start the plugin has not been called.
LEMMA PluginInit == PodInit => PluginInv
<1> SUFFICES ASSUME PodInit PROVE PluginInv
  OBVIOUS
<1>1. Init
  BY DEF PodInit
<1>2. ~disturbed /\ OneSandbox /\ HasAddress
  BY <1>1 DEF Init, OneSandbox, HasAddress
<1> QED BY <1>1, <1>2, CallsInit, InitHonest DEF PluginInv

\* Between two calls the entry of a pod's name is that of its one sandbox.
LEMMA OwnEntryOnly ==
  ASSUME PluginInv, NEW sb \in Sandbox, Orderly(sb), pc[sb] \in {"running", "failed"},
         file \notin {Empty, Torn},
         NEW a \in Addr, file[a] # Nil, NameOf[file[a]] = NameOf[sb]
  PROVE  file[a] = sb
<1>1. /\ TypeOK /\ InTurn /\ ~Overlaps /\ HasAddress /\ OneSandbox
      /\ \A t \in Sandbox : pc[t] = "new" => addr[t] = Nil
  BY DEF PluginInv, CallsInv, Orderly
<1>2. Records(Read, Nil) /\ Read = file
  BY <1>1 DEF InTurn, Read
<1>3. file[a] \in Sandbox
  BY <1>1 DEF TypeOK, IpSet
<1>4. addr[file[a]] = a
  BY <1>2, <1>3 DEF Records
<1>5. pc[file[a]] \notin {"new", "gone"}
  BY <1>1, <1>3, <1>4, NilAssumption DEF HasAddress
<1> QED BY <1>1, <1>3, <1>5 DEF OneSandbox

\* kubelet's calls come one at a time, and none frees what is not its own.
LEMMA Undisturbed ==
  ASSUME PluginInv, PluginStep
  PROVE  ~disturbed'
<1>1. PICK sb \in Sandbox : (Orderly(sb) /\ Kubelet(sb)) \/ CallStep(sb)
  BY DEF PluginStep
<1>2. CASE CallStep(sb)
  BY <1>2 DEF CallStep, Create, Write, Activate, ActivateFails, DeleteNetNS, PluginInv
<1>3. CASE Orderly(sb) /\ Kubelet(sb)
  <2>1. ~disturbed /\ ~Overlaps
    BY <1>3 DEF PluginInv, Orderly
  <2>2. CASE Deallocate(sb)
    <3>1. pc[sb] \in {"running", "failed"} /\ file \notin {Empty, Torn}
      BY <1>3, <2>2 DEF Deallocate, Orderly
    <3>2. \/ CallBegins
          \/ \E a \in {b \in Addr : file[b] # Nil /\ NameOf[file[b]] = NameOf[sb]} :
               disturbed' = (disturbed \/ Overlaps \/ file[a] # sb)
      BY <2>2 DEF Deallocate
    <3>3. \A a \in {b \in Addr : file[b] # Nil /\ NameOf[file[b]] = NameOf[sb]} : file[a] = sb
      BY <1>3, <3>1, OwnEntryOnly
    <3> QED BY <2>1, <3>2, <3>3 DEF CallBegins
  <2>3. CASE ~Deallocate(sb)
    BY <1>3, <2>1, <2>3 DEF Kubelet, Allocate, AllocateNone, AllocatePanics, DeallocateNoVpc, CallBegins
  <2> QED BY <2>2, <2>3
<1> QED BY <1>1, <1>2, <1>3

\* What a step of the plugin does to the sandbox it is about, and to no other.
LEMMA PluginDoes ==
  ASSUME TypeOK, PluginStep
  PROVE  \E sb \in Sandbox :
           /\ \A t \in Sandbox \ {sb} : pc'[t] = pc[t] /\ addr'[t] = addr[t]
           /\ \/ /\ pc[sb] = "new" /\ Orderly(sb) /\ pc'[sb] = "add-create"
                 /\ addr'[sb] \in Addr
              \/ /\ pc[sb] = "new" /\ Orderly(sb) /\ pc'[sb] = "failed"
                 /\ addr'[sb] = addr[sb]
              \/ /\ pc[sb] \notin {"new", "gone"} /\ pc'[sb] \notin {"new", "running", "gone"}
                 /\ addr'[sb] = addr[sb]
                 /\ pc'[sb] \in {"add-write", "activate"} => pc[sb] \in {"add-create", "add-write"}
                 /\ pc'[sb] # "add-create"
                 /\ pc[sb] \in {"running", "del-create", "del-write", "del-netns"}
                      => pc'[sb] \in {"del-create", "del-write", "del-netns"}
              \/ pc[sb] = "activate" /\ pc'[sb] = "running" /\ addr'[sb] = addr[sb]
              \/ pc[sb] = "del-netns" /\ pc'[sb] = "gone" /\ addr'[sb] = Nil
<1>1. PICK sb \in Sandbox : (Orderly(sb) /\ Kubelet(sb)) \/ CallStep(sb)
  BY DEF PluginStep
<1>2. CASE Allocate(sb)
  <2>1. FirstFree \in Addr
    BY <1>2, FirstFreeIsFree DEF Allocate
  <2>2. \A t \in Sandbox : pc'[t] = (IF t = sb THEN "add-create" ELSE pc[t])
    BY <1>2 DEF Allocate, TypeOK
  <2>3. \A t \in Sandbox : addr'[t] = (IF t = sb THEN FirstFree ELSE addr[t])
    BY <1>2 DEF Allocate, TypeOK
  <2>4. pc[sb] = "new" /\ Orderly(sb)
    BY <1>1, <1>2 DEF Allocate, CallStep, Create, Write, Activate, ActivateFails, DeleteNetNS
  <2> QED BY <2>1, <2>2, <2>3, <2>4
<1>3. CASE AllocateNone(sb) \/ AllocatePanics(sb)
  <2>1. pc[sb] = "new" /\ Orderly(sb)
    BY <1>1, <1>3 DEF AllocateNone, AllocatePanics, CallStep, Create, Write, Activate, ActivateFails, DeleteNetNS
  <2>2. addr' = addr /\ \A t \in Sandbox : pc'[t] = (IF t = sb THEN "failed" ELSE pc[t])
    BY <1>3 DEF AllocateNone, AllocatePanics, TypeOK
  <2> QED BY <2>1, <2>2
<1>4. CASE DeleteNetNS(sb)
  BY <1>4 DEF DeleteNetNS, TypeOK
<1>5. CASE Activate(sb)
  BY <1>5 DEF Activate, TypeOK
<1>6. CASE Deallocate(sb) \/ DeallocateNoVpc(sb)
  <2>1. pc[sb] \in {"running", "failed"} /\ Orderly(sb)
    BY <1>1, <1>6 DEF Deallocate, DeallocateNoVpc, Orderly, CallStep, Create, Write, Activate, ActivateFails, DeleteNetNS
  <2>2. addr' = addr /\ pc'[sb] \in {"del-create", "del-netns"} /\ \A t \in Sandbox \ {sb} : pc'[t] = pc[t]
    BY <1>6 DEF Deallocate, DeallocateNoVpc, TypeOK
  <2> QED BY <2>1, <2>2
<1>7. CASE Create(sb) \/ Write(sb) \/ ActivateFails(sb)
  <2>1. addr' = addr /\ \A t \in Sandbox \ {sb} : pc'[t] = pc[t]
    BY <1>7 DEF Create, Write, ActivateFails, TypeOK
  <2>2. \/ pc[sb] = "add-create" /\ pc'[sb] = "add-write"
        \/ pc[sb] = "del-create" /\ pc'[sb] = "del-write"
        \/ pc[sb] = "add-write" /\ pc'[sb] = "activate"
        \/ pc[sb] = "del-write" /\ pc'[sb] = "del-netns"
        \/ pc[sb] = "activate" /\ pc'[sb] = "failed"
    BY <1>7 DEF Create, Write, ActivateFails, TypeOK
  <2> QED BY <2>1, <2>2
<1> QED BY <1>1, <1>2, <1>3, <1>4, <1>5, <1>6, <1>7 DEF Kubelet, CallStep

\* A step of the plugin keeps what holds of the plugin alone.
LEMMA PluginKeeps ==
  ASSUME PluginInv, PluginStep
  PROVE  PluginInv'
<1>1. TypeOK
  BY DEF PluginInv, CallsInv
<1>2. CallsInv' /\ HonestInv' /\ ~disturbed'
  <2>1. [Next]_ipamVars
    BY DEF PluginStep, Next
  <2> QED BY <2>1, CallsStep, StepHonest, Undisturbed DEF PluginInv
<1>3. PICK sb \in Sandbox :
           /\ \A t \in Sandbox \ {sb} : pc'[t] = pc[t] /\ addr'[t] = addr[t]
           /\ \/ /\ pc[sb] = "new" /\ Orderly(sb) /\ pc'[sb] = "add-create"
                 /\ addr'[sb] \in Addr
              \/ /\ pc[sb] = "new" /\ Orderly(sb) /\ pc'[sb] = "failed"
                 /\ addr'[sb] = addr[sb]
              \/ /\ pc[sb] \notin {"new", "gone"} /\ pc'[sb] \notin {"new", "running", "gone"}
                 /\ addr'[sb] = addr[sb]
                 /\ pc'[sb] \in {"add-write", "activate"} => pc[sb] \in {"add-create", "add-write"}
                 /\ pc'[sb] # "add-create"
              \/ pc[sb] = "activate" /\ pc'[sb] = "running" /\ addr'[sb] = addr[sb]
              \/ pc[sb] = "del-netns" /\ pc'[sb] = "gone" /\ addr'[sb] = Nil
  BY <1>1, PluginDoes
<1>4. HasAddress'
  <2>1. HasAddress
    BY DEF PluginInv
  <2> QED BY <1>3, <2>1, NilAssumption DEF HasAddress
<1>5. OneSandbox'
  <2>1. OneSandbox
    BY DEF PluginInv
  <2>2. CASE pc[sb] = "new" /\ Orderly(sb)
    <3>1. \A t \in Sandbox \ {sb} : NameOf[t] = NameOf[sb] => pc[t] \in {"new", "gone"}
      BY <2>2 DEF Orderly
    <3> QED BY <1>3, <2>1, <3>1 DEF OneSandbox
  <2>3. CASE pc[sb] # "new"
    BY <1>3, <2>1, <2>3 DEF OneSandbox
  <2> QED BY <1>3, <2>2, <2>3
<1> QED BY <1>2, <1>4, <1>5 DEF PluginInv

\* Nothing else touches what the plugin has.
LEMMA PluginFrame ==
  ASSUME PluginInv, UNCHANGED ipamVars
  PROVE  PluginInv'
<1>1. CallsInv' /\ HonestInv'
  BY CallsStep, StepHonest DEF PluginInv
<1> QED BY <1>1 DEF PluginInv, OneSandbox, HasAddress, ipamVars
-----------------------------------------------------------------------------
(* What kubelet has reported, and what is published.                       *)

\* Only a sandbox that has run is reported, and while it runs its pod's object,
\* if there is one, has its address.
Reports ==
  \A sb \in reported :
    /\ pc[sb] \in {"running", "del-create", "del-write", "del-netns", "gone"}
    /\ pc[sb] = "running" => object[NameOf[sb]] \in {addr[sb], Nil}

\* A pod is published with a container that has its address, or had it.
Published ==
  \A p \in Pod : podMap[p] # Nil =>
    /\ pc[podMap[p].container] # "new"
    /\ addr[podMap[p].container] \in {podMap[p].ip, Nil}

\* A pod that is handled and not blind is published under the address of its object.
Handled ==
  \A p \in Pod \ (due \cup blind) :
    object[p] \in Addr => podMap[p] # Nil /\ podMap[p].ip = object[p]

PodInv == PodTypeOK /\ PluginInv /\ Reports /\ Published /\ Handled

\* The inductive invariant holds at the start ...
LEMMA PodInvInit == PodInit => PodInv
<1> SUFFICES ASSUME PodInit PROVE PodInv
  OBVIOUS
<1>1. Reports /\ Published /\ Handled
  BY DEF PodInit, Reports, Published, Handled
<1> QED BY <1>1, PodTypeInit, PluginInit DEF PodInv

\* A step of the plugin keeps what the manager has of the pods true.
LEMMA PluginStepKeeps ==
  ASSUME PodInv, PluginStep
  PROVE  Reports' /\ Published' /\ Handled'
<1>1. TypeOK /\ PodTypeOK /\ Reports /\ Published /\ Handled
  BY DEF PodInv, PluginInv, CallsInv
<1>2. UNCHANGED <<object, reported, due, podMap, blind>>
  BY DEF PluginStep, managerVars
<1>3. PICK sb \in Sandbox :
           /\ \A t \in Sandbox \ {sb} : pc'[t] = pc[t] /\ addr'[t] = addr[t]
           /\ \/ pc[sb] = "new" /\ pc'[sb] # "new"
              \/ /\ pc[sb] \notin {"new", "gone"} /\ pc'[sb] \notin {"new", "running", "gone"}
                 /\ addr'[sb] = addr[sb]
                 /\ pc[sb] \in {"running", "del-create", "del-write", "del-netns"}
                      => pc'[sb] \in {"del-create", "del-write", "del-netns"}
              \/ pc[sb] = "activate" /\ pc'[sb] = "running" /\ addr'[sb] = addr[sb]
              \/ pc[sb] = "del-netns" /\ pc'[sb] = "gone" /\ addr'[sb] = Nil
  BY <1>1, PluginDoes
<1>4. Reports'
  <2> SUFFICES ASSUME NEW t \in reported
               PROVE  /\ pc'[t] \in {"running", "del-create", "del-write", "del-netns", "gone"}
                      /\ pc'[t] = "running" => object[NameOf[t]] \in {addr'[t], Nil}
    BY <1>2 DEF Reports
  <2>1. /\ t \in Sandbox
        /\ pc[t] \in {"running", "del-create", "del-write", "del-netns", "gone"}
        /\ pc[t] = "running" => object[NameOf[t]] \in {addr[t], Nil}
    BY <1>1 DEF Reports, PodTypeOK
  <2>2. CASE t # sb
    BY <1>3, <2>1, <2>2
  <2>3. CASE t = sb
    BY <1>3, <2>1, <2>3
  <2> QED BY <2>2, <2>3
<1>5. Published'
  <2> SUFFICES ASSUME NEW p \in Pod, podMap[p] # Nil
               PROVE  /\ pc'[podMap[p].container] # "new"
                      /\ addr'[podMap[p].container] \in {podMap[p].ip, Nil}
    BY <1>2 DEF Published
  <2>1. /\ podMap[p].container \in Sandbox /\ pc[podMap[p].container] # "new"
        /\ addr[podMap[p].container] \in {podMap[p].ip, Nil}
    BY <1>1 DEF Published, PodTypeOK, PodObject
  <2>2. CASE podMap[p].container # sb
    BY <1>3, <2>1, <2>2
  <2>3. CASE podMap[p].container = sb
    BY <1>3, <2>1, <2>3
  <2> QED BY <2>2, <2>3
<1>6. Handled'
  BY <1>1, <1>2 DEF Handled
<1> QED BY <1>4, <1>5, <1>6

\* The sandbox reported is the only one of its pod that runs.
LEMMA ReportKeeps ==
  ASSUME PodInv, NEW sb \in Sandbox, KubeletReports(sb)
  PROVE  Reports' /\ Published' /\ Handled'
<1>1. OneSandbox /\ PodTypeOK /\ Reports /\ Published /\ Handled
  BY DEF PodInv, PluginInv
<1>2. /\ UNCHANGED <<pc, addr, podMap, blind>> /\ due' = due \cup {NameOf[sb]}
      /\ pc[sb] = "running" /\ reported' = reported \cup {sb}
      /\ object' = [object EXCEPT ![NameOf[sb]] = addr[sb]]
      /\ NameOf[sb] \in Pod
  BY SandboxPods DEF KubeletReports, ipamVars
<1>3. Reports'
  <2> SUFFICES ASSUME NEW t \in reported'
               PROVE  /\ pc[t] \in {"running", "del-create", "del-write", "del-netns", "gone"}
                      /\ pc[t] = "running" => object'[NameOf[t]] \in {addr[t], Nil}
    BY <1>2 DEF Reports
  <2>1. CASE t = sb
    BY <1>1, <1>2, <2>1 DEF PodTypeOK
  <2>2. CASE t # sb
    <3>1. t \in reported /\ t \in Sandbox
      BY <1>1, <1>2, <2>2 DEF PodTypeOK
    <3>2. CASE pc[t] = "running"
      <4>1. NameOf[t] # NameOf[sb]
        BY <1>1, <1>2, <2>2, <3>1, <3>2 DEF OneSandbox
      <4>2. object'[NameOf[t]] = object[NameOf[t]]
        BY <1>1, <1>2, <3>1, <4>1, SandboxPods DEF PodTypeOK
      <4> QED BY <1>1, <3>1, <3>2, <4>2 DEF Reports
    <3> QED BY <1>1, <3>1, <3>2 DEF Reports
  <2> QED BY <2>1, <2>2
<1>4. Published'
  BY <1>1, <1>2 DEF Published
<1>5. Handled'
  BY <1>1, <1>2 DEF Handled, PodTypeOK
<1> QED BY <1>3, <1>4, <1>5

\* A pod object that is touched or deleted is due.
LEMMA ObjectKeeps ==
  ASSUME PodInv, NEW p \in Pod, Touched(p) \/ ObjectDeleted(p)
  PROVE  Reports' /\ Published' /\ Handled'
<1>1. PodTypeOK /\ Reports /\ Published /\ Handled
  BY DEF PodInv
<1>2. /\ UNCHANGED <<pc, addr, podMap, blind, reported>> /\ due' = due \cup {p}
      /\ object' = object \/ object' = [object EXCEPT ![p] = Nil]
  BY DEF Touched, ObjectDeleted, ipamVars
<1>3. \A w \in Pod : object'[w] \in {object[w], Nil} /\ (w # p => object'[w] = object[w])
  BY <1>1, <1>2 DEF PodTypeOK
<1>4. Reports'
  <2>1. \A sb \in reported : NameOf[sb] \in Pod
    BY <1>1, SandboxPods DEF PodTypeOK
  <2> QED BY <1>1, <1>2, <1>3, <2>1 DEF Reports
<1>5. Published' /\ Handled'
  BY <1>1, <1>2, <1>3 DEF Published, Handled
<1> QED BY <1>4, <1>5

\* The container published is one the file names, and the file never lies.
LEMMA HandlerKeeps ==
  ASSUME PodInv, NEW p \in Pod, HandlePod(p)
  PROVE  Reports' /\ Published' /\ Handled'
<1>1. TypeOK /\ Honest(Read) /\ PodTypeOK /\ Reports /\ Published /\ Handled
  BY DEF PodInv, PluginInv, CallsInv, HonestInv
<1>2. UNCHANGED <<pc, addr, object, reported>> /\ due' = due \ {p}
  BY DEF HandlePod, ipamVars
<1>3. Reports'
  BY <1>1, <1>2 DEF Reports
<1>4. CASE object[p] = Nil /\ podMap' = [podMap EXCEPT ![p] = Nil] /\ blind' = blind \ {p}
  BY <1>1, <1>2, <1>3, <1>4, NilAssumption DEF Published, Handled, PodTypeOK
<1>5. CASE /\ podMap' = podMap /\ blind' = blind
           /\ object[p] \in Addr => podMap[p] # Nil /\ podMap[p].ip = object[p]
  BY <1>1, <1>2, <1>3, <1>5 DEF Published, Handled
<1>6. CASE podMap' = podMap /\ blind' = blind \cup {p}
  BY <1>1, <1>2, <1>3, <1>6 DEF Published, Handled
<1>7. CASE /\ object[p] \in Addr /\ Read[object[p]] \in Sandbox
           /\ podMap' = [podMap EXCEPT ![p] = [ip |-> object[p], container |-> Read[object[p]]]]
           /\ blind' = blind \ {p}
  <2>1. /\ podMap'[p] = [ip |-> object[p], container |-> Read[object[p]]]
        /\ \A w \in Pod \ {p} : podMap'[w] = podMap[w]
    BY <1>1, <1>7 DEF PodTypeOK
  <2>2. podMap'[p].ip = object[p] /\ podMap'[p].container = Read[object[p]]
    BY <2>1
  <2>3. pc[Read[object[p]]] # "new" /\ addr[Read[object[p]]] \in {object[p], Nil}
    BY <1>1, <1>7 DEF Honest
  <2>4. podMap'[p] # Nil
    BY <1>7, <2>1, PodObjectAssumption DEF PodObject
  <2>5. Published'
    BY <1>1, <1>2, <2>1, <2>2, <2>3 DEF Published
  <2>6. Handled'
    BY <1>1, <1>2, <1>7, <2>1, <2>2, <2>4 DEF Handled
  <2> QED BY <1>3, <2>5, <2>6
<1> QED BY <1>1, <1>4, <1>5, <1>6, <1>7, HandlePodDoes

\* ... and is kept.
LEMMA PodInvStep == PodInv /\ [PodNext]_vars => PodInv'
<1> SUFFICES ASSUME PodInv, [PodNext]_vars PROVE PodInv'
  OBVIOUS
<1>1. PodTypeOK'
  BY PodTypeStep DEF PodInv, PluginInv, CallsInv
<1>2. PluginInv'
  <2>1. PluginStep \/ UNCHANGED ipamVars
    BY DEF PodNext, KubeletReports, Touched, ObjectDeleted, HandlePod, HandleNode, ManagerRestarts, vars
  <2> QED BY <2>1, PluginKeeps, PluginFrame DEF PodInv
<1>3. CASE UNCHANGED vars
  BY <1>1, <1>2, <1>3 DEF vars, ipamVars, managerVars, PodInv, Reports, Published, Handled
<1>4. CASE HandleNode
  BY <1>1, <1>2, <1>4 DEF HandleNode, ipamVars, PodInv, Reports, Published, Handled
<1>5. CASE ManagerRestarts
  <2>1. UNCHANGED <<pc, addr, object, reported>> /\ due' = {p \in Pod : object[p] # Nil}
        /\ podMap' = [p \in Pod |-> Nil]
    BY <1>5 DEF ManagerRestarts, ipamVars
  <2>2. Reports' /\ Published' /\ Handled'
    BY <2>1, NilAssumption DEF PodInv, Reports, Published, Handled
  <2> QED BY <1>1, <1>2, <2>2 DEF PodInv
<1>6. ASSUME PluginStep \/ (\E sb \in Sandbox : KubeletReports(sb))
               \/ (\E p \in Pod \ HostPod : Touched(p) \/ ObjectDeleted(p))
               \/ (\E p \in Pod : HandlePod(p))
      PROVE  Reports' /\ Published' /\ Handled'
  BY <1>6, PluginStepKeeps, ReportKeeps, ObjectKeeps, HandlerKeeps
<1> QED BY <1>1, <1>2, <1>3, <1>4, <1>5, <1>6 DEF PodNext, PodInv

-----------------------------------------------------------------------------
(* The theorems.                                                           *)

\* Every variable of kubelet and the manager stays within its type; what is
\* published is an address and the sandbox of a container (datastore_pod.go).
THEOREM PodTypes == PodSpec => []PodTypeOK
<1>1. PodInv => PodTypeOK
  BY DEF PodInv
<1> QED BY <1>1, PodInvInit, PodInvStep, PTL DEF PodSpec

\* A running pod that SetPod has handled since it was reported is published
\* under its address, with its own container or one that is gone: two running
\* pods are never mixed up, whatever addresses they had before and whenever the
\* manager was restarted.
THEOREM RunningPodsNeverMixedUp == PodSpec => []RunningPodsDistinct
<1>1. PodInv => RunningPodsDistinct
  <2> SUFFICES ASSUME PodInv, NEW sb \in Sandbox, Settled(sb)
               PROVE  /\ podMap[NameOf[sb]] # Nil
                      /\ podMap[NameOf[sb]].ip = addr[sb]
                      /\ \/ podMap[NameOf[sb]].container = sb
                         \/ addr[podMap[NameOf[sb]].container] = Nil
    BY DEF RunningPodsDistinct
  <2>1. TypeOK /\ PodTypeOK /\ HasAddress /\ Reports /\ Published /\ Handled /\ Distinct
    BY DEF PodInv, PluginInv, CallsInv, InTurn
  <2>2. NameOf[sb] \in Pod
    BY SandboxPods
  <2>3. addr[sb] \in Addr /\ object[NameOf[sb]] = addr[sb]
    BY <2>1 DEF Settled, HasAddress, Reports, TypeOK
  <2>4. podMap[NameOf[sb]] # Nil /\ podMap[NameOf[sb]].ip = addr[sb]
    BY <2>1, <2>2, <2>3 DEF Settled, Handled
  <2>5. podMap[NameOf[sb]].container \in Sandbox
    BY <2>1, <2>2, <2>4 DEF PodTypeOK, PodObject
  <2>6. addr[podMap[NameOf[sb]].container] \in {addr[sb], Nil}
    BY <2>1, <2>2, <2>4 DEF Published
  <2> QED BY <2>1, <2>3, <2>4, <2>5, <2>6 DEF Distinct
<1> QED BY <1>1, PodInvInit, PodInvStep, PTL DEF PodSpec
=============================================================================
