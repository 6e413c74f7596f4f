------------------------------- MODULE Resources -------------------------------
(***************************************************************************)
(* What the connection manager makes of each kind of Kubernetes object:    *)
(* the handlers (pkg/connectionmanager/handlers), what the datastores keep *)
(* and compare (pkg/connectionmanager/datastore), and the messages of the  *)
(* gRPC service (quarkcmsvc.go).  No state: Controller and ResourceStores  *)
(* are built on it.                                                        *)
(*                                                                         *)
(* The name of an object is <<namespace, name>>, or <<name>> of a node.    *)
(* The text of an address is the sequence of its four bytes; "" is <<>>,   *)
(* and text that is no IPv4 address is any other sequence.  Objects are    *)
(* records of what the handlers look at:                                   *)
(*   node         [ip, attr, cidr]    attr: what else a node object has    *)
(*   pod          [ip, nodeName]                                           *)
(*   service      [clusterIP, ports]                                       *)
(*   endpoints    [subsets], sequences of [addresses, ports]               *)
(*   configmap    [config], the sequence of its [name, value] entries      *)
(*   ingress      [backend], Nil or [service, port]                        *)
(*   rdmaingress  [rules], sequences of [service, port, targetPort]        *)
(*                                                                         *)
(* A definition named ...Bug is a plausible mistake in the next one.       *)
(***************************************************************************)
EXTENDS Integers, Sequences, SequencesExt

CONSTANTS Nil,         \* no object, no value, no backend
          Cut,         \* the value of an entry whose text ends with its name
          NodeIP,      \* the addresses in NodeIPMap
          ContainerId  \* ContainerId[ip]: what the file Allocated has, or ""

Kinds == {"node", "pod", "service", "endpoints", "configmap", "ingress", "rdmaingress"}

-----------------------------------------------------------------------------
(* What the datastores keep of an object beside its key and its version.   *)

ServiceObject(clusterIP, ports) == [clusterIP |-> clusterIP, ports |-> ports]
EndpointsObject(ipWithPorts) == [ipWithPorts |-> ipWithPorts]
ConfigMapObject(value) == [value |-> value]
IngressObject(service, port) == [service |-> service, port |-> port]
RdmaIngressObject(service, targetPort) == [service |-> service, targetPort |-> targetPort]

-----------------------------------------------------------------------------
(* The handlers: the operations on the datastore that an item calls for.   *)

Put(key, value) == [key |-> key, value |-> value]
Unset(key) == Put(key, Nil)

IsIPv4(ip) == Len(ip) = 4

\* binary.LittleEndian.Uint32(net.ParseIP(ip).To4()); of anything else than an
\* IPv4 address To4 is empty, and Uint32 of that panics.
ConvertIP(ip) == ip[1] + 256 * ip[2] + 65536 * ip[3] + 16777216 * ip[4]

NodeHandle(type, name, o) ==
  IF type = "delete" THEN <<Unset(name)>>
  ELSE <<Put(name, [ip |-> o.ip, attr |-> o.attr])>>

PodHandle(type, name, o) ==
  IF type = "delete" THEN <<Unset(name)>>
  ELSE IF o.nodeName = "" \/ o.ip = <<>> THEN <<>>
  ELSE <<Put(name, [ip |-> o.ip, nodeName |-> o.nodeName])>>

ServiceHandle(type, name, o) ==
  IF type = "delete" THEN <<Unset(name)>>
  ELSE <<Put(name, ServiceObject(o.clusterIP, o.ports))>>

\* Every port of a subset at every address of it.
IPWithPorts(subsets) ==
  FlattenSeq([i \in DOMAIN subsets |->
    FlattenSeq([a \in DOMAIN subsets[i].addresses |->
      [p \in DOMAIN subsets[i].ports |->
        <<ConvertIP(subsets[i].addresses[a]), subsets[i].ports[p]>>]])])

EndpointsHandle(type, name, o) ==
  IF type = "delete" THEN <<Unset(name)>>
  ELSE <<Put(name, EndpointsObject(IPWithPorts(o.subsets)))>>

\* The text after the first occurrence of the name, "" when there is none.
RetrieveConfig(config, name) ==
  LET at == SelectInSeq(config, LAMBDA e : e.name = name)
  IN IF at = 0 THEN "" ELSE config[at].value

PutConfig(config, name) ==
  LET value == RetrieveConfig(config, name)
  IN IF value = "" THEN <<>> ELSE <<Put(name, ConfigMapObject(value))>>

\* Deletes are ignored, and so is every map but one.
ConfigMapHandle(type, name, o) ==
  IF type = "delete" \/ Last(name) # "kubeadm-config" THEN <<>>
  ELSE PutConfig(o.config, "podSubnet") \o PutConfig(o.config, "serviceSubnet")

\* The key is the name without the namespace.
IngressHandle(type, name, o) ==
  IF type = "delete" THEN <<Unset(Last(name))>>
  ELSE IF o.backend = Nil THEN <<>>
  ELSE <<Put(Last(name), IngressObject(o.backend.service, o.backend.port % 65536))>>

\* One operation for each rule of the object at hand.
RdmaIngressHandle(type, o) ==
  [i \in DOMAIN o.rules |->
    LET rule == o.rules[i] IN
      IF type = "delete" THEN Unset(rule.port % 65536)
      ELSE Put(rule.port % 65536,
               RdmaIngressObject(rule.service, rule.targetPort % 65536))]

\* The handler each controller is built with.
Handle(kind, type, name, o) ==
  CASE kind = "node"        -> NodeHandle(type, name, o)
    [] kind = "pod"         -> PodHandle(type, name, o)
    [] kind = "service"     -> ServiceHandle(type, name, o)
    [] kind = "endpoints"   -> EndpointsHandle(type, name, o)
    [] kind = "configmap"   -> ConfigMapHandle(type, name, o)
    [] kind = "ingress"     -> IngressHandle(type, name, o)
    [] kind = "rdmaingress" -> RdmaIngressHandle(type, o)

\* ipnet.IP of a PodCIDR that does not parse.
NodeUnhandled(o) == ~o.cidr

\* ConvertIP of an address that is not IPv4.
EndpointsUnhandled(o) ==
  \E i \in DOMAIN o.subsets :
    /\ o.subsets[i].ports # <<>>
    /\ \E ip \in ToSet(o.subsets[i].addresses) : ~IsIPv4(ip)

\* An index behind the end of the configuration.
ConfigMapUnhandled(name, o) ==
  /\ Last(name) = "kubeadm-config"
  /\ \E n \in {"podSubnet", "serviceSubnet"} : RetrieveConfig(o.config, n) = Cut

\* The service of a backend without one.
IngressUnhandled(o) == o.backend # Nil /\ o.backend.service = Nil

\* An object that is there and makes its handler panic.
Unhandled(kind, name, o) ==
  CASE kind = "node"      -> NodeUnhandled(o)
    [] kind = "endpoints" -> EndpointsUnhandled(o)
    [] kind = "configmap" -> ConfigMapUnhandled(name, o)
    [] kind = "ingress"   -> IngressUnhandled(o)
    [] OTHER              -> FALSE

\* Handling a set item panics; the type assertion of an object that is gone
\* does, too.
Panics(kind, type, name, o) ==
  type = "set" /\ (o # Nil => Unhandled(kind, name, o))

-----------------------------------------------------------------------------
(* The datastores: when a set leaves things as they are.                   *)

PodSame(old, new) == old.ip = new.ip /\ old.nodeName = new.nodeName

ServiceSameBug(old, new) == old.clusterIP = new.clusterIP

ServiceSame(old, new) == old.clusterIP = new.clusterIP /\ old.ports = new.ports

EndpointsSame(old, new) == old.ipWithPorts = new.ipWithPorts

ConfigMapSame(old, new) == old.value = new.value

IngressSame(old, new) == old.service = new.service /\ old.port = new.port

\* The target port is not compared.
RdmaIngressSame(old, new) == old.service = new.service

Same(kind, old, new) ==
  CASE kind = "pod"         -> PodSame(old, new)
    [] kind = "service"     -> ServiceSame(old, new)
    [] kind = "endpoints"   -> EndpointsSame(old, new)
    [] kind = "configmap"   -> ConfigMapSame(old, new)
    [] kind = "ingress"     -> IngressSame(old, new)
    [] kind = "rdmaingress" -> RdmaIngressSame(old, new)
    [] OTHER                -> old = new

\* Pods with the address of a node, and pods whose address is not of this
\* node's file, are not published.
Refused(kind, value) ==
  kind = "pod" /\ (value.ip \in NodeIP \/ ContainerId[value.ip] = "")

\* Whether an operation changes the datastore, and so makes an event.
Takes(kind, store, op) ==
  IF op.value = Nil THEN op.key \in DOMAIN store
  ELSE /\ op.key \in DOMAIN store => ~Same(kind, store[op.key], op.value)
       /\ ~Refused(kind, op.value)

\* What is stored: for a pod with its container.
Stored(kind, value) ==
  IF kind = "pod"
  THEN [ip |-> value.ip, nodeName |-> value.nodeName, container |-> ContainerId[value.ip]]
  ELSE value

NoStore == [k \in {} |-> Nil]

With(store, key, value) ==
  [k \in DOMAIN store \cup {key} |-> IF k = key THEN value ELSE store[k]]

Without(store, key) == [k \in DOMAIN store \ {key} |-> store[k]]

\* The effect of an operation on the map of the datastore.
Apply(kind, store, op) ==
  IF ~Takes(kind, store, op) THEN store
  ELSE IF op.value = Nil THEN Without(store, op.key)
  ELSE With(store, op.key, Stored(kind, op.value))

ApplyAll(kind, store, ops) ==
  LET after[n \in 0 .. Len(ops)] ==
        IF n = 0 THEN store ELSE Apply(kind, after[n - 1], ops[n])
  IN  after[Len(ops)]
==============================================================================
