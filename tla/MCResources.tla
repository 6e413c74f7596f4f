------------------------------ MODULE MCResources ------------------------------
(***************************************************************************)
(* Objects for the small instances of Controller and ResourceStores.       *)
(***************************************************************************)
EXTENDS Resources, TLC

IP(n) == <<10, 0, 0, n>>
IPv6 == <<"fd00::1">>

\* The addresses of pods: one of this node's file, one of another node, and the
\* node's own.
MCContainerId ==
  (IP(1) :> "container1") @@ (IP(2) :> "") @@ (IP(3) :> "container3") @@ (IP(9) :> "")
MCNodeIP == {IP(9)}

Node(attr, cidr) == [ip |-> IP(9), attr |-> attr, cidr |-> cidr]
Pod(ip) == [ip |-> ip, nodeName |-> "n1"]
Service(ip, ports) == [clusterIP |-> ip, ports |-> ports]
Subset(ips) == [addresses |-> ips, ports |-> <<80>>]
Endpoints(ips) == [subsets |-> <<Subset(ips), Subset(<<IP(3)>>)>>]
Config(name, value) == [name |-> name, value |-> value]
Ingress(service) == [backend |-> [service |-> service, port |-> 80]]
Rule(port, target) == [service |-> "s", port |-> port, targetPort |-> target]
RdmaIngress(rules) == [rules |-> rules]

One(k, looks) == k :> (<<"d", "a">> :> looks)
Two(k, looks1, looks2) == k :> ((<<"d", "a">> :> looks1) @@ (<<"e", "a">> :> looks2))
==============================================================================
