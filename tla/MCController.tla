----------------------------- MODULE MCController -----------------------------
(***************************************************************************)
(* Small instances of Controller for TLC.                                  *)
(***************************************************************************)
EXTENDS Controller, MCResources

\* Nodes before and after the PodCIDR is assigned, pods before they have an
\* address and after they moved, services with and without ports, endpoints
\* of two subsets, configurations that lose an entry or their text,
\* ingresses without a backend, rules that are removed, changed and shared.
MCLooks ==
  (   "node" :> (<<"n1">> :> {Node(0, FALSE), Node(0, TRUE), Node(1, TRUE)}
              @@ <<"n2">> :> {Node(0, TRUE)}))
  @@ One("pod", {Pod(<<>>), Pod(IP(1)), Pod(IP(2)), Pod(IP(9))})
  @@ One("service", {Service(IP(3), <<80>>), Service(IP(3), <<80, 81>>), Service(<<"None">>, <<>>)})
  @@ One("endpoints", {Endpoints(<<>>), Endpoints(<<IP(1), IP(2)>>), Endpoints(<<IPv6>>)})
  @@ ("configmap" :>
       (<<"kube-system", "kubeadm-config">> :>
          {[config |-> <<Config("podSubnet", "p"), Config("serviceSubnet", "s")>>],
           [config |-> <<Config("serviceSubnet", "t"), Config("serviceSubnet", "s")>>],
           [config |-> <<Config("podSubnet", Cut)>>]}
        @@ <<"kube-system", "other">> :> {[config |-> <<Config("podSubnet", "q")>>]}))
  @@ Two("ingress", {Ingress("s"), Ingress("t"), [backend |-> Nil]}, {Ingress("s"), Ingress(Nil)})
  @@ Two("rdmaingress",
         {RdmaIngress(<<Rule(80, 1)>>), RdmaIngress(<<Rule(80, 2), Rule(81, 1)>>)},
         {RdmaIngress(<<Rule(80, 1), Rule(-1, 1)>>)})
==============================================================================
