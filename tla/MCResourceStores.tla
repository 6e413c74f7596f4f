--------------------------- MODULE MCResourceStores ---------------------------
(***************************************************************************)
(* Small instances of ResourceStores for TLC.                              *)
(***************************************************************************)
EXTENDS ResourceStores, MCResources

\* Looks that make a difference to the store, two keys of one object, and two
\* objects that share one.
MCLooks ==
  One("pod", {Pod(IP(1)), Pod(IP(2)), Pod(IP(3))})
  @@ One("service", {Service(IP(3), <<80>>), Service(IP(3), <<>>)})
  @@ One("endpoints", {Endpoints(<<>>), Endpoints(<<IP(1), IP(2)>>)})
  @@ ("configmap" :> (<<"kube-system", "kubeadm-config">> :>
        {[config |-> <<Config("podSubnet", "p"), Config("serviceSubnet", "s")>>],
         [config |-> <<Config("podSubnet", "q")>>]}))
  @@ Two("ingress", {Ingress("s"), [backend |-> Nil]}, {Ingress("t")})
  @@ Two("rdmaingress", {RdmaIngress(<<Rule(80, 1), Rule(81, 1)>>)}, {RdmaIngress(<<Rule(81, 2)>>)})

\* A service with an address and one without (clusterIP: None).
Headless ==
  Two("service", {Service(IP(3), <<80>>)}, {Service(<<"None">>, <<80>>)})
==============================================================================
