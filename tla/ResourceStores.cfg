\* Each of the six stores with one request against a worker that publishes
\* three events; the process may crash and the log is bounded, so it may stop.
SPECIFICATION Spec
CONSTANTS
  Nil = Nil
  Cut = Cut
  NodeIP <- MCNodeIP
  ContainerId <- MCContainerId
  Kind = {"pod", "service", "endpoints", "configmap", "ingress", "rdmaingress"}
  Looks <- MCLooks
  Session = {s1}
  MaxVersion = 3
CHECK_DEADLOCK FALSE
INVARIANTS
  StoresTypeOK
  WatcherHasStore
  NoIdleMessage
PROPERTY
  ImplementsFeed
