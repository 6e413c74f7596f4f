\* Two pods, one of which is set up a second time, a pod on the host network,
\* and one restart of the manager; once all pods are deleted it may stop.
SPECIFICATION PodFairSpec
CONSTANTS
  a = a
  b = b
  c = c
  p = p
  q = q
  Sandbox = {a, b, c}
  NameOf <- TwoOfOne
  HostPod = {h}
  NodeAddress = NodeAddress
  Pending = Pending
  MaxRestart = 1
  Network <- TwoAddresses
  Prefix = 1
  ByteBase = 2
  MaxKills = 0
  Nil = Nil
  Empty = Empty
  Torn = Torn
CHECK_DEADLOCK FALSE
INVARIANTS
  PodTypeOK
  HostPodsHidden
  RunningPodsDistinct
PROPERTY
  RunningPodPublished
