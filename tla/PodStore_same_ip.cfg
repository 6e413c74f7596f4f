\* A pod whose second sandbox gets the address of the first.
SPECIFICATION PodSpec
CONSTANTS
  a = a
  b = b
  c = c
  p = p
  q = q
  Sandbox = {a, b}
  NameOf <- TwoOfOne
  HostPod = {}
  NodeAddress = NodeAddress
  Pending = Pending
  MaxRestart = 0
  Network <- TwoAddresses
  Prefix = 1
  ByteBase = 2
  MaxKills = 0
  Nil = Nil
  Empty = Empty
  Torn = Torn
CHECK_DEADLOCK FALSE
INVARIANT
  PodFollowsSandbox
