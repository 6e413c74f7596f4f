\* A request lists while the worker publishes.
SPECIFICATION Spec
CONSTANTS
  n1 = n1
  n2 = n2
  n3 = n3
  Nil = Nil
  Name = {n1, n2}
  IP = {1, 2, 3}
  IPv4 = {1, 2}
  Attr = {0, 1}
  Session = {s1}
  Observed <- FixedIPs
  MaxVersion = 2
CHECK_DEADLOCK FALSE
INVARIANT
  ListedVersionStored
