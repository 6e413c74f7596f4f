\* Every interleaving of the worker with two requests; the process may crash
\* and the log is bounded, so it may stop.
SPECIFICATION Spec
CONSTANTS
  n1 = n1
  n2 = n2
  n3 = n3
  Nil = Nil
  Name = {n1, n2}
  IP = {1, 2, 3}
  IPv4 = {1, 2}
  Attr = {0, 1}
  Session = {s1, s2}
  Observed <- FixedIPs
  MaxVersion = 2
SYMMETRY SessionSymmetry
CHECK_DEADLOCK FALSE
INVARIANTS
  StreamInv
  TypeOK
  StreamGapFree
  NoEventLost
  OneRewind
