\* A server that restarts under a client that goes on from its last version.
SPECIFICATION SyncSpec
CONSTANTS
  n1 = n1
  Nil = Nil
  Name = {n1}
  IP = {1}
  IPv4 = {1}
  Attr = {a0, a1}
  Observed <- FixedIP
  Session <- MCSession
  MaxVersion = 2
  MaxWatch = 2
  MaxRestart = 1
CHECK_DEADLOCK FALSE
INVARIANT
  SyncedAfterRestart
