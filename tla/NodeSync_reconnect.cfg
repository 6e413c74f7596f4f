\* One node that comes, changes and goes; a client that lists, watches, loses
\* its stream and watches again.  The server may crash for good and the log is
\* bounded, so it may stop.
SPECIFICATION SyncSpec
CONSTANTS
  n1 = n1
  Nil = Nil
  Name = {n1}
  IP = {1}
  IPv4 = {1}
  Attr = {a0, a1}
  Observed <- FixedIP
  Session <- MCSession
  MaxVersion = 3
  MaxWatch = 2
  MaxRestart = 0
SYMMETRY AttrSymmetry
CHECK_DEADLOCK FALSE
INVARIANTS
  SyncTypeOK
  ClientAtVersion
  SyncedWhenQuiet
