\* A client that reconnects goes on to the end of the log, or to a restarted
\* server.  The server may crash for good and the log is bounded, so it may stop.
SPECIFICATION SyncFairSpec
CONSTANTS
  n1 = n1
  Nil = Nil
  Name = {n1}
  IP = {1}
  IPv4 = {1}
  Attr = {a0}
  Observed <- FixedIP
  Session <- MCSession
  MaxVersion = 2
  MaxWatch = 2
  MaxRestart = 1
CHECK_DEADLOCK FALSE
PROPERTIES
  ResumePointGrows
  ClientCatchesUp
