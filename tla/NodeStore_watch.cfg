\* One request against a worker that publishes three events, of
\* a node without an address among them; the process may
\* crash and the log is bounded, so it may stop.
SPECIFICATION FairSpec
CONSTANTS
  n1 = n1
  n2 = n2
  n3 = n3
  Nil = Nil
  Name = {n1, n2, n3}
  IP = {1, 2, 3}
  IPv4 = {1, 2}
  Attr = {0, 1}
  Session = {s1}
  Observed <- AlsoNoIP
  MaxVersion = 3
CHECK_DEADLOCK FALSE
INVARIANTS
  LogMatchesMap
  NoRedundantEvent
  IPSetExact
PROPERTIES
  ImplementsFeed
  EveryEventDelivered
  DeadWatchRemoved
