\* Every kind of controller, two objects and three changes, with the crashes
\* they cause; the process waits for ever once the changes are spent.
SPECIFICATION FairSpec
CONSTANTS
  Nil = Nil
  Cut = Cut
  NodeIP <- MCNodeIP
  ContainerId <- MCContainerId
  Kind <- Kinds
  Looks <- MCLooks
  MaxChange = 3
CHECK_DEADLOCK FALSE
INVARIANTS
  TypeOK
  LastItemDecides
  StoreAsIfRestarted
PROPERTIES
  DiesOfDeletedOnly
  Settles
