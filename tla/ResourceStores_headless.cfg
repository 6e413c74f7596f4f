\* A service without an address, listed or watched.
SPECIFICATION Spec
CONSTANTS
  Nil = Nil
  Cut = Cut
  NodeIP <- MCNodeIP
  ContainerId <- MCContainerId
  Kind = {"service"}
  Looks <- Headless
  Session = {s1}
  MaxVersion = 1
CHECK_DEADLOCK FALSE
INVARIANT
  MessagesCanBeBuilt
