----------------------------- MODULE MCNodeStore -----------------------------
(***************************************************************************)
(* Small instances of NodeStore for TLC.                                   *)
(***************************************************************************)
EXTENDS NodeStore, TLC

CONSTANTS n1, n2, n3    \* the node names

Obj(ip, attr) == [ip |-> ip, attr |-> attr]

\* Each node keeps its address; n1 may report another hostname.
FixedIPs == (n1 :> {Obj(1, 0), Obj(1, 1)}) @@ (n2 :> {Obj(2, 0)})

\* n3 has no InternalIP.
AlsoNoIP == FixedIPs @@ (n3 :> {Obj(3, 0)})

SessionSymmetry == Permutations(Session)
==============================================================================
