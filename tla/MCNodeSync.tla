------------------------------ MODULE MCNodeSync ------------------------------
(***************************************************************************)
(* Small instances of NodeSync for TLC.                                    *)
(***************************************************************************)
EXTENDS NodeSync, TLC

CONSTANTS n1    \* the node name

MCSession == 0 .. MaxWatch

\* The node keeps its address; what else it reports may change.
FixedIP == n1 :> [ip : IP, attr : Attr]

AttrSymmetry == Permutations(Attr)
==============================================================================
