------------------------------ MODULE MCPodStore ------------------------------
(***************************************************************************)
(* Small instances of PodStore for TLC.                                    *)
(***************************************************************************)
EXTENDS PodStore, TLC

CONSTANTS a, b, c,   \* the sandboxes
          p, q       \* the pods

\* The pod p goes through two sandboxes.
TwoOfOne == (a :> p) @@ (b :> p) @@ (c :> q)

TwoAddresses == <<1, 0, 0>>
==============================================================================
