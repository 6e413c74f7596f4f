-------------------------------- MODULE MCIpam --------------------------------
(***************************************************************************)
(* Small instances of Cni for TLC.                                         *)
(***************************************************************************)
EXTENDS Cni

CONSTANTS a, b, c    \* the sandboxes

\* a and b are of two pods that share a name in two namespaces.
SharedName == [sb \in Sandbox |-> IF sb = b THEN a ELSE sb]

\* Four addresses, two of them to give out: the second byte overflows on the
\* way from the gateway to the first of them.
TwoAddresses == <<1, 0, 0>>
==============================================================================
