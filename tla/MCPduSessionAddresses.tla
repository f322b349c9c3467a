----------------------- MODULE MCPduSessionAddresses -----------------------
(* Instances of PduSessionAddresses for TLC.                                *)
EXTENDS PduSessionAddresses, TLC
CONSTANTS k1, k2, k3

NoStatic == [k \in Keys |-> {}]

\* k1's subscription has a static address: past the pool's end, below it.
StaticOutside == [k \in Keys |-> IF k = k1 THEN {num + 5} ELSE {}]
StaticBelow == [k \in Keys |-> IF k = k1 THEN {-1} ELSE {}]
=============================================================================
