------------------------- MODULE MCPfcpAssociation -------------------------
(* Instances of PfcpAssociation for TLC.                                    *)
EXTENDS PfcpAssociation, TLC
CONSTANTS upf1, upf2

\* One UPF that may set its association up again, one that does so once.
TwiceAndOnce == (upf1 :> 2) @@ (upf2 :> 1)
One == [u \in Upfs |-> 1]
OnceAndNever == (upf1 :> 1) @@ (upf2 :> 0)
=============================================================================
