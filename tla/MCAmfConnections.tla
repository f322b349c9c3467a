-------------------------- MODULE MCAmfConnections --------------------------
(* Instances of AmfConnections for TLC.                                     *)
EXTENDS AmfConnections
=============================================================================
