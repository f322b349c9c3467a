-------------------------- MODULE MCPfcpTransport --------------------------
(* Instances of PfcpTransport for TLC.                                     *)
EXTENDS PfcpTransport
CONSTANTS smf, upf, heartbeat, report
=============================================================================
