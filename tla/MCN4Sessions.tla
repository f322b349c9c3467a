---------------------------- MODULE MCN4Sessions ----------------------------
(* Instances of N4Sessions for TLC.                                         *)
EXTENDS N4Sessions
CONSTANTS s1, s2, ueAddress
=============================================================================
