---------------------------- MODULE MCIttiTimers ----------------------------
(* Instances of IttiTimers for TLC.                                        *)
EXTENDS IttiTimers

\* Model values for the callers.
CONSTANTS u1, u2
=============================================================================
