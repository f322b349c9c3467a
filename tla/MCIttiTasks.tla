----------------------------- MODULE MCIttiTasks -----------------------------
(* Instances of IttiTasks for TLC.                                          *)
EXTENDS IttiTasks
=============================================================================
