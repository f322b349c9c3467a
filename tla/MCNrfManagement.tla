------------------------- MODULE MCNrfManagement -------------------------
(* Instances of NrfManagement for TLC.                                      *)
EXTENDS NrfManagement, TLC
CONSTANTS nf1, nf2, sub1, thread1, thread2, profile1, profile2, profile3, profile4

Symmetry == Permutations(Profiles) \cup Permutations(Threads)
=============================================================================
