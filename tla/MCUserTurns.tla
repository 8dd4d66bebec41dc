---------------------------- MODULE MCUserTurns ----------------------------
(* UserTurns for TLC: processes and actors are interchangeable, threads other *)
(* than the channel are.                                                      *)
EXTENDS UserTurns

Symmetry == Permutations(Process) \cup Permutations(Actor) \cup Permutations(Thread \ {Main})
=============================================================================
