---------------------------- MODULE MCRemoteAsk ----------------------------
(* RemoteAsk for TLC: processes are interchangeable, and so are the asks    *)
(* that get no answer.                                                      *)
EXTENDS RemoteAsk, TLC

MCSymmetry == Permutations(Process) \cup Permutations(Ask \ Answered)

(* What tells two states apart.  No step reads a history; OneAskAtATime     *)
(* reads robbed for asks that still have a row, and an ask never gets a     *)
(* second row.                                                              *)
MCView ==
  <<up, row, file, io, call, hub, claim, memory, told,
    robbed \cap {r \in Ask : row[r] # None}, faults>>
=============================================================================
