---------------------------- MODULE MCTopicFence ----------------------------
(* TopicFence for TLC: each process can run one maintenance operation.  What *)
(* TurnLease promises is checked here too, under the fence that the          *)
(* operations hold.                                                         *)
EXTENDS TopicFence, TLC

CONSTANTS p1, p2, o1, o2

MCHome == o1 :> p1 @@ o2 :> p2
=============================================================================
