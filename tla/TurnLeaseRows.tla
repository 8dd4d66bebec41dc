---------------------------- MODULE TurnLeaseRows ----------------------------
(***************************************************************************)
(* The constants of the turn leases and what their rows hold: shared by    *)
(* TurnLease, which says how the leases move, and TopicFence, which says   *)
(* so of the maintenance fence above them.                                 *)
(***************************************************************************)
EXTENDS Integers

CONSTANTS
  Process,    \* runtime instances (RUNTIME_INSTANCE_ID); a restart is a new one
  Room,       \* turn slot keys: a topic id, or an isolated turn's private key
  Query,      \* turn ids
  TurnStale,  \* TURN_LEASE_STALE_MS, in clock units
  MaxDelay,   \* the longest a heartbeat callback of a live process is late
  None        \* no row, no control

AbortReason == {"none", "internal", "external", "infrastructure"}
WireReason  == {"none", "internal", "external"}

LeaseRow == [owner : Process, query : Query, age : 0..(TurnStale + 1),
             abort : WireReason]
Control  == [query : Query, reason : AbortReason, age : 0..MaxDelay]

(* Every live process renews its leases before they can go stale: what the  *)
(* code counts on when it compares a 1 s interval with a 10 s limit.         *)
TimelyHeartbeats == MaxDelay <= TurnStale

ASSUME TurnStaleAssumption == TurnStale \in Nat
ASSUME MaxDelayAssumption  == MaxDelay \in Nat \ {0}
ASSUME NoneAssumption      == None \notin LeaseRow /\ None \notin Control
=============================================================================
