------------------------------ MODULE TurnSlot ------------------------------
(***************************************************************************)
(* What the turn registry promises its callers, without leases, clocks or  *)
(* heartbeats: a room is a slot that one process at a time may occupy      *)
(* ("Invariant: AT MOST ONE in-flight AI turn per room", the header of     *)
(* query/active-rooms.ts).  TurnLease implements this specification when   *)
(* no live process is late with its heartbeats.                            *)
(***************************************************************************)
CONSTANTS Process, Room

VARIABLE running    \* room |-> the processes with a turn in flight there

Init == running = [r \in Room |-> {}]

(* A turn starts only in a room where nothing is in flight. *)
Occupy(p, r) ==
  /\ running[r] = {}
  /\ running' = [running EXCEPT ![r] = {p}]

(* The turn settles: its `finally` block clears the slot. *)
Vacate(p, r) ==
  /\ p \in running[r]
  /\ running' = [running EXCEPT ![r] = @ \ {p}]

(* A process dies and leaves every slot it occupied. *)
Die(p) == running' = [r \in Room |-> running[r] \ {p}]

Next ==
  \/ \E p \in Process, r \in Room : Occupy(p, r) \/ Vacate(p, r)
  \/ \E p \in Process : Die(p)

Spec == Init /\ [][Next]_running
=============================================================================
