----------------------------- MODULE RoleLease -----------------------------
(***************************************************************************)
(* The process lease: how one of several runtime processes becomes, and    *)
(* stays, the holder of a role (the session inbox worker, a singleton      *)
(* module, a workload).                                                    *)
(*                                                                         *)
(*   storage/runtime-process-leases.ts                                     *)
(*                                                                         *)
(* One role: the rows of different roles never meet.  As in TurnLease, the *)
(* model keeps the age of the last heartbeat instead of its time, and ages *)
(* saturate one unit past the staleness limit.  MaxDelay bounds how late   *)
(* the interval callback of a live process runs; WritesFail says whether   *)
(* its write may fail (a database busy past its timeout, an I/O error).    *)
(***************************************************************************)
EXTENDS Integers

CONSTANTS
  Process,     \* runtime instances; a restart is a new one
  RoleStale,   \* PROCESS_LEASE_STALE_MS, in clock units
  MaxDelay,    \* the longest an interval callback of a live process is late
  WritesFail,  \* whether a heartbeat's UPDATE may throw
  None         \* no row, no handle

LeaseRow == [owner : Process, age : 0..(RoleStale + 1)]

(* The handle of acquireRuntimeProcessLease: the clock units since its last *)
(* successful heartbeat and since its callback last ran.                    *)
Handle == [beat : 0..(RoleStale + 1), quiet : 0..MaxDelay]

ASSUME RoleStaleAssumption  == RoleStale \in Nat
ASSUME MaxDelayAssumption   == MaxDelay \in Nat \ {0}
ASSUME WritesFailAssumption == WritesFail \in BOOLEAN
ASSUME NoneAssumption       == None \notin LeaseRow /\ None \notin Handle

VARIABLES
  up,     \* up[p]: the process is alive
  row,    \* the row of runtime_process_leases
  held    \* held[p]: the handle p believes to hold

leaseVars == <<up, row, held>>

(* Every live process renews its row before it can go stale: what comparing *)
(* a 1 s interval with a 5 s limit counts on.                                *)
TimelyHeartbeats == MaxDelay <= RoleStale /\ ~WritesFail

-----------------------------------------------------------------------------
Owns(p) == row # None /\ row.owner = p

Older(age) == IF age > RoleStale THEN age ELSE age + 1

(* Mutant: taken over at the limit instead of past it. *)
FreeAtLimit == row # None => ~up[row.owner] \/ row.age >= RoleStale

(* removeDeadRuntimeProcessLease deletes a row whose pid is gone; the upsert *)
(* then succeeds without a row or past the limit, whoever the owner is.      *)
Free == row # None => ~up[row.owner] \/ row.age > RoleStale

LeaseTypeOK ==
  /\ up \in [Process -> BOOLEAN]
  /\ row \in LeaseRow \cup {None}
  /\ held \in [Process -> Handle \cup {None}]

LeaseInit ==
  /\ up = [p \in Process |-> TRUE]
  /\ row = None
  /\ held = [p \in Process |-> None]

Acquire(p) ==
  /\ up[p]
  /\ held[p] = None
  /\ Free
  /\ row' = [owner |-> p, age |-> 0]
  /\ held' = [held EXCEPT ![p] = [beat |-> 0, quiet |-> 0]]
  /\ UNCHANGED up

(* The interval fires and the UPDATE finds the row. *)
Heartbeat(p) ==
  /\ up[p]
  /\ held[p] # None
  /\ Owns(p)
  /\ row' = [row EXCEPT !.age = 0]
  /\ held' = [held EXCEPT ![p] = [beat |-> 0, quiet |-> 0]]
  /\ UNCHANGED up

(* It finds no row of this owner: the timer stops and onLost is called. *)
Lose(p) ==
  /\ up[p]
  /\ held[p] # None
  /\ ~Owns(p)
  /\ held' = [held EXCEPT ![p] = None]
  /\ UNCHANGED <<up, row>>

(* The UPDATE throws: retried at the next tick, given up once no heartbeat  *)
(* has succeeded for the staleness period.                                  *)
HeartbeatFails(p) ==
  /\ WritesFail
  /\ up[p]
  /\ held[p] # None
  /\ held' = [held EXCEPT ![p] =
                IF @.beat >= RoleStale THEN None
                ELSE [beat |-> @.beat, quiet |-> 0]]
  /\ UNCHANGED <<up, row>>

(* Mutant: DELETE by role alone. *)
ReleaseUnscoped(p) ==
  /\ up[p]
  /\ held[p] # None
  /\ held' = [held EXCEPT ![p] = None]
  /\ row' = None
  /\ UNCHANGED up

(* stop(): the handle is given back, and the row if it is still its own. *)
Release(p) ==
  /\ up[p]
  /\ held[p] # None
  /\ held' = [held EXCEPT ![p] = None]
  /\ row' = IF Owns(p) THEN None ELSE row
  /\ UNCHANGED up

(* The process dies: its row stays behind. *)
Die(p) ==
  /\ up[p]
  /\ up' = [up EXCEPT ![p] = FALSE]
  /\ held' = [held EXCEPT ![p] = None]
  /\ UNCHANGED row

(* Time passes, but no further than the latest callback may be delayed. *)
Tick ==
  /\ \A p \in Process : held[p] # None => held[p].quiet < MaxDelay
  /\ row' = IF row = None THEN None ELSE [row EXCEPT !.age = Older(@)]
  /\ held' = [p \in Process |->
                IF held[p] = None THEN None
                ELSE [beat |-> Older(held[p].beat), quiet |-> held[p].quiet + 1]]
  /\ UNCHANGED up

Monitor(p) == Heartbeat(p) \/ Lose(p)

LeaseNext ==
  \/ \E p \in Process :
       Acquire(p) \/ Monitor(p) \/ HeartbeatFails(p) \/ Release(p) \/ Die(p)
  \/ Tick

LeaseSpec == LeaseInit /\ [][LeaseNext]_leaseVars

-----------------------------------------------------------------------------
(* Why the lease excludes: a holder owns the row, and the row is no older    *)
(* than the holder's last callback.                                         *)
Incumbency ==
  \A p \in Process :
    held[p] # None => up[p] /\ Owns(p) /\ row.age <= held[p].quiet

(* "Claim one cross-process role": two processes never both believe to hold *)
(* it.  It takes timely heartbeats that can be written.                      *)
OneHolder ==
  \A p, o \in Process : held[p] # None /\ held[o] # None => p = o
=============================================================================
