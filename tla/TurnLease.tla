------------------------------ MODULE TurnLease ------------------------------
(***************************************************************************)
(* The turn lease: how several runtime processes that share one SQLite     *)
(* store keep at most one AI turn in flight per room.                      *)
(*                                                                         *)
(*   storage/runtime-leases.ts        the rows of runtime_turn_leases      *)
(*   query/room-query-registry.ts     the in-memory registry of a process  *)
(*   runtime/turn-runner.ts           the callers that start and supersede *)
(*   runtime/turn-event-stream.ts     the `finally` that clears the slot   *)
(*                                                                         *)
(* A row holds the time of its last heartbeat and is compared with the     *)
(* clock wherever it is read.  The model keeps the difference: an `age`    *)
(* that Tick advances, saturated one unit past the staleness limit, where  *)
(* the code no longer tells ages apart.                                    *)
(*                                                                         *)
(* MaxDelay bounds how late a live process may run the interval callback   *)
(* that renews its leases.  The code promises no such bound: a blocked     *)
(* event loop or a suspended machine delays the callback at will.          *)
(***************************************************************************)
EXTENDS TurnLeaseRows

VARIABLES
  up,      \* up[p]: the process is alive
  lease,   \* lease[r]: the row of runtime_turn_leases, shared by all processes
  turn,    \* turn[p][r]: the entry of p's activeByRoom with its abort controller
  fenced   \* rooms whose runtime_topic_state row is under fresh maintenance

vars == <<up, lease, turn, fenced>>

-----------------------------------------------------------------------------
(* What the queries of runtime-leases.ts compare. *)

(* Mutant: stale one unit too early. *)
FreshBelowLimit(r) == lease[r] # None /\ lease[r].age < TurnStale

Fresh(r) == lease[r] # None /\ lease[r].age <= TurnStale

Owns(p, r) ==
  /\ turn[p][r] # None
  /\ lease[r] # None
  /\ lease[r].owner = p
  /\ lease[r].query = turn[p][r].query

(* Mutant: a row is taken over at the limit instead of past it. *)
ClaimableAtLimit(p, r) ==
  /\ r \notin fenced
  /\ lease[r] # None => lease[r].owner = p \/ lease[r].age >= TurnStale

Claimable(p, r) ==
  /\ r \notin fenced
  /\ lease[r] # None => lease[r].owner = p \/ lease[r].age > TurnStale

UniqueQuery(r, q) ==
  \A s \in Room \ {r} : lease[s] # None => lease[s].query # q

(* requestRuntimeTurnAbort: only a fresh row takes the flag, and an external *)
(* request is never weakened to an internal one.                            *)
FlagAbort(r, reason) ==
  IF Fresh(r)
  THEN [lease EXCEPT ![r].abort = IF @ = "external" THEN @ ELSE reason]
  ELSE lease

(* isTopicRunning, as process p answers it. *)
IsTopicRunning(p, r) == turn[p][r] # None \/ Fresh(r)

-----------------------------------------------------------------------------
TypeOK ==
  /\ up \in [Process -> BOOLEAN]
  /\ lease \in [Room -> LeaseRow \cup {None}]
  /\ turn \in [Process -> [Room -> Control \cup {None}]]
  /\ fenced \subseteq Room

Init ==
  /\ up = [p \in Process |-> TRUE]
  /\ lease = [r \in Room |-> None]
  /\ turn = [p \in Process |-> [r \in Room |-> None]]
  /\ fenced = {}

(* Mutant: an upsert without its WHERE clause. *)
StartTurnUnguarded(p, r, q) ==
  /\ up[p]
  /\ turn[p][r] = None
  /\ UniqueQuery(r, q)
  /\ lease' = [lease EXCEPT ![r] =
                 [owner |-> p, query |-> q, age |-> 0, abort |-> "none"]]
  /\ turn' = [turn EXCEPT ![p][r] = [query |-> q, reason |-> "none", age |-> 0]]
  /\ UNCHANGED <<up, fenced>>

(* startAiTurn on a room its process sees idle: decideNewQuery says proceed  *)
(* and registry.set claims the row.  Where another process holds the row the *)
(* claim fails and nothing here changes.                                     *)
StartTurn(p, r, q) ==
  /\ up[p]
  /\ turn[p][r] = None
  /\ Claimable(p, r)
  /\ UniqueQuery(r, q)
  /\ lease' = [lease EXCEPT ![r] =
                 [owner |-> p, query |-> q, age |-> 0, abort |-> "none"]]
  /\ turn' = [turn EXCEPT ![p][r] = [query |-> q, reason |-> "none", age |-> 0]]
  /\ UNCHANGED <<up, fenced>>

(* Mutant: the row's abort flag is not looked at. *)
HeartbeatBlind(p, r) ==
  /\ up[p]
  /\ Owns(p, r)
  /\ lease' = [lease EXCEPT ![r].age = 0]
  /\ turn' = [turn EXCEPT ![p][r].age = 0]
  /\ UNCHANGED <<up, fenced>>

(* The monitor's interval fires and the row is still this turn's: renew it,  *)
(* and deliver an abort that another process asked for.                      *)
Heartbeat(p, r) ==
  /\ up[p]
  /\ Owns(p, r)
  /\ lease' = [lease EXCEPT ![r].age = 0]
  /\ turn' = [turn EXCEPT ![p][r] =
                 [query |-> @.query, age |-> 0,
                  reason |-> IF @.reason = "none" THEN lease[r].abort
                             ELSE @.reason]]
  /\ UNCHANGED <<up, fenced>>

(* Mutant: the interval is cleared, the turn goes on. *)
LoseLeaseSilently(p, r) ==
  /\ up[p]
  /\ turn[p][r] # None
  /\ ~Owns(p, r)
  /\ turn' = [turn EXCEPT ![p][r].age = 0]
  /\ UNCHANGED <<up, lease, fenced>>

(* The monitor fires and the row is gone or someone else's: stop the turn.   *)
LoseLease(p, r) ==
  /\ up[p]
  /\ turn[p][r] # None
  /\ ~Owns(p, r)
  /\ turn' = [turn EXCEPT ![p][r] =
                 [query |-> @.query, age |-> 0, reason |-> "external"]]
  /\ UNCHANGED <<up, lease, fenced>>

(* A human message supersedes the turn its own process is running.           *)
Supersede(p, r) ==
  /\ up[p]
  /\ turn[p][r] # None
  /\ turn' = [turn EXCEPT ![p][r].reason = "internal"]
  /\ UNCHANGED <<up, lease, fenced>>

(* A human message reaches a process that does not run the room: the same    *)
(* person's follow-up asks the owner to stop.                                *)
SteerRemote(p, r) ==
  /\ up[p]
  /\ turn[p][r] = None
  /\ lease' = FlagAbort(r, "internal")
  /\ UNCHANGED <<up, turn, fenced>>

(* abortRoom: stop, /new, delete.  The local turn is aborted at once, and    *)
(* the row is flagged for whichever process owns it.                         *)
AbortRoom(p, r) ==
  /\ up[p]
  /\ lease' = FlagAbort(r, "external")
  /\ turn' = IF turn[p][r] = None THEN turn
             ELSE [turn EXCEPT ![p][r].reason = "external"]
  /\ UNCHANGED <<up, fenced>>

(* abortAllRooms: graceful shutdown aborts every local turn, rows untouched. *)
AbortAll(p) ==
  /\ up[p]
  /\ turn' = [turn EXCEPT ![p] =
                [r \in Room |-> IF @[r] = None THEN None
                                ELSE [@[r] EXCEPT !.reason = "external"]]]
  /\ UNCHANGED <<up, lease, fenced>>

(* A required runtime dependency of the turn (its browser) exited.           *)
InfrastructureLost(p, r) ==
  /\ up[p]
  /\ turn[p][r] # None
  /\ turn[p][r].reason = "none"
  /\ turn' = [turn EXCEPT ![p][r].reason = "infrastructure"]
  /\ UNCHANGED <<up, lease, fenced>>

(* Mutant: the entry is dropped and the row forgotten. *)
FinishTurnKeepingRow(p, r) ==
  /\ up[p]
  /\ turn[p][r] # None
  /\ turn' = [turn EXCEPT ![p][r] = None]
  /\ UNCHANGED <<up, lease, fenced>>

(* Mutant: DELETE by room alone. *)
FinishTurnUnscoped(p, r) ==
  /\ up[p]
  /\ turn[p][r] # None
  /\ turn' = [turn EXCEPT ![p][r] = None]
  /\ lease' = [lease EXCEPT ![r] = None]
  /\ UNCHANGED <<up, fenced>>

(* The stream's `finally`: registry.clear drops the entry and deletes the    *)
(* row, which the query id and the owner id in its WHERE clause protect.     *)
FinishTurn(p, r) ==
  /\ up[p]
  /\ turn[p][r] # None
  /\ turn' = [turn EXCEPT ![p][r] = None]
  /\ lease' = IF Owns(p, r) THEN [lease EXCEPT ![r] = None] ELSE lease
  /\ UNCHANGED <<up, fenced>>

(* The process dies: its memory is gone, its rows stay behind.               *)
Crash(p) ==
  /\ up[p]
  /\ up' = [up EXCEPT ![p] = FALSE]
  /\ turn' = [turn EXCEPT ![p] = [r \in Room |-> None]]
  /\ UNCHANGED <<lease, fenced>>

(* A maintenance operation elsewhere takes or releases its fence.            *)
MoveFence(rooms) ==
  /\ fenced' = rooms
  /\ UNCHANGED <<up, lease, turn>>

Older(row) ==
  IF row = None THEN None
  ELSE [row EXCEPT !.age = IF @ > TurnStale THEN @ ELSE @ + 1]

(* Time passes, but no further than the latest callback of a live process    *)
(* may be delayed.  A fence can go stale meanwhile.                          *)
Tick ==
  /\ \A p \in Process, r \in Room :
       turn[p][r] # None => turn[p][r].age < MaxDelay
  /\ lease' = [r \in Room |-> Older(lease[r])]
  /\ turn' = [p \in Process |-> [r \in Room |->
                IF turn[p][r] = None THEN None
                ELSE [turn[p][r] EXCEPT !.age = @ + 1]]]
  /\ fenced' \in SUBSET fenced
  /\ UNCHANGED up

Monitor(p, r) == Heartbeat(p, r) \/ LoseLease(p, r)

Turns(p, r) ==
  \/ \E q \in Query : StartTurn(p, r, q)
  \/ Monitor(p, r)
  \/ Supersede(p, r)
  \/ SteerRemote(p, r)
  \/ AbortRoom(p, r)
  \/ InfrastructureLost(p, r)
  \/ FinishTurn(p, r)

Next ==
  \/ \E p \in Process, r \in Room : Turns(p, r)
  \/ \E p \in Process : AbortAll(p) \/ Crash(p)
  \/ \E rooms \in SUBSET Room : MoveFence(rooms)
  \/ Tick

Spec == Init /\ [][Next]_vars

(* setInterval keeps firing while its process lives, and clocks advance.     *)
(* Nothing makes a provider finish, a user type or a process crash.          *)
Fairness ==
  /\ \A p \in Process, r \in Room : WF_vars(Monitor(p, r))
  /\ WF_vars(Tick)

FairSpec == Spec /\ Fairness

-----------------------------------------------------------------------------
(* Why leases exclude: every turn in flight is covered by its own row, and   *)
(* the row is no older than the turn's last heartbeat.                       *)
Tenancy ==
  \A p \in Process, r \in Room :
    turn[p][r] # None =>
      up[p] /\ Owns(p, r) /\ lease[r].age <= turn[p][r].age

(* active-rooms.ts: "Invariant: AT MOST ONE in-flight AI turn per room".     *)
(* A turn that was aborted still counts until its `finally` clears the slot: *)
(* its provider may still be flushing the session both would write.          *)
OneTurnPerRoom ==
  \A p, o \in Process, r \in Room :
    turn[p][r] # None /\ turn[o][r] # None => p = o

(* While any process runs a turn, every process that asks sees the room      *)
(* busy: reset, delete, idle archiving and the durable worker all decide by  *)
(* this answer (isTopicRunning, getRuntimeTurnLease).                        *)
RunningIsVisible ==
  \A p, o \in Process, r \in Room :
    turn[o][r] # None => IsTopicRunning(p, r)

(* No live process leaves a row behind: a row it owns names the turn it is   *)
(* running, so the other processes never sit out a staleness period for a    *)
(* room whose turn has ended, however the two raced for it.                  *)
NoOrphanLease ==
  \A r \in Room :
    lease[r] # None /\ up[lease[r].owner] => Owns(lease[r].owner, r)

(* The step that ends one process's turn leaves every other process's row    *)
(* alone: the late `finally` of a turn that lost its room does not free the  *)
(* room under its replacement.                                               *)
FinishSparesReplacement ==
  [][\A p, o \in Process, r \in Room :
       /\ p # o
       /\ turn[o][r] # None /\ turn'[o][r] = None
       /\ Owns(p, r)
       => lease'[r] = lease[r]]_vars

(* An abort flag set by any process reaches the turn that holds the row: it  *)
(* is aborted, or it is over.                                                *)
AbortIsDelivered ==
  \A p \in Process, r \in Room, q \in Query :
    (Owns(p, r) /\ lease[r].query = q /\ lease[r].abort # "none")
      ~> (turn[p][r] = None \/ turn[p][r].query # q \/ turn[p][r].reason # "none")

(* A turn whose row was taken over is told to stop.                          *)
LostTurnIsStopped ==
  \A p \in Process, r \in Room, q \in Query :
    (turn[p][r] # None /\ turn[p][r].query = q /\ ~Owns(p, r))
      ~> (turn[p][r] = None \/ turn[p][r].query # q \/ turn[p][r].reason # "none")

-----------------------------------------------------------------------------
(* What the registry promises, when heartbeats are timely. *)
Slot == INSTANCE TurnSlot WITH
          running <- [r \in Room |-> {p \in Process : turn[p][r] # None}]

SlotSpec == Slot!Spec
=============================================================================
