------------------------------ MODULE TopicFence ------------------------------
(***************************************************************************)
(* The maintenance fence of a topic (reset, compact, delete, import) above *)
(* the turn leases it excludes.                                            *)
(*                                                                         *)
(*   storage/runtime-topic-state.ts   the row of runtime_topic_state and   *)
(*                                    the handle returned by begin         *)
(*   topics/session.ts                fenceTopicWork, restartTopicSession, *)
(*                                    compactTopicSession                  *)
(*   topics/lifecycle.ts              deleteTopicCascade                   *)
(*                                                                         *)
(* An operation takes the fence (which advances the topic's epoch), aborts *)
(* the running turn, waits until its process sees neither a local turn nor *)
(* a fresh lease, checks that it still owns the row, works, checks again,  *)
(* and destroys provider context.  Claims of turn leases are refused while *)
(* the row is under maintenance and its heartbeat is fresh.                *)
(***************************************************************************)
EXTENDS TurnLeaseRows

CONSTANTS
  Op,          \* maintenance operations: one owner id (a fresh UUID) each
  Home,        \* Home[o]: the process in which operation o runs
  FenceStale,  \* TOPIC_MAINTENANCE_STALE_MS, in clock units
  MaxFenceDelay, \* the longest a fence heartbeat of a live process is late
  MaxEpoch     \* bound of the exploration: epochs the model counts up to

Epoch == 0..MaxEpoch

(* A missing row reads as epoch 0 without maintenance (getRuntimeTopicState). *)
FenceRow == [epoch : Epoch, owner : Op \cup {None}, age : 0..(FenceStale + 1)]
NoRow    == [epoch |-> 0, owner |-> None, age |-> 0]

Phase  == {"begun", "waiting", "exclusive", "destroying", "forced"}
Handle == [room : Room, epoch : Epoch, phase : Phase,
           lost : BOOLEAN, age : 0..MaxFenceDelay]

(* Every live operation renews its fence before it can go stale.             *)
TimelyFence == MaxFenceDelay <= FenceStale

ASSUME FenceStaleAssumption == FenceStale \in Nat
ASSUME FenceDelayAssumption == MaxFenceDelay \in Nat \ {0}
ASSUME EpochAssumption      == MaxEpoch \in Nat
ASSUME HomeAssumption       == Home \in [Op -> Process]
ASSUME FenceNoneAssumption  == None \notin Op /\ None \notin Handle

VARIABLES
  up, lease, turn,   \* the turn leases (module TurnLease)
  fence,             \* fence[r]: the row of runtime_topic_state
  op                 \* op[o]: the handle operation o holds, or None

leaseVars == <<up, lease, turn>>
fenceVars == <<fence, op>>
vars      == <<up, lease, turn, fence, op>>

(* The row has an owner exactly while maintenance = 1. *)
Held(r)    == fence[r].owner # None
Stale(r)   == fence[r].age > FenceStale

(* Mutant: a stale row keeps fencing. *)
FencedForGood == {r \in Room : Held(r)}

Fenced     == {r \in Room : Held(r) /\ ~Stale(r)}

Leases == INSTANCE TurnLease WITH fenced <- Fenced

(* The WHERE clause of heartbeat, isOwned and finish. *)
Matches(o) ==
  /\ op[o] # None
  /\ fence[op[o].room].owner = o
  /\ fence[op[o].room].epoch = op[o].epoch

IsOwned(o) == op[o] # None /\ ~op[o].lost /\ Matches(o)

(* Mutant: only this process is asked. *)
QuietHere(p, r) == turn[p][r] = None

Quiet(p, r) == turn[p][r] = None /\ ~Leases!Fresh(r)

-----------------------------------------------------------------------------
TypeOK ==
  /\ fence \in [Room -> FenceRow]
  /\ op \in [Op -> Handle \cup {None}]

Init ==
  /\ fence = [r \in Room |-> NoRow]
  /\ op = [o \in Op |-> None]
  /\ Leases!Init

(* Mutant: maintenance that is already held is taken over. *)
BeginOverFresh(o, r) ==
  /\ up[Home[o]]
  /\ op[o] = None
  /\ fence[r].epoch < MaxEpoch
  /\ fence' = [fence EXCEPT ![r] =
                 [epoch |-> fence[r].epoch + 1, owner |-> o, age |-> 0]]
  /\ op' = [op EXCEPT ![o] =
              [room |-> r, epoch |-> fence[r].epoch + 1, phase |-> "begun",
               lost |-> FALSE, age |-> 0]]
  /\ UNCHANGED leaseVars

(* beginRuntimeTopicMaintenance: refused while another owner's maintenance   *)
(* is fresh.                                                                 *)
Begin(o, r) ==
  /\ up[Home[o]]
  /\ op[o] = None
  /\ r \notin Fenced
  /\ fence[r].epoch < MaxEpoch
  /\ fence' = [fence EXCEPT ![r] =
                 [epoch |-> fence[r].epoch + 1, owner |-> o, age |-> 0]]
  /\ op' = [op EXCEPT ![o] =
              [room |-> r, epoch |-> fence[r].epoch + 1, phase |-> "begun",
               lost |-> FALSE, age |-> 0]]
  /\ UNCHANGED leaseVars

(* fenceTopicWork up to its wait: abort the turn here and anywhere.          *)
StopTurns(o) ==
  /\ op[o] # None
  /\ op[o].phase = "begun"
  /\ op' = [op EXCEPT ![o].phase = "waiting"]
  /\ UNCHANGED fence
  /\ Leases!AbortRoom(Home[o], op[o].room)

(* The wait ends: no local turn, no fresh lease, and the row is still ours.  *)
Quiesced(o) ==
  /\ op[o] # None
  /\ op[o].phase = "waiting"
  /\ Quiet(Home[o], op[o].room)
  /\ IsOwned(o)
  /\ op' = [op EXCEPT ![o].phase = "exclusive"]
  /\ UNCHANGED <<fence, up, lease, turn>>

(* A non-preemptive compaction aborts nothing: right after it acquired the   *)
(* fence it goes on if the topic is quiet, and gives up otherwise.           *)
FoundQuiet(o) ==
  /\ op[o] # None
  /\ op[o].phase = "begun"
  /\ Quiet(Home[o], op[o].room)
  /\ IsOwned(o)
  /\ op' = [op EXCEPT ![o].phase = "exclusive"]
  /\ UNCHANGED <<fence, up, lease, turn>>

(* An explicit force-delete goes on although the turn did not stop in time.  *)
ForceDelete(o) ==
  /\ op[o] # None
  /\ op[o].phase = "waiting"
  /\ IsOwned(o)
  /\ op' = [op EXCEPT ![o].phase = "forced"]
  /\ UNCHANGED <<fence, up, lease, turn>>

(* After the memory archive: re-check ownership, then purge provider logs.   *)
Destroy(o) ==
  /\ op[o] # None
  /\ op[o].phase = "exclusive"
  /\ IsOwned(o)
  /\ op' = [op EXCEPT ![o].phase = "destroying"]
  /\ UNCHANGED <<fence, up, lease, turn>>

(* Mutant: the row is cleared by topic id alone. *)
FinishUnscoped(o, deleteState) ==
  /\ op[o] # None
  /\ op' = [op EXCEPT ![o] = None]
  /\ fence' = [fence EXCEPT ![op[o].room] =
                 [epoch |-> @.epoch, owner |-> None, age |-> 0]]
  /\ UNCHANGED leaseVars

(* finish, from whichever return, throw or finally: once the heartbeat saw   *)
(* the row lost the handle no longer touches it.                             *)
Finish(o, deleteState) ==
  /\ op[o] # None
  /\ op' = [op EXCEPT ![o] = None]
  /\ fence' = IF IsOwned(o)
              THEN [fence EXCEPT ![op[o].room] =
                      IF deleteState THEN NoRow
                      ELSE [epoch |-> @.epoch, owner |-> None, age |-> 0]]
              ELSE fence
  /\ UNCHANGED leaseVars

(* The handle's interval: renew the row, or learn that it was taken over.    *)
FenceBeat(o) ==
  /\ op[o] # None
  /\ ~op[o].lost
  /\ IF Matches(o)
     THEN /\ fence' = [fence EXCEPT ![op[o].room].age = 0]
          /\ op' = [op EXCEPT ![o].age = 0]
     ELSE /\ op' = [op EXCEPT ![o].lost = TRUE]
          /\ UNCHANGED fence
  /\ UNCHANGED leaseVars

(* A process dies with the operations it was running; their rows stay.       *)
Crash(p) ==
  /\ op' = [o \in Op |-> IF Home[o] = p THEN None ELSE op[o]]
  /\ UNCHANGED fence
  /\ Leases!Crash(p)

Older(row) ==
  [row EXCEPT !.age = IF row.owner = None \/ @ > FenceStale THEN @ ELSE @ + 1]

(* A handle that knows it lost the row has cleared its interval.             *)
Beating(o) == op[o] # None /\ ~op[o].lost

Tick ==
  /\ \A o \in Op : Beating(o) => op[o].age < MaxFenceDelay
  /\ fence' = [r \in Room |-> Older(fence[r])]
  /\ op' = [o \in Op |-> IF Beating(o) THEN [op[o] EXCEPT !.age = @ + 1]
                         ELSE op[o]]
  /\ Leases!Tick

TurnStep ==
  /\ UNCHANGED fenceVars
  /\ \/ \E p \in Process, r \in Room : Leases!Turns(p, r)
     \/ \E p \in Process : Leases!AbortAll(p)

OpStep(o) ==
  \/ \E r \in Room : Begin(o, r)
  \/ StopTurns(o)
  \/ Quiesced(o)
  \/ FoundQuiet(o)
  \/ ForceDelete(o)
  \/ Destroy(o)
  \/ \E deleteState \in BOOLEAN : Finish(o, deleteState)
  \/ FenceBeat(o)

Next ==
  \/ TurnStep
  \/ \E o \in Op : OpStep(o)
  \/ \E p \in Process : Crash(p)
  \/ Tick

Spec == Init /\ [][Next]_vars

(* Intervals fire and clocks advance; the wait of an operation is bounded by *)
(* its deadline, so it finishes whether the turns stop or not.               *)
Fairness ==
  /\ \A p \in Process, r \in Room :
       WF_vars(UNCHANGED fenceVars /\ Leases!Monitor(p, r))
  /\ \A o \in Op :
       /\ WF_vars(FenceBeat(o))
       /\ WF_vars(\E deleteState \in BOOLEAN : Finish(o, deleteState))
  /\ WF_vars(Tick)

FairSpec == Spec /\ Fairness

-----------------------------------------------------------------------------
(* Why the fence excludes: the row of every live operation is its own, and   *)
(* no older than the operation's last heartbeat.                             *)
Guarded ==
  \A o \in Op :
    op[o] # None =>
      IsOwned(o) /\ fence[op[o].room].age <= op[o].age

(* session.ts: ownership is re-checked "so a superseded owner cannot purge a *)
(* newer session created by another process".  While an operation that found *)
(* the topic quiet passes its ownership check, and while it destroys, no     *)
(* process has a turn in flight in the room.                                 *)
WorkIsExclusive ==
  \A o \in Op, p \in Process :
    /\ op[o] # None
    /\ op[o].phase = "destroying" \/ (op[o].phase = "exclusive" /\ IsOwned(o))
    => turn[p][op[o].room] = None

(* The same sentence of session.ts, about the purge alone: when it begins, no *)
(* other process runs a turn, hence a newer session, in the topic.           *)
PurgeSparesNewSession ==
  [][\A o \in Op, p \in Process :
       /\ p # Home[o]
       /\ op[o] # None /\ op[o].phase = "exclusive"
       /\ op'[o] # None /\ op'[o].phase = "destroying"
       => turn[p][op[o].room] = None]_vars

(* A handle that outlived its fence cannot touch the next owner's row: not   *)
(* with a late heartbeat, not with the finish of its finally block.          *)
LostHandleIsHarmless ==
  [][\A o, w \in Op :
       /\ o # w
       /\ op[o] # None /\ op'[o] # op[o]
       /\ fence[op[o].room].owner = w
       => LET row == fence[op[o].room]
              new == fence'[op[o].room]
          IN  new.owner = w /\ new.epoch = row.epoch /\ new.age >= row.age]_vars

(* Two operations never both believe that they hold the topic.               *)
OneMaintainer ==
  \A o, w \in Op :
    op[o] # None /\ op[w] # None /\ op[o].room = op[w].room
      /\ op[o].phase = "destroying" /\ IsOwned(w) => o = w

(* A crash in the middle of maintenance does not close the topic for good.   *)
FenceIsReleased ==
  \A r \in Room : r \in Fenced ~> r \notin Fenced

(* The lease rules as TurnLease states them, with the fence as environment.  *)
LeaseSpec == Leases!Spec
OneTurnPerRoom == Leases!OneTurnPerRoom

(* active-rooms.ts, under the fence: a turn in flight is visible as such to   *)
(* every process, whatever operation begins or ends meanwhile.               *)
RunningIsVisible == Leases!RunningIsVisible

(* Of TurnLease, whatever the heartbeats do and under the fence: no row      *)
(* outlives the turn of a live process.                                      *)
NoOrphanLease == Leases!NoOrphanLease

(* The late `finally` of a turn that lost its room, to a turn that was       *)
(* claimed before or after maintenance, spares the row of that turn.         *)
FinishSparesReplacement == Leases!FinishSparesReplacement

(* An abort flag reaches the turn that holds the row, and a turn without its *)
(* row is told to stop.                                                      *)
AbortIsDelivered  == Leases!AbortIsDelivered
LostTurnIsStopped == Leases!LostTurnIsStopped

(* Lease table and registries implement the abstract slot of a room, takeovers *)
(* of dead owners included.                                                  *)
SlotSpec == Leases!SlotSpec
=============================================================================
