--------------------------- MODULE SelfSchedules ---------------------------
(***************************************************************************)
(* What a topic has scheduled for itself: one pending message, to be run    *)
(* when it is due and the topic is idle, and kept in the store until its    *)
(* turn has settled.                                                       *)
(*                                                                         *)
(*   storage/self-schedules.ts   the rows and their claims                  *)
(*   runtime/inbox.ts            dispatchDueSelfSchedules                   *)
(*   agents/self-config-core.ts  create, update and cancel, for the agent   *)
(*                                                                         *)
(* One topic, whose schedules are numbered as they are created.  The room   *)
(* and the memory queue of a process are those of InjectQueue, reduced to   *)
(* schedules and to whatever else occupies the room; a retry is part of its *)
(* turn.  Any process may sweep: the claims do not rely on the election of  *)
(* the session inbox.  Heartbeats of the living are timely.                 *)
(***************************************************************************)
EXTENDS Integers, SequencesExt, Selections

CONSTANTS
  Process,     \* runtime instances
  MaxMade,     \* bound: schedules
  MaxUsers,    \* bound: what people do
  MaxFaults,   \* bound: deaths, failed statements, errors of providers
  LateErrors,  \* whether a provider's error may end an aborted turn
  None         \* no row, no claim, no turn, nothing under way

ASSUME BoundAssumption == {MaxMade, MaxUsers, MaxFaults} \subseteq Nat
ASSUME LateAssumption  == LateErrors \in BOOLEAN

Schedule == 1..MaxMade

(* A row: who claimed it, None while it is pending; whether deliver_at has   *)
(* come, and whether claimed_at is within TURN_LEASE_STALE_MS.               *)
Row == [by : Process \cup {None}, due : BOOLEAN, fresh : BOOLEAN]

(* The turn in the room, of a schedule or, without one, of somebody else.    *)
Turn == [owner : Process, of : Schedule \cup {None}, stale : BOOLEAN,
         abort : {"none", "internal", "external"}, requeued : BOOLEAN]

(* A deferred inject, stale once the topic's epoch has moved on.             *)
Copy == [of : Schedule, stale : BOOLEAN]

ASSUME NoneAssumption  == None \notin Process \cup Schedule \cup Row \cup Turn

VARIABLES
  made,      \* how many schedules have been created
  row,       \* runtime_self_schedules
  agent,     \* the topic is there, with its agent
  slot,      \* the turn that holds the topic's lease
  human,     \* a user row waits
  queue,     \* queue[p]: InterSessionQueue of p
  waiter,    \* waiter[p]: the interval of waitToDrainRemoteInject is set
  at,        \* at[p]: the schedule that p has claimed and is about to start
  beating,   \* beating[p]: the schedules whose claim p keeps fresh
  up,        \* processes alive
  ended,     \* history: schedules with a turn that ended, other than by preemption
  void,      \* history: schedules cancelled, deleted or replaced
  preempted, \* history: schedules with a turn that was preempted
  users, faults   \* how many of each have happened

room    == <<slot, human, queue, waiter>>
memory  == <<at, beating>>
history == <<ended, void, preempted>>
count   == <<users, faults>>
vars    == <<made, row, agent, room, memory, up, history, count>>

UserEvent == users < MaxUsers /\ users' = users + 1 /\ UNCHANGED faults
Fault     == faults < MaxFaults /\ faults' = faults + 1 /\ UNCHANGED users

Pending(s)    == row[s] # None /\ row[s].by = None
Running(s)    == row[s] # None /\ row[s].by # None
Gone(s)       == s <= made /\ row[s] = None
Local(p)      == slot # None /\ slot.owner = p
Copies(p)     == {queue[p][i].of : i \in DOMAIN queue[p]}
Without(q, s) == Picked(q, {i \in DOMAIN q : q[i].of # s})
Put(q, c)     == IF \E i \in DOMAIN q : q[i].of = c.of THEN q ELSE Append(q, c)
Free(p)       == p \in up /\ at[p] = None
Begun(p, s)   == [owner |-> p, of |-> s, stale |-> FALSE, abort |-> "none",
                  requeued |-> FALSE]

TypeOK ==
  /\ made \in 0..MaxMade
  /\ row \in [Schedule -> Row \cup {None}]
  /\ agent \in BOOLEAN /\ human \in BOOLEAN
  /\ slot \in Turn \cup {None}
  /\ queue \in [Process -> Seq(Copy)] /\ waiter \in [Process -> BOOLEAN]
  /\ at \in [Process -> Schedule \cup {None}]
  /\ beating \in [Process -> SUBSET Schedule]
  /\ up \subseteq Process
  /\ {ended, void, preempted} \subseteq SUBSET Schedule
  /\ users \in 0..MaxUsers /\ faults \in 0..MaxFaults

Init ==
  /\ made = 0
  /\ row = [s \in Schedule |-> None]
  /\ agent = TRUE
  /\ slot = None /\ human = FALSE
  /\ queue = [p \in Process |-> <<>>]
  /\ waiter = [p \in Process |-> FALSE]
  /\ at = [p \in Process |-> None]
  /\ beating = [p \in Process |-> {}]
  /\ up = Process
  /\ ended = {} /\ void = {} /\ preempted = {}
  /\ users = 0 /\ faults = 0

-----------------------------------------------------------------------------
(* The rows. *)

(* createPendingSelfSchedule, called by the agent in some turn of the topic.  *)
Create ==
  /\ slot # None
  /\ agent
  /\ made < MaxMade
  /\ ~\E s \in Schedule : Pending(s)
  /\ made' = made + 1
  /\ row' = [row EXCEPT ![made + 1] = [by |-> None, due |-> FALSE, fresh |-> FALSE]]
  /\ UNCHANGED <<agent, room, memory, up, history, count>>

(* updatePendingSelfSchedule, with another time.                             *)
Update(s) ==
  /\ Pending(s)
  /\ UserEvent
  /\ row' = [row EXCEPT ![s].due = FALSE]
  /\ UNCHANGED <<made, agent, room, memory, up, history>>

(* cancelPendingSelfSchedule.                                                *)
Cancel(s) ==
  /\ Pending(s)
  /\ UserEvent
  /\ row' = [row EXCEPT ![s] = None]
  /\ void' = void \cup {s}
  /\ UNCHANGED <<made, agent, room, memory, up, ended, preempted>>

FallsDue(s) ==
  /\ Pending(s)
  /\ ~row[s].due
  /\ row' = [row EXCEPT ![s].due = TRUE]
  /\ UNCHANGED <<made, agent, room, memory, up, history, count>>

(* Nobody renews claimed_at any more.                                       *)
ClaimAges(s) ==
  /\ Running(s)
  /\ row[s].fresh
  /\ row[s].by \in up => at[row[s].by] # s /\ s \notin beating[row[s].by]
  /\ row' = [row EXCEPT ![s].fresh = FALSE]
  /\ UNCHANGED <<made, agent, room, memory, up, history, count>>

(* Mutant: the claim of a process that died is never taken over. *)
ClaimableOnce(s) == Pending(s) /\ row[s].due

Claimable(s) == IF Running(s) THEN ~row[s].fresh ELSE row[s] # None /\ row[s].due

(* claimNextDueSelfSchedule, while the topic is idle: interrupted runs first. *)
Claim(p) ==
  /\ Free(p)
  /\ slot = None
  /\ \E s \in Schedule :
       /\ Claimable(s)
       /\ Pending(s) => ~\E o \in Schedule : Running(o) /\ Claimable(o)
       /\ row' = [row EXCEPT ![s].by = p, ![s].fresh = TRUE]
       /\ at' = [at EXCEPT ![p] = s]
  /\ UNCHANGED <<made, agent, room, beating, up, history, count>>

(* Mutant: the row goes whether a newer one is pending or not. *)
ReleasedDropping(p, s) ==
  LET mine  == row[s] # None /\ row[s].by = p
      newer == \E o \in Schedule : Pending(o)
  IN  /\ row' = IF mine THEN [row EXCEPT ![s] = None] ELSE row
      /\ void' = IF mine /\ newer THEN void \cup {s} ELSE void

(* releaseSelfScheduleClaim: pending again, unless a newer one is.           *)
Released(p, s) ==
  LET mine  == row[s] # None /\ row[s].by = p
      newer == \E o \in Schedule : Pending(o)
  IN  /\ row' = IF ~mine THEN row
                ELSE IF newer THEN [row EXCEPT ![s] = None]
                ELSE [row EXCEPT ![s].by = None, ![s].fresh = FALSE]
      /\ void' = IF mine /\ newer THEN void \cup {s} ELSE void

(* completeSelfSchedule by the owner of the claim.                           *)
Completed(p, S) ==
  [s \in Schedule |-> IF s \in S /\ row[s] # None /\ row[s].by = p THEN None ELSE row[s]]

-----------------------------------------------------------------------------
(* The room. *)

(* startAiTurn for the head of p's queue: one that is stale, or whose topic   *)
(* has no agent any more, is over, any other runs.                           *)
Dropped(c)    == c.stale \/ ~agent
Foremost(p) == Head(queue[p])
Resumed(p)    == IF queue[p] # <<>> /\ ~Dropped(Foremost(p)) THEN Begun(p, Foremost(p).of) ELSE None
Refused(p)    == IF queue[p] # <<>> /\ Dropped(Foremost(p)) THEN {Foremost(p).of} ELSE {}
Drained(p)    == IF queue[p] # <<>> THEN Tail(queue[p]) ELSE queue[p]

(* The sweep goes on with the schedule it has claimed.  Without the agent it  *)
(* is dropped, and counts as ended; in a room that is busy by now it is put   *)
(* back.                                                                     *)
Dispatch(p) ==
  /\ p \in up
  /\ at[p] # None
  /\ LET s == at[p] IN
     /\ CASE ~agent ->
               /\ row' = Completed(p, {s}) /\ ended' = ended \cup {s}
               /\ UNCHANGED <<slot, waiter, beating, void>>
          [] agent /\ slot # None ->
               /\ Released(p, s)
               /\ waiter' = [waiter EXCEPT ![p] = @ \/ slot.owner # p]
               /\ UNCHANGED <<slot, beating, ended>>
          [] agent /\ slot = None ->
               /\ slot' = Begun(p, s)
               /\ beating' = IF row[s] # None /\ row[s].by = p
                             THEN [beating EXCEPT ![p] = @ \cup {s}] ELSE beating
               /\ UNCHANGED <<row, waiter, ended, void>>
  /\ at' = [at EXCEPT ![p] = None]
  /\ UNCHANGED <<made, agent, human, queue, up, preempted, count>>

(* The trigger throws, and the sweep with it.                                *)
DispatchFails(p) ==
  /\ p \in up
  /\ at[p] # None
  /\ Fault
  /\ at' = [at EXCEPT ![p] = None]
  /\ UNCHANGED <<made, row, agent, room, beating, up, history>>

(* A user message for a room that this process does not run.                 *)
UserMessage ==
  /\ UserEvent
  /\ human' = TRUE
  /\ UNCHANGED <<made, row, agent, slot, queue, waiter, memory, up, history>>

(* A user message where the turn of a schedule runs: a copy is queued, unless *)
(* one is, and the turn is aborted.                                          *)
Preempt(p) ==
  /\ Free(p)
  /\ Local(p) /\ slot.of # None
  /\ UserEvent
  /\ LET q == Put(queue[p], [of |-> slot.of, stale |-> slot.stale])
     IN  /\ queue' = [queue EXCEPT ![p] = q]
         /\ slot' = [slot EXCEPT !.abort = "internal", !.requeued = (q # queue[p])]
  /\ human' = TRUE
  /\ preempted' = preempted \cup {slot.of}
  /\ UNCHANGED <<made, row, agent, waiter, memory, up, ended, void>>

(* The durable worker of p starts the user turn that waits.                  *)
UserTakes(p) ==
  /\ Free(p)
  /\ human /\ slot = None
  /\ human' = FALSE
  /\ slot' = Begun(p, None)
  /\ UNCHANGED <<made, row, agent, queue, waiter, memory, up, history, count>>

(* onSettled of the schedules S of p that have come to their end.            *)
Settled(p, S) ==
  /\ row' = Completed(p, S)
  /\ beating' = [beating EXCEPT ![p] = @ \ S]
  /\ ended' = ended \cup S

(* wasLocallyRequeuedAfterUserPreemption: the copy goes on for the turn.     *)
Requeued(failed) == ~failed /\ slot.abort = "internal" /\ slot.requeued

(* streamAgentEvents' finally drains the queue, unless a user row waits;      *)
(* then the turn is settled.  An aborted turn may end in an error.           *)
TurnEnds(p) ==
  /\ Free(p)
  /\ Local(p)
  /\ \E failed \in BOOLEAN :
       /\ IF failed THEN LateErrors /\ slot.abort # "none" /\ Fault ELSE UNCHANGED count
       /\ slot.of # None /\ slot.abort = "internal" /\ ~failed => Requeued(failed)
       /\ LET over == IF slot.of = None \/ Requeued(failed) THEN {} ELSE {slot.of}
          IN  Settled(p, over \cup IF human THEN {} ELSE Refused(p))
  /\ slot' = IF human THEN None ELSE Resumed(p)
  /\ queue' = IF human THEN queue ELSE [queue EXCEPT ![p] = Drained(p)]
  /\ UNCHANGED <<made, agent, human, waiter, at, up, void, preempted>>

(* Mutant: the claim is given back, the copy is kept. *)
GivesBackKeepingCopy(p) ==
  /\ Free(p)
  /\ Local(p)
  /\ slot.of # None /\ slot.abort = "internal" /\ ~slot.requeued
  /\ slot' = None
  /\ Released(p, slot.of)
  /\ beating' = [beating EXCEPT ![p] = @ \ {slot.of}]
  /\ UNCHANGED <<made, agent, human, queue, waiter, at, up, ended, preempted, count>>

(* The same for a turn that was preempted twice: the claim is given back and  *)
(* the copy is cancelled.  A user row waits, so nothing is drained.          *)
GivesBack(p) ==
  /\ Free(p)
  /\ Local(p)
  /\ slot.of # None /\ slot.abort = "internal" /\ ~slot.requeued
  /\ slot' = None
  /\ Released(p, slot.of)
  /\ beating' = [beating EXCEPT ![p] = @ \ {slot.of}]
  /\ queue' = [queue EXCEPT ![p] = Without(@, slot.of)]
  /\ UNCHANGED <<made, agent, human, waiter, at, up, ended, preempted, count>>

(* The store refuses what onSettled writes, which is logged: the row stays.   *)
SettleFails(p) ==
  /\ Free(p)
  /\ Local(p) /\ slot.of # None /\ slot.abort = "none"
  /\ queue[p] = <<>> \/ human
  /\ Fault
  /\ slot' = None
  /\ beating' = [beating EXCEPT ![p] = @ \ {slot.of}]
  /\ ended' = ended \cup {slot.of}
  /\ UNCHANGED <<made, row, agent, human, queue, waiter, at, up, void, preempted>>

(* The interval of waitToDrainRemoteInject finds the room idle.              *)
Wake(p) ==
  /\ Free(p)
  /\ waiter[p] /\ slot = None
  /\ waiter' = [waiter EXCEPT ![p] = FALSE]
  /\ slot' = Resumed(p)
  /\ queue' = [queue EXCEPT ![p] = Drained(p)]
  /\ Settled(p, Refused(p))
  /\ UNCHANGED <<made, agent, human, at, up, void, preempted, count>>

-----------------------------------------------------------------------------
Stale(q) == [i \in DOMAIN q |-> [q[i] EXCEPT !.stale = TRUE]]

Aborted == IF slot = None THEN None ELSE [slot EXCEPT !.abort = "external", !.stale = TRUE]

(* abortTurn of topic-service: the epoch moves on.                           *)
Stop ==
  /\ UserEvent
  /\ human' = FALSE
  /\ slot' = Aborted
  /\ queue' = [p \in Process |-> Stale(queue[p])]
  /\ UNCHANGED <<made, row, agent, waiter, memory, up, history>>

(* The topic loses its agent, or goes altogether, with its rows.             *)
Leave ==
  /\ agent
  /\ UserEvent
  /\ agent' = FALSE
  /\ UNCHANGED <<made, row, room, memory, up, history>>

Delete ==
  /\ agent
  /\ UserEvent
  /\ agent' = FALSE /\ human' = FALSE
  /\ slot' = Aborted
  /\ queue' = [p \in Process |-> Stale(queue[p])]
  /\ row' = [s \in Schedule |-> None]
  /\ void' = void \cup {s \in Schedule : row[s] # None}
  /\ UNCHANGED <<made, waiter, memory, up, ended, preempted>>

(* A process dies; its lease expires.                                       *)
Crash(p) ==
  /\ p \in up
  /\ Fault
  /\ up' = up \ {p}
  /\ slot' = IF Local(p) THEN None ELSE slot
  /\ queue' = [queue EXCEPT ![p] = <<>>]
  /\ waiter' = [waiter EXCEPT ![p] = FALSE]
  /\ at' = [at EXCEPT ![p] = None]
  /\ beating' = [beating EXCEPT ![p] = {}]
  /\ UNCHANGED <<made, row, agent, human, history>>

Next ==
  \/ Create
  \/ \E s \in Schedule : Update(s) \/ Cancel(s) \/ FallsDue(s) \/ ClaimAges(s)
  \/ \E p \in Process :
       \/ Claim(p) \/ Dispatch(p) \/ DispatchFails(p) \/ Preempt(p) \/ UserTakes(p)
       \/ TurnEnds(p) \/ GivesBack(p) \/ SettleFails(p) \/ Wake(p) \/ Crash(p)
  \/ UserMessage \/ Stop \/ Leave \/ Delete

Spec == Init /\ [][Next]_vars

(* Some process sweeps; turns end; time passes; a worker and a waiter poll.   *)
Fairness ==
  /\ WF_vars(\E p \in Process : Claim(p))
  /\ WF_vars(\E p \in Process : UserTakes(p))
  /\ \A p \in Process :
       /\ WF_vars(Dispatch(p)) /\ WF_vars(Wake(p))
       /\ WF_vars(TurnEnds(p)) /\ WF_vars(GivesBack(p))
  /\ \A s \in Schedule : WF_vars(FallsDue(s)) /\ WF_vars(ClaimAges(s))

FairSpec == Spec /\ Fairness

-----------------------------------------------------------------------------
(* p runs schedule s, or is about to run it once more.                       *)
Runs(p, s)     == Local(p) /\ slot.of = s /\ slot.abort = "none"
Repeats(p, s)  == \E i \in DOMAIN queue[p] : queue[p][i] = [of |-> s, stale |-> FALSE]

(* Whatever was preempted, repeated, put back, cancelled or taken over from a *)
(* process that died: nobody runs, or will run from memory, a schedule whose  *)
(* row is not his, so that no two processes ever do the same work and what    *)
(* has been cancelled or replaced is not done.                              *)
RunsAreClaimed ==
  \A p \in Process, s \in Schedule :
    (agent /\ (Runs(p, s) \/ Repeats(p, s))) => row[s] # None /\ row[s].by = p

(* A schedule leaves the store only when a turn of it has ended, other than   *)
(* by preemption, when the topic had no agent to run it, or when somebody     *)
(* cancelled or replaced it: no crash, busy room or preemption makes the      *)
(* topic forget it.                                                          *)
NothingIsForgotten == \A s \in Schedule : Gone(s) => s \in ended \cup void

(* A copy in the memory of p that nothing in p will take up.                 *)
Orphaned(p) == queue[p] # <<>> /\ ~Local(p) /\ ~waiter[p]

(* Every schedule comes to its end, through crashes too, as long as a process *)
(* lives and no preempted one is left in the memory of a process that gets    *)
(* no further turn: its claim would be kept fresh for ever.                  *)
EveryScheduleEnds ==
  (/\ <>[](up # {})
   /\ []<>(\A p \in Process : ~Orphaned(p)))
    => \A s \in Schedule : (s <= made) ~> (s \in ended \cup void)

(* inbox.ts: "restore the durable schedule instead; a newer pending schedule  *)
(* created by this run wins if one already exists": a schedule that was       *)
(* preempted never runs again while a newer one is pending.                  *)
SuccessorWins ==
  [][\A p \in Process, s \in preempted :
       Runs(p, s)' /\ ~(Local(p) /\ slot.of = s) => ~\E o \in Schedule : o > s /\ Pending(o)]_vars
=============================================================================
