---------------------------- MODULE SessionInbox ----------------------------
(***************************************************************************)
(* The session inbox: rows that MCP tools and adapters write for a topic,  *)
(* and the elected process that hands them to the turn runner.             *)
(*                                                                         *)
(*   storage/session-inbox.ts   the rows: pending, or processing by a claim *)
(*   runtime/inbox.ts           election, flush, the worker of a topic      *)
(*                                                                         *)
(* One topic, because workers of different topics share only the election. *)
(* The processes of RoleLease compete for the role "worker:session-inbox". *)
(* A step is what one process does up to the next await, SQL statement of   *)
(* its own, or timer; everything between two of those is one action.       *)
(***************************************************************************)
EXTENDS RoleLease, FiniteSets, SequencesExt

CONSTANTS
  Message,    \* inbox rows, numbered by their sequence
  Limit,      \* rows a claim takes at most
  MaxFaults   \* bound: how often a leader's heartbeat is late or cannot be
              \* written, or a handler, or giving its batch back, throws

ASSUME ProcessAssumption == {"unsent", "pending", "gone"} \cap Process = {}
ASSUME MessageAssumption == Message \subseteq Nat
ASSUME LimitAssumption   == Limit \in Nat \ {0}
ASSUME FaultAssumption   == MaxFaults \in Nat

VARIABLES
  started,    \* started[p]: the worker of p takes part in the election
  open,       \* the topic exists
  claim,      \* claim[m]: unsent, pending, the claiming process, or gone
  flushing,   \* flushing[p]: a flush is between its trigger and its listing
  worker,     \* worker[p]: the batch p's worker of the topic has claimed, and
              \* what is left of it
  first,      \* the messages handlers have run for, by first time
  stranded,   \* history: a claim was left that no election will recover
  slips, throws    \* how often each fault has happened

inboxVars == <<started, open, claim, flushing, worker, first, stranded>>
faults    == <<slips, throws>>
vars      == <<leaseVars, inboxVars, faults>>

Idle   == [batch |-> {}, left |-> {}]    \* about to claim its next batch
Worker == [batch : SUBSET Message, left : SUBSET Message]

ASSUME WorkerAssumption == None \notin Worker

Pending(m)   == claim[m] = "pending"
Claimed(m)   == claim[m] \in Process
Handled(m)   == m \in ToSet(first)
Mine(p, m)   == m \in worker[p].batch /\ claim[m] = p
Working(p)   == worker[p] # None /\ worker[p] # Idle

(* Another fault may happen. *)
Spare == slips + throws < MaxFaults

(* Neither a late heartbeat nor a graceful stop has disturbed the election.  *)
Calm == slips = 0 /\ \A p \in Process : started[p]

TypeOK ==
  /\ LeaseTypeOK
  /\ started \in [Process -> BOOLEAN]
  /\ open \in BOOLEAN
  /\ claim \in [Message -> {"unsent", "pending", "gone"} \cup Process]
  /\ flushing \in [Process -> BOOLEAN]
  /\ worker \in [Process -> Worker \cup {None}]
  /\ stranded \in BOOLEAN
  /\ first \in Seq(Message) /\ IsInjective(first)
  /\ slips \in Nat /\ throws \in Nat /\ slips + throws <= MaxFaults

Init ==
  /\ LeaseInit
  /\ started = [p \in Process |-> TRUE]
  /\ open = TRUE
  /\ claim = [m \in Message |-> "unsent"]
  /\ flushing = [p \in Process |-> FALSE]
  /\ worker = [p \in Process |-> None]
  /\ first = <<>>
  /\ stranded = FALSE
  /\ slips = 0 /\ throws = 0

-----------------------------------------------------------------------------
(* enqueueSessionInbox, from any process; a repeated id changes nothing.     *)
Enqueue(m) ==
  /\ open
  /\ claim[m] = "unsent"
  /\ \A k \in Message : k < m => claim[k] # "unsent"
  /\ claim' = [claim EXCEPT ![m] = "pending"]
  /\ UNCHANGED <<leaseVars, started, open, flushing, worker, first, stranded, faults>>

(* deleteSessionInboxForTopic, with the topic itself.                        *)
DeleteTopic ==
  /\ open
  /\ open' = FALSE
  /\ claim' = [m \in Message |-> IF claim[m] = "unsent" THEN "unsent" ELSE "gone"]
  /\ UNCHANGED <<leaseVars, started, flushing, worker, first, stranded, faults>>

(* Mutant: recovery throws the interrupted claims away. *)
RecoveredAway == [m \in Message |-> IF Claimed(m) THEN "gone" ELSE claim[m]]

(* Mutant: a new leader leaves interrupted claims alone. *)
RecoveredNever == claim

(* recoverSessionInboxClaims: whoever claimed a row, it is pending again.    *)
Recovered == [m \in Message |-> IF Claimed(m) THEN "pending" ELSE claim[m]]

(* tryBecomeSessionInboxLeader: the role, the recovery and the first flush.  *)
TryLead(p) ==
  /\ started[p]
  /\ Acquire(p)
  /\ claim' = Recovered
  /\ flushing' = [flushing EXCEPT ![p] = TRUE]
  /\ UNCHANGED <<started, open, worker, first, stranded, faults>>

(* The leader's interval.  Losing the role stops its triggers, not a flush   *)
(* or a worker under way.                                                   *)
Beat(p) == Monitor(p) /\ UNCHANGED <<inboxVars, faults>>

FailBeat(p) ==
  /\ Spare
  /\ HeartbeatFails(p)
  /\ slips' = slips + 1
  /\ UNCHANGED <<inboxVars, throws>>

Slipping == \E p \in Process : held[p] # None /\ held[p].quiet >= RoleStale

Pass ==
  /\ Slipping => Spare
  /\ Tick
  /\ slips' = IF Slipping THEN slips + 1 ELSE slips
  /\ UNCHANGED <<inboxVars, throws>>

(* The cleanup that startSessionInboxWorker returns, at graceful shutdown.   *)
Stop(p) ==
  /\ up[p]
  /\ started[p]
  /\ started' = [started EXCEPT ![p] = FALSE]
  /\ IF held[p] = None THEN UNCHANGED leaseVars ELSE Release(p)
  /\ UNCHANGED <<open, claim, flushing, worker, first, stranded, faults>>

Crash(p) ==
  /\ Die(p)
  /\ flushing' = [flushing EXCEPT ![p] = FALSE]
  /\ worker' = [worker EXCEPT ![p] = None]
  /\ stranded' = \/ stranded
                  \/ /\ \E m \in Message : claim[m] = p
                     /\ \E o \in Process \ {p} : held[o] # None
  /\ UNCHANGED <<started, open, claim, first, faults>>

(* A trigger of the leader's runner: its poll, its watcher, a wake signal.   *)
Trigger(p) ==
  /\ up[p]
  /\ held[p] # None
  /\ ~flushing[p]
  /\ flushing' = [flushing EXCEPT ![p] = TRUE]
  /\ UNCHANGED <<leaseVars, started, open, claim, worker, first, stranded, faults>>

(* flushSessionInbox comes to its listing, after it has awaited the schedules: *)
(* a worker starts for a topic with pending rows and none at work.           *)
Flush(p) ==
  /\ up[p]
  /\ flushing[p]
  /\ flushing' = [flushing EXCEPT ![p] = FALSE]
  /\ worker' = IF worker[p] = None /\ \E m \in Message : Pending(m)
               THEN [worker EXCEPT ![p] = Idle] ELSE worker
  /\ UNCHANGED <<leaseVars, started, open, claim, first, stranded, faults>>

(* The oldest pending rows, no more than the limit.                          *)
NextBatch(batch) ==
  LET rows == {m \in Message : Pending(m)}
  IN  /\ batch \subseteq rows
      /\ \A m \in batch, k \in rows \ batch : m < k
      /\ Cardinality(batch) <= Limit
      /\ batch # rows => Cardinality(batch) = Limit

(* claimSessionInboxBatch; the worker ends when nothing is pending.          *)
Claim(p) ==
  /\ up[p]
  /\ worker[p] = Idle
  /\ \E batch \in SUBSET Message :
       /\ NextBatch(batch)
       /\ claim' = [m \in Message |-> IF m \in batch THEN p ELSE claim[m]]
       /\ worker' = [worker EXCEPT ![p] =
                       IF batch = {} THEN None ELSE [batch |-> batch, left |-> batch]]
  /\ UNCHANGED <<leaseVars, started, open, flushing, first, stranded, faults>>

(* Mutant: no ORDER BY sequence in what a claim returns. *)
HandleUnordered(p) ==
  /\ up[p]
  /\ Working(p)
  /\ \E m \in worker[p].left :
       /\ first' = IF open /\ ~Handled(m) THEN Append(first, m) ELSE first
       /\ worker' = [worker EXCEPT ![p].left = @ \ {m}]
  /\ UNCHANGED <<leaseVars, started, open, claim, flushing, stranded, faults>>

(* processInboxLines handles the next entry; one for a topic that is gone is *)
(* dropped.                                                                 *)
HandleEntry(p) ==
  /\ up[p]
  /\ Working(p)
  /\ \E m \in worker[p].left :
       /\ \A k \in worker[p].left : m <= k
       /\ first' = IF open /\ ~Handled(m) THEN Append(first, m) ELSE first
       /\ worker' = [worker EXCEPT ![p].left = @ \ {m}]
  /\ UNCHANGED <<leaseVars, started, open, claim, flushing, stranded, faults>>

(* Mutant: the batch is completed before it has been handled. *)
CompleteEarly(p) ==
  /\ up[p]
  /\ Working(p)
  /\ claim' = [m \in Message |-> IF Mine(p, m) THEN "gone" ELSE claim[m]]
  /\ worker' = [worker EXCEPT ![p] = Idle]
  /\ UNCHANGED <<leaseVars, started, open, flushing, first, stranded, faults>>

(* completeSessionInboxBatch; the worker goes on without asking whether its  *)
(* process still leads.                                                     *)
Complete(p) ==
  /\ up[p]
  /\ Working(p)
  /\ worker[p].left = {}
  /\ claim' = [m \in Message |-> IF Mine(p, m) THEN "gone" ELSE claim[m]]
  /\ worker' = [worker EXCEPT ![p] = Idle]
  /\ UNCHANGED <<leaseVars, started, open, flushing, first, stranded, faults>>

(* Mutant: UPDATE without claimed_by. *)
GiveBackUnscoped(p) ==
  /\ up[p]
  /\ Working(p)
  /\ Spare
  /\ throws' = throws + 1
  /\ claim' = [m \in Message |->
                 IF m \in worker[p].batch /\ Claimed(m) THEN "pending"
                 ELSE claim[m]]
  /\ worker' = [worker EXCEPT ![p] = None]
  /\ UNCHANGED <<leaseVars, started, open, flushing, first, stranded, slips>>

(* A handler, or the completion, throws: releaseSessionInboxBatch, and the   *)
(* worker ends.                                                             *)
GiveBack(p) ==
  /\ up[p]
  /\ Working(p)
  /\ Spare
  /\ throws' = throws + 1
  /\ claim' = [m \in Message |-> IF Mine(p, m) THEN "pending" ELSE claim[m]]
  /\ worker' = [worker EXCEPT ![p] = None]
  /\ UNCHANGED <<leaseVars, started, open, flushing, first, stranded, slips>>

(* The release throws, too: the rows stay claimed.                           *)
Strand(p) ==
  /\ up[p]
  /\ Working(p)
  /\ Spare
  /\ throws' = throws + 1
  /\ worker' = [worker EXCEPT ![p] = None]
  /\ stranded' = TRUE
  /\ UNCHANGED <<leaseVars, started, open, claim, flushing, first, slips>>

Work(p) == Claim(p) \/ HandleEntry(p) \/ Complete(p)

Step(p) ==
  \/ TryLead(p) \/ Beat(p) \/ FailBeat(p) \/ Stop(p) \/ Crash(p)
  \/ Trigger(p) \/ Flush(p) \/ Work(p) \/ GiveBack(p) \/ Strand(p)

Next ==
  \/ \E p \in Process : Step(p)
  \/ \E m \in Message : Enqueue(m)
  \/ DeleteTopic
  \/ Pass

Spec == Init /\ [][Next]_vars

(* Timers keep firing, promises settle, time passes.  Nobody has to write,   *)
(* delete, stop, crash or fail.                                             *)
Fairness ==
  /\ \A p \in Process :
       /\ WF_vars(TryLead(p)) /\ WF_vars(Beat(p)) /\ WF_vars(Trigger(p))
       /\ WF_vars(Flush(p)) /\ WF_vars(Work(p))
  /\ WF_vars(Pass)

FairSpec == Spec /\ Fairness

-----------------------------------------------------------------------------
(* inbox.ts: "Exactly one runtime process watches and drains the shared      *)
(* inbox", "same-topic entries must be serial".  While heartbeats are timely  *)
(* and nobody stops gracefully, crashes and elections never leave two live   *)
(* workers in one topic.                                                    *)
OneWorker ==
  Calm => \A p, o \in Process : worker[p] # None /\ worker[o] # None => p = o

(* "... to preserve order": then, however often batches are given back,      *)
(* recovered and claimed again, messages reach their handlers in the order   *)
(* they were written.                                                       *)
InOrder ==
  Calm /\ ~stranded =>
    \A i, j \in 1..Len(first) : i < j => first[i] < first[j]

(* A worker that comes back late disturbs nobody: a claim leaves a process   *)
(* only by that process, by a new leader's recovery or with the topic.       *)
LateWorkerIsHarmless ==
  [][\A p \in Process, m \in Message :
       claim[m] = p /\ claim'[m] # p =>
         \/ worker'[p] # worker[p]
         \/ \E o \in Process : held[o] = None /\ held'[o] # None
         \/ ~open']_vars

(* The inbox is an at-least-once queue, whatever stalls, stops or dies.      *)
Queue == INSTANCE AtLeastOnce WITH
  held    <- {m \in Message : Pending(m) \/ Claimed(m)},
  handled <- ToSet(first)

QueueSpec == Queue!Spec

(* "a broken poll [made delivery latency] equal to no delivery at all": as   *)
(* long as one process stays up and in the election, every row that was      *)
(* written is handled and removed, or its topic is deleted.  Excluded are    *)
(* the two ways to leave a claim that no election will recover: giving a     *)
(* batch back fails as well, and a process that has lost or given up the     *)
(* role, but still works, dies.                                             *)
EveryMessageIsHandled ==
  /\ \E p \in Process : <>[](up[p] /\ started[p])
  /\ []~stranded
  => \A m \in Message : Pending(m) ~> (claim[m] = "gone")

(* session-inbox-signal.ts: "the fallback poll stays the backstop".          *)
PollIsTheBackstop ==
  (\E p \in Process : <>[](up[p] /\ started[p])) =>
    \A m \in Message : Pending(m) ~> (claim[m] = "gone")

(* session-inbox.ts: "The process lease guarantees no live previous owner    *)
(* when leadership changes."                                                *)
NoLivePreviousOwner ==
  [][\A p, o \in Process :
       held[p] = None /\ held'[p] # None /\ up[o] /\ o # p =>
         ~\E m \in Message : claim[m] = o]_vars
=============================================================================
