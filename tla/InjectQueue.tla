---------------------------- MODULE InjectQueue ----------------------------
(***************************************************************************)
(* The in-memory queue of injected turns of one topic: what other sessions *)
(* tell or ask it, and the answers to what it asked.  An inject runs when   *)
(* the room is idle; one that finds it busy waits in the memory of its own  *)
(* process until something wakes that process up.                          *)
(*                                                                         *)
(*   query/active-rooms.ts          the queue, its merging, the batcher     *)
(*   runtime/turn-runner.ts         startAiTurn, its deferrals, its waiter  *)
(*   runtime/turn-event-stream.ts   the end of a turn and its drain         *)
(*                                                                         *)
(* The room is the slot that TurnLease implements; the durable queue of     *)
(* user turns (UserTurns) is reduced to whether a row waits.  An answer may *)
(* merge with the answers next to it, any other inject runs alone.          *)
(***************************************************************************)
EXTENDS Integers, SequencesExt, Selections

CONSTANTS
  Process,      \* runtime instances
  Inject,       \* injects, by their request id
  Answers,      \* those that answer an ask of this topic
  Threaded,     \* those whose ask came from a thread of the topic
  MaxUsers,     \* bound: user messages
  MaxFaults,    \* bound: stops, resets, expired sessions, late errors, deaths
  None          \* nothing runs; no epoch yet

ASSUME SetsAssumption   == Threaded \subseteq Answers /\ Answers \subseteq Inject
ASSUME BoundsAssumption == MaxUsers \in Nat /\ MaxFaults \in Nat

Epoch == 0..MaxFaults

(* What startAiTurn is called with: the injects merged into one turn, none   *)
(* for a user turn, the epoch in which they were accepted, and whether it    *)
(* carries a threadRootId.                                                  *)
Entry == [work : Seq(Inject), epoch : Epoch \cup {None}, thread : BOOLEAN]

Turn == [owner : Process, work : Seq(Inject), epoch : Epoch, thread : BOOLEAN,
         abort : {"none", "internal", "external"}, requeued : BOOLEAN]

ASSUME NoneAssumption == None \notin Process \cup Epoch \cup Entry \cup Turn

VARIABLES
  slot,      \* the turn in the room
  row,       \* a user message waits in the durable queue
  queue,     \* queue[p]: InterSessionQueue of p, for this topic
  timer,     \* timer[p]: the batcher's timeout is set
  waiter,    \* waiter[p]: the interval of waitToDrainRemoteInject is set
  retry,     \* retry[p]: the turn p is about to start again
  epoch,     \* the topic's epoch
  fence,     \* the topic is under maintenance
  up,        \* processes alive
  home,      \* home[m]: the process that was given m, None before
  since,     \* history: the epoch in which startAiTurn first took m
  over,      \* history: the injects whose end was reported
  users, faults    \* how many of each have happened

vars == <<slot, row, queue, timer, waiter, retry, epoch, fence, up, home,
          since, over, users, faults>>

UserEvent == users < MaxUsers /\ users' = users + 1 /\ UNCHANGED faults
Fault     == faults < MaxFaults /\ faults' = faults + 1 /\ UNCHANGED users

-----------------------------------------------------------------------------
(* The queue of active-rooms.ts. *)

(* enqueue: an entry whose request id, here its work, waits is not added.    *)
Put(q, e) == IF \E i \in DOMAIN q : q[i].work = e.work THEN q ELSE Append(q, e)

(* Mutant: entries of different epochs merge. *)
MergeableAnyEpoch(e, f) == ToSet(e.work) \cup ToSet(f.work) \subseteq Answers

Mergeable(e, f) ==
  /\ ToSet(e.work) \cup ToSet(f.work) \subseteq Answers
  /\ e.epoch = f.epoch
  /\ e.thread = f.thread

(* dequeueAll: the longest prefix that merges with the head.                 *)
Prefix(q) ==
  CHOOSE n \in 1..Len(q) :
    /\ \A i \in 2..n : Mergeable(q[1], q[i])
    /\ n < Len(q) => ~Mergeable(q[1], q[n + 1])

Batch(q) == [q[1] EXCEPT !.work = Joined([i \in 1..Prefix(q) |-> q[i].work])]
Rest(q)  == SubSeq(q, Prefix(q) + 1, Len(q))

Injects(q) == UNION {ToSet(q[i].work) : i \in DOMAIN q}

-----------------------------------------------------------------------------
(* startAiTurn for an inject, in process p, which finds the slot s and leaves *)
(* the rest of its queue q: dropped if the topic's epoch has moved on, run in *)
(* an idle room, else deferred.                                              *)
Stale(e)    == e.epoch \notin {None, epoch}
Refused(e)  == IF Stale(e) THEN ToSet(e.work) ELSE {}
Idle(s)     == s = None /\ ~fence
Local(p, s) == s # None /\ s.owner = p

(* Mutant: what is deferred forgets the epoch it was accepted in. *)
DeferredAfresh(e) == [e EXCEPT !.epoch = None]

(* The parameters of a deferral name its epoch, but no thread.               *)
Deferred(e) == [e EXCEPT !.epoch = epoch, !.thread = FALSE]

Run(p, e) == [owner |-> p, work |-> e.work, epoch |-> epoch, thread |-> e.thread,
              abort |-> "none", requeued |-> FALSE]

Start(p, e, q, s) ==
  /\ slot'  = IF ~Stale(e) /\ Idle(s) THEN Run(p, e) ELSE s
  /\ queue' = [queue EXCEPT ![p] = IF Stale(e) \/ Idle(s) THEN q ELSE Put(q, Deferred(e))]
  /\ since' = [m \in Inject |-> IF m \in ToSet(e.work) /\ since[m] = None
                                THEN epoch ELSE since[m]]

(* Mutant: a deferral behind another process's turn waits for nobody. *)
WaitsNever(p, e, q, s) == waiter[p]

(* Behind another process's turn, or a fence, p polls until the room is idle. *)
Waits(p, e, q, s) ==
  \/ waiter[p]
  \/ ~Stale(e) /\ ~Idle(s) /\ ~Local(p, s) /\ Put(q, Deferred(e)) # q

(* takeDeferredInject and redispatchInject, once the injects ms have ended.  *)
Drain(p, s, ms) ==
  IF queue[p] = <<>>
  THEN /\ slot' = s /\ over' = over \cup ms
       /\ UNCHANGED <<queue, waiter, since>>
  ELSE LET e == Batch(queue[p])
       IN  /\ Start(p, e, Rest(queue[p]), s)
           /\ waiter' = [waiter EXCEPT ![p] = Waits(p, e, Rest(queue[p]), s)]
           /\ over' = over \cup ms \cup Refused(e)

(* Between the end of an attempt and its retry p does nothing else.          *)
Free(p) == p \in up /\ retry[p] = None

TypeOK ==
  /\ slot \in Turn \cup {None}
  /\ row \in BOOLEAN /\ fence \in BOOLEAN
  /\ queue \in [Process -> Seq(Entry)]
  /\ {timer, waiter} \subseteq [Process -> BOOLEAN]
  /\ retry \in [Process -> Entry \cup {None}]
  /\ epoch \in Epoch
  /\ up \subseteq Process
  /\ home \in [Inject -> Process \cup {None}]
  /\ since \in [Inject -> Epoch \cup {None}]
  /\ over \subseteq Inject
  /\ users \in 0..MaxUsers /\ faults \in 0..MaxFaults

Init ==
  /\ slot = None /\ row = FALSE
  /\ queue = [p \in Process |-> <<>>]
  /\ timer = [p \in Process |-> FALSE]
  /\ waiter = [p \in Process |-> FALSE]
  /\ retry = [p \in Process |-> None]
  /\ epoch = 0 /\ fence = FALSE /\ up = Process
  /\ home = [m \in Inject |-> None]
  /\ since = [m \in Inject |-> None]
  /\ over = {}
  /\ users = 0 /\ faults = 0

-----------------------------------------------------------------------------
(* triggerTopicAiTurn: the session inbox hands p a tell or an ask.           *)
Tell(p, m) ==
  /\ Free(p)
  /\ m \notin Answers /\ home[m] = None
  /\ home' = [home EXCEPT ![m] = p]
  /\ LET e == [work |-> <<m>>, epoch |-> None, thread |-> FALSE]
     IN  /\ Start(p, e, queue[p], slot)
         /\ waiter' = [waiter EXCEPT ![p] = Waits(p, e, queue[p], slot)]
  /\ UNCHANGED <<row, timer, retry, epoch, fence, up, over, users, faults>>

(* deliverAskCallbackToCaller: an answer waits a moment for its siblings.    *)
Answer(p, m) ==
  /\ Free(p)
  /\ m \in Answers /\ home[m] = None
  /\ home' = [home EXCEPT ![m] = p]
  /\ queue' = [queue EXCEPT ![p] = Put(@, [work |-> <<m>>, epoch |-> None, thread |-> (m \in Threaded)])]
  /\ timer' = [timer EXCEPT ![p] = TRUE]
  /\ UNCHANGED <<slot, row, waiter, retry, epoch, fence, up, since, over, users, faults>>

(* The batcher's timeout: a turn of this process drains the queue itself.    *)
Timeout(p) ==
  /\ Free(p)
  /\ timer[p]
  /\ timer' = [timer EXCEPT ![p] = FALSE]
  /\ IF Local(p, slot) THEN UNCHANGED <<slot, queue, waiter, over, since>>
                       ELSE Drain(p, slot, {})
  /\ UNCHANGED <<row, retry, epoch, fence, up, home, users, faults>>

(* The interval of waitToDrainRemoteInject finds the room idle.              *)
Wait(p) ==
  /\ Free(p)
  /\ waiter[p]
  /\ Idle(slot)
  /\ waiter' = [waiter EXCEPT ![p] = FALSE]
  /\ IF queue[p] = <<>> THEN UNCHANGED <<slot, queue, over, since>>
     ELSE LET e == Batch(queue[p])
          IN  /\ Start(p, e, Rest(queue[p]), slot)
              /\ over' = over \cup Refused(e)
  /\ UNCHANGED <<row, timer, retry, epoch, fence, up, home, users, faults>>

(* What is kept of the turn in the slot to run it again: again no thread.    *)
Replay == [work |-> slot.work, epoch |-> slot.epoch, thread |-> FALSE]

(* A user message for a busy room becomes a row.                             *)
UserMessage ==
  /\ UserEvent
  /\ row' = TRUE
  /\ UNCHANGED <<slot, queue, timer, waiter, retry, epoch, fence, up, home, since, over>>

(* Mutant: the preempted inject is not queued again. *)
PreemptForgetting(p) ==
  /\ Free(p)
  /\ Local(p, slot) /\ slot.work # <<>>
  /\ UserEvent
  /\ slot' = [slot EXCEPT !.abort = "internal", !.requeued = TRUE]
  /\ row' = TRUE
  /\ UNCHANGED <<queue, timer, waiter, retry, epoch, fence, up, home, since, over>>

(* startAiTurn with a user message, where an inject runs: the inject goes to *)
(* the end of the queue and its turn is aborted.  A second message finds it   *)
(* queued already and takes the mark of the first one away.                  *)
Preempt(p) ==
  /\ Free(p)
  /\ Local(p, slot) /\ slot.work # <<>>
  /\ UserEvent
  /\ LET q == Put(queue[p], Replay)
     IN  /\ queue' = [queue EXCEPT ![p] = q]
         /\ slot' = [slot EXCEPT !.abort = "internal", !.requeued = (q # queue[p])]
  /\ row' = TRUE
  /\ UNCHANGED <<timer, waiter, retry, epoch, fence, up, home, since, over>>

(* The durable worker of p starts the user turn that waits.                  *)
Work(p) ==
  /\ Free(p)
  /\ row /\ Idle(slot)
  /\ row' = FALSE
  /\ slot' = Run(p, [work |-> <<>>, epoch |-> epoch, thread |-> FALSE])
  /\ UNCHANGED <<queue, timer, waiter, retry, epoch, fence, up, home, since, over, users, faults>>

(* An aborted turn that waits in the queue again is not at its end.          *)
Settled(failed) ==
  IF ~failed /\ slot.abort = "internal" /\ slot.requeued THEN {} ELSE ToSet(slot.work)

(* Mutant: the end of a turn drains nothing. *)
TurnEndsUndrained(p) ==
  /\ Free(p)
  /\ Local(p, slot)
  /\ slot' = None
  /\ over' = over \cup Settled(FALSE)
  /\ UNCHANGED <<row, queue, timer, waiter, retry, epoch, fence, up, home, since, users, faults>>

(* streamAgentEvents' finally: the slot is cleared, the next batch starts,    *)
(* unless a user row waits; then the turn is settled.  An aborted turn may    *)
(* end with the provider's error instead.                                    *)
TurnEnds(p) ==
  /\ Free(p)
  /\ Local(p, slot)
  /\ \E failed \in BOOLEAN :
       /\ IF failed THEN slot.abort # "none" /\ Fault ELSE UNCHANGED <<users, faults>>
       /\ IF row THEN /\ slot' = None
                      /\ over' = over \cup Settled(failed)
                      /\ UNCHANGED <<queue, waiter, since>>
                 ELSE Drain(p, None, Settled(failed))
  /\ UNCHANGED <<row, timer, retry, epoch, fence, up, home>>

(* The provider's session has expired, or answered nothing: no drain, and    *)
(* whatever the abort was, the same turn starts again.                       *)
Expire(p) ==
  /\ Free(p)
  /\ Local(p, slot)
  /\ Fault
  /\ slot' = None
  /\ retry' = [retry EXCEPT ![p] = Replay]
  /\ UNCHANGED <<row, queue, timer, waiter, epoch, fence, up, home, since, over>>

(* The retry, in the room as it is now; a user turn goes back to its row.    *)
Retry(p) ==
  /\ p \in up
  /\ retry[p] # None
  /\ retry' = [retry EXCEPT ![p] = None]
  /\ IF retry[p].work # <<>>
     THEN /\ Start(p, retry[p], queue[p], slot)
          /\ waiter' = [waiter EXCEPT ![p] = Waits(p, retry[p], queue[p], slot)]
          /\ over' = over \cup Refused(retry[p])
          /\ UNCHANGED row
     ELSE /\ slot' = IF ~Stale(retry[p]) /\ Idle(slot) THEN Run(p, retry[p]) ELSE slot
          /\ row' = (row \/ ~(Stale(retry[p]) \/ Idle(slot)))
          /\ UNCHANGED <<queue, waiter, over, since>>
  /\ UNCHANGED <<timer, epoch, fence, up, home, users, faults>>

-----------------------------------------------------------------------------
Aborted == IF slot = None THEN None ELSE [slot EXCEPT !.abort = "external"]

(* abortTurn of topic-service: rows and queued injects of the old epoch are   *)
(* void; the injects are found out when they come up.  Under maintenance the *)
(* turn is aborted, no more.                                                *)
Stop ==
  /\ Fault
  /\ epoch' = IF fence THEN epoch ELSE epoch + 1
  /\ row' = (row /\ fence)
  /\ slot' = Aborted
  /\ UNCHANGED <<queue, timer, waiter, retry, fence, up, home, since, over>>

(* drop: what waits in p is reported as not run.                             *)
Drop(p) ==
  /\ queue' = [queue EXCEPT ![p] = <<>>]
  /\ over' = over \cup Injects(queue[p])

(* handleAbortEntry, where the session inbox is led: the queue goes, without a *)
(* new epoch, and the turn too, unless it began after the abort was issued.   *)
AbortEntry(p) ==
  /\ Free(p)
  /\ Fault
  /\ Drop(p)
  /\ slot' \in {slot, Aborted}
  /\ UNCHANGED <<row, timer, waiter, retry, epoch, fence, up, home, since>>

(* fenceTopicWork, at a reset or a delete.                                   *)
Reset(p) ==
  /\ Free(p)
  /\ ~fence
  /\ Fault
  /\ fence' = TRUE
  /\ epoch' = epoch + 1
  /\ row' = FALSE
  /\ Drop(p)
  /\ slot' = Aborted
  /\ UNCHANGED <<timer, waiter, retry, up, home, since>>

(* The maintenance ends, whether or not the turn stopped in time.            *)
Unfence ==
  /\ fence
  /\ fence' = FALSE
  /\ UNCHANGED <<slot, row, queue, timer, waiter, retry, epoch, up, home, since,
                 over, users, faults>>

(* A process dies with its queue; its lease expires.                         *)
Crash(p) ==
  /\ p \in up
  /\ Fault
  /\ up' = up \ {p}
  /\ slot' = IF Local(p, slot) THEN None ELSE slot
  /\ queue' = [queue EXCEPT ![p] = <<>>]
  /\ timer' = [timer EXCEPT ![p] = FALSE]
  /\ waiter' = [waiter EXCEPT ![p] = FALSE]
  /\ retry' = [retry EXCEPT ![p] = None]
  /\ UNCHANGED <<row, epoch, fence, home, since, over>>

Next ==
  \/ \E p \in Process :
       \/ \E m \in Inject : Tell(p, m) \/ Answer(p, m)
       \/ Timeout(p) \/ Wait(p) \/ Preempt(p) \/ Work(p)
       \/ TurnEnds(p) \/ Expire(p) \/ Retry(p)
       \/ AbortEntry(p) \/ Reset(p) \/ Crash(p)
  \/ UserMessage \/ Stop \/ Unfence

Spec == Init /\ [][Next]_vars

(* Timers fire, turns end, a fence comes down, a worker polls.               *)
Fairness ==
  /\ \A p \in Process :
       /\ WF_vars(Timeout(p)) /\ WF_vars(Wait(p)) /\ WF_vars(Work(p))
       /\ WF_vars(TurnEnds(p)) /\ WF_vars(Retry(p))
  /\ WF_vars(Unfence)

FairSpec == Spec /\ Fairness

-----------------------------------------------------------------------------
Queued(p, m)  == m \in Injects(queue[p])
Running(p, m) == Local(p, slot) /\ m \in ToSet(slot.work)
Again(p, m)   == retry[p] # None /\ m \in ToSet(retry[p].work)

(* "re-queue it so the inter-session work isn't lost": however turns are     *)
(* deferred, merged, preempted, retried, stopped and reset, an inject is     *)
(* queued, running or about to run again in the process it was given to,     *)
(* until its end has been reported; only the death of that process loses it. *)
(* None waits twice, although a preempted turn and a repeated delivery both  *)
(* queue what may be queued already.                                        *)
AcceptedIsKept ==
  /\ \A m \in Inject :
       \/ home[m] = None
       \/ home[m] \notin up
       \/ m \in over
       \/ Queued(home[m], m) \/ Running(home[m], m) \/ Again(home[m], m)
  /\ \A p \in Process : \A i, j \in DOMAIN queue[p] :
       i # j => ToSet(queue[p][i].work) \cap ToSet(queue[p][j].work) = {}

(* "dropped work queued before topic reset": an inject that startAiTurn took  *)
(* before a stop or a reset never starts after it, although it may since     *)
(* have been deferred, merged, preempted or retried.                         *)
StoppedNeverStarts ==
  [][\A p \in Process, m \in Inject :
       ~Running(p, m) /\ Running(p, m)' => since'[m] = epoch']_vars

(* Something in p will wake its queue up.                                    *)
Attended(p) ==
  queue[p] = <<>> \/ Local(p, slot) \/ timer[p] \/ waiter[p] \/ retry[p] # None

(* The queue of a process loses its wake-up in three ways only: the end of   *)
(* its turn leaves the queue to a waiting user message, whoever takes that;  *)
(* a batch refused as stale uses the wake-up up; a retry does not start.     *)
WakeUpIsKept ==
  [][\A p \in Process :
       Attended(p) /\ ~Attended(p)' =>
         \/ row /\ Local(p, slot)
         \/ \E e \in ToSet(queue[p]) : Stale(e)
         \/ retry[p] # None]_vars

(* Every inject comes to its end, as long as its process lives, its queue    *)
(* keeps a wake-up, and users do not fill the room for ever.                 *)
EveryInjectEnds ==
  \A m \in Inject :
    [](home[m] # None => home[m] \in up /\ Attended(home[m]))
      => (home[m] # None ~> m \in over)

(* turn-event-stream.ts: "leave it queued - that turn's finally will drain   *)
(* it when it completes".                                                    *)
ReplacementDrains ==
  \A m \in Inject, p \in Process : Queued(p, m) ~> ~Queued(p, m)

(* active-rooms.ts: "Thread of this topic to answer in, e.g. an ask raised   *)
(* from a thread".                                                          *)
AnsweredInThread ==
  \A m \in Threaded, p \in Process : Running(p, m) => slot.thread
=============================================================================
