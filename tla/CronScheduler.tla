--------------------------- MODULE CronScheduler ---------------------------
(***************************************************************************)
(* The scheduler of the cron module: jobs that fall due, or that somebody  *)
(* asks for, become durable runs, and the runs of one topic go one by one  *)
(* through the topic's queue of injects into its turn slot.                *)
(*                                                                         *)
(*   module-cron/src/scheduler.ts   the scheduler of a node process         *)
(*   module-cron/src/store.ts       jobs, requests, runs, cancellations     *)
(*   module-cron/src/module.ts      the dispatch of a run                   *)
(*                                                                         *)
(* The scheduler is one JavaScript thread.  `todo` holds what it does       *)
(* before any other callback: the rest of the synchronous call at its       *)
(* front, microtasks at its back.  Other processes write the store between  *)
(* any two of these steps, and the process may die there.                   *)
(*                                                                         *)
(* The room is that of InjectQueue, reduced to the runs of this topic and   *)
(* to whatever else occupies it.  Sessions, edits of a job and its schedule *)
(* are left out; an owner who leaves the topic acts as a topic that loses   *)
(* its agent.                                                               *)
(***************************************************************************)
EXTENDS Integers, SequencesExt, Selections

CONSTANTS
  Job,          \* the jobs of one topic
  Script,       \* those whose prompt a script prints
  MaxRuns,      \* bound: runs
  RotateEvery,  \* CRON_CONTEXT_ROTATE_EVERY
  MaxUsers,     \* bound: what people do in the topic and to its jobs
  MaxFaults,    \* bound: shutdowns and deaths
  None,         \* nothing
  Other         \* a turn that is no run's

ASSUME JobAssumption    == IsFiniteSet(Job)
ASSUME ScriptAssumption == Script \subseteq Job
ASSUME BoundAssumption  ==
  MaxRuns \in Nat /\ RotateEvery \in Nat \ {0} /\ MaxUsers \in Nat /\ MaxFaults \in Nat

Run    == 1..MaxRuns
Open   == {"pending", "running"}
Status == Open \cup {"none", "succeeded", "ended", "interrupted", "gone"}

(* A run in memory: its dispatch is due, its script runs, its inject waits   *)
(* in the topic's queue, its turn was dispatched.                           *)
Active == [run : Run, at : {"called", "script", "queued", "sent"}]
Queued == [run : Run, late : BOOLEAN]
Turn   == [run : Run, abort : {"none", "internal", "external"}, requeued : BOOLEAN,
           stale : BOOLEAN]
Inject == [run : Run, stale : BOOLEAN]

ASSUME NoneAssumption == None # Other /\ None \notin Active /\ {None, Other} \cap Turn = {}

VARIABLES
  job,       \* job[j]: the row of the job and whether it is enabled, or due
  asked,     \* negotium_cron_requests
  kills,     \* negotium_cron_cancellations
  of,        \* of[r]: the job of run r
  status,    \* status[r]: the status of its row
  successes, \* successful_runs_since_rotation
  agent,     \* the topic has its agent
  phase,     \* the process and its scheduler
  todo,      \* what the running callback has left to do
  active,    \* activeByTopic
  queue,     \* queuedByTopic
  rotating,  \* maintenanceByTopic
  bypass,    \* rotationBypassOnce
  room,      \* the turn in the topic's slot
  human,     \* a user row waits for the slot
  waiting,   \* the topic's queue of injects
  settling,  \* turns whose end is yet to be reported, and whether they completed
  past,      \* history: runs whose turn completed, or was cut off by a crash
  users, faults   \* how many of each have happened

table  == <<job, asked, kills, of>>
rows   == <<status, successes>>
memory == <<active, queue, rotating, bypass>>
slot   == <<room, human, waiting, settling, past>>
count  == <<users, faults>>
vars   == <<table, rows, agent, phase, todo, memory, slot, count>>

UserEvent == users < MaxUsers /\ users' = users + 1 /\ UNCHANGED faults
Fault     == faults < MaxFaults /\ faults' = faults + 1 /\ UNCHANGED users

(* The steps of a callback.                                                 *)
Do(op, xs) == [i \in DOMAIN xs |-> <<op, xs[i]>>]
Drain == <<"drain", None>>
Tick  == <<"tick", None>>
Claim == <<"claim", None>>
Due(op) == phase = "up" /\ todo # <<>> /\ Head(todo)[1] = op
Arg     == Head(todo)[2]
Rest    == Tail(todo)

(* No callback runs: a timer, a promise or a provider's event may come.      *)
Quiet == phase # "down" /\ todo = <<>>
Up    == phase = "up" /\ todo = <<>>

Fallen     == {j \in Job : job[j] = "due"}
Used       == {r \in Run : status[r] # "none"}
OfJob(j)   == {r \in Used : of[r] = j}
Fits       == Len(asked) + Cardinality(Fallen) + Cardinality(Used) < MaxRuns
Live(r)    == active # None /\ active.run = r
Queue      == {queue[i].run : i \in DOMAIN queue}
Waits(r)   == \E i \in DOMAIN waiting : waiting[i].run = r
Without(r) == Picked(waiting, {i \in DOMAIN waiting : waiting[i].run # r})
Spared(rs) == Picked(queue, {i \in DOMAIN queue : queue[i].run \notin rs})
Runs(r)    == room \notin {None, Other} /\ room.run = r
Stopped(r) == IF Runs(r) THEN [room EXCEPT !.abort = "external"] ELSE room

(* finishCronRun: only an open row is closed.                               *)
Closed(S, st) == [r \in Run |-> IF r \in S /\ status[r] \in Open THEN st ELSE status[r]]

(* Mutant: nobody takes the next run. *)
FinishAlone(st, S, rest) ==
  /\ active' = None
  /\ status' = Closed(S \cup {active.run}, st)
  /\ todo' = rest
  /\ UNCHANGED <<successes, rotating>>

(* #finish: the active run is over, and the runs S with it; its row is       *)
(* closed, and the next run is taken unless the context is due to rotate.    *)
Finish(st, S, rest) ==
  LET counts == st = "succeeded" /\ status[active.run] \in Open
      rotate == counts /\ successes + 1 >= RotateEvery
  IN  /\ active' = None
      /\ status' = Closed(S \cup {active.run}, st)
      /\ successes' = IF counts /\ successes < RotateEvery THEN successes + 1 ELSE successes
      /\ rotating' = (rotating \/ rotate)
      /\ todo' = IF rotate THEN rest ELSE Append(rest, Drain)

-----------------------------------------------------------------------------
TypeOK ==
  /\ job \in [Job -> {"off", "on", "due", "gone"}]
  /\ asked \in Seq(Job) /\ kills \subseteq Job
  /\ of \in [Run -> Job \cup {None}] /\ status \in [Run -> Status]
  /\ successes \in 0..RotateEvery
  /\ active \in Active \cup {None} /\ queue \in Seq(Queued)
  /\ room \in Turn \cup {None, Other} /\ waiting \in Seq(Inject)

Init ==
  /\ job = [j \in Job |-> "on"] /\ asked = <<>> /\ kills = {}
  /\ of = [r \in Run |-> None] /\ status = [r \in Run |-> "none"] /\ successes = 0
  /\ agent = TRUE /\ phase = "down" /\ todo = <<>>
  /\ active = None /\ queue = <<>> /\ rotating = FALSE /\ bypass = FALSE
  /\ room = None /\ human = FALSE /\ waiting = <<>> /\ settling = {} /\ past = {}
  /\ users = 0 /\ faults = 0

(* Mutant: pending rows are left to whoever wrote them. *)
StartForgetting ==
  /\ phase = "down" /\ phase' = "up"
  /\ status' = Closed({r \in Run : status[r] = "running"}, "interrupted")
  /\ todo' = <<Tick>>
  /\ UNCHANGED <<table, successes, agent, memory, slot, count>>

(* Mutant: a run that was dispatched is recovered like any other. *)
StartReplaying ==
  /\ phase = "down" /\ phase' = "up"
  /\ \E o \in SetToSeqs({r \in Run : status[r] \in Open}) : todo' = Do("place", o) \o <<Tick>>
  /\ UNCHANGED <<table, rows, agent, memory, slot, count>>

(* start: runs that were dispatched are over, with an unknown outcome; those *)
(* that were not are placed again, and the first tick follows.               *)
Start ==
  /\ phase = "down" /\ phase' = "up"
  /\ status' = Closed({r \in Run : status[r] = "running"}, "interrupted")
  /\ \E o \in SetToSeqs({r \in Run : status[r] = "pending"}) : todo' = Do("place", o) \o <<Tick>>
  /\ UNCHANGED <<table, successes, agent, memory, slot, count>>

(* The interval; a tick that finds nothing is left out.                     *)
Poll ==
  /\ Up /\ (kills # {} \/ asked # <<>> \/ Fallen # {})
  /\ todo' = <<Tick>>
  /\ UNCHANGED <<table, rows, agent, phase, memory, slot, count>>

TakeKills ==
  /\ Due("tick")
  /\ \E o \in SetToSeqs(kills) : todo' = Do("cancel", o) \o <<Claim>> \o Rest
  /\ kills' = {}
  /\ UNCHANGED <<job, asked, of, rows, agent, phase, memory, slot, count>>

(* claimCronRuns: every request, then every job that is due, becomes a run.  *)
ClaimRuns ==
  /\ Due("claim")
  /\ \E o \in SetToSeqs(Fallen) :
       LET js == asked \o o
           n  == Cardinality(Used)
           rs == [i \in DOMAIN js |-> n + i]
       IN  /\ of' = [r \in Run |-> IF r - n \in DOMAIN js THEN js[r - n] ELSE of[r]]
           /\ status' = [r \in Run |-> IF r - n \in DOMAIN js THEN "pending" ELSE status[r]]
           /\ todo' = Do("place", rs) \o Rest
  /\ asked' = <<>>
  /\ job' = [j \in Job |-> IF job[j] = "due" THEN "on" ELSE job[j]]
  /\ UNCHANGED <<kills, successes, agent, phase, memory, slot, count>>

(* #enqueueOrStart.                                                         *)
PlaceDisabled ==
  /\ Due("place") /\ ~agent
  /\ status' = Closed({Arg}, "ended")
  /\ job' = [job EXCEPT ![of[Arg]] = IF @ = "gone" THEN @ ELSE "off"]
  /\ todo' = Rest
  /\ UNCHANGED <<asked, kills, of, successes, agent, phase, memory, slot, count>>

Overdue == successes >= RotateEvery /\ ~bypass

PlaceBehind ==
  /\ Due("place") /\ agent
  /\ active # None \/ rotating \/ Overdue
  /\ queue' = Append(queue, [run |-> Arg, late |-> FALSE])
  /\ rotating' = (rotating \/ active = None)
  /\ todo' = Rest
  /\ UNCHANGED <<table, rows, agent, phase, active, bypass, slot, count>>

PlaceFirst ==
  /\ Due("place") /\ agent
  /\ active = None /\ ~rotating /\ ~Overdue
  /\ bypass' = (bypass /\ successes < RotateEvery)
  /\ active' = [run |-> Arg, at |-> "called"]
  /\ todo' = Append(Rest, <<"dispatch", Arg>>)
  /\ UNCHANGED <<table, rows, agent, phase, queue, rotating, slot, count>>

(* #drainTopic, one turn of its loop.                                       *)
DrainQueue ==
  /\ Due("drain")
  /\ LET busy == active # None \/ rotating \/ queue = <<>>
         r    == Head(queue).run
         late == ~busy /\ Head(queue).late
         gone == ~busy /\ job[of[r]] = "gone"
     IN  /\ queue' = IF busy THEN queue ELSE Tail(queue)
         /\ status' = IF late THEN Closed({r}, "ended") ELSE status
         /\ todo' = IF busy THEN Rest
                    ELSE IF late \/ gone THEN todo ELSE <<<<"place", r>>>> \o Rest
  /\ UNCHANGED <<table, successes, agent, phase, active, rotating, bypass, slot, count>>

(* Mutant: the inject stays in the queue. *)
CancelHalf ==
  /\ Due("cancel")
  /\ LET rs == {r \in Queue : of[r] = Arg}
     IN  /\ queue' = Spared(rs)
         /\ IF active # None /\ of[active.run] = Arg
            THEN /\ room' = Stopped(active.run)
                 /\ Finish("ended", rs, Rest)
            ELSE /\ status' = Closed(rs, "ended") /\ todo' = Rest
                 /\ UNCHANGED <<successes, active, rotating, room>>
  /\ UNCHANGED <<table, agent, phase, bypass, human, waiting, settling, past, count>>

(* #cancelJob: the active run gives up its inject and its turn, the queued   *)
(* ones are closed.                                                         *)
Cancel ==
  /\ Due("cancel")
  /\ LET rs == {r \in Queue : of[r] = Arg}
     IN  /\ queue' = Spared(rs)
         /\ IF active # None /\ of[active.run] = Arg
            THEN /\ waiting' = Without(active.run)
                 /\ room' = Stopped(active.run)
                 /\ Finish("ended", rs, Rest)
            ELSE /\ status' = Closed(rs, "ended") /\ todo' = Rest
                 /\ UNCHANGED <<successes, active, rotating, waiting, room>>
  /\ UNCHANGED <<table, agent, phase, bypass, human, settling, past, count>>

-----------------------------------------------------------------------------
(* The turn of run r starts in the idle room, and its row says so.          *)
Begin(r, ended) ==
  /\ room' = [run |-> r, abort |-> "none", requeued |-> FALSE, stale |-> FALSE]
  /\ active' = IF Live(r) THEN [active EXCEPT !.at = "sent"] ELSE active
  /\ status' = IF Live(r) /\ status[r] # "gone" THEN [status EXCEPT ![r] = "running"] ELSE status
  /\ settling' = {s \in settling \cup ended : s.run # r}

(* triggerTopicAiTurn: at once, or behind what the room is doing.           *)
Trigger(r, rest) ==
  IF ~agent
  THEN /\ IF Live(r) THEN Finish("ended", {}, rest)
          ELSE todo' = rest /\ UNCHANGED <<active, rows, rotating>>
       /\ UNCHANGED <<room, waiting, settling>>
  ELSE /\ todo' = rest /\ UNCHANGED <<successes, rotating>>
       /\ IF room = None
          THEN Begin(r, {}) /\ UNCHANGED waiting
          ELSE /\ waiting' = IF Waits(r) THEN waiting ELSE Append(waiting, [run |-> r, stale |-> FALSE])
               /\ active' = IF Live(r) THEN [active EXCEPT !.at = "queued"] ELSE active
               /\ UNCHANGED <<status, room, settling>>

(* A script whose run is over does not start; a prompt asks nobody.         *)
Dispatch ==
  /\ Due("dispatch")
  /\ IF of[Arg] \in Script
     THEN /\ active' = IF Live(Arg) THEN [active EXCEPT !.at = "script"] ELSE active
          /\ todo' = Rest
          /\ UNCHANGED <<rows, rotating, room, waiting, settling>>
     ELSE Trigger(Arg, Rest)
  /\ UNCHANGED <<table, agent, phase, queue, bypass, human, past, count>>

ScriptPrints ==
  /\ Up /\ active # None /\ active.at = "script"
  /\ Trigger(active.run, <<>>)
  /\ UNCHANGED <<table, agent, phase, queue, bypass, human, past, count>>

(* It fails, runs too long or prints nothing.                               *)
ScriptFails ==
  /\ Up /\ active # None /\ active.at = "script"
  /\ Finish("ended", {}, <<>>)
  /\ UNCHANGED <<table, agent, phase, queue, bypass, slot, count>>

(* The room takes its next inject after the turns `ended`; one of an older   *)
(* epoch, or without an agent, is refused, and settled under a new query id. *)
Resume(ended) ==
  IF waiting = <<>>
  THEN /\ room' = None /\ settling' = settling \cup ended
       /\ UNCHANGED <<rows, todo, active, rotating, waiting>>
  ELSE LET e == Head(waiting) IN
       /\ waiting' = Tail(waiting)
       /\ IF agent /\ ~e.stale
          THEN Begin(e.run, ended) /\ UNCHANGED <<successes, todo, rotating>>
          ELSE /\ room' = None /\ settling' = settling \cup ended
               /\ IF Live(e.run) /\ (~agent \/ active.at # "sent")
                  THEN Finish("ended", {}, <<>>)
                  ELSE UNCHANGED <<rows, todo, active, rotating>>

(* The room is left to the user message that waits for it.                  *)
Leave(ended) ==
  /\ room' = None /\ settling' = settling \cup ended
  /\ UNCHANGED <<rows, todo, active, rotating, waiting>>

(* A run's turn ends; one that gave way to a user and was queued again says  *)
(* nothing to the scheduler.                                                *)
TurnEnds(ok) ==
  /\ Quiet /\ room \notin {None, Other}
  /\ ok => room.abort = "none"
  /\ LET ended == IF room.abort = "internal" /\ room.requeued THEN {}
                  ELSE {[run |-> room.run, ok |-> ok]}
     IN  IF human THEN Leave(ended) ELSE Resume(ended)
  /\ past' = IF ok THEN past \cup {room.run} ELSE past
  /\ UNCHANGED <<table, agent, phase, queue, bypass, human, count>>

(* onSettled, which #settle compares with the query it knows.               *)
Settle(s) ==
  /\ Quiet /\ s \in settling
  /\ settling' = settling \ {s}
  /\ IF Live(s.run) THEN Finish(IF s.ok THEN "succeeded" ELSE "ended", {}, <<>>)
     ELSE UNCHANGED <<rows, todo, active, rotating>>
  /\ UNCHANGED <<table, agent, phase, queue, bypass, room, human, waiting, past, count>>

(* The run's time is up: its turn is stopped, or its inject withdrawn.      *)
RunTimeout ==
  /\ Up /\ active # None /\ active.at = "sent"
  /\ room' = Stopped(active.run)
  /\ waiting' = IF Runs(active.run) THEN waiting ELSE Without(active.run)
  /\ Finish("ended", {}, <<>>)
  /\ UNCHANGED <<table, agent, phase, queue, bypass, human, settling, past, count>>

DeferredTimeout ==
  /\ Up /\ active # None /\ active.at = "queued"
  /\ waiting' = Without(active.run)
  /\ Finish("ended", {}, <<>>)
  /\ UNCHANGED <<table, agent, phase, queue, bypass, room, human, settling, past, count>>

(* rotateCronTopicContext returns.                                          *)
RotationEnds(ok) ==
  /\ Quiet /\ rotating /\ rotating' = FALSE
  /\ successes' = IF ok THEN 0 ELSE successes
  /\ bypass' = (bypass \/ ~ok)
  /\ todo' = IF phase = "up" THEN <<Drain>> ELSE <<>>
  /\ UNCHANGED <<table, status, agent, phase, active, queue, slot, count>>

(* The head of the queue has waited longer than queueTimeoutMs.             *)
Ages ==
  /\ Up
  /\ \E i \in DOMAIN queue :
       /\ ~queue[i].late /\ \A k \in 1..(i - 1) : queue[k].late
       /\ queue' = [queue EXCEPT ![i].late = TRUE]
  /\ UNCHANGED <<table, rows, agent, phase, todo, active, rotating, bypass, slot, count>>

(* stop: nothing is left open, nothing is taken any more.                   *)
Stop ==
  /\ Up /\ Fault /\ phase' = "stopped"
  /\ status' = Closed(Queue \cup {r \in Run : Live(r)}, "ended")
  /\ waiting' = IF active = None THEN waiting ELSE Without(active.run)
  /\ room' = IF active = None THEN room ELSE Stopped(active.run)
  /\ active' = None /\ queue' = <<>> /\ bypass' = FALSE
  /\ UNCHANGED <<table, successes, agent, todo, rotating, human, settling, past, users>>

(* The process dies, or exits after its scheduler stopped; the lease of its  *)
(* turn outlives it for a while.                                            *)
Crash ==
  /\ phase # "down" /\ phase' = "down"
  /\ IF phase = "up" THEN Fault ELSE UNCHANGED count
  /\ todo' = <<>> /\ active' = None /\ queue' = <<>> /\ rotating' = FALSE /\ bypass' = FALSE
  /\ room' = IF room = None THEN None ELSE Other
  /\ waiting' = <<>> /\ settling' = {}
  /\ past' = past \cup {r \in Run : Runs(r)}
  /\ UNCHANGED <<table, rows, agent, human>>

-----------------------------------------------------------------------------
(* What people do in the topic. *)

(* A message: it takes the idle room, waits behind another turn, or takes a  *)
(* run's place, whose inject goes back to the queue unless it is there.      *)
UserMessage ==
  /\ Quiet /\ UserEvent
  /\ human' = (human \/ room # None)
  /\ IF room \in {None, Other}
     THEN room' = Other /\ UNCHANGED waiting
     ELSE /\ room' = [room EXCEPT !.abort = "internal", !.requeued = ~Waits(room.run)]
          /\ waiting' = IF Waits(room.run) THEN waiting
                        ELSE Append(waiting, [run |-> room.run, stale |-> room.stale])
  /\ UNCHANGED <<table, rows, agent, phase, todo, memory, settling, past>>

UserTakes ==
  /\ human /\ room = None
  /\ room' = Other /\ human' = FALSE
  /\ UNCHANGED <<table, rows, agent, phase, todo, memory, waiting, settling, past, count>>

(* Another turn ends, here or in a process that does not know these injects. *)
OtherEnds ==
  /\ todo = <<>> /\ room = Other
  /\ Leave({}) \/ (~human /\ Resume({}))
  /\ UNCHANGED <<table, agent, phase, queue, bypass, human, past, count>>

(* A stop moves the topic's epoch on; a reset empties the queue as well.     *)
UserStop ==
  /\ Quiet /\ UserEvent
  /\ room' = IF room \in {None, Other} THEN room
             ELSE [room EXCEPT !.abort = "external", !.stale = TRUE]
  /\ human' = FALSE
  /\ waiting' = [i \in DOMAIN waiting |-> [waiting[i] EXCEPT !.stale = TRUE]]
  /\ UNCHANGED <<table, rows, agent, phase, todo, memory, settling, past>>

DropWaiting ==
  /\ Quiet /\ UserEvent
  /\ waiting # <<>> /\ waiting' = <<>>
  /\ IF active # None /\ Waits(active.run) THEN Finish("ended", {}, <<>>)
     ELSE UNCHANGED <<rows, todo, active, rotating>>
  /\ UNCHANGED <<table, agent, phase, queue, bypass, room, human, settling, past>>

AgentComesOrGoes ==
  /\ UserEvent /\ agent' = ~agent
  /\ UNCHANGED <<table, rows, phase, todo, memory, slot>>

(* What the tools of the cron module write. *)
Request(j) ==
  /\ Fits /\ job[j] # "gone"
  /\ asked' = Append(asked, j)
  /\ UNCHANGED <<job, kills, of, rows, agent, phase, todo, memory, slot, count>>

FallsDue(j) ==
  /\ Fits /\ job[j] = "on"
  /\ job' = [job EXCEPT ![j] = "due"]
  /\ UNCHANGED <<asked, kills, of, rows, agent, phase, todo, memory, slot, count>>

SetEnabled(j, enabled) ==
  /\ UserEvent /\ job[j] # "gone"
  /\ job' = [job EXCEPT ![j] = IF enabled THEN "on" ELSE "off"]
  /\ UNCHANGED <<asked, kills, of, rows, agent, phase, todo, memory, slot>>

Delete(j) ==
  /\ UserEvent /\ job[j] # "gone"
  /\ job' = [job EXCEPT ![j] = "gone"]
  /\ asked' = Picked(asked, {i \in DOMAIN asked : asked[i] # j}) /\ kills' = kills \ {j}
  /\ status' = [r \in Run |-> IF r \in OfJob(j) THEN "gone" ELSE status[r]]
  /\ UNCHANGED <<of, successes, agent, phase, todo, memory, slot>>

Kill(j) ==
  /\ UserEvent /\ job[j] # "gone"
  /\ kills' = kills \cup {j}
  /\ UNCHANGED <<job, asked, of, rows, agent, phase, todo, memory, slot>>

Step == TakeKills \/ ClaimRuns \/ PlaceDisabled \/ PlaceBehind \/ PlaceFirst
        \/ DrainQueue \/ Cancel \/ Dispatch
Timers == RunTimeout \/ DeferredTimeout
ScriptEnds == ScriptPrints \/ ScriptFails

Next ==
  \/ Start \/ Poll \/ Step \/ ScriptEnds \/ Timers \/ Ages \/ Stop \/ Crash
  \/ \E ok \in BOOLEAN : TurnEnds(ok) \/ RotationEnds(ok)
  \/ \E s \in settling : Settle(s)
  \/ UserMessage \/ UserTakes \/ OtherEnds \/ UserStop \/ DropWaiting \/ AgentComesOrGoes
  \/ \E j \in Job : \/ Request(j) \/ FallsDue(j) \/ Delete(j) \/ Kill(j)
                    \/ \E b \in BOOLEAN : SetEnabled(j, b)

Spec == Init /\ [][Next]_vars

(* The process is started again, its callbacks run to their end, timers fire *)
(* and the host's calls return.  Nothing makes a provider or a user act.     *)
Fairness ==
  /\ WF_vars(Start) /\ WF_vars(Step) /\ WF_vars(ScriptEnds) /\ WF_vars(Timers)
  /\ WF_vars(\E ok \in BOOLEAN : RotationEnds(ok))

FairSpec == Spec /\ Fairness

-----------------------------------------------------------------------------
(* Between callbacks the table and the memory of the scheduler agree: a row  *)
(* is open as long as its run is active or queued, and says "running" only   *)
(* of a run whose turn was dispatched.                                      *)
RowsMatch ==
  Up => /\ {r \in Run : status[r] \in Open} =
             {r \in Queue \cup {q \in Run : Live(q)} : status[r] # "gone"}
        /\ \A r \in Run : status[r] = "running" => Live(r) /\ active.at = "sent"

(* A run whose turn completed, or was cut off by a crash, never has another. *)
(* Recovery replays what was not dispatched and nothing else (store.ts:1152). *)
NeverRunsTwice == \A r \in past : ~Runs(r)

(* Work of a run: its inject waits, or its turn goes on.                    *)
Works(r) == Waits(r) \/ (Runs(r) /\ room.abort = "none")

(* A run that is not the active one gains no work, so that the runs of a     *)
(* topic are serial and a run that is over stays over ("Jobs in the same     *)
(* topic run serially"), but in four ways: a prompt killed before its        *)
(* dispatch asks nobody; a run whose time is up while its preempted turn     *)
(* unwinds leaves its inject queued; a user message queues an aborted turn   *)
(* again; and the second one makes it report its end all the same.           *)
NoLooseWork ==
  [][\A r \in Run :
       (Works(r) /\ ~Live(r))' /\ ~(Works(r) /\ ~Live(r)) =>
         \/ Due("dispatch") /\ Arg = r /\ ~Live(r)
         \/ RunTimeout /\ Runs(r) /\ Waits(r)
         \/ UserMessage /\ Runs(r) /\ room.abort # "none"
         \/ \E s \in settling : s.run = r /\ Waits(r) /\ Settle(s)]_vars

(* While the topic keeps its agent every run ends, through restarts, users   *)
(* and providers that never answer.                                         *)
EveryRunEnds ==
  []agent => \A r \in Run : (status[r] \in Open) ~> (status[r] \notin Open)
=============================================================================
