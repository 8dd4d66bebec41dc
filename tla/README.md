# Verification of negotium

Negotium is a durable agent node: a Bun/TypeScript program in which *topics*
(conversations) run AI *turns* on behalf of people, timers and other topics.
Several operating-system processes (a terminal, a daemon, adapters, MCP hosts)
open the same SQLite store and must agree, without a coordinator, on who runs
what. This directory holds TLA+ models of the parts where that agreement is made,
TLC runs that check them on small instances, and TLAPS proofs.

All paths below are relative to `src/`; `core/` abbreviates
`packages/core/src/`.

## Inventory of the system

The last column says which module models the component; `PROJECT.json` says for
each what is left out.

### Turn execution

| component | state | operations | what is hard | what makes it correct | modelled by |
|---|---|---|---|---|---|
| turn leases, `core/storage/runtime-leases.ts`, `core/query/room-query-registry.ts` | a row per room (owner, query, heartbeat, abort flag); a map of running turns in each process with an interval that renews the row | claim, heartbeat, request abort, release, decide, abort, clear | takeover by age alone; owners that stall and come back; an abort as a polled flag | one turn per room; a dying turn spares its successor; aborts are delivered; crashes free the room | `TurnLease` |
| maintenance fence, `core/storage/runtime-topic-state.ts`, `core/topics/session.ts`, `core/topics/lifecycle.ts` | a row per topic (epoch, owner, heartbeat); a handle in the operation's process | begin, isOwned, finish, heartbeat; reset, compact, delete around them | destroys data across awaits, while its fence can go stale | work on a topic excludes its turns and other work; lost handles are harmless | `TopicFence` |
| durable user turn queue, `core/storage/runtime-turn-requests.ts`, `core/application/submit-runtime-gateway-turn.ts`, `core/application/topic-service.ts` | rows of accepted messages with actor, thread, epoch, claim | submit, merge, steer, claim, mark running, complete, cancel before an epoch | merges race claims, stops, retries and crashes | nothing is lost, mixed between people, reordered, or run after a stop | `UserTurns` |
| turn runner, `core/runtime/turn-runner.ts`, and event stream, `core/runtime/turn-event-stream.ts` | what a callback has read; retry marks of an attempt; the outcome so far | startAiTurn, the worker, retries, settlement, the `finally`, defer and replay of injects | checks and their use are apart; settlement awaits after the room is free; a `finally` may run after a successor started | every exit releases the room, drains the queue and settles once | `UserTurns`, `InjectQueue` |
| inject queue, `core/query/active-rooms.ts` (`InterSessionQueue`, `DeferredInjectBatcher`) | FIFO per topic with a set of request ids; timers | enqueue, take a mergeable prefix, drop | deduplication only while queued; several wake-ups that race each other and the drain | each inject runs or is reported; a stopped one never starts; no queue sleeps for ever | `InjectQueue` |

### Delivery between topics, processes and nodes

| component | state | operations | what is hard | what makes it correct | modelled by |
|---|---|---|---|---|---|
| process leases, `core/storage/runtime-process-leases.ts` | a row per role | acquire, heartbeat, release, wait, remove dead | takeover by heartbeat age from a live owner | one leader per role, losers learn of it | `RoleLease` |
| session inbox, `core/storage/session-inbox.ts`, `core/runtime/inbox.ts` | rows pending or processing; busy topics | enqueue, elect, flush, claim a batch, complete, release, recover | a new leader recovers rows a stalled one works on | in order, at least once, one worker per topic | `SessionInbox` |
| asks across nodes, `core/storage/remote-session.ts`, `core/storage/session-asks.ts`, `core/runtime/remote-session-inbox.ts`, `...-reply-outbox.ts` | a row and a marker file per pending ask; a claim per reply; a reply outbox | begin, dispatch, confirm, retire, claim, record, recover, reconcile, expire, purge | lost and repeated HTTP calls, a file and a row that must agree, node restarts | one answer or one notice; a retry is recognised; one pending ask per pair of rooms | `RemoteAsk` (the asking side) |
| self schedules, `core/storage/self-schedules.ts`, sweep in `core/runtime/inbox.ts` | one pending schedule per topic, running ones with claims | create, claim due, heartbeat, release, complete | a run that was preempted comes back to a slot already taken | a due schedule runs, or a newer one replaced it | `SelfSchedules` |
| cron, `packages/module-cron/src/` | jobs, requests, cancellations, runs; one active run per topic and a queue in memory | claim, place, dispatch, time out, kill, rotate, stop, recover | three places describe one run (row, inject, turn) and change at different times | runs of a topic are serial, each ends once, nothing is replayed | `CronScheduler` |
| asks within a node, `core/runtime/ask-callbacks.ts` | callbacks by query id | create, resolve, expire, cancel | answer, expiry and cancellation race | the caller gets exactly one answer or failure | no |
| gateway submissions, `core/storage/runtime-gateway-submissions.ts` | a record per client message | find, record | two identical submissions race | one row and one message per client id | no |
| outbox files, `core/outbox/` | a JSONL file and its `.processing` claim; a coalescing runner | append, drain, write back, trigger | crash between two file operations | at least once | no |
| gates, `core/storage/ask-user-gates.ts`, `vault-request-gates.ts` | a gate per question or secret | prepare, claim and answer, quarantine, cancel | answer races the end of the turn | answered once, by its own turn only | no |
| topic claims, `core/storage/topic-link-records.ts`, `core/topics/claim-abort.ts`, `packages/node/src/topic-link.ts` | create claims, abort fences, tombstones | create, replay, abort, prune | abort races a late create | a request id names at most one topic | no |

### Platform

| component | state | what makes it correct |
|---|---|---|
| modules and shutdown, `core/platform/modules.ts`, `lifecycle.ts` | started modules, shutdown handlers | reverse order, each stop once, ingress closes first |
| MCP host, `packages/mcp-host/src/manager.ts` | child processes with last use | one child per key; idle ones are reaped |
| background bash, `core/platform/background-bash/` | child processes, a bounded output ring | output is read once, in order, bounded |
| idle archiver and compaction, `core/agents/idle-*.ts` | timers per topic | never touch a busy topic |

Outside these: providers and rollouts (`core/agents/`), record keeping
(transcripts, wiki, tasks, vault), HTTP control plane (`packages/node/src/control.ts`),
adapters, command line. They translate or store; their state machines are those of
the services above.

### How the parts interact

    adapter / control plane ──submit──> turn queue ──claim──> turn runner ──> event stream
                                          ^   |  requeue          |  set / clear     |
                                          |   +-------------------+                  v
    topic service ──stop, steer───────────+          maintenance fence ──refuses──> turn leases
                                                                                    ^
    session inbox ───┐                                                              | the `finally`
    self schedules ──┼──inject──> inject queue ─────────drained by──────────────────┘
    cron, answers ───┘
        ^ elected by process leases; remote asks and their replies cross nodes through the hub

Everything between processes goes through SQLite, and through one file for a pending ask,
whose operations are no transaction: rows are claimed by conditional updates, owners renew them from intervals, and others compare the age of
the last renewal with a limit (10 s for turn leases and claims, 30 s for fences,
5 s for process leases). Within a process the callbacks of the event loop do not
interleave except at an `await`. Those two facts shape all the models: one action
is what a process does between two points where somebody else can get in.

## Modules

| module | models | built on |
|---|---|---|
| `TurnSlot` | the promise: a room is a slot that one process may occupy | |
| `TurnLeaseRows` | constants and row types of the leases, shared by the next two | |
| `TurnLease` | lease rows, registries, heartbeats, the clock | refines `TurnSlot` |
| `TopicFence` | fence rows and maintenance operations, composed with the leases | instance of `TurnLease` |
| `Selections` | what the code does to lists: select some, join what they carry | used by the modules that keep rows or queues in order |
| `UserTurns` | the durable queue of a topic and its workers | the slot of `TurnSlot`, abstractly |
| `InjectQueue` | the injects that wait in the memory of each process | the same slot |
| `AtLeastOnce` | the promise: a queue holds what it took until a handler has run | |
| `RoleLease` | the election of a role's holder | |
| `SessionInbox` | the inbox rows of a topic, the leader, its worker | extends `RoleLease`, refines `AtLeastOnce` |
| `RemoteAsk` | an ask to another node: row, marker, call, reply, notice | |
| `SelfSchedules` | what a topic schedules for itself | the room of `InjectQueue`, reduced |
| `CronScheduler` | jobs, runs and their dispatch | the room of `InjectQueue`, reduced |
| `TopicFenceProofs` (with `TurnLease`), `SessionInboxProofs` (with `RoleLease`), `RemoteAskProofs`, `SelectionsProofs`, `UserTurnsProofs`, `SelfSchedulesProofs`, `InjectQueueProofs`, `CronSchedulerProofs` | theorems about the module they are named for | TLAPS |
| `MCTopicFence`, `MCUserTurns`, `MCRemoteAsk` | symmetry sets, a view and function constants for TLC | the module they name |

A definition whose comment starts with "Mutant:" is a plausible bug. No specification
uses one; each shows that some property would notice it.

### TurnLease

`lease[r]` is the row of `runtime_turn_leases`, `turn[p][r]` the entry of
`activeByRoom` in process `p` with the reason of its `AbortController`,
`fenced` the rooms under fresh maintenance. Times are kept as ages: `age`
counts clock units since the last heartbeat and saturates just past the limit,
because no query distinguishes later ages. `Tick` is the clock; its guard, with
`MaxDelay`, says how late the interval callback of a live process may be. The code
gives no bound, so every property is stated either for any `MaxDelay` or under
`TimelyHeartbeats` (`MaxDelay <= TurnStale`), the assumption behind comparing a 1 s
interval with a 10 s limit.

`StartTurn` is `decideNewQuery` with `registry.set` and the upsert of
`claimRuntimeTurnLease`; `Heartbeat` and `LoseLease` are the two branches of the
interval; `Supersede`, `SteerRemote`, `AbortRoom`, `AbortAll` and
`InfrastructureLost` are the ways a turn is told to stop; `FinishTurn` is the
`finally`. A crash keeps the rows and loses the memory. A restarted process has a
new `RUNTIME_INSTANCE_ID`, hence is another member of `Process`.

### TopicFence

`fence[r]` is the row of `runtime_topic_state`, `op[o]` the handle of maintenance
operation `o` with a phase for where its function stands between awaits: begun,
waiting for the turn to stop, exclusive (found quiet), destroying, or forced (a
delete that goes on although the turn did not stop). The leases are an instance of
`TurnLease` whose `fenced` is computed from the fence rows, so the composition
implements `TurnLease` with a definite environment, and every lease property is
checked in it. `MaxFenceDelay` and `TimelyFence` play the role of `MaxDelay`.

### UserTurns

One topic; messages and requests share one numbering. `rows` is
`runtime_user_turn_requests` in `(created_at, rowid)` order; the row has the
fields a decision depends on (messages, actor, thread, epoch, whether the
provider's session holds its prompt, status and claim). `slot` is the turn that
holds the lease, abstracted as `TurnSlot` justifies: a live owner keeps it, a dead
one loses it in `LeaseExpires`. `fence` and `epoch` are the topic's state row.
A claim's age is one bit, `fresh`, and `ClaimAges` may clear it while a turn runs or
a retry rebuilds its history, since nothing renews it then; the short callback from a
claim to its turn is over long before the 10 s limit.

A callback that runs several SQLite statements is split where another process
can change what the next statement sees; `at[p]` says where `p` stands, and
`Interleaved` is the set of places at which other processes are let in. `"claimed"`
is the work between a claim and its epoch check (`getTopic` and the arguments,
`turn-runner.ts`:984-1030), `"retry"` what happens between the end of a failed
attempt and its second start (`resolveSessionRetry` rebuilds the history from disk,
1896-1938): the two that take real time. The other places are a few microseconds
between two statements; "Windows" says what happens in them. `SlowSettle` says
whether the notifications that a failed turn awaits before it settles may outlast
a poll of the worker. Histories (`answered`, `stopped`, `ended`) record what the
properties speak about and steer nothing.

Submit and FlagSteer are `submitRuntimeGatewayTurn`: the transaction, then the
abort. Claim, Admit, Take and TakeFails are `drainOneDurableUserTurn` and the
`startAiTurn` it calls. TurnEnds, Settle and SettleError follow the stream's
outcome through `turn-runner.ts`. Restart, RestartDropped and RestartFails are the
internal retries. Stop and Cancel are `abortTurn`, and reset and delete, which
begin alike. Compact and CompactBegins are a non-preemptive compaction.

Not in this model: messages typed in the process that runs the turn
(`submit-user-message.ts`, which starts or replaces it directly), stops that find
maintenance already held (they only abort the turn, as `TurnLease` has it), topics
without an agent, `respond: false`, duplicates that the idempotency record turns
away, and the count of messages already logged.

### InjectQueue

What other topics tell or ask a topic, and the answers to what it asked, start a
turn when the room is idle and wait in the memory of their process otherwise.
`queue[p]` is that process's `InterSessionQueue` for the topic, `timer[p]` the
batcher's timeout, `waiter[p]` the interval that polls while another process holds
the room, `retry[p]` an attempt about to start again. `Start` is `startAiTurn` for an
inject: refused when its epoch is past, run in an idle room, else deferred; every
action that may start one (Tell, Timeout, Wait, TurnEnds, Retry) goes through it. User
turns are reduced to whether a row waits and to whom they preempt. An answer merges
with the answers next to it that share its epoch and thread.

### SessionInbox, RoleLease, AtLeastOnce

`RoleLease` is one role of `runtime-process-leases.ts`: `row`, and `held[p]` with the
time since the last successful renewal and since its callback last ran; acquiring takes
a row over when its process is dead or its age past the limit. `SessionInbox` extends
it with the rows of one topic (`claim[m]`), the leader's flush and the worker it
starts. The steps are those of `runtime/inbox.ts` between awaits: TryLead (with the
recovery of all claims), Trigger, Flush, Claim, HandleEntry, Complete, and the two ways
to fail, GiveBack and Strand. A worker does not ask whether its process still
leads. `Calm` says that no heartbeat was late and nobody stopped gracefully: under it
there is one worker and order is kept; without it the queue is still at-least-once,
which `AtLeastOnce` states and `QueueSpec` checks by refinement.

### RemoteAsk

All asks go from one room to one other, the pair that shares a marker file. `row[r]`
is the row of `remote_session_asks` with its state and an age in four classes,
`marker` the file, `call[r]` where the asking call stands, `hub[r]` what the hub
knows, `claim[r]` the claim of the reply. `job[p][r]` is what a process does under the
request lock of `r`; `fix`, `due` and `clear` are the pieces of the maintenance pass
and of a delivery that hold what they read across awaits. The hub is external: it may
accept a call whose acknowledgement is lost, refuse a retry of it (`SteadyHub = FALSE`),
and post an answer any number of times, to any process. A callback is several steps, each
one SQL transaction or one operation on the marker file; a process runs one callback at a
time (`Inside`, `Open`), other processes act between its steps.

The marker file is modelled operation by operation. `io[p]` is what `p` does to it and how
far it is: `createPendingAsk` (look, unlink a stale one, open with `"wx"`, write; find a file
in the way, examine it, unlink, open again), `clearPendingAsk` and `releasePendingAsk` (look,
unlink, confirm), `markPendingAskState` (look, truncate, write) and the sweep of
`listPendingAsksForCaller`. `marker` is the file at the path, possibly still empty, and
`desc` says who has that very file open: after an unlink a descriptor writes to nobody. What
a process does after a read rests on what it read, whatever the file has become. Two histories
name what can go wrong between these operations (see "Windows"): `robbed`, the asks whose
fresh marker was removed or truncated on account of another ask or by a sweep, and `revived`,
the asks whose marker was written back after its release, or was being rewritten, and so
read as none, when the release looked.

### SelfSchedules

`row[s]` is the row of schedule `s`, pending or claimed by a process; `at[p]` the
schedule a sweep has claimed and is about to start, `beating[p]` the claims `p` keeps
fresh. The room and the memory queues are those of `InjectQueue`, reduced to
schedules and to whatever else occupies the room; any process may sweep, since the
claims do not rely on the inbox election. `ended`, `void` and `preempted` are
histories. Left out: the maintenance fence at a claim, and retries inside a turn.

### CronScheduler

The scheduler is one JavaScript thread in one process. `todo` holds what it does before
any other callback: the rest of the synchronous call at the front, microtasks at the
back. People and tools write the store between any two of these steps, and the process
may die there. `active`, `queue`, `rotating` and `bypass` are the scheduler's maps for
one topic, `status` the rows of the runs; `room`, `human` and `waiting` are the topic's
slot, reduced to the runs and to any `Other` turn. An owner who leaves the topic acts as
a topic that loses its agent. Sessions, edits of jobs and cron expressions are left out.

## Runs

| run | states | question | answer |
|---|---|---|---|
| `topic_fence_timely` | 17,200 | heartbeats within their limits: one turn per room, seen by all; maintenance excludes turns and other maintenance; the leases implement the slot; aborts are noticed, no topic stays closed by a crash | holds |
| `topic_fence_late` | 85,980 | later than their limits, fair: no orphan rows, a late `finally` or handle harmless, a lost turn is stopped | holds |
| `user_turns_conversations` | 420,812 | two people, channel and thread, three messages, a retry: one person and one thread per batch, answered there or in the channel, one live claim, order, who may steer whom, replaced before aborted | holds |
| `user_turns_failures` | 140,056 | stops, compactions, an injected turn, a retry and a crash, others let in at a claim and before a retry: nothing lost, stopped stays stopped, no row stranded, every message settles | holds |
| `user_turns_twice` | until found | one outcome per turn | violated |
| `session_inbox` | 131,204 | a crash, a late heartbeat or a failing handler, a graceful stop: one worker, order, late workers harmless, at-least-once, every message handled | holds |
| `inject_queue` | 741,344 | a tell and two answers past a user, stops, resets, retries and deaths: none disappears or waits twice, stopped ones never start, no wake-up is lost but in three named ways | holds |
| `remote_ask` | 784,446 | three asks of one room, every file operation a step: one ask at a time at the hub, but for those robbed of their marker | holds |
| `remote_ask_told` | 400,085 | one ask, two failures and a hub that refuses what it accepted, fair: one verdict, retries recognised, a row stands while its marker does unless the marker is revived, an unconfirmed ask is answered or noticed | holds |
| `cron` | 280,033 | two runs of two jobs, one a script: rows and memory agree, nothing runs twice, no loose work but in four named ways, every run ends | holds |
| `self_schedules` | 164,349 | two schedules: work in memory has its row, nothing is forgotten, each comes to its end | holds |
| `self_schedules_preempted` | until found | a newer schedule wins over a preempted one | violated |

`CHECK_DEADLOCK` is off wherever the number of messages, runs or schedules is bounded
and nobody has to send another: the system then rests with empty queues, which is
where it should. `TopicFence` always has a clock or a callback to run, and is checked
for deadlock.

### Bounds, and why they are enough

Two processes show every race between an owner and a rival; the third in
`topic_fence_timely` adds a bystander who aborts and looks. One room, topic or role
suffices because they share nothing but turn ids, whose uniqueness `TurnLease`
keeps as a guard. Two turn ids let a room pass to a new turn and back.
Limits of 0, 1 or 2 units put every heartbeat on each side of the limit.

In `UserTurns` two people and three messages are the smallest queue in which a fold must
stop at somebody else's row and continue past it; two epoch changes, one injected turn, one
retry and one crash each meet every step of a message's life, and pairs of them meet each
other.
`MaxRetries` counts retries of all turns; the code's limit is one of each kind per turn.
Beyond the listed runs, three messages with an injected turn between two people (1,142,079
states), three messages with a retry and a crash (295,299), two people with an injected
turn through every failure (230,486 states, no interleaving), two people with two messages
and both interleavings (375,468, `NothingIsDropped`), and one message with all nine places
interleaved and slow settlement (39,126, `NothingIsDropped`) were checked and hold.

`SessionInbox`: `MaxFaults` late renewals or failures; a batch limit of two with two
messages gives batches of one and two. One of each kind of fault holds, too (312,508
states). `InjectQueue`: a tell that runs alone and two answers that may merge, one of them
from a thread; one user and any two faults. Two users hold, too (2,810,187 states).
`RemoteAsk`: one ask releases, clears or sweeps while a second creates its marker, and a
third begins in the place of the second: with fewer the hub never holds two, whatever
happens to the file, so `remote_ask` has three, one of which is answered. Ages up to the grace
are enough for that, while the notice needs the TTL; a marker without a row turns stale
in both. What becomes of one ask's row and marker is up to the processes and the hub
that work at that ask, so `remote_ask_told` has one ask, with failing operations and a hub that
refuses. `MCView` leaves the histories out of a state of `remote_ask` that no step and
no property reads any more. A delivery slower than its lease counts as a fault. `Prompt` says
that no process sleeps through the grace of an ask it is sending; without it only `OneVerdict`
still holds (2,087,969 states, one ask). Past twice the TTL an ask is purged, told or not, so
`UnconfirmedIsTold` is a promise up to there (`MaxAge = 2`). The safety properties hold with
two asks and one fault (637,458 states; 1,194,246 with a hub that refuses, where
`OneAskAtATime` is left out), three asks without a fault and without the view (1,764,828),
without an answer and with a fault (45,731), one ask, all ages and two faults (559,597), and
three processes (81,055).
`CronScheduler`: two jobs give an active and a queued run; the context rotates after every
success, so rotation meets everything else. Three runs with two user events and one
fault hold (5,571,781 states, safety). `SelfSchedules`: two schedules are the pending one and
its preempted predecessor; three schedules, four user events and two faults hold
(2,376,108 states, safety).

What a reader should know of the passing runs:

- `SupersededIsReplaced` and `OnlyOwnFollowUpSteers` are checked with no place interleaved,
  `StoppedStaysStopped` and `NoRowIsStranded` with the two slow places: "Windows" says what
  the others do.
- `AnswersInThread` lets the channel answer what was written in a thread, because a second
  attempt and a turn queued again do so; what the comment at `turn-runner.ts`:700 says
  without exception is `KeepsItsThread`, and `user_turns_conversations` violates it.
- `OneAskAtATime` leaves out the asks in `robbed`, `MarkerIsFindable` those in `revived`. Both
  exceptions happen in the runs, and each property fails there without its own.
- `EveryMessageSettles` is checked with `SlowSettle = FALSE`. With slow settlements a turn
  that always fails, and whose notifications always outlast the next poll, is claimed
  again each time before its row is completed: the window of `user_turns_twice`, repeated
  for ever.
- `RunsAreClaimed` is checked with `LateErrors = FALSE`: an aborted turn whose provider
  reports an error in the same instant is settled although its copy is queued.
- `WakeUpIsKept` and `NoLooseWork` name the ways in which what they say goes wrong in
  the code, and show that there is no other. Each of them is in the table of windows.

### Fairness

Fair are the interval callbacks of live processes, the clock, the worker's poll
(every 100 ms), a callback that has started, the end of maintenance (its wait has a
deadline) and the end of a provider's stream (it ends, fails, or its turn is
aborted). In `SessionInbox`: the election, renewals, the leader's poll, the flush and each
step of a worker. In `RemoteAsk`: the maintenance pass, the settling of its promises, a process
that is at the marker file, and time; the hub need not answer. In `CronScheduler`: the
process is started again, its callbacks run to their end, timers fire and a rotation returns; no provider, room or user
has to act, since every run has a timeout. In `SelfSchedules`: some process sweeps,
turns end, a worker and a waiter poll, time passes. People, crashes, injected turns and
stops have no fairness anywhere. Strong fairness is used once, for `SettleError`: a
promise continuation that is repeatedly ready between other callbacks of its process
does run.

## Findings

Two runs contradict a sentence of the repository; `PROJECT.json` quotes each with
its line. Neither needs an unusual schedule.

1. A failed turn whose notifications take long may run, and end, twice
   (`user_turns_twice`, against `docs/ARCHITECTURE.md`:47, "A terminal outcome is emitted
   once per turn").
2. A preempted schedule runs again although a newer one is pending
   (`self_schedules_preempted`, against the comment at `core/runtime/inbox.ts`:545 and
   `self-config-core.test.ts`:275): at a first preemption the settlement hook that would
   restore it is not called, and the copy in memory resumes.

### Windows

More formulas hold under the assumptions of the modules and stop holding when one is
given up; the code does not enforce these assumptions. Others are sentences of the
code that the models contradict, each stated as a formula at the end of its module.
Each line gives the configuration to start from, what to change in it, and what TLC then
shows.

| from | change | formula that fails | what happens |
|---|---|---|---|
| `topic_fence_timely` | `TurnStale = 0` | `OneTurnPerRoom` | a process stalled past the limit shares its room with the next owner (`active-rooms.ts`:9 promises at most one) |
| `topic_fence_late` | check it | `PurgeSparesNewSession` | `isOwned()` ignores the age of the fence, so a purge may meet a turn that started meanwhile (`session.ts`:258) |
| `user_turns_failures` | check it, or let others in at `"flagging"` | `SupersededIsReplaced` | the abort of a steer names the topic and may hit the replacement (`submit-runtime-gateway-turn.ts`:417) |
| the same | others let in at `"admitted"` or `"compacting"` | `NoRowIsStranded` | a compaction that bails leaves a message accepted meanwhile in the old epoch (`session.ts`:166) |
| the same | others let in at `"admitted"` | `StoppedStaysStopped` | a worker past its epoch check starts work that a stop has cancelled (`runtime-topic-state.ts`:104) |
| the same | others let in at `"flagging"` | `NothingIsDropped` | that abort hits the turn of the very message it was for, and settling it deletes the row (`submit-runtime-gateway-turn.ts`:417) |
| the same | `SlowSettle = TRUE` | `NothingIsDropped` | a failed turn that settles late completes by id and claim the row that was meanwhile queued again, with a later message, and claimed by the same process |
| the same | three processes; others let in at `"admitted"` and `"stopping"` | `NothingIsDropped` | between the fence and the cancellation a turn is queued again in its old epoch and folds a message accepted after the stop |
| the same | two people, three messages | `NothingIsDropped` | a worker that stalls between its claim and its lease displaces the same person's newer turn while the other person's row keeps the merge from folding it: that message is lost |
| the same | `SlowSettle = TRUE` | `EveryMessageSettles` | see above |
| `user_turns_conversations` | check it | `KeepsItsThread` | a retry, and a turn queued again, omit `threadRootId` (`turn-runner.ts`:1938, 2011, 893; comment at 700) |
| `session_inbox` | check it | `PollIsTheBackstop` | a claim that nobody gave back waits for the next election (`session-inbox-signal.ts`:9) |
| the same | check it | `NoLivePreviousOwner` | a takeover by age, or a graceful stop with a batch at work, leaves the previous owner alive (`session-inbox.ts`:149) |
| `inject_queue` | check it | `AnsweredInThread` | a deferral carries no thread (`active-rooms.ts`:49) |
| the same | `FairSpec`, one user, one fault | `ReplacementDrains` | the turn to which the drain was left may run in another process (`turn-event-stream.ts`:1022) |
| `remote_ask_told` | `Spec`, check it | `ToldOnce` | two passes that listed the same expired row record the notice twice (`remote-session-inbox.ts`:757, "Idempotent") |
| the same | the same | `ReplayIsTrue` | a recovered claim without its ask counts as delivered (`remote-session-inbox.ts`:560, "never a false replay") |
| the same | the same | `RefusedWasNotForwarded` | the last attempt is refused after an earlier one was forwarded (`remote-session.ts`:727); holds with `SteadyHub = TRUE` |
| the same | the same | `RowOutlivesMarker` | the record of an answer deletes the row before the marker (`remote-session.ts`:535) |
| the same | `Spec`, drop `\ revived` | `MarkerIsFindable` | a delivery reads the marker, the release unlinks it, and the delivery writes it back (`session-asks.ts`:287, 296); the row goes while it stands |
| `remote_ask` | drop `\ robbed` | `OneAskAtATime` | a release that read no marker, or an empty one, unlinks the fresh marker another ask has made meanwhile, and a third ask begins (`session-asks.ts`:313); the unlink of a marker that was stale when read does the same (242, 272, 394) |
| the same | check it | `NewerIsSpared` | the same release removes the marker of a newer ask, "which is never touched" (`session-asks.ts`:323) |
| `self_schedules` | `LateErrors = TRUE` | `RunsAreClaimed` | see above |
| the same | drop the second premise | `EveryScheduleEnds` | a preempted copy stays in the memory of a process that gets no further turn, its claim kept fresh for ever |

`cron`: the four ways of `NoLooseWork`, each against `README.md`:206, "Jobs in the same
topic run serially". A kill of a pending run that is recovered in the same start callback
does not prevent its dispatch (`mcp-server.ts`:481 promises cancellation). A run whose time
is up while its preempted turn unwinds leaves its inject queued. A user message queues an
aborted turn again. A second user message makes the dying turn report its end while its
inject waits. Seen on the way: runs stay queued behind an early failure of a placement
during a drain until something else drains; a kill is lost when the process dies between
taking it and acting on it; a kill lets a newly claimed run overtake queued ones.

## Proofs

The theorems hold for every set of processes, rooms, turn ids, operations and messages
and every value of the limits. They assume only the named assumptions of the modules:
limits are natural numbers, delays positive, `Home` is a function, messages are numbers,
there are finitely many jobs, and `None`, `Other`, `Ended` and the states of a row are not
among the records, processes and words.

`TopicFenceProofs`, the leases. The theorems named `Lease...` are about the instance of
`TurnLease` alone: they start from `LeaseSpec`, in which the fences move at will.
`LeaseTypes` is inductive. Mutual exclusion is not: that two
processes never both have a turn says nothing about a claim that overwrites a row.
`Tenancy` is the strengthening: every turn in flight owns its row, and the row is no
older than the turn's last heartbeat. Since the turn's age is bounded by `MaxDelay`
and `MaxDelay <= TurnStale`, the row is never past the limit, so nobody else can
claim it. `TenancyHolds` proves this; `LeaseExclusion` and `LeaseVisibility` follow in a
line each. The induction splits the steps into those that change no tenant
(heartbeats, aborts, the clock; lemmas `StepKinds`, `TenantsKept`, `AgesKept`) and
the two that do, `StartTurn` and `FinishTurn`. `LeaseSlot` maps a room to the
set of processes with a turn there: starting is `Occupy`, finishing `Vacate`, a
crash `Die`, the rest stutters, and it needs `Tenancy` to show that the slot is
empty when a claim succeeds. `LeaseNoOrphan` and `LeaseFinish` need no bound on
lateness.

`TopicFenceProofs`, the fence. `ImplementsLeases` shows that every step of the composition is a
step of `TurnLease` with the computed fence, or a stutter; the lease theorems then
hold of it, and are restated for the composition under the names the runs check. `Guarded` is to operations
what `Tenancy` is to turns. `FenceExcludesTurns` combines the two: when an
operation becomes exclusive its process saw no turn and no fresh row, and by
visibility nobody has one; from then on the fence it guards refuses claims.
`SingleMaintainer` follows from `Guarded`, `LostHandles` needs no bound.

`SessionInboxProofs`, the lease. `RoleExclusion`: under timely heartbeats two processes never both
believe to hold a role. The invariant `Incumbency` says that a holder owns the row
and that the row is no older than the holder's last callback, as for turns.

`SessionInboxProofs`, the inbox. `ImplementsQueue` is the refinement of `AtLeastOnce`: it needs
`Known` (what a handler or a worker has in hand was written, in the order of the sequence)
and `Drained` (in an open topic a row is gone, and a message is no longer left of a batch,
only once it was handled), so that completing a batch forgets handled messages only.
`OneWorkerAtATime` rests on `Elected` (as long as no heartbeat has slipped, `RoleLease`'s
`Incumbency` holds) and `Employed` (in calm times whoever flushes or works leads).
`OrderIsKept` rests on `Accounted` (every claim is in the hands of a worker, or its process
is dead and nobody leads, so that the next leader recovers it), `Ahead` (a batch is older
than what is pending, what was handled older than what was not) and `Sorted`.
`LateWorkers` needs no invariant beyond types.

`RemoteAskProofs`. None of the four properties is inductive, and each rests on the one
before. All need `PlacedInv`: who is at the marker file is there for the step of its own call
or of its own reconciliation, and does nothing else meanwhile. `OneVerdict` needs
`VerdictInv`: an ask that has not begun is unknown to the store and to the hub (`Origin`); a
recorded answer has its completed claim, a completed claim has no visible row, and an ask of
which the room has been told, or is being told, that no answer came is visible to nobody and
in nobody's delivery (`Verdict`). It holds whatever the timing. `RetryIsReplay` needs the
part of it that assumes `Prompt` (`Undisturbed`: nobody takes a claim over before the second
look at the ask). `MarkerIsFindable` needs `FindableInv`: what maintenance has read of a row
stays true of it (`Aged`); no marker names an ask that has not been sent, but for the empty
file its call has just opened (`Marked`); a row that is about to go, with its call or its
reconciliation, has no marker left unless its ask is in `revived` (`Gone`). `OneAskAtATime`
needs `SingleInv` on top of these: the hub holds only what was sent, and what is released,
reconciled or cleared blocks the room no more (`Sent`); whoever has the file open has the
one at the path (`DescInv`); and an ask that is being sent, or blocks, has its fresh marker at
the path, which nobody else has open, unless it is in `robbed` (`Held`, `Guarded`). There is
one path, so there is one such ask. The proofs go by asks and by processes: a step at the
file leaves it, removes it, opens, truncates or writes it (`FilingMarks`), any other leaves
it alone and may only set out for it (`Elsewhere`, `SetsOut`), and what a step may do to one
row and its call is `Life`. The invariants were checked by TLC as well (two asks and one
fault, one ask with all ages and two faults). `Prompt` and `SteadyHub` are hypotheses of the
theorems that need them: TLC shows `RetryIsReplay`, `MarkerIsFindable` and `OneAskAtATime`
violated without `Prompt`, and `OneAskAtATime` without `SteadyHub`.

`SelectionsProofs`. `Joined` and `Picked` are recursive functions over lists of any length.
That the recursive function exists, and what it returns (its length, where each
element comes from, that order is kept), is proved by induction over the set of lengths for
which it holds, with `WFMin` in the place of an induction theorem: the library's induction
theorems take an operator as a parameter, and the provers cannot instantiate them.

`UserTurnsProofs`. `MergesTo` says what a merge returns: which old rows stay, in which
order, and what the new row carries. Together with a lemma for each way a step changes rows,
turn or claims it replaces the definitions in every later proof. `ClaimsAreExclusive` needs
`Held`: while a worker is on its way from its claim to its turn, the row it claimed, if still
its own, is held by a fresh claim. `NoRowIsStranded` and `StoppedStaysStopped` need
`EpochInv`: outside a stop every row is of the current epoch and every turn is, or was told
to abort; while one runs, every row is of an epoch that is over; a worker past its epoch check
holds work of the current one; and a message is at work in one epoch only, which is not the
current one once it was stopped (`RunsFit`). Their premise `OrderlyEpochs` says that no
process is let in between the statements of an epoch check, a stop or a compaction. It holds
in both runs that check the two properties, and cannot be dropped: "Windows" shows each
violated with `"admitted"` or `"compacting"` interleaved.

`UserTurnsProofs`, the second part. What no merge may lose or reorder. The premise `Swift` says that other
processes are let in only while a worker settles a turn, as in `user_turns_conversations`.
`RoomInv` shows what that buys: only the first row is ever claimed, a worker on its way
to its turn holds that row and finds the room free, and while a request runs no other
row is claimed; so a turn is never queued again for want of the room. `NothingIsDropped`
and `SupersededIsReplaced` need `LossParts`: no message is in two rows, a turn in hand
carries what its row carries, and what a turn carries that was told to give way, or is about
to be, is in another row, answered or stopped. One lemma, `LossStep`, says what a step must
show, and a relation between two lists of rows, `Conserves`, stands for every way in which
rows change. `ArrivalOrder` is inductive once a merge is known place by place: what it
leaves of a conversation lies before all that it absorbs (`UnabsorbedFirst`), and joined
messages keep the order of their rows (`SaidOrigins`). `OnlyOwnFollowUpSteers` needs that a
row has the person and thread of its request, and that a steer about to be asked for was
preceded by a later message. The premise cannot be dropped: with two people, two threads and
three messages TLC violates all four with `"claimed"` or `"admitted"` let in, all four with
`"retry"`, and `NothingIsDropped`, `SupersededIsReplaced` and `OnlyOwnFollowUpSteers` with
`"flagging"`; `"stopping"` and `"compacting"` violate none there, but the argument does not
cover them. `AnswersInThread` has no premise. Its invariant `ThreadInv` says of every
row, of the copy of it that a worker holds on the way to its turn, and of the turn that it is
of the thread of its messages or of the channel: rows fold only within a thread, and what
forgets its thread moves to the channel.

`UserTurnsProofs`, the third part. `NothingIsDroppedAlone` is the case of
`user_turns_failures`: one person in one channel (`LoneTalk`), with others let in between a claim and its
turn and before a retry too, where a turn does find its room taken. A turn that is queued
again then folds everything that waits and leaves one row that nobody has claimed
(`LoneRequeue`). `LoneInv` says what follows: a row that a worker would complete carries the
messages of the turn in whose name it completes it, and a turn that was told to abort has
no such row any more or is covered by a stop. `Passes` stands for how rows change, and only
a claim is not a case of it. The premise says that the process that steers or stops is not
interrupted before its next statement, and that a failed turn settles at once; "Windows" shows the property
violated without each of these, and with two people. It was checked by TLC with three
messages before it was proved (1,635,336 states).

`InjectQueueProofs`. None of the three properties is inductive; all rest on `QueueInv`,
which says of each process (`Own`) what its queue, its turn and its retry may hold. An entry
carries the epoch in which its injects were first started, or none if they never were
(`Dated`), and only injects of its own process (`Mine`), so that what one process does leaves
the others alone (`Others`). Entries share no inject (`Apart`), and a turn or a retry has
exactly the work of an entry, or nothing in common with it (`Meets`): that is why a deferral,
a preemption or a retry, which queue what may be queued already, lose nothing and double
nothing. A turn that was queued again and is not reported at its end is in the queue or
reported already (`FitsRoom`). Every start goes through one lemma, `StartKeeps`, and every
batch through `BatchFits`, which rests on `BatchFacts`: what is taken from a queue and what
is left of it share nothing and are together what there was. `StoppedNeverStarts` then needs
`Dated` alone, and `WakeUpIsKept` needs `Full` and `Apart`: the deferral of a batch always
adds an entry, and so sets the interval that will wake the queue up.

`SelfSchedulesProofs`. `NothingIsForgotten` needs no more than types. `RunsAreClaimed` needs
`ClaimInv`: a claim that is renewed, or was just taken by a sweep, is fresh (`Renewed`,
`Swept`), so nobody takes it over; what runs, or will run again from memory, is renewed
(`Attended`); a schedule waits once in a queue (`Distinct`), and one that both runs and waits
was preempted (`Repeated`), so that the end of its turn does not complete the row under the
copy. The last part is where `LateErrors = FALSE` is needed, and the theorem assumes it: an
aborted turn that ends in its provider's error completes its row although a copy waits.

`CronSchedulerProofs`. One invariant, `Inv`, carries all four theorems; most of it is `Own`,
which is about one run. The scheduler has it at one place at most: ahead as a placement, in
the queue, or active (`Somewhere`). As long as it was not started it is neither in the room,
nor waiting for it, nor past (`Unstarted`). Its row is open exactly while the scheduler has
it, whatever else is ahead (`Recorded`): `RowsMatch` is this between two callbacks. Its
inject and its turn coexist only while the turn gives way, and a past run has neither
(`Working`): `NeverRunsTwice` follows. The rest of `Inv` is what makes `Own` inductive: ids
are given out in order and suffice (`Numbered`, which needs finitely many jobs), nothing is
ahead, queued or waiting twice (`Distinct`), a deleted job asks for nothing (`Withdrawn`),
and without a scheduler there is nothing ahead, without a process nothing in the room
(`Halted`). A poll puts its steps ahead in an order the model leaves open; the proof does
not enumerate the orders, since `Inv` asks of the list only which steps are ahead (`Has`)
and that a placement or a dispatch is there once (`Single`). `NoLooseWork` takes the steps
one by one: `Loose` is changed only by a step that moves the active run, the room or what
waits, and each of these either ends or moves work of the run it is about, or is one of
`Excused`. `Inv` was checked by TLC before it was proved, with the constants of `cron`.

Every safety invariant and every action property of the passing runs has its theorem.
Only model-checked: liveness, and the two properties that are found violated. The installed
provers reach neither liveness under fairness nor `ENABLED`. RECURSIVE operators are out of
their reach too; no module here declares one.

## Plan

Each safety invariant and action property of the modules has its theorem; the ones under
"Windows" say how far the premises reach. What would add most next are two more
compositions: gates with `TurnLease` (can an answer reach a turn that took the room over?),
and the side that answers a remote ask, its reply outbox, with `RemoteAsk`.

## Not modelled

- *Local submissions* (`submit-user-message.ts`): start or replace a turn in the process
  that runs it; the durable twin is `UserTurns`, the preemption of injects `InjectQueue`.
- *Gateway submission records, topic claims*: a unique index decides each race in one
  transaction; nothing is left to interleave but the order of two commits.
- *Gates*: rows that end with their turn; a composition with `TurnLease` would say whether
  an answer can reach a turn that took the room over.
- *Asks within a node*: `RemoteAsk` has the same race of answer and expiry, across nodes,
  with more ways to fail. The side that *answers* a remote ask (reply outbox with backoff)
  is left out with it.
- *Outbox files*: exported for hosts that embed the core; nothing inside the repository
  drains one. `AtLeastOnce` is what they would have to implement.
- *Setup of a turn* between the lease and the stream is one step; what an exception there
  leaves behind depends on the caller (a hazard in `PROJECT.json`).
- *Lifecycle and modules, MCP host, background bash, idle timers*: state within one
  process, with operating-system processes and signals at the other end.
- *Control plane, providers, transcripts, wiki, vault, adapters, command line*:
  translation, presentation and storage over the services above. Providers appear as the
  outcomes a stream can have.
