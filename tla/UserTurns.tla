------------------------------ MODULE UserTurns ------------------------------
(***************************************************************************)
(* The durable queue of user turns of one topic, and the workers of several *)
(* processes that run it.                                                   *)
(*                                                                         *)
(*   storage/runtime-turn-requests.ts            the rows                   *)
(*   application/submit-runtime-gateway-turn.ts  a message becomes a row    *)
(*   application/topic-service.ts                steer and stop             *)
(*   runtime/turn-runner.ts                      the worker, retry, settle  *)
(*                                                                         *)
(* Messages and requests share one numbering: request n carries message n.  *)
(* The topic's lease is the abstract slot that TurnLease implements under   *)
(* timely heartbeats, so a live process never loses it here.  The clock is  *)
(* reduced to one bit per claim: whether claimed_at is still fresh.         *)
(*                                                                         *)
(* A callback runs several SQLite statements in a row.  Nothing else of its *)
(* own process runs between them, but another process may: where that       *)
(* matters the callback is split, `at[p]` says where p stands in it, and     *)
(* Interleaved says at which of these places other processes are let in.     *)
(***************************************************************************)
EXTENDS Integers, FiniteSets, SequencesExt, Selections

CONSTANTS
  Process,      \* runtime instances
  Actor,        \* actorUserId
  Thread,       \* threadRootId
  Main,         \* no threadRootId: the channel itself
  Interleaved,  \* the steps of a callback at which other processes are let in
  SlowSettle,   \* whether the notifications of a failed turn may outlast a poll
  MaxRequests,  \* bound: requests ever submitted
  MaxEpoch,     \* bound: epochs of the topic
  MaxInjects,   \* bound: injected turns that take the slot
  MaxRetries,   \* bound: internal retries so far
  MaxCrashes,   \* bound: processes that die
  None          \* no claim, no turn, no request

(* Where a process may stand in a callback. *)
Step == {"claimed", "admitted", "flagging", "stopping", "compacting", "completed",
         "error", "aborted", "retry"}

ASSUME MainAssumption  == Main \in Thread
ASSUME FlagsAssumption == Interleaved \subseteq Step /\ SlowSettle \in BOOLEAN
ASSUME BoundsAssumption ==
  /\ MaxRequests \in Nat /\ MaxEpoch \in Nat /\ MaxInjects \in Nat
  /\ MaxRetries \in Nat /\ MaxCrashes \in Nat

Request == 1..MaxRequests

Row == [id : Request, msgs : Seq(Request), actor : Actor, thread : Thread,
        epoch : 0..MaxEpoch, seen : BOOLEAN, running : BOOLEAN,
        claim : Process \cup {None}, fresh : BOOLEAN]

Turn == [owner : Process, id : Request \cup {None}, msgs : Seq(Request),
         thread : Thread \cup {None}, epoch : 0..MaxEpoch,
         abort : {"none", "internal", "external"}]

ASSUME NoneAssumption ==
  /\ None \notin Process \cup Actor \cup Thread \cup Request
  /\ None \notin Row \cup Turn

VARIABLES
  sent,      \* per request: for whom, where, and whether a message came with it
  rows,      \* runtime_user_turn_requests of the topic, in (created_at, rowid) order
  epoch,     \* runtime_topic_state.epoch
  fence,     \* runtime_topic_state.maintenance
  slot,      \* the turn that holds the topic's lease
  settling,  \* turns that released the lease and have not settled yet
  at,        \* at[p]: where p stands in a callback
  up,        \* processes alive
  injects,   \* injected turns so far
  retries,   \* internal retries so far
  answered,  \* history: messages whose turn completed or failed visibly, or
             \*   that the provider's native session holds
  stopped,   \* history: messages a stop or a reset covered
  ended      \* history: request ids whose terminal outcome was published

(* What only counts towards a bound. *)
spent == <<injects, retries>>

vars == <<sent, rows, epoch, fence, slot, settling, at, up, injects, retries,
          answered, stopped, ended>>

-----------------------------------------------------------------------------
(* The queries of runtime-turn-requests.ts. *)

Resting     == [step |-> "idle", row |-> None]
Accepted    == {m \in DOMAIN sent : sent[m].said}
MsgsOf(rs)  == UNION {ToSet(rs[i].msgs) : i \in DOMAIN rs}
Ids(rs)     == {rs[i].id : i \in DOMAIN rs}

Without(rs, ids) == Picked(rs, {i \in DOMAIN rs : rs[i].id \notin ids})

(* The messages of the rows at the places S, in order. *)
Said(rs, S) == Joined([i \in DOMAIN rs |-> IF i \in S THEN rs[i].msgs ELSE <<>>])

(* getActiveRuntimeUserTurnRequest: the oldest row a worker holds. *)
IsActive(r)   == r.running \/ (r.claim # None /\ r.fresh)
Actives       == {i \in DOMAIN rows : IsActive(rows[i])}
HasActive     == Actives # {}
ActiveAt      == CHOOSE i \in Actives : \A j \in Actives : i <= j
Active        == rows[ActiveAt]

(* Mutant: threads are not told apart. *)
AbsorbedAnyThread(rs, new, kept) ==
  LET others == {k \in DOMAIN rs : rs[k].id \notin kept /\ rs[k].actor # new.actor}
  IN  {k \in DOMAIN rs : rs[k].id \notin kept /\ \A o \in others : o < k}

(* mergeRuntimeUserTurnRequest: the rows of the thread that end in an       *)
(* unbroken run of the same actor's fold into the new one.  Their places.   *)
Absorbed(rs, new, kept) ==
  LET here   == {k \in DOMAIN rs : rs[k].thread = new.thread /\ rs[k].id \notin kept}
      others == {k \in here : rs[k].actor # new.actor}
  IN  {k \in here : \A o \in others : o < k}

(* What a merge carries on, and what it leaves to the provider's session.    *)
Carried(rs, new, kept) == {k \in Absorbed(rs, new, kept) : ~rs[k].seen}
Omitted(rs, new, kept) ==
  UNION {ToSet(rs[k].msgs) : k \in {l \in Absorbed(rs, new, kept) : rs[l].seen}}
Remaining(rs, new, kept) == Picked(rs, DOMAIN rs \ Absorbed(rs, new, kept))

(* Mutant: the new message goes in front. *)
MergeReversed(rs, new, kept, included) ==
  Append(Remaining(rs, new, kept),
         [new EXCEPT !.msgs = @ \o Said(rs, Carried(rs, new, kept))])

(* Their messages go in front of the new ones, except those the provider's   *)
(* session already holds; the part of the new batch that repeats an included *)
(* row is not repeated.                                                      *)
Merge(rs, new, kept, included) ==
  LET old  == Said(rs, {k \in Carried(rs, new, kept) : rs[k].id \in included})
      rest == IF IsPrefix(old, new.msgs)
              THEN SubSeq(new.msgs, Len(old) + 1, Len(new.msgs)) ELSE new.msgs
  IN  Append(Remaining(rs, new, kept),
             [new EXCEPT !.msgs = Said(rs, Carried(rs, new, kept)) \o rest])

(* The row an INSERT of a new request makes. *)
Pending(id, msgs, a, t, e) ==
  [id |-> id, msgs |-> msgs, actor |-> a, thread |-> t, epoch |-> e,
   seen |-> FALSE, running |-> FALSE, claim |-> None, fresh |-> FALSE]

(* requestRuntimeTurnAbort(topicId): whatever turn holds the lease is told. *)
Flagged(reason) ==
  IF slot = None THEN None
  ELSE [slot EXCEPT !.abort = IF @ = "external" THEN @ ELSE reason]

(* completeRuntimeUserTurnRequest *)
Complete(rs, id, p) == Picked(rs, {i \in DOMAIN rs : ~(rs[i].id = id /\ rs[i].claim = p)})

(* cancelRuntimeUserTurnRequestsBeforeEpoch *)
Current(rs) == Picked(rs, {i \in DOMAIN rs : rs[i].epoch >= epoch})

(* None of the processes P stands where nobody is let in. *)
Open(P) == \A p \in P : at[p] = Resting \/ at[p].step \in Interleaved
Quiet   == Open(Process)

(* p goes on with its callback. *)
Stands(p, step) == at[p].step = step /\ Open(Process \ {p})

Free(p) == p \in up /\ at[p] = Resting /\ Quiet

-----------------------------------------------------------------------------
Init ==
  /\ sent = <<>> /\ rows = <<>> /\ epoch = 0 /\ fence = FALSE
  /\ slot = None /\ settling = {} /\ at = [p \in Process |-> Resting]
  /\ up = Process /\ injects = 0 /\ retries = 0
  /\ answered = {} /\ stopped = {} /\ ended = {}

(* Mutant: the abort is asked for whatever the merge absorbed. *)
SubmitSteeringAnyone(p, a, t, steer) ==
  LET id   == Len(sent) + 1
      new  == Pending(id, <<id>>, a, t, epoch)
      kept == IF ~steer /\ HasActive THEN {Active.id} ELSE {}
  IN  /\ Free(p)
      /\ id \in Request
      /\ sent' = Append(sent, [actor |-> a, thread |-> t, said |-> TRUE])
      /\ rows' = Merge(rows, new, kept, {})
      /\ answered' = answered \cup Omitted(rows, new, kept)
      /\ at' = IF HasActive THEN [at EXCEPT ![p].step = "flagging"] ELSE at
      /\ UNCHANGED <<epoch, fence, slot, settling, up, spent, stopped, ended>>

(* submitRuntimeGatewayTurn: one transaction records and merges the message; *)
(* only if the merge absorbed the active request is its turn to be aborted.  *)
Submit(p, a, t, steer) ==
  LET id   == Len(sent) + 1
      new  == Pending(id, <<id>>, a, t, epoch)
      kept == IF ~steer /\ HasActive THEN {Active.id} ELSE {}
  IN  /\ Free(p)
      /\ id \in Request
      /\ sent' = Append(sent, [actor |-> a, thread |-> t, said |-> TRUE])
      /\ rows' = Merge(rows, new, kept, {})
      /\ answered' = answered \cup Omitted(rows, new, kept)
      /\ at' = IF HasActive /\ ActiveAt \in Absorbed(rows, new, kept)
               THEN [at EXCEPT ![p].step = "flagging"] ELSE at
      /\ UNCHANGED <<epoch, fence, slot, settling, up, spent, stopped, ended>>

(* steerQueuedTurn: fold the queue into the running turn, with no message.   *)
SteerQueued(p) ==
  LET id     == Len(sent) + 1
      latest == Last(rows)
      new    == [Pending(id, <<>>, latest.actor, latest.thread, latest.epoch)
                   EXCEPT !.seen = latest.seen]
  IN  /\ Free(p)
      /\ id \in Request
      /\ HasActive
      /\ latest.id # Active.id
      /\ latest.actor = Active.actor
      /\ sent' = Append(sent, [actor |-> latest.actor, thread |-> latest.thread, said |-> FALSE])
      /\ rows' = Merge(rows, new, {}, {})
      /\ answered' = answered \cup Omitted(rows, new, {})
      /\ at' = IF ActiveAt \in Absorbed(rows, new, {})
               THEN [at EXCEPT ![p].step = "flagging"] ELSE at
      /\ UNCHANGED <<epoch, fence, slot, settling, up, spent, stopped, ended>>

(* The abort of a steer, a statement after the transaction has committed.    *)
FlagSteer(p) ==
  /\ Stands(p, "flagging")
  /\ slot' = Flagged("internal")
  /\ at' = [at EXCEPT ![p] = Resting]
  /\ UNCHANGED <<sent, rows, epoch, fence, settling, up, spent, answered,
                 stopped, ended>>

(* Mutant: a row whose claim went stale is not claimed again. *)
ClaimableOnce(r) ==
  /\ slot = None /\ ~fence
  /\ r.epoch = epoch
  /\ r.claim = None
  /\ \A i \in DOMAIN rows : rows[i].id # r.id => rows[i].claim = None \/ ~rows[i].fresh

(* Mutant: another row's live claim does not matter. *)
ClaimableAlone(r) ==
  /\ slot = None /\ ~fence
  /\ r.epoch = epoch
  /\ r.claim = None \/ ~r.fresh

(* claimNextRuntimeUserTurnRequest, for one row of the topic. *)
Claimable(r) ==
  /\ slot = None /\ ~fence
  /\ r.epoch = epoch
  /\ r.claim = None \/ ~r.fresh
  /\ \A i \in DOMAIN rows : rows[i].id # r.id => rows[i].claim = None \/ ~rows[i].fresh

(* The worker of p claims the oldest claimable row and keeps a copy of it.   *)
Claim(p) ==
  /\ Free(p)
  /\ \E i \in DOMAIN rows :
       /\ Claimable(rows[i])
       /\ \A j \in 1..(i - 1) : ~Claimable(rows[j])
       /\ rows' = [rows EXCEPT ![i].claim = p, ![i].fresh = TRUE]
       /\ at' = [at EXCEPT ![p] = [step |-> "claimed", row |-> rows'[i]]]
  /\ UNCHANGED <<sent, epoch, fence, slot, settling, up, spent, answered,
                 stopped, ended>>

(* startAiTurn, first part: work of an older epoch is settled and dropped.   *)
Admit(p) ==
  /\ Stands(p, "claimed")
  /\ IF at[p].row.epoch = epoch
     THEN /\ at' = [at EXCEPT ![p].step = "admitted"]
          /\ UNCHANGED <<rows, stopped>>
     ELSE /\ rows' = Complete(rows, at[p].row.id, p)
          /\ stopped' = stopped \cup ToSet(at[p].row.msgs)
          /\ at' = [at EXCEPT ![p] = Resting]
  /\ UNCHANGED <<sent, epoch, fence, slot, settling, up, spent, answered, ended>>

-----------------------------------------------------------------------------
(* waitToStartRemoteUserTurn queues the turn under its own id again.  The     *)
(* execution it serializes has no threadRootId.  If the merge leaves a row of *)
(* that id standing, the INSERT breaks the primary key and the transaction is *)
(* rolled back.                                                               *)
Requeued(t) == Pending(t.id, t.msgs, sent[t.id].actor, Main, t.epoch)
Requeueable(t) == t.id \notin Ids(Remaining(rows, Requeued(t), {}))
Requeue(t) ==
  /\ rows' = Merge(rows, Requeued(t), {}, {t.id})
  /\ answered' = answered \cup Omitted(rows, Requeued(t), {})

(* Another process took the slot.  It is told to abort if the request a worker *)
(* holds, other than ours, belongs to the same actor.                         *)
Displaced(t) ==
  IF HasActive /\ Active.id # t.id /\ Active.actor = sent[t.id].actor
  THEN Flagged("internal") ELSE slot

Started(p, t, th) ==
  [owner |-> p, id |-> t.id, msgs |-> t.msgs, thread |-> th, epoch |-> t.epoch,
   abort |-> "none"]

(* setRoomQuery claims the lease and the worker marks the row running.        *)
Take(p) ==
  /\ Stands(p, "admitted")
  /\ slot = None /\ ~fence
  /\ slot' = Started(p, at[p].row, at[p].row.thread)
  /\ rows' = [i \in DOMAIN rows |->
                IF rows[i].id = at[p].row.id /\ rows[i].claim = p
                THEN [rows[i] EXCEPT !.running = TRUE, !.fresh = TRUE]
                ELSE rows[i]]
  /\ at' = [at EXCEPT ![p] = Resting]
  /\ UNCHANGED <<sent, epoch, fence, settling, up, spent, answered, stopped, ended>>

(* The lease went to somebody else, or a fence rose, since the claim.  When   *)
(* queueing again throws, the row stays claimed until its claim is stale.     *)
TakeFails(p) ==
  /\ Stands(p, "admitted")
  /\ slot # None \/ fence
  /\ slot' = Displaced(at[p].row)
  /\ IF Requeueable(at[p].row) THEN Requeue(at[p].row) ELSE UNCHANGED <<rows, answered>>
  /\ at' = [at EXCEPT ![p] = Resting]
  /\ UNCHANGED <<sent, epoch, fence, settling, up, spent, stopped, ended>>

(* A turn injected by another topic takes the free slot.                      *)
Inject(p) ==
  /\ Free(p)
  /\ slot = None /\ ~fence
  /\ injects < MaxInjects
  /\ injects' = injects + 1
  /\ slot' = [owner |-> p, id |-> None, msgs |-> <<>>, thread |-> None,
              epoch |-> epoch, abort |-> "none"]
  /\ UNCHANGED <<sent, rows, epoch, fence, settling, at, up, retries, answered, stopped, ended>>

(* The provider's output proves that its session has the prompt.             *)
ProviderContent(p) ==
  /\ Free(p)
  /\ slot # None /\ slot.owner = p /\ slot.id # None
  /\ \E i \in DOMAIN rows : rows[i].id = slot.id /\ ~rows[i].seen
  /\ rows' = [i \in DOMAIN rows |->
                IF rows[i].id = slot.id THEN [rows[i] EXCEPT !.seen = TRUE] ELSE rows[i]]
  /\ UNCHANGED <<sent, epoch, fence, slot, settling, at, up, spent, answered,
                 stopped, ended>>

-----------------------------------------------------------------------------
(* What is left of a turn once its lease is gone and its row is not: nothing  *)
(* reads its abort flag any more, and its thread only the notice of an error. *)
Left(t) == [t EXCEPT !.thread = None, !.abort = "none"]

(* streamAgentEvents unwinds and clears the slot.  An abort may come too late *)
(* to be noticed.  A retry is not an outcome; everything else publishes one.  *)
(* After an error turn-runner awaits the notification of askers and parents,  *)
(* and p is free meanwhile; otherwise it goes straight on.                    *)
TurnEnds(p) ==
  /\ Free(p)
  /\ slot # None /\ slot.owner = p
  /\ slot' = None
  /\ IF slot.id = None
     THEN UNCHANGED <<settling, at, ended, retries>>
     ELSE \E kind \in {"completed", "error", "aborted", "retry"} :
            /\ kind = "aborted" => slot.abort # "none"
            /\ kind = "retry" => retries < MaxRetries
            /\ retries' = IF kind = "retry" THEN retries + 1 ELSE retries
            /\ ended' = IF kind = "retry" THEN ended ELSE ended \cup {slot.id}
            /\ IF kind = "error" /\ SlowSettle
               THEN settling' = settling \cup {Left(slot)} /\ UNCHANGED at
               ELSE /\ at' = [at EXCEPT ![p] = [step |-> kind, row |-> slot]]
                    /\ UNCHANGED settling
  /\ UNCHANGED <<sent, rows, epoch, fence, up, injects, answered, stopped>>

(* onSettled, straight after the end of the stream: the row is complete.      *)
Settle(p) ==
  /\ \E step \in {"completed", "error", "aborted"} : Stands(p, step)
  /\ rows' = Complete(rows, at[p].row.id, p)
  /\ answered' = IF at[p].step = "aborted" THEN answered
                 ELSE answered \cup ToSet(at[p].row.msgs)
  /\ at' = [at EXCEPT ![p] = Resting]
  /\ UNCHANGED <<sent, epoch, fence, slot, settling, up, spent, stopped, ended>>

(* onSettled of a failed turn, after what it awaited.                         *)
SettleError(p) ==
  \E t \in settling :
    /\ Free(p)
    /\ t.owner = p
    /\ settling' = settling \ {t}
    /\ rows' = Complete(rows, t.id, p)
    /\ answered' = answered \cup ToSet(t.msgs)
    /\ UNCHANGED <<sent, epoch, fence, slot, at, up, spent, stopped, ended>>

(* Mutant: the first attempt completes the row. *)
RestartCompleting(p) ==
  LET t == at[p].row IN
  /\ Stands(p, "retry")
  /\ t.epoch = epoch
  /\ slot = None /\ ~fence
  /\ slot' = Started(p, t, Main)
  /\ rows' = Complete(rows, t.id, p)
  /\ at' = [at EXCEPT ![p] = Resting]
  /\ UNCHANGED <<sent, epoch, fence, settling, up, spent, answered, stopped, ended>>

(* An expired session or an empty response: startAiTurn once more under the   *)
(* same id, without threadRootId ...                                          *)
Restart(p) ==
  LET t == at[p].row IN
  /\ Stands(p, "retry")
  /\ t.epoch = epoch
  /\ slot = None /\ ~fence
  /\ slot' = Started(p, t, Main)
  /\ at' = [at EXCEPT ![p] = Resting]
  /\ UNCHANGED <<sent, rows, epoch, fence, settling, up, spent, answered,
                 stopped, ended>>

(* ... unless the epoch has moved ...                                        *)
RestartDropped(p) ==
  LET t == at[p].row IN
  /\ Stands(p, "retry")
  /\ t.epoch # epoch
  /\ rows' = Complete(rows, t.id, p)
  /\ stopped' = stopped \cup ToSet(t.msgs)
  /\ ended' = ended \cup {t.id}
  /\ at' = [at EXCEPT ![p] = Resting]
  /\ UNCHANGED <<sent, epoch, fence, slot, settling, up, spent, answered>>

(* ... or the slot is gone.  If queueing again throws, the turn fails.        *)
RestartFails(p) ==
  LET t == at[p].row IN
  /\ Stands(p, "retry")
  /\ t.epoch = epoch
  /\ slot # None \/ fence
  /\ slot' = Displaced(t)
  /\ IF Requeueable(t)
     THEN Requeue(t) /\ UNCHANGED <<settling, ended>>
     ELSE /\ settling' = settling \cup {Left(t)}
          /\ ended' = ended \cup {t.id}
          /\ UNCHANGED <<rows, answered>>
  /\ at' = [at EXCEPT ![p] = Resting]
  /\ UNCHANGED <<sent, epoch, fence, up, spent, stopped>>

(* A claim was last refreshed more than REQUEST_CLAIM_STALE_MS ago: the turn  *)
(* ran long, or its process died.  A callback on its way from a claim to its  *)
(* turn is over long before that.                                            *)
ClaimAges ==
  /\ Quiet
  /\ \A p \in Process : at[p].step \in {"idle", "retry"}
  /\ \E i \in DOMAIN rows :
       /\ rows[i].claim # None /\ rows[i].fresh
       /\ rows' = [rows EXCEPT ![i].fresh = FALSE]
  /\ UNCHANGED <<sent, epoch, fence, slot, settling, at, up, spent, answered,
                 stopped, ended>>

-----------------------------------------------------------------------------
(* abortTurn, or a reset or deletion, raises the fence and the epoch; what   *)
(* was accepted until here is covered by it ...                              *)
Stop(p) ==
  /\ Free(p)
  /\ ~fence /\ epoch < MaxEpoch
  /\ epoch' = epoch + 1
  /\ fence' = TRUE
  /\ stopped' = stopped \cup (Accepted \ answered)
  /\ at' = [at EXCEPT ![p].step = "stopping"]
  /\ UNCHANGED <<sent, rows, slot, settling, up, spent, answered, ended>>

(* Mutant: the abort is forgotten. *)
CancelQueueOnly(p) ==
  /\ Stands(p, "stopping")
  /\ rows' = Current(rows)
  /\ at' = [at EXCEPT ![p] = Resting]
  /\ UNCHANGED <<sent, epoch, fence, slot, settling, up, spent, answered,
                 stopped, ended>>

(* ... cancelBeforeEpoch and the abort of the running turn.                  *)
Cancel(p) ==
  /\ Stands(p, "stopping")
  /\ rows' = Current(rows)
  /\ slot' = Flagged("external")
  /\ at' = [at EXCEPT ![p] = Resting]
  /\ UNCHANGED <<sent, epoch, fence, settling, up, spent, answered, stopped, ended>>

(* finish() of the handle; a fence whose process died goes stale.            *)
Unfence ==
  /\ fence
  /\ \A p \in Process : at[p].step # "stopping"
  /\ Quiet
  /\ fence' = FALSE
  /\ UNCHANGED <<sent, rows, epoch, slot, settling, at, up, spent, answered,
                 stopped, ended>>

(* Mutant: only a running turn counts as work. *)
CompactOverQueue(p) ==
  /\ Free(p)
  /\ epoch < MaxEpoch
  /\ slot = None
  /\ at' = [at EXCEPT ![p].step = "compacting"]
  /\ UNCHANGED <<sent, rows, epoch, fence, slot, settling, up, spent, answered,
                 stopped, ended>>

(* compactTopicSession, not preemptive: first look for work ...              *)
Compact(p) ==
  /\ Free(p)
  /\ epoch < MaxEpoch
  /\ rows = <<>> /\ slot = None
  /\ at' = [at EXCEPT ![p].step = "compacting"]
  /\ UNCHANGED <<sent, rows, epoch, fence, slot, settling, up, spent, answered,
                 stopped, ended>>

(* ... then begin maintenance.  Whether it goes on or finds work and bails,   *)
(* it cancels nothing and ends with finish().                                *)
CompactBegins(p) ==
  /\ Stands(p, "compacting")
  /\ IF fence \/ epoch >= MaxEpoch
     THEN UNCHANGED <<epoch, fence>>
     ELSE epoch' = epoch + 1 /\ fence' = TRUE
  /\ at' = [at EXCEPT ![p] = Resting]
  /\ UNCHANGED <<sent, rows, slot, settling, up, spent, answered, stopped, ended>>

(* A process dies with everything it held in memory; others go on.           *)
Crash(p) ==
  /\ at[p].step \in {"idle", "claimed", "admitted"} \cup Interleaved
  /\ p \in up /\ up # {p}
  /\ Cardinality(Process \ up) < MaxCrashes
  /\ up' = up \ {p}
  /\ settling' = {t \in settling : t.owner # p}
  /\ at' = [at EXCEPT ![p] = Resting]
  /\ UNCHANGED <<sent, rows, epoch, fence, slot, spent, answered, stopped, ended>>

(* The lease of a dead process goes stale.                                   *)
LeaseExpires ==
  /\ slot # None /\ slot.owner \notin up
  /\ Quiet
  /\ slot' = None
  /\ UNCHANGED <<sent, rows, epoch, fence, settling, at, up, spent, answered,
                 stopped, ended>>

Next ==
  \/ \E p \in Process :
       \/ \E a \in Actor, t \in Thread, steer \in BOOLEAN : Submit(p, a, t, steer)
       \/ SteerQueued(p) \/ FlagSteer(p)
       \/ Claim(p) \/ Admit(p) \/ Take(p) \/ TakeFails(p)
       \/ Inject(p) \/ ProviderContent(p)
       \/ TurnEnds(p) \/ Settle(p) \/ SettleError(p)
       \/ Restart(p) \/ RestartDropped(p) \/ RestartFails(p)
       \/ Stop(p) \/ Cancel(p) \/ Compact(p) \/ CompactBegins(p)
       \/ Crash(p)
  \/ ClaimAges \/ Unfence \/ LeaseExpires

Spec == Init /\ [][Next]_vars

(* A worker polls every 100 ms, a callback that started runs on, claims and   *)
(* leases age with the clock, maintenance finishes, and a provider's stream   *)
(* ends one way or the other; nobody has to write, steer, stop or die.        *)
Fairness ==
  /\ WF_vars(ClaimAges) /\ WF_vars(Unfence) /\ WF_vars(LeaseExpires)
  /\ \A p \in Process :
       /\ WF_vars(FlagSteer(p)) /\ WF_vars(Claim(p)) /\ WF_vars(Admit(p))
       /\ WF_vars(Take(p)) /\ WF_vars(TakeFails(p)) /\ WF_vars(TurnEnds(p))
       /\ WF_vars(Settle(p)) /\ SF_vars(SettleError(p)) /\ WF_vars(Restart(p))
       /\ WF_vars(RestartDropped(p)) /\ WF_vars(RestartFails(p))
       /\ WF_vars(Cancel(p)) /\ WF_vars(CompactBegins(p))

FairSpec == Spec /\ Fairness

-----------------------------------------------------------------------------
(* A row or a turn that was submitted, and carries accepted messages. *)
Known(t) == t.id \in DOMAIN sent \cup {None} /\ ToSet(t.msgs) \subseteq Accepted

(* Every variable keeps to its type: ids are minted once and in order, and    *)
(* the records have the fields the storage code reads and writes.             *)
TypeOK ==
  /\ sent \in Seq([actor : Actor, thread : Thread, said : BOOLEAN])
  /\ Len(sent) <= MaxRequests
  /\ rows \in Seq(Row)
  /\ \A i \in DOMAIN rows :
       /\ rows[i].id \in DOMAIN sent
       /\ ToSet(rows[i].msgs) \subseteq Accepted
       /\ rows[i].running \/ rows[i].fresh => rows[i].claim # None
  /\ \A i, j \in DOMAIN rows : rows[i].id = rows[j].id => i = j
  /\ epoch \in 0..MaxEpoch /\ fence \in BOOLEAN
  /\ slot \in Turn \cup {None}
  /\ slot # None => Known(slot)
  /\ settling \subseteq Turn
  /\ \A t \in settling : Known(t) /\ t.id # None /\ t.owner \in up
  /\ at \in [Process -> [step : Step \cup {"idle"}, row : Row \cup Turn \cup {None}]]
  /\ \A p \in Process :
       /\ at[p].step \in {"claimed", "admitted"} => at[p].row \in Row /\ Known(at[p].row)
       /\ at[p].step \in {"completed", "error", "aborted", "retry"}
            => /\ at[p].row \in Turn /\ Known(at[p].row)
               /\ at[p].row.id # None /\ at[p].row.owner = p
       /\ at[p].step \in {"idle", "flagging", "stopping", "compacting"} => at[p].row = None
       /\ p \notin up => at[p] = Resting
  /\ up \subseteq Process
  /\ injects \in 0..MaxInjects /\ retries \in 0..MaxRetries
  /\ answered \cup stopped \subseteq Accepted
  /\ ended \subseteq DOMAIN sent

(* No message falls out of the system: until a turn has answered it or failed *)
(* on it, or a stop has covered it, some row carries it - through merges,      *)
(* steers, retries, settlements and crashes of the process that runs it.       *)
NothingIsDropped == Accepted \subseteq MsgsOf(rows) \cup answered \cup stopped

(* A turn that is told it is superseded has a replacement: its messages are    *)
(* in a row that waits, or in the provider's session, not only in the turn.    *)
SupersededIsReplaced ==
  slot # None /\ slot.abort = "internal" =>
    ToSet(slot.msgs) \subseteq
      MsgsOf(Without(rows, {slot.id})) \cup answered \cup stopped

(* Claims choose exactly one row and one worker, however processes interleave: *)
(* two rows of the topic are never held by fresh claims at once.               *)
ClaimsAreExclusive ==
  \A i, j \in DOMAIN rows : rows[i].fresh /\ rows[j].fresh => i = j

(* A turn never answers in a thread what was written elsewhere: its messages    *)
(* are all of the thread it answers in, or it answers in the channel.  That is  *)
(* where a second attempt of a turn and a turn queued again answer, since both  *)
(* are started without threadRootId, and all that is folded into their row.     *)
AnswersInThread ==
  slot # None => \A m \in ToSet(slot.msgs) : slot.thread \in {sent[m].thread, Main}

(* A row speaks for one person, so that nobody's words run under another's     *)
(* authority, and within one conversation (an actor in a thread) messages stay *)
(* in order of arrival, inside a batch and from one row to the next.           *)
ArrivalOrder ==
  \A i, j \in DOMAIN rows : \A k \in DOMAIN rows[i].msgs, l \in DOMAIN rows[j].msgs :
    /\ sent[rows[i].msgs[k]].actor = rows[i].actor
    /\ rows[i].actor = rows[j].actor /\ rows[i].thread = rows[j].thread
         /\ (i < j \/ (i = j /\ k < l))
       => rows[i].msgs[k] < rows[j].msgs[l]

(* A message of somebody else, or of another thread, never aborts a turn: when *)
(* a turn is superseded, a later message of its own conversation was accepted. *)
OnlyOwnFollowUpSteers ==
  slot # None /\ slot.abort = "internal" /\ slot.id # None =>
    \E m \in DOMAIN sent : /\ m > slot.id
                           /\ sent[m].actor = sent[slot.id].actor
                           /\ sent[m].thread = sent[slot.id].thread

(* Once a stop has cancelled the queue, what it covered runs no further: a     *)
(* turn that still carries a covered message has been told to abort.           *)
StoppedStaysStopped ==
  slot # None /\ (\A p \in Process : at[p].step # "stopping") =>
    slot.abort = "external" \/ ToSet(slot.msgs) \cap stopped = {}

(* No row is left behind by an epoch change: nothing would ever claim it.      *)
NoRowIsStranded ==
  (\A p \in Process : at[p].step # "stopping") =>
    \A i \in DOMAIN rows : rows[i].epoch = epoch

(* A turn whose terminal outcome was published is not running again.           *)
TerminalOnce == slot # None => slot.id \notin ended

(* "Answer inside this thread instead of the room's main flow" (turn-runner.ts, *)
(* 700).  Not of a second attempt, or of a turn queued again: see "Windows".    *)
KeepsItsThread ==
  slot # None => \A m \in ToSet(slot.msgs) : slot.thread = sent[m].thread

(* Every accepted message is eventually answered, failed on or stopped.        *)
EveryMessageSettles ==
  \A m \in Request : [](m \in Accepted => <>(m \in answered \cup stopped))
=============================================================================
