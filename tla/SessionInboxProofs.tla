-------------------------- MODULE SessionInboxProofs --------------------------
(***************************************************************************)
(* Machine-checked facts about the process lease and the session inbox that *)
(* rests on it, for every set of processes and messages, every staleness    *)
(* and batch limit and every number of faults.                              *)
(***************************************************************************)
EXTENDS SessionInbox, TLAPS

USE RoleStaleAssumption, MaxDelayAssumption, WritesFailAssumption, NoneAssumption

(***************************************************************************)
(* The process lease, on which the election of the inbox rests.             *)
(***************************************************************************)

-----------------------------------------------------------------------------
(* An age grows by at most one unit and saturates.                          *)
LEMMA OlderAge ==
  ASSUME NEW age \in 0..(RoleStale + 1)
  PROVE  Older(age) \in 0..(RoleStale + 1) /\ Older(age) <= age + 1
BY DEF Older

(* The clock keeps every handle.                                            *)
LEMMA TickedHandle ==
  ASSUME LeaseTypeOK, Tick, NEW p \in Process, held[p] # None
  PROVE  [beat |-> Older(held[p].beat), quiet |-> held[p].quiet + 1] \in Handle
<1>1. held[p] \in Handle /\ held[p].quiet < MaxDelay
  BY DEF Tick, LeaseTypeOK
<1>2. Older(held[p].beat) \in 0..(RoleStale + 1)
  BY <1>1, OlderAge DEF Handle
<1>3. QED BY <1>1, <1>2 DEF Handle

(* Type correctness of the row and of the handles, one step at a time.       *)
LEMMA TypeStep == LeaseTypeOK /\ [LeaseNext]_leaseVars => LeaseTypeOK'
<1> SUFFICES ASSUME LeaseTypeOK, [LeaseNext]_leaseVars PROVE LeaseTypeOK'
  OBVIOUS
<1> DEFINE new == [beat |-> 0, quiet |-> 0]
<1>1. new \in Handle
  BY DEF Handle
<1>2. ASSUME NEW p \in Process, Acquire(p)
      PROVE  LeaseTypeOK'
  <2>1. [owner |-> p, age |-> 0] \in LeaseRow
    BY DEF LeaseRow
  <2>2. QED BY <1>1, <1>2, <2>1 DEF Acquire, LeaseTypeOK
<1>3. ASSUME NEW p \in Process, Heartbeat(p)
      PROVE  LeaseTypeOK'
  <2>1. [row EXCEPT !.age = 0] \in LeaseRow
    BY <1>3 DEF Heartbeat, Owns, LeaseTypeOK, LeaseRow
  <2>2. QED BY <1>1, <1>3, <2>1 DEF Heartbeat, LeaseTypeOK
<1>4. ASSUME NEW p \in Process, HeartbeatFails(p)
      PROVE  LeaseTypeOK'
  <2>1. held[p] \in Handle
    BY <1>4 DEF HeartbeatFails, LeaseTypeOK
  <2>2. [beat |-> held[p].beat, quiet |-> 0] \in Handle
    BY <2>1 DEF Handle
  <2>3. QED BY <1>4, <2>2 DEF HeartbeatFails, LeaseTypeOK
<1>5. CASE Tick
  <2>1. row # None => [row EXCEPT !.age = Older(@)] \in LeaseRow
    BY OlderAge DEF LeaseTypeOK, LeaseRow
  <2>2. \A p \in Process : held[p] # None =>
          [beat |-> Older(held[p].beat), quiet |-> held[p].quiet + 1] \in Handle
    BY <1>5, TickedHandle
  <2>3. QED BY <1>5, <2>1, <2>2 DEF Tick, LeaseTypeOK
<1>6. ASSUME NEW p \in Process, Lose(p) \/ Release(p) \/ Die(p)
      PROVE  LeaseTypeOK'
  BY <1>6 DEF Lose, Release, Die, LeaseTypeOK
<1>7. CASE UNCHANGED leaseVars
  BY <1>7 DEF leaseVars, LeaseTypeOK
<1>8. QED
  BY <1>2, <1>3, <1>4, <1>5, <1>6, <1>7 DEF LeaseNext, Monitor

(* Type correctness of the row and of the handles.                          *)
THEOREM LeaseTypeCorrect == LeaseSpec => []LeaseTypeOK
<1>1. LeaseInit => LeaseTypeOK
  BY DEF LeaseInit, LeaseTypeOK
<1>2. QED BY <1>1, TypeStep, PTL DEF LeaseSpec

-----------------------------------------------------------------------------
(* No live holder's callback has been late for longer than the limit.        *)
InTime == \A p \in Process : held[p] # None => held[p].quiet <= RoleStale

(* While callbacks are in time, nobody can claim a row under a holder.       *)
LEMMA HolderKeepsRow ==
  ASSUME LeaseTypeOK, Incumbency, InTime, NEW p \in Process, held[p] # None
  PROVE  ~Free
<1>1. row # None /\ row.owner = p /\ up[p] /\ row.age <= held[p].quiet
  BY DEF Incumbency, Owns
<1>2. held[p].quiet <= RoleStale /\ row.age \in Nat /\ held[p].quiet \in Nat
  BY <1>1 DEF InTime, LeaseTypeOK, LeaseRow, Handle
<1>3. QED BY <1>1, <1>2 DEF Free

(* Every step but a failing heartbeat. *)
Steady ==
  \/ \E p \in Process : Acquire(p) \/ Monitor(p) \/ Release(p) \/ Die(p)
  \/ Tick

(* Steady steps keep the incumbent.                                          *)
LEMMA IncumbencyStep ==
  ASSUME LeaseTypeOK, Incumbency, InTime, [Steady]_leaseVars
  PROVE  Incumbency'
<1>1. ASSUME NEW p \in Process, Acquire(p)
      PROVE  Incumbency'
  <2>1. \A o \in Process : held[o] = None
    BY <1>1, HolderKeepsRow DEF Acquire
  <2>2. row' \in LeaseRow /\ row'.owner = p /\ row'.age = 0
    BY <1>1 DEF Acquire, LeaseRow
  <2>3. \A o \in Process : held'[o] # None => o = p
    BY <1>1, <2>1 DEF Acquire, LeaseTypeOK
  <2>4. up'[p] /\ held'[p].quiet = 0
    BY <1>1 DEF Acquire, LeaseTypeOK
  <2>5. QED BY <2>2, <2>3, <2>4 DEF Incumbency, Owns
<1>2. ASSUME NEW p \in Process, Heartbeat(p)
      PROVE  Incumbency'
  <2>1. row \in LeaseRow /\ row' = [row EXCEPT !.age = 0] /\ up' = up
    BY <1>2 DEF Heartbeat, Owns, LeaseTypeOK
  <2>2. row' # None /\ row'.owner = row.owner /\ row'.age = 0
    <3>1. row' \in LeaseRow
      BY <2>1 DEF LeaseRow
    <3>2. QED BY <2>1, <3>1 DEF LeaseRow
  <2>3. \A o \in Process : held'[o] # None => held[o] # None /\ held'[o].quiet >= 0
    BY <1>2 DEF Heartbeat, LeaseTypeOK, Handle
  <2>4. QED BY <2>1, <2>2, <2>3 DEF Incumbency, Owns
<1>3. ASSUME NEW p \in Process, Lose(p)
      PROVE  Incumbency'
  BY <1>3 DEF Lose, Incumbency, Owns, LeaseTypeOK
<1>4. ASSUME NEW p \in Process, Release(p)
      PROVE  Incumbency'
  <2>1. \A o \in Process \ {p} : held[o] = None
    BY <1>4 DEF Release, Incumbency, Owns
  <2>2. QED BY <1>4, <2>1 DEF Release, Incumbency, LeaseTypeOK
<1>5. ASSUME NEW p \in Process, Die(p)
      PROVE  Incumbency'
  BY <1>5 DEF Die, Incumbency, Owns, LeaseTypeOK
<1>6. CASE Tick
  <2> SUFFICES ASSUME NEW p \in Process, held'[p] # None
               PROVE  up'[p] /\ row' # None /\ row'.owner = p /\ row'.age <= held'[p].quiet
    BY DEF Incumbency, Owns
  <2>1. held[p] # None /\ held'[p].quiet = held[p].quiet + 1 /\ up' = up
    BY <1>6 DEF Tick
  <2>2. up[p] /\ row \in LeaseRow /\ row.owner = p /\ row.age <= held[p].quiet
    BY <2>1 DEF Incumbency, Owns, LeaseTypeOK
  <2>3. row' = [row EXCEPT !.age = Older(row.age)]
    BY <1>6, <2>2 DEF Tick
  <2>4. Older(row.age) \in 0..(RoleStale + 1) /\ Older(row.age) <= row.age + 1
    BY <2>2, OlderAge DEF LeaseRow
  <2>5. row' \in LeaseRow /\ row'.owner = row.owner /\ row'.age = Older(row.age)
    BY <2>2, <2>3, <2>4 DEF LeaseRow
  <2>6. held[p].quiet \in Nat
    BY <2>1 DEF LeaseTypeOK, Handle
  <2>7. QED BY <2>1, <2>2, <2>4, <2>5, <2>6 DEF LeaseRow
<1>7. CASE UNCHANGED leaseVars
  BY <1>7 DEF leaseVars, Incumbency, Owns
<1>8. QED
  BY <1>1, <1>2, <1>3, <1>4, <1>5, <1>6, <1>7 DEF Steady, Monitor

(* A holder under timely, successful heartbeats owns a row nobody can take.  *)
LEMMA IncumbencyHolds ==
  ASSUME TimelyHeartbeats
  PROVE  LeaseSpec => []Incumbency
<1>1. LeaseInit => Incumbency
  BY DEF LeaseInit, Incumbency
<1>2. LeaseTypeOK => InTime
  BY DEF LeaseTypeOK, InTime, Handle, TimelyHeartbeats
<1>3. [LeaseNext]_leaseVars => [Steady]_leaseVars
  BY DEF LeaseNext, Steady, HeartbeatFails, TimelyHeartbeats
<1>4. LeaseTypeOK /\ Incumbency /\ [LeaseNext]_leaseVars => Incumbency'
  BY <1>2, <1>3, IncumbencyStep
<1>5. QED BY <1>1, <1>4, LeaseTypeCorrect, PTL DEF LeaseSpec

(* "Claim one cross-process role": of all processes, crashed, stopped or     *)
(* restarted, at most one believes to hold the role.                        *)
THEOREM RoleExclusion ==
  ASSUME TimelyHeartbeats
  PROVE  LeaseSpec => []OneHolder
<1>1. Incumbency => OneHolder
  BY DEF Incumbency, OneHolder, Owns
<1>2. QED BY <1>1, IncumbencyHolds, PTL

(***************************************************************************)
(* The inbox.                                                               *)
(***************************************************************************)
USE ProcessAssumption, MessageAssumption, FaultAssumption, WorkerAssumption

-----------------------------------------------------------------------------
(* What the election does is a step of the lease.                           *)
LEMMA LeaseStep == [Next]_vars => [LeaseNext]_leaseVars
BY DEF Next, Step, vars, TryLead, Beat, FailBeat, Stop, Crash, Trigger, Flush, Work,
       Claim, HandleEntry, Complete, GiveBack, Strand, Enqueue, DeleteTopic, Pass,
       LeaseNext

(* A worker that is not None, and its parts.                                 *)
LEMMA IdleWorker == Idle \in Worker /\ Idle.batch = {} /\ Idle.left = {}
BY DEF Idle, Worker

(* What HandleEntry appends.                                                 *)
LEMMA Appended ==
  ASSUME TypeOK, NEW m \in Message, ~Handled(m), first' = Append(first, m)
  PROVE  /\ first' \in Seq(Message) /\ IsInjective(first')
         /\ Len(first') = Len(first) + 1
         /\ first'[Len(first) + 1] = m
         /\ \A i \in 1..Len(first) : first'[i] = first[i]
         /\ \A k \in Message : Handled(k)' <=> Handled(k) \/ k = m
<1>1. first \in Seq(Message) /\ \A i \in DOMAIN first : first[i] # m
  BY DEF TypeOK, Handled, ToSet
<1>2. first' \in Seq(Message) /\ Len(first') = Len(first) + 1
      /\ first'[Len(first) + 1] = m /\ \A i \in 1..Len(first) : first'[i] = first[i]
  BY <1>1
<1>3. DOMAIN first = 1..Len(first) /\ DOMAIN first' = 1..(Len(first) + 1) /\ Len(first) \in Nat
  BY <1>1, <1>2
<1>4. IsInjective(first')
  BY <1>1, <1>2, <1>3 DEF TypeOK, IsInjective
<1>5. ASSUME NEW k \in Message
      PROVE  Handled(k)' <=> Handled(k) \/ k = m
  BY <1>2, <1>3 DEF Handled, ToSet
<1>6. QED BY <1>2, <1>4, <1>5

-----------------------------------------------------------------------------
(* Type correctness. *)
THEOREM TypeCorrect == Spec => []TypeOK
<1>1. Init => TypeOK
  <2>1. <<>> \in Seq(Message) /\ IsInjective(<<>>)
    BY DEF IsInjective
  <2>2. LeaseInit => LeaseTypeOK
    BY DEF LeaseInit, LeaseTypeOK
  <2>3. ASSUME Init
        PROVE  TypeOK
    <3>1. 0 \in Nat /\ 0 + 0 <= MaxFaults
      OBVIOUS
    <3>2. started \in [Process -> BOOLEAN] /\ flushing \in [Process -> BOOLEAN]
      BY <2>3 DEF Init
    <3>3. worker \in [Process -> Worker \cup {None}]
      BY <2>3 DEF Init
    <3>4. claim \in [Message -> {"unsent", "pending", "gone"} \cup Process]
      BY <2>3 DEF Init
    <3>5. open \in BOOLEAN /\ stranded \in BOOLEAN
      BY <2>3 DEF Init
    <3>6. QED BY <2>1, <2>2, <2>3, <3>1, <3>2, <3>3, <3>4, <3>5 DEF Init, TypeOK
  <2>4. QED BY <2>3
<1>2. TypeOK /\ [Next]_vars => TypeOK'
  <2> SUFFICES ASSUME TypeOK, [Next]_vars PROVE TypeOK'
    OBVIOUS
  <2>1. LeaseTypeOK'
    BY LeaseStep, TypeStep DEF TypeOK
  <2>2. ASSUME NEW p \in Process, HandleEntry(p)
        PROVE  TypeOK'
    <3>1. worker[p] \in Worker
      BY <2>2 DEF HandleEntry, Working, TypeOK
    <3>2. PICK m \in worker[p].left :
            /\ first' = IF open /\ ~Handled(m) THEN Append(first, m) ELSE first
            /\ worker' = [worker EXCEPT ![p] = [worker[p] EXCEPT !.left = @ \ {m}]]
      BY <2>2, <3>1 DEF HandleEntry, TypeOK
    <3>3. m \in Message /\ [worker[p] EXCEPT !.left = @ \ {m}] \in Worker
      BY <3>1 DEF Worker
    <3>4. worker' \in [Process -> Worker \cup {None}]
      BY <3>2, <3>3 DEF TypeOK
    <3>5. first' \in Seq(Message) /\ IsInjective(first')
      BY <3>2, <3>3, Appended DEF TypeOK
    <3>6. QED BY <2>1, <2>2, <3>4, <3>5 DEF HandleEntry, TypeOK, faults
  <2>3. ASSUME NEW p \in Process, Claim(p)
        PROVE  TypeOK'
    <3>1. PICK batch \in SUBSET Message :
            /\ claim' = [m \in Message |-> IF m \in batch THEN p ELSE claim[m]]
            /\ worker' = [worker EXCEPT ![p] = IF batch = {} THEN None
                                               ELSE [batch |-> batch, left |-> batch]]
      BY <2>3 DEF Claim
    <3>2. [batch |-> batch, left |-> batch] \in Worker
      BY DEF Worker
    <3>3. QED BY <2>1, <2>3, <3>1, <3>2 DEF Claim, TypeOK, faults
  <2>4. ASSUME NEW p \in Process, TryLead(p)
        PROVE  TypeOK'
    <3>1. claim' \in [Message -> {"unsent", "pending", "gone"} \cup Process]
      BY <2>4 DEF TryLead, Recovered, TypeOK
    <3>2. QED BY <2>1, <2>4, <3>1 DEF TryLead, TypeOK, faults
  <2>5. ASSUME NEW p \in Process, Complete(p) \/ GiveBack(p)
        PROVE  TypeOK'
    <3>1. claim' \in [Message -> {"unsent", "pending", "gone"} \cup Process]
      BY <2>5 DEF Complete, GiveBack, TypeOK
    <3>2. worker' \in [Process -> Worker \cup {None}]
      BY <2>5, IdleWorker DEF Complete, GiveBack, TypeOK
    <3>3. slips' \in Nat /\ throws' \in Nat /\ slips' + throws' <= MaxFaults
      <4>1. slips' = slips /\ (throws' = throws \/ (Spare /\ throws' = throws + 1))
        BY <2>5, Zenon DEF Complete, GiveBack, faults
      <4>2. QED BY <4>1 DEF TypeOK, Spare
    <3>4. QED BY <2>1, <2>5, <3>1, <3>2, <3>3 DEF Complete, GiveBack, TypeOK
  <2>6. ASSUME NEW p \in Process, Crash(p) \/ Flush(p) \/ Strand(p)
        PROVE  TypeOK'
    <3>1. worker' \in [Process -> Worker \cup {None}]
      <4>1. worker \in [Process -> Worker \cup {None}]
        BY DEF TypeOK
      <4>2. \E x \in Worker \cup {None} : worker' = [worker EXCEPT ![p] = x] \/ worker' = worker
        <5>1. None \in Worker \cup {None} /\ Idle \in Worker \cup {None}
          BY IdleWorker
        <5>2. \/ worker' = worker
              \/ worker' = [worker EXCEPT ![p] = None]
              \/ worker' = [worker EXCEPT ![p] = Idle]
          BY <2>6, Zenon DEF Crash, Flush, Strand
        <5>3. QED BY <5>1, <5>2
      <4>3. QED BY <4>1, <4>2
    <3>2. slips' \in Nat /\ throws' \in Nat /\ slips' + throws' <= MaxFaults
      <4>1. slips' = slips /\ (throws' = throws \/ (Spare /\ throws' = throws + 1))
        BY <2>6, Zenon DEF Crash, Flush, Strand, faults
      <4>2. QED BY <4>1 DEF TypeOK, Spare
    <3>3. flushing' \in [Process -> BOOLEAN] /\ stranded' \in BOOLEAN
      <4>1. flushing' \in [Process -> BOOLEAN]
        BY <2>6 DEF Crash, Flush, Strand, TypeOK
      <4>2. stranded' \in BOOLEAN
        <5>1. CASE Crash(p)
          BY <5>1, Zenon DEF Crash
        <5>2. CASE Flush(p) \/ Strand(p)
          BY <5>2 DEF Flush, Strand, TypeOK
        <5>3. QED BY <2>6, <5>1, <5>2
      <4>3. QED BY <4>1, <4>2
    <3>4. UNCHANGED <<started, open, claim, first>>
      BY <2>6, Zenon DEF Crash, Flush, Strand
    <3>5. QED BY <2>1, <3>1, <3>2, <3>3, <3>4 DEF TypeOK
  <2>7. ASSUME NEW m \in Message, Enqueue(m)
        PROVE  TypeOK'
    BY <2>1, <2>7 DEF Enqueue, TypeOK, faults
  <2>8. ASSUME Pass \/ \E p \in Process : FailBeat(p)
        PROVE  TypeOK'
    <3>1. slips' \in Nat /\ throws' \in Nat /\ slips' + throws' <= MaxFaults
      <4>1. throws' = throws /\ (slips' = slips \/ (Spare /\ slips' = slips + 1))
        BY <2>8 DEF Pass, FailBeat
      <4>2. QED BY <4>1 DEF TypeOK, Spare
    <3>2. QED BY <2>1, <2>8, <3>1 DEF Pass, FailBeat, TypeOK, inboxVars
  <2>9. ASSUME NEW p \in Process, Beat(p) \/ Stop(p) \/ Trigger(p)
        PROVE  TypeOK'
    BY <2>1, <2>9 DEF Beat, Stop, Trigger, TypeOK, inboxVars, faults
  <2>10. CASE DeleteTopic
    BY <2>1, <2>10 DEF DeleteTopic, TypeOK, faults
  <2>11. CASE UNCHANGED vars
    BY <2>1, <2>11 DEF vars, inboxVars, faults, TypeOK
  <2>12. QED
    BY <2>2, <2>3, <2>4, <2>5, <2>6, <2>7, <2>8, <2>9, <2>10, <2>11 DEF Next, Step, Work
<1>3. QED BY <1>1, <1>2, PTL DEF Spec

-----------------------------------------------------------------------------
(* inbox.ts, a worker that comes back late: a claim leaves a process only by *)
(* that process, by a new leader's recovery or with the topic.               *)
THEOREM LateWorkers == Spec => LateWorkerIsHarmless
<1>1. TypeOK /\ [Next]_vars =>
        \A p \in Process, m \in Message :
          claim[m] = p /\ claim'[m] # p =>
            \/ worker'[p] # worker[p]
            \/ \E o \in Process : held[o] = None /\ held'[o] # None
            \/ ~open'
  <2> SUFFICES ASSUME TypeOK, [Next]_vars, NEW p \in Process, NEW m \in Message,
                      claim[m] = p, claim'[m] # p
               PROVE  \/ worker'[p] # worker[p]
                      \/ \E o \in Process : held[o] = None /\ held'[o] # None
                      \/ ~open'
    OBVIOUS
  <2>1. p \notin {"unsent", "pending", "gone"}
    OBVIOUS
  <2>2. ASSUME NEW o \in Process, TryLead(o)
        PROVE  held[o] = None /\ held'[o] # None
    <3>1. [beat |-> 0, quiet |-> 0] \in Handle
      BY DEF Handle
    <3>2. QED BY <2>2, <3>1 DEF TryLead, Acquire, TypeOK, LeaseTypeOK
  <2>3. ASSUME NEW o \in Process, Claim(o)
        PROVE  FALSE
    <3>1. PICK batch \in SUBSET Message :
            /\ \A k \in batch : claim[k] = "pending"
            /\ claim' = [k \in Message |-> IF k \in batch THEN o ELSE claim[k]]
      BY <2>3 DEF Claim, NextBatch, Pending
    <3>2. QED BY <2>1, <3>1
  <2>4. ASSUME NEW o \in Process, Complete(o) \/ GiveBack(o)
        PROVE  worker'[p] # worker[p]
    <3>1. o = p
      BY <2>4 DEF Complete, GiveBack, Mine, TypeOK
    <3>2. QED BY <2>4, <3>1 DEF Complete, GiveBack, Working, TypeOK
  <2>5. ASSUME NEW k \in Message, Enqueue(k)
        PROVE  FALSE
    BY <2>1, <2>5 DEF Enqueue, TypeOK
  <2>6. CASE DeleteTopic
    BY <2>6 DEF DeleteTopic
  <2>7. ASSUME NEW o \in Process,
               \/ Beat(o) \/ FailBeat(o) \/ Stop(o) \/ Crash(o) \/ Trigger(o)
               \/ Flush(o) \/ HandleEntry(o) \/ Strand(o)
        PROVE  FALSE
    BY <2>7 DEF Beat, FailBeat, Stop, Crash, Trigger, Flush, HandleEntry, Strand, inboxVars
  <2>8. CASE Pass \/ UNCHANGED vars
    BY <2>8 DEF Pass, vars, inboxVars
  <2>9. QED
    BY <2>2, <2>3, <2>4, <2>5, <2>6, <2>7, <2>8 DEF Next, Step, Work
<1>2. QED BY <1>1, TypeCorrect, PTL DEF Spec, LateWorkerIsHarmless
-----------------------------------------------------------------------------
(* Rows are written in the order of their sequence, and what a handler or a  *)
(* worker knows has been written.                                           *)
Known ==
  /\ \A m, k \in Message : k < m /\ claim[k] = "unsent" => claim[m] = "unsent"
  /\ \A m \in Message : Handled(m) => claim[m] # "unsent"
  /\ \A p \in Process : worker[p] # None =>
       /\ worker[p].left \subseteq worker[p].batch
       /\ \A m \in Message \cap worker[p].batch : claim[m] # "unsent"

(* A row leaves an open topic, and a worker its batch, only once handled.    *)
Drained ==
  /\ open => /\ \A m \in Message : claim[m] = "gone" => Handled(m)
             /\ \A p \in Process : worker[p] # None =>
                  \A m \in worker[p].batch \ worker[p].left : Handled(m)
  /\ ~open => \A m \in Message : claim[m] \in {"unsent", "gone"}

(* The steps that leave rows, workers and handled messages alone, or forget a *)
(* worker.                                                                   *)
LEMMA QuietSteps ==
  ASSUME TypeOK, [Next]_vars,
         ~\E p \in Process : \/ TryLead(p) \/ Flush(p) \/ Claim(p) \/ HandleEntry(p)
                             \/ Complete(p) \/ GiveBack(p),
         ~\E m \in Message : Enqueue(m),
         ~DeleteTopic
  PROVE  /\ UNCHANGED <<open, claim, first>>
         /\ \A p \in Process : worker'[p] # None => worker'[p] = worker[p]
<1>1. ASSUME NEW p \in Process, Beat(p) \/ FailBeat(p) \/ Stop(p) \/ Trigger(p)
      PROVE  UNCHANGED <<open, claim, first, worker>>
  BY <1>1 DEF Beat, FailBeat, Stop, Trigger, inboxVars
<1>2. CASE Pass \/ UNCHANGED vars
  BY <1>2 DEF Pass, vars, inboxVars
<1>3. ASSUME NEW p \in Process, Crash(p) \/ Strand(p)
      PROVE  /\ UNCHANGED <<open, claim, first>>
             /\ worker' = [worker EXCEPT ![p] = None]
  BY <1>3, Zenon DEF Crash, Strand
<1>4. ASSUME NEW p \in Process, Crash(p) \/ Strand(p)
      PROVE  \A q \in Process : worker'[q] # None => worker'[q] = worker[q]
  BY <1>3, <1>4 DEF TypeOK
<1>5. QED BY <1>1, <1>2, <1>3, <1>4 DEF Next, Step, Work

(* p takes a batch: the first of the pending rows, which are now its own.     *)
Takes(p, batch) ==
  /\ \A m \in batch : claim[m] = "pending"
  /\ \A m \in batch, k \in Message \ batch : claim[k] = "pending" => m < k
  /\ \A m \in Message : claim'[m] = IF m \in batch THEN p ELSE claim[m]
  /\ \A q \in Process :
       worker'[q] = IF q # p THEN worker[q] ELSE IF batch = {} THEN None
                    ELSE [batch |-> batch, left |-> batch]

(* What a claim does, with its batch.                                        *)
LEMMA ClaimSteps ==
  ASSUME TypeOK, NEW p \in Process, Claim(p)
  PROVE  \E batch \in SUBSET Message : Takes(p, batch)
<1>1. PICK batch \in SUBSET Message :
        /\ NextBatch(batch)
        /\ claim' = [m \in Message |-> IF m \in batch THEN p ELSE claim[m]]
        /\ worker' = [worker EXCEPT ![p] = IF batch = {} THEN None
                                           ELSE [batch |-> batch, left |-> batch]]
  BY DEF Claim
<1>2. /\ \A m \in batch : claim[m] = "pending"
      /\ \A m \in batch, k \in Message \ batch : claim[k] = "pending" => m < k
  BY <1>1 DEF NextBatch, Pending
<1>3. \A q \in Process :
        worker'[q] = IF q # p THEN worker[q] ELSE IF batch = {} THEN None
                     ELSE [batch |-> batch, left |-> batch]
  BY <1>1 DEF TypeOK
<1>4. \A m \in Message : claim'[m] = IF m \in batch THEN p ELSE claim[m]
  BY <1>1
<1>5. Takes(p, batch)
  BY <1>2, <1>3, <1>4 DEF Takes
<1>6. QED BY <1>5

(* What handling an entry does.                                              *)
LEMMA HandleSteps ==
  ASSUME TypeOK, NEW p \in Process, HandleEntry(p)
  PROVE  /\ worker[p] # None
         /\ \E m \in Message \cap worker[p].left :
              /\ \A k \in worker[p].left : m <= k
              /\ first' = IF open /\ ~Handled(m) THEN Append(first, m) ELSE first
              /\ worker'[p] = [batch |-> worker[p].batch, left |-> worker[p].left \ {m}]
              /\ \A q \in Process \ {p} : worker'[q] = worker[q]
              /\ \A k \in Message : Handled(k)' <=> Handled(k) \/ (open /\ k = m)
<1>1. worker[p] # None /\ worker[p] \in Worker
  BY DEF HandleEntry, Working, TypeOK
<1>2. PICK m \in worker[p].left :
        /\ \A k \in worker[p].left : m <= k
        /\ first' = IF open /\ ~Handled(m) THEN Append(first, m) ELSE first
        /\ worker' = [worker EXCEPT ![p].left = @ \ {m}]
  BY DEF HandleEntry
<1>3. m \in Message
  BY <1>1, <1>2 DEF Worker
<1>4. worker'[p] = [batch |-> worker[p].batch, left |-> worker[p].left \ {m}]
  BY <1>1, <1>2 DEF TypeOK, Worker
<1>5. \A q \in Process \ {p} : worker'[q] = worker[q]
  BY <1>2 DEF TypeOK
<1>6. \A k \in Message : Handled(k)' <=> Handled(k) \/ (open /\ k = m)
  <2>1. CASE open /\ ~Handled(m)
    BY <1>2, <1>3, <2>1, Appended
  <2>2. CASE ~(open /\ ~Handled(m))
    BY <1>2, <2>2 DEF Handled
  <2>3. QED BY <2>1, <2>2
<1>7. QED BY <1>1, <1>2, <1>3, <1>4, <1>5, <1>6

(* What ending a batch does.                                                 *)
LEMMA BatchSteps ==
  ASSUME TypeOK, NEW p \in Process, Complete(p) \/ GiveBack(p)
  PROVE  /\ worker[p] # None
         /\ \A m \in Message :
              claim'[m] = IF ~Mine(p, m) THEN claim[m]
                          ELSE IF Complete(p) THEN "gone" ELSE "pending"
         /\ worker'[p] = IF Complete(p) THEN Idle ELSE None
         /\ \A q \in Process \ {p} : worker'[q] = worker[q]
         /\ UNCHANGED <<open, first>>
<1>1. Idle # None /\ worker[p] # None
  BY IdleWorker DEF Complete, GiveBack, Working
<1>2. CASE Complete(p)
  BY <1>1, <1>2 DEF Complete, TypeOK
<1>3. CASE GiveBack(p) /\ ~Complete(p)
  BY <1>1, <1>3 DEF GiveBack, TypeOK
<1>4. QED BY <1>2, <1>3

(* Known is about which rows have been written. *)
LEMMA KnownKept ==
  ASSUME Known,
         \A m \in Message : claim'[m] = "unsent" <=> claim[m] = "unsent",
         first' = first,
         \A p \in Process : worker'[p] # None => worker'[p] \in {worker[p], Idle}
  PROVE  Known'
<1>1. \A m, k \in Message : k < m /\ claim'[k] = "unsent" => claim'[m] = "unsent"
  BY DEF Known
<1>2. \A m \in Message : Handled(m)' => claim'[m] # "unsent"
  BY DEF Known, Handled
<1>3. ASSUME NEW p \in Process, worker'[p] # None
      PROVE  /\ worker'[p].left \subseteq worker'[p].batch
             /\ \A m \in Message \cap worker'[p].batch : claim'[m] # "unsent"
  <2>1. CASE worker'[p] = Idle
    BY <2>1, IdleWorker
  <2>2. CASE worker'[p] = worker[p]
    BY <1>3, <2>2 DEF Known
  <2>3. QED BY <1>3, <2>1, <2>2
<1>4. QED BY <1>1, <1>2, <1>3 DEF Known

(* Rows are written in sequence, and only written rows are claimed or handled. *)
LEMMA KnownHolds == Spec => []Known
<1>1. Init => Known
  BY DEF Init, Known, Handled, ToSet
<1>2. TypeOK /\ Known /\ [Next]_vars => Known'
  <2> SUFFICES ASSUME TypeOK, Known, [Next]_vars PROVE Known'
    OBVIOUS
  <2>1. ASSUME NEW p \in Process, TryLead(p)
        PROVE  Known'
    <3>1. \A m \in Message : claim'[m] = "unsent" <=> claim[m] = "unsent"
      BY <2>1 DEF TryLead, Recovered, Claimed, TypeOK
    <3>2. UNCHANGED <<worker, first>>
      BY <2>1 DEF TryLead
    <3>3. QED BY <3>1, <3>2, KnownKept
  <2>2. ASSUME NEW p \in Process, Flush(p)
        PROVE  Known'
    <3>1. UNCHANGED <<claim, first>>
      BY <2>2 DEF Flush
    <3>2. \A q \in Process : worker'[q] # worker[q] => worker'[q] = Idle
      BY <2>2 DEF Flush, TypeOK
    <3>3. QED BY <3>1, <3>2, KnownKept
  <2>3. ASSUME NEW p \in Process, Claim(p)
        PROVE  Known'
    <3>0. PICK batch \in SUBSET Message : Takes(p, batch)
      BY <2>3, ClaimSteps
    <3>1. /\ \A m \in batch : claim[m] = "pending"
          /\ \A m \in Message : claim'[m] = IF m \in batch THEN p ELSE claim[m]
          /\ \A q \in Process :
               worker'[q] = IF q # p THEN worker[q] ELSE IF batch = {} THEN None
                            ELSE [batch |-> batch, left |-> batch]
      BY <3>0 DEF Takes
    <3>2. \A m \in Message : claim'[m] = "unsent" <=> claim[m] = "unsent"
      BY <3>1
    <3>3. first' = first
      BY <2>3 DEF Claim
    <3>4. QED BY <3>1, <3>2, <3>3 DEF Known, Handled
  <2>4. ASSUME NEW p \in Process, HandleEntry(p)
        PROVE  Known'
    <3>1. PICK m \in Message \cap worker[p].left :
            /\ worker'[p] = [batch |-> worker[p].batch, left |-> worker[p].left \ {m}]
            /\ \A q \in Process \ {p} : worker'[q] = worker[q]
            /\ \A k \in Message : Handled(k)' <=> Handled(k) \/ (open /\ k = m)
      BY <2>4, HandleSteps
    <3>2. worker[p] # None /\ claim' = claim
      BY <2>4, HandleSteps DEF HandleEntry
    <3>3. claim[m] # "unsent"
      BY <3>1, <3>2 DEF Known
    <3>4. QED BY <3>1, <3>2, <3>3 DEF Known
  <2>5. ASSUME NEW p \in Process, Complete(p) \/ GiveBack(p)
        PROVE  Known'
    <3>1. \A m \in Message : claim'[m] = "unsent" <=> claim[m] = "unsent"
      BY <2>5, BatchSteps DEF Mine
    <3>2. \A q \in Process : worker'[q] # worker[q] => worker'[q] \in {Idle, None}
      BY <2>5, BatchSteps
    <3>3. first' = first
      BY <2>5, BatchSteps
    <3>4. QED BY <3>1, <3>2, <3>3, KnownKept
  <2>6. ASSUME NEW m \in Message, Enqueue(m)
        PROVE  Known'
    <3>1. \A k \in Message : claim'[k] = IF k = m THEN "pending" ELSE claim[k]
      BY <2>6 DEF Enqueue, TypeOK
    <3>2. \A k \in Message : k < m => claim[k] # "unsent"
      BY <2>6 DEF Enqueue
    <3>3. claim[m] = "unsent" /\ UNCHANGED <<worker, first>>
      BY <2>6 DEF Enqueue
    <3>4. QED BY <3>1, <3>2, <3>3 DEF Known, Handled
  <2>7. CASE DeleteTopic
    <3>1. \A m \in Message : claim'[m] = "unsent" <=> claim[m] = "unsent"
      BY <2>7 DEF DeleteTopic
    <3>2. UNCHANGED <<worker, first>>
      BY <2>7 DEF DeleteTopic
    <3>3. QED BY <3>1, <3>2, KnownKept
  <2>8. CASE /\ ~\E p \in Process : \/ TryLead(p) \/ Flush(p) \/ Claim(p) \/ HandleEntry(p)
                                   \/ Complete(p) \/ GiveBack(p)
             /\ ~\E m \in Message : Enqueue(m)
             /\ ~DeleteTopic
    <3>1. /\ UNCHANGED <<open, claim, first>>
          /\ \A p \in Process : worker'[p] # None => worker'[p] = worker[p]
      BY <2>8, QuietSteps
    <3>2. QED BY <3>1, KnownKept
  <2>9. QED
    BY <2>1, <2>2, <2>3, <2>4, <2>5, <2>6, <2>7, <2>8
<1>3. QED BY <1>1, <1>2, TypeCorrect, PTL DEF Spec

(* A row is gone only once it has been handled, or its topic deleted.        *)
LEMMA DrainedHolds == Spec => []Drained
<1>1. Init => Drained
  BY DEF Init, Drained
<1>2. TypeOK /\ Known /\ Drained /\ [Next]_vars => Drained'
  <2> SUFFICES ASSUME TypeOK, Known, Drained, [Next]_vars PROVE Drained'
    OBVIOUS
  <2>1. ASSUME NEW p \in Process, TryLead(p)
        PROVE  Drained'
    <3>1. \A m \in Message : claim'[m] = IF claim[m] \in Process THEN "pending" ELSE claim[m]
      BY <2>1 DEF TryLead, Recovered, Claimed
    <3>2. UNCHANGED <<open, worker, first>>
      BY <2>1 DEF TryLead
    <3>3. QED BY <3>1, <3>2 DEF Drained, Handled
  <2>2. ASSUME NEW p \in Process, Flush(p)
        PROVE  Drained'
    <3>1. UNCHANGED <<open, claim, first>>
      BY <2>2 DEF Flush
    <3>2. \A q \in Process : worker'[q] # worker[q] => worker'[q] = Idle
      BY <2>2 DEF Flush, TypeOK
    <3>3. QED BY <3>1, <3>2, IdleWorker DEF Drained, Handled
  <2>3. ASSUME NEW p \in Process, Claim(p)
        PROVE  Drained'
    <3>0. PICK batch \in SUBSET Message : Takes(p, batch)
      BY <2>3, ClaimSteps
    <3>1. /\ \A m \in batch : claim[m] = "pending"
          /\ \A m \in Message : claim'[m] = IF m \in batch THEN p ELSE claim[m]
          /\ \A q \in Process :
               worker'[q] = IF q # p THEN worker[q] ELSE IF batch = {} THEN None
                            ELSE [batch |-> batch, left |-> batch]
      BY <3>0 DEF Takes
    <3>2. UNCHANGED <<open, first>>
      BY <2>3 DEF Claim
    <3>3. \A m \in Message : Handled(m)' <=> Handled(m)
      BY <3>2 DEF Handled
    <3>4. ASSUME open
          PROVE  Drained'
      <4>1. \A m \in Message : claim'[m] = "gone" => Handled(m)'
        BY <3>1, <3>3, <3>4 DEF Drained
      <4>2. ASSUME NEW q \in Process, worker'[q] # None,
                   NEW m \in worker'[q].batch \ worker'[q].left
            PROVE  Handled(m)'
        <5>1. q # p /\ worker'[q] = worker[q]
          BY <3>1, <4>2
        <5>2. Handled(m)
          BY <3>4, <4>2, <5>1 DEF Drained
        <5>3. QED BY <3>2, <5>2 DEF Handled
      <4>3. QED BY <3>2, <3>4, <4>1, <4>2 DEF Drained
    <3>5. ASSUME ~open
          PROVE  Drained'
      <4>1. batch = {}
        BY <3>1, <3>5 DEF Drained
      <4>2. QED BY <3>1, <3>2, <3>5, <4>1 DEF Drained
    <3>6. QED BY <3>4, <3>5
  <2>4. ASSUME NEW p \in Process, HandleEntry(p)
        PROVE  Drained'
    <3>1. PICK m \in Message \cap worker[p].left :
            /\ worker'[p] = [batch |-> worker[p].batch, left |-> worker[p].left \ {m}]
            /\ \A q \in Process \ {p} : worker'[q] = worker[q]
            /\ \A k \in Message : Handled(k)' <=> Handled(k) \/ (open /\ k = m)
      BY <2>4, HandleSteps
    <3>2. worker[p] # None /\ UNCHANGED <<open, claim>>
      BY <2>4, HandleSteps DEF HandleEntry
    <3>3. \A q \in Process : worker[q] # None => worker[q].batch \subseteq Message
      BY DEF TypeOK, Worker
    <3>4. ASSUME open, NEW q \in Process, worker'[q] # None,
                 NEW k \in worker'[q].batch \ worker'[q].left
          PROVE  Handled(k)'
      <4>1. CASE q = p
        <5>1. k \in Message /\ (k = m \/ k \in worker[p].batch \ worker[p].left)
          BY <3>1, <3>2, <3>3, <3>4, <4>1
        <5>2. QED BY <3>1, <3>2, <3>4, <5>1 DEF Drained
      <4>2. CASE q # p
        BY <3>1, <3>3, <3>4, <4>2 DEF Drained
      <4>3. QED BY <4>1, <4>2
    <3>5. open => \A k \in Message : claim'[k] = "gone" => Handled(k)'
      BY <3>1, <3>2 DEF Drained
    <3>6. ~open => \A k \in Message : claim'[k] \in {"unsent", "gone"}
      BY <3>2 DEF Drained
    <3>7. QED BY <3>2, <3>4, <3>5, <3>6 DEF Drained
  <2>5. ASSUME NEW p \in Process, Complete(p) \/ GiveBack(p)
        PROVE  Drained'
    <3>1. /\ worker[p] # None
          /\ \A m \in Message : claim'[m] = IF ~Mine(p, m) THEN claim[m]
                                           ELSE IF Complete(p) THEN "gone" ELSE "pending"
          /\ \A q \in Process : worker'[q] # worker[q] => worker'[q] \in {Idle, None}
          /\ UNCHANGED <<open, first>>
      BY <2>5, BatchSteps
    <3>2. \A m \in Message : Complete(p) /\ Mine(p, m) =>
            m \in worker[p].batch \ worker[p].left
      BY DEF Complete, Mine
    <3>3. \A m \in Message : Mine(p, m) => claim[m] \in Process
      BY DEF Mine
    <3>4. QED BY <3>1, <3>2, <3>3, IdleWorker DEF Drained, Handled
  <2>6. ASSUME NEW m \in Message, Enqueue(m)
        PROVE  Drained'
    <3>1. \A k \in Message : claim'[k] = IF k = m THEN "pending" ELSE claim[k]
      BY <2>6 DEF Enqueue, TypeOK
    <3>2. open /\ UNCHANGED <<open, worker, first>>
      BY <2>6 DEF Enqueue
    <3>3. QED BY <3>1, <3>2 DEF Drained, Handled
  <2>7. CASE DeleteTopic
    <3>1. ~open' /\ \A m \in Message : claim'[m] \in {"unsent", "gone"}
      BY <2>7 DEF DeleteTopic
    <3>2. QED BY <3>1 DEF Drained
  <2>8. CASE /\ ~\E p \in Process : \/ TryLead(p) \/ Flush(p) \/ Claim(p) \/ HandleEntry(p)
                                   \/ Complete(p) \/ GiveBack(p)
             /\ ~\E m \in Message : Enqueue(m)
             /\ ~DeleteTopic
    <3>1. /\ UNCHANGED <<open, claim, first>>
          /\ \A p \in Process : worker'[p] # None => worker'[p] = worker[p]
      BY <2>8, QuietSteps
    <3>2. QED BY <3>1 DEF Drained, Handled
  <2>9. QED
    BY <2>1, <2>2, <2>3, <2>4, <2>5, <2>6, <2>7, <2>8
<1>3. QED BY <1>1, <1>2, TypeCorrect, KnownHolds, PTL DEF Spec
-----------------------------------------------------------------------------
(* What the inbox holds, as the abstract queue sees it.                      *)
Held == {m \in Message : Pending(m) \/ Claimed(m)}

(* Moving rows between pending and claimed leaves the queue as it is.         *)
LEMMA HeldKept ==
  ASSUME TypeOK, \A m \in Message :
           claim'[m] = claim[m] \/ {claim[m], claim'[m]} \subseteq {"pending"} \cup Process
  PROVE  Held' = Held
BY DEF Held, Pending, Claimed, TypeOK

(* inbox.ts: "Inbox files are at-least-once".  The inbox implements the       *)
(* at-least-once queue, whatever stalls, stops or dies.                      *)
THEOREM ImplementsQueue == Spec => QueueSpec
<1> DEFINE handled == ToSet(first)
<1>1. Init => Queue!Init
  BY DEF Init, Queue!Init, Pending, Claimed, ToSet
<1>2. TypeOK /\ Known /\ Drained /\ [Next]_vars =>
        [Queue!Next]_<<open, Held, handled>>
  <2> SUFFICES ASSUME TypeOK, Known, Drained, [Next]_vars
               PROVE  Queue!Next \/ UNCHANGED <<open, Held, handled>>
    OBVIOUS
  <2>0. \A m \in Message : Handled(m) <=> m \in handled
    BY DEF Handled
  <2>1. ASSUME NEW p \in Process, TryLead(p) \/ Flush(p)
        PROVE  UNCHANGED <<open, Held, handled>>
    <3>1. UNCHANGED <<open, first>>
      BY <2>1 DEF TryLead, Flush
    <3>2. \A m \in Message :
            claim'[m] = claim[m] \/ {claim[m], claim'[m]} \subseteq {"pending"} \cup Process
      BY <2>1 DEF TryLead, Flush, Recovered, Claimed
    <3>3. QED BY <3>1, <3>2, HeldKept
  <2>2. ASSUME NEW p \in Process, Claim(p)
        PROVE  UNCHANGED <<open, Held, handled>>
    <3>0. PICK batch \in SUBSET Message : Takes(p, batch)
      BY <2>2, ClaimSteps
    <3>1. /\ \A m \in batch : claim[m] = "pending"
          /\ \A m \in Message : claim'[m] = IF m \in batch THEN p ELSE claim[m]
          /\ \A q \in Process :
               worker'[q] = IF q # p THEN worker[q] ELSE IF batch = {} THEN None
                            ELSE [batch |-> batch, left |-> batch]
      BY <3>0 DEF Takes
    <3>2. UNCHANGED <<open, first>>
      BY <2>2 DEF Claim
    <3>3. \A m \in Message :
            claim'[m] = claim[m] \/ {claim[m], claim'[m]} \subseteq {"pending"} \cup Process
      BY <3>1
    <3>4. QED BY <3>2, <3>3, HeldKept
  <2>3. ASSUME NEW p \in Process, HandleEntry(p)
        PROVE  Queue!Next \/ UNCHANGED <<open, Held, handled>>
    <3>1. PICK m \in Message \cap worker[p].left :
            first' = IF open /\ ~Handled(m) THEN Append(first, m) ELSE first
      BY <2>3, HandleSteps
    <3>2. UNCHANGED <<open, claim>>
      BY <2>3 DEF HandleEntry
    <3>3. CASE open /\ ~Handled(m)
      <4>1. m \in worker[p].batch /\ worker[p] # None
        BY <2>3, <3>1, HandleSteps DEF Known
      <4>2. claim[m] \notin {"unsent", "gone"}
        BY <3>3, <4>1 DEF Known, Drained
      <4>3. m \in Held
        BY <4>2 DEF Held, Pending, Claimed, TypeOK
      <4>4. handled' = handled \cup {m}
        <5>1. first \in Seq(Message) /\ first' = Append(first, m)
          BY <3>1, <3>3 DEF TypeOK
        <5>2. /\ DOMAIN first = 1..Len(first) /\ Len(first) \in Nat
              /\ DOMAIN first' = 1..(Len(first) + 1) /\ first'[Len(first) + 1] = m
              /\ \A i \in 1..Len(first) : first'[i] = first[i]
          BY <5>1
        <5>3. QED BY <5>2 DEF ToSet
      <4>5. Held' = Held
        BY <3>2 DEF Held, Pending, Claimed
      <4>6. Queue!Handle(m)
        BY <3>2, <4>3, <4>4, <4>5 DEF Queue!Handle, Held
      <4>7. QED BY <4>6 DEF Queue!Next
    <3>4. CASE ~(open /\ ~Handled(m))
      BY <3>1, <3>2, <3>4 DEF Held, Pending, Claimed
    <3>5. QED BY <3>3, <3>4
  <2>4. ASSUME NEW p \in Process, GiveBack(p), ~Complete(p)
        PROVE  UNCHANGED <<open, Held, handled>>
    <3>1. \A m \in Message :
            claim'[m] = claim[m] \/ {claim[m], claim'[m]} \subseteq {"pending"} \cup Process
      BY <2>4, BatchSteps DEF Mine
    <3>2. UNCHANGED <<open, first>>
      BY <2>4, BatchSteps
    <3>3. QED BY <3>1, <3>2, HeldKept
  <2>5. ASSUME NEW p \in Process, Complete(p)
        PROVE  Queue!Next
    <3> DEFINE done == {m \in Message : Mine(p, m)}
    <3>1. /\ worker[p] # None
          /\ \A m \in Message : claim'[m] = IF Mine(p, m) THEN "gone" ELSE claim[m]
          /\ UNCHANGED <<open, first>>
      BY <2>5, BatchSteps
    <3>2. worker[p].left = {}
      BY <2>5 DEF Complete
    <3>3. ASSUME NEW m \in done
          PROVE  m \in Held \cap handled
      <4>1. claim[m] = p /\ m \in worker[p].batch
        BY <3>3 DEF Mine
      <4>2. open
        BY <4>1 DEF Drained
      <4>3. Handled(m)
        BY <3>1, <3>2, <4>1, <4>2 DEF Drained
      <4>4. QED BY <2>0, <4>1, <4>3 DEF Held, Claimed
    <3>4. Held' = Held \ done
      BY <3>1 DEF Held, Pending, Claimed
    <3>5. Queue!Forget(done)
      BY <3>1, <3>3, <3>4 DEF Queue!Forget, Held
    <3>6. done \in SUBSET Message
      OBVIOUS
    <3>7. QED BY <3>5, <3>6 DEF Queue!Next
  <2>6. ASSUME NEW m \in Message, Enqueue(m)
        PROVE  Queue!Next
    <3>1. claim[m] = "unsent" /\ open /\ UNCHANGED <<open, first>>
      BY <2>6 DEF Enqueue
    <3>2. Held' = Held \cup {m}
      BY <2>6 DEF Enqueue, Held, Pending, Claimed, TypeOK
    <3>3. m \notin Held \cup handled
      BY <2>0, <3>1 DEF Held, Pending, Claimed, Known
    <3>4. Queue!Accept(m)
      BY <3>1, <3>2, <3>3 DEF Queue!Accept, Held
    <3>5. QED BY <3>4 DEF Queue!Next
  <2>7. CASE DeleteTopic
    <3>1. open /\ open' = FALSE /\ first' = first
      BY <2>7 DEF DeleteTopic
    <3>2. Held' = {}
      BY <2>7 DEF DeleteTopic, Held, Pending, Claimed
    <3>3. Queue!Close
      BY <3>1, <3>2 DEF Queue!Close, Held
    <3>4. QED BY <3>3 DEF Queue!Next
  <2>8. CASE /\ ~\E p \in Process : \/ TryLead(p) \/ Flush(p) \/ Claim(p) \/ HandleEntry(p)
                                   \/ Complete(p) \/ GiveBack(p)
             /\ ~\E m \in Message : Enqueue(m)
             /\ ~DeleteTopic
    <3>1. UNCHANGED <<open, claim, first>>
      BY <2>8, QuietSteps
    <3>2. QED BY <3>1 DEF Held, Pending, Claimed
  <2>9. QED
    BY <2>1, <2>2, <2>3, <2>4, <2>5, <2>6, <2>7, <2>8
<1>3. QED
  BY <1>1, <1>2, TypeCorrect, KnownHolds, DrainedHolds, PTL
  DEF Spec, QueueSpec, Queue!Spec, Held

-----------------------------------------------------------------------------
(* As long as no heartbeat slips, a leader owns the role's row.              *)
Elected == slips = 0 => Incumbency /\ InTime

(* Until the first slip the lease excludes two owners.                       *)
LEMMA ElectedHolds == Spec => []Elected
<1>1. Init => Elected
  BY DEF Init, LeaseInit, Elected, Incumbency, InTime
<1>2. TypeOK /\ Elected /\ [Next]_vars => Elected'
  <2> SUFFICES ASSUME TypeOK, Elected, [Next]_vars, slips' = 0
               PROVE  Incumbency' /\ InTime'
    BY DEF Elected
  <2>1. slips = 0 /\ ~\E p \in Process : FailBeat(p)
    <3>1. slips \in Nat
      BY DEF TypeOK
    <3>2. slips' = slips \/ slips' = slips + 1
      BY DEF Next, Step, Work, TryLead, Beat, FailBeat, Stop, Crash, Trigger, Flush, Claim,
             HandleEntry, Complete, GiveBack, Strand, Enqueue, DeleteTopic, Pass, vars, faults
    <3>3. QED BY <3>1, <3>2 DEF FailBeat
  <2>2. LeaseTypeOK /\ Incumbency /\ InTime
    BY <2>1 DEF Elected, TypeOK
  <2>3. \/ Pass
        \/ \E p \in Process : Acquire(p) \/ Monitor(p) \/ Release(p) \/ Die(p)
        \/ UNCHANGED leaseVars
    BY <2>1 DEF Next, Step, Work, TryLead, Beat, Stop, Crash, Trigger, Flush, Claim,
                HandleEntry, Complete, GiveBack, Strand, Enqueue, DeleteTopic, vars
  <2>4. InTime'
    <3>1. ASSUME Pass, NEW p \in Process, held'[p] # None
          PROVE  held'[p].quiet <= RoleStale
      <4>1. ~Slipping
        BY <2>1, <3>1 DEF Pass
      <4>2. held[p] # None /\ held'[p].quiet = held[p].quiet + 1
        BY <3>1 DEF Pass, Tick
      <4>3. held[p].quiet < RoleStale /\ held[p].quiet \in Nat
        BY <2>2, <4>1, <4>2 DEF Slipping, LeaseTypeOK, Handle
      <4>4. QED BY <4>2, <4>3
    <3>2. ASSUME NEW p \in Process, Acquire(p) \/ Heartbeat(p),
                 NEW o \in Process, held'[o] # None
          PROVE  held'[o].quiet <= RoleStale
      <4>1. held' = [held EXCEPT ![p] = [beat |-> 0, quiet |-> 0]]
        BY <3>2 DEF Acquire, Heartbeat
      <4>2. QED BY <2>2, <3>2, <4>1 DEF InTime, LeaseTypeOK
    <3>3. ASSUME NEW p \in Process, Lose(p) \/ Release(p) \/ Die(p)
          PROVE  InTime'
      BY <2>2, <3>3 DEF Lose, Release, Die, InTime, LeaseTypeOK
    <3>4. CASE UNCHANGED leaseVars
      BY <2>2, <3>4 DEF leaseVars, InTime
    <3>5. QED BY <2>3, <3>1, <3>2, <3>3, <3>4 DEF InTime, Monitor
  <2>5. [Steady]_leaseVars
    BY <2>3 DEF Pass, Steady
  <2>6. QED BY <2>2, <2>4, <2>5, IncumbencyStep
<1>3. QED BY <1>1, <1>2, TypeCorrect, PTL DEF Spec
(* Then whoever flushes or works leads, unless someone has stopped.          *)
Employed == Calm => \A p \in Process : worker[p] # None \/ flushing[p] => held[p] # None

(* No heartbeat fails and nobody stops in a step that leaves things calm.      *)
LEMMA CalmSteps ==
  ASSUME TypeOK, [Next]_vars, Calm'
  PROVE  Calm /\ ~\E p \in Process : FailBeat(p) \/ Stop(p)
<1>1. slips \in Nat /\ slips' = 0
  BY DEF TypeOK, Calm
<1>2. slips' = slips \/ slips' = slips + 1
  BY DEF Next, Step, Work, TryLead, Beat, FailBeat, Stop, Crash, Trigger, Flush, Claim,
         HandleEntry, Complete, GiveBack, Strand, Enqueue, DeleteTopic, Pass, vars, faults
<1>3. ASSUME NEW p \in Process, Stop(p)
      PROVE  FALSE
  BY <1>3 DEF Stop, Calm, TypeOK
<1>4. started' = started
  BY <1>3 DEF Next, Step, Work, TryLead, Beat, FailBeat, Stop, Crash, Trigger, Flush, Claim,
              HandleEntry, Complete, GiveBack, Strand, Enqueue, DeleteTopic, Pass, vars,
              inboxVars
<1>5. QED BY <1>1, <1>2, <1>3, <1>4 DEF Calm, FailBeat

(* In calm times every flush and every worker is the leader's.               *)
LEMMA EmployedHolds == Spec => []Employed
<1>1. Init => Employed
  BY DEF Init, Employed
<1>2. TypeOK /\ Elected /\ Employed /\ [Next]_vars => Employed'
  <2> SUFFICES ASSUME TypeOK, Elected, Employed, [Next]_vars, Calm',
                      NEW p \in Process, worker'[p] # None \/ flushing'[p]
               PROVE  held'[p] # None
    BY DEF Employed
  <2>1. Calm /\ Incumbency /\ ~\E o \in Process : FailBeat(o) \/ Stop(o)
    BY CalmSteps DEF Elected, Calm
  <2>2. ASSUME NEW o \in Process, TryLead(o)
        PROVE  held'[p] # None
    <3>1. [beat |-> 0, quiet |-> 0] \in Handle
      BY DEF Handle
    <3>2. held' = [held EXCEPT ![o] = [beat |-> 0, quiet |-> 0]]
      BY <2>2 DEF TryLead, Acquire
    <3>3. worker[p] # None \/ flushing[p] \/ p = o
      BY <2>2 DEF TryLead, TypeOK
    <3>4. QED BY <2>1, <3>1, <3>2, <3>3 DEF Employed, TypeOK, LeaseTypeOK
  <2>3. ASSUME NEW o \in Process, Beat(o)
        PROVE  held'[p] # None
    <3>1. held[p] # None /\ Owns(p)
      BY <2>1, <2>3 DEF Beat, inboxVars, Employed, Incumbency
    <3>2. CASE Heartbeat(o)
      <4>1. [beat |-> 0, quiet |-> 0] \in Handle
        BY DEF Handle
      <4>2. QED BY <3>1, <3>2, <4>1 DEF Heartbeat, TypeOK, LeaseTypeOK
    <3>3. CASE Lose(o)
      BY <2>1, <3>3 DEF Lose, Incumbency
    <3>4. QED BY <2>3, <3>2, <3>3 DEF Beat, Monitor
  <2>4. CASE Pass
    <3>1. held[p] # None /\ Tick
      BY <2>1, <2>4 DEF Pass, inboxVars, Employed
    <3>2. [beat |-> Older(held[p].beat), quiet |-> held[p].quiet + 1] \in Handle
      BY <3>1, TickedHandle DEF TypeOK
    <3>3. QED BY <3>1, <3>2 DEF Tick
  <2>5. ASSUME NEW o \in Process, Crash(o)
        PROVE  held'[p] # None
    <3>1. p # o /\ held[p] # None
      BY <2>1, <2>5 DEF Crash, Employed, TypeOK
    <3>2. QED BY <2>5, <3>1 DEF Crash, Die, TypeOK, LeaseTypeOK
  <2>6. ASSUME NEW o \in Process,
               Trigger(o) \/ Flush(o) \/ Claim(o) \/ HandleEntry(o) \/ Complete(o)
               \/ GiveBack(o) \/ Strand(o)
        PROVE  held'[p] # None
    <3>1. held' = held
      BY <2>6 DEF Trigger, Flush, Claim, HandleEntry, Complete, GiveBack, Strand, leaseVars
    <3>2. held[o] # None
      <4>1. worker[o] # None \/ flushing[o] \/ Trigger(o)
        BY <2>6, IdleWorker DEF Flush, Claim, HandleEntry, Complete, GiveBack, Strand, Working
      <4>2. QED BY <2>1, <4>1 DEF Employed, Trigger
    <3>3. p = o \/ worker[p] # None \/ flushing[p]
      BY <2>6 DEF Trigger, Flush, Claim, HandleEntry, Complete, GiveBack, Strand, TypeOK
    <3>4. QED BY <2>1, <3>1, <3>2, <3>3 DEF Employed
  <2>7. ASSUME UNCHANGED vars \/ DeleteTopic \/ \E m \in Message : Enqueue(m)
        PROVE  held'[p] # None
    BY <2>1, <2>7 DEF Enqueue, DeleteTopic, vars, inboxVars, leaseVars, Employed
  <2>8. QED
    BY <2>1, <2>2, <2>3, <2>4, <2>5, <2>6, <2>7 DEF Next, Step, Work
<1>3. QED BY <1>1, <1>2, TypeCorrect, ElectedHolds, PTL DEF Spec

(* Only the leader is at work, and there is one leader.                      *)
LEMMA OneIsEmployed == Elected /\ Employed => OneWorker
BY DEF Elected, Employed, OneWorker, Calm, Incumbency, Owns

(* inbox.ts: "Exactly one runtime process watches and drains the shared       *)
(* inbox": in calm times, no two workers at once.                            *)
THEOREM OneWorkerAtATime == Spec => []OneWorker
BY OneIsEmployed, ElectedHolds, EmployedHolds, PTL
-----------------------------------------------------------------------------
(* Every claim is in the hands of a live worker, or its process is dead and   *)
(* nobody leads, so that the next leader will recover it.                    *)
Accounted ==
  \A p \in Process, m \in Message : claim[m] = p =>
    \/ worker[p] # None /\ m \in worker[p].batch
    \/ ~up[p] /\ \A o \in Process : held[o] = None

(* A batch is older than what is pending, and what has been handled is older  *)
(* than what has not.                                                       *)
Ahead ==
  /\ \A p \in Process : worker[p] # None =>
       \A m \in worker[p].batch, k \in Message : Pending(k) => m < k
  /\ \A m, k \in Message : Handled(k) /\ m < k => Handled(m)

Sorted == \A i, j \in 1..Len(first) : i < j => first[i] < first[j]

Ordered == Calm /\ ~stranded => Accounted /\ (open => Ahead) /\ Sorted

(* A new leader finds no worker.                                            *)
LEMMA LeaderFindsNobody ==
  ASSUME TypeOK, Elected, Employed, Calm, NEW p \in Process, TryLead(p)
  PROVE  \A q \in Process : worker[q] = None
<1>1. Incumbency /\ InTime /\ LeaseTypeOK
  BY DEF Elected, Calm, TypeOK
<1>2. \A q \in Process : held[q] = None
  BY <1>1, HolderKeepsRow DEF TryLead, Acquire
<1>3. QED BY <1>2 DEF Employed

(* No step that leaves things calm and strands nothing loses track of a claim. *)
LEMMA AccountedStep ==
  ASSUME TypeOK, Elected, Employed, Calm, Calm', Accounted, ~stranded', [Next]_vars
  PROVE  Accounted'
<1>1. ~\E p \in Process : FailBeat(p) \/ Stop(p)
  BY CalmSteps
<1>2. Incumbency
  BY DEF Elected, Calm
<1>3. ASSUME NEW p \in Process, TryLead(p)
      PROVE  Accounted'
  BY <1>3 DEF TryLead, Recovered, Claimed, Accounted
<1>4. ASSUME NEW p \in Process, Beat(p)
      PROVE  Accounted'
  <2>1. UNCHANGED <<claim, worker>> /\ up' = up
    BY <1>4 DEF Beat, Monitor, Heartbeat, Lose, inboxVars
  <2>2. held[p] # None
    BY <1>4 DEF Beat, Monitor, Heartbeat, Lose
  <2>3. QED BY <2>1, <2>2 DEF Accounted
<1>5. CASE Pass
  BY <1>5 DEF Pass, Tick, inboxVars, Accounted
<1>6. ASSUME NEW p \in Process, Crash(p)
      PROVE  Accounted'
  <2>1. claim' = claim /\ up' = [up EXCEPT ![p] = FALSE]
        /\ held' = [held EXCEPT ![p] = None] /\ worker' = [worker EXCEPT ![p] = None]
    BY <1>6, Zenon DEF Crash, Die
  <2>2. (\E m \in Message : claim[m] = p) => \A o \in Process \ {p} : held[o] = None
    BY <1>6, Zenon DEF Crash
  <2> SUFFICES ASSUME NEW q \in Process, NEW m \in Message, claim[m] = q
               PROVE  \/ worker'[q] # None /\ m \in worker'[q].batch
                      \/ ~up'[q] /\ \A o \in Process : held'[o] = None
    BY <2>1 DEF Accounted
  <2>3. CASE q = p
    BY <2>1, <2>2, <2>3 DEF TypeOK, LeaseTypeOK
  <2>4. CASE q # p
    BY <2>1, <2>4 DEF Accounted, TypeOK, LeaseTypeOK
  <2>5. QED BY <2>3, <2>4
<1>7. ASSUME NEW p \in Process, Claim(p)
      PROVE  Accounted'
  <2>0. PICK batch \in SUBSET Message : Takes(p, batch)
    BY <1>7, ClaimSteps
  <2>1. /\ \A m \in batch : claim[m] = "pending"
        /\ \A m \in batch, k \in Message \ batch : claim[k] = "pending" => m < k
        /\ \A m \in Message : claim'[m] = IF m \in batch THEN p ELSE claim[m]
        /\ \A q \in Process :
             worker'[q] = IF q # p THEN worker[q] ELSE IF batch = {} THEN None
                          ELSE [batch |-> batch, left |-> batch]
    BY <2>0 DEF Takes
  <2>2. UNCHANGED <<up, held>> /\ worker[p] = Idle
    BY <1>7 DEF Claim, leaseVars
  <2> SUFFICES ASSUME NEW q \in Process, NEW m \in Message, claim'[m] = q
               PROVE  \/ worker'[q] # None /\ m \in worker'[q].batch
                      \/ ~up[q] /\ \A o \in Process : held[o] = None
    BY <2>2 DEF Accounted
  <2>3. CASE m \in batch
    <3>1. [batch |-> batch, left |-> batch] \in Worker
      BY DEF Worker
    <3>2. q = p /\ worker'[q] = [batch |-> batch, left |-> batch]
      BY <2>1, <2>3
    <3>3. QED BY <2>3, <3>1, <3>2
  <2>4. CASE m \notin batch
    <3>1. claim[m] = q
      BY <2>1, <2>4
    <3>2. q = p => ~(worker[q] # None /\ m \in worker[q].batch)
      BY <2>2, IdleWorker
    <3>3. QED BY <2>1, <3>1, <3>2 DEF Accounted
  <2>5. QED BY <2>3, <2>4
<1>8. ASSUME NEW p \in Process, HandleEntry(p)
      PROVE  Accounted'
  <2>1. PICK m \in Message \cap worker[p].left :
          /\ worker'[p] = [batch |-> worker[p].batch, left |-> worker[p].left \ {m}]
          /\ \A q \in Process \ {p} : worker'[q] = worker[q]
    BY <1>8, HandleSteps
  <2>2. UNCHANGED <<claim, up, held>> /\ worker[p] # None
    BY <1>8, HandleSteps DEF HandleEntry, leaseVars
  <2>3. worker'[p] \in Worker
    <3>1. worker[p] \in Worker
      BY <2>2 DEF TypeOK
    <3>2. QED BY <2>1, <3>1 DEF Worker
  <2>4. worker'[p] # None /\ worker'[p].batch = worker[p].batch
    BY <2>1, <2>3
  <2>5. QED BY <2>1, <2>2, <2>4 DEF Accounted
<1>9. ASSUME NEW p \in Process, Complete(p) \/ GiveBack(p)
      PROVE  Accounted'
  <2>1. /\ \A m \in Message :
             claim'[m] = IF ~Mine(p, m) THEN claim[m]
                         ELSE IF Complete(p) THEN "gone" ELSE "pending"
        /\ \A q \in Process \ {p} : worker'[q] = worker[q]
        /\ UNCHANGED <<up, held>> /\ up[p]
    BY <1>9, BatchSteps DEF Complete, GiveBack, leaseVars
  <2>2. ASSUME NEW m \in Message, claim'[m] = p
        PROVE  claim[m] = p /\ m \notin worker[p].batch
    BY <2>1, <2>2 DEF Mine
  <2>3. \A m \in Message, q \in Process : q # p /\ claim'[m] = q => claim[m] = q
    BY <2>1
  <2>4. QED BY <2>1, <2>2, <2>3 DEF Accounted
<1>10. ASSUME NEW m \in Message, Enqueue(m)
       PROVE  Accounted'
  <2>1. \A k \in Message, q \in Process : claim'[k] = q => claim[k] = q
    BY <1>10 DEF Enqueue, TypeOK
  <2>2. UNCHANGED <<worker, up, held>>
    BY <1>10 DEF Enqueue, leaseVars
  <2>3. QED BY <2>1, <2>2 DEF Accounted
<1>11. CASE DeleteTopic
  <2>1. \A k \in Message, q \in Process : claim'[k] # q
    BY <1>11 DEF DeleteTopic
  <2>2. QED BY <2>1 DEF Accounted
<1>12. ASSUME NEW p \in Process, Flush(p)
       PROVE  Accounted'
  <2>1. UNCHANGED <<claim, up, held>> /\ \A q \in Process : worker[q] # None => worker'[q] = worker[q]
    BY <1>12 DEF Flush, leaseVars, TypeOK
  <2>2. QED BY <2>1 DEF Accounted
<1>13. ASSUME NEW p \in Process, Trigger(p) \/ Strand(p)
       PROVE  Accounted'
  BY <1>13 DEF Trigger, Strand, leaseVars, Accounted
<1>14. CASE UNCHANGED vars
  BY <1>14 DEF vars, inboxVars, leaseVars, Accounted
<1>15. QED
  BY <1>1, <1>3, <1>4, <1>5, <1>6, <1>7, <1>8, <1>9, <1>10, <1>11, <1>12, <1>13, <1>14
  DEF Next, Step, Work

(* Whatever is older than the entry at hand has been handled.                *)
LEMMA NothingSkipped ==
  ASSUME TypeOK, Known, Drained, Elected, Employed, Calm, Accounted, Ahead, open,
         NEW p \in Process, worker[p] # None,
         NEW m \in Message \cap worker[p].left, \A k \in worker[p].left : m <= k,
         NEW k \in Message, k < m
  PROVE  Handled(k)
<1>1. OneWorker
  BY OneIsEmployed
<1>2. m \in worker[p].batch /\ claim[m] # "unsent" /\ claim[k] # "unsent"
  BY DEF Known
<1>3. k \in Nat /\ m \in Nat
  BY DEF MessageAssumption
<1>4. ~(m < k) /\ ~(m <= k)
  BY <1>3
<1>5. k \notin worker[p].left
  BY <1>4
<1>6. ~Pending(k)
  BY <1>2, <1>4 DEF Ahead
<1>7. CASE claim[k] = "gone"
  BY <1>7 DEF Drained
<1>8. CASE claim[k] \in Process
  <2>1. held[p] # None
    BY DEF Employed
  <2>2. worker[claim[k]] # None /\ k \in worker[claim[k]].batch
    BY <1>8, <2>1 DEF Accounted
  <2>3. claim[k] = p
    BY <1>1, <1>8, <2>2 DEF OneWorker
  <2>4. k \in worker[p].batch \ worker[p].left
    BY <1>5, <2>2, <2>3
  <2>5. QED BY <2>4 DEF Drained
<1>9. QED BY <1>2, <1>6, <1>7, <1>8 DEF Pending, TypeOK

(* Handlers run in order as long as the next entry has nothing older behind it. *)
LEMMA SortedStep ==
  ASSUME TypeOK, Known, Drained, Elected, Employed, Calm, Accounted, open => Ahead,
         Sorted, [Next]_vars
  PROVE  Sorted'
<1>1. ASSUME NEW p \in Process, HandleEntry(p)
      PROVE  Sorted'
  <2>1. PICK m \in Message \cap worker[p].left :
          /\ \A k \in worker[p].left : m <= k
          /\ first' = IF open /\ ~Handled(m) THEN Append(first, m) ELSE first
    BY <1>1, HandleSteps
  <2>2. worker[p] # None
    BY <1>1, HandleSteps
  <2>3. CASE ~(open /\ ~Handled(m))
    BY <2>1, <2>3 DEF Sorted
  <2>4. CASE open /\ ~Handled(m)
    <3>1. /\ Len(first') = Len(first) + 1 /\ first'[Len(first) + 1] = m
          /\ \A i \in 1..Len(first) : first'[i] = first[i]
      BY <2>1, <2>4, Appended
    <3>2. first \in Seq(Message) /\ Len(first) \in Nat /\ DOMAIN first = 1..Len(first)
      BY DEF TypeOK
    <3>3. ASSUME NEW i \in 1..Len(first)
          PROVE  first[i] < m
      <4>1. first[i] \in Message /\ Handled(first[i])
        BY <3>2, <3>3 DEF Handled, ToSet
      <4>2. first[i] # m /\ ~(m < first[i])
        BY <2>4, <4>1 DEF Ahead
      <4>3. first[i] \in Nat /\ m \in Nat
        BY <4>1 DEF MessageAssumption
      <4>4. QED BY <4>2, <4>3
    <3>4. ASSUME NEW i \in 1..Len(first'), NEW j \in 1..Len(first'), i < j
          PROVE  first'[i] < first'[j]
      <4>1. CASE j = Len(first) + 1
        BY <3>1, <3>2, <3>3, <3>4, <4>1
      <4>2. CASE j # Len(first) + 1
        <5>1. i \in 1..Len(first) /\ j \in 1..Len(first)
          BY <3>1, <3>2, <3>4, <4>2
        <5>2. QED BY <3>1, <3>4, <5>1 DEF Sorted
      <4>3. QED BY <4>1, <4>2
    <3>5. QED BY <3>4 DEF Sorted
  <2>5. QED BY <2>3, <2>4
<1>2. ASSUME ~\E p \in Process : HandleEntry(p)
      PROVE  first' = first
  BY <1>2 DEF Next, Step, Work, TryLead, Beat, FailBeat, Stop, Crash, Trigger, Flush, Claim,
              Complete, GiveBack, Strand, Enqueue, DeleteTopic, Pass, vars, inboxVars
<1>3. QED BY <1>1, <1>2 DEF Sorted

(* Ahead is about which rows are pending, and which are handled.             *)
LEMMA AheadKept ==
  ASSUME Ahead, first' = first,
         \A m \in Message : Pending(m)' => Pending(m),
         \A p \in Process : worker'[p] # None => worker'[p] \in {worker[p], Idle}
  PROVE  Ahead'
<1>1. \A m, k \in Message : Handled(k)' /\ m < k => Handled(m)'
  BY DEF Ahead, Handled
<1>2. ASSUME NEW p \in Process, worker'[p] # None,
             NEW m \in worker'[p].batch, NEW k \in Message, Pending(k)'
      PROVE  m < k
  <2>1. worker'[p] = worker[p]
    BY <1>2, IdleWorker
  <2>2. QED BY <1>2, <2>1 DEF Ahead
<1>3. QED BY <1>1, <1>2 DEF Ahead

(* Batches are taken from the front, and only by the one worker.              *)
LEMMA AheadStep ==
  ASSUME TypeOK, Known, Drained, Elected, Employed, Calm, Calm', Accounted, Ahead,
         open, [Next]_vars
  PROVE  open' => Ahead'
<1>1. OneWorker
  BY OneIsEmployed
<1>2. \A q \in Process : worker[q] # None => worker[q].batch \subseteq Message
  BY DEF TypeOK, Worker
<1>3. ASSUME NEW p \in Process, TryLead(p)
      PROVE  Ahead'
  <2>1. \A q \in Process : worker'[q] = None
    BY <1>3, LeaderFindsNobody DEF TryLead
  <2>2. first' = first
    BY <1>3 DEF TryLead
  <2>3. QED BY <2>1, <2>2 DEF Ahead, Handled
<1>4. ASSUME NEW p \in Process, Flush(p)
      PROVE  Ahead'
  <2>1. UNCHANGED <<claim, first>>
    BY <1>4 DEF Flush
  <2>2. \A q \in Process : worker'[q] \in {worker[q], Idle}
    BY <1>4 DEF Flush, TypeOK
  <2>3. QED BY <2>1, <2>2, AheadKept DEF Pending
<1>5. ASSUME NEW p \in Process, Claim(p)
      PROVE  Ahead'
  <2>0. PICK batch \in SUBSET Message : Takes(p, batch)
    BY <1>5, ClaimSteps
  <2>1. /\ \A m \in batch : claim[m] = "pending"
        /\ \A m \in batch, k \in Message \ batch : claim[k] = "pending" => m < k
        /\ \A m \in Message : claim'[m] = IF m \in batch THEN p ELSE claim[m]
        /\ \A q \in Process :
             worker'[q] = IF q # p THEN worker[q] ELSE IF batch = {} THEN None
                          ELSE [batch |-> batch, left |-> batch]
    BY <2>0 DEF Takes
  <2>2. first' = first
    BY <1>5 DEF Claim
  <2>3. \A m, k \in Message : Handled(k)' /\ m < k => Handled(m)'
    BY <2>2 DEF Ahead, Handled
  <2>4. ASSUME NEW q \in Process, worker'[q] # None,
               NEW m \in worker'[q].batch, NEW k \in Message, Pending(k)'
        PROVE  m < k
    <3>1. claim[k] = "pending" /\ k \notin batch
      BY <2>1, <2>4 DEF Pending
    <3>2. CASE q = p
      <4>1. worker'[p] = [batch |-> batch, left |-> batch]
        BY <2>1, <2>4, <3>2
      <4>2. m \in batch
        BY <2>4, <3>2, <4>1
      <4>3. QED BY <2>1, <3>1, <4>2
    <3>3. CASE q # p
      BY <2>1, <2>4, <3>1, <3>3 DEF Ahead, Pending
    <3>4. QED BY <3>2, <3>3
  <2>5. QED BY <2>3, <2>4 DEF Ahead
<1>6. ASSUME NEW p \in Process, HandleEntry(p)
      PROVE  Ahead'
  <2>1. PICK m \in Message \cap worker[p].left :
          /\ \A k \in worker[p].left : m <= k
          /\ worker'[p] = [batch |-> worker[p].batch, left |-> worker[p].left \ {m}]
          /\ \A q \in Process \ {p} : worker'[q] = worker[q]
          /\ \A k \in Message : Handled(k)' <=> Handled(k) \/ (open /\ k = m)
    BY <1>6, HandleSteps
  <2>2. worker[p] # None /\ claim' = claim
    BY <1>6, HandleSteps DEF HandleEntry
  <2>3. \A k \in Message : k < m => Handled(k)
    BY <2>1, <2>2, NothingSkipped
  <2>4. \A j, k \in Message : Handled(k)' /\ j < k => Handled(j)'
    BY <2>1, <2>3 DEF Ahead
  <2>5. \A q \in Process : worker'[q] # None =>
          worker[q] # None /\ worker'[q].batch = worker[q].batch
    BY <2>1, <2>2
  <2>6. QED BY <2>2, <2>4, <2>5 DEF Ahead, Pending
<1>7. ASSUME NEW p \in Process, GiveBack(p), ~Complete(p)
      PROVE  Ahead'
  <2>1. \A q \in Process : worker'[q] = None
    BY <1>1, <1>7, BatchSteps DEF OneWorker
  <2>2. first' = first
    BY <1>7, BatchSteps
  <2>3. QED BY <2>1, <2>2 DEF Ahead, Handled
<1>8. ASSUME NEW p \in Process, Complete(p)
      PROVE  Ahead'
  <2>1. \A m \in Message : Pending(m)' => Pending(m)
    BY <1>8, BatchSteps DEF Pending
  <2>2. first' = first /\ \A q \in Process : worker'[q] \in {worker[q], Idle}
    BY <1>8, BatchSteps
  <2>3. QED BY <2>1, <2>2, AheadKept
<1>9. ASSUME NEW m \in Message, Enqueue(m)
      PROVE  Ahead'
  <2>1. \A k \in Message : claim'[k] = IF k = m THEN "pending" ELSE claim[k]
    BY <1>9 DEF Enqueue, TypeOK
  <2>2. claim[m] = "unsent" /\ UNCHANGED <<worker, first>>
    BY <1>9 DEF Enqueue
  <2>3. ASSUME NEW q \in Process, worker[q] # None, NEW k \in worker[q].batch
        PROVE  k < m
    <3>1. k \in Message /\ claim[k] # "unsent"
      BY <1>2, <2>3 DEF Known
    <3>2. k # m /\ ~(m < k)
      BY <2>2, <3>1 DEF Known
    <3>3. QED BY <3>1, <3>2
  <2>4. \A j, k \in Message : Handled(k)' /\ j < k => Handled(j)'
    BY <2>2 DEF Ahead, Handled
  <2>5. QED BY <2>1, <2>2, <2>3, <2>4 DEF Ahead, Pending
<1>10. CASE DeleteTopic
  BY <1>10 DEF DeleteTopic
<1>11. CASE /\ ~\E p \in Process : \/ TryLead(p) \/ Flush(p) \/ Claim(p) \/ HandleEntry(p)
                                  \/ Complete(p) \/ GiveBack(p)
            /\ ~\E m \in Message : Enqueue(m)
            /\ ~DeleteTopic
  <2>1. /\ UNCHANGED <<claim, first>>
        /\ \A p \in Process : worker'[p] # None => worker'[p] = worker[p]
    BY <1>11, QuietSteps
  <2>2. QED BY <2>1, AheadKept DEF Pending
<1>12. QED
  BY <1>3, <1>4, <1>5, <1>6, <1>7, <1>8, <1>9, <1>10, <1>11

(* In calm times without a stranded claim, the order is kept.                *)
LEMMA OrderedHolds == Spec => []Ordered
<1>1. Init => Ordered
  <2>1. Init => Accounted /\ Ahead
    BY DEF Init, Accounted, Ahead, Handled, ToSet
  <2>2. Init => Sorted
    BY DEF Init, Sorted
  <2>3. QED BY <2>1, <2>2 DEF Ordered
<1>2. /\ TypeOK /\ Known /\ Drained /\ Elected /\ Employed /\ Ordered
      /\ [Next]_vars
      => Ordered'
  <2> SUFFICES ASSUME TypeOK, Known, Drained, Elected, Employed, Ordered, [Next]_vars,
                      Calm', ~stranded'
               PROVE  Accounted' /\ (open' => Ahead') /\ Sorted'
    BY DEF Ordered
  <2>1. Calm
    BY CalmSteps
  <2>2. ~stranded
    <3>1. ASSUME NEW p \in Process, Crash(p)
          PROVE  ~stranded
      BY <3>1, Zenon DEF Crash
    <3>2. QED
      BY <3>1 DEF Next, Step, Work, TryLead, Beat, FailBeat, Stop, Trigger, Flush, Claim,
                  HandleEntry, Complete, GiveBack, Strand, Enqueue, DeleteTopic, Pass,
                  vars, inboxVars
  <2>3. Accounted /\ (open => Ahead) /\ Sorted
    BY <2>1, <2>2 DEF Ordered
  <2>4. open' => open
    BY DEF Next, Step, Work, TryLead, Beat, FailBeat, Stop, Crash, Trigger, Flush, Claim,
           HandleEntry, Complete, GiveBack, Strand, Enqueue, DeleteTopic, Pass, vars, inboxVars
  <2>5. QED BY <2>1, <2>3, <2>4, AccountedStep, AheadStep, SortedStep
<1>3. QED
  BY <1>1, <1>2, TypeCorrect, KnownHolds, DrainedHolds, ElectedHolds, EmployedHolds, PTL
  DEF Spec

(* inbox.ts, "to preserve order": messages reach their handlers in the order  *)
(* they were written, through recoveries and batches given back.             *)
THEOREM OrderIsKept == Spec => []InOrder
<1>1. Ordered => InOrder
  BY DEF Ordered, Sorted, InOrder
<1>2. QED BY <1>1, OrderedHolds, PTL
=============================================================================
