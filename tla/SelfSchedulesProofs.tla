------------------------ MODULE SelfSchedulesProofs ------------------------
(***************************************************************************)
(* Theorems about SelfSchedules, for every set of processes, every number   *)
(* of schedules and all bounds.                                             *)
(***************************************************************************)
EXTENDS SelfSchedules, SelectionsProofs

USE BoundAssumption, LateAssumption, NoneAssumption

-----------------------------------------------------------------------------
(* The memory queue of a process, as a set of schedules.                     *)

(* The schedules that q will run again.                                      *)
Again(q) == {q[i].of : i \in {k \in DOMAIN q : ~q[k].stale}}

(* No schedule waits twice in q.                                             *)
OneEach(q) == \A i, j \in DOMAIN q : q[i].of = q[j].of => i = j

LEMMA Queues ==
  ASSUME NEW q \in Seq(Copy)
  PROVE  /\ DOMAIN q = 1..Len(q) /\ Len(q) \in Nat
         /\ \A i \in DOMAIN q : q[i] \in Copy /\ q[i].of \in Schedule /\ q[i].stale \in BOOLEAN
         /\ q # <<>> => 1 \in DOMAIN q /\ Head(q) = q[1] /\ Head(q) \in Copy
PROOF
<1>1. DOMAIN q = 1..Len(q) /\ Len(q) \in Nat /\ \A i \in DOMAIN q : q[i] \in Copy
  OBVIOUS
<1>2. q # <<>> => 1 \in DOMAIN q /\ Head(q) = q[1]
  OBVIOUS
<1> QED BY <1>1, <1>2 DEF Copy

LEMMA AgainFrom ==
  ASSUME NEW q \in Seq(Copy), NEW s
  PROVE  s \in Again(q) <=> \E i \in DOMAIN q : ~q[i].stale /\ q[i].of = s
PROOF
  BY DEF Again

LEMMA NothingAgain == OneEach(<<>>) /\ Again(<<>>) = {}
PROOF
  BY DEF OneEach, Again

LEMMA PutQueue ==
  ASSUME NEW q \in Seq(Copy), NEW c \in Copy, OneEach(q)
  PROVE  /\ Put(q, c) \in Seq(Copy) /\ OneEach(Put(q, c))
         /\ \A s : s \in Again(Put(q, c)) => s \in Again(q) \/ (s = c.of /\ ~c.stale)
PROOF
<1>1. CASE \E i \in DOMAIN q : q[i].of = c.of
  BY <1>1 DEF Put
<1>2. CASE ~\E i \in DOMAIN q : q[i].of = c.of
  <2> DEFINE t == Append(q, c)
  <2>1. Put(q, c) = t
    BY <1>2 DEF Put
  <2>2. /\ t \in Seq(Copy) /\ DOMAIN t = 1..(Len(q) + 1) /\ DOMAIN q = 1..Len(q) /\ Len(q) \in Nat
        /\ t[Len(q) + 1] = c /\ \A i \in 1..Len(q) : t[i] = q[i]
    OBVIOUS
  <2> HIDE DEF t
  <2>3. \A i \in DOMAIN t : (i \in DOMAIN q /\ t[i] = q[i]) \/ (i = Len(q) + 1 /\ t[i] = c)
    BY <2>2
  <2>4. OneEach(t)
    BY <1>2, <2>3 DEF OneEach
  <2>5. ASSUME NEW s, s \in Again(t) PROVE s \in Again(q) \/ (s = c.of /\ ~c.stale)
    BY <2>2, <2>3, <2>5, AgainFrom
  <2> QED BY <2>1, <2>2, <2>4, <2>5
<1> QED BY <1>1, <1>2

LEMMA TailQueue ==
  ASSUME NEW q \in Seq(Copy), q # <<>>
  PROVE  /\ Tail(q) \in Seq(Copy)
         /\ OneEach(q) => /\ OneEach(Tail(q))
                          /\ \A s : s \in Again(Tail(q)) => s \in Again(q) /\ s # Head(q).of
                          /\ Head(q).of \in Again(q) <=> ~Head(q).stale
PROOF
<1> DEFINE t == Tail(q)
<1>1. /\ t \in Seq(Copy) /\ DOMAIN t = 1..(Len(q) - 1) /\ DOMAIN q = 1..Len(q) /\ Len(q) \in Nat
      /\ \A i \in 1..(Len(q) - 1) : t[i] = q[i + 1]
      /\ Head(q) = q[1] /\ 1 \in DOMAIN q
  OBVIOUS
<1> HIDE DEF t
<1>2. \A i \in DOMAIN t : i \in Int /\ i + 1 \in DOMAIN q /\ t[i] = q[i + 1] /\ i + 1 # 1
  BY <1>1
<1>3. OneEach(q) => OneEach(t)
  <2> SUFFICES ASSUME OneEach(q), NEW i \in DOMAIN t, NEW j \in DOMAIN t, t[i].of = t[j].of
               PROVE  i = j
    BY DEF OneEach
  <2>1. i + 1 = j + 1
    BY <1>2 DEF OneEach
  <2> QED BY <2>1, <1>2
<1>4. ASSUME OneEach(q), NEW s, s \in Again(t) PROVE s \in Again(q) /\ s # Head(q).of
  <2>1. PICK i \in DOMAIN t : ~t[i].stale /\ t[i].of = s
    BY <1>1, <1>4, AgainFrom
  <2>2. i + 1 \in DOMAIN q /\ ~q[i + 1].stale /\ q[i + 1].of = s /\ i + 1 # 1
    BY <1>2, <2>1
  <2>3. s \in Again(q)
    BY <2>2, AgainFrom
  <2> QED BY <1>1, <1>4, <2>2, <2>3 DEF OneEach
<1>5. OneEach(q) => (Head(q).of \in Again(q) <=> ~Head(q).stale)
  <2>1. Head(q).of \in Again(q) <=> \E i \in DOMAIN q : ~q[i].stale /\ q[i].of = q[1].of
    BY <1>1, AgainFrom
  <2> QED BY <1>1, <2>1 DEF OneEach
<1> QED BY <1>1, <1>3, <1>4, <1>5 DEF t

LEMMA WithoutQueue ==
  ASSUME NEW q \in Seq(Copy), NEW s
  PROVE  /\ Without(q, s) \in Seq(Copy)
         /\ OneEach(q) => OneEach(Without(q, s))
         /\ \A o : o \in Again(Without(q, s)) => o \in Again(q) /\ o # s
PROOF
<1> DEFINE S == {i \in DOMAIN q : q[i].of # s}
           t == Without(q, s)
<1>1. S \subseteq DOMAIN q
  OBVIOUS
<1>2. t = Picked(q, S)
  BY DEF Without
<1> HIDE DEF t
<1>3. t \in Seq(Copy) /\ \E h : Places(t, q, S, h)
  BY <1>1, <1>2, PickedPlaces
<1>4. PICK h : Places(t, q, S, h)
  BY <1>3
<1>5. DOMAIN t = 1..Len(t) /\ Len(t) \in Nat /\ DOMAIN q = 1..Len(q)
  BY <1>3
<1>6. \A i \in DOMAIN t : h[i] \in DOMAIN q /\ q[h[i]].of # s /\ t[i] = q[h[i]]
  BY <1>4, <1>5 DEF Places
<1>7. \A i, j \in DOMAIN t : i # j => h[i] # h[j]
  <2> SUFFICES ASSUME NEW i \in 1..Len(t), NEW j \in 1..Len(t), i # j PROVE h[i] # h[j]
    BY <1>5
  <2>1. h[i] \in Int /\ h[j] \in Int
    BY <1>5, <1>6
  <2>2. i < j \/ j < i
    BY <1>5
  <2> QED BY <1>4, <2>1, <2>2 DEF Places
<1>8. OneEach(q) => OneEach(t)
  BY <1>6, <1>7 DEF OneEach
<1>9. \A o : o \in Again(t) => o \in Again(q) /\ o # s
  BY <1>3, <1>6, AgainFrom
<1> QED BY <1>3, <1>8, <1>9 DEF t

LEMMA StaleQueue ==
  ASSUME NEW q \in Seq(Copy)
  PROVE  /\ Stale(q) \in Seq(Copy)
         /\ OneEach(q) => OneEach(Stale(q))
         /\ Again(Stale(q)) = {}
PROOF
<1> DEFINE t == Stale(q)
<1>1. DOMAIN q = 1..Len(q) /\ Len(q) \in Nat
  OBVIOUS
<1>2. ASSUME NEW i \in DOMAIN q
      PROVE  /\ [q[i] EXCEPT !.stale = TRUE] \in Copy
             /\ [q[i] EXCEPT !.stale = TRUE].of = q[i].of
             /\ [q[i] EXCEPT !.stale = TRUE].stale = TRUE
  <2>1. q[i] \in Copy
    OBVIOUS
  <2> QED BY <2>1 DEF Copy
<1>3. DOMAIN t = DOMAIN q /\ \A i \in DOMAIN q : t[i] \in Copy /\ t[i].of = q[i].of /\ t[i].stale = TRUE
  BY <1>2 DEF Stale
<1>4. t = [i \in 1..Len(q) |-> t[i]]
  BY <1>1 DEF Stale
<1> HIDE DEF t
<1>5. t \in Seq(Copy)
  BY <1>1, <1>3, <1>4
<1>6. OneEach(q) => OneEach(t)
  BY <1>3 DEF OneEach
<1>7. Again(t) = {}
  BY <1>3 DEF Again
<1> QED BY <1>5, <1>6, <1>7 DEF t

-----------------------------------------------------------------------------
(* Types. *)

LEMMA Fields ==
  ASSUME TypeOK
  PROVE  /\ \A s \in Schedule : row[s] # None =>
              row[s] \in Row /\ row[s].by \in Process \cup {None}
         /\ slot # None => slot \in Turn /\ slot.owner \in Process
                           /\ slot.of \in Schedule \cup {None} /\ slot.stale \in BOOLEAN
         /\ \A p \in Process : /\ queue[p] \in Seq(Copy)
                                /\ at[p] \in Schedule \cup {None} /\ beating[p] \subseteq Schedule
                                /\ None \notin Schedule
PROOF
  BY DEF TypeOK, Row, Turn

(* A turn that begins, and one that is told to stop.                         *)
LEMMA Turns ==
  /\ \A p \in Process, s \in Schedule \cup {None} :
       /\ Begun(p, s) \in Turn /\ Begun(p, s) # None
       /\ Begun(p, s).owner = p /\ Begun(p, s).of = s /\ Begun(p, s).abort = "none"
  /\ TypeOK => Aborted \in Turn \cup {None}
PROOF
<1>1. \A p \in Process, s \in Schedule \cup {None} : Begun(p, s) \in Turn
  BY DEF Begun, Turn
<1>2. ASSUME TypeOK PROVE Aborted \in Turn \cup {None}
  BY <1>2 DEF TypeOK, Aborted, Turn
<1> QED BY <1>1, <1>2 DEF Begun

(* What a drain of the queue of p takes up.                                  *)
LEMMA Drains ==
  ASSUME TypeOK, NEW p \in Process
  PROVE  /\ Resumed(p) \in Turn \cup {None}
         /\ Refused(p) \subseteq Schedule
         /\ Drained(p) \in Seq(Copy)
PROOF
<1>1. queue[p] \in Seq(Copy)
  BY Fields
<1>2. queue[p] # <<>> => Foremost(p).of \in Schedule
  BY <1>1, Queues DEF Foremost, Copy
<1>3. Resumed(p) \in Turn \cup {None}
  BY <1>2, Turns DEF Resumed
<1>4. Refused(p) \subseteq Schedule
  BY <1>2 DEF Refused
<1>5. Drained(p) \in Seq(Copy)
  BY <1>1, TailQueue DEF Drained
<1> QED BY <1>3, <1>4, <1>5

(* The table of rows keeps its type under each of its statements.            *)
LEMMA RowsKept ==
  ASSUME TypeOK, NEW s \in Schedule, NEW p \in Process
  PROVE  /\ [row EXCEPT ![s] = None] \in [Schedule -> Row \cup {None}]
         /\ [row EXCEPT ![s] = [by |-> None, due |-> FALSE, fresh |-> FALSE]]
               \in [Schedule -> Row \cup {None}]
         /\ row[s] # None =>
              \A b \in BOOLEAN :
                /\ [row EXCEPT ![s].due = b] \in [Schedule -> Row \cup {None}]
                /\ [row EXCEPT ![s].fresh = b] \in [Schedule -> Row \cup {None}]
                /\ \A q \in Process \cup {None} :
                     [row EXCEPT ![s].by = q, ![s].fresh = b] \in [Schedule -> Row \cup {None}]
         /\ \A S : Completed(p, S) \in [Schedule -> Row \cup {None}]
PROOF
<1>1. row \in [Schedule -> Row \cup {None}]
  BY DEF TypeOK
<1>2. [by |-> None, due |-> FALSE, fresh |-> FALSE] \in Row
  BY DEF Row
<1>3. ASSUME row[s] # None, NEW b \in BOOLEAN
      PROVE  /\ [row[s] EXCEPT !.due = b] \in Row
             /\ [row[s] EXCEPT !.fresh = b] \in Row
             /\ \A q \in Process \cup {None} : [row[s] EXCEPT !.by = q, !.fresh = b] \in Row
  BY <1>1, <1>3 DEF Row
<1>4. \A S : Completed(p, S) \in [Schedule -> Row \cup {None}]
  BY <1>1 DEF Completed
<1> QED BY <1>1, <1>2, <1>3, <1>4

LEMMA TypeStep == TypeOK /\ [Next]_vars => TypeOK'
PROOF
<1> SUFFICES ASSUME TypeOK, [Next]_vars PROVE TypeOK'
  OBVIOUS
<1> USE DEF TypeOK, room, memory, history, count
<1>1. CASE Create
  <2>1. made + 1 \in Schedule /\ made' \in 0..MaxMade
    BY <1>1 DEF Create, Schedule
  <2>2. row' \in [Schedule -> Row \cup {None}]
    BY <1>1, <2>1 DEF Create, Row
  <2> QED BY <1>1, <2>1, <2>2 DEF Create
<1>2. ASSUME NEW s \in Schedule, Update(s) \/ FallsDue(s) \/ ClaimAges(s) PROVE TypeOK'
  <2>1. row' \in [Schedule -> Row \cup {None}]
    <3>1. row[s] # None /\ row[s] \in Row
      BY <1>2 DEF Update, FallsDue, ClaimAges, Pending, Running
    <3>2. \E b \in BOOLEAN : \/ row' = [row EXCEPT ![s].due = b]
                            \/ row' = [row EXCEPT ![s].fresh = b]
      BY <1>2 DEF Update, FallsDue, ClaimAges
    <3>3. \A b \in BOOLEAN : [row[s] EXCEPT !.due = b] \in Row /\ [row[s] EXCEPT !.fresh = b] \in Row
      BY <3>1 DEF Row
    <3>4. PICK b \in BOOLEAN : \/ row' = [row EXCEPT ![s].due = b]
                              \/ row' = [row EXCEPT ![s].fresh = b]
      BY <3>2
    <3>5. [row[s] EXCEPT !.due = b] \in Row /\ [row[s] EXCEPT !.fresh = b] \in Row
      BY <3>3
    <3> QED BY <3>4, <3>5
  <2> QED BY <1>2, <2>1 DEF Update, FallsDue, ClaimAges, UserEvent
<1>3. ASSUME NEW s \in Schedule, Cancel(s) PROVE TypeOK'
  BY <1>3 DEF Cancel, UserEvent
<1>4. ASSUME NEW p \in Process, Claim(p) PROVE TypeOK'
  <2>1. PICK s \in Schedule : /\ Claimable(s)
                              /\ row' = [row EXCEPT ![s].by = p, ![s].fresh = TRUE]
                              /\ at' = [at EXCEPT ![p] = s]
    BY <1>4 DEF Claim
  <2>2. row[s] # None
    BY <2>1 DEF Claimable, Running
  <2>3. row' \in [Schedule -> Row \cup {None}]
    BY <2>1, <2>2, RowsKept
  <2> QED BY <1>4, <2>1, <2>3 DEF Claim
<1>5. ASSUME NEW p \in Process, Dispatch(p) PROVE TypeOK'
  <2>1. at[p] \in Schedule
    BY <1>5, Fields DEF Dispatch
  <2>2. ASSUME Released(p, at[p])
        PROVE  row' \in [Schedule -> Row \cup {None}] /\ void' \subseteq Schedule
    BY <2>1, <2>2, RowsKept DEF Released
  <2>3. Completed(p, {at[p]}) \in [Schedule -> Row \cup {None}]
    BY <2>1, RowsKept
  <2>4. at' \in [Process -> Schedule \cup {None}]
    BY <1>5 DEF Dispatch
  <2>5. UNCHANGED <<made, agent, human, queue, up, preempted, count>>
    BY <1>5 DEF Dispatch
  <2>6. CASE ~agent
    <3>1. /\ row' = Completed(p, {at[p]}) /\ ended' = ended \cup {at[p]}
          /\ UNCHANGED <<slot, waiter, beating, void>>
      BY <1>5, <2>6 DEF Dispatch
    <3> QED BY <2>1, <2>3, <2>4, <2>5, <3>1
  <2>7. CASE agent /\ slot # None
    <3>1. /\ Released(p, at[p]) /\ UNCHANGED <<slot, beating, ended>>
          /\ waiter' = [waiter EXCEPT ![p] = @ \/ slot.owner # p]
      BY <1>5, <2>7 DEF Dispatch
    <3>2. waiter' \in [Process -> BOOLEAN]
      BY <3>1
    <3> QED BY <2>2, <2>4, <2>5, <3>1, <3>2
  <2>8. CASE agent /\ slot = None
    <3>1. /\ slot' = Begun(p, at[p]) /\ UNCHANGED <<row, waiter, ended, void>>
          /\ beating' = beating \/ beating' = [beating EXCEPT ![p] = @ \cup {at[p]}]
      BY <1>5, <2>8 DEF Dispatch
    <3>2. slot' \in Turn
      BY <2>1, <3>1, Turns
    <3>3. beating' \in [Process -> SUBSET Schedule]
      BY <2>1, <3>1
    <3> QED BY <2>4, <2>5, <3>1, <3>2, <3>3
  <2> QED BY <2>6, <2>7, <2>8
<1>6. ASSUME NEW p \in Process, DispatchFails(p) PROVE TypeOK'
  BY <1>6 DEF DispatchFails, Fault
<1>7. CASE UserMessage
  BY <1>7 DEF UserMessage, UserEvent
<1>8. ASSUME NEW p \in Process, Preempt(p) PROVE TypeOK'
  <2> DEFINE c == [of |-> slot.of, stale |-> slot.stale]
             q == Put(queue[p], c)
  <2>1. slot \in Turn /\ slot.of \in Schedule /\ slot.stale \in BOOLEAN
    BY <1>8, Fields DEF Preempt, Local
  <2>2. c \in Copy
    BY <2>1 DEF Copy
  <2>3. q \in Seq(Copy)
    <3>1. Append(queue[p], c) \in Seq(Copy)
      BY <2>2, Fields
    <3> QED BY <3>1, Fields DEF Put
  <2>4. queue' = [queue EXCEPT ![p] = q]
        /\ \E b \in BOOLEAN : slot' = [slot EXCEPT !.abort = "internal", !.requeued = b]
    BY <1>8 DEF Preempt
  <2> HIDE DEF c, q
  <2>5. slot' \in Turn
    BY <2>1, <2>4 DEF Turn
  <2> QED BY <1>8, <2>1, <2>3, <2>4, <2>5 DEF Preempt, UserEvent
<1>9. ASSUME NEW p \in Process, UserTakes(p) PROVE TypeOK'
  BY <1>9, Turns DEF UserTakes
<1>10. ASSUME NEW p \in Process, NEW S \in SUBSET Schedule, Settled(p, S)
       PROVE  /\ row' \in [Schedule -> Row \cup {None}]
              /\ beating' \in [Process -> SUBSET Schedule]
              /\ ended' \subseteq Schedule
  <2>1. row' \in [Schedule -> Row \cup {None}]
    BY <1>10 DEF Settled, Completed
  <2> QED BY <1>10, <2>1 DEF Settled
<1>11. ASSUME NEW p \in Process, TurnEnds(p) PROVE TypeOK'
  <2>1. \E S \in SUBSET Schedule : Settled(p, S)
    <3>1. PICK failed \in BOOLEAN :
            LET over == IF slot.of = None \/ Requeued(failed) THEN {} ELSE {slot.of}
            IN  Settled(p, over \cup IF human THEN {} ELSE Refused(p))
      BY <1>11 DEF TurnEnds
    <3>2. slot.of \in Schedule \cup {None}
      BY <1>11, Fields DEF TurnEnds, Local
    <3> QED BY <3>1, <3>2, Drains
  <2>2. users' \in 0..MaxUsers /\ faults' \in 0..MaxFaults
    BY <1>11 DEF TurnEnds, Fault
  <2>3. slot' \in Turn \cup {None} /\ queue' \in [Process -> Seq(Copy)]
    BY <1>11, Drains DEF TurnEnds
  <2> QED BY <1>10, <1>11, <2>1, <2>2, <2>3 DEF TurnEnds
<1>12. ASSUME NEW p \in Process, GivesBack(p) PROVE TypeOK'
  <2>1. slot.of \in Schedule
    BY <1>12, Fields DEF GivesBack, Local
  <2>2. row' \in [Schedule -> Row \cup {None}] /\ void' \subseteq Schedule
    BY <1>12, <2>1, RowsKept DEF GivesBack, Released
  <2>3. queue' \in [Process -> Seq(Copy)]
    BY <1>12, WithoutQueue DEF GivesBack
  <2> QED BY <1>12, <2>2, <2>3 DEF GivesBack
<1>13. ASSUME NEW p \in Process, SettleFails(p) PROVE TypeOK'
  <2>1. slot.of \in Schedule
    BY <1>13, Fields DEF SettleFails, Local
  <2> QED BY <1>13, <2>1 DEF SettleFails, Fault
<1>14. ASSUME NEW p \in Process, Wake(p) PROVE TypeOK'
  BY <1>10, <1>14, Drains DEF Wake
<1>15. CASE Stop \/ Delete
  <2>1. [p \in Process |-> Stale(queue[p])] \in [Process -> Seq(Copy)]
    BY StaleQueue
  <2>2. slot' \in Turn \cup {None} /\ queue' \in [Process -> Seq(Copy)]
    BY <1>15, <2>1, Turns DEF Stop, Delete
  <2>3. CASE Stop
    <3>1. /\ users' \in 0..MaxUsers /\ human' = FALSE
          /\ UNCHANGED <<made, row, agent, waiter, memory, up, history, faults>>
      BY <2>3 DEF Stop, UserEvent
    <3> QED BY <2>2, <3>1
  <2>4. CASE Delete
    <3>1. /\ users' \in 0..MaxUsers /\ agent' = FALSE /\ human' = FALSE
          /\ row' \in [Schedule -> Row \cup {None}] /\ void' \subseteq Schedule
          /\ UNCHANGED <<made, waiter, memory, up, ended, preempted, faults>>
      BY <2>4 DEF Delete, UserEvent
    <3> QED BY <2>2, <3>1
  <2> QED BY <1>15, <2>3, <2>4
<1>16. CASE Leave
  <2>1. users' \in 0..MaxUsers /\ UNCHANGED <<made, row, room, memory, up, history, faults>>
        /\ agent' = FALSE
    BY <1>16 DEF Leave, UserEvent
  <2> QED BY <2>1
<1>17. ASSUME NEW p \in Process, Crash(p) PROVE TypeOK'
  BY <1>17 DEF Crash, Fault
<1>18. CASE UNCHANGED vars
  BY <1>18 DEF vars
<1> QED BY <1>1, <1>2, <1>3, <1>4, <1>5, <1>6, <1>7, <1>8, <1>9, <1>11, <1>12, <1>13, <1>14,
           <1>15, <1>16, <1>17, <1>18 DEF Next

(* The variables of the model keep their types.                              *)
THEOREM TypeCorrect == Spec => []TypeOK
PROOF
<1>1. Init => TypeOK
  <2> SUFFICES ASSUME Init PROVE TypeOK
    OBVIOUS
  <2>1. <<>> \in Seq(Copy)
    OBVIOUS
  <2>2. queue \in [Process -> Seq(Copy)] /\ users \in 0..MaxUsers /\ faults \in 0..MaxFaults
        /\ made \in 0..MaxMade
    BY <2>1 DEF Init
  <2> QED BY <2>2 DEF Init, TypeOK
<1> QED BY <1>1, TypeStep, PTL DEF Spec

-----------------------------------------------------------------------------
(* A row leaves the store with a reason. *)

LEMMA LossStep ==
  ASSUME TypeOK, [Next]_vars
  PROVE  /\ ended \subseteq ended' /\ void \subseteq void'
         /\ \A s \in Schedule : row[s] # None /\ row'[s] = None => s \in ended' \cup void'
         /\ made' = made \/ (made' = made + 1 /\ made' \in Schedule /\ row'[made'] # None)
PROOF
<1> DEFINE Lost == \A s \in Schedule : row[s] # None /\ row'[s] = None => s \in ended' \cup void'
           Grown == ended \subseteq ended' /\ void \subseteq void'
           Goal == Grown /\ Lost /\ (made' = made \/ (made' = made + 1 /\ made' \in Schedule /\ row'[made'] # None))
<1> SUFFICES Goal
  OBVIOUS
<1> USE DEF room, memory, history, count
<1>0. row \in [Schedule -> Row \cup {None}]
  BY DEF TypeOK
<1>1. CASE Create
  <2>1. made + 1 \in Schedule
    BY <1>1 DEF Create, Schedule, TypeOK
  <2>2. [by |-> None, due |-> FALSE, fresh |-> FALSE] # None
    <3>1. [by |-> None, due |-> FALSE, fresh |-> FALSE] \in Row
      BY DEF Row
    <3> QED BY <3>1
  <2> QED BY <1>0, <1>1, <2>1, <2>2 DEF Create
<1>2. ASSUME NEW s \in Schedule, Update(s) \/ FallsDue(s) \/ ClaimAges(s) PROVE Goal
  <2>1. UNCHANGED <<made, ended, void>> /\ row[s] # None
        /\ \E b \in BOOLEAN : \/ row' = [row EXCEPT ![s].due = b]
                              \/ row' = [row EXCEPT ![s].fresh = b]
    BY <1>2 DEF Update, FallsDue, ClaimAges, Pending, Running
  <2>2. PICK b \in BOOLEAN : \/ row' = [row EXCEPT ![s].due = b]
                             \/ row' = [row EXCEPT ![s].fresh = b]
    BY <2>1
  <2>3. [row[s] EXCEPT !.due = b] # None /\ [row[s] EXCEPT !.fresh = b] # None
    BY <1>0, <2>1 DEF Row
  <2> QED BY <1>0, <2>1, <2>2, <2>3
<1>3. ASSUME NEW s \in Schedule, Cancel(s) PROVE Goal
  BY <1>0, <1>3 DEF Cancel
<1>4. ASSUME NEW p \in Process, Claim(p) PROVE Goal
  <2>1. PICK s \in Schedule : Claimable(s) /\ row' = [row EXCEPT ![s].by = p, ![s].fresh = TRUE]
    BY <1>4 DEF Claim
  <2>2. row[s] # None
    BY <2>1 DEF Claimable, Running
  <2>3. [row[s] EXCEPT !.by = p, !.fresh = TRUE] # None
    BY <1>0, <2>2 DEF Row
  <2>4. \A o \in Schedule : row'[o] = IF o = s THEN [row[s] EXCEPT !.by = p, !.fresh = TRUE] ELSE row[o]
    BY <1>0, <2>1
  <2> QED BY <1>4, <2>3, <2>4 DEF Claim
<1>5. ASSUME NEW p \in Process, NEW s \in Schedule, Released(p, s)
      PROVE  /\ void \subseteq void'
             /\ \A o \in Schedule : row[o] # None /\ row'[o] = None => o \in void'
  <2>1. row[s] # None => [row[s] EXCEPT !.by = None, !.fresh = FALSE] # None
    BY <1>0 DEF Row
  <2> QED BY <1>0, <1>5, <2>1 DEF Released
<1>6. ASSUME NEW p \in Process, NEW S, row' = Completed(p, S), ended' = ended \cup S
      PROVE  Lost
  BY <1>0, <1>6 DEF Completed
<1>7. ASSUME NEW p \in Process, Dispatch(p) PROVE Goal
  <2>1. at[p] \in Schedule /\ made' = made
    BY <1>7, Fields DEF Dispatch
  <2>2. CASE ~agent
    <3>1. row' = Completed(p, {at[p]}) /\ ended' = ended \cup {at[p]} /\ void' = void
      BY <1>7, <2>2 DEF Dispatch
    <3> QED BY <1>6, <2>1, <3>1
  <2>3. CASE agent /\ slot # None
    <3>1. Released(p, at[p]) /\ ended' = ended
      BY <1>7, <2>3 DEF Dispatch
    <3> QED BY <1>5, <2>1, <3>1
  <2>4. CASE agent /\ slot = None
    BY <1>7, <2>4 DEF Dispatch
  <2> QED BY <2>2, <2>3, <2>4
<1>8. ASSUME NEW p \in Process, DispatchFails(p) \/ Preempt(p) \/ UserTakes(p) \/ SettleFails(p) \/ Crash(p)
      PROVE  Goal
  BY <1>8 DEF DispatchFails, Preempt, UserTakes, SettleFails, Crash
<1>9. ASSUME NEW p \in Process, TurnEnds(p) \/ Wake(p) PROVE Goal
  <2>1. (\E S : Settled(p, S)) /\ UNCHANGED <<made, void>>
    BY <1>9 DEF TurnEnds, Wake
  <2>2. PICK S : row' = Completed(p, S) /\ ended' = ended \cup S
    BY <2>1 DEF Settled
  <2> QED BY <1>6, <2>1, <2>2
<1>10. ASSUME NEW p \in Process, GivesBack(p) PROVE Goal
  <2>1. slot.of \in Schedule
    BY <1>10, Fields DEF GivesBack, Local
  <2>2. Released(p, slot.of) /\ UNCHANGED <<made, ended>>
    BY <1>10 DEF GivesBack
  <2> QED BY <1>5, <2>1, <2>2
<1>11. CASE Delete
  BY <1>0, <1>11 DEF Delete
<1>12. CASE UserMessage \/ Stop \/ Leave \/ UNCHANGED vars
  BY <1>12 DEF UserMessage, Stop, Leave, vars
<1> QED BY <1>1, <1>2, <1>3, <1>4, <1>7, <1>8, <1>9, <1>10, <1>11, <1>12 DEF Next

(* No crash, busy room or preemption makes the store forget a schedule: its   *)
(* row goes when a turn of it has ended, or somebody has cancelled or         *)
(* replaced it.  It needs no more than types.                               *)
THEOREM NothingIsForgottenHolds == Spec => []NothingIsForgotten
PROOF
<1>1. Init => NothingIsForgotten
  BY DEF Init, NothingIsForgotten, Gone, Schedule
<1>2. TypeOK /\ TypeOK' /\ NothingIsForgotten /\ [Next]_vars => NothingIsForgotten'
  <2> SUFFICES ASSUME TypeOK, TypeOK', NothingIsForgotten, [Next]_vars,
                      NEW s \in Schedule, Gone(s)'
               PROVE  s \in ended' \cup void'
    BY DEF NothingIsForgotten
  <2>1. s \in Int /\ made \in Int /\ s <= made' /\ row'[s] = None
    BY DEF Gone, TypeOK, Schedule
  <2>2. CASE row[s] # None
    BY <2>1, <2>2, LossStep
  <2>3. CASE row[s] = None
    <3>1. s <= made
      BY <2>1, LossStep
    <3>2. s \in ended \cup void
      BY <2>3, <3>1 DEF NothingIsForgotten, Gone
    <3> QED BY <3>2, LossStep
  <2> QED BY <2>2, <2>3
<1> QED BY <1>1, <1>2, TypeCorrect, PTL DEF Spec

-----------------------------------------------------------------------------
(* Why a schedule is run by nobody but its claimant.                         *)

(* p holds the row of s, and the claim is fresh.                             *)
Claimed(p, s) == row[s] # None /\ row[s].by = p /\ row[s].fresh

(* p has a claim that it renews, and the row is still there.                 *)
Tended(p, s) == s \in beating[p] /\ row[s] # None

(* A schedule that has not been created is known to nobody.                  *)
Created ==
  \A s \in Schedule : s > made => row[s] = None /\ \A p \in Process : s \notin beating[p]

(* The dead have no memory.                                                  *)
Forgetful ==
  \A p \in Process : p \notin up =>
    at[p] = None /\ beating[p] = {} /\ queue[p] = <<>> /\ ~Local(p)

(* A claim that is renewed is fresh, for as long as its row is there.        *)
Renewed ==
  \A p \in Process, s \in Schedule : Tended(p, s) => Claimed(p, s)

(* What the sweep has claimed is fresh as well, and new to its process.      *)
Swept ==
  agent => \A p \in Process, s \in Schedule :
             at[p] = s => Claimed(p, s) /\ s \notin beating[p]

(* No schedule waits twice in a memory queue.                                *)
Distinct == \A p \in Process : OneEach(queue[p])

(* What runs, and what will run again, is tended.                            *)
Attended ==
  agent => /\ slot # None /\ slot.of # None => Tended(slot.owner, slot.of)
           /\ \A p \in Process : \A s \in Again(queue[p]) : Tended(p, s)

(* A schedule whose turn goes on will run again only if that was preempted.  *)
Repeated ==
  \A p \in Process : Local(p) /\ slot.of \in Again(queue[p]) => slot.abort = "internal"

ClaimInv == Created /\ Forgetful /\ Renewed /\ Swept /\ Distinct /\ Attended /\ Repeated

(* The schedules of which p is the claimant are nobody else's.               *)
LEMMA Alone ==
  ASSUME ClaimInv, NEW p \in Process, NEW q \in Process, NEW s \in Schedule,
         row[s] # None, row[s].by = p, q # p
  PROVE  s \notin beating[q] /\ (agent => at[q] # s /\ s \notin Again(queue[q]))
         /\ (agent /\ slot # None /\ slot.of = s => slot.owner # q)
PROOF
<1>1. s \notin beating[q]
  BY DEF ClaimInv, Renewed, Tended, Claimed
<1>2. agent => at[q] # s
  BY DEF ClaimInv, Swept, Claimed
<1>3. agent => s \notin Again(queue[q])
  BY <1>1 DEF ClaimInv, Attended, Tended
<1>4. agent /\ slot # None /\ slot.of = s => slot.owner # q
  BY <1>1 DEF ClaimInv, Attended, Tended
<1> QED BY <1>1, <1>2, <1>3, <1>4

LEMMA RoomOf ==
  ASSUME ClaimInv, TypeOK, agent
  PROVE  RunsAreClaimed
PROOF
<1> SUFFICES ASSUME NEW p \in Process, NEW s \in Schedule, Runs(p, s) \/ Repeats(p, s)
             PROVE  row[s] # None /\ row[s].by = p
  BY DEF RunsAreClaimed
<1>1. CASE Runs(p, s)
  <2>1. slot # None /\ slot.owner = p /\ slot.of = s /\ slot.of # None
    BY <1>1 DEF Runs, Local
  <2>2. Tended(p, s)
    BY <2>1 DEF ClaimInv, Attended
  <2> QED BY <2>2 DEF ClaimInv, Renewed, Claimed
<1>2. CASE Repeats(p, s)
  <2>1. PICK i \in DOMAIN queue[p] : queue[p][i] = [of |-> s, stale |-> FALSE]
    BY <1>2 DEF Repeats
  <2>2. s \in Again(queue[p])
    BY <2>1, Fields, AgainFrom
  <2>3. Tended(p, s)
    BY <2>2 DEF ClaimInv, Attended
  <2> QED BY <2>3 DEF ClaimInv, Renewed, Claimed
<1> QED BY <1>1, <1>2

(* One lemma per kind of step: first those that change rows alone.           *)
LEMMA ClaimCreate ==
  ASSUME TypeOK, ClaimInv, Create
  PROVE  ClaimInv'
PROOF
<1>1. /\ made' = made + 1 /\ made + 1 \in Schedule /\ made \in Int
      /\ \A s \in Schedule : s # made + 1 => row'[s] = row[s]
      /\ UNCHANGED <<agent, slot, queue, at, beating, up>>
  BY DEF Create, TypeOK, Schedule, room, memory
<1>2. row[made + 1] = None /\ \A p \in Process : made + 1 \notin beating[p]
  BY <1>1 DEF ClaimInv, Created, Schedule
<1>3. \A p \in Process, s \in Schedule :
        /\ Tended(p, s) => s # made + 1
        /\ Claimed(p, s) => s # made + 1
  BY <1>2 DEF Tended, Claimed
<1>4. \A p \in Process, s \in Schedule :
        /\ Tended(p, s) <=> Tended(p, s)'
        /\ Claimed(p, s) => Claimed(p, s)'
  BY <1>1, <1>2, <1>3 DEF Tended, Claimed
<1>5. Created'
  <2> SUFFICES ASSUME NEW s \in Schedule, s > made + 1
               PROVE  row'[s] = None /\ \A p \in Process : s \notin beating[p]
    BY <1>1 DEF Created
  <2>1. s > made /\ s # made + 1
    BY <1>1 DEF Schedule
  <2> QED BY <1>1, <2>1 DEF ClaimInv, Created
<1>6. Renewed'
  BY <1>4 DEF ClaimInv, Renewed
<1>7. Swept'
  BY <1>1, <1>4 DEF ClaimInv, Swept
<1>8. Attended'
  <2>1. slot # None /\ slot.of # None => slot.owner \in Process /\ slot.of \in Schedule
    BY Fields
  <2>2. \A p \in Process : Again(queue[p]) \subseteq Schedule
    BY Fields, Queues DEF Again
  <2> QED BY <1>1, <1>4, <2>1, <2>2 DEF ClaimInv, Attended
<1> QED BY <1>1, <1>5, <1>6, <1>7, <1>8 DEF ClaimInv, Forgetful, Distinct, Repeated, Local

(* A row that is nobody's, or that nobody keeps fresh, may change as it likes. *)
LEMMA ClaimRow ==
  ASSUME TypeOK, ClaimInv, NEW s \in Schedule,
         row[s] # None,
         \A o \in Schedule : o # s => row'[o] = row[o],
         UNCHANGED <<made, agent, slot, queue, at, beating, up>>,
         \A p \in Process : s \notin beating[p] /\ (agent => at[p] # s)
  PROVE  ClaimInv'
PROOF
<1>1. \A p \in Process, o \in Schedule :
        /\ Tended(p, o) <=> Tended(p, o)'
        /\ o # s => (Claimed(p, o) <=> Claimed(p, o)')
  BY DEF Tended, Claimed
<1>2. Created'
  BY DEF ClaimInv, Created
<1>3. Renewed'
  BY <1>1 DEF ClaimInv, Renewed, Tended
<1>4. Swept'
  BY <1>1 DEF ClaimInv, Swept
<1>5. Attended'
  <2>1. slot # None /\ slot.of # None => slot.owner \in Process /\ slot.of \in Schedule
    BY Fields
  <2>2. \A p \in Process : Again(queue[p]) \subseteq Schedule
    BY Fields, Queues DEF Again
  <2> QED BY <1>1, <2>1, <2>2 DEF ClaimInv, Attended
<1> QED BY <1>2, <1>3, <1>4, <1>5 DEF ClaimInv, Forgetful, Distinct, Repeated, Local

(* Nobody tends a row that is pending, or that is claimed and stale.         *)
LEMMA Untended ==
  ASSUME TypeOK, ClaimInv, NEW s \in Schedule, row[s] # None, row[s].by = None \/ ~row[s].fresh
  PROVE  \A p \in Process : s \notin beating[p] /\ (agent => at[p] # s)
PROOF
  BY DEF ClaimInv, Renewed, Tended, Swept, Claimed

LEMMA ClaimPending ==
  ASSUME TypeOK, ClaimInv, NEW s \in Schedule, Update(s) \/ Cancel(s) \/ FallsDue(s)
  PROVE  ClaimInv'
PROOF
<1>1. row[s] # None /\ row[s].by = None
  BY DEF Update, Cancel, FallsDue, Pending
<1>2. /\ \A o \in Schedule : o # s => row'[o] = row[o]
      /\ UNCHANGED <<made, agent, slot, queue, at, beating, up>>
  BY DEF Update, Cancel, FallsDue, room, memory, TypeOK
<1> QED BY <1>1, <1>2, Untended, ClaimRow

LEMMA ClaimAged ==
  ASSUME TypeOK, ClaimInv, NEW s \in Schedule, ClaimAges(s)
  PROVE  ClaimInv'
PROOF
<1>1. row[s] # None /\ row[s].by # None /\ row[s].by \in Process
      /\ (row[s].by \in up => at[row[s].by] # s /\ s \notin beating[row[s].by])
  BY Fields DEF ClaimAges, Running
<1>2. /\ \A o \in Schedule : o # s => row'[o] = row[o]
      /\ UNCHANGED <<made, agent, slot, queue, at, beating, up>>
  BY DEF ClaimAges, room, memory, TypeOK
<1>3. ASSUME NEW p \in Process PROVE s \notin beating[p] /\ (agent => at[p] # s)
  <2>1. CASE p = row[s].by
    <3>1. p \notin up => at[p] # s /\ s \notin beating[p]
      BY DEF ClaimInv, Forgetful
    <3> QED BY <1>1, <2>1, <3>1
  <2>2. CASE p # row[s].by
    BY <1>1, <2>2, Alone
  <2> QED BY <2>1, <2>2
<1> QED BY <1>1, <1>2, <1>3, ClaimRow

(* The sweep claims a schedule that nobody keeps fresh, and then only once.  *)
LEMMA ClaimClaim ==
  ASSUME TypeOK, ClaimInv, NEW p \in Process, Claim(p)
  PROVE  ClaimInv'
PROOF
<1>1. PICK s \in Schedule : /\ Claimable(s)
                            /\ row' = [row EXCEPT ![s].by = p, ![s].fresh = TRUE]
                            /\ at' = [at EXCEPT ![p] = s]
  BY DEF Claim
<1>2. p \in up /\ at[p] = None /\ slot = None /\ UNCHANGED <<made, agent, slot, queue, beating, up>>
  BY DEF Claim, Free, room
<1>3. row[s] # None /\ (row[s].by = None \/ ~row[s].fresh)
  BY <1>1 DEF Claimable, Running
<1>4. row[s] \in Row /\ row \in [Schedule -> Row \cup {None}] /\ at \in [Process -> Schedule \cup {None}]
  BY <1>3 DEF TypeOK
<1>5. [row[s] EXCEPT !.by = p, !.fresh = TRUE] \in Row
  BY <1>4 DEF Row
<1>6. /\ \A o \in Schedule : o # s => row'[o] = row[o]
      /\ row'[s] # None /\ row'[s].by = p /\ row'[s].fresh
  <2>1. row' = [row EXCEPT ![s] = [row[s] EXCEPT !.by = p, !.fresh = TRUE]]
    BY <1>1, <1>4
  <2>2. row'[s] = [row[s] EXCEPT !.by = p, !.fresh = TRUE]
    BY <1>4, <2>1
  <2>3. row'[s] # None /\ row'[s].by = p /\ row'[s].fresh
    BY <1>4, <1>5, <2>2 DEF Row
  <2> QED BY <1>4, <2>1, <2>3
<1>7. \A q \in Process : s \notin beating[q] /\ (agent => at[q] # s)
  BY <1>3, Untended
<1>8. \A q \in Process, o \in Schedule :
        /\ Tended(q, o) <=> Tended(q, o)'
        /\ o # s => (Claimed(q, o) <=> Claimed(q, o)')
  BY <1>2, <1>3, <1>6 DEF Tended, Claimed
<1>9. Created'
  BY <1>2, <1>3, <1>6 DEF ClaimInv, Created
<1>10. Renewed'
  BY <1>7, <1>8 DEF ClaimInv, Renewed, Tended
<1>11. Swept'
  <2> SUFFICES ASSUME agent, NEW q \in Process, NEW o \in Schedule, at'[q] = o
               PROVE  Claimed(q, o)' /\ o \notin beating'[q]
    BY <1>2 DEF Swept
  <2>1. CASE q = p
    <3>1. o = s
      BY <1>1, <1>4, <2>1
    <3> QED BY <1>2, <1>6, <1>7, <2>1, <3>1 DEF Claimed
  <2>2. CASE q # p
    <3>1. at[q] = o
      BY <1>1, <1>4, <2>2
    <3>2. o # s
      BY <1>7, <3>1
    <3> QED BY <1>2, <1>8, <3>1, <3>2 DEF ClaimInv, Swept
  <2> QED BY <2>1, <2>2
<1>12. Attended'
  <2>1. \A q \in Process : Again(queue[q]) \subseteq Schedule
    BY Fields, Queues DEF Again
  <2> QED BY <1>2, <1>8, <2>1 DEF ClaimInv, Attended
<1>13. Forgetful'
  BY <1>1, <1>2, <1>4 DEF ClaimInv, Forgetful, Local
<1> QED BY <1>2, <1>9, <1>10, <1>11, <1>12, <1>13 DEF ClaimInv, Distinct, Repeated, Local

(* What a process gives up: rows of its own change, it stops renewing them,   *)
(* and neither runs them nor keeps them for later.                          *)
LEMMA ClaimGivenUp ==
  ASSUME TypeOK, ClaimInv, NEW p \in Process, NEW S \in SUBSET Schedule, NEW q \in Seq(Copy),
         p \in up, at[p] = None, slot = None \/ Local(p),
         UNCHANGED <<made, agent, at, up>>,
         \A o \in Schedule : row'[o] = row[o] \/ (o \in S /\ row[o] # None /\ row[o].by = p),
         beating' = [beating EXCEPT ![p] = @ \ S],
         queue' = [queue EXCEPT ![p] = q],
         OneEach(q), \A o \in Again(q) : o \in Again(queue[p]) /\ o \notin S,
         \/ slot' = None
         \/ /\ slot' # None /\ slot'.owner = p
            /\ slot'.of \in Again(queue[p]) /\ slot'.of \notin S /\ slot'.of \notin Again(q)
  PROVE  ClaimInv'
PROOF
<1>1. /\ beating \in [Process -> SUBSET Schedule] /\ DOMAIN queue = Process
      /\ \A x \in Process : Again(queue[x]) \subseteq Schedule
  BY Fields, Queues DEF TypeOK, Again
<1>2. /\ \A x \in Process : x # p => beating'[x] = beating[x] /\ queue'[x] = queue[x]
      /\ beating'[p] = beating[p] \ S /\ queue'[p] = q
  BY <1>1
<1>3. \A x \in Process, o \in Schedule : Tended(x, o) => row[o] # None /\ row[o].by = x /\ row[o].fresh
  BY DEF ClaimInv, Renewed, Claimed
<1>4. ASSUME NEW x \in Process, NEW o \in Schedule, Tended(x, o), x # p \/ o \notin S
      PROVE  Tended(x, o)' /\ row'[o] = row[o]
  BY <1>2, <1>3, <1>4 DEF Tended
<1>5. ASSUME NEW x \in Process, NEW o \in Schedule, Tended(x, o)'
      PROVE  Tended(x, o) /\ row'[o] = row[o]
  <2>1. o \in beating[x] /\ (x = p => o \notin S)
    BY <1>2, <1>5 DEF Tended
  <2>2. row'[o] = row[o]
    <3>1. CASE x = p
      BY <2>1, <3>1
    <3>2. CASE x # p
      BY <2>1, <3>2, Alone
    <3> QED BY <3>1, <3>2
  <2> QED BY <1>5, <2>1, <2>2 DEF Tended
<1>6. Created'
  BY <1>2 DEF ClaimInv, Created
<1>7. Renewed'
  BY <1>3, <1>5 DEF Renewed, Claimed
<1>8. Swept'
  <2> SUFFICES ASSUME agent, NEW x \in Process, NEW o \in Schedule, at[x] = o
               PROVE  Claimed(x, o)' /\ o \notin beating'[x]
    BY DEF Swept
  <2>1. x # p
    OBVIOUS
  <2>2. row[o] # None /\ row[o].by = x /\ row[o].fresh /\ o \notin beating[x]
    BY DEF ClaimInv, Swept, Claimed
  <2> QED BY <1>2, <2>1, <2>2 DEF Claimed
<1>9. Distinct'
  BY <1>2 DEF ClaimInv, Distinct
<1>10. Attended'
  <2> SUFFICES ASSUME agent PROVE Attended'
    BY DEF Attended
  <2>1. \A x \in Process : \A o \in Again(queue[x]) : Tended(x, o)
    BY DEF ClaimInv, Attended
  <2>2. slot' # None => slot'.owner \in Process /\ slot'.of \in beating'[slot'.owner] /\ row'[slot'.of] # None
    BY <1>1, <1>2, <1>4, <2>1 DEF Tended
  <2>3. ASSUME NEW x \in Process, NEW o \in Schedule, o \in Again(queue'[x]) PROVE Tended(x, o)'
    <3>1. o \in Again(queue[x]) /\ (x # p \/ o \notin S)
      BY <1>2, <2>3
    <3> QED BY <1>1, <1>4, <2>1, <3>1
  <2>4. \A x \in Process : Again(queue'[x]) \subseteq Schedule
    BY <1>1, <1>2
  <2> QED BY <2>2, <2>3, <2>4 DEF Attended, Tended
<1>11. Repeated'
  BY <1>2 DEF Repeated, Local
<1>12. Forgetful'
  BY <1>2 DEF ClaimInv, Forgetful, Local
<1> QED BY <1>6, <1>7, <1>8, <1>9, <1>10, <1>11, <1>12 DEF ClaimInv

LEMMA CompletedRows ==
  ASSUME TypeOK, NEW p \in Process, NEW S \in SUBSET Schedule, row' = Completed(p, S)
  PROVE  \A o \in Schedule : row'[o] = row[o] \/ (o \in S /\ row[o] # None /\ row[o].by = p)
PROOF
  BY DEF Completed

LEMMA ReleasedRows ==
  ASSUME TypeOK, NEW p \in Process, NEW s \in Schedule, Released(p, s)
  PROVE  \A o \in Schedule : row'[o] = row[o] \/ (o \in {s} /\ row[o] # None /\ row[o].by = p)
PROOF
<1>1. CASE row[s] # None /\ row[s].by = p
  BY <1>1 DEF Released, TypeOK
<1>2. CASE ~(row[s] # None /\ row[s].by = p)
  BY <1>2 DEF Released
<1> QED BY <1>1, <1>2

(* What the drain of a queue takes up, and what it leaves.                   *)
LEMMA ClaimDrain ==
  ASSUME TypeOK, ClaimInv, NEW p \in Process
  PROVE  /\ Drained(p) \in Seq(Copy) /\ OneEach(Drained(p))
         /\ \A o \in Again(Drained(p)) : o \in Again(queue[p]) /\ o \notin Refused(p)
         /\ \/ Resumed(p) = None
            \/ /\ Resumed(p) # None /\ Resumed(p).owner = p
               /\ Resumed(p).of \in Again(queue[p]) /\ Refused(p) = {}
               /\ Resumed(p).of \notin Again(Drained(p))
PROOF
<1>1. queue[p] \in Seq(Copy) /\ OneEach(queue[p])
  BY Fields DEF ClaimInv, Distinct
<1>2. CASE queue[p] = <<>>
  <2>1. Drained(p) = queue[p] /\ Resumed(p) = None /\ Refused(p) = {}
    BY <1>2 DEF Drained, Resumed, Refused
  <2> QED BY <1>1, <2>1
<1>3. CASE queue[p] # <<>>
  <2>1. Drained(p) = Tail(queue[p])
    BY <1>3 DEF Drained
  <2>2. /\ Drained(p) \in Seq(Copy) /\ OneEach(Drained(p))
        /\ \A o \in Again(Drained(p)) : o \in Again(queue[p]) /\ o # Foremost(p).of
        /\ Foremost(p).of \in Again(queue[p]) <=> ~Foremost(p).stale
    BY <1>1, <1>3, <2>1, TailQueue DEF Foremost
  <2>3. Foremost(p).of \in Schedule
    BY <1>1, <1>3, Queues DEF Foremost, Copy
  <2>4. CASE Dropped(Foremost(p))
    BY <2>2, <2>4 DEF Refused, Resumed
  <2>5. CASE ~Dropped(Foremost(p))
    <3>1. Resumed(p) = Begun(p, Foremost(p).of) /\ Refused(p) = {} /\ ~Foremost(p).stale
      BY <1>3, <2>5 DEF Resumed, Refused, Dropped
    <3> QED BY <2>2, <2>3, <3>1, Turns
  <2> QED BY <2>4, <2>5
<1> QED BY <1>2, <1>3

LEMMA ClaimWake ==
  ASSUME TypeOK, ClaimInv, NEW p \in Process, Wake(p)
  PROVE  ClaimInv'
PROOF
<1>1. /\ p \in up /\ at[p] = None /\ slot = None /\ slot' = Resumed(p)
      /\ queue' = [queue EXCEPT ![p] = Drained(p)] /\ Settled(p, Refused(p))
      /\ UNCHANGED <<made, agent, at, up>>
  BY DEF Wake, Free
<1>2. Refused(p) \in SUBSET Schedule
  BY Drains
<1>3. \A o \in Schedule : row'[o] = row[o] \/ (o \in Refused(p) /\ row[o] # None /\ row[o].by = p)
  BY <1>1, <1>2, CompletedRows DEF Settled
<1>4. beating' = [beating EXCEPT ![p] = @ \ Refused(p)]
  BY <1>1 DEF Settled
<1>5. \/ slot' = None
      \/ /\ slot' # None /\ slot'.owner = p
         /\ slot'.of \in Again(queue[p]) /\ slot'.of \notin Refused(p) /\ slot'.of \notin Again(Drained(p))
  BY <1>1, ClaimDrain
<1>6. Drained(p) \in Seq(Copy) /\ OneEach(Drained(p))
      /\ \A o \in Again(Drained(p)) : o \in Again(queue[p]) /\ o \notin Refused(p)
  BY ClaimDrain
<1> QED BY <1>1, <1>2, <1>3, <1>4, <1>5, <1>6, ClaimGivenUp

(* A turn that is over for good is not one that waits to run again, as long   *)
(* as an aborted turn does not end in its provider's error.                 *)
LEMMA ClaimTurnEnds ==
  ASSUME TypeOK, ClaimInv, LateErrors = FALSE, NEW p \in Process, TurnEnds(p)
  PROVE  ClaimInv'
PROOF
<1> DEFINE over == IF slot.of = None \/ Requeued(FALSE) THEN {} ELSE {slot.of}
           S == over \cup IF human THEN {} ELSE Refused(p)
           q == IF human THEN queue[p] ELSE Drained(p)
<1>1. /\ p \in up /\ at[p] = None /\ Local(p) /\ UNCHANGED <<made, agent, at, up>>
      /\ slot.of # None /\ slot.abort = "internal" => Requeued(FALSE)
      /\ Settled(p, S)
  BY Zenon DEF TurnEnds, Free
<1>2. slot' = IF human THEN None ELSE Resumed(p)
  BY DEF TurnEnds
<1>3. queue' = [queue EXCEPT ![p] = q]
  BY Fields DEF TurnEnds, TypeOK
<1>4. \A o \in Again(queue[p]) : o \notin over
  BY <1>1 DEF ClaimInv, Repeated
<1>5. queue[p] \in Seq(Copy) /\ OneEach(queue[p])
  BY Fields DEF ClaimInv, Distinct
<1>6. S \in SUBSET Schedule
  BY <1>1, Fields, Drains DEF Local
<1>7. q \in Seq(Copy) /\ OneEach(q) /\ \A o \in Again(q) : o \in Again(queue[p]) /\ o \notin S
  BY <1>4, <1>5, ClaimDrain
<1>8. \/ slot' = None
      \/ /\ slot' # None /\ slot'.owner = p
         /\ slot'.of \in Again(queue[p]) /\ slot'.of \notin S /\ slot'.of \notin Again(q)
  BY <1>2, <1>4, ClaimDrain
<1> HIDE DEF S, q
<1>9. \A o \in Schedule : row'[o] = row[o] \/ (o \in S /\ row[o] # None /\ row[o].by = p)
  BY <1>1, <1>6, CompletedRows DEF Settled
<1>10. beating' = [beating EXCEPT ![p] = @ \ S]
  BY <1>1 DEF Settled
<1> QED BY <1>1, <1>3, <1>6, <1>7, <1>8, <1>9, <1>10, ClaimGivenUp

LEMMA ClaimGivesBack ==
  ASSUME TypeOK, ClaimInv, NEW p \in Process, GivesBack(p)
  PROVE  ClaimInv'
PROOF
<1> DEFINE s == slot.of
           q == Without(queue[p], s)
<1>1. /\ p \in up /\ at[p] = None /\ Local(p) /\ s # None /\ slot' = None
      /\ Released(p, s) /\ beating' = [beating EXCEPT ![p] = @ \ {s}]
      /\ queue' = [queue EXCEPT ![p] = q] /\ UNCHANGED <<made, agent, at, up>>
  BY DEF GivesBack, Free, TypeOK
<1>2. s \in Schedule /\ {s} \in SUBSET Schedule
  BY <1>1, Fields DEF Local
<1>3. queue[p] \in Seq(Copy) /\ OneEach(queue[p])
  BY Fields DEF ClaimInv, Distinct
<1>4. q \in Seq(Copy) /\ OneEach(q) /\ \A o \in Again(q) : o \in Again(queue[p]) /\ o \notin {s}
  BY <1>3, WithoutQueue
<1>5. \A o \in Schedule : row'[o] = row[o] \/ (o \in {s} /\ row[o] # None /\ row[o].by = p)
  BY <1>1, <1>2, ReleasedRows
<1> HIDE DEF s, q
<1> QED BY <1>1, <1>2, <1>4, <1>5, ClaimGivenUp

LEMMA ClaimSettleFails ==
  ASSUME TypeOK, ClaimInv, NEW p \in Process, SettleFails(p)
  PROVE  ClaimInv'
PROOF
<1> DEFINE s == slot.of
<1>1. /\ p \in up /\ at[p] = None /\ Local(p) /\ s # None /\ slot.abort = "none" /\ slot' = None
      /\ beating' = [beating EXCEPT ![p] = @ \ {s}]
      /\ UNCHANGED <<made, agent, row, queue, at, up>>
  BY DEF SettleFails, Free
<1>2. s \in Schedule /\ {s} \in SUBSET Schedule
  BY <1>1, Fields DEF Local
<1>3. queue[p] \in Seq(Copy) /\ OneEach(queue[p]) /\ queue' = [queue EXCEPT ![p] = queue[p]]
  BY <1>1, Fields DEF ClaimInv, Distinct, TypeOK
<1>4. \A o \in Again(queue[p]) : o \notin {s}
  BY <1>1 DEF ClaimInv, Repeated
<1> HIDE DEF s
<1> QED BY <1>1, <1>2, <1>3, <1>4, ClaimGivenUp

(* A step that leaves rows and claims alone, whatever it does in the room.    *)
LEMMA ClaimRows ==
  ASSUME TypeOK, ClaimInv, UNCHANGED <<made, row, beating>>, agent' => agent
  PROVE  /\ Created' /\ Renewed'
         /\ (\A p \in Process : at'[p] = at[p] \/ at'[p] = None) => Swept'
         /\ \A p \in Process : \A s : Tended(p, s)' <=> Tended(p, s)
         /\ \A p \in Process : Again(queue[p]) \subseteq Schedule
         /\ agent => /\ slot # None /\ slot.of # None =>
                          slot.owner \in Process /\ Tended(slot.owner, slot.of)
                     /\ \A p \in Process : \A s \in Again(queue[p]) : Tended(p, s)
PROOF
<1>1. Created'
  BY DEF ClaimInv, Created
<1>2. Renewed'
  BY DEF ClaimInv, Renewed, Tended, Claimed
<1>3. ASSUME \A p \in Process : at'[p] = at[p] \/ at'[p] = None PROVE Swept'
  <2> SUFFICES ASSUME agent, NEW p \in Process, NEW s \in Schedule, at'[p] = s
               PROVE  row[s] # None /\ row[s].by = p /\ row[s].fresh /\ s \notin beating[p]
    BY DEF Swept, Claimed
  <2>1. at[p] = s
    BY <1>3
  <2> QED BY <2>1 DEF ClaimInv, Swept, Claimed
<1>4. \A p \in Process : \A s : Tended(p, s)' <=> Tended(p, s)
  BY DEF Tended
<1>5. \A p \in Process : Again(queue[p]) \subseteq Schedule
  BY Fields, Queues DEF Again
<1>6. agent => /\ slot # None /\ slot.of # None =>
                   slot.owner \in Process /\ Tended(slot.owner, slot.of)
              /\ \A p \in Process : \A s \in Again(queue[p]) : Tended(p, s)
  BY Fields DEF ClaimInv, Attended
<1> QED BY <1>1, <1>2, <1>3, <1>4, <1>5, <1>6

(* The room when turns of others start or end.                               *)
LEMMA ClaimElsewhere ==
  ASSUME TypeOK, ClaimInv,
         UNCHANGED <<made, row, agent, queue, at, beating, up>>,
         slot' = slot \/ (slot' # None /\ slot'.of = None /\ slot'.owner \in up)
  PROVE  ClaimInv'
PROOF
<1>1. Created' /\ Renewed' /\ Swept'
  BY ClaimRows
<1>2. Distinct'
  BY DEF ClaimInv, Distinct
<1>3. Forgetful'
  BY DEF ClaimInv, Forgetful, Local
<1>4. Attended'
  BY ClaimRows DEF ClaimInv, Attended, Tended
<1>5. Repeated'
  BY ClaimRows DEF ClaimInv, Repeated, Local
<1> QED BY <1>1, <1>2, <1>3, <1>4, <1>5 DEF ClaimInv

LEMMA ClaimUser ==
  ASSUME TypeOK, ClaimInv, UserMessage \/ \E p \in Process : UserTakes(p)
  PROVE  ClaimInv'
PROOF
<1>1. CASE UserMessage
  BY <1>1, ClaimElsewhere DEF UserMessage, memory
<1>2. ASSUME NEW p \in Process, UserTakes(p) PROVE ClaimInv'
  BY <1>2, Turns, ClaimElsewhere DEF UserTakes, Free, memory
<1> QED BY <1>1, <1>2

(* A process that stops short of its dispatch forgets what it claimed.       *)
LEMMA ClaimDispatchFails ==
  ASSUME TypeOK, ClaimInv, NEW p \in Process, DispatchFails(p)
  PROVE  ClaimInv'
PROOF
<1>1. /\ at' = [at EXCEPT ![p] = None] /\ UNCHANGED <<made, row, agent, slot, queue, beating, up>>
  BY DEF DispatchFails, room
<1>2. \A q \in Process : at'[q] = IF q = p THEN None ELSE at[q]
  BY <1>1 DEF TypeOK
<1>3. Created' /\ Renewed' /\ Swept'
  BY <1>1, <1>2, ClaimRows
<1>4. Attended'
  BY <1>1 DEF ClaimInv, Attended, Tended
<1>5. Distinct' /\ Repeated'
  BY <1>1 DEF ClaimInv, Distinct, Repeated, Local
<1>6. Forgetful'
  BY <1>1, <1>2 DEF ClaimInv, Forgetful, Local
<1> QED BY <1>3, <1>4, <1>5, <1>6 DEF ClaimInv

(* A preempted turn keeps its claim, for the copy that takes its place.      *)
LEMMA ClaimPreempt ==
  ASSUME TypeOK, ClaimInv, NEW p \in Process, Preempt(p)
  PROVE  ClaimInv'
PROOF
<1> DEFINE c == [of |-> slot.of, stale |-> slot.stale]
           q == Put(queue[p], c)
<1>1. /\ p \in up /\ Local(p) /\ slot.of # None
      /\ queue' = [queue EXCEPT ![p] = q]
      /\ \E b \in BOOLEAN : slot' = [slot EXCEPT !.abort = "internal", !.requeued = b]
      /\ UNCHANGED <<made, row, agent, at, beating, up>>
  BY DEF Preempt, Free, memory
<1>2. slot # None /\ slot \in Turn /\ slot.of \in Schedule /\ slot.owner = p /\ slot.stale \in BOOLEAN
  BY <1>1, Fields DEF Local
<1>3. slot' # None /\ slot'.of = slot.of /\ slot'.owner = p /\ slot'.abort = "internal"
  <2>1. PICK b \in BOOLEAN : slot' = [slot EXCEPT !.abort = "internal", !.requeued = b]
    BY <1>1
  <2>2. slot' \in Turn
    BY <1>2, <2>1 DEF Turn
  <2> QED BY <1>2, <2>1, <2>2 DEF Turn
<1>4. c \in Copy /\ c.of = slot.of
  BY <1>2 DEF Copy
<1>5. /\ q \in Seq(Copy) /\ OneEach(q)
      /\ \A s : s \in Again(q) => s \in Again(queue[p]) \/ s = slot.of
  BY <1>4, Fields, PutQueue DEF ClaimInv, Distinct
<1> HIDE DEF c, q
<1>6. \A x \in Process : queue'[x] = IF x = p THEN q ELSE queue[x]
  BY <1>1 DEF TypeOK
<1>7. \A x \in Process : Again(queue[x]) \subseteq Schedule
  BY <1>1, ClaimRows
<1>8. Created' /\ Renewed' /\ Swept'
  BY <1>1, ClaimRows
<1>9. Distinct'
  BY <1>5, <1>6 DEF ClaimInv, Distinct
<1>10. Forgetful'
  BY <1>1, <1>3, <1>6 DEF ClaimInv, Forgetful, Local
<1>11. Attended'
  <2> SUFFICES ASSUME agent PROVE Attended'
    BY <1>1 DEF Attended
  <2>1. Tended(p, slot.of) /\ \A x \in Process : \A s \in Again(queue[x]) : Tended(x, s)
    BY <1>1, <1>2 DEF ClaimInv, Attended
  <2>2. ASSUME NEW x \in Process, NEW s, s \in Again(queue'[x])
        PROVE  s \in Schedule /\ Tended(x, s)
    <3>1. CASE x = p
      BY <1>2, <1>5, <1>6, <1>7, <2>1, <2>2, <3>1
    <3>2. CASE x # p
      BY <1>6, <1>7, <2>1, <2>2, <3>2
    <3> QED BY <3>1, <3>2
  <2> QED BY <1>1, <1>2, <1>3, <2>1, <2>2 DEF Attended, Tended
<1>12. Repeated'
  BY <1>3 DEF Repeated, Local
<1> QED BY <1>8, <1>9, <1>10, <1>11, <1>12 DEF ClaimInv

(* The sweep goes on: the schedule it claimed is put back, dropped or run.    *)
LEMMA ClaimDispatch ==
  ASSUME TypeOK, ClaimInv, NEW p \in Process, Dispatch(p)
  PROVE  ClaimInv'
PROOF
<1> DEFINE s == at[p]
<1>1. /\ p \in up /\ s # None /\ at' = [at EXCEPT ![p] = None]
      /\ UNCHANGED <<made, agent, queue, up>>
  BY DEF Dispatch
<1>2. s \in Schedule
  BY <1>1, Fields
<1>3. \A x \in Process : at'[x] = IF x = p THEN None ELSE at[x]
  BY <1>1 DEF TypeOK
<1>4. agent => row[s] # None /\ row[s].by = p /\ row[s].fresh /\ s \notin beating[p]
  BY <1>2 DEF ClaimInv, Swept, Claimed
<1>5. Distinct'
  BY <1>1 DEF ClaimInv, Distinct
<1>6. ASSUME beating' = beating, slot' = slot,
             \A o \in Schedule : row'[o] = row[o] \/ (o \in {s} /\ row[o] # None /\ row[o].by = p),
             agent \/ row'[s] = None \/ row'[s] = row[s]
      PROVE  ClaimInv'
  <2>1. \A x \in Process, o \in Schedule : Tended(x, o) => row[o] # None /\ row[o].by = x /\ row[o].fresh
    BY DEF ClaimInv, Renewed, Claimed
  <2>2. Created'
    BY <1>1, <1>6 DEF ClaimInv, Created
  <2>3. Renewed'
    <3> SUFFICES ASSUME NEW x \in Process, NEW o \in Schedule, o \in beating[x], row'[o] # None
                 PROVE  row'[o] # None /\ row'[o].by = x /\ row'[o].fresh
      BY <1>6 DEF Renewed, Tended, Claimed
    <3>1. CASE row'[o] = row[o]
      BY <2>1, <3>1 DEF Tended
    <3>2. CASE row'[o] # row[o]
      <4>1. o = s /\ row[o] # None /\ row[o].by = p /\ agent
        BY <1>6, <3>2
      <4>2. x = p
        BY <2>1, <4>1 DEF Tended
      <4> QED BY <1>4, <4>1, <4>2
    <3> QED BY <3>1, <3>2
  <2>4. Swept'
    <3> SUFFICES ASSUME agent, NEW x \in Process, NEW o \in Schedule, at'[x] = o
                 PROVE  row'[o] # None /\ row'[o].by = x /\ row'[o].fresh /\ o \notin beating[x]
      BY <1>1, <1>6 DEF Swept, Claimed
    <3>1. x # p /\ at[x] = o
      BY <1>3
    <3>2. row[o] # None /\ row[o].by = x /\ row[o].fresh /\ o \notin beating[x]
      BY <3>1 DEF ClaimInv, Swept, Claimed
    <3> QED BY <1>6, <3>1, <3>2
  <2>5. Attended'
    <3> SUFFICES ASSUME agent PROVE Attended'
      BY <1>1 DEF Attended
    <3>1. \A x \in Process, o \in Schedule : Tended(x, o) => o \in beating'[x] /\ row'[o] # None
      BY <1>4, <1>6, <2>1 DEF Tended
    <3>2. /\ slot # None /\ slot.of # None =>
               slot.owner \in Process /\ slot.of \in Schedule /\ Tended(slot.owner, slot.of)
          /\ \A x \in Process : \A o \in Again(queue[x]) : o \in Schedule /\ Tended(x, o)
      BY Fields, Queues DEF ClaimInv, Attended, Again
    <3> QED BY <1>1, <1>6, <3>1, <3>2 DEF Attended, Tended
  <2>6. Repeated'
    BY <1>1, <1>6 DEF ClaimInv, Repeated, Local
  <2>7. Forgetful'
    BY <1>1, <1>3, <1>6 DEF ClaimInv, Forgetful, Local
  <2> QED BY <1>5, <2>2, <2>3, <2>4, <2>5, <2>6, <2>7 DEF ClaimInv
<1>7. CASE ~agent
  <2>1. row' = Completed(p, {s}) /\ UNCHANGED <<slot, beating>>
    BY <1>7 DEF Dispatch
  <2>2. {s} \in SUBSET Schedule /\ (row'[s] = None \/ row'[s] = row[s])
    BY <1>2, <2>1 DEF Completed
  <2> HIDE DEF s
  <2> QED BY <1>6, <2>1, <2>2, CompletedRows
<1>8. CASE agent /\ slot # None
  <2>1. Released(p, s) /\ UNCHANGED <<slot, beating>>
    BY <1>8 DEF Dispatch
  <2> HIDE DEF s
  <2> QED BY <1>2, <1>6, <1>8, <2>1, ReleasedRows
<1>9. CASE agent /\ slot = None
  <2>1. /\ slot' = Begun(p, s) /\ UNCHANGED row
        /\ beating' = [beating EXCEPT ![p] = @ \cup {s}]
    BY <1>4, <1>9 DEF Dispatch
  <2>2. slot' # None /\ slot'.owner = p /\ slot'.of = s /\ slot'.abort = "none"
    BY <1>2, <2>1, Turns
  <2>3. \A x \in Process : beating'[x] = IF x = p THEN beating[p] \cup {s} ELSE beating[x]
    BY <2>1 DEF TypeOK
  <2>4. Created'
    <3>1. ~(s > made)
      BY <1>2, <1>4, <1>9 DEF ClaimInv, Created
    <3> QED BY <1>1, <2>1, <2>3, <3>1 DEF ClaimInv, Created
  <2>5. Renewed'
    BY <1>4, <1>9, <2>1, <2>3 DEF ClaimInv, Renewed, Tended, Claimed
  <2>6. Swept'
    <3> SUFFICES ASSUME NEW x \in Process, NEW o \in Schedule, at'[x] = o
                 PROVE  row[o] # None /\ row[o].by = x /\ row[o].fresh /\ o \notin beating'[x]
      BY <2>1 DEF Swept, Claimed
    <3>1. x # p /\ at[x] = o
      BY <1>3
    <3> QED BY <1>9, <2>3, <3>1 DEF ClaimInv, Swept, Claimed
  <2>7. s \notin Again(queue[p])
    BY <1>4, <1>9 DEF ClaimInv, Attended, Tended
  <2>8. Attended'
    <3>1. \A x \in Process : \A o \in Again(queue[x]) : o \in beating[x] /\ row[o] # None
      BY <1>9 DEF ClaimInv, Attended, Tended
    <3> QED BY <1>1, <1>4, <1>9, <2>1, <2>2, <2>3, <3>1 DEF Attended, Tended
  <2>9. Repeated'
    BY <1>1, <2>2, <2>7 DEF Repeated, Local
  <2>10. Forgetful'
    BY <1>1, <1>3, <2>2, <2>3 DEF ClaimInv, Forgetful, Local
  <2> QED BY <1>5, <2>4, <2>5, <2>6, <2>8, <2>9, <2>10 DEF ClaimInv
<1> QED BY <1>7, <1>8, <1>9

(* A stop makes every copy stale; without its agent the topic runs nothing.   *)
LEMMA ClaimStops ==
  ASSUME TypeOK, ClaimInv, Stop \/ Leave \/ Delete
  PROVE  ClaimInv'
PROOF
<1>1. \A x \in Process : queue[x] \in Seq(Copy) /\ OneEach(queue[x])
  BY Fields DEF ClaimInv, Distinct
<1>2. ASSUME slot' = Aborted PROVE \A x \in Process : Local(x)' <=> Local(x)
  <2>1. slot # None => Aborted # None /\ Aborted.owner = slot.owner
    <3>1. ASSUME slot # None PROVE Aborted \in Turn /\ Aborted.owner = slot.owner
      BY <3>1 DEF TypeOK, Turn, Aborted
    <3> QED BY <3>1
  <2> QED BY <1>2, <2>1 DEF Local, Aborted
<1>3. ASSUME queue' = [x \in Process |-> Stale(queue[x])]
      PROVE  \A x \in Process : /\ OneEach(queue'[x]) /\ Again(queue'[x]) = {}
                                /\ queue[x] = <<>> => queue'[x] = <<>>
  <2>1. \A x \in Process : queue'[x] = Stale(queue[x])
    BY <1>3
  <2>2. Stale(<<>>) = <<>>
    BY DEF Stale
  <2> QED BY <1>1, <2>1, <2>2, StaleQueue
<1>4. CASE Stop
  <2>1. /\ slot' = Aborted /\ queue' = [x \in Process |-> Stale(queue[x])]
        /\ UNCHANGED <<made, row, agent, at, beating, up>>
    BY <1>4 DEF Stop, memory
  <2>2. Created' /\ Renewed' /\ Swept'
    BY <2>1, ClaimRows
  <2>3. Distinct' /\ Repeated'
    BY <1>3, <2>1 DEF Distinct, Repeated
  <2>4. Forgetful'
    BY <1>2, <1>3, <2>1 DEF ClaimInv, Forgetful
  <2>5. Attended'
    <3> SUFFICES ASSUME agent PROVE Attended'
      BY <2>1 DEF Attended
    <3>1. slot = None => slot' = None
      BY <2>1 DEF Aborted
    <3>2. slot # None => slot'.of = slot.of /\ slot'.owner = slot.owner
      BY <2>1 DEF TypeOK, Turn, Aborted
    <3>3. slot' # None /\ slot'.of # None => slot'.of \in beating[slot'.owner] /\ row[slot'.of] # None
      BY <3>1, <3>2 DEF ClaimInv, Attended, Tended
    <3> QED BY <1>3, <2>1, <3>3 DEF Attended, Tended
  <2> QED BY <2>2, <2>3, <2>4, <2>5 DEF ClaimInv
<1>5. CASE Leave
  <2>1. ~agent' /\ UNCHANGED <<made, row, slot, queue, at, beating, up>>
    BY <1>5 DEF Leave, memory, room
  <2>2. Created' /\ Renewed'
    BY <2>1, ClaimRows
  <2> QED BY <2>1, <2>2 DEF ClaimInv, Swept, Attended, Distinct, Repeated, Forgetful, Local
<1>6. CASE Delete
  <2>1. /\ ~agent' /\ slot' = Aborted /\ queue' = [x \in Process |-> Stale(queue[x])]
        /\ row' = [o \in Schedule |-> None] /\ UNCHANGED <<made, at, beating, up>>
    BY <1>6 DEF Delete, memory
  <2>2. Created' /\ Renewed'
    BY <2>1 DEF ClaimInv, Created, Renewed, Tended
  <2>3. Swept' /\ Attended'
    BY <2>1 DEF Swept, Attended
  <2>4. Distinct' /\ Repeated'
    BY <1>3, <2>1 DEF Distinct, Repeated
  <2>5. Forgetful'
    BY <1>2, <1>3, <2>1 DEF ClaimInv, Forgetful
  <2> QED BY <2>2, <2>3, <2>4, <2>5 DEF ClaimInv
<1> QED BY <1>4, <1>5, <1>6

LEMMA ClaimCrash ==
  ASSUME TypeOK, ClaimInv, NEW p \in Process, Crash(p)
  PROVE  ClaimInv'
PROOF
<1>1. /\ \A x \in Process : x # p => /\ queue'[x] = queue[x] /\ at'[x] = at[x]
                                     /\ beating'[x] = beating[x]
      /\ queue'[p] = <<>> /\ at'[p] = None /\ beating'[p] = {}
      /\ up' = up \ {p} /\ UNCHANGED <<made, row, agent>>
  BY DEF Crash, TypeOK
<1>2. ~Local(p)' /\ (slot' = None \/ (slot' = slot /\ ~Local(p)))
  BY DEF Crash, Local
<1>3. Created'
  BY <1>1 DEF ClaimInv, Created
<1>4. Renewed'
  BY <1>1 DEF ClaimInv, Renewed, Tended, Claimed
<1>5. Swept'
  BY <1>1 DEF ClaimInv, Swept, Claimed
<1>6. Distinct' /\ Repeated'
  BY <1>1, <1>2, NothingAgain DEF ClaimInv, Distinct, Repeated, Local
<1>7. Forgetful'
  BY <1>1, <1>2 DEF ClaimInv, Forgetful, Local
<1>8. Attended'
  <2> SUFFICES ASSUME agent PROVE Attended'
    BY <1>1 DEF Attended
  <2>1. slot' # None /\ slot'.of # None => slot'.of \in beating'[slot'.owner] /\ row'[slot'.of] # None
    BY <1>1, <1>2, Fields DEF ClaimInv, Attended, Tended, Local
  <2>2. \A x \in Process : \A o \in Again(queue'[x]) : o \in beating'[x] /\ row'[o] # None
    BY <1>1, NothingAgain DEF ClaimInv, Attended, Tended
  <2> QED BY <2>1, <2>2 DEF Attended, Tended
<1> QED BY <1>3, <1>4, <1>5, <1>6, <1>7, <1>8 DEF ClaimInv

LEMMA ClaimStep ==
  ASSUME TypeOK, ClaimInv, LateErrors = FALSE, [Next]_vars
  PROVE  ClaimInv'
PROOF
<1>1. CASE UNCHANGED vars
  <2>1. UNCHANGED <<made, row, agent, slot, queue, at, beating, up>>
    BY <1>1 DEF vars, room, memory
  <2> QED BY <2>1, ClaimElsewhere
<1>2. CASE Next
  BY <1>2, ClaimCreate, ClaimPending, ClaimAged, ClaimClaim, ClaimDispatch, ClaimDispatchFails,
     ClaimPreempt, ClaimUser, ClaimTurnEnds, ClaimGivesBack, ClaimSettleFails, ClaimWake,
     ClaimCrash, ClaimStops DEF Next
<1> QED BY <1>1, <1>2

(* Whatever was preempted, repeated, put back, cancelled or taken over from a *)
(* process that died: nobody runs, or will run from memory, a schedule whose  *)
(* row is not his.  As in the run, an aborted turn does not end in an error   *)
(* of its provider, which would complete the row under the queued copy.      *)
THEOREM RunsAreClaimedHolds ==
  ASSUME LateErrors = FALSE
  PROVE  Spec => []RunsAreClaimed
PROOF
<1>1. Init => ClaimInv
  <2> SUFFICES ASSUME Init PROVE ClaimInv
    OBVIOUS
  <2> QED BY NothingAgain DEF Init, ClaimInv, Created, Forgetful, Renewed, Swept, Distinct, Attended,
             Repeated, Tended, Local
<1>2. TypeOK /\ ClaimInv /\ [Next]_vars => ClaimInv'
  BY ClaimStep
<1>3. TypeOK /\ ClaimInv => RunsAreClaimed
  <2>1. ~agent => RunsAreClaimed
    BY DEF RunsAreClaimed
  <2> QED BY <2>1, RoomOf
<1> QED BY <1>1, <1>2, <1>3, TypeCorrect, PTL DEF Spec
=============================================================================
