-------------------------- MODULE InjectQueueProofs --------------------------
(***************************************************************************)
(* Theorems about InjectQueue, for every set of processes and injects, and   *)
(* all bounds.                                                              *)
(***************************************************************************)
EXTENDS InjectQueue, SelectionsProofs

USE SetsAssumption, BoundsAssumption, NoneAssumption

-----------------------------------------------------------------------------
(* What the queue of active-rooms.ts does to entries.                        *)

(* No inject waits in two entries.                                           *)
Apart(q) == \A i, j \in DOMAIN q : i # j => ToSet(q[i].work) \cap ToSet(q[j].work) = {}

(* The injects w are those of an entry, or wait in none.                     *)
Meets(q, w) == \A i \in DOMAIN q : q[i].work = w \/ ToSet(q[i].work) \cap ToSet(w) = {}

(* Every entry has work.                                                     *)
Full(q) == \A i \in DOMAIN q : q[i].work # <<>>

LEMMA EntryFields ==
  ASSUME NEW e \in Entry
  PROVE  e.work \in Seq(Inject) /\ e.epoch \in Epoch \cup {None} /\ e.thread \in BOOLEAN
         /\ ToSet(e.work) \subseteq Inject
PROOF
<1>1. e.work \in Seq(Inject) /\ e.epoch \in Epoch \cup {None} /\ e.thread \in BOOLEAN
  BY DEF Entry
<1> QED BY <1>1 DEF ToSet

LEMMA Places1 ==
  ASSUME NEW X, NEW q \in Seq(X)
  PROVE  DOMAIN q = 1..Len(q) /\ Len(q) \in Nat /\ \A i \in DOMAIN q : q[i] \in X
PROOF
  OBVIOUS

LEMMA ToSetOf ==
  ASSUME NEW X, NEW w \in Seq(X)
  PROVE  /\ \A m : m \in ToSet(w) <=> \E i \in DOMAIN w : w[i] = m
         /\ w # <<>> <=> ToSet(w) # {}
PROOF
<1>1. w # <<>> => 1 \in DOMAIN w
  OBVIOUS
<1>2. w = <<>> => DOMAIN w = {}
  OBVIOUS
<1> QED BY <1>1, <1>2 DEF ToSet

LEMMA InjectsOf ==
  ASSUME NEW q, NEW m
  PROVE  m \in Injects(q) <=> \E i \in DOMAIN q : m \in ToSet(q[i].work)
PROOF
  BY DEF Injects

LEMMA EmptyQueue == /\ DOMAIN <<>> = {} /\ Injects(<<>>) = {} /\ Apart(<<>>) /\ Full(<<>>)
                    /\ \A w : Meets(<<>>, w)
PROOF
<1>1. DOMAIN <<>> = {}
  OBVIOUS
<1> QED BY <1>1 DEF Injects, Apart, Full, Meets

LEMMA PutFacts ==
  ASSUME NEW q \in Seq(Entry), NEW e \in Entry
  PROVE  /\ Put(q, e) \in Seq(Entry)
         /\ \A m : m \in Injects(Put(q, e)) <=> m \in Injects(q) \cup ToSet(e.work)
         /\ \A i \in DOMAIN Put(q, e) : Put(q, e)[i] = e \/ \E j \in DOMAIN q : Put(q, e)[i] = q[j]
         /\ Apart(q) /\ Meets(q, e.work) => Apart(Put(q, e)) /\ Meets(Put(q, e), e.work)
         /\ Put(q, e) = q => \E j \in DOMAIN q : q[j].work = e.work
PROOF
<1> DEFINE t == Put(q, e)
<1>1. CASE \E i \in DOMAIN q : q[i].work = e.work
  <2>1. t = q
    BY <1>1 DEF Put
  <2>2. ToSet(e.work) \subseteq Injects(q)
    BY <1>1, InjectsOf
  <2> QED BY <1>1, <2>1, <2>2
<1>2. CASE ~\E i \in DOMAIN q : q[i].work = e.work
  <2> DEFINE n == Len(q) + 1
  <2>1. /\ t \in Seq(Entry) /\ DOMAIN t = 1..n /\ DOMAIN q = 1..Len(q) /\ Len(q) \in Nat
        /\ t[n] = e /\ \A i \in 1..Len(q) : t[i] = q[i]
    <3>1. t = Append(q, e)
      BY <1>2 DEF Put
    <3> HIDE DEF t
    <3> QED BY <3>1
  <2> HIDE DEF t
  <2>2. \A i \in DOMAIN t : (i \in DOMAIN q /\ t[i] = q[i]) \/ (i = n /\ t[i] = e)
    BY <2>1
  <2>3. \A i \in DOMAIN q : i \in DOMAIN t /\ t[i] = q[i]
    BY <2>1
  <2>4. n \in DOMAIN t /\ n \notin DOMAIN q /\ t[n] = e
    BY <2>1
  <2> HIDE DEF n
  <2>5. \A m : m \in Injects(t) <=> m \in Injects(q) \cup ToSet(e.work)
    BY <2>2, <2>3, <2>4, InjectsOf
  <2>6. ASSUME Apart(q), Meets(q, e.work) PROVE Apart(t) /\ Meets(t, e.work)
    <3>1. \A i \in DOMAIN q : ToSet(q[i].work) \cap ToSet(e.work) = {}
      BY <1>2, <2>6 DEF Meets
    <3>2. Apart(t)
      BY <2>2, <2>6, <3>1 DEF Apart
    <3>3. Meets(t, e.work)
      BY <2>2, <3>1 DEF Meets
    <3> QED BY <3>2, <3>3
  <2>7. t # q
    BY <2>4
  <2> QED BY <2>1, <2>2, <2>5, <2>6, <2>7 DEF t
<1> QED BY <1>1, <1>2

(* There is a longest prefix that merges.                                    *)
LEMMA PrefixExists ==
  ASSUME NEW q \in Seq(Entry), q # <<>>
  PROVE  /\ Prefix(q) \in 1..Len(q)
         /\ \A i \in 2..Prefix(q) : Mergeable(q[1], q[i])
PROOF
<1> DEFINE P(n) == /\ \A i \in 2..n : Mergeable(q[1], q[i])
                   /\ n < Len(q) => ~Mergeable(q[1], q[n + 1])
           T == {n \in Nat : n + 1 <= Len(q) => \A i \in 2..(n + 1) : Mergeable(q[1], q[i])}
<1>0. Len(q) \in Nat /\ Len(q) >= 1
  OBVIOUS
<1>1. \E n \in 1..Len(q) : P(n)
  <2> SUFFICES ASSUME \A n \in 1..Len(q) : ~P(n) PROVE FALSE
    OBVIOUS
  <2>1. 0 \in T
    OBVIOUS
  <2>2. \A n \in T : n + 1 \in T
    <3> SUFFICES ASSUME NEW n \in T, n + 2 <= Len(q), NEW i \in 2..(n + 2)
                 PROVE  Mergeable(q[1], q[i])
      BY <1>0
    <3>1. n + 1 \in 1..Len(q) /\ n + 1 < Len(q) /\ \A k \in 2..(n + 1) : Mergeable(q[1], q[k])
      BY <1>0
    <3>2. Mergeable(q[1], q[(n + 1) + 1])
      BY <3>1
    <3>3. i = (n + 1) + 1 \/ i \in 2..(n + 1)
      OBVIOUS
    <3> QED BY <3>1, <3>2, <3>3
  <2>3. T = Nat
    <3>1. T \in SUBSET Nat
      OBVIOUS
    <3> HIDE DEF T
    <3> QED BY <2>1, <2>2, <3>1, Induction
  <2>4. Len(q) - 1 \in T
    <3>1. Len(q) - 1 \in Nat
      BY <1>0
    <3> HIDE DEF T
    <3> QED BY <2>3, <3>1
  <2>5. \A i \in 2..Len(q) : Mergeable(q[1], q[i])
    BY <1>0, <2>4
  <2> QED BY <1>0, <2>5
<1>2. Prefix(q) = CHOOSE n \in 1..Len(q) : P(n)
  BY DEF Prefix
<1> HIDE DEF P
<1>3. Prefix(q) \in 1..Len(q) /\ P(Prefix(q))
  BY <1>1, <1>2
<1> QED BY <1>3 DEF P

(* What is taken from a queue, and what is left.                             *)
LEMMA BatchFacts ==
  ASSUME NEW q \in Seq(Entry), q # <<>>
  PROVE  /\ 1 \in DOMAIN q
         /\ Batch(q) \in Entry /\ Batch(q).epoch = q[1].epoch
         /\ Full(q) => Batch(q).work # <<>> /\ Full(Rest(q))
         /\ \A m : m \in ToSet(Batch(q).work) =>
              \E j \in DOMAIN q : m \in ToSet(q[j].work) /\ q[j].epoch = Batch(q).epoch
         /\ Rest(q) \in Seq(Entry)
         /\ \A i \in DOMAIN Rest(q) : \E j \in DOMAIN q : Rest(q)[i] = q[j]
         /\ Apart(q) => /\ Apart(Rest(q))
                        /\ \A i \in DOMAIN Rest(q) : ToSet(Rest(q)[i].work) \cap ToSet(Batch(q).work) = {}
         /\ \A m : m \in Injects(q) <=> m \in ToSet(Batch(q).work) \/ m \in Injects(Rest(q))
PROOF
<1> DEFINE n == Prefix(q)
           ws == [i \in 1..n |-> q[i].work]
           r == Rest(q)
           w == Joined(ws)
<1>1. n \in 1..Len(q) /\ \A i \in 2..n : Mergeable(q[1], q[i])
  BY PrefixExists
<1>2. DOMAIN q = 1..Len(q) /\ Len(q) \in Nat /\ 1 \in DOMAIN q
  OBVIOUS
<1>3. \A i \in DOMAIN q : q[i] \in Entry /\ q[i].work \in Seq(Inject)
  BY <1>2, EntryFields
<1> HIDE DEF n
<1>4. ws \in Seq(Seq(Inject)) /\ DOMAIN ws = 1..n /\ \A i \in 1..n : ws[i] = q[i].work /\ i \in DOMAIN q
  BY <1>1, <1>2, <1>3
<1>5. Batch(q) = [q[1] EXCEPT !.work = w]
  BY DEF Batch, n
<1> HIDE DEF ws
<1>6. w \in Seq(Inject)
  BY <1>4, JoinedOrigins
<1>7. \A m : m \in ToSet(w) <=> \E i \in 1..n : m \in ToSet(q[i].work)
  <2>1. {w[k] : k \in DOMAIN w} = UNION {{ws[i][j] : j \in DOMAIN ws[i]} : i \in DOMAIN ws}
    <3>1. ws \in Seq(Seq(Inject))
      BY <1>4
    <3> QED BY <3>1, JoinedElements
  <2>2. ToSet(w) = {w[k] : k \in DOMAIN w}
    BY DEF ToSet
  <2>3. \A i \in 1..n : ToSet(q[i].work) = {ws[i][j] : j \in DOMAIN ws[i]}
    BY <1>4 DEF ToSet
  <2> HIDE DEF w
  <2>4. ToSet(w) = UNION {{ws[i][j] : j \in DOMAIN ws[i]} : i \in 1..n}
    BY <1>4, <2>1, <2>2, Zenon
  <2> TAKE m
  <2>5. m \in ToSet(w) <=> \E i \in 1..n : m \in {ws[i][j] : j \in DOMAIN ws[i]}
    BY <2>4, ZenonT(60)
  <2>6. (\E i \in 1..n : m \in {ws[i][j] : j \in DOMAIN ws[i]}) <=> \E i \in 1..n : m \in ToSet(q[i].work)
    BY <2>3, ZenonT(60)
  <2> QED BY <2>5, <2>6, Zenon
<1> HIDE DEF w
<1>8. Batch(q) \in Entry /\ Batch(q).epoch = q[1].epoch /\ Batch(q).work = w
  <2>1. q[1] \in Entry
    BY <1>2, <1>3
  <2> QED BY <1>5, <1>6, <2>1 DEF Entry
<1>9. \A i \in 1..n : i \in DOMAIN q /\ q[i].epoch = q[1].epoch
  <2> TAKE i \in 1..n
  <2>1. i = 1 \/ i \in 2..n
    BY <1>1
  <2> QED BY <1>1, <1>4, <2>1 DEF Mergeable
<1>10. ASSUME Full(q) PROVE w # <<>>
  <2>1. 1 \in 1..n /\ q[1].work # <<>> /\ q[1].work \in Seq(Inject)
    BY <1>1, <1>2, <1>3, <1>10 DEF Full
  <2>2. ToSet(q[1].work) # {}
    BY <2>1, ToSetOf
  <2> QED BY <1>6, <1>7, <2>1, <2>2, ToSetOf
<1>11. /\ r \in Seq(Entry) /\ DOMAIN r = 1..(Len(q) - n)
       /\ \A i \in 1..(Len(q) - n) : i + n \in DOMAIN q /\ i + n \notin 1..n /\ r[i] = q[i + n]
  <2>1. r = SubSeq(q, n + 1, Len(q))
    BY DEF Rest, n
  <2> HIDE DEF r
  <2> QED BY <1>1, <1>2, <2>1
<1> HIDE DEF r
<1>12. (Apart(q) => Apart(r)) /\ (Full(q) => Full(r))
  <2>1. \A i, j \in DOMAIN r : i # j => i + n # j + n
    BY <1>1, <1>11
  <2> QED BY <1>11, <2>1 DEF Apart, Full
<1>13. Apart(q) => \A i \in DOMAIN r : ToSet(r[i].work) \cap ToSet(w) = {}
  <2> SUFFICES ASSUME Apart(q), NEW i \in DOMAIN r, NEW m, m \in ToSet(r[i].work), m \in ToSet(w) PROVE FALSE
    OBVIOUS
  <2>1. PICK k \in 1..n : m \in ToSet(q[k].work)
    BY <1>7
  <2>2. i + n \in DOMAIN q /\ i + n \notin 1..n /\ r[i] = q[i + n] /\ k \in DOMAIN q /\ i + n # k
    BY <1>4, <1>11
  <2> QED BY <2>1, <2>2 DEF Apart
<1>14. \A i \in DOMAIN q : i \in 1..n \/ \E k \in DOMAIN r : r[k] = q[i]
  <2> TAKE i \in DOMAIN q
  <2>1. CASE i \notin 1..n
    <3>1. i - n \in 1..(Len(q) - n) /\ (i - n) + n = i
      BY <1>1, <1>2, <2>1
    <3> QED BY <1>11, <3>1
  <2> QED BY <2>1
<1>15. \A m : m \in Injects(q) <=> m \in ToSet(w) \/ m \in Injects(r)
  <2> TAKE m
  <2>1. ASSUME m \in Injects(q) PROVE m \in ToSet(w) \/ m \in Injects(r)
    <3>1. PICK i \in DOMAIN q : m \in ToSet(q[i].work)
      BY <2>1, InjectsOf
    <3> QED BY <1>7, <1>14, <3>1, InjectsOf
  <2>2. ASSUME m \in ToSet(w) PROVE m \in Injects(q)
    BY <1>4, <1>7, <2>2, InjectsOf
  <2>3. ASSUME m \in Injects(r) PROVE m \in Injects(q)
    BY <1>11, <2>3, InjectsOf
  <2> QED BY <2>1, <2>2, <2>3
<1>16. \A m : m \in ToSet(w) => \E j \in DOMAIN q : m \in ToSet(q[j].work) /\ q[j].epoch = q[1].epoch
  BY <1>7, <1>9
<1>17. \A i \in DOMAIN r : \E j \in DOMAIN q : r[i] = q[j]
  BY <1>11
<1>18. Full(q) => Batch(q).work # <<>> /\ Full(r)
  BY <1>8, <1>10, <1>12
<1>19. Apart(q) => Apart(r) /\ \A i \in DOMAIN r : ToSet(r[i].work) \cap ToSet(Batch(q).work) = {}
  BY <1>8, <1>12, <1>13
<1> QED BY <1>2, <1>8, <1>11, <1>15, <1>16, <1>17, <1>18, <1>19 DEF r

-----------------------------------------------------------------------------
(* Types.  An epoch is spent on each stop and each reset, which are counted.  *)
Typed == TypeOK /\ epoch <= faults

LEMMA TypeFacts ==
  ASSUME Typed
  PROVE  /\ slot # None => /\ slot \in Turn /\ slot.owner \in Process /\ slot.work \in Seq(Inject)
                           /\ slot.epoch \in Epoch /\ slot.requeued \in BOOLEAN
                           /\ ToSet(slot.work) \subseteq Inject
         /\ \A p \in Process : /\ queue[p] \in Seq(Entry)
                               /\ retry[p] # None => retry[p] \in Entry
         /\ epoch \in Epoch /\ epoch \in Nat /\ faults \in Nat /\ epoch # None
         /\ \A m \in Inject : /\ home[m] \in Process \cup {None}
                              /\ since[m] \in Epoch \cup {None}
PROOF
<1>1. slot # None => /\ slot \in Turn /\ slot.owner \in Process /\ slot.work \in Seq(Inject)
                     /\ slot.epoch \in Epoch /\ slot.requeued \in BOOLEAN
  BY DEF Typed, TypeOK, Turn
<1>2. slot # None => ToSet(slot.work) \subseteq Inject
  BY <1>1 DEF ToSet
<1> QED BY <1>1, <1>2 DEF Typed, TypeOK, Epoch

(* What is handed to startAiTurn, and what it makes of it.                   *)
LEMMA Handed ==
  ASSUME Typed, NEW p \in Process, NEW e \in Entry
  PROVE  /\ Run(p, e) \in Turn /\ Run(p, e) # None
         /\ Run(p, e).owner = p /\ Run(p, e).work = e.work /\ Run(p, e).epoch = epoch
         /\ Run(p, e).abort = "none" /\ Run(p, e).requeued = FALSE
         /\ Deferred(e) \in Entry /\ Deferred(e).work = e.work /\ Deferred(e).epoch = epoch
PROOF
<1>1. Run(p, e) \in Turn
  BY EntryFields, TypeFacts DEF Run, Turn
<1>2. Deferred(e) \in Entry /\ Deferred(e).work = e.work /\ Deferred(e).epoch = epoch
  BY TypeFacts DEF Deferred, Entry
<1> QED BY <1>1, <1>2 DEF Run

LEMMA Aborts ==
  ASSUME Typed
  PROVE  /\ Aborted \in Turn \cup {None}
         /\ Aborted = None <=> slot = None
         /\ slot # None => /\ Aborted.owner = slot.owner /\ Aborted.work = slot.work
                           /\ Aborted.epoch = slot.epoch /\ Aborted.abort = "external"
PROOF
<1>1. ASSUME slot # None
      PROVE  /\ Aborted \in Turn /\ Aborted.owner = slot.owner /\ Aborted.work = slot.work
             /\ Aborted.epoch = slot.epoch /\ Aborted.abort = "external"
  BY <1>1, TypeFacts DEF Aborted, Turn
<1> QED BY <1>1 DEF Aborted

(* Types after startAiTurn.                                                 *)
LEMMA StartTypes ==
  ASSUME Typed, NEW p \in Process, NEW e \in Entry, NEW q \in Seq(Entry), NEW s \in Turn \cup {None},
         Start(p, e, q, s)
  PROVE  /\ slot' \in Turn \cup {None} /\ queue' \in [Process -> Seq(Entry)]
         /\ since' \in [Inject -> Epoch \cup {None}]
PROOF
<1>1. Run(p, e) \in Turn /\ Put(q, Deferred(e)) \in Seq(Entry)
  BY Handed, PutFacts
<1>2. slot' \in Turn \cup {None}
  BY <1>1 DEF Start
<1>3. queue \in [Process -> Seq(Entry)] /\ since \in [Inject -> Epoch \cup {None}] /\ epoch \in Epoch
  BY DEF Typed, TypeOK
<1>4. queue' \in [Process -> Seq(Entry)]
  BY <1>1, <1>3 DEF Start
<1>5. since' \in [Inject -> Epoch \cup {None}]
  BY <1>3 DEF Start
<1> QED BY <1>2, <1>4, <1>5

LEMMA WaitsTyped ==
  ASSUME Typed, NEW p \in Process, NEW b, waiter' = [waiter EXCEPT ![p] = b], b \in BOOLEAN
  PROVE  waiter' \in [Process -> BOOLEAN]
PROOF
  BY DEF Typed, TypeOK

LEMMA WaitsBoolean ==
  ASSUME Typed, NEW p \in Process, NEW e, NEW q, NEW s
  PROVE  Waits(p, e, q, s) \in BOOLEAN
PROOF
<1>1. waiter[p] \in BOOLEAN
  BY DEF Typed, TypeOK
<1> QED BY <1>1, Zenon DEF Waits

LEMMA DrainTypes ==
  ASSUME Typed, NEW p \in Process, NEW s \in Turn \cup {None}, NEW ms \in SUBSET Inject,
         Drain(p, s, ms)
  PROVE  /\ slot' \in Turn \cup {None} /\ queue' \in [Process -> Seq(Entry)]
         /\ since' \in [Inject -> Epoch \cup {None}] /\ over' \subseteq Inject
         /\ waiter' \in [Process -> BOOLEAN]
PROOF
<1>1. queue[p] \in Seq(Entry) /\ over \subseteq Inject
  BY DEF Typed, TypeOK
<1>2. CASE queue[p] = <<>>
  BY <1>1, <1>2 DEF Drain, Typed, TypeOK
<1>3. CASE queue[p] # <<>>
  <2> DEFINE e == Batch(queue[p])
  <2>1. /\ Start(p, e, Rest(queue[p]), s)
        /\ waiter' = [waiter EXCEPT ![p] = Waits(p, e, Rest(queue[p]), s)]
        /\ over' = over \cup ms \cup Refused(e)
    BY <1>3 DEF Drain
  <2>2. e \in Entry /\ Rest(queue[p]) \in Seq(Entry)
    BY <1>1, <1>3, BatchFacts
  <2> HIDE DEF e
  <2>3. Refused(e) \subseteq Inject
    BY <2>2, EntryFields DEF Refused
  <2>4. waiter' \in [Process -> BOOLEAN]
    BY <2>1, WaitsBoolean, WaitsTyped
  <2> QED BY <1>1, <2>1, <2>2, <2>3, <2>4, StartTypes
<1> QED BY <1>2, <1>3

LEMMA Inert ==
  ASSUME Typed
  PROVE  Injects(<<>>) = {} /\ \A p \in Process : Injects(queue[p]) \subseteq Inject
PROOF
<1>1. ASSUME NEW p \in Process, NEW m, m \in Injects(queue[p]) PROVE m \in Inject
  <2>1. PICK i \in DOMAIN queue[p] : m \in ToSet(queue[p][i].work)
    BY <1>1, InjectsOf
  <2>2. queue[p][i] \in Entry
    BY <2>1, TypeFacts, Places1
  <2> QED BY <2>1, <2>2, EntryFields
<1> QED BY <1>1, EmptyQueue

LEMMA TypeStep == Typed /\ [Next]_vars => Typed'
PROOF
<1> SUFFICES ASSUME Typed, [Next]_vars PROVE Typed'
  OBVIOUS
<1> DEFINE Rooms == slot' \in Turn \cup {None} /\ row' \in BOOLEAN /\ fence' \in BOOLEAN
           Queues == /\ queue' \in [Process -> Seq(Entry)] /\ retry' \in [Process -> Entry \cup {None}]
                     /\ timer' \in [Process -> BOOLEAN] /\ waiter' \in [Process -> BOOLEAN]
           Counts == /\ epoch' \in Epoch /\ epoch' <= faults' /\ up' \subseteq Process
                     /\ users' \in 0..MaxUsers /\ faults' \in 0..MaxFaults
           Injs == /\ home' \in [Inject -> Process \cup {None}]
                   /\ since' \in [Inject -> Epoch \cup {None}] /\ over' \subseteq Inject
<1>0. Rooms /\ Queues /\ Counts /\ Injs => Typed'
  BY DEF Typed, TypeOK
<1> HIDE DEF Rooms, Queues, Counts, Injs
<1>a. /\ slot \in Turn \cup {None} /\ row \in BOOLEAN /\ fence \in BOOLEAN
      /\ queue \in [Process -> Seq(Entry)] /\ retry \in [Process -> Entry \cup {None}]
      /\ timer \in [Process -> BOOLEAN] /\ waiter \in [Process -> BOOLEAN]
      /\ epoch \in Epoch /\ epoch <= faults /\ up \subseteq Process
      /\ users \in 0..MaxUsers /\ faults \in 0..MaxFaults
      /\ home \in [Inject -> Process \cup {None}]
      /\ since \in [Inject -> Epoch \cup {None}] /\ over \subseteq Inject
  BY DEF Typed, TypeOK
<1>b. /\ UNCHANGED <<epoch, up, users, faults>> => Counts
      /\ UNCHANGED <<epoch, up>> /\ (UserEvent \/ Fault) => Counts
      /\ UNCHANGED up /\ epoch' = epoch + 1 /\ Fault => Counts
  BY <1>a DEF Counts, UserEvent, Fault, Epoch
<1>c. <<>> \in Seq(Entry) /\ <<>> \in Seq(Inject)
  OBVIOUS
<1>1. ASSUME NEW p \in Process, NEW m \in Inject, Tell(p, m) PROVE Typed'
  <2> DEFINE e == [work |-> <<m>>, epoch |-> None, thread |-> FALSE]
  <2>1. e \in Entry
    BY DEF Entry
  <2>2. /\ Start(p, e, queue[p], slot)
        /\ waiter' = [waiter EXCEPT ![p] = Waits(p, e, queue[p], slot)]
        /\ UNCHANGED <<row, timer, retry, epoch, fence, up, over, users, faults>>
        /\ home' = [home EXCEPT ![m] = p]
    BY <1>1 DEF Tell
  <2> HIDE DEF e
  <2>3. waiter' \in [Process -> BOOLEAN]
    BY <2>2, WaitsBoolean, WaitsTyped
  <2>4. /\ slot' \in Turn \cup {None} /\ queue' \in [Process -> Seq(Entry)]
        /\ since' \in [Inject -> Epoch \cup {None}]
    BY <1>a, <2>1, <2>2, StartTypes
  <2>5. Injs
    BY <1>a, <2>2, <2>4 DEF Injs
  <2> QED BY <1>0, <1>a, <1>b, <2>2, <2>3, <2>4, <2>5 DEF Rooms, Queues
<1>2. ASSUME NEW p \in Process, NEW m \in Inject, Answer(p, m) PROVE Typed'
  <2> DEFINE e == [work |-> <<m>>, epoch |-> None, thread |-> (m \in Threaded)]
  <2>1. e \in Entry
    BY DEF Entry
  <2>2. /\ queue' = [queue EXCEPT ![p] = Put(queue[p], e)] /\ timer' = [timer EXCEPT ![p] = TRUE]
        /\ UNCHANGED <<slot, row, waiter, retry, epoch, fence, up, since, over, users, faults>>
        /\ home' = [home EXCEPT ![m] = p]
    BY <1>2 DEF Answer
  <2> HIDE DEF e
  <2>3. Put(queue[p], e) \in Seq(Entry)
    BY <1>a, <2>1, PutFacts
  <2>4. Injs
    BY <1>a, <2>2 DEF Injs
  <2>5. Queues
    BY <1>a, <2>2, <2>3 DEF Queues
  <2> QED BY <1>0, <1>a, <1>b, <2>2, <2>4, <2>5 DEF Rooms
<1>3. ASSUME NEW p \in Process, Timeout(p) PROVE Typed'
  <2>1. /\ timer' = [timer EXCEPT ![p] = FALSE]
        /\ UNCHANGED <<row, retry, epoch, fence, up, home, users, faults>>
        /\ UNCHANGED <<slot, queue, waiter, over, since>> \/ Drain(p, slot, {})
    BY <1>3 DEF Timeout
  <2>2. timer' \in [Process -> BOOLEAN]
    BY <1>a, <2>1
  <2>3. CASE UNCHANGED <<slot, queue, waiter, over, since>>
    BY <1>0, <1>a, <1>b, <2>1, <2>2, <2>3 DEF Rooms, Queues, Injs
  <2>4. CASE Drain(p, slot, {})
    <3>1. {} \in SUBSET Inject
      OBVIOUS
    <3>2. /\ slot' \in Turn \cup {None} /\ queue' \in [Process -> Seq(Entry)]
          /\ since' \in [Inject -> Epoch \cup {None}] /\ over' \subseteq Inject
          /\ waiter' \in [Process -> BOOLEAN]
      BY <1>a, <2>4, <3>1, DrainTypes
    <3> QED BY <1>0, <1>a, <1>b, <2>1, <2>2, <3>2 DEF Rooms, Queues, Injs
  <2> QED BY <2>1, <2>3, <2>4
<1>4. ASSUME NEW p \in Process, Wait(p) PROVE Typed'
  <2>1. /\ waiter' = [waiter EXCEPT ![p] = FALSE]
        /\ UNCHANGED <<row, timer, retry, epoch, fence, up, home, users, faults>>
    BY <1>4 DEF Wait
  <2>2. waiter' \in [Process -> BOOLEAN]
    BY <1>a, <2>1
  <2>3. CASE queue[p] = <<>>
    <3>1. UNCHANGED <<slot, queue, over, since>>
      BY <1>4, <2>3 DEF Wait
    <3> QED BY <1>0, <1>a, <1>b, <2>1, <2>2, <3>1 DEF Rooms, Queues, Injs
  <2>4. CASE queue[p] # <<>>
    <3> DEFINE e == Batch(queue[p])
    <3>1. Start(p, e, Rest(queue[p]), slot) /\ over' = over \cup Refused(e)
      BY <1>4, <2>4 DEF Wait
    <3>2. e \in Entry /\ Rest(queue[p]) \in Seq(Entry)
      BY <1>a, <2>4, BatchFacts
    <3> HIDE DEF e
    <3>3. over' \subseteq Inject
      BY <1>a, <3>1, <3>2, EntryFields DEF Refused
    <3>4. /\ slot' \in Turn \cup {None} /\ queue' \in [Process -> Seq(Entry)]
          /\ since' \in [Inject -> Epoch \cup {None}]
      BY <1>a, <3>1, <3>2, StartTypes
    <3> QED BY <1>0, <1>a, <1>b, <2>1, <2>2, <3>3, <3>4 DEF Rooms, Queues, Injs
  <2> QED BY <2>3, <2>4
<1>5. CASE UserMessage
  BY <1>0, <1>5, <1>a, <1>b DEF UserMessage, Rooms, Queues, Injs
<1>6. ASSUME Local(0, slot) \/ slot # None PROVE Replay \in Entry /\ Replay.work = slot.work /\ Replay.epoch = slot.epoch
  BY <1>6, TypeFacts DEF Replay, Entry, Local
<1>7. ASSUME NEW p \in Process, Preempt(p) PROVE Typed'
  <2>1. /\ slot # None /\ queue' = [queue EXCEPT ![p] = Put(queue[p], Replay)]
        /\ \E b \in BOOLEAN : slot' = [slot EXCEPT !.abort = "internal", !.requeued = b]
        /\ row' = TRUE /\ UserEvent
        /\ UNCHANGED <<timer, waiter, retry, epoch, fence, up, home, since, over>>
    BY <1>7 DEF Preempt, Local
  <2>2. Put(queue[p], Replay) \in Seq(Entry)
    BY <1>6, <1>a, <2>1, PutFacts
  <2>3. slot' \in Turn
    BY <1>a, <2>1 DEF Turn
  <2>4. Queues
    BY <1>a, <2>1, <2>2 DEF Queues
  <2> QED BY <1>0, <1>a, <1>b, <2>1, <2>3, <2>4 DEF Rooms, Injs
<1>8. ASSUME NEW p \in Process, Work(p) PROVE Typed'
  <2> DEFINE e == [work |-> <<>>, epoch |-> epoch, thread |-> FALSE]
  <2>1. e \in Entry
    BY <1>a, <1>c DEF Entry
  <2>2. slot' = Run(p, e) /\ row' = FALSE
        /\ UNCHANGED <<queue, timer, waiter, retry, epoch, fence, up, home, since, over, users, faults>>
    BY <1>8 DEF Work
  <2> HIDE DEF e
  <2>3. slot' \in Turn
    BY <2>1, <2>2, Handed
  <2> QED BY <1>0, <1>a, <1>b, <2>2, <2>3 DEF Rooms, Queues, Injs
<1>9. ASSUME NEW p \in Process, TurnEnds(p) PROVE Typed'
  <2>1. /\ slot # None /\ UNCHANGED <<row, timer, retry, epoch, fence, up, home>>
        /\ Fault \/ UNCHANGED <<users, faults>>
    BY <1>9 DEF TurnEnds, Local
  <2>2. PICK failed \in BOOLEAN :
          IF row THEN /\ slot' = None
                      /\ over' = over \cup Settled(failed)
                      /\ UNCHANGED <<queue, waiter, since>>
                 ELSE Drain(p, None, Settled(failed))
    BY <1>9 DEF TurnEnds
  <2>3. Settled(failed) \in SUBSET Inject
    BY <2>1, TypeFacts DEF Settled
  <2>4. /\ slot' \in Turn \cup {None} /\ queue' \in [Process -> Seq(Entry)]
        /\ since' \in [Inject -> Epoch \cup {None}] /\ over' \subseteq Inject
        /\ waiter' \in [Process -> BOOLEAN]
    <3>1. CASE row
      BY <1>a, <2>2, <2>3, <3>1
    <3>2. CASE ~row
      BY <2>2, <2>3, <3>2, DrainTypes
    <3> QED BY <3>1, <3>2
  <2> QED BY <1>0, <1>a, <1>b, <2>1, <2>4 DEF Rooms, Queues, Injs
<1>10. ASSUME NEW p \in Process, Expire(p) PROVE Typed'
  <2>1. /\ slot # None /\ slot' = None /\ retry' = [retry EXCEPT ![p] = Replay] /\ Fault
        /\ UNCHANGED <<row, queue, timer, waiter, epoch, fence, up, home, since, over>>
    BY <1>10 DEF Expire, Local
  <2>2. retry' \in [Process -> Entry \cup {None}]
    BY <1>6, <1>a, <2>1
  <2> QED BY <1>0, <1>a, <1>b, <2>1, <2>2 DEF Rooms, Queues, Injs
<1>11. ASSUME NEW p \in Process, Retry(p) PROVE Typed'
  <2>1. /\ retry[p] \in Entry /\ retry' = [retry EXCEPT ![p] = None]
        /\ UNCHANGED <<timer, epoch, fence, up, home, users, faults>>
    BY <1>11, <1>a DEF Retry
  <2>2. retry' \in [Process -> Entry \cup {None}]
    BY <1>a, <2>1
  <2>3. CASE retry[p].work # <<>>
    <3>1. /\ Start(p, retry[p], queue[p], slot)
          /\ waiter' = [waiter EXCEPT ![p] = Waits(p, retry[p], queue[p], slot)]
          /\ over' = over \cup Refused(retry[p]) /\ UNCHANGED row
      BY <1>11, <2>3 DEF Retry
    <3>2. waiter' \in [Process -> BOOLEAN]
      BY <3>1, WaitsBoolean, WaitsTyped
    <3>3. over' \subseteq Inject
      BY <1>a, <2>1, <3>1, EntryFields DEF Refused
    <3>4. /\ slot' \in Turn \cup {None} /\ queue' \in [Process -> Seq(Entry)]
          /\ since' \in [Inject -> Epoch \cup {None}]
      BY <1>a, <2>1, <3>1, StartTypes
    <3> QED BY <1>0, <1>a, <1>b, <2>1, <2>2, <3>1, <3>2, <3>3, <3>4 DEF Rooms, Queues, Injs
  <2>4. CASE ~(retry[p].work # <<>>)
    <3>1. /\ slot' = slot \/ slot' = Run(p, retry[p])
          /\ row' = (row \/ ~(Stale(retry[p]) \/ Idle(slot)))
          /\ UNCHANGED <<queue, waiter, over, since>>
      BY <1>11, <2>4 DEF Retry
    <3>2. row' \in BOOLEAN
      BY <1>a, <3>1, Zenon
    <3>3. slot' \in Turn \cup {None}
      <4>1. Run(p, retry[p]) \in Turn
        BY <2>1, Handed
      <4>2. CASE slot' = slot
        BY <1>a, <4>2
      <4>3. CASE slot' = Run(p, retry[p])
        BY <4>1, <4>3
      <4> QED BY <3>1, <4>2, <4>3
    <3> QED BY <1>0, <1>a, <1>b, <2>1, <2>2, <3>1, <3>2, <3>3 DEF Rooms, Queues, Injs
  <2> QED BY <2>3, <2>4
<1>12. CASE Stop
  <2>1. /\ Fault /\ epoch' = (IF fence THEN epoch ELSE epoch + 1) /\ row' = (row /\ fence)
        /\ slot' = Aborted
        /\ UNCHANGED <<queue, timer, waiter, retry, fence, up, home, since, over>>
    BY <1>12 DEF Stop
  <2>2. row' \in BOOLEAN
    BY <1>a, <2>1, Zenon
  <2>3. Counts
    BY <1>b, <2>1
  <2> QED BY <1>0, <1>a, <2>1, <2>2, <2>3, Aborts DEF Rooms, Queues, Injs
<1>13. ASSUME NEW p \in Process, Drop(p)
       PROVE  queue' \in [Process -> Seq(Entry)] /\ over' \subseteq Inject
  BY <1>13, <1>a, <1>c, Inert DEF Drop
<1>14. ASSUME NEW p \in Process, AbortEntry(p) PROVE Typed'
  <2>1. /\ Drop(p) /\ Fault /\ slot' \in {slot, Aborted}
        /\ UNCHANGED <<row, timer, waiter, retry, epoch, fence, up, home, since>>
    BY <1>14 DEF AbortEntry
  <2>2. slot' \in Turn \cup {None}
    BY <1>a, <2>1, Aborts
  <2> QED BY <1>0, <1>13, <1>a, <1>b, <2>1, <2>2 DEF Rooms, Queues, Injs
<1>15. ASSUME NEW p \in Process, Reset(p) PROVE Typed'
  <2>1. /\ Drop(p) /\ Fault /\ slot' = Aborted /\ fence' = TRUE /\ epoch' = epoch + 1 /\ row' = FALSE
        /\ UNCHANGED <<timer, waiter, retry, up, home, since>>
    BY <1>15 DEF Reset
  <2> QED BY <1>0, <1>13, <1>a, <1>b, <2>1, Aborts DEF Rooms, Queues, Injs
<1>16. CASE Unfence
  BY <1>0, <1>16, <1>a, <1>b DEF Unfence, Rooms, Queues, Injs
<1>17. ASSUME NEW p \in Process, Crash(p) PROVE Typed'
  <2>1. /\ Fault /\ up' = up \ {p} /\ slot' \in {slot, None}
        /\ queue' = [queue EXCEPT ![p] = <<>>] /\ timer' = [timer EXCEPT ![p] = FALSE]
        /\ waiter' = [waiter EXCEPT ![p] = FALSE] /\ retry' = [retry EXCEPT ![p] = None]
        /\ UNCHANGED <<row, epoch, fence, home, since, over>>
    BY <1>17 DEF Crash
  <2>2. Counts
    <3>1. /\ faults' = faults + 1 /\ faults' \in 0..MaxFaults /\ epoch' = epoch /\ users' = users
      BY <1>a, <2>1 DEF Fault
    <3>2. epoch' <= faults'
      BY <1>a, <3>1 DEF Epoch
    <3>3. up' \subseteq Process
      BY <1>a, <2>1
    <3> QED BY <1>a, <3>1, <3>2, <3>3 DEF Counts
  <2>3. Queues
    BY <1>a, <1>c, <2>1 DEF Queues
  <2> QED BY <1>0, <1>a, <2>1, <2>2, <2>3 DEF Rooms, Injs
<1>18. CASE UNCHANGED vars
  BY <1>0, <1>18, <1>a, <1>b DEF vars, Rooms, Queues, Injs
<1> QED BY <1>1, <1>2, <1>3, <1>4, <1>5, <1>7, <1>8, <1>9, <1>10, <1>11, <1>12, <1>14, <1>15,
           <1>16, <1>17, <1>18 DEF Next

LEMMA TypeStart == Init => Typed
PROOF
<1> SUFFICES ASSUME Init PROVE Typed
  OBVIOUS
<1>1. /\ queue \in [Process -> Seq(Entry)] /\ retry \in [Process -> Entry \cup {None}]
      /\ timer \in [Process -> BOOLEAN] /\ waiter \in [Process -> BOOLEAN]
  <2>1. <<>> \in Seq(Entry)
    OBVIOUS
  <2> QED BY <2>1 DEF Init
<1>2. /\ home \in [Inject -> Process \cup {None}] /\ since \in [Inject -> Epoch \cup {None}]
      /\ over \subseteq Inject /\ up \subseteq Process
  BY DEF Init
<1>3. epoch \in Epoch /\ users \in 0..MaxUsers /\ faults \in 0..MaxFaults /\ epoch <= faults
  BY DEF Init, Epoch
<1>4. slot \in Turn \cup {None} /\ row \in BOOLEAN /\ fence \in BOOLEAN
  BY DEF Init
<1> QED BY <1>1, <1>2, <1>3, <1>4 DEF Typed, TypeOK

(* The variables of the model keep their types, and the epoch its bound.     *)
THEOREM TypeCorrect == Spec => []TypeOK
PROOF
<1>1. Typed => TypeOK
  BY DEF Typed
<1> QED BY <1>1, TypeStart, TypeStep, PTL DEF Spec

-----------------------------------------------------------------------------
(* What an entry of p may be, where sn is since and hm is home: its injects  *)
(* were first started in its epoch, or not yet if it has none, and p has them. *)
Dated(e, sn)    == \A m \in ToSet(e.work) : sn[m] = e.epoch
Mine(e, p, hm)  == \A m \in ToSet(e.work) : hm[m] = p
Of(e, p, sn, hm) == Dated(e, sn) /\ Mine(e, p, hm)

Fits(q, p, sn, hm) == /\ Apart(q) /\ Full(q)
                      /\ \A i \in DOMAIN q : Of(q[i], p, sn, hm)

(* The turn s of p.  Only a preempted turn is queued while it still runs.    *)
FitsRoom(s, q, p, sn, hm, ov) ==
  /\ Of(s, p, sn, hm) /\ Meets(q, s.work)
  /\ s.abort = "internal" /\ s.requeued => ToSet(s.work) \subseteq ov \cup Injects(q)

FitsRetry(e, q, p, sn, hm) ==
  e.epoch # None /\ Of(e, p, sn, hm) /\ Meets(q, e.work)

Keeps(p) == \A m \in Inject : home[m] = p =>
              m \in over \/ Queued(p, m) \/ Running(p, m) \/ Again(p, m)

(* All of this for one process.                                             *)
Own(p) ==
  /\ Fits(queue[p], p, since, home)
  /\ Local(p, slot) => FitsRoom(slot, queue[p], p, since, home, over)
  /\ retry[p] # None => FitsRetry(retry[p], queue[p], p, since, home) /\ ~Local(p, slot)
  /\ p \in up => Keeps(p)
  /\ p \notin up => queue[p] = <<>> /\ retry[p] = None /\ ~Local(p, slot)

Unborn == \A m \in Inject : home[m] = None => since[m] = None

QueueInv == Typed /\ Unborn /\ \A p \in Process : Own(p)

LEMMA OfStays ==
  ASSUME NEW e, NEW p \in Process, NEW sn, NEW hm, NEW sn2, NEW hm2, Of(e, p, sn, hm),
         \A m \in ToSet(e.work) : hm[m] = p => hm2[m] = p /\ sn2[m] = sn[m]
  PROVE  Of(e, p, sn2, hm2)
PROOF
  BY DEF Of, Dated, Mine

LEMMA QueueFacts ==
  ASSUME Typed, NEW p \in Process
  PROVE  /\ \A i \in DOMAIN queue[p] : queue[p][i] \in Entry /\ ToSet(queue[p][i].work) \subseteq Inject
         /\ retry[p] # None => retry[p] \in Entry /\ ToSet(retry[p].work) \subseteq Inject
         /\ Local(p, slot) => slot \in Turn /\ ToSet(slot.work) \subseteq Inject
PROOF
<1>1. queue[p] \in Seq(Entry) /\ (retry[p] # None => retry[p] \in Entry)
  BY TypeFacts
<1>2. \A i \in DOMAIN queue[p] : queue[p][i] \in Entry
  BY <1>1, Places1
<1> QED BY <1>1, <1>2, EntryFields, TypeFacts DEF Local

(* What belongs to a process is not disturbed by the others.                 *)
LEMMA Others ==
  ASSUME Typed, NEW o \in Process, Own(o),
         queue'[o] = queue[o], retry'[o] = retry[o], o \in up' <=> o \in up, over \subseteq over',
         \A m \in Inject : /\ home'[m] = o <=> home[m] = o
                           /\ home[m] = o => since'[m] = since[m],
         Local(o, slot') <=> Local(o, slot),
         Local(o, slot) => /\ slot'.work = slot.work /\ slot'.epoch = slot.epoch
                           /\ slot'.abort = "internal" => slot' = slot
  PROVE  Own(o)'
PROOF
<1> USE QueueFacts
<1>1. /\ \A m \in Inject : home[m] = o => home'[m] = o /\ since'[m] = since[m]
      /\ \A m \in Inject : home'[m] = o => home[m] = o
  OBVIOUS
<1>2. Fits(queue'[o], o, since', home')
  <2>1. \A i \in DOMAIN queue[o] : Of(queue[o][i], o, since', home')
    BY <1>1, OfStays DEF Own, Fits
  <2> QED BY <2>1 DEF Own, Fits
<1>3. Local(o, slot) => FitsRoom(slot', queue'[o], o, since', home', over')
  <2> SUFFICES ASSUME Local(o, slot) PROVE FitsRoom(slot', queue'[o], o, since', home', over')
    OBVIOUS
  <2>1. Of(slot, o, since, home) /\ Meets(queue[o], slot.work)
    BY DEF Own, FitsRoom
  <2>2. Of(slot', o, since', home')
    BY <1>1, <2>1 DEF Of, Dated, Mine
  <2>3. slot'.abort = "internal" /\ slot'.requeued => ToSet(slot'.work) \subseteq over' \cup Injects(queue[o])
    BY DEF Own, FitsRoom
  <2> QED BY <2>1, <2>2, <2>3 DEF FitsRoom
<1>4. retry[o] # None => FitsRetry(retry'[o], queue'[o], o, since', home') /\ ~Local(o, slot')
  <2>1. retry[o] # None => Of(retry[o], o, since', home')
    BY <1>1, OfStays DEF Own, FitsRetry
  <2> QED BY <2>1 DEF Own, FitsRetry
<1>5. o \in up => Keeps(o)'
  <2> SUFFICES ASSUME o \in up, NEW m \in Inject, home'[m] = o
               PROVE  m \in over' \/ Queued(o, m)' \/ Running(o, m)' \/ Again(o, m)'
    BY DEF Keeps
  <2>1. m \in over \/ Queued(o, m) \/ Running(o, m) \/ Again(o, m)
    BY <1>1 DEF Own, Keeps
  <2> QED BY <2>1 DEF Queued, Running, Again
<1> QED BY <1>2, <1>3, <1>4, <1>5 DEF Own

(* startAiTurn takes an entry e of p: it is refused, starts in an idle room,  *)
(* or waits.  The queue q that p has left fits in again.                     *)
LEMMA StartFits ==
  ASSUME Typed, NEW p \in Process, NEW e \in Entry, NEW q \in Seq(Entry), NEW s, NEW hm,
         Start(p, e, q, s), Fits(q, p, since, hm), Of(e, p, since, hm), e.work # <<>>,
         Meets(q, e.work), e.epoch = None => ToSet(e.work) \cap Injects(q) = {}
  PROVE  /\ \A o \in Process : o # p => queue'[o] = queue[o]
         /\ \A m \in Inject : since[m] # None \/ hm[m] # p => since'[m] = since[m]
         /\ \A m \in ToSet(e.work) : ~Stale(e) => since'[m] = epoch
         /\ Fits(queue'[p], p, since', hm) /\ Meets(queue'[p], e.work)
         /\ \A w : Meets(q, w) /\ ToSet(w) \cap ToSet(e.work) = {} => Meets(queue'[p], w)
         /\ Injects(q) \subseteq Injects(queue'[p])
         /\ slot' = s \/ (slot' = Run(p, e) /\ s = None /\ ~Stale(e))
         /\ Stale(e) \/ slot' = Run(p, e) \/ ToSet(e.work) \subseteq Injects(queue'[p])
PROOF
<1> DEFINE d == Deferred(e)
           t == queue'[p]
<1>0. /\ queue \in [Process -> Seq(Entry)] /\ epoch # None
      /\ since' = [m \in Inject |-> IF m \in ToSet(e.work) /\ since[m] = None THEN epoch ELSE since[m]]
      /\ ToSet(e.work) \subseteq Inject
  BY TypeFacts, EntryFields DEF Typed, TypeOK, Start
<1>1. d \in Entry /\ d.work = e.work /\ d.epoch = epoch
  BY Handed
<1>2. t = q \/ (t = Put(q, d) /\ ~Stale(e) /\ ~Idle(s))
  BY <1>0 DEF Start
<1>3. \A o \in Process : o # p => queue'[o] = queue[o]
  BY <1>0 DEF Start
<1>4. \A m \in Inject : since[m] # None \/ hm[m] # p => since'[m] = since[m]
  BY <1>0 DEF Of, Mine
<1>5. ASSUME NEW m \in ToSet(e.work), ~Stale(e) PROVE since'[m] = epoch
  <2>1. since[m] = e.epoch /\ e.epoch \in {None, epoch} /\ m \in Inject
    BY <1>0, <1>5 DEF Of, Dated, Stale
  <2> QED BY <1>0, <2>1
<1>6. \A i \in DOMAIN q : Of(q[i], p, since', hm)
  <2> TAKE i \in DOMAIN q
  <2>1. Of(q[i], p, since, hm) /\ q[i] \in Entry
    BY Places1 DEF Fits
  <2>2. ASSUME NEW m \in ToSet(q[i].work) PROVE since'[m] = since[m]
    <3>1. m \in Inject /\ m \in Injects(q)
      BY <2>1, EntryFields, InjectsOf
    <3>2. CASE m \in ToSet(e.work)
      <4>1. since[m] = e.epoch /\ e.epoch # None
        BY <3>1, <3>2 DEF Of, Dated
      <4> QED BY <1>4, <3>1, <4>1
    <3>3. CASE m \notin ToSet(e.work)
      BY <1>0, <3>1, <3>3
    <3> QED BY <3>2, <3>3
  <2> QED BY <2>1, <2>2 DEF Of, Dated, Mine
<1>7. ~Stale(e) => Of(d, p, since', hm)
  BY <1>1, <1>5 DEF Of, Dated, Mine
<1>8. t \in Seq(Entry) /\ (t # q => t = Put(q, d))
  BY <1>1, <1>2, PutFacts
<1> HIDE DEF t, d
<1>9. Fits(t, p, since', hm)
  <2>1. CASE t = q
    BY <1>6, <2>1 DEF Fits
  <2>2. CASE t = Put(q, d) /\ ~Stale(e)
    <3>1. \A i \in DOMAIN t : t[i] = d \/ \E j \in DOMAIN q : t[i] = q[j]
      BY <1>1, <2>2, PutFacts
    <3>2. Apart(t)
      BY <1>1, <2>2, PutFacts DEF Fits
    <3>3. Full(t)
      BY <1>1, <3>1 DEF Fits, Full
    <3>4. \A i \in DOMAIN t : Of(t[i], p, since', hm)
      BY <1>6, <1>7, <2>2, <3>1
    <3> QED BY <3>2, <3>3, <3>4 DEF Fits
  <2> QED BY <1>2, <2>1, <2>2
<1>10. \A w : Meets(q, w) /\ (w = e.work \/ ToSet(w) \cap ToSet(e.work) = {}) => Meets(t, w)
  <2>1. CASE t = q
    BY <2>1
  <2>2. CASE t = Put(q, d)
    <3>1. \A i \in DOMAIN t : t[i] = d \/ \E j \in DOMAIN q : t[i] = q[j]
      BY <1>1, <2>2, PutFacts
    <3> QED BY <1>1, <3>1 DEF Meets
  <2> QED BY <1>2, <2>1, <2>2
<1>11. /\ \A m : m \in Injects(q) => m \in Injects(t)
       /\ t = q \/ \A m : m \in ToSet(e.work) => m \in Injects(t)
  BY <1>1, <1>2, PutFacts
<1>12. slot' = s \/ (slot' = Run(p, e) /\ s = None /\ ~Stale(e))
  BY DEF Start, Idle
<1>13. Stale(e) \/ slot' = Run(p, e) \/ ToSet(e.work) \subseteq Injects(t)
  <2>1. CASE ~Stale(e) /\ ~Idle(s)
    <3>1. t = Put(q, d)
      BY <1>0, <2>1 DEF Start, t, d
    <3>2. \A m : m \in ToSet(e.work) => m \in Injects(t)
      BY <1>1, <3>1, PutFacts
    <3> QED BY <3>2
  <2>2. CASE ~Stale(e) /\ Idle(s)
    BY <2>2 DEF Start
  <2> QED BY <2>1, <2>2
<1>14. Injects(q) \subseteq Injects(t) /\ Meets(t, e.work)
  BY <1>10, <1>11
<1> QED BY <1>3, <1>4, <1>5, <1>9, <1>10, <1>12, <1>13, <1>14 DEF t

(* Nothing that p may start is left without a wake-up.                       *)
LEMMA StartWakes ==
  ASSUME Typed, NEW p \in Process, NEW e \in Entry, NEW q \in Seq(Entry), NEW s,
         Start(p, e, q, s), e.work # <<>>,
         \A i \in DOMAIN q : ToSet(q[i].work) \cap ToSet(e.work) = {},
         Idle(s) \/ waiter' = [waiter EXCEPT ![p] = Waits(p, e, q, s)]
  PROVE  Stale(e) \/ Local(p, slot') \/ waiter'[p]
PROOF
<1>1. Deferred(e) \in Entry /\ Deferred(e).work = e.work
  BY Handed
<1>4. Run(p, e).owner = p /\ Run(p, e) # None
  <2>1. Run(p, e) \in Turn
    BY Handed
  <2> QED BY <2>1 DEF Run
<1>2. CASE Idle(s)
  BY <1>4, <1>2 DEF Start, Local
<1>3. CASE ~Idle(s) /\ ~Stale(e)
  <2>1. Put(q, Deferred(e)) # q
    <3> SUFFICES ASSUME Put(q, Deferred(e)) = q PROVE FALSE
      OBVIOUS
    <3>1. PICK j \in DOMAIN q : q[j].work = e.work
      BY <1>1, PutFacts
    <3>2. ToSet(e.work) = {}
      BY <3>1
    <3> QED BY <3>2, EntryFields, ToSetOf
  <2>2. slot' = s
    BY <1>3 DEF Start
  <2>3. ~Local(p, s) => Waits(p, e, q, s)
    BY <1>3, <2>1 DEF Waits
  <2>4. waiter \in [Process -> BOOLEAN]
    BY DEF Typed, TypeOK
  <2> QED BY <1>3, <2>2, <2>3, <2>4
<1> QED BY <1>2, <1>3

(* The invariant after startAiTurn has taken e.                              *)
LEMMA StartKeeps ==
  ASSUME QueueInv, Typed', NEW p \in Process, p \in up, up' = up,
         NEW e \in Entry, NEW q \in Seq(Entry), NEW s,
         Start(p, e, q, s), s = slot \/ (s = None /\ Local(p, slot)),
         Local(p, s) => q = queue[p] /\ ToSet(slot.work) \cap ToSet(e.work) = {},
         \A m \in Inject : home'[m] = home[m] \/ (home[m] = None /\ home'[m] = p),
         Fits(q, p, since, home'), Of(e, p, since, home'), e.work # <<>>, Meets(q, e.work),
         e.epoch = None => ToSet(e.work) \cap Injects(q) = {},
         retry'[p] = None, \A o \in Process : o # p => retry'[o] = retry[o],
         over \subseteq over', Stale(e) => ToSet(e.work) \subseteq over',
         \A m \in Inject : home'[m] = p =>
           m \in over' \cup ToSet(e.work) \cup Injects(q) \/ (s = slot /\ Running(p, m))
  PROVE  QueueInv'
PROOF
<1>1. /\ \A o \in Process : o # p => queue'[o] = queue[o]
      /\ \A m \in Inject : since[m] # None \/ home'[m] # p => since'[m] = since[m]
      /\ \A m \in ToSet(e.work) : ~Stale(e) => since'[m] = epoch
      /\ Fits(queue'[p], p, since', home') /\ Meets(queue'[p], e.work)
      /\ \A w : Meets(q, w) /\ ToSet(w) \cap ToSet(e.work) = {} => Meets(queue'[p], w)
      /\ Injects(q) \subseteq Injects(queue'[p])
      /\ slot' = s \/ (slot' = Run(p, e) /\ s = None /\ ~Stale(e))
      /\ Stale(e) \/ slot' = Run(p, e) \/ ToSet(e.work) \subseteq Injects(queue'[p])
  BY StartFits DEF QueueInv
<1>2. /\ Run(p, e) # None /\ Run(p, e).owner = p /\ Run(p, e).work = e.work
      /\ Run(p, e).epoch = epoch /\ Run(p, e).abort = "none"
  <2>1. Run(p, e) \in Turn
    BY Handed DEF QueueInv
  <2> QED BY <2>1 DEF Run
<1>3. None \notin Process /\ Typed /\ \A o \in Process : Own(o)
  BY DEF QueueInv
<1>4. Unborn'
  <2> SUFFICES ASSUME NEW m \in Inject, home'[m] = None PROVE since'[m] = None
    BY DEF Unborn
  <2>1. home[m] = None /\ home'[m] # p
    BY <1>3
  <2>2. since[m] = None
    BY <2>1 DEF QueueInv, Unborn
  <2> QED BY <1>1, <2>1, <2>2
<1>5. ASSUME NEW o \in Process, o # p PROVE Own(o)'
  <2>1. \A m \in Inject : home'[m] = o <=> home[m] = o
    BY <1>3, <1>5
  <2>2. \A m \in Inject : home[m] = o => since'[m] = since[m]
    BY <1>1, <1>5, <2>1
  <2>3. slot' = slot \/ (~Local(o, slot) /\ ~Local(o, slot'))
    BY <1>1, <1>2, <1>5 DEF Local
  <2>4. queue'[o] = queue[o] /\ retry'[o] = retry[o]
    BY <1>1, <1>5
  <2> QED BY <1>3, <2>1, <2>2, <2>3, <2>4, Others
<1>6. Own(p)'
  <2>1. Local(p, slot') => FitsRoom(slot', queue'[p], p, since', home', over')
    <3>1. CASE slot' = Run(p, e) /\ ~Stale(e)
      <4>1. Of(slot', p, since', home')
        BY <1>1, <1>2, <3>1 DEF Of, Dated, Mine
      <4>2. Meets(queue'[p], slot'.work) /\ slot'.abort # "internal"
        BY <1>1, <1>2, <3>1
      <4> QED BY <4>1, <4>2 DEF FitsRoom
    <3>2. CASE slot' = s /\ Local(p, s)
      <4>1. /\ Local(p, slot) /\ slot' = slot /\ q = queue[p] /\ ToSet(slot.work) \cap ToSet(e.work) = {}
            /\ FitsRoom(slot, queue[p], p, since, home, over)
        BY <1>3, <3>2 DEF Own, Local
      <4>2. slot.epoch \in Epoch /\ slot.epoch # None /\ ToSet(slot.work) \subseteq Inject
        BY <1>3, <4>1, TypeFacts DEF Local
      <4>3. \A m \in ToSet(slot.work) : since'[m] = slot.epoch /\ home'[m] = p
        BY <1>1, <1>3, <4>1, <4>2 DEF FitsRoom, Of, Dated, Mine
      <4>4. Of(slot', p, since', home')
        BY <4>1, <4>3 DEF Of, Dated, Mine
      <4>5. Meets(queue'[p], slot'.work)
        BY <1>1, <4>1 DEF FitsRoom
      <4>6. slot'.abort = "internal" /\ slot'.requeued => ToSet(slot'.work) \subseteq over' \cup Injects(queue'[p])
        BY <1>1, <4>1 DEF FitsRoom
      <4> QED BY <4>4, <4>5, <4>6 DEF FitsRoom
    <3> QED BY <1>1, <3>1, <3>2
  <2>2. Keeps(p)'
    <3> SUFFICES ASSUME NEW m \in Inject, home'[m] = p
                 PROVE  m \in over' \/ m \in Injects(queue'[p]) \/ (Local(p, slot') /\ m \in ToSet(slot'.work))
      BY DEF Keeps, Queued, Running
    <3>1. CASE m \in over' \cup Injects(q)
      BY <1>1, <3>1
    <3>2. CASE m \in ToSet(e.work)
      <4>1. Local(p, Run(p, e))
        BY <1>2 DEF Local
      <4> QED BY <1>1, <1>2, <3>2, <4>1
    <3>3. CASE s = slot /\ Running(p, m)
      <4>1. slot # None /\ slot' = slot
        BY <1>1, <3>3 DEF Running, Local
      <4> QED BY <3>3, <4>1 DEF Running
    <3> QED BY <3>1, <3>2, <3>3
  <2> QED BY <1>1, <2>1, <2>2 DEF Own
<1>7. \A o \in Process : Own(o)'
  BY <1>5, <1>6
<1> QED BY <1>4, <1>7 DEF QueueInv

-----------------------------------------------------------------------------
(* The invariant after what the actions do to the room and to the queues.    *)

LEMMA InvFacts ==
  ASSUME QueueInv
  PROVE  Typed /\ Unborn /\ None \notin Process /\ \A o \in Process : Own(o)
PROOF
  BY DEF QueueInv

(* Nothing but the abort mark of the turn changes.                           *)
LEMMA StillKeeps ==
  ASSUME QueueInv, Typed', UNCHANGED <<queue, retry, up, home, since, over>>, slot' \in {slot, Aborted}
  PROVE  QueueInv'
PROOF
<1>1. Unborn'
  BY DEF QueueInv, Unborn
<1>2. ASSUME NEW o \in Process PROVE Own(o)'
  <2>1. Local(o, slot') <=> Local(o, slot)
    BY InvFacts, Aborts DEF Local
  <2>2. Local(o, slot) => /\ slot'.work = slot.work /\ slot'.epoch = slot.epoch
                          /\ slot'.abort = "internal" => slot' = slot
    BY InvFacts, Aborts DEF Local
  <2>3. Typed /\ Own(o) /\ queue'[o] = queue[o] /\ retry'[o] = retry[o] /\ over \subseteq over'
        /\ (o \in up' <=> o \in up)
        /\ \A m \in Inject : (home'[m] = o <=> home[m] = o) /\ (home[m] = o => since'[m] = since[m])
    BY InvFacts
  <2> QED BY <2>1, <2>2, <2>3, Others
<1> QED BY <1>1, <1>2 DEF QueueInv

(* What p does, in a turn of its own or in an idle room, does not disturb    *)
(* the other processes.                                                      *)
LEMMA AloneKeeps ==
  ASSUME QueueInv, Typed', NEW p \in Process, up' \cup {p} = up \cup {p}, over \subseteq over',
         \A o \in Process : o # p => queue'[o] = queue[o] /\ retry'[o] = retry[o],
         \A m \in Inject : home'[m] = home[m] \/ (home[m] = None /\ home'[m] = p),
         \A m \in Inject : home'[m] # p => since'[m] = since[m],
         slot' \in {slot, Aborted} \/ ((slot = None \/ Local(p, slot)) /\ (slot' = None \/ Local(p, slot'))),
         Own(p)'
  PROVE  QueueInv'
PROOF
<1>1. Unborn'
  <2> SUFFICES ASSUME NEW m \in Inject, home'[m] = None PROVE since'[m] = None
    BY DEF Unborn
  <2>1. home[m] = None /\ home'[m] # p
    BY InvFacts
  <2> QED BY <2>1, InvFacts DEF Unborn
<1>2. ASSUME NEW o \in Process, o # p PROVE Own(o)'
  <2>1. Local(o, slot') <=> Local(o, slot)
    BY <1>2, InvFacts, Aborts DEF Local
  <2>2. Local(o, slot) => /\ slot'.work = slot.work /\ slot'.epoch = slot.epoch
                          /\ slot'.abort = "internal" => slot' = slot
    BY <1>2, InvFacts, Aborts DEF Local
  <2>3. \A m \in Inject : (home'[m] = o <=> home[m] = o) /\ (home[m] = o => since'[m] = since[m])
    BY <1>2, InvFacts
  <2>4. queue'[o] = queue[o] /\ retry'[o] = retry[o] /\ (o \in up' <=> o \in up)
    BY <1>2
  <2> QED BY <2>1, <2>2, <2>3, <2>4, InvFacts, Others
<1> QED BY <1>1, <1>2 DEF QueueInv

(* A turn of p leaves the room.                                              *)
LEMMA EndKeeps ==
  ASSUME QueueInv, Typed', NEW p \in Process, p \in up, Local(p, slot), slot' = None,
         UNCHANGED <<queue, retry, up, home, since>>, over \subseteq over',
         \A m \in ToSet(slot.work) : m \in over' \cup Injects(queue[p])
  PROVE  QueueInv'
PROOF
<1>1. Own(p) /\ retry[p] = None
  BY InvFacts DEF Own
<1>2. ~Local(p, slot')
  BY DEF Local
<1>3. Keeps(p)'
  BY <1>1 DEF Own, Keeps, Queued, Running, Again
<1>4. Own(p)'
  BY <1>1, <1>2, <1>3 DEF Own
<1> QED BY <1>4, AloneKeeps

(* The next batch of p starts.                                               *)
LEMMA BatchFits ==
  ASSUME QueueInv, NEW p \in Process, queue[p] # <<>>
  PROVE  LET e == Batch(queue[p])
             q == Rest(queue[p])
         IN  /\ e \in Entry /\ q \in Seq(Entry) /\ e.work # <<>>
             /\ Fits(q, p, since, home) /\ Of(e, p, since, home) /\ Meets(q, e.work)
             /\ ToSet(e.work) \cap Injects(q) = {}
             /\ \A i \in DOMAIN q : ToSet(q[i].work) \cap ToSet(e.work) = {}
             /\ \A m : m \in Injects(queue[p]) <=> m \in ToSet(e.work) \cup Injects(q)
             /\ \E i \in DOMAIN queue[p] : queue[p][i].epoch = e.epoch
PROOF
<1> DEFINE e == Batch(queue[p])
           q == Rest(queue[p])
<1>1. queue[p] \in Seq(Entry) /\ Fits(queue[p], p, since, home)
  BY InvFacts, TypeFacts DEF Own
<1>2. /\ e \in Entry /\ q \in Seq(Entry) /\ 1 \in DOMAIN queue[p] /\ queue[p][1].epoch = e.epoch
      /\ e.work # <<>> /\ Full(q) /\ Apart(q)
      /\ \A i \in DOMAIN q : ToSet(q[i].work) \cap ToSet(e.work) = {}
      /\ \A m : m \in Injects(queue[p]) <=> m \in ToSet(e.work) \/ m \in Injects(q)
      /\ \A i \in DOMAIN q : \E j \in DOMAIN queue[p] : q[i] = queue[p][j]
      /\ \A m : m \in ToSet(e.work) =>
           \E j \in DOMAIN queue[p] : m \in ToSet(queue[p][j].work) /\ queue[p][j].epoch = e.epoch
  BY <1>1, BatchFacts DEF Fits
<1> HIDE DEF e, q
<1>3. Fits(q, p, since, home)
  BY <1>1, <1>2 DEF Fits
<1>4. Of(e, p, since, home)
  BY <1>1, <1>2 DEF Fits, Of, Dated, Mine
<1>5. Meets(q, e.work)
  BY <1>2 DEF Meets
<1>6. ToSet(e.work) \cap Injects(q) = {}
  BY <1>2, InjectsOf
<1> QED BY <1>2, <1>3, <1>4, <1>5, <1>6 DEF e, q

LEMMA BatchKeeps ==
  ASSUME QueueInv, Typed', NEW p \in Process, p \in up, queue[p] # <<>>, NEW s,
         Start(p, Batch(queue[p]), Rest(queue[p]), s),
         (s = slot /\ ~Local(p, slot)) \/ (s = None /\ Local(p, slot)),
         UNCHANGED <<retry, up, home>>, retry[p] = None,
         over \cup Refused(Batch(queue[p])) \subseteq over',
         Local(p, slot) => \A m \in ToSet(slot.work) : m \in over' \cup Injects(queue[p])
  PROVE  QueueInv'
PROOF
<1> DEFINE e == Batch(queue[p])
           q == Rest(queue[p])
<1>1. /\ e \in Entry /\ q \in Seq(Entry) /\ e.work # <<>>
      /\ Fits(q, p, since, home) /\ Of(e, p, since, home) /\ Meets(q, e.work)
      /\ ToSet(e.work) \cap Injects(q) = {}
      /\ \A m : m \in Injects(queue[p]) <=> m \in ToSet(e.work) \cup Injects(q)
  BY BatchFits
<1>2. Start(p, e, q, s) /\ over \cup Refused(e) \subseteq over'
  OBVIOUS
<1> HIDE DEF e, q
<1>3. ASSUME NEW m \in Inject, home'[m] = p PROVE m \in over' \cup ToSet(e.work) \cup Injects(q)
  <2>1. m \in over \/ m \in Injects(queue[p]) \/ Running(p, m)
    BY <1>3, InvFacts DEF Own, Keeps, Queued, Again
  <2> QED BY <1>1, <1>2, <2>1 DEF Running
<1>4. ~Local(p, s) /\ (s = slot \/ (s = None /\ Local(p, slot)))
  BY DEF Local
<1>5. over \subseteq over' /\ (Stale(e) => ToSet(e.work) \subseteq over')
  BY <1>2 DEF Refused
<1>6. /\ Fits(q, p, since, home') /\ Of(e, p, since, home') /\ retry'[p] = None
      /\ \A o \in Process : o # p => retry'[o] = retry[o]
      /\ \A m \in Inject : home'[m] = home[m]
  BY <1>1
<1> QED BY <1>1, <1>2, <1>3, <1>4, <1>5, <1>6, StartKeeps

LEMMA DrainKeeps ==
  ASSUME QueueInv, Typed', NEW p \in Process, p \in up, NEW s, NEW ms, Drain(p, s, ms),
         (s = slot /\ ~Local(p, slot)) \/ (s = None /\ Local(p, slot)),
         UNCHANGED <<retry, up, home>>, retry[p] = None,
         Local(p, slot) => \A m \in ToSet(slot.work) : m \in over \cup ms \cup Injects(queue[p])
  PROVE  QueueInv'
PROOF
<1>1. CASE queue[p] = <<>>
  <2>1. slot' = s /\ over' = over \cup ms /\ UNCHANGED <<queue, since>>
    BY <1>1 DEF Drain
  <2>2. CASE s = None /\ Local(p, slot)
    <3>1. \A m \in ToSet(slot.work) : m \in over' \cup Injects(queue[p])
      BY <2>1, <2>2
    <3> QED BY <2>1, <2>2, <3>1, EndKeeps
  <2>3. CASE s = slot /\ ~Local(p, slot)
    <3>1. Own(p)'
      BY <2>1, <2>3, InvFacts DEF Own, Keeps, Queued, Running, Again
    <3> QED BY <2>1, <2>3, <3>1, AloneKeeps
  <2> QED BY <2>2, <2>3
<1>2. CASE queue[p] # <<>>
  <2>1. Start(p, Batch(queue[p]), Rest(queue[p]), s) /\ over' = over \cup ms \cup Refused(Batch(queue[p]))
    BY <1>2 DEF Drain
  <2>2. over \cup Refused(Batch(queue[p])) \subseteq over'
    BY <2>1
  <2>3. Local(p, slot) => \A m \in ToSet(slot.work) : m \in over' \cup Injects(queue[p])
    BY <2>1
  <2> QED BY <1>2, <2>1, <2>2, <2>3, BatchKeeps
<1> QED BY <1>1, <1>2

(* A user turn starts in an idle room, or does not.                          *)
LEMMA UserKeeps ==
  ASSUME QueueInv, Typed', NEW p \in Process, p \in up, NEW e \in Entry, e.work = <<>>,
         UNCHANGED <<queue, up, home, since, over>>, retry'[p] = None,
         \A o \in Process : o # p => retry'[o] = retry[o],
         retry[p] = None \/ retry[p].work = <<>>,
         slot' = slot \/ (slot = None /\ slot' = Run(p, e)),
         slot' = slot => ~Local(p, slot)
  PROVE  QueueInv'
PROOF
<1>1. ToSet(<<>>) = {}
  BY DEF ToSet
<1>2. Run(p, e) # None /\ Run(p, e).owner = p /\ Run(p, e).work = <<>> /\ Run(p, e).abort = "none"
  <2>1. Run(p, e) \in Turn
    BY InvFacts, Handed
  <2> QED BY <2>1 DEF Run
<1>3. Own(p) /\ ~Local(p, slot)
  BY InvFacts DEF Local
<1>4. Local(p, slot') => FitsRoom(slot', queue'[p], p, since', home', over')
  <2> SUFFICES ASSUME Local(p, slot') PROVE FitsRoom(slot', queue'[p], p, since', home', over')
    OBVIOUS
  <2>1. slot' = Run(p, e)
    BY <1>3
  <2> QED BY <1>1, <1>2, <2>1 DEF FitsRoom, Of, Dated, Mine, Meets
<1>5. Keeps(p)'
  <2> SUFFICES ASSUME NEW m \in Inject, home'[m] = p PROVE m \in over' \/ Queued(p, m)'
    BY DEF Keeps
  <2>1. ~Again(p, m) /\ ~Running(p, m)
    BY <1>1, <1>3 DEF Again, Running
  <2> QED BY <1>3, <2>1 DEF Own, Keeps, Queued
<1>6. Own(p)'
  BY <1>3, <1>4, <1>5 DEF Own
<1>7. slot' \in {slot, Aborted} \/ (slot = None /\ Local(p, slot'))
  BY <1>2 DEF Local
<1> QED BY <1>6, <1>7, AloneKeeps

(* The queue of p is emptied and reported.                                   *)
LEMMA DropKeeps ==
  ASSUME QueueInv, Typed', NEW p \in Process, p \in up, retry[p] = None, Drop(p),
         slot' \in {slot, Aborted}, UNCHANGED <<retry, up, home, since>>
  PROVE  QueueInv'
PROOF
<1>1. /\ queue'[p] = <<>> /\ over \subseteq over' /\ Injects(queue[p]) \subseteq over'
      /\ \A o \in Process : o # p => queue'[o] = queue[o] /\ retry'[o] = retry[o]
  BY InvFacts DEF Drop, Typed, TypeOK
<1>2. Own(p)
  BY InvFacts
<1>3. Fits(queue'[p], p, since', home')
  BY <1>1, EmptyQueue DEF Fits
<1>4. /\ Local(p, slot') <=> Local(p, slot)
      /\ Local(p, slot) => /\ slot'.work = slot.work /\ slot'.epoch = slot.epoch
                           /\ slot'.abort = "internal" => slot' = slot
  BY InvFacts, Aborts DEF Local
<1>5. Local(p, slot') => FitsRoom(slot', queue'[p], p, since', home', over')
  <2> SUFFICES ASSUME Local(p, slot') PROVE FitsRoom(slot', queue'[p], p, since', home', over')
    OBVIOUS
  <2>1. FitsRoom(slot, queue[p], p, since, home, over)
    BY <1>2, <1>4 DEF Own
  <2>2. Of(slot', p, since', home')
    BY <1>4, <2>1 DEF FitsRoom, Of, Dated, Mine
  <2>3. Meets(queue'[p], slot'.work)
    BY <1>1, EmptyQueue
  <2>4. slot'.abort = "internal" /\ slot'.requeued => ToSet(slot'.work) \subseteq over' \cup Injects(queue'[p])
    BY <1>1, <1>4, <2>1 DEF FitsRoom
  <2> QED BY <2>2, <2>3, <2>4 DEF FitsRoom
<1>6. Keeps(p)'
  <2> SUFFICES ASSUME NEW m \in Inject, home'[m] = p PROVE m \in over' \/ Running(p, m)'
    BY DEF Keeps
  <2>1. m \in over \/ m \in Injects(queue[p]) \/ Running(p, m)
    BY <1>2 DEF Own, Keeps, Queued, Again
  <2> QED BY <1>1, <1>4, <2>1 DEF Running
<1>7. Own(p)'
  BY <1>3, <1>5, <1>6 DEF Own
<1> QED BY <1>1, <1>7, AloneKeeps

-----------------------------------------------------------------------------
(* Every action keeps the invariant.                                         *)

LEMMA TellKeeps ==
  ASSUME QueueInv, Typed', NEW p \in Process, NEW m \in Inject, Tell(p, m)
  PROVE  QueueInv'
PROOF
<1> DEFINE e == [work |-> <<m>>, epoch |-> None, thread |-> FALSE]
<1>1. e \in Entry /\ e.work # <<>> /\ e.epoch = None /\ ToSet(e.work) = {m}
  <2>1. <<m>> \in Seq(Inject) /\ <<m>> # <<>>
    OBVIOUS
  <2>2. ToSet(<<m>>) = {m}
    BY DEF ToSet
  <2> QED BY <2>1, <2>2 DEF Entry
<1>2. /\ p \in up /\ retry[p] = None /\ home[m] = None /\ home' = [home EXCEPT ![m] = p]
      /\ Start(p, e, queue[p], slot) /\ UNCHANGED <<retry, up, over>>
  BY DEF Tell, Free
<1> HIDE DEF e
<1>3. /\ since[m] = None /\ queue[p] \in Seq(Entry) /\ home \in [Inject -> Process \cup {None}]
      /\ Own(p) /\ ~Stale(e)
  BY <1>1, <1>2, InvFacts, TypeFacts DEF Unborn, Typed, TypeOK, Stale
<1>5. \A i \in DOMAIN queue[p] : m \notin ToSet(queue[p][i].work) /\ Of(queue[p][i], p, since, home')
  <2> TAKE i \in DOMAIN queue[p]
  <2>1. Of(queue[p][i], p, since, home) /\ ToSet(queue[p][i].work) \subseteq Inject
    BY <1>3, InvFacts, QueueFacts DEF Own, Fits
  <2> QED BY <1>2, <1>3, <2>1, InvFacts DEF Of, Mine, Dated
<1>6. Fits(queue[p], p, since, home') /\ Meets(queue[p], e.work) /\ ToSet(e.work) \cap Injects(queue[p]) = {}
  BY <1>1, <1>3, <1>5, InjectsOf DEF Own, Fits, Meets
<1>7. Of(e, p, since, home')
  BY <1>1, <1>2, <1>3 DEF Of, Dated, Mine
<1>8. Local(p, slot) => ToSet(slot.work) \cap ToSet(e.work) = {}
  BY <1>1, <1>2, <1>3, InvFacts DEF Own, FitsRoom, Of, Mine
<1>9. \A x \in Inject : home'[x] = home[x] \/ (home[x] = None /\ home'[x] = p)
  BY <1>2, <1>3
<1>10. ASSUME NEW x \in Inject, home'[x] = p
       PROVE  x \in over' \cup ToSet(e.work) \cup Injects(queue[p]) \/ Running(p, x)
  <2>1. CASE x = m
    BY <1>1, <2>1
  <2>2. CASE x # m
    <3>1. home[x] = p
      BY <1>2, <1>3, <1>10, <2>2
    <3> QED BY <1>2, <1>3, <3>1 DEF Own, Keeps, Queued, Again
  <2> QED BY <2>1, <2>2
<1> QED BY <1>1, <1>2, <1>3, <1>6, <1>7, <1>8, <1>9, <1>10, StartKeeps

LEMMA AnswerKeeps ==
  ASSUME QueueInv, Typed', NEW p \in Process, NEW m \in Inject, Answer(p, m)
  PROVE  QueueInv'
PROOF
<1> DEFINE e == [work |-> <<m>>, epoch |-> None, thread |-> (m \in Threaded)]
           t == Put(queue[p], e)
<1>1. e \in Entry /\ e.work # <<>> /\ e.epoch = None /\ ToSet(e.work) = {m}
  <2>1. <<m>> \in Seq(Inject) /\ <<m>> # <<>>
    OBVIOUS
  <2>2. ToSet(<<m>>) = {m}
    BY DEF ToSet
  <2> QED BY <2>1, <2>2 DEF Entry
<1>2. /\ p \in up /\ retry[p] = None /\ home[m] = None /\ home' = [home EXCEPT ![m] = p]
      /\ queue' = [queue EXCEPT ![p] = t] /\ UNCHANGED <<slot, retry, up, since, over>>
  BY DEF Answer, Free
<1> HIDE DEF e
<1>3. /\ since[m] = None /\ queue[p] \in Seq(Entry) /\ home \in [Inject -> Process \cup {None}]
      /\ queue \in [Process -> Seq(Entry)] /\ Own(p) /\ Apart(queue[p]) /\ Full(queue[p])
  BY <1>2, InvFacts, TypeFacts DEF Unborn, Typed, TypeOK, Own, Fits
<1>4. \A i \in DOMAIN queue[p] : m \notin ToSet(queue[p][i].work) /\ Of(queue[p][i], p, since, home')
  <2> TAKE i \in DOMAIN queue[p]
  <2>1. Of(queue[p][i], p, since, home) /\ ToSet(queue[p][i].work) \subseteq Inject
    BY <1>3, InvFacts, QueueFacts DEF Own, Fits
  <2> QED BY <1>2, <1>3, <2>1, InvFacts DEF Of, Mine, Dated
<1>5. Meets(queue[p], e.work)
  BY <1>1, <1>4 DEF Meets
<1>6. /\ \A x : x \in Injects(t) <=> x \in Injects(queue[p]) \cup ToSet(e.work)
      /\ \A i \in DOMAIN t : t[i] = e \/ \E j \in DOMAIN queue[p] : t[i] = queue[p][j]
      /\ Apart(t) /\ queue'[p] = t
      /\ \A o \in Process : o # p => queue'[o] = queue[o]
  <2>1. /\ \A x : x \in Injects(t) <=> x \in Injects(queue[p]) \cup ToSet(e.work)
        /\ \A i \in DOMAIN t : t[i] = e \/ \E j \in DOMAIN queue[p] : t[i] = queue[p][j]
        /\ Apart(t)
    BY <1>1, <1>3, <1>5, PutFacts
  <2>2. queue'[p] = t /\ \A o \in Process : o # p => queue'[o] = queue[o]
    BY <1>2, <1>3
  <2> QED BY <2>1, <2>2
<1> HIDE DEF t
<1>7. Of(e, p, since, home')
  BY <1>1, <1>2, <1>3 DEF Of, Dated, Mine
<1>8. Fits(t, p, since, home')
  <2>1. Full(t)
    BY <1>1, <1>3, <1>6 DEF Full
  <2>2. \A i \in DOMAIN t : Of(t[i], p, since, home')
    BY <1>4, <1>6, <1>7
  <2> QED BY <1>6, <2>1, <2>2 DEF Fits
<1>9. Local(p, slot) => FitsRoom(slot, t, p, since, home', over)
  <2> SUFFICES ASSUME Local(p, slot) PROVE FitsRoom(slot, t, p, since, home', over)
    OBVIOUS
  <2>1. FitsRoom(slot, queue[p], p, since, home, over) /\ ToSet(slot.work) \subseteq Inject
    BY <1>3, InvFacts, QueueFacts DEF Own
  <2>2. m \notin ToSet(slot.work) /\ Of(slot, p, since, home')
    BY <1>2, <1>3, <2>1, InvFacts DEF FitsRoom, Of, Mine, Dated
  <2>3. Meets(t, slot.work)
    BY <1>1, <1>6, <2>1, <2>2 DEF FitsRoom, Meets
  <2> QED BY <1>6, <2>1, <2>2, <2>3 DEF FitsRoom
<1>10. Keeps(p)'
  <2> SUFFICES ASSUME NEW x \in Inject, home'[x] = p PROVE x \in over \/ x \in Injects(t) \/ Running(p, x)
    BY <1>2, <1>6 DEF Keeps, Queued, Running
  <2>1. CASE x = m
    BY <1>1, <1>6, <2>1
  <2>2. CASE x # m
    <3>1. home[x] = p
      BY <1>2, <1>3, <2>2
    <3> QED BY <1>2, <1>3, <1>6, <3>1 DEF Own, Keeps, Queued, Again
  <2> QED BY <2>1, <2>2
<1>11. Own(p)'
  BY <1>2, <1>6, <1>8, <1>9, <1>10 DEF Own
<1>12. \A x \in Inject : home'[x] = home[x] \/ (home[x] = None /\ home'[x] = p)
  BY <1>2, <1>3
<1> QED BY <1>2, <1>6, <1>11, <1>12, AloneKeeps

LEMMA TimeoutKeeps ==
  ASSUME QueueInv, Typed', NEW p \in Process, Timeout(p)
  PROVE  QueueInv'
PROOF
<1>1. p \in up /\ retry[p] = None /\ UNCHANGED <<retry, up, home>>
  BY DEF Timeout, Free
<1>2. CASE Local(p, slot)
  <2>1. UNCHANGED <<slot, queue, over, since>>
    BY <1>2 DEF Timeout
  <2> QED BY <1>1, <2>1, StillKeeps
<1>3. CASE ~Local(p, slot)
  <2>1. Drain(p, slot, {})
    BY <1>3 DEF Timeout
  <2> QED BY <1>1, <1>3, <2>1, DrainKeeps
<1> QED BY <1>2, <1>3

LEMMA WaitKeeps ==
  ASSUME QueueInv, Typed', NEW p \in Process, Wait(p)
  PROVE  QueueInv'
PROOF
<1>1. p \in up /\ retry[p] = None /\ UNCHANGED <<retry, up, home>> /\ ~Local(p, slot)
  BY DEF Wait, Free, Idle, Local
<1>2. CASE queue[p] = <<>>
  <2>1. UNCHANGED <<slot, queue, over, since>>
    BY <1>2 DEF Wait
  <2> QED BY <1>1, <2>1, StillKeeps
<1>3. CASE queue[p] # <<>>
  <2>1. /\ Start(p, Batch(queue[p]), Rest(queue[p]), slot)
        /\ over \cup Refused(Batch(queue[p])) \subseteq over'
    BY <1>3 DEF Wait
  <2> QED BY <1>1, <1>3, <2>1, BatchKeeps
<1> QED BY <1>2, <1>3

(* What is kept of the turn in the room to run it again.                     *)
LEMMA Replays ==
  ASSUME QueueInv, NEW p \in Process, Local(p, slot)
  PROVE  /\ Replay \in Entry /\ Replay.work = slot.work /\ Replay.epoch # None
         /\ Of(Replay, p, since, home) /\ FitsRoom(slot, queue[p], p, since, home, over)
         /\ slot \in Turn /\ queue[p] \in Seq(Entry)
PROOF
<1>1. /\ slot \in Turn /\ slot.work \in Seq(Inject) /\ slot.epoch \in Epoch /\ slot.epoch # None
      /\ queue[p] \in Seq(Entry)
  BY InvFacts, TypeFacts DEF Local
<1>2. Replay \in Entry /\ Replay.work = slot.work /\ Replay.epoch = slot.epoch
  BY <1>1 DEF Replay, Entry
<1>3. FitsRoom(slot, queue[p], p, since, home, over)
  BY InvFacts DEF Own
<1> QED BY <1>1, <1>2, <1>3 DEF FitsRoom, Of, Dated, Mine

LEMMA PreemptKeeps ==
  ASSUME QueueInv, Typed', NEW p \in Process, Preempt(p)
  PROVE  QueueInv'
PROOF
<1> DEFINE t == Put(queue[p], Replay)
<1>1. /\ p \in up /\ Local(p, slot) /\ slot.work # <<>> /\ queue' = [queue EXCEPT ![p] = t]
      /\ \E b \in BOOLEAN : slot' = [slot EXCEPT !.abort = "internal", !.requeued = b]
      /\ UNCHANGED <<retry, up, home, since, over>>
  BY DEF Preempt, Free
<1>2. /\ Replay \in Entry /\ Replay.work = slot.work /\ queue[p] \in Seq(Entry) /\ slot \in Turn
      /\ Of(Replay, p, since, home) /\ FitsRoom(slot, queue[p], p, since, home, over)
  BY <1>1, Replays
<1>3. /\ Own(p) /\ queue \in [Process -> Seq(Entry)]
  BY InvFacts DEF Typed, TypeOK
<1>4. /\ \A m : m \in Injects(t) <=> m \in Injects(queue[p]) \cup ToSet(slot.work)
      /\ \A i \in DOMAIN t : t[i] = Replay \/ \E j \in DOMAIN queue[p] : t[i] = queue[p][j]
      /\ Apart(t) /\ Meets(t, slot.work)
  BY <1>2, <1>3, PutFacts DEF FitsRoom, Own, Fits
<1> HIDE DEF t
<1>5. queue'[p] = t /\ \A o \in Process : o # p => queue'[o] = queue[o]
  BY <1>1, <1>3
<1>6. Fits(t, p, since, home)
  BY <1>1, <1>2, <1>3, <1>4 DEF Own, Fits, Full
<1>7. slot' # None /\ slot'.owner = p /\ slot'.work = slot.work /\ slot'.epoch = slot.epoch
  <2>1. slot' \in Turn
    BY <1>1, <1>2 DEF Turn
  <2>2. slot'.owner = slot.owner /\ slot'.work = slot.work /\ slot'.epoch = slot.epoch
    BY <1>1, <1>2 DEF Turn
  <2> QED BY <1>1, <2>1, <2>2 DEF Local
<1>8. FitsRoom(slot', t, p, since, home, over)
  BY <1>2, <1>4, <1>7 DEF FitsRoom, Of, Dated, Mine
<1>9. Keeps(p)'
  <2> SUFFICES ASSUME NEW m \in Inject, home[m] = p PROVE m \in over \/ m \in Injects(t)
    BY <1>1, <1>5 DEF Keeps, Queued
  <2>1. retry[p] = None
    BY <1>1, <1>3 DEF Own
  <2>2. m \in over \/ m \in Injects(queue[p]) \/ m \in ToSet(slot.work)
    BY <1>1, <1>3, <2>1 DEF Own, Keeps, Queued, Running, Again
  <2> QED BY <1>4, <2>2
<1>10. Own(p)'
  <2>1. retry'[p] = None
    BY <1>1, <1>3 DEF Own
  <2> QED BY <1>1, <1>5, <1>6, <1>8, <1>9, <2>1 DEF Own
<1>11. Local(p, slot')
  BY <1>7 DEF Local
<1> QED BY <1>1, <1>5, <1>10, <1>11, AloneKeeps

LEMMA WorkKeeps ==
  ASSUME QueueInv, Typed', NEW p \in Process, Work(p)
  PROVE  QueueInv'
PROOF
<1> DEFINE e == [work |-> <<>>, epoch |-> epoch, thread |-> FALSE]
<1>1. e \in Entry /\ e.work = <<>>
  <2>1. <<>> \in Seq(Inject) /\ epoch \in Epoch
    BY InvFacts, TypeFacts
  <2> QED BY <2>1 DEF Entry
<1>2. /\ p \in up /\ retry[p] = None /\ slot = None /\ slot' = Run(p, e)
      /\ UNCHANGED <<queue, retry, up, home, since, over>>
  BY DEF Work, Free, Idle
<1> HIDE DEF e
<1>3. ~Local(p, slot) /\ retry'[p] = None /\ \A o \in Process : o # p => retry'[o] = retry[o]
  BY <1>2 DEF Local
<1> QED BY <1>1, <1>2, <1>3, UserKeeps

LEMMA TurnEndsKeeps ==
  ASSUME QueueInv, Typed', NEW p \in Process, TurnEnds(p)
  PROVE  QueueInv'
PROOF
<1>1. p \in up /\ retry[p] = None /\ Local(p, slot) /\ UNCHANGED <<retry, up, home>>
  BY DEF TurnEnds, Free
<1>2. PICK failed \in BOOLEAN :
        IF row THEN /\ slot' = None
                    /\ over' = over \cup Settled(failed)
                    /\ UNCHANGED <<queue, waiter, since>>
               ELSE Drain(p, None, Settled(failed))
  BY DEF TurnEnds
<1>3. \A m \in ToSet(slot.work) : m \in over \cup Settled(failed) \cup Injects(queue[p])
  BY <1>1, InvFacts DEF Own, FitsRoom, Settled
<1> HIDE DEF Settled
<1>4. CASE row
  <2>1. /\ slot' = None /\ over' = over \cup Settled(failed) /\ UNCHANGED <<queue, since>>
    BY <1>2, <1>4
  <2>2. \A m \in ToSet(slot.work) : m \in over' \cup Injects(queue[p])
    BY <1>3, <2>1
  <2> QED BY <1>1, <2>1, <2>2, EndKeeps
<1>5. CASE ~row
  BY <1>1, <1>2, <1>3, <1>5, DrainKeeps
<1> QED BY <1>4, <1>5

LEMMA ExpireKeeps ==
  ASSUME QueueInv, Typed', NEW p \in Process, Expire(p)
  PROVE  QueueInv'
PROOF
<1>1. /\ p \in up /\ Local(p, slot) /\ slot' = None /\ retry' = [retry EXCEPT ![p] = Replay]
      /\ UNCHANGED <<queue, up, home, since, over>> /\ retry[p] = None
  BY DEF Expire, Free
<1>2. /\ Replay \in Entry /\ Replay.work = slot.work /\ Replay.epoch # None
      /\ Of(Replay, p, since, home) /\ FitsRoom(slot, queue[p], p, since, home, over)
  BY <1>1, Replays
<1>3. Own(p) /\ retry \in [Process -> Entry \cup {None}]
  BY InvFacts DEF Typed, TypeOK
<1>4. /\ retry'[p] = Replay /\ Replay # None /\ ~Local(p, slot')
      /\ \A o \in Process : o # p => retry'[o] = retry[o]
  BY <1>1, <1>2, <1>3 DEF Local
<1> HIDE DEF Replay
<1>5. FitsRetry(retry'[p], queue'[p], p, since', home')
  BY <1>1, <1>2, <1>4 DEF FitsRetry, FitsRoom
<1>6. Keeps(p)'
  <2> SUFFICES ASSUME NEW m \in Inject, home[m] = p
               PROVE  m \in over \/ m \in Injects(queue[p]) \/ m \in ToSet(retry'[p].work)
    BY <1>1, <1>4 DEF Keeps, Queued, Again
  <2>1. m \in over \/ m \in Injects(queue[p]) \/ m \in ToSet(slot.work)
    BY <1>1, <1>3 DEF Own, Keeps, Queued, Running, Again
  <2> QED BY <1>2, <1>4, <2>1
<1>7. Own(p)'
  BY <1>1, <1>3, <1>4, <1>5, <1>6 DEF Own
<1> QED BY <1>1, <1>4, <1>7, AloneKeeps

LEMMA RetryKeeps ==
  ASSUME QueueInv, Typed', NEW p \in Process, Retry(p)
  PROVE  QueueInv'
PROOF
<1> DEFINE e == retry[p]
<1>1. /\ p \in up /\ e # None /\ retry' = [retry EXCEPT ![p] = None] /\ UNCHANGED <<up, home>>
  BY DEF Retry
<1>2. /\ e \in Entry /\ queue[p] \in Seq(Entry) /\ Own(p) /\ ~Local(p, slot)
      /\ retry \in [Process -> Entry \cup {None}]
  BY <1>1, InvFacts, TypeFacts DEF Own, Typed, TypeOK
<1>3. retry'[p] = None /\ \A o \in Process : o # p => retry'[o] = retry[o]
  BY <1>1, <1>2
<1>4. /\ Fits(queue[p], p, since, home) /\ Of(e, p, since, home) /\ Meets(queue[p], e.work) /\ e.epoch # None
  BY <1>1, <1>2 DEF Own, FitsRetry
<1>5. CASE e.work # <<>>
  <2>1. Start(p, e, queue[p], slot) /\ over' = over \cup Refused(e)
    BY <1>5 DEF Retry
  <2>2. ASSUME NEW m \in Inject, home[m] = p PROVE m \in over' \cup ToSet(e.work) \cup Injects(queue[p])
    <3>1. m \in over \/ m \in Injects(queue[p]) \/ m \in ToSet(e.work)
      BY <1>1, <1>2, <2>2 DEF Own, Keeps, Queued, Running, Again
    <3> QED BY <2>1, <3>1
  <2> HIDE DEF e
  <2>3. over \subseteq over' /\ (Stale(e) => ToSet(e.work) \subseteq over')
    BY <2>1 DEF Refused
  <2>4. /\ Fits(queue[p], p, since, home') /\ Of(e, p, since, home')
        /\ \A m \in Inject : home'[m] = home[m]
    BY <1>1, <1>4
  <2>5. \A m \in Inject : home'[m] = p => m \in over' \cup ToSet(e.work) \cup Injects(queue[p])
    BY <1>1, <2>2
  <2> QED BY <1>1, <1>2, <1>3, <1>4, <1>5, <2>1, <2>3, <2>4, <2>5, StartKeeps
<1>6. CASE e.work = <<>>
  <2>1. /\ slot' = IF ~Stale(e) /\ Idle(slot) THEN Run(p, e) ELSE slot
        /\ UNCHANGED <<queue, over, since>>
    BY <1>6 DEF Retry
  <2>2. slot' = slot \/ (slot = None /\ slot' = Run(p, e))
    BY <2>1 DEF Idle
  <2> QED BY <1>1, <1>2, <1>3, <1>6, <2>1, <2>2, UserKeeps
<1> QED BY <1>5, <1>6

LEMMA CrashKeeps ==
  ASSUME QueueInv, Typed', NEW p \in Process, Crash(p)
  PROVE  QueueInv'
PROOF
<1>1. /\ p \in up /\ up' = up \ {p} /\ slot' = (IF Local(p, slot) THEN None ELSE slot)
      /\ queue' = [queue EXCEPT ![p] = <<>>] /\ retry' = [retry EXCEPT ![p] = None]
      /\ UNCHANGED <<home, since, over>>
  BY DEF Crash
<1>2. queue'[p] = <<>> /\ retry'[p] = None /\ ~Local(p, slot') /\ p \notin up'
  BY <1>1, InvFacts DEF Typed, TypeOK, Local
<1>3. \A o \in Process : o # p => queue'[o] = queue[o] /\ retry'[o] = retry[o]
  BY <1>1, InvFacts DEF Typed, TypeOK
<1>4. Own(p)'
  BY <1>2, EmptyQueue DEF Own, Fits
<1>5. up' \cup {p} = up \cup {p} /\ (slot' = slot \/ (Local(p, slot) /\ slot' = None))
  BY <1>1
<1> QED BY <1>1, <1>3, <1>4, <1>5, AloneKeeps

LEMMA QueueStep == QueueInv /\ [Next]_vars => QueueInv'
PROOF
<1> SUFFICES ASSUME QueueInv, [Next]_vars PROVE QueueInv'
  OBVIOUS
<1>0. Typed'
  BY InvFacts, TypeStep
<1>1. ASSUME NEW p \in Process, NEW m \in Inject, Tell(p, m) PROVE QueueInv'
  BY <1>0, <1>1, TellKeeps
<1>2. ASSUME NEW p \in Process, NEW m \in Inject, Answer(p, m) PROVE QueueInv'
  BY <1>0, <1>2, AnswerKeeps
<1>3. ASSUME NEW p \in Process, Timeout(p) PROVE QueueInv'
  BY <1>0, <1>3, TimeoutKeeps
<1>4. ASSUME NEW p \in Process, Wait(p) PROVE QueueInv'
  BY <1>0, <1>4, WaitKeeps
<1>5. ASSUME NEW p \in Process, Preempt(p) PROVE QueueInv'
  BY <1>0, <1>5, PreemptKeeps
<1>6. ASSUME NEW p \in Process, Work(p) PROVE QueueInv'
  BY <1>0, <1>6, WorkKeeps
<1>7. ASSUME NEW p \in Process, TurnEnds(p) PROVE QueueInv'
  BY <1>0, <1>7, TurnEndsKeeps
<1>8. ASSUME NEW p \in Process, Expire(p) PROVE QueueInv'
  BY <1>0, <1>8, ExpireKeeps
<1>9. ASSUME NEW p \in Process, Retry(p) PROVE QueueInv'
  BY <1>0, <1>9, RetryKeeps
<1>10. ASSUME NEW p \in Process, AbortEntry(p) \/ Reset(p) PROVE QueueInv'
  <2>1. /\ p \in up /\ retry[p] = None /\ Drop(p) /\ slot' \in {slot, Aborted}
        /\ UNCHANGED <<retry, up, home, since>>
    BY <1>10 DEF AbortEntry, Reset, Free
  <2> QED BY <1>0, <2>1, DropKeeps
<1>11. ASSUME NEW p \in Process, Crash(p) PROVE QueueInv'
  BY <1>0, <1>11, CrashKeeps
<1>12. ASSUME UserMessage \/ Stop \/ Unfence \/ UNCHANGED vars PROVE QueueInv'
  <2>1. UNCHANGED <<queue, retry, up, home, since, over>> /\ slot' \in {slot, Aborted}
    BY <1>12 DEF UserMessage, Stop, Unfence, vars
  <2> QED BY <1>0, <2>1, StillKeeps
<1> QED BY <1>1, <1>2, <1>3, <1>4, <1>5, <1>6, <1>7, <1>8, <1>9, <1>10, <1>11, <1>12 DEF Next

LEMMA QueueStart == Init => QueueInv
PROOF
<1> SUFFICES ASSUME Init PROVE QueueInv
  OBVIOUS
<1>1. Typed
  BY TypeStart
<1>2. Unborn
  BY DEF Init, Unborn
<1>3. ASSUME NEW p \in Process PROVE Own(p)
  <2>1. queue[p] = <<>> /\ retry[p] = None /\ ~Local(p, slot) /\ \A m \in Inject : home[m] # p
    BY DEF Init, Local
  <2> QED BY <2>1, EmptyQueue DEF Own, Fits, Keeps
<1> QED BY <1>1, <1>2, <1>3 DEF QueueInv

(* However turns are deferred, merged, preempted, retried, stopped and reset, *)
(* an inject that a process was given is queued there, runs there or is about *)
(* to, until its end has been reported, unless that process dies; and it     *)
(* never waits twice.                                                       *)
THEOREM AcceptedIsKeptHolds == Spec => []AcceptedIsKept
PROOF
<1>1. QueueInv => AcceptedIsKept
  <2> SUFFICES ASSUME QueueInv PROVE AcceptedIsKept
    OBVIOUS
  <2>1. ASSUME NEW m \in Inject, home[m] # None, home[m] \in up, m \notin over
        PROVE  Queued(home[m], m) \/ Running(home[m], m) \/ Again(home[m], m)
    BY <2>1, InvFacts, TypeFacts DEF Own, Keeps
  <2>2. \A p \in Process : Apart(queue[p])
    BY InvFacts DEF Own, Fits
  <2> QED BY <2>1, <2>2 DEF AcceptedIsKept, Apart
<1> QED BY <1>1, QueueStart, QueueStep, PTL DEF Spec

-----------------------------------------------------------------------------
(* What starts.                                                             *)

(* A turn that startAiTurn starts is of the epoch that is now.               *)
LEMMA StartDates ==
  ASSUME Typed, NEW p \in Process, NEW e \in Entry, NEW q, NEW s, Start(p, e, q, s),
         Of(e, p, since, home') \/ e.work = <<>>, slot' # s
  PROVE  \A m \in ToSet(slot'.work) : since'[m] = epoch
PROOF
<1>1. slot' = Run(p, e) /\ ~Stale(e) /\ slot'.work = e.work
  BY DEF Start, Run
<1>2. ToSet(e.work) \subseteq Inject /\ ToSet(<<>>) = {}
  BY EntryFields DEF ToSet
<1> SUFFICES ASSUME NEW m \in ToSet(e.work) PROVE since'[m] = epoch
  BY <1>1
<1>3. since[m] = e.epoch /\ e.epoch \in {None, epoch}
  BY <1>1, <1>2 DEF Of, Dated, Stale
<1> QED BY <1>2, <1>3 DEF Start

LEMMA NewTurns ==
  ASSUME QueueInv, [Next]_vars, slot' # None
  PROVE  \/ slot # None /\ slot'.owner = slot.owner /\ slot'.work = slot.work
         \/ \A m \in ToSet(slot'.work) : since'[m] = epoch'
PROOF
<1> DEFINE Same == slot # None /\ slot'.owner = slot.owner /\ slot'.work = slot.work
           Now  == \A m \in ToSet(slot'.work) : since'[m] = epoch'
<1> SUFFICES Same \/ Now
  OBVIOUS
<1>0. ASSUME slot' \in {slot, Aborted} PROVE Same
  BY <1>0, InvFacts, Aborts
<1> HIDE DEF Same
<1>1. ASSUME NEW p \in Process, NEW m \in Inject, Tell(p, m) PROVE Same \/ Now
  <2> DEFINE e == [work |-> <<m>>, epoch |-> None, thread |-> FALSE]
  <2>1. e \in Entry /\ e.epoch = None /\ ToSet(e.work) = {m}
    <3>1. <<m>> \in Seq(Inject) /\ ToSet(<<m>>) = {m}
      BY DEF ToSet
    <3> QED BY <3>1 DEF Entry
  <2>2. /\ Start(p, e, queue[p], slot) /\ home[m] = None /\ home' = [home EXCEPT ![m] = p] /\ epoch' = epoch
    BY <1>1 DEF Tell
  <2> HIDE DEF e
  <2>3. Of(e, p, since, home')
    BY <2>1, <2>2, InvFacts DEF Of, Dated, Mine, Unborn, Typed, TypeOK
  <2>4. slot' # slot => Now
    BY <2>1, <2>2, <2>3, InvFacts, StartDates
  <2> QED BY <1>0, <2>4
<1>2. ASSUME NEW p \in Process, queue[p] # <<>>, NEW s, s \in {None, slot}, UNCHANGED <<epoch, home>>,
             Start(p, Batch(queue[p]), Rest(queue[p]), s)
      PROVE  Same \/ Now
  <2> DEFINE e == Batch(queue[p])
  <2>1. e \in Entry /\ Of(e, p, since, home')
    BY <1>2, BatchFits
  <2>2. slot' # s => Now
    BY <1>2, <2>1, InvFacts, StartDates
  <2> QED BY <1>0, <1>2, <2>2
<1>3. ASSUME NEW p \in Process, NEW s, s \in {None, slot}, NEW ms, Drain(p, s, ms), UNCHANGED <<epoch, home>>
      PROVE  Same \/ Now
  <2>1. CASE queue[p] = <<>>
    BY <1>0, <1>3, <2>1 DEF Drain
  <2>2. CASE queue[p] # <<>>
    <3>1. Start(p, Batch(queue[p]), Rest(queue[p]), s)
      BY <1>3, <2>2 DEF Drain
    <3> QED BY <1>2, <1>3, <2>2, <3>1
  <2> QED BY <2>1, <2>2
<1>4. ASSUME NEW p \in Process, Timeout(p) PROVE Same \/ Now
  <2>1. UNCHANGED <<epoch, home>> /\ (slot' = slot \/ Drain(p, slot, {}))
    BY <1>4 DEF Timeout
  <2> QED BY <1>0, <1>3, <2>1
<1>5. ASSUME NEW p \in Process, Wait(p) PROVE Same \/ Now
  <2>1. UNCHANGED <<epoch, home>>
    BY <1>5 DEF Wait
  <2>2. CASE queue[p] = <<>>
    BY <1>0, <1>5, <2>2 DEF Wait
  <2>3. CASE queue[p] # <<>>
    <3>1. Start(p, Batch(queue[p]), Rest(queue[p]), slot)
      BY <1>5, <2>3 DEF Wait
    <3> QED BY <1>2, <2>1, <2>3, <3>1
  <2> QED BY <2>2, <2>3
<1>6. ASSUME NEW p \in Process, Preempt(p) PROVE Same
  <2>1. slot \in Turn /\ slot # None /\ \E b \in BOOLEAN : slot' = [slot EXCEPT !.abort = "internal", !.requeued = b]
    BY <1>6, InvFacts, TypeFacts DEF Preempt, Local
  <2> QED BY <2>1 DEF Turn, Same
<1>7. ASSUME NEW p \in Process, Work(p) PROVE Now
  <2>1. slot'.work = <<>>
    BY <1>7 DEF Work, Run
  <2> QED BY <2>1 DEF ToSet
<1>8. ASSUME NEW p \in Process, TurnEnds(p) PROVE Same \/ Now
  <2>1. UNCHANGED <<epoch, home>> /\ \E failed \in BOOLEAN : Drain(p, None, Settled(failed))
    BY <1>8 DEF TurnEnds
  <2> QED BY <1>3, <2>1
<1>9. ASSUME NEW p \in Process, Retry(p) PROVE Same \/ Now
  <2>1. retry[p] \in Entry /\ Of(retry[p], p, since, home') /\ UNCHANGED <<epoch, home>>
    BY <1>9, InvFacts, TypeFacts DEF Retry, Own, FitsRetry
  <2>2. CASE retry[p].work # <<>>
    <3>1. Start(p, retry[p], queue[p], slot)
      BY <1>9, <2>2 DEF Retry
    <3>2. slot' # slot => Now
      BY <2>1, <3>1, InvFacts, StartDates
    <3> QED BY <1>0, <3>2
  <2>3. CASE retry[p].work = <<>>
    <3>1. slot' = slot \/ slot'.work = <<>>
      BY <1>9, <2>3 DEF Retry, Run
    <3> QED BY <1>0, <3>1 DEF ToSet
  <2> QED BY <2>2, <2>3
<1>10. ASSUME NEW p \in Process, NEW m \in Inject, Answer(p, m) PROVE Same
  BY <1>0, <1>10 DEF Answer
<1>11. ASSUME NEW p \in Process, AbortEntry(p) \/ Reset(p) PROVE Same
  BY <1>0, <1>11 DEF AbortEntry, Reset
<1>12. ASSUME NEW p \in Process, Expire(p) \/ Crash(p) PROVE Same
  BY <1>0, <1>12 DEF Expire, Crash
<1>13. ASSUME UserMessage \/ Stop \/ Unfence \/ UNCHANGED vars PROVE Same
  BY <1>0, <1>13 DEF UserMessage, Stop, Unfence, vars
<1> HIDE DEF Now
<1> QED BY <1>1, <1>4, <1>5, <1>6, <1>7, <1>8, <1>9, <1>10, <1>11, <1>12, <1>13 DEF Next

(* An inject that startAiTurn took before a stop or a reset never starts     *)
(* after it.                                                                *)
THEOREM StoppedNeverStartsHolds == Spec => StoppedNeverStarts
PROOF
<1>1. QueueInv /\ [Next]_vars =>
        [\A p \in Process, m \in Inject : ~Running(p, m) /\ Running(p, m)' => since'[m] = epoch']_vars
  <2> SUFFICES ASSUME QueueInv, [Next]_vars, NEW p \in Process, NEW m \in Inject,
                      ~Running(p, m), Running(p, m)'
               PROVE  since'[m] = epoch'
    OBVIOUS
  <2>1. slot' # None /\ slot'.owner = p /\ m \in ToSet(slot'.work)
    BY DEF Running, Local
  <2> QED BY <2>1, NewTurns DEF Running, Local
<1> QED BY <1>1, QueueStart, QueueStep, PTL DEF Spec, StoppedNeverStarts

-----------------------------------------------------------------------------
(* What wakes a queue up.                                                    *)

(* o loses its wake-up only as WakeUpIsKept allows.                          *)
Excused(o) == \/ row /\ Local(o, slot)
              \/ \E e \in ToSet(queue[o]) : Stale(e)
              \/ retry[o] # None

Loses(o) == Attended(o) /\ ~Attended(o)'

(* A process whose queue, timers and turn stay as they are.                  *)
LEMMA OthersWake ==
  ASSUME NEW o \in Process, queue'[o] = queue[o], retry'[o] = retry[o],
         timer'[o] = timer[o], waiter'[o] = waiter[o], Local(o, slot) => Local(o, slot')
  PROVE  ~Loses(o)
PROOF
  BY DEF Loses, Attended

LEMMA StartWake ==
  ASSUME QueueInv, NEW p \in Process, NEW e \in Entry, NEW q \in Seq(Entry), NEW s, Start(p, e, q, s),
         s = slot \/ (s = None /\ Local(p, slot)), e.work # <<>>,
         retry[p] # None \/ \A i \in DOMAIN q : ToSet(q[i].work) \cap ToSet(e.work) = {},
         Idle(s) \/ waiter' = [waiter EXCEPT ![p] = Waits(p, e, q, s)],
         Stale(e) => retry[p] # None \/ \E f \in ToSet(queue[p]) : Stale(f),
         \A o \in Process : o # p => timer'[o] = timer[o] /\ waiter'[o] = waiter[o] /\ retry'[o] = retry[o],
         NEW o \in Process, Loses(o)
  PROVE  Excused(o)
PROOF
<1>1. CASE o = p
  <2>1. CASE retry[p] # None
    BY <1>1, <2>1 DEF Excused
  <2>2. CASE retry[p] = None
    <3>1. Stale(e) \/ Local(p, slot') \/ waiter'[p]
      BY <2>2, InvFacts, StartWakes
    <3>2. Stale(e)
      BY <1>1, <3>1 DEF Loses, Attended
    <3> QED BY <1>1, <2>2, <3>2 DEF Excused
  <2> QED BY <2>1, <2>2
<1>2. CASE o # p
  <2>1. queue'[o] = queue[o]
    BY <1>2, InvFacts DEF Start, Typed, TypeOK
  <2>2. Local(o, slot) => Local(o, slot')
    BY <1>2 DEF Start, Local, Idle
  <2> QED BY <1>2, <2>1, <2>2, OthersWake
<1> QED BY <1>1, <1>2

LEMMA BatchWake ==
  ASSUME QueueInv, NEW p \in Process, queue[p] # <<>>, NEW s,
         Start(p, Batch(queue[p]), Rest(queue[p]), s),
         s = slot \/ (s = None /\ Local(p, slot)),
         Idle(s) \/ waiter' = [waiter EXCEPT ![p] = Waits(p, Batch(queue[p]), Rest(queue[p]), s)],
         \A o \in Process : o # p => timer'[o] = timer[o] /\ waiter'[o] = waiter[o] /\ retry'[o] = retry[o],
         NEW o \in Process, Loses(o)
  PROVE  Excused(o)
PROOF
<1> DEFINE e == Batch(queue[p])
           q == Rest(queue[p])
<1>1. /\ e \in Entry /\ q \in Seq(Entry) /\ e.work # <<>>
      /\ \A i \in DOMAIN q : ToSet(q[i].work) \cap ToSet(e.work) = {}
      /\ \E i \in DOMAIN queue[p] : queue[p][i].epoch = e.epoch
  BY BatchFits
<1>2. Start(p, e, q, s) /\ (Idle(s) \/ waiter' = [waiter EXCEPT ![p] = Waits(p, e, q, s)])
  OBVIOUS
<1> HIDE DEF e, q
<1>3. Stale(e) => \E f \in ToSet(queue[p]) : Stale(f)
  <2>1. PICK i \in DOMAIN queue[p] : queue[p][i].epoch = e.epoch
    BY <1>1
  <2>2. queue[p][i] \in ToSet(queue[p])
    BY DEF ToSet
  <2> QED BY <2>1, <2>2 DEF Stale
<1> QED BY <1>1, <1>2, <1>3, StartWake

LEMMA DrainWake ==
  ASSUME QueueInv, NEW p \in Process, NEW s, NEW ms, Drain(p, s, ms),
         s = slot \/ (s = None /\ Local(p, slot)),
         \A o \in Process : o # p => timer'[o] = timer[o] /\ retry'[o] = retry[o],
         NEW o \in Process, Loses(o)
  PROVE  Excused(o)
PROOF
<1>1. CASE queue[p] = <<>>
  <2>1. slot' = s /\ queue' = queue /\ waiter' = waiter
    BY <1>1 DEF Drain
  <2>2. o # p
    BY <1>1, <2>1 DEF Loses, Attended
  <2>3. Local(o, slot) => Local(o, slot')
    BY <2>1, <2>2 DEF Local
  <2> QED BY <2>1, <2>2, <2>3, OthersWake
<1>2. CASE queue[p] # <<>>
  <2>1. /\ Start(p, Batch(queue[p]), Rest(queue[p]), s)
        /\ waiter' = [waiter EXCEPT ![p] = Waits(p, Batch(queue[p]), Rest(queue[p]), s)]
    BY <1>2 DEF Drain
  <2>2. \A x \in Process : x # p => waiter'[x] = waiter[x]
    BY <2>1, InvFacts DEF Typed, TypeOK
  <2> QED BY <1>2, <2>1, <2>2, BatchWake
<1> QED BY <1>1, <1>2

LEMMA WakeStep ==
  ASSUME QueueInv, [Next]_vars, NEW o \in Process, Loses(o)
  PROVE  Excused(o)
PROOF
<1>0. /\ timer \in [Process -> BOOLEAN] /\ waiter \in [Process -> BOOLEAN]
      /\ retry \in [Process -> Entry \cup {None}] /\ queue \in [Process -> Seq(Entry)]
  BY InvFacts DEF Typed, TypeOK
<1>1. ASSUME NEW p \in Process, NEW m \in Inject, Tell(p, m) PROVE Excused(o)
  <2> DEFINE e == [work |-> <<m>>, epoch |-> None, thread |-> FALSE]
  <2>1. e \in Entry /\ e.epoch = None /\ e.work # <<>> /\ ToSet(e.work) = {m}
    <3>1. <<m>> \in Seq(Inject) /\ ToSet(<<m>>) = {m} /\ <<m>> # <<>>
      BY DEF ToSet
    <3> QED BY <3>1 DEF Entry
  <2>2. /\ Start(p, e, queue[p], slot) /\ home[m] = None /\ UNCHANGED <<timer, retry>>
        /\ waiter' = [waiter EXCEPT ![p] = Waits(p, e, queue[p], slot)]
    BY <1>1 DEF Tell
  <2> HIDE DEF e
  <2>3. \A i \in DOMAIN queue[p] : ToSet(queue[p][i].work) \cap ToSet(e.work) = {}
    BY <2>1, <2>2, InvFacts DEF Own, Fits, Of, Mine
  <2>4. ~Stale(e) /\ queue[p] \in Seq(Entry)
    BY <1>0, <2>1 DEF Stale
  <2>5. \A x \in Process : x # p => timer'[x] = timer[x] /\ waiter'[x] = waiter[x] /\ retry'[x] = retry[x]
    BY <1>0, <2>2
  <2> QED BY <2>1, <2>2, <2>3, <2>4, <2>5, StartWake
<1>2. ASSUME NEW p \in Process, NEW m \in Inject, Answer(p, m) PROVE Excused(o)
  <2>1. /\ timer'[p] /\ UNCHANGED <<slot, waiter, retry>>
        /\ \A x \in Process : x # p => timer'[x] = timer[x] /\ queue'[x] = queue[x]
    BY <1>0, <1>2 DEF Answer
  <2>2. o # p
    BY <2>1 DEF Loses, Attended
  <2> QED BY <2>1, <2>2, OthersWake
<1>3. ASSUME NEW p \in Process, Timeout(p) PROVE Excused(o)
  <2>1. /\ UNCHANGED retry
        /\ \A x \in Process : x # p => timer'[x] = timer[x] /\ retry'[x] = retry[x]
    BY <1>0, <1>3 DEF Timeout
  <2>2. CASE Local(p, slot)
    <3>1. UNCHANGED <<slot, queue, waiter>>
      BY <1>3, <2>2 DEF Timeout
    <3>2. o # p
      BY <2>2, <3>1 DEF Loses, Attended
    <3> QED BY <2>1, <3>1, <3>2, OthersWake
  <2>3. CASE ~Local(p, slot)
    <3>1. Drain(p, slot, {})
      BY <1>3, <2>3 DEF Timeout
    <3> QED BY <2>1, <3>1, DrainWake
  <2> QED BY <2>2, <2>3
<1>4. ASSUME NEW p \in Process, Wait(p) PROVE Excused(o)
  <2>1. /\ UNCHANGED <<timer, retry>> /\ Idle(slot)
        /\ \A x \in Process : x # p => timer'[x] = timer[x] /\ waiter'[x] = waiter[x] /\ retry'[x] = retry[x]
    BY <1>0, <1>4 DEF Wait
  <2>2. CASE queue[p] = <<>>
    <3>1. UNCHANGED <<slot, queue>>
      BY <1>4, <2>2 DEF Wait
    <3>2. o # p
      BY <2>2, <3>1 DEF Loses, Attended
    <3> QED BY <2>1, <3>1, <3>2, OthersWake
  <2>3. CASE queue[p] # <<>>
    <3>1. Start(p, Batch(queue[p]), Rest(queue[p]), slot)
      BY <1>4, <2>3 DEF Wait
    <3> QED BY <2>1, <2>3, <3>1, BatchWake
  <2> QED BY <2>2, <2>3
<1>5. ASSUME NEW p \in Process, Preempt(p) PROVE Excused(o)
  <2>1. /\ slot \in Turn /\ Local(p, slot) /\ UNCHANGED <<timer, waiter, retry>>
        /\ \E b \in BOOLEAN : slot' = [slot EXCEPT !.abort = "internal", !.requeued = b]
        /\ \A x \in Process : x # p => queue'[x] = queue[x]
    BY <1>0, <1>5, InvFacts, TypeFacts DEF Preempt, Local
  <2>2. slot' \in Turn /\ slot'.owner = slot.owner
    BY <2>1 DEF Turn
  <2>3. Local(p, slot')
    BY <2>1, <2>2 DEF Local
  <2>4. o # p
    BY <2>3 DEF Loses, Attended
  <2> QED BY <2>1, <2>4, OthersWake DEF Local
<1>6. ASSUME NEW p \in Process, Work(p) PROVE Excused(o)
  <2>1. slot = None /\ UNCHANGED <<queue, timer, waiter, retry>>
    BY <1>6 DEF Work, Idle
  <2> QED BY <2>1, OthersWake DEF Local
<1>7. ASSUME NEW p \in Process, TurnEnds(p) PROVE Excused(o)
  <2>1. Local(p, slot) /\ UNCHANGED <<timer, retry>>
    BY <1>7 DEF TurnEnds
  <2>2. CASE row
    <3>1. slot' = None /\ UNCHANGED <<queue, waiter>>
      BY <1>7, <2>2 DEF TurnEnds
    <3>2. CASE o = p
      BY <2>1, <2>2, <3>2 DEF Excused
    <3>3. CASE o # p
      BY <2>1, <3>1, <3>3, OthersWake DEF Local
    <3> QED BY <3>2, <3>3
  <2>3. CASE ~row
    <3>1. \E ms : Drain(p, None, ms)
      BY <1>7, <2>3 DEF TurnEnds
    <3> QED BY <2>1, <3>1, DrainWake
  <2> QED BY <2>2, <2>3
<1>8. ASSUME NEW p \in Process, Expire(p) PROVE Excused(o)
  <2>1. /\ Local(p, slot) /\ retry' = [retry EXCEPT ![p] = Replay] /\ UNCHANGED <<queue, timer, waiter>>
    BY <1>8 DEF Expire
  <2>2. Replay # None
    BY <2>1, Replays
  <2>3. retry'[p] # None /\ \A x \in Process : x # p => retry'[x] = retry[x]
    BY <1>0, <2>1, <2>2
  <2>4. o # p
    BY <2>3 DEF Loses, Attended
  <2> QED BY <2>1, <2>3, <2>4, OthersWake DEF Local
<1>9. ASSUME NEW p \in Process, Retry(p) PROVE Excused(o)
  <2>1. /\ retry[p] # None /\ UNCHANGED timer
        /\ \A x \in Process : x # p => retry'[x] = retry[x]
    BY <1>0, <1>9 DEF Retry
  <2>2. CASE retry[p].work # <<>>
    <3>1. /\ Start(p, retry[p], queue[p], slot)
          /\ waiter' = [waiter EXCEPT ![p] = Waits(p, retry[p], queue[p], slot)]
      BY <1>9, <2>2 DEF Retry
    <3>2. \A x \in Process : x # p => waiter'[x] = waiter[x]
      BY <1>0, <3>1
    <3>3. retry[p] \in Entry /\ queue[p] \in Seq(Entry)
      BY <1>0, <2>1
    <3> QED BY <2>1, <2>2, <3>1, <3>2, <3>3, StartWake
  <2>3. CASE retry[p].work = <<>>
    <3>1. UNCHANGED <<queue, waiter>> /\ (slot' = slot \/ slot = None)
      BY <1>9, <2>3 DEF Retry, Idle
    <3>2. CASE o = p
      BY <2>1, <3>2 DEF Excused
    <3>3. CASE o # p
      BY <2>1, <3>1, <3>3, OthersWake DEF Local
    <3> QED BY <3>2, <3>3
  <2> QED BY <2>2, <2>3
<1>10. ASSUME NEW p \in Process, AbortEntry(p) \/ Reset(p) PROVE Excused(o)
  <2>1. Drop(p) /\ slot' \in {slot, Aborted} /\ UNCHANGED <<timer, waiter, retry>>
    BY <1>10 DEF AbortEntry, Reset
  <2>2. queue'[p] = <<>> /\ \A x \in Process : x # p => queue'[x] = queue[x]
    BY <1>0, <2>1 DEF Drop
  <2>3. o # p
    BY <2>2 DEF Loses, Attended
  <2>4. Local(o, slot) => Local(o, slot')
    BY <2>1, InvFacts, Aborts DEF Local
  <2> QED BY <2>1, <2>2, <2>3, <2>4, OthersWake
<1>11. ASSUME NEW p \in Process, Crash(p) PROVE Excused(o)
  <2>1. /\ queue'[p] = <<>> /\ (slot' = slot \/ Local(p, slot))
        /\ \A x \in Process : x # p => /\ queue'[x] = queue[x] /\ timer'[x] = timer[x]
                                       /\ waiter'[x] = waiter[x] /\ retry'[x] = retry[x]
    BY <1>0, <1>11 DEF Crash
  <2>2. o # p
    BY <2>1 DEF Loses, Attended
  <2> QED BY <2>1, <2>2, OthersWake DEF Local
<1>12. ASSUME UserMessage \/ Stop \/ Unfence \/ UNCHANGED vars PROVE Excused(o)
  <2>1. UNCHANGED <<queue, timer, waiter, retry>> /\ slot' \in {slot, Aborted}
    BY <1>12 DEF UserMessage, Stop, Unfence, vars
  <2>2. Local(o, slot) => Local(o, slot')
    BY <2>1, InvFacts, Aborts DEF Local
  <2> QED BY <2>1, <2>2, OthersWake
<1> QED BY <1>1, <1>2, <1>3, <1>4, <1>5, <1>6, <1>7, <1>8, <1>9, <1>10, <1>11, <1>12 DEF Next

(* The queue of a process loses its wake-up in three ways only: the end of   *)
(* its turn leaves the queue to a waiting user message; a batch refused as   *)
(* stale uses the wake-up up; a retry does not start.                        *)
THEOREM WakeUpIsKeptHolds == Spec => WakeUpIsKept
PROOF
<1>1. QueueInv /\ [Next]_vars =>
        [\A p \in Process :
           Attended(p) /\ ~Attended(p)' =>
             \/ row /\ Local(p, slot)
             \/ \E e \in ToSet(queue[p]) : Stale(e)
             \/ retry[p] # None]_vars
  BY WakeStep DEF Loses, Excused
<1> QED BY <1>1, QueueStart, QueueStep, PTL DEF Spec, WakeUpIsKept
=============================================================================
