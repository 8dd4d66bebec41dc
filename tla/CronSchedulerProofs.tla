------------------------ MODULE CronSchedulerProofs ------------------------
(***************************************************************************)
(* Theorems about CronScheduler, for every finite set of jobs and all       *)
(* bounds.                                                                  *)
(***************************************************************************)
EXTENDS CronScheduler, SelectionsProofs, FiniteSetTheorems

USE JobAssumption, BoundAssumption

-----------------------------------------------------------------------------
(* The steps of a callback: what is ahead, and what cannot be ahead twice.    *)
Has(t, x) == \E i \in DOMAIN t : t[i] = x

Once == {"place", "dispatch"}

Single(t) == \A i, k \in DOMAIN t : t[i] = t[k] /\ t[i][1] \in Once => i = k

LEMMA OneStep ==
  ASSUME NEW x
  PROVE  /\ \A y : Has(<<x>>, y) <=> y = x
         /\ \A y : ~Has(<<>>, y)
         /\ Single(<<x>>) /\ Single(<<>>)
PROOF
<1>1. DOMAIN <<x>> = {1} /\ <<x>>[1] = x /\ DOMAIN <<>> = {}
  OBVIOUS
<1> QED BY <1>1 DEF Has, Single

LEMMA Stepped ==
  ASSUME NEW X, NEW t \in Seq(X), t # <<>>
  PROVE  /\ Head(t) \in X /\ Tail(t) \in Seq(X)
         /\ \A y : Has(t, y) <=> y = Head(t) \/ Has(Tail(t), y)
         /\ Single(t) => /\ Single(Tail(t))
                         /\ Head(t)[1] \in Once => ~Has(Tail(t), Head(t))
PROOF
<1> DEFINE u == Tail(t)
<1>1. /\ Len(t) \in Nat \ {0} /\ DOMAIN t = 1..Len(t) /\ Head(t) = t[1] /\ 1 \in DOMAIN t
      /\ DOMAIN u = 1..(Len(t) - 1) /\ \A i \in DOMAIN u : u[i] = t[i + 1]
      /\ u \in Seq(X) /\ t[1] \in X
  OBVIOUS
<1> HIDE DEF u
<1>2. \A i \in DOMAIN u : i + 1 \in DOMAIN t /\ i + 1 # 1
  BY <1>1
<1>3. \A i \in DOMAIN t : i = 1 \/ (i - 1 \in DOMAIN u /\ u[i - 1] = t[i])
  BY <1>1
<1>4. ASSUME NEW y PROVE Has(t, y) <=> y = Head(t) \/ Has(u, y)
  BY <1>1, <1>2, <1>3 DEF Has
<1>5. ASSUME Single(t) PROVE Single(u)
  <2> SUFFICES ASSUME NEW i \in DOMAIN u, NEW k \in DOMAIN u, u[i] = u[k], u[i][1] \in Once
               PROVE  i = k
    BY DEF Single
  <2>1. i + 1 \in DOMAIN t /\ k + 1 \in DOMAIN t /\ t[i + 1] = t[k + 1] /\ t[i + 1][1] \in Once
    BY <1>1, <1>2
  <2>2. i + 1 = k + 1
    BY <2>1, <1>5 DEF Single
  <2> QED BY <2>2, <1>1
<1>6. ASSUME Single(t), Head(t)[1] \in Once, NEW i \in DOMAIN u, u[i] = Head(t) PROVE FALSE
  <2>1. t[i + 1] = t[1] /\ i + 1 \in DOMAIN t /\ 1 \in DOMAIN t /\ t[i + 1][1] \in Once
    BY <1>6, <1>1, <1>2
  <2>2. i + 1 = 1
    BY <2>1, <1>6 DEF Single
  <2> QED BY <2>2, <1>2
<1>7. Single(t) /\ Head(t)[1] \in Once => ~Has(u, Head(t))
  BY <1>6 DEF Has
<1> QED BY <1>1, <1>4, <1>5, <1>7 DEF u

LEMMA InTurn ==
  ASSUME NEW X, NEW t \in Seq(X), NEW u \in Seq(X)
  PROVE  /\ t \o u \in Seq(X)
         /\ \A y : Has(t \o u, y) <=> Has(t, y) \/ Has(u, y)
         /\ Single(t) /\ Single(u) /\ (\A y : y[1] \in Once => ~(Has(t, y) /\ Has(u, y)))
              => Single(t \o u)
PROOF
<1> DEFINE v == t \o u
           n == Len(t)
           m == Len(u)
<1>1. /\ n \in Nat /\ m \in Nat /\ DOMAIN t = 1..n /\ DOMAIN u = 1..m /\ v \in Seq(X)
      /\ DOMAIN v = 1..(n + m)
  OBVIOUS
<1>2. \A i \in 1..(n + m) : v[i] = IF i <= n THEN t[i] ELSE u[i - n]
  OBVIOUS
<1> HIDE DEF v, n, m
<1>3. \A i \in DOMAIN v : \/ i \in DOMAIN t /\ v[i] = t[i]
                          \/ i - n \in DOMAIN u /\ v[i] = u[i - n]
  BY <1>1, <1>2
<1>4. /\ \A i \in DOMAIN t : i \in DOMAIN v /\ v[i] = t[i]
      /\ \A i \in DOMAIN u : i + n \in DOMAIN v /\ v[i + n] = u[i]
  BY <1>1, <1>2
<1>5. ASSUME NEW y PROVE Has(v, y) <=> Has(t, y) \/ Has(u, y)
  BY <1>3, <1>4 DEF Has
<1>6. ASSUME Single(t), Single(u), \A y : y[1] \in Once => ~(Has(t, y) /\ Has(u, y))
      PROVE  Single(v)
  <2> SUFFICES ASSUME NEW i \in DOMAIN v, NEW k \in DOMAIN v, v[i] = v[k], v[i][1] \in Once
               PROVE  i = k
    BY DEF Single
  <2>0. i \in Int /\ k \in Int
    BY <1>1
  <2>1. CASE i \in DOMAIN t /\ v[i] = t[i] /\ k \in DOMAIN t /\ v[k] = t[k]
    BY <2>1, <1>6 DEF Single
  <2>2. CASE i - n \in DOMAIN u /\ v[i] = u[i - n] /\ k - n \in DOMAIN u /\ v[k] = u[k - n]
    <3>1. i - n = k - n
      BY <2>2, <1>6 DEF Single
    <3> QED BY <3>1, <2>0, <1>1
  <2>3. CASE i \in DOMAIN t /\ v[i] = t[i] /\ k - n \in DOMAIN u /\ v[k] = u[k - n]
    BY <2>3, <1>6 DEF Has
  <2>4. CASE i - n \in DOMAIN u /\ v[i] = u[i - n] /\ k \in DOMAIN t /\ v[k] = t[k]
    BY <2>4, <1>6 DEF Has
  <2> QED BY <1>3, <2>1, <2>2, <2>3, <2>4
<1> QED BY <1>1, <1>5, <1>6 DEF v

(* One more step at the end.                                                *)
LEMMA Later ==
  ASSUME NEW X, NEW t \in Seq(X), NEW x \in X
  PROVE  /\ Append(t, x) \in Seq(X)
         /\ \A y : Has(Append(t, x), y) <=> Has(t, y) \/ y = x
         /\ Single(t) /\ (x[1] \in Once => ~Has(t, x)) => Single(Append(t, x))
PROOF
<1>1. Append(t, x) = t \o <<x>> /\ <<x>> \in Seq(X)
  OBVIOUS
<1>2. \A y : Has(<<x>>, y) <=> y = x
  BY OneStep, Zenon
<1>3. Single(<<x>>)
  BY OneStep, Zenon
<1>4. (x[1] \in Once => ~Has(t, x)) => \A y : y[1] \in Once => ~(Has(t, y) /\ Has(<<x>>, y))
  BY <1>2
<1>5. /\ t \o <<x>> \in Seq(X)
      /\ \A y : Has(t \o <<x>>, y) <=> Has(t, y) \/ Has(<<x>>, y)
      /\ Single(t) /\ Single(<<x>>) /\ (\A y : y[1] \in Once => ~(Has(t, y) /\ Has(<<x>>, y)))
           => Single(t \o <<x>>)
  BY <1>1, InTurn, Zenon
<1> QED BY <1>1, <1>2, <1>3, <1>4, <1>5, Zenon

(* One more step at the front.                                              *)
LEMMA Sooner ==
  ASSUME NEW X, NEW t \in Seq(X), NEW x \in X
  PROVE  /\ <<x>> \o t \in Seq(X)
         /\ \A y : Has(<<x>> \o t, y) <=> Has(t, y) \/ y = x
         /\ Single(t) /\ (x[1] \in Once => ~Has(t, x)) => Single(<<x>> \o t)
PROOF
<1>1. <<x>> \in Seq(X)
  OBVIOUS
<1>2. \A y : Has(<<x>>, y) <=> y = x
  BY OneStep, Zenon
<1>3. Single(<<x>>)
  BY OneStep, Zenon
<1>4. (x[1] \in Once => ~Has(t, x)) => \A y : y[1] \in Once => ~(Has(<<x>>, y) /\ Has(t, y))
  BY <1>2
<1>5. /\ <<x>> \o t \in Seq(X)
      /\ \A y : Has(<<x>> \o t, y) <=> Has(<<x>>, y) \/ Has(t, y)
      /\ Single(<<x>>) /\ Single(t) /\ (\A y : y[1] \in Once => ~(Has(<<x>>, y) /\ Has(t, y)))
           => Single(<<x>> \o t)
  BY <1>1, InTurn, Zenon
<1> QED BY <1>1, <1>2, <1>3, <1>4, <1>5, Zenon

(* The steps of a callback over distinct arguments.                          *)
LEMMA DoFacts ==
  ASSUME NEW S, NEW n \in Nat, NEW o \in [1..n -> S], NEW op
  PROVE  /\ \A X : (\A s \in S : <<op, s>> \in X) => Do(op, o) \in Seq(X)
         /\ \A y : Has(Do(op, o), y) <=> \E i \in 1..n : y = <<op, o[i]>>
         /\ (\A i, k \in 1..n : i # k => o[i] # o[k]) \/ op \notin Once => Single(Do(op, o))
PROOF
<1> DEFINE d == Do(op, o)
<1>1. DOMAIN o = 1..n /\ \A i \in 1..n : o[i] \in S
  OBVIOUS
<1>2. d = [i \in 1..n |-> <<op, o[i]>>]
  BY <1>1 DEF Do
<1>3. DOMAIN d = 1..n /\ \A i \in 1..n : d[i] = <<op, o[i]>>
  BY <1>2
<1>4. ASSUME NEW X, \A s \in S : <<op, s>> \in X PROVE d \in Seq(X)
  <2>1. \A i \in 1..n : <<op, o[i]>> \in X
    BY <1>1, <1>4
  <2>2. [i \in 1..n |-> <<op, o[i]>>] \in Seq(X)
    BY <2>1
  <2> QED BY <1>2, <2>2
<1> HIDE DEF d
<1>5. ASSUME NEW y PROVE Has(d, y) <=> \E i \in 1..n : y = <<op, o[i]>>
  BY <1>3 DEF Has
<1>6. \A i \in 1..n : d[i][1] = op /\ d[i][2] = o[i]
  BY <1>3
<1>7. (\A i, k \in 1..n : i # k => o[i] # o[k]) \/ op \notin Once => Single(d)
  BY <1>3, <1>6 DEF Single
<1> QED BY <1>4, <1>5, <1>7 DEF d

-----------------------------------------------------------------------------
(* Queues of runs: who is named in one, and that none is named twice.        *)
Named(q, r) == \E i \in DOMAIN q : q[i].run = r

Separate(q) == \A i, k \in DOMAIN q : q[i].run = q[k].run => i = k

LEMMA NoneNamed == Separate(<<>>) /\ \A r : ~Named(<<>>, r)
PROOF
<1>1. DOMAIN <<>> = {}
  OBVIOUS
<1> QED BY <1>1 DEF Separate, Named

LEMMA Taken ==
  ASSUME NEW X, NEW q \in Seq(X), q # <<>>
  PROVE  /\ Head(q) \in X /\ Tail(q) \in Seq(X)
         /\ \A r : Named(q, r) <=> r = Head(q).run \/ Named(Tail(q), r)
         /\ Separate(q) => Separate(Tail(q)) /\ ~Named(Tail(q), Head(q).run)
PROOF
<1> DEFINE u == Tail(q)
<1>1. /\ Len(q) \in Nat \ {0} /\ DOMAIN q = 1..Len(q) /\ Head(q) = q[1] /\ 1 \in DOMAIN q
      /\ DOMAIN u = 1..(Len(q) - 1) /\ \A i \in DOMAIN u : u[i] = q[i + 1]
      /\ u \in Seq(X) /\ q[1] \in X
  OBVIOUS
<1> HIDE DEF u
<1>2. \A i \in DOMAIN u : i + 1 \in DOMAIN q /\ i + 1 # 1
  BY <1>1
<1>3. \A i \in DOMAIN q : i = 1 \/ (i - 1 \in DOMAIN u /\ u[i - 1] = q[i])
  BY <1>1
<1>4. ASSUME NEW r PROVE Named(q, r) <=> r = Head(q).run \/ Named(u, r)
  BY <1>1, <1>2, <1>3 DEF Named
<1>5. ASSUME Separate(q) PROVE Separate(u)
  <2> SUFFICES ASSUME NEW i \in DOMAIN u, NEW k \in DOMAIN u, u[i].run = u[k].run
               PROVE  i = k
    BY DEF Separate
  <2>1. i + 1 \in DOMAIN q /\ k + 1 \in DOMAIN q /\ q[i + 1].run = q[k + 1].run
    BY <1>1, <1>2
  <2>2. i + 1 = k + 1
    BY <2>1, <1>5 DEF Separate
  <2> QED BY <2>2, <1>1
<1>6. ASSUME Separate(q), NEW i \in DOMAIN u, u[i].run = Head(q).run PROVE FALSE
  <2>1. q[i + 1].run = q[1].run /\ i + 1 \in DOMAIN q /\ 1 \in DOMAIN q
    BY <1>6, <1>1, <1>2
  <2>2. i + 1 = 1
    BY <2>1, <1>6 DEF Separate
  <2> QED BY <2>2, <1>2
<1>7. Separate(q) => ~Named(u, Head(q).run)
  BY <1>6 DEF Named
<1> QED BY <1>1, <1>4, <1>5, <1>7 DEF u

LEMMA Put ==
  ASSUME NEW X, NEW q \in Seq(X), NEW e \in X
  PROVE  /\ Append(q, e) \in Seq(X)
         /\ \A r : Named(Append(q, e), r) <=> Named(q, r) \/ r = e.run
         /\ Separate(q) /\ ~Named(q, e.run) => Separate(Append(q, e))
PROOF
<1> DEFINE u == Append(q, e)
           n == Len(q) + 1
<1>1. /\ Len(q) \in Nat /\ DOMAIN q = 1..Len(q) /\ DOMAIN u = 1..n /\ u \in Seq(X)
      /\ u[n] = e /\ \A i \in 1..Len(q) : u[i] = q[i]
  OBVIOUS
<1> HIDE DEF u
<1>2. \A i \in DOMAIN u : i = n \/ i \in DOMAIN q
  BY <1>1
<1>3. \A i \in DOMAIN q : i \in DOMAIN u /\ u[i] = q[i]
  BY <1>1
<1>4. n \in DOMAIN u
  BY <1>1
<1> HIDE DEF n
<1>5. ASSUME NEW r PROVE Named(u, r) <=> Named(q, r) \/ r = e.run
  BY <1>1, <1>2, <1>3, <1>4 DEF Named
<1>6. Separate(q) /\ ~Named(q, e.run) => Separate(u)
  BY <1>1, <1>2, <1>3 DEF Named, Separate
<1> QED BY <1>1, <1>5, <1>6 DEF u

(* What is left of a queue without the runs C.                               *)
LEMMA Left ==
  ASSUME NEW X, NEW q \in Seq(X), NEW C, NEW S, S = {i \in DOMAIN q : q[i].run \notin C}
  PROVE  /\ Picked(q, S) \in Seq(X)
         /\ \A r : Named(Picked(q, S), r) <=> Named(q, r) /\ r \notin C
         /\ Separate(q) => Separate(Picked(q, S))
PROOF
<1> DEFINE u == Picked(q, S)
<1>1. u \in Seq(X) /\ \E h : Places(u, q, S, h)
  BY PickedPlaces
<1>2. PICK h : Places(u, q, S, h)
  BY <1>1
<1>3. DOMAIN u = 1..Len(u) /\ Len(u) \in Nat
  BY <1>1
<1> HIDE DEF u
<1>4. \A i \in DOMAIN u : h[i] \in DOMAIN q /\ h[i] \in S /\ u[i] = q[h[i]]
  BY <1>2, <1>3 DEF Places
<1>5. \A i, k \in DOMAIN u : h[i] = h[k] => i = k
  <2>1. \A i \in DOMAIN q : i \in Int
    OBVIOUS
  <2> QED BY <2>1, <1>2, <1>3, <1>4 DEF Places
<1>6. \A n \in S : \E i \in DOMAIN u : h[i] = n
  BY <1>2, <1>3 DEF Places
<1>7. ASSUME NEW r PROVE Named(u, r) <=> Named(q, r) /\ r \notin C
  BY <1>4, <1>6 DEF Named
<1>8. Separate(q) => Separate(u)
  BY <1>4, <1>5 DEF Separate
<1> QED BY <1>1, <1>7, <1>8 DEF u

(* The same runs in the same order.                                         *)
LEMMA Relabelled ==
  ASSUME NEW q, NEW u, DOMAIN u = DOMAIN q, \A i \in DOMAIN q : u[i].run = q[i].run
  PROVE  /\ \A r : Named(u, r) <=> Named(q, r)
         /\ Separate(q) => Separate(u)
PROOF
  BY DEF Named, Separate

-----------------------------------------------------------------------------
(* The inductive invariant.                                                 *)

(* What the running callback may have left to do.                           *)
Todo == ({"place", "dispatch"} \X Run) \cup ({"cancel"} \X Job) \cup {Drain, Tick, Claim}

Placed(r)  == Has(todo, <<"place", r>>)
Called(r)  == Has(todo, <<"dispatch", r>>)
InQueue(r) == Named(queue, r)
Ending(r)  == \E s \in settling : s.run = r
At(r, S)   == Live(r) /\ active.at \in S

Types ==
  /\ TypeOK
  /\ todo \in Seq(Todo)
  /\ phase \in {"down", "up", "stopped"}
  /\ settling \subseteq [run : Run, ok : BOOLEAN] /\ past \subseteq Run
  /\ agent \in BOOLEAN /\ rotating \in BOOLEAN /\ bypass \in BOOLEAN /\ human \in BOOLEAN

(* Ids are given to runs in order, and there are enough of them for every    *)
(* request and every job that is due.                                       *)
Numbered ==
  \E n \in Nat : Used = 1..n /\ Len(asked) + Cardinality(Fallen) + n <= MaxRuns

(* Nothing is placed, called, queued or waiting twice.                       *)
Distinct == Single(todo) /\ Separate(queue) /\ Separate(waiting)

(* A job that was deleted asks for nothing.                                 *)
Withdrawn == \A i \in DOMAIN asked : job[asked[i]] # "gone"

(* Without a scheduler there is nothing to do, without a process nothing in   *)
(* the room.                                                                *)
Halted ==
  /\ phase # "up" => todo = <<>> /\ active = None /\ queue = <<>>
  /\ phase = "down" => waiting = <<>> /\ settling = {} /\ room \in {None, Other}

(* The scheduler has a run at one place at most.                            *)
Somewhere(r) ==
  /\ ~(Placed(r) /\ InQueue(r)) /\ ~(Placed(r) /\ Live(r)) /\ ~(InQueue(r) /\ Live(r))
  /\ Called(r) => ~Placed(r) /\ ~InQueue(r)
  /\ Called(r) /\ Live(r) => active.at = "called"

(* A run it has not started was never in the room and does not wait there.   *)
Unstarted(r) ==
  /\ Placed(r) \/ InQueue(r) \/ Called(r) \/ At(r, {"called", "script"})
       => ~Waits(r) /\ ~Runs(r) /\ r \notin past
  /\ At(r, {"queued"}) => ~Runs(r) /\ r \notin past

(* Its row: open as long as the scheduler has the run, "running" once it was  *)
(* dispatched, and gone with its job.                                       *)
Recorded(r) ==
  /\ Placed(r) \/ Called(r) \/ InQueue(r) \/ Live(r) \/ Waits(r) => status[r] # "none"
  /\ Runs(r) \/ r \in past => status[r] \notin {"none", "pending"}
  /\ phase # "down" =>
       /\ status[r] \in Open <=> status[r] # "gone" /\ (Placed(r) \/ InQueue(r) \/ Live(r))
       /\ status[r] = "running" => At(r, {"sent"})
  /\ status[r] # "none" => of[r] \in Job /\ (job[of[r]] = "gone" => status[r] = "gone")

(* Its inject and its turn: both only while the turn gives way.              *)
Working(r) ==
  /\ Waits(r) /\ Runs(r) => room.abort # "none"
  /\ r \in past => ~Waits(r) /\ ~Runs(r)
  /\ Runs(r) => ~Ending(r)

Own(r) == Somewhere(r) /\ Unstarted(r) /\ Recorded(r) /\ Working(r)

Inv == Types /\ Numbered /\ Distinct /\ Withdrawn /\ Halted /\ \A r \in Run : Own(r)

LEMMA Frames ==
  ASSUME NEW r
  PROVE  /\ todo' = todo => (Placed(r)' <=> Placed(r)) /\ (Called(r)' <=> Called(r))
         /\ queue' = queue => (InQueue(r)' <=> InQueue(r))
         /\ active' = active => (Live(r)' <=> Live(r))
         /\ waiting' = waiting => (Waits(r)' <=> Waits(r))
         /\ room' = room => (Runs(r)' <=> Runs(r))
         /\ settling' = settling => (Ending(r)' <=> Ending(r))
PROOF
<1>1. todo' = todo => (Placed(r)' <=> Placed(r)) /\ (Called(r)' <=> Called(r))
  BY DEF Placed, Called
<1>2. queue' = queue => (InQueue(r)' <=> InQueue(r))
  BY DEF InQueue
<1>3. active' = active => (Live(r)' <=> Live(r))
  BY DEF Live
<1>4. waiting' = waiting => (Waits(r)' <=> Waits(r))
  BY DEF Waits
<1>5. room' = room => (Runs(r)' <=> Runs(r))
  BY DEF Runs
<1>6. settling' = settling => (Ending(r)' <=> Ending(r))
  BY DEF Ending
<1> QED BY <1>1, <1>2, <1>3, <1>4, <1>5, <1>6

(* What the three queues hold, as the code asks for it.                      *)
LEMMA Asked ==
  /\ \A r : Waits(r) <=> Named(waiting, r)
  /\ \A r : Waits(r)' <=> Named(waiting', r)
  /\ \A r : InQueue(r) <=> r \in Queue
  /\ \A r : InQueue(r)' <=> Named(queue', r)
  /\ \A r : Placed(r)' <=> Has(todo', <<"place", r>>)
  /\ \A r : Called(r)' <=> Has(todo', <<"dispatch", r>>)
PROOF
<1>1. \A r : Waits(r) <=> Named(waiting, r)
  BY DEF Waits, Named
<1>2. \A r : Waits(r)' <=> Named(waiting', r)
  BY DEF Waits, Named
<1>3. \A r : InQueue(r) <=> r \in Queue
  BY DEF InQueue, Queue, Named
<1>4. \A r : InQueue(r)' <=> Named(queue', r)
  BY DEF InQueue
<1>5. \A r : Placed(r)' <=> Has(todo', <<"place", r>>)
  BY DEF Placed
<1>6. \A r : Called(r)' <=> Has(todo', <<"dispatch", r>>)
  BY DEF Called
<1> QED BY <1>1, <1>2, <1>3, <1>4, <1>5, <1>6

(* Parts of the types, one by one.                                          *)
LEMMA TypeFacts ==
  ASSUME Types
  PROVE  /\ job \in [Job -> {"off", "on", "due", "gone"}] /\ asked \in Seq(Job) /\ kills \subseteq Job
         /\ of \in [Run -> Job \cup {None}] /\ status \in [Run -> Status]
         /\ successes \in 0..RotateEvery /\ queue \in Seq(Queued) /\ waiting \in Seq(Inject)
         /\ active # None => active \in Active /\ active.run \in Run
                             /\ active.at \in {"called", "script", "queued", "sent"}
         /\ room \notin {None, Other} => room \in Turn /\ room.run \in Run
         /\ \A r : Live(r) => active # None /\ active.run = r /\ r \in Run
         /\ \A r : Runs(r) => room \notin {None, Other} /\ room.run = r /\ r \in Run
         /\ todo \in Seq(Todo)
PROOF
<1>1. /\ job \in [Job -> {"off", "on", "due", "gone"}] /\ asked \in Seq(Job) /\ kills \subseteq Job
      /\ of \in [Run -> Job \cup {None}] /\ status \in [Run -> Status]
      /\ successes \in 0..RotateEvery /\ queue \in Seq(Queued) /\ waiting \in Seq(Inject)
      /\ todo \in Seq(Todo)
  BY DEF Types, TypeOK
<1>2. active # None => active \in Active
  BY DEF Types, TypeOK
<1>3. active # None => active.run \in Run /\ active.at \in {"called", "script", "queued", "sent"}
  BY <1>2 DEF Active
<1>4. room \notin {None, Other} => room \in Turn
  BY DEF Types, TypeOK
<1>5. room \notin {None, Other} => room.run \in Run
  BY <1>4 DEF Turn
<1>6. \A r : Live(r) => active # None /\ active.run = r /\ r \in Run
  BY <1>3 DEF Live
<1>7. \A r : Runs(r) => room \notin {None, Other} /\ room.run = r /\ r \in Run
  BY <1>5 DEF Runs
<1> QED BY <1>1, <1>2, <1>3, <1>4, <1>5, <1>6, <1>7

-----------------------------------------------------------------------------
(* What the steps of a callback take off `todo`.                             *)
LEMMA DueFacts ==
  ASSUME Inv, NEW op, Due(op)
  PROVE  /\ phase = "up" /\ Rest \in Seq(Todo) /\ Single(Rest)
         /\ op \notin Once => \A r : (Has(Rest, <<"place", r>>) <=> Placed(r))
                                     /\ (Has(Rest, <<"dispatch", r>>) <=> Called(r))
         /\ op = "place" =>
              /\ Arg \in Run /\ Placed(Arg) /\ ~Has(Rest, <<"place", Arg>>)
              /\ \A r : (Has(Rest, <<"place", r>>) <=> Placed(r) /\ r # Arg)
                        /\ (Has(Rest, <<"dispatch", r>>) <=> Called(r))
         /\ op = "dispatch" =>
              /\ Arg \in Run /\ Called(Arg) /\ ~Has(Rest, <<"dispatch", Arg>>)
              /\ \A r : (Has(Rest, <<"place", r>>) <=> Placed(r))
                        /\ (Has(Rest, <<"dispatch", r>>) <=> Called(r) /\ r # Arg)
PROOF
<1>1. phase = "up" /\ todo # <<>> /\ Head(todo)[1] = op /\ todo \in Seq(Todo) /\ Single(todo)
  BY TypeFacts DEF Due, Inv, Distinct
<1>2. /\ Head(todo) \in Todo /\ Rest \in Seq(Todo) /\ Single(Rest)
      /\ \A y : Has(todo, y) <=> y = Head(todo) \/ Has(Rest, y)
      /\ op \in Once => ~Has(Rest, Head(todo))
  BY <1>1, Stepped DEF Rest
<1>3. op \in Once => Arg \in Run /\ Head(todo) = <<op, Arg>>
  BY <1>1, <1>2 DEF Todo, Once, Arg, Drain, Tick, Claim
<1>4. op \notin Once => \A r : Head(todo) # <<"place", r>> /\ Head(todo) # <<"dispatch", r>>
  BY <1>1 DEF Once
<1>5. op = "place" => \A r : Head(todo) # <<"dispatch", r>> /\ (Head(todo) = <<"place", r>> <=> r = Arg)
  BY <1>3 DEF Once
<1>6. op = "dispatch" => \A r : Head(todo) # <<"place", r>> /\ (Head(todo) = <<"dispatch", r>> <=> r = Arg)
  BY <1>3 DEF Once
<1>7. \A r : (Placed(r) <=> Has(todo, <<"place", r>>)) /\ (Called(r) <=> Has(todo, <<"dispatch", r>>))
  BY DEF Placed, Called
<1>8. op \in {"place", "dispatch"} => op \in Once
  BY DEF Once
<1>9. op \notin Once => \A r : (Has(Rest, <<"place", r>>) <=> Placed(r))
                               /\ (Has(Rest, <<"dispatch", r>>) <=> Called(r))
  BY <1>2, <1>4, <1>7, Zenon
<1>10. op = "place" =>
         /\ Arg \in Run /\ Placed(Arg) /\ ~Has(Rest, <<"place", Arg>>)
         /\ \A r : (Has(Rest, <<"place", r>>) <=> Placed(r) /\ r # Arg)
                   /\ (Has(Rest, <<"dispatch", r>>) <=> Called(r))
  BY <1>2, <1>3, <1>5, <1>7, <1>8
<1>11. op = "dispatch" =>
         /\ Arg \in Run /\ Called(Arg) /\ ~Has(Rest, <<"dispatch", Arg>>)
         /\ \A r : (Has(Rest, <<"place", r>>) <=> Placed(r))
                   /\ (Has(Rest, <<"dispatch", r>>) <=> Called(r) /\ r # Arg)
  BY <1>2, <1>3, <1>6, <1>7, <1>8
<1> QED BY <1>1, <1>2, <1>9, <1>10, <1>11

LEMMA ClosedFacts ==
  ASSUME status \in [Run -> Status], NEW S, NEW st \in Status \ {"none"}
  PROVE  /\ Closed(S, st) \in [Run -> Status]
         /\ \A r \in Run : Closed(S, st)[r] = IF r \in S /\ status[r] \in Open THEN st ELSE status[r]
         /\ \A r \in Run : Closed(S, st)[r] = "none" <=> status[r] = "none"
PROOF
<1>1. /\ Closed(S, st) \in [Run -> Status]
      /\ \A r \in Run : Closed(S, st)[r] = IF r \in S /\ status[r] \in Open THEN st ELSE status[r]
  BY DEF Closed
<1> QED BY <1>1 DEF Open

(* The steps that leave the table of jobs and requests alone.                *)
LEMMA Counted ==
  ASSUME Inv, UNCHANGED <<job, asked>>, \A r \in Run : status'[r] = "none" <=> status[r] = "none"
  PROVE  Numbered' /\ Withdrawn'
PROOF
<1>1. Used' = Used
  BY DEF Used
<1>2. Fallen' = Fallen
  BY DEF Fallen
<1>3. Numbered'
  BY <1>1, <1>2 DEF Inv, Numbered
<1>4. Withdrawn'
  BY DEF Inv, Withdrawn
<1> QED BY <1>3, <1>4

(* The inject of a run is taken back.                                       *)
LEMMA WithoutFacts ==
  ASSUME Inv, NEW r
  PROVE  /\ Without(r) \in Seq(Inject) /\ Separate(Without(r))
         /\ \A q : Named(Without(r), q) <=> Waits(q) /\ q # r
PROOF
<1>1. waiting \in Seq(Inject) /\ Separate(waiting)
  BY TypeFacts DEF Inv, Distinct
<1> DEFINE S == {i \in DOMAIN waiting : waiting[i].run # r}
<1>2. S = {i \in DOMAIN waiting : waiting[i].run \notin {r}}
  OBVIOUS
<1>3. Without(r) = Picked(waiting, S)
  BY DEF Without
<1> HIDE DEF S
<1>4. /\ Picked(waiting, S) \in Seq(Inject)
      /\ \A q : Named(Picked(waiting, S), q) <=> Named(waiting, q) /\ q \notin {r}
      /\ Separate(waiting) => Separate(Picked(waiting, S))
  BY ONLY <1>1, <1>2, Left
<1> QED BY <1>1, <1>3, <1>4, Asked

(* A turn that is told to stop.                                             *)
LEMMA StoppedFacts ==
  ASSUME Types, NEW r
  PROVE  /\ Stopped(r) \in Turn \cup {None, Other}
         /\ room' = Stopped(r) => /\ \A q : Runs(q)' <=> Runs(q)
                                  /\ Runs(r) => room'.abort = "external"
                                  /\ ~Runs(r) => room' = room
                                  /\ room \in {None, Other} => room' = room
PROOF
<1>1. CASE Runs(r)
  <2>1. room \in Turn /\ room \notin {None, Other}
    BY <1>1, TypeFacts
  <2>2. Stopped(r) = [room EXCEPT !.abort = "external"]
    BY <1>1 DEF Stopped
  <2>3. Stopped(r) \in Turn /\ Stopped(r).run = room.run /\ Stopped(r).abort = "external"
    BY <2>1, <2>2 DEF Turn
  <2>4. Stopped(r) \notin {None, Other}
    BY <2>3, NoneAssumption
  <2> QED BY <1>1, <2>1, <2>3, <2>4 DEF Runs
<1>2. CASE ~Runs(r)
  <2>1. Stopped(r) = room
    BY <1>2 DEF Stopped
  <2>2. room \in Turn \cup {None, Other}
    BY DEF Types, TypeOK
  <2> QED BY <1>2, <2>1, <2>2 DEF Runs
<1> QED BY <1>1, <1>2

LEMMA FinishFacts ==
  ASSUME Inv, active # None, NEW st \in {"succeeded", "ended"}, NEW S,
         NEW rest \in Seq(Todo), Single(rest), Finish(st, S, rest)
  PROVE  /\ active' = None /\ \A r : ~Live(r)'
         /\ status' \in [Run -> Status]
         /\ \A r \in Run : status'[r] = IF (r \in S \/ Live(r)) /\ status[r] \in Open THEN st ELSE status[r]
         /\ \A r \in Run : status'[r] = "none" <=> status[r] = "none"
         /\ successes' \in 0..RotateEvery /\ rotating' \in BOOLEAN
         /\ todo' \in Seq(Todo) /\ Single(todo')
         /\ \A r : (Placed(r)' <=> Has(rest, <<"place", r>>)) /\ (Called(r)' <=> Has(rest, <<"dispatch", r>>))
PROOF
<1> DEFINE R == S \cup {active.run}
<1>1. /\ active' = None /\ status' = Closed(R, st)
      /\ (successes' = successes + 1 /\ successes < RotateEvery) \/ successes' = successes
      /\ rotating' \in BOOLEAN
      /\ todo' = rest \/ todo' = Append(rest, Drain)
  BY DEF Finish, Inv, Types
<1>2. \A r : ~Live(r)'
  BY <1>1 DEF Live
<1>3. status \in [Run -> Status] /\ st \in Status \ {"none"} /\ successes \in 0..RotateEvery
  BY TypeFacts DEF Status, Inv
<1>4. \A r : r \in R <=> r \in S \/ Live(r)
  BY DEF Live
<1> HIDE DEF R
<1>5. /\ status' \in [Run -> Status]
      /\ \A r \in Run : status'[r] = IF r \in R /\ status[r] \in Open THEN st ELSE status[r]
      /\ \A r \in Run : status'[r] = "none" <=> status[r] = "none"
  BY <1>1, <1>3, ClosedFacts
<1>6. \A r \in Run : status'[r] = IF (r \in S \/ Live(r)) /\ status[r] \in Open THEN st ELSE status[r]
  BY <1>4, <1>5
<1>7. successes' \in 0..RotateEvery
  BY <1>1, <1>3
<1>8. Drain \in Todo /\ Drain[1] \notin Once
  BY DEF Todo, Drain, Once
<1>9. \A r : Drain # <<"place", r>> /\ Drain # <<"dispatch", r>>
  BY DEF Drain
<1>10. /\ todo' \in Seq(Todo) /\ Single(todo')
       /\ \A y : y # Drain => (Has(todo', y) <=> Has(rest, y))
  <2>1. CASE todo' = rest
    BY <2>1
  <2>2. CASE todo' = Append(rest, Drain)
    <3>1. /\ Append(rest, Drain) \in Seq(Todo)
          /\ \A y : Has(Append(rest, Drain), y) <=> Has(rest, y) \/ y = Drain
          /\ Single(rest) /\ (Drain[1] \in Once => ~Has(rest, Drain)) => Single(Append(rest, Drain))
      BY ONLY <1>8, Later, rest \in Seq(Todo)
    <3> QED BY <2>2, <3>1, <1>8
  <2> QED BY <1>1, <2>1, <2>2
<1>11. \A r : (Placed(r)' <=> Has(rest, <<"place", r>>)) /\ (Called(r)' <=> Has(rest, <<"dispatch", r>>))
  BY <1>9, <1>10, Asked
<1> QED BY <1>1, <1>2, <1>5, <1>6, <1>7, <1>10, <1>11

(* The active run is over, and the queued runs S with it.                    *)
LEMMA OwnEnds ==
  ASSUME Inv, NEW r \in Run, phase = "up", UNCHANGED <<phase, of, job>>, active # None, ~Live(r)',
         NEW S, NEW st \in {"succeeded", "ended"},
         status'[r] = IF (r \in S \/ Live(r)) /\ status[r] \in Open THEN st ELSE status[r],
         Placed(r)' <=> Placed(r), Called(r)' => Called(r),
         r \in S => InQueue(r), InQueue(r)' <=> InQueue(r) /\ r \notin S,
         Waits(r)' => Waits(r), Runs(r)' => Runs(r),
         Waits(r)' /\ Runs(r)' => room'.abort # "none", Runs(r)' => ~Ending(r)',
         r \in past' => ~Runs(r)' /\ (r \in past \/ (Runs(r) /\ room.abort = "none"))
  PROVE  Own(r)'
PROOF
<1>1. Own(r)
  BY DEF Inv
<1>2. Somewhere(r)'
  BY <1>1 DEF Own, Somewhere
<1>3. Unstarted(r)'
  BY <1>1 DEF Own, Unstarted, Working, Somewhere, At
<1>4. Working(r)'
  BY <1>1 DEF Own, Working
<1>5. Recorded(r)'
  <2>1. status'[r] \notin {"none", "pending"} <=> status[r] \notin {"none"} /\ (status[r] = "pending" => r \in S \/ Live(r))
    BY DEF Open
  <2>2. status'[r] = "none" <=> status[r] = "none"
    BY DEF Open
  <2>3. status'[r] = "gone" <=> status[r] = "gone"
    BY DEF Open
  <2>4. status'[r] \in Open <=> status[r] \in Open /\ r \notin S /\ ~Live(r)
    BY DEF Open
  <2>5. status'[r] = "running" <=> status[r] = "running" /\ r \notin S /\ ~Live(r)
    BY DEF Open
  <2> QED BY <1>1, <2>1, <2>2, <2>3, <2>4, <2>5 DEF Own, Recorded, Working, Somewhere, At
<1> QED BY <1>2, <1>3, <1>4, <1>5 DEF Own

(* The active run is over, alone.                                           *)
LEMMA OwnEndsAlone ==
  ASSUME Inv, NEW r \in Run, phase = "up", UNCHANGED <<phase, of, job>>, active # None, ~Live(r)',
         NEW st \in {"succeeded", "ended"},
         status'[r] = IF Live(r) /\ status[r] \in Open THEN st ELSE status[r],
         Placed(r)' <=> Placed(r), Called(r)' => Called(r), InQueue(r)' <=> InQueue(r),
         Waits(r)' => Waits(r), Runs(r)' => Runs(r),
         Waits(r)' /\ Runs(r)' => room'.abort # "none", Runs(r)' => ~Ending(r)',
         r \in past' => ~Runs(r)' /\ (r \in past \/ (Runs(r) /\ room.abort = "none"))
  PROVE  Own(r)'
PROOF
<1> DEFINE S == {}
<1>1. r \notin S
  OBVIOUS
<1> HIDE DEF S
<1>2. /\ status'[r] = IF (r \in S \/ Live(r)) /\ status[r] \in Open THEN st ELSE status[r]
      /\ r \in S => InQueue(r)
      /\ InQueue(r)' <=> InQueue(r) /\ r \notin S
  BY <1>1
<1> QED BY <1>2, OwnEnds

LEMMA BeginFacts ==
  ASSUME Types, NEW q \in Run, NEW ended, ended \subseteq [run : Run, ok : BOOLEAN], Begin(q, ended)
  PROVE  /\ room' \in Turn /\ room' \notin {None, Other} /\ room'.abort = "none"
         /\ \A r : Runs(r)' <=> r = q
         /\ active' \in Active \cup {None} /\ (active' = None <=> active = None)
         /\ \A r : Live(r)' <=> Live(r)
         /\ Live(q) => active'.at = "sent"
         /\ ~Live(q) => active' = active
         /\ status' \in [Run -> Status]
         /\ \A r \in Run : status'[r] = IF r = q /\ Live(q) /\ status[q] # "gone" THEN "running" ELSE status[r]
         /\ settling' \subseteq [run : Run, ok : BOOLEAN] /\ ~Ending(q)'
         /\ \A r : Ending(r)' => Ending(r) \/ \E s \in ended : s.run = r
PROOF
<1>1. /\ room' = [run |-> q, abort |-> "none", requeued |-> FALSE, stale |-> FALSE]
      /\ active' = IF Live(q) THEN [active EXCEPT !.at = "sent"] ELSE active
      /\ status' = IF Live(q) /\ status[q] # "gone" THEN [status EXCEPT ![q] = "running"] ELSE status
      /\ settling' = {s \in settling \cup ended : s.run # q}
  BY DEF Begin
<1>2. room' \in Turn /\ room'.abort = "none" /\ room'.run = q
  BY <1>1 DEF Turn
<1>3. room' \notin {None, Other}
  BY <1>2, NoneAssumption
<1>4. \A r : Runs(r)' <=> r = q
  BY <1>2, <1>3 DEF Runs
<1>5. /\ active' \in Active \cup {None} /\ (active' = None <=> active = None)
      /\ \A r : Live(r)' <=> Live(r)
      /\ Live(q) => active'.at = "sent"
      /\ ~Live(q) => active' = active
  <2>1. CASE Live(q)
    <3>1. active \in Active /\ active # None
      BY <2>1, TypeFacts
    <3>2. active' = [active EXCEPT !.at = "sent"]
      BY <1>1, <2>1
    <3>3. active' \in Active /\ active'.run = active.run /\ active'.at = "sent"
      BY <3>1, <3>2 DEF Active
    <3>4. active' # None
      BY <3>3, NoneAssumption
    <3> QED BY <2>1, <3>1, <3>3, <3>4 DEF Live
  <2>2. CASE ~Live(q)
    <3>1. active' = active
      BY <1>1, <2>2
    <3>2. active \in Active \cup {None}
      BY DEF Types, TypeOK
    <3> QED BY <2>2, <3>1, <3>2 DEF Live
  <2> QED BY <2>1, <2>2
<1>6. /\ status' \in [Run -> Status]
      /\ \A r \in Run : status'[r] = IF r = q /\ Live(q) /\ status[q] # "gone" THEN "running" ELSE status[r]
  <2>1. status \in [Run -> Status] /\ "running" \in Status
    BY TypeFacts DEF Status, Open
  <2> QED BY <1>1, <2>1
<1>7. /\ settling' \subseteq [run : Run, ok : BOOLEAN] /\ ~Ending(q)'
      /\ \A r : Ending(r)' => Ending(r) \/ \E s \in ended : s.run = r
  BY <1>1 DEF Types, Ending
<1> QED BY <1>2, <1>3, <1>4, <1>5, <1>6, <1>7

(* The turn of run q starts.                                                *)
LEMMA OwnBegins ==
  ASSUME Inv, phase # "down", NEW q \in Run, NEW ended, ended \subseteq [run : Run, ok : BOOLEAN],
         Begin(q, ended), UNCHANGED <<phase, of, job, queue>>,
         status[q] # "none", ~Placed(q), ~InQueue(q), q \notin past', ~Waits(q)', ~Called(q)',
         NEW r \in Run, Placed(r)' <=> Placed(r), Called(r)' => Called(r), Waits(r)' => Waits(r),
         r \in past' => r \in past \/ (Runs(r) /\ room.abort = "none")
  PROVE  Own(r)'
PROOF
<1>1. Own(r) /\ Own(q) /\ Types
  BY DEF Inv
<1>2. /\ Runs(r)' <=> r = q
      /\ Live(r)' <=> Live(r)
      /\ Live(q) => active'.at = "sent"
      /\ ~Live(q) => active' = active
      /\ status'[r] = IF r = q /\ Live(q) /\ status[q] # "gone" THEN "running" ELSE status[r]
      /\ ~Ending(q)'
  BY <1>1, BeginFacts
<1>3. InQueue(r)' <=> InQueue(r)
  BY Frames
<1>4. CASE r = q
  <2>1. status[r] # "gone" /\ Live(r) => status[r] \in Open
    BY <1>1, <1>4 DEF Own, Recorded
  <2>2. status[r] \in Open => Live(r)
    BY <1>1, <1>4 DEF Own, Recorded
  <2>3. Somewhere(r)' /\ Unstarted(r)' /\ Working(r)'
    BY <1>2, <1>3, <1>4 DEF Somewhere, Unstarted, Working, At
  <2>4. Recorded(r)'
    BY <1>1, <1>2, <1>3, <1>4, <2>1, <2>2 DEF Own, Recorded, At, Open
  <2> QED BY <2>3, <2>4 DEF Own
<1>5. CASE r # q
  <2>1. Live(r) => active' = active
    BY <1>2, <1>5 DEF Live
  <2>2. status'[r] = status[r] /\ ~Runs(r)'
    BY <1>2, <1>5
  <2>3. Somewhere(r)'
    BY <1>1, <1>2, <1>3, <2>1 DEF Own, Somewhere
  <2>4. Unstarted(r)'
    BY <1>1, <1>2, <1>3, <2>1, <2>2 DEF Own, Unstarted, At
  <2>5. Working(r)'
    BY <1>1, <2>2 DEF Own, Working
  <2>6. Recorded(r)'
    BY <1>1, <1>2, <1>3, <2>1, <2>2 DEF Own, Recorded, At
  <2> QED BY <2>3, <2>4, <2>5, <2>6 DEF Own
<1> QED BY <1>4, <1>5

(* A step that takes nothing from the scheduler's memory and the room.       *)
LEMMA OwnSame ==
  ASSUME Inv, NEW r \in Run, UNCHANGED <<phase, active, queue, waiting, room, settling, past>>,
         status'[r] = status[r], of'[r] = of[r],
         Placed(r)' <=> Placed(r), Called(r)' => Called(r),
         status[r] # "none" /\ job'[of[r]] = "gone" => job[of[r]] = "gone"
  PROVE  Own(r)'
PROOF
<1>1. Own(r)
  BY DEF Inv
<1>2. /\ InQueue(r)' <=> InQueue(r)
      /\ Live(r)' <=> Live(r)
      /\ Waits(r)' <=> Waits(r)
      /\ Runs(r)' <=> Runs(r)
      /\ Ending(r)' <=> Ending(r)
  BY Frames
<1>3. Somewhere(r)' /\ Unstarted(r)' /\ Working(r)'
  BY <1>1, <1>2 DEF Own, Somewhere, Unstarted, Working, At
<1>4. Recorded(r)'
  BY <1>1, <1>2 DEF Own, Recorded, At
<1> QED BY <1>3, <1>4 DEF Own

(* The head of a callback replaced by steps that place and call nobody.      *)
LEMMA Neutral ==
  /\ \A x \in {Drain, Tick, Claim} : x \in Todo /\ x[1] \notin Once
  /\ \A x \in {Drain, Tick, Claim}, r \in Run : x # <<"place", r>> /\ x # <<"dispatch", r>>
  /\ \A j \in Job, r \in Run : <<"cancel", j>> # <<"place", r>> /\ <<"cancel", j>> # <<"dispatch", r>>
  /\ \A j \in Job : <<"cancel", j>> \in Todo
  /\ \A r \in Run : <<"place", r>> \in Todo /\ <<"dispatch", r>> \in Todo
PROOF
  BY DEF Drain, Tick, Claim, Todo, Once

LEMMA OneTodo ==
  ASSUME NEW x \in {Drain, Tick, Claim}, todo = <<>>, todo' = <<x>>
  PROVE  /\ todo' \in Seq(Todo) /\ Single(todo')
         /\ \A r \in Run : (Placed(r)' <=> Placed(r)) /\ (Called(r)' <=> Called(r))
PROOF
<1>1. todo' \in Seq(Todo)
  BY Neutral
<1>2. Single(<<x>>) /\ (\A y : Has(<<x>>, y) <=> y = x) /\ \A y : ~Has(<<>>, y)
  BY OneStep, Zenon
<1>3. \A r \in Run : ~Has(<<x>>, <<"place", r>>) /\ ~Has(<<x>>, <<"dispatch", r>>)
  BY <1>2, Neutral
<1>4. \A r \in Run : ~Placed(r) /\ ~Called(r)
  BY <1>2 DEF Placed, Called
<1> QED BY <1>1, <1>2, <1>3, <1>4, Asked

LEMMA NoStep == <<>> \in Seq(Todo) /\ Single(<<>>) /\ \A y : ~Has(<<>>, y)
PROOF
<1>1. <<>> \in Seq(Todo) /\ DOMAIN <<>> = {}
  OBVIOUS
<1> QED BY <1>1 DEF Single, Has

LEMMA PollKeeps == Inv /\ Poll => Inv'
PROOF
<1> SUFFICES ASSUME Inv, Poll PROVE Inv'
  OBVIOUS
<1>1. todo = <<>> /\ todo' = <<Tick>> /\ phase = "up" /\ UNCHANGED <<table, rows, agent, phase, memory, slot, count>>
  BY DEF Poll, Up
<1>2. /\ todo' \in Seq(Todo) /\ Single(todo')
      /\ \A r \in Run : (Placed(r)' <=> Placed(r)) /\ (Called(r)' <=> Called(r))
  BY <1>1, OneTodo
<1>3. Types'
  BY <1>1, <1>2 DEF Inv, Types, TypeOK, table, rows, memory, slot
<1>4. Numbered' /\ Withdrawn'
  BY <1>1, Counted DEF table, rows
<1>5. Distinct'
  BY <1>1, <1>2 DEF Inv, Distinct, memory, slot
<1>6. Halted'
  BY <1>1 DEF Inv, Halted
<1>7. \A r \in Run : Own(r)'
  BY <1>1, <1>2, OwnSame DEF table, rows, memory, slot
<1> QED BY <1>3, <1>4, <1>5, <1>6, <1>7 DEF Inv

(* A finite set in some order.                                              *)
LEMMA OrderFacts ==
  ASSUME NEW S, IsFiniteSet(S), NEW o \in SetToSeqs(S)
  PROVE  /\ Cardinality(S) \in Nat /\ o \in [1..Cardinality(S) -> S]
         /\ \A i, k \in 1..Cardinality(S) : i # k => o[i] # o[k]
         /\ \A x \in S : \E i \in 1..Cardinality(S) : o[i] = x
PROOF
<1> DEFINE n == Cardinality(S)
           D == 1..n
<1>1. n \in Nat
  BY FS_CardinalityType
<1>2. o \in [D -> S] /\ \A i, k \in D : i # k => o[i] # o[k]
  BY Zenon DEF SetToSeqs
<1>3. IsFiniteSet(D) /\ Cardinality(D) = n
  <2>1. 1 \in Int /\ n \in Int
    BY <1>1
  <2>2. IsFiniteSet(1..n) /\ Cardinality(1..n) = IF 1 > n THEN 0 ELSE n - 1 + 1
    BY <2>1, FS_Interval
  <2> QED BY <1>1, <2>2
<1>4. o \in Injection(D, S)
  BY <1>2 DEF Injection, IsInjective
<1> HIDE DEF n, D
<1>5. o \in Surjection(D, S)
  BY <1>3, <1>4, FS_Injection DEF n
<1>6. \A x \in S : \E i \in D : o[i] = x
  BY <1>5 DEF Surjection
<1> QED BY <1>1, <1>2, <1>6 DEF n, D

LEMMA RunsFinite ==
  /\ \A S \in SUBSET Run : IsFiniteSet(S)
  /\ \A S \in SUBSET Job : IsFiniteSet(S) /\ Cardinality(S) \in Nat
PROOF
<1>1. IsFiniteSet(Run)
  <2>1. 1 \in Int /\ MaxRuns \in Int
    OBVIOUS
  <2>2. IsFiniteSet(1..MaxRuns)
    BY <2>1, FS_Interval
  <2> QED BY <2>2 DEF Run
<1>2. \A S \in SUBSET Run : IsFiniteSet(S)
  BY <1>1, FS_Subset
<1>3. \A S \in SUBSET Job : IsFiniteSet(S)
  BY FS_Subset
<1>4. \A S \in SUBSET Job : Cardinality(S) \in Nat
  BY <1>3, FS_CardinalityType
<1> QED BY <1>2, <1>3, <1>4

(* Runs P, in some order, are placed before the steps t.                     *)
LEMMA PlacesFirst ==
  ASSUME NEW n \in Nat, NEW P \in SUBSET Run, NEW o \in [1..n -> P],
         \A i, k \in 1..n : i # k => o[i] # o[k], \A x \in P : \E i \in 1..n : o[i] = x,
         NEW t \in Seq(Todo), Single(t), \A r \in P : ~Has(t, <<"place", r>>),
         todo' = Do("place", o) \o t
  PROVE  /\ todo' \in Seq(Todo) /\ Single(todo')
         /\ \A r : (Placed(r)' <=> r \in P \/ Has(t, <<"place", r>>)) /\ (Called(r)' <=> Has(t, <<"dispatch", r>>))
PROOF
<1> DEFINE d == Do("place", o)
<1>1. \A s \in P : <<"place", s>> \in Todo
  BY Neutral
<1>2. d \in Seq(Todo) /\ Single(d) /\ \A y : Has(d, y) <=> \E i \in 1..n : y = <<"place", o[i]>>
  <2>1. /\ \A X : (\A s \in P : <<"place", s>> \in X) => d \in Seq(X)
        /\ \A y : Has(d, y) <=> \E i \in 1..n : y = <<"place", o[i]>>
        /\ (\A i, k \in 1..n : i # k => o[i] # o[k]) \/ "place" \notin Once => Single(d)
    BY DoFacts, Zenon
  <2> HIDE DEF d
  <2> QED BY <1>1, <2>1, Zenon
<1> HIDE DEF d
<1>3. \A y : Has(d, y) => \E r \in P : y = <<"place", r>>
  BY <1>2
<1>4. ASSUME NEW r PROVE Has(d, <<"place", r>>) <=> r \in P
  <2>1. Has(d, <<"place", r>>) <=> \E i \in 1..n : <<"place", r>> = <<"place", o[i]>>
    BY <1>2, Zenon
  <2>2. \A i \in 1..n : <<"place", r>> = <<"place", o[i]>> <=> r = o[i]
    OBVIOUS
  <2> QED BY <2>1, <2>2
<1>5. \A r : ~Has(d, <<"dispatch", r>>)
  BY <1>3
<1>6. \A y : ~(Has(d, y) /\ Has(t, y))
  BY <1>3
<1>7. d \o t \in Seq(Todo) /\ Single(d \o t) /\ \A y : Has(d \o t, y) <=> Has(d, y) \/ Has(t, y)
  BY ONLY <1>2, <1>6, InTurn, t \in Seq(Todo), Single(t)
<1>8. todo' = d \o t
  BY DEF d
<1>9. \A r : /\ (Placed(r)' <=> Has(d, <<"place", r>>) \/ Has(t, <<"place", r>>))
             /\ (Called(r)' <=> Has(d, <<"dispatch", r>>) \/ Has(t, <<"dispatch", r>>))
  <2>1. \A r : (Placed(r)' <=> Has(todo', <<"place", r>>)) /\ (Called(r)' <=> Has(todo', <<"dispatch", r>>))
    BY Asked, Zenon
  <2>2. \A y : Has(todo', y) <=> Has(d, y) \/ Has(t, y)
    BY <1>7, <1>8
  <2> QED BY <2>1, <2>2
<1>10. \A r : Has(d, <<"place", r>>) <=> r \in P
  BY <1>4
<1>11. todo' \in Seq(Todo) /\ Single(todo')
  BY <1>7, <1>8
<1> QED BY <1>5, <1>9, <1>10, <1>11, Zenon

LEMMA StartKeeps == Inv /\ Start => Inv'
PROOF
<1> SUFFICES ASSUME Inv, Start PROVE Inv'
  OBVIOUS
<1> DEFINE P == {r \in Run : status[r] = "pending"}
           R == {r \in Run : status[r] = "running"}
<1>1. /\ phase = "down" /\ phase' = "up" /\ status' = Closed(R, "interrupted")
      /\ \E o \in SetToSeqs(P) : todo' = Do("place", o) \o <<Tick>>
      /\ UNCHANGED <<table, successes, agent, memory, slot, count>>
  BY DEF Start
<1>2. UNCHANGED <<job, asked, kills, of, active, queue, rotating, bypass, room, human, waiting, settling, past>>
  BY <1>1 DEF table, memory, slot
<1>3. PICK o \in SetToSeqs(P) : todo' = Do("place", o) \o <<Tick>>
  BY <1>1
<1>4. P \in SUBSET Run /\ R \in SUBSET Run
  OBVIOUS
<1>5. /\ Cardinality(P) \in Nat /\ o \in [1..Cardinality(P) -> P]
      /\ \A i, k \in 1..Cardinality(P) : i # k => o[i] # o[k]
      /\ \A x \in P : \E i \in 1..Cardinality(P) : o[i] = x
  <2>1. IsFiniteSet(P)
    BY <1>4, RunsFinite
  <2> HIDE DEF P
  <2> QED BY <2>1, OrderFacts
<1>6. <<Tick>> \in Seq(Todo) /\ Single(<<Tick>>) /\ \A r : ~Has(<<Tick>>, <<"place", r>>) /\ ~Has(<<Tick>>, <<"dispatch", r>>)
  <2>1. Tick \in Todo
    BY Neutral
  <2>2. \A r : Tick # <<"place", r>> /\ Tick # <<"dispatch", r>>
    BY DEF Tick
  <2>3. Single(<<Tick>>) /\ \A y : Has(<<Tick>>, y) <=> y = Tick
    BY OneStep, Zenon
  <2> QED BY <2>1, <2>2, <2>3
<1>7. \A r : (r \in P <=> r \in Run /\ status[r] = "pending") /\ (r \in R <=> r \in Run /\ status[r] = "running")
  OBVIOUS
<1> HIDE DEF P, R
<1>8. /\ todo' \in Seq(Todo) /\ Single(todo')
      /\ \A r : (Placed(r)' <=> r \in P) /\ ~Called(r)'
  BY ONLY <1>3, <1>4, <1>5, <1>6, PlacesFirst
<1>9. /\ status' \in [Run -> Status]
      /\ \A r \in Run : status'[r] = IF r \in R /\ status[r] \in Open THEN "interrupted" ELSE status[r]
      /\ \A r \in Run : status'[r] = "none" <=> status[r] = "none"
  <2>1. status \in [Run -> Status] /\ "interrupted" \in Status \ {"none"}
    BY TypeFacts DEF Inv, Status
  <2> QED BY <1>1, <2>1, ClosedFacts
<1>10. Types'
  BY <1>1, <1>2, <1>8, <1>9 DEF Inv, Types, TypeOK
<1>11. Numbered' /\ Withdrawn'
  BY <1>2, <1>9, Counted
<1>12. Distinct'
  BY <1>2, <1>8 DEF Inv, Distinct
<1>13. Halted'
  BY <1>1 DEF Halted
<1>14. ASSUME NEW r \in Run PROVE Own(r)'
  <2>1. Own(r) /\ Halted
    BY DEF Inv
  <2>2. ~InQueue(r) /\ ~Live(r) /\ ~Waits(r) /\ ~Runs(r) /\ ~Ending(r)
    BY <1>1, <2>1, NoneNamed, Asked DEF Halted, Live, Runs, Ending, InQueue
  <2>3. ~InQueue(r)' /\ ~Live(r)' /\ ~Waits(r)' /\ ~Runs(r)' /\ ~Ending(r)'
    BY <1>2, <2>2, Frames
  <2>4. r \in past => status[r] \notin {"none", "pending"}
    BY <2>1 DEF Own, Recorded
  <2>5. (Placed(r)' <=> status[r] = "pending") /\ ~Called(r)'
    BY <1>7, <1>8
  <2>6. status'[r] = IF status[r] = "running" THEN "interrupted" ELSE status[r]
    BY <1>7, <1>9 DEF Open
  <2>7. Somewhere(r)' /\ Unstarted(r)' /\ Working(r)'
    BY <1>2, <2>3, <2>4, <2>5 DEF Somewhere, Unstarted, Working, At
  <2>8. Recorded(r)'
    BY <1>2, <2>1, <2>3, <2>4, <2>5, <2>6 DEF Own, Recorded, Open, At
  <2> QED BY <2>7, <2>8 DEF Own
<1> QED BY <1>10, <1>11, <1>12, <1>13, <1>14 DEF Inv

LEMMA TakeKillsKeeps == Inv /\ TakeKills => Inv'
PROOF
<1> SUFFICES ASSUME Inv, TakeKills PROVE Inv'
  OBVIOUS
<1>1. /\ Due("tick") /\ kills' = {}
      /\ \E o \in SetToSeqs(kills) : todo' = Do("cancel", o) \o <<Claim>> \o Rest
      /\ UNCHANGED <<job, asked, of, rows, agent, phase, memory, slot, count>>
  BY DEF TakeKills
<1>2. UNCHANGED <<job, asked, of, status, successes, agent, phase, active, queue, rotating, bypass,
                  room, human, waiting, settling, past>>
  BY <1>1 DEF rows, memory, slot
<1>3. PICK o \in SetToSeqs(kills) : todo' = Do("cancel", o) \o <<Claim>> \o Rest
  BY <1>1
<1>4. kills \in SUBSET Job
  BY TypeFacts DEF Inv
<1>5. Cardinality(kills) \in Nat /\ o \in [1..Cardinality(kills) -> kills]
  <2>1. IsFiniteSet(kills)
    BY <1>4, RunsFinite
  <2> QED BY <2>1, OrderFacts
<1>6. /\ phase = "up" /\ Rest \in Seq(Todo) /\ Single(Rest)
      /\ \A r : (Has(Rest, <<"place", r>>) <=> Placed(r)) /\ (Has(Rest, <<"dispatch", r>>) <=> Called(r))
  <2>1. "tick" \notin Once
    BY DEF Once
  <2> QED BY <1>1, <2>1, DueFacts
<1> DEFINE c == Do("cancel", o)
<1>7. /\ c \in Seq(Todo) /\ Single(c)
      /\ \A y : Has(c, y) => y[1] = "cancel"
  <2>1. \A s \in kills : <<"cancel", s>> \in Todo
    BY <1>4, Neutral
  <2>2. "cancel" \notin Once
    BY DEF Once
  <2>3. PICK n \in Nat : o \in [1..n -> kills]
    BY <1>5
  <2>4. /\ \A X : (\A s \in kills : <<"cancel", s>> \in X) => c \in Seq(X)
        /\ \A y : Has(c, y) <=> \E i \in 1..n : y = <<"cancel", o[i]>>
        /\ (\A i, k \in 1..n : i # k => o[i] # o[k]) \/ "cancel" \notin Once => Single(c)
    BY ONLY <2>3, DoFacts
  <2> HIDE DEF c
  <2>5. c \in Seq(Todo)
    BY <2>1, <2>4, Zenon
  <2>6. Single(c)
    BY <2>2, <2>4, Zenon
  <2>7. \A y : Has(c, y) => y[1] = "cancel"
    BY <2>4
  <2> QED BY <2>5, <2>6, <2>7
<1> HIDE DEF c
<1>8. Claim \in Todo /\ Claim[1] \notin Once /\ \A r : Claim # <<"place", r>> /\ Claim # <<"dispatch", r>>
  BY DEF Claim, Todo, Once
<1>9. /\ Append(c, Claim) \in Seq(Todo) /\ Single(Append(c, Claim))
      /\ \A y : Has(Append(c, Claim), y) <=> Has(c, y) \/ y = Claim
  BY ONLY <1>7, <1>8, Later
<1> DEFINE d == c \o <<Claim>>
<1>10. d = Append(c, Claim)
  BY <1>7, <1>8
<1> HIDE DEF d
<1>11. \A y : Has(d, y) => y[1] \notin Once
  BY <1>7, <1>8, <1>9, <1>10 DEF Once
<1>12. /\ d \o Rest \in Seq(Todo) /\ Single(d \o Rest)
       /\ \A y : Has(d \o Rest, y) <=> Has(d, y) \/ Has(Rest, y)
  BY ONLY <1>6, <1>9, <1>10, <1>11, InTurn
<1>13. todo' = d \o Rest
  BY <1>3 DEF c, d
<1>14. \A r : ~Has(d, <<"place", r>>) /\ ~Has(d, <<"dispatch", r>>)
  BY <1>11 DEF Once
<1>15. /\ todo' \in Seq(Todo) /\ Single(todo')
       /\ \A r : (Placed(r)' <=> Placed(r)) /\ (Called(r)' <=> Called(r))
  BY <1>6, <1>12, <1>13, <1>14, Asked
<1>16. Types'
  BY <1>1, <1>2, <1>15 DEF Inv, Types, TypeOK
<1>17. Numbered' /\ Withdrawn'
  BY <1>2, Counted
<1>18. Distinct'
  BY <1>2, <1>15 DEF Inv, Distinct
<1>19. Halted'
  BY <1>2, <1>6 DEF Inv, Halted
<1>20. \A r \in Run : Own(r)'
  BY <1>2, <1>15, OwnSame
<1> QED BY <1>16, <1>17, <1>18, <1>19, <1>20 DEF Inv

LEMMA ClaimRunsKeeps == Inv /\ ClaimRuns => Inv'
PROOF
<1> SUFFICES ASSUME Inv, ClaimRuns PROVE Inv'
  OBVIOUS
<1>1. PICK o \in SetToSeqs(Fallen) :
        LET js == asked \o o
            n  == Cardinality(Used)
            rs == [i \in DOMAIN js |-> n + i]
        IN  /\ of' = [r \in Run |-> IF r - n \in DOMAIN js THEN js[r - n] ELSE of[r]]
            /\ status' = [r \in Run |-> IF r - n \in DOMAIN js THEN "pending" ELSE status[r]]
            /\ todo' = Do("place", rs) \o Rest
  BY DEF ClaimRuns
<1>2. /\ Due("claim") /\ asked' = <<>>
      /\ job' = [j \in Job |-> IF job[j] = "due" THEN "on" ELSE job[j]]
      /\ UNCHANGED <<kills, successes, agent, phase, memory, slot, count>>
  BY DEF ClaimRuns
<1>3. UNCHANGED <<kills, successes, agent, phase, active, queue, rotating, bypass, room, human, waiting, settling, past>>
  BY <1>2 DEF memory, slot
<1>4. PICK m \in Nat : Used = 1..m /\ Len(asked) + Cardinality(Fallen) + m <= MaxRuns
  BY DEF Inv, Numbered
<1>5. Cardinality(Used) = m
  <2>1. 1 \in Int /\ m \in Int
    OBVIOUS
  <2>2. Cardinality(1..m) = IF 1 > m THEN 0 ELSE m - 1 + 1
    BY <2>1, FS_Interval
  <2> QED BY <1>4, <2>2
<1>6. Fallen \in SUBSET Job /\ IsFiniteSet(Fallen)
  BY RunsFinite DEF Fallen
<1>7. Cardinality(Fallen) \in Nat /\ o \in [1..Cardinality(Fallen) -> Fallen]
  BY <1>6, OrderFacts
<1>8. asked \in Seq(Job) /\ job \in [Job -> {"off", "on", "due", "gone"}] /\ of \in [Run -> Job \cup {None}]
      /\ status \in [Run -> Status]
  BY TypeFacts DEF Inv
<1> DEFINE js == asked \o o
           k  == Len(js)
           rs == [i \in 1..k |-> m + i]
           P  == (m + 1)..(m + k)
<1>9. /\ js \in Seq(Job) /\ DOMAIN js = 1..k /\ k \in Nat /\ k = Len(asked) + Cardinality(Fallen)
      /\ \A i \in DOMAIN js : js[i] \in Job /\ job[js[i]] # "gone"
  <2>1. o \in Seq(Fallen) /\ Len(o) = Cardinality(Fallen) /\ o \in Seq(Job)
    BY <1>6, <1>7
  <2>2. \A i \in DOMAIN asked : asked[i] \in Job /\ job[asked[i]] # "gone"
    BY <1>8 DEF Inv, Withdrawn
  <2>3. \A i \in DOMAIN o : o[i] \in Job /\ job[o[i]] # "gone"
    BY <1>7 DEF Fallen
  <2>4. js \in Seq(Job) /\ DOMAIN js = 1..k /\ k \in Nat /\ k = Len(asked) + Cardinality(Fallen)
    <3>1. asked \in Seq(Job) /\ o \in Seq(Job)
      BY <1>8, <2>1
    <3>2. js \in Seq(Job) /\ Len(js) = Len(asked) + Len(o)
      BY ONLY <3>1
    <3> HIDE DEF js
    <3>3. DOMAIN js = 1..Len(js) /\ Len(js) \in Nat
      BY ONLY <3>2
    <3> QED BY <2>1, <3>2, <3>3
  <2>5. \A i \in 1..k : \/ i \in DOMAIN asked /\ js[i] = asked[i]
                        \/ i - Len(asked) \in DOMAIN o /\ js[i] = o[i - Len(asked)]
    BY <1>8, <2>1
  <2> HIDE DEF js, k
  <2> QED BY <2>2, <2>3, <2>4, <2>5
<1>10. /\ of' = [r \in Run |-> IF r - m \in DOMAIN js THEN js[r - m] ELSE of[r]]
       /\ status' = [r \in Run |-> IF r - m \in DOMAIN js THEN "pending" ELSE status[r]]
       /\ todo' = Do("place", rs) \o Rest
  BY <1>1, <1>5, <1>9
<1> HIDE DEF js, k
<1>11. P \in SUBSET Run
  BY <1>4, <1>9 DEF Run
<1>12. /\ rs \in [1..k -> P] /\ \A x \in P : x - m \in 1..k /\ rs[x - m] = x
       /\ \A i, l \in 1..k : i # l => rs[i] # rs[l]
  BY <1>9
<1>13. \A r \in Run : r - m \in DOMAIN js <=> r \in P
  BY <1>9 DEF Run
<1> HIDE DEF rs, P
<1>14. /\ of' \in [Run -> Job \cup {None}] /\ status' \in [Run -> Status]
       /\ \A r \in P : of'[r] \in Job /\ job[of'[r]] # "gone" /\ status'[r] = "pending"
       /\ \A r \in Run \ P : of'[r] = of[r] /\ status'[r] = status[r]
  <2>1. "pending" \in Status
    BY DEF Status, Open
  <2> QED BY <1>8, <1>9, <1>10, <1>11, <1>13, <2>1
<1>15. /\ job' \in [Job -> {"off", "on", "due", "gone"}]
       /\ \A j \in Job : (job'[j] = "gone" <=> job[j] = "gone") /\ job'[j] # "due"
  BY <1>2, <1>8
<1>16. \A r \in P : status[r] = "none"
  <2>1. \A r \in P : r \notin 1..m
    BY DEF P
  <2> QED BY <1>4, <1>11, <2>1 DEF Used
<1>17. \A r \in P : ~Placed(r) /\ ~Called(r) /\ ~InQueue(r) /\ ~Live(r) /\ ~Waits(r) /\ ~Runs(r) /\ r \notin past
  BY <1>11, <1>16 DEF Inv, Own, Recorded
<1>18. /\ phase = "up" /\ Rest \in Seq(Todo) /\ Single(Rest)
       /\ \A r : (Has(Rest, <<"place", r>>) <=> Placed(r)) /\ (Has(Rest, <<"dispatch", r>>) <=> Called(r))
  <2>1. "claim" \notin Once
    BY DEF Once
  <2> QED BY <1>2, <2>1, DueFacts
<1>19. /\ todo' \in Seq(Todo) /\ Single(todo')
       /\ \A r : (Placed(r)' <=> r \in P \/ Placed(r)) /\ (Called(r)' <=> Called(r))
  <2>1. \A r \in P : ~Has(Rest, <<"place", r>>)
    BY <1>17, <1>18
  <2>2. \A x \in P : \E i \in 1..k : rs[i] = x
    BY <1>12
  <2>3. /\ todo' \in Seq(Todo) /\ Single(todo')
        /\ \A r : (Placed(r)' <=> r \in P \/ Has(Rest, <<"place", r>>))
                  /\ (Called(r)' <=> Has(Rest, <<"dispatch", r>>))
    BY ONLY <1>9, <1>10, <1>11, <1>12, <1>18, <2>1, <2>2, PlacesFirst
  <2> QED BY <1>18, <2>3
<1>20. Types'
  BY <1>2, <1>3, <1>14, <1>15, <1>19 DEF Inv, Types, TypeOK
<1>21. Numbered'
  <2>1. Used' = 1..(m + k)
    <3>1. \A r \in Run : status[r] # "none" <=> r \in 1..m
      BY <1>4 DEF Used
    <3>2. \A r \in Run : status'[r] # "none" <=> r \in 1..m \/ r \in P
      BY <1>14, <1>16, <3>1
    <3>3. 1..(m + k) \subseteq Run
      BY <1>4, <1>9 DEF Run
    <3>4. \A r \in Run : r \in 1..(m + k) <=> r \in 1..m \/ r \in P
      BY <1>9 DEF Run, P
    <3> QED BY <3>2, <3>3, <3>4 DEF Used
  <2>2. Fallen' = {}
    BY <1>15 DEF Fallen
  <2>3. Cardinality({}) = 0
    BY FS_EmptySet
  <2>4. Len(asked') = 0
    BY <1>2
  <2>5. m + k \in Nat /\ 0 + 0 + (m + k) <= MaxRuns
    BY <1>4, <1>7, <1>8, <1>9
  <2> QED BY <2>1, <2>2, <2>3, <2>4, <2>5 DEF Numbered
<1>22. Withdrawn'
  BY <1>2 DEF Withdrawn
<1>23. Distinct'
  BY <1>3, <1>19 DEF Inv, Distinct
<1>24. Halted'
  BY <1>3, <1>18 DEF Inv, Halted
<1>25. ASSUME NEW r \in Run PROVE Own(r)'
  <2>1. CASE r \in P
    <3>1. ~InQueue(r)' /\ ~Live(r)' /\ ~Waits(r)' /\ ~Runs(r)' /\ r \notin past'
      BY <1>3, <1>17, <2>1, Frames
    <3>2. Placed(r)' /\ ~Called(r)'
      BY <1>17, <1>19, <2>1
    <3>3. status'[r] = "pending" /\ of'[r] \in Job /\ job'[of'[r]] # "gone"
      BY <1>14, <1>15, <2>1
    <3>4. Somewhere(r)' /\ Unstarted(r)' /\ Working(r)'
      BY <3>1, <3>2 DEF Somewhere, Unstarted, Working, At
    <3>5. Recorded(r)'
      BY <3>1, <3>2, <3>3 DEF Recorded, Open
    <3> QED BY <3>4, <3>5 DEF Own
  <2>2. CASE r \notin P
    <3>1. status[r] # "none" => of[r] \in Job
      BY DEF Inv, Own, Recorded
    <3> QED BY <1>3, <1>14, <1>15, <1>19, <2>2, <3>1, OwnSame
  <2> QED BY <2>1, <2>2
<1> QED BY <1>20, <1>21, <1>22, <1>23, <1>24, <1>25 DEF Inv

(* The steps that take requests and due jobs away.                           *)
LEMMA CountedLess ==
  ASSUME Inv, Len(asked') \in Nat, Len(asked') <= Len(asked), Fallen' \subseteq Fallen,
         \A r \in Run : status'[r] = "none" <=> status[r] = "none"
  PROVE  Numbered'
PROOF
<1>1. Used' = Used
  BY DEF Used
<1>2. PICK n \in Nat : Used = 1..n /\ Len(asked) + Cardinality(Fallen) + n <= MaxRuns
  BY DEF Inv, Numbered
<1>3. Fallen \in SUBSET Job /\ IsFiniteSet(Fallen) /\ Cardinality(Fallen) \in Nat
  BY RunsFinite DEF Fallen
<1>4. Cardinality(Fallen') \in Nat /\ Cardinality(Fallen') <= Cardinality(Fallen)
  <2>1. IsFiniteSet(Fallen') /\ Cardinality(Fallen') <= Cardinality(Fallen)
    BY <1>3, FS_Subset
  <2> QED BY <2>1, FS_CardinalityType
<1>5. Len(asked) \in Nat
  BY TypeFacts DEF Inv
<1>6. Len(asked') + Cardinality(Fallen') + n <= MaxRuns
  BY <1>2, <1>3, <1>4, <1>5
<1> QED BY <1>1, <1>2, <1>6 DEF Numbered

LEMMA PlaceDisabledKeeps == Inv /\ PlaceDisabled => Inv'
PROOF
<1> SUFFICES ASSUME Inv, PlaceDisabled PROVE Inv'
  OBVIOUS
<1>1. /\ Due("place") /\ status' = Closed({Arg}, "ended") /\ todo' = Rest
      /\ job' = [job EXCEPT ![of[Arg]] = IF @ = "gone" THEN @ ELSE "off"]
      /\ UNCHANGED <<asked, kills, of, successes, agent, phase, memory, slot, count>>
  BY DEF PlaceDisabled
<1>2. UNCHANGED <<asked, kills, of, successes, agent, phase, active, queue, rotating, bypass, room, human, waiting, settling, past>>
  BY <1>1 DEF memory, slot
<1>3. /\ phase = "up" /\ Rest \in Seq(Todo) /\ Single(Rest) /\ Arg \in Run /\ Placed(Arg)
      /\ \A r : (Has(Rest, <<"place", r>>) <=> Placed(r) /\ r # Arg)
                /\ (Has(Rest, <<"dispatch", r>>) <=> Called(r))
  BY <1>1, DueFacts
<1>4. \A r : (Placed(r)' <=> Placed(r) /\ r # Arg) /\ (Called(r)' <=> Called(r))
  BY <1>1, <1>3, Asked
<1>5. /\ status' \in [Run -> Status]
      /\ \A r \in Run : status'[r] = IF r \in {Arg} /\ status[r] \in Open THEN "ended" ELSE status[r]
      /\ \A r \in Run : status'[r] = "none" <=> status[r] = "none"
  <2>1. status \in [Run -> Status] /\ "ended" \in Status \ {"none"}
    BY TypeFacts DEF Inv, Status
  <2> QED BY <1>1, <2>1, ClosedFacts
<1>6. job \in [Job -> {"off", "on", "due", "gone"}]
  BY TypeFacts DEF Inv
<1>7. /\ job' \in [Job -> {"off", "on", "due", "gone"}]
      /\ \A j \in Job : (job'[j] = "gone" <=> job[j] = "gone") /\ (job'[j] = "due" => job[j] = "due")
  BY <1>1, <1>6
<1>8. Types'
  BY <1>1, <1>2, <1>3, <1>5, <1>7 DEF Inv, Types, TypeOK
<1>9. Numbered'
  <2>1. Fallen' \subseteq Fallen
    BY <1>7 DEF Fallen
  <2>2. Len(asked') \in Nat /\ Len(asked') <= Len(asked)
    BY <1>2, TypeFacts DEF Inv
  <2> QED BY <1>5, <2>1, <2>2, CountedLess
<1>10. Withdrawn'
  <2>1. asked \in Seq(Job)
    BY TypeFacts DEF Inv
  <2>2. \A i \in DOMAIN asked : asked[i] \in Job
    BY <2>1
  <2> QED BY <1>2, <1>7, <2>2 DEF Inv, Withdrawn
<1>11. Distinct'
  BY <1>1, <1>2, <1>3 DEF Inv, Distinct
<1>12. Halted'
  BY <1>2, <1>3 DEF Inv, Halted
<1>13. ASSUME NEW r \in Run PROVE Own(r)'
  <2>1. Own(r)
    BY DEF Inv
  <2>2. status[r] # "none" /\ job'[of[r]] = "gone" => job[of[r]] = "gone"
    BY <1>7, <2>1 DEF Own, Recorded
  <2>3. CASE r # Arg
    <3>1. status'[r] = status[r] /\ of'[r] = of[r]
      BY <1>2, <1>5, <2>3
    <3>2. (Placed(r)' <=> Placed(r)) /\ (Called(r)' <=> Called(r))
      BY <1>4, <2>3
    <3> QED BY <1>2, <2>2, <3>1, <3>2, OwnSame
  <2>4. CASE r = Arg
    <3>1. ~InQueue(r) /\ ~Live(r) /\ ~Called(r) /\ ~Waits(r) /\ ~Runs(r) /\ r \notin past /\ status[r] # "none"
      BY <1>3, <2>1, <2>4 DEF Own, Somewhere, Unstarted, Recorded
    <3>2. ~InQueue(r)' /\ ~Live(r)' /\ ~Called(r)' /\ ~Waits(r)' /\ ~Runs(r)' /\ r \notin past' /\ ~Placed(r)'
      BY <1>2, <1>4, <2>4, <3>1, Frames
    <3>3. status'[r] \notin Open /\ status'[r] # "none" /\ (status[r] = "gone" => status'[r] = "gone")
      BY <1>5, <2>4, <3>1 DEF Open
    <3>4. Somewhere(r)' /\ Unstarted(r)' /\ Working(r)'
      BY <3>2 DEF Somewhere, Unstarted, Working, At
    <3>5. Recorded(r)'
      BY <1>2, <2>1, <2>2, <3>1, <3>2, <3>3 DEF Own, Recorded, Open
    <3> QED BY <3>4, <3>5 DEF Own
  <2> QED BY <2>3, <2>4
<1> QED BY <1>8, <1>9, <1>10, <1>11, <1>12, <1>13 DEF Inv

LEMMA PlaceBehindKeeps == Inv /\ PlaceBehind => Inv'
PROOF
<1> SUFFICES ASSUME Inv, PlaceBehind PROVE Inv'
  OBVIOUS
<1> DEFINE e == [run |-> Arg, late |-> FALSE]
<1>1. /\ Due("place") /\ queue' = Append(queue, e) /\ todo' = Rest
      /\ rotating' = (rotating \/ active = None)
      /\ UNCHANGED <<table, rows, agent, phase, active, bypass, slot, count>>
  BY DEF PlaceBehind
<1>2. UNCHANGED <<job, asked, kills, of, status, successes, agent, phase, active, bypass, room, human, waiting, settling, past>>
  BY <1>1 DEF table, rows, slot
<1>3. /\ phase = "up" /\ Rest \in Seq(Todo) /\ Single(Rest) /\ Arg \in Run /\ Placed(Arg)
      /\ \A r : (Has(Rest, <<"place", r>>) <=> Placed(r) /\ r # Arg)
                /\ (Has(Rest, <<"dispatch", r>>) <=> Called(r))
  BY <1>1, DueFacts
<1>4. \A r : (Placed(r)' <=> Placed(r) /\ r # Arg) /\ (Called(r)' <=> Called(r))
  BY <1>1, <1>3, Asked
<1>5. e \in Queued /\ e.run = Arg
  BY <1>3 DEF Queued
<1>6. queue \in Seq(Queued) /\ Separate(queue) /\ ~Named(queue, Arg)
  BY <1>3, TypeFacts DEF Inv, Distinct, Own, Somewhere, InQueue
<1> HIDE DEF e
<1>7. /\ queue' \in Seq(Queued) /\ Separate(queue')
      /\ \A r : Named(queue', r) <=> Named(queue, r) \/ r = Arg
  BY <1>1, <1>5, <1>6, Put
<1>8. \A r : InQueue(r)' <=> InQueue(r) \/ r = Arg
  BY <1>7 DEF InQueue
<1>9. Types'
  BY <1>1, <1>2, <1>3, <1>7 DEF Inv, Types, TypeOK
<1>10. Numbered' /\ Withdrawn'
  BY <1>2, Counted
<1>11. Distinct'
  BY <1>1, <1>2, <1>3, <1>7 DEF Inv, Distinct
<1>12. Halted'
  BY <1>2, <1>3 DEF Inv, Halted
<1>13. ASSUME NEW r \in Run PROVE Own(r)'
  <2>1. Own(r)
    BY DEF Inv
  <2>2. /\ Live(r)' <=> Live(r)
        /\ Waits(r)' <=> Waits(r)
        /\ Runs(r)' <=> Runs(r)
        /\ Ending(r)' <=> Ending(r)
    BY <1>2, Frames
  <2>3. /\ Placed(r)' <=> Placed(r) /\ r # Arg
        /\ Called(r)' <=> Called(r)
        /\ InQueue(r)' <=> InQueue(r) \/ r = Arg
        /\ r = Arg => Placed(r)
    BY <1>3, <1>4, <1>8
  <2>4. Somewhere(r)'
    BY <1>2, <2>1, <2>2, <2>3 DEF Own, Somewhere
  <2>5. Unstarted(r)'
    BY <1>2, <2>1, <2>2, <2>3 DEF Own, Unstarted, At
  <2>6. Working(r)'
    BY <1>2, <2>1, <2>2 DEF Own, Working
  <2>7. Recorded(r)'
    BY <1>2, <2>1, <2>2, <2>3 DEF Own, Recorded, At
  <2> QED BY <2>4, <2>5, <2>6, <2>7 DEF Own
<1> QED BY <1>9, <1>10, <1>11, <1>12, <1>13 DEF Inv

LEMMA PlaceFirstKeeps == Inv /\ PlaceFirst => Inv'
PROOF
<1> SUFFICES ASSUME Inv, PlaceFirst PROVE Inv'
  OBVIOUS
<1>1. /\ Due("place") /\ active = None
      /\ bypass' = (bypass /\ successes < RotateEvery)
      /\ active' = [run |-> Arg, at |-> "called"]
      /\ todo' = Append(Rest, <<"dispatch", Arg>>)
      /\ UNCHANGED <<table, rows, agent, phase, queue, rotating, slot, count>>
  BY DEF PlaceFirst
<1>2. UNCHANGED <<job, asked, kills, of, status, successes, agent, phase, queue, rotating, room, human, waiting, settling, past>>
  BY <1>1 DEF table, rows, slot
<1>3. /\ phase = "up" /\ Rest \in Seq(Todo) /\ Single(Rest) /\ Arg \in Run /\ Placed(Arg)
      /\ \A r : (Has(Rest, <<"place", r>>) <=> Placed(r) /\ r # Arg)
                /\ (Has(Rest, <<"dispatch", r>>) <=> Called(r))
  BY <1>1, DueFacts
<1>4. Own(Arg) /\ ~Called(Arg)
  BY <1>3 DEF Inv, Own, Somewhere
<1>5. /\ todo' \in Seq(Todo) /\ Single(todo')
      /\ \A r : (Placed(r)' <=> Placed(r) /\ r # Arg) /\ (Called(r)' <=> Called(r) \/ r = Arg)
  <2> DEFINE x == <<"dispatch", Arg>>
  <2>1. x \in Todo /\ ~Has(Rest, x) /\ \A r : x # <<"place", r>> /\ (x = <<"dispatch", r>> <=> r = Arg)
    BY <1>3, <1>4, Neutral
  <2>2. todo' = Append(Rest, x)
    BY <1>1
  <2> HIDE DEF x
  <2>3. /\ Append(Rest, x) \in Seq(Todo)
        /\ \A y : Has(Append(Rest, x), y) <=> Has(Rest, y) \/ y = x
        /\ Single(Rest) /\ (x[1] \in Once => ~Has(Rest, x)) => Single(Append(Rest, x))
    BY ONLY <1>3, <2>1, Later
  <2>4. \A r : (Placed(r)' <=> Has(todo', <<"place", r>>)) /\ (Called(r)' <=> Has(todo', <<"dispatch", r>>))
    BY Asked, Zenon
  <2> QED BY <1>3, <2>1, <2>2, <2>3, <2>4
<1>6. active' \in Active /\ active'.run = Arg /\ active'.at = "called" /\ active' # None
  <2>1. active' \in Active /\ active'.run = Arg /\ active'.at = "called"
    BY <1>1, <1>3 DEF Active
  <2> QED BY <2>1, NoneAssumption
<1>7. \A r : (Live(r)' <=> r = Arg) /\ ~Live(r)
  BY <1>1, <1>6 DEF Live
<1>8. Types'
  BY <1>1, <1>2, <1>5, <1>6 DEF Inv, Types, TypeOK
<1>9. Numbered' /\ Withdrawn'
  BY <1>2, Counted
<1>10. Distinct'
  BY <1>2, <1>5 DEF Inv, Distinct
<1>11. Halted'
  BY <1>2, <1>3 DEF Inv, Halted
<1>12. ASSUME NEW r \in Run PROVE Own(r)'
  <2>1. Own(r)
    BY DEF Inv
  <2>2. /\ InQueue(r)' <=> InQueue(r)
        /\ Waits(r)' <=> Waits(r)
        /\ Runs(r)' <=> Runs(r)
        /\ Ending(r)' <=> Ending(r)
    BY <1>2, Frames
  <2>3. /\ Placed(r)' <=> Placed(r) /\ r # Arg
        /\ Called(r)' <=> Called(r) \/ r = Arg
        /\ Live(r)' <=> r = Arg
        /\ ~Live(r)
        /\ r = Arg => Placed(r)
    BY <1>3, <1>5, <1>7
  <2>4. Somewhere(r)'
    BY <1>2, <1>6, <2>1, <2>2, <2>3 DEF Own, Somewhere
  <2>5. Unstarted(r)'
    BY <1>2, <1>6, <2>1, <2>2, <2>3 DEF Own, Unstarted, At
  <2>6. Working(r)'
    BY <1>2, <2>1, <2>2 DEF Own, Working
  <2>7. Recorded(r)'
    BY <1>2, <1>3, <1>6, <2>1, <2>2, <2>3 DEF Own, Recorded, At, Open
  <2> QED BY <2>4, <2>5, <2>6, <2>7 DEF Own
<1> QED BY <1>8, <1>9, <1>10, <1>11, <1>12 DEF Inv

LEMMA DrainQueueKeeps == Inv /\ DrainQueue => Inv'
PROOF
<1> SUFFICES ASSUME Inv, DrainQueue PROVE Inv'
  OBVIOUS
<1> DEFINE busy == active # None \/ rotating \/ queue = <<>>
           q    == Head(queue).run
           late == ~busy /\ Head(queue).late
           gone == ~busy /\ job[of[q]] = "gone"
<1>1. /\ Due("drain")
      /\ queue' = IF busy THEN queue ELSE Tail(queue)
      /\ status' = IF late THEN Closed({q}, "ended") ELSE status
      /\ todo' = IF busy THEN Rest ELSE IF late \/ gone THEN todo ELSE <<<<"place", q>>>> \o Rest
      /\ UNCHANGED <<table, successes, agent, phase, active, rotating, bypass, slot, count>>
  BY DEF DrainQueue
<1>2. UNCHANGED <<job, asked, kills, of, successes, agent, phase, active, rotating, bypass, room, human, waiting, settling, past>>
  BY <1>1 DEF table, slot
<1>3. /\ phase = "up" /\ Rest \in Seq(Todo) /\ Single(Rest)
      /\ \A r : (Has(Rest, <<"place", r>>) <=> Placed(r)) /\ (Has(Rest, <<"dispatch", r>>) <=> Called(r))
  <2>1. "drain" \notin Once
    BY DEF Once
  <2> QED BY <1>1, <2>1, DueFacts
<1>4. /\ queue \in Seq(Queued) /\ Separate(queue) /\ todo \in Seq(Todo) /\ Single(todo)
      /\ status \in [Run -> Status]
  BY TypeFacts DEF Inv, Distinct
<1>5. Halted'
  BY <1>2, <1>3 DEF Inv, Halted
<1>6. CASE busy
  <2>1. queue' = queue /\ status' = status /\ todo' = Rest
    BY <1>1, <1>6
  <2>2. \A r : (Placed(r)' <=> Placed(r)) /\ (Called(r)' <=> Called(r))
    BY <1>3, <2>1, Asked
  <2>3. Types'
    BY <1>2, <1>3, <2>1 DEF Inv, Types, TypeOK
  <2>4. Numbered' /\ Withdrawn'
    BY <1>2, <2>1, Counted
  <2>5. Distinct'
    BY <1>2, <1>3, <2>1 DEF Inv, Distinct
  <2>6. \A r \in Run : Own(r)'
    BY <1>2, <2>1, <2>2, OwnSame
  <2> QED BY <1>5, <2>3, <2>4, <2>5, <2>6 DEF Inv
<1>7. CASE ~busy
  <2>1. queue # <<>> /\ active = None /\ queue' = Tail(queue)
    BY <1>1, <1>7
  <2>2. /\ Head(queue) \in Queued /\ queue' \in Seq(Queued)
        /\ \A r : Named(queue, r) <=> r = q \/ Named(queue', r)
        /\ Separate(queue') /\ ~Named(queue', q)
    BY <1>4, <2>1, Taken
  <2>3. q \in Run
    BY <2>2 DEF Queued
  <2>4. \A r : InQueue(r)' <=> InQueue(r) /\ r # q
    BY <2>2 DEF InQueue
  <2>5. InQueue(q) /\ Own(q)
    BY <2>2, <2>3 DEF InQueue, Inv
  <2>6. /\ status' \in [Run -> Status]
        /\ \A r \in Run : status'[r] = "none" <=> status[r] = "none"
        /\ \A r \in Run : r # q \/ ~late => status'[r] = status[r]
        /\ late => status'[q] = IF status[q] \in Open THEN "ended" ELSE status[q]
    <3>1. "ended" \in Status \ {"none"}
      BY DEF Status
    <3>2. CASE late
      <4>1. status' = Closed({q}, "ended")
        BY <1>1, <3>2
      <4>2. /\ Closed({q}, "ended") \in [Run -> Status]
            /\ \A r \in Run : Closed({q}, "ended")[r] = IF r \in {q} /\ status[r] \in Open THEN "ended" ELSE status[r]
            /\ \A r \in Run : Closed({q}, "ended")[r] = "none" <=> status[r] = "none"
        BY ONLY <1>4, <3>1, ClosedFacts
      <4> HIDE DEF q
      <4> QED BY <2>3, <3>2, <4>1, <4>2
    <3>3. CASE ~late
      BY <1>1, <1>4, <3>3
    <3> QED BY <3>2, <3>3
  <2>7. gone => status[q] = "gone"
    BY <2>5 DEF Own, Recorded
  <2>8. /\ todo' \in Seq(Todo) /\ Single(todo')
        /\ \A r : (Placed(r)' <=> Placed(r) \/ (~late /\ ~gone /\ r = q)) /\ (Called(r)' <=> Called(r))
    <3>1. CASE late \/ gone
      <4>1. todo' = todo
        BY <1>1, <1>7, <3>1
      <4> QED BY <1>4, <3>1, <4>1, Frames
    <3>2. CASE ~(late \/ gone)
      <4> DEFINE x == <<"place", q>>
      <4>1. todo' = <<x>> \o Rest
        BY <1>1, <1>7, <3>2
      <4>2. ~Placed(q)
        BY <2>5 DEF Own, Somewhere
      <4>3. x \in Todo /\ ~Has(Rest, x) /\ \A r : x # <<"dispatch", r>> /\ (x = <<"place", r>> <=> r = q)
        BY <1>3, <2>3, <4>2, Neutral
      <4> HIDE DEF x
      <4>4. /\ <<x>> \o Rest \in Seq(Todo)
            /\ \A y : Has(<<x>> \o Rest, y) <=> Has(Rest, y) \/ y = x
            /\ Single(Rest) /\ (x[1] \in Once => ~Has(Rest, x)) => Single(<<x>> \o Rest)
        BY ONLY <1>3, <4>3, Sooner
      <4>5. \A r : (Placed(r)' <=> Has(todo', <<"place", r>>)) /\ (Called(r)' <=> Has(todo', <<"dispatch", r>>))
        BY Asked, Zenon
      <4> QED BY <1>3, <3>2, <4>1, <4>3, <4>4, <4>5
    <3> QED BY <3>1, <3>2
  <2> HIDE DEF q, late, gone
  <2>9. Types'
    BY <1>2, <2>2, <2>6, <2>8 DEF Inv, Types, TypeOK
  <2>10. Numbered' /\ Withdrawn'
    BY <1>2, <2>6, Counted
  <2>11. Distinct'
    BY <1>2, <2>2, <2>8 DEF Inv, Distinct
  <2>12. ASSUME NEW r \in Run PROVE Own(r)'
    <3>1. Own(r)
      BY DEF Inv
    <3>2. ~Live(r)
      BY <2>1 DEF Live
    <3>3. /\ Live(r)' <=> Live(r)
          /\ Waits(r)' <=> Waits(r)
          /\ Runs(r)' <=> Runs(r)
          /\ Ending(r)' <=> Ending(r)
      BY <1>2, Frames
    <3>4. /\ Placed(r)' <=> Placed(r) \/ (~late /\ ~gone /\ r = q)
          /\ Called(r)' <=> Called(r)
          /\ InQueue(r)' <=> InQueue(r) /\ r # q
          /\ r = q => InQueue(r)
      BY <2>4, <2>5, <2>8
    <3>5. /\ status'[r] = "none" <=> status[r] = "none"
          /\ r # q \/ ~late => status'[r] = status[r]
          /\ r = q /\ late => status'[r] = IF status[r] \in Open THEN "ended" ELSE status[r]
          /\ r = q /\ gone => status[r] = "gone"
      BY <2>6, <2>7
    <3>6. Somewhere(r)' /\ Unstarted(r)' /\ Working(r)'
      BY <1>2, <3>1, <3>2, <3>3, <3>4 DEF Own, Somewhere, Unstarted, Working, At
    <3>7. Recorded(r)'
      <4>1. CASE r = q /\ late
        BY <1>2, <3>1, <3>2, <3>3, <3>4, <3>5, <4>1 DEF Own, Recorded, Somewhere, Unstarted, Open, At
      <4>2. CASE r = q /\ gone /\ ~late
        BY <1>2, <3>1, <3>2, <3>3, <3>4, <3>5, <4>2 DEF Own, Recorded, Open, At
      <4>3. CASE r # q \/ (~late /\ ~gone)
        BY <1>2, <3>1, <3>2, <3>3, <3>4, <3>5, <4>3 DEF Own, Recorded, Somewhere, Open, At
      <4> QED BY <4>1, <4>2, <4>3
    <3> QED BY <3>6, <3>7 DEF Own
  <2> QED BY <1>5, <2>9, <2>10, <2>11, <2>12 DEF Inv
<1> QED BY <1>6, <1>7

LEMMA CancelKeeps == Inv /\ Cancel => Inv'
PROOF
<1> SUFFICES ASSUME Inv, Cancel PROVE Inv'
  OBVIOUS
<1> DEFINE C == {r \in Queue : of[r] = Arg}
           T == {i \in DOMAIN queue : queue[i].run \notin C}
           own == active # None /\ of[active.run] = Arg
<1>1. /\ Due("cancel") /\ queue' = Spared(C)
      /\ IF own
         THEN /\ waiting' = Without(active.run)
              /\ room' = Stopped(active.run)
              /\ Finish("ended", C, Rest)
         ELSE /\ status' = Closed(C, "ended") /\ todo' = Rest
              /\ UNCHANGED <<successes, active, rotating, waiting, room>>
      /\ UNCHANGED <<table, agent, phase, bypass, human, settling, past, count>>
  BY DEF Cancel
<1>2. UNCHANGED <<job, asked, kills, of, agent, phase, bypass, human, settling, past>>
  BY <1>1 DEF table
<1>3. /\ phase = "up" /\ Rest \in Seq(Todo) /\ Single(Rest)
      /\ \A r : (Has(Rest, <<"place", r>>) <=> Placed(r)) /\ (Has(Rest, <<"dispatch", r>>) <=> Called(r))
  <2>1. "cancel" \notin Once
    BY DEF Once
  <2> QED BY <1>1, <2>1, DueFacts
<1>4. /\ queue \in Seq(Queued) /\ Separate(queue) /\ status \in [Run -> Status] /\ waiting \in Seq(Inject)
      /\ Types /\ Separate(waiting)
  BY TypeFacts DEF Inv, Distinct
<1>5. queue' = Picked(queue, T)
  BY <1>1 DEF Spared
<1>6. \A r : r \in C => InQueue(r)
  BY Asked
<1> HIDE DEF C
<1>7. /\ queue' \in Seq(Queued) /\ Separate(queue')
      /\ \A r : InQueue(r)' <=> InQueue(r) /\ r \notin C
  <2>1. T = {i \in DOMAIN queue : queue[i].run \notin C}
    OBVIOUS
  <2> HIDE DEF T
  <2>2. /\ Picked(queue, T) \in Seq(Queued)
        /\ \A r : Named(Picked(queue, T), r) <=> Named(queue, r) /\ r \notin C
        /\ Separate(queue) => Separate(Picked(queue, T))
    <3>1. queue \in Seq(Queued)
      BY <1>4
    <3> QED BY ONLY <2>1, <3>1, Left, ZenonT(40)
  <2>3. queue' \in Seq(Queued) /\ Separate(queue') /\ \A r : Named(queue', r) <=> Named(queue, r) /\ r \notin C
    BY <1>4, <1>5, <2>2
  <2> QED BY <2>3 DEF InQueue
<1> HIDE DEF T
<1>8. Halted'
  BY <1>2, <1>3 DEF Inv, Halted
<1>9. CASE own
  <2>1. /\ waiting' = Without(active.run) /\ room' = Stopped(active.run) /\ Finish("ended", C, Rest)
        /\ active # None
    BY <1>1, <1>9
  <2>2. /\ active' = None /\ \A r : ~Live(r)'
        /\ status' \in [Run -> Status]
        /\ \A r \in Run : status'[r] = IF (r \in C \/ Live(r)) /\ status[r] \in Open THEN "ended" ELSE status[r]
        /\ \A r \in Run : status'[r] = "none" <=> status[r] = "none"
        /\ successes' \in 0..RotateEvery /\ rotating' \in BOOLEAN
        /\ todo' \in Seq(Todo) /\ Single(todo')
        /\ \A r : (Placed(r)' <=> Has(Rest, <<"place", r>>)) /\ (Called(r)' <=> Has(Rest, <<"dispatch", r>>))
    <3>1. "ended" \in {"succeeded", "ended"}
      OBVIOUS
    <3> QED BY ONLY Inv, <1>3, <2>1, <3>1, FinishFacts
  <2>3. /\ waiting' \in Seq(Inject) /\ Separate(waiting')
        /\ \A q : Waits(q)' <=> Waits(q) /\ q # active.run
    BY <2>1, WithoutFacts, Asked
  <2>4. /\ room' \in Turn \cup {None, Other}
        /\ \A q : Runs(q)' <=> Runs(q)
        /\ Runs(active.run) => room'.abort = "external"
        /\ ~Runs(active.run) => room' = room
        /\ room \in {None, Other} => room' = room
    BY <1>4, <2>1, StoppedFacts
  <2>5. Types'
    BY <1>2, <1>7, <2>2, <2>3, <2>4 DEF Inv, Types, TypeOK
  <2>6. Numbered' /\ Withdrawn'
    BY <1>2, <2>2, Counted
  <2>7. Distinct'
    BY <1>7, <2>2, <2>3 DEF Distinct
  <2>8. ASSUME NEW r \in Run PROVE Own(r)'
    <3>1. Working(r) /\ (Ending(r)' <=> Ending(r))
      BY <1>2, Frames DEF Inv, Own
    <3>2. Waits(r)' /\ Runs(r)' => room'.abort # "none"
      <4>1. CASE ~Runs(active.run)
        BY <2>3, <2>4, <3>1, <4>1 DEF Working
      <4>2. CASE Runs(active.run)
        BY <2>4, <4>2
      <4> QED BY <4>1, <4>2
    <3>3. Runs(r)' => ~Ending(r)'
      BY <2>4, <3>1 DEF Working
    <3>4. r \in past' => ~Runs(r)' /\ (r \in past \/ (Runs(r) /\ room.abort = "none"))
      BY <1>2, <2>4, <3>1 DEF Working
    <3>5. /\ status'[r] = IF (r \in C \/ Live(r)) /\ status[r] \in Open THEN "ended" ELSE status[r]
          /\ Placed(r)' <=> Placed(r)
          /\ Called(r)' => Called(r)
          /\ r \in C => InQueue(r)
          /\ InQueue(r)' <=> InQueue(r) /\ r \notin C
          /\ Waits(r)' => Waits(r)
          /\ Runs(r)' => Runs(r)
          /\ ~Live(r)'
      BY <1>3, <1>6, <1>7, <2>2, <2>3, <2>4
    <3>6. "ended" \in {"succeeded", "ended"}
      OBVIOUS
    <3>7. UNCHANGED <<phase, of, job>> /\ active # None
      BY <1>2, <2>1
    <3> QED BY ONLY Inv, r \in Run, <1>3, <3>2, <3>3, <3>4, <3>5, <3>6, <3>7, OwnEnds
  <2> QED BY <1>8, <2>5, <2>6, <2>7, <2>8 DEF Inv
<1>10. CASE ~own
  <2>1. /\ status' = Closed(C, "ended") /\ todo' = Rest
        /\ UNCHANGED <<successes, active, rotating, waiting, room>>
    BY <1>1, <1>10
  <2>2. /\ status' \in [Run -> Status]
        /\ \A r \in Run : status'[r] = IF r \in C /\ status[r] \in Open THEN "ended" ELSE status[r]
        /\ \A r \in Run : status'[r] = "none" <=> status[r] = "none"
    <3>1. "ended" \in Status \ {"none"}
      BY DEF Status
    <3> QED BY <1>4, <2>1, <3>1, ClosedFacts
  <2>3. \A r : (Placed(r)' <=> Placed(r)) /\ (Called(r)' <=> Called(r))
    BY <1>3, <2>1, Asked
  <2>4. Types'
    BY <1>2, <1>3, <1>7, <2>1, <2>2 DEF Inv, Types, TypeOK
  <2>5. Numbered' /\ Withdrawn'
    BY <1>2, <2>2, Counted
  <2>6. Distinct'
    BY <1>3, <1>7, <2>1 DEF Inv, Distinct
  <2>7. ASSUME NEW r \in Run PROVE Own(r)'
    <3>1. Own(r)
      BY DEF Inv
    <3>2. /\ Live(r)' <=> Live(r)
          /\ Waits(r)' <=> Waits(r)
          /\ Runs(r)' <=> Runs(r)
          /\ Ending(r)' <=> Ending(r)
      BY <1>2, <2>1, Frames
    <3>3. /\ Placed(r)' <=> Placed(r)
          /\ Called(r)' <=> Called(r)
          /\ r \in C => InQueue(r)
          /\ InQueue(r)' <=> InQueue(r) /\ r \notin C
          /\ status'[r] = IF r \in C /\ status[r] \in Open THEN "ended" ELSE status[r]
      BY <1>6, <1>7, <2>2, <2>3
    <3>4. Somewhere(r)' /\ Unstarted(r)' /\ Working(r)'
      BY <1>2, <2>1, <3>1, <3>2, <3>3 DEF Own, Somewhere, Unstarted, Working, At
    <3>5. Recorded(r)'
      BY <1>2, <2>1, <3>1, <3>2, <3>3 DEF Own, Recorded, Somewhere, Unstarted, Open, At
    <3> QED BY <3>4, <3>5 DEF Own
  <2> QED BY <1>8, <2>4, <2>5, <2>6, <2>7 DEF Inv
<1> QED BY <1>9, <1>10

(* The active run is marked in memory.                                      *)
LEMMA Marked ==
  ASSUME Types, NEW q, NEW at \in {"called", "script", "queued", "sent"},
         active' = IF Live(q) THEN [active EXCEPT !.at = at] ELSE active
  PROVE  /\ active' \in Active \cup {None}
         /\ \A r : Live(r)' <=> Live(r)
         /\ Live(q) => active'.at = at
         /\ ~Live(q) => active' = active
PROOF
<1>1. CASE Live(q)
  <2>1. active \in Active /\ active # None
    BY <1>1, TypeFacts
  <2>2. active' = [active EXCEPT !.at = at]
    BY <1>1
  <2>3. active' \in Active /\ active'.run = active.run /\ active'.at = at
    BY <2>1, <2>2 DEF Active
  <2>4. active' # None
    BY <2>3, NoneAssumption
  <2> QED BY <1>1, <2>1, <2>3, <2>4 DEF Live
<1>2. CASE ~Live(q)
  <2>1. active' = active
    BY <1>2
  <2>2. active \in Active \cup {None}
    BY DEF Types, TypeOK
  <2> QED BY <1>2, <2>1, <2>2 DEF Live
<1> QED BY <1>1, <1>2

LEMMA TriggerKeeps ==
  ASSUME Inv, phase = "up", NEW q \in Run, Called(q) \/ At(q, {"script"}),
         NEW rest \in Seq(Todo), Single(rest),
         \A r : (Has(rest, <<"place", r>>) <=> Placed(r)) /\ (Has(rest, <<"dispatch", r>>) <=> Called(r) /\ r # q),
         Trigger(q, rest), UNCHANGED <<table, agent, phase, queue, bypass, human, past, count>>
  PROVE  Inv'
PROOF
<1>1. UNCHANGED <<job, asked, kills, of, agent, phase, queue, bypass, human, past>>
  BY DEF table
<1>2. Own(q) /\ Types
  BY DEF Inv
<1>3. /\ ~Waits(q) /\ ~Runs(q) /\ q \notin past /\ status[q] # "none" /\ ~Placed(q) /\ ~InQueue(q)
      /\ Live(q) => active.at \in {"called", "script"}
  BY <1>2 DEF Own, Somewhere, Unstarted, Recorded, At
<1>4. /\ queue \in Seq(Queued) /\ Separate(queue) /\ waiting \in Seq(Inject) /\ Separate(waiting)
      /\ status \in [Run -> Status]
  BY TypeFacts DEF Inv, Distinct
<1>5. Halted'
  BY <1>1 DEF Inv, Halted
<1>6. \A r : (Placed(r)' <=> Has(todo', <<"place", r>>)) /\ (Called(r)' <=> Has(todo', <<"dispatch", r>>))
  BY Asked, Zenon
<1>7. CASE ~agent /\ Live(q)
  <2>1. Finish("ended", {}, rest) /\ UNCHANGED <<room, waiting, settling>> /\ active # None
    BY <1>7 DEF Trigger, Live
  <2>2. /\ active' = None /\ \A r : ~Live(r)'
        /\ status' \in [Run -> Status]
        /\ \A r \in Run : status'[r] = IF (r \in {} \/ Live(r)) /\ status[r] \in Open THEN "ended" ELSE status[r]
        /\ \A r \in Run : status'[r] = "none" <=> status[r] = "none"
        /\ successes' \in 0..RotateEvery /\ rotating' \in BOOLEAN
        /\ todo' \in Seq(Todo) /\ Single(todo')
        /\ \A r : (Placed(r)' <=> Has(rest, <<"place", r>>)) /\ (Called(r)' <=> Has(rest, <<"dispatch", r>>))
    <3>1. "ended" \in {"succeeded", "ended"}
      OBVIOUS
    <3> QED BY ONLY Inv, rest \in Seq(Todo), Single(rest), <2>1, <3>1, FinishFacts
  <2>3. Types'
    BY <1>1, <2>1, <2>2 DEF Inv, Types, TypeOK
  <2>4. Numbered' /\ Withdrawn'
    BY <1>1, <2>2, Counted
  <2>5. Distinct'
    BY <1>1, <2>1, <2>2 DEF Inv, Distinct
  <2>6. ASSUME NEW r \in Run PROVE Own(r)'
    <3>1. Working(r)
      BY DEF Inv, Own
    <3>2. /\ Ending(r)' <=> Ending(r)
          /\ Waits(r)' <=> Waits(r)
          /\ Runs(r)' <=> Runs(r)
          /\ InQueue(r)' <=> InQueue(r)
      BY <1>1, <2>1, Frames
    <3>3. /\ Waits(r)' /\ Runs(r)' => room'.abort # "none"
          /\ Runs(r)' => ~Ending(r)'
          /\ r \in past' => ~Runs(r)' /\ (r \in past \/ (Runs(r) /\ room.abort = "none"))
      BY <1>1, <2>1, <3>1, <3>2 DEF Working
    <3>4. /\ status'[r] = IF Live(r) /\ status[r] \in Open THEN "ended" ELSE status[r]
          /\ Placed(r)' <=> Placed(r)
          /\ Called(r)' => Called(r)
          /\ InQueue(r)' <=> InQueue(r)
          /\ Waits(r)' => Waits(r)
          /\ Runs(r)' => Runs(r)
          /\ ~Live(r)'
      BY <2>2, <3>2
    <3>5. "ended" \in {"succeeded", "ended"}
      OBVIOUS
    <3>6. UNCHANGED <<phase, of, job>> /\ active # None
      BY <1>1, <2>1
    <3> QED BY ONLY Inv, phase = "up", r \in Run, <3>3, <3>4, <3>5, <3>6, OwnEndsAlone
  <2> QED BY <1>5, <2>3, <2>4, <2>5, <2>6 DEF Inv
<1>8. CASE ~agent /\ ~Live(q)
  <2>1. todo' = rest /\ UNCHANGED <<active, status, successes, rotating, room, waiting, settling>>
    BY <1>8 DEF Trigger, rows
  <2>2. Types'
    BY <1>1, <2>1 DEF Inv, Types, TypeOK
  <2>3. Numbered' /\ Withdrawn'
    BY <1>1, <2>1, Counted
  <2>4. Distinct'
    BY <1>1, <2>1 DEF Inv, Distinct
  <2>5. ASSUME NEW r \in Run PROVE Own(r)'
    <3>1. (Placed(r)' <=> Placed(r)) /\ (Called(r)' => Called(r))
      BY <1>6, <2>1
    <3> QED BY <1>1, <2>1, <3>1, OwnSame
  <2> QED BY <1>5, <2>2, <2>3, <2>4, <2>5 DEF Inv
<1>9. CASE agent /\ room = None
  <2>1. todo' = rest /\ UNCHANGED <<successes, rotating, waiting>> /\ Begin(q, {})
    BY <1>9 DEF Trigger
  <2>2. /\ room' \in Turn /\ active' \in Active \cup {None} /\ status' \in [Run -> Status]
        /\ \A r \in Run : status'[r] = IF r = q /\ Live(q) /\ status[q] # "gone" THEN "running" ELSE status[r]
        /\ settling' \subseteq [run : Run, ok : BOOLEAN]
    BY <1>2, <2>1, BeginFacts
  <2>3. Types'
    BY <1>1, <2>1, <2>2 DEF Inv, Types, TypeOK
  <2>4. Numbered' /\ Withdrawn'
    <3>1. \A r \in Run : status'[r] = "none" <=> status[r] = "none"
      BY <1>3, <2>2
    <3> QED BY <1>1, <3>1, Counted
  <2>5. Distinct'
    BY <1>1, <2>1 DEF Inv, Distinct
  <2>6. ASSUME NEW r \in Run PROVE Own(r)'
    <3>1. (Placed(r)' <=> Placed(r)) /\ (Called(r)' => Called(r)) /\ ~Called(q)'
      BY <1>6, <2>1
    <3>2. (Waits(r)' <=> Waits(r)) /\ ~Waits(q)'
      BY <1>3, <2>1, Frames
    <3>3. /\ {} \subseteq [run : Run, ok : BOOLEAN] /\ UNCHANGED <<phase, of, job, queue>> /\ phase # "down"
          /\ q \notin past' /\ (r \in past' => r \in past \/ (Runs(r) /\ room.abort = "none"))
      BY <1>1, <1>3
    <3> QED BY ONLY Inv, q \in Run, r \in Run, <1>3, <2>1, <3>1, <3>2, <3>3, OwnBegins
  <2> QED BY <1>5, <2>3, <2>4, <2>5, <2>6 DEF Inv
<1>10. CASE agent /\ room # None
  <2> DEFINE e == [run |-> q, stale |-> FALSE]
  <2>1. /\ todo' = rest /\ UNCHANGED <<successes, rotating, status, room, settling>>
        /\ waiting' = Append(waiting, e)
        /\ active' = IF Live(q) THEN [active EXCEPT !.at = "queued"] ELSE active
    BY <1>3, <1>10 DEF Trigger
  <2>2. e \in Inject /\ e.run = q
    BY DEF Inject
  <2> HIDE DEF e
  <2>3. ~Named(waiting, q)
    BY <1>3, Asked
  <2>4. /\ waiting' \in Seq(Inject) /\ Separate(waiting')
        /\ \A r : Named(waiting', r) <=> Named(waiting, r) \/ r = q
    BY <1>4, <2>1, <2>2, <2>3, Put
  <2>5. \A r : Waits(r)' <=> Waits(r) \/ r = q
    BY <2>4, Asked
  <2>6. /\ active' \in Active \cup {None}
        /\ \A r : Live(r)' <=> Live(r)
        /\ Live(q) => active'.at = "queued"
        /\ ~Live(q) => active' = active
    BY <1>2, <2>1, Marked
  <2>7. Types'
    BY <1>1, <2>1, <2>4, <2>6 DEF Inv, Types, TypeOK
  <2>8. Numbered' /\ Withdrawn'
    BY <1>1, <2>1, Counted
  <2>9. Distinct'
    BY <1>1, <2>1, <2>4 DEF Inv, Distinct
  <2>10. ASSUME NEW r \in Run PROVE Own(r)'
    <3>1. Own(r)
      BY DEF Inv
    <3>2. /\ Placed(r)' <=> Placed(r)
          /\ Called(r)' <=> Called(r) /\ r # q
          /\ InQueue(r)' <=> InQueue(r)
          /\ Live(r)' <=> Live(r)
          /\ Waits(r)' <=> Waits(r) \/ r = q
          /\ Runs(r)' <=> Runs(r)
          /\ Ending(r)' <=> Ending(r)
      BY <1>1, <1>6, <2>1, <2>5, <2>6, Frames
    <3>3. Live(r) /\ r # q => active' = active
      BY <2>6 DEF Live
    <3>4. r = q /\ Live(r) => status[r] # "running"
      BY <1>1, <1>3, <3>1 DEF Own, Recorded, At
    <3>5. Somewhere(r)'
      BY <1>3, <3>1, <3>2, <3>3 DEF Own, Somewhere
    <3>6. Unstarted(r)'
      BY <1>1, <1>3, <2>6, <3>1, <3>2, <3>3 DEF Own, Unstarted, At
    <3>7. Working(r)'
      BY <1>1, <1>3, <2>1, <3>1, <3>2 DEF Own, Working
    <3>8. Recorded(r)'
      BY <1>1, <1>3, <2>1, <3>1, <3>2, <3>3, <3>4 DEF Own, Recorded, At, Open
    <3> QED BY <3>5, <3>6, <3>7, <3>8 DEF Own
  <2> QED BY <1>5, <2>7, <2>8, <2>9, <2>10 DEF Inv
<1> QED BY <1>7, <1>8, <1>9, <1>10

LEMMA DispatchKeeps == Inv /\ Dispatch => Inv'
PROOF
<1> SUFFICES ASSUME Inv, Dispatch PROVE Inv'
  OBVIOUS
<1> DEFINE q == Arg
<1>1. /\ Due("dispatch")
      /\ IF of[q] \in Script
         THEN /\ active' = IF Live(q) THEN [active EXCEPT !.at = "script"] ELSE active
              /\ todo' = Rest
              /\ UNCHANGED <<rows, rotating, room, waiting, settling>>
         ELSE Trigger(q, Rest)
      /\ UNCHANGED <<table, agent, phase, queue, bypass, human, past, count>>
  BY DEF Dispatch
<1>2. /\ phase = "up" /\ Rest \in Seq(Todo) /\ Single(Rest) /\ q \in Run /\ Called(q)
      /\ \A r : (Has(Rest, <<"place", r>>) <=> Placed(r))
                /\ (Has(Rest, <<"dispatch", r>>) <=> Called(r) /\ r # q)
  BY <1>1, DueFacts
<1> HIDE DEF q
<1>3. CASE of[q] \notin Script
  <2>1. Trigger(q, Rest) /\ UNCHANGED <<table, agent, phase, queue, bypass, human, past, count>>
    BY <1>1, <1>3
  <2> QED BY ONLY Inv, <1>2, <2>1, TriggerKeeps
<1>4. CASE of[q] \in Script
  <2>1. /\ active' = IF Live(q) THEN [active EXCEPT !.at = "script"] ELSE active
        /\ todo' = Rest
        /\ UNCHANGED <<job, asked, kills, of, agent, phase, queue, bypass, human, past,
                       status, successes, rotating, room, waiting, settling>>
    BY <1>1, <1>4 DEF rows, table
  <2>2. /\ active' \in Active \cup {None}
        /\ \A r : Live(r)' <=> Live(r)
        /\ Live(q) => active'.at = "script"
        /\ ~Live(q) => active' = active
    <3>1. Types
      BY DEF Inv
    <3> QED BY <2>1, <3>1, Marked
  <2>3. Types'
    BY <1>2, <2>1, <2>2 DEF Inv, Types, TypeOK
  <2>4. Numbered' /\ Withdrawn'
    BY <2>1, Counted
  <2>5. Distinct'
    BY <1>2, <2>1 DEF Inv, Distinct
  <2>6. Halted'
    BY <1>2, <2>1 DEF Inv, Halted
  <2>7. ASSUME NEW r \in Run PROVE Own(r)'
    <3>1. Own(r)
      BY DEF Inv
    <3>2. /\ Placed(r)' <=> Placed(r)
          /\ Called(r)' <=> Called(r) /\ r # q
          /\ InQueue(r)' <=> InQueue(r)
          /\ Live(r)' <=> Live(r)
          /\ Waits(r)' <=> Waits(r)
          /\ Runs(r)' <=> Runs(r)
          /\ Ending(r)' <=> Ending(r)
          /\ r = q => Called(r)
      BY <1>2, <2>1, <2>2, Frames, Asked
    <3>3. Live(r) /\ r # q => active' = active
      BY <2>2 DEF Live
    <3>4. Somewhere(r)'
      BY <3>1, <3>2, <3>3 DEF Own, Somewhere
    <3>5. Unstarted(r)'
      BY <2>1, <2>2, <3>1, <3>2, <3>3 DEF Own, Unstarted, At
    <3>6. Working(r)'
      BY <2>1, <3>1, <3>2 DEF Own, Working
    <3>7. Recorded(r)'
      BY <1>2, <2>1, <3>1, <3>2, <3>3 DEF Own, Somewhere, Recorded, At, Open
    <3> QED BY <3>4, <3>5, <3>6, <3>7 DEF Own
  <2> QED BY <2>3, <2>4, <2>5, <2>6, <2>7 DEF Inv
<1> QED BY <1>3, <1>4

LEMMA ScriptPrintsKeeps == Inv /\ ScriptPrints => Inv'
PROOF
<1> SUFFICES ASSUME Inv, ScriptPrints PROVE Inv'
  OBVIOUS
<1> DEFINE q == active.run
           rest == <<>>
<1>1. /\ phase = "up" /\ todo = <<>> /\ active # None /\ active.at = "script"
      /\ Trigger(q, rest) /\ UNCHANGED <<table, agent, phase, queue, bypass, human, past, count>>
  BY DEF ScriptPrints, Up
<1>2. q \in Run /\ At(q, {"script"})
  BY <1>1, TypeFacts DEF Inv, At, Live
<1>3. rest \in Seq(Todo) /\ Single(rest) /\ \A y : ~Has(rest, y)
  BY NoStep
<1>4. \A r : ~Placed(r) /\ ~Called(r)
  BY <1>1, <1>3 DEF Placed, Called
<1> HIDE DEF q, rest
<1>5. \A r : (Has(rest, <<"place", r>>) <=> Placed(r)) /\ (Has(rest, <<"dispatch", r>>) <=> Called(r) /\ r # q)
  BY <1>3, <1>4
<1> QED BY ONLY Inv, <1>1, <1>2, <1>3, <1>5, TriggerKeeps

(* The active run ends between callbacks, whatever else the room does.       *)
LEMMA FinishKeeps ==
  ASSUME Inv, phase = "up", todo = <<>>, active # None, NEW st \in {"succeeded", "ended"},
         Finish(st, {}, <<>>), UNCHANGED <<table, agent, phase, queue, bypass, human>>,
         waiting' \in Seq(Inject), Separate(waiting'), room' \in Turn \cup {None, Other},
         settling' \subseteq [run : Run, ok : BOOLEAN], past' \subseteq Run,
         \A r : Waits(r)' => Waits(r), \A r : Runs(r)' => Runs(r) /\ ~Ending(r)',
         \A r : Waits(r)' /\ Runs(r)' => room'.abort # "none",
         \A r \in Run : r \in past' => ~Runs(r)' /\ (r \in past \/ (Runs(r) /\ room.abort = "none"))
  PROVE  Inv'
PROOF
<1>1. UNCHANGED <<job, asked, kills, of, agent, phase, queue, bypass, human>>
  BY DEF table
<1> DEFINE rest == <<>>
<1>2. rest \in Seq(Todo) /\ Single(rest) /\ \A y : ~Has(rest, y)
  BY NoStep
<1>3. \A r : ~Placed(r) /\ ~Called(r)
  BY <1>2 DEF Placed, Called
<1>4. Finish(st, {}, rest)
  OBVIOUS
<1> HIDE DEF rest
<1>5. /\ active' = None /\ \A r : ~Live(r)'
      /\ status' \in [Run -> Status]
      /\ \A r \in Run : status'[r] = IF (r \in {} \/ Live(r)) /\ status[r] \in Open THEN st ELSE status[r]
      /\ \A r \in Run : status'[r] = "none" <=> status[r] = "none"
      /\ successes' \in 0..RotateEvery /\ rotating' \in BOOLEAN
      /\ todo' \in Seq(Todo) /\ Single(todo')
      /\ \A r : (Placed(r)' <=> Has(rest, <<"place", r>>)) /\ (Called(r)' <=> Has(rest, <<"dispatch", r>>))
  BY ONLY Inv, active # None, st \in {"succeeded", "ended"}, <1>2, <1>4, FinishFacts
<1>6. Types'
  BY <1>1, <1>5 DEF Inv, Types, TypeOK
<1>7. Numbered' /\ Withdrawn'
  BY <1>1, <1>5, Counted
<1>8. Distinct'
  BY <1>1, <1>5 DEF Inv, Distinct
<1>9. Halted'
  BY <1>1 DEF Halted
<1>10. ASSUME NEW r \in Run PROVE Own(r)'
  <2>1. InQueue(r)' <=> InQueue(r)
    BY <1>1, Frames
  <2>2. /\ status'[r] = IF Live(r) /\ status[r] \in Open THEN st ELSE status[r]
        /\ Placed(r)' <=> Placed(r)
        /\ Called(r)' => Called(r)
        /\ ~Live(r)'
    BY <1>2, <1>3, <1>5
  <2>3. /\ Waits(r)' => Waits(r)
        /\ Runs(r)' => Runs(r)
        /\ Waits(r)' /\ Runs(r)' => room'.abort # "none"
        /\ Runs(r)' => ~Ending(r)'
        /\ r \in past' => ~Runs(r)' /\ (r \in past \/ (Runs(r) /\ room.abort = "none"))
    OBVIOUS
  <2>4. UNCHANGED <<phase, of, job>>
    BY <1>1
  <2> QED BY ONLY Inv, phase = "up", active # None, st \in {"succeeded", "ended"}, r \in Run,
             <2>1, <2>2, <2>3, <2>4, OwnEndsAlone
<1> QED BY <1>6, <1>7, <1>8, <1>9, <1>10 DEF Inv

(* What holds of the room as long as it does not change.                     *)
LEMMA RoomFacts ==
  ASSUME Inv
  PROVE  /\ waiting \in Seq(Inject) /\ Separate(waiting) /\ room \in Turn \cup {None, Other}
         /\ settling \subseteq [run : Run, ok : BOOLEAN] /\ past \subseteq Run
         /\ \A r : Runs(r) => ~Ending(r)
         /\ \A r : Waits(r) /\ Runs(r) => room.abort # "none"
         /\ \A r : r \in past => ~Runs(r) /\ ~Waits(r)
PROOF
<1>1. Types /\ Distinct /\ \A r \in Run : Working(r)
  BY DEF Inv, Own
<1>2. /\ waiting \in Seq(Inject) /\ Separate(waiting) /\ room \in Turn \cup {None, Other}
      /\ settling \subseteq [run : Run, ok : BOOLEAN] /\ past \subseteq Run
  BY <1>1 DEF Types, TypeOK, Distinct
<1>3. \A r : Runs(r) => r \in Run
  BY <1>1, TypeFacts
<1>4. \A r : r \in past => r \in Run
  BY <1>2
<1> QED BY <1>1, <1>2, <1>3, <1>4 DEF Working

LEMMA ScriptFailsKeeps == Inv /\ ScriptFails => Inv'
PROOF
<1> SUFFICES ASSUME Inv, ScriptFails PROVE Inv'
  OBVIOUS
<1>1. /\ phase = "up" /\ todo = <<>> /\ active # None /\ Finish("ended", {}, <<>>)
      /\ UNCHANGED <<table, agent, phase, queue, bypass, human>>
      /\ UNCHANGED <<waiting, room, settling, past>>
  BY DEF ScriptFails, Up, slot
<1>2. \A r : (Waits(r)' <=> Waits(r)) /\ (Runs(r)' <=> Runs(r)) /\ (Ending(r)' <=> Ending(r))
  BY <1>1, Frames
<1>3. /\ waiting' \in Seq(Inject) /\ Separate(waiting') /\ room' \in Turn \cup {None, Other}
      /\ settling' \subseteq [run : Run, ok : BOOLEAN] /\ past' \subseteq Run
      /\ \A r : Waits(r)' => Waits(r)
      /\ \A r : Runs(r)' => Runs(r) /\ ~Ending(r)'
      /\ \A r : Waits(r)' /\ Runs(r)' => room'.abort # "none"
      /\ \A r \in Run : r \in past' => ~Runs(r)' /\ (r \in past \/ (Runs(r) /\ room.abort = "none"))
  BY <1>1, <1>2, RoomFacts
<1>4. "ended" \in {"succeeded", "ended"}
  OBVIOUS
<1> QED BY ONLY Inv, <1>1, <1>3, <1>4, FinishKeeps

LEMMA RunTimeoutKeeps == Inv /\ RunTimeout => Inv'
PROOF
<1> SUFFICES ASSUME Inv, RunTimeout PROVE Inv'
  OBVIOUS
<1> DEFINE q == active.run
<1>1. /\ phase = "up" /\ todo = <<>> /\ active # None /\ Finish("ended", {}, <<>>)
      /\ UNCHANGED <<table, agent, phase, queue, bypass, human>>
      /\ UNCHANGED <<settling, past>>
      /\ room' = Stopped(q) /\ waiting' = IF Runs(q) THEN waiting ELSE Without(q)
  BY DEF RunTimeout, Up
<1> HIDE DEF q
<1>2. Types
  BY DEF Inv
<1>3. /\ room' \in Turn \cup {None, Other}
      /\ \A r : Runs(r)' <=> Runs(r)
      /\ Runs(q) => room'.abort = "external"
      /\ ~Runs(q) => room' = room
  BY <1>1, <1>2, StoppedFacts
<1>4. /\ Without(q) \in Seq(Inject) /\ Separate(Without(q))
      /\ \A r : Named(Without(q), r) <=> Waits(r) /\ r # q
  BY WithoutFacts
<1>5. /\ waiting' \in Seq(Inject) /\ Separate(waiting')
      /\ \A r : Waits(r)' => Waits(r)
  <2>1. CASE Runs(q)
    BY <1>1, <2>1, RoomFacts, Asked
  <2>2. CASE ~Runs(q)
    BY <1>1, <1>4, <2>2, Asked
  <2> QED BY <2>1, <2>2
<1>6. \A r : Ending(r)' <=> Ending(r)
  BY <1>1, Frames
<1>7. /\ settling' \subseteq [run : Run, ok : BOOLEAN] /\ past' \subseteq Run
      /\ \A r : Runs(r)' => Runs(r) /\ ~Ending(r)'
      /\ \A r : Waits(r)' /\ Runs(r)' => room'.abort # "none"
      /\ \A r \in Run : r \in past' => ~Runs(r)' /\ (r \in past \/ (Runs(r) /\ room.abort = "none"))
  BY <1>1, <1>3, <1>5, <1>6, RoomFacts
<1>8. "ended" \in {"succeeded", "ended"}
  OBVIOUS
<1> QED BY ONLY Inv, <1>1, <1>3, <1>5, <1>7, <1>8, FinishKeeps

LEMMA DeferredTimeoutKeeps == Inv /\ DeferredTimeout => Inv'
PROOF
<1> SUFFICES ASSUME Inv, DeferredTimeout PROVE Inv'
  OBVIOUS
<1> DEFINE q == active.run
<1>1. /\ phase = "up" /\ todo = <<>> /\ active # None /\ Finish("ended", {}, <<>>)
      /\ UNCHANGED <<table, agent, phase, queue, bypass, human>>
      /\ UNCHANGED <<room, settling, past>>
      /\ waiting' = Without(q)
  BY DEF DeferredTimeout, Up
<1> HIDE DEF q
<1>2. /\ waiting' \in Seq(Inject) /\ Separate(waiting')
      /\ \A r : Waits(r)' => Waits(r)
  BY <1>1, WithoutFacts, Asked
<1>3. \A r : (Runs(r)' <=> Runs(r)) /\ (Ending(r)' <=> Ending(r))
  BY <1>1, Frames
<1>4. /\ room' \in Turn \cup {None, Other}
      /\ settling' \subseteq [run : Run, ok : BOOLEAN] /\ past' \subseteq Run
      /\ \A r : Runs(r)' => Runs(r) /\ ~Ending(r)'
      /\ \A r : Waits(r)' /\ Runs(r)' => room'.abort # "none"
      /\ \A r \in Run : r \in past' => ~Runs(r)' /\ (r \in past \/ (Runs(r) /\ room.abort = "none"))
  BY <1>1, <1>2, <1>3, RoomFacts
<1>5. "ended" \in {"succeeded", "ended"}
  OBVIOUS
<1> QED BY ONLY Inv, <1>1, <1>2, <1>4, <1>5, FinishKeeps

(* A step that changes nothing but settlements reported.                     *)
LEMMA SettleKeeps == \A s \in settling : Inv /\ Settle(s) => Inv'
PROOF
<1> SUFFICES ASSUME NEW s \in settling, Inv, Settle(s) PROVE Inv'
  OBVIOUS
<1>1. /\ todo = <<>> /\ settling' = settling \ {s}
      /\ IF Live(s.run) THEN Finish(IF s.ok THEN "succeeded" ELSE "ended", {}, <<>>)
         ELSE UNCHANGED <<rows, todo, active, rotating>>
      /\ UNCHANGED <<table, agent, phase, queue, bypass, room, human, waiting, past, count>>
  BY DEF Settle, Quiet
<1>2. \A r : (Waits(r)' <=> Waits(r)) /\ (Runs(r)' <=> Runs(r)) /\ (Ending(r)' => Ending(r))
  <2>1. \A r : Ending(r)' => Ending(r)
    BY <1>1 DEF Ending
  <2> QED BY <1>1, <2>1, Frames
<1>3. CASE Live(s.run)
  <2> DEFINE st == IF s.ok THEN "succeeded" ELSE "ended"
  <2>1. Finish(st, {}, <<>>) /\ active # None /\ phase = "up" /\ st \in {"succeeded", "ended"}
    BY <1>1, <1>3 DEF Live, Inv, Halted
  <2> HIDE DEF st
  <2>2. /\ waiting' \in Seq(Inject) /\ Separate(waiting') /\ room' \in Turn \cup {None, Other}
        /\ settling' \subseteq [run : Run, ok : BOOLEAN] /\ past' \subseteq Run
        /\ \A r : Waits(r)' => Waits(r)
        /\ \A r : Runs(r)' => Runs(r) /\ ~Ending(r)'
        /\ \A r : Waits(r)' /\ Runs(r)' => room'.abort # "none"
        /\ \A r \in Run : r \in past' => ~Runs(r)' /\ (r \in past \/ (Runs(r) /\ room.abort = "none"))
    BY <1>1, <1>2, RoomFacts
  <2>3. UNCHANGED <<table, agent, phase, queue, bypass, human>> /\ todo = <<>>
    BY <1>1
  <2> QED BY ONLY Inv, <2>1, <2>2, <2>3, FinishKeeps
<1>4. CASE ~Live(s.run)
  <2>1. UNCHANGED <<job, asked, kills, of, status, successes, agent, phase, todo, active, queue, rotating,
                    bypass, room, human, waiting, past>>
    BY <1>1, <1>4 DEF table, rows
  <2>2. Types'
    BY <1>1, <2>1 DEF Inv, Types, TypeOK
  <2>3. Numbered' /\ Withdrawn'
    BY <2>1, Counted
  <2>4. Distinct'
    BY <2>1 DEF Inv, Distinct
  <2>5. Halted'
    BY <1>1, <2>1 DEF Inv, Halted
  <2>6. ASSUME NEW r \in Run PROVE Own(r)'
    <3>1. Own(r)
      BY DEF Inv
    <3>2. /\ Placed(r)' <=> Placed(r)
          /\ Called(r)' <=> Called(r)
          /\ InQueue(r)' <=> InQueue(r)
          /\ Live(r)' <=> Live(r)
      BY <2>1, Frames
    <3>3. Somewhere(r)' /\ Unstarted(r)' /\ Working(r)'
      BY <1>2, <2>1, <3>1, <3>2 DEF Own, Somewhere, Unstarted, Working, At
    <3>4. Recorded(r)'
      BY <1>2, <2>1, <3>1, <3>2 DEF Own, Recorded, At
    <3> QED BY <3>3, <3>4 DEF Own
  <2> QED BY <2>2, <2>3, <2>4, <2>5, <2>6 DEF Inv
<1> QED BY <1>3, <1>4

LEMMA DropWaitingKeeps == Inv /\ DropWaiting => Inv'
PROOF
<1> SUFFICES ASSUME Inv, DropWaiting PROVE Inv'
  OBVIOUS
<1>1. /\ todo = <<>> /\ waiting' = <<>>
      /\ IF active # None /\ Waits(active.run) THEN Finish("ended", {}, <<>>)
         ELSE UNCHANGED <<rows, todo, active, rotating>>
      /\ UNCHANGED <<table, agent, phase, queue, bypass, human>>
      /\ UNCHANGED <<room, settling, past>>
  BY DEF DropWaiting, Quiet
<1>2. waiting' \in Seq(Inject) /\ Separate(waiting') /\ \A r : ~Waits(r)'
  BY <1>1, NoneNamed, Asked
<1>3. \A r : (Runs(r)' <=> Runs(r)) /\ (Ending(r)' <=> Ending(r))
  BY <1>1, Frames
<1>4. CASE active # None /\ Waits(active.run)
  <2>1. Finish("ended", {}, <<>>) /\ active # None /\ phase = "up" /\ "ended" \in {"succeeded", "ended"}
    BY <1>1, <1>4 DEF Inv, Halted
  <2>2. /\ room' \in Turn \cup {None, Other}
        /\ settling' \subseteq [run : Run, ok : BOOLEAN] /\ past' \subseteq Run
        /\ \A r : Waits(r)' => Waits(r)
        /\ \A r : Runs(r)' => Runs(r) /\ ~Ending(r)'
        /\ \A r : Waits(r)' /\ Runs(r)' => room'.abort # "none"
        /\ \A r \in Run : r \in past' => ~Runs(r)' /\ (r \in past \/ (Runs(r) /\ room.abort = "none"))
    BY <1>1, <1>2, <1>3, RoomFacts
  <2> QED BY ONLY Inv, <1>1, <1>2, <2>1, <2>2, FinishKeeps
<1>5. CASE ~(active # None /\ Waits(active.run))
  <2>1. UNCHANGED <<job, asked, kills, of, status, successes, agent, phase, todo, active, queue, rotating,
                    bypass, room, human, settling, past>>
    BY <1>1, <1>5 DEF table, rows
  <2>2. Types'
    BY <1>2, <2>1 DEF Inv, Types, TypeOK
  <2>3. Numbered' /\ Withdrawn'
    BY <2>1, Counted
  <2>4. Distinct'
    BY <1>2, <2>1 DEF Inv, Distinct
  <2>5. Halted'
    BY <1>1, <2>1 DEF Inv, Halted
  <2>6. ASSUME NEW r \in Run PROVE Own(r)'
    <3>1. Own(r)
      BY DEF Inv
    <3>2. /\ Placed(r)' <=> Placed(r)
          /\ Called(r)' <=> Called(r)
          /\ InQueue(r)' <=> InQueue(r)
          /\ Live(r)' <=> Live(r)
      BY <2>1, Frames
    <3>3. Somewhere(r)' /\ Unstarted(r)' /\ Working(r)'
      BY <1>2, <1>3, <2>1, <3>1, <3>2 DEF Own, Somewhere, Unstarted, Working, At
    <3>4. Recorded(r)'
      BY <1>2, <1>3, <2>1, <3>1, <3>2 DEF Own, Recorded, At
    <3> QED BY <3>3, <3>4 DEF Own
  <2> QED BY <2>2, <2>3, <2>4, <2>5, <2>6 DEF Inv
<1> QED BY <1>4, <1>5

(* The room falls idle, and the scheduler learns nothing yet.                *)
LEMMA IdleKeeps ==
  ASSUME Inv, room' = None, UNCHANGED <<rows, todo, active, rotating, table, agent, phase, queue, bypass, human>>,
         waiting' \in Seq(Inject), Separate(waiting'), \A r : Waits(r)' => Waits(r),
         settling' \subseteq [run : Run, ok : BOOLEAN], past' \subseteq Run,
         phase = "down" => waiting' = <<>> /\ settling' = {},
         \A r \in Run : r \in past' => r \in past \/ (Runs(r) /\ room.abort = "none")
  PROVE  Inv'
PROOF
<1>1. UNCHANGED <<job, asked, kills, of, status, successes, agent, phase, todo, active, queue, rotating, bypass, human>>
  BY DEF table, rows
<1>2. \A r : ~Runs(r)'
  BY DEF Runs
<1>3. Types'
  BY <1>1 DEF Inv, Types, TypeOK
<1>4. Numbered' /\ Withdrawn'
  BY <1>1, Counted
<1>5. Distinct'
  BY <1>1 DEF Inv, Distinct
<1>6. Halted'
  BY <1>1 DEF Inv, Halted
<1>7. ASSUME NEW r \in Run PROVE Own(r)'
  <2>1. Own(r)
    BY DEF Inv
  <2>2. /\ Placed(r)' <=> Placed(r)
        /\ Called(r)' <=> Called(r)
        /\ InQueue(r)' <=> InQueue(r)
        /\ Live(r)' <=> Live(r)
    BY <1>1, Frames
  <2>3. (Waits(r)' => Waits(r)) /\ ~Runs(r)' /\ (r \in past' => r \in past \/ (Runs(r) /\ room.abort = "none"))
    BY <1>2
  <2>4. Somewhere(r)' /\ Unstarted(r)' /\ Working(r)'
    BY <1>1, <2>1, <2>2, <2>3 DEF Own, Somewhere, Unstarted, Working, At
  <2>5. Recorded(r)'
    BY <1>1, <2>1, <2>2, <2>3 DEF Own, Recorded, At
  <2> QED BY <2>4, <2>5 DEF Own
<1> QED BY <1>3, <1>4, <1>5, <1>6, <1>7 DEF Inv

(* The room takes its next inject, or refuses it, or has none.               *)
LEMMA ResumeKeeps ==
  ASSUME Inv, todo = <<>>, NEW ended, ended \subseteq [run : Run, ok : BOOLEAN], Resume(ended),
         UNCHANGED <<table, agent, phase, queue, bypass, human>>,
         phase = "down" => ended = {}, past' \subseteq Run,
         \A r \in Run : r \in past' => r \in past \/ (Runs(r) /\ room.abort = "none")
  PROVE  Inv'
PROOF
<1>1. UNCHANGED <<job, asked, kills, of, agent, phase, queue, bypass, human>>
  BY DEF table
<1>2. /\ waiting \in Seq(Inject) /\ Separate(waiting) /\ settling \subseteq [run : Run, ok : BOOLEAN]
      /\ \A r : Waits(r) /\ Runs(r) => room.abort # "none"
      /\ \A r : r \in past => ~Waits(r)
  BY RoomFacts
<1>3. phase = "down" => waiting = <<>> /\ settling = {}
  BY DEF Inv, Halted
<1>4. CASE waiting = <<>>
  <2>1. room' = None /\ settling' = settling \cup ended /\ UNCHANGED <<rows, todo, active, rotating, waiting>>
    BY <1>4 DEF Resume
  <2>2. /\ waiting' \in Seq(Inject) /\ Separate(waiting') /\ \A r : Waits(r)' => Waits(r)
        /\ settling' \subseteq [run : Run, ok : BOOLEAN]
        /\ phase = "down" => waiting' = <<>> /\ settling' = {}
    BY <1>2, <1>3, <2>1, Frames
  <2> QED BY <2>1, <2>2, IdleKeeps
<1>5. CASE waiting # <<>>
  <2> DEFINE e == Head(waiting)
  <2>0. PICK q : q = e.run
    OBVIOUS
  <2>1. /\ waiting' = Tail(waiting)
        /\ IF agent /\ ~e.stale
           THEN Begin(q, ended) /\ UNCHANGED <<successes, todo, rotating>>
           ELSE /\ room' = None /\ settling' = settling \cup ended
                /\ IF Live(q) /\ (~agent \/ active.at # "sent")
                   THEN Finish("ended", {}, <<>>)
                   ELSE UNCHANGED <<rows, todo, active, rotating>>
    BY <1>5, <2>0 DEF Resume
  <2>2. /\ e \in Inject /\ waiting' \in Seq(Inject) /\ Separate(waiting')
        /\ \A r : Named(waiting, r) <=> r = q \/ Named(waiting', r)
        /\ ~Named(waiting', q)
    BY <1>2, <1>5, <2>0, <2>1, Taken
  <2>3. q \in Run
    BY <2>0, <2>2 DEF Inject
  <2> HIDE DEF e
  <2>4. Waits(q) /\ ~Waits(q)' /\ \A r : Waits(r)' => Waits(r)
    BY <2>2, Asked
  <2>5. phase # "down"
    BY <1>3, <1>5
  <2>6. CASE agent /\ ~e.stale
    <3>1. Begin(q, ended) /\ UNCHANGED <<successes, todo, rotating>>
      BY <2>1, <2>6
    <3>2. Types /\ Own(q)
      BY <2>3 DEF Inv
    <3>3. /\ room' \in Turn /\ active' \in Active \cup {None} /\ status' \in [Run -> Status]
          /\ \A r \in Run : status'[r] = IF r = q /\ Live(q) /\ status[q] # "gone" THEN "running" ELSE status[r]
          /\ settling' \subseteq [run : Run, ok : BOOLEAN]
          /\ active' = None <=> active = None
      BY <2>3, <3>1, <3>2, BeginFacts
    <3>4. status[q] # "none" /\ ~Placed(q) /\ ~InQueue(q) /\ ~Called(q)
      BY <2>4, <3>2 DEF Own, Unstarted, Recorded
    <3>5. Types'
      BY <1>1, <2>2, <3>1, <3>3 DEF Inv, Types, TypeOK
    <3>6. Numbered' /\ Withdrawn'
      <4>1. \A r \in Run : status'[r] = "none" <=> status[r] = "none"
        BY <3>3, <3>4
      <4> QED BY <1>1, <4>1, Counted
    <3>7. Distinct'
      BY <1>1, <2>2, <3>1 DEF Inv, Distinct
    <3>8. Halted'
      BY <1>1, <2>5, <3>1, <3>3 DEF Inv, Halted
    <3>9. ASSUME NEW r \in Run PROVE Own(r)'
      <4>1. /\ Placed(r)' <=> Placed(r)
            /\ Called(r)' <=> Called(r)
            /\ Called(q)' <=> Called(q)
        <5>1. todo' = todo
          BY <3>1
        <5> QED BY ONLY <5>1, Frames
      <4>2. (Waits(r)' => Waits(r)) /\ ~Waits(q)'
        BY <2>4
      <4>3. q \notin past' /\ (r \in past' => r \in past \/ (Runs(r) /\ room.abort = "none"))
        BY <1>2, <2>3, <2>4
      <4>4. UNCHANGED <<phase, of, job, queue>>
        BY <1>1
      <4>5. Begin(q, ended) /\ status[q] # "none" /\ ~Placed(q) /\ ~InQueue(q) /\ ~Called(q)'
        BY <3>1, <3>4, <4>1
      <4>6. (Called(r)' => Called(r)) /\ ended \subseteq [run : Run, ok : BOOLEAN]
        BY <4>1
      <4> QED BY ONLY Inv, q \in Run, r \in Run, <2>3, <2>5, <4>1, <4>2, <4>3, <4>4, <4>5, <4>6, OwnBegins
    <3> QED BY <3>5, <3>6, <3>7, <3>8, <3>9 DEF Inv
  <2>7. CASE ~(agent /\ ~e.stale)
    <3>1. /\ room' = None /\ settling' = settling \cup ended
          /\ IF Live(q) /\ (~agent \/ active.at # "sent")
             THEN Finish("ended", {}, <<>>)
             ELSE UNCHANGED <<rows, todo, active, rotating>>
      BY <2>1, <2>7
    <3>2. settling' \subseteq [run : Run, ok : BOOLEAN] /\ \A r : ~Runs(r)'
      BY <1>2, <3>1 DEF Runs
    <3>3. CASE Live(q) /\ (~agent \/ active.at # "sent")
      <4>1. /\ Finish("ended", {}, <<>>) /\ active # None /\ phase = "up" /\ "ended" \in {"succeeded", "ended"}
            /\ room' \in Turn \cup {None, Other}
        BY <3>1, <3>3 DEF Live, Inv, Halted
      <4>2. /\ \A r : Runs(r)' => Runs(r) /\ ~Ending(r)'
            /\ \A r : Waits(r)' /\ Runs(r)' => room'.abort # "none"
            /\ \A r \in Run : r \in past' => ~Runs(r)' /\ (r \in past \/ (Runs(r) /\ room.abort = "none"))
        BY <3>2
      <4>3. UNCHANGED <<table, agent, phase, queue, bypass, human>> /\ todo = <<>> /\ past' \subseteq Run
        OBVIOUS
      <4> QED BY ONLY Inv, <2>2, <2>4, <3>2, <4>1, <4>2, <4>3, FinishKeeps
    <3>4. CASE ~(Live(q) /\ (~agent \/ active.at # "sent"))
      <4>1. room' = None /\ UNCHANGED <<rows, todo, active, rotating>>
        BY <3>1, <3>4
      <4>2. phase = "down" => waiting' = <<>> /\ settling' = {}
        BY <2>5
      <4> QED BY <2>2, <2>4, <3>2, <4>1, <4>2, IdleKeeps
    <3> QED BY <3>3, <3>4
  <2> QED BY <2>6, <2>7
<1> QED BY <1>4, <1>5

LEMMA LeaveKeeps ==
  ASSUME Inv, NEW ended, ended \subseteq [run : Run, ok : BOOLEAN], Leave(ended),
         UNCHANGED <<table, agent, phase, queue, bypass, human>>,
         phase = "down" => ended = {}, past' \subseteq Run,
         \A r \in Run : r \in past' => r \in past \/ (Runs(r) /\ room.abort = "none")
  PROVE  Inv'
PROOF
<1>1. room' = None /\ settling' = settling \cup ended /\ UNCHANGED <<rows, todo, active, rotating, waiting>>
  BY DEF Leave
<1>2. waiting \in Seq(Inject) /\ Separate(waiting) /\ settling \subseteq [run : Run, ok : BOOLEAN]
  BY RoomFacts
<1>3. phase = "down" => waiting = <<>> /\ settling = {}
  BY DEF Inv, Halted
<1>4. /\ waiting' \in Seq(Inject) /\ Separate(waiting') /\ \A r : Waits(r)' => Waits(r)
      /\ settling' \subseteq [run : Run, ok : BOOLEAN]
      /\ phase = "down" => waiting' = <<>> /\ settling' = {}
  BY <1>1, <1>2, <1>3, Frames
<1> QED BY <1>1, <1>4, IdleKeeps

LEMMA TurnEndsKeeps == \A ok \in BOOLEAN : Inv /\ TurnEnds(ok) => Inv'
PROOF
<1> SUFFICES ASSUME NEW ok \in BOOLEAN, Inv, TurnEnds(ok) PROVE Inv'
  OBVIOUS
<1> DEFINE ended == IF room.abort = "internal" /\ room.requeued THEN {}
                    ELSE {[run |-> room.run, ok |-> ok]}
<1>1. /\ phase # "down" /\ todo = <<>> /\ room \notin {None, Other}
      /\ ok => room.abort = "none"
      /\ IF human THEN Leave(ended) ELSE Resume(ended)
      /\ past' = IF ok THEN past \cup {room.run} ELSE past
      /\ UNCHANGED <<table, agent, phase, queue, bypass, human>>
  BY DEF TurnEnds, Quiet
<1>2. room.run \in Run /\ Runs(room.run) /\ past \subseteq Run
  BY <1>1, TypeFacts, RoomFacts DEF Inv, Runs
<1>3. ended \subseteq [run : Run, ok : BOOLEAN]
  BY <1>2
<1> HIDE DEF ended
<1>4. past' \subseteq Run /\ \A r \in Run : r \in past' => r \in past \/ (Runs(r) /\ room.abort = "none")
  BY <1>1, <1>2
<1>5. phase = "down" => ended = {}
  BY <1>1
<1>6. CASE human
  <2>1. Leave(ended)
    BY <1>1, <1>6
  <2> QED BY <1>1, <1>3, <1>4, <1>5, <2>1, LeaveKeeps
<1>7. CASE ~human
  <2>1. Resume(ended)
    BY <1>1, <1>7
  <2> QED BY <1>1, <1>3, <1>4, <1>5, <2>1, ResumeKeeps
<1> QED BY <1>6, <1>7

LEMMA OtherEndsKeeps == Inv /\ OtherEnds => Inv'
PROOF
<1> SUFFICES ASSUME Inv, OtherEnds PROVE Inv'
  OBVIOUS
<1> DEFINE ended == {}
<1>1. /\ todo = <<>> /\ (Leave(ended) \/ (~human /\ Resume(ended)))
      /\ UNCHANGED <<table, agent, phase, queue, bypass, human>> /\ past' = past
  BY DEF OtherEnds
<1>2. ended \subseteq [run : Run, ok : BOOLEAN] /\ (phase = "down" => ended = {})
  OBVIOUS
<1> HIDE DEF ended
<1>3. past' \subseteq Run /\ \A r \in Run : r \in past' => r \in past \/ (Runs(r) /\ room.abort = "none")
  BY <1>1, RoomFacts
<1>4. CASE Leave(ended)
  BY <1>1, <1>2, <1>3, <1>4, LeaveKeeps
<1>5. CASE ~human /\ Resume(ended)
  BY <1>1, <1>2, <1>3, <1>5, ResumeKeeps
<1> QED BY <1>1, <1>4, <1>5

-----------------------------------------------------------------------------
LEMMA RotationEndsKeeps == \A ok \in BOOLEAN : Inv /\ RotationEnds(ok) => Inv'
PROOF
<1> SUFFICES ASSUME NEW ok \in BOOLEAN, Inv, RotationEnds(ok) PROVE Inv'
  OBVIOUS
<1>1. /\ phase # "down" /\ todo = <<>> /\ rotating' = FALSE
      /\ successes' = IF ok THEN 0 ELSE successes
      /\ bypass' = (bypass \/ ~ok)
      /\ todo' = IF phase = "up" THEN <<Drain>> ELSE <<>>
      /\ UNCHANGED <<job, asked, kills, of, status, agent, phase, active, queue, room, human, waiting, settling, past>>
  BY DEF RotationEnds, Quiet, table, slot
<1>2. /\ todo' \in Seq(Todo) /\ Single(todo')
      /\ \A r \in Run : (Placed(r)' <=> Placed(r)) /\ (Called(r)' <=> Called(r))
  <2>1. CASE phase = "up"
    <3>1. todo = <<>> /\ todo' = <<Drain>> /\ Drain \in {Drain, Tick, Claim}
      BY <1>1, <2>1
    <3> QED BY ONLY <3>1, OneTodo
  <2>2. CASE phase # "up"
    <3>1. todo' = todo /\ todo' = <<>>
      BY <1>1, <2>2
    <3> QED BY <3>1, NoStep, Frames
  <2> QED BY <2>1, <2>2
<1>3. successes' \in 0..RotateEvery /\ bypass' \in BOOLEAN
  <2>1. successes \in 0..RotateEvery /\ 0 \in 0..RotateEvery
    BY TypeFacts, BoundAssumption DEF Inv
  <2>2. bypass' \in BOOLEAN
    BY <1>1, Zenon
  <2> QED BY <1>1, <2>1, <2>2
<1>4. Types'
  BY <1>1, <1>2, <1>3 DEF Inv, Types, TypeOK
<1>5. Numbered' /\ Withdrawn'
  BY <1>1, Counted
<1>6. Distinct'
  BY <1>1, <1>2 DEF Inv, Distinct
<1>7. Halted'
  <2>1. phase # "up" => todo' = <<>>
    BY <1>1
  <2> QED BY <1>1, <2>1 DEF Inv, Halted
<1>8. \A r \in Run : Own(r)'
  BY <1>1, <1>2, OwnSame
<1> QED BY <1>4, <1>5, <1>6, <1>7, <1>8 DEF Inv

LEMMA AgesKeeps == Inv /\ Ages => Inv'
PROOF
<1> SUFFICES ASSUME Inv, Ages PROVE Inv'
  OBVIOUS
<1>1. /\ \E i \in DOMAIN queue : queue' = [queue EXCEPT ![i].late = TRUE]
      /\ phase = "up" /\ todo = <<>>
      /\ UNCHANGED <<job, asked, kills, of, status, successes, agent, phase, todo, active, rotating, bypass,
                     room, human, waiting, settling, past>>
  BY DEF Ages, Up, table, rows, slot
<1>2. queue \in Seq(Queued) /\ Separate(queue)
  BY TypeFacts DEF Inv, Distinct
<1>3. /\ queue' \in Seq(Queued) /\ DOMAIN queue' = DOMAIN queue
      /\ \A k \in DOMAIN queue : queue'[k].run = queue[k].run
  <2>1. PICK i \in DOMAIN queue : queue' = [queue EXCEPT ![i].late = TRUE]
    BY <1>1
  <2>2. queue[i] \in Queued
    BY <1>2
  <2>3. [queue[i] EXCEPT !.late = TRUE] \in Queued /\ [queue[i] EXCEPT !.late = TRUE].run = queue[i].run
    BY <2>2 DEF Queued
  <2>4. queue' = [queue EXCEPT ![i] = [queue[i] EXCEPT !.late = TRUE]]
    BY <2>1
  <2> QED BY <1>2, <2>3, <2>4
<1>4. (\A r : Named(queue', r) <=> Named(queue, r)) /\ Separate(queue')
  BY <1>2, <1>3, Relabelled
<1>5. \A r : InQueue(r)' <=> InQueue(r)
  BY <1>4, Asked DEF InQueue
<1>6. Types'
  BY <1>1, <1>3 DEF Inv, Types, TypeOK
<1>7. Numbered' /\ Withdrawn'
  BY <1>1, Counted
<1>8. Distinct'
  BY <1>1, <1>4 DEF Inv, Distinct
<1>9. Halted'
  BY <1>1 DEF Inv, Halted
<1>10. ASSUME NEW r \in Run PROVE Own(r)'
  <2>1. Own(r)
    BY DEF Inv
  <2>2. /\ Placed(r)' <=> Placed(r)
        /\ Called(r)' <=> Called(r)
        /\ Live(r)' <=> Live(r)
        /\ Waits(r)' <=> Waits(r)
        /\ Runs(r)' <=> Runs(r)
        /\ Ending(r)' <=> Ending(r)
    BY <1>1, Frames
  <2>3. Somewhere(r)' /\ Unstarted(r)' /\ Working(r)'
    BY <1>1, <1>5, <2>1, <2>2 DEF Own, Somewhere, Unstarted, Working, At
  <2>4. Recorded(r)'
    BY <1>1, <1>5, <2>1, <2>2 DEF Own, Recorded, At
  <2> QED BY <2>3, <2>4 DEF Own
<1> QED BY <1>6, <1>7, <1>8, <1>9, <1>10 DEF Inv

LEMMA StopKeeps == Inv /\ Stop => Inv'
PROOF
<1> SUFFICES ASSUME Inv, Stop PROVE Inv'
  OBVIOUS
<1>1. /\ phase = "up" /\ todo = <<>> /\ phase' = "stopped"
      /\ status' = Closed(Queue \cup {r \in Run : Live(r)}, "ended")
      /\ waiting' = IF active = None THEN waiting ELSE Without(active.run)
      /\ room' = IF active = None THEN room ELSE Stopped(active.run)
      /\ active' = None /\ queue' = <<>> /\ bypass' = FALSE
      /\ UNCHANGED <<job, asked, kills, of, successes, agent, todo, rotating, human, settling, past>>
  BY DEF Stop, Up, table
<1>2. /\ status' \in [Run -> Status]
      /\ \A r \in Run : status'[r] = IF r \in Queue \cup {q \in Run : Live(q)} /\ status[r] \in Open THEN "ended" ELSE status[r]
      /\ \A r \in Run : status'[r] = "none" <=> status[r] = "none"
  <2>1. status \in [Run -> Status] /\ "ended" \in Status \ {"none"}
    BY TypeFacts DEF Inv, Status
  <2> QED BY <1>1, <2>1, ClosedFacts
<1>3. /\ waiting' \in Seq(Inject) /\ Separate(waiting') /\ \A r : Waits(r)' => Waits(r)
  <2>1. CASE active = None
    BY <1>1, <2>1, RoomFacts, Frames
  <2>2. CASE active # None
    BY <1>1, <2>2, WithoutFacts, Asked
  <2> QED BY <2>1, <2>2
<1>4. /\ room' \in Turn \cup {None, Other} /\ \A r : Runs(r)' <=> Runs(r)
      /\ room' = room \/ (\E r : Runs(r) /\ room'.abort = "external")
  <2>1. CASE active = None
    BY <1>1, <2>1, RoomFacts, Frames
  <2>2. CASE active # None
    BY <1>1, <2>2, StoppedFacts DEF Inv
  <2> QED BY <2>1, <2>2
<1>5. Types'
  <2>1. active' \in Active \cup {None} /\ queue' \in Seq(Queued)
    <3>1. active' = None /\ queue' = <<>>
      BY <1>1
    <3> QED BY <3>1
  <2>4. bypass' \in BOOLEAN
    BY <1>1, Zenon
  <2>2. phase' \in {"down", "up", "stopped"}
    BY <1>1
  <2>3. Types
    BY DEF Inv
  <2> QED BY <1>1, <1>2, <1>3, <1>4, <2>1, <2>2, <2>3, <2>4 DEF Types, TypeOK
<1>6. Numbered' /\ Withdrawn'
  BY <1>1, <1>2, Counted
<1>7. Separate(<<>>) /\ \A r : ~Named(<<>>, r)
  BY NoneNamed
<1>8. Distinct'
  BY <1>1, <1>3, <1>7 DEF Inv, Distinct
<1>9. Halted'
  BY <1>1 DEF Halted
<1>10. ASSUME NEW r \in Run PROVE Own(r)'
  <2>1. Own(r) /\ Placed(r)' = Placed(r) /\ Called(r)' = Called(r)
    BY <1>1 DEF Inv, Placed, Called
  <2>2. ~InQueue(r)' /\ ~Live(r)' /\ ~Placed(r)' /\ ~Called(r)' /\ ~Placed(r)
    BY <1>1, <1>7, <2>1, NoStep, Asked DEF Live, Placed, Called
  <2>3. (Ending(r)' <=> Ending(r)) /\ (InQueue(r) <=> r \in Queue)
    BY <1>1, Frames, Asked
  <2>4. Waits(r)' /\ Runs(r)' => room'.abort # "none"
    BY <1>3, <1>4, <2>1 DEF Own, Working
  <2>5. status'[r] \notin Open
    BY <1>1, <1>2, <2>1, <2>2, <2>3 DEF Own, Recorded, Open
  <2>6. /\ status'[r] = "none" <=> status[r] = "none"
        /\ status[r] = "gone" => status'[r] = "gone"
    BY <1>2 DEF Open
  <2>7. Somewhere(r)' /\ Unstarted(r)'
    BY <2>2 DEF Somewhere, Unstarted, At
  <2>8. Working(r)'
    BY <1>1, <1>3, <1>4, <2>1, <2>3, <2>4 DEF Own, Working
  <2>9. Recorded(r)'
    BY <1>1, <1>3, <1>4, <2>1, <2>2, <2>5, <2>6 DEF Own, Recorded, Open
  <2> QED BY <2>7, <2>8, <2>9 DEF Own
<1> QED BY <1>5, <1>6, <1>8, <1>9, <1>10 DEF Inv

LEMMA CrashKeeps == Inv /\ Crash => Inv'
PROOF
<1> SUFFICES ASSUME Inv, Crash PROVE Inv'
  OBVIOUS
<1>1. /\ phase' = "down" /\ todo' = <<>> /\ active' = None /\ queue' = <<>> /\ rotating' = FALSE /\ bypass' = FALSE
      /\ room' = IF room = None THEN None ELSE Other
      /\ waiting' = <<>> /\ settling' = {} /\ past' = past \cup {r \in Run : Runs(r)}
      /\ UNCHANGED <<job, asked, kills, of, status, successes, agent, human>>
  BY DEF Crash, table, rows
<1>2. todo' \in Seq(Todo) /\ Single(todo') /\ \A y : ~Has(todo', y)
  BY <1>1, NoStep
<1>3. waiting' \in Seq(Inject) /\ Separate(waiting') /\ queue' \in Seq(Queued) /\ Separate(queue')
  BY <1>1, NoneNamed
<1>4. Types'
  <2>1. /\ past' \subseteq Run /\ room' \in Turn \cup {None, Other} /\ active' \in Active \cup {None}
        /\ settling' \subseteq [run : Run, ok : BOOLEAN] /\ rotating' \in BOOLEAN /\ bypass' \in BOOLEAN
    BY <1>1, RoomFacts
  <2>2. phase' \in {"down", "up", "stopped"}
    BY <1>1
  <2> QED BY <1>1, <1>2, <1>3, <2>1, <2>2 DEF Inv, Types, TypeOK
<1>5. Numbered' /\ Withdrawn'
  BY <1>1, Counted
<1>6. Distinct'
  BY <1>2, <1>3 DEF Distinct
<1>7. Halted'
  BY <1>1 DEF Halted
<1>8. ASSUME NEW r \in Run PROVE Own(r)'
  <2>1. Own(r)
    BY DEF Inv
  <2>2. ~Placed(r)' /\ ~Called(r)'
    BY <1>2, Asked
  <2>3. ~InQueue(r)' /\ ~Waits(r)'
    BY <1>1, NoneNamed, Asked
  <2>4. ~Live(r)' /\ ~Runs(r)'
    BY <1>1 DEF Live, Runs
  <2>5. Somewhere(r)' /\ Unstarted(r)' /\ Working(r)'
    BY <2>2, <2>3, <2>4 DEF Somewhere, Unstarted, Working, At
  <2>6. Recorded(r)'
    BY <1>1, <2>1, <2>2, <2>3, <2>4 DEF Own, Recorded
  <2> QED BY <2>5, <2>6 DEF Own
<1> QED BY <1>4, <1>5, <1>6, <1>7, <1>8 DEF Inv

-----------------------------------------------------------------------------
(* What people do to the room: a turn is told to stop, gives way and is      *)
(* queued again, or the room goes to somebody else.                         *)
LEMMA SlotKeeps ==
  ASSUME Inv, UNCHANGED <<job, asked, kills, of, status, successes, phase, todo, active, queue, rotating, bypass,
                          settling, past>>,
         agent' \in BOOLEAN, human' \in BOOLEAN,
         room' \in Turn \cup {None, Other}, waiting' \in Seq(Inject), Separate(waiting'),
         phase = "down" => waiting' = <<>> /\ room' \in {None, Other},
         \A r : Runs(r)' <=> Runs(r), \A r : Waits(r)' => Waits(r) \/ Runs(r),
         \A r : Waits(r)' /\ Runs(r)' => room'.abort # "none"
  PROVE  Inv'
PROOF
<1>1. Types'
  BY DEF Inv, Types, TypeOK
<1>2. Numbered' /\ Withdrawn'
  BY Counted
<1>3. Distinct'
  BY DEF Inv, Distinct
<1>4. Halted'
  BY DEF Inv, Halted
<1>5. ASSUME NEW r \in Run PROVE Own(r)'
  <2>1. Own(r)
    BY DEF Inv
  <2>2. /\ Placed(r)' <=> Placed(r)
        /\ Called(r)' <=> Called(r)
        /\ InQueue(r)' <=> InQueue(r)
        /\ Live(r)' <=> Live(r)
        /\ Ending(r)' <=> Ending(r)
    BY Frames
  <2>3. (Runs(r)' <=> Runs(r)) /\ (Waits(r)' => Waits(r) \/ Runs(r)) /\ (Waits(r)' /\ Runs(r)' => room'.abort # "none")
    OBVIOUS
  <2>4. Somewhere(r)'
    BY <2>1, <2>2 DEF Own, Somewhere
  <2>5. Unstarted(r)'
    BY <2>1, <2>2, <2>3 DEF Own, Unstarted, At
  <2>6. Working(r)'
    BY <2>1, <2>2, <2>3 DEF Own, Working
  <2>7. Recorded(r)'
    BY <2>1, <2>2, <2>3 DEF Own, Recorded, At
  <2> QED BY <2>4, <2>5, <2>6, <2>7 DEF Own
<1> QED BY <1>1, <1>2, <1>3, <1>4, <1>5 DEF Inv

LEMMA UserMessageKeeps == Inv /\ UserMessage => Inv'
PROOF
<1> SUFFICES ASSUME Inv, UserMessage PROVE Inv'
  OBVIOUS
<1>1. /\ phase # "down" /\ human' = (human \/ room # None)
      /\ UNCHANGED <<job, asked, kills, of, status, successes, agent, phase, todo, active, queue, rotating, bypass,
                     settling, past>>
      /\ IF room \in {None, Other}
         THEN room' = Other /\ UNCHANGED waiting
         ELSE /\ room' = [room EXCEPT !.abort = "internal", !.requeued = ~Waits(room.run)]
              /\ waiting' = IF Waits(room.run) THEN waiting
                            ELSE Append(waiting, [run |-> room.run, stale |-> room.stale])
  BY DEF UserMessage, Quiet, table, rows, memory
<1>2. /\ waiting \in Seq(Inject) /\ Separate(waiting) /\ agent \in BOOLEAN
      /\ room \notin {None, Other} => room \in Turn
  BY RoomFacts DEF Inv, Types
<1>3. human' \in BOOLEAN
  BY <1>1, Zenon
<1>4. CASE room \in {None, Other}
  <2>1. room' = Other /\ waiting' = waiting
    BY <1>1, <1>4
  <2>2. \A r : (Runs(r)' <=> Runs(r)) /\ (Waits(r)' <=> Waits(r)) /\ ~Runs(r)
    BY <1>4, <2>1, Frames DEF Runs
  <2>3. room' \in Turn \cup {None, Other}
    BY <2>1
  <2> QED BY <1>1, <1>2, <1>3, <2>1, <2>2, <2>3, SlotKeeps
<1>5. CASE room \notin {None, Other}
  <2>1. PICK q : q = room.run
    OBVIOUS
  <2>2. PICK w \in BOOLEAN : w <=> Waits(q)
    OBVIOUS
  <2>3. room' = [room EXCEPT !.abort = "internal", !.requeued = ~w]
    BY <1>1, <1>5, <2>1, <2>2
  <2>4. room \in Turn /\ q \in Run /\ room.stale \in BOOLEAN
    BY <1>2, <1>5, <2>1 DEF Turn
  <2>5. room' \in Turn /\ room'.abort = "internal" /\ room'.run = q
    BY <2>1, <2>3, <2>4 DEF Turn
  <2>6. room' \notin {None, Other}
    BY <2>5, NoneAssumption
  <2>7. \A r : (Runs(r)' <=> r = q) /\ (Runs(r) <=> r = q)
    BY <1>5, <2>1, <2>5, <2>6 DEF Runs
  <2>8. waiting' \in Seq(Inject) /\ Separate(waiting') /\ \A r : Waits(r)' => Waits(r) \/ r = q
    <3>1. CASE Waits(q)
      BY <1>1, <1>2, <1>5, <2>1, <3>1, Frames
    <3>2. CASE ~Waits(q)
      <4> DEFINE e == [run |-> q, stale |-> room.stale]
      <4>1. waiting' = Append(waiting, e)
        BY <1>1, <1>5, <2>1, <3>2
      <4>2. e \in Inject /\ e.run = q
        BY <2>4 DEF Inject
      <4> HIDE DEF e
      <4>3. ~Named(waiting, e.run)
        BY <3>2, <4>2, Asked
      <4> QED BY <1>2, <4>1, <4>2, <4>3, Put, Asked
    <3> QED BY <3>1, <3>2
  <2>9. /\ room' \in Turn \cup {None, Other} /\ \A r : Runs(r)' <=> Runs(r)
        /\ \A r : Waits(r)' => Waits(r) \/ Runs(r)
        /\ \A r : Waits(r)' /\ Runs(r)' => room'.abort # "none"
    BY <2>5, <2>7, <2>8
  <2> QED BY <1>1, <1>2, <1>3, <2>8, <2>9, SlotKeeps
<1> QED BY <1>4, <1>5

LEMMA UserTakesKeeps == Inv /\ UserTakes => Inv'
PROOF
<1> SUFFICES ASSUME Inv, UserTakes PROVE Inv'
  OBVIOUS
<1>1. /\ room = None /\ room' = Other /\ human' = FALSE
      /\ UNCHANGED <<job, asked, kills, of, status, successes, agent, phase, todo, active, queue, rotating, bypass,
                     waiting, settling, past>>
  BY DEF UserTakes, table, rows, memory
<1>2. /\ waiting \in Seq(Inject) /\ Separate(waiting) /\ agent \in BOOLEAN /\ (phase = "down" => waiting = <<>>)
  BY RoomFacts DEF Inv, Types, Halted
<1>3. \A r : ~Runs(r)' /\ ~Runs(r) /\ (Waits(r)' <=> Waits(r))
  BY <1>1, Frames DEF Runs
<1> QED BY <1>1, <1>2, <1>3, SlotKeeps

LEMMA UserStopKeeps == Inv /\ UserStop => Inv'
PROOF
<1> SUFFICES ASSUME Inv, UserStop PROVE Inv'
  OBVIOUS
<1>1. /\ phase # "down" /\ human' = FALSE
      /\ room' = IF room \in {None, Other} THEN room
                 ELSE [room EXCEPT !.abort = "external", !.stale = TRUE]
      /\ waiting' = [i \in DOMAIN waiting |-> [waiting[i] EXCEPT !.stale = TRUE]]
      /\ UNCHANGED <<job, asked, kills, of, status, successes, agent, phase, todo, active, queue, rotating, bypass,
                     settling, past>>
  BY DEF UserStop, Quiet, table, rows, memory
<1>2. waiting \in Seq(Inject) /\ Separate(waiting) /\ room \in Turn \cup {None, Other} /\ agent \in BOOLEAN
  BY RoomFacts DEF Inv, Types
<1>3. /\ waiting' \in Seq(Inject) /\ DOMAIN waiting' = DOMAIN waiting
      /\ \A i \in DOMAIN waiting : waiting'[i].run = waiting[i].run
  <2>1. \A e \in Inject : [e EXCEPT !.stale = TRUE] \in Inject /\ [e EXCEPT !.stale = TRUE].run = e.run
    BY DEF Inject
  <2>2. \A i \in DOMAIN waiting : waiting[i] \in Inject
    BY <1>2
  <2>3. DOMAIN waiting' = DOMAIN waiting /\ \A i \in DOMAIN waiting : waiting'[i] = [waiting[i] EXCEPT !.stale = TRUE]
    BY <1>1
  <2>4. \A i \in DOMAIN waiting : waiting'[i] \in Inject /\ waiting'[i].run = waiting[i].run
    BY <2>1, <2>2, <2>3
  <2>5. PICK n \in Nat : DOMAIN waiting = 1..n
    BY <1>2
  <2>6. waiting' = [i \in 1..n |-> waiting'[i]]
    BY <1>1, <2>5
  <2>7. waiting' \in [1..n -> Inject]
    BY <2>4, <2>5, <2>6
  <2> QED BY <2>3, <2>4, <2>7
<1>4. (\A r : Named(waiting', r) <=> Named(waiting, r)) /\ Separate(waiting')
  BY <1>2, <1>3, Relabelled
<1>5. \A r : Waits(r)' <=> Waits(r)
  BY <1>4, Asked
<1>6. /\ room' \in Turn \cup {None, Other} /\ \A r : Runs(r)' <=> Runs(r)
      /\ \A r : Runs(r)' => room'.abort # "none"
  <2>1. CASE room \in {None, Other}
    BY <1>1, <2>1 DEF Runs
  <2>2. CASE room \notin {None, Other}
    <3>1. room' = [room EXCEPT !.abort = "external", !.stale = TRUE] /\ room \in Turn
      BY <1>1, <1>2, <2>2
    <3>2. room' \in Turn /\ room'.abort = "external" /\ room'.run = room.run
      BY <3>1 DEF Turn
    <3>3. room' \notin {None, Other}
      BY <3>2, NoneAssumption
    <3> QED BY <2>2, <3>2, <3>3 DEF Runs
  <2> QED BY <2>1, <2>2
<1> QED BY <1>1, <1>2, <1>3, <1>4, <1>5, <1>6, SlotKeeps

LEMMA AgentComesOrGoesKeeps == Inv /\ AgentComesOrGoes => Inv'
PROOF
<1> SUFFICES ASSUME Inv, AgentComesOrGoes PROVE Inv'
  OBVIOUS
<1>1. /\ agent' = ~agent
      /\ UNCHANGED <<job, asked, kills, of, status, successes, phase, todo, active, queue, rotating, bypass,
                     room, human, waiting, settling, past>>
  BY DEF AgentComesOrGoes, table, rows, memory, slot
<1>2. /\ waiting \in Seq(Inject) /\ Separate(waiting) /\ room \in Turn \cup {None, Other} /\ human \in BOOLEAN
      /\ phase = "down" => waiting = <<>> /\ room \in {None, Other}
      /\ \A r : Waits(r) /\ Runs(r) => room.abort # "none"
  BY RoomFacts DEF Inv, Types, Halted
<1>3. \A r : (Runs(r)' <=> Runs(r)) /\ (Waits(r)' <=> Waits(r))
  BY <1>1, Frames
<1>4. agent' \in BOOLEAN
  BY <1>1, Zenon
<1> QED BY <1>1, <1>2, <1>3, <1>4, SlotKeeps

-----------------------------------------------------------------------------
(* What the tools of the cron module write into the table.                   *)
LEMMA TableKeeps ==
  ASSUME Inv, UNCHANGED <<of, status, successes, agent, phase, todo, memory, slot>>,
         job' \in [Job -> {"off", "on", "due", "gone"}], asked' \in Seq(Job), kills' \subseteq Job,
         Numbered', Withdrawn', \A j \in Job : job'[j] = "gone" => job[j] = "gone"
  PROVE  Inv'
PROOF
<1>1. UNCHANGED <<active, queue, rotating, bypass, room, human, waiting, settling, past>>
  BY DEF memory, slot
<1>2. Types'
  BY <1>1 DEF Inv, Types, TypeOK
<1>3. Distinct'
  BY <1>1 DEF Inv, Distinct
<1>4. Halted'
  BY <1>1 DEF Inv, Halted
<1>5. ASSUME NEW r \in Run PROVE Own(r)'
  <2>1. Own(r)
    BY DEF Inv
  <2>2. (Placed(r)' <=> Placed(r)) /\ (Called(r)' <=> Called(r))
    BY Frames
  <2>3. status[r] # "none" /\ job'[of[r]] = "gone" => job[of[r]] = "gone"
    BY <2>1 DEF Own, Recorded
  <2> QED BY <1>1, <2>2, <2>3, OwnSame
<1> QED BY <1>2, <1>3, <1>4, <1>5 DEF Inv

(* A request or a job that falls due keeps room for its run.                 *)
LEMMA FitsFacts ==
  ASSUME Inv, Fits
  PROVE  \E n \in Nat : Used = 1..n /\ Len(asked) + Cardinality(Fallen) + n < MaxRuns
PROOF
<1>1. PICK n \in Nat : Used = 1..n
  BY DEF Inv, Numbered
<1>2. Cardinality(1..n) = n
  <2>1. 1 \in Int /\ n \in Int
    OBVIOUS
  <2>2. Cardinality(1..n) = IF 1 > n THEN 0 ELSE n - 1 + 1
    BY <2>1, FS_Interval
  <2> QED BY <2>2
<1> QED BY <1>1, <1>2 DEF Fits

LEMMA RequestKeeps == \A j \in Job : Inv /\ Request(j) => Inv'
PROOF
<1> SUFFICES ASSUME NEW j \in Job, Inv, Request(j) PROVE Inv'
  OBVIOUS
<1>1. /\ Fits /\ job[j] # "gone" /\ asked' = Append(asked, j)
      /\ UNCHANGED <<job, kills, of, status, successes, agent, phase, todo, memory, slot>>
  BY DEF Request, rows
<1>2. /\ job \in [Job -> {"off", "on", "due", "gone"}] /\ asked \in Seq(Job) /\ kills \subseteq Job
  BY TypeFacts DEF Inv
<1>3. /\ asked' \in Seq(Job) /\ Len(asked') = Len(asked) + 1 /\ Len(asked) \in Nat
      /\ DOMAIN asked' = 1..(Len(asked) + 1)
      /\ \A i \in DOMAIN asked' : asked'[i] = IF i \in DOMAIN asked THEN asked[i] ELSE j
  BY <1>1, <1>2
<1>4. Numbered'
  <2>1. PICK n \in Nat : Used = 1..n /\ Len(asked) + Cardinality(Fallen) + n < MaxRuns
    BY <1>1, FitsFacts
  <2>2. Used' = Used /\ Fallen' = Fallen
    BY <1>1 DEF Used, Fallen
  <2>3. Cardinality(Fallen) \in Nat
    BY RunsFinite DEF Fallen
  <2>4. Len(asked') + Cardinality(Fallen') + n <= MaxRuns
    BY <1>3, <2>1, <2>2, <2>3, BoundAssumption
  <2> QED BY <2>1, <2>2, <2>4 DEF Numbered
<1>5. Withdrawn'
  BY <1>1, <1>3 DEF Inv, Withdrawn
<1> QED BY <1>1, <1>2, <1>3, <1>4, <1>5, TableKeeps

LEMMA FallsDueKeeps == \A j \in Job : Inv /\ FallsDue(j) => Inv'
PROOF
<1> SUFFICES ASSUME NEW j \in Job, Inv, FallsDue(j) PROVE Inv'
  OBVIOUS
<1>1. /\ Fits /\ job[j] = "on" /\ job' = [job EXCEPT ![j] = "due"]
      /\ UNCHANGED <<asked, kills, of, status, successes, agent, phase, todo, memory, slot>>
  BY DEF FallsDue, rows
<1>2. /\ job \in [Job -> {"off", "on", "due", "gone"}] /\ asked \in Seq(Job) /\ kills \subseteq Job
  BY TypeFacts DEF Inv
<1>3. /\ job' \in [Job -> {"off", "on", "due", "gone"}]
      /\ \A i \in Job : job'[i] = IF i = j THEN "due" ELSE job[i]
  BY <1>1, <1>2
<1>4. Numbered'
  <2>1. PICK n \in Nat : Used = 1..n /\ Len(asked) + Cardinality(Fallen) + n < MaxRuns
    BY <1>1, FitsFacts
  <2>2. Used' = Used /\ Len(asked) \in Nat /\ asked' = asked
    BY <1>1, <1>2 DEF Used
  <2>3. Fallen' = Fallen \cup {j} /\ j \notin Fallen
    BY <1>1, <1>3 DEF Fallen
  <2>4. IsFiniteSet(Fallen) /\ Cardinality(Fallen) \in Nat
    BY RunsFinite DEF Fallen
  <2>5. Cardinality(Fallen') = Cardinality(Fallen) + 1
    BY <2>3, <2>4, FS_AddElement
  <2>6. Len(asked') + Cardinality(Fallen') + n <= MaxRuns
    BY <2>1, <2>2, <2>4, <2>5, BoundAssumption
  <2> QED BY <2>1, <2>2, <2>6 DEF Numbered
<1>5. \A i \in Job : job'[i] = "gone" => job[i] = "gone"
  BY <1>3
<1>6. Withdrawn'
  <2>1. \A i \in DOMAIN asked : asked[i] \in Job
    BY <1>2
  <2> QED BY <1>1, <1>5, <2>1 DEF Inv, Withdrawn
<1>7. asked' \in Seq(Job) /\ kills' \subseteq Job
  BY <1>1, <1>2
<1> QED BY <1>1, <1>3, <1>4, <1>5, <1>6, <1>7, TableKeeps

LEMMA SetEnabledKeeps == \A j \in Job, enabled \in BOOLEAN : Inv /\ SetEnabled(j, enabled) => Inv'
PROOF
<1> SUFFICES ASSUME NEW j \in Job, NEW enabled \in BOOLEAN, Inv, SetEnabled(j, enabled) PROVE Inv'
  OBVIOUS
<1>1. /\ job' = [job EXCEPT ![j] = IF enabled THEN "on" ELSE "off"]
      /\ UNCHANGED <<asked, kills, of, status, successes, agent, phase, todo, memory, slot>>
  BY DEF SetEnabled, rows
<1>2. /\ job \in [Job -> {"off", "on", "due", "gone"}] /\ asked \in Seq(Job) /\ kills \subseteq Job
  BY TypeFacts DEF Inv
<1>3. /\ job' \in [Job -> {"off", "on", "due", "gone"}]
      /\ \A i \in Job : (job'[i] = "gone" => job[i] = "gone") /\ (job'[i] = "due" => job[i] = "due")
  BY <1>1, <1>2
<1>4. Numbered'
  <2>1. Fallen' \subseteq Fallen
    BY <1>3 DEF Fallen
  <2>2. Len(asked') \in Nat /\ Len(asked') <= Len(asked)
    BY <1>1, <1>2
  <2> QED BY <1>1, <2>1, <2>2, CountedLess
<1>5. Withdrawn'
  <2>1. \A i \in DOMAIN asked : asked[i] \in Job
    BY <1>2
  <2> QED BY <1>1, <1>3, <2>1 DEF Inv, Withdrawn
<1>6. asked' \in Seq(Job) /\ kills' \subseteq Job
  BY <1>1, <1>2
<1> QED BY <1>1, <1>3, <1>4, <1>5, <1>6, TableKeeps

LEMMA KillKeeps == \A j \in Job : Inv /\ Kill(j) => Inv'
PROOF
<1> SUFFICES ASSUME NEW j \in Job, Inv, Kill(j) PROVE Inv'
  OBVIOUS
<1>1. /\ kills' = kills \cup {j}
      /\ UNCHANGED <<job, asked, of, status, successes, agent, phase, todo, memory, slot>>
  BY DEF Kill, rows
<1>2. /\ job \in [Job -> {"off", "on", "due", "gone"}] /\ asked \in Seq(Job) /\ kills \subseteq Job
  BY TypeFacts DEF Inv
<1>3. Numbered' /\ Withdrawn'
  BY <1>1, Counted
<1> QED BY <1>1, <1>2, <1>3, TableKeeps

LEMMA DeleteKeeps == \A j \in Job : Inv /\ Delete(j) => Inv'
PROOF
<1> SUFFICES ASSUME NEW j \in Job, Inv, Delete(j) PROVE Inv'
  OBVIOUS
<1> DEFINE S == {i \in DOMAIN asked : asked[i] # j}
<1>1. /\ job' = [job EXCEPT ![j] = "gone"]
      /\ asked' = Picked(asked, S) /\ kills' = kills \ {j}
      /\ status' = [r \in Run |-> IF r \in OfJob(j) THEN "gone" ELSE status[r]]
      /\ UNCHANGED <<of, successes, agent, phase, todo, active, queue, rotating, bypass,
                     room, human, waiting, settling, past>>
  BY DEF Delete, memory, slot
<1>2. /\ job \in [Job -> {"off", "on", "due", "gone"}] /\ asked \in Seq(Job) /\ kills \subseteq Job
      /\ status \in [Run -> Status]
  BY TypeFacts DEF Inv
<1>3. S \subseteq DOMAIN asked /\ \A i \in S : asked[i] # j
  OBVIOUS
<1> HIDE DEF S
<1>4. /\ asked' \in Seq(Job) /\ Len(asked') \in Nat /\ Len(asked') <= Len(asked)
      /\ \A i \in DOMAIN asked' : \E k \in DOMAIN asked : asked'[i] = asked[k] /\ asked[k] # j
  <2>1. /\ asked' \in Seq(Job)
        /\ \E h : Places(asked', asked, S, h)
    BY <1>1, <1>2, <1>3, PickedPlaces
  <2>2. PICK h : Places(asked', asked, S, h)
    BY <2>1
  <2>3. PICK m \in Nat, n \in Nat : /\ Len(asked') = m /\ DOMAIN asked' = 1..m
                                    /\ Len(asked) = n /\ DOMAIN asked = 1..n
    BY <1>2, <2>1
  <2>4. /\ h \in [1..m -> S]
        /\ \A i \in 1..m : asked'[i] = asked[h[i]]
        /\ \A i, k \in 1..m : i < k => h[i] < h[k]
    BY <2>2, <2>3 DEF Places
  <2>5. S \subseteq 1..n
    BY <1>3, <2>3
  <2>6. h \in Injection(1..m, 1..n)
    <3>1. h \in [1..m -> 1..n]
      BY <2>4, <2>5
    <3>2. ASSUME NEW i \in 1..m, NEW k \in 1..m, h[i] = h[k] PROVE i = k
      <4>1. h[i] \in Nat /\ h[k] \in Nat
        BY <3>1
      <4> QED BY <2>4, <3>2, <4>1
    <3> QED BY <3>1, <3>2 DEF Injection, IsInjective
  <2>7. m <= n
    <3>1. IsFiniteSet(1..n) /\ Cardinality(1..n) = n /\ Cardinality(1..m) = m
      <4>1. 1 \in Int /\ n \in Int /\ m \in Int
        OBVIOUS
      <4>2. IsFiniteSet(1..n) /\ Cardinality(1..n) = IF 1 > n THEN 0 ELSE n - 1 + 1
        BY <4>1, FS_Interval
      <4>3. Cardinality(1..m) = IF 1 > m THEN 0 ELSE m - 1 + 1
        BY <4>1, FS_Interval
      <4> QED BY <4>2, <4>3
    <3>2. Cardinality(1..m) <= Cardinality(1..n)
      BY <2>6, <3>1, FS_Injection
    <3> QED BY <3>1, <3>2
  <2>8. \A i \in DOMAIN asked' : \E k \in DOMAIN asked : asked'[i] = asked[k] /\ asked[k] # j
    BY <1>3, <2>3, <2>4
  <2> QED BY <2>1, <2>3, <2>7, <2>8
<1>5. /\ job' \in [Job -> {"off", "on", "due", "gone"}]
      /\ \A i \in Job : /\ job'[i] = "gone" <=> job[i] = "gone" \/ i = j
                        /\ job'[i] = "due" => job[i] = "due"
  BY <1>1, <1>2
<1>6. /\ status' \in [Run -> Status]
      /\ \A r \in Run : status'[r] = IF status[r] # "none" /\ of[r] = j THEN "gone" ELSE status[r]
      /\ \A r \in Run : status'[r] = "none" <=> status[r] = "none"
  BY <1>1, <1>2 DEF OfJob, Used, Status
<1>7. Types'
  BY <1>1, <1>2, <1>4, <1>5, <1>6 DEF Inv, Types, TypeOK
<1>8. Numbered'
  <2>1. Fallen' \subseteq Fallen
    BY <1>5 DEF Fallen
  <2> QED BY <1>4, <1>6, <2>1, CountedLess
<1>9. Withdrawn'
  <2> SUFFICES ASSUME NEW i \in DOMAIN asked' PROVE job'[asked'[i]] # "gone"
    BY DEF Withdrawn
  <2>1. PICK k \in DOMAIN asked : asked'[i] = asked[k] /\ asked[k] # j
    BY <1>4
  <2>2. asked[k] \in Job /\ job[asked[k]] # "gone"
    BY <1>2 DEF Inv, Withdrawn
  <2> QED BY <1>5, <2>1, <2>2
<1>10. Distinct'
  BY <1>1 DEF Inv, Distinct
<1>11. Halted'
  BY <1>1 DEF Inv, Halted
<1>12. ASSUME NEW r \in Run PROVE Own(r)'
  <2>1. Own(r)
    BY DEF Inv
  <2>2. /\ Placed(r)' <=> Placed(r)
        /\ Called(r)' <=> Called(r)
        /\ InQueue(r)' <=> InQueue(r)
        /\ Live(r)' <=> Live(r)
        /\ Waits(r)' <=> Waits(r)
        /\ Runs(r)' <=> Runs(r)
        /\ Ending(r)' <=> Ending(r)
    BY <1>1, Frames
  <2>3. status'[r] = IF status[r] # "none" /\ of[r] = j THEN "gone" ELSE status[r]
    BY <1>6
  <2>4. status[r] # "none" => /\ of[r] \in Job
                              /\ (job'[of[r]] = "gone" <=> job[of[r]] = "gone" \/ of[r] = j)
    BY <1>5, <2>1 DEF Own, Recorded
  <2>5. Somewhere(r)' /\ Unstarted(r)' /\ Working(r)'
    BY <1>1, <2>1, <2>2 DEF Own, Somewhere, Unstarted, Working, At
  <2>6. Recorded(r)'
    BY <1>1, <2>1, <2>2, <2>3, <2>4 DEF Own, Recorded, At, Open
  <2> QED BY <2>5, <2>6 DEF Own
<1> QED BY <1>7, <1>8, <1>9, <1>10, <1>11, <1>12 DEF Inv

-----------------------------------------------------------------------------
LEMMA InvStart == Init => Inv
PROOF
<1> SUFFICES ASSUME Init PROVE Inv
  OBVIOUS
<1>1. /\ job = [j \in Job |-> "on"] /\ asked = <<>> /\ kills = {}
      /\ of = [r \in Run |-> None] /\ status = [r \in Run |-> "none"] /\ successes = 0
      /\ agent = TRUE /\ phase = "down" /\ todo = <<>>
      /\ active = None /\ queue = <<>> /\ rotating = FALSE /\ bypass = FALSE
      /\ room = None /\ human = FALSE /\ waiting = <<>> /\ settling = {} /\ past = {}
  BY DEF Init
<1>2. todo \in Seq(Todo) /\ Single(todo) /\ \A y : ~Has(todo, y)
  BY <1>1, NoStep
<1>3. Separate(queue) /\ Separate(waiting) /\ \A r : ~Named(queue, r) /\ ~Named(waiting, r)
  BY <1>1, NoneNamed
<1>4. TypeOK
  <2>1. 0 \in 0..RotateEvery
    BY BoundAssumption
  <2>2. job \in [Job -> {"off", "on", "due", "gone"}] /\ status \in [Run -> Status]
    BY <1>1 DEF Status
  <2>3. asked \in Seq(Job) /\ queue \in Seq(Queued) /\ waiting \in Seq(Inject)
    BY <1>1
  <2> QED BY <1>1, <2>1, <2>2, <2>3 DEF TypeOK
<1>5. Types
  <2>1. agent \in BOOLEAN /\ rotating \in BOOLEAN /\ bypass \in BOOLEAN /\ human \in BOOLEAN
    BY <1>1, Zenon
  <2> QED BY <1>1, <1>2, <1>4, <2>1 DEF Types
<1>6. Numbered
  <2>1. Used = {} /\ Fallen = {} /\ Len(asked) = 0
    BY <1>1 DEF Used, Fallen
  <2>2. Cardinality(Fallen) = 0
    BY <2>1, FS_EmptySet
  <2>3. 0 \in Nat /\ Used = 1..0 /\ Len(asked) + Cardinality(Fallen) + 0 <= MaxRuns
    BY <2>1, <2>2, BoundAssumption
  <2> QED BY <2>3 DEF Numbered
<1>7. Distinct /\ Withdrawn /\ Halted
  BY <1>1, <1>2, <1>3 DEF Distinct, Withdrawn, Halted
<1>8. ASSUME NEW r \in Run PROVE Own(r)
  <2>1. ~Placed(r) /\ ~Called(r) /\ ~InQueue(r)
    BY <1>2, <1>3 DEF Placed, Called, InQueue
  <2>2. ~Waits(r) /\ ~Live(r) /\ ~Runs(r) /\ r \notin past
    BY <1>1, <1>3, Asked DEF Live, Runs
  <2>3. status[r] = "none"
    BY <1>1
  <2>4. Somewhere(r) /\ Unstarted(r) /\ Working(r)
    BY <2>1, <2>2 DEF Somewhere, Unstarted, Working, At
  <2>5. Recorded(r)
    BY <1>1, <2>1, <2>2, <2>3 DEF Recorded
  <2> QED BY <2>4, <2>5 DEF Own
<1> QED BY <1>5, <1>6, <1>7, <1>8 DEF Inv

LEMMA InvStep == Inv /\ [Next]_vars => Inv'
PROOF
<1> SUFFICES ASSUME Inv, [Next]_vars PROVE Inv'
  OBVIOUS
<1>1. CASE Start \/ Poll \/ Step
  BY <1>1, StartKeeps, PollKeeps, TakeKillsKeeps, ClaimRunsKeeps, PlaceDisabledKeeps, PlaceBehindKeeps,
     PlaceFirstKeeps, DrainQueueKeeps, CancelKeeps, DispatchKeeps DEF Step
<1>2. CASE ScriptEnds \/ Timers \/ Ages \/ Stop \/ Crash
  BY <1>2, ScriptPrintsKeeps, ScriptFailsKeeps, RunTimeoutKeeps, DeferredTimeoutKeeps, AgesKeeps, StopKeeps,
     CrashKeeps DEF ScriptEnds, Timers
<1>3. CASE \E ok \in BOOLEAN : TurnEnds(ok) \/ RotationEnds(ok)
  BY <1>3, TurnEndsKeeps, RotationEndsKeeps
<1>4. CASE \E s \in settling : Settle(s)
  BY <1>4, SettleKeeps
<1>5. CASE UserMessage \/ UserTakes \/ OtherEnds \/ UserStop \/ DropWaiting \/ AgentComesOrGoes
  BY <1>5, UserMessageKeeps, UserTakesKeeps, OtherEndsKeeps, UserStopKeeps, DropWaitingKeeps, AgentComesOrGoesKeeps
<1>6. CASE \E j \in Job : \/ Request(j) \/ FallsDue(j) \/ Delete(j) \/ Kill(j)
                          \/ \E b \in BOOLEAN : SetEnabled(j, b)
  BY <1>6, RequestKeeps, FallsDueKeeps, DeleteKeeps, KillKeeps, SetEnabledKeeps
<1>7. CASE UNCHANGED vars
  <2>1. UNCHANGED <<job, asked, kills, of, status, successes, agent, phase, todo, memory, slot>>
    BY <1>7 DEF vars, table, rows, memory, slot
  <2>2. Numbered' /\ Withdrawn'
    BY <2>1, Counted
  <2>3. /\ job \in [Job -> {"off", "on", "due", "gone"}] /\ asked \in Seq(Job) /\ kills \subseteq Job
    BY TypeFacts DEF Inv
  <2> QED BY <2>1, <2>2, <2>3, TableKeeps
<1> QED BY <1>1, <1>2, <1>3, <1>4, <1>5, <1>6, <1>7 DEF Next

-----------------------------------------------------------------------------
(* Every variable keeps to its type, for every number of jobs and of runs.   *)
THEOREM TypeCorrect == Spec => []TypeOK
PROOF
<1>1. Inv => TypeOK
  BY DEF Inv, Types
<1> QED BY <1>1, InvStart, InvStep, PTL DEF Spec

(* The table and the memory of the scheduler agree between callbacks: a row   *)
(* is open exactly while its run is active or queued, and says "running"     *)
(* only of a run whose turn was dispatched, through kills, timeouts, people   *)
(* who take the slot, deletions, shutdowns and deaths.                        *)
THEOREM RowsMatchHolds == Spec => []RowsMatch
PROOF
<1>1. Inv => RowsMatch
  <2> SUFFICES ASSUME Inv, Up
               PROVE  /\ {r \in Run : status[r] \in Open} =
                           {r \in Queue \cup {q \in Run : Live(q)} : status[r] # "gone"}
                      /\ \A r \in Run : status[r] = "running" => Live(r) /\ active.at = "sent"
    BY DEF RowsMatch
  <2>1. phase = "up" /\ \A r : ~Placed(r)
    BY NoStep DEF Up, Placed
  <2>2. Queue \subseteq Run
    <3>1. queue \in Seq(Queued)
      BY TypeFacts DEF Inv
    <3>2. \A e \in Queued : e.run \in Run
      BY DEF Queued
    <3>3. \A i \in DOMAIN queue : queue[i] \in Queued
      BY <3>1
    <3> QED BY <3>2, <3>3 DEF Queue
  <2>3. ASSUME NEW r \in Run
        PROVE  /\ status[r] \in Open <=> status[r] # "gone" /\ (r \in Queue \/ Live(r))
               /\ status[r] = "running" => Live(r) /\ active.at = "sent"
    <3>1. Recorded(r) /\ (InQueue(r) <=> r \in Queue)
      BY Asked DEF Inv, Own
    <3> QED BY <2>1, <3>1 DEF Recorded, At
  <2> QED BY <2>2, <2>3
<1> QED BY <1>1, InvStart, InvStep, PTL DEF Spec

(* A run whose turn completed, or was cut off by a crash, never has another:  *)
(* recovery, a second request of the slot and a user's message that queues   *)
(* the turn again replay only what had no turn yet.                           *)
THEOREM NeverRunsTwiceHolds == Spec => []NeverRunsTwice
PROOF
<1>1. Inv => NeverRunsTwice
  BY RoomFacts DEF NeverRunsTwice
<1> QED BY <1>1, InvStart, InvStep, PTL DEF Spec

-----------------------------------------------------------------------------
(* Work of a run that is not the active one, and the four steps by which it  *)
(* may come about.                                                          *)
Loose(r) == Works(r) /\ ~Live(r)
Excused(r) ==
  \/ Due("dispatch") /\ Arg = r /\ ~Live(r)
  \/ RunTimeout /\ Runs(r) /\ Waits(r)
  \/ UserMessage /\ Runs(r) /\ room.abort # "none"
  \/ \E s \in settling : s.run = r /\ Waits(r) /\ Settle(s)

LEMMA LooseSame ==
  ASSUME UNCHANGED <<active, room, waiting>>, NEW r
  PROVE  Loose(r)' <=> Loose(r)
PROOF
<1>1. (Live(r)' <=> Live(r)) /\ (Waits(r)' <=> Waits(r)) /\ (Runs(r)' <=> Runs(r))
  BY Frames
<1>2. Works(r)' <=> Works(r)
  BY <1>1 DEF Works
<1> QED BY <1>1, <1>2 DEF Loose

(* A turn begins that waited: its run worked before.                         *)
LEMMA LooseBegins ==
  ASSUME Types, NEW q \in Run, NEW ended, ended \subseteq [run : Run, ok : BOOLEAN], Begin(q, ended),
         NEW r, Waits(r)' => Waits(r), r = q => Waits(q) \/ Live(q)
  PROVE  Loose(r)' => Loose(r)
PROOF
<1>1. (Live(r)' <=> Live(r)) /\ (Runs(r)' <=> r = q)
  BY BeginFacts
<1> QED BY <1>1 DEF Loose, Works

LEMMA TriggerLoose ==
  ASSUME Inv, NEW q \in Run, Called(q) \/ At(q, {"script"}), NEW rest, Trigger(q, rest), NEW r
  PROVE  Loose(r)' /\ ~Loose(r) => r = q /\ ~Live(q)
PROOF
<1>1. Types /\ ~Waits(q) /\ ~Runs(q)
  BY DEF Inv, Own, Unstarted, At
<1>2. ~Works(q)
  BY <1>1 DEF Works
<1>3. CASE ~agent
  <2>1. UNCHANGED <<room, waiting>>
    BY <1>3 DEF Trigger
  <2>2. (Waits(r)' <=> Waits(r)) /\ (Runs(r)' <=> Runs(r))
    BY <2>1, Frames
  <2>3. Works(r)' <=> Works(r)
    BY <2>1, <2>2 DEF Works
  <2>4. CASE Live(q)
    <3>1. Live(r) => r = q
      BY <2>4 DEF Live
    <3> QED BY <1>2, <2>3, <3>1 DEF Loose
  <2>5. CASE ~Live(q)
    <3>1. active' = active
      BY <1>3, <2>5 DEF Trigger
    <3> QED BY <2>1, <3>1, LooseSame
  <2> QED BY <2>4, <2>5
<1>4. CASE agent /\ room = None
  <2> DEFINE ended == {}
  <2>1. Begin(q, ended) /\ UNCHANGED waiting
    BY <1>4 DEF Trigger
  <2>2. ended \subseteq [run : Run, ok : BOOLEAN]
    OBVIOUS
  <2> HIDE DEF ended
  <2>3. Waits(r)' => Waits(r)
    BY <2>1, Frames
  <2>4. CASE r = q /\ ~Live(q)
    BY <2>4
  <2>5. CASE ~(r = q /\ ~Live(q))
    <3>1. r = q => Waits(q) \/ Live(q)
      BY <2>5
    <3> QED BY <1>1, <2>1, <2>2, <2>3, <3>1, LooseBegins
  <2> QED BY <2>4, <2>5
<1>5. CASE agent /\ room # None
  <2>1. /\ room' = room
        /\ waiting' = Append(waiting, [run |-> q, stale |-> FALSE])
        /\ active' = IF Live(q) THEN [active EXCEPT !.at = "queued"] ELSE active
    BY <1>1, <1>5 DEF Trigger
  <2>2. Live(r)' <=> Live(r)
    BY <1>1, <2>1, Marked
  <2>3. Runs(r)' <=> Runs(r)
    BY <2>1, Frames
  <2>4. Waits(r)' => Waits(r) \/ r = q
    <3> DEFINE e == [run |-> q, stale |-> FALSE]
    <3>1. waiting' = Append(waiting, e) /\ e.run = q /\ e \in Inject
      BY <2>1 DEF Inject
    <3> HIDE DEF e
    <3>2. waiting \in Seq(Inject)
      BY RoomFacts
    <3>3. Named(waiting', r) <=> Named(waiting, r) \/ r = q
      BY <3>1, <3>2, Put
    <3> QED BY <3>3, Asked
  <2>5. CASE r # q
    <3>1. Works(r)' => Works(r)
      BY <2>1, <2>3, <2>4, <2>5 DEF Works
    <3> QED BY <2>2, <3>1 DEF Loose
  <2>6. CASE r = q
    BY <2>2, <2>6 DEF Loose
  <2> QED BY <2>5, <2>6
<1> QED BY <1>3, <1>4, <1>5

LEMMA ResumeLoose ==
  ASSUME Inv, NEW ended, ended \subseteq [run : Run, ok : BOOLEAN], Resume(ended), NEW r
  PROVE  Loose(r)' => Loose(r)
PROOF
<1>1. waiting \in Seq(Inject) /\ Separate(waiting) /\ Types
  BY RoomFacts DEF Inv
<1>2. CASE waiting = <<>>
  <2>1. room' = None /\ active' = active /\ waiting' = waiting
    BY <1>2 DEF Resume
  <2>2. ~Runs(r)' /\ (Waits(r)' <=> Waits(r)) /\ (Live(r)' <=> Live(r))
    BY <2>1, Frames DEF Runs
  <2> QED BY <2>2 DEF Loose, Works
<1>3. CASE waiting # <<>>
  <2> DEFINE e == Head(waiting)
  <2>1. PICK q : q = e.run
    OBVIOUS
  <2>2. /\ waiting' = Tail(waiting)
        /\ IF agent /\ ~e.stale THEN Begin(q, ended)
           ELSE /\ room' = None
                /\ IF Live(q) /\ (~agent \/ active.at # "sent") THEN Finish("ended", {}, <<>>) ELSE active' = active
    BY <1>3, <2>1 DEF Resume
  <2>3. e \in Inject /\ \A x : Named(waiting, x) <=> x = q \/ Named(waiting', x)
    BY <1>1, <1>3, <2>1, <2>2, Taken
  <2>4. ~Named(waiting', q)
    BY <1>1, <1>3, <2>1, <2>2, Taken
  <2>5. q \in Run
    BY <2>1, <2>3 DEF Inject
  <2> HIDE DEF e
  <2>6. Waits(q) /\ ~Waits(q)' /\ (Waits(r)' => Waits(r))
    BY <2>3, <2>4, Asked
  <2>7. CASE agent /\ ~e.stale
    <3>1. Begin(q, ended)
      BY <2>2, <2>7
    <3> QED BY <1>1, <2>5, <2>6, <3>1, LooseBegins
  <2>8. CASE ~(agent /\ ~e.stale)
    <3>1. ~Runs(r)'
      BY <2>2, <2>8 DEF Runs
    <3>2. CASE Live(q) /\ (~agent \/ active.at # "sent")
      <4>1. Live(r) => r = q
        BY <3>2 DEF Live
      <4> QED BY <2>6, <3>1, <4>1 DEF Loose, Works
    <3>3. CASE ~(Live(q) /\ (~agent \/ active.at # "sent"))
      <4>1. Live(r)' <=> Live(r)
        BY <2>2, <2>8, <3>3, Frames
      <4> QED BY <2>6, <3>1, <4>1 DEF Loose, Works
    <3> QED BY <3>2, <3>3
  <2> QED BY <2>7, <2>8
<1> QED BY <1>2, <1>3

LEMMA LeaveLoose ==
  ASSUME NEW ended, Leave(ended), NEW r
  PROVE  Loose(r)' => Loose(r)
PROOF
<1>1. room' = None /\ active' = active /\ waiting' = waiting
  BY DEF Leave
<1>2. ~Runs(r)' /\ (Waits(r)' <=> Waits(r)) /\ (Live(r)' <=> Live(r))
  BY <1>1, Frames DEF Runs
<1> QED BY <1>2 DEF Loose, Works

(* The steps that end the active run take its work back with it.             *)
LEMMA WithdrawnLoose ==
  ASSUME Inv, NEW q, Live(q), NEW r, waiting' = Without(q), room' = Stopped(q)
  PROVE  Works(r)' => Works(r) /\ ~Live(r)
PROOF
<1>1. /\ \A x : Runs(x)' <=> Runs(x)
      /\ Runs(q) => room'.abort = "external"
      /\ ~Runs(q) => room' = room
  BY StoppedFacts DEF Inv
<1>2. \A x : Waits(x)' <=> Waits(x) /\ x # q
  BY WithoutFacts, Asked
<1>3. Runs(q) => \A x : Runs(x) => x = q
  BY DEF Runs
<1>4. CASE r = q
  <2>1. Live(r) /\ ~Works(r)'
    <3>1. ~Waits(r)'
      BY <1>2, <1>4
    <3>2. Runs(r)' => room'.abort = "external"
      BY <1>1, <1>4
    <3> QED BY <1>4, <3>1, <3>2 DEF Works
  <2> QED BY <2>1
<1>5. CASE r # q
  <2>1. ~Live(r)
    BY <1>5 DEF Live
  <2>2. Runs(r) => room' = room
    BY <1>1, <1>3, <1>5
  <2> QED BY <1>1, <1>2, <2>1, <2>2 DEF Works
<1> QED BY <1>4, <1>5

LEMMA CancelLoose ==
  ASSUME Inv, Cancel, NEW r
  PROVE  Loose(r)' => Loose(r)
PROOF
<1>1. CASE active # None /\ of[active.run] = Arg
  <2>1. PICK q : q = active.run
    OBVIOUS
  <2>2. Live(q) /\ waiting' = Without(q) /\ room' = Stopped(q)
    BY <1>1, <2>1 DEF Cancel, Live
  <2>3. Works(r)' => Works(r) /\ ~Live(r)
    BY <2>2, WithdrawnLoose
  <2> QED BY <2>3 DEF Loose
<1>2. CASE ~(active # None /\ of[active.run] = Arg)
  <2>1. UNCHANGED <<active, room, waiting>>
    BY <1>2 DEF Cancel
  <2> QED BY <2>1, LooseSame
<1> QED BY <1>1, <1>2

LEMMA DispatchLoose ==
  ASSUME Inv, Dispatch, NEW r, Loose(r)', ~Loose(r)
  PROVE  Excused(r)
PROOF
<1>1. PICK q : q = Arg
  OBVIOUS
<1>2. Due("dispatch") /\ q \in Run /\ Called(q)
  BY <1>1, DueFacts DEF Dispatch
<1>3. CASE of[Arg] \in Script
  <2>1. /\ active' = IF Live(q) THEN [active EXCEPT !.at = "script"] ELSE active
        /\ UNCHANGED <<room, waiting>> /\ Types
    BY <1>1, <1>3 DEF Dispatch, Inv
  <2>2. (Live(r)' <=> Live(r)) /\ (Waits(r)' <=> Waits(r)) /\ (Runs(r)' <=> Runs(r))
    BY <2>1, Marked, Frames
  <2>3. Works(r)' <=> Works(r)
    BY <2>1, <2>2 DEF Works
  <2> QED BY <2>2, <2>3 DEF Loose
<1>4. CASE of[Arg] \notin Script
  <2>1. PICK rest : rest = Rest
    OBVIOUS
  <2>2. Trigger(q, rest)
    BY <1>1, <1>4, <2>1 DEF Dispatch
  <2>3. r = q /\ ~Live(q)
    BY <1>2, <2>2, TriggerLoose
  <2> QED BY <1>1, <1>2, <2>3 DEF Excused
<1> QED BY <1>3, <1>4

LEMMA ScriptEndsLoose ==
  ASSUME Inv, ScriptEnds, NEW r
  PROVE  Loose(r)' => Loose(r)
PROOF
<1>1. PICK q : q = active.run
  OBVIOUS
<1>2. active # None /\ active.at = "script" /\ Live(q) /\ At(q, {"script"})
  BY <1>1 DEF ScriptEnds, ScriptPrints, ScriptFails, At, Live
<1>3. q \in Run
  BY <1>1, <1>2, TypeFacts DEF Inv
<1>4. CASE ScriptPrints
  <2> DEFINE rest == <<>>
  <2>1. Trigger(q, rest)
    BY <1>1, <1>4 DEF ScriptPrints
  <2> HIDE DEF rest
  <2> QED BY <1>2, <1>3, <2>1, TriggerLoose
<1>5. CASE ScriptFails
  <2>1. UNCHANGED <<room, waiting>>
    BY <1>5 DEF ScriptFails, slot
  <2>2. (Waits(r)' <=> Waits(r)) /\ (Runs(r)' <=> Runs(r))
    BY <2>1, Frames
  <2>3. Works(r)' <=> Works(r)
    BY <2>1, <2>2 DEF Works
  <2>4. ~Waits(q) /\ ~Runs(q)
    BY <1>2, <1>3 DEF Inv, Own, Unstarted, At
  <2>5. Live(r) => ~Works(r)
    BY <1>1, <2>4 DEF Live, Works
  <2> QED BY <2>3, <2>5 DEF Loose
<1> QED BY <1>4, <1>5 DEF ScriptEnds

LEMMA TimersLoose ==
  ASSUME Inv, Timers, NEW r, Loose(r)', ~Loose(r)
  PROVE  Excused(r)
PROOF
<1>1. PICK q : q = active.run
  OBVIOUS
<1>2. active # None /\ Live(q)
  BY <1>1 DEF Timers, RunTimeout, DeferredTimeout, Live
<1>3. q \in Run
  BY <1>1, <1>2, TypeFacts DEF Inv
<1>4. CASE RunTimeout
  <2>1. room' = Stopped(q) /\ waiting' = IF Runs(q) THEN waiting ELSE Without(q)
    BY <1>1, <1>4 DEF RunTimeout
  <2>2. CASE Runs(q)
    <3>1. (Waits(r)' <=> Waits(r)) /\ (Runs(r)' <=> Runs(r)) /\ room'.abort = "external"
      BY <2>1, <2>2, StoppedFacts, Frames DEF Inv
    <3>2. Waits(r)
      BY <3>1 DEF Loose, Works
    <3>3. Live(r)
      BY <3>2 DEF Loose, Works
    <3>4. r = q
      BY <1>2, <3>3 DEF Live
    <3> QED BY <1>4, <2>2, <3>2, <3>4 DEF Excused
  <2>3. CASE ~Runs(q)
    <3>1. waiting' = Without(q)
      BY <2>1, <2>3
    <3>2. Works(r)' => Works(r) /\ ~Live(r)
      BY <1>2, <2>1, <3>1, WithdrawnLoose
    <3> QED BY <3>2 DEF Loose
  <2> QED BY <2>2, <2>3
<1>5. CASE DeferredTimeout
  <2>1. waiting' = Without(q) /\ room' = room /\ At(q, {"queued"})
    BY <1>1, <1>2, <1>5 DEF DeferredTimeout, At
  <2>2. ~Runs(q)
    BY <1>3, <2>1 DEF Inv, Own, Unstarted
  <2>3. room' = Stopped(q)
    BY <2>1, <2>2 DEF Stopped
  <2>4. Works(r)' => Works(r) /\ ~Live(r)
    BY <1>2, <2>1, <2>3, WithdrawnLoose
  <2> QED BY <2>4 DEF Loose
<1> QED BY <1>4, <1>5 DEF Timers

LEMMA StopLoose ==
  ASSUME Inv, Stop, NEW r
  PROVE  Loose(r)' => Loose(r)
PROOF
<1>1. CASE active = None
  <2>1. UNCHANGED <<active, room, waiting>>
    BY <1>1 DEF Stop
  <2> QED BY <2>1, LooseSame
<1>2. CASE active # None
  <2>1. PICK q : q = active.run
    OBVIOUS
  <2>2. Live(q) /\ waiting' = Without(q) /\ room' = Stopped(q)
    BY <1>2, <2>1 DEF Stop, Live
  <2>3. Works(r)' => Works(r) /\ ~Live(r)
    BY <2>2, WithdrawnLoose
  <2> QED BY <2>3 DEF Loose
<1> QED BY <1>1, <1>2

LEMMA SettleLoose ==
  ASSUME Inv, NEW s \in settling, Settle(s), NEW r, Loose(r)', ~Loose(r)
  PROVE  Excused(r)
PROOF
<1>1. UNCHANGED <<room, waiting>> /\ (~Live(s.run) => active' = active)
  BY DEF Settle
<1>2. Live(s.run)
  <2> SUFFICES ASSUME ~Live(s.run) PROVE FALSE
    OBVIOUS
  <2> QED BY <1>1, LooseSame
<1>3. (Waits(r)' <=> Waits(r)) /\ (Runs(r)' <=> Runs(r))
  BY <1>1, Frames
<1>4. Works(r) /\ Live(r)
  BY <1>1, <1>3 DEF Loose, Works
<1>5. s.run = r
  BY <1>2, <1>4 DEF Live
<1>6. ~Runs(r)
  BY <1>5, RoomFacts DEF Ending
<1>7. Waits(r)
  BY <1>4, <1>6 DEF Works
<1> QED BY <1>5, <1>7 DEF Excused

LEMMA UserMessageLoose ==
  ASSUME Inv, UserMessage, NEW r, Loose(r)', ~Loose(r)
  PROVE  Excused(r)
PROOF
<1>1. /\ active' = active
      /\ room \in {None, Other} => room' = Other /\ UNCHANGED waiting
      /\ room \notin {None, Other} =>
           waiting' = IF Waits(room.run) THEN waiting
                      ELSE Append(waiting, [run |-> room.run, stale |-> room.stale])
  BY DEF UserMessage, memory
<1>2. ~Live(r) /\ Works(r)' /\ ~Works(r)
  BY <1>1, Frames DEF Loose
<1>3. Runs(r)
  <2>1. room \notin {None, Other}
    <3> SUFFICES ASSUME room \in {None, Other} PROVE FALSE
      OBVIOUS
    <3>1. room' = Other /\ (Waits(r)' <=> Waits(r))
      BY <1>1, Frames
    <3> QED BY <1>2, <3>1 DEF Works, Runs
  <2>2. PICK q : q = room.run
    OBVIOUS
  <2>3. \A x : Runs(x)' => x = q
    <3>1. room' = [room EXCEPT !.abort = "internal", !.requeued = ~Waits(room.run)] /\ room \in Turn
      BY <2>1, TypeFacts DEF UserMessage, Inv
    <3>2. room'.run = room.run
      BY <3>1 DEF Turn
    <3> QED BY <2>2, <3>2 DEF Runs
  <2>4. Waits(r)' => Waits(r) \/ r = q
    <3>1. CASE Waits(q)
      BY <1>1, <2>1, <2>2, <3>1, Frames
    <3>2. CASE ~Waits(q)
      <4> DEFINE e == [run |-> q, stale |-> room.stale]
      <4>1. room \in Turn /\ q \in Run /\ waiting \in Seq(Inject)
        BY <2>1, <2>2, TypeFacts DEF Inv
      <4>2. e \in Inject /\ e.run = q
        BY <4>1 DEF Turn, Inject
      <4>3. waiting' = Append(waiting, e)
        BY <1>1, <2>1, <2>2, <3>2
      <4> HIDE DEF e
      <4>4. Named(waiting', r) <=> Named(waiting, r) \/ r = q
        BY <4>1, <4>2, <4>3, Put
      <4> QED BY <4>4, Asked
    <3> QED BY <3>1, <3>2
  <2>5. r = q
    BY <1>2, <2>3, <2>4 DEF Works
  <2> QED BY <2>1, <2>2, <2>5 DEF Runs
<1>4. room.abort # "none"
  BY <1>2, <1>3 DEF Works
<1> QED BY <1>3, <1>4 DEF Excused

LEMMA UserStopLoose ==
  ASSUME Inv, UserStop, NEW r
  PROVE  Loose(r)' => Loose(r)
PROOF
<1>1. /\ active' = active
      /\ room' = IF room \in {None, Other} THEN room
                 ELSE [room EXCEPT !.abort = "external", !.stale = TRUE]
      /\ waiting' = [i \in DOMAIN waiting |-> [waiting[i] EXCEPT !.stale = TRUE]]
  BY DEF UserStop, memory
<1>2. Waits(r)' => Waits(r)
  <2>1. waiting \in Seq(Inject) /\ \A e \in Inject : [e EXCEPT !.stale = TRUE].run = e.run
    BY RoomFacts DEF Inject
  <2>2. DOMAIN waiting' = DOMAIN waiting /\ \A i \in DOMAIN waiting : waiting'[i].run = waiting[i].run
    <3>1. DOMAIN waiting' = DOMAIN waiting /\ \A i \in DOMAIN waiting : waiting'[i] = [waiting[i] EXCEPT !.stale = TRUE]
      BY <1>1
    <3>2. \A i \in DOMAIN waiting : waiting[i] \in Inject
      BY <2>1
    <3> QED BY <2>1, <3>1, <3>2
  <2> QED BY <2>2 DEF Waits
<1>3. Runs(r)' => room'.abort = "external"
  <2>1. CASE room \in {None, Other}
    BY <1>1, <2>1 DEF Runs
  <2>2. CASE room \notin {None, Other}
    <3>1. room' = [room EXCEPT !.abort = "external", !.stale = TRUE] /\ room \in Turn
      BY <1>1, <2>2, TypeFacts DEF Inv
    <3> QED BY <3>1 DEF Turn
  <2> QED BY <2>1, <2>2
<1>4. Live(r)' <=> Live(r)
  BY <1>1, Frames
<1> QED BY <1>2, <1>3, <1>4 DEF Loose, Works

LEMMA DropWaitingLoose ==
  ASSUME Inv, DropWaiting, NEW r
  PROVE  Loose(r)' => Loose(r)
PROOF
<1>1. waiting' = <<>> /\ room' = room
  BY DEF DropWaiting
<1>2. ~Waits(r)' /\ (Runs(r)' <=> Runs(r))
  BY <1>1, NoneNamed, Asked, Frames
<1>3. Works(r)' => Works(r)
  BY <1>1, <1>2 DEF Works
<1>4. CASE active # None /\ Waits(active.run)
  <2>1. Live(r) => Waits(r)
    BY <1>4 DEF Live
  <2>2. Live(r) => ~Works(r)'
    BY <1>1, <1>2, <2>1, RoomFacts DEF Works
  <2> QED BY <1>3, <2>2 DEF Loose
<1>5. CASE ~(active # None /\ Waits(active.run))
  <2>1. Live(r)' <=> Live(r)
    BY <1>5, Frames DEF DropWaiting
  <2> QED BY <1>3, <2>1 DEF Loose
<1> QED BY <1>4, <1>5

(* Nobody runs in the room any more, and nothing was queued.                 *)
LEMMA EmptiedLoose ==
  ASSUME UserTakes \/ Crash \/ PlaceFirst, NEW r
  PROVE  Loose(r)' => Loose(r)
PROOF
<1>1. CASE UserTakes
  <2>1. active' = active /\ waiting' = waiting /\ room' = Other
    BY <1>1 DEF UserTakes, memory
  <2>2. ~Runs(r)' /\ (Waits(r)' <=> Waits(r)) /\ (Live(r)' <=> Live(r))
    BY <2>1, Frames DEF Runs
  <2> QED BY <2>2 DEF Loose, Works
<1>2. CASE Crash
  <2>1. waiting' = <<>> /\ room' \in {None, Other}
    BY <1>2 DEF Crash
  <2>2. ~Runs(r)' /\ ~Waits(r)'
    BY <2>1, NoneNamed, Asked DEF Runs
  <2> QED BY <2>2 DEF Loose, Works
<1>3. CASE PlaceFirst
  <2>1. active = None /\ UNCHANGED <<room, waiting>>
    BY <1>3 DEF PlaceFirst, slot
  <2>2. (Waits(r)' <=> Waits(r)) /\ (Runs(r)' <=> Runs(r))
    BY <2>1, Frames
  <2>3. Works(r)' <=> Works(r)
    BY <2>1, <2>2 DEF Works
  <2> QED BY <2>1, <2>3 DEF Loose, Live
<1> QED BY <1>1, <1>2, <1>3

LEMMA TurnEndsLoose ==
  ASSUME Inv, OtherEnds \/ \E ok \in BOOLEAN : TurnEnds(ok), NEW r
  PROVE  Loose(r)' => Loose(r)
PROOF
<1>1. CASE OtherEnds
  <2> DEFINE ended == {}
  <2>1. Leave(ended) \/ Resume(ended)
    BY <1>1 DEF OtherEnds
  <2>2. ended \subseteq [run : Run, ok : BOOLEAN]
    OBVIOUS
  <2> HIDE DEF ended
  <2> QED BY <2>1, <2>2, LeaveLoose, ResumeLoose
<1>2. CASE \E ok \in BOOLEAN : TurnEnds(ok)
  <2>1. PICK ok \in BOOLEAN : TurnEnds(ok)
    BY <1>2
  <2>2. PICK ended : ended = IF room.abort = "internal" /\ room.requeued THEN {}
                             ELSE {[run |-> room.run, ok |-> ok]}
    OBVIOUS
  <2>3. Leave(ended) \/ Resume(ended)
    BY <2>1, <2>2 DEF TurnEnds
  <2>4. room.run \in Run
    BY <2>1, TypeFacts DEF TurnEnds, Inv
  <2>5. ended \subseteq [run : Run, ok : BOOLEAN]
    BY <2>2, <2>4
  <2> QED BY <2>3, <2>5, LeaveLoose, ResumeLoose
<1> QED BY <1>1, <1>2

LEMMA LooseStep ==
  ASSUME Inv, [Next]_vars, NEW r, Loose(r)', ~Loose(r)
  PROVE  Excused(r)
PROOF
<1>1. CASE UNCHANGED <<active, room, waiting>>
  BY <1>1, LooseSame
<1>2. CASE Start \/ Poll
  BY <1>1, <1>2 DEF Start, Poll, memory, slot
<1>3. CASE Step
  <2>1. CASE TakeKills \/ ClaimRuns \/ PlaceDisabled \/ PlaceBehind \/ DrainQueue
    BY <1>1, <2>1 DEF TakeKills, ClaimRuns, PlaceDisabled, PlaceBehind, DrainQueue, memory, slot
  <2>2. CASE PlaceFirst
    BY <2>2, EmptiedLoose
  <2>3. CASE Cancel
    BY <2>3, CancelLoose
  <2>4. CASE Dispatch
    BY <2>4, DispatchLoose
  <2> QED BY <1>3, <2>1, <2>2, <2>3, <2>4 DEF Step
<1>4. CASE ScriptEnds
  BY <1>4, ScriptEndsLoose
<1>5. CASE Timers
  BY <1>5, TimersLoose
<1>6. CASE Ages
  BY <1>1, <1>6 DEF Ages, slot
<1>7. CASE Stop
  BY <1>7, StopLoose
<1>8. CASE Crash \/ UserTakes
  BY <1>8, EmptiedLoose
<1>9. CASE OtherEnds \/ \E ok \in BOOLEAN : TurnEnds(ok)
  BY <1>9, TurnEndsLoose
<1>10. CASE \E ok \in BOOLEAN : RotationEnds(ok)
  BY <1>1, <1>10 DEF RotationEnds, slot
<1>11. CASE \E s \in settling : Settle(s)
  BY <1>11, SettleLoose
<1>12. CASE UserMessage
  BY <1>12, UserMessageLoose
<1>13. CASE UserStop
  BY <1>13, UserStopLoose
<1>14. CASE DropWaiting
  BY <1>14, DropWaitingLoose
<1>15. CASE AgentComesOrGoes
  BY <1>1, <1>15 DEF AgentComesOrGoes, memory, slot
<1>16. CASE \E j \in Job : \/ Request(j) \/ FallsDue(j) \/ Delete(j) \/ Kill(j)
                           \/ \E b \in BOOLEAN : SetEnabled(j, b)
  BY <1>1, <1>16 DEF Request, FallsDue, Delete, Kill, SetEnabled, memory, slot
<1>17. CASE UNCHANGED vars
  BY <1>1, <1>17 DEF vars, memory, slot
<1> QED BY <1>2, <1>3, <1>4, <1>5, <1>6, <1>7, <1>8, <1>9, <1>10, <1>11, <1>12, <1>13, <1>14, <1>15, <1>16, <1>17
        DEF Next

(* The runs of a topic are serial, and a run that is over stays over: one     *)
(* that is not the active run has its inject queued or its turn started only *)
(* by a prompt killed before its dispatch, by a time limit that strikes       *)
(* while its preempted turn unwinds, or by a user message that queues an      *)
(* aborted turn again and the end that turn reports all the same.             *)
THEOREM NoLooseWorkHolds == Spec => NoLooseWork
PROOF
<1>1. Inv /\ [Next]_vars =>
        [\A r \in Run :
           (Works(r) /\ ~Live(r))' /\ ~(Works(r) /\ ~Live(r)) =>
             \/ Due("dispatch") /\ Arg = r /\ ~Live(r)
             \/ RunTimeout /\ Runs(r) /\ Waits(r)
             \/ UserMessage /\ Runs(r) /\ room.abort # "none"
             \/ \E s \in settling : s.run = r /\ Waits(r) /\ Settle(s)]_vars
  BY LooseStep DEF Loose, Excused
<1> QED BY <1>1, InvStart, InvStep, PTL DEF Spec, NoLooseWork
=============================================================================
