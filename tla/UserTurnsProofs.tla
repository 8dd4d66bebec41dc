--------------------------- MODULE UserTurnsProofs ---------------------------
(***************************************************************************)
(* Theorems about UserTurns.                                                *)
(***************************************************************************)
EXTENDS UserTurns, SelectionsProofs

-----------------------------------------------------------------------------
(* The operators on rows.                                                    *)

SaidIn(st) == {m \in DOMAIN st : st[m].said}

Sent == [actor : Actor, thread : Thread, said : BOOLEAN]

(* What TypeOK asks of a row, of a list of rows and of a turn, when st has    *)
(* been submitted.                                                           *)
RowFor(r, st) ==
  /\ r \in Row /\ r.id \in DOMAIN st
  /\ ToSet(r.msgs) \subseteq SaidIn(st)
  /\ r.running \/ r.fresh => r.claim # None

RowsFor(rs, st) ==
  /\ rs \in Seq(Row)
  /\ \A i \in DOMAIN rs : RowFor(rs[i], st)
  /\ \A i, j \in DOMAIN rs : rs[i].id = rs[j].id => i = j

TurnFor(t, st) ==
  /\ t \in Turn /\ t.id \in DOMAIN st \cup {None}
  /\ ToSet(t.msgs) \subseteq SaidIn(st)

LEMMA RowFields ==
  ASSUME NEW r \in Row
  PROVE  /\ r.id \in Request /\ r.msgs \in Seq(Request) /\ r.actor \in Actor
         /\ r.thread \in Thread /\ r.epoch \in 0..MaxEpoch /\ r.seen \in BOOLEAN
         /\ r.running \in BOOLEAN /\ r.claim \in Process \cup {None} /\ r.fresh \in BOOLEAN
PROOF
  BY DEF Row

LEMMA Elements ==
  ASSUME NEW X, NEW s \in Seq(X)
  PROVE  /\ DOMAIN s = 1..Len(s) /\ Len(s) \in Nat
         /\ \A i \in DOMAIN s : s[i] \in X
         /\ ToSet(s) \subseteq X
         /\ (ToSet(s) = {} => s = <<>>)
PROOF
<1>1. DOMAIN s = 1..Len(s) /\ Len(s) \in Nat /\ \A i \in DOMAIN s : s[i] \in X
  OBVIOUS
<1>2. ASSUME ToSet(s) = {} PROVE s = <<>>
  <2>1. DOMAIN s = {}
    BY <1>2 DEF ToSet
  <2>2. Len(s) = 0
    BY <2>1, <1>1
  <2> QED BY <2>2
<1> QED BY <1>1, <1>2 DEF ToSet

LEMMA Concatenated ==
  ASSUME NEW X, NEW s \in Seq(X), NEW t \in Seq(X)
  PROVE  s \o t \in Seq(X) /\ ToSet(s \o t) = ToSet(s) \cup ToSet(t)
PROOF
<1> DEFINE u == s \o t
<1>1. u \in Seq(X) /\ Len(u) = Len(s) + Len(t) /\ Len(s) \in Nat /\ Len(t) \in Nat
  OBVIOUS
<1>2. /\ \A i \in 1..Len(s) : u[i] = s[i]
      /\ \A i \in 1..Len(t) : u[Len(s) + i] = t[i]
      /\ \A i \in 1..Len(u) : \/ i \in 1..Len(s) /\ u[i] = s[i]
                              \/ i - Len(s) \in 1..Len(t) /\ u[i] = t[i - Len(s)]
  OBVIOUS
<1>3. DOMAIN s = 1..Len(s) /\ DOMAIN t = 1..Len(t) /\ DOMAIN u = 1..Len(u)
  OBVIOUS
<1> HIDE DEF u
<1>4. \A i \in DOMAIN s : i \in DOMAIN u /\ u[i] = s[i]
  BY <1>1, <1>2, <1>3
<1>5. \A i \in DOMAIN t : \E j \in DOMAIN u : u[j] = t[i]
  <2> TAKE i \in DOMAIN t
  <2>1. Len(s) + i \in DOMAIN u /\ u[Len(s) + i] = t[i]
    BY <1>1, <1>2, <1>3
  <2> QED BY <2>1
<1>6. \A i \in DOMAIN u : (\E j \in DOMAIN s : s[j] = u[i]) \/ (\E j \in DOMAIN t : t[j] = u[i])
  BY <1>2, <1>3
<1> QED BY <1>1, <1>4, <1>5, <1>6 DEF ToSet, u

(* The messages of the rows at some places are those rows' messages. *)
LEMMA SaidMessages ==
  ASSUME NEW rs \in Seq(Row), NEW S, S \subseteq DOMAIN rs
  PROVE  /\ Said(rs, S) \in Seq(Request)
         /\ ToSet(Said(rs, S)) = UNION {ToSet(rs[k].msgs) : k \in S}
PROOF
<1> DEFINE ss == [i \in DOMAIN rs |-> IF i \in S THEN rs[i].msgs ELSE <<>>]
<1>1. \A i \in DOMAIN rs : rs[i].msgs \in Seq(Request)
  BY Elements, RowFields
<1>2. ss \in Seq(Seq(Request)) /\ DOMAIN ss = DOMAIN rs
  <2>1. <<>> \in Seq(Request) /\ DOMAIN rs = 1..Len(rs) /\ Len(rs) \in Nat
    OBVIOUS
  <2>2. \A i \in DOMAIN rs : ss[i] \in Seq(Request)
    BY <1>1, <2>1, Zenon
  <2>3. ss = [i \in 1..Len(rs) |-> ss[i]] /\ DOMAIN ss = DOMAIN rs
    BY <2>1
  <2> HIDE DEF ss
  <2> QED BY <2>1, <2>2, <2>3
<1>3. /\ \A i \in S : ss[i] = rs[i].msgs
      /\ \A i \in DOMAIN rs \ S : ss[i] = <<>>
  OBVIOUS
<1>4. Said(rs, S) = Joined(ss)
  BY Zenon DEF Said
<1> HIDE DEF ss
<1>5. ToSet(Said(rs, S)) = UNION {{ss[i][j] : j \in DOMAIN ss[i]} : i \in DOMAIN ss}
  <2>1. {Joined(ss)[k] : k \in DOMAIN Joined(ss)}
          = UNION {{ss[i][j] : j \in DOMAIN ss[i]} : i \in DOMAIN ss}
    BY <1>2, JoinedElements
  <2> QED BY <1>4, <2>1, Zenon DEF ToSet
<1>6. \A i \in DOMAIN rs \ S : {ss[i][j] : j \in DOMAIN ss[i]} = {}
  BY <1>3
<1>7. UNION {{ss[i][j] : j \in DOMAIN ss[i]} : i \in DOMAIN ss} = UNION {ToSet(rs[k].msgs) : k \in S}
  BY <1>2, <1>3, <1>6 DEF ToSet
<1> QED BY <1>2, <1>4, <1>5, <1>7, JoinedOrigins

(* A merge keeps what it does not absorb and appends the new row, whose        *)
(* messages are the carried ones and its own.                                *)
LEMMA Merged ==
  ASSUME NEW rs \in Seq(Row), NEW new \in Row, NEW kept, NEW included
  PROVE  \E m \in Seq(Request) :
           /\ Merge(rs, new, kept, included)
                = Append(Remaining(rs, new, kept), [new EXCEPT !.msgs = m])
           /\ ToSet(m) = ToSet(new.msgs)
                \cup UNION {ToSet(rs[k].msgs) : k \in Carried(rs, new, kept)}
           /\ included = {} => m = Said(rs, Carried(rs, new, kept)) \o new.msgs
PROOF
<1> DEFINE C    == Carried(rs, new, kept)
           I    == {k \in C : rs[k].id \in included}
           old  == Said(rs, I)
           rest == IF IsPrefix(old, new.msgs)
                   THEN SubSeq(new.msgs, Len(old) + 1, Len(new.msgs)) ELSE new.msgs
           m    == Said(rs, C) \o rest
<1>1. C \subseteq DOMAIN rs /\ I \subseteq C
  BY DEF Carried, Absorbed
<1>2. new.msgs \in Seq(Request)
  BY RowFields
<1>3. Said(rs, C) \in Seq(Request) /\ old \in Seq(Request)
  BY <1>1, SaidMessages
<1>4. rest \in Seq(Request) /\ ToSet(rest) \subseteq ToSet(new.msgs)
  BY <1>2, <1>3 DEF ToSet
<1>5. ToSet(new.msgs) \subseteq ToSet(old) \cup ToSet(rest)
  <2>0. CASE ~IsPrefix(old, new.msgs)
    BY <2>0
  <2> SUFFICES ASSUME IsPrefix(old, new.msgs), NEW k \in 1..Len(new.msgs)
               PROVE  new.msgs[k] \in ToSet(old) \cup ToSet(rest)
    <3> HIDE DEF old, rest
    <3>1. DOMAIN new.msgs = 1..Len(new.msgs)
      BY <1>2
    <3> QED BY <2>0, <3>1 DEF ToSet
  <2> DEFINE n == Len(old)
  <2>1. n \in Nat /\ n <= Len(new.msgs) /\ SubSeq(old, 1, n) = SubSeq(new.msgs, 1, n)
    BY <1>3 DEF IsPrefix
  <2>2. rest = SubSeq(new.msgs, n + 1, Len(new.msgs))
    OBVIOUS
  <2> HIDE DEF rest
  <2>3. CASE k <= n
    <3>1. SubSeq(old, 1, n)[k] = old[k] /\ SubSeq(new.msgs, 1, n)[k] = new.msgs[k]
      BY <2>1, <2>3, <1>2, <1>3
    <3>2. new.msgs[k] = old[k] /\ k \in DOMAIN old
      BY <3>1, <2>1, <2>3, <1>3
    <3> QED BY <3>2 DEF ToSet
  <2>4. CASE k > n
    <3>1. k - n \in 1..Len(rest) /\ rest[k - n] = new.msgs[k]
      BY <2>1, <2>2, <2>4, <1>2
    <3>2. k - n \in DOMAIN rest
      BY <3>1, <1>4
    <3> QED BY <3>1, <3>2 DEF ToSet
  <2> QED BY <2>1, <2>3, <2>4
<1>6. ToSet(old) \subseteq ToSet(Said(rs, C))
  BY <1>1, SaidMessages
<1>7. m \in Seq(Request) /\ ToSet(m) = ToSet(Said(rs, C)) \cup ToSet(rest)
  <2> HIDE DEF rest
  <2> QED BY <1>3, <1>4, Concatenated
<1>8. ToSet(m) = ToSet(new.msgs) \cup UNION {ToSet(rs[k].msgs) : k \in C}
  <2>1. ToSet(Said(rs, C)) = UNION {ToSet(rs[k].msgs) : k \in C}
    BY <1>1, SaidMessages, Zenon
  <2>2. ToSet(m) = ToSet(new.msgs) \cup ToSet(Said(rs, C))
    <3> HIDE DEF m, rest, old
    <3> QED BY <1>4, <1>5, <1>6, <1>7
  <2> QED BY <2>1, <2>2, Zenon
<1>9. Merge(rs, new, kept, included) = Append(Remaining(rs, new, kept), [new EXCEPT !.msgs = m])
  BY Zenon DEF Merge
<1>10. ASSUME included = {} PROVE m = Said(rs, C) \o new.msgs
  <2>1. I = {}
    BY <1>10
  <2>2. ToSet(old) = {}
    BY <2>1, SaidMessages
  <2>3. old = <<>>
    BY <2>2, <1>3, Elements
  <2>4. SubSeq(new.msgs, Len(<<>>) + 1, Len(new.msgs)) = new.msgs
    BY <1>2
  <2>5. rest = new.msgs
    BY <2>3, <2>4, Zenon
  <2> QED BY <2>5, Zenon
<1> QED BY <1>7, <1>8, <1>9, <1>10
-----------------------------------------------------------------------------
(* Lists of rows keep to their type.                                         *)

(* Each row of a list that was picked from rs is a row of rs, and no two are   *)
(* the same one; later lemmas only need this.                                *)
LEMMA PickedRows ==
  ASSUME NEW rs, NEW st, RowsFor(rs, st), NEW S, S \subseteq DOMAIN rs
  PROVE  /\ RowsFor(Picked(rs, S), st)
         /\ \E h : Places(Picked(rs, S), rs, S, h)
         /\ \A i \in DOMAIN Picked(rs, S) : \E k \in S : Picked(rs, S)[i] = rs[k]
         /\ \A k \in S : \E i \in DOMAIN Picked(rs, S) : Picked(rs, S)[i] = rs[k]
PROOF
<1> DEFINE t == Picked(rs, S)
<1>1. rs \in Seq(Row)
  BY DEF RowsFor
<1>2. t \in Seq(Row)
  BY <1>1, PickedPlaces
<1>3. PICK h : Places(t, rs, S, h)
  BY <1>1, PickedPlaces
<1>4. DOMAIN t = 1..Len(t)
  BY <1>2
<1> HIDE DEF t
<1>5. /\ \A i \in DOMAIN t : h[i] \in S /\ t[i] = rs[h[i]]
      /\ \A i, j \in DOMAIN t : i < j => h[i] < h[j]
      /\ \A k \in S : \E i \in DOMAIN t : h[i] = k
  BY <1>3, <1>4 DEF Places
<1>6. \A i \in DOMAIN t : RowFor(t[i], st)
  BY <1>5 DEF RowsFor
<1>7. \A i, j \in DOMAIN t : t[i].id = t[j].id => i = j
  <2> SUFFICES ASSUME NEW i \in DOMAIN t, NEW j \in DOMAIN t, t[i].id = t[j].id PROVE i = j
    OBVIOUS
  <2>1. h[i] = h[j]
    BY <1>5 DEF RowsFor
  <2>2. h[i] \in Nat /\ i \in Nat /\ j \in Nat
    BY <1>1, <1>4, <1>5
  <2> QED BY <2>1, <2>2, <1>5
<1> QED BY <1>2, <1>3, <1>5, <1>6, <1>7 DEF RowsFor, t

LEMMA AppendedRows ==
  ASSUME NEW rs, NEW st, RowsFor(rs, st), NEW r, RowFor(r, st),
         \A i \in DOMAIN rs : rs[i].id # r.id
  PROVE  RowsFor(Append(rs, r), st)
PROOF
<1> DEFINE t == Append(rs, r)
<1>1. rs \in Seq(Row) /\ r \in Row
  BY DEF RowsFor, RowFor
<1>2. /\ t \in Seq(Row) /\ Len(rs) \in Nat /\ DOMAIN rs = 1..Len(rs)
      /\ DOMAIN t = 1..(Len(rs) + 1)
      /\ \A i \in DOMAIN rs : t[i] = rs[i]
      /\ t[Len(rs) + 1] = r
  BY <1>1
<1> HIDE DEF t
<1>3. \A i \in DOMAIN t : i \in DOMAIN rs \/ i = Len(rs) + 1
  BY <1>2
<1>4. \A i \in DOMAIN t : RowFor(t[i], st)
  BY <1>2, <1>3 DEF RowsFor
<1>5. \A i, j \in DOMAIN t : t[i].id = t[j].id => i = j
  <2> SUFFICES ASSUME NEW i \in DOMAIN t, NEW j \in DOMAIN t, t[i].id = t[j].id PROVE i = j
    OBVIOUS
  <2>1. CASE i \in DOMAIN rs /\ j \in DOMAIN rs
    BY <2>1, <1>2 DEF RowsFor
  <2>2. CASE i \in DOMAIN rs /\ j = Len(rs) + 1
    BY <2>2, <1>2
  <2>3. CASE i = Len(rs) + 1 /\ j \in DOMAIN rs
    BY <2>3, <1>2
  <2> QED BY <1>3, <2>1, <2>2, <2>3
<1> QED BY <1>2, <1>4, <1>5 DEF RowsFor, t

LEMMA ChangedRows ==
  ASSUME NEW rs, NEW st, RowsFor(rs, st), NEW t, t = [i \in DOMAIN rs |-> t[i]],
         \A i \in DOMAIN rs : RowFor(t[i], st) /\ t[i].id = rs[i].id
  PROVE  RowsFor(t, st)
PROOF
<1>1. DOMAIN t = DOMAIN rs /\ DOMAIN rs = 1..Len(rs) /\ Len(rs) \in Nat
  BY DEF RowsFor
<1>2. t = [i \in 1..Len(rs) |-> t[i]] /\ \A i \in 1..Len(rs) : t[i] \in Row
  BY <1>1 DEF RowFor
<1>3. t \in Seq(Row)
  BY <1>1, <1>2
<1> QED BY <1>1, <1>3 DEF RowsFor

(* What was submitted stays submitted. *)
Longer(st, new) ==
  DOMAIN st \subseteq DOMAIN new /\ \A i \in DOMAIN st : new[i] = st[i]

LEMMA LaterRows ==
  ASSUME NEW st, NEW new, Longer(st, new)
  PROVE  /\ SaidIn(st) \subseteq SaidIn(new)
         /\ \A r : RowFor(r, st) => RowFor(r, new)
         /\ \A rs : RowsFor(rs, st) => RowsFor(rs, new)
         /\ \A t : TurnFor(t, st) => TurnFor(t, new)
PROOF
<1>1. SaidIn(st) \subseteq SaidIn(new)
  BY DEF SaidIn, Longer
<1>2. \A r : RowFor(r, st) => RowFor(r, new)
  BY <1>1 DEF RowFor, Longer
<1>3. \A rs : RowsFor(rs, st) => RowsFor(rs, new)
  BY <1>2 DEF RowsFor
<1>4. \A t : TurnFor(t, st) => TurnFor(t, new)
  BY <1>1 DEF TurnFor, Longer
<1> QED BY <1>1, <1>2, <1>3, <1>4

(* A merge of a good row into good rows, unless a row of its id is left over.  *)
LEMMA MergedRows ==
  ASSUME NEW rs, NEW st, NEW old, RowsFor(rs, old), Longer(old, st),
         NEW new, RowFor(new, st), NEW kept, NEW included,
         \A i \in DOMAIN rs \ Absorbed(rs, new, kept) : rs[i].id # new.id
  PROVE  /\ RowsFor(Merge(rs, new, kept, included), st)
         /\ Omitted(rs, new, kept) \subseteq SaidIn(old)
PROOF
<1> DEFINE R == Remaining(rs, new, kept)
           S == DOMAIN rs \ Absorbed(rs, new, kept)
           C == Carried(rs, new, kept)
<1>1. RowsFor(rs, st) /\ SaidIn(old) \subseteq SaidIn(st)
  BY LaterRows
<1>2. rs \in Seq(Row) /\ new \in Row /\ \A i \in DOMAIN rs : ToSet(rs[i].msgs) \subseteq SaidIn(old)
  BY DEF RowsFor, RowFor
<1>3. PICK m \in Seq(Request) :
        /\ Merge(rs, new, kept, included) = Append(R, [new EXCEPT !.msgs = m])
        /\ ToSet(m) = ToSet(new.msgs) \cup UNION {ToSet(rs[k].msgs) : k \in C}
  BY <1>2, Merged
<1>4. C \subseteq DOMAIN rs /\ S \subseteq DOMAIN rs /\ Absorbed(rs, new, kept) \subseteq DOMAIN rs
  BY DEF Carried, Absorbed
<1>5. RowsFor(R, st) /\ \A i \in DOMAIN R : \E k \in S : R[i] = rs[k]
  <2>1. R = Picked(rs, S)
    BY Zenon DEF Remaining
  <2> HIDE DEF R, S
  <2> QED BY <1>1, <1>4, <2>1, PickedRows
<1> DEFINE r == [new EXCEPT !.msgs = m]
<1>6. r \in Row /\ r.id = new.id /\ r.msgs = m /\ r.running = new.running /\ r.fresh = new.fresh
      /\ r.claim = new.claim
  BY <1>2, <1>3 DEF Row
<1> HIDE DEF R, S, C, r
<1>7. ToSet(m) \subseteq SaidIn(st)
  <2>1. ToSet(new.msgs) \subseteq SaidIn(st)
    BY DEF RowFor
  <2> QED BY <2>1, <1>1, <1>2, <1>3, <1>4
<1>8. RowFor(r, st)
  BY <1>6, <1>7 DEF RowFor
<1>9. \A i \in DOMAIN R : R[i].id # r.id
  BY <1>5, <1>6 DEF S
<1>10. RowsFor(Append(R, r), st)
  BY <1>5, <1>8, <1>9, AppendedRows
<1>11. Omitted(rs, new, kept) \subseteq SaidIn(old)
  BY <1>2, <1>4 DEF Omitted
<1> QED BY <1>3, <1>10, <1>11 DEF r
-----------------------------------------------------------------------------
(* Type correctness.                                                         *)

AtType == [step : Step \cup {"idle"}, row : Row \cup Turn \cup {None}]

Carries(t, st) == t.id \in DOMAIN st \cup {None} /\ ToSet(t.msgs) \subseteq SaidIn(st)

AtFor(p, x, st) ==
  /\ x \in AtType
  /\ x.step \in {"claimed", "admitted"} => x.row \in Row /\ Carries(x.row, st)
  /\ x.step \in {"completed", "error", "aborted", "retry"}
       => x.row \in Turn /\ Carries(x.row, st) /\ x.row.id # None /\ x.row.owner = p
  /\ x.step \in {"idle", "flagging", "stopping", "compacting"} => x.row = None

(* The variables of TypeOK one by one.                                       *)
Typed(st, rs, sl, se, a, u) ==
  /\ st \in Seq(Sent) /\ Len(st) <= MaxRequests
  /\ RowsFor(rs, st)
  /\ sl = None \/ TurnFor(sl, st)
  /\ \A t \in se : TurnFor(t, st) /\ t.id # None /\ t.owner \in u
  /\ a = [p \in Process |-> a[p]] /\ \A p \in Process : AtFor(p, a[p], st)
  /\ \A p \in Process \ u : a[p] = Resting
  /\ u \subseteq Process

Counted(st, e, f, i, r, an, sp, en) ==
  /\ e \in 0..MaxEpoch /\ f \in BOOLEAN /\ i \in 0..MaxInjects /\ r \in 0..MaxRetries
  /\ an \subseteq SaidIn(st) /\ sp \subseteq SaidIn(st) /\ en \subseteq DOMAIN st

LEMMA TypeParts ==
  TypeOK <=> /\ Typed(sent, rows, slot, settling, at, up)
             /\ Counted(sent, epoch, fence, injects, retries, answered, stopped, ended)
PROOF
<1>1. Accepted = SaidIn(sent)
  BY DEF Accepted, SaidIn
<1>2. \A t : Known(t) <=> Carries(t, sent)
  BY <1>1 DEF Known, Carries
<1>3. RowsFor(rows, sent) <=>
        /\ rows \in Seq(Row)
        /\ \A i \in DOMAIN rows :
             /\ rows[i].id \in DOMAIN sent
             /\ ToSet(rows[i].msgs) \subseteq Accepted
             /\ rows[i].running \/ rows[i].fresh => rows[i].claim # None
        /\ \A i, j \in DOMAIN rows : rows[i].id = rows[j].id => i = j
  BY <1>1 DEF RowsFor, RowFor
<1>4. (slot = None \/ TurnFor(slot, sent)) <=> (slot \in Turn \cup {None} /\ (slot # None => Known(slot)))
  BY <1>2, NoneAssumption DEF TurnFor, Carries
<1>5. (\A t \in settling : TurnFor(t, sent) /\ t.id # None /\ t.owner \in up) <=>
        (settling \subseteq Turn /\ \A t \in settling : Known(t) /\ t.id # None /\ t.owner \in up)
  BY <1>2 DEF TurnFor, Carries
<1>6. at \in [Process -> AtType] <=>
        (at = [p \in Process |-> at[p]] /\ \A p \in Process : at[p] \in AtType)
  OBVIOUS
<1> QED
  BY <1>1, <1>2, <1>3, <1>4, <1>5, <1>6, Zenon DEF TypeOK, Typed, Counted, AtFor, AtType, Sent

LEMMA TypePartsLater ==
  TypeOK' <=> /\ Typed(sent', rows', slot', settling', at', up')
              /\ Counted(sent', epoch', fence', injects', retries', answered', stopped', ended')
PROOF
<1>1. (TypeOK <=> /\ Typed(sent, rows, slot, settling, at, up)
                  /\ Counted(sent, epoch, fence, injects, retries, answered, stopped, ended))'
  BY TypeParts, PTL
<1> QED BY <1>1

(* One process moves in its callback, or none does. *)
Moves(a, b, p, x) == b = [a EXCEPT ![p] = x]

LEMMA AtMoves ==
  ASSUME NEW a, NEW b, NEW p \in Process, NEW x, NEW st,
         a = [q \in Process |-> a[q]], \A q \in Process : AtFor(q, a[q], st),
         Moves(a, b, p, x), AtFor(p, x, st)
  PROVE  /\ b = [q \in Process |-> b[q]] /\ \A q \in Process : AtFor(q, b[q], st)
         /\ b[p] = x /\ \A q \in Process \ {p} : b[q] = a[q]
PROOF
<1>1. DOMAIN a = Process /\ b = [a EXCEPT ![p] = x]
  BY DEF Moves
<1>2. b = [q \in Process |-> b[q]] /\ b[p] = x /\ \A q \in Process \ {p} : b[q] = a[q]
  BY <1>1
<1> QED BY <1>2

(* The steps that mint no request: what remains to be shown of each.          *)
LEMMA TypeStep ==
  ASSUME TypeOK, UNCHANGED <<sent, up>>,
         rows' = rows \/ RowsFor(rows', sent),
         slot' = slot \/ slot' = None \/ TurnFor(slot', sent),
         \A t \in settling' : t \in settling \/ (TurnFor(t, sent) /\ t.id # None /\ t.owner \in up),
         \/ at' = at
         \/ \E p \in Process : \E x : Moves(at, at', p, x) /\ AtFor(p, x, sent) /\ (p \in up \/ x = Resting),
         Counted(sent, epoch', fence', injects', retries', answered', stopped', ended')
  PROVE  TypeOK'
PROOF
<1>1. Typed(sent, rows, slot, settling, at, up)
  BY TypeParts
<1>2. RowsFor(rows', sent) /\ (slot' = None \/ TurnFor(slot', sent))
  BY <1>1 DEF Typed
<1>3. \A t \in settling' : TurnFor(t, sent) /\ t.id # None /\ t.owner \in up
  BY <1>1 DEF Typed
<1>4. /\ at' = [q \in Process |-> at'[q]] /\ \A q \in Process : AtFor(q, at'[q], sent)
      /\ \A q \in Process \ up : at'[q] = Resting
  <2>1. CASE at' = at
    BY <2>1, <1>1 DEF Typed
  <2>2. ASSUME NEW p \in Process, NEW x, Moves(at, at', p, x), AtFor(p, x, sent), p \in up \/ x = Resting
        PROVE  <1>4!:
    <3>1. at = [q \in Process |-> at[q]] /\ \A q \in Process : AtFor(q, at[q], sent)
      BY <1>1 DEF Typed
    <3>2. /\ at' = [q \in Process |-> at'[q]] /\ \A q \in Process : AtFor(q, at'[q], sent)
          /\ at'[p] = x /\ \A q \in Process \ {p} : at'[q] = at[q]
      <4>1. DOMAIN at = Process /\ at' = [at EXCEPT ![p] = x] /\ AtFor(p, x, sent)
        BY <2>2, <3>1 DEF Moves
      <4>2. at' = [q \in Process |-> at'[q]] /\ at'[p] = x /\ \A q \in Process \ {p} : at'[q] = at[q]
        BY <4>1
      <4> QED BY <3>1, <4>1, <4>2
    <3> QED BY <3>2, <2>2, <1>1 DEF Typed
  <2> QED BY <2>1, <2>2
<1>5. Typed(sent', rows', slot', settling', at', up')
  BY <1>1, <1>2, <1>3, <1>4 DEF Typed
<1> QED BY <1>5, TypePartsLater

(* What a step may use of the types. *)
LEMMA TypeFacts ==
  ASSUME TypeOK
  PROVE  /\ sent \in Seq(Sent) /\ Len(sent) <= MaxRequests /\ Accepted = SaidIn(sent)
         /\ RowsFor(rows, sent)
         /\ slot = None \/ TurnFor(slot, sent)
         /\ \A t \in settling : TurnFor(t, sent) /\ t.id # None /\ t.owner \in up
         /\ \A p \in Process : at[p] \in AtType /\ AtFor(p, at[p], sent) /\ (p \notin up => at[p] = Resting)
         /\ at = [p \in Process |-> at[p]]
         /\ up \subseteq Process
         /\ Counted(sent, epoch, fence, injects, retries, answered, stopped, ended)
PROOF
  BY TypeParts DEF Typed, AtFor, Accepted, SaidIn

Quiets == {"idle", "flagging", "stopping", "compacting"}

LEMMA StepsTo ==
  ASSUME TypeOK, NEW p \in Process, NEW s \in Step, at' = [at EXCEPT ![p].step = s]
  PROVE  Moves(at, at', p, [step |-> s, row |-> at[p].row])
PROOF
<1>1. at[p] \in AtType
  BY TypeFacts
<1>2. at' = [at EXCEPT ![p] = [at[p] EXCEPT !.step = s]]
  BY TypeFacts
<1>3. [at[p] EXCEPT !.step = s] = [step |-> s, row |-> at[p].row]
  BY <1>1 DEF AtType
<1> QED BY <1>2, <1>3 DEF Moves

LEMMA QuietFor ==
  ASSUME NEW s \in Quiets, NEW st, NEW p
  PROVE  AtFor(p, [step |-> s, row |-> None], st)
PROOF
<1>1. [step |-> s, row |-> None] \in AtType
  BY DEF AtType, Quiets, Step
<1>2. s \notin {"claimed", "admitted", "completed", "error", "aborted", "retry"}
  BY DEF Quiets
<1> QED BY <1>1, <1>2 DEF AtFor

LEMMA RestsFor ==
  ASSUME NEW st, NEW p
  PROVE  AtFor(p, Resting, st) /\ Resting.step = "idle" /\ Resting.row = None
PROOF
<1>1. "idle" \in Quiets
  BY DEF Quiets
<1>2. AtFor(p, [step |-> "idle", row |-> None], st)
  BY <1>1, QuietFor
<1> QED BY <1>2 DEF Resting

(* p goes back to rest, or to a step that holds nothing, from rest.           *)
LEMMA ComesToRest ==
  ASSUME NEW p \in Process, at' = [at EXCEPT ![p] = Resting]
  PROVE  \E q \in Process : \E x : Moves(at, at', q, x) /\ AtFor(q, x, sent) /\ (q \in up \/ x = Resting)
PROOF
  BY RestsFor DEF Moves

LEMMA LeavesRest ==
  ASSUME TypeOK, NEW p \in up, at[p] = Resting, NEW s \in {"flagging", "stopping", "compacting"},
         at' = [at EXCEPT ![p].step = s]
  PROVE  \E q \in Process : \E x : Moves(at, at', q, x) /\ AtFor(q, x, sent) /\ (q \in up \/ x = Resting)
PROOF
<1>1. p \in Process /\ s \in Step /\ s \in Quiets
  BY TypeFacts DEF Step, Quiets
<1>2. Moves(at, at', p, [step |-> s, row |-> None])
  BY <1>1, StepsTo, RestsFor
<1>3. AtFor(p, [step |-> s, row |-> None], sent)
  BY <1>1, QuietFor
<1> QED BY <1>1, <1>2, <1>3

LEMMA CompletedRows ==
  ASSUME NEW rs, NEW st, RowsFor(rs, st), NEW id, NEW p
  PROVE  RowsFor(Complete(rs, id, p), st)
PROOF
<1> DEFINE S == {i \in DOMAIN rs : ~(rs[i].id = id /\ rs[i].claim = p)}
<1>1. S \subseteq DOMAIN rs
  OBVIOUS
<1>2. Complete(rs, id, p) = Picked(rs, S)
  BY Zenon DEF Complete
<1> HIDE DEF S
<1> QED BY <1>1, <1>2, PickedRows

LEMMA CurrentRows ==
  ASSUME NEW rs, NEW st, RowsFor(rs, st)
  PROVE  RowsFor(Current(rs), st)
PROOF
<1> DEFINE S == {i \in DOMAIN rs : rs[i].epoch >= epoch}
<1>1. S \subseteq DOMAIN rs
  OBVIOUS
<1>2. Current(rs) = Picked(rs, S)
  BY Zenon DEF Current
<1> HIDE DEF S
<1> QED BY <1>1, <1>2, PickedRows

LEMMA FlaggedTurn ==
  ASSUME NEW st, slot = None \/ TurnFor(slot, st), NEW reason \in {"internal", "external"}
  PROVE  /\ Flagged(reason) = None \/ TurnFor(Flagged(reason), st)
         /\ slot = None => Flagged(reason) = None
         /\ slot # None =>
              /\ Flagged(reason) # None
              /\ Flagged(reason).owner = slot.owner /\ Flagged(reason).id = slot.id
              /\ Flagged(reason).msgs = slot.msgs /\ Flagged(reason).thread = slot.thread
              /\ Flagged(reason).epoch = slot.epoch
              /\ Flagged(reason).abort = IF slot.abort = "external" THEN "external" ELSE reason
PROOF
<1>1. CASE slot = None
  BY <1>1 DEF Flagged
<1>2. CASE slot # None
  <2> DEFINE b == IF slot.abort = "external" THEN "external" ELSE reason
             f == [slot EXCEPT !.abort = b]
  <2>1. slot \in Turn
    BY <1>2 DEF TurnFor
  <2>2. f = [slot EXCEPT !.abort = IF @ = "external" THEN @ ELSE reason]
    BY Zenon
  <2>3. Flagged(reason) = f
    BY <1>2, <2>2, Zenon DEF Flagged
  <2>4. b \in {"internal", "external"}
    OBVIOUS
  <2> HIDE DEF b
  <2>5. /\ f \in Turn /\ f.owner = slot.owner /\ f.id = slot.id /\ f.msgs = slot.msgs
        /\ f.thread = slot.thread /\ f.epoch = slot.epoch /\ f.abort = b
    BY <2>1, <2>4 DEF Turn
  <2> HIDE DEF f
  <2>6. TurnFor(f, st)
    BY <1>2, <2>5 DEF TurnFor
  <2>7. f # None
    BY <2>5, NoneAssumption
  <2> QED BY <1>2, <2>3, <2>5, <2>6, <2>7 DEF b
<1> QED BY <1>1, <1>2

LEMMA PendingRow ==
  ASSUME NEW id \in Request, NEW msgs \in Seq(Request), NEW a \in Actor, NEW t \in Thread,
         NEW e \in 0..MaxEpoch
  PROVE  Pending(id, msgs, a, t, e) \in Row
PROOF
  BY DEF Pending, Row

(* A request is minted: the records of the others stay. *)
LEMMA Minted ==
  ASSUME NEW st \in Seq(Sent), NEW e \in Sent, NEW new, new = Append(st, e)
  PROVE  /\ new \in Seq(Sent) /\ Len(st) \in Nat /\ Len(new) = Len(st) + 1
         /\ DOMAIN st = 1..Len(st) /\ DOMAIN new = 1..(Len(st) + 1)
         /\ DOMAIN new = DOMAIN st \cup {Len(st) + 1} /\ Len(st) + 1 \notin DOMAIN st
         /\ Longer(st, new) /\ new[Len(st) + 1] = e
         /\ SaidIn(new) = SaidIn(st) \cup (IF e.said THEN {Len(st) + 1} ELSE {})
PROOF
<1>1. /\ new \in Seq(Sent) /\ Len(st) \in Nat /\ Len(new) = Len(st) + 1
      /\ DOMAIN st = 1..Len(st) /\ DOMAIN new = 1..(Len(st) + 1)
      /\ new[Len(st) + 1] = e /\ \A i \in DOMAIN st : new[i] = st[i]
  OBVIOUS
<1>2. DOMAIN new = DOMAIN st \cup {Len(st) + 1} /\ Len(st) + 1 \notin DOMAIN st
  BY <1>1
<1>3. Longer(st, new)
  BY <1>1, <1>2 DEF Longer
<1>4. SaidIn(new) = SaidIn(st) \cup (IF e.said THEN {Len(st) + 1} ELSE {})
  BY <1>1, <1>2, <1>3 DEF SaidIn
<1> QED BY <1>1, <1>2, <1>3, <1>4

LEMMA FreeAt ==
  ASSUME TypeOK, NEW p \in Process, Free(p)
  PROVE  p \in up /\ at[p] = Resting
PROOF
  BY DEF Free

LEMMA MintingStep ==
  ASSUME TypeOK, NEW p \in Process, Free(p), Len(sent) + 1 \in Request,
         NEW e \in Sent, sent' = Append(sent, e),
         NEW new, RowFor(new, sent'), new.id = Len(sent) + 1, NEW kept,
         rows' = Merge(rows, new, kept, {}),
         answered' = answered \cup Omitted(rows, new, kept),
         at' = at \/ at' = [at EXCEPT ![p].step = "flagging"],
         UNCHANGED <<epoch, fence, slot, settling, up, spent, stopped, ended>>
  PROVE  TypeOK'
PROOF
<1>1. /\ sent' \in Seq(Sent) /\ Len(sent') <= MaxRequests /\ Longer(sent, sent')
      /\ DOMAIN sent \subseteq DOMAIN sent' /\ Len(sent) + 1 \notin DOMAIN sent
  <2>1. /\ sent' \in Seq(Sent) /\ Len(sent') = Len(sent) + 1 /\ Longer(sent, sent')
        /\ Len(sent) + 1 \notin DOMAIN sent
    BY TypeFacts, Minted
  <2>2. Len(sent) + 1 <= MaxRequests
    BY TypeFacts, BoundsAssumption DEF Request
  <2> QED BY <2>1, <2>2 DEF Longer
<1>2. SaidIn(sent) \subseteq SaidIn(sent') /\ (slot = None \/ TurnFor(slot, sent'))
      /\ \A t \in settling : TurnFor(t, sent') /\ t.id # None /\ t.owner \in up
  BY <1>1, TypeFacts, LaterRows
<1>3. RowsFor(rows, sent) /\ \A i \in DOMAIN rows : rows[i].id # Len(sent) + 1
  BY <1>1, TypeFacts DEF RowsFor, RowFor
<1>4. /\ RowsFor(Merge(rows, new, kept, {}), sent')
      /\ Omitted(rows, new, kept) \subseteq SaidIn(sent)
  BY <1>1, <1>3, MergedRows
<1>5. \A q, x : AtFor(q, x, sent) => AtFor(q, x, sent')
  BY <1>1, <1>2 DEF AtFor, Carries
<1>6. /\ at' = [q \in Process |-> at'[q]] /\ \A q \in Process : AtFor(q, at'[q], sent')
      /\ \A q \in Process \ up : at'[q] = Resting
  <2>0. at = [q \in Process |-> at[q]] /\ (\A q \in Process : AtFor(q, at[q], sent'))
        /\ (\A q \in Process \ up : at[q] = Resting) /\ p \in up
    BY <1>5, TypeFacts, FreeAt
  <2>1. CASE at' = at
    BY <2>0, <2>1
  <2>2. CASE at' = [at EXCEPT ![p].step = "flagging"]
    <3> DEFINE x == [step |-> "flagging", row |-> None]
    <3>1. Moves(at, at', p, x)
      BY <2>2, FreeAt, StepsTo, RestsFor DEF Step
    <3>2. AtFor(p, x, sent')
      BY QuietFor DEF Quiets
    <3> HIDE DEF x
    <3>3. /\ at' = [q \in Process |-> at'[q]] /\ \A q \in Process : AtFor(q, at'[q], sent')
          /\ \A q \in Process \ {p} : at'[q] = at[q]
      BY <2>0, <3>1, <3>2, AtMoves
    <3> QED BY <2>0, <3>3
  <2> QED BY <2>1, <2>2
<1>7. Typed(sent', rows', slot', settling', at', up')
  BY <1>1, <1>2, <1>4, <1>6, TypeFacts DEF Typed
<1>8. Counted(sent', epoch', fence', injects', retries', answered', stopped', ended')
  BY <1>1, <1>2, <1>4, TypeFacts DEF Counted, spent
<1> QED BY <1>7, <1>8, TypePartsLater

LEMMA SubmitRow ==
  ASSUME TypeOK, Len(sent) + 1 \in Request, NEW a \in Actor, NEW t \in Thread,
         sent' = Append(sent, [actor |-> a, thread |-> t, said |-> TRUE])
  PROVE  /\ [actor |-> a, thread |-> t, said |-> TRUE] \in Sent
         /\ RowFor(Pending(Len(sent) + 1, <<Len(sent) + 1>>, a, t, epoch), sent')
PROOF
<1> DEFINE id == Len(sent) + 1
           new == Pending(id, <<id>>, a, t, epoch)
           e == [actor |-> a, thread |-> t, said |-> TRUE]
<1>1. e \in Sent /\ e.said = TRUE
  BY DEF Sent
<1>2. id \in DOMAIN sent' /\ id \in SaidIn(sent')
  <2>1. sent' = Append(sent, e) /\ sent \in Seq(Sent)
    BY TypeFacts
  <2> HIDE DEF e
  <2>2. DOMAIN sent' = DOMAIN sent \cup {id} /\ SaidIn(sent') = SaidIn(sent) \cup (IF e.said THEN {id} ELSE {})
    BY <1>1, <2>1, Minted
  <2> QED BY <1>1, <2>2
<1>3. <<id>> \in Seq(Request) /\ ToSet(<<id>>) = {id}
  BY DEF ToSet
<1>4. new \in Row
  <2>1. epoch \in 0..MaxEpoch
    BY TypeFacts DEF Counted
  <2> QED BY <1>3, <2>1, PendingRow
<1>5. new.id = id /\ new.msgs = <<id>> /\ new.running = FALSE /\ new.fresh = FALSE
  BY DEF Pending
<1> QED BY <1>1, <1>2, <1>3, <1>4, <1>5 DEF RowFor

LEMMA TypeSubmit ==
  ASSUME TypeOK, NEW p \in Process, NEW a \in Actor, NEW t \in Thread, NEW steer \in BOOLEAN,
         Submit(p, a, t, steer)
  PROVE  TypeOK'
PROOF
<1> DEFINE id == Len(sent) + 1
           new == Pending(id, <<id>>, a, t, epoch)
           kept == IF ~steer /\ HasActive THEN {Active.id} ELSE {}
<1>1. /\ Free(p) /\ id \in Request
      /\ sent' = Append(sent, [actor |-> a, thread |-> t, said |-> TRUE])
      /\ rows' = Merge(rows, new, kept, {})
      /\ answered' = answered \cup Omitted(rows, new, kept)
      /\ at' = at \/ at' = [at EXCEPT ![p].step = "flagging"]
      /\ UNCHANGED <<epoch, fence, slot, settling, up, spent, stopped, ended>>
  BY Zenon DEF Submit
<1>2. RowFor(new, sent') /\ [actor |-> a, thread |-> t, said |-> TRUE] \in Sent
  BY <1>1, SubmitRow
<1>3. new.id = id
  BY DEF Pending
<1> HIDE DEF new, kept
<1> QED BY <1>1, <1>2, <1>3, MintingStep

(* A fold is for whom, and where, the last row is. *)
LEMMA SteerRow ==
  ASSUME TypeOK, NEW p \in Process, SteerQueued(p)
  PROVE  LET id == Len(sent) + 1
             latest == Last(rows)
             e == [actor |-> latest.actor, thread |-> latest.thread, said |-> FALSE]
             new == [Pending(id, <<>>, latest.actor, latest.thread, latest.epoch)
                       EXCEPT !.seen = latest.seen]
         IN  /\ Free(p) /\ id \in Request /\ HasActive /\ latest.actor = Active.actor
             /\ Len(rows) \in DOMAIN rows /\ latest = rows[Len(rows)]
             /\ sent' = Append(sent, e) /\ e \in Sent /\ RowFor(new, sent')
             /\ new.id = id /\ new.msgs = <<>> /\ new.actor = latest.actor /\ new.thread = latest.thread
             /\ new.epoch = latest.epoch /\ new.seen = latest.seen
             /\ new.running = FALSE /\ new.claim = None /\ new.fresh = FALSE
             /\ rows' = Merge(rows, new, {}, {})
             /\ answered' = answered \cup Omitted(rows, new, {})
             /\ at' = IF ActiveAt \in Absorbed(rows, new, {})
                      THEN [at EXCEPT ![p].step = "flagging"] ELSE at
             /\ UNCHANGED <<epoch, fence, slot, settling, up, spent, stopped, ended>>
PROOF
<1> DEFINE id == Len(sent) + 1
           latest == Last(rows)
           e == [actor |-> latest.actor, thread |-> latest.thread, said |-> FALSE]
           base == Pending(id, <<>>, latest.actor, latest.thread, latest.epoch)
           new == [base EXCEPT !.seen = latest.seen]
<1>1. /\ Free(p) /\ id \in Request /\ HasActive /\ latest.actor = Active.actor
      /\ sent' = Append(sent, e)
      /\ rows' = Merge(rows, new, {}, {})
      /\ answered' = answered \cup Omitted(rows, new, {})
      /\ at' = IF ActiveAt \in Absorbed(rows, new, {})
               THEN [at EXCEPT ![p].step = "flagging"] ELSE at
      /\ UNCHANGED <<epoch, fence, slot, settling, up, spent, stopped, ended>>
  BY Zenon DEF SteerQueued
<1>2. rows \in Seq(Row) /\ RowsFor(rows, sent)
  BY TypeFacts DEF RowsFor
<1>3. Len(rows) \in DOMAIN rows /\ latest = rows[Len(rows)]
  <2>1. DOMAIN rows = 1..Len(rows) /\ Len(rows) \in Nat /\ DOMAIN rows # {}
    BY <1>1, <1>2 DEF HasActive, Actives
  <2> QED BY <2>1 DEF Last
<1>4. latest \in Row
  BY <1>2, <1>3
<1> HIDE DEF latest
<1>5. e \in Sent
  BY <1>4, RowFields DEF Sent
<1>6. id \in DOMAIN sent'
  BY <1>1, <1>5, TypeFacts, Minted
<1>7. /\ new \in Row /\ new.id = id /\ new.msgs = <<>> /\ new.actor = latest.actor
      /\ new.thread = latest.thread /\ new.epoch = latest.epoch /\ new.seen = latest.seen
      /\ new.running = FALSE /\ new.claim = None /\ new.fresh = FALSE
  <2>1. <<>> \in Seq(Request)
    OBVIOUS
  <2>2. /\ latest.actor \in Actor /\ latest.thread \in Thread /\ latest.epoch \in 0..MaxEpoch
        /\ latest.seen \in BOOLEAN
    BY <1>4, RowFields
  <2>3. id \in Request
    BY <1>1
  <2> HIDE DEF id
  <2> QED BY <2>1, <2>2, <2>3 DEF Pending, Row
<1>8. RowFor(new, sent')
  <2>1. ToSet(<<>>) = {}
    BY DEF ToSet
  <2> HIDE DEF new
  <2> QED BY <1>6, <1>7, <2>1 DEF RowFor
<1> QED BY <1>1, <1>3, <1>5, <1>7, <1>8, Zenon DEF latest

LEMMA TypeSteerQueued ==
  ASSUME TypeOK, NEW p \in Process, SteerQueued(p)
  PROVE  TypeOK'
PROOF
<1> DEFINE id == Len(sent) + 1
           latest == Last(rows)
           e == [actor |-> latest.actor, thread |-> latest.thread, said |-> FALSE]
           new == [Pending(id, <<>>, latest.actor, latest.thread, latest.epoch)
                     EXCEPT !.seen = latest.seen]
<1>1. /\ Free(p) /\ id \in Request
      /\ sent' = Append(sent, e) /\ e \in Sent /\ RowFor(new, sent') /\ new.id = id
      /\ rows' = Merge(rows, new, {}, {})
      /\ answered' = answered \cup Omitted(rows, new, {})
      /\ at' = IF ActiveAt \in Absorbed(rows, new, {})
               THEN [at EXCEPT ![p].step = "flagging"] ELSE at
      /\ UNCHANGED <<epoch, fence, slot, settling, up, spent, stopped, ended>>
  BY SteerRow, Zenon
<1>2. at' = at \/ at' = [at EXCEPT ![p].step = "flagging"]
  BY <1>1, Zenon
<1> HIDE DEF new, e
<1> QED BY <1>1, <1>2, MintingStep

(* A step that only touches claims and marks of rows. *)
Touched(rs, t) ==
  /\ DOMAIN t = DOMAIN rs
  /\ \A i \in DOMAIN rs : /\ t[i].id = rs[i].id /\ t[i].msgs = rs[i].msgs /\ t[i].actor = rs[i].actor
                          /\ t[i].thread = rs[i].thread /\ t[i].epoch = rs[i].epoch

Touch(r, new) ==
  \/ new = r
  \/ new = [r EXCEPT !.seen = TRUE]
  \/ new = [r EXCEPT !.fresh = FALSE]
  \/ \E q \in Process : new = [r EXCEPT !.claim = q, !.fresh = TRUE]
  \/ r.claim # None /\ new = [r EXCEPT !.running = TRUE, !.fresh = TRUE]

LEMMA TouchedRows ==
  ASSUME NEW st, NEW rs, RowsFor(rs, st), NEW t, t = [i \in DOMAIN rs |-> t[i]],
         \A i \in DOMAIN rs : Touch(rs[i], t[i])
  PROVE  RowsFor(t, st) /\ Touched(rs, t)
PROOF
<1>1. \A i \in DOMAIN rs :
        /\ RowFor(t[i], st)
        /\ t[i].id = rs[i].id /\ t[i].msgs = rs[i].msgs /\ t[i].actor = rs[i].actor
        /\ t[i].thread = rs[i].thread /\ t[i].epoch = rs[i].epoch
  <2> SUFFICES ASSUME NEW i \in DOMAIN rs
               PROVE  /\ RowFor(t[i], st)
                      /\ t[i].id = rs[i].id /\ t[i].msgs = rs[i].msgs /\ t[i].actor = rs[i].actor
                      /\ t[i].thread = rs[i].thread /\ t[i].epoch = rs[i].epoch
    OBVIOUS
  <2> DEFINE r == rs[i]
  <2>1. RowFor(r, st)
    BY DEF RowsFor
  <2>2. /\ r \in Row /\ r.id \in DOMAIN st /\ ToSet(r.msgs) \subseteq SaidIn(st)
        /\ r.running \/ r.fresh => r.claim # None
    BY <2>1 DEF RowFor
  <2> HIDE DEF r
  <2> DEFINE Fine(x) == RowFor(x, st) /\ x.id = r.id /\ x.msgs = r.msgs /\ x.actor = r.actor
                          /\ x.thread = r.thread /\ x.epoch = r.epoch
  <2>3. Fine(r)
    BY <2>1
  <2>4. Fine([r EXCEPT !.seen = TRUE])
    <3> DEFINE x == [r EXCEPT !.seen = TRUE]
    <3>1. x \in Row /\ x.id = r.id /\ x.msgs = r.msgs /\ x.actor = r.actor /\ x.thread = r.thread
          /\ x.epoch = r.epoch /\ x.running = r.running /\ x.fresh = r.fresh /\ x.claim = r.claim
      BY <2>2 DEF Row
    <3> HIDE DEF x
    <3>2. Fine(x)
      BY <2>2, <3>1 DEF RowFor
    <3> QED BY <3>2 DEF x
  <2>5. Fine([r EXCEPT !.fresh = FALSE])
    <3> DEFINE x == [r EXCEPT !.fresh = FALSE]
    <3>1. x \in Row /\ x.id = r.id /\ x.msgs = r.msgs /\ x.actor = r.actor /\ x.thread = r.thread
          /\ x.epoch = r.epoch /\ x.running = r.running /\ x.fresh = FALSE /\ x.claim = r.claim
      BY <2>2 DEF Row
    <3> HIDE DEF x
    <3>2. Fine(x)
      BY <2>2, <3>1 DEF RowFor
    <3> QED BY <3>2 DEF x
  <2>6. ASSUME NEW q \in Process PROVE Fine([r EXCEPT !.claim = q, !.fresh = TRUE])
    <3> DEFINE x == [r EXCEPT !.claim = q, !.fresh = TRUE]
    <3>1. x \in Row /\ x.id = r.id /\ x.msgs = r.msgs /\ x.actor = r.actor /\ x.thread = r.thread
          /\ x.epoch = r.epoch /\ x.claim = q
      BY <2>2 DEF Row
    <3>2. q # None
      BY NoneAssumption
    <3> HIDE DEF x
    <3>3. Fine(x)
      BY <2>2, <3>1, <3>2 DEF RowFor
    <3> QED BY <3>3 DEF x
  <2>7. ASSUME r.claim # None PROVE Fine([r EXCEPT !.running = TRUE, !.fresh = TRUE])
    <3> DEFINE x == [r EXCEPT !.running = TRUE, !.fresh = TRUE]
    <3>1. x \in Row /\ x.id = r.id /\ x.msgs = r.msgs /\ x.actor = r.actor /\ x.thread = r.thread
          /\ x.epoch = r.epoch /\ x.claim = r.claim
      BY <2>2 DEF Row
    <3> HIDE DEF x
    <3>2. Fine(x)
      BY <2>2, <2>7, <3>1 DEF RowFor
    <3> QED BY <3>2 DEF x
  <2> HIDE DEF Fine
  <2>8. Fine(t[i])
    BY <2>3, <2>4, <2>5, <2>6, <2>7, ZenonT(60) DEF r, Touch
  <2> QED BY <2>8 DEF Fine, r
<1>2. DOMAIN t = DOMAIN rs
  OBVIOUS
<1>3. \A i \in DOMAIN rs : RowFor(t[i], st) /\ t[i].id = rs[i].id
  BY <1>1
<1>4. RowsFor(t, st)
  BY <1>3, ChangedRows, Zenon
<1>5. Touched(rs, t)
  BY <1>1, <1>2, Zenon DEF Touched
<1> QED BY <1>4, <1>5

LEMMA ClaimRows ==
  ASSUME TypeOK, NEW p \in Process, Claim(p)
  PROVE  /\ Free(p) /\ UNCHANGED <<sent, epoch, fence, slot, settling, up, spent, answered, stopped, ended>>
         /\ RowsFor(rows', sent) /\ Touched(rows, rows')
         /\ \E i \in DOMAIN rows :
              /\ Claimable(rows[i]) /\ \A j \in 1..(i - 1) : ~Claimable(rows[j])
              /\ \A j \in DOMAIN rows \ {i} : rows'[j] = rows[j]
              /\ rows'[i] = [rows[i] EXCEPT !.claim = p, !.fresh = TRUE]
              /\ rows'[i].claim = p /\ rows'[i].fresh = TRUE /\ rows'[i].running = rows[i].running
              /\ rows'[i].seen = rows[i].seen
              /\ at' = [at EXCEPT ![p] = [step |-> "claimed", row |-> rows'[i]]]
PROOF
<1>1. PICK i \in DOMAIN rows :
        /\ Claimable(rows[i]) /\ \A j \in 1..(i - 1) : ~Claimable(rows[j])
        /\ rows' = [rows EXCEPT ![i].claim = p, ![i].fresh = TRUE]
        /\ at' = [at EXCEPT ![p] = [step |-> "claimed", row |-> rows'[i]]]
  BY Zenon DEF Claim
<1>2. rows \in Seq(Row) /\ RowsFor(rows, sent)
  BY TypeFacts DEF RowsFor
<1>3. rows[i] \in Row
  BY <1>2
<1> DEFINE r == [rows[i] EXCEPT !.claim = p, !.fresh = TRUE]
<1>4. rows' = [rows EXCEPT ![i] = r]
  BY <1>1, <1>2
<1>5. r.claim = p /\ r.fresh = TRUE /\ r.running = rows[i].running /\ r.seen = rows[i].seen
  BY <1>3 DEF Row
<1>6. rows' = [j \in DOMAIN rows |-> rows'[j]] /\ rows'[i] = r
      /\ \A j \in DOMAIN rows \ {i} : rows'[j] = rows[j]
  <2> HIDE DEF r
  <2>1. DOMAIN rows = 1..Len(rows)
    BY <1>2
  <2> QED BY <1>4, <2>1
<1>7. RowsFor(rows', sent) /\ Touched(rows, rows')
  <2>1. \A j \in DOMAIN rows : Touch(rows[j], rows'[j])
    BY <1>6, Zenon DEF Touch
  <2> QED BY <1>2, <1>6, <2>1, TouchedRows
<1>8. Free(p) /\ UNCHANGED <<sent, epoch, fence, slot, settling, up, spent, answered, stopped, ended>>
  BY DEF Claim
<1> QED BY <1>1, <1>5, <1>6, <1>7, <1>8, Zenon

LEMMA TypeClaim ==
  ASSUME TypeOK, NEW p \in Process, Claim(p)
  PROVE  TypeOK'
PROOF
<1>1. PICK i \in DOMAIN rows : at' = [at EXCEPT ![p] = [step |-> "claimed", row |-> rows'[i]]]
  BY ClaimRows
<1>2. /\ p \in up /\ RowsFor(rows', sent) /\ Touched(rows, rows')
      /\ UNCHANGED <<sent, epoch, fence, slot, settling, up, spent, answered, stopped, ended>>
  BY ClaimRows, FreeAt
<1> DEFINE x == [step |-> "claimed", row |-> rows'[i]]
<1>3. rows'[i] \in Row /\ RowFor(rows'[i], sent)
  BY <1>1, <1>2 DEF RowsFor, Touched, RowFor
<1>4. x \in AtType /\ Carries(rows'[i], sent)
  BY <1>3 DEF AtType, Step, Carries, RowFor
<1>5. AtFor(p, x, sent)
  BY <1>3, <1>4 DEF AtFor
<1>6. Moves(at, at', p, x)
  BY <1>1 DEF Moves
<1>7. Counted(sent, epoch', fence', injects', retries', answered', stopped', ended')
  BY <1>2, TypeFacts DEF spent
<1> HIDE DEF x
<1> QED BY <1>2, <1>5, <1>6, <1>7, TypeStep

LEMMA TypeFlagSteer ==
  ASSUME TypeOK, NEW p \in Process, FlagSteer(p)
  PROVE  TypeOK'
PROOF
<1>1. /\ slot' = Flagged("internal") /\ at' = [at EXCEPT ![p] = Resting]
      /\ UNCHANGED <<sent, rows, epoch, fence, settling, up, spent, answered, stopped, ended>>
  BY DEF FlagSteer
<1>2. slot' = None \/ TurnFor(slot', sent)
  BY <1>1, TypeFacts, FlaggedTurn
<1>3. Counted(sent, epoch', fence', injects', retries', answered', stopped', ended')
  BY <1>1, TypeFacts DEF spent
<1> QED BY <1>1, <1>2, <1>3, ComesToRest, TypeStep

LEMMA TypeAdmit ==
  ASSUME TypeOK, NEW p \in Process, Admit(p)
  PROVE  TypeOK'
PROOF
<1>1. /\ at[p].step = "claimed"
      /\ UNCHANGED <<sent, epoch, fence, slot, settling, up, spent, answered, ended>>
  BY DEF Admit, Stands
<1>2. at[p].row \in Row /\ Carries(at[p].row, sent) /\ p \in up
  BY <1>1, TypeFacts, RestsFor DEF AtFor
<1>3. CASE at[p].row.epoch = epoch
  <2>1. at' = [at EXCEPT ![p].step = "admitted"] /\ rows' = rows /\ stopped' = stopped
    BY <1>3 DEF Admit
  <2> DEFINE x == [step |-> "admitted", row |-> at[p].row]
  <2>2. Moves(at, at', p, x)
    BY <2>1, StepsTo DEF Step
  <2>3. x \in AtType
    BY <1>2 DEF AtType, Step
  <2>4. AtFor(p, x, sent)
    BY <1>2, <2>3 DEF AtFor
  <2>5. Counted(sent, epoch', fence', injects', retries', answered', stopped', ended')
    BY <1>1, <2>1, TypeFacts DEF spent
  <2> HIDE DEF x
  <2> QED BY <1>1, <1>2, <2>1, <2>2, <2>4, <2>5, TypeStep
<1>4. CASE at[p].row.epoch # epoch
  <2>1. /\ rows' = Complete(rows, at[p].row.id, p) /\ stopped' = stopped \cup ToSet(at[p].row.msgs)
        /\ at' = [at EXCEPT ![p] = Resting]
    BY <1>4 DEF Admit
  <2>2. RowsFor(rows', sent)
    BY <2>1, TypeFacts, CompletedRows
  <2>3. Counted(sent, epoch', fence', injects', retries', answered', stopped', ended')
    BY <1>1, <1>2, <2>1, TypeFacts DEF spent, Counted, Carries
  <2> QED BY <1>1, <2>1, <2>2, <2>3, ComesToRest, TypeStep
<1> QED BY <1>3, <1>4

-----------------------------------------------------------------------------

(* A turn that starts carries what its row or its first attempt did.          *)
LEMMA StartedTurn ==
  ASSUME NEW p \in Process, NEW t, NEW st, t \in Row \cup Turn, Carries(t, st), NEW th \in Thread
  PROVE  LET n == Started(p, t, th)
         IN  /\ TurnFor(n, st) /\ n # None /\ n.owner = p /\ n.id = t.id /\ n.msgs = t.msgs
             /\ n.thread = th /\ n.epoch = t.epoch /\ n.abort = "none"
PROOF
<1> DEFINE n == Started(p, t, th)
<1>1. t.id \in Request \cup {None} /\ t.msgs \in Seq(Request) /\ t.epoch \in 0..MaxEpoch
  BY DEF Row, Turn
<1>2. n \in Turn /\ n.owner = p /\ n.id = t.id /\ n.msgs = t.msgs /\ n.thread = th
      /\ n.epoch = t.epoch /\ n.abort = "none"
  BY <1>1 DEF Started, Turn
<1> HIDE DEF n
<1>3. n # None
  BY <1>2, NoneAssumption
<1>4. TurnFor(n, st)
  BY <1>2 DEF TurnFor, Carries
<1> QED BY <1>2, <1>3, <1>4 DEF n

LEMMA TakeParts ==
  ASSUME TypeOK, NEW p \in Process, Take(p)
  PROVE  /\ Stands(p, "admitted") /\ slot = None /\ fence = FALSE
         /\ at[p].row \in Row /\ Carries(at[p].row, sent) /\ p \in up
         /\ TurnFor(slot', sent) /\ slot' # None
         /\ slot'.owner = p /\ slot'.id = at[p].row.id /\ slot'.msgs = at[p].row.msgs
         /\ slot'.thread = at[p].row.thread /\ slot'.epoch = at[p].row.epoch /\ slot'.abort = "none"
         /\ RowsFor(rows', sent) /\ Touched(rows, rows')
         /\ \A i \in DOMAIN rows : \/ rows'[i] = rows[i]
                                   \/ /\ rows[i].id = at[p].row.id /\ rows[i].claim = p
                                      /\ rows'[i].claim = p /\ rows'[i].seen = rows[i].seen
         /\ at' = [at EXCEPT ![p] = Resting]
         /\ UNCHANGED <<sent, epoch, fence, settling, up, spent, answered, stopped, ended>>
PROOF
<1>1. /\ Stands(p, "admitted") /\ slot = None /\ ~fence
      /\ slot' = Started(p, at[p].row, at[p].row.thread)
      /\ at' = [at EXCEPT ![p] = Resting]
      /\ UNCHANGED <<sent, epoch, fence, settling, up, spent, answered, stopped, ended>>
  BY DEF Take
<1>2. at[p].row \in Row /\ Carries(at[p].row, sent) /\ p \in up
  BY <1>1, TypeFacts, RestsFor DEF AtFor, Stands
<1>3. fence = FALSE
  BY <1>1, TypeFacts DEF Counted
<1>4. /\ TurnFor(slot', sent) /\ slot' # None
      /\ slot'.owner = p /\ slot'.id = at[p].row.id /\ slot'.msgs = at[p].row.msgs
      /\ slot'.thread = at[p].row.thread /\ slot'.epoch = at[p].row.epoch /\ slot'.abort = "none"
  <2>1. at[p].row.thread \in Thread
    BY <1>2, RowFields
  <2> QED BY <1>1, <1>2, <2>1, StartedTurn
<1> DEFINE Mine(r) == r.id = at[p].row.id /\ r.claim = p
<1>5. rows' = [i \in DOMAIN rows |-> IF Mine(rows[i]) THEN [rows[i] EXCEPT !.running = TRUE, !.fresh = TRUE]
                                     ELSE rows[i]]
  BY DEF Take
<1>6. RowsFor(rows, sent) /\ \A i \in DOMAIN rows : rows[i] \in Row
  BY TypeFacts DEF RowsFor
<1>7. p # None
  BY NoneAssumption
<1>8. \A i \in DOMAIN rows : /\ Mine(rows[i]) => rows'[i] = [rows[i] EXCEPT !.running = TRUE, !.fresh = TRUE]
                             /\ ~Mine(rows[i]) => rows'[i] = rows[i]
  BY <1>5, Zenon
<1>9. rows' = [i \in DOMAIN rows |-> rows'[i]]
  BY <1>5
<1>10. \A i \in DOMAIN rows : Touch(rows[i], rows'[i])
  BY <1>7, <1>8 DEF Touch
<1>11. RowsFor(rows', sent) /\ Touched(rows, rows')
  BY <1>6, <1>9, <1>10, TouchedRows
<1>12. ASSUME NEW i \in DOMAIN rows, rows'[i] # rows[i]
       PROVE  /\ rows[i].id = at[p].row.id /\ rows[i].claim = p
              /\ rows'[i].claim = p /\ rows'[i].seen = rows[i].seen
  <2>1. Mine(rows[i])
    BY <1>8, <1>12
  <2>2. rows'[i] = [rows[i] EXCEPT !.running = TRUE, !.fresh = TRUE]
    BY <1>8, <2>1
  <2>3. rows[i] \in Row
    BY <1>6
  <2>4. rows'[i].claim = rows[i].claim /\ rows'[i].seen = rows[i].seen
    BY <2>2, <2>3 DEF Row
  <2> QED BY <2>1, <2>4
<1> QED BY <1>1, <1>2, <1>3, <1>4, <1>11, <1>12

LEMMA TypeTake ==
  ASSUME TypeOK, NEW p \in Process, Take(p)
  PROVE  TypeOK'
PROOF
<1>1. /\ TurnFor(slot', sent) /\ RowsFor(rows', sent) /\ at' = [at EXCEPT ![p] = Resting]
      /\ UNCHANGED <<sent, epoch, fence, settling, up, spent, answered, stopped, ended>>
  BY TakeParts
<1>2. Counted(sent, epoch', fence', injects', retries', answered', stopped', ended')
  BY <1>1, TypeFacts DEF spent
<1> QED BY <1>1, <1>2, ComesToRest, TypeStep

(* Queueing a turn again is a merge of a good row. *)
LEMMA RequeuedRow ==
  ASSUME TypeOK, NEW t, t \in Row \cup Turn, Carries(t, sent), t.id # None
  PROVE  /\ RowFor(Requeued(t), sent)
         /\ Requeued(t).id = t.id /\ Requeued(t).msgs = t.msgs /\ Requeued(t).epoch = t.epoch
         /\ Requeued(t).claim = None /\ Requeued(t).fresh = FALSE /\ Requeued(t).running = FALSE
PROOF
<1> DEFINE r == Requeued(t)
<1>1. t.id \in Request /\ t.id \in DOMAIN sent /\ t.msgs \in Seq(Request) /\ t.epoch \in 0..MaxEpoch
      /\ ToSet(t.msgs) \subseteq SaidIn(sent)
  BY RowFields DEF Carries, Turn
<1>2. sent[t.id].actor \in Actor
  <2>1. sent[t.id] \in Sent
    BY <1>1, TypeFacts
  <2> QED BY <2>1 DEF Sent
<1>3. r \in Row /\ r.id = t.id /\ r.msgs = t.msgs /\ r.epoch = t.epoch
      /\ r.claim = None /\ r.fresh = FALSE /\ r.running = FALSE
  BY <1>1, <1>2, MainAssumption DEF Requeued, Pending, Row
<1> HIDE DEF r
<1>4. RowFor(r, sent)
  BY <1>1, <1>3 DEF RowFor
<1> QED BY <1>3, <1>4 DEF r

LEMMA RequeuedRows ==
  ASSUME TypeOK, NEW t, t \in Row \cup Turn, Carries(t, sent), t.id # None,
         Requeueable(t), Requeue(t)
  PROVE  /\ RowsFor(rows', sent) /\ answered' \subseteq SaidIn(sent)
         /\ rows' = Merge(rows, Requeued(t), {}, {t.id})
         /\ answered' = answered \cup Omitted(rows, Requeued(t), {})
         /\ \A i \in DOMAIN rows \ Absorbed(rows, Requeued(t), {}) : rows[i].id # t.id
PROOF
<1> DEFINE r == Requeued(t)
           S == DOMAIN rows \ Absorbed(rows, r, {})
<1>1. RowFor(r, sent) /\ r.id = t.id
  BY RequeuedRow
<1>2. rows' = Merge(rows, r, {}, {t.id}) /\ answered' = answered \cup Omitted(rows, r, {})
  BY Zenon DEF Requeue
<1>3. Remaining(rows, r, {}) = Picked(rows, S)
  BY Zenon DEF Remaining
<1>4. \A i \in DOMAIN Remaining(rows, r, {}) : Remaining(rows, r, {})[i].id # t.id
  BY Zenon DEF Requeueable, Ids
<1> HIDE DEF r, S
<1>5. \A i \in S : rows[i].id # r.id
  <2>1. RowsFor(rows, sent) /\ S \subseteq DOMAIN rows
    BY TypeFacts DEF S
  <2>2. \A k \in S : \E i \in DOMAIN Picked(rows, S) : Picked(rows, S)[i] = rows[k]
    BY <2>1, PickedRows
  <2> QED BY <1>1, <1>3, <1>4, <2>2
<1>6. Longer(sent, sent)
  BY DEF Longer
<1>7. RowsFor(Merge(rows, r, {}, {t.id}), sent) /\ Omitted(rows, r, {}) \subseteq SaidIn(sent)
  BY <1>1, <1>5, <1>6, TypeFacts, MergedRows DEF S
<1>8. answered \subseteq SaidIn(sent)
  BY TypeFacts DEF Counted
<1> QED BY <1>1, <1>2, <1>5, <1>7, <1>8 DEF S, r

LEMMA DisplacedTurn ==
  ASSUME TypeOK, NEW t
  PROVE  /\ Displaced(t) = slot \/ Displaced(t) = Flagged("internal")
         /\ Displaced(t) = None \/ TurnFor(Displaced(t), sent)
PROOF
<1>1. Displaced(t) = slot \/ Displaced(t) = Flagged("internal")
  BY DEF Displaced
<1> QED BY <1>1, TypeFacts, FlaggedTurn

LEMMA TypeTakeFails ==
  ASSUME TypeOK, NEW p \in Process, TakeFails(p)
  PROVE  TypeOK'
PROOF
<1> DEFINE t == at[p].row
<1>1. /\ at[p].step = "admitted" /\ slot' = Displaced(t) /\ at' = [at EXCEPT ![p] = Resting]
      /\ UNCHANGED <<sent, epoch, fence, settling, up, spent, stopped, ended>>
  BY DEF TakeFails, Stands
<1>2. \/ Requeueable(t) /\ Requeue(t)
      \/ rows' = rows /\ answered' = answered
  BY Zenon DEF TakeFails
<1>3. t \in Row /\ Carries(t, sent)
  BY <1>1, TypeFacts DEF AtFor
<1>4. t.id # None
  BY <1>3, RowFields, NoneAssumption
<1>5. slot' = None \/ TurnFor(slot', sent)
  BY <1>1, DisplacedTurn
<1> HIDE DEF t
<1>6. RowsFor(rows', sent) /\ answered' \subseteq SaidIn(sent)
  <2>1. CASE Requeueable(t) /\ Requeue(t)
    BY <1>3, <1>4, <2>1, RequeuedRows
  <2>2. CASE rows' = rows /\ answered' = answered
    BY <2>2, TypeFacts DEF Counted
  <2> QED BY <1>2, <2>1, <2>2
<1>7. Counted(sent, epoch', fence', injects', retries', answered', stopped', ended')
  BY <1>1, <1>6, TypeFacts DEF spent, Counted
<1> QED BY <1>1, <1>5, <1>6, <1>7, ComesToRest, TypeStep

LEMMA InjectTurn ==
  ASSUME TypeOK, NEW p \in Process, Inject(p)
  PROVE  /\ TurnFor(slot', sent) /\ slot' # None /\ slot'.id = None /\ slot'.msgs = <<>> /\ slot'.owner = p
         /\ ToSet(slot'.msgs) = {}
         /\ slot'.epoch = epoch /\ slot'.abort = "none"
         /\ p \in up /\ slot = None /\ fence = FALSE /\ Free(p)
         /\ UNCHANGED <<sent, rows, epoch, fence, settling, at, up, retries, answered, stopped, ended>>
PROOF
<1>1. /\ slot' = [owner |-> p, id |-> None, msgs |-> <<>>, thread |-> None,
                  epoch |-> epoch, abort |-> "none"]
      /\ Free(p) /\ slot = None /\ ~fence
      /\ UNCHANGED <<sent, rows, epoch, fence, settling, at, up, retries, answered, stopped, ended>>
  BY DEF Inject
<1>2. epoch \in 0..MaxEpoch /\ fence = FALSE /\ p \in up
  BY <1>1, TypeFacts, FreeAt DEF Counted
<1>3. <<>> \in Seq(Request) /\ ToSet(<<>>) = {}
  BY DEF ToSet
<1>4. slot' \in Turn /\ slot'.id = None /\ slot'.msgs = <<>> /\ slot'.owner = p
      /\ slot'.epoch = epoch /\ slot'.abort = "none"
  BY <1>1, <1>2, <1>3 DEF Turn
<1>5. TurnFor(slot', sent) /\ slot' # None
  BY <1>3, <1>4, NoneAssumption DEF TurnFor
<1> QED BY <1>1, <1>2, <1>3, <1>4, <1>5

LEMMA TypeInject ==
  ASSUME TypeOK, NEW p \in Process, Inject(p)
  PROVE  TypeOK'
PROOF
<1>1. /\ TurnFor(slot', sent)
      /\ UNCHANGED <<sent, rows, epoch, fence, settling, at, up, retries, answered, stopped, ended>>
  BY InjectTurn
<1>2. injects' \in 0..MaxInjects
  BY TypeFacts, BoundsAssumption DEF Inject, Counted
<1>3. Counted(sent, epoch', fence', injects', retries', answered', stopped', ended')
  BY <1>1, <1>2, TypeFacts DEF Counted
<1> QED BY <1>1, <1>3, TypeStep

LEMMA ContentRows ==
  ASSUME TypeOK, NEW p \in Process, ProviderContent(p)
  PROVE  /\ Free(p) /\ slot # None /\ slot.owner = p
         /\ RowsFor(rows', sent) /\ Touched(rows, rows')
         /\ \A i \in DOMAIN rows : /\ rows'[i].claim = rows[i].claim /\ rows'[i].fresh = rows[i].fresh
                                   /\ rows'[i].running = rows[i].running
         /\ UNCHANGED <<sent, epoch, fence, slot, settling, at, up, spent, answered, stopped, ended>>
PROOF
<1>1. /\ Free(p) /\ slot # None /\ slot.owner = p
      /\ UNCHANGED <<sent, epoch, fence, slot, settling, at, up, spent, answered, stopped, ended>>
  BY DEF ProviderContent
<1>2. rows' = [i \in DOMAIN rows |-> IF rows[i].id = slot.id THEN [rows[i] EXCEPT !.seen = TRUE] ELSE rows[i]]
  BY DEF ProviderContent
<1>3. RowsFor(rows, sent) /\ \A i \in DOMAIN rows : rows[i] \in Row
  BY TypeFacts DEF RowsFor
<1>4. \A i \in DOMAIN rows : rows'[i] = rows[i] \/ rows'[i] = [rows[i] EXCEPT !.seen = TRUE]
  BY <1>2
<1>5. rows' = [i \in DOMAIN rows |-> rows'[i]]
  BY <1>2
<1>6. RowsFor(rows', sent) /\ Touched(rows, rows')
  <2>1. \A i \in DOMAIN rows : Touch(rows[i], rows'[i])
    BY <1>4 DEF Touch
  <2> QED BY <1>3, <1>5, <2>1, TouchedRows
<1>7. \A i \in DOMAIN rows : /\ rows'[i].claim = rows[i].claim /\ rows'[i].fresh = rows[i].fresh
                             /\ rows'[i].running = rows[i].running
  <2> TAKE i \in DOMAIN rows
  <2>1. CASE rows'[i] = rows[i]
    BY <2>1
  <2>2. CASE rows'[i] = [rows[i] EXCEPT !.seen = TRUE]
    <3>1. rows[i] \in Row
      BY <1>3
    <3> QED BY <2>2, <3>1 DEF Row
  <2> QED BY <1>4, <2>1, <2>2
<1> QED BY <1>1, <1>6, <1>7

LEMMA TypeProviderContent ==
  ASSUME TypeOK, NEW p \in Process, ProviderContent(p)
  PROVE  TypeOK'
PROOF
<1>1. /\ RowsFor(rows', sent)
      /\ UNCHANGED <<sent, epoch, fence, slot, settling, at, up, spent, answered, stopped, ended>>
  BY ContentRows
<1>2. Counted(sent, epoch', fence', injects', retries', answered', stopped', ended')
  BY <1>1, TypeFacts DEF spent
<1> QED BY <1>1, <1>2, TypeStep

-----------------------------------------------------------------------------

(* What is left of a turn speaks of the same request. *)
LEMMA LeftTurn ==
  ASSUME NEW st, NEW t, TurnFor(t, st)
  PROVE  /\ TurnFor(Left(t), st)
         /\ Left(t).id = t.id /\ Left(t).msgs = t.msgs /\ Left(t).owner = t.owner
PROOF
<1>1. t \in Turn
  BY DEF TurnFor
<1>2. /\ Left(t) \in Turn
      /\ Left(t).id = t.id /\ Left(t).msgs = t.msgs /\ Left(t).owner = t.owner
  BY <1>1 DEF Left, Turn
<1> QED BY <1>2 DEF TurnFor

(* How a turn may end. *)
LEMMA TurnEndsParts ==
  ASSUME TypeOK, NEW p \in Process, TurnEnds(p)
  PROVE  /\ Free(p) /\ slot # None /\ slot.owner = p /\ slot' = None /\ p \in up /\ at[p] = Resting
         /\ TurnFor(slot, sent)
         /\ UNCHANGED <<sent, rows, epoch, fence, up, injects, answered, stopped>>
         /\ retries' \in 0..MaxRetries
         /\ \/ slot.id = None /\ UNCHANGED <<settling, at, ended, retries>>
            \/ /\ slot.id # None /\ ended' = ended \cup {slot.id} /\ retries' = retries
               /\ settling' = settling \cup {Left(slot)} /\ at' = at
            \/ /\ slot.id # None /\ UNCHANGED settling
               /\ \E kind \in {"completed", "error", "aborted", "retry"} :
                    /\ kind = "aborted" => slot.abort # "none"
                    /\ kind = "retry" => retries < MaxRetries
                    /\ ended' \in {ended, ended \cup {slot.id}}
                    /\ at' = [at EXCEPT ![p] = [step |-> kind, row |-> slot]]
PROOF
<1>1. /\ Free(p) /\ slot # None /\ slot.owner = p /\ slot' = None
      /\ UNCHANGED <<sent, rows, epoch, fence, up, injects, answered, stopped>>
  BY DEF TurnEnds
<1>2. p \in up /\ at[p] = Resting /\ TurnFor(slot, sent)
  BY <1>1, FreeAt, TypeFacts
<1>3. retries \in 0..MaxRetries /\ MaxRetries \in Nat
  BY TypeFacts, BoundsAssumption DEF Counted
<1>4. CASE slot.id = None
  <2>1. UNCHANGED <<settling, at, ended, retries>>
    BY <1>4 DEF TurnEnds
  <2> QED BY <1>1, <1>2, <1>3, <1>4, <2>1
<1>5. CASE slot.id # None
  <2>1. PICK kind \in {"completed", "error", "aborted", "retry"} :
            /\ kind = "aborted" => slot.abort # "none"
            /\ kind = "retry" => retries < MaxRetries
            /\ retries' = IF kind = "retry" THEN retries + 1 ELSE retries
            /\ ended' = IF kind = "retry" THEN ended ELSE ended \cup {slot.id}
            /\ IF kind = "error" /\ SlowSettle
               THEN settling' = settling \cup {Left(slot)} /\ UNCHANGED at
               ELSE /\ at' = [at EXCEPT ![p] = [step |-> kind, row |-> slot]]
                    /\ UNCHANGED settling
    BY <1>5, Zenon DEF TurnEnds
  <2>2. retries' \in 0..MaxRetries
    BY <1>3, <2>1
  <2>3. CASE kind = "error" /\ SlowSettle
    BY <1>1, <1>2, <1>5, <2>1, <2>2, <2>3
  <2>4. CASE ~(kind = "error" /\ SlowSettle)
    <3>1. /\ at' = [at EXCEPT ![p] = [step |-> kind, row |-> slot]] /\ UNCHANGED settling
          /\ ended' \in {ended, ended \cup {slot.id}}
      BY <2>1, <2>4
    <3> QED BY <1>1, <1>2, <1>5, <2>1, <2>2, <3>1
  <2> QED BY <2>3, <2>4
<1> QED BY <1>4, <1>5

LEMMA TypeTurnEnds ==
  ASSUME TypeOK, NEW p \in Process, TurnEnds(p)
  PROVE  TypeOK'
PROOF
<1>1. /\ slot' = None /\ p \in up /\ TurnFor(slot, sent) /\ slot.owner = p
      /\ UNCHANGED <<sent, rows, epoch, fence, up, injects, answered, stopped>>
      /\ retries' \in 0..MaxRetries
  BY TurnEndsParts
<1>2. slot.id \in DOMAIN sent \cup {None} /\ slot \in Turn /\ Carries(slot, sent)
  BY <1>1 DEF TurnFor, Carries
<1>3. ended \subseteq DOMAIN sent
  BY TypeFacts DEF Counted
<1>4. ASSUME ended' \subseteq DOMAIN sent
      PROVE  Counted(sent, epoch', fence', injects', retries', answered', stopped', ended')
  BY <1>1, <1>4, TypeFacts DEF Counted
<1>5. CASE slot.id = None /\ UNCHANGED <<settling, at, ended, retries>>
  BY <1>1, <1>3, <1>4, <1>5, TypeStep
<1>6. CASE /\ slot.id # None /\ ended' = ended \cup {slot.id}
           /\ settling' = settling \cup {Left(slot)} /\ at' = at
  <2>1. Counted(sent, epoch', fence', injects', retries', answered', stopped', ended')
    BY <1>2, <1>3, <1>4, <1>6
  <2>2. TurnFor(Left(slot), sent) /\ Left(slot).id # None /\ Left(slot).owner \in up
    BY <1>1, <1>6, LeftTurn
  <2> QED BY <1>1, <1>6, <2>1, <2>2, TypeStep
<1>7. ASSUME slot.id # None, UNCHANGED settling,
             NEW kind \in {"completed", "error", "aborted", "retry"},
             ended' \in {ended, ended \cup {slot.id}},
             at' = [at EXCEPT ![p] = [step |-> kind, row |-> slot]]
      PROVE  TypeOK'
  <2> DEFINE x == [step |-> kind, row |-> slot]
  <2>1. x \in AtType
    BY <1>2 DEF AtType, Step
  <2>2. AtFor(p, x, sent)
    BY <1>1, <1>2, <1>7, <2>1 DEF AtFor
  <2>3. Moves(at, at', p, x)
    BY <1>7 DEF Moves
  <2>4. Counted(sent, epoch', fence', injects', retries', answered', stopped', ended')
    BY <1>2, <1>3, <1>4, <1>7
  <2> HIDE DEF x
  <2> QED BY <1>1, <1>7, <2>2, <2>3, <2>4, TypeStep
<1> QED BY <1>5, <1>6, <1>7, TurnEndsParts

LEMMA TypeSettle ==
  ASSUME TypeOK, NEW p \in Process, Settle(p)
  PROVE  TypeOK'
PROOF
<1>1. /\ at[p].step \in {"completed", "error", "aborted"}
      /\ rows' = Complete(rows, at[p].row.id, p)
      /\ answered' \in {answered, answered \cup ToSet(at[p].row.msgs)}
      /\ at' = [at EXCEPT ![p] = Resting]
      /\ UNCHANGED <<sent, epoch, fence, slot, settling, up, spent, stopped, ended>>
  BY DEF Settle, Stands
<1>2. RowsFor(rows', sent) /\ Carries(at[p].row, sent)
  BY <1>1, TypeFacts, CompletedRows DEF AtFor
<1>3. Counted(sent, epoch', fence', injects', retries', answered', stopped', ended')
  BY <1>1, <1>2, TypeFacts DEF spent, Counted, Carries
<1> QED BY <1>1, <1>2, <1>3, ComesToRest, TypeStep

LEMMA TypeSettleError ==
  ASSUME TypeOK, NEW p \in Process, SettleError(p)
  PROVE  TypeOK'
PROOF
<1>1. PICK t \in settling :
        /\ settling' = settling \ {t} /\ rows' = Complete(rows, t.id, p)
        /\ answered' = answered \cup ToSet(t.msgs)
        /\ UNCHANGED <<sent, epoch, fence, slot, at, up, spent, stopped, ended>>
  BY DEF SettleError
<1>2. RowsFor(rows', sent) /\ TurnFor(t, sent)
  BY <1>1, TypeFacts, CompletedRows
<1>3. Counted(sent, epoch', fence', injects', retries', answered', stopped', ended')
  BY <1>1, <1>2, TypeFacts DEF spent, Counted, TurnFor
<1> QED BY <1>1, <1>2, <1>3, TypeStep

(* What p holds before a retry. *)
LEMMA RetryTurn ==
  ASSUME TypeOK, NEW p \in Process, at[p].step = "retry"
  PROVE  /\ at[p].row \in Turn /\ Carries(at[p].row, sent) /\ TurnFor(at[p].row, sent)
         /\ at[p].row.id # None /\ at[p].row.id \in DOMAIN sent
         /\ ToSet(at[p].row.msgs) \subseteq SaidIn(sent) /\ p \in up /\ at[p].row.owner = p
PROOF
  BY TypeFacts, RestsFor DEF AtFor, Carries, TurnFor

LEMMA TypeRestart ==
  ASSUME TypeOK, NEW p \in Process, Restart(p)
  PROVE  TypeOK'
PROOF
<1>1. /\ at[p].step = "retry" /\ slot' = Started(p, at[p].row, Main)
      /\ at' = [at EXCEPT ![p] = Resting]
      /\ UNCHANGED <<sent, rows, epoch, fence, settling, up, spent, answered, stopped, ended>>
  BY DEF Restart, Stands
<1>2. TurnFor(slot', sent)
  BY <1>1, RetryTurn, MainAssumption, StartedTurn
<1>3. Counted(sent, epoch', fence', injects', retries', answered', stopped', ended')
  BY <1>1, TypeFacts DEF spent
<1> QED BY <1>1, <1>2, <1>3, ComesToRest, TypeStep

LEMMA TypeRestartDropped ==
  ASSUME TypeOK, NEW p \in Process, RestartDropped(p)
  PROVE  TypeOK'
PROOF
<1>1. /\ at[p].step = "retry" /\ rows' = Complete(rows, at[p].row.id, p)
      /\ stopped' = stopped \cup ToSet(at[p].row.msgs) /\ ended' = ended \cup {at[p].row.id}
      /\ at' = [at EXCEPT ![p] = Resting]
      /\ UNCHANGED <<sent, epoch, fence, slot, settling, up, spent, answered>>
  BY DEF RestartDropped, Stands
<1>2. RowsFor(rows', sent)
  BY <1>1, TypeFacts, CompletedRows
<1>3. Counted(sent, epoch', fence', injects', retries', answered', stopped', ended')
  BY <1>1, TypeFacts, RetryTurn DEF spent, Counted
<1> QED BY <1>1, <1>2, <1>3, ComesToRest, TypeStep

LEMMA TypeRestartFails ==
  ASSUME TypeOK, NEW p \in Process, RestartFails(p)
  PROVE  TypeOK'
PROOF
<1> DEFINE t == at[p].row
<1>1. /\ at[p].step = "retry" /\ slot' = Displaced(t) /\ at' = [at EXCEPT ![p] = Resting]
      /\ UNCHANGED <<sent, epoch, fence, up, spent, stopped>>
  BY DEF RestartFails, Stands
<1>2. \/ Requeueable(t) /\ Requeue(t) /\ UNCHANGED <<settling, ended>>
      \/ settling' = settling \cup {Left(t)} /\ ended' = ended \cup {t.id} /\ UNCHANGED <<rows, answered>>
  BY Zenon DEF RestartFails
<1>3. /\ t \in Turn /\ Carries(t, sent) /\ TurnFor(t, sent) /\ t.id # None /\ t.id \in DOMAIN sent
      /\ p \in up /\ t.owner = p
  BY <1>1, RetryTurn
<1>4. slot' = None \/ TurnFor(slot', sent)
  BY <1>1, DisplacedTurn
<1>5. CASE Requeueable(t) /\ Requeue(t) /\ UNCHANGED <<settling, ended>>
  <2> HIDE DEF t
  <2>1. RowsFor(rows', sent) /\ answered' \subseteq SaidIn(sent)
    BY <1>3, <1>5, RequeuedRows
  <2>2. Counted(sent, epoch', fence', injects', retries', answered', stopped', ended')
    BY <1>1, <1>5, <2>1, TypeFacts DEF spent, Counted
  <2> QED BY <1>1, <1>4, <1>5, <2>1, <2>2, ComesToRest, TypeStep
<1>6. CASE settling' = settling \cup {Left(t)} /\ ended' = ended \cup {t.id} /\ UNCHANGED <<rows, answered>>
  <2>1. Counted(sent, epoch', fence', injects', retries', answered', stopped', ended')
    BY <1>1, <1>3, <1>6, TypeFacts DEF spent, Counted
  <2>2. TurnFor(Left(t), sent) /\ Left(t).id # None /\ Left(t).owner \in up
    BY <1>3, LeftTurn
  <2> HIDE DEF t
  <2> QED BY <1>1, <1>4, <1>6, <2>1, <2>2, ComesToRest, TypeStep
<1> QED BY <1>2, <1>5, <1>6

LEMMA AgedRows ==
  ASSUME TypeOK, ClaimAges
  PROVE  /\ RowsFor(rows', sent) /\ Touched(rows, rows')
         /\ \A i \in DOMAIN rows : /\ rows'[i].claim = rows[i].claim /\ rows'[i].seen = rows[i].seen
                                   /\ rows'[i].running = rows[i].running
                                   /\ rows'[i].fresh => rows[i].fresh
         /\ Quiet /\ \A p \in Process : at[p].step \in {"idle", "retry"}
         /\ UNCHANGED <<sent, epoch, fence, slot, settling, at, up, spent, answered, stopped, ended>>
PROOF
<1>1. PICK n \in DOMAIN rows : rows' = [rows EXCEPT ![n].fresh = FALSE]
  BY DEF ClaimAges
<1>2. RowsFor(rows, sent) /\ rows \in Seq(Row)
  BY TypeFacts DEF RowsFor
<1> DEFINE r == [rows[n] EXCEPT !.fresh = FALSE]
<1>3. rows' = [rows EXCEPT ![n] = r] /\ DOMAIN rows = 1..Len(rows) /\ rows[n] \in Row
  BY <1>1, <1>2
<1>4. /\ r.claim = rows[n].claim /\ r.seen = rows[n].seen /\ r.running = rows[n].running
      /\ r.fresh = FALSE
  BY <1>3 DEF Row
<1>5. Touch(rows[n], r)
  BY Zenon DEF Touch
<1> HIDE DEF r
<1>6. rows' = [i \in DOMAIN rows |-> rows'[i]] /\ rows'[n] = r
      /\ \A i \in DOMAIN rows \ {n} : rows'[i] = rows[i]
  BY <1>3
<1>7. \A i \in DOMAIN rows : Touch(rows[i], rows'[i])
  BY <1>5, <1>6, Zenon DEF Touch
<1>8. RowsFor(rows', sent) /\ Touched(rows, rows')
  BY <1>2, <1>6, <1>7, TouchedRows
<1>9. /\ Quiet /\ \A p \in Process : at[p].step \in {"idle", "retry"}
      /\ UNCHANGED <<sent, epoch, fence, slot, settling, at, up, spent, answered, stopped, ended>>
  BY DEF ClaimAges
<1> QED BY <1>4, <1>6, <1>8, <1>9

LEMMA TypeClaimAges ==
  ASSUME TypeOK, ClaimAges
  PROVE  TypeOK'
PROOF
<1>1. /\ RowsFor(rows', sent)
      /\ UNCHANGED <<sent, epoch, fence, slot, settling, at, up, spent, answered, stopped, ended>>
  BY AgedRows
<1>2. Counted(sent, epoch', fence', injects', retries', answered', stopped', ended')
  BY <1>1, TypeFacts DEF spent
<1> QED BY <1>1, <1>2, TypeStep

LEMMA TypeStop ==
  ASSUME TypeOK, NEW p \in Process, Stop(p)
  PROVE  TypeOK'
PROOF
<1>1. /\ Free(p) /\ epoch < MaxEpoch /\ epoch' = epoch + 1 /\ fence' = TRUE
      /\ stopped' = stopped \cup (Accepted \ answered)
      /\ at' = [at EXCEPT ![p].step = "stopping"]
      /\ UNCHANGED <<sent, rows, slot, settling, up, spent, answered, ended>>
  BY DEF Stop
<1>2. epoch' \in 0..MaxEpoch /\ Accepted = SaidIn(sent)
  BY <1>1, TypeFacts, BoundsAssumption DEF Counted
<1>3. Counted(sent, epoch', fence', injects', retries', answered', stopped', ended')
  BY <1>1, <1>2, TypeFacts DEF spent, Counted
<1> QED BY <1>1, <1>3, FreeAt, LeavesRest, TypeStep

LEMMA TypeCancel ==
  ASSUME TypeOK, NEW p \in Process, Cancel(p)
  PROVE  TypeOK'
PROOF
<1>1. /\ rows' = Current(rows) /\ slot' = Flagged("external") /\ at' = [at EXCEPT ![p] = Resting]
      /\ UNCHANGED <<sent, epoch, fence, settling, up, spent, answered, stopped, ended>>
  BY DEF Cancel
<1>2. slot' = None \/ TurnFor(slot', sent)
  BY <1>1, TypeFacts, FlaggedTurn
<1>3. RowsFor(rows', sent)
  BY <1>1, TypeFacts, CurrentRows
<1>4. Counted(sent, epoch', fence', injects', retries', answered', stopped', ended')
  BY <1>1, TypeFacts DEF spent
<1> QED BY <1>1, <1>2, <1>3, <1>4, ComesToRest, TypeStep

LEMMA TypeUnfence ==
  ASSUME TypeOK, Unfence
  PROVE  TypeOK'
PROOF
<1>1. /\ fence' = FALSE
      /\ UNCHANGED <<sent, rows, epoch, slot, settling, at, up, spent, answered, stopped, ended>>
  BY DEF Unfence
<1>2. Counted(sent, epoch', fence', injects', retries', answered', stopped', ended')
  BY <1>1, TypeFacts DEF spent, Counted
<1> QED BY <1>1, <1>2, TypeStep

LEMMA TypeCompact ==
  ASSUME TypeOK, NEW p \in Process, Compact(p)
  PROVE  TypeOK'
PROOF
<1>1. /\ Free(p) /\ at' = [at EXCEPT ![p].step = "compacting"]
      /\ UNCHANGED <<sent, rows, epoch, fence, slot, settling, up, spent, answered, stopped, ended>>
  BY DEF Compact
<1>2. Counted(sent, epoch', fence', injects', retries', answered', stopped', ended')
  BY <1>1, TypeFacts DEF spent
<1> QED BY <1>1, <1>2, FreeAt, LeavesRest, TypeStep

LEMMA TypeCompactBegins ==
  ASSUME TypeOK, NEW p \in Process, CompactBegins(p)
  PROVE  TypeOK'
PROOF
<1>1. /\ \/ epoch' = epoch /\ fence' = fence
         \/ epoch < MaxEpoch /\ epoch' = epoch + 1 /\ fence' = TRUE
      /\ at' = [at EXCEPT ![p] = Resting]
      /\ UNCHANGED <<sent, rows, slot, settling, up, spent, answered, stopped, ended>>
  <2>1. epoch \in Nat /\ MaxEpoch \in Nat
    BY TypeFacts, BoundsAssumption DEF Counted
  <2> QED BY <2>1 DEF CompactBegins
<1>2. epoch' \in 0..MaxEpoch /\ fence' \in BOOLEAN
  <2>1. epoch' \in 0..MaxEpoch
    BY <1>1, TypeFacts, BoundsAssumption DEF Counted
  <2>2. fence \in BOOLEAN
    BY TypeFacts DEF Counted
  <2>3. fence' \in BOOLEAN
    BY <1>1, <2>2, Zenon
  <2> QED BY <2>1, <2>3
<1>3. Counted(sent, epoch', fence', injects', retries', answered', stopped', ended')
  BY <1>1, <1>2, TypeFacts DEF spent, Counted
<1> QED BY <1>1, <1>3, ComesToRest, TypeStep

LEMMA TypeCrash ==
  ASSUME TypeOK, NEW p \in Process, Crash(p)
  PROVE  TypeOK'
PROOF
<1>1. /\ up' = up \ {p} /\ settling' = {t \in settling : t.owner # p}
      /\ at' = [at EXCEPT ![p] = Resting]
      /\ UNCHANGED <<sent, rows, epoch, fence, slot, spent, answered, stopped, ended>>
  BY DEF Crash
<1>2. \A t \in settling' : TurnFor(t, sent) /\ t.id # None /\ t.owner \in up'
  BY <1>1, TypeFacts
<1>3. DOMAIN at = Process /\ \A q \in Process : AtFor(q, at[q], sent) /\ (q \notin up => at[q] = Resting)
  BY TypeFacts
<1>4. at' = [q \in Process |-> at'[q]] /\ at'[p] = Resting /\ \A q \in Process \ {p} : at'[q] = at[q]
  BY <1>1, <1>3
<1>5. (\A q \in Process : AtFor(q, at'[q], sent)) /\ \A q \in Process \ up' : at'[q] = Resting
  BY <1>1, <1>3, <1>4, RestsFor
<1>6. Typed(sent', rows', slot', settling', at', up')
  BY <1>1, <1>2, <1>4, <1>5, TypeFacts DEF Typed
<1>7. Counted(sent', epoch', fence', injects', retries', answered', stopped', ended')
  BY <1>1, TypeFacts DEF spent
<1> QED BY <1>6, <1>7, TypePartsLater

LEMMA TypeLeaseExpires ==
  ASSUME TypeOK, LeaseExpires
  PROVE  TypeOK'
PROOF
<1>1. /\ slot' = None
      /\ UNCHANGED <<sent, rows, epoch, fence, settling, at, up, spent, answered, stopped, ended>>
  BY DEF LeaseExpires
<1>2. Counted(sent, epoch', fence', injects', retries', answered', stopped', ended')
  BY <1>1, TypeFacts DEF spent
<1> QED BY <1>1, <1>2, TypeStep

LEMMA TypeInit == Init => TypeOK
PROOF
<1> SUFFICES ASSUME Init PROVE TypeOK
  OBVIOUS
<1>1. Typed(sent, rows, slot, settling, at, up)
  <2>1. sent \in Seq(Sent) /\ Len(sent) = 0 /\ rows \in Seq(Row) /\ DOMAIN rows = {}
    BY DEF Init
  <2>2. RowsFor(rows, sent)
    BY <2>1 DEF RowsFor
  <2>3. at = [q \in Process |-> at[q]] /\ (\A q \in Process : at[q] = Resting) /\ up = Process
        /\ slot = None /\ settling = {}
    BY DEF Init
  <2>4. \A q \in Process : AtFor(q, at[q], sent)
    BY <2>3, RestsFor
  <2> QED BY <2>1, <2>2, <2>3, <2>4, BoundsAssumption DEF Typed
<1>2. Counted(sent, epoch, fence, injects, retries, answered, stopped, ended)
  <2>1. fence \in BOOLEAN
    BY Zenon DEF Init
  <2>2. /\ epoch \in 0..MaxEpoch /\ injects \in 0..MaxInjects /\ retries \in 0..MaxRetries
        /\ answered = {} /\ stopped = {} /\ ended = {}
    BY BoundsAssumption DEF Init
  <2> QED BY <2>1, <2>2 DEF Counted
<1> QED BY <1>1, <1>2, TypeParts

LEMMA TypeNext == TypeOK /\ [Next]_vars => TypeOK'
PROOF
<1> SUFFICES ASSUME TypeOK, [Next]_vars PROVE TypeOK'
  OBVIOUS
<1>1. CASE UNCHANGED vars
  BY <1>1, TypeStep, TypeFacts DEF vars
<1>2. ASSUME NEW p \in Process, NEW a \in Actor, NEW t \in Thread, NEW steer \in BOOLEAN, Submit(p, a, t, steer)
      PROVE  TypeOK'
  BY <1>2, TypeSubmit
<1>3. ASSUME NEW p \in Process, SteerQueued(p) \/ FlagSteer(p) \/ Claim(p) \/ Admit(p)
      PROVE  TypeOK'
  BY <1>3, TypeSteerQueued, TypeFlagSteer, TypeClaim, TypeAdmit
<1>4. ASSUME NEW p \in Process, Take(p) \/ TakeFails(p) \/ Inject(p) \/ ProviderContent(p)
      PROVE  TypeOK'
  BY <1>4, TypeTake, TypeTakeFails, TypeInject, TypeProviderContent
<1>5. ASSUME NEW p \in Process, TurnEnds(p) \/ Settle(p) \/ SettleError(p)
      PROVE  TypeOK'
  BY <1>5, TypeTurnEnds, TypeSettle, TypeSettleError
<1>6. ASSUME NEW p \in Process, Restart(p) \/ RestartDropped(p) \/ RestartFails(p)
      PROVE  TypeOK'
  BY <1>6, TypeRestart, TypeRestartDropped, TypeRestartFails
<1>7. ASSUME NEW p \in Process, Stop(p) \/ Cancel(p) \/ Compact(p) \/ CompactBegins(p) \/ Crash(p)
      PROVE  TypeOK'
  BY <1>7, TypeStop, TypeCancel, TypeCompact, TypeCompactBegins, TypeCrash
<1>8. CASE ClaimAges \/ Unfence \/ LeaseExpires
  BY <1>8, TypeClaimAges, TypeUnfence, TypeLeaseExpires
<1>9. CASE Next
  BY <1>2, <1>3, <1>4, <1>5, <1>6, <1>7, <1>8, <1>9, Zenon DEF Next
<1> QED BY <1>1, <1>9

(* The rows, the turn in the slot, what every process holds in a callback and  *)
(* the history keep to their types, for any number of processes, people,       *)
(* threads and requests (runtime-turn-requests.ts, turn-runner.ts).            *)
THEOREM TypeCorrect == Spec => []TypeOK
PROOF
<1> QED BY TypeInit, TypeNext, PTL DEF Spec

-----------------------------------------------------------------------------
(* Claims are exclusive.                                                     *)

(* A worker on its way from its claim to its turn keeps the claim fresh.      *)
Held ==
  \A i \in DOMAIN rows, p \in Process :
    at[p].step \in {"claimed", "admitted"} /\ rows[i].claim = p /\ rows[i].id = at[p].row.id
      => rows[i].fresh

(* The claims of t are claims of rs, and as fresh. *)
ClaimsKept(rs, t) ==
  \A i \in DOMAIN t : t[i].claim # None \/ t[i].fresh =>
    \E k \in DOMAIN rs : /\ rs[k].id = t[i].id /\ rs[k].claim = t[i].claim
                         /\ rs[k].fresh <=> t[i].fresh

(* Whoever goes to its turn was going there before. *)
OnTheWay(a, b) ==
  \A p \in Process : b[p].step \in {"claimed", "admitted"} =>
    a[p].step \in {"claimed", "admitted"} /\ b[p].row = a[p].row

LEMMA ClaimsStep ==
  ASSUME TypeOK, ClaimsAreExclusive, Held, TypeOK',
         ClaimsKept(rows, rows'), OnTheWay(at, at')
  PROVE  ClaimsAreExclusive' /\ Held'
PROOF
<1>1. /\ \A i, j \in DOMAIN rows : rows[i].id = rows[j].id => i = j
      /\ \A i, j \in DOMAIN rows' : rows'[i].id = rows'[j].id => i = j
      /\ \A i \in DOMAIN rows' : rows'[i].fresh => rows'[i].claim # None
  <2>1. RowsFor(rows, sent) /\ RowsFor(rows', sent')
    BY TypeParts, TypePartsLater DEF Typed
  <2> QED BY <2>1 DEF RowsFor, RowFor
<1>2. ClaimsAreExclusive'
  BY <1>1 DEF ClaimsAreExclusive, ClaimsKept
<1>3. Held'
  <2> SUFFICES ASSUME NEW i \in DOMAIN rows', NEW p \in Process,
                      at'[p].step \in {"claimed", "admitted"}, rows'[i].claim = p,
                      rows'[i].id = at'[p].row.id
               PROVE  rows'[i].fresh
    BY DEF Held
  <2>1. p # None /\ at[p].step \in {"claimed", "admitted"} /\ at'[p].row = at[p].row
    BY NoneAssumption DEF OnTheWay
  <2>2. PICK k \in DOMAIN rows : /\ rows[k].id = rows'[i].id /\ rows[k].claim = rows'[i].claim
                                 /\ rows[k].fresh <=> rows'[i].fresh
    BY <2>1 DEF ClaimsKept
  <2> QED BY <2>1, <2>2 DEF Held
<1> QED BY <1>2, <1>3

LEMMA PickedClaims ==
  ASSUME NEW rs, NEW st, RowsFor(rs, st), NEW S, S \subseteq DOMAIN rs
  PROVE  ClaimsKept(rs, Picked(rs, S))
PROOF
  BY PickedRows DEF ClaimsKept

LEMMA CompletedClaims ==
  ASSUME NEW rs, NEW st, RowsFor(rs, st), NEW id, NEW p
  PROVE  ClaimsKept(rs, Complete(rs, id, p))
PROOF
<1> DEFINE S == {i \in DOMAIN rs : ~(rs[i].id = id /\ rs[i].claim = p)}
<1>1. S \subseteq DOMAIN rs /\ Complete(rs, id, p) = Picked(rs, S)
  BY Zenon DEF Complete
<1> HIDE DEF S
<1> QED BY <1>1, PickedClaims

LEMMA CurrentClaims ==
  ASSUME NEW rs, NEW st, RowsFor(rs, st)
  PROVE  ClaimsKept(rs, Current(rs))
PROOF
<1> DEFINE S == {i \in DOMAIN rs : rs[i].epoch >= epoch}
<1>1. S \subseteq DOMAIN rs /\ Current(rs) = Picked(rs, S)
  BY Zenon DEF Current
<1> HIDE DEF S
<1> QED BY <1>1, PickedClaims

(* A merge t of new into rs keeps the rows R it does not absorb, in their      *)
(* order, and appends r, which is new with the messages it carries on.        *)
MergesTo(rs, new, kept, included, t, R, r) ==
  LET S == DOMAIN rs \ Absorbed(rs, new, kept)
  IN  /\ r \in Row /\ r.id = new.id /\ r.actor = new.actor /\ r.thread = new.thread
      /\ r.epoch = new.epoch /\ r.seen = new.seen /\ r.running = new.running
      /\ r.claim = new.claim /\ r.fresh = new.fresh
      /\ ToSet(r.msgs) = ToSet(new.msgs) \cup UNION {ToSet(rs[k].msgs) : k \in Carried(rs, new, kept)}
      /\ included = {} => r.msgs = Said(rs, Carried(rs, new, kept)) \o new.msgs
      /\ R \in Seq(Row) /\ Len(R) \in Nat /\ DOMAIN R = 1..Len(R)
      /\ DOMAIN t = 1..(Len(R) + 1)
      /\ \A i \in DOMAIN R : t[i] = R[i]
      /\ t[Len(R) + 1] = r
      /\ \A i \in DOMAIN R : \E k \in S : R[i] = rs[k]
      /\ \A k \in S : \E i \in DOMAIN R : R[i] = rs[k]
      /\ \E h : Places(R, rs, S, h)

LEMMA MergedList ==
  ASSUME NEW rs, NEW st, RowsFor(rs, st), NEW new \in Row, NEW kept, NEW included
  PROVE  \E R, r : MergesTo(rs, new, kept, included, Merge(rs, new, kept, included), R, r)
PROOF
<1> DEFINE S == DOMAIN rs \ Absorbed(rs, new, kept)
           R == Picked(rs, S)
           t == Merge(rs, new, kept, included)
<1>1. rs \in Seq(Row) /\ S \subseteq DOMAIN rs
  BY DEF RowsFor
<1>2. PICK m \in Seq(Request) :
        /\ Merge(rs, new, kept, included) = Append(Remaining(rs, new, kept), [new EXCEPT !.msgs = m])
        /\ ToSet(m) = ToSet(new.msgs) \cup UNION {ToSet(rs[k].msgs) : k \in Carried(rs, new, kept)}
        /\ included = {} => m = Said(rs, Carried(rs, new, kept)) \o new.msgs
  BY <1>1, Merged
<1> DEFINE r == [new EXCEPT !.msgs = m]
<1>3. /\ r \in Row /\ r.id = new.id /\ r.msgs = m /\ r.actor = new.actor /\ r.thread = new.thread
      /\ r.epoch = new.epoch /\ r.seen = new.seen /\ r.running = new.running
      /\ r.claim = new.claim /\ r.fresh = new.fresh
  BY DEF Row
<1>4. Remaining(rs, new, kept) = R
  BY Zenon DEF Remaining
<1>5. t = Append(R, r)
  BY <1>2, <1>4, Zenon
<1>0. R = Picked(rs, S) /\ S = DOMAIN rs \ Absorbed(rs, new, kept)
  OBVIOUS
<1> HIDE DEF r, S, R, t
<1>6. /\ RowsFor(R, st) /\ (\E h : Places(R, rs, S, h))
      /\ \A i \in DOMAIN R : \E k \in S : R[i] = rs[k]
      /\ \A k \in S : \E i \in DOMAIN R : R[i] = rs[k]
  <2>1. S \subseteq DOMAIN rs
    BY <1>0
  <2>2. /\ RowsFor(Picked(rs, S), st)
        /\ \E h : Places(Picked(rs, S), rs, S, h)
        /\ \A i \in DOMAIN Picked(rs, S) : \E k \in S : Picked(rs, S)[i] = rs[k]
        /\ \A k \in S : \E i \in DOMAIN Picked(rs, S) : Picked(rs, S)[i] = rs[k]
    BY <2>1, PickedRows
  <2> QED BY <1>0, <2>2, Zenon
<1>7. R \in Seq(Row)
  BY <1>6 DEF RowsFor
<1>8. /\ Len(R) \in Nat /\ DOMAIN R = 1..Len(R) /\ DOMAIN t = 1..(Len(R) + 1)
      /\ \A i \in DOMAIN R : t[i] = R[i]
      /\ t[Len(R) + 1] = r
  BY <1>3, <1>5, <1>7
<1>9. MergesTo(rs, new, kept, included, t, R, r)
  BY <1>0, <1>2, <1>3, <1>6, <1>7, <1>8, Zenon DEF MergesTo
<1> QED BY <1>9, Zenon DEF t

LEMMA MergedClaims ==
  ASSUME NEW rs, NEW st, RowsFor(rs, st), NEW new \in Row, NEW kept, NEW included,
         new.claim = None, new.fresh = FALSE
  PROVE  ClaimsKept(rs, Merge(rs, new, kept, included))
PROOF
<1> DEFINE t == Merge(rs, new, kept, included)
<1>1. PICK R, r : MergesTo(rs, new, kept, included, t, R, r)
  BY MergedList
<1> HIDE DEF t
<1>2. \A i \in DOMAIN t : t[i].claim # None \/ t[i].fresh => \E k \in DOMAIN rs : t[i] = rs[k]
  <2>1. r.claim = None /\ r.fresh = FALSE
    BY <1>1 DEF MergesTo
  <2>2. \A i \in DOMAIN t : i \in DOMAIN R \/ t[i] = r
    BY <1>1 DEF MergesTo
  <2> QED BY <1>1, <2>1, <2>2 DEF MergesTo
<1>3. ClaimsKept(rs, t)
  BY <1>2 DEF ClaimsKept
<1> QED BY <1>3 DEF t

LEMMA TouchedClaims ==
  ASSUME NEW rs, NEW t, DOMAIN t = DOMAIN rs,
         \A i \in DOMAIN rs : /\ t[i].id = rs[i].id /\ t[i].claim = rs[i].claim
                              /\ t[i].fresh <=> rs[i].fresh
  PROVE  ClaimsKept(rs, t)
PROOF
  BY DEF ClaimsKept

LEMMA StaysOnTheWay ==
  ASSUME TypeOK, NEW p \in Process, NEW x, Moves(at, at', p, x),
         x.step \in {"claimed", "admitted"} => at[p].step \in {"claimed", "admitted"} /\ x.row = at[p].row
  PROVE  OnTheWay(at, at')
PROOF
<1>1. DOMAIN at = Process
  BY TypeFacts
<1>2. at'[p] = x /\ \A q \in Process \ {p} : at'[q] = at[q]
  BY <1>1 DEF Moves
<1> QED BY <1>2 DEF OnTheWay

(* Most steps leave at alone, put p to rest, or take it from rest.            *)
LEMMA AtKept ==
  ASSUME TypeOK, NEW p \in Process,
         \/ at' = at
         \/ at' = [at EXCEPT ![p] = Resting]
         \/ at[p] = Resting /\ \E s \in {"flagging", "stopping", "compacting"} :
              at' = [at EXCEPT ![p].step = s]
  PROVE  OnTheWay(at, at')
PROOF
<1>1. CASE at' = at
  BY <1>1 DEF OnTheWay
<1>2. CASE at' = [at EXCEPT ![p] = Resting]
  BY <1>2, RestsFor, StaysOnTheWay DEF Moves
<1>3. ASSUME at[p] = Resting, NEW s \in {"flagging", "stopping", "compacting"},
             at' = [at EXCEPT ![p].step = s]
      PROVE  OnTheWay(at, at')
  <2> DEFINE x == [step |-> s, row |-> at[p].row]
  <2>1. Moves(at, at', p, x) /\ x.step = s
    BY <1>3, StepsTo DEF Step
  <2> HIDE DEF x
  <2> QED BY <1>3, <2>1, StaysOnTheWay
<1> QED BY <1>1, <1>2, <1>3

LEMMA SameClaims == rows' = rows => ClaimsKept(rows, rows')
PROOF
  BY DEF ClaimsKept

ClaimInv == TypeOK /\ ClaimsAreExclusive /\ Held

LEMMA ClaimsMinting ==
  ASSUME ClaimInv, TypeOK', NEW p \in Process,
         (\E a \in Actor, t \in Thread, steer \in BOOLEAN : Submit(p, a, t, steer)) \/ SteerQueued(p)
  PROVE  ClaimInv'
PROOF
<1>0. RowsFor(rows, sent)
  BY TypeFacts DEF ClaimInv
<1>1. ASSUME NEW a \in Actor, NEW t \in Thread, NEW steer \in BOOLEAN, Submit(p, a, t, steer)
      PROVE  ClaimInv'
  <2> DEFINE id == Len(sent) + 1
             new == Pending(id, <<id>>, a, t, epoch)
             kept == IF ~steer /\ HasActive THEN {Active.id} ELSE {}
  <2>1. /\ Free(p) /\ id \in Request /\ rows' = Merge(rows, new, kept, {})
        /\ sent' = Append(sent, [actor |-> a, thread |-> t, said |-> TRUE])
        /\ at' = at \/ at' = [at EXCEPT ![p].step = "flagging"]
    BY <1>1, Zenon DEF Submit
  <2>2. new \in Row /\ new.claim = None /\ new.fresh = FALSE
    <3>1. RowFor(new, sent')
      BY <2>1, SubmitRow DEF ClaimInv
    <3> QED BY <3>1 DEF RowFor, Pending
  <2> HIDE DEF new, kept
  <2>3. ClaimsKept(rows, rows')
    BY <1>0, <2>1, <2>2, MergedClaims
  <2>4. OnTheWay(at, at')
    BY <2>1, FreeAt, AtKept DEF ClaimInv
  <2> QED BY <2>3, <2>4, ClaimsStep DEF ClaimInv
<1>2. CASE SteerQueued(p)
  <2> DEFINE latest == Last(rows)
             new == [Pending(Len(sent) + 1, <<>>, latest.actor, latest.thread, latest.epoch)
                       EXCEPT !.seen = latest.seen]
  <2>1. /\ Free(p) /\ RowFor(new, sent') /\ new.claim = None /\ new.fresh = FALSE
        /\ rows' = Merge(rows, new, {}, {})
        /\ at' = IF ActiveAt \in Absorbed(rows, new, {})
                 THEN [at EXCEPT ![p].step = "flagging"] ELSE at
    BY <1>2, SteerRow, Zenon DEF ClaimInv
  <2>2. at' = at \/ at' = [at EXCEPT ![p].step = "flagging"]
    BY <2>1, Zenon
  <2> HIDE DEF new
  <2>3. new \in Row
    BY <2>1 DEF RowFor
  <2>4. ClaimsKept(rows, rows')
    BY <1>0, <2>1, <2>3, MergedClaims
  <2>5. OnTheWay(at, at')
    BY <2>1, <2>2, FreeAt, AtKept DEF ClaimInv
  <2> QED BY <2>4, <2>5, ClaimsStep DEF ClaimInv
<1> QED BY <1>1, <1>2

LEMMA ClaimsClaim ==
  ASSUME ClaimInv, TypeOK', NEW p \in Process, Claim(p)
  PROVE  ClaimInv'
PROOF
<1>1. PICK i \in DOMAIN rows :
         /\ Claimable(rows[i])
         /\ \A j \in DOMAIN rows \ {i} : rows'[j] = rows[j]
         /\ rows'[i].claim = p /\ rows'[i].fresh = TRUE
         /\ at' = [at EXCEPT ![p] = [step |-> "claimed", row |-> rows'[i]]]
  BY ClaimRows DEF ClaimInv
<1>2. DOMAIN rows' = DOMAIN rows /\ \A j \in DOMAIN rows : rows'[j].id = rows[j].id
  BY ClaimRows DEF ClaimInv, Touched
<1>3. /\ \A j, k \in DOMAIN rows : rows[j].id = rows[k].id => j = k
      /\ \A j \in DOMAIN rows : rows[j].fresh => rows[j].claim # None
  BY TypeFacts DEF ClaimInv, RowsFor, RowFor
<1>4. \A j \in DOMAIN rows \ {i} : ~rows[j].fresh
  BY <1>1, <1>3 DEF Claimable
<1>5. \A j \in DOMAIN rows' : rows'[j].fresh => j = i
  BY <1>1, <1>2, <1>4
<1>6. ClaimsAreExclusive'
  BY <1>5 DEF ClaimsAreExclusive
<1>7. Held'
  <2> SUFFICES ASSUME NEW j \in DOMAIN rows', NEW q \in Process,
                      at'[q].step \in {"claimed", "admitted"}, rows'[j].claim = q,
                      rows'[j].id = at'[q].row.id
               PROVE  rows'[j].fresh
    BY DEF Held
  <2>1. CASE j = i
    BY <1>1, <2>1
  <2>2. CASE j # i
    <3>1. q # p
      <4>1. at'[p] = [step |-> "claimed", row |-> rows'[i]]
        BY <1>1, TypeFacts DEF ClaimInv
      <4>2. at'[p].row = rows'[i]
        BY <4>1
      <4> QED BY <1>2, <1>3, <2>2, <4>2
    <3>2. at'[q] = at[q]
      BY <1>1, <3>1, TypeFacts DEF ClaimInv
    <3>3. rows'[j] = rows[j]
      BY <1>1, <1>2, <2>2
    <3> QED BY <1>2, <3>2, <3>3 DEF ClaimInv, Held
  <2> QED BY <2>1, <2>2
<1> QED BY <1>6, <1>7 DEF ClaimInv

LEMMA ClaimsWorker ==
  ASSUME ClaimInv, TypeOK', NEW p \in Process, Admit(p) \/ Take(p) \/ TakeFails(p)
  PROVE  ClaimInv'
PROOF
<1>0. RowsFor(rows, sent) /\ TypeOK /\ ClaimsAreExclusive /\ Held
  BY TypeFacts DEF ClaimInv
<1>1. CASE Admit(p)
  <2>1. CASE at[p].row.epoch = epoch
    <3>1. at' = [at EXCEPT ![p].step = "admitted"] /\ rows' = rows /\ at[p].step = "claimed"
      BY <1>1, <2>1 DEF Admit, Stands
    <3> DEFINE x == [step |-> "admitted", row |-> at[p].row]
    <3>2. Moves(at, at', p, x) /\ x.row = at[p].row
      BY <1>0, <3>1, StepsTo DEF Step
    <3> HIDE DEF x
    <3>3. OnTheWay(at, at')
      BY <1>0, <3>1, <3>2, StaysOnTheWay
    <3> QED BY <1>0, <3>1, <3>3, SameClaims, ClaimsStep DEF ClaimInv
  <2>2. CASE at[p].row.epoch # epoch
    <3>1. at' = [at EXCEPT ![p] = Resting] /\ rows' = Complete(rows, at[p].row.id, p)
      BY <1>1, <2>2 DEF Admit
    <3>2. ClaimsKept(rows, rows') /\ OnTheWay(at, at')
      BY <1>0, <3>1, CompletedClaims, AtKept
    <3> QED BY <1>0, <3>2, ClaimsStep DEF ClaimInv
  <2> QED BY <2>1, <2>2
<1>2. CASE Take(p)
  <2>1. /\ at' = [at EXCEPT ![p] = Resting] /\ Touched(rows, rows') /\ at[p].step = "admitted"
        /\ \A i \in DOMAIN rows : \/ rows'[i] = rows[i]
                                  \/ /\ rows[i].id = at[p].row.id /\ rows[i].claim = p
                                     /\ rows'[i].claim = p
        /\ \A i \in DOMAIN rows : rows'[i].fresh \in BOOLEAN /\ rows[i].fresh \in BOOLEAN
    <3>1. RowsFor(rows, sent) /\ RowsFor(rows', sent) /\ Touched(rows, rows')
      BY <1>0, <1>2, TakeParts
    <3>2. \A i \in DOMAIN rows : rows'[i].fresh \in BOOLEAN /\ rows[i].fresh \in BOOLEAN
      BY <3>1, RowFields DEF RowsFor, RowFor, Touched
    <3> QED BY <1>0, <1>2, <3>2, TakeParts DEF Stands
  <2>2. ASSUME NEW i \in DOMAIN rows
        PROVE  /\ rows'[i].id = rows[i].id /\ rows'[i].claim = rows[i].claim
               /\ rows'[i].fresh <=> rows[i].fresh
    <3>1. rows'[i].id = rows[i].id
      BY <2>1 DEF Touched
    <3>2. CASE rows'[i] = rows[i]
      BY <3>1, <3>2
    <3>3. CASE rows[i].id = at[p].row.id /\ rows[i].claim = p /\ rows'[i].claim = p /\ rows'[i] # rows[i]
      <4>1. rows[i].fresh
        BY <1>0, <2>1, <3>3 DEF Held
      <4>2. rows'[i] = [rows[i] EXCEPT !.running = TRUE, !.fresh = TRUE]
        BY <1>2, <3>3 DEF Take
      <4>3. rows[i] \in Row
        BY <1>0 DEF RowsFor
      <4>4. rows'[i].fresh = TRUE
        BY <4>2, <4>3 DEF Row
      <4> QED BY <3>1, <3>3, <4>1, <4>4
    <3> QED BY <2>1, <3>2, <3>3
  <2>3. DOMAIN rows' = DOMAIN rows
    BY <2>1 DEF Touched
  <2>4. ClaimsKept(rows, rows')
    BY <2>2, <2>3, TouchedClaims
  <2> QED BY <1>0, <2>1, <2>4, AtKept, ClaimsStep DEF ClaimInv
<1>3. CASE TakeFails(p)
  <2> DEFINE t == at[p].row
  <2>1. /\ at[p].step = "admitted" /\ at' = [at EXCEPT ![p] = Resting]
        /\ rows' = rows \/ rows' = Merge(rows, Requeued(t), {}, {t.id})
    BY <1>3, Zenon DEF TakeFails, Stands, Requeue
  <2>2. t \in Row /\ Carries(t, sent)
    BY <1>0, <2>1, TypeFacts DEF AtFor
  <2>3. t.id # None
    BY <2>2, RowFields, NoneAssumption
  <2>4. Requeued(t) \in Row /\ Requeued(t).claim = None /\ Requeued(t).fresh = FALSE
    BY <1>0, <2>2, <2>3, RequeuedRow DEF RowFor
  <2> HIDE DEF t
  <2>5. ClaimsKept(rows, rows')
    BY <1>0, <2>1, <2>4, SameClaims, MergedClaims
  <2> QED BY <1>0, <2>1, <2>5, AtKept, ClaimsStep DEF ClaimInv
<1> QED BY <1>1, <1>2, <1>3

LEMMA ClaimsTurn ==
  ASSUME ClaimInv, TypeOK', NEW p \in Process,
         Inject(p) \/ ProviderContent(p) \/ TurnEnds(p) \/ Settle(p) \/ SettleError(p)
  PROVE  ClaimInv'
PROOF
<1>0. RowsFor(rows, sent) /\ TypeOK /\ ClaimsAreExclusive /\ Held
  BY TypeFacts DEF ClaimInv
<1> SUFFICES ClaimsKept(rows, rows') /\ OnTheWay(at, at')
  BY <1>0, ClaimsStep DEF ClaimInv
<1>1. CASE Inject(p)
  <2>1. rows' = rows /\ at' = at
    BY <1>1 DEF Inject
  <2> QED BY <1>0, <2>1, SameClaims, AtKept
<1>2. CASE ProviderContent(p)
  <2>1. /\ at' = at /\ Touched(rows, rows')
        /\ \A i \in DOMAIN rows : rows'[i].claim = rows[i].claim /\ rows'[i].fresh = rows[i].fresh
    BY <1>0, <1>2, ContentRows
  <2>2. ClaimsKept(rows, rows')
    BY <2>1, TouchedClaims DEF Touched
  <2> QED BY <1>0, <2>1, <2>2, AtKept
<1>3. CASE TurnEnds(p)
  <2>1. /\ rows' = rows
        /\ \/ at' = at
           \/ \E kind \in {"completed", "error", "aborted", "retry"} :
                at' = [at EXCEPT ![p] = [step |-> kind, row |-> slot]]
    BY <1>0, <1>3, TurnEndsParts
  <2>2. CASE at' = at
    BY <1>0, <2>1, <2>2, SameClaims, AtKept
  <2>3. ASSUME NEW kind \in {"completed", "error", "aborted", "retry"},
               at' = [at EXCEPT ![p] = [step |-> kind, row |-> slot]]
        PROVE  OnTheWay(at, at')
    <3> DEFINE x == [step |-> kind, row |-> slot]
    <3>1. Moves(at, at', p, x) /\ x.step = kind
      BY <2>3 DEF Moves
    <3> HIDE DEF x
    <3> QED BY <1>0, <3>1, StaysOnTheWay
  <2> QED BY <2>1, <2>2, <2>3, SameClaims
<1>4. CASE Settle(p)
  <2>1. rows' = Complete(rows, at[p].row.id, p) /\ at' = [at EXCEPT ![p] = Resting]
    BY <1>4 DEF Settle
  <2> QED BY <1>0, <2>1, CompletedClaims, AtKept
<1>5. CASE SettleError(p)
  <2>1. PICK t \in settling : rows' = Complete(rows, t.id, p) /\ at' = at
    BY <1>5 DEF SettleError
  <2> QED BY <1>0, <2>1, CompletedClaims, AtKept
<1> QED BY <1>1, <1>2, <1>3, <1>4, <1>5

LEMMA ClaimsRetry ==
  ASSUME ClaimInv, TypeOK', NEW p \in Process,
         Restart(p) \/ RestartDropped(p) \/ RestartFails(p)
  PROVE  ClaimInv'
PROOF
<1>0. RowsFor(rows, sent) /\ TypeOK /\ ClaimsAreExclusive /\ Held
  BY TypeFacts DEF ClaimInv
<1> SUFFICES ClaimsKept(rows, rows') /\ OnTheWay(at, at')
  BY <1>0, ClaimsStep DEF ClaimInv
<1>1. CASE Restart(p)
  <2>1. rows' = rows /\ at' = [at EXCEPT ![p] = Resting]
    BY <1>1 DEF Restart
  <2> QED BY <1>0, <2>1, SameClaims, AtKept
<1>2. CASE RestartDropped(p)
  <2>1. rows' = Complete(rows, at[p].row.id, p) /\ at' = [at EXCEPT ![p] = Resting]
    BY <1>2 DEF RestartDropped
  <2> QED BY <1>0, <2>1, CompletedClaims, AtKept
<1>3. CASE RestartFails(p)
  <2> DEFINE t == at[p].row
  <2>1. /\ at[p].step = "retry" /\ at' = [at EXCEPT ![p] = Resting]
        /\ rows' = rows \/ rows' = Merge(rows, Requeued(t), {}, {t.id})
    BY <1>3, Zenon DEF RestartFails, Stands, Requeue
  <2>2. t \in Turn /\ Carries(t, sent) /\ t.id # None
    BY <1>0, <2>1, RetryTurn
  <2>4. Requeued(t) \in Row /\ Requeued(t).claim = None /\ Requeued(t).fresh = FALSE
    BY <1>0, <2>2, RequeuedRow DEF RowFor
  <2> HIDE DEF t
  <2>5. ClaimsKept(rows, rows')
    BY <1>0, <2>1, <2>4, SameClaims, MergedClaims
  <2> QED BY <1>0, <2>1, <2>5, AtKept
<1> QED BY <1>1, <1>2, <1>3

LEMMA ClaimsAge ==
  ASSUME ClaimInv, TypeOK', ClaimAges
  PROVE  ClaimInv'
PROOF
<1>1. /\ Touched(rows, rows') /\ at' = at /\ \A i \in DOMAIN rows : rows'[i].fresh => rows[i].fresh
      /\ \A p \in Process : at[p].step \in {"idle", "retry"}
  BY AgedRows DEF ClaimInv
<1>2. ClaimsAreExclusive'
  BY <1>1 DEF ClaimInv, ClaimsAreExclusive, Touched
<1>3. Held'
  BY <1>1 DEF Held
<1> QED BY <1>2, <1>3 DEF ClaimInv

LEMMA ClaimsOthers ==
  ASSUME ClaimInv, TypeOK', NEW p \in Process,
         \/ FlagSteer(p) \/ Stop(p) \/ Cancel(p) \/ Compact(p) \/ CompactBegins(p) \/ Crash(p)
         \/ Unfence \/ LeaseExpires
  PROVE  ClaimInv'
PROOF
<1>0. RowsFor(rows, sent) /\ TypeOK /\ ClaimsAreExclusive /\ Held
  BY TypeFacts DEF ClaimInv
<1>1. rows' = rows \/ rows' = Current(rows)
  BY DEF FlagSteer, Stop, Cancel, Compact, CompactBegins, Crash, Unfence, LeaseExpires
<1>2. ClaimsKept(rows, rows')
  BY <1>0, <1>1, SameClaims, CurrentClaims
<1>3. OnTheWay(at, at')
  <2>1. CASE FlagSteer(p) \/ Cancel(p) \/ CompactBegins(p) \/ Crash(p) \/ Unfence \/ LeaseExpires
    BY <1>0, <2>1, AtKept DEF FlagSteer, Cancel, CompactBegins, Crash, Unfence, LeaseExpires
  <2>2. CASE Stop(p)
    BY <1>0, <2>2, FreeAt, AtKept DEF Stop
  <2>3. CASE Compact(p)
    BY <1>0, <2>3, FreeAt, AtKept DEF Compact
  <2> QED BY <2>1, <2>2, <2>3
<1> QED BY <1>0, <1>2, <1>3, ClaimsStep DEF ClaimInv

LEMMA ClaimsNext == ClaimInv /\ [Next]_vars => ClaimInv'
PROOF
<1> SUFFICES ASSUME ClaimInv, [Next]_vars PROVE ClaimInv'
  OBVIOUS
<1>0. TypeOK'
  BY TypeNext DEF ClaimInv
<1>1. CASE UNCHANGED vars
  <2>1. rows' = rows /\ at' = at
    BY <1>1 DEF vars
  <2>2. OnTheWay(at, at')
    BY <2>1 DEF OnTheWay
  <2> QED BY <1>0, <2>1, <2>2, SameClaims, ClaimsStep DEF ClaimInv
<1>2. ASSUME NEW p \in Process,
             (\E a \in Actor, t \in Thread, steer \in BOOLEAN : Submit(p, a, t, steer)) \/ SteerQueued(p)
      PROVE  ClaimInv'
  BY <1>0, <1>2, ClaimsMinting
<1>3. ASSUME NEW p \in Process, Claim(p)
      PROVE  ClaimInv'
  BY <1>0, <1>3, ClaimsClaim
<1>4. ASSUME NEW p \in Process, Admit(p) \/ Take(p) \/ TakeFails(p)
      PROVE  ClaimInv'
  BY <1>0, <1>4, ClaimsWorker
<1>5. ASSUME NEW p \in Process,
             Inject(p) \/ ProviderContent(p) \/ TurnEnds(p) \/ Settle(p) \/ SettleError(p)
      PROVE  ClaimInv'
  BY <1>0, <1>5, ClaimsTurn
<1>6. ASSUME NEW p \in Process, Restart(p) \/ RestartDropped(p) \/ RestartFails(p)
      PROVE  ClaimInv'
  BY <1>0, <1>6, ClaimsRetry
<1>7. ASSUME NEW p \in Process,
             FlagSteer(p) \/ Stop(p) \/ Cancel(p) \/ Compact(p) \/ CompactBegins(p) \/ Crash(p)
      PROVE  ClaimInv'
  BY <1>0, <1>7, ClaimsOthers
<1>8. CASE ClaimAges
  BY <1>0, <1>8, ClaimsAge
<1>9. CASE Unfence \/ LeaseExpires
  <2>1. CASE Process = {}
    <3>1. rows' = rows /\ at' = at
      BY <1>9 DEF Unfence, LeaseExpires
    <3>2. OnTheWay(at, at')
      BY <3>1 DEF OnTheWay
    <3> QED BY <1>0, <3>1, <3>2, SameClaims, ClaimsStep DEF ClaimInv
  <2>2. ASSUME NEW p \in Process PROVE ClaimInv'
    BY <1>0, <1>9, <2>2, ClaimsOthers
  <2> QED BY <2>1, <2>2
<1> QED BY <1>1, <1>2, <1>3, <1>4, <1>5, <1>6, <1>7, <1>8, <1>9, Zenon DEF Next

(* Claims choose exactly one row and one worker: two rows of a topic are never  *)
(* held by fresh claims at once, however the processes interleave, wherever    *)
(* others are let in and whenever one dies (claimNextRuntimeUserTurnRequest).  *)
THEOREM ClaimsAreExclusiveHolds == Spec => []ClaimsAreExclusive
PROOF
<1>1. Init => ClaimInv
  <2> SUFFICES ASSUME Init PROVE ClaimInv
    OBVIOUS
  <2>1. DOMAIN rows = {}
    BY DEF Init
  <2> QED BY <2>1, TypeInit DEF ClaimInv, ClaimsAreExclusive, Held
<1>2. ClaimInv => ClaimsAreExclusive
  BY DEF ClaimInv
<1> QED BY <1>1, <1>2, ClaimsNext, PTL DEF Spec

-----------------------------------------------------------------------------
(* Epochs.                                                                   *)

(* Nobody is let in between a worker's epoch check and its lease, nor between  *)
(* the statements of a stop or of a compaction.                              *)
OrderlyEpochs == Interleaved \cap {"admitted", "stopping", "compacting"} = {}

(* The places of a callback that hold work which may still run. *)
Working == {"claimed", "admitted", "retry"}

(* Work of epoch e that carries message m: a row, the running turn, or what a  *)
(* worker holds.                                                             *)
RowRuns(rs, e, m)  == \E i \in DOMAIN rs : rs[i].epoch = e /\ m \in ToSet(rs[i].msgs)
SlotRuns(sl, e, m) == sl # None /\ sl.epoch = e /\ m \in ToSet(sl.msgs)
AtRuns(x, e, m)    == x.step \in Working /\ x.row.epoch = e /\ m \in ToSet(x.row.msgs)

RunsIn(rs, sl, a, e, m) ==
  RowRuns(rs, e, m) \/ SlotRuns(sl, e, m) \/ \E p \in Process : AtRuns(a[p], e, m)

Epochs == 0..MaxEpoch

(* Work is of one epoch, and what is of the current one no stop has covered.  *)
RunsFit(rs, sl, a, ep, st) ==
  \A e \in Epochs, m \in Request : RunsIn(rs, sl, a, e, m) =>
    /\ e <= ep
    /\ e = ep => m \notin st
    /\ \A f \in Epochs : RunsIn(rs, sl, a, f, m) => e = f

(* Nobody stands in a stop or a compaction. *)
Calm(a) == \A p \in Process : a[p].step \notin {"stopping", "compacting"}

EpochParts(rs, sl, a, ep, st) ==
  /\ (\A p \in Process : a[p].step # "stopping") =>
       /\ \A i \in DOMAIN rs : rs[i].epoch = ep
       /\ sl # None => sl.epoch = ep \/ sl.abort = "external"
  /\ \A p \in Process :
       /\ a[p].step = "admitted" => a[p].row.epoch = ep
       /\ a[p].step = "compacting" => DOMAIN rs = {} /\ sl = None
       /\ a[p].step = "stopping" => \A i \in DOMAIN rs : rs[i].epoch < ep
  /\ RunsFit(rs, sl, a, ep, st)

EpochInv == TypeOK /\ EpochParts(rows, slot, at, epoch, stopped)

(* While nobody stands in a stop or a compaction. *)
LEMMA CalmParts ==
  ASSUME NEW rs, NEW sl, NEW a, NEW ep, NEW st, Calm(a)
  PROVE  EpochParts(rs, sl, a, ep, st) <=>
           /\ \A i \in DOMAIN rs : rs[i].epoch = ep
           /\ sl # None => sl.epoch = ep \/ sl.abort = "external"
           /\ \A p \in Process : a[p].step = "admitted" => a[p].row.epoch = ep
           /\ RunsFit(rs, sl, a, ep, st)
PROOF
<1>1. \A p \in Process : a[p].step # "stopping" /\ a[p].step # "compacting"
  BY DEF Calm
<1> QED BY <1>1, Zenon DEF EpochParts

(* Where p goes on with its callback, nobody else stands in the middle of an   *)
(* epoch change.                                                             *)
LEMMA Alone ==
  ASSUME OrderlyEpochs, NEW P, Open(P)
  PROVE  \A q \in P : at[q].step \notin {"admitted", "stopping", "compacting"}
PROOF
<1> SUFFICES ASSUME NEW q \in P PROVE at[q].step \notin {"admitted", "stopping", "compacting"}
  OBVIOUS
<1>1. CASE at[q] = Resting
  <2>1. at[q].step = "idle"
    BY <1>1, RestsFor
  <2> QED BY <2>1
<1>2. CASE at[q].step \in Interleaved
  BY <1>2 DEF OrderlyEpochs
<1> QED BY <1>1, <1>2 DEF Open

LEMMA CalmAt ==
  ASSUME OrderlyEpochs, NEW p \in Process,
         \/ Free(p)
         \/ \E s \in Step \ {"stopping", "compacting"} : Stands(p, s)
  PROVE  Calm(at) /\ \A q \in Process \ {p} : at[q].step # "admitted"
PROOF
<1>1. CASE Free(p)
  <2>1. Open(Process)
    BY <1>1 DEF Free, Quiet
  <2> QED BY <2>1, Alone DEF Calm
<1>2. ASSUME NEW s \in Step \ {"stopping", "compacting"}, Stands(p, s) PROVE Calm(at) /\ \A q \in Process \ {p} : at[q].step # "admitted"
  <2>1. Open(Process \ {p}) /\ at[p].step \notin {"stopping", "compacting"}
    BY <1>2 DEF Stands
  <2> QED BY <2>1, Alone DEF Calm
<1> QED BY <1>1, <1>2

(* A step outside stops and compactions: its work was there before, or carries *)
(* new messages; what it drops for good is of another epoch.                   *)
LEMMA EpochStep ==
  ASSUME EpochInv, TypeOK', epoch' = epoch, Calm(at), Calm(at'),
         \A i \in DOMAIN rows' : rows'[i].epoch = epoch,
         slot' # None => slot'.epoch = epoch \/ slot'.abort = "external",
         \A q \in Process : at'[q].step = "admitted" => at'[q] = at[q] \/ at'[q].row.epoch = epoch,
         \A e \in Epochs, m \in Request : RunsIn(rows', slot', at', e, m) =>
           RunsIn(rows, slot, at, e, m) \/ (e = epoch /\ m \notin DOMAIN sent),
         \A m \in stopped' : m \in stopped
           \/ \E f \in Epochs \ {epoch} : RunsIn(rows, slot, at, f, m)
  PROVE  EpochInv'
PROOF
<1>1. /\ \A p \in Process : at[p].step = "admitted" => at[p].row.epoch = epoch
      /\ RunsFit(rows, slot, at, epoch, stopped)
  BY CalmParts DEF EpochInv
<1>2. \A p \in Process : at'[p].step = "admitted" => at'[p].row.epoch = epoch
  BY <1>1
<1>3. epoch \in Epochs /\ stopped \subseteq DOMAIN sent
  BY TypeFacts DEF EpochInv, Counted, Epochs, SaidIn
<1>4. \A e \in Epochs, m \in Request : RunsIn(rows, slot, at, e, m) => m \in DOMAIN sent
  <2>1. RowsFor(rows, sent) /\ (slot = None \/ TurnFor(slot, sent)) /\ \A p \in Process : AtFor(p, at[p], sent)
    BY TypeFacts DEF EpochInv
  <2>2. SaidIn(sent) \subseteq DOMAIN sent
    BY DEF SaidIn
  <2>3. \A i \in DOMAIN rows : ToSet(rows[i].msgs) \subseteq DOMAIN sent
    BY <2>1, <2>2 DEF RowsFor, RowFor
  <2>4. slot # None => ToSet(slot.msgs) \subseteq DOMAIN sent
    BY <2>1, <2>2 DEF TurnFor
  <2>5. \A p \in Process : at[p].step \in Working => ToSet(at[p].row.msgs) \subseteq DOMAIN sent
    BY <2>1, <2>2 DEF AtFor, Carries, Working
  <2> QED BY <2>3, <2>4, <2>5 DEF RunsIn, RowRuns, SlotRuns, AtRuns
<1>5. RunsFit(rows', slot', at', epoch, stopped')
  <2> SUFFICES ASSUME NEW e \in Epochs, NEW m \in Request, RunsIn(rows', slot', at', e, m)
               PROVE  /\ e <= epoch
                      /\ e = epoch => m \notin stopped'
                      /\ \A f \in Epochs : RunsIn(rows', slot', at', f, m) => e = f
    BY Zenon DEF RunsFit
  <2>1. CASE RunsIn(rows, slot, at, e, m)
    <3>1. e <= epoch /\ (e = epoch => m \notin stopped)
          /\ \A f \in Epochs : RunsIn(rows, slot, at, f, m) => e = f
      BY <1>1, <2>1, Zenon DEF RunsFit
    <3>2. m \in DOMAIN sent
      BY <1>4, <2>1
    <3> QED BY <3>1, <3>2
  <2>2. CASE e = epoch /\ m \notin DOMAIN sent
    <3>1. \A f \in Epochs : ~RunsIn(rows, slot, at, f, m)
      BY <1>4, <2>2
    <3>2. \A f \in Epochs : RunsIn(rows', slot', at', f, m) => f = epoch
      BY <3>1
    <3>3. m \notin stopped'
      BY <1>3, <2>2, <3>1
    <3> QED BY <1>3, <2>2, <3>2, <3>3 DEF Epochs
  <2> QED BY <2>1, <2>2
<1>6. EpochParts(rows', slot', at', epoch, stopped')
  BY <1>2, <1>5, CalmParts
<1> QED BY <1>6 DEF EpochInv

(* Whoever moves comes to hold nothing that may run. *)
Quieter(a, b) ==
  \A q \in Process : b[q] = a[q] \/ b[q].step \notin Working \cup {"stopping", "compacting"}

LEMMA QuieterAt ==
  ASSUME TypeOK, NEW p \in Process,
         \/ at' = at
         \/ at' = [at EXCEPT ![p] = Resting]
         \/ at' = [at EXCEPT ![p].step = "flagging"]
         \/ \E s \in {"completed", "error", "aborted"} : \E t : at' = [at EXCEPT ![p] = [step |-> s, row |-> t]]
  PROVE  Quieter(at, at')
PROOF
<1>1. DOMAIN at = Process
  BY TypeFacts
<1>2. ASSUME NEW x, at' = [at EXCEPT ![p] = x], x.step \notin Working \cup {"stopping", "compacting"}
      PROVE  Quieter(at, at')
  <2>1. at'[p] = x /\ \A q \in Process \ {p} : at'[q] = at[q]
    BY <1>1, <1>2
  <2> QED BY <1>2, <2>1 DEF Quieter
<1>3. CASE at' = at
  BY <1>3 DEF Quieter
<1>4. CASE at' = [at EXCEPT ![p] = Resting]
  <2>1. Resting.step \notin Working \cup {"stopping", "compacting"}
    BY RestsFor DEF Working
  <2> QED BY <1>2, <1>4, <2>1
<1>5. CASE at' = [at EXCEPT ![p].step = "flagging"]
  <2> DEFINE x == [step |-> "flagging", row |-> at[p].row]
  <2>1. at' = [at EXCEPT ![p] = x]
    BY <1>5, StepsTo DEF Step, Moves
  <2>2. x.step \notin Working \cup {"stopping", "compacting"}
    BY DEF Working
  <2> HIDE DEF x
  <2> QED BY <1>2, <2>1, <2>2
<1>6. ASSUME NEW s \in {"completed", "error", "aborted"}, NEW t, at' = [at EXCEPT ![p] = [step |-> s, row |-> t]]
      PROVE  Quieter(at, at')
  <2> DEFINE x == [step |-> s, row |-> t]
  <2>1. at' = [at EXCEPT ![p] = x] /\ x.step = s
    BY <1>6
  <2>2. x.step \notin Working \cup {"stopping", "compacting"}
    BY <2>1 DEF Working
  <2> HIDE DEF x
  <2> QED BY <1>2, <2>1, <2>2
<1> QED BY <1>3, <1>4, <1>5, <1>6

LEMMA QuietStep ==
  ASSUME EpochInv, TypeOK', epoch' = epoch, Calm(at), Quieter(at, at'),
         \A i \in DOMAIN rows' : rows'[i].epoch = epoch,
         slot' # None => slot'.epoch = epoch \/ slot'.abort = "external",
         \A e \in Epochs, m \in Request : RowRuns(rows', e, m) \/ SlotRuns(slot', e, m) =>
           RunsIn(rows, slot, at, e, m) \/ (e = epoch /\ m \notin DOMAIN sent),
         \A m \in stopped' : m \in stopped
           \/ \E f \in Epochs \ {epoch} : RunsIn(rows, slot, at, f, m)
  PROVE  EpochInv'
PROOF
<1>1. Calm(at')
  BY DEF Calm, Quieter
<1>2. \A q \in Process : at'[q].step = "admitted" => at'[q] = at[q] \/ at'[q].row.epoch = epoch
  BY DEF Quieter, Working
<1>3. \A q \in Process : \A e, m : AtRuns(at'[q], e, m) => AtRuns(at[q], e, m)
  BY DEF Quieter, AtRuns
<1>4. \A e \in Epochs, m \in Request : RunsIn(rows', slot', at', e, m) =>
        RunsIn(rows, slot, at, e, m) \/ (e = epoch /\ m \notin DOMAIN sent)
  <2> SUFFICES ASSUME NEW e \in Epochs, NEW m \in Request, RunsIn(rows', slot', at', e, m)
               PROVE  RunsIn(rows, slot, at, e, m) \/ (e = epoch /\ m \notin DOMAIN sent)
    OBVIOUS
  <2>1. CASE RowRuns(rows', e, m) \/ SlotRuns(slot', e, m)
    BY <2>1
  <2>2. CASE \E q \in Process : AtRuns(at'[q], e, m)
    <3>1. \E q \in Process : AtRuns(at[q], e, m)
      BY <1>3, <2>2
    <3> QED BY <3>1, Zenon DEF RunsIn
  <2> QED BY <2>1, <2>2, Zenon DEF RunsIn
<1> QED BY <1>1, <1>2, <1>4, EpochStep

(* What the operators on rows do to the work in them. *)
EpochsKept(rs, t) ==
  /\ \A i \in DOMAIN t : \E k \in DOMAIN rs : t[i].epoch = rs[k].epoch
  /\ \A e, m : RowRuns(t, e, m) => RowRuns(rs, e, m)

LEMMA PickedEpochs ==
  ASSUME NEW rs, NEW st, RowsFor(rs, st), NEW S, S \subseteq DOMAIN rs
  PROVE  EpochsKept(rs, Picked(rs, S))
PROOF
<1>1. \A i \in DOMAIN Picked(rs, S) : \E k \in DOMAIN rs : Picked(rs, S)[i] = rs[k]
  BY PickedRows
<1> QED BY <1>1 DEF EpochsKept, RowRuns

LEMMA CompletedEpochs ==
  ASSUME NEW rs, NEW st, RowsFor(rs, st), NEW id, NEW p
  PROVE  EpochsKept(rs, Complete(rs, id, p))
PROOF
<1> DEFINE S == {i \in DOMAIN rs : ~(rs[i].id = id /\ rs[i].claim = p)}
<1>1. S \subseteq DOMAIN rs /\ Complete(rs, id, p) = Picked(rs, S)
  BY Zenon DEF Complete
<1> HIDE DEF S
<1> QED BY <1>1, PickedEpochs

LEMMA TouchedEpochs ==
  ASSUME NEW rs, NEW t, Touched(rs, t)
  PROVE  EpochsKept(rs, t)
PROOF
  BY DEF EpochsKept, Touched, RowRuns

LEMMA SameEpochs ==
  ASSUME NEW rs
  PROVE  EpochsKept(rs, rs)
PROOF
  BY DEF EpochsKept

LEMMA MergedEpochs ==
  ASSUME NEW rs, NEW st, RowsFor(rs, st), NEW new \in Row, NEW kept, NEW included, NEW ep,
         \A i \in DOMAIN rs : rs[i].epoch = ep, new.epoch = ep
  PROVE  LET t == Merge(rs, new, kept, included)
         IN  /\ \A i \in DOMAIN t : t[i].epoch = ep
             /\ \A e, m : RowRuns(t, e, m) => RowRuns(rs, e, m) \/ (e = ep /\ m \in ToSet(new.msgs))
PROOF
<1> DEFINE t == Merge(rs, new, kept, included)
<1>1. PICK R, r : MergesTo(rs, new, kept, included, t, R, r)
  BY MergedList
<1> HIDE DEF t
<1>2. \A i \in DOMAIN t : (\E k \in DOMAIN rs : t[i] = rs[k]) \/ t[i] = r
  BY <1>1 DEF MergesTo
<1>3. r.epoch = ep /\ ToSet(r.msgs) = ToSet(new.msgs) \cup UNION {ToSet(rs[k].msgs) : k \in Carried(rs, new, kept)}
  BY <1>1 DEF MergesTo
<1>4. \A i \in DOMAIN t : t[i].epoch = ep
  BY <1>2, <1>3
<1>5. Carried(rs, new, kept) \subseteq DOMAIN rs
  BY DEF Carried, Absorbed
<1>6. \A m \in ToSet(r.msgs) : m \in ToSet(new.msgs) \/ RowRuns(rs, ep, m)
  BY <1>3, <1>5 DEF RowRuns
<1>7. ASSUME NEW e, NEW m, RowRuns(t, e, m) PROVE RowRuns(rs, e, m) \/ (e = ep /\ m \in ToSet(new.msgs))
  <2>1. PICK i \in DOMAIN t : t[i].epoch = e /\ m \in ToSet(t[i].msgs)
    BY <1>7 DEF RowRuns
  <2>2. CASE t[i] = r
    BY <1>3, <1>6, <2>1, <2>2
  <2>3. CASE \E k \in DOMAIN rs : t[i] = rs[k]
    BY <2>1, <2>3 DEF RowRuns
  <2> QED BY <1>2, <2>2, <2>3
<1> QED BY <1>4, <1>7 DEF t

LEMMA EpochFacts ==
  ASSUME EpochInv, Calm(at)
  PROVE  /\ TypeOK /\ RowsFor(rows, sent) /\ rows \in Seq(Row)
         /\ \A i \in DOMAIN rows : rows[i].epoch = epoch
         /\ slot # None => slot.epoch = epoch \/ slot.abort = "external"
         /\ \A p \in Process : at[p].step = "admitted" => at[p].row.epoch = epoch
         /\ RunsFit(rows, slot, at, epoch, stopped)
PROOF
  BY CalmParts, TypeFacts DEF EpochInv, RowsFor

(* Rows that were there, or a turn that was. *)
LEMMA RunsKept ==
  ASSUME NEW rs, NEW sl, NEW a, NEW e, NEW m
  PROVE  /\ RowRuns(rs, e, m) => RunsIn(rs, sl, a, e, m)
         /\ SlotRuns(sl, e, m) => RunsIn(rs, sl, a, e, m)
         /\ \A p \in Process : AtRuns(a[p], e, m) => RunsIn(rs, sl, a, e, m)
PROOF
  BY Zenon DEF RunsIn

(* The turn in the slot may be told to abort. *)
LEMMA FlaggedRuns ==
  ASSUME EpochInv, Calm(at),
         slot' = slot \/ slot' = None \/ slot' = Flagged("internal")
  PROVE  /\ slot' # None => slot'.epoch = epoch \/ slot'.abort = "external"
         /\ \A e, m : SlotRuns(slot', e, m) => SlotRuns(slot, e, m)
PROOF
<1>1. slot # None => slot.epoch = epoch \/ slot.abort = "external"
  BY EpochFacts
<1>2. CASE slot' = slot \/ slot' = None
  BY <1>1, <1>2 DEF SlotRuns
<1>3. CASE slot' = Flagged("internal")
  <2>1. slot = None \/ TurnFor(slot, sent)
    BY TypeFacts DEF EpochInv
  <2>2. /\ slot = None => slot' = None
        /\ slot # None =>
              /\ slot'.msgs = slot.msgs
              /\ slot'.epoch = slot.epoch
              /\ slot'.abort = IF slot.abort = "external" THEN "external" ELSE "internal"
    BY <1>3, <2>1, FlaggedTurn
  <2> QED BY <1>1, <2>2 DEF SlotRuns
<1> QED BY <1>2, <1>3

LEMMA EpochSubmit ==
  ASSUME OrderlyEpochs, EpochInv, TypeOK', NEW p \in Process,
         NEW a \in Actor, NEW t \in Thread, NEW steer \in BOOLEAN, Submit(p, a, t, steer)
  PROVE  EpochInv'
PROOF
<1> DEFINE id == Len(sent) + 1
           new == Pending(id, <<id>>, a, t, epoch)
           kept == IF ~steer /\ HasActive THEN {Active.id} ELSE {}
<1>1. /\ Free(p) /\ id \in Request /\ rows' = Merge(rows, new, kept, {})
      /\ sent' = Append(sent, [actor |-> a, thread |-> t, said |-> TRUE])
      /\ at' = at \/ at' = [at EXCEPT ![p].step = "flagging"]
      /\ epoch' = epoch /\ slot' = slot /\ stopped' = stopped
  BY Zenon DEF Submit
<1>2. Calm(at) /\ TypeOK
  BY <1>1, CalmAt DEF EpochInv
<1>3. RowFor(new, sent')
  BY <1>1, <1>2, SubmitRow
<1>4. new \in Row /\ new.epoch = epoch /\ ToSet(new.msgs) = {id}
  BY <1>3 DEF RowFor, Pending, ToSet
<1>5. id \notin DOMAIN sent
  <2>1. sent \in Seq(Sent)
    BY <1>2, TypeFacts
  <2> QED BY <2>1
<1> HIDE DEF new, kept, id
<1>6. /\ \A i \in DOMAIN rows' : rows'[i].epoch = epoch
      /\ \A e, m : RowRuns(rows', e, m) => RowRuns(rows, e, m) \/ (e = epoch /\ m \in ToSet(new.msgs))
  BY <1>1, <1>2, <1>4, EpochFacts, MergedEpochs
<1>7. Quieter(at, at')
  BY <1>1, <1>2, QuieterAt
<1>8. \A e \in Epochs, m \in Request : RowRuns(rows', e, m) \/ SlotRuns(slot', e, m) =>
        RunsIn(rows, slot, at, e, m) \/ (e = epoch /\ m \notin DOMAIN sent)
  BY <1>1, <1>4, <1>5, <1>6, RunsKept
<1>9. slot' # None => slot'.epoch = epoch \/ slot'.abort = "external"
  BY <1>1, <1>2, EpochFacts
<1> QED BY <1>1, <1>2, <1>6, <1>7, <1>8, <1>9, QuietStep

LEMMA EpochSteerQueued ==
  ASSUME OrderlyEpochs, EpochInv, TypeOK', NEW p \in Process, SteerQueued(p)
  PROVE  EpochInv'
PROOF
<1> DEFINE latest == Last(rows)
           new == [Pending(Len(sent) + 1, <<>>, latest.actor, latest.thread, latest.epoch)
                     EXCEPT !.seen = latest.seen]
<1>0. TypeOK
  BY DEF EpochInv
<1>1. /\ Free(p) /\ RowFor(new, sent') /\ new.msgs = <<>> /\ new.epoch = latest.epoch
      /\ Len(rows) \in DOMAIN rows /\ latest = rows[Len(rows)]
      /\ rows' = Merge(rows, new, {}, {})
      /\ at' = IF ActiveAt \in Absorbed(rows, new, {})
               THEN [at EXCEPT ![p].step = "flagging"] ELSE at
      /\ UNCHANGED <<epoch, fence, slot, settling, up, spent, stopped, ended>>
  BY <1>0, SteerRow, Zenon
<1>2. Calm(at)
  BY <1>1, CalmAt
<1>3. at' = at \/ at' = [at EXCEPT ![p].step = "flagging"]
  BY <1>1, Zenon
<1>4. latest.epoch = epoch
  BY <1>1, <1>2, EpochFacts
<1> HIDE DEF new, latest
<1>5. new \in Row /\ new.epoch = epoch /\ ToSet(new.msgs) = {}
  BY <1>1, <1>4 DEF RowFor, ToSet
<1>6. /\ \A i \in DOMAIN rows' : rows'[i].epoch = epoch
      /\ \A e, m : RowRuns(rows', e, m) => RowRuns(rows, e, m) \/ (e = epoch /\ m \in ToSet(new.msgs))
  BY <1>1, <1>2, <1>5, EpochFacts, MergedEpochs
<1>7. Quieter(at, at')
  BY <1>0, <1>3, QuieterAt
<1>8. \A e \in Epochs, m \in Request : RowRuns(rows', e, m) \/ SlotRuns(slot', e, m) =>
        RunsIn(rows, slot, at, e, m) \/ (e = epoch /\ m \notin DOMAIN sent)
  BY <1>1, <1>5, <1>6, RunsKept
<1>9. slot' # None => slot'.epoch = epoch \/ slot'.abort = "external"
  BY <1>1, <1>2, EpochFacts
<1> QED BY <1>1, <1>2, <1>6, <1>7, <1>8, <1>9, QuietStep

(* Steps that keep, touch or pick rows and keep, flag or free the slot.       *)
LEMMA EpochPlain ==
  ASSUME EpochInv, TypeOK', epoch' = epoch, Calm(at), Quieter(at, at'),
         EpochsKept(rows, rows'),
         slot' = slot \/ slot' = None \/ slot' = Flagged("internal"),
         \A m \in stopped' : m \in stopped
           \/ \E f \in Epochs \ {epoch} : RunsIn(rows, slot, at, f, m)
  PROVE  EpochInv'
PROOF
<1>1. \A i \in DOMAIN rows' : rows'[i].epoch = epoch
  BY EpochFacts DEF EpochsKept
<1>2. /\ slot' # None => slot'.epoch = epoch \/ slot'.abort = "external"
      /\ \A e, m : SlotRuns(slot', e, m) => SlotRuns(slot, e, m)
  BY FlaggedRuns
<1>3. \A e \in Epochs, m \in Request : RowRuns(rows', e, m) \/ SlotRuns(slot', e, m) =>
        RunsIn(rows, slot, at, e, m) \/ (e = epoch /\ m \notin DOMAIN sent)
  BY <1>2, RunsKept DEF EpochsKept
<1> QED BY <1>1, <1>2, <1>3, QuietStep

LEMMA EpochClaim ==
  ASSUME OrderlyEpochs, EpochInv, TypeOK', NEW p \in Process, Claim(p)
  PROVE  EpochInv'
PROOF
<1>0. TypeOK
  BY DEF EpochInv
<1>1. PICK i \in DOMAIN rows : at' = [at EXCEPT ![p] = [step |-> "claimed", row |-> rows'[i]]]
  BY <1>0, ClaimRows
<1>2. /\ Free(p) /\ Touched(rows, rows')
      /\ UNCHANGED <<sent, epoch, fence, slot, settling, up, spent, answered, stopped, ended>>
  BY <1>0, ClaimRows
<1>3. Calm(at)
  BY <1>2, CalmAt
<1> DEFINE x == [step |-> "claimed", row |-> rows'[i]]
<1>4. at'[p] = x /\ (\A q \in Process \ {p} : at'[q] = at[q]) /\ x.step = "claimed" /\ x.row = rows'[i]
  BY <1>0, <1>1, TypeFacts
<1> HIDE DEF x
<1>5. Calm(at')
  BY <1>3, <1>4 DEF Calm
<1>6. EpochsKept(rows, rows')
  BY <1>2, TouchedEpochs
<1>7. \A e, m : RowRuns(rows', e, m) => RowRuns(rows, e, m)
  BY <1>6, Zenon DEF EpochsKept
<1>8. \A e, m : AtRuns(at'[p], e, m) => RowRuns(rows, e, m)
  <2> SUFFICES ASSUME NEW e, NEW m, AtRuns(at'[p], e, m) PROVE RowRuns(rows, e, m)
    OBVIOUS
  <2>1. rows'[i].epoch = e /\ m \in ToSet(rows'[i].msgs) /\ i \in DOMAIN rows'
    BY <1>2, <1>4 DEF AtRuns, Touched
  <2> QED BY <1>7, <2>1 DEF RowRuns
<1>9. \A e \in Epochs, m \in Request : RunsIn(rows', slot', at', e, m) => RunsIn(rows, slot, at, e, m)
  <2> SUFFICES ASSUME NEW e \in Epochs, NEW m \in Request, RunsIn(rows', slot', at', e, m)
               PROVE  RunsIn(rows, slot, at, e, m)
    OBVIOUS
  <2>1. CASE RowRuns(rows', e, m) \/ SlotRuns(slot', e, m)
    BY <1>2, <1>7, <2>1, RunsKept
  <2>2. ASSUME NEW q \in Process, AtRuns(at'[q], e, m) PROVE RunsIn(rows, slot, at, e, m)
    BY <1>4, <1>8, <2>2, RunsKept
  <2> QED BY <2>1, <2>2, Zenon DEF RunsIn
<1>10. \A j \in DOMAIN rows' : rows'[j].epoch = epoch
  BY <1>3, <1>6, EpochFacts DEF EpochsKept
<1>11. slot' # None => slot'.epoch = epoch \/ slot'.abort = "external"
  BY <1>2, <1>3, EpochFacts
<1>12. \A q \in Process : at'[q].step = "admitted" => at'[q] = at[q] \/ at'[q].row.epoch = epoch
  BY <1>4
<1> QED BY <1>2, <1>3, <1>5, <1>9, <1>10, <1>11, <1>12, EpochStep

LEMMA EpochAdmit ==
  ASSUME OrderlyEpochs, EpochInv, TypeOK', NEW p \in Process, Admit(p)
  PROVE  EpochInv'
PROOF
<1>0. TypeOK
  BY DEF EpochInv
<1>1. /\ Stands(p, "claimed") /\ at[p].step = "claimed"
      /\ UNCHANGED <<sent, epoch, fence, slot, settling, up, spent, answered, ended>>
  BY DEF Admit, Stands
<1>2. Calm(at)
  BY <1>1, CalmAt DEF Step
<1>3. CASE at[p].row.epoch = epoch
  <2>1. at' = [at EXCEPT ![p].step = "admitted"] /\ rows' = rows /\ stopped' = stopped
    BY <1>3 DEF Admit
  <2> DEFINE x == [step |-> "admitted", row |-> at[p].row]
  <2>2. at'[p] = x /\ (\A q \in Process \ {p} : at'[q] = at[q]) /\ x.step = "admitted" /\ x.row = at[p].row
    <3>1. Moves(at, at', p, x)
      BY <1>0, <2>1, StepsTo DEF Step
    <3> QED BY <1>0, <3>1, TypeFacts DEF Moves
  <2> HIDE DEF x
  <2>3. Calm(at')
    BY <1>2, <2>2 DEF Calm
  <2>4. \A q \in Process : \A e, m : AtRuns(at'[q], e, m) => AtRuns(at[q], e, m)
    BY <1>1, <2>2 DEF AtRuns, Working
  <2>5. \A e \in Epochs, m \in Request : RunsIn(rows', slot', at', e, m) => RunsIn(rows, slot, at, e, m)
    BY <1>1, <2>1, <2>4, Zenon DEF RunsIn
  <2>6. \A i \in DOMAIN rows' : rows'[i].epoch = epoch
    BY <1>2, <2>1, EpochFacts
  <2>7. slot' # None => slot'.epoch = epoch \/ slot'.abort = "external"
    BY <1>1, <1>2, EpochFacts
  <2>8. \A q \in Process : at'[q].step = "admitted" => at'[q] = at[q] \/ at'[q].row.epoch = epoch
    BY <1>3, <2>2
  <2> QED BY <1>1, <1>2, <2>1, <2>3, <2>5, <2>6, <2>7, <2>8, EpochStep
<1>4. CASE at[p].row.epoch # epoch
  <2>1. /\ rows' = Complete(rows, at[p].row.id, p) /\ stopped' = stopped \cup ToSet(at[p].row.msgs)
        /\ at' = [at EXCEPT ![p] = Resting]
    BY <1>4 DEF Admit
  <2>2. EpochsKept(rows, rows')
    BY <1>2, <2>1, EpochFacts, CompletedEpochs
  <2>3. at[p].row \in Row
    BY <1>0, <1>1, TypeFacts DEF AtFor
  <2>4. at[p].row.epoch \in Epochs
    BY <2>3, RowFields DEF Epochs
  <2>5. \A m \in ToSet(at[p].row.msgs) : AtRuns(at[p], at[p].row.epoch, m)
    BY <1>1 DEF AtRuns, Working
  <2>6. \A m \in stopped' : m \in stopped
           \/ \E f \in Epochs \ {epoch} : RunsIn(rows, slot, at, f, m)
    BY <1>4, <2>1, <2>4, <2>5, RunsKept
  <2> QED BY <1>0, <1>1, <1>2, <2>1, <2>2, <2>6, QuieterAt, EpochPlain
<1> QED BY <1>3, <1>4

(* p queues the turn it holds again, or fails to. *)
LEMMA EpochRequeues ==
  ASSUME OrderlyEpochs, EpochInv, TypeOK', NEW p \in Process, Calm(at),
         at[p].step \in {"admitted", "retry"}, at[p].row.epoch = epoch,
         rows' = rows \/ rows' = Merge(rows, Requeued(at[p].row), {}, {at[p].row.id}),
         slot' = Displaced(at[p].row), at' = [at EXCEPT ![p] = Resting],
         epoch' = epoch, stopped' = stopped
  PROVE  EpochInv'
PROOF
<1> DEFINE t == at[p].row
<1>0. TypeOK
  BY DEF EpochInv
<1>1. t \in Row \cup Turn /\ Carries(t, sent) /\ t.id # None
  <2>1. AtFor(p, at[p], sent)
    BY <1>0, TypeFacts
  <2>2. CASE at[p].step = "admitted"
    <3>1. t \in Row /\ Carries(t, sent)
      BY <2>1, <2>2 DEF AtFor
    <3> QED BY <3>1, RowFields, NoneAssumption
  <2>3. CASE at[p].step = "retry"
    BY <1>0, <2>3, RetryTurn
  <2> QED BY <2>2, <2>3
<1>2. Requeued(t) \in Row /\ Requeued(t).msgs = t.msgs /\ Requeued(t).epoch = epoch
  BY <1>0, <1>1, RequeuedRow DEF RowFor
<1>3. slot' = slot \/ slot' = Flagged("internal")
  BY <1>0, DisplacedTurn
<1>4. \A m \in ToSet(t.msgs) : AtRuns(at[p], epoch, m)
  BY DEF AtRuns, Working
<1>5. Quieter(at, at')
  BY <1>0, QuieterAt
<1>6. CASE rows' = rows
  BY <1>3, <1>5, <1>6, SameEpochs, EpochPlain
<1>7. CASE rows' = Merge(rows, Requeued(t), {}, {t.id})
  <2> HIDE DEF t
  <2>1. /\ \A i \in DOMAIN rows' : rows'[i].epoch = epoch
        /\ \A e, m : RowRuns(rows', e, m) => RowRuns(rows, e, m) \/ (e = epoch /\ m \in ToSet(t.msgs))
    <3> DEFINE new == Requeued(t)
    <3>1. new \in Row /\ new.epoch = epoch /\ new.msgs = t.msgs /\ rows' = Merge(rows, new, {}, {t.id})
      BY <1>2, <1>7
    <3> HIDE DEF new
    <3>2. /\ \A i \in DOMAIN rows' : rows'[i].epoch = epoch
          /\ \A e, m : RowRuns(rows', e, m) => RowRuns(rows, e, m) \/ (e = epoch /\ m \in ToSet(new.msgs))
      BY <3>1, EpochFacts, MergedEpochs
    <3> QED BY <3>1, <3>2
  <2>2. /\ slot' # None => slot'.epoch = epoch \/ slot'.abort = "external"
        /\ \A e, m : SlotRuns(slot', e, m) => SlotRuns(slot, e, m)
    BY <1>3, FlaggedRuns
  <2>3. \A e \in Epochs, m \in Request : RowRuns(rows', e, m) \/ SlotRuns(slot', e, m) =>
        RunsIn(rows, slot, at, e, m) \/ (e = epoch /\ m \notin DOMAIN sent)
    BY <1>4, <2>1, <2>2, RunsKept
  <2> QED BY <1>5, <2>1, <2>2, <2>3, QuietStep
<1> QED BY <1>6, <1>7

(* p starts the turn it holds. *)
LEMMA EpochStarts ==
  ASSUME OrderlyEpochs, EpochInv, TypeOK', NEW p \in Process, Calm(at),
         at[p].step \in {"admitted", "retry"}, at[p].row.epoch = epoch,
         slot'.msgs = at[p].row.msgs, slot'.epoch = at[p].row.epoch,
         EpochsKept(rows, rows'), at' = [at EXCEPT ![p] = Resting],
         epoch' = epoch, stopped' = stopped
  PROVE  EpochInv'
PROOF
<1>0. TypeOK
  BY DEF EpochInv
<1>1. \A i \in DOMAIN rows' : rows'[i].epoch = epoch
  BY EpochFacts DEF EpochsKept
<1>2. \A e, m : SlotRuns(slot', e, m) => AtRuns(at[p], e, m)
  BY DEF SlotRuns, AtRuns, Working
<1>3. \A e \in Epochs, m \in Request : RowRuns(rows', e, m) \/ SlotRuns(slot', e, m) =>
        RunsIn(rows, slot, at, e, m) \/ (e = epoch /\ m \notin DOMAIN sent)
  BY <1>2, RunsKept DEF EpochsKept
<1> QED BY <1>0, <1>1, <1>3, QuieterAt, QuietStep

LEMMA EpochWorker ==
  ASSUME OrderlyEpochs, EpochInv, TypeOK', NEW p \in Process,
         Take(p) \/ TakeFails(p) \/ Inject(p) \/ ProviderContent(p)
  PROVE  EpochInv'
PROOF
<1>0. TypeOK
  BY DEF EpochInv
<1>1. CASE Take(p)
  <2>1. /\ Stands(p, "admitted") /\ at[p].step = "admitted"
        /\ slot'.msgs = at[p].row.msgs /\ slot'.epoch = at[p].row.epoch
        /\ Touched(rows, rows') /\ at' = [at EXCEPT ![p] = Resting]
        /\ epoch' = epoch /\ stopped' = stopped
    BY <1>0, <1>1, TakeParts DEF Stands
  <2>2. Calm(at)
    BY <2>1, CalmAt DEF Step
  <2>3. at[p].row.epoch = epoch
    BY <2>1, <2>2, EpochFacts
  <2> QED BY <2>1, <2>2, <2>3, TouchedEpochs, EpochStarts
<1>2. CASE TakeFails(p)
  <2>1. /\ Stands(p, "admitted") /\ at[p].step = "admitted"
        /\ rows' = rows \/ rows' = Merge(rows, Requeued(at[p].row), {}, {at[p].row.id})
        /\ slot' = Displaced(at[p].row) /\ at' = [at EXCEPT ![p] = Resting]
        /\ epoch' = epoch /\ stopped' = stopped
    BY <1>2, Zenon DEF TakeFails, Stands, Requeue
  <2>2. Calm(at)
    BY <2>1, CalmAt DEF Step
  <2>3. at[p].row.epoch = epoch
    BY <2>1, <2>2, EpochFacts
  <2> QED BY <2>1, <2>2, <2>3, EpochRequeues
<1>3. CASE Inject(p)
  <2>1. /\ Free(p) /\ ToSet(slot'.msgs) = {} /\ slot'.epoch = epoch
        /\ UNCHANGED <<sent, rows, epoch, fence, settling, at, up, retries, answered, stopped, ended>>
    BY <1>0, <1>3, InjectTurn
  <2>2. Calm(at)
    BY <2>1, CalmAt
  <2>3. Quieter(at, at')
    BY <1>0, <2>1, QuieterAt
  <2>4. \A e \in Epochs, m \in Request : RowRuns(rows', e, m) \/ SlotRuns(slot', e, m) =>
        RunsIn(rows, slot, at, e, m) \/ (e = epoch /\ m \notin DOMAIN sent)
    BY <2>1, RunsKept DEF SlotRuns
  <2>5. \A i \in DOMAIN rows' : rows'[i].epoch = epoch
    BY <2>1, <2>2, EpochFacts
  <2> QED BY <2>1, <2>2, <2>3, <2>4, <2>5, QuietStep
<1>4. CASE ProviderContent(p)
  <2>1. /\ Free(p) /\ Touched(rows, rows')
        /\ UNCHANGED <<sent, epoch, fence, slot, settling, at, up, spent, answered, stopped, ended>>
    BY <1>0, <1>4, ContentRows
  <2>2. Calm(at)
    BY <2>1, CalmAt
  <2>3. Quieter(at, at')
    BY <1>0, <2>1, QuieterAt
  <2> QED BY <2>1, <2>2, <2>3, TouchedEpochs, EpochPlain
<1> QED BY <1>1, <1>2, <1>3, <1>4

LEMMA EpochTurnEnds ==
  ASSUME OrderlyEpochs, EpochInv, TypeOK', NEW p \in Process, TurnEnds(p)
  PROVE  EpochInv'
PROOF
<1>0. TypeOK
  BY DEF EpochInv
<1>1. /\ Free(p) /\ slot # None /\ slot' = None /\ at[p] = Resting
      /\ UNCHANGED <<sent, rows, epoch, fence, up, injects, answered, stopped>>
      /\ \/ at' = at
         \/ \E kind \in {"completed", "error", "aborted", "retry"} :
              at' = [at EXCEPT ![p] = [step |-> kind, row |-> slot]]
  BY <1>0, TurnEndsParts
<1>2. Calm(at)
  BY <1>1, CalmAt
<1>3. EpochsKept(rows, rows')
  BY <1>1, SameEpochs
<1>4. CASE at' = at \/ \E kind \in {"completed", "error", "aborted"} :
              at' = [at EXCEPT ![p] = [step |-> kind, row |-> slot]]
  <2>1. Quieter(at, at')
    BY <1>0, <1>4, QuieterAt
  <2> QED BY <1>1, <1>2, <1>3, <2>1, EpochPlain
<1>5. CASE at' = [at EXCEPT ![p] = [step |-> "retry", row |-> slot]]
  <2> DEFINE x == [step |-> "retry", row |-> slot]
  <2>1. at'[p] = x /\ (\A q \in Process \ {p} : at'[q] = at[q]) /\ x.step = "retry" /\ x.row = slot
    BY <1>0, <1>5, TypeFacts
  <2> HIDE DEF x
  <2>2. Calm(at')
    BY <1>2, <2>1 DEF Calm
  <2>3. \A q \in Process : at'[q].step = "admitted" => at'[q] = at[q] \/ at'[q].row.epoch = epoch
    BY <2>1
  <2>4. \A e, m : AtRuns(at'[p], e, m) => SlotRuns(slot, e, m)
    BY <1>1, <2>1 DEF AtRuns, SlotRuns
  <2>5. \A e, m : ~SlotRuns(slot', e, m)
    BY <1>1 DEF SlotRuns
  <2>6. \A e \in Epochs, m \in Request : RunsIn(rows', slot', at', e, m) => RunsIn(rows, slot, at, e, m)
    <3> SUFFICES ASSUME NEW e \in Epochs, NEW m \in Request, RunsIn(rows', slot', at', e, m)
                 PROVE  RunsIn(rows, slot, at, e, m)
      OBVIOUS
    <3>1. CASE RowRuns(rows', e, m)
      BY <1>1, <3>1, RunsKept
    <3>2. ASSUME NEW q \in Process, AtRuns(at'[q], e, m) PROVE RunsIn(rows, slot, at, e, m)
      BY <2>1, <2>4, <3>2, RunsKept
    <3> QED BY <2>5, <3>1, <3>2, Zenon DEF RunsIn
  <2>7. \A i \in DOMAIN rows' : rows'[i].epoch = epoch
    BY <1>1, <1>2, EpochFacts
  <2> QED BY <1>1, <1>2, <2>2, <2>3, <2>6, <2>7, EpochStep
<1> QED BY <1>1, <1>4, <1>5

LEMMA EpochSettles ==
  ASSUME OrderlyEpochs, EpochInv, TypeOK', NEW p \in Process, Settle(p) \/ SettleError(p) \/ FlagSteer(p)
  PROVE  EpochInv'
PROOF
<1>0. TypeOK /\ RowsFor(rows, sent)
  BY TypeFacts DEF EpochInv
<1>1. Calm(at)
  <2>1. CASE Settle(p)
    <3>1. \E s \in Step \ {"stopping", "compacting"} : Stands(p, s)
      BY <2>1 DEF Settle, Step
    <3> QED BY <3>1, CalmAt
  <2>2. CASE SettleError(p)
    BY <2>2, CalmAt DEF SettleError
  <2>3. CASE FlagSteer(p)
    <3>1. \E s \in Step \ {"stopping", "compacting"} : Stands(p, s)
      BY <2>3 DEF FlagSteer, Step
    <3> QED BY <3>1, CalmAt
  <2> QED BY <2>1, <2>2, <2>3
<1>2. /\ epoch' = epoch /\ stopped' = stopped
      /\ slot' = slot \/ slot' = Flagged("internal")
      /\ at' = at \/ at' = [at EXCEPT ![p] = Resting]
  BY DEF Settle, SettleError, FlagSteer
<1>3. EpochsKept(rows, rows')
  <2>1. rows' = rows \/ \E id : rows' = Complete(rows, id, p)
    BY DEF Settle, SettleError, FlagSteer
  <2> QED BY <1>0, <2>1, SameEpochs, CompletedEpochs
<1>4. Quieter(at, at')
  BY <1>0, <1>2, QuieterAt
<1> QED BY <1>1, <1>2, <1>3, <1>4, EpochPlain

LEMMA EpochRetry ==
  ASSUME OrderlyEpochs, EpochInv, TypeOK', NEW p \in Process,
         Restart(p) \/ RestartDropped(p) \/ RestartFails(p)
  PROVE  EpochInv'
PROOF
<1>0. TypeOK /\ RowsFor(rows, sent)
  BY TypeFacts DEF EpochInv
<1>1. Stands(p, "retry") /\ at[p].step = "retry" /\ epoch' = epoch /\ at' = [at EXCEPT ![p] = Resting]
  BY DEF Restart, RestartDropped, RestartFails, Stands
<1>2. Calm(at)
  BY <1>1, CalmAt DEF Step
<1>3. CASE Restart(p)
  <2>1. /\ at[p].row.epoch = epoch /\ rows' = rows /\ stopped' = stopped
        /\ slot' = Started(p, at[p].row, Main)
    BY <1>3 DEF Restart
  <2>2. slot'.msgs = at[p].row.msgs /\ slot'.epoch = at[p].row.epoch
    BY <1>0, <1>1, <2>1, RetryTurn, MainAssumption, StartedTurn
  <2> QED BY <1>1, <1>2, <2>1, <2>2, SameEpochs, EpochStarts
<1>4. CASE RestartDropped(p)
  <2>1. /\ at[p].row.epoch # epoch /\ rows' = Complete(rows, at[p].row.id, p)
        /\ stopped' = stopped \cup ToSet(at[p].row.msgs) /\ slot' = slot
    BY <1>4 DEF RestartDropped
  <2>2. EpochsKept(rows, rows')
    BY <1>0, <2>1, CompletedEpochs
  <2>3. at[p].row.epoch \in Epochs
    <3>1. at[p].row \in Turn
      BY <1>0, <1>1, RetryTurn
    <3> QED BY <3>1 DEF Turn, Epochs
  <2>4. \A m \in ToSet(at[p].row.msgs) : AtRuns(at[p], at[p].row.epoch, m)
    BY <1>1 DEF AtRuns, Working
  <2>5. \A m \in stopped' : m \in stopped
           \/ \E f \in Epochs \ {epoch} : RunsIn(rows, slot, at, f, m)
    BY <2>1, <2>3, <2>4, RunsKept
  <2> QED BY <1>0, <1>1, <1>2, <2>1, <2>2, <2>5, QuieterAt, EpochPlain
<1>5. CASE RestartFails(p)
  <2>1. /\ at[p].row.epoch = epoch /\ stopped' = stopped /\ slot' = Displaced(at[p].row)
        /\ rows' = rows \/ rows' = Merge(rows, Requeued(at[p].row), {}, {at[p].row.id})
    BY <1>5, Zenon DEF RestartFails, Requeue
  <2> QED BY <1>1, <1>2, <2>1, EpochRequeues
<1> QED BY <1>3, <1>4, <1>5

LEMMA EpochClock ==
  ASSUME OrderlyEpochs, EpochInv, TypeOK', ClaimAges \/ Unfence \/ LeaseExpires
  PROVE  EpochInv'
PROOF
<1>0. TypeOK
  BY DEF EpochInv
<1>1. /\ Quiet /\ at' = at /\ epoch' = epoch /\ stopped' = stopped
      /\ slot' = slot \/ slot' = None
  BY DEF ClaimAges, Unfence, LeaseExpires
<1>2. Calm(at)
  BY <1>1, Alone DEF Quiet, Calm
<1>3. EpochsKept(rows, rows')
  <2>1. CASE ClaimAges
    BY <1>0, <2>1, AgedRows, TouchedEpochs
  <2>2. CASE Unfence \/ LeaseExpires
    <3>1. rows' = rows
      BY <2>2 DEF Unfence, LeaseExpires
    <3> QED BY <3>1, SameEpochs
  <2> QED BY <2>1, <2>2
<1>4. Quieter(at, at')
  BY <1>1 DEF Quieter
<1> QED BY <1>1, <1>2, <1>3, <1>4, EpochPlain

(* Work only goes away, or the epoch moves on. *)
LEMMA RunsFewer ==
  ASSUME NEW rs, NEW sl, NEW a, NEW ep \in Epochs, NEW st,
         NEW rs2, NEW sl2, NEW a2, NEW ep2 \in Epochs, NEW st2,
         RunsFit(rs, sl, a, ep, st),
         \A e \in Epochs, m \in Request : RunsIn(rs2, sl2, a2, e, m) => RunsIn(rs, sl, a, e, m),
         ep < ep2 \/ (ep2 = ep /\ st2 = st)
  PROVE  RunsFit(rs2, sl2, a2, ep2, st2)
PROOF
<1> SUFFICES ASSUME NEW e \in Epochs, NEW m \in Request, RunsIn(rs2, sl2, a2, e, m)
             PROVE  /\ e <= ep2
                    /\ e = ep2 => m \notin st2
                    /\ \A f \in Epochs : RunsIn(rs2, sl2, a2, f, m) => e = f
  BY Zenon DEF RunsFit
<1>1. /\ e <= ep /\ (e = ep => m \notin st)
      /\ \A f \in Epochs : RunsIn(rs, sl, a, f, m) => e = f
  BY Zenon DEF RunsFit
<1>2. e \in Int /\ ep \in Int /\ ep2 \in Int
  BY BoundsAssumption DEF Epochs
<1> QED BY <1>1, <1>2

LEMMA EpochIn == EpochInv => epoch \in Epochs /\ RunsFit(rows, slot, at, epoch, stopped)
PROOF
  BY TypeFacts DEF EpochInv, Counted, Epochs, EpochParts

LEMMA EpochStop ==
  ASSUME OrderlyEpochs, EpochInv, TypeOK', NEW p \in Process, Stop(p)
  PROVE  EpochInv'
PROOF
<1>0. TypeOK
  BY DEF EpochInv
<1>1. /\ Free(p) /\ at[p] = Resting /\ epoch < MaxEpoch /\ epoch' = epoch + 1
      /\ at' = [at EXCEPT ![p].step = "stopping"]
      /\ rows' = rows /\ slot' = slot
  BY <1>0, FreeAt DEF Stop
<1>2. Calm(at) /\ \A q \in Process \ {p} : at[q].step # "admitted"
  BY <1>1, CalmAt
<1>3. at'[p].step = "stopping" /\ \A q \in Process \ {p} : at'[q] = at[q]
  BY <1>0, <1>1, TypeFacts
<1>4. epoch \in Epochs /\ epoch' \in Epochs /\ epoch < epoch'
  BY <1>1, EpochIn, BoundsAssumption DEF Epochs
<1>5. \A i \in DOMAIN rows' : rows'[i].epoch < epoch'
  BY <1>1, <1>2, <1>4, EpochFacts
<1>6. \A e \in Epochs, m \in Request : RunsIn(rows', slot', at', e, m) => RunsIn(rows, slot, at, e, m)
  <2>1. \A q \in Process : \A e, m : AtRuns(at'[q], e, m) => AtRuns(at[q], e, m)
    BY <1>3 DEF AtRuns, Working
  <2> QED BY <1>1, <2>1, Zenon DEF RunsIn
<1>7. RunsFit(rows', slot', at', epoch', stopped')
  BY <1>4, <1>6, EpochIn, RunsFewer
<1>8. \A q \in Process : at'[q].step # "admitted" /\ at'[q].step # "compacting"
  BY <1>2, <1>3 DEF Calm
<1>9. EpochParts(rows', slot', at', epoch', stopped')
  BY <1>3, <1>5, <1>7, <1>8 DEF EpochParts
<1> QED BY <1>9 DEF EpochInv

LEMMA EpochCancel ==
  ASSUME OrderlyEpochs, EpochInv, TypeOK', NEW p \in Process, Cancel(p)
  PROVE  EpochInv'
PROOF
<1>0. TypeOK /\ RowsFor(rows, sent) /\ rows \in Seq(Row)
  BY TypeFacts DEF EpochInv, RowsFor
<1>1. /\ at[p].step = "stopping" /\ Open(Process \ {p}) /\ rows' = Current(rows)
      /\ slot' = Flagged("external") /\ at' = [at EXCEPT ![p] = Resting]
      /\ epoch' = epoch /\ stopped' = stopped
  BY DEF Cancel, Stands
<1>2. \A q \in Process \ {p} : at[q].step \notin {"admitted", "stopping", "compacting"}
  BY <1>1, Alone
<1>3. at'[p] = Resting /\ \A q \in Process \ {p} : at'[q] = at[q]
  BY <1>0, <1>1, TypeFacts
<1>4. \A q \in Process : at'[q].step \notin {"admitted", "stopping", "compacting"}
  BY <1>2, <1>3, RestsFor
<1>5. DOMAIN rows' = {}
  <2>1. \A i \in DOMAIN rows : rows[i].epoch < epoch
    BY <1>1 DEF EpochInv, EpochParts
  <2> DEFINE S == {i \in DOMAIN rows : rows[i].epoch >= epoch}
  <2>2. \A i \in DOMAIN rows : rows[i].epoch \in Int /\ epoch \in Int
    <3>1. \A i \in DOMAIN rows : rows[i].epoch \in 0..MaxEpoch
      BY <1>0, RowFields
    <3> QED BY <3>1, EpochIn, BoundsAssumption DEF Epochs
  <2>3. S = {}
    BY <2>1, <2>2
  <2>4. rows' = Picked(rows, S)
    BY <1>1, Zenon DEF Current
  <2>5. \A i \in DOMAIN Picked(rows, {}) : \E k \in {} : Picked(rows, {})[i] = rows[k]
    BY <1>0, PickedRows
  <2> HIDE DEF S
  <2> QED BY <2>3, <2>4, <2>5
<1>6. /\ slot = None => slot' = None
      /\ slot # None => slot'.msgs = slot.msgs /\ slot'.epoch = slot.epoch /\ slot'.abort = "external"
  <2>1. slot = None \/ TurnFor(slot, sent)
    BY <1>0, TypeFacts
  <2> QED BY <1>1, <2>1, FlaggedTurn
<1>7. \A e \in Epochs, m \in Request : RunsIn(rows', slot', at', e, m) => RunsIn(rows, slot, at, e, m)
  <2>1. \A q \in Process : \A e, m : AtRuns(at'[q], e, m) => AtRuns(at[q], e, m)
    BY <1>3, RestsFor DEF AtRuns, Working
  <2>2. \A e, m : SlotRuns(slot', e, m) => SlotRuns(slot, e, m)
    BY <1>6 DEF SlotRuns
  <2>3. \A e, m : ~RowRuns(rows', e, m)
    BY <1>5 DEF RowRuns
  <2> QED BY <2>1, <2>2, <2>3, Zenon DEF RunsIn
<1>8. RunsFit(rows', slot', at', epoch', stopped')
  BY <1>1, <1>7, EpochIn, RunsFewer
<1>9. EpochParts(rows', slot', at', epoch', stopped')
  BY <1>4, <1>5, <1>6, <1>8 DEF EpochParts
<1> QED BY <1>9 DEF EpochInv

LEMMA EpochCompact ==
  ASSUME OrderlyEpochs, EpochInv, TypeOK', NEW p \in Process, Compact(p)
  PROVE  EpochInv'
PROOF
<1>0. TypeOK
  BY DEF EpochInv
<1>1. /\ Free(p) /\ at[p] = Resting /\ rows = <<>> /\ slot = None
      /\ at' = [at EXCEPT ![p].step = "compacting"]
      /\ rows' = rows /\ slot' = slot /\ epoch' = epoch /\ stopped' = stopped
  BY <1>0, FreeAt DEF Compact
<1>2. Calm(at) /\ \A q \in Process \ {p} : at[q].step # "admitted"
  BY <1>1, CalmAt
<1>3. at'[p].step = "compacting" /\ \A q \in Process \ {p} : at'[q] = at[q]
  BY <1>0, <1>1, TypeFacts
<1>4. DOMAIN rows' = {}
  BY <1>1
<1>5. \A e \in Epochs, m \in Request : RunsIn(rows', slot', at', e, m) => RunsIn(rows, slot, at, e, m)
  <2>1. \A q \in Process : \A e, m : AtRuns(at'[q], e, m) => AtRuns(at[q], e, m)
    BY <1>3 DEF AtRuns, Working
  <2> QED BY <1>1, <2>1, Zenon DEF RunsIn
<1>6. RunsFit(rows', slot', at', epoch', stopped')
  <2>1. epoch' = epoch /\ stopped' = stopped
    BY <1>1
  <2>2. epoch \in Epochs /\ epoch' \in Epochs /\ RunsFit(rows, slot, at, epoch, stopped)
    BY <2>1, EpochIn
  <2> QED BY <1>5, <2>1, <2>2, RunsFewer
<1>7. \A q \in Process : at'[q].step # "admitted" /\ at'[q].step # "stopping"
  BY <1>2, <1>3 DEF Calm
<1>8. EpochParts(rows', slot', at', epoch', stopped')
  BY <1>1, <1>4, <1>6, <1>7 DEF EpochParts
<1> QED BY <1>8 DEF EpochInv

LEMMA EpochCompactBegins ==
  ASSUME OrderlyEpochs, EpochInv, TypeOK', NEW p \in Process, CompactBegins(p)
  PROVE  EpochInv'
PROOF
<1>0. TypeOK
  BY DEF EpochInv
<1>1. /\ at[p].step = "compacting" /\ Open(Process \ {p}) /\ at' = [at EXCEPT ![p] = Resting]
      /\ rows' = rows /\ slot' = slot /\ stopped' = stopped
      /\ DOMAIN rows = {} /\ slot = None
  BY DEF CompactBegins, Stands, EpochInv, EpochParts
<1>2. epoch' = epoch \/ (epoch < MaxEpoch /\ epoch' = epoch + 1)
  BY EpochIn, BoundsAssumption DEF CompactBegins, Epochs
<1>3. epoch \in Epochs /\ epoch' \in Epochs /\ (epoch < epoch' \/ epoch' = epoch)
  BY <1>2, EpochIn, BoundsAssumption DEF Epochs
<1>4. \A q \in Process \ {p} : at[q].step \notin {"admitted", "stopping", "compacting"}
  BY <1>1, Alone
<1>5. at'[p] = Resting /\ \A q \in Process \ {p} : at'[q] = at[q]
  BY <1>0, <1>1, TypeFacts
<1>6. \A q \in Process : at'[q].step \notin {"admitted", "stopping", "compacting"}
  BY <1>4, <1>5, RestsFor
<1>7. \A e \in Epochs, m \in Request : RunsIn(rows', slot', at', e, m) => RunsIn(rows, slot, at, e, m)
  <2>1. \A q \in Process : \A e, m : AtRuns(at'[q], e, m) => AtRuns(at[q], e, m)
    BY <1>5, RestsFor DEF AtRuns, Working
  <2> QED BY <1>1, <2>1, Zenon DEF RunsIn
<1>8. RunsFit(rows', slot', at', epoch', stopped')
  BY <1>1, <1>3, <1>7, EpochIn, RunsFewer, ZenonT(60)
<1>9. EpochParts(rows', slot', at', epoch', stopped')
  BY <1>1, <1>6, <1>8 DEF EpochParts
<1> QED BY <1>9 DEF EpochInv

LEMMA EpochCrash ==
  ASSUME OrderlyEpochs, EpochInv, TypeOK', NEW p \in Process, Crash(p)
  PROVE  EpochInv'
PROOF
<1>0. TypeOK
  BY DEF EpochInv
<1>1. /\ at' = [at EXCEPT ![p] = Resting] /\ at[p].step # "stopping" /\ at[p].step # "compacting"
      /\ rows' = rows /\ slot' = slot /\ epoch' = epoch /\ stopped' = stopped
  BY DEF Crash, OrderlyEpochs
<1>2. at'[p] = Resting /\ \A q \in Process \ {p} : at'[q] = at[q]
  BY <1>0, <1>1, TypeFacts
<1>3. at'[p].step = "idle"
  BY <1>2, RestsFor
<1>4. \A e \in Epochs, m \in Request : RunsIn(rows', slot', at', e, m) => RunsIn(rows, slot, at, e, m)
  <2>1. \A q \in Process : \A e, m : AtRuns(at'[q], e, m) => AtRuns(at[q], e, m)
    BY <1>2, <1>3 DEF AtRuns, Working
  <2> QED BY <1>1, <2>1, Zenon DEF RunsIn
<1>5. RunsFit(rows', slot', at', epoch', stopped')
  BY <1>1, <1>4, EpochIn, RunsFewer
<1>6. (\A q \in Process : at'[q].step # "stopping") => (\A q \in Process : at[q].step # "stopping")
  BY <1>1, <1>2
<1>7. EpochParts(rows, slot, at, epoch, stopped)
  BY DEF EpochInv
<1>8. /\ (\A q \in Process : at'[q].step # "stopping") =>
           /\ \A i \in DOMAIN rows : rows[i].epoch = epoch
           /\ slot # None => slot.epoch = epoch \/ slot.abort = "external"
      /\ \A q \in Process :
           /\ at'[q].step = "admitted" => at'[q].row.epoch = epoch
           /\ at'[q].step = "compacting" => DOMAIN rows = {} /\ slot = None
           /\ at'[q].step = "stopping" => \A i \in DOMAIN rows : rows[i].epoch < epoch
  BY <1>2, <1>3, <1>6, <1>7 DEF EpochParts
<1>9. EpochParts(rows', slot', at', epoch', stopped')
  BY <1>1, <1>5, <1>8 DEF EpochParts
<1> QED BY <1>9 DEF EpochInv

LEMMA EpochNext == OrderlyEpochs /\ EpochInv /\ [Next]_vars => EpochInv'
PROOF
<1> SUFFICES ASSUME OrderlyEpochs, EpochInv, [Next]_vars PROVE EpochInv'
  OBVIOUS
<1>0. TypeOK'
  BY TypeNext DEF EpochInv
<1>1. CASE UNCHANGED vars
  BY <1>0, <1>1 DEF vars, EpochInv
<1>2. ASSUME NEW p \in Process, NEW a \in Actor, NEW t \in Thread, NEW steer \in BOOLEAN, Submit(p, a, t, steer)
      PROVE  EpochInv'
  BY <1>0, <1>2, EpochSubmit
<1>3. ASSUME NEW p \in Process, SteerQueued(p) \/ Claim(p) \/ Admit(p)
      PROVE  EpochInv'
  BY <1>0, <1>3, EpochSteerQueued, EpochClaim, EpochAdmit
<1>4. ASSUME NEW p \in Process, Take(p) \/ TakeFails(p) \/ Inject(p) \/ ProviderContent(p)
      PROVE  EpochInv'
  BY <1>0, <1>4, EpochWorker
<1>5. ASSUME NEW p \in Process, TurnEnds(p) \/ Settle(p) \/ SettleError(p) \/ FlagSteer(p)
      PROVE  EpochInv'
  BY <1>0, <1>5, EpochTurnEnds, EpochSettles
<1>6. ASSUME NEW p \in Process, Restart(p) \/ RestartDropped(p) \/ RestartFails(p)
      PROVE  EpochInv'
  BY <1>0, <1>6, EpochRetry
<1>7. ASSUME NEW p \in Process, Stop(p) \/ Cancel(p) \/ Compact(p) \/ CompactBegins(p) \/ Crash(p)
      PROVE  EpochInv'
  BY <1>0, <1>7, EpochStop, EpochCancel, EpochCompact, EpochCompactBegins, EpochCrash
<1>8. CASE ClaimAges \/ Unfence \/ LeaseExpires
  BY <1>0, <1>8, EpochClock
<1> QED BY <1>1, <1>2, <1>3, <1>4, <1>5, <1>6, <1>7, <1>8, Zenon DEF Next

LEMMA EpochInit == Init => EpochInv
PROOF
<1> SUFFICES ASSUME Init PROVE EpochInv
  OBVIOUS
<1>1. DOMAIN rows = {} /\ slot = None /\ \A p \in Process : at[p] = Resting
  BY DEF Init
<1>2. \A p \in Process : at[p].step = "idle"
  BY <1>1, RestsFor
<1>3. \A e, m : ~RunsIn(rows, slot, at, e, m)
  BY <1>1, <1>2 DEF RunsIn, RowRuns, SlotRuns, AtRuns, Working
<1>4. RunsFit(rows, slot, at, epoch, stopped)
  BY <1>3, Zenon DEF RunsFit
<1>5. EpochParts(rows, slot, at, epoch, stopped)
  BY <1>1, <1>2, <1>4 DEF EpochParts
<1> QED BY <1>5, TypeInit DEF EpochInv

LEMMA EpochHolds == OrderlyEpochs => (Spec => []EpochInv)
PROOF
<1> SUFFICES ASSUME OrderlyEpochs PROVE Spec => []EpochInv
  OBVIOUS
<1>1. EpochInv /\ [Next]_vars => EpochInv'
  BY EpochNext
<1> QED BY <1>1, EpochInit, PTL DEF Spec

(* No row is left behind by an epoch change, where nobody is let in between a   *)
(* worker's epoch check and its lease nor in the middle of a stop: whenever no *)
(* stop is on its way, every row is of the topic's epoch, and can be claimed   *)
(* (runtime-topic-state.ts, cancelRuntimeUserTurnRequestsBeforeEpoch).         *)
THEOREM NoRowIsStrandedHolds == OrderlyEpochs => (Spec => []NoRowIsStranded)
PROOF
<1> SUFFICES ASSUME OrderlyEpochs PROVE Spec => []NoRowIsStranded
  OBVIOUS
<1>1. EpochInv => NoRowIsStranded
  BY DEF EpochInv, EpochParts, NoRowIsStranded
<1> QED BY <1>1, EpochHolds, PTL

(* Once a stop has cancelled the queue, what it covered runs no further: a     *)
(* turn that carries a covered message has been told to abort.  Neither a      *)
(* merge, a steer, a retry, a requeue nor a crash brings such a message back   *)
(* into the current epoch.                                                     *)
THEOREM StoppedStaysStoppedHolds == OrderlyEpochs => (Spec => []StoppedStaysStopped)
PROOF
<1> SUFFICES ASSUME OrderlyEpochs PROVE Spec => []StoppedStaysStopped
  OBVIOUS
<1>1. EpochInv => StoppedStaysStopped
  <2> SUFFICES ASSUME EpochInv, slot # None, \A p \in Process : at[p].step # "stopping",
                      slot.abort # "external", NEW m \in ToSet(slot.msgs), m \in stopped
               PROVE  FALSE
    BY DEF StoppedStaysStopped
  <2>1. slot.epoch = epoch
    BY DEF EpochInv, EpochParts
  <2>2. epoch \in Epochs /\ RunsFit(rows, slot, at, epoch, stopped)
    BY EpochIn
  <2>3. m \in Request
    <3>1. slot \in Turn
      BY TypeFacts DEF EpochInv, TurnFor
    <3>2. slot.msgs \in Seq(Request)
      BY <3>1 DEF Turn
    <3> QED BY <3>2, Elements
  <2>4. RunsIn(rows, slot, at, epoch, m)
    <3>1. SlotRuns(slot, epoch, m)
      BY <2>1 DEF SlotRuns
    <3> QED BY <3>1, RunsKept
  <2> QED BY <2>2, <2>3, <2>4 DEF RunsFit
<1> QED BY <1>1, EpochHolds, PTL

-----------------------------------------------------------------------------
(* From here on no other process is let in between a worker's claim and its  *)
(* turn, nor between a steer and its abort, nor before a retry.  Then the     *)
(* branches in which a turn finds its room taken are never entered, and no   *)
(* message is lost, answered in disorder, or aborted for somebody else's.    *)

(* Others are let in only while a worker settles a turn. *)
Swift == Interleaved \subseteq {"completed", "error", "aborted"}

Still == {"idle", "completed", "error", "aborted"}

LEMMA SwiftIsOrderly == Swift => OrderlyEpochs
PROOF
  BY DEF Swift, OrderlyEpochs

LEMMA StillOthers ==
  ASSUME Swift, NEW P, Open(P)
  PROVE  \A q \in P : at[q].step \in Still
PROOF
<1> SUFFICES ASSUME NEW q \in P PROVE at[q].step \in Still
  OBVIOUS
<1>1. CASE at[q] = Resting
  <2>1. at[q].step = "idle"
    BY <1>1, RestsFor
  <2> QED BY <2>1 DEF Still
<1>2. CASE at[q].step \in Interleaved
  BY <1>2 DEF Swift, Still
<1> QED BY <1>1, <1>2 DEF Open

(* Whoever acts, everybody else rests or settles.                            *)
LEMMA OthersStill ==
  ASSUME Swift, NEW p \in Process, Free(p) \/ (\E s \in Step : Stands(p, s))
  PROVE  /\ \A q \in Process \ {p} : at[q].step \in Still
         /\ Free(p) => \A q \in Process : at[q].step \in Still
PROOF
<1>1. ASSUME Free(p) PROVE \A q \in Process : at[q].step \in Still
  BY <1>1, StillOthers DEF Free, Quiet
<1>2. ASSUME NEW s \in Step, Stands(p, s) PROVE \A q \in Process \ {p} : at[q].step \in Still
  BY <1>2, StillOthers DEF Stands
<1> QED BY <1>1, <1>2

-----------------------------------------------------------------------------
(* Lists of rows.                                                            *)

Alike(r, s) == r.id = s.id /\ r.msgs = s.msgs /\ r.actor = s.actor /\ r.thread = s.thread

(* Row k of t is row h[k] of rs; what is gone carried only messages of D.     *)
ShrinksBy(rs, t, D, h) ==
  /\ h \in [DOMAIN t -> DOMAIN rs]
  /\ \A i \in DOMAIN t : Alike(t[i], rs[h[i]])
  /\ \A i, j \in DOMAIN t : i < j => h[i] < h[j]
  /\ \A k \in DOMAIN rs : (\E i \in DOMAIN t : h[i] = k) \/ ToSet(rs[k].msgs) \subseteq D

Shrinks(rs, t, D) == \E h : ShrinksBy(rs, t, D, h)

LEMMA TouchedShrinks ==
  ASSUME NEW rs, NEW t, Touched(rs, t), NEW D
  PROVE  Shrinks(rs, t, D)
PROOF
<1> DEFINE h == [i \in DOMAIN t |-> i]
<1>1. DOMAIN t = DOMAIN rs /\ \A i \in DOMAIN t : Alike(t[i], rs[i])
  BY DEF Touched, Alike
<1>2. h \in [DOMAIN t -> DOMAIN rs] /\ \A i \in DOMAIN t : h[i] = i
  BY <1>1
<1> HIDE DEF h
<1>3. ShrinksBy(rs, t, D, h)
  BY <1>1, <1>2 DEF ShrinksBy
<1> QED BY <1>3 DEF Shrinks

LEMMA SameShrinks ==
  ASSUME NEW rs, NEW D
  PROVE  Shrinks(rs, rs, D)
PROOF
<1>1. Touched(rs, rs)
  BY DEF Touched
<1> QED BY <1>1, TouchedShrinks

LEMMA PickedShrinks ==
  ASSUME NEW rs, NEW st, RowsFor(rs, st), NEW S, S \subseteq DOMAIN rs, NEW D,
         \A k \in DOMAIN rs \ S : ToSet(rs[k].msgs) \subseteq D
  PROVE  Shrinks(rs, Picked(rs, S), D)
PROOF
<1> DEFINE t == Picked(rs, S)
<1>1. PICK h : Places(t, rs, S, h)
  BY PickedRows
<1>2. DOMAIN t = 1..Len(t)
  <2>1. RowsFor(t, st)
    BY PickedRows
  <2> QED BY <2>1 DEF RowsFor
<1> HIDE DEF t
<1>3. h \in [DOMAIN t -> DOMAIN rs]
  BY <1>1, <1>2 DEF Places
<1>4. \A i \in DOMAIN t : Alike(t[i], rs[h[i]])
  BY <1>1, <1>2 DEF Places, Alike
<1>5. \A k \in DOMAIN rs : (\E i \in DOMAIN t : h[i] = k) \/ ToSet(rs[k].msgs) \subseteq D
  BY <1>1, <1>2 DEF Places
<1>6. ShrinksBy(rs, t, D, h)
  BY <1>1, <1>2, <1>3, <1>4, <1>5 DEF Places, ShrinksBy
<1> QED BY <1>6 DEF Shrinks, t

(* Only the first row is claimed. *)
Foremost(rs) == \A i \in DOMAIN rs : rs[i].claim # None => i = 1

LEMMA PickedFirst ==
  ASSUME NEW rs, NEW st, RowsFor(rs, st), NEW S, S \subseteq DOMAIN rs, Foremost(rs)
  PROVE  Foremost(Picked(rs, S))
PROOF
<1> DEFINE t == Picked(rs, S)
<1>1. PICK h : Places(t, rs, S, h)
  BY PickedRows
<1>2. DOMAIN t = 1..Len(t) /\ Len(t) \in Nat
  <2>1. RowsFor(t, st)
    BY PickedRows
  <2> QED BY <2>1 DEF RowsFor
<1>3. DOMAIN rs = 1..Len(rs) /\ Len(rs) \in Nat
  BY DEF RowsFor
<1> HIDE DEF t
<1>4. ASSUME NEW i \in DOMAIN t, t[i].claim # None PROVE i = 1
  <2>1. h[i] = 1
    BY <1>1, <1>2, <1>4 DEF Places, Foremost
  <2>2. ASSUME i # 1 PROVE FALSE
    <3>1. 1 \in DOMAIN t /\ 1 < i
      BY <1>2, <2>2
    <3>2. h[1] < h[i] /\ h[1] \in 1..Len(rs)
      BY <1>1, <1>2, <1>3, <3>1 DEF Places
    <3> QED BY <2>1, <3>2, <1>3
  <2> QED BY <2>2
<1>5. Foremost(t)
  BY <1>4 DEF Foremost
<1> QED BY <1>5 DEF t

LEMMA MergedFirst ==
  ASSUME NEW rs, NEW st, RowsFor(rs, st), NEW new \in Row, NEW kept, NEW included,
         new.claim = None, Foremost(rs)
  PROVE  Foremost(Merge(rs, new, kept, included))
PROOF
<1> DEFINE t == Merge(rs, new, kept, included)
<1>1. PICK R, r : MergesTo(rs, new, kept, included, t, R, r)
  BY MergedList
<1> HIDE DEF t
<1> DEFINE S == DOMAIN rs \ Absorbed(rs, new, kept)
<1>2. PICK h : Places(R, rs, S, h)
  BY <1>1 DEF MergesTo
<1> HIDE DEF S
<1>3. S \subseteq DOMAIN rs /\ DOMAIN rs = 1..Len(rs) /\ Len(rs) \in Nat
  BY DEF RowsFor, S
<1>4. /\ DOMAIN R = 1..Len(R) /\ Len(R) \in Nat /\ DOMAIN t = 1..(Len(R) + 1)
      /\ \A i \in DOMAIN R : t[i] = R[i]
      /\ t[Len(R) + 1].claim = None
  BY <1>1 DEF MergesTo
<1>5. ASSUME NEW i \in DOMAIN t, t[i].claim # None PROVE i = 1
  <2>1. i \in DOMAIN R /\ t[i] = R[i]
    BY <1>4, <1>5
  <2>2. h[i] = 1
    BY <1>2, <1>3, <1>4, <1>5, <2>1 DEF Places, Foremost
  <2>3. ASSUME i # 1 PROVE FALSE
    <3>1. 1 \in DOMAIN R /\ 1 < i
      BY <1>4, <2>1, <2>3
    <3>2. h[1] < h[i] /\ h[1] \in 1..Len(rs)
      BY <1>2, <1>3, <1>4, <2>1, <3>1 DEF Places
    <3> QED BY <2>2, <3>2, <1>3
  <2> QED BY <2>3
<1>6. Foremost(t)
  BY <1>5 DEF Foremost
<1> QED BY <1>6 DEF t

LEMMA CompletedFirst ==
  ASSUME NEW rs, NEW st, RowsFor(rs, st), NEW id, NEW p, Foremost(rs)
  PROVE  Foremost(Complete(rs, id, p))
PROOF
<1> DEFINE S == {i \in DOMAIN rs : ~(rs[i].id = id /\ rs[i].claim = p)}
<1>1. S \subseteq DOMAIN rs /\ Complete(rs, id, p) = Picked(rs, S)
  BY Zenon DEF Complete
<1> HIDE DEF S
<1> QED BY <1>1, PickedFirst

LEMMA CurrentFirst ==
  ASSUME NEW rs, NEW st, RowsFor(rs, st), Foremost(rs)
  PROVE  Foremost(Current(rs))
PROOF
<1> DEFINE S == {i \in DOMAIN rs : rs[i].epoch >= epoch}
<1>1. S \subseteq DOMAIN rs /\ Current(rs) = Picked(rs, S)
  BY Zenon DEF Current
<1> HIDE DEF S
<1> QED BY <1>1, PickedFirst

LEMMA TouchedFirst ==
  ASSUME NEW rs, NEW t, Touched(rs, t), \A i \in DOMAIN rs : t[i].claim = rs[i].claim, Foremost(rs)
  PROVE  Foremost(t)
PROOF
  BY DEF Touched, Foremost

-----------------------------------------------------------------------------
(* The room.                                                                 *)

(* A worker on its way to its turn holds the first row, and finds the room     *)
(* free.                                                                     *)
Going ==
  \A p \in Process : at[p].step \in {"claimed", "admitted"} =>
    /\ slot = None /\ ~fence /\ at[p].row.epoch = epoch
    /\ 1 \in DOMAIN rows /\ at[p].row = rows[1] /\ rows[1].claim = p

(* So does a turn about to start again. *)
Retrying ==
  \A p \in Process : at[p].step = "retry" =>
    /\ slot = None /\ (at[p].row.epoch = epoch => ~fence)
    /\ \A i \in DOMAIN rows : rows[i].claim # None => rows[i].id = at[p].row.id

(* While a request runs, no other row is claimed. *)
Running ==
  slot # None =>
    /\ slot.epoch <= epoch /\ (slot.epoch = epoch => ~fence)
    /\ slot.id = None => slot.msgs = <<>>
    /\ slot.id # None => \A i \in DOMAIN rows : rows[i].claim # None => rows[i].id = slot.id

RoomParts == Foremost(rows) /\ Going /\ Retrying /\ Running

RoomInv == EpochInv /\ RoomParts

(* Nobody finds the room taken who was on the way to it. *)
LEMMA RoomIsFree ==
  ASSUME RoomParts, NEW p \in Process
  PROVE  /\ ~TakeFails(p) /\ ~RestartFails(p)
         /\ Stands(p, "claimed") => at[p].row.epoch = epoch
PROOF
  BY DEF RoomParts, Going, Retrying, TakeFails, RestartFails, Stands

NobodyWorks(a) == \A q \in Process : a[q].step \notin Working

LEMMA RoomStep ==
  ASSUME NobodyWorks(at'), Foremost(rows'), Running'
  PROVE  RoomParts'
PROOF
  BY DEF NobodyWorks, Working, RoomParts, Going, Retrying

LEMMA ComesStill ==
  ASSUME TypeOK, NEW p \in Process, \A q \in Process \ {p} : at[q].step \in Still,
         \/ at' = at /\ at[p].step \in Still
         \/ at' = [at EXCEPT ![p] = Resting]
         \/ \E s \in {"flagging", "stopping", "compacting"} : at' = [at EXCEPT ![p].step = s]
         \/ \E s \in {"completed", "error", "aborted"} : \E t : at' = [at EXCEPT ![p] = [step |-> s, row |-> t]]
  PROVE  NobodyWorks(at')
PROOF
<1>1. DOMAIN at = Process
  BY TypeFacts
<1>2. (\A q \in Process \ {p} : at'[q] = at[q]) /\ at'[p].step \notin Working
  <2>1. CASE at' = at /\ at[p].step \in Still
    BY <2>1 DEF Still, Working
  <2>2. CASE at' = [at EXCEPT ![p] = Resting]
    BY <1>1, <2>2, RestsFor DEF Working
  <2>3. ASSUME NEW s \in {"flagging", "stopping", "compacting"}, at' = [at EXCEPT ![p].step = s]
        PROVE  <1>2!:
    <3>1. Moves(at, at', p, [step |-> s, row |-> at[p].row])
      BY <2>3, StepsTo DEF Step
    <3> QED BY <1>1, <3>1 DEF Moves, Working
  <2>4. ASSUME NEW s \in {"completed", "error", "aborted"}, NEW t, at' = [at EXCEPT ![p] = [step |-> s, row |-> t]]
        PROVE  <1>2!:
    BY <1>1, <2>4 DEF Working
  <2> QED BY <2>1, <2>2, <2>3, <2>4
<1> QED BY <1>2 DEF NobodyWorks, Still, Working

LEMMA RunningKept ==
  ASSUME Running, epoch' = epoch, fence' = fence \/ ~fence',
         \/ ClaimsKept(rows, rows')
         \/ Touched(rows, rows') /\ \A i \in DOMAIN rows : rows'[i].claim = rows[i].claim,
         \/ slot' = None \/ slot' = slot
         \/ /\ slot # None /\ slot'.id = slot.id /\ slot'.msgs = slot.msgs /\ slot'.epoch = slot.epoch
  PROVE  Running'
PROOF
<1> SUFFICES ASSUME slot' # None PROVE Running'
  BY DEF Running
<1>1. slot # None /\ slot'.id = slot.id /\ slot'.msgs = slot.msgs /\ slot'.epoch = slot.epoch
  OBVIOUS
<1>2. \A i \in DOMAIN rows' : rows'[i].claim # None =>
        \E k \in DOMAIN rows : rows[k].id = rows'[i].id /\ rows[k].claim # None
  BY DEF ClaimsKept, Touched
<1> QED BY <1>1, <1>2 DEF Running

LEMMA FlaggedKeeps ==
  ASSUME TypeOK, NEW reason \in {"internal", "external"}, slot' = Flagged(reason)
  PROVE  \/ slot' = None /\ slot = None
         \/ /\ slot # None /\ slot' # None /\ slot'.id = slot.id /\ slot'.msgs = slot.msgs
            /\ slot'.epoch = slot.epoch /\ slot'.thread = slot.thread
            /\ slot'.abort = IF slot.abort = "external" THEN "external" ELSE reason
PROOF
  BY TypeFacts, FlaggedTurn

LEMMA RoomMints ==
  ASSUME Swift, RoomInv, TypeOK', NEW p \in Process,
         (\E a \in Actor, t \in Thread, steer \in BOOLEAN : Submit(p, a, t, steer)) \/ SteerQueued(p)
  PROVE  RoomParts'
PROOF
<1>0. TypeOK /\ RowsFor(rows, sent) /\ Foremost(rows) /\ Running
  BY TypeFacts DEF RoomInv, EpochInv, RoomParts
<1> SUFFICES ASSUME Free(p), NEW new \in Row, NEW kept, new.claim = None, new.fresh = FALSE,
                    rows' = Merge(rows, new, kept, {}),
                    at' = at \/ at' = [at EXCEPT ![p].step = "flagging"],
                    UNCHANGED <<epoch, fence, slot>>
             PROVE  RoomParts'
  <2>1. ASSUME NEW a \in Actor, NEW t \in Thread, NEW steer \in BOOLEAN, Submit(p, a, t, steer)
        PROVE  RoomParts'
    <3> DEFINE id == Len(sent) + 1
               new == Pending(id, <<id>>, a, t, epoch)
               kept == IF ~steer /\ HasActive THEN {Active.id} ELSE {}
    <3>1. /\ Free(p) /\ id \in Request /\ rows' = Merge(rows, new, kept, {})
          /\ sent' = Append(sent, [actor |-> a, thread |-> t, said |-> TRUE])
          /\ at' = at \/ at' = [at EXCEPT ![p].step = "flagging"]
          /\ UNCHANGED <<epoch, fence, slot>>
      BY <2>1, Zenon DEF Submit
    <3>2. new \in Row /\ new.claim = None /\ new.fresh = FALSE
      <4>1. RowFor(new, sent')
        BY <1>0, <3>1, SubmitRow
      <4> QED BY <4>1 DEF RowFor, Pending
    <3> HIDE DEF new, kept
    <3> QED BY <3>1, <3>2
  <2>2. CASE SteerQueued(p)
    <3> DEFINE latest == Last(rows)
               new == [Pending(Len(sent) + 1, <<>>, latest.actor, latest.thread, latest.epoch)
                         EXCEPT !.seen = latest.seen]
    <3>1. /\ Free(p) /\ RowFor(new, sent') /\ new.claim = None /\ new.fresh = FALSE
          /\ rows' = Merge(rows, new, {}, {})
          /\ at' = IF ActiveAt \in Absorbed(rows, new, {})
                   THEN [at EXCEPT ![p].step = "flagging"] ELSE at
          /\ UNCHANGED <<epoch, fence, slot>>
      BY <1>0, <2>2, SteerRow, Zenon
    <3>2. at' = at \/ at' = [at EXCEPT ![p].step = "flagging"]
      BY <3>1, Zenon
    <3> HIDE DEF new
    <3>3. new \in Row
      BY <3>1 DEF RowFor
    <3> QED BY <3>1, <3>2, <3>3
  <2> QED BY <2>1, <2>2
<1>1. \A q \in Process : at[q].step \in Still
  BY OthersStill
<1>2. NobodyWorks(at')
  BY <1>0, <1>1, ComesStill
<1>3. Foremost(rows')
  BY <1>0, MergedFirst
<1>4. ClaimsKept(rows, rows')
  BY <1>0, MergedClaims
<1> QED BY <1>0, <1>2, <1>3, <1>4, RunningKept, RoomStep

(* A worker claims the first row, since all rows are of the current epoch.     *)
LEMMA ClaimsFirst ==
  ASSUME Swift, RoomInv, NEW p \in Process, Claim(p)
  PROVE  /\ 1 \in DOMAIN rows /\ rows[1].epoch = epoch /\ slot = None /\ ~fence
         /\ Touched(rows, rows') /\ rows'[1].claim = p
         /\ \A j \in DOMAIN rows \ {1} : rows'[j] = rows[j]
         /\ at' = [at EXCEPT ![p] = [step |-> "claimed", row |-> rows'[1]]]
PROOF
<1>0. TypeOK /\ RowsFor(rows, sent)
  BY TypeFacts DEF RoomInv, EpochInv
<1>1. PICK i \in DOMAIN rows :
         /\ Claimable(rows[i]) /\ \A j \in 1..(i - 1) : ~Claimable(rows[j])
         /\ \A j \in DOMAIN rows \ {i} : rows'[j] = rows[j]
         /\ rows'[i].claim = p
         /\ at' = [at EXCEPT ![p] = [step |-> "claimed", row |-> rows'[i]]]
  BY <1>0, ClaimRows
<1>2. \A j \in DOMAIN rows : rows[j].epoch = epoch
  <2>1. Free(p)
    BY <1>0, ClaimRows
  <2>2. Calm(at)
    BY <2>1, CalmAt, SwiftIsOrderly
  <2> QED BY <2>2, EpochFacts DEF RoomInv
<1>3. DOMAIN rows = 1..Len(rows) /\ Len(rows) \in Nat
  BY <1>0 DEF RowsFor
<1>4. \A j, k \in DOMAIN rows : rows[j].id = rows[k].id => j = k
  BY <1>0 DEF RowsFor
<1>5. ASSUME i # 1 PROVE FALSE
  <2>1. 1 \in DOMAIN rows /\ 1 \in 1..(i - 1)
    BY <1>3, <1>5
  <2>2. ~Claimable(rows[1])
    BY <1>1, <2>1
  <2>3. \A j \in DOMAIN rows : rows[j].claim = None \/ ~rows[j].fresh
    BY <1>1, <1>4 DEF Claimable
  <2> QED BY <1>1, <1>2, <2>1, <2>2, <2>3 DEF Claimable
<1>6. Touched(rows, rows')
  BY <1>0, ClaimRows
<1> QED BY <1>1, <1>2, <1>5, <1>6 DEF Claimable

LEMMA RoomClaim ==
  ASSUME Swift, RoomInv, TypeOK', NEW p \in Process, Claim(p)
  PROVE  RoomParts'
PROOF
<1>0. TypeOK /\ RowsFor(rows, sent) /\ Foremost(rows) /\ Free(p)
  BY TypeFacts, ClaimRows DEF RoomInv, EpochInv, RoomParts
<1>1. /\ 1 \in DOMAIN rows /\ rows[1].epoch = epoch /\ slot = None /\ ~fence
      /\ Touched(rows, rows') /\ rows'[1].claim = p
      /\ \A j \in DOMAIN rows \ {1} : rows'[j] = rows[j]
      /\ at' = [at EXCEPT ![p] = [step |-> "claimed", row |-> rows'[1]]]
  BY ClaimsFirst
<1>2. slot' = slot /\ fence' = fence /\ epoch' = epoch
  BY <1>0, ClaimRows
<1>3. DOMAIN rows' = DOMAIN rows /\ rows'[1].epoch = rows[1].epoch
  BY <1>1 DEF Touched
<1>4. Foremost(rows')
  BY <1>0, <1>1, <1>3 DEF Foremost
<1>5. /\ at'[p] = [step |-> "claimed", row |-> rows'[1]]
      /\ \A q \in Process \ {p} : at'[q] = at[q] /\ at[q].step \in Still
  BY <1>0, <1>1, TypeFacts, OthersStill
<1>6. at'[p].step = "claimed" /\ at'[p].row = rows'[1]
  BY <1>5
<1>7. Going'
  BY <1>1, <1>2, <1>3, <1>5, <1>6 DEF Going, Still
<1>8. Retrying'
  BY <1>5, <1>6 DEF Retrying, Still
<1>9. Running'
  BY <1>1, <1>2 DEF Running
<1> QED BY <1>4, <1>7, <1>8, <1>9 DEF RoomParts

LEMMA RoomWorker ==
  ASSUME Swift, RoomInv, TypeOK', NEW p \in Process, Admit(p) \/ Take(p) \/ TakeFails(p)
  PROVE  RoomParts'
PROOF
<1>0. TypeOK /\ RowsFor(rows, sent) /\ Foremost(rows) /\ Going /\ Running
  BY TypeFacts DEF RoomInv, EpochInv, RoomParts
<1>1. ~TakeFails(p) /\ (Stands(p, "claimed") => at[p].row.epoch = epoch)
  BY RoomIsFree DEF RoomInv
<1>2. \A q \in Process \ {p} : at[q].step \in Still
  BY OthersStill DEF Admit, Take, TakeFails, Step
<1>3. CASE Admit(p)
  <2>1. /\ at' = [at EXCEPT ![p].step = "admitted"] /\ at[p].step = "claimed"
        /\ rows' = rows /\ UNCHANGED <<slot, epoch, fence>>
    BY <1>1, <1>3 DEF Admit, Stands
  <2>2. Moves(at, at', p, [step |-> "admitted", row |-> at[p].row])
    BY <1>0, <2>1, StepsTo DEF Step
  <2>3. /\ at'[p].step = "admitted" /\ at'[p].row = at[p].row
        /\ \A q \in Process \ {p} : at'[q] = at[q]
    BY <1>0, <2>2, TypeFacts DEF Moves
  <2>4. Going'
    BY <1>0, <1>2, <2>1, <2>3 DEF Going, Still
  <2>5. Retrying'
    BY <1>2, <2>3 DEF Retrying, Still
  <2>6. Running'
    BY <1>0, <2>1 DEF Running
  <2> QED BY <1>0, <2>1, <2>4, <2>5, <2>6 DEF RoomParts
<1>4. CASE Take(p)
  <2>1. /\ Stands(p, "admitted") /\ slot = None /\ fence = FALSE
        /\ slot'.id = at[p].row.id /\ slot'.epoch = at[p].row.epoch /\ at[p].row \in Row
        /\ RowsFor(rows', sent) /\ Touched(rows, rows')
        /\ \A i \in DOMAIN rows : rows'[i] = rows[i] \/ (rows[i].claim = p /\ rows'[i].claim = p)
        /\ at' = [at EXCEPT ![p] = Resting]
        /\ UNCHANGED <<epoch, fence>>
    BY <1>0, <1>4, TakeParts
  <2>2. /\ 1 \in DOMAIN rows /\ at[p].row = rows[1] /\ at[p].row.epoch = epoch
    BY <1>0, <2>1 DEF Going, Stands
  <2>3. DOMAIN rows' = DOMAIN rows /\ \A i \in DOMAIN rows : rows'[i].claim = rows[i].claim /\ rows'[i].id = rows[i].id
    BY <2>1 DEF Touched
  <2>4. Foremost(rows')
    BY <1>0, <2>1, <2>3, TouchedFirst
  <2>5. slot'.id # None
    BY <2>1, RowFields, NoneAssumption
  <2>6. epoch \in Int
    BY <1>0, TypeFacts DEF Counted
  <2>7. Running'
    BY <1>0, <2>1, <2>2, <2>3, <2>5, <2>6 DEF Running, Foremost
  <2>8. NobodyWorks(at')
    BY <1>0, <1>2, <2>1, ComesStill
  <2> QED BY <2>4, <2>7, <2>8, RoomStep
<1> QED BY <1>1, <1>3, <1>4

LEMMA RoomTurn ==
  ASSUME Swift, RoomInv, TypeOK', NEW p \in Process,
         Inject(p) \/ ProviderContent(p) \/ TurnEnds(p) \/ Settle(p) \/ SettleError(p)
  PROVE  RoomParts'
PROOF
<1>0. TypeOK /\ RowsFor(rows, sent) /\ Foremost(rows) /\ Running
  BY TypeFacts DEF RoomInv, EpochInv, RoomParts
<1>1. \A q \in Process \ {p} : at[q].step \in Still
  BY OthersStill DEF Inject, ProviderContent, TurnEnds, Settle, SettleError, Step
<1>2. Free(p) => at[p].step \in Still
  BY OthersStill
<1>3. CASE Inject(p)
  <2>1. /\ slot'.id = None /\ slot'.msgs = <<>> /\ slot'.epoch = epoch
        /\ fence = FALSE /\ Free(p) /\ UNCHANGED <<rows, epoch, fence, at>>
    BY <1>0, <1>3, InjectTurn
  <2>2. epoch \in Int
    BY <1>0, TypeFacts DEF Counted
  <2>3. Running'
    BY <2>1, <2>2 DEF Running
  <2>4. NobodyWorks(at')
    BY <1>0, <1>1, <1>2, <2>1, ComesStill
  <2> QED BY <1>0, <2>1, <2>3, <2>4, RoomStep
<1>4. CASE ProviderContent(p)
  <2>1. /\ Free(p) /\ at' = at /\ Touched(rows, rows') /\ UNCHANGED <<epoch, fence, slot>>
        /\ \A i \in DOMAIN rows : rows'[i].claim = rows[i].claim /\ rows'[i].fresh = rows[i].fresh
    BY <1>0, <1>4, ContentRows
  <2>2. ClaimsKept(rows, rows')
    BY <2>1, TouchedClaims DEF Touched
  <2>3. Foremost(rows')
    BY <1>0, <2>1, TouchedFirst
  <2>4. NobodyWorks(at')
    BY <1>0, <1>1, <1>2, <2>1, ComesStill
  <2> QED BY <1>0, <2>1, <2>2, <2>3, <2>4, RunningKept, RoomStep
<1>5. CASE TurnEnds(p)
  <2>1. /\ Free(p) /\ slot # None /\ slot' = None /\ UNCHANGED <<rows, epoch, fence>>
        /\ \/ at' = at
           \/ slot.id # None /\ \E kind \in {"completed", "error", "aborted", "retry"} :
                at' = [at EXCEPT ![p] = [step |-> kind, row |-> slot]]
    BY <1>0, <1>5, TurnEndsParts
  <2>2. Running'
    BY <2>1 DEF Running
  <2>3. CASE at' = at \/ \E kind \in {"completed", "error", "aborted"} :
                at' = [at EXCEPT ![p] = [step |-> kind, row |-> slot]]
    <3>1. NobodyWorks(at')
      BY <1>0, <1>1, <1>2, <2>1, <2>3, ComesStill
    <3> QED BY <1>0, <2>1, <2>2, <3>1, RoomStep
  <2>4. CASE slot.id # None /\ at' = [at EXCEPT ![p] = [step |-> "retry", row |-> slot]]
    <3>1. /\ at'[p] = [step |-> "retry", row |-> slot]
          /\ \A q \in Process \ {p} : at'[q] = at[q]
      BY <1>0, <2>4, TypeFacts
    <3>2. at'[p].step = "retry" /\ at'[p].row = slot
      BY <3>1
    <3>3. Going'
      BY <1>1, <3>1, <3>2 DEF Going, Still
    <3>4. Retrying'
      BY <1>0, <1>1, <2>1, <2>4, <3>1, <3>2 DEF Retrying, Running, Still
    <3> QED BY <1>0, <2>1, <2>2, <3>3, <3>4 DEF RoomParts
  <2> QED BY <2>1, <2>3, <2>4
<1>6. CASE Settle(p) \/ SettleError(p)
  <2>1. PICK id, q : rows' = Complete(rows, id, q)
    BY <1>6 DEF Settle, SettleError
  <2>2. UNCHANGED <<slot, epoch, fence>>
    BY <1>6 DEF Settle, SettleError
  <2>3. at' = [at EXCEPT ![p] = Resting] \/ (at' = at /\ Free(p))
    BY <1>6 DEF Settle, SettleError
  <2>4. ClaimsKept(rows, rows') /\ Foremost(rows')
    BY <1>0, <2>1, CompletedClaims, CompletedFirst
  <2>5. NobodyWorks(at')
    BY <1>0, <1>1, <1>2, <2>3, ComesStill
  <2> QED BY <1>0, <2>2, <2>4, <2>5, RunningKept, RoomStep
<1> QED BY <1>3, <1>4, <1>5, <1>6

LEMMA RoomRetry ==
  ASSUME Swift, RoomInv, TypeOK', NEW p \in Process,
         Restart(p) \/ RestartDropped(p) \/ RestartFails(p)
  PROVE  RoomParts'
PROOF
<1>0. TypeOK /\ RowsFor(rows, sent) /\ Foremost(rows) /\ Retrying /\ Running
  BY TypeFacts DEF RoomInv, EpochInv, RoomParts
<1>1. ~RestartFails(p)
  BY RoomIsFree DEF RoomInv
<1>2. \A q \in Process \ {p} : at[q].step \in Still
  BY OthersStill DEF Restart, RestartDropped, RestartFails, Step
<1>3. CASE Restart(p)
  <2> DEFINE t == at[p].row
  <2>1. /\ Stands(p, "retry") /\ t.epoch = epoch /\ slot = None /\ ~fence
        /\ slot' = Started(p, t, Main) /\ rows' = rows /\ UNCHANGED <<epoch, fence>>
        /\ at' = [at EXCEPT ![p] = Resting]
    BY <1>3 DEF Restart
  <2>2. at[p].step = "retry" /\ t \in Turn /\ Carries(t, sent) /\ t.id # None
    BY <1>0, <2>1, RetryTurn DEF Stands
  <2>3. slot'.id = t.id /\ slot'.epoch = t.epoch
    BY <2>1 DEF Started
  <2>4. epoch \in Int
    BY <1>0, TypeFacts DEF Counted
  <2>5. Running'
    BY <1>0, <2>1, <2>2, <2>3, <2>4 DEF Running, Retrying
  <2>6. NobodyWorks(at')
    BY <1>0, <1>2, <2>1, ComesStill
  <2> QED BY <1>0, <2>1, <2>5, <2>6, RoomStep
<1>4. CASE RestartDropped(p)
  <2>1. /\ rows' = Complete(rows, at[p].row.id, p) /\ at' = [at EXCEPT ![p] = Resting]
        /\ UNCHANGED <<slot, epoch, fence>>
    BY <1>4 DEF RestartDropped
  <2>2. ClaimsKept(rows, rows') /\ Foremost(rows')
    BY <1>0, <2>1, CompletedClaims, CompletedFirst
  <2>3. NobodyWorks(at')
    BY <1>0, <1>2, <2>1, ComesStill
  <2> QED BY <1>0, <2>1, <2>2, <2>3, RunningKept, RoomStep
<1> QED BY <1>1, <1>3, <1>4

LEMMA RoomEpochs ==
  ASSUME Swift, RoomInv, TypeOK', NEW p \in Process,
         Stop(p) \/ Cancel(p) \/ Compact(p) \/ CompactBegins(p)
  PROVE  RoomParts'
PROOF
<1>0. TypeOK /\ RowsFor(rows, sent) /\ Foremost(rows) /\ Running
  BY TypeFacts DEF RoomInv, EpochInv, RoomParts
<1>1. \A q \in Process \ {p} : at[q].step \in Still
  BY OthersStill DEF Stop, Cancel, Compact, CompactBegins, Step
<1>2. epoch \in Int
  BY <1>0, TypeFacts DEF Counted
<1>3. CASE Stop(p)
  <2>1. /\ epoch' = epoch + 1 /\ UNCHANGED <<rows, slot>>
        /\ at' = [at EXCEPT ![p].step = "stopping"]
    BY <1>3 DEF Stop
  <2>2. slot # None => slot.epoch \in Int
    BY <1>0, TypeFacts DEF TurnFor, Turn
  <2>3. Running'
    BY <1>0, <1>2, <2>1, <2>2 DEF Running
  <2>4. NobodyWorks(at')
    BY <1>0, <1>1, <2>1, ComesStill
  <2> QED BY <1>0, <2>1, <2>3, <2>4, RoomStep
<1>4. CASE Cancel(p)
  <2>1. /\ rows' = Current(rows) /\ slot' = Flagged("external") /\ at' = [at EXCEPT ![p] = Resting]
        /\ UNCHANGED <<epoch, fence>>
    BY <1>4 DEF Cancel
  <2>2. ClaimsKept(rows, rows') /\ Foremost(rows')
    BY <1>0, <2>1, CurrentClaims, CurrentFirst
  <2>3. Running'
    BY <1>0, <2>1, <2>2, FlaggedKeeps, RunningKept
  <2>4. NobodyWorks(at')
    BY <1>0, <1>1, <2>1, ComesStill
  <2> QED BY <2>2, <2>3, <2>4, RoomStep
<1>5. CASE Compact(p)
  <2>1. UNCHANGED <<rows, slot, epoch, fence>> /\ at' = [at EXCEPT ![p].step = "compacting"]
    BY <1>5 DEF Compact
  <2>2. Running'
    BY <1>0, <2>1 DEF Running
  <2>3. NobodyWorks(at')
    BY <1>0, <1>1, <2>1, ComesStill
  <2> QED BY <1>0, <2>1, <2>2, <2>3, RoomStep
<1>6. CASE CompactBegins(p)
  <2>1. UNCHANGED <<rows, slot>> /\ at' = [at EXCEPT ![p] = Resting] /\ at[p].step = "compacting"
    BY <1>6 DEF CompactBegins, Stands
  <2>2. slot = None
    BY <2>1 DEF RoomInv, EpochInv, EpochParts
  <2>3. Running'
    BY <2>1, <2>2 DEF Running
  <2>4. NobodyWorks(at')
    BY <1>0, <1>1, <2>1, ComesStill
  <2> QED BY <1>0, <2>1, <2>3, <2>4, RoomStep
<1> QED BY <1>3, <1>4, <1>5, <1>6

LEMMA RoomOthers ==
  ASSUME Swift, RoomInv, TypeOK', NEW p \in Process, FlagSteer(p) \/ Crash(p)
  PROVE  RoomParts'
PROOF
<1>0. TypeOK /\ Foremost(rows) /\ Going /\ Retrying /\ Running
  BY DEF RoomInv, EpochInv, RoomParts
<1>1. at' = [at EXCEPT ![p] = Resting] /\ UNCHANGED <<rows, epoch, fence>>
  BY DEF FlagSteer, Crash
<1>2. at'[p].step = "idle" /\ \A q \in Process \ {p} : at'[q] = at[q]
  BY <1>0, <1>1, TypeFacts, RestsFor
<1>3. CASE FlagSteer(p)
  <2>1. slot' = Flagged("internal")
    BY <1>3 DEF FlagSteer
  <2>2. ClaimsKept(rows, rows')
    BY <1>1, SameClaims
  <2>3. Running'
    BY <1>0, <1>1, <2>1, <2>2, FlaggedKeeps, RunningKept
  <2>4. \A q \in Process \ {p} : at[q].step \in Still
    BY <1>3, OthersStill DEF FlagSteer, Step
  <2>5. NobodyWorks(at')
    BY <1>0, <1>1, <2>4, ComesStill
  <2> QED BY <1>0, <1>1, <2>3, <2>5, RoomStep
<1>4. CASE Crash(p)
  <2>1. slot' = slot
    BY <1>4 DEF Crash
  <2>2. Going' /\ Retrying' /\ Running'
    BY <1>0, <1>1, <1>2, <2>1 DEF Going, Retrying, Running
  <2> QED BY <1>0, <1>1, <2>2 DEF RoomParts
<1> QED BY <1>3, <1>4

LEMMA RoomClock ==
  ASSUME Swift, RoomInv, TypeOK', ClaimAges \/ Unfence \/ LeaseExpires
  PROVE  RoomParts'
PROOF
<1>0. TypeOK /\ Foremost(rows) /\ Running
  BY DEF RoomInv, EpochInv, RoomParts
<1>1. Quiet /\ at' = at /\ epoch' = epoch
  BY <1>0, AgedRows DEF Unfence, LeaseExpires, ClaimAges
<1>2. NobodyWorks(at')
  <2>1. \A q \in Process : at[q].step \in Still
    BY <1>1, StillOthers DEF Quiet
  <2> QED BY <1>1, <2>1 DEF NobodyWorks, Still, Working
<1>3. /\ Foremost(rows')
      /\ Touched(rows, rows') /\ \A i \in DOMAIN rows : rows'[i].claim = rows[i].claim
  <2>1. CASE ClaimAges
    <3>1. /\ Touched(rows, rows')
          /\ \A i \in DOMAIN rows : rows'[i].claim = rows[i].claim
      BY <1>0, <2>1, AgedRows
    <3> QED BY <1>0, <3>1, TouchedFirst
  <2>2. CASE Unfence \/ LeaseExpires
    <3>1. rows' = rows
      BY <2>2 DEF Unfence, LeaseExpires
    <3> QED BY <1>0, <3>1 DEF Touched
  <2> QED BY <2>1, <2>2
<1>4. (fence' = fence \/ ~fence') /\ (slot' = None \/ slot' = slot)
  BY DEF ClaimAges, Unfence, LeaseExpires
<1>5. Running'
  BY <1>0, <1>1, <1>3, <1>4, RunningKept
<1> QED BY <1>2, <1>3, <1>5, RoomStep

LEMMA RoomNext == Swift /\ RoomInv /\ [Next]_vars => RoomInv'
PROOF
<1> SUFFICES ASSUME Swift, RoomInv, [Next]_vars PROVE RoomInv'
  OBVIOUS
<1>0. EpochInv' /\ TypeOK'
  BY EpochNext, SwiftIsOrderly DEF RoomInv, EpochInv
<1> SUFFICES RoomParts'
  BY <1>0 DEF RoomInv
<1>1. CASE UNCHANGED vars
  BY <1>1 DEF vars, RoomInv, RoomParts, Foremost, Going, Retrying, Running
<1>2. ASSUME NEW p \in Process,
             (\E a \in Actor, t \in Thread, steer \in BOOLEAN : Submit(p, a, t, steer)) \/ SteerQueued(p)
      PROVE  RoomParts'
  BY <1>0, <1>2, RoomMints
<1>3. ASSUME NEW p \in Process, Claim(p) PROVE RoomParts'
  BY <1>0, <1>3, RoomClaim
<1>4. ASSUME NEW p \in Process, Admit(p) \/ Take(p) \/ TakeFails(p) PROVE RoomParts'
  BY <1>0, <1>4, RoomWorker
<1>5. ASSUME NEW p \in Process,
             Inject(p) \/ ProviderContent(p) \/ TurnEnds(p) \/ Settle(p) \/ SettleError(p)
      PROVE  RoomParts'
  BY <1>0, <1>5, RoomTurn
<1>6. ASSUME NEW p \in Process, Restart(p) \/ RestartDropped(p) \/ RestartFails(p)
      PROVE  RoomParts'
  BY <1>0, <1>6, RoomRetry
<1>7. ASSUME NEW p \in Process, Stop(p) \/ Cancel(p) \/ Compact(p) \/ CompactBegins(p)
      PROVE  RoomParts'
  BY <1>0, <1>7, RoomEpochs
<1>8. ASSUME NEW p \in Process, FlagSteer(p) \/ Crash(p) PROVE RoomParts'
  BY <1>0, <1>8, RoomOthers
<1>9. CASE ClaimAges \/ Unfence \/ LeaseExpires
  BY <1>0, <1>9, RoomClock
<1> QED BY <1>1, <1>2, <1>3, <1>4, <1>5, <1>6, <1>7, <1>8, <1>9, Zenon DEF Next

LEMMA RoomInit == Init => RoomInv
PROOF
<1> SUFFICES ASSUME Init PROVE RoomInv
  OBVIOUS
<1>1. DOMAIN rows = {} /\ slot = None /\ \A p \in Process : at[p].step = "idle"
  BY RestsFor DEF Init
<1> QED BY <1>1, EpochInit DEF RoomInv, RoomParts, Foremost, Going, Retrying, Running

-----------------------------------------------------------------------------
(* Messages.                                                                 *)

Over == answered \cup stopped

(* The messages M are done with, or in a row other than id.                  *)
Elsewhere(rs, id, M, D) ==
  \A m \in M : m \in D \/ \E i \in DOMAIN rs : rs[i].id # id /\ m \in ToSet(rs[i].msgs)

(* No message is in two rows. *)
Apart(rs) ==
  \A i, j \in DOMAIN rs : ToSet(rs[i].msgs) \cap ToSet(rs[j].msgs) # {} => i = j

(* The turns that run, or will be settled, started or run again.              *)
InHand(sl, se, a) == {t \in {sl} \cup se \cup {a[p].row : p \in Process} : t # None}

Agreeing(rs, T) == \A t \in T, i \in DOMAIN rs : rs[i].id = t.id => rs[i].msgs = t.msgs

(* From rs to t no message is lost but to D, none gets into two rows, and a row *)
(* whose id is in K is one of rs.                                            *)
Conserves(rs, t, K, D) ==
  /\ \A i \in DOMAIN rs : \A m \in ToSet(rs[i].msgs) :
       m \in D \/ \E k \in DOMAIN t : m \in ToSet(t[k].msgs) /\ (t[k].id = rs[i].id \/ t[k].id \notin K)
  /\ \A k \in DOMAIN t :
       \/ \E i \in DOMAIN rs : t[k].id = rs[i].id /\ t[k].msgs = rs[i].msgs
       \/ /\ t[k].id \notin K
          /\ \A m \in ToSet(t[k].msgs) :
               m \notin K \/ \E i \in DOMAIN rs : m \in ToSet(rs[i].msgs) /\ rs[i].id \notin Ids(t)
  /\ \A j, k \in DOMAIN t : t[j].id \notin K /\ t[k].id \notin K => j = k

LEMMA ShrinksConserves ==
  ASSUME NEW rs, NEW st, RowsFor(rs, st), NEW t, NEW D, Shrinks(rs, t, D)
  PROVE  Conserves(rs, t, DOMAIN st, D)
PROOF
<1>1. PICK h : ShrinksBy(rs, t, D, h)
  BY DEF Shrinks
<1>2. \A k \in DOMAIN t : h[k] \in DOMAIN rs /\ t[k].id = rs[h[k]].id /\ t[k].msgs = rs[h[k]].msgs
  BY <1>1 DEF ShrinksBy, Alike
<1>3. \A k \in DOMAIN t : t[k].id \in DOMAIN st
  BY <1>2 DEF RowsFor, RowFor
<1>4. ASSUME NEW i \in DOMAIN rs, NEW m \in ToSet(rs[i].msgs), m \notin D
      PROVE  \E k \in DOMAIN t : m \in ToSet(t[k].msgs) /\ t[k].id = rs[i].id
  <2>1. PICK k \in DOMAIN t : h[k] = i
    BY <1>1, <1>4 DEF ShrinksBy
  <2> QED BY <1>2, <1>4, <2>1
<1> QED BY <1>2, <1>3, <1>4 DEF Conserves

LEMMA ConservedApart ==
  ASSUME NEW rs, NEW st, RowsFor(rs, st), NEW t, NEW D, Conserves(rs, t, DOMAIN st, D), Apart(rs),
         \A i, j \in DOMAIN t : t[i].id = t[j].id => i = j
  PROVE  Apart(t)
PROOF
<1> DEFINE Old(k, i) == t[k].id = rs[i].id /\ t[k].msgs = rs[i].msgs
           New(k) == /\ t[k].id \notin DOMAIN st
                     /\ \A m \in ToSet(t[k].msgs) : m \notin DOMAIN st
                          \/ \E i \in DOMAIN rs : m \in ToSet(rs[i].msgs) /\ rs[i].id \notin Ids(t)
<1>1. \A k \in DOMAIN t : New(k) \/ \E i \in DOMAIN rs : Old(k, i)
  BY DEF Conserves
<1>2. \A i \in DOMAIN rs : \A m \in ToSet(rs[i].msgs) : m \in DOMAIN st
  BY DEF RowsFor, RowFor, SaidIn
<1>3. ASSUME NEW j \in DOMAIN t, NEW k \in DOMAIN t, NEW m \in ToSet(t[j].msgs) \cap ToSet(t[k].msgs),
             NEW i \in DOMAIN rs, Old(j, i), New(k)
      PROVE  FALSE
  <2>1. m \in ToSet(rs[i].msgs) /\ m \in DOMAIN st
    BY <1>2, <1>3
  <2>2. PICK l \in DOMAIN rs : m \in ToSet(rs[l].msgs) /\ rs[l].id \notin Ids(t)
    BY <1>3, <2>1
  <2>3. l = i
    BY <2>1, <2>2 DEF Apart
  <2> QED BY <1>3, <2>2, <2>3 DEF Ids
<1>4. ASSUME NEW j \in DOMAIN t, NEW k \in DOMAIN t, NEW m \in ToSet(t[j].msgs) \cap ToSet(t[k].msgs)
      PROVE  j = k
  <2>1. CASE New(j) /\ New(k)
    BY <2>1 DEF Conserves
  <2>2. ASSUME NEW i \in DOMAIN rs, NEW l \in DOMAIN rs, Old(j, i), Old(k, l) PROVE j = k
    <3>1. m \in ToSet(rs[i].msgs) \cap ToSet(rs[l].msgs)
      BY <2>2
    <3>2. i = l
      BY <3>1 DEF Apart
    <3> QED BY <2>2, <3>2
  <2> QED BY <1>1, <1>3, <2>1, <2>2
<1> HIDE DEF Old, New
<1> QED BY <1>4 DEF Apart

LEMMA ConservedElsewhere ==
  ASSUME NEW rs, NEW st, NEW t, RowsFor(t, st), NEW K, NEW D, NEW E, D \subseteq E,
         Conserves(rs, t, K, E), NEW id \in K \cup {None}, NEW M, Elsewhere(rs, id, M, D)
  PROVE  Elsewhere(t, id, M, E)
PROOF
<1> SUFFICES ASSUME NEW m \in M, m \notin E
             PROVE  \E k \in DOMAIN t : t[k].id # id /\ m \in ToSet(t[k].msgs)
  BY DEF Elsewhere
<1>1. PICK i \in DOMAIN rs : rs[i].id # id /\ m \in ToSet(rs[i].msgs)
  BY DEF Elsewhere
<1>2. PICK k \in DOMAIN t : m \in ToSet(t[k].msgs) /\ (t[k].id = rs[i].id \/ t[k].id \notin K)
  BY <1>1 DEF Conserves
<1>3. t[k].id # None
  <2>1. t[k] \in Row
    BY DEF RowsFor, RowFor
  <2> QED BY <2>1, RowFields, NoneAssumption
<1> QED BY <1>1, <1>2, <1>3

LEMMA ConservedAgreeing ==
  ASSUME NEW rs, NEW st, NEW t, RowsFor(t, st), NEW K, NEW D, Conserves(rs, t, K, D),
         NEW u, u.id \in K \cup {None}, Agreeing(rs, {u})
  PROVE  Agreeing(t, {u})
PROOF
<1> SUFFICES ASSUME NEW k \in DOMAIN t, t[k].id = u.id PROVE t[k].msgs = u.msgs
  BY DEF Agreeing
<1>1. t[k].id # None
  <2>1. t[k] \in Row
    BY DEF RowsFor, RowFor
  <2> QED BY <2>1, RowFields, NoneAssumption
<1>2. PICK i \in DOMAIN rs : t[k].id = rs[i].id /\ t[k].msgs = rs[i].msgs
  BY <1>1 DEF Conserves
<1> QED BY <1>2 DEF Agreeing

LEMMA ConservedAll ==
  ASSUME NEW rs, NEW t, NEW K, NEW D, Conserves(rs, t, K, D)
  PROVE  MsgsOf(rs) \subseteq MsgsOf(t) \cup D
PROOF
<1> SUFFICES ASSUME NEW m \in MsgsOf(rs), m \notin D PROVE m \in MsgsOf(t)
  OBVIOUS
<1>1. PICK i \in DOMAIN rs : m \in ToSet(rs[i].msgs)
  BY DEF MsgsOf
<1>2. PICK k \in DOMAIN t : m \in ToSet(t[k].msgs)
  BY <1>1 DEF Conserves
<1> QED BY <1>2 DEF MsgsOf

-----------------------------------------------------------------------------
(* A message, or a steer of what waits, becomes a row.                        *)
Mints(p, new, kept, R, r) ==
  /\ Free(p)
  /\ new \in Row /\ new.id = Len(sent) + 1 /\ new.id \notin DOMAIN sent
  /\ DOMAIN sent' = DOMAIN sent \cup {new.id} /\ Longer(sent, sent')
  /\ sent'[new.id].actor = new.actor /\ sent'[new.id].thread = new.thread
  /\ new.msgs \in {<<>>, <<new.id>>} /\ Accepted' = Accepted \cup ToSet(new.msgs)
  /\ kept = {} \/ (1 \in DOMAIN rows /\ kept = {rows[1].id})
  /\ MergesTo(rows, new, kept, {}, rows', R, r)
  /\ answered' = answered \cup Omitted(rows, new, kept)
  /\ \/ at' = at
     \/ 1 \in Absorbed(rows, new, kept) /\ rows[1].claim # None /\ at' = [at EXCEPT ![p].step = "flagging"]
  /\ UNCHANGED <<epoch, fence, slot, settling, up, stopped>>

(* Whoever is active is the first row. *)
LEMMA ActiveFirst ==
  ASSUME RowsFor(rows, sent), Foremost(rows), HasActive
  PROVE  ActiveAt = 1 /\ 1 \in DOMAIN rows /\ rows[1].claim # None
PROOF
<1>1. \A i \in Actives : i \in DOMAIN rows /\ i = 1 /\ rows[i].claim # None
  <2>1. \A i \in DOMAIN rows : rows[i].running => rows[i].claim # None
    BY DEF RowsFor, RowFor
  <2> QED BY <2>1 DEF Actives, IsActive, Foremost
<1>2. 1 \in Actives
  BY <1>1 DEF HasActive
<1>3. \E i \in Actives : \A j \in Actives : i <= j
  <2>1. \A j \in Actives : 1 <= j
    BY <1>1
  <2> QED BY <1>2, <2>1
<1>4. ActiveAt \in Actives
  BY <1>3 DEF ActiveAt
<1> QED BY <1>1, <1>4

LEMMA MintKinds ==
  ASSUME Swift, RoomInv, NEW p \in Process,
         (\E a \in Actor, t \in Thread, steer \in BOOLEAN : Submit(p, a, t, steer)) \/ SteerQueued(p)
  PROVE  \E new, kept, R, r : Mints(p, new, kept, R, r)
PROOF
<1>0. TypeOK /\ RowsFor(rows, sent) /\ Foremost(rows) /\ sent \in Seq(Sent)
  BY TypeFacts DEF RoomInv, EpochInv, RoomParts
<1>1. Accepted = SaidIn(sent) /\ Accepted' = SaidIn(sent')
  BY DEF Accepted, SaidIn
<1>2. ASSUME NEW a \in Actor, NEW t \in Thread, NEW steer \in BOOLEAN, Submit(p, a, t, steer)
      PROVE  \E new, kept, R, r : Mints(p, new, kept, R, r)
  <2> DEFINE id == Len(sent) + 1
             e == [actor |-> a, thread |-> t, said |-> TRUE]
             new == Pending(id, <<id>>, a, t, epoch)
             kept == IF ~steer /\ HasActive THEN {Active.id} ELSE {}
  <2>1. /\ Free(p) /\ id \in Request /\ rows' = Merge(rows, new, kept, {})
        /\ sent' = Append(sent, e)
        /\ answered' = answered \cup Omitted(rows, new, kept)
        /\ at' = IF HasActive /\ ActiveAt \in Absorbed(rows, new, kept)
                 THEN [at EXCEPT ![p].step = "flagging"] ELSE at
        /\ UNCHANGED <<epoch, fence, slot, settling, up, stopped>>
    BY <1>2, Zenon DEF Submit
  <2>2. e \in Sent /\ RowFor(new, sent')
    BY <1>0, <2>1, SubmitRow
  <2>3. /\ new \in Row /\ new.id = id /\ new.msgs = <<new.id>> /\ new.actor = a /\ new.thread = t
    BY <2>2 DEF RowFor, Pending
  <2>4. e.actor = a /\ e.thread = t /\ e.said = TRUE
    OBVIOUS
  <2> HIDE DEF new, e
  <2>5. /\ DOMAIN sent' = DOMAIN sent \cup {id} /\ id \notin DOMAIN sent /\ Longer(sent, sent')
        /\ sent'[id] = e /\ SaidIn(sent') = SaidIn(sent) \cup (IF e.said THEN {id} ELSE {})
    BY <1>0, <2>1, <2>2, Minted
  <2>6. kept = {} \/ (1 \in DOMAIN rows /\ kept = {rows[1].id})
    BY <1>0, ActiveFirst DEF Active
  <2>7. \/ at' = at
        \/ 1 \in Absorbed(rows, new, kept) /\ rows[1].claim # None /\ at' = [at EXCEPT ![p].step = "flagging"]
    BY <1>0, <2>1, ActiveFirst
  <2> HIDE DEF kept
  <2>8. PICK R, r : MergesTo(rows, new, kept, {}, rows', R, r)
    BY <1>0, <2>1, <2>3, MergedList
  <2>9. ToSet(new.msgs) = {id}
    BY <2>3 DEF ToSet
  <2>10. Mints(p, new, kept, R, r)
    BY <1>1, <2>1, <2>3, <2>4, <2>5, <2>6, <2>7, <2>8, <2>9 DEF Mints
  <2> QED BY <2>10
<1>3. CASE SteerQueued(p)
  <2> DEFINE id == Len(sent) + 1
             latest == Last(rows)
             e == [actor |-> latest.actor, thread |-> latest.thread, said |-> FALSE]
             new == [Pending(id, <<>>, latest.actor, latest.thread, latest.epoch)
                       EXCEPT !.seen = latest.seen]
  <2>1. /\ Free(p) /\ id \in Request /\ HasActive
        /\ sent' = Append(sent, e) /\ e \in Sent /\ RowFor(new, sent')
        /\ new.id = id /\ new.msgs = <<>> /\ new.actor = latest.actor /\ new.thread = latest.thread
        /\ rows' = Merge(rows, new, {}, {})
        /\ answered' = answered \cup Omitted(rows, new, {})
        /\ at' = IF ActiveAt \in Absorbed(rows, new, {})
                 THEN [at EXCEPT ![p].step = "flagging"] ELSE at
        /\ UNCHANGED <<epoch, fence, slot, settling, up, stopped>>
    BY <1>0, <1>3, SteerRow, Zenon
  <2>4. e.actor = latest.actor /\ e.thread = latest.thread /\ e.said = FALSE
    OBVIOUS
  <2> HIDE DEF new, e, latest
  <2>2. new \in Row
    BY <2>1 DEF RowFor
  <2>5. /\ DOMAIN sent' = DOMAIN sent \cup {id} /\ id \notin DOMAIN sent /\ Longer(sent, sent')
        /\ sent'[id] = e /\ SaidIn(sent') = SaidIn(sent) \cup (IF e.said THEN {id} ELSE {})
    BY <1>0, <2>1, Minted
  <2>7. \/ at' = at
        \/ 1 \in Absorbed(rows, new, {}) /\ rows[1].claim # None /\ at' = [at EXCEPT ![p].step = "flagging"]
    BY <1>0, <2>1, ActiveFirst
  <2>8. PICK R, r : MergesTo(rows, new, {}, {}, rows', R, r)
    BY <1>0, <2>1, <2>2, MergedList
  <2>9. ToSet(new.msgs) = {}
    BY <2>1 DEF ToSet
  <2>10. Mints(p, new, {}, R, r)
    BY <1>1, <2>1, <2>2, <2>4, <2>5, <2>7, <2>8, <2>9 DEF Mints
  <2> QED BY <2>10
<1> QED BY <1>2, <1>3

LEMMA MintsConserves ==
  ASSUME RowsFor(rows, sent), NEW p, NEW new, NEW kept, NEW R, NEW r, Mints(p, new, kept, R, r)
  PROVE  /\ Conserves(rows, rows', DOMAIN sent, answered' \cup stopped')
         /\ \A i \in Absorbed(rows, new, kept) : rows[i].id \notin Ids(rows')
PROOF
<1> DEFINE A == Absorbed(rows, new, kept)
           C == Carried(rows, new, kept)
           S == DOMAIN rows \ A
           D == answered' \cup stopped'
<1>1. /\ C \subseteq A /\ A \subseteq DOMAIN rows
      /\ \A i \in A \ C : ToSet(rows[i].msgs) \subseteq D
  <2>1. C \subseteq A /\ A \subseteq DOMAIN rows /\ \A i \in A \ C : rows[i].seen
    BY DEF Carried, Absorbed
  <2>2. Omitted(rows, new, kept) \subseteq D
    BY DEF Mints
  <2>3. \A i \in A : rows[i].seen => ToSet(rows[i].msgs) \subseteq Omitted(rows, new, kept)
    BY DEF Omitted
  <2> QED BY <2>1, <2>2, <2>3
<1>2. /\ r.id = new.id /\ ToSet(r.msgs) = ToSet(new.msgs) \cup UNION {ToSet(rows[k].msgs) : k \in C}
      /\ Len(R) \in Nat /\ DOMAIN R = 1..Len(R) /\ DOMAIN rows' = 1..(Len(R) + 1)
      /\ \A i \in DOMAIN R : rows'[i] = R[i]
      /\ rows'[Len(R) + 1] = r
      /\ \A i \in DOMAIN R : \E k \in S : R[i] = rows[k]
      /\ \A k \in S : \E i \in DOMAIN R : R[i] = rows[k]
  BY Zenon DEF Mints, MergesTo
<1>3. new.id \notin DOMAIN sent /\ ToSet(new.msgs) \subseteq {new.id}
  <2>1. new.msgs \in {<<>>, <<new.id>>} /\ new.id \notin DOMAIN sent
    BY DEF Mints
  <2> QED BY <2>1 DEF ToSet
<1>4. /\ \A i \in DOMAIN rows : rows[i].id \in DOMAIN sent
      /\ \A i, j \in DOMAIN rows : rows[i].id = rows[j].id => i = j
  BY DEF RowsFor, RowFor
<1> HIDE DEF A, C, D
<1>5. /\ Len(R) + 1 \in DOMAIN rows' /\ DOMAIN R \subseteq DOMAIN rows'
      /\ \A k \in DOMAIN rows' : k \in DOMAIN R \/ (k = Len(R) + 1 /\ rows'[k] = r)
  BY <1>2
<1>6. \A k \in DOMAIN R : \E i \in S : rows'[k] = rows[i]
  BY <1>2
<1>7. ASSUME NEW i \in DOMAIN rows, NEW m \in ToSet(rows[i].msgs), m \notin D
      PROVE  \E k \in DOMAIN rows' :
               m \in ToSet(rows'[k].msgs) /\ (rows'[k].id = rows[i].id \/ rows'[k].id \notin DOMAIN sent)
  <2>1. CASE i \in S
    <3>1. PICK k \in DOMAIN R : R[k] = rows[i]
      BY <1>2, <2>1
    <3> QED BY <1>2, <1>5, <1>7, <3>1
  <2>2. CASE i \in C
    <3>1. m \in ToSet(r.msgs)
      BY <1>2, <1>7, <2>2
    <3> QED BY <1>2, <1>3, <1>5, <3>1
  <2> QED BY <1>1, <1>7, <2>1, <2>2
<1>8. \A i \in A : rows[i].id \notin Ids(rows')
  <2> SUFFICES ASSUME NEW i \in A, NEW k \in DOMAIN rows', rows'[k].id = rows[i].id PROVE FALSE
    BY DEF Ids
  <2>1. CASE k \in DOMAIN R
    <3>1. PICK j \in S : rows'[k] = rows[j]
      BY <1>6, <2>1
    <3> QED BY <1>1, <1>4, <3>1
  <2>2. CASE rows'[k] = r
    BY <1>1, <1>2, <1>3, <1>4, <2>2
  <2> QED BY <1>5, <2>1, <2>2
<1>9. ASSUME NEW m \in ToSet(r.msgs), m \in DOMAIN sent
      PROVE  \E i \in DOMAIN rows : m \in ToSet(rows[i].msgs) /\ rows[i].id \notin Ids(rows')
  <2>1. PICK i \in C : m \in ToSet(rows[i].msgs)
    BY <1>2, <1>3, <1>9
  <2> QED BY <1>1, <1>8, <2>1
<1>10. \A k \in DOMAIN rows' : rows'[k].id \notin DOMAIN sent => k = Len(R) + 1
  BY <1>4, <1>5, <1>6
<1>11. \A k \in DOMAIN rows' :
         \/ \E i \in DOMAIN rows : rows'[k].id = rows[i].id /\ rows'[k].msgs = rows[i].msgs
         \/ rows'[k] = r
  BY <1>5, <1>6
<1>12. Conserves(rows, rows', DOMAIN sent, D)
  BY <1>2, <1>3, <1>7, <1>9, <1>10, <1>11, Zenon DEF Conserves
<1> QED BY <1>8, <1>12 DEF A, D

-----------------------------------------------------------------------------
Flagging == \E p \in Process : at[p].step = "flagging"

(* The messages of a turn that is told to stop, or will be, are elsewhere; a    *)
(* stop has covered everything.                                              *)
Superseded ==
  /\ slot # None /\ (slot.abort # "none" \/ Flagging)
       => Elsewhere(rows, slot.id, ToSet(slot.msgs), Over)
  /\ \A p \in Process :
       /\ at[p].step = "aborted" => Elsewhere(rows, at[p].row.id, ToSet(at[p].row.msgs), Over)
       /\ at[p].step = "stopping" => Accepted \subseteq Over

LossParts ==
  /\ NothingIsDropped
  /\ Apart(rows)
  /\ Agreeing(rows, InHand(slot, settling, at))
  /\ Superseded

LEMMA HandTypes ==
  ASSUME TypeOK
  PROVE  \A t \in InHand(slot, settling, at) :
           t.id \in DOMAIN sent \cup {None} /\ ToSet(t.msgs) \subseteq Accepted
PROOF
<1> SUFFICES ASSUME NEW t \in InHand(slot, settling, at)
             PROVE  t.id \in DOMAIN sent \cup {None} /\ ToSet(t.msgs) \subseteq SaidIn(sent)
  BY TypeFacts
<1>1. CASE t \in settling \/ (t = slot /\ slot # None)
  BY <1>1, TypeFacts DEF TurnFor
<1>2. ASSUME NEW p \in Process, t = at[p].row, t # None
      PROVE  t.id \in DOMAIN sent \cup {None} /\ ToSet(t.msgs) \subseteq SaidIn(sent)
  <2>1. AtFor(p, at[p], sent) /\ at[p].step \in Step \cup {"idle"}
    BY TypeFacts DEF AtType
  <2>2. at[p].step \in {"claimed", "admitted", "completed", "error", "aborted", "retry"}
    BY <1>2, <2>1 DEF AtFor, Step
  <2>3. Carries(at[p].row, sent)
    BY <2>1, <2>2 DEF AtFor
  <2> QED BY <1>2, <2>3 DEF Carries
<1> QED BY <1>1, <1>2 DEF InHand

LEMMA LossStep ==
  ASSUME LossParts, TypeOK, TypeOK',
         Conserves(rows, rows', DOMAIN sent, answered' \cup stopped'),
         Over \subseteq answered' \cup stopped',
         Accepted' \subseteq Accepted \cup MsgsOf(rows'),
         \A t \in InHand(slot', settling', at') :
           \/ \E u \in InHand(slot, settling, at) : t.id = u.id /\ t.msgs = u.msgs
           \/ Agreeing(rows', {t}),
         slot' # None /\ (slot'.abort # "none" \/ Flagging') =>
           \/ /\ slot # None /\ slot'.id = slot.id /\ slot'.msgs = slot.msgs
              /\ slot.abort # "none" \/ Flagging
           \/ Elsewhere(rows', slot'.id, ToSet(slot'.msgs), answered' \cup stopped'),
         \A p \in Process : at'[p].step = "aborted" =>
           \/ at'[p] = at[p]
           \/ Elsewhere(rows', at'[p].row.id, ToSet(at'[p].row.msgs), answered' \cup stopped'),
         \A p \in Process : at'[p].step = "stopping" =>
           \/ at'[p] = at[p] /\ Accepted' = Accepted
           \/ Accepted' \subseteq answered' \cup stopped'
  PROVE  LossParts'
PROOF
<1> DEFINE E == answered' \cup stopped'
<1>0. Over' = E
  BY DEF Over
<1> HIDE DEF E
<1>1. /\ RowsFor(rows, sent) /\ RowsFor(rows', sent')
      /\ \A i, j \in DOMAIN rows' : rows'[i].id = rows'[j].id => i = j
  <2>1. RowsFor(rows, sent) /\ RowsFor(rows', sent')
    BY TypeParts, TypePartsLater DEF Typed
  <2> QED BY <2>1 DEF RowsFor
<1>2. Conserves(rows, rows', DOMAIN sent, E) /\ Over \subseteq E
  BY DEF E
<1>3. NothingIsDropped'
  <2>1. Accepted \subseteq MsgsOf(rows) \cup Over
    BY DEF LossParts, NothingIsDropped, Over
  <2>2. Accepted \subseteq MsgsOf(rows') \cup E
    <3>1. MsgsOf(rows) \subseteq MsgsOf(rows') \cup E
      BY <1>2, ConservedAll
    <3> QED BY <1>2, <2>1, <3>1
  <2>3. Accepted' \subseteq MsgsOf(rows') \cup E
    BY <2>2
  <2> QED BY <2>3 DEF NothingIsDropped, E
<1>4. Apart(rows')
  BY <1>1, <1>2, ConservedApart DEF LossParts
<1>5. Agreeing(rows', InHand(slot', settling', at'))
  <2>1. \A u \in InHand(slot, settling, at) : Agreeing(rows', {u})
    <3> TAKE u \in InHand(slot, settling, at)
    <3>1. Agreeing(rows, {u})
      BY DEF LossParts, Agreeing
    <3>2. u.id \in DOMAIN sent \cup {None}
      BY HandTypes
    <3> QED BY <1>1, <1>2, <3>1, <3>2, ConservedAgreeing
  <2> SUFFICES ASSUME NEW t \in InHand(slot', settling', at') PROVE Agreeing(rows', {t})
    BY DEF Agreeing
  <2>2. ASSUME NEW u \in InHand(slot, settling, at), t.id = u.id, t.msgs = u.msgs PROVE Agreeing(rows', {t})
    BY <2>1, <2>2 DEF Agreeing
  <2> QED BY <2>2
<1>6. \A id \in DOMAIN sent \cup {None} : \A M : Elsewhere(rows, id, M, Over) => Elsewhere(rows', id, M, E)
  BY <1>1, <1>2, ConservedElsewhere
<1>7. ASSUME slot' # None, slot'.abort # "none" \/ Flagging'
      PROVE  Elsewhere(rows', slot'.id, ToSet(slot'.msgs), E)
  <2>1. CASE Elsewhere(rows', slot'.id, ToSet(slot'.msgs), answered' \cup stopped')
    BY <2>1 DEF E
  <2>2. CASE /\ slot # None /\ slot'.id = slot.id /\ slot'.msgs = slot.msgs
             /\ slot.abort # "none" \/ Flagging
    <3>1. Elsewhere(rows, slot.id, ToSet(slot.msgs), Over)
      BY <2>2 DEF LossParts, Superseded
    <3>2. slot.id \in DOMAIN sent \cup {None}
      BY <2>2, TypeFacts DEF TurnFor
    <3> QED BY <1>6, <2>2, <3>1, <3>2
  <2> QED BY <1>7, <2>1, <2>2
<1>8. ASSUME NEW p \in Process, at'[p].step = "aborted"
      PROVE  Elsewhere(rows', at'[p].row.id, ToSet(at'[p].row.msgs), E)
  <2>1. CASE Elsewhere(rows', at'[p].row.id, ToSet(at'[p].row.msgs), answered' \cup stopped')
    BY <2>1 DEF E
  <2>2. CASE at'[p] = at[p]
    <3>1. Elsewhere(rows, at[p].row.id, ToSet(at[p].row.msgs), Over)
      BY <1>8, <2>2 DEF LossParts, Superseded
    <3>2. at[p].row.id \in DOMAIN sent \cup {None}
      BY <1>8, <2>2, TypeFacts DEF AtFor, Carries
    <3> QED BY <1>6, <2>2, <3>1, <3>2
  <2> QED BY <1>8, <2>1, <2>2
<1>9. ASSUME NEW p \in Process, at'[p].step = "stopping" PROVE Accepted' \subseteq E
  <2>1. CASE at'[p] = at[p] /\ Accepted' = Accepted
    <3>1. Accepted \subseteq Over
      BY <1>9, <2>1 DEF LossParts, Superseded
    <3> QED BY <1>2, <2>1, <3>1
  <2> QED BY <1>9, <2>1 DEF E
<1>10. Superseded'
  BY <1>0, <1>7, <1>8, <1>9 DEF Superseded
<1> QED BY <1>3, <1>4, <1>5, <1>10 DEF LossParts

(* A turn in hand after a step was in hand before, or is a row.               *)
HandedOn(t) ==
  \/ \E u \in InHand(slot, settling, at) : t.id = u.id /\ t.msgs = u.msgs
  \/ Agreeing(rows', {t})

LEMMA HandsKept ==
  ASSUME \/ slot' = None
         \/ slot # None /\ slot'.id = slot.id /\ slot'.msgs = slot.msgs
         \/ HandedOn(slot'),
         \A t \in settling' : t \in settling \/ HandedOn(t),
         \A q \in Process : \/ at'[q].row = None
                            \/ at'[q].row = at[q].row
                            \/ HandedOn(at'[q].row)
  PROVE  \A t \in InHand(slot', settling', at') :
           \/ \E u \in InHand(slot, settling, at) : t.id = u.id /\ t.msgs = u.msgs
           \/ Agreeing(rows', {t})
PROOF
<1> SUFFICES ASSUME NEW t \in InHand(slot', settling', at') PROVE HandedOn(t)
  BY DEF HandedOn
<1>1. CASE t = slot' /\ slot' # None
  <2>1. CASE slot # None /\ slot'.id = slot.id /\ slot'.msgs = slot.msgs
    BY <1>1, <2>1 DEF InHand, HandedOn
  <2> QED BY <1>1, <2>1
<1>2. CASE t \in settling'
  <2>1. CASE t \in settling /\ t # None
    BY <2>1 DEF InHand, HandedOn
  <2>2. t # None
    BY DEF InHand
  <2> QED BY <1>2, <2>1, <2>2
<1>3. ASSUME NEW q \in Process, t = at'[q].row, t # None PROVE HandedOn(t)
  <2>1. CASE at'[q].row = at[q].row
    BY <1>3, <2>1 DEF InHand, HandedOn
  <2> QED BY <1>3, <2>1
<1> QED BY <1>1, <1>2, <1>3 DEF InHand

LEMMA LossMint ==
  ASSUME Swift, RoomInv, LossParts, TypeOK', NEW p \in Process,
         (\E a \in Actor, t \in Thread, steer \in BOOLEAN : Submit(p, a, t, steer)) \/ SteerQueued(p)
  PROVE  LossParts'
PROOF
<1>0. TypeOK /\ RowsFor(rows, sent) /\ Running
  BY TypeFacts DEF RoomInv, EpochInv, RoomParts
<1>1. PICK new, kept, R, r : Mints(p, new, kept, R, r)
  BY MintKinds
<1>2. /\ Conserves(rows, rows', DOMAIN sent, answered' \cup stopped')
      /\ \A i \in Absorbed(rows, new, kept) : rows[i].id \notin Ids(rows')
  BY <1>0, <1>1, MintsConserves
<1>3. UNCHANGED <<slot, settling, stopped>> /\ answered \subseteq answered' /\ Free(p)
  BY <1>1 DEF Mints
<1>4. Accepted' \subseteq Accepted \cup MsgsOf(rows')
  <2>0. /\ ToSet(r.msgs) = ToSet(new.msgs) \cup UNION {ToSet(rows[k].msgs) : k \in Carried(rows, new, kept)}
        /\ Len(R) \in Nat /\ DOMAIN rows' = 1..(Len(R) + 1) /\ rows'[Len(R) + 1] = r
    BY <1>1, Zenon DEF Mints, MergesTo
  <2>1. ToSet(new.msgs) \subseteq ToSet(r.msgs) /\ (\E k \in DOMAIN rows' : rows'[k] = r)
    BY <2>0
  <2>2. Accepted' = Accepted \cup ToSet(new.msgs)
    BY <1>1 DEF Mints
  <2> QED BY <2>1, <2>2 DEF MsgsOf
<1>5. \/ at' = at
      \/ /\ \A q \in Process \ {p} : at'[q] = at[q]
         /\ at'[p].step = "flagging" /\ at'[p].row = None
         /\ 1 \in Absorbed(rows, new, kept) /\ rows[1].claim # None
  <2>1. CASE at' = at
    BY <2>1
  <2>2. CASE /\ 1 \in Absorbed(rows, new, kept) /\ rows[1].claim # None
             /\ at' = [at EXCEPT ![p].step = "flagging"]
    <3>1. Moves(at, at', p, [step |-> "flagging", row |-> at[p].row])
      BY <1>0, <2>2, StepsTo DEF Step
    <3>2. at[p].row = None
      BY <1>0, <1>3, FreeAt, RestsFor
    <3>3. DOMAIN at = Process
      BY <1>0, TypeFacts
    <3> QED BY <2>2, <3>1, <3>2, <3>3 DEF Moves
  <2> QED BY <1>1, <2>1, <2>2 DEF Mints
<1>6. \A q \in Process : at[q].step \in Still
  BY <1>3, OthersStill
<1>7. \A t \in InHand(slot', settling', at') :
        (\E u \in InHand(slot, settling, at) : t.id = u.id /\ t.msgs = u.msgs) \/ Agreeing(rows', {t})
  <2>1. \A q \in Process : at'[q].row = None \/ at'[q].row = at[q].row
    BY <1>5
  <2>2. slot' = None \/ (slot # None /\ slot'.id = slot.id /\ slot'.msgs = slot.msgs)
    BY <1>3
  <2> QED BY <1>3, <2>1, <2>2, HandsKept
<1>8. ASSUME slot' # None, slot'.abort # "none" \/ Flagging'
      PROVE  \/ /\ slot # None /\ slot'.id = slot.id /\ slot'.msgs = slot.msgs
                /\ slot.abort # "none" \/ Flagging
             \/ Elsewhere(rows', slot'.id, ToSet(slot'.msgs), answered' \cup stopped')
  <2>1. CASE slot.abort # "none" \/ Flagging
    BY <1>3, <1>8, <2>1
  <2>2. CASE ~(slot.abort # "none" \/ Flagging)
    <3>1. 1 \in Absorbed(rows, new, kept) /\ rows[1].claim # None
      BY <1>3, <1>5, <1>8, <2>2 DEF Flagging
    <3>2. 1 \in DOMAIN rows
      BY <3>1 DEF Absorbed
    <3>3. CASE slot.id = None
      <4>1. ToSet(slot'.msgs) = {}
        BY <1>0, <1>3, <1>8, <3>3 DEF Running, ToSet
      <4> QED BY <4>1 DEF Elsewhere
    <3>4. CASE slot.id # None
      <4>1. rows[1].id = slot.id
        BY <1>0, <1>3, <1>8, <3>1, <3>2, <3>4 DEF Running
      <4>2. rows[1].msgs = slot.msgs
        BY <1>3, <1>8, <3>2, <4>1 DEF LossParts, Agreeing, InHand
      <4>3. rows[1].id \notin Ids(rows') /\ rows[1].id \in DOMAIN sent
        BY <1>0, <1>2, <3>1, <3>2 DEF RowsFor, RowFor
      <4>4. ASSUME NEW m \in ToSet(rows[1].msgs), m \notin answered' \cup stopped'
            PROVE  \E k \in DOMAIN rows' : rows'[k].id # rows[1].id /\ m \in ToSet(rows'[k].msgs)
        <5>1. \E k \in DOMAIN rows' : m \in ToSet(rows'[k].msgs)
          BY <1>2, <3>2, <4>4 DEF Conserves
        <5> QED BY <4>3, <5>1 DEF Ids
      <4> QED BY <1>3, <4>1, <4>2, <4>4 DEF Elsewhere
    <3> QED BY <3>3, <3>4
  <2> QED BY <2>1, <2>2
<1>9. \A q \in Process : at'[q].step = "aborted" => at'[q] = at[q]
  BY <1>5
<1>10. \A q \in Process : at'[q].step # "stopping"
  BY <1>5, <1>6 DEF Still
<1>11. Over \subseteq answered' \cup stopped'
  BY <1>3 DEF Over
<1> QED BY <1>0, <1>2, <1>4, <1>7, <1>8, <1>9, <1>10, <1>11, LossStep

(* A worker holds the row it claimed, and starts the turn of the row it holds. *)
LEMMA LossClaim ==
  ASSUME Swift, RoomInv, LossParts, TypeOK', NEW p \in Process, Claim(p)
  PROVE  LossParts'
PROOF
<1>0. TypeOK /\ RowsFor(rows, sent)
  BY TypeFacts DEF RoomInv, EpochInv
<1>1. /\ 1 \in DOMAIN rows /\ slot = None /\ Touched(rows, rows')
      /\ at' = [at EXCEPT ![p] = [step |-> "claimed", row |-> rows'[1]]]
  BY ClaimsFirst
<1>2. Free(p) /\ RowsFor(rows', sent) /\ UNCHANGED <<sent, slot, settling, answered, stopped>>
  BY <1>0, ClaimRows
<1>3. /\ at'[p].step = "claimed" /\ at'[p].row = rows'[1]
      /\ \A q \in Process \ {p} : at'[q] = at[q]
  BY <1>0, <1>1, TypeFacts
<1>4. Conserves(rows, rows', DOMAIN sent, answered' \cup stopped')
  BY <1>0, <1>1, TouchedShrinks, ShrinksConserves
<1>5. Agreeing(rows', {rows'[1]})
  BY <1>1, <1>2 DEF Agreeing, RowsFor, Touched
<1>6. \A t \in InHand(slot', settling', at') :
        (\E u \in InHand(slot, settling, at) : t.id = u.id /\ t.msgs = u.msgs) \/ Agreeing(rows', {t})
  <2>1. \A q \in Process : at'[q].row = None \/ at'[q].row = at[q].row \/ HandedOn(at'[q].row)
    BY <1>3, <1>5 DEF HandedOn
  <2>2. slot' = None
    BY <1>1, <1>2
  <2> QED BY <1>2, <2>1, <2>2, HandsKept
<1>7. Over \subseteq answered' \cup stopped' /\ Accepted' = Accepted /\ slot' = None
  BY <1>1, <1>2 DEF Over, Accepted
<1>8. \A q \in Process : /\ at'[q].step = "aborted" => at'[q] = at[q]
                         /\ at'[q].step = "stopping" => at'[q] = at[q]
  BY <1>3
<1> QED BY <1>0, <1>4, <1>6, <1>7, <1>8, LossStep

LEMMA LossWorker ==
  ASSUME Swift, RoomInv, LossParts, TypeOK', NEW p \in Process, Admit(p) \/ Take(p) \/ TakeFails(p)
  PROVE  LossParts'
PROOF
<1>0. TypeOK /\ RowsFor(rows, sent) /\ Going
  BY TypeFacts DEF RoomInv, EpochInv, RoomParts
<1>1. ~TakeFails(p) /\ (Stands(p, "claimed") => at[p].row.epoch = epoch)
  BY RoomIsFree DEF RoomInv
<1>2. \A q \in Process \ {p} : at[q].step \in Still
  BY OthersStill DEF Admit, Take, TakeFails, Step
<1>3. CASE Admit(p)
  <2>1. /\ at' = [at EXCEPT ![p].step = "admitted"] /\ at[p].step = "claimed"
        /\ rows' = rows /\ UNCHANGED <<sent, slot, settling, answered, stopped>>
    BY <1>1, <1>3 DEF Admit, Stands
  <2>2. Moves(at, at', p, [step |-> "admitted", row |-> at[p].row])
    BY <1>0, <2>1, StepsTo DEF Step
  <2>3. /\ at'[p].step = "admitted" /\ at'[p].row = at[p].row
        /\ \A q \in Process \ {p} : at'[q] = at[q]
    BY <1>0, <2>2, TypeFacts DEF Moves
  <2>4. Conserves(rows, rows', DOMAIN sent, answered' \cup stopped')
    BY <1>0, <2>1, SameShrinks, ShrinksConserves
  <2>5. slot' = None
    BY <1>0, <2>1 DEF Going
  <2>6. \A t \in InHand(slot', settling', at') :
          (\E u \in InHand(slot, settling, at) : t.id = u.id /\ t.msgs = u.msgs) \/ Agreeing(rows', {t})
    <3>1. \A q \in Process : at'[q].row = at[q].row
      BY <2>3
    <3> QED BY <2>1, <2>5, <3>1, HandsKept
  <2>7. Over \subseteq answered' \cup stopped' /\ Accepted' = Accepted
    BY <2>1 DEF Over, Accepted
  <2>8. \A q \in Process : /\ at'[q].step = "aborted" => at'[q] = at[q]
                           /\ at'[q].step = "stopping" => at'[q] = at[q]
    BY <2>3
  <2> QED BY <1>0, <2>4, <2>5, <2>6, <2>7, <2>8, LossStep
<1>4. CASE Take(p)
  <2>1. /\ Stands(p, "admitted") /\ slot'.abort = "none"
        /\ slot'.id = at[p].row.id /\ slot'.msgs = at[p].row.msgs /\ at[p].row \in Row
        /\ Touched(rows, rows') /\ at' = [at EXCEPT ![p] = Resting]
        /\ UNCHANGED <<sent, settling, answered, stopped>>
    BY <1>0, <1>4, TakeParts
  <2>2. /\ at'[p] = Resting /\ at'[p].step = "idle" /\ at'[p].row = None
        /\ \A q \in Process \ {p} : at'[q] = at[q]
    BY <1>0, <2>1, TypeFacts, RestsFor
  <2>3. Conserves(rows, rows', DOMAIN sent, answered' \cup stopped')
    BY <1>0, <2>1, TouchedShrinks, ShrinksConserves
  <2>4. \A t \in InHand(slot', settling', at') :
          (\E u \in InHand(slot, settling, at) : t.id = u.id /\ t.msgs = u.msgs) \/ Agreeing(rows', {t})
    <3>1. \A q \in Process : at'[q].row = None \/ at'[q].row = at[q].row
      BY <2>2
    <3>2. HandedOn(slot')
      <4>1. at[p].row # None
        BY <2>1, NoneAssumption
      <4> QED BY <2>1, <4>1 DEF HandedOn, InHand
    <3> QED BY <2>1, <3>1, <3>2, HandsKept
  <2>5. Over \subseteq answered' \cup stopped' /\ Accepted' = Accepted
    BY <2>1 DEF Over, Accepted
  <2>6. \A q \in Process : /\ at'[q].step = "aborted" => at'[q] = at[q]
                           /\ at'[q].step = "stopping" => at'[q] = at[q]
    BY <2>2
  <2>7. ~Flagging'
    BY <1>2, <2>2 DEF Flagging, Still
  <2> QED BY <1>0, <2>1, <2>3, <2>4, <2>5, <2>6, <2>7, LossStep
<1> QED BY <1>1, <1>3, <1>4

(* The row a settling turn completes carried the turn's messages.             *)
LEMMA CompletedShrinks ==
  ASSUME TypeOK, NEW p, NEW t, Agreeing(rows, {t}), NEW D,
         rows' = Complete(rows, t.id, p),
         \A i \in DOMAIN rows : rows[i].id = t.id => ToSet(t.msgs) \subseteq D
  PROVE  Conserves(rows, rows', DOMAIN sent, D)
PROOF
<1> DEFINE S == {i \in DOMAIN rows : ~(rows[i].id = t.id /\ rows[i].claim = p)}
<1>0. RowsFor(rows, sent)
  BY TypeFacts
<1>1. S \subseteq DOMAIN rows /\ rows' = Picked(rows, S)
  BY Zenon DEF Complete
<1>2. \A k \in DOMAIN rows \ S : ToSet(rows[k].msgs) \subseteq D
  BY DEF Agreeing
<1> HIDE DEF S
<1>3. Shrinks(rows, rows', D)
  BY <1>0, <1>1, <1>2, PickedShrinks
<1> QED BY <1>0, <1>3, ShrinksConserves

(* What is elsewhere than in the row it came from is done with. *)
LEMMA ElsewhereIsOver ==
  ASSUME NEW rs, Apart(rs), NEW t, Agreeing(rs, {t}), NEW D, Elsewhere(rs, t.id, ToSet(t.msgs), D)
  PROVE  \A i \in DOMAIN rs : rs[i].id = t.id => ToSet(t.msgs) \subseteq D
PROOF
<1> SUFFICES ASSUME NEW i \in DOMAIN rs, rs[i].id = t.id, NEW m \in ToSet(t.msgs), m \notin D
             PROVE  FALSE
  OBVIOUS
<1>1. PICK j \in DOMAIN rs : rs[j].id # t.id /\ m \in ToSet(rs[j].msgs)
  BY DEF Elsewhere
<1>2. rs[i].msgs = t.msgs
  BY DEF Agreeing
<1>3. i = j
  BY <1>1, <1>2 DEF Apart
<1> QED BY <1>1, <1>3

(* A step that only marks rows, frees the slot, or puts processes to rest.    *)
LEMMA LossPlain ==
  ASSUME TypeOK, TypeOK', LossParts, Touched(rows, rows'), UNCHANGED <<sent, answered, stopped>>,
         slot' = None \/ slot' = slot, settling' \subseteq settling,
         \A q \in Process :
           \/ at'[q] = at[q]
           \/ at'[q].row \in {None, at[q].row} /\ at'[q].step \notin {"flagging", "aborted", "stopping"}
  PROVE  LossParts'
PROOF
<1>1. RowsFor(rows, sent)
  BY TypeFacts
<1>2. Conserves(rows, rows', DOMAIN sent, answered' \cup stopped')
  BY <1>1, TouchedShrinks, ShrinksConserves
<1>3. \A t \in InHand(slot', settling', at') :
        (\E u \in InHand(slot, settling, at) : t.id = u.id /\ t.msgs = u.msgs) \/ Agreeing(rows', {t})
  <2>1. \A q \in Process : at'[q].row = None \/ at'[q].row = at[q].row
    OBVIOUS
  <2>2. slot' = None \/ (slot # None /\ slot'.id = slot.id /\ slot'.msgs = slot.msgs)
    OBVIOUS
  <2> QED BY <2>1, <2>2, HandsKept
<1>4. Over \subseteq answered' \cup stopped' /\ Accepted' = Accepted
  BY DEF Over, Accepted
<1>5. Flagging' => Flagging
  BY DEF Flagging
<1>6. \A q \in Process : /\ at'[q].step = "aborted" => at'[q] = at[q]
                         /\ at'[q].step = "stopping" => at'[q] = at[q]
  OBVIOUS
<1> QED BY <1>2, <1>3, <1>4, <1>5, <1>6, LossStep

LEMMA LossTurn ==
  ASSUME Swift, RoomInv, LossParts, TypeOK', NEW p \in Process,
         Inject(p) \/ ProviderContent(p) \/ TurnEnds(p) \/ Settle(p) \/ SettleError(p)
  PROVE  LossParts'
PROOF
<1>0. TypeOK /\ RowsFor(rows, sent)
  BY TypeFacts DEF RoomInv, EpochInv
<1>1. CASE Inject(p)
  <2>1. /\ slot'.id = None /\ slot'.msgs = <<>>
        /\ UNCHANGED <<sent, rows, settling, at, answered, stopped>>
    BY <1>0, <1>1, InjectTurn
  <2>2. Conserves(rows, rows', DOMAIN sent, answered' \cup stopped')
    BY <1>0, <2>1, SameShrinks, ShrinksConserves
  <2>3. HandedOn(slot')
    <3>1. \A i \in DOMAIN rows' : rows'[i].id # None
      BY <1>0, <2>1, NoneAssumption, RowFields DEF RowsFor, RowFor
    <3> QED BY <2>1, <3>1 DEF HandedOn, Agreeing
  <2>4. \A t \in InHand(slot', settling', at') :
          (\E u \in InHand(slot, settling, at) : t.id = u.id /\ t.msgs = u.msgs) \/ Agreeing(rows', {t})
    BY <2>1, <2>3, HandsKept
  <2>5. Over \subseteq answered' \cup stopped' /\ Accepted' = Accepted
    BY <2>1 DEF Over, Accepted
  <2>6. Elsewhere(rows', slot'.id, ToSet(slot'.msgs), answered' \cup stopped')
    BY <2>1 DEF Elsewhere, ToSet
  <2> QED BY <1>0, <2>1, <2>2, <2>4, <2>5, <2>6, LossStep
<1>2. CASE ProviderContent(p)
  <2>1. Touched(rows, rows')
    BY <1>0, <1>2, ContentRows
  <2>2. UNCHANGED <<sent, slot, settling, at, answered, stopped>>
    BY <1>2 DEF ProviderContent
  <2> QED BY <1>0, <2>1, <2>2, LossPlain
<1>3. CASE TurnEnds(p)
  <2>1. /\ slot # None /\ slot' = None
        /\ UNCHANGED <<sent, rows, answered, stopped>>
        /\ settling' \subseteq settling \cup {Left(slot)}
        /\ \/ at' = at
           \/ \E kind \in {"completed", "error", "aborted", "retry"} :
                /\ kind = "aborted" => slot.abort # "none"
                /\ at' = [at EXCEPT ![p] = [step |-> kind, row |-> slot]]
    BY <1>0, <1>3, TurnEndsParts
  <2>2. /\ \A q \in Process \ {p} : at'[q] = at[q]
        /\ \/ at'[p] = at[p]
           \/ /\ at'[p].row = slot /\ at'[p].step \in {"completed", "error", "aborted", "retry"}
              /\ at'[p].step = "aborted" => slot.abort # "none"
    <3>1. DOMAIN at = Process
      BY <1>0, TypeFacts
    <3>2. ASSUME NEW kind \in {"completed", "error", "aborted", "retry"},
                 kind = "aborted" => slot.abort # "none",
                 at' = [at EXCEPT ![p] = [step |-> kind, row |-> slot]]
          PROVE  <2>2!:
      <4>1. at'[p] = [step |-> kind, row |-> slot] /\ \A q \in Process \ {p} : at'[q] = at[q]
        BY <3>1, <3>2
      <4>2. at'[p].step = kind /\ at'[p].row = slot
        BY <4>1
      <4> QED BY <3>2, <4>1, <4>2
    <3> QED BY <2>1, <3>2
  <2>3. Conserves(rows, rows', DOMAIN sent, answered' \cup stopped')
    BY <1>0, <2>1, SameShrinks, ShrinksConserves
  <2>4. HandedOn(slot) /\ HandedOn(Left(slot))
    <3>1. slot \in InHand(slot, settling, at)
      BY <2>1 DEF InHand
    <3>2. Left(slot).id = slot.id /\ Left(slot).msgs = slot.msgs
      BY <1>0, <2>1, TypeFacts, LeftTurn
    <3> QED BY <3>1, <3>2 DEF HandedOn
  <2>5. \A t \in InHand(slot', settling', at') :
          (\E u \in InHand(slot, settling, at) : t.id = u.id /\ t.msgs = u.msgs) \/ Agreeing(rows', {t})
    <3>1. \A q \in Process : at'[q].row = None \/ at'[q].row = at[q].row \/ HandedOn(at'[q].row)
      BY <2>2, <2>4
    <3> QED BY <2>1, <2>4, <3>1, HandsKept
  <2>6. Over \subseteq answered' \cup stopped' /\ Accepted' = Accepted /\ Over = answered' \cup stopped'
    BY <2>1 DEF Over, Accepted
  <2>7. ASSUME NEW q \in Process, at'[q].step = "aborted"
        PROVE  \/ at'[q] = at[q]
               \/ Elsewhere(rows', at'[q].row.id, ToSet(at'[q].row.msgs), answered' \cup stopped')
    <3>1. CASE q = p /\ at'[p].row = slot /\ slot.abort # "none"
      <4>1. Elsewhere(rows, slot.id, ToSet(slot.msgs), Over)
        BY <2>1, <3>1 DEF LossParts, Superseded
      <4> QED BY <2>1, <2>6, <3>1, <4>1
    <3> QED BY <2>2, <2>7, <3>1
  <2>8. \A q \in Process : at'[q].step = "stopping" => at'[q] = at[q]
    BY <2>2
  <2> QED BY <1>0, <2>1, <2>3, <2>5, <2>6, <2>7, <2>8, LossStep
<1>4. CASE Settle(p)
  <2> DEFINE t == at[p].row
             D == answered' \cup stopped'
  <2>1. /\ at[p].step \in {"completed", "error", "aborted"}
        /\ rows' = Complete(rows, t.id, p) /\ at' = [at EXCEPT ![p] = Resting]
        /\ answered' = IF at[p].step = "aborted" THEN answered ELSE answered \cup ToSet(t.msgs)
        /\ UNCHANGED <<sent, slot, settling, stopped>>
    BY <1>4 DEF Settle, Stands
  <2>2. t \in Turn /\ t # None
    BY <1>0, <2>1, TypeFacts, NoneAssumption DEF AtFor
  <2>3. Agreeing(rows, {t})
    <3>1. t \in InHand(slot, settling, at)
      BY <2>2 DEF InHand
    <3> HIDE DEF t
    <3> QED BY <3>1 DEF LossParts, Agreeing
  <2>4. Over \subseteq D /\ Accepted' = Accepted
    <3>1. answered \subseteq answered'
      BY <2>1, Zenon
    <3> QED BY <2>1, <3>1 DEF Over, Accepted
  <2>5. \A i \in DOMAIN rows : rows[i].id = t.id => ToSet(t.msgs) \subseteq D
    <3>1. CASE at[p].step = "aborted"
      <4>1. Elsewhere(rows, t.id, ToSet(t.msgs), Over) /\ Apart(rows)
        BY <3>1 DEF LossParts, Superseded
      <4> HIDE DEF t, D
      <4>2. \A i \in DOMAIN rows : rows[i].id = t.id => ToSet(t.msgs) \subseteq Over
        BY <2>3, <4>1, ElsewhereIsOver
      <4> QED BY <2>4, <4>2
    <3>2. CASE at[p].step # "aborted"
      <4>1. answered' = answered \cup ToSet(t.msgs)
        BY <2>1, <3>2
      <4> QED BY <4>1
    <3> QED BY <3>1, <3>2
  <2>6. Conserves(rows, rows', DOMAIN sent, D)
    <3> HIDE DEF D, t
    <3> QED BY <1>0, <2>1, <2>3, <2>5, CompletedShrinks
  <2>7. /\ at'[p].step = "idle" /\ at'[p].row = None
        /\ \A q \in Process \ {p} : at'[q] = at[q]
    BY <1>0, <2>1, TypeFacts, RestsFor
  <2>8. \A u \in InHand(slot', settling', at') :
          (\E v \in InHand(slot, settling, at) : u.id = v.id /\ u.msgs = v.msgs) \/ Agreeing(rows', {u})
    <3>1. \A q \in Process : at'[q].row = None \/ at'[q].row = at[q].row
      BY <2>7
    <3>2. slot' = None \/ (slot # None /\ slot'.id = slot.id /\ slot'.msgs = slot.msgs)
      BY <2>1
    <3> QED BY <2>1, <3>1, <3>2, HandsKept
  <2>9. Flagging' => Flagging
    BY <2>7 DEF Flagging
  <2>10. \A q \in Process : /\ at'[q].step = "aborted" => at'[q] = at[q]
                            /\ at'[q].step = "stopping" => at'[q] = at[q]
    BY <2>7
  <2> QED BY <1>0, <2>1, <2>4, <2>6, <2>8, <2>9, <2>10, LossStep
<1>5. CASE SettleError(p)
  <2> DEFINE D == answered' \cup stopped'
  <2>1. PICK t \in settling :
          /\ settling' = settling \ {t}
          /\ rows' = Complete(rows, t.id, p)
          /\ answered' = answered \cup ToSet(t.msgs)
          /\ UNCHANGED <<sent, slot, at, stopped>>
    BY <1>5 DEF SettleError
  <2>2. t # None
    BY <1>0, TypeFacts, NoneAssumption DEF TurnFor
  <2>3. Agreeing(rows, {t})
    <3>1. t \in InHand(slot, settling, at)
      BY <2>2 DEF InHand
    <3> QED BY <3>1 DEF LossParts, Agreeing
  <2>4. Over \subseteq D /\ Accepted' = Accepted /\ ToSet(t.msgs) \subseteq D
    BY <2>1 DEF Over, Accepted
  <2>5. Conserves(rows, rows', DOMAIN sent, D)
    <3> HIDE DEF D
    <3> QED BY <1>0, <2>1, <2>3, <2>4, CompletedShrinks
  <2>6. \A u \in InHand(slot', settling', at') :
          (\E v \in InHand(slot, settling, at) : u.id = v.id /\ u.msgs = v.msgs) \/ Agreeing(rows', {u})
    <3>1. slot' = None \/ (slot # None /\ slot'.id = slot.id /\ slot'.msgs = slot.msgs)
      BY <2>1
    <3> QED BY <2>1, <3>1, HandsKept
  <2>7. Flagging' => Flagging
    BY <2>1 DEF Flagging
  <2> QED BY <1>0, <2>1, <2>4, <2>5, <2>6, <2>7, LossStep
<1> QED BY <1>1, <1>2, <1>3, <1>4, <1>5

LEMMA LossRetry ==
  ASSUME Swift, RoomInv, LossParts, TypeOK', NEW p \in Process,
         Restart(p) \/ RestartDropped(p) \/ RestartFails(p)
  PROVE  LossParts'
PROOF
<1> DEFINE t == at[p].row
           D == answered' \cup stopped'
<1>0. TypeOK /\ RowsFor(rows, sent)
  BY TypeFacts DEF RoomInv, EpochInv
<1>1. ~RestartFails(p)
  BY RoomIsFree DEF RoomInv
<1>2. \A q \in Process \ {p} : at[q].step \in Still
  BY OthersStill DEF Restart, RestartDropped, RestartFails, Step
<1>3. at' = [at EXCEPT ![p] = Resting] /\ at[p].step = "retry" /\ UNCHANGED <<sent, settling, answered>>
  BY <1>1 DEF Restart, RestartDropped, Stands
<1>4. /\ at'[p].step = "idle" /\ at'[p].row = None
      /\ \A q \in Process \ {p} : at'[q] = at[q]
  BY <1>0, <1>3, TypeFacts, RestsFor
<1>5. t # None /\ HandedOn(t)
  <2>1. t # None
    BY <1>0, <1>3, RetryTurn, NoneAssumption
  <2> QED BY <2>1 DEF HandedOn, InHand
<1>6. ~Flagging'
  BY <1>2, <1>4 DEF Flagging, Still
<1>7. \A q \in Process : at'[q].row = None \/ at'[q].row = at[q].row
  BY <1>4
<1>8. \A q \in Process : /\ at'[q].step = "aborted" => at'[q] = at[q]
                         /\ at'[q].step = "stopping" => at'[q] = at[q]
  BY <1>4
<1> HIDE DEF t
<1>9. CASE Restart(p)
  <2>1. slot' = Started(p, t, Main) /\ rows' = rows /\ stopped' = stopped
    BY <1>9 DEF Restart, t
  <2>2. slot'.id = t.id /\ slot'.msgs = t.msgs /\ slot'.abort = "none"
    BY <2>1 DEF Started
  <2>3. Conserves(rows, rows', DOMAIN sent, D)
    BY <1>0, <2>1, SameShrinks, ShrinksConserves
  <2>4. HandedOn(slot')
    BY <1>5, <2>2 DEF HandedOn, Agreeing
  <2>5. \A u \in InHand(slot', settling', at') :
          (\E v \in InHand(slot, settling, at) : u.id = v.id /\ u.msgs = v.msgs) \/ Agreeing(rows', {u})
    BY <1>3, <1>7, <2>4, HandsKept
  <2>6. Over \subseteq D /\ Accepted' = Accepted
    BY <1>3, <2>1 DEF Over, Accepted
  <2> QED BY <1>0, <1>6, <1>8, <2>2, <2>3, <2>5, <2>6, LossStep
<1>10. CASE RestartDropped(p)
  <2>1. rows' = Complete(rows, t.id, p) /\ stopped' = stopped \cup ToSet(t.msgs) /\ slot' = slot
    BY <1>10 DEF RestartDropped, t
  <2>2. Agreeing(rows, {t})
    <3>1. t \in InHand(slot, settling, at)
      BY <1>5 DEF InHand, t
    <3> QED BY <3>1 DEF LossParts, Agreeing
  <2>3. Over \subseteq D /\ Accepted' = Accepted /\ ToSet(t.msgs) \subseteq D
    BY <1>3, <2>1 DEF Over, Accepted
  <2>4. Conserves(rows, rows', DOMAIN sent, D)
    <3> HIDE DEF D
    <3> QED BY <1>0, <2>1, <2>2, <2>3, CompletedShrinks
  <2>5. \A u \in InHand(slot', settling', at') :
          (\E v \in InHand(slot, settling, at) : u.id = v.id /\ u.msgs = v.msgs) \/ Agreeing(rows', {u})
    <3>1. slot' = None \/ (slot # None /\ slot'.id = slot.id /\ slot'.msgs = slot.msgs)
      BY <2>1
    <3> QED BY <1>3, <1>7, <3>1, HandsKept
  <2> QED BY <1>0, <1>6, <1>8, <2>1, <2>3, <2>4, <2>5, LossStep
<1> QED BY <1>1, <1>9, <1>10

LEMMA LossEpochs ==
  ASSUME Swift, RoomInv, LossParts, TypeOK', NEW p \in Process,
         Stop(p) \/ Cancel(p) \/ Compact(p) \/ CompactBegins(p)
  PROVE  LossParts'
PROOF
<1> DEFINE D == answered' \cup stopped'
<1>0. TypeOK /\ RowsFor(rows, sent) /\ DOMAIN at = Process
  BY TypeFacts DEF RoomInv, EpochInv
<1>1. \A q \in Process \ {p} : at[q].step \in Still
  BY OthersStill DEF Stop, Cancel, Compact, CompactBegins, Step
<1>2. CASE Stop(p)
  <2>1. /\ stopped' = stopped \cup (Accepted \ answered)
        /\ at' = [at EXCEPT ![p].step = "stopping"]
        /\ UNCHANGED <<sent, rows, slot, settling, answered>>
    BY <1>2 DEF Stop
  <2>2. Moves(at, at', p, [step |-> "stopping", row |-> at[p].row])
    BY <1>0, <2>1, StepsTo DEF Step
  <2>3. /\ at'[p].step = "stopping" /\ at'[p].row = at[p].row
        /\ \A q \in Process \ {p} : at'[q] = at[q]
    BY <1>0, <2>2 DEF Moves
  <2>4. Conserves(rows, rows', DOMAIN sent, D)
    BY <1>0, <2>1, SameShrinks, ShrinksConserves
  <2>5. \A u \in InHand(slot', settling', at') :
          (\E v \in InHand(slot, settling, at) : u.id = v.id /\ u.msgs = v.msgs) \/ Agreeing(rows', {u})
    <3>1. slot' = None \/ (slot # None /\ slot'.id = slot.id /\ slot'.msgs = slot.msgs)
      BY <2>1
    <3>2. \A q \in Process : at'[q].row = at[q].row
      BY <2>3
    <3> QED BY <2>1, <3>1, <3>2, HandsKept
  <2>6. Over \subseteq D /\ Accepted' = Accepted /\ Accepted' \subseteq D
    BY <2>1 DEF Over, Accepted
  <2>7. Flagging' => Flagging
    BY <2>3 DEF Flagging
  <2>8. \A q \in Process : at'[q].step = "aborted" => at'[q] = at[q]
    BY <2>3
  <2> QED BY <1>0, <2>1, <2>4, <2>5, <2>6, <2>7, <2>8, LossStep
<1>3. CASE Cancel(p)
  <2>1. /\ at[p].step = "stopping" /\ rows' = Current(rows) /\ slot' = Flagged("external")
        /\ at' = [at EXCEPT ![p] = Resting]
        /\ UNCHANGED <<sent, settling, answered, stopped>>
    BY <1>3 DEF Cancel, Stands
  <2>2. Accepted \subseteq Over /\ Over = D /\ Accepted' = Accepted
    BY <2>1 DEF LossParts, Superseded, Over, Accepted
  <2>3. /\ at'[p].step = "idle" /\ at'[p].row = None
        /\ \A q \in Process \ {p} : at'[q] = at[q]
    BY <1>0, <2>1, RestsFor
  <2>4. Conserves(rows, rows', DOMAIN sent, D)
    <3> DEFINE S == {i \in DOMAIN rows : rows[i].epoch >= epoch}
    <3>1. S \subseteq DOMAIN rows /\ rows' = Picked(rows, S)
      BY <2>1, Zenon DEF Current
    <3>2. \A k \in DOMAIN rows \ S : ToSet(rows[k].msgs) \subseteq D
      BY <1>0, <2>2, TypeFacts DEF RowsFor, RowFor
    <3> HIDE DEF S, D
    <3>3. Shrinks(rows, rows', D)
      BY <1>0, <3>1, <3>2, PickedShrinks
    <3> QED BY <1>0, <3>3, ShrinksConserves
  <2>5. slot' = None \/ (slot # None /\ slot'.id = slot.id /\ slot'.msgs = slot.msgs)
    BY <1>0, <2>1, FlaggedKeeps
  <2>6. \A u \in InHand(slot', settling', at') :
          (\E v \in InHand(slot, settling, at) : u.id = v.id /\ u.msgs = v.msgs) \/ Agreeing(rows', {u})
    <3>1. \A q \in Process : at'[q].row = None \/ at'[q].row = at[q].row
      BY <2>3
    <3> QED BY <2>1, <2>5, <3>1, HandsKept
  <2>7. slot' # None => Elsewhere(rows', slot'.id, ToSet(slot'.msgs), D)
    <3>1. slot' # None => ToSet(slot'.msgs) \subseteq D
      BY <1>0, <2>2, <2>5, TypeFacts DEF TurnFor
    <3> QED BY <3>1 DEF Elsewhere
  <2>8. \A q \in Process : /\ at'[q].step = "aborted" => at'[q] = at[q]
                           /\ at'[q].step = "stopping" => at'[q] = at[q]
    BY <2>3
  <2> QED BY <1>0, <2>2, <2>4, <2>6, <2>7, <2>8, LossStep
<1>4. CASE Compact(p)
  <2>1. UNCHANGED <<sent, rows, slot, settling, answered, stopped>> /\ at' = [at EXCEPT ![p].step = "compacting"]
    BY <1>4 DEF Compact
  <2>2. Moves(at, at', p, [step |-> "compacting", row |-> at[p].row])
    BY <1>0, <2>1, StepsTo DEF Step
  <2>3. /\ at'[p].step = "compacting" /\ at'[p].row = at[p].row
        /\ \A q \in Process \ {p} : at'[q] = at[q]
    BY <1>0, <2>2 DEF Moves
  <2>4. Touched(rows, rows')
    BY <2>1 DEF Touched
  <2> QED BY <1>0, <2>1, <2>3, <2>4, LossPlain
<1>5. CASE CompactBegins(p)
  <2>1. UNCHANGED <<sent, rows, slot, settling, answered, stopped>> /\ at' = [at EXCEPT ![p] = Resting]
    BY <1>5 DEF CompactBegins
  <2>2. /\ at'[p].step = "idle" /\ at'[p].row = None
        /\ \A q \in Process \ {p} : at'[q] = at[q]
    BY <1>0, <2>1, RestsFor
  <2>3. Touched(rows, rows')
    BY <2>1 DEF Touched
  <2> QED BY <1>0, <2>1, <2>2, <2>3, LossPlain
<1> QED BY <1>2, <1>3, <1>4, <1>5

LEMMA LossOthers ==
  ASSUME RoomInv, LossParts, TypeOK',
         \/ \E p \in Process : FlagSteer(p) \/ Crash(p)
         \/ ClaimAges \/ Unfence \/ LeaseExpires
  PROVE  LossParts'
PROOF
<1>0. TypeOK /\ RowsFor(rows, sent) /\ DOMAIN at = Process
  BY TypeFacts DEF RoomInv, EpochInv
<1>1. ASSUME NEW p \in Process, FlagSteer(p) PROVE LossParts'
  <2>1. /\ at[p].step = "flagging" /\ slot' = Flagged("internal") /\ at' = [at EXCEPT ![p] = Resting]
        /\ UNCHANGED <<sent, rows, settling, answered, stopped>>
    BY <1>1 DEF FlagSteer, Stands
  <2>2. Conserves(rows, rows', DOMAIN sent, answered' \cup stopped')
    BY <1>0, <2>1, SameShrinks, ShrinksConserves
  <2>3. slot' = None \/ (slot # None /\ slot'.id = slot.id /\ slot'.msgs = slot.msgs)
    BY <1>0, <2>1, FlaggedKeeps
  <2>4. /\ at'[p].step = "idle" /\ at'[p].row = None
        /\ \A q \in Process \ {p} : at'[q] = at[q]
    BY <1>0, <2>1, RestsFor
  <2>5. \A u \in InHand(slot', settling', at') :
          (\E v \in InHand(slot, settling, at) : u.id = v.id /\ u.msgs = v.msgs) \/ Agreeing(rows', {u})
    <3>1. \A q \in Process : at'[q].row = None \/ at'[q].row = at[q].row
      BY <2>4
    <3> QED BY <2>1, <2>3, <3>1, HandsKept
  <2>6. Over \subseteq answered' \cup stopped' /\ Accepted' = Accepted
    BY <2>1 DEF Over, Accepted
  <2>7. Flagging
    BY <2>1 DEF Flagging
  <2>8. \A q \in Process : /\ at'[q].step = "aborted" => at'[q] = at[q]
                           /\ at'[q].step = "stopping" => at'[q] = at[q]
    BY <2>4
  <2> QED BY <1>0, <2>2, <2>3, <2>5, <2>6, <2>7, <2>8, LossStep
<1>2. ASSUME NEW p \in Process, Crash(p) PROVE LossParts'
  <2>1. /\ at' = [at EXCEPT ![p] = Resting] /\ settling' \subseteq settling
        /\ UNCHANGED <<sent, rows, slot, answered, stopped>>
    BY <1>2 DEF Crash
  <2>2. /\ at'[p].step = "idle" /\ at'[p].row = None
        /\ \A q \in Process \ {p} : at'[q] = at[q]
    BY <1>0, <2>1, RestsFor
  <2>3. Touched(rows, rows')
    BY <2>1 DEF Touched
  <2> QED BY <1>0, <2>1, <2>2, <2>3, LossPlain
<1>3. CASE ClaimAges
  <2>1. Touched(rows, rows') /\ UNCHANGED <<sent, slot, settling, at, answered, stopped>>
    BY <1>0, <1>3, AgedRows
  <2> QED BY <1>0, <2>1, LossPlain
<1>4. CASE Unfence \/ LeaseExpires
  <2>1. Touched(rows, rows') /\ UNCHANGED <<sent, settling, at, answered, stopped>>
    BY <1>4 DEF Unfence, LeaseExpires, Touched
  <2>2. slot' = None \/ slot' = slot
    BY <1>4 DEF Unfence, LeaseExpires
  <2> QED BY <1>0, <2>1, <2>2, LossPlain
<1> QED BY <1>1, <1>2, <1>3, <1>4

LossInv == RoomInv /\ LossParts

LEMMA LossNext == Swift /\ LossInv /\ [Next]_vars => LossInv'
PROOF
<1> SUFFICES ASSUME Swift, LossInv, [Next]_vars PROVE LossInv'
  OBVIOUS
<1>0. RoomInv /\ LossParts /\ RoomInv' /\ TypeOK'
  <2>1. RoomInv'
    BY RoomNext DEF LossInv
  <2> QED BY <2>1 DEF LossInv, RoomInv, EpochInv
<1> SUFFICES LossParts'
  BY <1>0 DEF LossInv
<1>1. CASE UNCHANGED vars
  <2>1. Touched(rows, rows')
    BY <1>1 DEF vars, Touched
  <2> QED BY <1>0, <1>1, <2>1, LossPlain DEF vars, RoomInv, EpochInv
<1>2. ASSUME NEW p \in Process,
             (\E a \in Actor, t \in Thread, steer \in BOOLEAN : Submit(p, a, t, steer)) \/ SteerQueued(p)
      PROVE  LossParts'
  BY <1>0, <1>2, LossMint
<1>3. ASSUME NEW p \in Process, Claim(p) PROVE LossParts'
  BY <1>0, <1>3, LossClaim
<1>4. ASSUME NEW p \in Process, Admit(p) \/ Take(p) \/ TakeFails(p) PROVE LossParts'
  BY <1>0, <1>4, LossWorker
<1>5. ASSUME NEW p \in Process,
             Inject(p) \/ ProviderContent(p) \/ TurnEnds(p) \/ Settle(p) \/ SettleError(p)
      PROVE  LossParts'
  BY <1>0, <1>5, LossTurn
<1>6. ASSUME NEW p \in Process, Restart(p) \/ RestartDropped(p) \/ RestartFails(p)
      PROVE  LossParts'
  BY <1>0, <1>6, LossRetry
<1>7. ASSUME NEW p \in Process, Stop(p) \/ Cancel(p) \/ Compact(p) \/ CompactBegins(p)
      PROVE  LossParts'
  BY <1>0, <1>7, LossEpochs
<1>8. ASSUME NEW p \in Process, FlagSteer(p) \/ Crash(p) PROVE LossParts'
  BY <1>0, <1>8, LossOthers
<1>9. CASE ClaimAges \/ Unfence \/ LeaseExpires
  BY <1>0, <1>9, LossOthers
<1> QED BY <1>1, <1>2, <1>3, <1>4, <1>5, <1>6, <1>7, <1>8, <1>9, Zenon DEF Next

LEMMA LossInit == Init => LossInv
PROOF
<1> SUFFICES ASSUME Init PROVE LossInv
  OBVIOUS
<1>1. /\ DOMAIN rows = {} /\ slot = None /\ settling = {} /\ DOMAIN sent = {}
      /\ \A p \in Process : at[p].step = "idle"
  BY RestsFor DEF Init
<1>2. Accepted = {}
  BY <1>1 DEF Accepted
<1>3. LossParts
  BY <1>1, <1>2 DEF LossParts, NothingIsDropped, Apart, Agreeing, Superseded
<1> QED BY <1>3, RoomInit DEF LossInv

LEMMA LossHolds == Swift => (Spec => []LossInv)
PROOF
<1>1. CASE ~Swift
  BY <1>1
<1>2. CASE Swift
  <2>1. LossInv /\ [Next]_vars => LossInv'
    BY <1>2, LossNext
  <2> QED BY <2>1, LossInit, PTL DEF Spec
<1> QED BY <1>1, <1>2

(* No message falls out of the system, through merges, steers, retries, stops, *)
(* settlements and crashes, as long as others come in only while a worker      *)
(* settles (mergeRuntimeUserTurnRequest, onSettled, cancelBeforeEpoch).       *)
THEOREM NothingIsDroppedHolds == Swift => (Spec => []NothingIsDropped)
PROOF
<1>1. LossInv => NothingIsDropped
  BY DEF LossInv, LossParts
<1> QED BY <1>1, LossHolds, PTL

(* What is elsewhere than in the row of a turn is in the other rows.          *)
LEMMA ElsewhereRows ==
  ASSUME RowsFor(rows, sent), NEW id, NEW M, Elsewhere(rows, id, M, Over)
  PROVE  M \subseteq MsgsOf(Without(rows, {id})) \cup answered \cup stopped
PROOF
<1> DEFINE S == {i \in DOMAIN rows : rows[i].id \notin {id}}
           t == Without(rows, {id})
<1>1. S \subseteq DOMAIN rows /\ t = Picked(rows, S)
  BY Zenon DEF Without
<1> SUFFICES ASSUME NEW m \in M, m \notin Over PROVE m \in MsgsOf(t)
  BY DEF Over
<1>2. PICK i \in DOMAIN rows : rows[i].id # id /\ m \in ToSet(rows[i].msgs)
  BY DEF Elsewhere
<1>3. i \in S
  BY <1>2
<1> HIDE DEF S, t
<1>4. \E k \in DOMAIN t : t[k] = rows[i]
  BY <1>1, <1>3, PickedRows
<1> QED BY <1>2, <1>4 DEF MsgsOf

(* A turn that is told it is superseded has a replacement: what it carries is   *)
(* in a row that waits or in the provider's session (submitRuntimeGatewayTurn's *)
(* merge commits before requestRuntimeTurnAbort).                            *)
THEOREM SupersededIsReplacedHolds == Swift => (Spec => []SupersededIsReplaced)
PROOF
<1>1. ASSUME LossInv PROVE SupersededIsReplaced
  <2> SUFFICES ASSUME slot # None, slot.abort = "internal"
               PROVE  ToSet(slot.msgs) \subseteq MsgsOf(Without(rows, {slot.id})) \cup answered \cup stopped
    BY DEF SupersededIsReplaced
  <2>1. RowsFor(rows, sent)
    BY <1>1, TypeFacts DEF LossInv, RoomInv, EpochInv
  <2>2. Elsewhere(rows, slot.id, ToSet(slot.msgs), Over)
    BY <1>1 DEF LossInv, LossParts, Superseded
  <2> QED BY <2>1, <2>2, ElsewhereRows
<1>2. LossInv => SupersededIsReplaced
  BY <1>1
<1> QED BY <1>2, LossHolds, PTL

-----------------------------------------------------------------------------
(* Conversations.                                                            *)

(* Only a message, or a steer of what waits, makes a row; nothing else orders   *)
(* rows anew.                                                                *)
LEMMA CompleteShrinks ==
  ASSUME TypeOK, NEW id, NEW q
  PROVE  Shrinks(rows, Complete(rows, id, q), Accepted)
PROOF
<1> DEFINE S == {i \in DOMAIN rows : ~(rows[i].id = id /\ rows[i].claim = q)}
<1>1. S \subseteq DOMAIN rows /\ Complete(rows, id, q) = Picked(rows, S)
  BY Zenon DEF Complete
<1>2. RowsFor(rows, sent) /\ \A k \in DOMAIN rows \ S : ToSet(rows[k].msgs) \subseteq Accepted
  BY TypeFacts DEF RowsFor, RowFor
<1> HIDE DEF S
<1> QED BY <1>1, <1>2, PickedShrinks

LEMMA NextShrinks ==
  ASSUME Swift, RoomInv, [Next]_vars,
         \A p \in Process : /\ \A a \in Actor, t \in Thread, steer \in BOOLEAN : ~Submit(p, a, t, steer)
                            /\ ~SteerQueued(p)
  PROVE  sent' = sent /\ Shrinks(rows, rows', Accepted)
PROOF
<1>0. TypeOK /\ RowsFor(rows, sent) /\ \A i \in DOMAIN rows : ToSet(rows[i].msgs) \subseteq Accepted
  BY TypeFacts DEF RoomInv, EpochInv, RowsFor, RowFor
<1>1. \A p \in Process : /\ ~TakeFails(p) /\ ~RestartFails(p)
                         /\ Stands(p, "claimed") => at[p].row.epoch = epoch
  BY RoomIsFree DEF RoomInv
<1>2. ASSUME rows' = rows PROVE Shrinks(rows, rows', Accepted)
  BY <1>2, SameShrinks
<1>3. ASSUME Touched(rows, rows') PROVE Shrinks(rows, rows', Accepted)
  BY <1>3, TouchedShrinks
<1>4. ASSUME NEW id, NEW q, rows' = Complete(rows, id, q) PROVE Shrinks(rows, rows', Accepted)
  BY <1>0, <1>4, CompleteShrinks
<1>5. CASE UNCHANGED vars
  BY <1>2, <1>5 DEF vars
<1>6. ASSUME NEW p \in Process, Claim(p) PROVE sent' = sent /\ Touched(rows, rows')
  BY <1>0, <1>6, ClaimRows
<1>7. ASSUME NEW p \in Process, Take(p) PROVE sent' = sent /\ Touched(rows, rows')
  BY <1>0, <1>7, TakeParts
<1>8. ASSUME NEW p \in Process, ProviderContent(p) PROVE sent' = sent /\ Touched(rows, rows')
  <2>1. Touched(rows, rows')
    BY <1>0, <1>8, ContentRows
  <2> QED BY <1>8, <2>1 DEF ProviderContent
<1>9. ASSUME NEW p \in Process, Cancel(p) PROVE sent' = sent /\ Shrinks(rows, rows', Accepted)
  <2> DEFINE S == {i \in DOMAIN rows : rows[i].epoch >= epoch}
  <2>1. S \subseteq DOMAIN rows /\ rows' = Picked(rows, S) /\ sent' = sent
    BY <1>9, Zenon DEF Cancel, Current
  <2>2. \A k \in DOMAIN rows \ S : ToSet(rows[k].msgs) \subseteq Accepted
    BY <1>0
  <2> HIDE DEF S
  <2> QED BY <1>0, <2>1, <2>2, PickedShrinks
<1>10. ASSUME NEW p \in Process, Settle(p) \/ SettleError(p) \/ RestartDropped(p)
       PROVE  sent' = sent /\ \E id, q : rows' = Complete(rows, id, q)
  BY <1>10 DEF Settle, SettleError, RestartDropped
<1>11. ASSUME NEW p \in Process,
              \/ FlagSteer(p) \/ Inject(p) \/ TurnEnds(p) \/ Restart(p)
              \/ Stop(p) \/ Compact(p) \/ CompactBegins(p) \/ Crash(p)
       PROVE  sent' = sent /\ rows' = rows
  BY <1>11 DEF FlagSteer, Inject, TurnEnds, Restart, Stop, Compact, CompactBegins, Crash
<1>12. ASSUME NEW p \in Process, Admit(p) PROVE sent' = sent /\ rows' = rows
  BY <1>1, <1>12 DEF Admit
<1>13. CASE ClaimAges
  <2>1. sent' = sent /\ Touched(rows, rows')
    BY <1>0, <1>13, AgedRows
  <2> QED BY <1>3, <2>1
<1>14. CASE Unfence \/ LeaseExpires
  BY <1>2, <1>14 DEF Unfence, LeaseExpires
<1>15. ASSUME NEW p \in Process, ~TakeFails(p), ~RestartFails(p), ~SteerQueued(p),
              \/ FlagSteer(p) \/ Claim(p) \/ Admit(p) \/ Take(p) \/ TakeFails(p)
              \/ Inject(p) \/ ProviderContent(p)
              \/ TurnEnds(p) \/ Settle(p) \/ SettleError(p)
              \/ Restart(p) \/ RestartDropped(p) \/ RestartFails(p)
              \/ Stop(p) \/ Cancel(p) \/ Compact(p) \/ CompactBegins(p) \/ Crash(p)
       PROVE  sent' = sent /\ Shrinks(rows, rows', Accepted)
  BY <1>2, <1>3, <1>4, <1>6, <1>7, <1>8, <1>9, <1>10, <1>11, <1>12, <1>15, Zenon
<1> QED BY <1>1, <1>5, <1>13, <1>14, <1>15, Zenon DEF Next

(* The row of a request belongs to whoever asked, where they asked it.        *)
Own ==
  \A i \in DOMAIN rows : /\ sent[rows[i].id].actor = rows[i].actor
                         /\ sent[rows[i].id].thread = rows[i].thread

FollowedUp(st, id) == \E m \in DOMAIN st : /\ m > id /\ st[m].actor = st[id].actor
                                           /\ st[m].thread = st[id].thread

(* A request whose turn is superseded, or will be, has been followed up.      *)
Followed ==
  slot # None /\ slot.id # None /\ (slot.abort = "internal" \/ Flagging) => FollowedUp(sent, slot.id)

SteerInv == RoomInv /\ Own /\ Followed

LEMMA SteerMint ==
  ASSUME Swift, SteerInv, TypeOK', NEW p \in Process,
         (\E a \in Actor, t \in Thread, steer \in BOOLEAN : Submit(p, a, t, steer)) \/ SteerQueued(p)
  PROVE  Own' /\ Followed'
PROOF
<1>0. /\ TypeOK /\ RowsFor(rows, sent) /\ Running /\ RoomInv
      /\ DOMAIN sent = 1..Len(sent) /\ Len(sent) \in Nat
  BY TypeFacts DEF SteerInv, RoomInv, EpochInv, RoomParts
<1>1. PICK new, kept, R, r : Mints(p, new, kept, R, r)
  BY <1>0, MintKinds
<1>2. /\ new.id = Len(sent) + 1 /\ DOMAIN sent' = DOMAIN sent \cup {new.id} /\ Longer(sent, sent')
      /\ sent'[new.id].actor = new.actor /\ sent'[new.id].thread = new.thread
      /\ slot' = slot
      /\ \/ at' = at
         \/ 1 \in Absorbed(rows, new, kept) /\ rows[1].claim # None /\ at' = [at EXCEPT ![p].step = "flagging"]
  BY <1>1, Zenon DEF Mints
<1>3. /\ r.id = new.id /\ r.actor = new.actor /\ r.thread = new.thread
      /\ Len(R) \in Nat /\ DOMAIN R = 1..Len(R) /\ DOMAIN rows' = 1..(Len(R) + 1)
      /\ \A i \in DOMAIN R : rows'[i] = R[i]
      /\ rows'[Len(R) + 1] = r
      /\ \A i \in DOMAIN R : \E k \in DOMAIN rows \ Absorbed(rows, new, kept) : R[i] = rows[k]
  BY <1>1, Zenon DEF Mints, MergesTo
<1>4. \A i \in DOMAIN rows' : rows'[i] = r \/ \E k \in DOMAIN rows : rows'[i] = rows[k]
  <2>1. \A i \in DOMAIN rows' : i \in DOMAIN R \/ i = Len(R) + 1
    BY <1>3
  <2> QED BY <1>3, <2>1, Zenon
<1>5. \A k \in DOMAIN rows : rows[k].id \in DOMAIN sent
  BY <1>0 DEF RowsFor, RowFor
<1>6. Own'
  BY <1>2, <1>3, <1>4, <1>5 DEF SteerInv, Own, Longer
<1>7. ASSUME slot # None, slot.id # None, slot.abort = "internal" \/ Flagging' PROVE FollowedUp(sent', slot.id)
  <2>0. slot.id \in DOMAIN sent
    BY <1>0, <1>7, TypeFacts DEF TurnFor
  <2>1. CASE slot.abort = "internal" \/ Flagging
    <3>1. FollowedUp(sent, slot.id)
      BY <1>7, <2>1 DEF SteerInv, Followed
    <3> QED BY <1>2, <2>0, <3>1 DEF FollowedUp, Longer
  <2>2. CASE ~(slot.abort = "internal" \/ Flagging)
    <3>1. 1 \in Absorbed(rows, new, kept) /\ rows[1].claim # None
      BY <1>2, <1>7, <2>2 DEF Flagging
    <3>2. 1 \in DOMAIN rows /\ rows[1].thread = new.thread /\ rows[1].actor = new.actor
      BY <3>1 DEF Absorbed
    <3>3. rows[1].id = slot.id
      BY <1>0, <1>7, <3>1, <3>2 DEF Running
    <3>4. sent[slot.id].actor = new.actor /\ sent[slot.id].thread = new.thread
      BY <3>2, <3>3 DEF SteerInv, Own
    <3>5. new.id > slot.id
      BY <1>0, <1>2, <2>0
    <3> QED BY <1>2, <2>0, <3>4, <3>5 DEF FollowedUp, Longer
  <2> QED BY <2>1, <2>2
<1> QED BY <1>2, <1>6, <1>7 DEF Followed

(* Otherwise a turn is superseded only if it was about to be, or nobody is.    *)
LEMMA NextSupersedes ==
  ASSUME Swift, RoomInv, [Next]_vars,
         \A p \in Process : /\ \A a \in Actor, t \in Thread, steer \in BOOLEAN : ~Submit(p, a, t, steer)
                            /\ ~SteerQueued(p)
  PROVE  slot' # None /\ slot'.id # None /\ (slot'.abort = "internal" \/ Flagging') =>
           slot # None /\ slot'.id = slot.id /\ (slot.abort = "internal" \/ Flagging)
PROOF
<1> DEFINE Goal == slot' # None /\ slot'.id # None /\ (slot'.abort = "internal" \/ Flagging') =>
                     slot # None /\ slot'.id = slot.id /\ (slot.abort = "internal" \/ Flagging)
<1>0. TypeOK /\ DOMAIN at = Process
  BY TypeFacts DEF RoomInv, EpochInv
<1>1. \A p \in Process : ~TakeFails(p) /\ ~RestartFails(p)
  BY RoomIsFree DEF RoomInv
<1>2. ASSUME slot' = slot \/ slot' = None, Flagging' => Flagging PROVE Goal
  BY <1>2
<1>3. ASSUME at' = at PROVE Flagging' => Flagging
  BY <1>3 DEF Flagging
<1>4. ASSUME NEW p \in Process, at' = [at EXCEPT ![p] = Resting] PROVE Flagging' => Flagging
  <2>1. /\ at'[p].step = "idle" /\ \A q \in Process \ {p} : at'[q] = at[q]
    BY <1>0, <1>4, RestsFor
  <2> QED BY <2>1 DEF Flagging
<1>5. ASSUME NEW p \in Process, NEW s \in Step, s # "flagging",
             at' = [at EXCEPT ![p].step = s]
      PROVE  Flagging' => Flagging
  <2>1. Moves(at, at', p, [step |-> s, row |-> at[p].row])
    BY <1>0, <1>5, StepsTo
  <2>2. /\ at'[p].step = s /\ \A q \in Process \ {p} : at'[q] = at[q]
    BY <1>0, <2>1 DEF Moves
  <2> QED BY <1>5, <2>2 DEF Flagging
<1>6. CASE UNCHANGED vars
  BY <1>2, <1>3, <1>6 DEF vars
<1>7. ASSUME NEW p \in Process, FlagSteer(p) PROVE Goal
  <2>1. slot' = Flagged("internal") /\ Flagging
    BY <1>7 DEF FlagSteer, Stands, Flagging
  <2> QED BY <1>0, <2>1, FlaggedKeeps
<1>8. ASSUME NEW p \in Process, Claim(p) PROVE Goal
  <2>1. slot' = slot /\ at' = [at EXCEPT ![p] = [step |-> "claimed", row |-> rows'[1]]]
    BY <1>8, ClaimsFirst DEF Claim
  <2>2. /\ at'[p].step = "claimed" /\ \A q \in Process \ {p} : at'[q] = at[q]
    BY <1>0, <2>1
  <2>3. Flagging' => Flagging
    BY <2>2 DEF Flagging
  <2> QED BY <1>2, <2>1, <2>3
<1>9. ASSUME NEW p \in Process, Admit(p) PROVE Goal
  <2>1. slot' = slot /\ (at' = [at EXCEPT ![p] = Resting] \/ at' = [at EXCEPT ![p].step = "admitted"])
    BY <1>9 DEF Admit
  <2> QED BY <1>2, <1>4, <1>5, <2>1 DEF Step
<1>10. ASSUME NEW p \in Process, Take(p) \/ Restart(p) PROVE Goal
  <2>1. at' = [at EXCEPT ![p] = Resting] /\ \E t, th : slot' = Started(p, t, th)
    BY <1>10 DEF Take, Restart
  <2>2. slot'.abort = "none"
    BY <2>1 DEF Started
  <2>3. \A q \in Process \ {p} : at[q].step \in Still
    BY <1>10, OthersStill DEF Take, Restart, Step
  <2>4. /\ at'[p].step = "idle" /\ \A q \in Process \ {p} : at'[q] = at[q]
    BY <1>0, <2>1, RestsFor
  <2>5. ~Flagging'
    BY <2>3, <2>4 DEF Flagging, Still
  <2> QED BY <2>2, <2>5
<1>11. ASSUME NEW p \in Process, Inject(p) PROVE Goal
  <2>1. slot'.id = None
    BY <1>0, <1>11, InjectTurn
  <2> QED BY <2>1
<1>12. ASSUME NEW p \in Process, ProviderContent(p) \/ SettleError(p) PROVE Goal
  BY <1>2, <1>3, <1>12 DEF ProviderContent, SettleError
<1>13. ASSUME NEW p \in Process, TurnEnds(p) PROVE Goal
  BY <1>13 DEF TurnEnds
<1>14. ASSUME NEW p \in Process,
              Settle(p) \/ RestartDropped(p) \/ CompactBegins(p) \/ Crash(p)
       PROVE  Goal
  <2>1. slot' = slot /\ at' = [at EXCEPT ![p] = Resting]
    BY <1>14 DEF Settle, RestartDropped, CompactBegins, Crash
  <2> QED BY <1>2, <1>4, <2>1
<1>15. ASSUME NEW p \in Process, Stop(p) \/ Compact(p) PROVE Goal
  <2>1. slot' = slot /\ (at' = [at EXCEPT ![p].step = "stopping"] \/ at' = [at EXCEPT ![p].step = "compacting"])
    BY <1>15 DEF Stop, Compact
  <2> QED BY <1>2, <1>5, <2>1 DEF Step
<1>16. ASSUME NEW p \in Process, Cancel(p) PROVE Goal
  <2>1. slot' = Flagged("external") /\ at' = [at EXCEPT ![p] = Resting]
    BY <1>16 DEF Cancel
  <2>2. Flagging' => Flagging
    BY <1>4, <2>1
  <2> QED BY <1>0, <2>1, <2>2, FlaggedKeeps
<1>17. CASE ClaimAges \/ Unfence \/ LeaseExpires
  BY <1>2, <1>3, <1>17 DEF ClaimAges, Unfence, LeaseExpires
<1> QED
  BY <1>1, <1>6, <1>7, <1>8, <1>9, <1>10, <1>11, <1>12, <1>13, <1>14, <1>15, <1>16, <1>17, Zenon DEF Next

(* Whether this step of Next submits a message or steers what waits. *)
Minting ==
  \E p \in Process : (\E a \in Actor, t \in Thread, steer \in BOOLEAN : Submit(p, a, t, steer)) \/ SteerQueued(p)

LEMMA SteerNext == Swift /\ SteerInv /\ [Next]_vars => SteerInv'
PROOF
<1> SUFFICES ASSUME Swift, SteerInv, [Next]_vars PROVE SteerInv'
  OBVIOUS
<1>0. RoomInv /\ RoomInv' /\ TypeOK /\ TypeOK' /\ RowsFor(rows, sent)
  <2>1. RoomInv'
    BY RoomNext DEF SteerInv
  <2> QED BY <2>1, TypeFacts DEF SteerInv, RoomInv, EpochInv
<1>1. CASE Minting
  <2>1. Own' /\ Followed'
    BY <1>0, <1>1, SteerMint DEF Minting
  <2> QED BY <1>0, <2>1 DEF SteerInv
<1>2. CASE ~Minting
  <2>0. \A p \in Process : /\ \A a \in Actor, t \in Thread, steer \in BOOLEAN : ~Submit(p, a, t, steer)
                           /\ ~SteerQueued(p)
    BY <1>2 DEF Minting
  <2>1. sent' = sent /\ Shrinks(rows, rows', Accepted)
    BY <1>0, <2>0, NextShrinks
  <2>2. PICK h : ShrinksBy(rows, rows', Accepted, h)
    BY <2>1 DEF Shrinks
  <2>3. Own'
    BY <2>1, <2>2 DEF SteerInv, Own, ShrinksBy, Alike
  <2>4. slot' # None /\ slot'.id # None /\ (slot'.abort = "internal" \/ Flagging') =>
          slot # None /\ slot'.id = slot.id /\ (slot.abort = "internal" \/ Flagging)
    BY <1>0, <2>0, NextSupersedes
  <2>5. Followed'
    BY <2>1, <2>4 DEF SteerInv, Followed
  <2> QED BY <1>0, <2>3, <2>5 DEF SteerInv
<1> QED BY <1>1, <1>2

LEMMA SteerHolds == Swift => (Spec => []SteerInv)
PROOF
<1>1. CASE ~Swift
  BY <1>1
<1>2. CASE Swift
  <2>1. Init => SteerInv
    <3> SUFFICES ASSUME Init PROVE SteerInv
      OBVIOUS
    <3>1. DOMAIN rows = {} /\ slot = None
      BY DEF Init
    <3> QED BY <3>1, RoomInit DEF SteerInv, Own, Followed
  <2>2. SteerInv /\ [Next]_vars => SteerInv'
    BY <1>2, SteerNext
  <2> QED BY <2>1, <2>2, PTL DEF Spec
<1> QED BY <1>1, <1>2

(* Nobody else's message, and none of another thread, aborts a turn: only a      *)
(* later message of its own conversation does (submitRuntimeGatewayTurn asks    *)
(* for the abort when its merge absorbed the active request).                  *)
THEOREM OnlyOwnFollowUpSteersHolds == Swift => (Spec => []OnlyOwnFollowUpSteers)
PROOF
<1>1. SteerInv => OnlyOwnFollowUpSteers
  BY DEF SteerInv, Followed, FollowedUp, OnlyOwnFollowUpSteers
<1> QED BY <1>1, SteerHolds, PTL

-----------------------------------------------------------------------------
(* The messages of one row belong to its actor, and two messages of one          *)
(* conversation are in order of arrival.                                       *)
OrderedIn(st, rs) ==
  \A i, j \in DOMAIN rs : \A k \in DOMAIN rs[i].msgs, l \in DOMAIN rs[j].msgs :
    /\ st[rs[i].msgs[k]].actor = rs[i].actor
    /\ rs[i].actor = rs[j].actor /\ rs[i].thread = rs[j].thread /\ (i < j \/ (i = j /\ k < l))
       => rs[i].msgs[k] < rs[j].msgs[l]

LEMMA ShrinksOrder ==
  ASSUME NEW st, NEW rs, OrderedIn(st, rs), NEW t, NEW D, Shrinks(rs, t, D)
  PROVE  OrderedIn(st, t)
PROOF
<1>1. PICK h : ShrinksBy(rs, t, D, h)
  BY DEF Shrinks
<1>2. \A i \in DOMAIN t : /\ h[i] \in DOMAIN rs /\ t[i].msgs = rs[h[i]].msgs
                          /\ t[i].actor = rs[h[i]].actor /\ t[i].thread = rs[h[i]].thread
  BY <1>1 DEF ShrinksBy, Alike
<1>3. \A i, j \in DOMAIN t : i < j => h[i] < h[j]
  BY <1>1 DEF ShrinksBy
<1> QED BY <1>2, <1>3 DEF OrderedIn

(* Where the messages of the rows at the places S come from. *)
SaidFrom(rs, S, s, b, o) ==
  \A k \in DOMAIN s :
    /\ b[k] \in S /\ o[k] \in DOMAIN rs[b[k]].msgs /\ s[k] = rs[b[k]].msgs[o[k]]
    /\ \A l \in DOMAIN s : k < l => b[k] < b[l] \/ (b[k] = b[l] /\ o[k] < o[l])

LEMMA SaidOrigins ==
  ASSUME NEW rs \in Seq(Row), NEW S, S \subseteq DOMAIN rs
  PROVE  \E b, o : SaidFrom(rs, S, Said(rs, S), b, o)
PROOF
<1> DEFINE ss == [i \in DOMAIN rs |-> IF i \in S THEN rs[i].msgs ELSE <<>>]
           s == Said(rs, S)
<1>1. \A i \in DOMAIN rs : rs[i].msgs \in Seq(Request)
  BY Elements, RowFields
<1>2. ss \in Seq(Seq(Request)) /\ DOMAIN ss = DOMAIN rs /\ Len(ss) \in Nat /\ DOMAIN ss = 1..Len(ss)
  <2>1. <<>> \in Seq(Request) /\ DOMAIN rs = 1..Len(rs) /\ Len(rs) \in Nat
    OBVIOUS
  <2>2. \A i \in DOMAIN rs : ss[i] \in Seq(Request)
    BY <1>1, <2>1, Zenon
  <2>3. ss = [i \in 1..Len(rs) |-> ss[i]] /\ DOMAIN ss = DOMAIN rs
    BY <2>1
  <2> HIDE DEF ss
  <2> QED BY <2>1, <2>2, <2>3
<1>3. /\ \A i \in S : ss[i] = rs[i].msgs
      /\ \A i \in DOMAIN rs \ S : ss[i] = <<>>
  OBVIOUS
<1>4. s = Joined(ss)
  BY Zenon DEF Said
<1> HIDE DEF ss, s
<1>5. /\ s \in Seq(Request)
      /\ \E b, o : Origins(s, ss, Len(ss), b, o)
  BY <1>2, <1>4, JoinedOrigins
<1>6. PICK b, o : Origins(s, ss, Len(ss), b, o)
  BY <1>5
<1>7. DOMAIN s = 1..Len(s)
  BY <1>5
<1>8. ASSUME NEW k \in DOMAIN s
      PROVE  b[k] \in S /\ o[k] \in DOMAIN rs[b[k]].msgs /\ s[k] = rs[b[k]].msgs[o[k]]
  <2>1. b[k] \in DOMAIN rs /\ o[k] \in 1..Len(ss[b[k]]) /\ s[k] = ss[b[k]][o[k]]
    BY <1>2, <1>6, <1>7 DEF Origins
  <2>2. b[k] \in S
    <3>1. b[k] \notin S => ss[b[k]] = <<>>
      BY <1>3, <2>1
    <3>2. Len(<<>>) = 0
      OBVIOUS
    <3> QED BY <2>1, <3>1, <3>2
  <2>3. ss[b[k]] = rs[b[k]].msgs /\ DOMAIN rs[b[k]].msgs = 1..Len(rs[b[k]].msgs)
    BY <1>1, <1>3, <2>1, <2>2
  <2> QED BY <2>1, <2>2, <2>3
<1>9. \A k, l \in DOMAIN s : k < l => b[k] < b[l] \/ (b[k] = b[l] /\ o[k] < o[l])
  BY <1>6, <1>7 DEF Origins
<1>10. SaidFrom(rs, S, s, b, o)
  BY <1>8, <1>9 DEF SaidFrom
<1> QED BY <1>10 DEF s

(* A row of the conversation that is not absorbed lies before all that are.     *)
LEMMA UnabsorbedFirst ==
  ASSUME RowsFor(rows, sent), NEW new, NEW kept,
         kept = {} \/ (1 \in DOMAIN rows /\ kept = {rows[1].id}),
         NEW x \in DOMAIN rows \ Absorbed(rows, new, kept), NEW c \in Absorbed(rows, new, kept),
         rows[x].actor = new.actor, rows[x].thread = new.thread
  PROVE  x < c
PROOF
<1>1. DOMAIN rows = 1..Len(rows) /\ Len(rows) \in Nat
  BY DEF RowsFor
<1>2. c \in DOMAIN rows /\ rows[c].id \notin kept
  BY DEF Absorbed
<1>3. CASE rows[x].id \in kept
  <2>1. x = 1 /\ c # 1
    BY <1>2, <1>3 DEF RowsFor
  <2> QED BY <1>1, <1>2, <2>1
<1>4. CASE rows[x].id \notin kept
  <2>1. PICK o \in DOMAIN rows : /\ rows[o].thread = new.thread /\ rows[o].id \notin kept
                                 /\ rows[o].actor # new.actor /\ ~(o < x)
    BY <1>4 DEF Absorbed
  <2>2. o < c
    BY <2>1 DEF Absorbed
  <2> QED BY <1>1, <1>2, <2>1, <2>2
<1> QED BY <1>3, <1>4

LEMMA MintsOrder ==
  ASSUME TypeOK, OrderedIn(sent, rows), NEW p, NEW new, NEW kept, NEW R, NEW r, Mints(p, new, kept, R, r)
  PROVE  OrderedIn(sent', rows')
PROOF
<1> DEFINE A == Absorbed(rows, new, kept)
           C == Carried(rows, new, kept)
           S == DOMAIN rows \ A
           s == Said(rows, C)
           n == new.id
<1>0. /\ RowsFor(rows, sent) /\ rows \in Seq(Row) /\ DOMAIN rows = 1..Len(rows) /\ Len(rows) \in Nat
      /\ DOMAIN sent = 1..Len(sent) /\ Len(sent) \in Nat
      /\ \A i \in DOMAIN rows : rows[i].msgs \in Seq(Request) /\ ToSet(rows[i].msgs) \subseteq DOMAIN sent
  <2>1. RowsFor(rows, sent) /\ sent \in Seq(Sent)
    BY TypeFacts
  <2>2. \A i \in DOMAIN rows : rows[i].msgs \in Seq(Request) /\ ToSet(rows[i].msgs) \subseteq DOMAIN sent
    BY <2>1, RowFields DEF RowsFor, RowFor, SaidIn
  <2> QED BY <2>1, <2>2 DEF RowsFor
<1>1. /\ n = Len(sent) + 1 /\ Longer(sent, sent')
      /\ sent'[n].actor = new.actor /\ new.msgs \in {<<>>, <<n>>}
      /\ kept = {} \/ (1 \in DOMAIN rows /\ kept = {rows[1].id})
  BY Zenon DEF Mints
<1>2. /\ r.actor = new.actor /\ r.thread = new.thread /\ r.msgs = s \o new.msgs
      /\ Len(R) \in Nat /\ DOMAIN R = 1..Len(R) /\ DOMAIN rows' = 1..(Len(R) + 1)
      /\ \A i \in DOMAIN R : rows'[i] = R[i]
      /\ rows'[Len(R) + 1] = r
      /\ \E h : Places(R, rows, S, h)
  BY Zenon DEF Mints, MergesTo
<1>3. PICK h : Places(R, rows, S, h)
  BY <1>2
<1>4. C \subseteq A /\ A \subseteq DOMAIN rows
  BY DEF Carried, Absorbed
<1>5. \A c \in A : rows[c].actor = new.actor /\ rows[c].thread = new.thread
  <2>1. ASSUME NEW c \in A, rows[c].actor # new.actor PROVE FALSE
    <3>1. c < c
      BY <2>1 DEF Absorbed
    <3>2. c \in Int
      BY <1>0, <1>4
    <3> QED BY <3>1, <3>2
  <2> QED BY <2>1 DEF Absorbed
<1>6. \A x \in S, c \in A : rows[x].actor = new.actor /\ rows[x].thread = new.thread => x < c
  BY <1>0, <1>1, UnabsorbedFirst
<1>7. PICK b, o : SaidFrom(rows, C, s, b, o)
  <2>1. C \subseteq DOMAIN rows
    BY <1>4
  <2> QED BY <1>0, <2>1, SaidOrigins
<1>8. s \in Seq(Request) /\ DOMAIN s = 1..Len(s) /\ Len(s) \in Nat
  <2>1. C \subseteq DOMAIN rows
    BY <1>4
  <2>2. s \in Seq(Request)
    BY <1>0, <2>1, SaidMessages
  <2> HIDE DEF s
  <2> QED BY <2>2
<1> HIDE DEF A, C, S, s, n
<1>9. /\ \A k \in DOMAIN r.msgs : \/ k \in DOMAIN s /\ r.msgs[k] = s[k]
                                  \/ k = Len(s) + 1 /\ r.msgs[k] = n
      /\ DOMAIN r.msgs \subseteq 1..(Len(s) + 1)
  <2>1. CASE new.msgs = <<>>
    <3>1. s \o <<>> = s
      BY <1>8
    <3> QED BY <1>2, <1>8, <2>1, <3>1
  <2>2. CASE new.msgs = <<n>>
    <3>1. /\ DOMAIN (s \o <<n>>) = 1..(Len(s) + 1)
          /\ \A k \in DOMAIN s : (s \o <<n>>)[k] = s[k]
          /\ (s \o <<n>>)[Len(s) + 1] = n
      <4>1. n \in Request
        BY RowFields DEF Mints, n
      <4>2. <<n>> \in Seq(Request)
        BY <4>1
      <4> QED BY <1>8, <4>2
    <3>2. \A k \in DOMAIN (s \o <<n>>) : k \in DOMAIN s \/ k = Len(s) + 1
      BY <1>8, <3>1
    <3> QED BY <1>2, <2>2, <3>1, <3>2, Zenon
  <2> QED BY <1>1, <2>1, <2>2
<1>10. \A k \in DOMAIN s : /\ b[k] \in C /\ o[k] \in DOMAIN rows[b[k]].msgs /\ s[k] = rows[b[k]].msgs[o[k]]
                           /\ s[k] \in DOMAIN sent
  BY <1>0, <1>4, <1>7 DEF SaidFrom, ToSet
<1>11. \A i \in DOMAIN R : h[i] \in S /\ rows'[i] = rows[h[i]]
  BY <1>2, <1>3 DEF Places
<1>12. \A i, j \in DOMAIN R : i < j => h[i] < h[j]
  BY <1>2, <1>3 DEF Places
<1>13. S \subseteq DOMAIN rows
  BY DEF S
<1>14. \A i \in DOMAIN rows' : i \in DOMAIN R \/ (i = Len(R) + 1 /\ rows'[i] = r)
  BY <1>2
<1>15. ASSUME NEW i \in DOMAIN rows', NEW k \in DOMAIN rows'[i].msgs
       PROVE  sent'[rows'[i].msgs[k]].actor = rows'[i].actor
  <2>1. CASE i \in DOMAIN R
    <3>1. rows'[i] = rows[h[i]] /\ h[i] \in DOMAIN rows
      BY <1>11, <1>13, <2>1
    <3>2. rows'[i].msgs[k] \in DOMAIN sent
      BY <1>0, <1>15, <3>1 DEF ToSet
    <3> QED BY <1>1, <1>15, <3>1, <3>2 DEF OrderedIn, Longer
  <2>2. CASE rows'[i] = r /\ k \in DOMAIN s /\ r.msgs[k] = s[k]
    <3>1. sent[s[k]].actor = rows[b[k]].actor /\ s[k] \in DOMAIN sent
      BY <1>4, <1>10, <2>2 DEF OrderedIn
    <3>2. rows[b[k]].actor = new.actor
      BY <1>4, <1>5, <1>10, <2>2
    <3> QED BY <1>1, <1>2, <2>2, <3>1, <3>2 DEF Longer
  <2>3. CASE rows'[i] = r /\ r.msgs[k] = n
    BY <1>1, <1>2, <2>3
  <2> QED BY <1>9, <1>14, <1>15, <2>1, <2>2, <2>3
<1>16. ASSUME NEW i \in DOMAIN rows', NEW j \in DOMAIN rows',
              NEW k \in DOMAIN rows'[i].msgs, NEW l \in DOMAIN rows'[j].msgs,
              rows'[i].actor = rows'[j].actor, rows'[i].thread = rows'[j].thread,
              i < j \/ (i = j /\ k < l)
       PROVE  rows'[i].msgs[k] < rows'[j].msgs[l]
  <2>1. CASE i \in DOMAIN R /\ j \in DOMAIN R
    <3>1. /\ rows'[i] = rows[h[i]] /\ h[i] \in DOMAIN rows
          /\ rows'[j] = rows[h[j]] /\ h[j] \in DOMAIN rows
          /\ i < j => h[i] < h[j]
      BY <1>11, <1>12, <1>13, <2>1
    <3> QED BY <1>16, <3>1 DEF OrderedIn
  <2>2. CASE i \in DOMAIN R /\ rows'[j] = r
    <3>1. /\ rows'[i] = rows[h[i]] /\ h[i] \in S /\ h[i] \in DOMAIN rows
          /\ rows[h[i]].actor = new.actor /\ rows[h[i]].thread = new.thread
      BY <1>2, <1>11, <1>13, <1>16, <2>2
    <3>2. rows'[i].msgs[k] \in DOMAIN sent
      BY <1>0, <1>16, <3>1 DEF ToSet
    <3>3. CASE l \in DOMAIN s /\ r.msgs[l] = s[l]
      <4>1. b[l] \in A /\ b[l] \in C /\ s[l] = rows[b[l]].msgs[o[l]] /\ o[l] \in DOMAIN rows[b[l]].msgs
        BY <1>4, <1>10, <3>3
      <4>2. h[i] < b[l]
        BY <1>6, <3>1, <4>1
      <4>3. rows[b[l]].actor = new.actor /\ rows[b[l]].thread = new.thread /\ b[l] \in DOMAIN rows
        BY <1>4, <1>5, <4>1
      <4> QED BY <1>16, <2>2, <3>1, <3>3, <4>1, <4>2, <4>3 DEF OrderedIn
    <3>4. CASE r.msgs[l] = n
      BY <1>0, <1>1, <2>2, <3>2, <3>4
    <3> QED BY <1>9, <1>16, <2>2, <3>3, <3>4
  <2>3. CASE i = j /\ rows'[i] = r /\ k < l
    <3>0. k \in 1..(Len(s) + 1) /\ l \in 1..(Len(s) + 1) /\ k \in DOMAIN r.msgs /\ l \in DOMAIN r.msgs
      BY <1>9, <1>16, <2>3
    <3>1. k \in DOMAIN s /\ r.msgs[k] = s[k]
      BY <1>8, <1>9, <2>3, <3>0
    <3>2. CASE l \in DOMAIN s /\ r.msgs[l] = s[l]
      <4>1. /\ b[k] \in DOMAIN rows /\ o[k] \in DOMAIN rows[b[k]].msgs /\ s[k] = rows[b[k]].msgs[o[k]]
            /\ b[l] \in DOMAIN rows /\ o[l] \in DOMAIN rows[b[l]].msgs /\ s[l] = rows[b[l]].msgs[o[l]]
            /\ rows[b[k]].actor = rows[b[l]].actor /\ rows[b[k]].thread = rows[b[l]].thread
        BY <1>4, <1>5, <1>10, <3>1, <3>2
      <4>2. b[k] < b[l] \/ (b[k] = b[l] /\ o[k] < o[l])
        BY <1>7, <2>3, <3>1, <3>2 DEF SaidFrom
      <4>3. s[k] < s[l]
        BY <4>1, <4>2 DEF OrderedIn
      <4> QED BY <2>3, <3>1, <3>2, <4>3
    <3>3. CASE r.msgs[l] = n
      <4>1. s[k] \in DOMAIN sent
        BY <1>10, <3>1
      <4> QED BY <1>0, <1>1, <2>3, <3>1, <3>3, <4>1
    <3> QED BY <1>9, <3>0, <3>2, <3>3
  <2>4. ~(i = Len(R) + 1 /\ j \in DOMAIN R)
    BY <1>2, <1>16
  <2> QED BY <1>14, <1>16, <1>2, <2>1, <2>2, <2>3, <2>4
<1> QED BY <1>15, <1>16 DEF OrderedIn

LEMMA OrderNext == Swift /\ RoomInv /\ ArrivalOrder /\ [Next]_vars => ArrivalOrder'
PROOF
<1> SUFFICES ASSUME Swift, RoomInv, ArrivalOrder, [Next]_vars PROVE ArrivalOrder'
  OBVIOUS
<1>0. TypeOK /\ RowsFor(rows, sent)
  BY TypeFacts DEF RoomInv, EpochInv
<1>1. OrderedIn(sent, rows) /\ (OrderedIn(sent', rows') => ArrivalOrder')
  BY DEF ArrivalOrder, OrderedIn
<1>2. CASE Minting
  <2>1. PICK p \in Process :
          (\E a \in Actor, t \in Thread, steer \in BOOLEAN : Submit(p, a, t, steer)) \/ SteerQueued(p)
    BY <1>2 DEF Minting
  <2>2. \E new, kept, R, r : Mints(p, new, kept, R, r)
    BY <2>1, MintKinds
  <2> QED BY <1>0, <1>1, <2>2, MintsOrder
<1>3. CASE ~Minting
  <2>0. \A p \in Process : /\ \A a \in Actor, t \in Thread, steer \in BOOLEAN : ~Submit(p, a, t, steer)
                           /\ ~SteerQueued(p)
    BY <1>3 DEF Minting
  <2>1. sent' = sent /\ Shrinks(rows, rows', Accepted)
    BY <2>0, NextShrinks
  <2> QED BY <1>1, <2>1, ShrinksOrder
<1> QED BY <1>2, <1>3

(* A row speaks for one person, and within a conversation messages stay in order *)
(* of arrival, inside a batch and from one row to the next, whatever merges and  *)
(* steers do (mergeRuntimeUserTurnRequest).                                     *)
THEOREM ArrivalOrderHolds == Swift => (Spec => []ArrivalOrder)
PROOF
<1>1. CASE ~Swift
  BY <1>1
<1>2. CASE Swift
  <2>1. Init => RoomInv /\ ArrivalOrder
    <3> SUFFICES ASSUME Init PROVE RoomInv /\ ArrivalOrder
      OBVIOUS
    <3>1. DOMAIN rows = {}
      BY DEF Init
    <3> QED BY <3>1, RoomInit DEF ArrivalOrder
  <2>2. RoomInv /\ ArrivalOrder /\ [Next]_vars => (RoomInv /\ ArrivalOrder)'
    BY <1>2, RoomNext, OrderNext
  <2> QED BY <2>1, <2>2, PTL DEF Spec
<1> QED BY <1>1, <1>2

-----------------------------------------------------------------------------
(* Threads.  A row, the copy of it that a worker holds, and a turn are of the   *)
(* thread of their messages or of the channel, wherever others are let in.     *)
Spoken(st, x) == \A m \in ToSet(x.msgs) : x.thread \in {st[m].thread, Main}

AllSpoken(st, rs) == \A i \in DOMAIN rs : Spoken(st, rs[i])

ThreadParts ==
  /\ AllSpoken(sent, rows)
  /\ \A p \in Process : at[p].step \in {"claimed", "admitted"} => Spoken(sent, at[p].row)
  /\ AnswersInThread

ThreadInv == TypeOK /\ ThreadParts

LEMMA LaterSpoken ==
  ASSUME NEW st, NEW new, Longer(st, new), NEW x, ToSet(x.msgs) \subseteq SaidIn(st), Spoken(st, x)
  PROVE  Spoken(new, x)
PROOF
  BY DEF Longer, SaidIn, Spoken

LEMMA ShrinksSpoken ==
  ASSUME NEW st, NEW rs, AllSpoken(st, rs), NEW t, NEW D, Shrinks(rs, t, D)
  PROVE  AllSpoken(st, t)
PROOF
<1>1. PICK h : ShrinksBy(rs, t, D, h)
  BY DEF Shrinks
<1>2. \A i \in DOMAIN t : /\ h[i] \in DOMAIN rs /\ t[i].msgs = rs[h[i]].msgs
                          /\ t[i].thread = rs[h[i]].thread
  BY <1>1 DEF ShrinksBy, Alike
<1> QED BY <1>2 DEF AllSpoken, Spoken

(* A fold takes only rows of the new one's thread. *)
LEMMA MergesSpoken ==
  ASSUME NEW rs, NEW st, NEW st2, Longer(st, st2), RowsFor(rs, st), AllSpoken(st, rs),
         NEW new, Spoken(st2, new), NEW kept, NEW included, NEW t, NEW R, NEW r,
         MergesTo(rs, new, kept, included, t, R, r)
  PROVE  AllSpoken(st2, t)
PROOF
<1>1. /\ r.thread = new.thread
      /\ ToSet(r.msgs) = ToSet(new.msgs) \cup UNION {ToSet(rs[k].msgs) : k \in Carried(rs, new, kept)}
      /\ Len(R) \in Nat /\ DOMAIN R = 1..Len(R) /\ DOMAIN t = 1..(Len(R) + 1)
      /\ \A i \in DOMAIN R : t[i] = R[i]
      /\ t[Len(R) + 1] = r
      /\ \A i \in DOMAIN R : \E k \in DOMAIN rs \ Absorbed(rs, new, kept) : R[i] = rs[k]
  BY Zenon DEF MergesTo
<1>2. \A i \in DOMAIN t : t[i] = r \/ \E k \in DOMAIN rs : t[i] = rs[k]
  <2>1. \A i \in DOMAIN t : i \in DOMAIN R \/ i = Len(R) + 1
    BY <1>1
  <2> QED BY <1>1, <2>1, Zenon
<1>3. ASSUME NEW k \in DOMAIN rs PROVE Spoken(st2, rs[k])
  <2>1. ToSet(rs[k].msgs) \subseteq SaidIn(st) /\ Spoken(st, rs[k])
    BY <1>3 DEF RowsFor, RowFor, AllSpoken
  <2> QED BY <2>1, LaterSpoken
<1>4. \A k \in Carried(rs, new, kept) : k \in DOMAIN rs /\ rs[k].thread = new.thread
  BY DEF Carried, Absorbed
<1>5. Spoken(st2, r)
  <2> SUFFICES ASSUME NEW m \in ToSet(r.msgs) PROVE r.thread \in {st2[m].thread, Main}
    BY DEF Spoken
  <2>1. CASE m \in ToSet(new.msgs)
    BY <1>1, <2>1 DEF Spoken
  <2>2. ASSUME NEW k \in Carried(rs, new, kept), m \in ToSet(rs[k].msgs)
        PROVE  r.thread \in {st2[m].thread, Main}
    <3>1. Spoken(st2, rs[k]) /\ rs[k].thread = r.thread
      BY <1>1, <1>3, <1>4
    <3> QED BY <2>2, <3>1 DEF Spoken
  <2> QED BY <1>1, <2>1, <2>2
<1> QED BY <1>2, <1>3, <1>5 DEF AllSpoken

(* What a step has to leave behind. *)
LEMMA ThreadStep ==
  ASSUME ThreadInv, sent' = sent, AllSpoken(sent, rows'), OnTheWay(at, at'),
         \/ slot' = None
         \/ slot # None /\ slot'.msgs = slot.msgs /\ slot'.thread = slot.thread
         \/ Spoken(sent, slot')
  PROVE  ThreadParts'
PROOF
<1>1. \A p \in Process : at'[p].step \in {"claimed", "admitted"} => Spoken(sent, at'[p].row)
  BY DEF ThreadInv, ThreadParts, OnTheWay
<1>2. slot' # None => Spoken(sent, slot')
  BY DEF ThreadInv, ThreadParts, AnswersInThread, Spoken
<1>3. AnswersInThread'
  BY <1>2 DEF AnswersInThread, Spoken
<1>4. AllSpoken(sent', rows') /\ \A p \in Process : at'[p].step \in {"claimed", "admitted"} => Spoken(sent', at'[p].row)
  BY <1>1
<1> QED BY <1>3, <1>4 DEF ThreadParts

(* A row that keeps its place or shrinks away, and a turn queued again. *)
LEMMA RowsSpoken ==
  ASSUME ThreadInv,
         \/ rows' = rows
         \/ Touched(rows, rows')
         \/ \E id, q : rows' = Complete(rows, id, q)
         \/ \E t \in Row \cup Turn : /\ Carries(t, sent) /\ t.id # None
                                     /\ Requeueable(t) /\ Requeue(t)
  PROVE  AllSpoken(sent, rows')
PROOF
<1>0. TypeOK /\ AllSpoken(sent, rows) /\ RowsFor(rows, sent)
  BY TypeFacts DEF ThreadInv, ThreadParts
<1>1. CASE rows' = rows
  BY <1>0, <1>1
<1>2. CASE Touched(rows, rows')
  <2>1. Shrinks(rows, rows', {})
    BY <1>2, TouchedShrinks
  <2> QED BY <1>0, <2>1, ShrinksSpoken
<1>3. ASSUME NEW id, NEW q, rows' = Complete(rows, id, q) PROVE AllSpoken(sent, rows')
  <2>1. Shrinks(rows, rows', Accepted)
    BY <1>0, <1>3, CompleteShrinks
  <2> QED BY <1>0, <2>1, ShrinksSpoken
<1>4. ASSUME NEW t \in Row \cup Turn, Carries(t, sent), t.id # None, Requeueable(t), Requeue(t)
      PROVE  AllSpoken(sent, rows')
  <2> DEFINE new == Requeued(t)
  <2>1. rows' = Merge(rows, new, {}, {t.id})
    BY <1>0, <1>4, RequeuedRows
  <2>2. RowFor(new, sent)
    BY <1>0, <1>4, RequeuedRow
  <2>3. new \in Row
    BY <2>2 DEF RowFor
  <2>4. new.thread = Main
    BY DEF Requeued, Pending
  <2> HIDE DEF new
  <2>5. PICK R, r : MergesTo(rows, new, {}, {t.id}, rows', R, r)
    BY <1>0, <2>1, <2>3, MergedList
  <2>6. Spoken(sent, new) /\ Longer(sent, sent)
    BY <2>4 DEF Spoken, Longer
  <2> QED BY <1>0, <2>5, <2>6, MergesSpoken
<1> QED BY <1>1, <1>2, <1>3, <1>4

(* A message is of the thread of its row; a steer brings none. *)
LEMMA ThreadMint ==
  ASSUME ThreadInv, NEW p \in Process,
         (\E a \in Actor, t \in Thread, steer \in BOOLEAN : Submit(p, a, t, steer)) \/ SteerQueued(p)
  PROVE  ThreadParts'
PROOF
<1>0. TypeOK /\ RowsFor(rows, sent) /\ AllSpoken(sent, rows) /\ sent \in Seq(Sent)
  BY TypeFacts DEF ThreadInv, ThreadParts
<1>1. \E new, kept : /\ new \in Row /\ rows' = Merge(rows, new, kept, {}) /\ Spoken(sent', new)
                     /\ Longer(sent, sent') /\ Free(p) /\ slot' = slot
                     /\ at' = at \/ at' = [at EXCEPT ![p].step = "flagging"]
  <2>1. ASSUME NEW a \in Actor, NEW t \in Thread, NEW steer \in BOOLEAN, Submit(p, a, t, steer)
        PROVE  <1>1!:
    <3> DEFINE id == Len(sent) + 1
               e == [actor |-> a, thread |-> t, said |-> TRUE]
               new == Pending(id, <<id>>, a, t, epoch)
               kept == IF ~steer /\ HasActive THEN {Active.id} ELSE {}
    <3>1. /\ Free(p) /\ id \in Request /\ rows' = Merge(rows, new, kept, {})
          /\ sent' = Append(sent, e) /\ slot' = slot
          /\ at' = at \/ at' = [at EXCEPT ![p].step = "flagging"]
      BY <2>1, Zenon DEF Submit
    <3>2. e \in Sent /\ RowFor(new, sent')
      BY <1>0, <3>1, SubmitRow
    <3>3. new \in Row /\ ToSet(new.msgs) = {id} /\ new.thread = t /\ e.thread = t
      BY <3>2 DEF RowFor, Pending, ToSet
    <3> HIDE DEF new, e, kept
    <3>4. Longer(sent, sent') /\ sent'[id] = e
      BY <1>0, <3>1, <3>2, Minted
    <3>5. Spoken(sent', new)
      BY <3>3, <3>4 DEF Spoken
    <3> QED BY <3>1, <3>3, <3>4, <3>5
  <2>2. CASE SteerQueued(p)
    <3> DEFINE id == Len(sent) + 1
               latest == Last(rows)
               e == [actor |-> latest.actor, thread |-> latest.thread, said |-> FALSE]
               new == [Pending(id, <<>>, latest.actor, latest.thread, latest.epoch)
                         EXCEPT !.seen = latest.seen]
    <3>1. /\ Free(p) /\ id \in Request /\ sent' = Append(sent, e) /\ e \in Sent /\ RowFor(new, sent')
          /\ new.msgs = <<>> /\ rows' = Merge(rows, new, {}, {}) /\ slot' = slot
          /\ at' = at \/ at' = [at EXCEPT ![p].step = "flagging"]
      BY <1>0, <2>2, SteerRow, Zenon
    <3> HIDE DEF new, e, latest
    <3>2. new \in Row /\ Spoken(sent', new)
      BY <3>1 DEF RowFor, Spoken, ToSet
    <3>3. Longer(sent, sent')
      BY <1>0, <3>1, Minted
    <3> QED BY <3>1, <3>2, <3>3
  <2> QED BY <2>1, <2>2
<1>2. PICK new, kept : /\ new \in Row /\ rows' = Merge(rows, new, kept, {}) /\ Spoken(sent', new)
                       /\ Longer(sent, sent') /\ Free(p) /\ slot' = slot
                       /\ at' = at \/ at' = [at EXCEPT ![p].step = "flagging"]
  BY <1>1
<1>3. AllSpoken(sent', rows')
  <2>1. PICK R, r : MergesTo(rows, new, kept, {}, rows', R, r)
    BY <1>0, <1>2, MergedList
  <2> QED BY <1>0, <1>2, <2>1, MergesSpoken
<1>4. ASSUME NEW q \in Process, at'[q].step \in {"claimed", "admitted"} PROVE Spoken(sent', at'[q].row)
  <2>1. OnTheWay(at, at')
    BY <1>0, <1>2, FreeAt, AtKept
  <2>2. at[q].step \in {"claimed", "admitted"} /\ at'[q].row = at[q].row
    BY <1>4, <2>1 DEF OnTheWay
  <2>3. Spoken(sent, at[q].row) /\ ToSet(at[q].row.msgs) \subseteq SaidIn(sent)
    BY <2>2, TypeFacts DEF ThreadInv, ThreadParts, AtFor, Carries
  <2> QED BY <1>2, <2>2, <2>3, LaterSpoken
<1>5. AnswersInThread'
  <2>1. ASSUME slot # None PROVE Spoken(sent', slot)
    <3>1. Spoken(sent, slot) /\ ToSet(slot.msgs) \subseteq SaidIn(sent)
      BY <1>0, <2>1, TypeFacts DEF ThreadInv, ThreadParts, AnswersInThread, Spoken, TurnFor
    <3> QED BY <1>2, <3>1, LaterSpoken
  <2> QED BY <1>2, <2>1 DEF AnswersInThread, Spoken
<1> QED BY <1>3, <1>4, <1>5 DEF ThreadParts

(* The worker, from its claim to its turn. *)
LEMMA ThreadWorker ==
  ASSUME ThreadInv, NEW p \in Process, Claim(p) \/ Admit(p) \/ Take(p) \/ TakeFails(p)
  PROVE  ThreadParts'
PROOF
<1>0. TypeOK /\ DOMAIN at = Process
  BY TypeFacts DEF ThreadInv
<1>1. CASE Claim(p)
  <2>1. /\ UNCHANGED <<sent, slot>> /\ Touched(rows, rows')
        /\ \E i \in DOMAIN rows : at' = [at EXCEPT ![p] = [step |-> "claimed", row |-> rows'[i]]]
    <3>1. /\ UNCHANGED <<sent, epoch, fence, slot, settling, up, spent, answered, stopped, ended>>
          /\ Touched(rows, rows')
      BY <1>0, <1>1, ClaimRows
    <3>2. \E i \in DOMAIN rows : at' = [at EXCEPT ![p] = [step |-> "claimed", row |-> rows'[i]]]
      BY <1>1, Zenon DEF Claim
    <3> QED BY <3>1, <3>2
  <2>2. AllSpoken(sent, rows')
    BY <2>1, RowsSpoken
  <2>3. PICK i \in DOMAIN rows : at' = [at EXCEPT ![p] = [step |-> "claimed", row |-> rows'[i]]]
    BY <2>1
  <2>4. /\ at'[p] = [step |-> "claimed", row |-> rows'[i]]
        /\ \A q \in Process \ {p} : at'[q] = at[q]
    BY <1>0, <2>3
  <2>5. Spoken(sent, at'[p].row)
    BY <2>1, <2>2, <2>4 DEF AllSpoken, Touched
  <2>6. ASSUME NEW q \in Process, at'[q].step \in {"claimed", "admitted"} PROVE Spoken(sent, at'[q].row)
    BY <2>4, <2>5, <2>6 DEF ThreadInv, ThreadParts
  <2>7. AnswersInThread'
    BY <2>1 DEF ThreadInv, ThreadParts, AnswersInThread
  <2> QED BY <2>1, <2>2, <2>6, <2>7 DEF ThreadParts
<1>2. CASE Admit(p)
  <2>1. /\ at[p].step = "claimed" /\ UNCHANGED <<sent, slot>>
        /\ rows' = rows \/ \E id, q : rows' = Complete(rows, id, q)
        /\ at' = [at EXCEPT ![p] = Resting] \/ at' = [at EXCEPT ![p].step = "admitted"]
    BY <1>2 DEF Admit, Stands
  <2>2. AllSpoken(sent, rows')
    BY <2>1, RowsSpoken
  <2>3. OnTheWay(at, at')
    <3>1. CASE at' = [at EXCEPT ![p] = Resting]
      BY <1>0, <3>1, AtKept
    <3>2. CASE at' = [at EXCEPT ![p].step = "admitted"]
      <4> DEFINE x == [step |-> "admitted", row |-> at[p].row]
      <4>1. Moves(at, at', p, x) /\ x.row = at[p].row
        BY <1>0, <3>2, StepsTo DEF Step
      <4> HIDE DEF x
      <4> QED BY <1>0, <2>1, <4>1, StaysOnTheWay
    <3> QED BY <2>1, <3>1, <3>2
  <2> QED BY <2>1, <2>2, <2>3, ThreadStep
<1>3. CASE Take(p)
  <2>1. /\ at[p].step = "admitted" /\ sent' = sent /\ Touched(rows, rows')
        /\ slot'.msgs = at[p].row.msgs /\ slot'.thread = at[p].row.thread
        /\ at' = [at EXCEPT ![p] = Resting]
    BY <1>0, <1>3, TakeParts DEF Stands
  <2>2. Spoken(sent, slot')
    BY <2>1 DEF ThreadInv, ThreadParts, Spoken
  <2>3. AllSpoken(sent, rows')
    BY <2>1, RowsSpoken
  <2>4. OnTheWay(at, at')
    BY <1>0, <2>1, AtKept
  <2> QED BY <2>1, <2>2, <2>3, <2>4, ThreadStep
<1>4. CASE TakeFails(p)
  <2> DEFINE t == at[p].row
  <2>1. /\ at[p].step = "admitted" /\ sent' = sent /\ slot' = Displaced(t)
        /\ at' = [at EXCEPT ![p] = Resting]
    BY <1>4 DEF TakeFails, Stands
  <2>2. (Requeueable(t) /\ Requeue(t)) \/ rows' = rows
    BY <1>4, Zenon DEF TakeFails
  <2>3. t \in Row /\ Carries(t, sent) /\ t.id # None
    <3>1. at[p].row \in Row /\ Carries(at[p].row, sent)
      BY <1>0, <2>1, TypeFacts DEF AtFor
    <3> QED BY <3>1, RowFields, NoneAssumption
  <2> HIDE DEF t
  <2>4. AllSpoken(sent, rows')
    BY <2>2, <2>3, RowsSpoken
  <2>5. OnTheWay(at, at')
    BY <1>0, <2>1, AtKept
  <2>6. slot' = None \/ (slot # None /\ slot'.msgs = slot.msgs /\ slot'.thread = slot.thread)
    BY <1>0, <2>1, DisplacedTurn, FlaggedKeeps
  <2> QED BY <2>1, <2>4, <2>5, <2>6, ThreadStep
<1> QED BY <1>1, <1>2, <1>3, <1>4

(* A turn, and its second attempt: that answers in the channel. *)
LEMMA ThreadTurn ==
  ASSUME ThreadInv, NEW p \in Process,
         \/ Inject(p) \/ ProviderContent(p) \/ TurnEnds(p) \/ Settle(p) \/ SettleError(p)
         \/ Restart(p) \/ RestartDropped(p) \/ RestartFails(p)
  PROVE  ThreadParts'
PROOF
<1>0. TypeOK /\ DOMAIN at = Process
  BY TypeFacts DEF ThreadInv
<1>1. CASE Inject(p)
  <2>1. /\ UNCHANGED <<sent, rows, at>> /\ ToSet(slot'.msgs) = {}
    BY <1>0, <1>1, InjectTurn
  <2>2. Spoken(sent, slot')
    BY <2>1 DEF Spoken
  <2> QED BY <1>0, <2>1, <2>2, RowsSpoken, AtKept, ThreadStep
<1>2. CASE ProviderContent(p)
  <2>1. Touched(rows, rows') /\ UNCHANGED <<sent, slot, at>>
    BY <1>0, <1>2, ContentRows
  <2> QED BY <1>0, <2>1, RowsSpoken, AtKept, ThreadStep
<1>3. CASE TurnEnds(p)
  <2>1. /\ slot' = None /\ UNCHANGED <<sent, rows>>
        /\ \/ at' = at
           \/ \E kind \in {"completed", "error", "aborted", "retry"} :
                at' = [at EXCEPT ![p] = [step |-> kind, row |-> slot]]
    BY <1>0, <1>3, TurnEndsParts
  <2>2. ASSUME NEW kind \in {"completed", "error", "aborted", "retry"},
               at' = [at EXCEPT ![p] = [step |-> kind, row |-> slot]]
        PROVE  OnTheWay(at, at')
    <3> DEFINE x == [step |-> kind, row |-> slot]
    <3>1. Moves(at, at', p, x) /\ x.step = kind
      BY <2>2 DEF Moves
    <3> HIDE DEF x
    <3> QED BY <1>0, <3>1, StaysOnTheWay
  <2>3. OnTheWay(at, at')
    BY <1>0, <2>1, <2>2, AtKept
  <2> QED BY <2>1, <2>3, RowsSpoken, ThreadStep
<1>4. CASE Settle(p) \/ RestartDropped(p)
  <2>1. /\ UNCHANGED <<sent, slot>> /\ at' = [at EXCEPT ![p] = Resting]
        /\ \E id, q : rows' = Complete(rows, id, q)
    BY <1>4 DEF Settle, RestartDropped
  <2> QED BY <1>0, <2>1, RowsSpoken, AtKept, ThreadStep
<1>5. CASE SettleError(p)
  <2>1. UNCHANGED <<sent, slot, at>> /\ \E id, q : rows' = Complete(rows, id, q)
    BY <1>5 DEF SettleError
  <2> QED BY <1>0, <2>1, RowsSpoken, AtKept, ThreadStep
<1>6. CASE Restart(p)
  <2>1. /\ slot' = Started(p, at[p].row, Main) /\ UNCHANGED <<sent, rows>>
        /\ at' = [at EXCEPT ![p] = Resting]
    BY <1>6 DEF Restart
  <2>2. Spoken(sent, slot')
    BY <2>1 DEF Started, Spoken
  <2> QED BY <1>0, <2>1, <2>2, RowsSpoken, AtKept, ThreadStep
<1>7. CASE RestartFails(p)
  <2> DEFINE t == at[p].row
  <2>1. /\ at[p].step = "retry" /\ sent' = sent /\ slot' = Displaced(t)
        /\ at' = [at EXCEPT ![p] = Resting]
    BY <1>7 DEF RestartFails, Stands
  <2>2. (Requeueable(t) /\ Requeue(t)) \/ rows' = rows
    BY <1>7, Zenon DEF RestartFails
  <2>3. t \in Turn /\ Carries(t, sent) /\ t.id # None
    BY <1>0, <2>1, RetryTurn
  <2> HIDE DEF t
  <2>4. AllSpoken(sent, rows')
    BY <2>2, <2>3, RowsSpoken
  <2>5. OnTheWay(at, at')
    BY <1>0, <2>1, AtKept
  <2>6. slot' = None \/ (slot # None /\ slot'.msgs = slot.msgs /\ slot'.thread = slot.thread)
    BY <1>0, <2>1, DisplacedTurn, FlaggedKeeps
  <2> QED BY <2>1, <2>4, <2>5, <2>6, ThreadStep
<1> QED BY <1>1, <1>2, <1>3, <1>4, <1>5, <1>6, <1>7

LEMMA ThreadRest ==
  ASSUME ThreadInv, NEW p \in Process,
         FlagSteer(p) \/ Stop(p) \/ Cancel(p) \/ Compact(p) \/ CompactBegins(p) \/ Crash(p)
  PROVE  ThreadParts'
PROOF
<1>0. TypeOK /\ AllSpoken(sent, rows) /\ RowsFor(rows, sent)
  BY TypeFacts DEF ThreadInv, ThreadParts
<1>1. CASE FlagSteer(p) \/ Cancel(p)
  <2>1. /\ at' = [at EXCEPT ![p] = Resting] /\ sent' = sent
        /\ \E reason \in {"internal", "external"} : slot' = Flagged(reason)
        /\ rows' = rows \/ rows' = Current(rows)
    BY <1>1 DEF FlagSteer, Cancel
  <2>2. AllSpoken(sent, rows')
    <3>1. CASE rows' = Current(rows)
      <4> DEFINE S == {i \in DOMAIN rows : rows[i].epoch >= epoch}
      <4>1. S \subseteq DOMAIN rows /\ rows' = Picked(rows, S)
        BY <3>1, Zenon DEF Current
      <4>2. \A k \in DOMAIN rows \ S : ToSet(rows[k].msgs) \subseteq Accepted
        BY <1>0, TypeFacts DEF RowsFor, RowFor
      <4> HIDE DEF S
      <4>3. Shrinks(rows, rows', Accepted)
        BY <1>0, <4>1, <4>2, PickedShrinks
      <4> QED BY <1>0, <4>3, ShrinksSpoken
    <3> QED BY <1>0, <2>1, <3>1
  <2>3. slot' = None \/ (slot # None /\ slot'.msgs = slot.msgs /\ slot'.thread = slot.thread)
    BY <1>0, <2>1, FlaggedKeeps
  <2> QED BY <1>0, <2>1, <2>2, <2>3, AtKept, ThreadStep
<1>2. CASE Stop(p) \/ Compact(p)
  <2>1. /\ UNCHANGED <<sent, rows, slot>> /\ Free(p)
        /\ \E s \in {"flagging", "stopping", "compacting"} : at' = [at EXCEPT ![p].step = s]
    BY <1>2 DEF Stop, Compact
  <2>2. OnTheWay(at, at')
    BY <1>0, <2>1, FreeAt, AtKept
  <2> QED BY <1>0, <2>1, <2>2, ThreadStep
<1>3. CASE CompactBegins(p) \/ Crash(p)
  <2>1. UNCHANGED <<sent, rows, slot>> /\ at' = [at EXCEPT ![p] = Resting]
    BY <1>3 DEF CompactBegins, Crash
  <2> QED BY <1>0, <2>1, AtKept, ThreadStep
<1> QED BY <1>1, <1>2, <1>3

LEMMA ThreadClock ==
  ASSUME ThreadInv, ClaimAges \/ Unfence \/ LeaseExpires \/ UNCHANGED vars
  PROVE  ThreadParts'
PROOF
<1>1. TypeOK /\ OnTheWay(at, at)
  BY DEF ThreadInv, OnTheWay
<1>2. UNCHANGED <<sent, at>> /\ (slot' = slot \/ slot' = None) /\ (rows' = rows \/ Touched(rows, rows'))
  <2>1. CASE ClaimAges
    BY <1>1, <2>1, AgedRows
  <2>2. CASE Unfence \/ LeaseExpires \/ UNCHANGED vars
    BY <2>2 DEF Unfence, LeaseExpires, vars
  <2> QED BY <2>1, <2>2
<1>3. AllSpoken(sent, rows') /\ OnTheWay(at, at')
  BY <1>1, <1>2, RowsSpoken
<1> QED BY <1>2, <1>3, ThreadStep

LEMMA ThreadNext == ThreadInv /\ [Next]_vars => ThreadInv'
PROOF
<1> SUFFICES ASSUME ThreadInv, [Next]_vars PROVE ThreadParts'
  BY TypeNext DEF ThreadInv
<1>1. ASSUME NEW p \in Process,
             \/ \E a \in Actor, t \in Thread, steer \in BOOLEAN : Submit(p, a, t, steer)
             \/ SteerQueued(p)
      PROVE  ThreadParts'
  BY <1>1, ThreadMint
<1>2. ASSUME NEW p \in Process, Claim(p) \/ Admit(p) \/ Take(p) \/ TakeFails(p) PROVE ThreadParts'
  BY <1>2, ThreadWorker
<1>3. ASSUME NEW p \in Process,
             \/ Inject(p) \/ ProviderContent(p) \/ TurnEnds(p) \/ Settle(p) \/ SettleError(p)
             \/ Restart(p) \/ RestartDropped(p) \/ RestartFails(p)
      PROVE  ThreadParts'
  BY <1>3, ThreadTurn
<1>4. ASSUME NEW p \in Process,
             FlagSteer(p) \/ Stop(p) \/ Cancel(p) \/ Compact(p) \/ CompactBegins(p) \/ Crash(p)
      PROVE  ThreadParts'
  BY <1>4, ThreadRest
<1>5. CASE ClaimAges \/ Unfence \/ LeaseExpires \/ UNCHANGED vars
  BY <1>5, ThreadClock
<1> QED BY <1>1, <1>2, <1>3, <1>4, <1>5, Zenon DEF Next

(* Wherever other processes are let in, and however often turns are retried or  *)
(* queued again, what was written in a thread is answered there or in the       *)
(* channel, and what was written in the channel is answered in the channel      *)
(* (mergeRuntimeUserTurnRequest folds within a thread; startAiTurn takes         *)
(* threadRootId from the claimed row, or has none).                            *)
THEOREM AnswersInThreadHolds == Spec => []AnswersInThread
PROOF
<1>1. Init => ThreadInv
  <2> SUFFICES ASSUME Init PROVE ThreadInv
    OBVIOUS
  <2>1. DOMAIN rows = {} /\ slot = None /\ \A p \in Process : at[p].step = "idle"
    BY RestsFor DEF Init
  <2> QED BY <2>1, TypeInit DEF ThreadInv, ThreadParts, AllSpoken, AnswersInThread
<1>2. ThreadInv /\ [Next]_vars => ThreadInv'
  BY ThreadNext
<1>3. ThreadInv => AnswersInThread
  BY DEF ThreadInv, ThreadParts
<1> QED BY <1>1, <1>2, <1>3, PTL DEF Spec

-----------------------------------------------------------------------------
(* One person in one channel.  Now others are let in between a claim and its   *)
(* turn, and before a retry, too.  Whatever is queued again then folds all     *)
(* that waits: a worker that was overtaken finds the row it claimed, with the  *)
(* messages it holds, or finds no row of its own to complete.                 *)

(* Nobody else writes, a turn is settled when it ends, and no other process is *)
(* let in between a steer and its abort, or a stop and its cancellation.       *)
LoneTalk ==
  /\ \A a, b \in Actor : a = b
  /\ Thread = {Main}
  /\ ~SlowSettle
  /\ Interleaved \cap {"flagging", "stopping"} = {}

Unclaimed(rs) == \A i \in DOMAIN rs : rs[i].claim = None

(* What p completes in the name of t carries what t does. *)
Fits(rs, p, t) ==
  \A i \in DOMAIN rs : rs[i].id = t.id /\ rs[i].claim = p => rs[i].msgs = t.msgs

(* A turn that was told to abort has no row left that it would complete, or    *)
(* is done with.                                                             *)
Relieved(rs, D, t) ==
  /\ t.abort = "internal" => \A i \in DOMAIN rs : ~(rs[i].id = t.id /\ rs[i].claim = t.owner)
  /\ t.abort = "external" => ToSet(t.msgs) \subseteq D

LoneParts ==
  /\ settling = {}
  /\ NothingIsDropped
  /\ (\E p \in Process : at[p].step = "stopping") => Accepted \subseteq Over
  /\ (\E p \in Process : at[p].step = "flagging") => Unclaimed(rows)
  /\ slot # None => Fits(rows, slot.owner, slot) /\ Relieved(rows, Over, slot)
  /\ \A p \in Process :
       /\ at[p].row # None => Fits(rows, p, at[p].row)
       /\ at[p].step = "aborted" => at[p].row.abort # "none" /\ Relieved(rows, Over, at[p].row)

LoneInv == TypeOK /\ LoneParts

(* From rs to t no message is lost but to D, and no row gets claimed.          *)
Passes(rs, t, D) ==
  /\ MsgsOf(rs) \subseteq MsgsOf(t) \cup D
  /\ \A k \in DOMAIN t : t[k].claim # None =>
       \E i \in DOMAIN rs : t[k].id = rs[i].id /\ t[k].msgs = rs[i].msgs /\ t[k].claim = rs[i].claim

LEMMA PassesKeeps ==
  ASSUME NEW rs, NEW t, NEW D, Passes(rs, t, D)
  PROVE  /\ Unclaimed(rs) => Unclaimed(t)
         /\ \A p \in Process : \A u : Fits(rs, p, u) => Fits(t, p, u)
         /\ \A u \in Turn : \A E, F : Relieved(rs, E, u) /\ E \subseteq F => Relieved(t, F, u)
PROOF
<1>1. \A p \in Process : p # None
  BY NoneAssumption
<1>2. Unclaimed(rs) => Unclaimed(t)
  BY DEF Passes, Unclaimed
<1>3. ASSUME NEW p \in Process, NEW u, Fits(rs, p, u) PROVE Fits(t, p, u)
  BY <1>1, <1>3 DEF Passes, Fits
<1>4. ASSUME NEW u \in Turn, NEW E, NEW F, Relieved(rs, E, u), E \subseteq F PROVE Relieved(t, F, u)
  <2>1. u.owner \in Process
    BY DEF Turn
  <2> QED BY <1>1, <1>4, <2>1 DEF Passes, Relieved
<1> QED BY <1>2, <1>3, <1>4

LEMMA PickedPasses ==
  ASSUME NEW rs, NEW st, RowsFor(rs, st), NEW S, S \subseteq DOMAIN rs, NEW D,
         \A k \in DOMAIN rs \ S : ToSet(rs[k].msgs) \subseteq D
  PROVE  Passes(rs, Picked(rs, S), D)
PROOF
<1> DEFINE t == Picked(rs, S)
<1>1. /\ \A i \in DOMAIN t : \E k \in S : t[i] = rs[k]
      /\ \A k \in S : \E i \in DOMAIN t : t[i] = rs[k]
  BY PickedRows
<1> HIDE DEF t
<1>2. ASSUME NEW m \in MsgsOf(rs), m \notin D PROVE m \in MsgsOf(t)
  <2>1. PICK k \in DOMAIN rs : m \in ToSet(rs[k].msgs)
    BY DEF MsgsOf
  <2>2. PICK i \in DOMAIN t : t[i] = rs[k]
    BY <1>1, <1>2, <2>1
  <2> QED BY <2>1, <2>2 DEF MsgsOf
<1>3. Passes(rs, t, D)
  BY <1>1, <1>2 DEF Passes
<1> QED BY <1>3 DEF t

LEMMA CompletedPasses ==
  ASSUME NEW rs, NEW st, RowsFor(rs, st), NEW id, NEW p, NEW D,
         \A i \in DOMAIN rs : rs[i].id = id /\ rs[i].claim = p => ToSet(rs[i].msgs) \subseteq D
  PROVE  Passes(rs, Complete(rs, id, p), D)
PROOF
<1> DEFINE S == {i \in DOMAIN rs : ~(rs[i].id = id /\ rs[i].claim = p)}
<1>1. S \subseteq DOMAIN rs /\ Complete(rs, id, p) = Picked(rs, S)
  BY Zenon DEF Complete
<1>2. \A k \in DOMAIN rs \ S : ToSet(rs[k].msgs) \subseteq D
  OBVIOUS
<1> HIDE DEF S
<1> QED BY <1>1, <1>2, PickedPasses

LEMMA TouchedPasses ==
  ASSUME NEW rs, NEW t, NEW D, Touched(rs, t), \A i \in DOMAIN rs : t[i].claim = rs[i].claim
  PROVE  Passes(rs, t, D)
PROOF
<1>1. MsgsOf(rs) \subseteq MsgsOf(t)
  BY DEF Touched, MsgsOf
<1> QED BY <1>1 DEF Touched, Passes

(* A merge passes on what it does not leave to the provider's session; one that *)
(* spares no row folds them all.                                             *)
LEMMA LoneMerge ==
  ASSUME LoneTalk, NEW rs, NEW st, RowsFor(rs, st), NEW new \in Row, new.claim = None,
         NEW kept, NEW included, NEW D, Omitted(rs, new, kept) \subseteq D
  PROVE  LET t == Merge(rs, new, kept, included)
         IN  /\ Passes(rs, t, D) /\ ToSet(new.msgs) \subseteq MsgsOf(t)
             /\ kept = {} => Absorbed(rs, new, kept) = DOMAIN rs /\ Unclaimed(t)
PROOF
<1> DEFINE t == Merge(rs, new, kept, included)
           A == Absorbed(rs, new, kept)
<1>1. PICK R, r : MergesTo(rs, new, kept, included, t, R, r)
  BY MergedList
<1>2. /\ A \subseteq DOMAIN rs
      /\ Carried(rs, new, kept) = {k \in A : ~rs[k].seen}
      /\ \A k \in A : rs[k].seen => ToSet(rs[k].msgs) \subseteq D
  BY DEF Absorbed, Carried, Omitted
<1>3. ASSUME kept = {} PROVE A = DOMAIN rs
  <2>1. new.thread \in Thread /\ new.actor \in Actor
    BY RowFields
  <2>2. \A k \in DOMAIN rs : rs[k].thread = new.thread /\ rs[k].actor = new.actor
    <3>1. \A k \in DOMAIN rs : rs[k].thread \in Thread /\ rs[k].actor \in Actor
      BY RowFields DEF RowsFor, RowFor
    <3> QED BY <2>1, <3>1 DEF LoneTalk
  <2> QED BY <1>3, <2>2 DEF Absorbed
<1> HIDE DEF t, A
<1>4. /\ \A i \in DOMAIN t : i \in DOMAIN R \/ t[i] = r
      /\ Len(R) + 1 \in DOMAIN t /\ t[Len(R) + 1] = r /\ DOMAIN R \subseteq DOMAIN t
      /\ \A i \in DOMAIN R : t[i] = R[i]
      /\ r.claim = None
      /\ ToSet(r.msgs) = ToSet(new.msgs) \cup UNION {ToSet(rs[k].msgs) : k \in Carried(rs, new, kept)}
      /\ \A i \in DOMAIN R : \E k \in DOMAIN rs \ A : R[i] = rs[k]
      /\ \A k \in DOMAIN rs \ A : \E i \in DOMAIN R : R[i] = rs[k]
  BY <1>1 DEF MergesTo, A
<1>5. ToSet(r.msgs) \subseteq MsgsOf(t)
  BY <1>4 DEF MsgsOf
<1>6. ASSUME NEW m \in MsgsOf(rs), m \notin D PROVE m \in MsgsOf(t)
  <2>1. PICK k \in DOMAIN rs : m \in ToSet(rs[k].msgs)
    BY DEF MsgsOf
  <2>2. CASE k \in A
    <3>1. k \in Carried(rs, new, kept)
      BY <1>2, <1>6, <2>1, <2>2
    <3> QED BY <1>4, <1>5, <2>1, <3>1
  <2>3. CASE k \notin A
    <3>1. PICK i \in DOMAIN R : R[i] = rs[k]
      BY <1>4, <2>3
    <3> QED BY <1>4, <2>1, <3>1 DEF MsgsOf
  <2> QED BY <2>2, <2>3
<1>7. Passes(rs, t, D)
  BY <1>4, <1>6 DEF Passes
<1>8. ASSUME kept = {} PROVE Unclaimed(t)
  BY <1>3, <1>4, <1>8 DEF Unclaimed
<1> QED BY <1>3, <1>4, <1>5, <1>7, <1>8 DEF t, A

(* The steps that claim no row: what remains to be shown of each.             *)
LEMMA LoneStep ==
  ASSUME LoneParts, TypeOK', settling' = {},
         Passes(rows, rows', answered' \cup stopped'),
         Over \subseteq answered' \cup stopped',
         Accepted' \subseteq Accepted \cup MsgsOf(rows'),
         (\E q \in Process : at[q].step = "stopping") => Accepted' = Accepted,
         \/ slot' = None
         \/ slot' = slot
         \/ /\ Fits(rows, slot'.owner, slot')
            /\ slot'.abort = "none" \/ Relieved(rows', answered' \cup stopped', slot'),
         \A q \in Process :
           \/ at'[q] = at[q]
           \/ at'[q].row \in {None, at[q].row} /\ at'[q].step \notin {"flagging", "stopping", "aborted"}
           \/ at'[q].row = None /\ at'[q].step = "flagging" /\ Unclaimed(rows')
           \/ at'[q].row = None /\ at'[q].step = "stopping" /\ Accepted' \subseteq answered' \cup stopped'
           \/ /\ Fits(rows, q, at'[q].row) /\ at'[q].step \notin {"flagging", "stopping"}
              /\ at'[q].step = "aborted" => at'[q].row.abort # "none" /\ Relieved(rows, Over, at'[q].row)
  PROVE  LoneParts'
PROOF
<1> DEFINE D == answered' \cup stopped'
<1>0. Over' = D
  BY DEF Over
<1>1. /\ Unclaimed(rows) => Unclaimed(rows')
      /\ \A p \in Process : \A u : Fits(rows, p, u) => Fits(rows', p, u)
      /\ \A u \in Turn : Relieved(rows, Over, u) => Relieved(rows', D, u)
  BY PassesKeeps
<1>2. slot' # None => slot' \in Turn /\ slot'.owner \in Process
  <2>1. slot' = None \/ TurnFor(slot', sent')
    BY TypePartsLater DEF Typed
  <2> QED BY <2>1 DEF TurnFor, Turn
<1>3. \A q \in Process : at'[q].step = "aborted" => at'[q].row \in Turn
  <2>1. \A q \in Process : AtFor(q, at'[q], sent')
    BY TypePartsLater DEF Typed
  <2> QED BY <2>1 DEF AtFor
<1>4. NothingIsDropped'
  <2>1. Accepted \subseteq MsgsOf(rows) \cup answered \cup stopped
    BY DEF LoneParts, NothingIsDropped
  <2>2. MsgsOf(rows) \subseteq MsgsOf(rows') \cup D /\ answered \cup stopped \subseteq D
    BY DEF Passes, Over
  <2>3. Accepted' \subseteq MsgsOf(rows') \cup answered' \cup stopped'
    BY <2>1, <2>2
  <2> QED BY <2>3 DEF NothingIsDropped
<1>5. ASSUME slot' # None PROVE Fits(rows', slot'.owner, slot') /\ Relieved(rows', D, slot')
  <2>1. CASE slot' = slot
    BY <1>1, <1>2, <1>5, <2>1 DEF LoneParts
  <2>2. CASE Fits(rows, slot'.owner, slot') /\ slot'.abort = "none"
    BY <1>1, <1>2, <1>5, <2>2 DEF Relieved
  <2>3. CASE Fits(rows, slot'.owner, slot') /\ Relieved(rows', D, slot')
    BY <1>1, <1>2, <1>5, <2>3
  <2> QED BY <1>5, <2>1, <2>2, <2>3
<1>6. ASSUME NEW q \in Process, at'[q].row # None PROVE Fits(rows', q, at'[q].row)
  <2>1. CASE at'[q].row = at[q].row
    BY <1>1, <1>6, <2>1 DEF LoneParts
  <2>2. CASE Fits(rows, q, at'[q].row)
    BY <1>1, <2>2
  <2> QED BY <1>6, <2>1, <2>2
<1>7. ASSUME NEW q \in Process, at'[q].step = "aborted"
      PROVE  at'[q].row.abort # "none" /\ Relieved(rows', D, at'[q].row)
  <2>1. CASE at'[q] = at[q]
    BY <1>1, <1>3, <1>7, <2>1 DEF LoneParts
  <2>2. CASE at'[q].row.abort # "none" /\ Relieved(rows, Over, at'[q].row)
    BY <1>1, <1>3, <1>7, <2>2
  <2> QED BY <1>7, <2>1, <2>2
<1>8. ASSUME NEW q \in Process, at'[q].step = "stopping" PROVE Accepted' \subseteq D
  <2>1. CASE at'[q] = at[q]
    BY <1>8, <2>1 DEF LoneParts
  <2> QED BY <1>8, <2>1
<1>9. ASSUME NEW q \in Process, at'[q].step = "flagging" PROVE Unclaimed(rows')
  <2>1. CASE at'[q] = at[q]
    BY <1>1, <1>9, <2>1 DEF LoneParts
  <2> QED BY <1>9, <2>1
<1> HIDE DEF D
<1> QED BY <1>0, <1>4, <1>5, <1>6, <1>7, <1>8, <1>9 DEF LoneParts

LEMMA RestsAt ==
  ASSUME TypeOK, NEW p \in Process, at' = [at EXCEPT ![p] = Resting]
  PROVE  \A q \in Process : at'[q] = at[q] \/ (at'[q].row = None /\ at'[q].step = "idle")
PROOF
<1>1. DOMAIN at = Process /\ Resting.row = None /\ Resting.step = "idle"
  BY TypeFacts, RestsFor
<1> QED BY <1>1

(* Where p may come in, or go on, nobody stands between a steer and its abort   *)
(* or a stop and its cancellation.                                           *)
LEMMA LoneOthers ==
  ASSUME LoneTalk, NEW P, Open(P)
  PROVE  \A q \in P : at[q].step \notin {"flagging", "stopping"}
PROOF
<1> SUFFICES ASSUME NEW q \in P PROVE at[q].step \notin {"flagging", "stopping"}
  OBVIOUS
<1>1. CASE at[q] = Resting
  <2>1. at[q].step = "idle"
    BY <1>1, RestsFor
  <2> QED BY <2>1
<1>2. CASE at[q].step \in Interleaved
  BY <1>2 DEF LoneTalk
<1> QED BY <1>1, <1>2 DEF Open

LEMMA LoneFree ==
  ASSUME LoneTalk, NEW p \in Process, Free(p)
  PROVE  \A q \in Process : at[q].step \notin {"flagging", "stopping"}
PROOF
<1>1. Open(Process)
  BY DEF Free, Quiet
<1> QED BY <1>1, LoneOthers

(* What a step that only marks rows, frees the slot or puts processes to rest   *)
(* does.                                                                     *)
LEMMA LonePlain ==
  ASSUME LoneParts, TypeOK', Touched(rows, rows'), \A i \in DOMAIN rows : rows'[i].claim = rows[i].claim,
         UNCHANGED <<sent, answered>>, stopped \subseteq stopped', slot' = None \/ slot' = slot,
         settling' \subseteq settling,
         \A q \in Process :
           \/ at'[q] = at[q]
           \/ at'[q].row \in {None, at[q].row} /\ at'[q].step \notin {"flagging", "stopping", "aborted"}
  PROVE  LoneParts'
PROOF
<1>1. Passes(rows, rows', answered' \cup stopped')
  BY TouchedPasses
<1>2. Over \subseteq answered' \cup stopped' /\ Accepted' = Accepted
  BY DEF Over, Accepted
<1>3. settling' = {}
  BY DEF LoneParts
<1> QED BY <1>1, <1>2, <1>3, LoneStep

(* A message or a steer becomes a row; if the turn is to be aborted, the row is  *)
(* the only one.                                                             *)
LEMMA LoneMinting ==
  ASSUME LoneTalk, LoneInv, TypeOK', NEW p \in Process, Free(p),
         NEW new \in Row, new.claim = None, NEW kept,
         rows' = Merge(rows, new, kept, {}), answered' = answered \cup Omitted(rows, new, kept),
         Accepted' \subseteq Accepted \cup ToSet(new.msgs), UNCHANGED <<slot, settling, stopped>>,
         at' = at \/ (kept = {} /\ at' = [at EXCEPT ![p].step = "flagging"])
  PROVE  LoneParts'
PROOF
<1> DEFINE D == answered' \cup stopped'
<1>0. TypeOK /\ LoneParts /\ RowsFor(rows, sent) /\ at[p] = Resting
  BY TypeFacts, FreeAt DEF LoneInv
<1>1. /\ Passes(rows, rows', D) /\ ToSet(new.msgs) \subseteq MsgsOf(rows')
      /\ kept = {} => Unclaimed(rows')
  <2>1. Omitted(rows, new, kept) \subseteq D
    OBVIOUS
  <2> HIDE DEF D
  <2> QED BY <1>0, <2>1, LoneMerge
<1>2. \A q \in Process : at[q].step # "stopping"
  BY LoneFree
<1>3. \A q \in Process :
        at'[q] = at[q] \/ (at'[q].row = None /\ at'[q].step = "flagging" /\ Unclaimed(rows'))
  <2>1. CASE at' = at
    BY <2>1
  <2>2. CASE kept = {} /\ at' = [at EXCEPT ![p].step = "flagging"]
    <3>1. Moves(at, at', p, [step |-> "flagging", row |-> None])
      BY <1>0, <2>2, StepsTo, RestsFor DEF Step
    <3>2. DOMAIN at = Process
      BY <1>0, TypeFacts
    <3>3. /\ \A q \in Process \ {p} : at'[q] = at[q]
          /\ at'[p].row = None /\ at'[p].step = "flagging"
      BY <3>1, <3>2 DEF Moves
    <3> QED BY <1>1, <2>2, <3>3
  <2> QED BY <2>1, <2>2
<1>4. Over \subseteq D /\ Accepted' \subseteq Accepted \cup MsgsOf(rows') /\ settling' = {}
  BY <1>0, <1>1 DEF Over, LoneParts
<1> QED BY <1>0, <1>1, <1>2, <1>3, <1>4, LoneStep

LEMMA LoneMint ==
  ASSUME LoneTalk, LoneInv, TypeOK', NEW p \in Process,
         (\E a \in Actor, t \in Thread, steer \in BOOLEAN : Submit(p, a, t, steer)) \/ SteerQueued(p)
  PROVE  LoneParts'
PROOF
<1>0. TypeOK /\ sent \in Seq(Sent)
  BY TypeFacts DEF LoneInv
<1>1. Accepted = SaidIn(sent) /\ Accepted' = SaidIn(sent')
  BY DEF Accepted, SaidIn
<1>2. ASSUME NEW a \in Actor, NEW t \in Thread, NEW steer \in BOOLEAN, Submit(p, a, t, steer)
      PROVE  LoneParts'
  <2> DEFINE id == Len(sent) + 1
             e == [actor |-> a, thread |-> t, said |-> TRUE]
             new == Pending(id, <<id>>, a, t, epoch)
             kept == IF ~steer /\ HasActive THEN {Active.id} ELSE {}
  <2>1. /\ Free(p) /\ id \in Request /\ rows' = Merge(rows, new, kept, {})
        /\ sent' = Append(sent, e)
        /\ answered' = answered \cup Omitted(rows, new, kept)
        /\ at' = IF HasActive /\ ActiveAt \in Absorbed(rows, new, kept)
                 THEN [at EXCEPT ![p].step = "flagging"] ELSE at
        /\ UNCHANGED <<slot, settling, stopped>>
    BY <1>2, Zenon DEF Submit
  <2>2. e \in Sent /\ RowFor(new, sent') /\ e.said = TRUE
    BY <1>0, <2>1, SubmitRow
  <2>3. new \in Row /\ new.msgs = <<id>> /\ new.claim = None
    BY <2>2 DEF RowFor, Pending
  <2>4. ToSet(new.msgs) = {id}
    BY <2>3 DEF ToSet
  <2>5. at' = at \/ (kept = {} /\ at' = [at EXCEPT ![p].step = "flagging"])
    <3>1. ActiveAt \in Absorbed(rows, new, kept) => Active.id \notin kept
      BY DEF Absorbed, Active
    <3>2. ~(HasActive /\ ActiveAt \in Absorbed(rows, new, kept)) => at' = at
      BY <2>1, Zenon
    <3>3. HasActive /\ ActiveAt \in Absorbed(rows, new, kept) => at' = [at EXCEPT ![p].step = "flagging"]
      BY <2>1, Zenon
    <3>4. kept = {} \/ Active.id \in kept
      OBVIOUS
    <3> QED BY <3>1, <3>2, <3>3, <3>4
  <2> HIDE DEF new, e, kept
  <2>6. SaidIn(sent') = SaidIn(sent) \cup (IF e.said THEN {id} ELSE {})
    BY <1>0, <2>1, <2>2, Minted
  <2>7. Accepted' \subseteq Accepted \cup ToSet(new.msgs)
    BY <1>1, <2>4, <2>6
  <2> QED BY <2>1, <2>3, <2>5, <2>7, LoneMinting
<1>3. CASE SteerQueued(p)
  <2> DEFINE id == Len(sent) + 1
             latest == Last(rows)
             e == [actor |-> latest.actor, thread |-> latest.thread, said |-> FALSE]
             new == [Pending(id, <<>>, latest.actor, latest.thread, latest.epoch)
                       EXCEPT !.seen = latest.seen]
  <2>1. /\ Free(p) /\ id \in Request
        /\ sent' = Append(sent, e) /\ e \in Sent /\ RowFor(new, sent') /\ new.claim = None
        /\ rows' = Merge(rows, new, {}, {})
        /\ answered' = answered \cup Omitted(rows, new, {})
        /\ at' = IF ActiveAt \in Absorbed(rows, new, {})
                 THEN [at EXCEPT ![p].step = "flagging"] ELSE at
        /\ UNCHANGED <<slot, settling, stopped>>
    BY <1>0, <1>3, SteerRow, Zenon
  <2>2. e.said = FALSE
    OBVIOUS
  <2> HIDE DEF new, e, latest
  <2>3. new \in Row
    BY <2>1 DEF RowFor
  <2>4. SaidIn(sent') = SaidIn(sent) \cup (IF e.said THEN {id} ELSE {})
    BY <1>0, <2>1, Minted
  <2>5. Accepted' \subseteq Accepted \cup ToSet(new.msgs)
    BY <1>1, <2>2, <2>4
  <2>6. at' = at \/ at' = [at EXCEPT ![p].step = "flagging"]
    BY <2>1, Zenon
  <2> QED BY <2>1, <2>3, <2>5, <2>6, LoneMinting
<1> QED BY <1>2, <1>3

(* A claim: nobody runs, and the worker holds the row as it is.                *)
LEMMA LoneClaim ==
  ASSUME LoneTalk, LoneInv, TypeOK', NEW p \in Process, Claim(p)
  PROVE  LoneParts'
PROOF
<1>0. TypeOK /\ LoneParts
  BY DEF LoneInv
<1>1. /\ Free(p) /\ UNCHANGED <<sent, slot, settling, answered, stopped>>
      /\ RowsFor(rows', sent) /\ Touched(rows, rows')
  BY <1>0, ClaimRows
<1>2. PICK i \in DOMAIN rows :
        /\ Claimable(rows[i])
        /\ \A j \in DOMAIN rows \ {i} : rows'[j] = rows[j]
        /\ rows'[i].claim = p
        /\ at' = [at EXCEPT ![p] = [step |-> "claimed", row |-> rows'[i]]]
  BY <1>0, ClaimRows
<1>3. slot = None /\ \A q \in Process : at[q].step \notin {"flagging", "stopping"}
  BY <1>1, <1>2, LoneFree DEF Claimable
<1>4. /\ at'[p].step = "claimed" /\ at'[p].row = rows'[i]
      /\ \A q \in Process \ {p} : at'[q] = at[q]
  <2>1. DOMAIN at = Process
    BY <1>0, TypeFacts
  <2> QED BY <1>2, <2>1
<1>5. NothingIsDropped'
  <2>1. MsgsOf(rows') = MsgsOf(rows) /\ Accepted' = Accepted
    BY <1>1 DEF Touched, MsgsOf, Accepted
  <2> QED BY <1>0, <1>1, <2>1 DEF LoneParts, NothingIsDropped
<1>6. ASSUME NEW q \in Process, NEW u, q # p, Fits(rows, q, u) PROVE Fits(rows', q, u)
  BY <1>1, <1>2, <1>6 DEF Fits, Touched
<1>7. Fits(rows', p, rows'[i])
  BY <1>1, <1>2 DEF Fits, RowsFor, Touched
<1>8. ASSUME NEW q \in Process, at'[q].step = "aborted"
      PROVE  at'[q].row.abort # "none" /\ Relieved(rows', Over', at'[q].row)
  <2>1. q # p /\ at'[q] = at[q] /\ at[q].step = "aborted"
    BY <1>4, <1>8
  <2>2. at[q].row.owner = q /\ at[q].row.abort # "none" /\ Relieved(rows, Over, at[q].row)
    BY <1>0, <2>1, TypeFacts DEF AtFor, LoneParts
  <2>3. Over' = Over
    BY <1>1 DEF Over
  <2>4. Relieved(rows', Over, at[q].row)
    BY <1>1, <1>2, <2>1, <2>2 DEF Relieved, Touched
  <2> QED BY <2>1, <2>2, <2>3, <2>4
<1>9. ASSUME NEW q \in Process, at'[q].row # None PROVE Fits(rows', q, at'[q].row)
  BY <1>0, <1>4, <1>6, <1>7, <1>9 DEF LoneParts
<1>10. \A q \in Process : at'[q].step \notin {"flagging", "stopping"}
  BY <1>3, <1>4
<1> QED BY <1>0, <1>1, <1>3, <1>5, <1>8, <1>9, <1>10 DEF LoneParts

(* A turn is queued again: its row folds all others. *)
LEMMA LoneRequeue ==
  ASSUME LoneTalk, TypeOK, NEW t, t \in Row \cup Turn, Carries(t, sent), t.id # None
  PROVE  /\ Requeueable(t)
         /\ Requeue(t) => /\ Passes(rows, rows', answered') /\ Unclaimed(rows')
                          /\ answered \subseteq answered'
PROOF
<1> DEFINE r == Requeued(t)
           S == DOMAIN rows \ Absorbed(rows, r, {})
<1>0. RowsFor(rows, sent) /\ r \in Row /\ r.claim = None
  BY TypeFacts, RequeuedRow DEF RowFor
<1>1. Remaining(rows, r, {}) = Picked(rows, S)
  BY Zenon DEF Remaining
<1>2. S = {}
  <2>1. Omitted(rows, r, {}) \subseteq Omitted(rows, r, {})
    OBVIOUS
  <2> HIDE DEF r
  <2>2. Absorbed(rows, r, {}) = DOMAIN rows
    BY <1>0, <2>1, LoneMerge
  <2> QED BY <2>2
<1>3. Requeueable(t)
  <2> HIDE DEF r, S
  <2>1. \A i \in DOMAIN Picked(rows, S) : \E k \in S : Picked(rows, S)[i] = rows[k]
    BY <1>0, <1>2, PickedRows
  <2>2. Ids(Picked(rows, S)) = {}
    BY <1>2, <2>1 DEF Ids
  <2> QED BY <1>1, <2>2 DEF Requeueable, r
<1>4. ASSUME Requeue(t)
      PROVE  Passes(rows, rows', answered') /\ Unclaimed(rows') /\ answered \subseteq answered'
  <2>1. rows' = Merge(rows, r, {}, {t.id}) /\ answered' = answered \cup Omitted(rows, r, {})
    BY <1>4, Zenon DEF Requeue
  <2>2. Omitted(rows, r, {}) \subseteq answered'
    BY <2>1
  <2> HIDE DEF r
  <2> QED BY <1>0, <2>1, <2>2, LoneMerge
<1> QED BY <1>3, <1>4

(* No row is claimed any more: the turn that holds the slot may be superseded.  *)
LEMMA LoneFlags ==
  ASSUME LoneParts, TypeOK, slot' \in {slot, Flagged("internal")}, Unclaimed(rows'),
         NEW D, Over \subseteq D
  PROVE  \/ slot' = None
         \/ slot' = slot
         \/ Fits(rows, slot'.owner, slot') /\ Relieved(rows', D, slot')
PROOF
<1>1. CASE slot' = slot
  BY <1>1
<1>2. CASE slot' = Flagged("internal") /\ slot = None
  BY <1>2 DEF Flagged
<1>3. CASE slot' = Flagged("internal") /\ slot # None
  <2>1. slot = None \/ TurnFor(slot, sent)
    BY TypeFacts
  <2>2. /\ slot'.owner = slot.owner /\ slot'.id = slot.id /\ slot'.msgs = slot.msgs
        /\ slot'.abort = IF slot.abort = "external" THEN "external" ELSE "internal"
    BY <1>3, <2>1, FlaggedTurn
  <2>3. slot.owner \in Process
    BY <1>3, <2>1 DEF TurnFor, Turn
  <2>4. slot'.owner # None
    BY <2>2, <2>3, NoneAssumption
  <2>5. Fits(rows, slot'.owner, slot')
    BY <1>3, <2>2 DEF LoneParts, Fits
  <2>6. \A i \in DOMAIN rows' : rows'[i].claim # slot'.owner
    BY <2>4 DEF Unclaimed
  <2>7. slot.abort = "external" => ToSet(slot'.msgs) \subseteq D
    BY <1>3, <2>2 DEF LoneParts, Relieved
  <2> QED BY <2>2, <2>5, <2>6, <2>7 DEF Relieved
<1> QED BY <1>1, <1>2, <1>3

(* A turn that finds the room taken. *)
LEMMA LoneDisplaced ==
  ASSUME LoneTalk, LoneInv, TypeOK', NEW p \in Process,
         at[p].row \in Row \cup Turn, Carries(at[p].row, sent), at[p].row.id # None,
         Requeue(at[p].row), slot' = Displaced(at[p].row), at' = [at EXCEPT ![p] = Resting],
         Open(Process \ {p}), at[p].step \notin {"flagging", "stopping"},
         UNCHANGED <<sent, settling, stopped>>
  PROVE  LoneParts'
PROOF
<1> DEFINE D == answered' \cup stopped'
<1>0. TypeOK /\ LoneParts
  BY DEF LoneInv
<1>1. Passes(rows, rows', answered') /\ Unclaimed(rows') /\ answered \subseteq answered'
  BY <1>0, LoneRequeue
<1>2. Over \subseteq D /\ Accepted' = Accepted /\ settling' = {}
  BY <1>0, <1>1 DEF Over, Accepted, LoneParts
<1>3. Passes(rows, rows', D)
  BY <1>1 DEF Passes
<1>4. slot' \in {slot, Flagged("internal")}
  BY <1>0, DisplacedTurn
<1>5. \/ slot' = None \/ slot' = slot
      \/ Fits(rows, slot'.owner, slot') /\ Relieved(rows', D, slot')
  <2> HIDE DEF D
  <2> QED BY <1>0, <1>1, <1>2, <1>4, LoneFlags
<1>6. \A q \in Process : at'[q] = at[q] \/ (at'[q].row = None /\ at'[q].step = "idle")
  BY <1>0, RestsAt
<1> QED BY <1>0, <1>2, <1>3, <1>5, <1>6, LoneStep

LEMMA LoneWorker ==
  ASSUME LoneTalk, LoneInv, TypeOK', NEW p \in Process, Admit(p) \/ Take(p) \/ TakeFails(p)
  PROVE  LoneParts'
PROOF
<1>0. TypeOK /\ LoneParts /\ RowsFor(rows, sent) /\ DOMAIN at = Process
  BY TypeFacts DEF LoneInv
<1>1. CASE Admit(p) /\ at[p].row.epoch = epoch
  <2>1. /\ at' = [at EXCEPT ![p].step = "admitted"]
        /\ UNCHANGED <<sent, rows, slot, settling, answered, stopped>>
    BY <1>1 DEF Admit
  <2>2. Moves(at, at', p, [step |-> "admitted", row |-> at[p].row])
    BY <1>0, <2>1, StepsTo DEF Step
  <2>3. /\ at'[p].step = "admitted" /\ at'[p].row = at[p].row
        /\ \A q \in Process \ {p} : at'[q] = at[q]
    BY <1>0, <2>2 DEF Moves
  <2>4. Touched(rows, rows') /\ \A i \in DOMAIN rows : rows'[i].claim = rows[i].claim
    BY <2>1 DEF Touched
  <2> QED BY <1>0, <2>1, <2>3, <2>4, LonePlain
<1>2. CASE Admit(p) /\ at[p].row.epoch # epoch
  <2> DEFINE t == at[p].row
             D == answered' \cup stopped'
  <2>1. /\ rows' = Complete(rows, t.id, p) /\ stopped' = stopped \cup ToSet(t.msgs)
        /\ at' = [at EXCEPT ![p] = Resting] /\ at[p].step = "claimed"
        /\ UNCHANGED <<sent, slot, settling, answered>>
    BY <1>2 DEF Admit, Stands
  <2>2. t # None
    <3>1. t \in Row
      BY <1>0, <2>1, TypeFacts DEF AtFor
    <3> QED BY <3>1, NoneAssumption
  <2>3. \A i \in DOMAIN rows : rows[i].id = t.id /\ rows[i].claim = p => ToSet(rows[i].msgs) \subseteq D
    BY <1>0, <2>1, <2>2 DEF LoneParts, Fits
  <2>4. Passes(rows, rows', D)
    <3> HIDE DEF D, t
    <3> QED BY <1>0, <2>1, <2>3, CompletedPasses
  <2>5. Over \subseteq D /\ Accepted' = Accepted /\ settling' = {}
    BY <1>0, <2>1 DEF Over, Accepted, LoneParts
  <2>6. \A q \in Process : at'[q] = at[q] \/ (at'[q].row = None /\ at'[q].step = "idle")
    BY <1>0, <2>1, RestsAt
  <2> QED BY <1>0, <2>1, <2>4, <2>5, <2>6, LoneStep
<1>3. CASE Take(p)
  <2>1. /\ Stands(p, "admitted") /\ at[p].row \in Row
        /\ slot'.owner = p /\ slot'.id = at[p].row.id /\ slot'.msgs = at[p].row.msgs /\ slot'.abort = "none"
        /\ Touched(rows, rows')
        /\ \A i \in DOMAIN rows : rows'[i] = rows[i] \/ (rows[i].claim = p /\ rows'[i].claim = p)
        /\ at' = [at EXCEPT ![p] = Resting]
        /\ UNCHANGED <<sent, settling, answered, stopped>>
    BY <1>0, <1>3, TakeParts
  <2>2. Passes(rows, rows', answered' \cup stopped')
    <3>1. \A i \in DOMAIN rows : rows'[i].claim = rows[i].claim
      BY <2>1
    <3> QED BY <2>1, <3>1, TouchedPasses
  <2>3. Over \subseteq answered' \cup stopped' /\ Accepted' = Accepted /\ settling' = {}
    BY <1>0, <2>1 DEF Over, Accepted, LoneParts
  <2>4. Fits(rows, slot'.owner, slot')
    <3>1. at[p].row # None
      BY <2>1, NoneAssumption
    <3>2. Fits(rows, p, at[p].row)
      BY <1>0, <3>1 DEF LoneParts
    <3> QED BY <2>1, <3>2 DEF Fits
  <2>5. \A q \in Process : at'[q] = at[q] \/ (at'[q].row = None /\ at'[q].step = "idle")
    BY <1>0, <2>1, RestsAt
  <2> QED BY <1>0, <2>1, <2>2, <2>3, <2>4, <2>5, LoneStep
<1>4. CASE TakeFails(p)
  <2>1. /\ at[p].step = "admitted" /\ Open(Process \ {p}) /\ slot' = Displaced(at[p].row)
        /\ at' = [at EXCEPT ![p] = Resting] /\ UNCHANGED <<sent, settling, stopped>>
    BY <1>4 DEF TakeFails, Stands
  <2>2. at[p].row \in Row /\ Carries(at[p].row, sent)
    BY <1>0, <2>1, TypeFacts DEF AtFor
  <2>3. at[p].row.id # None
    BY <2>2, RowFields, NoneAssumption
  <2>4. Requeueable(at[p].row)
    BY <1>0, <2>2, <2>3, LoneRequeue
  <2>5. Requeue(at[p].row)
    BY <1>4, <2>4, Zenon DEF TakeFails
  <2> QED BY <2>1, <2>2, <2>3, <2>5, LoneDisplaced
<1> QED BY <1>1, <1>2, <1>3, <1>4

LEMMA LoneTurn ==
  ASSUME LoneTalk, LoneInv, TypeOK', NEW p \in Process,
         Inject(p) \/ ProviderContent(p) \/ TurnEnds(p) \/ Settle(p) \/ SettleError(p)
  PROVE  LoneParts'
PROOF
<1>0. TypeOK /\ LoneParts /\ RowsFor(rows, sent) /\ DOMAIN at = Process
  BY TypeFacts DEF LoneInv
<1>1. CASE Inject(p)
  <2>1. /\ slot'.id = None /\ slot'.abort = "none"
        /\ UNCHANGED <<sent, rows, settling, at, answered, stopped>>
    BY <1>0, <1>1, InjectTurn
  <2>2. Fits(rows, slot'.owner, slot')
    <3>1. \A i \in DOMAIN rows : rows[i].id # None
      BY <1>0, NoneAssumption, RowFields DEF RowsFor, RowFor
    <3> QED BY <2>1, <3>1 DEF Fits
  <2>3. Passes(rows, rows', answered' \cup stopped')
    <3>1. Touched(rows, rows') /\ \A i \in DOMAIN rows : rows'[i].claim = rows[i].claim
      BY <2>1 DEF Touched
    <3> QED BY <3>1, TouchedPasses
  <2>4. Over \subseteq answered' \cup stopped' /\ Accepted' = Accepted /\ settling' = {}
    BY <1>0, <2>1 DEF Over, Accepted, LoneParts
  <2> QED BY <1>0, <2>1, <2>2, <2>3, <2>4, LoneStep
<1>2. CASE ProviderContent(p)
  <2>1. Touched(rows, rows') /\ \A i \in DOMAIN rows : rows'[i].claim = rows[i].claim
    BY <1>0, <1>2, ContentRows
  <2>2. UNCHANGED <<sent, slot, settling, at, answered, stopped>>
    BY <1>2 DEF ProviderContent
  <2> QED BY <1>0, <2>1, <2>2, LonePlain
<1>3. CASE TurnEnds(p)
  <2>1. /\ slot # None /\ slot.owner = p /\ slot' = None /\ UNCHANGED <<sent, rows, answered, stopped>>
    BY <1>0, <1>3, TurnEndsParts
  <2>2. \/ UNCHANGED <<settling, at>>
        \/ /\ UNCHANGED settling
           /\ \E kind \in {"completed", "error", "aborted", "retry"} :
                /\ kind = "aborted" => slot.abort # "none"
                /\ at' = [at EXCEPT ![p] = [step |-> kind, row |-> slot]]
    <3>1. CASE slot.id = None
      BY <1>3, <3>1 DEF TurnEnds
    <3>2. CASE slot.id # None
      <4>1. PICK kind \in {"completed", "error", "aborted", "retry"} :
              /\ kind = "aborted" => slot.abort # "none"
              /\ IF kind = "error" /\ SlowSettle
                 THEN settling' = settling \cup {Left(slot)} /\ UNCHANGED at
                 ELSE /\ at' = [at EXCEPT ![p] = [step |-> kind, row |-> slot]]
                      /\ UNCHANGED settling
        BY <1>3, <3>2, Zenon DEF TurnEnds
      <4>2. at' = [at EXCEPT ![p] = [step |-> kind, row |-> slot]] /\ UNCHANGED settling
        BY <4>1 DEF LoneTalk
      <4> QED BY <4>1, <4>2
    <3> QED BY <3>1, <3>2
  <2>3. Touched(rows, rows') /\ \A i \in DOMAIN rows : rows'[i].claim = rows[i].claim
    BY <2>1 DEF Touched
  <2>4. CASE UNCHANGED <<settling, at>>
    BY <1>0, <2>1, <2>3, <2>4, LonePlain
  <2>5. ASSUME UNCHANGED settling, NEW kind \in {"completed", "error", "aborted", "retry"},
               kind = "aborted" => slot.abort # "none",
               at' = [at EXCEPT ![p] = [step |-> kind, row |-> slot]]
        PROVE  LoneParts'
    <3>1. /\ at'[p].step = kind /\ at'[p].row = slot
          /\ \A q \in Process \ {p} : at'[q] = at[q]
      <4>1. at'[p] = [step |-> kind, row |-> slot] /\ \A q \in Process \ {p} : at'[q] = at[q]
        BY <1>0, <2>5
      <4> QED BY <4>1
    <3>2. Fits(rows, p, slot) /\ Relieved(rows, Over, slot)
      BY <1>0, <2>1 DEF LoneParts
    <3>3. Passes(rows, rows', answered' \cup stopped')
      BY <2>3, TouchedPasses
    <3>4. Over \subseteq answered' \cup stopped' /\ Accepted' = Accepted /\ settling' = {}
      BY <1>0, <2>1, <2>5 DEF Over, Accepted, LoneParts
    <3>5. ASSUME NEW q \in Process
          PROVE  \/ at'[q] = at[q]
                 \/ /\ Fits(rows, q, at'[q].row) /\ at'[q].step \notin {"flagging", "stopping"}
                    /\ at'[q].step = "aborted"
                         => at'[q].row.abort # "none" /\ Relieved(rows, Over, at'[q].row)
      BY <2>5, <3>1, <3>2
    <3> QED BY <1>0, <2>1, <3>3, <3>4, <3>5, LoneStep
  <2> QED BY <2>2, <2>4, <2>5
<1>4. CASE Settle(p)
  <2> DEFINE t == at[p].row
             D == answered' \cup stopped'
  <2>1. /\ at[p].step \in {"completed", "error", "aborted"}
        /\ rows' = Complete(rows, t.id, p) /\ at' = [at EXCEPT ![p] = Resting]
        /\ answered' = IF at[p].step = "aborted" THEN answered ELSE answered \cup ToSet(t.msgs)
        /\ UNCHANGED <<sent, slot, settling, stopped>>
    BY <1>4 DEF Settle, Stands
  <2>2. t \in Turn /\ t # None /\ t.owner = p
    BY <1>0, <2>1, TypeFacts, NoneAssumption DEF AtFor
  <2>3. Over \subseteq D /\ Accepted' = Accepted /\ settling' = {}
    <3>1. answered \subseteq answered'
      BY <2>1, Zenon
    <3> QED BY <1>0, <2>1, <3>1 DEF Over, Accepted, LoneParts
  <2>4. Fits(rows, p, t)
    BY <1>0, <2>2 DEF LoneParts
  <2>5. \A i \in DOMAIN rows : rows[i].id = t.id /\ rows[i].claim = p => ToSet(rows[i].msgs) \subseteq D
    <3>1. CASE at[p].step = "aborted"
      <4>1. t.abort # "none" /\ Relieved(rows, Over, t)
        BY <1>0, <3>1 DEF LoneParts
      <4>2. t.abort \in {"internal", "external"}
        BY <2>2, <4>1 DEF Turn
      <4> HIDE DEF t, D
      <4> QED BY <2>2, <2>3, <2>4, <4>1, <4>2 DEF Relieved, Fits
    <3>2. CASE at[p].step # "aborted"
      <4>1. ToSet(t.msgs) \subseteq D
        BY <2>1, <3>2
      <4> HIDE DEF t, D
      <4> QED BY <2>4, <4>1 DEF Fits
    <3> QED BY <3>1, <3>2
  <2>6. Passes(rows, rows', D)
    <3> HIDE DEF D, t
    <3> QED BY <1>0, <2>1, <2>5, CompletedPasses
  <2>7. \A q \in Process : at'[q] = at[q] \/ (at'[q].row = None /\ at'[q].step = "idle")
    BY <1>0, <2>1, RestsAt
  <2> QED BY <1>0, <2>1, <2>3, <2>6, <2>7, LoneStep
<1>5. CASE SettleError(p)
  BY <1>0, <1>5 DEF SettleError, LoneParts
<1> QED BY <1>1, <1>2, <1>3, <1>4, <1>5

LEMMA LoneRetry ==
  ASSUME LoneTalk, LoneInv, TypeOK', NEW p \in Process,
         Restart(p) \/ RestartDropped(p) \/ RestartFails(p)
  PROVE  LoneParts'
PROOF
<1> DEFINE t == at[p].row
           D == answered' \cup stopped'
<1>0. TypeOK /\ LoneParts /\ RowsFor(rows, sent)
  BY TypeFacts DEF LoneInv
<1>1. at[p].step = "retry" /\ Open(Process \ {p}) /\ at' = [at EXCEPT ![p] = Resting]
  BY DEF Restart, RestartDropped, RestartFails, Stands
<1>2. t \in Turn /\ Carries(t, sent) /\ t.id # None /\ t # None
  <2>1. t \in Turn /\ Carries(t, sent) /\ t.id # None
    BY <1>0, <1>1, RetryTurn
  <2> QED BY <2>1, NoneAssumption
<1>3. Fits(rows, p, t)
  BY <1>0, <1>2 DEF LoneParts
<1>4. \A q \in Process : at'[q] = at[q] \/ (at'[q].row = None /\ at'[q].step = "idle")
  BY <1>0, <1>1, RestsAt
<1>5. CASE Restart(p)
  <2>1. slot' = Started(p, t, Main) /\ UNCHANGED <<sent, rows, settling, answered, stopped>>
    BY <1>5 DEF Restart
  <2>2. slot'.owner = p /\ slot'.id = t.id /\ slot'.msgs = t.msgs /\ slot'.abort = "none"
    BY <1>2, <2>1, MainAssumption, StartedTurn
  <2>3. Fits(rows, slot'.owner, slot')
    BY <1>3, <2>2 DEF Fits
  <2>4. Passes(rows, rows', D)
    <3>1. Touched(rows, rows') /\ \A i \in DOMAIN rows : rows'[i].claim = rows[i].claim
      BY <2>1 DEF Touched
    <3> QED BY <3>1, TouchedPasses
  <2>5. Over \subseteq D /\ Accepted' = Accepted /\ settling' = {}
    BY <1>0, <2>1 DEF Over, Accepted, LoneParts
  <2> QED BY <1>0, <1>4, <2>2, <2>3, <2>4, <2>5, LoneStep
<1>6. CASE RestartDropped(p)
  <2>1. /\ rows' = Complete(rows, t.id, p) /\ stopped' = stopped \cup ToSet(t.msgs)
        /\ UNCHANGED <<sent, slot, settling, answered>>
    BY <1>6 DEF RestartDropped
  <2>2. \A i \in DOMAIN rows : rows[i].id = t.id /\ rows[i].claim = p => ToSet(rows[i].msgs) \subseteq D
    BY <1>3, <2>1 DEF Fits
  <2>3. Passes(rows, rows', D)
    <3> HIDE DEF D, t
    <3> QED BY <1>0, <2>1, <2>2, CompletedPasses
  <2>4. Over \subseteq D /\ Accepted' = Accepted /\ settling' = {}
    BY <1>0, <2>1 DEF Over, Accepted, LoneParts
  <2> QED BY <1>0, <1>4, <2>1, <2>3, <2>4, LoneStep
<1>7. CASE RestartFails(p)
  <2>1. Requeueable(t)
    BY <1>0, <1>2, LoneRequeue
  <2>2. Requeue(t) /\ UNCHANGED settling
    BY <1>7, <2>1, Zenon DEF RestartFails
  <2>3. slot' = Displaced(t) /\ UNCHANGED <<sent, stopped>>
    BY <1>7 DEF RestartFails
  <2> QED BY <1>1, <1>2, <2>2, <2>3, LoneDisplaced
<1> QED BY <1>5, <1>6, <1>7

LEMMA LoneEpochs ==
  ASSUME LoneTalk, LoneInv, TypeOK', NEW p \in Process,
         Stop(p) \/ Cancel(p) \/ Compact(p) \/ CompactBegins(p)
  PROVE  LoneParts'
PROOF
<1> DEFINE D == answered' \cup stopped'
<1>0. TypeOK /\ LoneParts /\ RowsFor(rows, sent) /\ DOMAIN at = Process
  BY TypeFacts DEF LoneInv
<1>1. ASSUME NEW s \in {"stopping", "compacting"}, Free(p), at' = [at EXCEPT ![p].step = s]
      PROVE  at'[p].row = None /\ at'[p].step = s /\ \A q \in Process \ {p} : at'[q] = at[q]
  <2>1. at[p] = Resting /\ s \in Step
    BY <1>0, <1>1, FreeAt DEF Step
  <2>2. Moves(at, at', p, [step |-> s, row |-> None])
    BY <1>0, <1>1, <2>1, StepsTo, RestsFor
  <2> QED BY <1>0, <2>2 DEF Moves
<1>2. ASSUME UNCHANGED rows
      PROVE  Touched(rows, rows') /\ \A i \in DOMAIN rows : rows'[i].claim = rows[i].claim
  BY <1>2 DEF Touched
<1>3. CASE Stop(p)
  <2>1. /\ Free(p) /\ stopped' = stopped \cup (Accepted \ answered)
        /\ at' = [at EXCEPT ![p].step = "stopping"]
        /\ UNCHANGED <<sent, rows, slot, settling, answered>>
    BY <1>3 DEF Stop
  <2>2. Accepted' = Accepted /\ settling' = {} /\ Over \subseteq D /\ Accepted' \subseteq D
    BY <1>0, <2>1 DEF Over, Accepted, LoneParts
  <2>3. \A q \in Process : at'[q] = at[q] \/ (at'[q].row = None /\ at'[q].step = "stopping")
    BY <1>1, <2>1
  <2>4. Passes(rows, rows', D)
    BY <1>2, <2>1, TouchedPasses
  <2> QED BY <1>0, <2>1, <2>2, <2>3, <2>4, LoneStep
<1>4. CASE Cancel(p)
  <2>1. /\ at[p].step = "stopping" /\ rows' = Current(rows) /\ slot' = Flagged("external")
        /\ at' = [at EXCEPT ![p] = Resting]
        /\ UNCHANGED <<sent, settling, answered, stopped>>
    BY <1>4 DEF Cancel, Stands
  <2>2. Accepted' = Accepted /\ settling' = {} /\ D = Over /\ Accepted \subseteq Over
    BY <1>0, <2>1 DEF Over, Accepted, LoneParts
  <2>3. Passes(rows, rows', D)
    <3> DEFINE S == {i \in DOMAIN rows : rows[i].epoch >= epoch}
    <3>1. S \subseteq DOMAIN rows /\ rows' = Picked(rows, S)
      BY <2>1, Zenon DEF Current
    <3>2. \A k \in DOMAIN rows \ S : ToSet(rows[k].msgs) \subseteq D
      BY <1>0, <2>2, TypeFacts DEF RowsFor, RowFor
    <3> HIDE DEF S, D
    <3> QED BY <1>0, <3>1, <3>2, PickedPasses
  <2>4. \/ slot' = None
        \/ Fits(rows, slot'.owner, slot') /\ Relieved(rows', D, slot')
    <3>1. CASE slot = None
      BY <2>1, <3>1 DEF Flagged
    <3>2. CASE slot # None
      <4>1. TurnFor(slot, sent)
        BY <1>0, <3>2, TypeFacts
      <4>2. /\ slot'.owner = slot.owner /\ slot'.id = slot.id /\ slot'.msgs = slot.msgs
            /\ slot'.abort = "external"
        BY <2>1, <3>2, <4>1, FlaggedTurn
      <4>3. ToSet(slot'.msgs) \subseteq D
        BY <1>0, <2>2, <4>1, <4>2, TypeFacts DEF TurnFor
      <4>4. Fits(rows, slot'.owner, slot')
        BY <1>0, <3>2, <4>2 DEF LoneParts, Fits
      <4> QED BY <4>2, <4>3, <4>4 DEF Relieved
    <3> QED BY <3>1, <3>2
  <2>5. \A q \in Process : at'[q] = at[q] \/ (at'[q].row = None /\ at'[q].step = "idle")
    BY <1>0, <2>1, RestsAt
  <2> QED BY <1>0, <2>2, <2>3, <2>4, <2>5, LoneStep
<1>5. CASE Compact(p)
  <2>1. /\ Free(p) /\ at' = [at EXCEPT ![p].step = "compacting"]
        /\ UNCHANGED <<sent, rows, slot, settling, answered, stopped>>
    BY <1>5 DEF Compact
  <2>2. \A q \in Process : at'[q] = at[q] \/ (at'[q].row = None /\ at'[q].step = "compacting")
    BY <1>1, <2>1
  <2> QED BY <1>0, <1>2, <2>1, <2>2, LonePlain
<1>6. CASE CompactBegins(p)
  <2>1. at' = [at EXCEPT ![p] = Resting] /\ UNCHANGED <<sent, rows, slot, settling, answered, stopped>>
    BY <1>6 DEF CompactBegins
  <2>2. \A q \in Process : at'[q] = at[q] \/ (at'[q].row = None /\ at'[q].step = "idle")
    BY <1>0, <2>1, RestsAt
  <2> QED BY <1>0, <1>2, <2>1, <2>2, LonePlain
<1> QED BY <1>3, <1>4, <1>5, <1>6

LEMMA LoneRest ==
  ASSUME LoneTalk, LoneInv, TypeOK', NEW p \in Process,
         FlagSteer(p) \/ Crash(p)
  PROVE  LoneParts'
PROOF
<1>0. TypeOK /\ LoneParts
  BY DEF LoneInv
<1>1. ASSUME UNCHANGED rows
      PROVE  Touched(rows, rows') /\ \A i \in DOMAIN rows : rows'[i].claim = rows[i].claim
  BY <1>1 DEF Touched
<1>2. CASE FlagSteer(p)
  <2>1. /\ at[p].step = "flagging" /\ slot' = Flagged("internal") /\ at' = [at EXCEPT ![p] = Resting]
        /\ UNCHANGED <<sent, rows, settling, answered, stopped>>
    BY <1>2 DEF FlagSteer, Stands
  <2>2. Unclaimed(rows')
    BY <1>0, <2>1 DEF LoneParts
  <2>3. Over \subseteq answered' \cup stopped' /\ Accepted' = Accepted /\ settling' = {}
    BY <1>0, <2>1 DEF Over, Accepted, LoneParts
  <2>4. \/ slot' = None \/ slot' = slot
        \/ Fits(rows, slot'.owner, slot') /\ Relieved(rows', answered' \cup stopped', slot')
    BY <1>0, <2>1, <2>2, <2>3, LoneFlags
  <2>5. Passes(rows, rows', answered' \cup stopped')
    BY <1>1, <2>1, TouchedPasses
  <2>6. \A q \in Process : at'[q] = at[q] \/ (at'[q].row = None /\ at'[q].step = "idle")
    BY <1>0, <2>1, RestsAt
  <2> QED BY <1>0, <2>3, <2>4, <2>5, <2>6, LoneStep
<1>3. CASE Crash(p)
  <2>1. /\ at' = [at EXCEPT ![p] = Resting] /\ settling' \subseteq settling
        /\ UNCHANGED <<sent, rows, slot, answered, stopped>>
    BY <1>3 DEF Crash
  <2>2. \A q \in Process : at'[q] = at[q] \/ (at'[q].row = None /\ at'[q].step = "idle")
    BY <1>0, <2>1, RestsAt
  <2> QED BY <1>0, <1>1, <2>1, <2>2, LonePlain
<1> QED BY <1>2, <1>3

LEMMA LoneClock ==
  ASSUME LoneTalk, LoneInv, TypeOK', ClaimAges \/ Unfence \/ LeaseExpires \/ UNCHANGED vars
  PROVE  LoneParts'
PROOF
<1>0. TypeOK /\ LoneParts
  BY DEF LoneInv
<1>1. CASE ClaimAges
  <2>1. /\ Touched(rows, rows') /\ \A i \in DOMAIN rows : rows'[i].claim = rows[i].claim
        /\ UNCHANGED <<sent, slot, settling, at, answered, stopped>>
    BY <1>0, <1>1, AgedRows
  <2> QED BY <1>0, <2>1, LonePlain
<1>2. CASE Unfence \/ LeaseExpires \/ UNCHANGED vars
  <2>1. /\ UNCHANGED <<sent, rows, settling, at, answered, stopped>>
        /\ slot' = None \/ slot' = slot
    BY <1>2 DEF Unfence, LeaseExpires, vars
  <2>2. Touched(rows, rows') /\ \A i \in DOMAIN rows : rows'[i].claim = rows[i].claim
    BY <2>1 DEF Touched
  <2> QED BY <1>0, <2>1, <2>2, LonePlain
<1> QED BY <1>1, <1>2

LEMMA LoneNext == LoneTalk /\ LoneInv /\ [Next]_vars => LoneInv'
PROOF
<1> SUFFICES ASSUME LoneTalk, LoneInv, [Next]_vars PROVE LoneInv'
  OBVIOUS
<1>0. TypeOK'
  BY TypeNext DEF LoneInv
<1> SUFFICES LoneParts'
  BY <1>0 DEF LoneInv
<1>1. ASSUME NEW p \in Process,
             (\E a \in Actor, t \in Thread, steer \in BOOLEAN : Submit(p, a, t, steer)) \/ SteerQueued(p)
      PROVE  LoneParts'
  BY <1>0, <1>1, LoneMint
<1>2. ASSUME NEW p \in Process, Claim(p) PROVE LoneParts'
  BY <1>0, <1>2, LoneClaim
<1>3. ASSUME NEW p \in Process, Admit(p) \/ Take(p) \/ TakeFails(p) PROVE LoneParts'
  BY <1>0, <1>3, LoneWorker
<1>4. ASSUME NEW p \in Process,
             Inject(p) \/ ProviderContent(p) \/ TurnEnds(p) \/ Settle(p) \/ SettleError(p)
      PROVE  LoneParts'
  BY <1>0, <1>4, LoneTurn
<1>5. ASSUME NEW p \in Process, Restart(p) \/ RestartDropped(p) \/ RestartFails(p) PROVE LoneParts'
  BY <1>0, <1>5, LoneRetry
<1>6. ASSUME NEW p \in Process, Stop(p) \/ Cancel(p) \/ Compact(p) \/ CompactBegins(p)
      PROVE  LoneParts'
  BY <1>0, <1>6, LoneEpochs
<1>7. ASSUME NEW p \in Process, FlagSteer(p) \/ Crash(p) PROVE LoneParts'
  BY <1>0, <1>7, LoneRest
<1>8. CASE ClaimAges \/ Unfence \/ LeaseExpires \/ UNCHANGED vars
  BY <1>0, <1>8, LoneClock
<1> QED BY <1>1, <1>2, <1>3, <1>4, <1>5, <1>6, <1>7, <1>8, Zenon DEF Next

(* For one person in one channel no message falls out of the system either when *)
(* another process takes the room between a worker's claim and its turn, or     *)
(* before a retry, and the turn is queued again (waitToStartRemoteUserTurn).   *)
THEOREM NothingIsDroppedAlone == LoneTalk => (Spec => []NothingIsDropped)
PROOF
<1>1. CASE ~LoneTalk
  BY <1>1
<1>2. CASE LoneTalk
  <2>1. Init => LoneInv
    <3> SUFFICES ASSUME Init PROVE LoneInv
      OBVIOUS
    <3>1. /\ DOMAIN rows = {} /\ slot = None /\ settling = {} /\ DOMAIN sent = {}
          /\ \A p \in Process : at[p].step = "idle" /\ at[p].row = None
      BY RestsFor DEF Init
    <3>2. Accepted = {}
      BY <3>1 DEF Accepted
    <3> QED BY <3>1, <3>2, TypeInit DEF LoneInv, LoneParts, NothingIsDropped
  <2>2. LoneInv /\ [Next]_vars => LoneInv'
    BY <1>2, LoneNext
  <2>3. LoneInv => NothingIsDropped
    BY DEF LoneInv, LoneParts
  <2> QED BY <2>1, <2>2, <2>3, PTL DEF Spec
<1> QED BY <1>1, <1>2
=============================================================================
