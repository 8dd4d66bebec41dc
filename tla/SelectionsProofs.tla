-------------------------- MODULE SelectionsProofs --------------------------
(***************************************************************************)
(* What Joined and Picked return.                                           *)
(***************************************************************************)
EXTENDS Selections, Integers, WellFoundedInduction, TLAPS

(* Induction over the natural numbers, for a set of them. *)
LEMMA Induction ==
  ASSUME NEW T \in SUBSET Nat, 0 \in T, \A n \in T : n + 1 \in T
  PROVE  T = Nat
PROOF
<1>1. SUFFICES ASSUME Nat \ T # {} PROVE FALSE
  OBVIOUS
<1>2. IsWellFoundedOn(OpToRel(<, Nat), Nat)
  BY NatLessThanWellFounded
<1>3. PICK x \in Nat \ T : \A y \in Nat \ T : ~(<<y, x>> \in OpToRel(<, Nat))
  <2>1. Nat \ T \subseteq Nat
    OBVIOUS
  <2> QED BY ONLY <1>1, <1>2, <2>1, WFMin
<1>4. \A y \in Nat \ T : ~(y < x)
  BY <1>3 DEF OpToRel
<1>5. x \in Nat /\ x \notin T
  OBVIOUS
<1>6. x # 0
  BY <1>5
<1>7. x - 1 \in Nat /\ x - 1 < x /\ (x - 1) + 1 = x
  BY <1>5, <1>6
<1>8. x - 1 \in T
  BY <1>4, <1>7
<1> QED BY <1>5, <1>7, <1>8

(* The recursive function of Joined exists, and does what it says. *)
Steps(f, ss, n) == f = [i \in 0..n |-> IF i = 0 THEN <<>> ELSE f[i - 1] \o ss[i]]

LEMMA StepsExist ==
  ASSUME NEW ss, NEW n \in Nat
  PROVE  \E f : Steps(f, ss, n)
PROOF
<1> DEFINE T == {m \in Nat : \E f : Steps(f, ss, m)}
<1>1. 0 \in T
  <2> DEFINE g == [i \in 0..0 |-> <<>>]
  <2>1. g = [i \in 0..0 |-> IF i = 0 THEN <<>> ELSE g[i - 1] \o ss[i]]
    OBVIOUS
  <2>2. Steps(g, ss, 0)
    BY <2>1 DEF Steps
  <2> QED BY <2>2
<1>2. \A m \in T : m + 1 \in T
  <2> SUFFICES ASSUME NEW m \in Nat, NEW f, Steps(f, ss, m)
               PROVE  \E g : Steps(g, ss, m + 1)
    OBVIOUS
  <2> DEFINE g == [i \in 0..(m + 1) |-> IF i = m + 1 THEN f[m] \o ss[m + 1] ELSE f[i]]
  <2>1. \A i \in 0..m : g[i] = f[i]
    OBVIOUS
  <2>2. \A i \in 0..m : f[i] = IF i = 0 THEN <<>> ELSE f[i - 1] \o ss[i]
    BY DEF Steps
  <2>3. \A i \in 0..(m + 1) : g[i] = IF i = 0 THEN <<>> ELSE g[i - 1] \o ss[i]
    <3> TAKE i \in 0..(m + 1)
    <3>1. CASE i = m + 1
      <4>1. i # 0 /\ i - 1 = m /\ g[i] = f[m] \o ss[i] /\ g[i - 1] = f[m]
        BY <3>1
      <4> QED BY <4>1, Zenon
    <3>2. CASE i # m + 1
      <4>1. i \in 0..m /\ (i # 0 => i - 1 \in 0..m)
        BY <3>2
      <4>2. g[i] = f[i] /\ (i # 0 => g[i - 1] = f[i - 1])
        BY <4>1, <2>1
      <4> HIDE DEF g
      <4> QED BY <4>1, <4>2, <2>2, Zenon
    <3> QED BY <3>1, <3>2
  <2>4. g = [i \in 0..(m + 1) |-> g[i]]
    OBVIOUS
  <2> HIDE DEF g
  <2>5. g = [i \in 0..(m + 1) |-> IF i = 0 THEN <<>> ELSE g[i - 1] \o ss[i]]
    BY <2>3, <2>4, Zenon
  <2> QED BY <2>5 DEF Steps
<1>3. T = Nat
  <2>1. T \in SUBSET Nat
    OBVIOUS
  <2> HIDE DEF T
  <2> QED BY <1>1, <1>2, <2>1, Induction
<1> QED BY <1>3

LEMMA JoinedSteps ==
  ASSUME NEW ss, Len(ss) \in Nat
  PROVE  \E f : Steps(f, ss, Len(ss)) /\ Joined(ss) = f[Len(ss)]
PROOF
<1> DEFINE g == CHOOSE f : Steps(f, ss, Len(ss))
<1>1. Steps(g, ss, Len(ss))
  BY StepsExist, Zenon
<1>2. Joined(ss) = g[Len(ss)]
  BY Zenon DEF Joined, Steps
<1> QED BY <1>1, <1>2, Zenon

(* Where the k-th element of a joined sequence comes from: its sequence b[k]  *)
(* and its place o[k] there, in lexicographic order, none left out.           *)
Origins(t, ss, n, b, o) ==
  /\ b \in [1..Len(t) -> 1..n] /\ o \in [1..Len(t) -> Nat]
  /\ \A k \in 1..Len(t) : o[k] \in 1..Len(ss[b[k]]) /\ t[k] = ss[b[k]][o[k]]
  /\ \A k, l \in 1..Len(t) : k < l => b[k] < b[l] \/ (b[k] = b[l] /\ o[k] < o[l])
  /\ \A i \in 1..n : \A j \in 1..Len(ss[i]) : \E k \in 1..Len(t) : b[k] = i /\ o[k] = j

LEMMA OneMoreOrigins ==
  ASSUME NEW X, NEW ss, NEW n \in Nat, NEW t \in Seq(X), ss[n + 1] \in Seq(X),
         NEW b, NEW o, Origins(t, ss, n, b, o)
  PROVE  \E c, q : Origins(t \o ss[n + 1], ss, n + 1, c, q)
PROOF
<1> DEFINE s == ss[n + 1]
           u == t \o s
           L == Len(t)
           M == Len(u)
           c == [k \in 1..M |-> IF k <= L THEN b[k] ELSE n + 1]
           q == [k \in 1..M |-> IF k <= L THEN o[k] ELSE k - L]
<1>1. L \in Nat /\ Len(s) \in Nat /\ M = L + Len(s)
  OBVIOUS
<1>2. /\ \A k \in 1..L : u[k] = t[k]
      /\ \A k \in 1..M : k > L => k - L \in 1..Len(s) /\ u[k] = s[k - L]
  OBVIOUS
<1>3. /\ \A k \in 1..L : b[k] \in 1..n /\ o[k] \in Nat /\ o[k] \in 1..Len(ss[b[k]])
      /\ \A k \in 1..L : t[k] = ss[b[k]][o[k]]
  BY DEF Origins
<1>4. \A k, l \in 1..L : k < l => b[k] < b[l] \/ (b[k] = b[l] /\ o[k] < o[l])
  BY DEF Origins
<1>5. \A i \in 1..n : \A j \in 1..Len(ss[i]) : \E k \in 1..L : b[k] = i /\ o[k] = j
  BY DEF Origins
<1>6. \A k \in 1..M : /\ k <= L => k \in 1..L /\ c[k] = b[k] /\ q[k] = o[k]
                      /\ k > L => c[k] = n + 1 /\ q[k] = k - L
  BY <1>1
<1>7. DOMAIN c = 1..M /\ DOMAIN q = 1..M /\ c = [k \in 1..M |-> c[k]] /\ q = [k \in 1..M |-> q[k]]
  OBVIOUS
<1>8. s = ss[n + 1]
  OBVIOUS
<1> HIDE DEF s, u, L, M, c, q
<1>9. \A k \in 1..M : c[k] \in 1..(n + 1) /\ q[k] \in Nat
  <2> TAKE k \in 1..M
  <2>1. CASE k <= L
    BY <2>1, <1>3, <1>6
  <2>2. CASE k > L
    BY <2>2, <1>1, <1>6
  <2> QED BY <2>1, <2>2, <1>1
<1>10. c \in [1..M -> 1..(n + 1)] /\ q \in [1..M -> Nat]
  BY <1>7, <1>9
<1>11. \A k \in 1..M : q[k] \in 1..Len(ss[c[k]]) /\ u[k] = ss[c[k]][q[k]]
  <2> TAKE k \in 1..M
  <2>1. CASE k <= L
    BY <2>1, <1>2, <1>3, <1>6
  <2>2. CASE k > L
    <3>1. c[k] = n + 1 /\ q[k] = k - L /\ k - L \in 1..Len(s) /\ u[k] = s[k - L]
      BY <2>2, <1>2, <1>6
    <3> QED BY <3>1, <1>8, Zenon
  <2> QED BY <2>1, <2>2, <1>1
<1>12. \A k, l \in 1..M : k < l => c[k] < c[l] \/ (c[k] = c[l] /\ q[k] < q[l])
  <2> SUFFICES ASSUME NEW k \in 1..M, NEW l \in 1..M, k < l
               PROVE  c[k] < c[l] \/ (c[k] = c[l] /\ q[k] < q[l])
    OBVIOUS
  <2>1. CASE l <= L
    <3>1. k <= L
      BY <2>1, <1>1
    <3>2. k \in 1..L /\ l \in 1..L /\ c[k] = b[k] /\ q[k] = o[k] /\ c[l] = b[l] /\ q[l] = o[l]
      BY <2>1, <3>1, <1>6
    <3> QED BY <3>2, <1>4
  <2>2. CASE l > L /\ k <= L
    <3>1. c[l] = n + 1 /\ c[k] = b[k] /\ b[k] \in 1..n
      BY <2>2, <1>6, <1>3
    <3> QED BY <3>1
  <2>3. CASE l > L /\ k > L
    <3>1. c[l] = n + 1 /\ c[k] = n + 1 /\ q[k] = k - L /\ q[l] = l - L
      BY <2>3, <1>6
    <3> QED BY <3>1, <1>1
  <2> QED BY <2>1, <2>2, <2>3, <1>1
<1>13. \A i \in 1..(n + 1) : \A j \in 1..Len(ss[i]) :
         \E k \in 1..M : c[k] = i /\ q[k] = j
  <2> SUFFICES ASSUME NEW i \in 1..(n + 1), NEW j \in 1..Len(ss[i])
               PROVE  \E k \in 1..M : c[k] = i /\ q[k] = j
    OBVIOUS
  <2>1. CASE i = n + 1
    <3>0. j \in 1..Len(s)
      BY <2>1, <1>8
    <3>1. L + j \in 1..M /\ L + j > L /\ (L + j) - L = j
      BY <3>0, <1>1
    <3>2. c[L + j] = i /\ q[L + j] = j
      BY <3>1, <2>1, <1>6
    <3> QED BY <3>1, <3>2
  <2>2. CASE i # n + 1
    <3>1. i \in 1..n
      BY <2>2
    <3>2. PICK k \in 1..L : b[k] = i /\ o[k] = j
      BY <3>1, <1>5
    <3>3. k \in 1..M /\ k <= L
      BY <1>1
    <3> QED BY <3>2, <3>3, <1>6
  <2> QED BY <2>1, <2>2
<1>14. M = Len(u) /\ u = t \o ss[n + 1]
  BY DEF M, u, s
<1>15. Origins(u, ss, n + 1, c, q)
  BY <1>10, <1>11, <1>12, <1>13, <1>14 DEF Origins
<1> QED BY <1>14, <1>15

LEMMA JoinedOrigins ==
  ASSUME NEW X, NEW ss \in Seq(Seq(X))
  PROVE  /\ Joined(ss) \in Seq(X)
         /\ \E b, o : Origins(Joined(ss), ss, Len(ss), b, o)
PROOF
<1>1. PICK f : Steps(f, ss, Len(ss)) /\ Joined(ss) = f[Len(ss)]
  BY JoinedSteps
<1>2. \A i \in 0..Len(ss) : f[i] = IF i = 0 THEN <<>> ELSE f[i - 1] \o ss[i]
  BY <1>1 DEF Steps
<1> DEFINE Good(n) == f[n] \in Seq(X) /\ \E b, o : Origins(f[n], ss, n, b, o)
           T == {n \in Nat : n <= Len(ss) => Good(n)}
<1>3. 0 \in T
  <2>1. f[0] = <<>>
    BY <1>2
  <2> DEFINE e == [k \in 1..0 |-> 0]
  <2>2. Len(<<>>) = 0 /\ 1..0 = {} /\ <<>> \in Seq(X)
    OBVIOUS
  <2>3. e \in [1..0 -> 1..0] /\ e \in [1..0 -> Nat]
    OBVIOUS
  <2> HIDE DEF e
  <2>4. Origins(<<>>, ss, 0, e, e)
    BY <2>2, <2>3 DEF Origins
  <2>5. Good(0)
    BY <2>1, <2>2, <2>4
  <2> QED BY <2>5
<1>4. \A n \in T : n + 1 \in T
  <2>0. SUFFICES ASSUME NEW n \in Nat, n + 1 <= Len(ss), Good(n)
                 PROVE  Good(n + 1)
    <3> HIDE DEF Good
    <3> QED OBVIOUS
  <2>1. f[n + 1] = f[n] \o ss[n + 1] /\ ss[n + 1] \in Seq(X)
    <3>1. n + 1 \in 0..Len(ss) /\ n + 1 # 0 /\ (n + 1) - 1 = n /\ n + 1 \in DOMAIN ss
      BY <2>0
    <3>2. ss[n + 1] \in Seq(X)
      BY <3>1
    <3> QED BY <3>1, <3>2, <1>2, Zenon
  <2>2. PICK b, o : Origins(f[n], ss, n, b, o)
    BY <2>0, Zenon
  <2>3. \E c, q : Origins(f[n] \o ss[n + 1], ss, n + 1, c, q)
    BY <2>0, <2>1, <2>2, OneMoreOrigins
  <2>4. f[n + 1] \in Seq(X)
    BY <2>0, <2>1
  <2> QED BY <2>1, <2>3, <2>4
<1>5. T = Nat
  <2>1. T \in SUBSET Nat
    OBVIOUS
  <2> HIDE DEF T
  <2> QED BY <1>3, <1>4, <2>1, Induction
<1>6. Len(ss) \in T
  BY <1>5
<1>7. Good(Len(ss))
  BY <1>6
<1> QED BY <1>1, <1>7

(* The elements of a joined sequence are those of its parts. *)
LEMMA JoinedElements ==
  ASSUME NEW X, NEW ss \in Seq(Seq(X))
  PROVE  {Joined(ss)[k] : k \in DOMAIN Joined(ss)}
           = UNION {{ss[i][j] : j \in DOMAIN ss[i]} : i \in DOMAIN ss}
PROOF
<1> DEFINE t == Joined(ss)
<1>1. t \in Seq(X)
  BY JoinedOrigins, Zenon
<1>2. PICK b, o : Origins(t, ss, Len(ss), b, o)
  BY JoinedOrigins, Zenon
<1>3. DOMAIN t = 1..Len(t) /\ DOMAIN ss = 1..Len(ss) /\ \A i \in DOMAIN ss : DOMAIN ss[i] = 1..Len(ss[i])
  BY <1>1
<1> HIDE DEF t
<1>4. \A k \in DOMAIN t : b[k] \in DOMAIN ss /\ o[k] \in DOMAIN ss[b[k]] /\ t[k] = ss[b[k]][o[k]]
  BY <1>2, <1>3 DEF Origins
<1>5. \A i \in DOMAIN ss : \A j \in DOMAIN ss[i] : \E k \in DOMAIN t : b[k] = i /\ o[k] = j
  <2>1. \A i \in 1..Len(ss) : \A j \in 1..Len(ss[i]) : \E k \in 1..Len(t) : b[k] = i /\ o[k] = j
    BY <1>2, Zenon DEF Origins
  <2> SUFFICES ASSUME NEW i \in DOMAIN ss, NEW j \in DOMAIN ss[i]
               PROVE  \E k \in DOMAIN t : b[k] = i /\ o[k] = j
    OBVIOUS
  <2>2. i \in 1..Len(ss) /\ j \in 1..Len(ss[i])
    BY <1>3
  <2>3. PICK k \in 1..Len(t) : b[k] = i /\ o[k] = j
    BY <2>1, <2>2
  <2>4. k \in DOMAIN t
    BY <1>3
  <2> QED BY <2>3, <2>4
<1>6. \A i \in DOMAIN ss : \A j \in DOMAIN ss[i] : \E k \in DOMAIN t : t[k] = ss[i][j]
  BY <1>4, <1>5
<1>7. ASSUME NEW x \in {t[k] : k \in DOMAIN t}
      PROVE  x \in UNION {{ss[i][j] : j \in DOMAIN ss[i]} : i \in DOMAIN ss}
  BY <1>4
<1>8. ASSUME NEW x \in UNION {{ss[i][j] : j \in DOMAIN ss[i]} : i \in DOMAIN ss}
      PROVE  x \in {t[k] : k \in DOMAIN t}
  BY <1>6
<1> QED BY <1>7, <1>8 DEF t

(* Picking keeps the order and drops nothing else: element i of the result    *)
(* comes from place h[i], and every chosen place has its element.             *)
Places(t, s, S, h) ==
  /\ h \in [1..Len(t) -> S]
  /\ \A i \in 1..Len(t) : t[i] = s[h[i]]
  /\ \A i, j \in 1..Len(t) : i < j => h[i] < h[j]
  /\ \A n \in S : \E i \in 1..Len(t) : h[i] = n

LEMMA PickedPlaces ==
  ASSUME NEW X, NEW s \in Seq(X), NEW S, S \subseteq DOMAIN s
  PROVE  /\ Picked(s, S) \in Seq(X)
         /\ \E h : Places(Picked(s, S), s, S, h)
PROOF
<1> DEFINE ss == [i \in 1..Len(s) |-> IF i \in S THEN <<s[i]>> ELSE <<>>]
           t == Picked(s, S)
<1>1. ss \in Seq(Seq(X)) /\ Len(ss) = Len(s)
  OBVIOUS
<1>2. \A i \in 1..Len(s) : ss[i] = IF i \in S THEN <<s[i]>> ELSE <<>>
  OBVIOUS
<1>3. t = Joined(ss)
  BY Zenon DEF Picked
<1> HIDE DEF ss, t
<1>4. t \in Seq(X)
  BY <1>1, <1>3, JoinedOrigins
<1>5. PICK b, o : Origins(t, ss, Len(s), b, o)
  BY <1>1, <1>3, JoinedOrigins
<1>6. \A i \in 1..Len(s) : /\ i \in S => Len(ss[i]) = 1 /\ ss[i][1] = s[i]
                           /\ i \notin S => Len(ss[i]) = 0
  <2> TAKE i \in 1..Len(s)
  <2>1. CASE i \in S
    <3>1. ss[i] = <<s[i]>>
      BY <2>1, <1>2
    <3> QED BY <2>1, <3>1
  <2>2. CASE i \notin S
    <3>1. ss[i] = <<>>
      BY <2>2, <1>2
    <3> QED BY <2>2, <3>1
  <2> QED BY <2>1, <2>2
<1>7. \A k \in 1..Len(t) : b[k] \in 1..Len(s) /\ o[k] \in 1..Len(ss[b[k]]) /\ t[k] = ss[b[k]][o[k]]
  BY <1>5 DEF Origins
<1>8. \A k \in 1..Len(t) : b[k] \in S /\ o[k] = 1 /\ t[k] = s[b[k]]
  BY <1>6, <1>7
<1>9. \A k, l \in 1..Len(t) : k < l => b[k] < b[l]
  BY <1>5, <1>8 DEF Origins
<1>10. \A n \in S : \E k \in 1..Len(t) : b[k] = n
  <2> TAKE n \in S
  <2>1. n \in 1..Len(s) /\ 1 \in 1..Len(ss[n])
    BY <1>6
  <2> QED BY <2>1, <1>5 DEF Origins
<1>11. b \in [1..Len(t) -> S]
  BY <1>5, <1>8 DEF Origins
<1> QED BY <1>3, <1>4, <1>8, <1>9, <1>10, <1>11 DEF Places, t
=============================================================================
