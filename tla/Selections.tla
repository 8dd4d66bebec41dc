----------------------------- MODULE Selections -----------------------------
(***************************************************************************)
(* What the storage code does to lists of rows: keep some, in order, and     *)
(* lay the lists that rows carry end to end.  The operators of the community *)
(* modules that do this are recursive over data; these are written as one    *)
(* recursive function, so that SelectionsProofs can say what they return.    *)
(***************************************************************************)
EXTENDS Naturals, Sequences

(* The sequences of ss, one after the other. *)
Joined(ss) ==
  LET f[n \in 0..Len(ss)] == IF n = 0 THEN <<>> ELSE f[n - 1] \o ss[n]
  IN  f[Len(ss)]

(* The elements of s at the places S, in order. *)
Picked(s, S) == Joined([i \in 1..Len(s) |-> IF i \in S THEN <<s[i]>> ELSE <<>>])
=============================================================================
