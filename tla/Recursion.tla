------------------------------ MODULE Recursion ------------------------------
(***************************************************************************)
(* Facts about numbers on which the proofs about recursive functions rest. *)
(* A function that is defined by recursion is a choice among those that    *)
(* its definition asks for: there is one (RecursionExists), and what holds *)
(* of it for all numbers fails, otherwise, for a least one (LeastNumber).  *)
(***************************************************************************)
EXTENDS Integers, WellFoundedInduction, TLAPS

(* A set of numbers that is not empty has a least element. *)
LEMMA LeastNumber ==
  ASSUME NEW T \in SUBSET Nat, T # {}
  PROVE  \E m \in T : \A n \in T : m <= n
<1>1. PICK m \in T : \A n \in T : <<n, m>> \notin OpToRel(<, Nat)
  BY NatLessThanWellFounded, WFMin
<1>2. \A n \in T : ~(n < m)
  BY <1>1 DEF OpToRel
<1> QED BY <1>2

(* f goes from base in N steps. *)
Follows(f, N, base, step) ==
  f[0] = base /\ \A n \in 1 .. N : f[n] = step[n][f[n - 1]]

(* What a recursive definition over 0 .. N asks for exists. *)
LEMMA RecursionExists ==
  ASSUME NEW S, NEW N \in Nat, NEW base \in S, NEW step \in [1 .. N -> [S -> S]]
  PROVE  \E f \in [0 .. N -> S] : Follows(f, N, base, step)
<1> USE DEF Follows
<1> DEFINE Upto(m) == \E f \in [0 .. m -> S] : Follows(f, m, base, step)
           Bad == {m \in 0 .. N : ~Upto(m)}
<1>1. Upto(0)
  <2> DEFINE f == [n \in 0 .. 0 |-> base]
  <2>1. f \in [0 .. 0 -> S] /\ f[0] = base /\ \A n \in 1 .. 0 : f[n] = step[n][f[n - 1]]
    OBVIOUS
  <2> HIDE DEF f
  <2> QED BY <2>1
<1>2. ASSUME NEW m \in 1 .. N, Upto(m - 1) PROVE Upto(m)
  <2>1. PICK f \in [0 .. m - 1 -> S] :
          f[0] = base /\ \A n \in 1 .. m - 1 : f[n] = step[n][f[n - 1]]
    BY <1>2
  <2>2. step[m] \in [S -> S] /\ f[m - 1] \in S
    BY <1>2, <2>1
  <2>3. step[m][f[m - 1]] \in S
    BY <2>2
  <2> DEFINE g == [n \in 0 .. m |-> IF n = m THEN step[m][f[m - 1]] ELSE f[n]]
  <2>4. \A n \in 0 .. m - 1 : f[n] \in S /\ n \in 0 .. m /\ n # m
    BY <1>2, <2>1
  <2>5. g \in [0 .. m -> S]
    BY <1>2, <2>3, <2>4
  <2>6. g[0] = base /\ g[m] = step[m][f[m - 1]] /\ \A n \in 0 .. m - 1 : g[n] = f[n]
    BY <1>2, <2>1, <2>4
  <2> HIDE DEF g
  <2>7. ASSUME NEW n \in 1 .. m PROVE g[n] = step[n][g[n - 1]]
    <3>1. n - 1 \in 0 .. m - 1 /\ (n = m \/ n \in 1 .. m - 1)
      BY <1>2, <2>7
    <3>2. g[n - 1] = f[n - 1]
      BY <2>6, <3>1
    <3> QED BY <2>1, <2>6, <3>1, <3>2
  <2> QED BY <2>5, <2>6, <2>7
<1> HIDE DEF Upto
<1>3. Bad = {}
  <2> SUFFICES ASSUME Bad # {} PROVE FALSE
    OBVIOUS
  <2>1. PICK m \in Bad : \A n \in Bad : m <= n
    <3>1. Bad \in SUBSET Nat
      OBVIOUS
    <3> HIDE DEF Bad
    <3> QED BY <3>1, LeastNumber
  <2>2. m \in 1 .. N
    BY <1>1, <2>1
  <2>3. m - 1 \in 0 .. N /\ m - 1 \notin Bad
    BY <2>1, <2>2
  <2> QED BY <1>2, <2>1, <2>2, <2>3
<1>4. Upto(N)
  BY <1>3
<1> QED BY <1>4 DEF Upto
=============================================================================
