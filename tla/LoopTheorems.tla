---------------------------- MODULE LoopTheorems ----------------------------
(***************************************************************************)
(* Loops of the code that walk over a list or over the digits of a number  *)
(* are recursive functions on 0..n, where n is the number of iterations.   *)
(* What a proof about one of them needs is here: the function exists, and  *)
(* what every iteration keeps holds at the end.                            *)
(***************************************************************************)
EXTENDS Integers, WellFoundedInduction, TLAPS

\* A set of natural numbers has a least member.
LEMMA LeastMember ==
  ASSUME NEW S, S \subseteq Nat, S # {}
  PROVE  \E x \in S : \A y \in S : x <= y
<1>1. PICK x \in S : \A y \in S : ~ (<<y, x>> \in OpToRel(<, Nat))
  BY WFMin, NatLessThanWellFounded, Zenon
<1>2. \A y \in S : ~ (y < x)
  BY <1>1 DEF OpToRel
<1> QED BY <1>2

\* What holds before the first iteration, and behind each if it did before it,
\* holds behind the last.
LEMMA EveryIteration ==
  ASSUME NEW n \in Nat, NEW P, 0 \in P, \A i \in 1..n : i - 1 \in P => i \in P
  PROVE  \A i \in 0..n : i \in P
<1> SUFFICES ASSUME (0..n) \ P # {} PROVE FALSE
  OBVIOUS
<1>1. PICK x \in (0..n) \ P : \A y \in (0..n) \ P : x <= y
  <2>1. (0..n) \ P \subseteq Nat
    OBVIOUS
  <2> QED BY <2>1, LeastMember
<1>2. x \in 1..n /\ x - 1 \in 0..n
  BY <1>1
<1>3. x - 1 \in P
  BY <1>1, <1>2
<1> QED BY <1>1, <1>2, <1>3

\* f has the states of a loop of n iterations, the i-th of which makes G[<<x, i>>]
\* of the state x.
Iterates(f, n, S, base, G) ==
  /\ f \in [0..n -> S] /\ f[0] = base
  /\ \A i \in 1..n : f[i] = G[<<f[i - 1], i>>]

LEMMA LoopExists ==
  ASSUME NEW n \in Nat, NEW S, NEW base \in S,
         NEW G, \A s \in S, i \in 1..n : G[<<s, i>>] \in S
  PROVE  \E f : Iterates(f, n, S, base, G)
<1> DEFINE P == {m \in 0..n : \E f : Iterates(f, m, S, base, G)}
<1>1. 0 \in P
  <2>1. PICK f : f = [i \in 0..0 |-> base]
    OBVIOUS
  <2>2. Iterates(f, 0, S, base, G)
    BY <2>1 DEF Iterates
  <2>3. 0 \in 0..n
    OBVIOUS
  <2> QED BY <2>2, <2>3
<1>2. ASSUME NEW m \in 1..n, m - 1 \in P PROVE m \in P
  <2>1. PICK f : Iterates(f, m - 1, S, base, G)
    BY <1>2
  <2>2. PICK g : g = [i \in 0..m |-> IF i = m THEN G[<<f[m - 1], m>>] ELSE f[i]]
    OBVIOUS
  <2>3. f[m - 1] \in S
    BY <2>1 DEF Iterates
  <2>4. G[<<f[m - 1], m>>] \in S
    BY <2>3
  <2>5. g \in [0..m -> S]
    BY <2>1, <2>2, <2>4 DEF Iterates
  <2>6. g[0] = base
    BY <2>1, <2>2 DEF Iterates
  <2>7. ASSUME NEW i \in 1..m PROVE g[i] = G[<<g[i - 1], i>>]
    <3>1. /\ i \in 0..m /\ i - 1 \in 0..m /\ i - 1 # m
          /\ g[i - 1] = f[i - 1] /\ g[i] = IF i = m THEN G[<<f[m - 1], m>>] ELSE f[i]
      BY <2>2
    <3>2. i # m => i \in 1..m - 1
      OBVIOUS
    <3> QED BY <2>1, <3>1, <3>2 DEF Iterates
  <2>8. Iterates(g, m, S, base, G)
    BY <2>5, <2>6, <2>7 DEF Iterates
  <2>9. m \in 0..n
    OBVIOUS
  <2> QED BY <2>8, <2>9
<1>3. n \in P
  <2> HIDE DEF P
  <2>1. \A i \in 0..n : i \in P
    BY <1>1, <1>2, EveryIteration
  <2> QED BY <2>1
<1> QED BY <1>3
=============================================================================
