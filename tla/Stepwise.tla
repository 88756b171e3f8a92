-------------------------------- MODULE Stepwise --------------------------------
(***************************************************************************)
(* Going from one number to the next: what the proofs need in the place of *)
(* induction, for functions that are defined from each number to the next  *)
(* (the loops over a command list, and over the players who leave in a     *)
(* frame).                                                                 *)
(***************************************************************************)
EXTENDS Integers, WellFoundedInduction, TLAPS

(* The least number that is not in T. *)
LEMMA LeastOutside ==
  ASSUME NEW a \in Nat, NEW b \in Nat, NEW T, NEW x \in a .. b, x \notin T
  PROVE  \E j \in a .. b : j \notin T /\ \A k \in a .. j - 1 : k \in T
<1> DEFINE Outside == {j \in a .. b : j \notin T}
<1>1. Outside \subseteq Nat /\ Outside # {} OBVIOUS
<1>2. PICK j \in Outside : \A k \in Outside : ~ (<<k, j>> \in OpToRel(<, Nat))
  BY <1>1, NatLessThanWellFounded, WFMin
<1>3. ASSUME NEW k \in a .. j - 1, k \notin T PROVE FALSE
  <2>1. k \in Outside /\ k \in Nat /\ j \in Nat /\ k < j BY <1>3
  <2>2. <<k, j>> \in OpToRel(<, Nat) BY <2>1, Zenon DEF OpToRel
  <2> QED BY <1>2, <2>1, <2>2
<1> QED BY <1>2, <1>3

(* What holds first and is handed on from each number to the next holds up to n. *)
LEMMA UpTo ==
  ASSUME NEW n \in Nat, NEW T, 0 \in T, \A i \in 1 .. n : i - 1 \in T => i \in T
  PROVE  \A i \in 0 .. n : i \in T
<1> SUFFICES ASSUME NEW x \in 0 .. n, x \notin T PROVE FALSE
  OBVIOUS
<1>1. PICK j \in 0 .. n : j \notin T /\ \A k \in 0 .. j - 1 : k \in T
  BY LeastOutside
<1> QED BY <1>1

\* One step for each number up to n, and what is reached from s with them.
StepFunctions(n, S) == [1 .. n -> [S -> S]]
Sequels(n, S, s, F) ==
    {g \in [0 .. n -> S] : g[0] = s /\ \A i \in 1 .. n : g[i] = F[i][g[i - 1]]}

(* What is defined from each number to the next exists, whatever the steps do, as *)
(* long as they stay within the values that the equation is about.                *)
LEMMA StepsExist ==
  ASSUME NEW n \in Nat, NEW S, NEW s \in S, NEW F \in StepFunctions(n, S)
  PROVE  Sequels(n, S, s, F) # {}
<1>0. \A i \in 1 .. n : \A x \in S : F[i][x] \in S
  BY DEF StepFunctions
<1> DEFINE Partial(k, g) ==
             g[0] = s /\ \A i \in 1 .. k : g[i] = F[i][g[i - 1]]
           T == {k \in 0 .. n : \E g \in [0 .. n -> S] : Partial(k, g)}
<1>1. 0 \in T
  <2>1. [i \in 0 .. n |-> s] \in [0 .. n -> S] OBVIOUS
  <2>2. Partial(0, [i \in 0 .. n |-> s]) OBVIOUS
  <2> HIDE DEF Partial
  <2> QED BY <2>1, <2>2
<1>2. ASSUME NEW k \in 1 .. n, k - 1 \in T PROVE k \in T
  <2>1. PICK g \in [0 .. n -> S] : Partial(k - 1, g) BY <1>2
  <2> DEFINE h == [g EXCEPT ![k] = F[k][g[k - 1]]]
  <2>2. F[k][g[k - 1]] \in S BY <1>0
  <2>3. h \in [0 .. n -> S] BY <2>2
  <2>4. h[0] = s BY <2>1
  <2>5. ASSUME NEW i \in 1 .. k PROVE h[i] = F[i][h[i - 1]]
    <3>1. h[i - 1] = g[i - 1] OBVIOUS
    <3>2. CASE i = k BY <3>1, <3>2
    <3>3. CASE i # k BY <2>1, <3>1, <3>3
    <3> QED BY <3>2, <3>3
  <2>6. Partial(k, h) BY <2>4, <2>5
  <2> HIDE DEF Partial, h
  <2> QED BY <2>3, <2>6
<1>3. n \in T
  <2> HIDE DEF T
  <2>1. \A i \in 0 .. n : i \in T BY <1>1, <1>2, UpTo
  <2> QED BY <2>1
<1>4. PICK g \in [0 .. n -> S] : Partial(n, g) BY <1>3
<1> QED BY <1>4 DEF Sequels
================================================================================
