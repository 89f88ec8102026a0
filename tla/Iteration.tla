------------------------------- MODULE Iteration -------------------------------
(***************************************************************************)
(* Induction for the proofs about recursive functions of the other         *)
(* modules.  The induction theorems of the library are about operators,    *)
(* which the provers cannot instantiate; those here are about sets and     *)
(* functions, and follow from the library's fact that finite sets have no  *)
(* infinite descent.                                                       *)
(***************************************************************************)
EXTENDS FiniteSetTheorems, TLAPS

\* The least number principle: the initial segments that end in T have a least one.
LEMMA LeastNatural ==
    ASSUME NEW T \in SUBSET Nat, T # {}
    PROVE  \E m \in T : \A k \in T : m <= k
<1> DEFINE Below == {0 .. m : m \in T}
<1>1. Below \subseteq FiniteSubsetsOf(Nat) /\ Below # {}
  <2>1. \A m \in T : IsFiniteSet(0 .. m) /\ 0 .. m \subseteq Nat
    BY FS_Interval
  <2> QED BY <2>1 DEF FiniteSubsetsOf
<1>2. IsWellFoundedOn(StrictSubsetOrdering(Nat), FiniteSubsetsOf(Nat))
  BY FS_StrictSubsetOrderingWellFounded
<1>3. PICK X \in Below : \A Y \in Below : ~ (<<Y, X>> \in StrictSubsetOrdering(Nat))
  <2> HIDE DEF Below
  <2> QED BY <1>1, <1>2, WFMin
<1>4. PICK m \in T : X = 0 .. m
  BY <1>3
<1>5. ASSUME NEW k \in T, k < m PROVE FALSE
  <2>1. 0 .. k \in Below
    OBVIOUS
  <2>2. 0 .. k \subseteq 0 .. m /\ m \in 0 .. m /\ m \notin 0 .. k
    BY <1>5
  <2>3. 0 .. k \in SUBSET Nat /\ 0 .. m \in SUBSET Nat
    OBVIOUS
  <2>4. <<0 .. k, 0 .. m>> \in StrictSubsetOrdering(Nat)
    BY <2>2, <2>3 DEF StrictSubsetOrdering
  <2> QED BY <2>1, <2>4, <1>3, <1>4
<1> QED BY <1>5

\* Induction over an interval.
LEMMA Induction ==
    ASSUME NEW m \in Nat, NEW n \in Nat, NEW T, m \in T,
           \A k \in m .. n - 1 : k \in T => k + 1 \in T
    PROVE  \A k \in m .. n : k \in T
<1> DEFINE Rest == {k \in m .. n : k \notin T}
<1>1. SUFFICES ASSUME Rest # {} PROVE FALSE
  OBVIOUS
<1>2. PICK k \in Rest : \A i \in Rest : k <= i
  <2>1. Rest \in SUBSET Nat
    OBVIOUS
  <2> HIDE DEF Rest
  <2> QED BY <1>1, <2>1, LeastNatural
<1>3. k # m /\ k - 1 \in m .. n - 1 /\ k - 1 \notin Rest
  BY <1>2
<1>4. k - 1 \in T
  BY <1>3
<1> QED BY <1>2, <1>3, <1>4

\* Strong induction over an interval.
LEMMA StrongInduction ==
    ASSUME NEW m \in Nat, NEW n \in Nat, NEW T,
           \A k \in m .. n : (\A i \in m .. k - 1 : i \in T) => k \in T
    PROVE  \A k \in m .. n : k \in T
<1> DEFINE Rest == {k \in m .. n : k \notin T}
<1>1. SUFFICES ASSUME Rest # {} PROVE FALSE
  OBVIOUS
<1>2. PICK k \in Rest : \A i \in Rest : k <= i
  <2>1. Rest \in SUBSET Nat
    OBVIOUS
  <2> HIDE DEF Rest
  <2> QED BY <1>1, <2>1, LeastNatural
<1>3. \A i \in m .. k - 1 : i \in T
  BY <1>2
<1> QED BY <1>2, <1>3

\* f starts with v at m, and goes on to n by the function step.
Iterates(f, V, v, step, m, n) ==
    /\ f \in [m .. n -> V] /\ f[m] = v
    /\ \A k \in m + 1 .. n : f[k] = step[<<k, f[k - 1]>>]

\* A function that is defined from its value before exists.
LEMMA IterationExists ==
    ASSUME NEW V, NEW v \in V, NEW m \in Nat, NEW n \in Nat, m <= n,
           NEW step, step \in [Nat \X V -> V]
    PROVE  \E f : Iterates(f, V, v, step, m, n)
<1> DEFINE Is(f, k) == Iterates(f, V, v, step, m, k)
           T == {k \in m .. n : \E f : Is(f, k)}
<1>1. m \in T
  <2> DEFINE g == [i \in m .. m |-> v]
  <2>1. Is(g, m)
    BY DEF Iterates
  <2>2. m \in m .. n
    OBVIOUS
  <2> HIDE DEF g, Is
  <2> QED BY <2>1, <2>2
<1>2. ASSUME NEW k \in m .. n - 1, k \in T PROVE k + 1 \in T
  <2>1. PICK f : Is(f, k)
    BY <1>2
  <2> DEFINE w == step[<<k + 1, f[k]>>]
             g == [i \in m .. k + 1 |-> IF i = k + 1 THEN w ELSE f[i]]
  <2>2. w \in V
    BY <2>1 DEF Iterates
  <2>3. g \in [m .. k + 1 -> V]
    BY <2>1, <2>2 DEF Iterates
  <2>4. g[m] = v
    BY <2>1 DEF Iterates
  <2>5. ASSUME NEW i \in m + 1 .. k + 1 PROVE g[i] = step[<<i, g[i - 1]>>]
    <3>1. CASE i = k + 1
      <4>1. g[i] = w
        BY <3>1
      <4>2. i - 1 = k /\ i - 1 \in m .. k + 1 /\ i - 1 # k + 1
        BY <3>1, <1>2
      <4>3. g[i - 1] = f[i - 1]
        BY <4>2
      <4> QED BY <3>1, <4>1, <4>2, <4>3
    <3>2. CASE i # k + 1
      BY <3>2, <2>1 DEF Iterates
    <3> QED BY <3>1, <3>2
  <2> HIDE DEF g
  <2> QED BY <1>2, <2>3, <2>4, <2>5 DEF Iterates
<1>3. n \in T
  <2> HIDE DEF T
  <2>1. \A k \in m .. n : k \in T
    BY <1>1, <1>2, Induction
  <2> QED BY <2>1
<1> QED BY <1>3
===============================================================================
