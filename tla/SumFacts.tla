------------------------------ MODULE SumFacts ------------------------------
(***************************************************************************)
(* Sums over finite sets, SumFunctionOnSet of the community modules: the   *)
(* order in which the elements are taken does not matter.                  *)
(*                                                                         *)
(* Induction is over a set of naturals instead of a predicate, which the   *)
(* provers cannot instantiate.                                             *)
(***************************************************************************)
EXTENDS Integers, FiniteSets, Functions, FiniteSetTheorems, WellFoundedInduction, TLAPS

(* A set that has 0, and with each natural the next, has all of them. *)
LEMMA NatSetInduction ==
  ASSUME NEW N, 0 \in N, \A n \in Nat : n \in N => n + 1 \in N
  PROVE  Nat \subseteq N
<1> DEFINE Rest == Nat \ N
<1> SUFFICES ASSUME Rest # {} PROVE FALSE
  OBVIOUS
<1>1. PICK x \in Rest : \A y \in Rest : <<y, x>> \notin OpToRel(<, Nat)
  <2>1. IsWellFoundedOn(OpToRel(<, Nat), Nat)
    BY NatLessThanWellFounded
  <2>2. Rest \subseteq Nat
    OBVIOUS
  <2> HIDE DEF Rest
  <2> QED
    BY <2>1, <2>2, WFMin
<1>2. x \in Nat /\ x # 0 /\ x - 1 \in Nat /\ x - 1 < x
  OBVIOUS
<1>3. x - 1 \in N
  BY <1>1, <1>2 DEF OpToRel
<1>4. (x - 1) + 1 \in N
  BY <1>2, <1>3
<1> QED
  BY <1>2, <1>4

-----------------------------------------------------------------------------
(* What it means that g has the sum of f over each subset of S *)

Adds(g, f, S) ==
    /\ g \in [SUBSET S -> Int]
    /\ g[{}] = 0
    /\ \A s \in SUBSET S : \A x \in s : g[s] = f[x] + g[s \ {x}]

(* The recursion of MapThenFoldSet, one step of it *)
Picked(s) == CHOOSE x \in s : TRUE

Step(h, f, S) ==
    [s \in SUBSET S |-> IF s = {} THEN 0 ELSE f[Picked(s)] + h[s \ {Picked(s)}]]

LEMMA AddsOneMore ==
  ASSUME NEW f, NEW S, NEW c, c \notin S, f[c] \in Int, \A x \in S : f[x] \in Int,
         NEW g, Adds(g, f, S)
  PROVE  \E h : Adds(h, f, S \cup {c})
<1> DEFINE T == S \cup {c}
           h == [s \in SUBSET T |-> IF c \in s THEN f[c] + g[s \ {c}] ELSE g[s]]
<1>1. h \in [SUBSET T -> Int]
  <2> SUFFICES ASSUME NEW s \in SUBSET T
               PROVE  (IF c \in s THEN f[c] + g[s \ {c}] ELSE g[s]) \in Int
    OBVIOUS
  <2>1. c \in s => s \ {c} \in SUBSET S
    OBVIOUS
  <2>2. c \notin s => s \in SUBSET S
    OBVIOUS
  <2> QED
    BY <2>1, <2>2 DEF Adds
<1>2. h[{}] = 0
  BY DEF Adds
<1>3. ASSUME NEW s \in SUBSET T, NEW x \in s
      PROVE  h[s] = f[x] + h[s \ {x}]
  <2>1. s \ {x} \in SUBSET T
    OBVIOUS
  <2>2. CASE x = c
    <3>1. c \notin s \ {x} /\ s \ {x} = s \ {c}
      BY <2>2
    <3> QED
      BY <2>1, <2>2, <3>1
  <2>3. CASE x # c /\ c \notin s
    <3>1. s \in SUBSET S /\ c \notin s \ {x}
      BY <2>3
    <3>2. g[s] = f[x] + g[s \ {x}]
      BY <3>1 DEF Adds
    <3> QED
      BY <2>1, <2>3, <3>1, <3>2
  <2>4. CASE x # c /\ c \in s
    <3> DEFINE r == s \ {c}
    <3>1. r \in SUBSET S /\ x \in r /\ r \ {x} \in SUBSET S
      BY <2>4
    <3>2. g[r] = f[x] + g[r \ {x}]
      BY <3>1 DEF Adds
    <3>3. r \ {x} = (s \ {x}) \ {c} /\ c \in s \ {x}
      BY <2>4
    <3>4. h[s] = f[c] + g[r] /\ h[s \ {x}] = f[c] + g[r \ {x}]
      BY <2>1, <2>4, <3>3
    <3>5. f[c] \in Int /\ f[x] \in Int /\ g[r] \in Int /\ g[r \ {x}] \in Int
      BY <3>1 DEF Adds
    <3> HIDE DEF h, r
    <3> QED
      BY <3>2, <3>4, <3>5
  <2> QED
    BY <2>2, <2>3, <2>4
<1> HIDE DEF h
<1> QED
  BY <1>1, <1>2, <1>3 DEF Adds

(* Every function with whole values on a finite set has sums over it. *)
LEMMA AddsExists ==
  ASSUME NEW f, NEW S, IsFiniteSet(S), \A x \in S : f[x] \in Int
  PROVE  \E g : Adds(g, f, S)
<1> DEFINE Fits(T, n) == IsFiniteSet(T) /\ Cardinality(T) = n /\ \A x \in T : f[x] \in Int
           N == {n \in Nat : \A T : Fits(T, n) => \E g : Adds(g, f, T)}
<1>1. 0 \in N
  <2> SUFFICES ASSUME NEW T, Fits(T, 0) PROVE \E g : Adds(g, f, T)
    OBVIOUS
  <2>1. T = {}
    BY FS_EmptySet
  <2>2. Adds([s \in SUBSET T |-> 0], f, T)
    BY <2>1 DEF Adds
  <2> QED
    BY <2>2
<1>2. ASSUME NEW n \in Nat, n \in N
      PROVE  n + 1 \in N
  <2> SUFFICES ASSUME NEW T, Fits(T, n + 1) PROVE \E g : Adds(g, f, T)
    OBVIOUS
  <2>1. PICK c : c \in T
    BY FS_EmptySet
  <2>2. Fits(T \ {c}, n)
    <3>1. IsFiniteSet(T \ {c}) /\ Cardinality(T \ {c}) = Cardinality(T) - 1
      BY <2>1, FS_RemoveElement
    <3>2. Cardinality(T) = n + 1 /\ \A x \in T : f[x] \in Int
      OBVIOUS
    <3> QED
      BY <3>1, <3>2
  <2>3. PICK g : Adds(g, f, T \ {c})
    BY <1>2, <2>2
  <2>4. (T \ {c}) \cup {c} = T /\ f[c] \in Int
    BY <2>1
  <2>5. c \notin T \ {c} /\ \A x \in T \ {c} : f[x] \in Int
    BY <2>2
  <2>6. \E h : Adds(h, f, (T \ {c}) \cup {c})
    BY <2>3, <2>4, <2>5, AddsOneMore
  <2> QED
    BY <2>4, <2>6
<1>3. Nat \subseteq N
  <2> HIDE DEF N
  <2> QED
    BY <1>1, <1>2, NatSetInduction
<1>4. Cardinality(S) \in Nat /\ Fits(S, Cardinality(S))
  BY FS_CardinalityType
<1> HIDE DEF Fits
<1> QED
  BY <1>3, <1>4

(* Whatever follows the recursion has these sums. *)
LEMMA StepIsAdds ==
  ASSUME NEW f, NEW S, IsFiniteSet(S), NEW g, Adds(g, f, S), NEW h, h = Step(h, f, S)
  PROVE  h[S] = g[S]
<1> DEFINE N == {n \in Nat : \A s \in SUBSET S : Cardinality(s) = n => h[s] = g[s]}
<1>1. 0 \in N
  <2> SUFFICES ASSUME NEW s \in SUBSET S, Cardinality(s) = 0 PROVE h[s] = g[s]
    OBVIOUS
  <2>1. s = {}
    BY FS_Subset, FS_EmptySet
  <2> QED
    BY <2>1 DEF Step, Adds
<1>2. ASSUME NEW n \in Nat, n \in N
      PROVE  n + 1 \in N
  <2> SUFFICES ASSUME NEW s \in SUBSET S, Cardinality(s) = n + 1 PROVE h[s] = g[s]
    OBVIOUS
  <2>1. IsFiniteSet(s)
    BY FS_Subset
  <2>2. s # {} /\ Picked(s) \in s
    BY <2>1, FS_EmptySet DEF Picked
  <2> DEFINE r == s \ {Picked(s)}
  <2>3. Cardinality(r) = n /\ r \in SUBSET S
    <3>1. Cardinality(r) = Cardinality(s) - 1
      BY <2>1, <2>2, FS_RemoveElement
    <3> QED
      BY <3>1
  <2>4. h[r] = g[r]
    BY <1>2, <2>3
  <2>5. h[s] = f[Picked(s)] + h[r]
    BY <2>2 DEF Step
  <2>6. g[s] = f[Picked(s)] + g[r]
    BY <2>2 DEF Adds
  <2> QED
    BY <2>4, <2>5, <2>6
<1>3. Nat \subseteq N
  <2> HIDE DEF N
  <2> QED
    BY <1>1, <1>2, NatSetInduction
<1>4. Cardinality(S) \in Nat
  BY FS_CardinalityType
<1> QED
  BY <1>3, <1>4

LEMMA SumIsStep ==
  ASSUME NEW f, NEW S
  PROVE  SumFunctionOnSet(f, S) = (CHOOSE h : h = Step(h, f, S))[S]
BY DEF SumFunctionOnSet, FoldFunctionOnSet, MapThenFoldSet, Step, Picked

LEMMA SumIsAdds ==
  ASSUME NEW f, NEW S, IsFiniteSet(S), NEW g, Adds(g, f, S)
  PROVE  SumFunctionOnSet(f, S) = g[S]
<1>1. g = Step(g, f, S)
  <2>1. ASSUME NEW s \in SUBSET S, s # {}
        PROVE  g[s] = f[Picked(s)] + g[s \ {Picked(s)}]
    BY <2>1 DEF Adds, Picked
  <2> QED
    BY <2>1 DEF Adds, Step
<1> DEFINE h == CHOOSE h : h = Step(h, f, S)
<1>2. h = Step(h, f, S)
  BY <1>1
<1>3. SumFunctionOnSet(f, S) = h[S]
  BY SumIsStep
<1> HIDE DEF h
<1> QED
  BY <1>2, <1>3, StepIsAdds

-----------------------------------------------------------------------------
(* Facts about sums *)

LEMMA SumEmpty ==
  ASSUME NEW f
  PROVE  SumFunctionOnSet(f, {}) = 0
<1>1. IsFiniteSet({})
  BY FS_EmptySet
<1>2. Adds([s \in SUBSET {} |-> 0], f, {})
  BY DEF Adds
<1> QED
  BY <1>1, <1>2, SumIsAdds

(* Any element can be taken first. *)
LEMMA SumRemove ==
  ASSUME NEW f, NEW S, IsFiniteSet(S), \A x \in S : f[x] \in Int, NEW x \in S
  PROVE  /\ SumFunctionOnSet(f, S) \in Int /\ SumFunctionOnSet(f, S \ {x}) \in Int
         /\ SumFunctionOnSet(f, S) = f[x] + SumFunctionOnSet(f, S \ {x})
<1> DEFINE T == S \ {x}
<1>1. PICK g : Adds(g, f, S)
  BY AddsExists
<1>2. SumFunctionOnSet(f, S) = g[S]
  BY <1>1, SumIsAdds
<1> DEFINE k == [s \in SUBSET T |-> g[s]]
<1>3. Adds(k, f, T)
  <2>1. SUBSET T \subseteq SUBSET S
    OBVIOUS
  <2>2. k \in [SUBSET T -> Int] /\ k[{}] = 0
    BY <1>1, <2>1 DEF Adds
  <2>3. ASSUME NEW s \in SUBSET T, NEW y \in s
        PROVE  k[s] = f[y] + k[s \ {y}]
    BY <1>1, <2>1 DEF Adds
  <2> QED
    BY <2>2, <2>3 DEF Adds
<1>4. IsFiniteSet(T)
  BY FS_Subset
<1>5. SumFunctionOnSet(f, T) = g[T]
  BY <1>3, <1>4, SumIsAdds
<1>6. g[S] = f[x] + g[T] /\ g[S] \in Int /\ g[T] \in Int
  BY <1>1 DEF Adds
<1> QED
  BY <1>2, <1>5, <1>6

LEMMA SumInt ==
  ASSUME NEW f, NEW S, IsFiniteSet(S), \A x \in S : f[x] \in Int
  PROVE  SumFunctionOnSet(f, S) \in Int
<1>1. CASE S = {}
  BY <1>1, SumEmpty
<1>2. CASE S # {}
  BY <1>2, SumRemove
<1> QED
  BY <1>1, <1>2

(* Only the values in the set matter. *)
LEMMA SumSame ==
  ASSUME NEW f, NEW e, NEW S, IsFiniteSet(S), \A x \in S : f[x] \in Int /\ f[x] = e[x]
  PROVE  SumFunctionOnSet(f, S) = SumFunctionOnSet(e, S)
<1>1. PICK g : Adds(g, f, S)
  BY AddsExists
<1>2. Adds(g, e, S)
  BY <1>1 DEF Adds
<1> QED
  BY <1>1, <1>2, SumIsAdds

(* One value is changed. *)
LEMMA SumUpdate ==
  ASSUME NEW f, NEW e, NEW S, IsFiniteSet(S), NEW x \in S,
         \A y \in S : f[y] \in Int /\ e[y] \in Int,
         \A y \in S \ {x} : f[y] = e[y]
  PROVE  SumFunctionOnSet(e, S) = (SumFunctionOnSet(f, S) - f[x]) + e[x]
<1> DEFINE T == S \ {x}
<1>1. IsFiniteSet(T)
  BY FS_Subset
<1>2. SumFunctionOnSet(f, T) = SumFunctionOnSet(e, T)
  BY <1>1, SumSame
<1>3. /\ SumFunctionOnSet(f, S) = f[x] + SumFunctionOnSet(f, T)
      /\ SumFunctionOnSet(f, S) \in Int /\ SumFunctionOnSet(f, T) \in Int
  BY SumRemove
<1>4. SumFunctionOnSet(e, S) = e[x] + SumFunctionOnSet(e, T)
  BY SumRemove
<1>5. f[x] \in Int /\ e[x] \in Int
  OBVIOUS
<1> HIDE DEF T
<1> QED
  BY <1>2, <1>3, <1>4, <1>5

(* One element is added. *)
LEMMA SumAdd ==
  ASSUME NEW f, NEW S, IsFiniteSet(S), NEW x, x \notin S, f[x] \in Int,
         \A y \in S : f[y] \in Int
  PROVE  SumFunctionOnSet(f, S \cup {x}) = SumFunctionOnSet(f, S) + f[x]
<1> DEFINE T == S \cup {x}
<1>1. IsFiniteSet(T)
  BY FS_AddElement
<1>2. T \ {x} = S /\ x \in T /\ \A y \in T : f[y] \in Int
  OBVIOUS
<1>3. PICK a : a = SumFunctionOnSet(f, S)
  OBVIOUS
<1> HIDE DEF T
<1>4. /\ SumFunctionOnSet(f, T) = f[x] + SumFunctionOnSet(f, T \ {x})
      /\ SumFunctionOnSet(f, T \ {x}) \in Int
  BY <1>1, <1>2, SumRemove
<1>5. SumFunctionOnSet(f, T) = f[x] + a /\ a \in Int
  BY <1>2, <1>3, <1>4
<1>6. f[x] + a = a + f[x]
  BY <1>5
<1> QED
  BY <1>3, <1>5, <1>6 DEF T

LEMMA SumZero ==
  ASSUME NEW f, NEW S, IsFiniteSet(S), \A x \in S : f[x] = 0
  PROVE  SumFunctionOnSet(f, S) = 0
<1>1. Adds([s \in SUBSET S |-> 0], f, S)
  <2>1. \A s \in SUBSET S : \A x \in s : s \ {x} \in SUBSET S
    OBVIOUS
  <2> QED
    BY <2>1 DEF Adds
<1> QED
  BY <1>1, SumIsAdds

(* The sum of natural numbers over an interval grows with the interval. *)
LEMMA SumPrefix ==
  ASSUME NEW f, NEW n \in Nat, NEW m \in 0..n, \A i \in 1..n : f[i] \in Nat
  PROVE  SumFunctionOnSet(f, 1..m) <= SumFunctionOnSet(f, 1..n)
<1> DEFINE Sum(k) == SumFunctionOnSet(f, 1..k)
           N == {d \in Nat : m + d <= n => Sum(m) <= Sum(m + d)}
<1>1. ASSUME NEW k \in 0..n
      PROVE  /\ IsFiniteSet(1..k) /\ \A i \in 1..k : f[i] \in Int
             /\ Sum(k) \in Int
  <2>1. IsFiniteSet(1..k)
    BY FS_Interval
  <2>2. \A i \in 1..k : f[i] \in Int
    OBVIOUS
  <2> QED
    BY <2>1, <2>2, SumInt
<1>2. ASSUME NEW k \in 0..n, k + 1 \in 0..n
      PROVE  Sum(k + 1) = Sum(k) + f[k + 1] /\ f[k + 1] \in Nat
  <2>1. PICK S, x : S = 1..k /\ x = k + 1
    OBVIOUS
  <2>2. 1..(k + 1) = S \cup {x} /\ x \notin S
    BY <2>1
  <2>3. f[x] \in Nat
    <3>1. x \in 1..n
      BY <1>2, <2>1
    <3> QED
      BY <3>1
  <2>4. IsFiniteSet(S) /\ \A i \in S : f[i] \in Int
    BY <1>1, <2>1
  <2>5. f[x] \in Int
    BY <2>3
  <2>6. SumFunctionOnSet(f, S \cup {x}) = SumFunctionOnSet(f, S) + f[x]
    BY <2>2, <2>4, <2>5, SumAdd
  <2> QED
    BY <2>1, <2>2, <2>3, <2>6
<1> HIDE DEF Sum
<1>3. 0 \in N
  BY <1>1
<1>4. ASSUME NEW d \in Nat, d \in N
      PROVE  d + 1 \in N
  <2> SUFFICES ASSUME m + (d + 1) <= n PROVE Sum(m) <= Sum(m + (d + 1))
    OBVIOUS
  <2>1. m + d \in 0..n /\ (m + d) + 1 \in 0..n /\ (m + d) + 1 = m + (d + 1)
    OBVIOUS
  <2>2. Sum(m) <= Sum(m + d)
    BY <1>4, <2>1
  <2>3. Sum((m + d) + 1) = Sum(m + d) + f[(m + d) + 1] /\ f[(m + d) + 1] \in Nat
    BY <1>2, <2>1
  <2>4. Sum(m) \in Int /\ Sum(m + d) \in Int
    BY <1>1, <2>1
  <2> QED
    BY <2>1, <2>2, <2>3, <2>4
<1>5. Nat \subseteq N
  <2> HIDE DEF N
  <2> QED
    BY <1>3, <1>4, NatSetInduction
<1>6. n - m \in Nat /\ m + (n - m) = n
  OBVIOUS
<1> QED
  BY <1>5, <1>6 DEF Sum
=============================================================================
