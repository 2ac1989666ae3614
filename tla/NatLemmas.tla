------------------------------ MODULE NatLemmas ------------------------------
(***************************************************************************)
(* Induction and recursion over an initial segment of the naturals, stated *)
(* with sets and functions instead of operators: a property is the set of  *)
(* the numbers that have it, a recursive definition is given by its step   *)
(* function.  The proofs about recursive definitions of the models rest on *)
(* these.                                                                  *)
(***************************************************************************)
EXTENDS Integers, Sequences, WellFoundedInduction, TLAPS

\* A function on 1..n is a sequence of length n.
LEMMA FunctionIsSeq ==
    ASSUME NEW S, NEW n \in Nat, NEW f \in [1..n -> S]
    PROVE  f \in Seq(S) /\ Len(f) = n
  OBVIOUS

\* Every non-empty set of naturals has a least element.
LEMMA LeastElement ==
    ASSUME NEW T \in SUBSET Nat, T # {}
    PROVE  \E x \in T : \A y \in T : x <= y
<1> DEFINE R == OpToRel(<, Nat)
<1>1. IsWellFoundedOn(R, Nat)
  BY NatLessThanWellFounded
<1> HIDE DEF R
<1>2. \E x \in T : \A y \in T : ~(<<y, x>> \in R)
  BY <1>1, WFMin
<1>3. \A x, y \in Nat : y < x => <<y, x>> \in R
  BY DEF R, OpToRel
<1>4. PICK x \in T : \A y \in T : ~(<<y, x>> \in R)
  BY <1>2
<1>5. ASSUME NEW y \in T
      PROVE  x <= y
  <2>1. x \in Nat /\ y \in Nat /\ ~(y < x)
    BY <1>3, <1>4
  <2>2. QED  BY <2>1
<1>6. QED
  BY <1>5

\* Every non-empty bounded set of naturals has a greatest element.
LEMMA GreatestElement ==
    ASSUME NEW n \in Nat, NEW T \in SUBSET (0..n), T # {}
    PROVE  \E x \in T : \A y \in T : y <= x
<1> DEFINE R == {k \in Nat : n - k \in T}
<1>1. PICK t \in T : TRUE
  OBVIOUS
<1>2. n - t \in R
  <2>1. n - t \in Nat /\ n - (n - t) = t
    BY <1>1
  <2>2. QED  BY <1>1, <2>1
<1>3. PICK k \in R : \A l \in R : k <= l
  <2>1. R \in SUBSET Nat /\ R # {}
    BY <1>2
  <2> HIDE DEF R
  <2>2. QED  BY <2>1, LeastElement
<1>4. ASSUME NEW y \in T PROVE y <= n - k
  <2>1. y \in 0..n /\ n - y \in Nat /\ n - (n - y) = y
    OBVIOUS
  <2>2. n - y \in R
    BY <2>1
  <2>3. k <= n - y /\ k \in Nat
    BY <1>3, <2>2
  <2>4. QED  BY <2>1, <2>3
<1>5. n - k \in T
  BY <1>3
<1>6. QED  BY <1>4, <1>5

\* Induction: a set that has m and, with every number below n, the next one, has all of m..n.
LEMMA Induction ==
    ASSUME NEW m \in Int, NEW n \in Int, NEW T,
           m <= n => m \in T,
           \A i \in m..(n-1) : i \in T => i + 1 \in T
    PROVE  \A i \in m..n : i \in T
<1> DEFINE Missing == {k \in Nat : m + k <= n /\ m + k \notin T}
<1> SUFFICES ASSUME NEW i \in m..n, i \notin T PROVE FALSE
  OBVIOUS
<1>1. i - m \in Missing
  <2>1. i - m \in Nat /\ m + (i - m) = i
    OBVIOUS
  <2>2. QED  BY <2>1
<1>2. PICK k \in Missing : \A l \in Missing : k <= l
  <2>1. Missing \in SUBSET Nat /\ Missing # {}
    BY <1>1
  <2> HIDE DEF Missing
  <2>2. QED  BY <2>1, LeastElement
<1>3. k # 0
  BY <1>2
<1>4. k - 1 \in Nat /\ k - 1 \notin Missing
  BY <1>2, <1>3
<1>5. m + (k - 1) \in m..(n-1) /\ m + (k - 1) \in T
  BY <1>2, <1>4
<1>6. (m + (k - 1)) + 1 \in T
  BY <1>5
<1>7. (m + (k - 1)) + 1 = m + k
  BY <1>2
<1>8. QED  BY <1>2, <1>6, <1>7

\* Induction, from 0
LEMMA InductionFromZero ==
    ASSUME NEW n \in Nat, NEW T, 0 \in T, \A i \in 0..(n-1) : i \in T => i + 1 \in T
    PROVE  \A i \in 0..n : i \in T
<1>1. 0 \in Int /\ n \in Int /\ (0 <= n => 0 \in T)
  OBVIOUS
<1>2. QED  BY <1>1, Induction

\* f counts up from start by step.
Recursive(f, n, S, start, step) ==
    /\ f \in [0..n -> S]
    /\ f[0] = start
    /\ \A i \in 1..n : f[i] = step[<<i, f[i-1]>>]

\* A function on 0..n can be given by its first value and a step.
LEMMA Recursion ==
    ASSUME NEW n \in Nat, NEW S, NEW start \in S, NEW step \in [(1..n) \X S -> S]
    PROVE  \E f : Recursive(f, n, S, start, step)
<1> DEFINE Up(k, f) == f[0] = start /\ \A i \in 1..k : f[i] = step[<<i, f[i-1]>>]
           T == {k \in 0..n : \E f \in [0..k -> S] : Up(k, f)}
<1>1. 0 \in T
  <2> DEFINE f == [i \in 0..0 |-> start]
  <2>1. f \in [0..0 -> S] /\ Up(0, f)
    OBVIOUS
  <2>2. \E g \in [0..0 -> S] : Up(0, g)
    <3> HIDE DEF f, Up
    <3>1. QED  BY <2>1
  <2>3. 0 \in 0..n
    OBVIOUS
  <2> HIDE DEF Up
  <2>4. QED  BY <2>2, <2>3
<1>2. ASSUME NEW k \in 0..(n-1), k \in T PROVE k + 1 \in T
  <2>1. PICK f \in [0..k -> S] : Up(k, f)
    BY <1>2
  <2> DEFINE g == [i \in 0..(k+1) |-> IF i = k + 1 THEN step[<<k + 1, f[k]>>] ELSE f[i]]
  <2>2. f[k] \in S /\ k + 1 \in 1..n /\ k \in 0..k
    OBVIOUS
  <2>3. step[<<k + 1, f[k]>>] \in S
    BY <2>2
  <2>4. g \in [0..(k+1) -> S]
    BY <2>3
  <2>5. \A i \in 0..k : g[i] = f[i]
    OBVIOUS
  <2>6. g[k+1] = step[<<k + 1, f[k]>>]
    OBVIOUS
  <2> HIDE DEF g
  <2>7. g[0] = start
    BY <2>1, <2>5
  <2>8. ASSUME NEW i \in 1..(k+1) PROVE g[i] = step[<<i, g[i-1]>>]
    <3>1. CASE i = k + 1
      <4>1. i - 1 = k /\ g[k] = f[k]
        BY <3>1, <2>2, <2>5
      <4>2. QED  BY <3>1, <4>1, <2>6
    <3>2. CASE i # k + 1
      <4>1. i \in 1..k /\ i - 1 \in 0..k /\ i \in 0..k
        BY <3>2
      <4>2. QED  BY <4>1, <2>1, <2>5
    <3>3. QED  BY <3>1, <3>2
  <2>9. Up(k + 1, g)
    BY <2>7, <2>8
  <2>10. k + 1 \in 0..n
    OBVIOUS
  <2> HIDE DEF Up
  <2>11. QED  BY <2>4, <2>9, <2>10
<1>3. n \in T
  <2>1. n \in 0..n
    OBVIOUS
  <2> HIDE DEF T
  <2>2. QED  BY <1>1, <1>2, <2>1, InductionFromZero
<1>4. QED  BY <1>3 DEF Recursive

\* The same from m
RecursiveFrom(f, m, n, S, start, step) ==
    /\ f \in [m..n -> S]
    /\ f[m] = start
    /\ \A i \in (m+1)..n : f[i] = step[<<i, f[i-1]>>]

\* A function on m..n can be given by its first value and a step.
LEMMA RecursionFrom ==
    ASSUME NEW m \in Int, NEW n \in Int, m <= n,
           NEW S, NEW start \in S, NEW step \in [((m+1)..n) \X S -> S]
    PROVE  \E f : RecursiveFrom(f, m, n, S, start, step)
<1> DEFINE k == n - m
           shifted == [p \in (1..k) \X S |-> step[<<p[1] + m, p[2]>>]]
<1>1. k \in Nat
  OBVIOUS
<1>2. shifted \in [(1..k) \X S -> S]
  <2> SUFFICES ASSUME NEW p \in (1..k) \X S PROVE step[<<p[1] + m, p[2]>>] \in S
    OBVIOUS
  <2>1. p[1] + m \in (m+1)..n /\ p[2] \in S
    OBVIOUS
  <2>2. QED  BY <2>1
<1>3. PICK g : Recursive(g, k, S, start, shifted)
  <2> HIDE DEF k, shifted
  <2>1. QED  BY <1>1, <1>2, Recursion
<1> DEFINE f == [i \in m..n |-> g[i - m]]
<1>4. f \in [m..n -> S]
  <2> SUFFICES ASSUME NEW i \in m..n PROVE g[i - m] \in S
    OBVIOUS
  <2>1. i - m \in 0..k
    OBVIOUS
  <2>2. QED  BY <1>3, <2>1 DEF Recursive
<1>5. f[m] = start
  <2>1. m \in m..n /\ m - m = 0
    OBVIOUS
  <2>2. QED  BY <1>3, <2>1 DEF Recursive
<1>6. ASSUME NEW i \in (m+1)..n PROVE f[i] = step[<<i, f[i-1]>>]
  <2>1. /\ i - m \in 1..k /\ (i - m) - 1 \in 0..k /\ (i - m) + m = i
        /\ (i - 1) - m = (i - m) - 1 /\ i \in m..n /\ i - 1 \in m..n
    OBVIOUS
  <2>2. g[(i - m) - 1] \in S
    BY <1>3, <2>1 DEF Recursive
  <2>3. g[i - m] = shifted[<<i - m, g[(i - m) - 1]>>]
    <3> HIDE DEF shifted
    <3>1. QED  BY <1>3, <2>1 DEF Recursive
  <2>4. shifted[<<i - m, g[(i - m) - 1]>>] = step[<<i, g[(i - m) - 1]>>]
    BY <2>1, <2>2
  <2>5. f[i] = g[i - m] /\ f[i-1] = g[(i - m) - 1]
    BY <2>1
  <2> HIDE DEF shifted, f
  <2>6. QED  BY <2>3, <2>4, <2>5
<1> HIDE DEF f
<1>7. QED  BY <1>4, <1>5, <1>6 DEF RecursiveFrom
=============================================================================
