------------------------------ MODULE CfgProofs ------------------------------
(***************************************************************************)
(* The analyses of the Cfg, for every program: the loops that compute      *)
(* them end at a fixed point, and what the fixed point says of each        *)
(* instruction.                                                            *)
(***************************************************************************)
EXTENDS Cfg, NatLemmas, FiniteSetTheorems

-----------------------------------------------------------------------------
(* Repeating a step until nothing changes *)

\* The values a step goes through
Goes(f, step, start, n, D) ==
    /\ f \in [0..n -> SUBSET D]
    /\ f[0] = start
    /\ \A i \in 1..n : f[i] = step[f[i-1]]

\* Rounds() ends at the last of the values the step goes through.
LEMMA RoundsGo ==
    ASSUME NEW D, NEW step \in [SUBSET D -> SUBSET D], NEW start \in SUBSET D, NEW n \in Nat
    PROVE  \E f : Goes(f, step, start, n, D) /\ Rounds(step, start, n) = f[n]
<1> DEFINE F(f) == [i \in 0..n |-> IF i = 0 THEN start ELSE step[f[i-1]]]
           h == CHOOSE f : f = F(f)
           next == [p \in (1..n) \X SUBSET D |-> step[p[2]]]
<1>1. Rounds(step, start, n) = h[n]
  BY DEF Rounds
<1>2. next \in [(1..n) \X SUBSET D -> SUBSET D]
  OBVIOUS
<1>3. PICK f : Recursive(f, n, SUBSET D, start, next)
  <2> HIDE DEF next
  <2>1. QED  BY <1>2, Recursion
<1>4. \A i \in 1..n : f[i] = step[f[i-1]]
  <2> TAKE i \in 1..n
  <2>1. f[i-1] \in SUBSET D /\ <<i, f[i-1]>> \in (1..n) \X SUBSET D
    BY <1>3 DEF Recursive
  <2>2. next[<<i, f[i-1]>>] = step[f[i-1]]
    BY <2>1
  <2>3. QED
    <3> HIDE DEF next
    <3>1. QED  BY <1>3, <2>2 DEF Recursive
<1>5. f = F(f)
  BY <1>3, <1>4 DEF Recursive
<1>6. h = F(h)
  BY <1>5
<1> HIDE DEF h
<1>7. h[0] = start /\ \A i \in 1..n : h[i] = step[h[i-1]]
  BY <1>6
<1> DEFINE T == {i \in 0..n : h[i] \in SUBSET D}
<1>8. \A i \in 0..n : i \in T
  <2>1. 0 \in T
    BY <1>7
  <2>2. \A i \in 0..(n-1) : i \in T => i + 1 \in T
    <3> SUFFICES ASSUME NEW i \in 0..(n-1), i \in T PROVE i + 1 \in T
      OBVIOUS
    <3>1. i + 1 \in 1..n /\ (i + 1) - 1 = i
      OBVIOUS
    <3>2. h[i+1] = step[h[i]]
      BY <1>7, <3>1
    <3>3. QED  BY <3>1, <3>2
  <2> HIDE DEF T
  <2>3. QED  BY <2>1, <2>2, InductionFromZero
<1>9. h \in [0..n -> SUBSET D]
  BY <1>6, <1>8
<1>10. QED  BY <1>1, <1>7, <1>9 DEF Goes

\* A growing sequence of subsets of D stands still before it has more members than D.
LEMMA Stationary ==
    ASSUME NEW D, IsFiniteSet(D), NEW n \in Nat, Cardinality(D) <= n,
           NEW f, \A i \in 0..(n+1) : f[i] \in SUBSET D,
           \A i \in 0..n : f[i] \subseteq f[i+1]
    PROVE  \E i \in 0..n : f[i] = f[i+1]
<1> SUFFICES ASSUME \A i \in 0..n : f[i] # f[i+1] PROVE FALSE
  OBVIOUS
<1> DEFINE T == {i \in 0..(n+1) : i <= Cardinality(f[i])}
<1>1. \A i \in 0..(n+1) : /\ IsFiniteSet(f[i])
                          /\ Cardinality(f[i]) \in Nat
                          /\ Cardinality(f[i]) <= Cardinality(D)
  BY FS_Subset, FS_CardinalityType
<1>2. 0 \in T
  BY <1>1
<1>3. \A i \in 0..n : i \in T => i + 1 \in T
  <2> SUFFICES ASSUME NEW i \in 0..n, i \in T PROVE i + 1 \in T
    OBVIOUS
  <2>1. i + 1 \in 0..(n+1) /\ i \in 0..(n+1)
    OBVIOUS
  <2>2. f[i] \in SUBSET f[i+1] /\ f[i+1] # f[i]
    OBVIOUS
  <2>3. Cardinality(f[i]) <= Cardinality(f[i+1]) /\ Cardinality(f[i+1]) # Cardinality(f[i])
    BY <1>1, <2>1, <2>2, FS_Subset
  <2>4. i + 1 <= Cardinality(f[i+1])
    BY <1>1, <2>1, <2>3
  <2>5. QED  BY <2>1, <2>4
<1>4. n + 1 \in T
  <2>1. n + 1 \in 0..(n+1) /\ n + 1 \in Nat /\ (n + 1) - 1 = n
    OBVIOUS
  <2>2. \A i \in 0..((n+1)-1) : i \in T => i + 1 \in T
    BY <1>3, <2>1
  <2> HIDE DEF T
  <2>3. QED  BY <1>2, <2>1, <2>2, InductionFromZero
<1>5. Cardinality(D) \in Nat
  BY FS_CardinalityType
<1>6. QED
  <2>1. n + 1 \in 0..(n+1)
    OBVIOUS
  <2>2. QED  BY <1>1, <1>4, <1>5, <2>1

\* f goes on from value to value by step.
Follows(f, step, n) == \A i \in 1..n : f[i] = step[f[i-1]]

\* Once a step changes nothing, it never does again.
LEMMA StandsStill ==
    ASSUME NEW step, NEW f, NEW n \in Nat, Follows(f, step, n),
           NEW k \in 0..n, step[f[k]] = f[k]
    PROVE  step[f[n]] = f[n]
<1> DEFINE T == {i \in k..n : f[i] = f[k]}
<1>1. k \in T
  OBVIOUS
<1>2. \A i \in k..(n-1) : i \in T => i + 1 \in T
  <2> SUFFICES ASSUME NEW i \in k..(n-1), i \in T PROVE i + 1 \in T
    OBVIOUS
  <2>1. i + 1 \in k..n /\ i + 1 \in 1..n /\ (i + 1) - 1 = i
    OBVIOUS
  <2>2. f[i+1] = step[f[i]]
    BY <2>1 DEF Follows
  <2>3. QED  BY <2>1, <2>2
<1>3. n \in T
  <2>1. k \in Int /\ n \in Int /\ n \in k..n
    OBVIOUS
  <2> HIDE DEF T
  <2>2. QED  BY <1>1, <1>2, <2>1, Induction
<1>4. QED  BY <1>3

\* A bigger set stays bigger under the step.
Monotone(step, D) == \A X, Y \in SUBSET D : X \subseteq Y => step[X] \subseteq step[Y]

\* Rounds of a step that grows from start end at a fixed point, if there are as many
\* rounds as there are things to add.
LEMMA GrowsToFixpoint ==
    ASSUME NEW D, NEW step \in [SUBSET D -> SUBSET D], NEW start \in SUBSET D, NEW n \in Nat,
           Monotone(step, D), start \subseteq step[start],
           IsFiniteSet(D \ start), Cardinality(D \ start) <= n
    PROVE  /\ Rounds(step, start, n) \in SUBSET D
           /\ start \subseteq Rounds(step, start, n)
           /\ step[Rounds(step, start, n)] = Rounds(step, start, n)
<1>1. PICK f : Goes(f, step, start, n, D) /\ Rounds(step, start, n) = f[n]
  BY RoundsGo
<1>2. \A i \in 0..n : f[i] \in SUBSET D /\ step[f[i]] \in SUBSET D
  BY <1>1 DEF Goes
<1> DEFINE T == {i \in 0..n : start \subseteq f[i] /\ f[i] \subseteq step[f[i]]}
<1>3. \A i \in 0..n : i \in T
  <2>1. 0 \in T
    BY <1>1 DEF Goes
  <2>2. \A i \in 0..(n-1) : i \in T => i + 1 \in T
    <3> SUFFICES ASSUME NEW i \in 0..(n-1), i \in T PROVE i + 1 \in T
      OBVIOUS
    <3>1. i + 1 \in 1..n /\ i + 1 \in 0..n /\ i \in 0..n /\ (i + 1) - 1 = i
      OBVIOUS
    <3>2. f[i+1] = step[f[i]]
      BY <1>1, <3>1 DEF Goes
    <3>3. f[i] \subseteq f[i+1] /\ start \subseteq f[i]
      BY <3>2
    <3>4. step[f[i]] \subseteq step[f[i+1]]
      BY <1>2, <3>1, <3>3 DEF Monotone
    <3>5. QED  BY <3>1, <3>2, <3>3, <3>4
  <2> HIDE DEF T
  <2>3. QED  BY <2>1, <2>2, InductionFromZero
<1> DEFINE g == [i \in 0..(n+1) |-> (IF i = n + 1 THEN step[f[n]] ELSE f[i]) \ start]
<1>4. \A i \in 0..n : g[i] = f[i] \ start /\ g[i+1] = step[f[i]] \ start
  <2> TAKE i \in 0..n
  <2>1. i \in 0..(n+1) /\ i + 1 \in 0..(n+1) /\ i # n + 1
    OBVIOUS
  <2>2. CASE i = n
    BY <2>1, <2>2
  <2>3. CASE i # n
    <3>1. i + 1 \in 1..n /\ (i + 1) - 1 = i /\ i + 1 # n + 1
      BY <2>3
    <3>2. f[i+1] = step[f[i]]
      BY <1>1, <3>1 DEF Goes
    <3>3. QED  BY <2>1, <3>1, <3>2
  <2>4. QED  BY <2>2, <2>3
<1>5. \A i \in 0..(n+1) : g[i] \in SUBSET (D \ start)
  <2> TAKE i \in 0..(n+1)
  <2>1. CASE i = n + 1
    <3>1. n \in 0..n
      OBVIOUS
    <3>2. g[i] = step[f[n]] \ start
      BY <2>1
    <3> HIDE DEF g
    <3>3. QED  BY <1>2, <3>1, <3>2
  <2>2. CASE i # n + 1
    <3>1. i \in 0..n
      BY <2>2
    <3>2. g[i] = f[i] \ start
      BY <2>2
    <3> HIDE DEF g
    <3>3. QED  BY <1>2, <3>1, <3>2
  <2>3. QED  BY <2>1, <2>2
<1> HIDE DEF g
<1>6. \A i \in 0..n : g[i] \subseteq g[i+1]
  BY <1>3, <1>4
<1> HIDE DEF T
<1>7. PICK k \in 0..n : g[k] = g[k+1]
  BY <1>5, <1>6, Stationary
<1>8. step[f[k]] = f[k]
  <2>1. f[k] \ start = step[f[k]] \ start
    BY <1>4, <1>7
  <2>2. start \subseteq f[k] /\ f[k] \subseteq step[f[k]]
    BY <1>3 DEF T
  <2>3. QED  BY <2>1, <2>2
<1>9. step[f[n]] = f[n]
  <2>1. Follows(f, step, n)
    BY <1>1 DEF Goes, Follows
  <2>2. QED  BY <1>8, <2>1, StandsStill
<1>10. n \in 0..n
  OBVIOUS
<1>11. QED  BY <1>1, <1>2, <1>3, <1>9, <1>10 DEF T

\* Rounds of a step that shrinks from the top end at a fixed point, if there are as many
\* rounds as there are things to lose.
LEMMA ShrinksToFixpoint ==
    ASSUME NEW D, NEW step \in [SUBSET D -> SUBSET D], NEW kept \in SUBSET D, NEW n \in Nat,
           Monotone(step, D), \A X \in SUBSET D : kept \subseteq step[X],
           IsFiniteSet(D \ kept), Cardinality(D \ kept) <= n
    PROVE  /\ Rounds(step, D, n) \in SUBSET D
           /\ step[Rounds(step, D, n)] = Rounds(step, D, n)
<1>0. D \in SUBSET D
  OBVIOUS
<1>1. PICK f : Goes(f, step, D, n, D) /\ Rounds(step, D, n) = f[n]
  BY <1>0, RoundsGo
<1>2. \A i \in 0..n : f[i] \in SUBSET D /\ step[f[i]] \in SUBSET D
  BY <1>1 DEF Goes
<1> DEFINE T == {i \in 0..n : kept \subseteq f[i] /\ step[f[i]] \subseteq f[i]}
<1>3. \A i \in 0..n : i \in T
  <2>1. 0 \in T
    BY <1>1, <1>2 DEF Goes
  <2>2. \A i \in 0..(n-1) : i \in T => i + 1 \in T
    <3> SUFFICES ASSUME NEW i \in 0..(n-1), i \in T PROVE i + 1 \in T
      OBVIOUS
    <3>1. i + 1 \in 1..n /\ i + 1 \in 0..n /\ i \in 0..n /\ (i + 1) - 1 = i
      OBVIOUS
    <3>2. f[i+1] = step[f[i]]
      BY <1>1, <3>1 DEF Goes
    <3>3. f[i+1] \subseteq f[i] /\ kept \subseteq f[i+1]
      BY <1>2, <3>1, <3>2
    <3>4. step[f[i+1]] \subseteq step[f[i]]
      BY <1>2, <3>1, <3>3 DEF Monotone
    <3>5. QED  BY <3>1, <3>2, <3>3, <3>4
  <2> HIDE DEF T
  <2>3. QED  BY <2>1, <2>2, InductionFromZero
<1> DEFINE g == [i \in 0..(n+1) |-> D \ (IF i = n + 1 THEN step[f[n]] ELSE f[i])]
<1>4. \A i \in 0..n : g[i] = D \ f[i] /\ g[i+1] = D \ step[f[i]]
  <2> TAKE i \in 0..n
  <2>1. i \in 0..(n+1) /\ i + 1 \in 0..(n+1) /\ i # n + 1
    OBVIOUS
  <2>2. CASE i = n
    BY <2>1, <2>2
  <2>3. CASE i # n
    <3>1. i + 1 \in 1..n /\ (i + 1) - 1 = i /\ i + 1 # n + 1
      BY <2>3
    <3>2. f[i+1] = step[f[i]]
      BY <1>1, <3>1 DEF Goes
    <3>3. QED  BY <2>1, <3>1, <3>2
  <2>4. QED  BY <2>2, <2>3
<1>5. \A i \in 0..(n+1) : g[i] \in SUBSET (D \ kept)
  <2> TAKE i \in 0..(n+1)
  <2>1. CASE i = n + 1
    <3>1. n \in 0..n
      OBVIOUS
    <3>2. g[i] = D \ step[f[n]]
      BY <2>1
    <3> HIDE DEF g
    <3>3. QED  BY <1>2, <3>1, <3>2
  <2>2. CASE i # n + 1
    <3>1. i \in 0..n
      BY <2>2
    <3>2. g[i] = D \ f[i]
      BY <2>2
    <3> HIDE DEF g
    <3>3. QED  BY <1>3, <3>1, <3>2
  <2>3. QED  BY <2>1, <2>2
<1> HIDE DEF g
<1>6. \A i \in 0..n : g[i] \subseteq g[i+1]
  BY <1>3, <1>4
<1> HIDE DEF T
<1>7. PICK k \in 0..n : g[k] = g[k+1]
  BY <1>5, <1>6, Stationary
<1>8. step[f[k]] = f[k]
  <2>1. D \ f[k] = D \ step[f[k]]
    BY <1>4, <1>7
  <2>2. f[k] \in SUBSET D /\ step[f[k]] \in SUBSET D
    BY <1>2
  <2>3. QED  BY <2>1, <2>2
<1>9. step[f[n]] = f[n]
  <2>1. Follows(f, step, n)
    BY <1>1 DEF Goes, Follows
  <2>2. QED  BY <1>8, <2>1, StandsStill
<1>10. n \in 0..n
  OBVIOUS
<1>11. QED  BY <1>1, <1>2, <1>9, <1>10

-----------------------------------------------------------------------------
(* Blocks *)

\* A program that has an instruction
IsProgram(c) ==
    /\ Len(c) \in Nat \ {0}
    /\ \A i \in 1..Len(c) : WellFormed(c[i])

\* The blocks are among the instructions and the exit.
LEMMA BlocksType ==
    ASSUME NEW c, IsProgram(c)
    PROVE  /\ recompute_blocks(c) \in SUBSET (1..(Len(c) + 1))
           /\ 1 \in recompute_blocks(c)
           /\ Len(c) + 1 \in recompute_blocks(c)
           /\ IsFiniteSet(recompute_blocks(c))
           /\ Exit(c) = Len(c) + 1
<1>1. recompute_blocks(c) \in SUBSET (1..(Len(c) + 1))
  BY DEF IsProgram, recompute_blocks
<1>2. IsFiniteSet(1..(Len(c) + 1))
  BY FS_Interval DEF IsProgram
<1>3. IsFiniteSet(recompute_blocks(c))
  BY <1>1, <1>2, FS_Subset
<1>4. QED  BY <1>1, <1>3 DEF recompute_blocks, Exit

\* NextBlock is the first block behind.
LEMMA NextBlockIs ==
    ASSUME NEW c, IsProgram(c), NEW b \in 0..Len(c)
    PROVE  /\ NextBlock(c, b) \in recompute_blocks(c)
           /\ NextBlock(c, b) \in (b+1)..(Len(c) + 1)
           /\ \A d \in recompute_blocks(c) : d > b => NextBlock(c, b) <= d
<1> DEFINE behind == {d \in recompute_blocks(c) : d > b}
<1>1. Len(c) \in Nat
  BY DEF IsProgram
<1>2. behind \in SUBSET Nat /\ behind # {}
  BY <1>1, BlocksType
<1>3. PICK x \in behind : \A y \in behind : x <= y
  <2> HIDE DEF behind
  <2>1. QED  BY <1>2, LeastElement
<1>4. NextBlock(c, b) = CHOOSE y \in behind : \A d \in behind : y <= d
  BY DEF NextBlock
<1>5. NextBlock(c, b) \in behind /\ \A d \in behind : NextBlock(c, b) <= d
  <2> HIDE DEF behind
  <2>1. QED  BY <1>3, <1>4
<1>6. QED  BY <1>1, <1>5, BlocksType

\* BlockOf is the last block that begins at i or before.
LEMMA BlockOfIs ==
    ASSUME NEW c, IsProgram(c), NEW i \in 1..(Len(c) + 1)
    PROVE  /\ BlockOf(c, i) \in recompute_blocks(c)
           /\ BlockOf(c, i) \in 1..i
           /\ \A d \in recompute_blocks(c) : d <= i => d <= BlockOf(c, i)
<1> DEFINE upto == {b \in recompute_blocks(c) : b <= i}
<1>1. Len(c) \in Nat /\ Len(c) + 1 \in Nat
  BY DEF IsProgram
<1>2. upto \in SUBSET (0..(Len(c) + 1)) /\ upto # {}
  BY <1>1, BlocksType
<1>3. PICK x \in upto : \A y \in upto : y <= x
  <2> HIDE DEF upto
  <2>1. QED  BY <1>1, <1>2, GreatestElement
<1>4. BlockOf(c, i) = CHOOSE b \in upto : \A d \in upto : d <= b
  BY DEF BlockOf
<1>5. BlockOf(c, i) \in upto /\ \A d \in upto : d <= BlockOf(c, i)
  <2> HIDE DEF upto
  <2>1. QED  BY <1>3, <1>4
<1>6. QED  BY <1>1, <1>5, BlocksType

\* Where a block ends
LEMMA BlockEnds ==
    ASSUME NEW c, IsProgram(c), NEW b \in recompute_blocks(c), b # Exit(c)
    PROVE  /\ b \in 1..Len(c)
           /\ LastOf(c, b) \in b..Len(c)
           /\ NextBlock(c, b) = LastOf(c, b) + 1
           /\ LastOf(c, b) + 1 \in recompute_blocks(c)
           /\ \A j \in (b+1)..LastOf(c, b) : j \notin recompute_blocks(c)
           /\ \A j \in b..LastOf(c, b) : BlockOf(c, j) = b
<1>1. Len(c) \in Nat
  BY DEF IsProgram
<1>2. b \in 1..Len(c)
  BY <1>1, BlocksType
<1>3. /\ NextBlock(c, b) \in recompute_blocks(c)
      /\ NextBlock(c, b) \in (b+1)..(Len(c) + 1)
      /\ \A d \in recompute_blocks(c) : d > b => NextBlock(c, b) <= d
  BY <1>1, <1>2, NextBlockIs
<1>4. /\ LastOf(c, b) \in b..Len(c)
      /\ NextBlock(c, b) = LastOf(c, b) + 1
  BY <1>1, <1>2, <1>3 DEF LastOf
<1>5. \A j \in (b+1)..LastOf(c, b) : j \notin recompute_blocks(c)
  BY <1>2, <1>3, <1>4
<1>6. ASSUME NEW j \in b..LastOf(c, b) PROVE BlockOf(c, j) = b
  <2>1. j \in 1..(Len(c) + 1) /\ j \in Int /\ b <= j
    BY <1>1, <1>2, <1>4
  <2>2. /\ BlockOf(c, j) \in recompute_blocks(c)
        /\ BlockOf(c, j) \in 1..j
        /\ b <= BlockOf(c, j)
    BY <2>1, BlockOfIs
  <2>3. BlockOf(c, j) \notin (b+1)..LastOf(c, b)
    BY <1>5, <2>2
  <2>4. QED  BY <1>2, <1>4, <2>1, <2>2, <2>3
<1>7. QED  BY <1>2, <1>3, <1>4, <1>5, <1>6

\* An instruction lies between the first and the last of its block.
LEMMA InBlock ==
    ASSUME NEW c, IsProgram(c), NEW i \in 1..Len(c)
    PROVE  /\ BlockOf(c, i) \in recompute_blocks(c)
           /\ BlockOf(c, i) # Exit(c)
           /\ i \in BlockOf(c, i)..LastOf(c, BlockOf(c, i))
           /\ i \in InstrsOf(c, BlockOf(c, i))
           /\ i = LastOf(c, BlockOf(c, i)) <=> i + 1 \in recompute_blocks(c)
<1> DEFINE b == BlockOf(c, i)
           l == LastOf(c, b)
<1>1. Len(c) \in Nat
  BY DEF IsProgram
<1>2. /\ b \in recompute_blocks(c)
      /\ b \in 1..i
      /\ \A d \in recompute_blocks(c) : d <= i => d <= b
  BY <1>1, BlockOfIs
<1>3. b # Exit(c)
  BY <1>1, <1>2 DEF Exit
<1>4. /\ b \in 1..Len(c)
      /\ l \in b..Len(c)
      /\ NextBlock(c, b) = l + 1
      /\ l + 1 \in recompute_blocks(c)
      /\ \A j \in (b+1)..l : j \notin recompute_blocks(c)
  BY <1>2, <1>3, BlockEnds
<1> HIDE DEF b, l
<1>5. i \in b..l
  <2>1. ~(l + 1 <= i)
    BY <1>2, <1>4
  <2>2. QED  BY <1>1, <1>2, <1>4, <2>1
<1>6. i = l <=> i + 1 \in recompute_blocks(c)
  <2>1. i # l => i + 1 \in (b+1)..l
    BY <1>4, <1>5
  <2>2. QED  BY <1>4, <2>1
<1>7. i \in InstrsOf(c, b)
  <2>1. b # Entry /\ NextBlock(c, b) - 1 = l
    BY <1>4 DEF Entry
  <2>2. QED  BY <1>3, <1>5, <2>1 DEF InstrsOf
<1>8. QED  BY <1>2, <1>3, <1>5, <1>6, <1>7 DEF b, l

\* The first instruction of a block is in it.
LEMMA BlockOfFirst ==
    ASSUME NEW c, IsProgram(c), NEW b \in recompute_blocks(c)
    PROVE  BlockOf(c, b) = b
<1>1. b \in 1..(Len(c) + 1) /\ Len(c) \in Nat
  BY BlocksType DEF IsProgram
<1>2. BlockOf(c, b) \in 1..b /\ b <= BlockOf(c, b)
  BY <1>1, BlockOfIs
<1>3. QED  BY <1>1, <1>2

\* A label leads to the beginning of a block.
LEMMA DestIsBlock ==
    ASSUME NEW c, IsProgram(c), NEW l
    PROVE  Dest(c, l) \in recompute_blocks(c)
<1> DEFINE at == {i \in 1..Len(c) : c[i].kind = "label" /\ c[i].label = l}
<1>1. Len(c) \in Nat
  BY DEF IsProgram
<1>2. CASE at = {}
  <2>1. Dest(c, l) = Exit(c)
    BY <1>2 DEF Dest
  <2>2. QED  BY <2>1, BlocksType
<1>3. CASE at # {}
  <2>1. Dest(c, l) = CHOOSE i \in at : \A j \in at : j <= i
    BY <1>3 DEF Dest
  <2>2. at \in SUBSET (0..Len(c))
    BY <1>1
  <2>3. \E i \in at : \A j \in at : j <= i
    <3> HIDE DEF at
    <3>1. QED  BY <1>1, <1>3, <2>2, GreatestElement
  <2>4. Dest(c, l) \in at
    <3> HIDE DEF at
    <3>1. QED  BY <2>1, <2>3
  <2>5. QED  BY <2>4 DEF recompute_blocks
<1>4. QED  BY <1>2, <1>3

\* Inside a block control goes on to the next instruction.
LEMMA InsidePlain ==
    ASSUME NEW c, IsProgram(c), NEW i \in 1..Len(c), i + 1 \notin recompute_blocks(c)
    PROVE  ~is_jump(c[i]) /\ ~is_return(c[i])
  BY DEF recompute_blocks

-----------------------------------------------------------------------------
(* Reachable blocks *)

\* A successor is a block.
LEMMA SuccsAreBlocks ==
    ASSUME NEW c, IsProgram(c), NEW b \in recompute_blocks(c) \cup {Entry}
    PROVE  recompute_succs(c, b) \in SUBSET recompute_blocks(c)
<1>1. 1 \in recompute_blocks(c) /\ Exit(c) \in recompute_blocks(c)
  BY BlocksType
<1>2. CASE b = Exit(c) \/ b = Entry
  BY <1>1, <1>2 DEF recompute_succs
<1>3. CASE b # Exit(c) /\ b # Entry
  <2>1. NextBlock(c, b) \in recompute_blocks(c)
    BY <1>3, BlockEnds
  <2>2. Dest(c, c[LastOf(c, b)].label) \in recompute_blocks(c)
    BY DestIsBlock
  <2>3. QED  BY <1>1, <1>3, <2>1, <2>2 DEF recompute_succs
<1>4. QED  BY <1>2, <1>3

\* An edge leads from a block to one of its successors.
LEMMA EdgesAre ==
    ASSUME NEW c, IsProgram(c)
    PROVE  /\ Edges(c) \in SUBSET ((recompute_blocks(c) \cup {Entry}) \X recompute_blocks(c))
           /\ \A b \in recompute_blocks(c) \cup {Entry} : \A s \in recompute_succs(c, b) :
                <<b, s>> \in Edges(c)
<1>1. \A b \in recompute_blocks(c) \cup {Entry} :
        recompute_succs(c, b) \in SUBSET recompute_blocks(c)
  BY SuccsAreBlocks
<1>2. QED  BY <1>1 DEF Edges

\* The entry is not a block of instructions, nor the exit.
LEMMA EntryApart ==
    ASSUME NEW c, IsProgram(c)
    PROVE  Entry \notin recompute_blocks(c) /\ Entry # Exit(c)
<1>1. recompute_blocks(c) \in SUBSET (1..(Len(c) + 1)) /\ Exit(c) \in recompute_blocks(c)
  BY BlocksType
<1>2. Len(c) \in Nat
  BY DEF IsProgram
<1>3. QED  BY <1>1, <1>2 DEF Entry

\* The work list is worked off: what is reachable is closed under successors.
LEMMA ReachableClosed ==
    ASSUME NEW c, IsProgram(c)
    PROVE  /\ recompute_reachable(c) \in SUBSET (recompute_blocks(c) \cup {Entry})
           /\ Entry \in recompute_reachable(c)
           /\ \A e \in Edges(c) : e[1] \in recompute_reachable(c) => e[2] \in recompute_reachable(c)
           /\ IsFiniteSet(recompute_reachable(c))
<1> DEFINE B == recompute_blocks(c)
           D == B \cup {Entry}
           step == ReachStep(c)
           start == {Entry}
           n == Cardinality(B)
           R == recompute_reachable(c)
<1>1. Edges(c) \in SUBSET (D \X B)
  BY EdgesAre
<1>2. step = [reach \in SUBSET D |-> reach \cup {e[2] : e \in {d \in Edges(c) : d[1] \in reach}}]
  BY DEF ReachStep
<1>3. step \in [SUBSET D -> SUBSET D]
  BY <1>1, <1>2
<1>4. Monotone(step, D)
  BY <1>2 DEF Monotone
<1>5. start \in SUBSET D /\ start \subseteq step[start]
  BY <1>2
<1>6. IsFiniteSet(B) /\ IsFiniteSet(D) /\ n \in Nat
  BY BlocksType, FS_AddElement, FS_CardinalityType
<1>7. D \ start = B
  BY EntryApart
<1>8. R = Rounds(step, start, n)
  BY DEF recompute_reachable
<1>9. Cardinality(D \ start) <= n /\ IsFiniteSet(D \ start)
  BY <1>6, <1>7
<1>10. R \in SUBSET D /\ start \subseteq R /\ step[R] = R
  <2> HIDE DEF step, start, n, D, R
  <2>1. QED  BY <1>3, <1>4, <1>5, <1>6, <1>8, <1>9, GrowsToFixpoint
<1>11. IsFiniteSet(R)
  BY <1>6, <1>10, FS_Subset
<1>12. ASSUME NEW e \in Edges(c), e[1] \in R PROVE e[2] \in R
  <2> HIDE DEF step, R
  <2>1. step[R] = R \cup {d[2] : d \in {f \in Edges(c) : f[1] \in R}}
    BY <1>2, <1>10
  <2>2. QED  BY <1>10, <1>12, <2>1
<1>13. QED  BY <1>10, <1>11, <1>12

\* The successors of a reachable block are reachable, over an edge the analyses follow.
LEMMA ReachableSuccs ==
    ASSUME NEW c, IsProgram(c), NEW b \in recompute_reachable(c), NEW s \in recompute_succs(c, b)
    PROVE  /\ s \in recompute_reachable(c)
           /\ s \in recompute_blocks(c)
           /\ <<b, s>> \in ReachableEdges(c)
<1>1. b \in recompute_blocks(c) \cup {Entry}
  BY ReachableClosed
<1>2. <<b, s>> \in Edges(c) /\ s \in recompute_blocks(c)
  BY <1>1, EdgesAre, SuccsAreBlocks
<1>3. s \in recompute_reachable(c)
  <2>1. \A e \in Edges(c) : e[1] \in recompute_reachable(c) => e[2] \in recompute_reachable(c)
    BY ReachableClosed
  <2>2. QED  BY <1>2, <2>1
<1>4. QED  BY <1>2, <1>3 DEF ReachableEdges

\* The first instruction is reachable.
LEMMA FirstReachable ==
    ASSUME NEW c, IsProgram(c)
    PROVE  1 \in recompute_reachable(c) /\ <<Entry, 1>> \in ReachableEdges(c)
<1>1. Entry \in recompute_reachable(c)
  BY ReachableClosed
<1>2. 1 \in recompute_succs(c, Entry)
  BY EntryApart DEF recompute_succs
<1>3. QED  BY <1>1, <1>2, ReachableSuccs

-----------------------------------------------------------------------------
(* Liveness: the summary of a block *)

Summary == [use : SUBSET Reg, kill : SUBSET Reg]

\* uk tells, for every instruction of block b, what the block up to it uses and kills.
UseKills(c, b, uk) ==
    /\ uk \in [(b-1)..LastOf(c, b) -> Summary]
    /\ uk[b-1] = [use |-> {}, kill |-> {}]
    /\ \A i \in b..LastOf(c, b) :
         /\ uk[i].use = uk[i-1].use \cup (c[i].maybe_read \ uk[i-1].kill)
         /\ uk[i].kill = uk[i-1].kill \cup c[i].must_undef \cup c[i].must_write

\* UseKill() is the last of these summaries.
LEMMA UseKillTable ==
    ASSUME NEW c, IsProgram(c), NEW b \in recompute_blocks(c), b # Exit(c)
    PROVE  \E uk : UseKills(c, b, uk) /\ UseKill(c, b) = uk[LastOf(c, b)]
<1> DEFINE l == LastOf(c, b)
           After(i, prev) == [use  |-> prev.use \cup (c[i].maybe_read \ prev.kill),
                              kill |-> prev.kill \cup c[i].must_undef \cup c[i].must_write]
           nothing == [use |-> {}, kill |-> {}]
           F(f) == [i \in (b-1)..l |-> IF i = b-1 THEN nothing ELSE After(i, f[i-1])]
           h == CHOOSE f : f = F(f)
           step == [p \in (((b-1)+1)..l) \X Summary |-> After(p[1], p[2])]
<1>1. b \in 1..Len(c) /\ l \in b..Len(c) /\ Len(c) \in Nat
  BY BlockEnds DEF IsProgram
<1>2. UseKill(c, b) = h[l]
  BY DEF UseKill
<1>3. nothing \in Summary
  BY DEF Summary
<1>4. \A i \in b..l : \A prev \in Summary : After(i, prev) \in Summary
  <2> SUFFICES ASSUME NEW i \in b..l, NEW prev \in Summary PROVE After(i, prev) \in Summary
    OBVIOUS
  <2>1. i \in 1..Len(c)
    BY <1>1
  <2>2. /\ c[i].maybe_read \subseteq Reg /\ c[i].must_undef \subseteq Reg
        /\ c[i].must_write \subseteq Reg
    BY <2>1 DEF IsProgram, WellFormed
  <2>3. QED  BY <2>2 DEF Summary
<1> HIDE DEF l
<1>5. (b-1)+1 = b /\ b - 1 \in Int /\ l \in Int /\ b - 1 <= l
  BY <1>1
<1>6. step \in [(((b-1)+1)..l) \X Summary -> Summary]
  <2> HIDE DEF After
  <2>1. QED  BY <1>4, <1>5
<1>7. PICK f : RecursiveFrom(f, b-1, l, Summary, nothing, step)
  <2> HIDE DEF step, nothing
  <2>1. QED  BY <1>3, <1>5, <1>6, RecursionFrom
<1>8. ASSUME NEW i \in b..l PROVE f[i] = After(i, f[i-1])
  <2>1. i \in ((b-1)+1)..l /\ i - 1 \in (b-1)..l
    BY <1>1, <1>5
  <2>2. f[i-1] \in Summary /\ <<i, f[i-1]>> \in (((b-1)+1)..l) \X Summary
    BY <1>7, <2>1 DEF RecursiveFrom
  <2>3. step[<<i, f[i-1]>>] = After(i, f[i-1])
    <3> HIDE DEF After
    <3>1. QED  BY <2>2
  <2>4. QED
    <3> HIDE DEF step, After
    <3>1. QED  BY <1>7, <2>1, <2>3 DEF RecursiveFrom
<1>9. f = F(f)
  <2>1. f \in [(b-1)..l -> Summary] /\ f[b-1] = nothing
    BY <1>7 DEF RecursiveFrom
  <2>2. \A i \in (b-1)..l : i # b-1 => i \in b..l
    BY <1>1
  <2> HIDE DEF After, nothing
  <2>3. QED  BY <1>8, <2>1, <2>2
<1>10. h = F(h)
  <2> HIDE DEF F
  <2>1. QED  BY <1>9
<1> HIDE DEF h
<1>11. b - 1 \in (b-1)..l
  BY <1>5
<1>12. h[b-1] = nothing
  BY <1>10, <1>11
<1>13. \A i \in b..l : h[i] = After(i, h[i-1])
  <2> TAKE i \in b..l
  <2>1. i \in (b-1)..l /\ i # b-1
    BY <1>1
  <2> HIDE DEF After, nothing
  <2>2. QED  BY <1>10, <2>1
<1> DEFINE T == {i \in (b-1)..l : h[i] \in Summary}
<1>14. \A i \in (b-1)..l : i \in T
  <2>1. b - 1 \in T
    BY <1>3, <1>11, <1>12
  <2>2. \A i \in (b-1)..(l-1) : i \in T => i + 1 \in T
    <3> SUFFICES ASSUME NEW i \in (b-1)..(l-1), i \in T PROVE i + 1 \in T
      OBVIOUS
    <3>1. i + 1 \in b..l /\ i + 1 \in (b-1)..l /\ (i + 1) - 1 = i
      BY <1>1
    <3> HIDE DEF After
    <3>2. h[i+1] = After(i+1, h[i])
      BY <1>13, <3>1
    <3>3. QED  BY <1>4, <3>1, <3>2
  <2> HIDE DEF T
  <2>3. QED  BY <1>5, <2>1, <2>2, Induction
<1>15. h \in [(b-1)..l -> Summary]
  <2>1. h = [i \in (b-1)..l |-> h[i]]
    <3> HIDE DEF After, nothing
    <3>1. QED  BY <1>10
  <2>2. QED  BY <1>14, <2>1
<1>16. UseKills(c, b, h)
  <2>1. ASSUME NEW i \in b..l
        PROVE  /\ h[i].use = h[i-1].use \cup (c[i].maybe_read \ h[i-1].kill)
               /\ h[i].kill = h[i-1].kill \cup c[i].must_undef \cup c[i].must_write
    <3>1. h[i] = After(i, h[i-1])
      BY <1>13
    <3> DEFINE prev == h[i-1]
               now == h[i]
    <3>2. now = After(i, prev)
      BY <3>1
    <3> HIDE DEF prev, now
    <3>3. /\ now.use = prev.use \cup (c[i].maybe_read \ prev.kill)
          /\ now.kill = prev.kill \cup c[i].must_undef \cup c[i].must_write
      BY <3>2
    <3>4. QED  BY <3>3 DEF prev, now
  <2>2. h[b-1] = [use |-> {}, kill |-> {}]
    BY <1>12
  <2> HIDE DEF After, nothing, F
  <2>3. QED  BY <1>15, <2>1, <2>2 DEF UseKills, l
<1>17. QED  BY <1>2, <1>16 DEF l

\* What a block uses and kills are registers.
LEMMA UseKillType ==
    ASSUME NEW c, IsProgram(c), NEW b \in recompute_blocks(c), b # Exit(c)
    PROVE  UseKill(c, b).use \in SUBSET Reg /\ UseKill(c, b).kill \in SUBSET Reg
<1>1. PICK uk : UseKills(c, b, uk) /\ UseKill(c, b) = uk[LastOf(c, b)]
  BY UseKillTable
<1>2. LastOf(c, b) \in (b-1)..LastOf(c, b)
  BY BlockEnds
<1>3. uk[LastOf(c, b)] \in Summary
  BY <1>1, <1>2 DEF UseKills
<1>4. QED  BY <1>1, <1>3 DEF Summary

\* The blocks that liveness is computed for are blocks of instructions.
LEMMA LiveBlocksType ==
    ASSUME NEW c, IsProgram(c)
    PROVE  /\ LiveBlocks(c) \in SUBSET recompute_blocks(c)
           /\ \A b \in LiveBlocks(c) : b # Exit(c)
           /\ IsFiniteSet(LiveBlocks(c))
<1>1. /\ recompute_reachable(c) \in SUBSET (recompute_blocks(c) \cup {Entry})
      /\ IsFiniteSet(recompute_reachable(c))
  BY ReachableClosed
<1>2. LiveBlocks(c) \in SUBSET recompute_reachable(c)
  BY DEF LiveBlocks
<1>3. IsFiniteSet(LiveBlocks(c))
  BY <1>1, <1>2, FS_Subset
<1>4. QED  BY <1>1, <1>3 DEF LiveBlocks

\* What is live out of a block grows with what is live into the others.
LEMMA MeetOutsMonotone ==
    ASSUME NEW c, NEW edges, NEW X, NEW Y, X \subseteq Y, NEW b
    PROVE  MeetOuts(c, edges, X, b) \subseteq MeetOuts(c, edges, Y, b)
  BY DEF MeetOuts

\* The sweeps of recompute_liveness() end at a fixed point.
LEMMA LiveInsFixpoint ==
    ASSUME NEW c, IsProgram(c)
    PROVE  LiveStep(c)[LiveIns(c)] = LiveIns(c)
           /\ LiveIns(c) \in SUBSET (LiveAtExit(c) \cup (LiveBlocks(c) \X Reg))
<1> DEFINE blocks == LiveBlocks(c)
           edges == ReachableEdges(c)
           start == LiveAtExit(c)
           D == start \cup (blocks \X Reg)
           step == LiveStep(c)
           n == Cardinality(blocks) * Cardinality(Reg)
           use == UNION {{<<b, r>> : r \in UseKill(c, b).use} : b \in blocks}
           kill == UNION {{<<b, r>> : r \in UseKill(c, b).kill} : b \in blocks}
           Met(ins) == UNION {{<<b, r>> : r \in MeetOuts(c, edges, ins, b)} : b \in blocks}
<1>1. /\ blocks \in SUBSET recompute_blocks(c)
      /\ \A b \in blocks : b # Exit(c)
      /\ IsFiniteSet(blocks)
  BY LiveBlocksType
<1>2. step = [ins \in SUBSET D |-> start \cup use \cup (Met(ins) \ kill)]
  BY DEF LiveStep
<1>3. use \in SUBSET (blocks \X Reg)
  <2>1. \A b \in blocks : UseKill(c, b).use \in SUBSET Reg
    BY <1>1, UseKillType
  <2> HIDE DEF blocks
  <2>2. QED  BY <2>1
<1> HIDE DEF use, kill, blocks
<1>4. \A ins : Met(ins) \in SUBSET (blocks \X Reg)
  BY DEF MeetOuts
<1>5. \A X, Y \in SUBSET D : X \subseteq Y => Met(X) \subseteq Met(Y)
  <2> SUFFICES ASSUME NEW X \in SUBSET D, NEW Y \in SUBSET D, X \subseteq Y
               PROVE  Met(X) \subseteq Met(Y)
    OBVIOUS
  <2>1. \A b \in blocks : MeetOuts(c, edges, X, b) \subseteq MeetOuts(c, edges, Y, b)
    BY MeetOutsMonotone
  <2> HIDE DEF edges
  <2>2. QED  BY <2>1
<1> HIDE DEF Met
<1>6. step \in [SUBSET D -> SUBSET D]
  BY <1>2, <1>3, <1>4
<1>7. Monotone(step, D)
  BY <1>2, <1>5 DEF Monotone
<1>8. start \in SUBSET D /\ start \subseteq step[start]
  BY <1>2
<1>9. D \ start = blocks \X Reg
  BY <1>1 DEF LiveAtExit
<1>10. /\ IsFiniteSet(blocks \X Reg) /\ n \in Nat /\ Cardinality(blocks \X Reg) = n
  <2>1. IsFiniteSet(Reg)
    BY RegAssumption
  <2>2. IsFiniteSet(blocks \X Reg) /\ Cardinality(blocks \X Reg) = n
    BY <1>1, <2>1, FS_Product
  <2>3. Cardinality(blocks \X Reg) \in Nat
    BY <2>2, FS_CardinalityType
  <2>4. QED  BY <2>2, <2>3
<1> DEFINE L == LiveIns(c)
<1>12. L = Rounds(step, start, n)
  BY DEF LiveIns, blocks
<1>11. IsFiniteSet(D \ start) /\ Cardinality(D \ start) <= n
  <2> HIDE DEF n, start, D
  <2>1. QED  BY <1>9, <1>10
<1>13. step[L] = L /\ L \in SUBSET D
  <2> HIDE DEF step, start, n, D, L
  <2>1. QED  BY <1>6, <1>7, <1>8, <1>10, <1>11, <1>12, GrowsToFixpoint
<1>14. QED  BY <1>13 DEF blocks

\* What live_ins_ has of a reachable block: its uses, and what is live out of it and not
\* killed; of the exit, the live-outs of the function.
LEMMA LiveInsHas ==
    ASSUME NEW c, IsProgram(c)
    PROVE  /\ \A r \in LiveOuts : <<Exit(c), r>> \in LiveIns(c)
           /\ \A b \in LiveBlocks(c) : \A r \in UseKill(c, b).use : <<b, r>> \in LiveIns(c)
           /\ \A b \in LiveBlocks(c) :
                \A r \in MeetOuts(c, ReachableEdges(c), LiveIns(c), b) \ UseKill(c, b).kill :
                  <<b, r>> \in LiveIns(c)
<1> DEFINE blocks == LiveBlocks(c)
           edges == ReachableEdges(c)
           L == LiveIns(c)
           use == UNION {{<<b, r>> : r \in UseKill(c, b).use} : b \in blocks}
           kill == UNION {{<<b, r>> : r \in UseKill(c, b).kill} : b \in blocks}
           met == UNION {{<<b, r>> : r \in MeetOuts(c, edges, L, b)} : b \in blocks}
<1>1. LiveStep(c)[L] = L /\ L \in SUBSET (LiveAtExit(c) \cup (blocks \X Reg))
  BY LiveInsFixpoint
<1>2. LiveStep(c)[L] = LiveAtExit(c) \cup use \cup (met \ kill)
  BY <1>1 DEF LiveStep
<1> HIDE DEF L, edges, blocks
<1>3. L = LiveAtExit(c) \cup use \cup (met \ kill)
  BY <1>1, <1>2
<1>4. \A r \in LiveOuts : <<Exit(c), r>> \in L
  <2>1. \A r \in LiveOuts : <<Exit(c), r>> \in LiveAtExit(c)
    BY DEF LiveAtExit
  <2>2. QED  BY <1>3, <2>1
<1>5. ASSUME NEW b \in blocks, NEW r \in UseKill(c, b).use PROVE <<b, r>> \in L
  <2>1. <<b, r>> \in use
    OBVIOUS
  <2>2. QED  BY <1>3, <2>1
<1>6. ASSUME NEW b \in blocks, NEW r \in MeetOuts(c, edges, L, b), r \notin UseKill(c, b).kill
      PROVE  <<b, r>> \in L
  <2>1. <<b, r>> \in met
    OBVIOUS
  <2>2. <<b, r>> \notin kill
    BY <1>6
  <2> HIDE DEF met, kill
  <2>3. QED  BY <1>3, <2>1, <2>2
<1>7. QED  BY <1>4, <1>5, <1>6 DEF L, edges, blocks

-----------------------------------------------------------------------------
(* Liveness: from instruction to instruction *)

\* What is live before an instruction, given what is live after it
LiveBefore(instr, after) ==
    (after \ (instr.must_write \cup instr.must_undef)) \cup instr.maybe_read

\* live_outs_, instruction by instruction
LEMMA LivenessTable ==
    ASSUME NEW c, IsProgram(c), NEW i \in 1..Len(c), BlockOf(c, i) \in recompute_reachable(c)
    PROVE  recompute_liveness(c)[i] =
             IF i = LastOf(c, BlockOf(c, i))
             THEN MeetOuts(c, ReachableEdges(c), LiveIns(c), BlockOf(c, i))
             ELSE LiveBefore(c[i+1], recompute_liveness(c)[i+1])
<1> DEFINE n == Len(c)
           edges == ReachableEdges(c)
           ins == LiveIns(c)
           reach == recompute_reachable(c)
           At(j, nxt) == LET b == BlockOf(c, j)
                         IN  IF b \notin reach THEN {}
                             ELSE IF j = LastOf(c, b) THEN MeetOuts(c, edges, ins, b)
                             ELSE (nxt \ (c[j+1].must_write \cup c[j+1].must_undef))
                                    \cup c[j+1].maybe_read
           F(f) == [k \in 0..(n-1) |-> At(n - k, f[k-1])]
           h == CHOOSE f : f = F(f)
           start == At(n, {})
           step == [p \in (1..(n-1)) \X SUBSET Reg |-> At(n - p[1], p[2])]
<1>1. n \in Nat \ {0} /\ n - 1 \in Nat
  BY DEF IsProgram
<1>2. recompute_liveness(c) = [j \in 1..n |-> h[n - j]]
  BY DEF recompute_liveness
<1>3. n = LastOf(c, BlockOf(c, n))
  <2>1. n \in 1..Len(c) /\ n + 1 \in recompute_blocks(c)
    BY <1>1, BlocksType
  <2>2. QED  BY <2>1, InBlock
<1>4. \A x : At(n, x) = start
  BY <1>3
<1>5. \A j \in 1..n : \A nxt \in SUBSET Reg : At(j, nxt) \in SUBSET Reg
  <2> SUFFICES ASSUME NEW j \in 1..n, NEW nxt \in SUBSET Reg PROVE At(j, nxt) \in SUBSET Reg
    OBVIOUS
  <2>1. MeetOuts(c, edges, ins, BlockOf(c, j)) \in SUBSET Reg
    BY DEF MeetOuts
  <2>2. CASE j = LastOf(c, BlockOf(c, j)) \/ BlockOf(c, j) \notin reach
    BY <2>1, <2>2
  <2>3. CASE ~(j = LastOf(c, BlockOf(c, j)) \/ BlockOf(c, j) \notin reach)
    <3>1. j # n
      BY <1>3, <2>3
    <3>2. j + 1 \in 1..Len(c)
      BY <1>1, <3>1
    <3>3. c[j+1].maybe_read \in SUBSET Reg
      BY <3>2 DEF IsProgram, WellFormed
    <3>4. QED  BY <2>3, <3>3
  <2>4. QED  BY <2>2, <2>3
<1> HIDE DEF At, n
<1>6. step \in [(1..(n-1)) \X SUBSET Reg -> SUBSET Reg]
  <2>1. \A k \in 1..(n-1) : n - k \in 1..n
    BY <1>1
  <2>2. QED  BY <1>5, <2>1
<1>7. start \in SUBSET Reg
  <2>1. n \in 1..n
    BY <1>1
  <2>2. QED  BY <1>5, <2>1
<1>8. PICK f : Recursive(f, n-1, SUBSET Reg, start, step)
  <2> HIDE DEF step, start
  <2>1. QED  BY <1>1, <1>6, <1>7, Recursion
<1>9. f = F(f)
  <2>1. f \in [0..(n-1) -> SUBSET Reg] /\ f[0] = start
    BY <1>8 DEF Recursive
  <2>2. ASSUME NEW k \in 0..(n-1) PROVE f[k] = At(n - k, f[k-1])
    <3>1. CASE k = 0
      <4>1. n - k = n
        BY <1>1, <3>1
      <4>2. f[k] = start
        BY <2>1, <3>1
      <4> HIDE DEF start
      <4>3. QED  BY <1>4, <4>1, <4>2
    <3>2. CASE k # 0
      <4>1. k \in 1..(n-1) /\ k - 1 \in 0..(n-1)
        BY <1>1, <3>2
      <4>2. f[k-1] \in SUBSET Reg
        BY <2>1, <4>1
      <4>3. step[<<k, f[k-1]>>] = At(n - k, f[k-1])
        BY <4>1, <4>2
      <4>4. QED
        <5> HIDE DEF step
        <5>1. QED  BY <1>8, <4>1, <4>3 DEF Recursive
    <3>3. QED  BY <3>1, <3>2
  <2>3. QED  BY <2>1, <2>2
<1>10. h = F(h)
  <2> HIDE DEF F
  <2>1. QED  BY <1>9
<1> HIDE DEF h
<1>11. \A j \in 1..n : n - j \in 0..(n-1) /\ n - (n - j) = j
  BY <1>1
<1>12. \A k \in 0..(n-1) : h[k] = At(n - k, h[k-1])
  BY <1>10
<1>13. h[n - i] = At(i, h[(n - i) - 1])
  <2>1. i \in 1..n
    BY DEF n
  <2>2. QED  BY <1>11, <1>12, <2>1
<1>14. recompute_liveness(c)[i] = h[n - i]
  <2>1. i \in 1..n
    BY DEF n
  <2>2. QED  BY <1>2, <2>1
<1>15. CASE i = LastOf(c, BlockOf(c, i))
  BY <1>13, <1>14, <1>15 DEF At
<1>16. CASE i # LastOf(c, BlockOf(c, i))
  <2>1. i # n
    BY <1>3, <1>16
  <2>2. i + 1 \in 1..n /\ (n - i) - 1 = n - (i + 1)
    BY <1>1, <2>1 DEF n
  <2>3. recompute_liveness(c)[i+1] = h[(n - i) - 1]
    BY <1>2, <2>2
  <2>4. QED  BY <1>13, <1>14, <1>16, <2>3 DEF At, LiveBefore
<1>17. QED  BY <1>15, <1>16

\* The summary of a block agrees with its instructions: what is live behind the first
\* instruction, and not written or undefined by it, and what it reads, is live into the
\* block.
LEMMA SummaryAgrees ==
    ASSUME NEW c, IsProgram(c), NEW b \in LiveBlocks(c)
    PROVE  \A r \in LiveBefore(c[b], recompute_liveness(c)[b]) : <<b, r>> \in LiveIns(c)
<1> DEFINE l == LastOf(c, b)
           lo == recompute_liveness(c)
<1>1. b \in recompute_blocks(c) /\ b # Exit(c) /\ b \in recompute_reachable(c)
  BY LiveBlocksType DEF LiveBlocks
<1>2. /\ b \in 1..Len(c) /\ l \in b..Len(c) /\ \A j \in b..l : BlockOf(c, j) = b
      /\ Len(c) \in Nat
  BY <1>1, BlockEnds DEF IsProgram
<1>3. PICK uk : UseKills(c, b, uk) /\ UseKill(c, b) = uk[l]
  BY <1>1, UseKillTable
<1>4. \A r \in uk[l].use : <<b, r>> \in LiveIns(c)
  BY <1>3, LiveInsHas
<1>5. \A r \in MeetOuts(c, ReachableEdges(c), LiveIns(c), b) \ uk[l].kill : <<b, r>> \in LiveIns(c)
  BY <1>3, LiveInsHas
<1>6. lo[l] = MeetOuts(c, ReachableEdges(c), LiveIns(c), b)
  <2>1. l \in 1..Len(c) /\ BlockOf(c, l) = b /\ l = LastOf(c, BlockOf(c, l))
    BY <1>2
  <2> HIDE DEF l
  <2>2. QED  BY <1>1, <2>1, LivenessTable
<1>7. ASSUME NEW j \in b..(l-1) PROVE lo[j] = LiveBefore(c[j+1], lo[j+1])
  <2>1. j \in 1..Len(c) /\ BlockOf(c, j) = b /\ j # LastOf(c, BlockOf(c, j))
    BY <1>2
  <2>2. QED  BY <1>1, <2>1, LivenessTable
<1>8. \A i \in b..l :
        /\ uk[i].use = uk[i-1].use \cup (c[i].maybe_read \ uk[i-1].kill)
        /\ uk[i].kill = uk[i-1].kill \cup c[i].must_undef \cup c[i].must_write
  BY <1>3 DEF UseKills
<1>9. uk[b-1].use = {} /\ uk[b-1].kill = {}
  BY <1>3 DEF UseKills
<1> HIDE DEF l, lo
\* What an earlier part of the block uses, the whole block uses.
<1>10. \A i \in b..l : uk[i].use \subseteq uk[l].use
  <2> DEFINE T == {k \in 0..(l - b) : uk[l - k].use \subseteq uk[l].use}
  <2>1. 0 \in T
    BY <1>2
  <2>2. \A k \in 0..((l - b) - 1) : k \in T => k + 1 \in T
    <3> SUFFICES ASSUME NEW k \in 0..((l - b) - 1), k \in T PROVE k + 1 \in T
      OBVIOUS
    <3>1. k + 1 \in 0..(l - b) /\ l - k \in b..l /\ (l - k) - 1 = l - (k + 1)
      BY <1>2
    <3>2. uk[(l - k) - 1].use \subseteq uk[l - k].use
      BY <1>8, <3>1
    <3>3. QED  BY <3>1, <3>2
  <2>3. \A k \in 0..(l - b) : k \in T
    <3>1. l - b \in Nat
      BY <1>2
    <3> HIDE DEF T
    <3>2. QED  BY <2>1, <2>2, <3>1, InductionFromZero
  <2>4. \A i \in b..l : l - i \in 0..(l - b) /\ l - (l - i) = i
    BY <1>2
  <2>5. QED  BY <2>3, <2>4
\* From the end of the block to its beginning
<1> DEFINE T == {k \in 0..(l - b) : \A r \in lo[l - k] \ uk[l - k].kill : <<b, r>> \in LiveIns(c)}
<1>11. 0 \in T
  <2>1. l - 0 = l /\ 0 \in 0..(l - b)
    BY <1>2
  <2>2. QED  BY <1>5, <1>6, <2>1
<1>12. \A k \in 0..((l - b) - 1) : k \in T => k + 1 \in T
  <2> SUFFICES ASSUME NEW k \in 0..((l - b) - 1), k \in T PROVE k + 1 \in T
    OBVIOUS
  <2>0. k + 1 \in 0..(l - b)
    BY <1>2
  <2> SUFFICES ASSUME NEW r \in lo[l - (k + 1)] \ uk[l - (k + 1)].kill
               PROVE  <<b, r>> \in LiveIns(c)
    BY <2>0
  <2> DEFINE j == l - (k + 1)
  <2>1. j \in b..(l-1) /\ j + 1 = l - k /\ j + 1 \in b..l /\ (j + 1) - 1 = j
    BY <1>2
  <2>2. r \in LiveBefore(c[j+1], lo[j+1]) /\ r \notin uk[j].kill
    BY <1>7, <2>1
  <2>3. /\ uk[j+1].use = uk[j].use \cup (c[j+1].maybe_read \ uk[j].kill)
        /\ uk[j+1].kill = uk[j].kill \cup c[j+1].must_undef \cup c[j+1].must_write
    BY <1>8, <2>1
  <2>4. \A q \in lo[j+1] \ uk[j+1].kill : <<b, q>> \in LiveIns(c)
    BY <2>1
  <2> HIDE DEF j
  <2>5. CASE r \in c[j+1].maybe_read
    BY <1>4, <1>10, <2>1, <2>2, <2>3, <2>5
  <2>6. CASE r \notin c[j+1].maybe_read
    BY <2>2, <2>3, <2>4, <2>6 DEF LiveBefore
  <2>7. QED  BY <2>5, <2>6
<1>13. l - b \in T
  <2>1. l - b \in Nat /\ l - b \in 0..(l - b)
    BY <1>2
  <2> HIDE DEF T
  <2>2. QED  BY <1>11, <1>12, <2>1, InductionFromZero
<1>14. \A r \in lo[b] \ uk[b].kill : <<b, r>> \in LiveIns(c)
  <2>1. l - (l - b) = b
    BY <1>2
  <2>2. QED  BY <1>13, <2>1
<1>15. b \in b..l
  BY <1>2
<1>16. uk[b].use = c[b].maybe_read /\ uk[b].kill = c[b].must_undef \cup c[b].must_write
  <2>1. /\ uk[b].use = uk[b-1].use \cup (c[b].maybe_read \ uk[b-1].kill)
        /\ uk[b].kill = uk[b-1].kill \cup c[b].must_undef \cup c[b].must_write
    BY <1>8, <1>15
  <2> DEFINE none == uk[b-1]
  <2>2. none.use = {} /\ none.kill = {}
    BY <1>9
  <2> HIDE DEF none
  <2>3. none.use \cup (c[b].maybe_read \ none.kill) = c[b].maybe_read
    BY <2>2
  <2>4. none.kill \cup c[b].must_undef \cup c[b].must_write = c[b].must_undef \cup c[b].must_write
    BY <2>2
  <2>5. QED  BY <2>1, <2>3, <2>4 DEF none
<1>17. \A r \in c[b].maybe_read : <<b, r>> \in LiveIns(c)
  BY <1>4, <1>10, <1>15, <1>16
<1>18. QED  BY <1>14, <1>16, <1>17 DEF LiveBefore, lo

-----------------------------------------------------------------------------
(* Definitions: the summary of a block *)

Effect == [gen : SUBSET Reg, kill : SUBSET Reg]

\* gk tells, for every instruction of block b, what the block up to it defines and
\* undefines.
GenKills(c, b, gk) ==
    /\ gk \in [(b-1)..LastOf(c, b) -> Effect]
    /\ gk[b-1] = [gen |-> {}, kill |-> {}]
    /\ \A i \in b..LastOf(c, b) :
         /\ gk[i].gen = (gk[i-1].gen \cup c[i].must_write) \ c[i].maybe_undef
         /\ gk[i].kill = (gk[i-1].kill \cup c[i].maybe_undef) \ c[i].maybe_write

\* GenKill() is the last of these summaries.
LEMMA GenKillTable ==
    ASSUME NEW c, IsProgram(c), NEW b \in recompute_blocks(c), b # Exit(c)
    PROVE  \E gk : GenKills(c, b, gk) /\ GenKill(c, b) = gk[LastOf(c, b)]
<1> DEFINE l == LastOf(c, b)
           After(i, prev) == [gen  |-> (prev.gen \cup c[i].must_write) \ c[i].maybe_undef,
                              kill |-> (prev.kill \cup c[i].maybe_undef) \ c[i].maybe_write]
           nothing == [gen |-> {}, kill |-> {}]
           F(f) == [i \in (b-1)..l |-> IF i = b-1 THEN nothing ELSE After(i, f[i-1])]
           h == CHOOSE f : f = F(f)
           step == [p \in (((b-1)+1)..l) \X Effect |-> After(p[1], p[2])]
<1>1. b \in 1..Len(c) /\ l \in b..Len(c) /\ Len(c) \in Nat
  BY BlockEnds DEF IsProgram
<1>2. GenKill(c, b) = h[l]
  <2>1. b \notin {Entry, Exit(c)}
    BY EntryApart
  <2>2. QED  BY <2>1 DEF GenKill
<1>3. nothing \in Effect
  BY DEF Effect
<1>4. \A i \in b..l : \A prev \in Effect : After(i, prev) \in Effect
  <2> SUFFICES ASSUME NEW i \in b..l, NEW prev \in Effect PROVE After(i, prev) \in Effect
    OBVIOUS
  <2>1. i \in 1..Len(c)
    BY <1>1
  <2>2. c[i].maybe_undef \subseteq Reg /\ c[i].must_write \subseteq Reg
    BY <2>1 DEF IsProgram, WellFormed
  <2>3. QED  BY <2>2 DEF Effect
<1> HIDE DEF l
<1>5. (b-1)+1 = b /\ b - 1 \in Int /\ l \in Int /\ b - 1 <= l
  BY <1>1
<1>6. step \in [(((b-1)+1)..l) \X Effect -> Effect]
  <2> HIDE DEF After
  <2>1. QED  BY <1>4, <1>5
<1>7. PICK f : RecursiveFrom(f, b-1, l, Effect, nothing, step)
  <2> HIDE DEF step, nothing
  <2>1. QED  BY <1>3, <1>5, <1>6, RecursionFrom
<1>8. ASSUME NEW i \in b..l PROVE f[i] = After(i, f[i-1])
  <2>1. i \in ((b-1)+1)..l /\ i - 1 \in (b-1)..l
    BY <1>1, <1>5
  <2>2. f[i-1] \in Effect /\ <<i, f[i-1]>> \in (((b-1)+1)..l) \X Effect
    BY <1>7, <2>1 DEF RecursiveFrom
  <2>3. step[<<i, f[i-1]>>] = After(i, f[i-1])
    <3> HIDE DEF After
    <3>1. QED  BY <2>2
  <2>4. QED
    <3> HIDE DEF step, After
    <3>1. QED  BY <1>7, <2>1, <2>3 DEF RecursiveFrom
<1>9. f = F(f)
  <2>1. f \in [(b-1)..l -> Effect] /\ f[b-1] = nothing
    BY <1>7 DEF RecursiveFrom
  <2>2. \A i \in (b-1)..l : i # b-1 => i \in b..l
    BY <1>1
  <2> HIDE DEF After, nothing
  <2>3. QED  BY <1>8, <2>1, <2>2
<1>10. h = F(h)
  <2> HIDE DEF F
  <2>1. QED  BY <1>9
<1> HIDE DEF h
<1>11. b - 1 \in (b-1)..l
  BY <1>5
<1>12. h[b-1] = nothing
  BY <1>10, <1>11
<1>13. \A i \in b..l : h[i] = After(i, h[i-1])
  <2> TAKE i \in b..l
  <2>1. i \in (b-1)..l /\ i # b-1
    BY <1>1
  <2> HIDE DEF After, nothing
  <2>2. QED  BY <1>10, <2>1
<1> DEFINE T == {i \in (b-1)..l : h[i] \in Effect}
<1>14. \A i \in (b-1)..l : i \in T
  <2>1. b - 1 \in T
    BY <1>3, <1>11, <1>12
  <2>2. \A i \in (b-1)..(l-1) : i \in T => i + 1 \in T
    <3> SUFFICES ASSUME NEW i \in (b-1)..(l-1), i \in T PROVE i + 1 \in T
      OBVIOUS
    <3>1. i + 1 \in b..l /\ i + 1 \in (b-1)..l /\ (i + 1) - 1 = i
      BY <1>1
    <3> HIDE DEF After
    <3>2. h[i+1] = After(i+1, h[i])
      BY <1>13, <3>1
    <3>3. QED  BY <1>4, <3>1, <3>2
  <2> HIDE DEF T
  <2>3. QED  BY <1>5, <2>1, <2>2, Induction
<1>15. h \in [(b-1)..l -> Effect]
  <2>1. h = [i \in (b-1)..l |-> h[i]]
    <3> HIDE DEF After, nothing
    <3>1. QED  BY <1>10
  <2>2. QED  BY <1>14, <2>1
<1>16. GenKills(c, b, h)
  <2>1. ASSUME NEW i \in b..l
        PROVE  /\ h[i].gen = (h[i-1].gen \cup c[i].must_write) \ c[i].maybe_undef
               /\ h[i].kill = (h[i-1].kill \cup c[i].maybe_undef) \ c[i].maybe_write
    <3>1. h[i] = After(i, h[i-1])
      BY <1>13
    <3> DEFINE prev == h[i-1]
               now == h[i]
    <3>2. now = After(i, prev)
      BY <3>1
    <3> HIDE DEF prev, now
    <3>3. /\ now.gen = (prev.gen \cup c[i].must_write) \ c[i].maybe_undef
          /\ now.kill = (prev.kill \cup c[i].maybe_undef) \ c[i].maybe_write
      BY <3>2
    <3>4. QED  BY <3>3 DEF prev, now
  <2>2. h[b-1] = [gen |-> {}, kill |-> {}]
    BY <1>12
  <2> HIDE DEF After, nothing, F
  <2>3. QED  BY <1>15, <2>1, <2>2 DEF GenKills, l
<1>17. QED  BY <1>2, <1>16 DEF l

\* What a block defines and undefines are registers.
LEMMA GenKillType ==
    ASSUME NEW c, IsProgram(c), NEW b \in recompute_blocks(c)
    PROVE  GenKill(c, b).gen \in SUBSET Reg /\ GenKill(c, b).kill \in SUBSET Reg
<1>1. CASE b = Exit(c)
  <2>1. GenKill(c, b) = [gen |-> {}, kill |-> {}]
    BY <1>1 DEF GenKill
  <2>2. QED  BY <2>1
<1>2. CASE b # Exit(c)
  <2>1. PICK gk : GenKills(c, b, gk) /\ GenKill(c, b) = gk[LastOf(c, b)]
    BY <1>2, GenKillTable
  <2>2. LastOf(c, b) \in (b-1)..LastOf(c, b)
    BY <1>2, BlockEnds
  <2>3. gk[LastOf(c, b)] \in Effect
    BY <2>1, <2>2 DEF GenKills
  <2>4. QED  BY <2>1, <2>3 DEF Effect
<1>3. QED  BY <1>1, <1>2

\* What is defined on entry to a block grows with what is defined out of the others.
LEMMA MeetInsMonotone ==
    ASSUME NEW edges, NEW X, NEW Y, X \subseteq Y, NEW b
    PROVE  MeetIns(edges, X, b) \subseteq MeetIns(edges, Y, b)
  BY DEF MeetIns

\* The sweeps of recompute_defs() end at a fixed point.
LEMMA DefOutsFixpoint ==
    ASSUME NEW c, IsProgram(c)
    PROVE  DefStep(c)[DefOuts(c)] = DefOuts(c) /\ DefOuts(c) \in SUBSET DefTop(c)
<1> DEFINE blocks == DefBlocks(c)
           edges == ReachableEdges(c)
           kept == DefAtEntry
           D == DefTop(c)
           step == DefStep(c)
           n == Cardinality(blocks) * Cardinality(Reg)
           gen == UNION {{<<b, r>> : r \in GenKill(c, b).gen} : b \in blocks}
           kill == UNION {{<<b, r>> : r \in GenKill(c, b).kill} : b \in blocks}
           Met(outs) == UNION {{<<b, r>> : r \in MeetIns(edges, outs, b)} : b \in blocks}
<1>1. /\ blocks \in SUBSET recompute_blocks(c)
      /\ \A b \in blocks : b # Entry
      /\ IsFiniteSet(blocks)
  <2>1. /\ recompute_reachable(c) \in SUBSET (recompute_blocks(c) \cup {Entry})
        /\ IsFiniteSet(recompute_reachable(c))
    BY ReachableClosed
  <2>2. blocks \in SUBSET recompute_reachable(c)
    BY DEF DefBlocks
  <2>3. IsFiniteSet(blocks)
    BY <2>1, <2>2, FS_Subset
  <2>4. QED  BY <2>1, <2>3 DEF DefBlocks
<1>2. step = [outs \in SUBSET D |-> kept \cup gen \cup (Met(outs) \ kill)]
  BY DEF DefStep
<1>3. gen \in SUBSET (blocks \X Reg)
  <2>1. \A b \in blocks : GenKill(c, b).gen \in SUBSET Reg
    BY <1>1, GenKillType
  <2> HIDE DEF blocks
  <2>2. QED  BY <2>1
<1>4. D = kept \cup (blocks \X Reg)
  BY DEF DefTop
<1> HIDE DEF gen, kill, blocks, D
<1>5. \A outs : Met(outs) \in SUBSET (blocks \X Reg)
  BY DEF MeetIns
<1>6. \A X, Y \in SUBSET D : X \subseteq Y => Met(X) \subseteq Met(Y)
  <2> SUFFICES ASSUME NEW X \in SUBSET D, NEW Y \in SUBSET D, X \subseteq Y
               PROVE  Met(X) \subseteq Met(Y)
    OBVIOUS
  <2>1. \A b \in blocks : MeetIns(edges, X, b) \subseteq MeetIns(edges, Y, b)
    BY MeetInsMonotone
  <2> HIDE DEF edges
  <2>2. QED  BY <2>1
<1> HIDE DEF Met
<1>7. step \in [SUBSET D -> SUBSET D]
  BY <1>2, <1>3, <1>4, <1>5
<1>8. Monotone(step, D)
  BY <1>2, <1>6 DEF Monotone
<1>9. kept \in SUBSET D /\ \A X \in SUBSET D : kept \subseteq step[X]
  BY <1>2, <1>4
<1>10. D \ kept = blocks \X Reg
  BY <1>1, <1>4 DEF DefAtEntry
<1>11. /\ IsFiniteSet(blocks \X Reg) /\ n \in Nat /\ Cardinality(blocks \X Reg) = n
  <2>1. IsFiniteSet(Reg)
    BY RegAssumption
  <2>2. IsFiniteSet(blocks \X Reg) /\ Cardinality(blocks \X Reg) = n
    BY <1>1, <2>1, FS_Product
  <2>3. Cardinality(blocks \X Reg) \in Nat
    BY <2>2, FS_CardinalityType
  <2>4. QED  BY <2>2, <2>3
<1>12. IsFiniteSet(D \ kept) /\ Cardinality(D \ kept) <= n
  <2> HIDE DEF n, kept
  <2>1. QED  BY <1>10, <1>11
<1> DEFINE outs == DefOuts(c)
<1>13. outs = Rounds(step, D, n)
  BY DEF DefOuts, blocks, D
<1>14. step[outs] = outs /\ outs \in SUBSET D
  <2> HIDE DEF step, kept, n, outs
  <2>1. QED  BY <1>7, <1>8, <1>9, <1>11, <1>12, <1>13, ShrinksToFixpoint, SMTT(30)
<1>15. QED  BY <1>14 DEF D

\* What def_outs_ has of a block was defined in it, or on entry to it and not killed.
LEMMA DefOutsHas ==
    ASSUME NEW c, IsProgram(c)
    PROVE  /\ \A r : <<Entry, r>> \in DefOuts(c) => r \in DefIns
           /\ \A b \in DefBlocks(c) : \A r : <<b, r>> \in DefOuts(c) =>
                \/ r \in GenKill(c, b).gen
                \/ /\ r \in MeetIns(ReachableEdges(c), DefOuts(c), b)
                   /\ r \notin GenKill(c, b).kill
<1> DEFINE blocks == DefBlocks(c)
           edges == ReachableEdges(c)
           O == DefOuts(c)
           gen == UNION {{<<b, r>> : r \in GenKill(c, b).gen} : b \in blocks}
           kill == UNION {{<<b, r>> : r \in GenKill(c, b).kill} : b \in blocks}
           met == UNION {{<<b, r>> : r \in MeetIns(edges, O, b)} : b \in blocks}
<1>1. DefStep(c)[O] = O /\ O \in SUBSET DefTop(c)
  BY DefOutsFixpoint
<1>2. DefStep(c)[O] = DefAtEntry \cup gen \cup (met \ kill)
  BY <1>1 DEF DefStep
<1>3. Entry \notin blocks
  BY DEF DefBlocks
<1> HIDE DEF O, edges, blocks
<1>4. O = DefAtEntry \cup gen \cup (met \ kill)
  BY <1>1, <1>2
<1>5. \A r : <<Entry, r>> \in O => r \in DefIns
  <2>1. \A r : <<Entry, r>> \notin gen /\ <<Entry, r>> \notin met
    BY <1>3
  <2>2. \A r : <<Entry, r>> \in DefAtEntry => r \in DefIns
    BY DEF DefAtEntry
  <2> HIDE DEF gen, met, kill
  <2>3. QED  BY <1>4, <2>1, <2>2
<1>6. ASSUME NEW b \in blocks, NEW r, <<b, r>> \in O
      PROVE  r \in GenKill(c, b).gen \/ (r \in MeetIns(edges, O, b) /\ r \notin GenKill(c, b).kill)
  <2>1. <<b, r>> \notin DefAtEntry
    BY <1>3 DEF DefAtEntry
  <2>2. <<b, r>> \in gen => r \in GenKill(c, b).gen
    OBVIOUS
  <2>3. <<b, r>> \in met => r \in MeetIns(edges, O, b)
    OBVIOUS
  <2>4. r \in GenKill(c, b).kill => <<b, r>> \in kill
    OBVIOUS
  <2> HIDE DEF gen, met, kill
  <2>5. QED  BY <1>4, <1>6, <2>1, <2>2, <2>3, <2>4
<1>7. QED  BY <1>5, <1>6 DEF O, edges, blocks

-----------------------------------------------------------------------------
(* Definitions: from instruction to instruction *)

\* What is certainly defined behind an instruction, given what is defined before it
DefAfter(instr, before) == (before \cup instr.must_write) \ instr.maybe_undef

\* def_ins_, instruction by instruction
LEMMA DefsTable ==
    ASSUME NEW c, IsProgram(c), NEW i \in 1..(Len(c) + 1)
    PROVE  recompute_defs(c)[i] =
             IF i \in recompute_blocks(c)
             THEN IF i \in recompute_reachable(c)
                  THEN MeetIns(ReachableEdges(c), DefOuts(c), i) ELSE {}
             ELSE DefAfter(c[i-1], recompute_defs(c)[i-1])
<1> DEFINE n == Len(c) + 1
           edges == ReachableEdges(c)
           outs == DefOuts(c)
           reach == recompute_reachable(c)
           blocks == recompute_blocks(c)
           At(j, prev) == IF j \in blocks
                          THEN (IF j \in reach THEN MeetIns(edges, outs, j) ELSE {})
                          ELSE (prev \cup c[j-1].must_write) \ c[j-1].maybe_undef
           F(f) == [j \in 1..n |-> At(j, f[j-1])]
           h == CHOOSE f : f = F(f)
           start == At(1, {})
           step == [p \in ((1+1)..n) \X SUBSET Reg |-> At(p[1], p[2])]
<1>1. n \in Nat \ {0} /\ 1 \in 1..n /\ 1 <= n /\ n \in Int
  BY DEF IsProgram
<1>2. recompute_defs(c) = h
  BY DEF recompute_defs
<1>3. 1 \in blocks
  BY BlocksType
<1>4. \A x : At(1, x) = start
  BY <1>3
<1>5. \A j \in 1..n : \A prev \in SUBSET Reg : At(j, prev) \in SUBSET Reg
  <2> SUFFICES ASSUME NEW j \in 1..n, NEW prev \in SUBSET Reg PROVE At(j, prev) \in SUBSET Reg
    OBVIOUS
  <2>1. MeetIns(edges, outs, j) \in SUBSET Reg
    BY DEF MeetIns
  <2>2. CASE j \in blocks
    BY <2>1, <2>2
  <2>3. CASE j \notin blocks
    <3>1. j # 1
      BY <1>3, <2>3
    <3>2. j - 1 \in 1..Len(c)
      BY <1>1, <3>1
    <3>3. c[j-1].must_write \in SUBSET Reg
      BY <3>2 DEF IsProgram, WellFormed
    <3>4. QED  BY <2>3, <3>3
  <2>4. QED  BY <2>2, <2>3
<1> HIDE DEF At, n
<1>6. step \in [((1+1)..n) \X SUBSET Reg -> SUBSET Reg]
  <2>1. \A k \in (1+1)..n : k \in 1..n
    BY <1>1
  <2>2. QED  BY <1>5, <2>1
<1>7. start \in SUBSET Reg
  BY <1>1, <1>5
<1>8. PICK f : RecursiveFrom(f, 1, n, SUBSET Reg, start, step)
  <2> DEFINE m == 1
  <2> HIDE DEF step, start
  <2>1. m \in Int /\ m <= n /\ step \in [((m+1)..n) \X SUBSET Reg -> SUBSET Reg]
    BY <1>1, <1>6
  <2> HIDE DEF m
  <2>2. \E f : RecursiveFrom(f, m, n, SUBSET Reg, start, step)
    BY <1>1, <1>7, <2>1, RecursionFrom
  <2>3. QED  BY <2>2 DEF m
<1>9. f = F(f)
  <2>1. f \in [1..n -> SUBSET Reg] /\ f[1] = start
    BY <1>8 DEF RecursiveFrom
  <2>2. ASSUME NEW k \in 1..n PROVE f[k] = At(k, f[k-1])
    <3>1. CASE k = 1
      <4>1. f[k] = start
        BY <2>1, <3>1
      <4> HIDE DEF start
      <4>2. QED  BY <1>4, <3>1, <4>1
    <3>2. CASE k # 1
      <4>1. k \in (1+1)..n /\ k - 1 \in 1..n
        BY <1>1, <3>2
      <4>2. f[k-1] \in SUBSET Reg
        BY <2>1, <4>1
      <4>3. step[<<k, f[k-1]>>] = At(k, f[k-1])
        BY <4>1, <4>2
      <4>4. QED
        <5> HIDE DEF step
        <5>1. QED  BY <1>8, <4>1, <4>3 DEF RecursiveFrom
    <3>3. QED  BY <3>1, <3>2
  <2>3. QED  BY <2>1, <2>2
<1>10. h = F(h)
  <2> HIDE DEF F
  <2>1. QED  BY <1>9
<1> HIDE DEF h
<1>11. i \in 1..n
  BY DEF n
<1>12. h[i] = At(i, h[i-1])
  BY <1>10, <1>11
<1>13. recompute_defs(c)[i] = At(i, recompute_defs(c)[i-1])
  BY <1>2, <1>12
<1>14. CASE i \in blocks
  BY <1>13, <1>14 DEF At
<1>15. CASE i \notin blocks
  BY <1>13, <1>15 DEF At, DefAfter
<1>16. QED  BY <1>14, <1>15

\* The summary of a block agrees with its instructions: what def_outs_ has of it is
\* defined behind its last instruction.
LEMMA SummaryDefines ==
    ASSUME NEW c, IsProgram(c), UndefsOverwritten(c),
           NEW b \in recompute_blocks(c), b # Exit(c), b \in recompute_reachable(c),
           NEW r, <<b, r>> \in DefOuts(c)
    PROVE  r \in DefAfter(c[LastOf(c, b)], recompute_defs(c)[LastOf(c, b)])
<1> DEFINE l == LastOf(c, b)
           def == recompute_defs(c)
           met == MeetIns(ReachableEdges(c), DefOuts(c), b)
           undefs == UNION {c[i].maybe_undef : i \in 1..Len(c)}
<1>1. /\ b \in 1..Len(c) /\ l \in b..Len(c) /\ Len(c) \in Nat
      /\ \A j \in (b+1)..l : j \notin recompute_blocks(c)
  BY BlockEnds DEF IsProgram
<1>2. PICK gk : GenKills(c, b, gk) /\ GenKill(c, b) = gk[l]
  BY GenKillTable
<1>3. def[b] = met
  <2>1. b \in 1..(Len(c) + 1)
    BY <1>1
  <2>2. QED  BY <2>1, DefsTable
<1>4. ASSUME NEW j \in (b+1)..l PROVE def[j] = DefAfter(c[j-1], def[j-1])
  <2>1. j \in 1..(Len(c) + 1) /\ j \notin recompute_blocks(c)
    BY <1>1
  <2>2. QED  BY <2>1, DefsTable
<1>5. b \in DefBlocks(c)
  BY EntryApart DEF DefBlocks
<1>6. r \in gk[l].gen \/ (r \in met /\ r \notin gk[l].kill)
  BY <1>2, <1>5, DefOutsHas
<1>7. \A i \in b..l :
        /\ gk[i].gen = (gk[i-1].gen \cup c[i].must_write) \ c[i].maybe_undef
        /\ gk[i].kill = (gk[i-1].kill \cup c[i].maybe_undef) \ c[i].maybe_write
  BY <1>2 DEF GenKills
<1>8. gk[b-1].gen = {} /\ gk[b-1].kill = {}
  BY <1>2 DEF GenKills
<1>9. ASSUME NEW i \in b..l
      PROVE  /\ c[i].maybe_undef \subseteq undefs
             /\ undefs \cap c[i].maybe_write \subseteq c[i].must_write \ c[i].maybe_undef
  <2>1. i \in 1..Len(c)
    BY <1>1
  <2>2. \A k \in 1..Len(c) :
          c[k].maybe_undef \cap c[i].maybe_write \subseteq c[i].must_write \ c[i].maybe_undef
    BY <2>1 DEF UndefsOverwritten
  <2>3. QED  BY <2>1, <2>2
<1> HIDE DEF l, def, met, undefs
<1> DEFINE T == {i \in b..l : /\ gk[i].gen \subseteq DefAfter(c[i], def[i])
                              /\ gk[i].kill \subseteq undefs
                              /\ met \ gk[i].kill \subseteq DefAfter(c[i], def[i])}
<1>10. b \in T
  <2>1. b \in b..l
    BY <1>1
  <2> DEFINE none == gk[b-1]
  <2>2. none.gen = {} /\ none.kill = {}
    BY <1>8
  <2>3. /\ gk[b].gen = (none.gen \cup c[b].must_write) \ c[b].maybe_undef
        /\ gk[b].kill = (none.kill \cup c[b].maybe_undef) \ c[b].maybe_write
    BY <1>7, <2>1
  <2>4. /\ c[b].maybe_undef \subseteq undefs
        /\ undefs \cap c[b].maybe_write \subseteq c[b].must_write \ c[b].maybe_undef
    BY <1>9, <2>1
  <2> HIDE DEF none
  <2>5. gk[b].gen \subseteq DefAfter(c[b], def[b])
    BY <2>2, <2>3 DEF DefAfter
  <2>6. gk[b].kill \subseteq undefs
    BY <2>2, <2>3, <2>4
  <2>7. met \ gk[b].kill \subseteq DefAfter(c[b], def[b])
    BY <1>3, <2>2, <2>3, <2>4 DEF DefAfter
  <2>8. QED  BY <2>1, <2>5, <2>6, <2>7
<1>11. \A i \in b..(l-1) : i \in T => i + 1 \in T
  <2> SUFFICES ASSUME NEW i \in b..(l-1), i \in T PROVE i + 1 \in T
    OBVIOUS
  <2> DEFINE j == i + 1
  <2>1. j \in b..l /\ j \in (b+1)..l /\ j - 1 = i
    BY <1>1
  <2>2. def[j] = DefAfter(c[i], def[i])
    BY <1>4, <2>1
  <2>3. /\ gk[j].gen = (gk[i].gen \cup c[j].must_write) \ c[j].maybe_undef
        /\ gk[j].kill = (gk[i].kill \cup c[j].maybe_undef) \ c[j].maybe_write
    BY <1>7, <2>1
  <2>4. /\ c[j].maybe_undef \subseteq undefs
        /\ undefs \cap c[j].maybe_write \subseteq c[j].must_write \ c[j].maybe_undef
    BY <1>9, <2>1
  <2>5. /\ gk[i].gen \subseteq def[j]
        /\ gk[i].kill \subseteq undefs
        /\ met \ gk[i].kill \subseteq def[j]
    BY <2>2
  <2> HIDE DEF j
  <2>6. gk[j].gen \subseteq DefAfter(c[j], def[j])
    BY <2>3, <2>5 DEF DefAfter
  <2>7. gk[j].kill \subseteq undefs
    BY <2>3, <2>4, <2>5
  <2>8. met \ gk[j].kill \subseteq DefAfter(c[j], def[j])
    BY <2>3, <2>4, <2>5 DEF DefAfter
  <2>9. j \in T
    BY <2>1, <2>6, <2>7, <2>8
  <2>10. QED  BY <2>9 DEF j
<1>12. l \in T
  <2>1. b \in Int /\ l \in Int /\ l \in b..l
    BY <1>1
  <2> HIDE DEF T
  <2>2. QED  BY <1>10, <1>11, <2>1, Induction
<1>13. QED  BY <1>6, <1>12 DEF l, def

-----------------------------------------------------------------------------
(* From instruction to instruction *)

\* Where the analyses let control go from instruction i
Flow(c, i) ==
    CASE c[i].kind = "ret"  -> {Exit(c)}
      [] c[i].kind = "jmp"  -> {Dest(c, c[i].label)}
      [] c[i].kind = "ijmp" -> {Exit(c)}
      [] c[i].kind = "jcc"  -> {i + 1, Dest(c, c[i].label)}
      [] OTHER              -> {i + 1}

\* An instruction of a reachable block, or the exit if it is reachable
Reached(c, i) == BlockOf(c, i) \in recompute_reachable(c)

\* Inside a block control goes on to the next instruction, behind it to the successors.
LEMMA FlowIs ==
    ASSUME NEW c, IsProgram(c), NEW i \in 1..Len(c)
    PROVE  /\ Flow(c, i) \subseteq 1..Exit(c)
           /\ i + 1 \notin recompute_blocks(c) =>
                /\ Flow(c, i) = {i + 1}
                /\ i + 1 \in 1..Len(c)
                /\ BlockOf(c, i+1) = BlockOf(c, i)
                /\ i # LastOf(c, BlockOf(c, i))
           /\ i + 1 \in recompute_blocks(c) =>
                /\ Flow(c, i) = recompute_succs(c, BlockOf(c, i))
                /\ i = LastOf(c, BlockOf(c, i))
<1> DEFINE b == BlockOf(c, i)
           l == LastOf(c, b)
<1>0. Len(c) \in Nat /\ Exit(c) = Len(c) + 1
  BY DEF IsProgram, Exit
<1>1. b \in recompute_blocks(c) /\ b # Exit(c) /\ i \in b..l
      /\ (i = l <=> i + 1 \in recompute_blocks(c))
  BY InBlock
<1>2. /\ b \in 1..Len(c) /\ l \in b..Len(c) /\ NextBlock(c, b) = l + 1
      /\ \A j \in b..l : BlockOf(c, j) = b
  BY <1>1, BlockEnds
<1>3. Flow(c, i) \subseteq 1..Exit(c)
  <2>1. \A m : Dest(c, m) \in 1..Exit(c)
    BY <1>0, DestIsBlock, BlocksType
  <2>2. QED  BY <1>0, <2>1 DEF Flow
<1>4. b # Entry
  BY <1>1, EntryApart
<1> HIDE DEF b, l
<1>5. ASSUME i + 1 \notin recompute_blocks(c)
      PROVE  /\ Flow(c, i) = {i + 1} /\ i + 1 \in 1..Len(c)
             /\ BlockOf(c, i+1) = b /\ i # l
  <2>1. ~is_jump(c[i]) /\ ~is_return(c[i])
    BY <1>5, InsidePlain
  <2>2. Flow(c, i) = {i + 1}
    BY <2>1 DEF Flow, is_jump, is_return
  <2>3. i + 1 \in b..l /\ i + 1 \in 1..Len(c)
    BY <1>0, <1>1, <1>2, <1>5
  <2>4. QED  BY <1>1, <1>2, <1>5, <2>2, <2>3
<1>6. ASSUME i + 1 \in recompute_blocks(c)
      PROVE  Flow(c, i) = recompute_succs(c, b) /\ i = l
  <2>1. i = l
    BY <1>1, <1>6
  <2>2. i = LastOf(c, b) /\ NextBlock(c, b) = i + 1
    BY <1>2, <2>1 DEF l
  <2>3. QED  BY <1>1, <1>4, <2>1, <2>2 DEF Flow, recompute_succs
<1>7. QED  BY <1>3, <1>5, <1>6 DEF b, l

\* The first instruction is reached, and where control goes from what is reached.
LEMMA FlowReached ==
    ASSUME NEW c, IsProgram(c)
    PROVE  /\ Reached(c, 1)
           /\ \A i \in 1..Len(c) : Reached(c, i) => \A s \in Flow(c, i) : Reached(c, s)
<1>1. Reached(c, 1)
  BY BlocksType, BlockOfFirst, FirstReachable DEF Reached
<1>2. ASSUME NEW i \in 1..Len(c), Reached(c, i), NEW s \in Flow(c, i) PROVE Reached(c, s)
  <2>1. CASE i + 1 \notin recompute_blocks(c)
    BY <1>2, <2>1, FlowIs DEF Reached
  <2>2. CASE i + 1 \in recompute_blocks(c)
    <3>1. s \in recompute_succs(c, BlockOf(c, i))
      BY <2>2, FlowIs
    <3>2. s \in recompute_reachable(c) /\ s \in recompute_blocks(c)
      BY <1>2, <3>1, ReachableSuccs DEF Reached
    <3>3. QED  BY <3>2, BlockOfFirst DEF Reached
  <2>3. QED  BY <2>1, <2>2
<1>3. QED  BY <1>1, <1>2

\* What goes with control from every instruction to the next reaches the end of the block.
LEMMA ThroughBlock ==
    ASSUME NEW c, IsProgram(c), NEW b \in recompute_blocks(c), b # Exit(c),
           NEW S, b \in S, \A j \in b..(LastOf(c, b) - 1) : j \in S => j + 1 \in S
    PROVE  \A j \in b..LastOf(c, b) : j \in S
<1> DEFINE l == LastOf(c, b)
<1>1. b \in Int /\ l \in Int
  BY BlockEnds DEF IsProgram
<1> HIDE DEF l
<1>2. \A j \in b..l : j \in S
  <2>1. \A j \in b..(l - 1) : j \in S => j + 1 \in S
    BY DEF l
  <2>2. QED  BY <1>1, <2>1, Induction
<1>3. QED  BY <1>2 DEF l

\* The instructions of a reachable block, and the edges out of it
LEMMA InReachable ==
    ASSUME NEW c, IsProgram(c), NEW b \in recompute_reachable(c), b # Entry, b # Exit(c)
    PROVE  /\ b \in recompute_blocks(c)
           /\ b \in 1..Len(c) /\ LastOf(c, b) \in b..Len(c)
           /\ \A j \in b..LastOf(c, b) : j \in 1..Len(c) /\ BlockOf(c, j) = b /\ Reached(c, j)
           /\ \A j \in b..(LastOf(c, b) - 1) :
                /\ j + 1 \in b..LastOf(c, b)
                /\ j + 1 \notin recompute_blocks(c)
                /\ Flow(c, j) = {j + 1}
           /\ Flow(c, LastOf(c, b)) = recompute_succs(c, b)
<1> DEFINE l == LastOf(c, b)
<1>1. b \in recompute_blocks(c)
  BY ReachableClosed
<1>2. /\ b \in 1..Len(c) /\ l \in b..Len(c) /\ Len(c) \in Nat /\ NextBlock(c, b) = l + 1
      /\ l + 1 \in recompute_blocks(c)
      /\ \A j \in (b+1)..l : j \notin recompute_blocks(c)
      /\ \A j \in b..l : BlockOf(c, j) = b
  BY <1>1, BlockEnds DEF IsProgram
<1> HIDE DEF l
<1>3. \A j \in b..l : j \in 1..Len(c) /\ BlockOf(c, j) = b /\ Reached(c, j)
  BY <1>2 DEF Reached
<1>4. ASSUME NEW j \in b..(l - 1)
      PROVE  j + 1 \in b..l /\ j + 1 \notin recompute_blocks(c) /\ Flow(c, j) = {j + 1}
  <2>1. j \in 1..Len(c) /\ j + 1 \in b..l /\ j + 1 \in (b+1)..l
    BY <1>2
  <2>2. j + 1 \notin recompute_blocks(c)
    BY <1>2, <2>1
  <2>3. QED  BY <2>1, <2>2, FlowIs
<1>5. Flow(c, l) = recompute_succs(c, b)
  <2>1. l \in 1..Len(c) /\ BlockOf(c, l) = b
    BY <1>2
  <2>2. QED  BY <1>2, <2>1, FlowIs
<1>6. QED  BY <1>1, <1>2, <1>3, <1>4, <1>5 DEF l

\* An edge leads from the entry to the first instruction, or from the last instruction of
\* a block to where control goes from there.
LEMMA EdgeIs ==
    ASSUME NEW c, IsProgram(c), NEW e \in Edges(c), e[1] \in recompute_reachable(c)
    PROVE  /\ e[2] \in recompute_reachable(c) /\ e[2] \in recompute_blocks(c)
           /\ e = <<e[1], e[2]>>
           /\ \/ e[1] = Entry /\ e[2] = 1
              \/ /\ e[1] # Entry /\ e[1] # Exit(c)
                 /\ e[2] \in Flow(c, LastOf(c, e[1]))
<1>1. PICK b \in recompute_blocks(c) \cup {Entry} : \E s \in recompute_succs(c, b) : e = <<b, s>>
  BY DEF Edges
<1>2. PICK s \in recompute_succs(c, b) : e = <<b, s>>
  BY <1>1
<1>3. s \in recompute_reachable(c) /\ s \in recompute_blocks(c)
  BY <1>2, ReachableSuccs
<1>4. b # Exit(c)
  BY <1>2 DEF recompute_succs
<1>5. CASE b = Entry
  BY <1>2, <1>3, <1>4, <1>5 DEF recompute_succs
<1>6. CASE b # Entry
  <2>1. Flow(c, LastOf(c, b)) = recompute_succs(c, b)
    BY <1>2, <1>4, <1>6, InReachable
  <2>2. QED  BY <1>2, <1>3, <1>4, <1>6, <2>1
<1>7. QED  BY <1>5, <1>6

\* A reached instruction lies in a reachable block; the exit is a block of its own.
LEMMA ReachedBlock ==
    ASSUME NEW c, IsProgram(c), NEW i \in 1..Exit(c), Reached(c, i)
    PROVE  /\ i = Exit(c) => i \in recompute_reachable(c) /\ i \in recompute_blocks(c)
           /\ i # Exit(c) =>
                /\ i \in 1..Len(c)
                /\ BlockOf(c, i) \in recompute_reachable(c)
                /\ BlockOf(c, i) # Entry /\ BlockOf(c, i) # Exit(c)
                /\ i \in BlockOf(c, i)..LastOf(c, BlockOf(c, i))
<1>1. Len(c) \in Nat /\ Exit(c) = Len(c) + 1 /\ Exit(c) \in recompute_blocks(c)
  BY BlocksType DEF IsProgram
<1>2. CASE i = Exit(c)
  BY <1>1, <1>2, BlockOfFirst DEF Reached
<1>3. CASE i # Exit(c)
  <2>1. i \in 1..Len(c)
    BY <1>1, <1>3
  <2>2. BlockOf(c, i) \in recompute_blocks(c) /\ BlockOf(c, i) # Exit(c)
        /\ i \in BlockOf(c, i)..LastOf(c, BlockOf(c, i))
    BY <2>1, InBlock
  <2>3. QED  BY <1>3, <2>1, <2>2, EntryApart DEF Reached
<1>4. QED  BY <1>2, <1>3

\* What is reached is all there is to reach: a set that has the first instruction, and
\* follows control from what is reached, has all of it.
LEMMA ReachedLeast ==
    ASSUME NEW c, IsProgram(c), NEW S, 1 \in S,
           \A i \in 1..Len(c) : i \in S /\ Reached(c, i) => Flow(c, i) \subseteq S
    PROVE  \A i \in 1..Exit(c) : Reached(c, i) => i \in S
<1> DEFINE B == recompute_blocks(c)
           D == B \cup {Entry}
           R == recompute_reachable(c)
           step == ReachStep(c)
           start == {Entry}
           n == Cardinality(B)
<1>1. Edges(c) \in SUBSET (D \X B)
  BY EdgesAre
<1>2. step = [reach \in SUBSET D |-> reach \cup {e[2] : e \in {d \in Edges(c) : d[1] \in reach}}]
  BY DEF ReachStep
<1>3. step \in [SUBSET D -> SUBSET D] /\ start \in SUBSET D
  BY <1>1, <1>2
<1>4. n \in Nat
  BY BlocksType, FS_CardinalityType
<1>5. R = Rounds(step, start, n)
  BY DEF recompute_reachable
<1>6. PICK f : Goes(f, step, start, n, D) /\ R = f[n]
  <2> HIDE DEF step, start, n, D, R
  <2>1. QED  BY <1>3, <1>4, <1>5, RoundsGo
<1>7. \A b \in R : b # Entry /\ b # Exit(c) /\ b \in S => \A j \in b..LastOf(c, b) : j \in S
  <2> SUFFICES ASSUME NEW b \in R, b # Entry, b # Exit(c), b \in S
               PROVE  \A j \in b..LastOf(c, b) : j \in S
    OBVIOUS
  <2>1. b \in B
    BY InReachable
  <2>2. ASSUME NEW j \in b..(LastOf(c, b) - 1), j \in S PROVE j + 1 \in S
    <3>0. b \in 1..Len(c) /\ LastOf(c, b) \in b..Len(c)
      BY InReachable
    <3>1. j \in b..LastOf(c, b)
      BY <3>0 DEF IsProgram
    <3>2. j \in 1..Len(c) /\ Reached(c, j) /\ Flow(c, j) = {j + 1}
      BY <3>1, InReachable
    <3>3. QED  BY <2>2, <3>2
  <2>3. QED  BY <2>1, <2>2, ThroughBlock
<1> DEFINE T == {k \in 0..n : \A b \in f[k] : b = Entry \/ (b \in S /\ b \in R)}
<1>8. \A k \in 0..n : k \in T
  <2>1. 0 \in T
    BY <1>4, <1>6 DEF Goes
  <2>2. \A k \in 0..(n-1) : k \in T => k + 1 \in T
    <3> SUFFICES ASSUME NEW k \in 0..(n-1), k \in T, NEW s \in f[k+1]
                 PROVE  s = Entry \/ (s \in S /\ s \in R)
      BY <1>4
    <3>1. k + 1 \in 1..n /\ (k + 1) - 1 = k /\ k \in 0..n
      BY <1>4
    <3>2. f[k+1] = step[f[k]] /\ f[k] \in SUBSET D
      BY <1>6, <3>1 DEF Goes
    <3>3. f[k+1] = f[k] \cup {e[2] : e \in {d \in Edges(c) : d[1] \in f[k]}}
      BY <1>2, <3>2
    <3>4. CASE s \in f[k]
      BY <3>4
    <3>5. CASE s \notin f[k]
      <4>1. PICK e \in Edges(c) : e[1] \in f[k] /\ s = e[2]
        BY <3>3, <3>5
      <4>2. e[1] \in R /\ (e[1] = Entry \/ e[1] \in S)
        <5>1. Entry \in R
          BY ReachableClosed
        <5>2. QED  BY <4>1, <5>1
      <4>3. CASE e[1] = Entry
        <5>1. s = 1 /\ s \in R
          BY <4>1, <4>2, <4>3, EdgeIs
        <5>2. QED  BY <5>1
      <4>4. CASE e[1] # Entry
        <5>1. s \in R /\ e[1] # Exit(c) /\ s \in Flow(c, LastOf(c, e[1]))
          BY <4>1, <4>2, <4>4, EdgeIs
        <5>2. LastOf(c, e[1]) \in e[1]..LastOf(c, e[1]) /\ LastOf(c, e[1]) \in 1..Len(c)
              /\ Reached(c, LastOf(c, e[1]))
          <6>1. LastOf(c, e[1]) \in e[1]..Len(c) /\ e[1] \in 1..Len(c)
            BY <4>2, <4>4, <5>1, InReachable
          <6>2. LastOf(c, e[1]) \in e[1]..LastOf(c, e[1])
            BY <6>1 DEF IsProgram
          <6>3. QED  BY <4>2, <4>4, <5>1, <6>2, InReachable
        <5>3. LastOf(c, e[1]) \in S
          BY <1>7, <4>2, <4>4, <5>1, <5>2
        <5>4. QED  BY <5>1, <5>2, <5>3
      <4>5. QED  BY <4>3, <4>4
    <3>6. QED  BY <3>4, <3>5
  <2> HIDE DEF T, n
  <2>3. QED  BY <1>4, <2>1, <2>2, InductionFromZero
<1>9. \A b \in R : b = Entry \/ b \in S
  <2>1. n \in T
    BY <1>4, <1>8
  <2>2. QED  BY <1>6, <2>1
<1>10. ASSUME NEW i \in 1..Exit(c), Reached(c, i) PROVE i \in S
  <2>1. CASE i = Exit(c)
    <3>1. i \in R /\ i # Entry
      BY <1>10, <2>1, ReachedBlock, EntryApart
    <3>2. QED  BY <1>9, <3>1
  <2>2. CASE i # Exit(c)
    <3>1. BlockOf(c, i) \in R /\ BlockOf(c, i) # Entry /\ BlockOf(c, i) # Exit(c)
          /\ i \in BlockOf(c, i)..LastOf(c, BlockOf(c, i))
      BY <1>10, <2>2, ReachedBlock
    <3>2. QED  BY <1>7, <1>9, <3>1
  <2>3. QED  BY <2>1, <2>2
<1>11. QED  BY <1>10

\* def_ins_ follows control: nothing is defined but the inputs of the function and what
\* the instructions on the way define.
LEMMA DefsFlow ==
    ASSUME NEW c, IsProgram(c), UndefsOverwritten(c)
    PROVE  /\ recompute_defs(c)[1] \subseteq DefIns
           /\ \A i \in 1..Len(c) : Reached(c, i) =>
                \A s \in Flow(c, i) :
                  recompute_defs(c)[s] \subseteq DefAfter(c[i], recompute_defs(c)[i])
<1> DEFINE def == recompute_defs(c)
           E == ReachableEdges(c)
<1>0. Len(c) \in Nat /\ Exit(c) = Len(c) + 1
  BY DEF IsProgram, Exit
<1>1. def[1] \subseteq DefIns
  <2>1. 1 \in recompute_blocks(c) /\ 1 \in recompute_reachable(c) /\ <<Entry, 1>> \in E
        /\ 1 \in 1..(Len(c) + 1)
    BY <1>0, BlocksType, FirstReachable
  <2>2. def[1] = MeetIns(E, DefOuts(c), 1)
    BY <2>1, DefsTable
  <2>3. ASSUME NEW r \in def[1] PROVE r \in DefIns
    <3>1. <<Entry, r>> \in DefOuts(c)
      BY <2>1, <2>2 DEF MeetIns
    <3>2. QED  BY <3>1, DefOutsHas
  <2>4. QED  BY <2>3
<1>2. ASSUME NEW i \in 1..Len(c), Reached(c, i), NEW s \in Flow(c, i)
      PROVE  def[s] \subseteq DefAfter(c[i], def[i])
  <2>1. CASE i + 1 \notin recompute_blocks(c)
    <3>1. s = i + 1 /\ s \in 1..(Len(c) + 1) /\ s - 1 = i
      BY <1>0, <2>1, FlowIs
    <3>2. def[s] = DefAfter(c[s-1], def[s-1])
      BY <2>1, <3>1, DefsTable
    <3>3. QED  BY <3>1, <3>2
  <2>2. CASE i + 1 \in recompute_blocks(c)
    <3> DEFINE b == BlockOf(c, i)
    <3>1. s \in recompute_succs(c, b) /\ i = LastOf(c, b)
      BY <2>2, FlowIs
    <3>2. b \in recompute_blocks(c) /\ b # Exit(c) /\ b \in recompute_reachable(c)
      BY <1>2, InBlock DEF Reached
    <3>3. s \in recompute_reachable(c) /\ s \in recompute_blocks(c) /\ <<b, s>> \in E
      BY <3>1, <3>2, ReachableSuccs
    <3>4. s \in 1..(Len(c) + 1)
      BY <3>3, BlocksType
    <3>5. def[s] = MeetIns(E, DefOuts(c), s)
      BY <3>3, <3>4, DefsTable
    <3> HIDE DEF b
    <3>6. ASSUME NEW r \in def[s] PROVE r \in DefAfter(c[i], def[i])
      <4>1. <<b, r>> \in DefOuts(c)
        BY <3>3, <3>5 DEF MeetIns
      <4>2. QED  BY <3>1, <3>2, <4>1, SummaryDefines
    <3>7. QED  BY <3>6
  <2>3. QED  BY <2>1, <2>2
<1>3. QED  BY <1>1, <1>2

\* D claims no more definitions than control carries along.
Carried(c, D) ==
    /\ \A i \in 1..Exit(c) : D[i] \subseteq Reg
    /\ D[1] \subseteq DefIns
    /\ \A i \in 1..Len(c) : Reached(c, i) =>
         \A s \in Flow(c, i) : D[s] \subseteq DefAfter(c[i], D[i])

\* What a block carries to its end, its summary has as defined, or as not killed.
LEMMA SummaryCarries ==
    ASSUME NEW c, IsProgram(c), NEW D, Carried(c, D),
           NEW b \in recompute_reachable(c), b # Entry, b # Exit(c),
           NEW r \in DefAfter(c[LastOf(c, b)], D[LastOf(c, b)])
    PROVE  \/ r \in GenKill(c, b).gen
           \/ r \in D[b] /\ r \notin GenKill(c, b).kill
<1> DEFINE l == LastOf(c, b)
<1>1. /\ b \in recompute_blocks(c) /\ b \in 1..Len(c) /\ l \in b..Len(c) /\ Len(c) \in Nat
      /\ \A j \in b..l : j \in 1..Len(c) /\ Reached(c, j)
      /\ \A j \in b..(l - 1) : j + 1 \in b..l /\ Flow(c, j) = {j + 1}
  BY InReachable DEF IsProgram
<1>2. PICK gk : GenKills(c, b, gk) /\ GenKill(c, b) = gk[l]
  BY <1>1, GenKillTable
<1> HIDE DEF l
<1> DEFINE Has(j, q) == q \in gk[j].gen \/ (q \in D[b] /\ q \notin gk[j].kill)
           T == {j \in b..l : \A q \in DefAfter(c[j], D[j]) : Has(j, q)}
<1>3. gk[b-1] = [gen |-> {}, kill |-> {}]
      /\ \A j \in b..l :
           /\ gk[j].gen = (gk[j-1].gen \cup c[j].must_write) \ c[j].maybe_undef
           /\ gk[j].kill = (gk[j-1].kill \cup c[j].maybe_undef) \ c[j].maybe_write
  BY <1>2 DEF GenKills, l
<1>4. ASSUME NEW j \in b..l, NEW q \in DefAfter(c[j], D[j]),
             q \in D[j] => Has(j - 1, q)
      PROVE  Has(j, q)
  BY <1>3, <1>4 DEF DefAfter
<1>5. b \in T
  <2>1. b \in b..l
    BY <1>1
  <2>2. \A q \in D[b] : Has(b - 1, q)
    BY <1>3
  <2>3. QED  BY <1>4, <2>1, <2>2
<1>6. \A j \in b..(l - 1) : j \in T => j + 1 \in T
  <2> SUFFICES ASSUME NEW j \in b..(l - 1), j \in T, NEW q \in DefAfter(c[j+1], D[j+1])
               PROVE  Has(j + 1, q)
    BY <1>1
  <2>1. j + 1 \in b..l /\ (j + 1) - 1 = j /\ j \in b..l
    BY <1>1
  <2>2. D[j+1] \subseteq DefAfter(c[j], D[j])
    <3>1. j \in 1..Len(c) /\ Reached(c, j) /\ j + 1 \in Flow(c, j)
      BY <1>1, <2>1
    <3>2. QED  BY <3>1 DEF Carried
  <2>3. q \in D[j+1] => Has(j, q)
    BY <2>2
  <2>4. q \in D[j+1] => Has((j + 1) - 1, q)
    BY <2>1, <2>3
  <2> HIDE DEF Has
  <2>5. QED  BY <1>4, <2>1, <2>4
<1>7. l \in T
  <2>1. l \in b..l /\ b \in Int /\ l \in Int
    BY <1>1
  <2> HIDE DEF T
  <2>2. QED  BY <1>5, <1>6, <2>1, Induction
<1>8. QED  BY <1>2, <1>7 DEF l

\* recompute_defs() finds everything that is defined on every way: it ends at the greatest
\* set that control carries along.
LEMMA DefsGreatest ==
    ASSUME NEW c, IsProgram(c), NEW D, Carried(c, D)
    PROVE  \A i \in 1..Exit(c) : Reached(c, i) => D[i] \subseteq recompute_defs(c)[i]
<1> DEFINE R == recompute_reachable(c)
           E == ReachableEdges(c)
           def == recompute_defs(c)
           blocks == DefBlocks(c)
           Top == DefTop(c)
           step == DefStep(c)
           n == Cardinality(blocks) * Cardinality(Reg)
           gen == UNION {{<<b, r>> : r \in GenKill(c, b).gen} : b \in blocks}
           kill == UNION {{<<b, r>> : r \in GenKill(c, b).kill} : b \in blocks}
           Met(outs) == UNION {{<<b, r>> : r \in MeetIns(E, outs, b)} : b \in blocks}
           At(b) == DefAfter(c[LastOf(c, b)], D[LastOf(c, b)])
           Covers(outs) == /\ \A r \in DefIns : <<Entry, r>> \in outs
                           /\ \A b \in blocks : b # Exit(c) => \A r \in At(b) : <<b, r>> \in outs
<1>0. Len(c) \in Nat /\ Exit(c) = Len(c) + 1
  BY DEF IsProgram, Exit
<1>1. step = [outs \in SUBSET Top |-> DefAtEntry \cup gen \cup (Met(outs) \ kill)]
  BY DEF DefStep
<1>2. /\ \A b \in blocks : b \in R /\ b # Entry /\ b \in recompute_blocks(c) /\ b \in 1..Exit(c)
      /\ IsFiniteSet(blocks)
  <2>1. R \in SUBSET (recompute_blocks(c) \cup {Entry}) /\ IsFiniteSet(R)
    BY ReachableClosed
  <2>2. blocks \in SUBSET R
    BY DEF DefBlocks
  <2>3. IsFiniteSet(blocks)
    BY <2>1, <2>2, FS_Subset
  <2>4. recompute_blocks(c) \in SUBSET (1..Exit(c))
    BY <1>0, BlocksType
  <2>5. QED  BY <2>1, <2>3, <2>4 DEF DefBlocks
<1>3. n \in Nat
  <2>1. Cardinality(blocks) \in Nat /\ Cardinality(Reg) \in Nat
    BY <1>2, RegAssumption, FS_CardinalityType
  <2>2. QED  BY <2>1
<1>4. step \in [SUBSET Top -> SUBSET Top]
  <2>1. \A b \in blocks : GenKill(c, b).gen \in SUBSET Reg
    BY <1>2, GenKillType
  <2>2. gen \in SUBSET (blocks \X Reg)
    <3> HIDE DEF blocks
    <3>1. QED  BY <2>1
  <2>3. \A outs : Met(outs) \in SUBSET (blocks \X Reg)
    BY DEF MeetIns
  <2> HIDE DEF gen, kill, Met
  <2>4. QED  BY <1>1, <2>2, <2>3 DEF DefTop
<1>5. DefOuts(c) = Rounds(step, Top, n)
  BY DEF DefOuts
<1>6. PICK f : Goes(f, step, Top, n, Top) /\ DefOuts(c) = f[n]
  <2>1. Top \in SUBSET Top
    OBVIOUS
  <2> HIDE DEF step, Top, n
  <2>2. QED  BY <1>3, <1>4, <1>5, <2>1, RoundsGo
<1>7. ASSUME NEW outs, Covers(outs), NEW b \in blocks PROVE D[b] \subseteq MeetIns(E, outs, b)
  <2>1. D[b] \subseteq Reg
    BY <1>2 DEF Carried
  <2> SUFFICES ASSUME NEW r \in D[b], NEW e \in E, e[2] = b PROVE <<e[1], r>> \in outs
    BY <2>1 DEF MeetIns
  <2>2. e \in Edges(c) /\ e[1] \in R
    BY DEF ReachableEdges
  <2>3. CASE e[1] = Entry
    <3>1. b = 1
      BY <2>2, <2>3, EdgeIs, EntryApart
    <3>2. QED  BY <1>7, <2>1, <2>3, <3>1 DEF Carried
  <2>4. CASE e[1] # Entry
    <3> DEFINE a == e[1]
               l == LastOf(c, a)
    <3>1. a # Exit(c) /\ b \in Flow(c, l) /\ a \in blocks
      BY <2>2, <2>4, EdgeIs DEF DefBlocks
    <3>2. a \in 1..Len(c) /\ l \in a..Len(c)
      BY <2>2, <2>4, <3>1, InReachable
    <3>3. l \in a..l
      BY <1>0, <3>2
    <3>4. l \in 1..Len(c) /\ Reached(c, l)
      BY <2>2, <2>4, <3>1, <3>3, InReachable
    <3>5. r \in At(a)
      BY <3>1, <3>4 DEF Carried
    <3> HIDE DEF At, a, l
    <3>6. <<a, r>> \in outs
      BY <1>7, <3>1, <3>5
    <3>7. QED  BY <2>1, <3>6 DEF a
  <2>5. QED  BY <2>3, <2>4
<1>8. ASSUME NEW outs \in SUBSET Top, Covers(outs) PROVE Covers(step[outs])
  <2>1. step[outs] = DefAtEntry \cup gen \cup (Met(outs) \ kill)
    BY <1>1
  <2>2. \A r \in DefIns : <<Entry, r>> \in step[outs]
    BY <2>1 DEF DefAtEntry
  <2>3. ASSUME NEW b \in blocks, b # Exit(c), NEW r \in At(b) PROVE <<b, r>> \in step[outs]
    <3>1. r \in GenKill(c, b).gen \/ (r \in D[b] /\ r \notin GenKill(c, b).kill)
      <4>1. b \in R /\ b # Entry
        BY <1>2
      <4>2. QED  BY <2>3, <4>1, SummaryCarries
    <3>2. CASE r \in GenKill(c, b).gen
      <4>1. <<b, r>> \in gen
        BY <3>2
      <4>2. QED  BY <2>1, <4>1
    <3>3. CASE r \in D[b] /\ r \notin GenKill(c, b).kill
      <4>1. r \in MeetIns(E, outs, b)
        BY <1>7, <1>8, <3>3
      <4>2. <<b, r>> \in Met(outs)
        BY <4>1
      <4>3. <<b, r>> \notin kill
        BY <3>3
      <4> HIDE DEF Met, kill, gen
      <4>4. QED  BY <2>1, <4>2, <4>3
    <3>4. QED  BY <3>1, <3>2, <3>3
  <2>4. QED  BY <2>2, <2>3
<1>9. Covers(Top)
  <2>1. ASSUME NEW b \in blocks, b # Exit(c) PROVE At(b) \subseteq Reg
    <3>1. b \in 1..Len(c) /\ LastOf(c, b) \in b..Len(c)
      BY <1>2, <2>1, InReachable
    <3>2. LastOf(c, b) \in 1..Len(c) /\ LastOf(c, b) \in 1..Exit(c)
      BY <1>0, <3>1
    <3>3. D[LastOf(c, b)] \subseteq Reg /\ c[LastOf(c, b)].must_write \subseteq Reg
      BY <3>2 DEF Carried, IsProgram, WellFormed
    <3>4. QED  BY <3>3 DEF DefAfter
  <2> HIDE DEF At
  <2>2. QED  BY <2>1 DEF DefTop, DefAtEntry
<1>10. Covers(DefOuts(c))
  <2> DEFINE T == {k \in 0..n : Covers(f[k])}
  <2> HIDE DEF Covers, n, step, Top
  <2>1. 0 \in T
    BY <1>3, <1>6, <1>9 DEF Goes
  <2>2. \A k \in 0..(n-1) : k \in T => k + 1 \in T
    <3> SUFFICES ASSUME NEW k \in 0..(n-1), k \in T PROVE k + 1 \in T
      OBVIOUS
    <3>1. k + 1 \in 1..n /\ k + 1 \in 0..n /\ (k + 1) - 1 = k /\ k \in 0..n
      BY <1>3
    <3>2. f[k+1] = step[f[k]] /\ f[k] \in SUBSET Top
      BY <1>6, <3>1 DEF Goes
    <3>3. QED  BY <1>8, <3>1, <3>2
  <2>3. n \in T
    <3>1. n \in 0..n
      BY <1>3
    <3> HIDE DEF T
    <3>2. QED  BY <1>3, <2>1, <2>2, <3>1, InductionFromZero
  <2>4. QED  BY <1>6, <2>3
<1>11. ASSUME NEW b \in blocks PROVE D[b] \subseteq def[b]
  <2>1. b \in recompute_blocks(c) /\ b \in R /\ b \in 1..(Len(c) + 1)
    BY <1>0, <1>2
  <2>2. def[b] = MeetIns(E, DefOuts(c), b)
    BY <2>1, DefsTable
  <2> HIDE DEF Covers
  <2>3. QED  BY <1>7, <1>10, <2>2
<1>12. ASSUME NEW i \in 1..Exit(c), Reached(c, i) PROVE D[i] \subseteq def[i]
  <2>1. CASE i = Exit(c)
    <3>1. i \in blocks
      BY <1>12, <2>1, ReachedBlock, EntryApart DEF DefBlocks
    <3>2. QED  BY <1>11, <3>1
  <2>2. CASE i # Exit(c)
    <3> DEFINE b == BlockOf(c, i)
               l == LastOf(c, b)
               S == {j \in b..l : D[j] \subseteq def[j]}
    <3>1. b \in R /\ b # Entry /\ b # Exit(c) /\ i \in b..l
      BY <1>12, <2>2, ReachedBlock
    <3>2. /\ b \in recompute_blocks(c) /\ b \in 1..Len(c) /\ l \in b..Len(c)
          /\ \A j \in b..l : j \in 1..Len(c) /\ Reached(c, j)
          /\ \A j \in b..(l - 1) : /\ j + 1 \in b..l
                                   /\ j + 1 \notin recompute_blocks(c)
                                   /\ Flow(c, j) = {j + 1}
      BY <3>1, InReachable
    <3>3. b \in S
      <4>1. b \in blocks /\ b \in b..l
        BY <1>0, <3>1, <3>2 DEF DefBlocks
      <4>2. QED  BY <1>11, <4>1
    <3> HIDE DEF b, l
    <3>4. ASSUME NEW j \in b..(l - 1), j \in S PROVE j + 1 \in S
      <4>1. /\ j \in b..l /\ j + 1 \in b..l /\ j + 1 \in 1..(Len(c) + 1) /\ (j + 1) - 1 = j
            /\ j \in 1..Len(c)
        BY <1>0, <3>2
      <4>2. def[j+1] = DefAfter(c[j], def[j])
        BY <3>2, <4>1, DefsTable
      <4>3. D[j+1] \subseteq DefAfter(c[j], D[j])
        BY <3>2, <4>1 DEF Carried
      <4>4. D[j] \subseteq def[j]
        BY <3>4
      <4>5. D[j+1] \subseteq def[j+1]
        BY <4>2, <4>3, <4>4 DEF DefAfter
      <4>6. QED  BY <4>1, <4>5
    <3>5. \A j \in b..l : j \in S
      <4>1. b # Exit(c) /\ b \in recompute_blocks(c)
        BY <3>1, <3>2
      <4>2. \A j \in b..(LastOf(c, b) - 1) : j \in S => j + 1 \in S
        BY <3>4 DEF l
      <4> HIDE DEF S
      <4>3. QED  BY <3>3, <4>1, <4>2, ThroughBlock DEF l
    <3>6. QED  BY <3>1, <3>5
  <2>3. QED  BY <2>1, <2>2
<1>13. QED  BY <1>12

\* What is live before instruction i, or at the exit
Live(c, i) == IF i = Exit(c) THEN LiveOuts ELSE LiveBefore(c[i], recompute_liveness(c)[i])

\* Liveness follows control backwards: what is live where control goes is live behind the
\* instruction.
LEMMA LiveFlow ==
    ASSUME NEW c, IsProgram(c), NEW i \in 1..Len(c), Reached(c, i), NEW s \in Flow(c, i)
    PROVE  Live(c, s) \subseteq recompute_liveness(c)[i]
<1> DEFINE lo == recompute_liveness(c)
           b == BlockOf(c, i)
           E == ReachableEdges(c)
<1>0. Len(c) \in Nat /\ Exit(c) = Len(c) + 1
  BY DEF IsProgram, Exit
<1>1. CASE i + 1 \notin recompute_blocks(c)
  <2>1. s = i + 1 /\ s \in 1..Len(c) /\ i # LastOf(c, b)
    BY <1>1, FlowIs
  <2>2. lo[i] = LiveBefore(c[i+1], lo[i+1])
    BY <2>1, LivenessTable DEF Reached
  <2>3. s # Exit(c)
    BY <1>0, <2>1
  <2>4. QED  BY <2>1, <2>2, <2>3 DEF Live
<1>2. CASE i + 1 \in recompute_blocks(c)
  <2>1. s \in recompute_succs(c, b) /\ i = LastOf(c, b)
    BY <1>2, FlowIs
  <2>2. lo[i] = MeetOuts(c, E, LiveIns(c), b)
    BY <2>1, LivenessTable DEF Reached
  <2>3. s \in recompute_reachable(c) /\ s \in recompute_blocks(c) /\ <<b, s>> \in E
    BY <2>1, ReachableSuccs DEF Reached
  <2>4. ASSUME NEW r \in Live(c, s) PROVE r \in Reg /\ <<s, r>> \in LiveIns(c)
    <3>1. CASE s = Exit(c)
      <4>1. r \in LiveOuts
        BY <3>1 DEF Live
      <4>2. QED  BY <3>1, <4>1, LiveInsHas, RegAssumption
    <3>2. CASE s # Exit(c)
      <4>1. s \in LiveBlocks(c)
        BY <2>3, <3>2, EntryApart DEF LiveBlocks
      <4>2. r \in LiveBefore(c[s], lo[s])
        BY <3>2 DEF Live
      <4>3. <<s, r>> \in LiveIns(c)
        BY <4>1, <4>2, SummaryAgrees
      <4>4. LiveIns(c) \in SUBSET (LiveAtExit(c) \cup (LiveBlocks(c) \X Reg))
        BY LiveInsFixpoint
      <4>5. <<s, r>> \notin LiveAtExit(c)
        BY <3>2 DEF LiveAtExit
      <4>6. <<s, r>> \in LiveBlocks(c) \X Reg
        BY <4>3, <4>4, <4>5
      <4>7. QED  BY <4>3, <4>6
    <3>3. QED  BY <3>1, <3>2
  <2> HIDE DEF b, E
  <2>5. ASSUME NEW r \in Live(c, s) PROVE r \in MeetOuts(c, E, LiveIns(c), b)
    BY <2>3, <2>4 DEF MeetOuts
  <2>6. QED  BY <2>2, <2>5
<1>3. QED  BY <1>1, <1>2

\* What is wanted behind instruction i, when M is wanted before every instruction
Wanted(c, M, i) ==
    (UNION {M[s] : s \in Flow(c, i)}) \cup (IF c[i].kind = "ijmp" THEN EverRead(c) ELSE {})

\* M has all that is wanted.
Supplies(c, M) ==
    /\ LiveOuts \subseteq M[Exit(c)]
    /\ \A i \in 1..Len(c) : Reached(c, i) => LiveBefore(c[i], Wanted(c, M, i)) \subseteq M[i]

\* The summary of a block wants nothing that is not wanted before its first instruction.
LEMMA SummaryWants ==
    ASSUME NEW c, IsProgram(c), NEW M, Supplies(c, M),
           NEW b \in recompute_reachable(c), b # Entry, b # Exit(c)
    PROVE  /\ UseKill(c, b).use \subseteq M[b]
           /\ Wanted(c, M, LastOf(c, b)) \ UseKill(c, b).kill \subseteq M[b]
<1> DEFINE l == LastOf(c, b)
<1>1. /\ b \in recompute_blocks(c) /\ b \in 1..Len(c) /\ l \in b..Len(c) /\ Len(c) \in Nat
      /\ \A j \in b..l : j \in 1..Len(c) /\ Reached(c, j)
      /\ \A j \in b..(l - 1) : j + 1 \in b..l /\ Flow(c, j) = {j + 1}
  BY InReachable DEF IsProgram
<1>2. PICK uk : UseKills(c, b, uk) /\ UseKill(c, b) = uk[l]
  BY <1>1, UseKillTable
<1> HIDE DEF l
<1> DEFINE W(j) == Wanted(c, M, j)
           T == {j \in b..l : uk[j].use \subseteq M[b] /\ W(j) \ uk[j].kill \subseteq M[b]}
<1>3. /\ uk[b-1].use = {} /\ uk[b-1].kill = {}
      /\ \A j \in b..l :
           /\ uk[j].use = uk[j-1].use \cup (c[j].maybe_read \ uk[j-1].kill)
           /\ uk[j].kill = uk[j-1].kill \cup c[j].must_undef \cup c[j].must_write
  BY <1>2 DEF UseKills, l
<1>4. ASSUME NEW j \in b..l, uk[j-1].use \subseteq M[b], M[j] \ uk[j-1].kill \subseteq M[b]
      PROVE  j \in T
  <2>1. LiveBefore(c[j], W(j)) \subseteq M[j]
    BY <1>1 DEF Supplies
  <2> HIDE DEF W
  <2>2. c[j].maybe_read \subseteq M[j]
    BY <2>1 DEF LiveBefore
  <2>3. W(j) \ (c[j].must_write \cup c[j].must_undef) \subseteq M[j]
    BY <2>1 DEF LiveBefore
  <2>4. uk[j].use \subseteq M[b]
    BY <1>3, <1>4, <2>2
  <2>5. W(j) \ uk[j].kill \subseteq M[b]
    BY <1>3, <1>4, <2>3
  <2>6. QED  BY <2>4, <2>5
<1>5. b \in T
  <2>1. b \in b..l
    BY <1>1
  <2>2. QED  BY <1>3, <1>4, <2>1
<1>6. \A j \in b..(l - 1) : j \in T => j + 1 \in T
  <2> SUFFICES ASSUME NEW j \in b..(l - 1), j \in T PROVE j + 1 \in T
    OBVIOUS
  <2>1. j + 1 \in b..l /\ (j + 1) - 1 = j /\ j \in b..l
    BY <1>1
  <2>2. M[j+1] \subseteq W(j)
    BY <1>1, <2>1 DEF Wanted
  <2> HIDE DEF W
  <2>3. uk[j].use \subseteq M[b] /\ M[j+1] \ uk[j].kill \subseteq M[b]
    BY <2>2
  <2>4. QED
    <3> HIDE DEF T
    <3>1. QED  BY <1>4, <2>1, <2>3
<1>7. l \in T
  <2>1. l \in b..l /\ b \in Int /\ l \in Int
    BY <1>1
  <2> HIDE DEF T
  <2>2. QED  BY <1>5, <1>6, <2>1, Induction
<1>8. QED  BY <1>2, <1>7 DEF l

\* recompute_liveness() calls nothing live that is not wanted: it ends at the least set
\* that supplies every instruction.
LEMMA LiveLeast ==
    ASSUME NEW c, IsProgram(c), NEW M, Supplies(c, M)
    PROVE  /\ \A i \in 1..Len(c) : Reached(c, i) =>
                recompute_liveness(c)[i] \subseteq Wanted(c, M, i)
           /\ \A i \in 1..Exit(c) : Reached(c, i) => Live(c, i) \subseteq M[i]
<1> DEFINE R == recompute_reachable(c)
           E == ReachableEdges(c)
           lo == recompute_liveness(c)
           blocks == LiveBlocks(c)
           start == LiveAtExit(c)
           Top == start \cup (blocks \X Reg)
           step == LiveStep(c)
           n == Cardinality(blocks) * Cardinality(Reg)
           use == UNION {{<<b, r>> : r \in UseKill(c, b).use} : b \in blocks}
           kill == UNION {{<<b, r>> : r \in UseKill(c, b).kill} : b \in blocks}
           Met(ins) == UNION {{<<b, r>> : r \in MeetOuts(c, E, ins, b)} : b \in blocks}
           Within(ins) == \A b, r : <<b, r>> \in ins => r \in M[b]
<1>0. Len(c) \in Nat /\ Exit(c) = Len(c) + 1
  BY DEF IsProgram, Exit
<1>1. step = [ins \in SUBSET Top |-> start \cup use \cup (Met(ins) \ kill)]
  BY DEF LiveStep
<1>2. /\ \A b \in blocks : /\ b \in R /\ b # Entry /\ b # Exit(c)
                           /\ b \in recompute_blocks(c)
      /\ IsFiniteSet(blocks)
  BY LiveBlocksType DEF LiveBlocks
<1>3. n \in Nat
  <2>1. Cardinality(blocks) \in Nat /\ Cardinality(Reg) \in Nat
    BY <1>2, RegAssumption, FS_CardinalityType
  <2>2. QED  BY <2>1
<1>4. step \in [SUBSET Top -> SUBSET Top]
  <2>1. \A b \in blocks : UseKill(c, b).use \in SUBSET Reg
    BY <1>2, UseKillType
  <2>2. use \in SUBSET (blocks \X Reg)
    <3> HIDE DEF blocks
    <3>1. QED  BY <2>1
  <2>3. \A ins : Met(ins) \in SUBSET (blocks \X Reg)
    BY DEF MeetOuts
  <2> HIDE DEF use, kill, Met
  <2>4. QED  BY <1>1, <2>2, <2>3
<1>5. LiveIns(c) = Rounds(step, start, n)
  BY DEF LiveIns
<1>6. PICK f : Goes(f, step, start, n, Top) /\ LiveIns(c) = f[n]
  <2>1. start \in SUBSET Top
    OBVIOUS
  <2> HIDE DEF step, start, Top, n
  <2>2. QED  BY <1>3, <1>4, <1>5, <2>1, RoundsGo
<1>7. ASSUME NEW ins, Within(ins), NEW b \in R, b # Entry, b # Exit(c)
      PROVE  MeetOuts(c, E, ins, b) \subseteq Wanted(c, M, LastOf(c, b))
  <2> SUFFICES ASSUME NEW r \in MeetOuts(c, E, ins, b) PROVE r \in Wanted(c, M, LastOf(c, b))
    OBVIOUS
  <2>1. CASE c[LastOf(c, b)].kind = "ijmp" /\ r \in EverRead(c)
    BY <2>1 DEF Wanted
  <2>2. CASE \E e \in E : e[1] = b /\ <<e[2], r>> \in ins
    <3>1. PICK e \in E : e[1] = b /\ <<e[2], r>> \in ins
      BY <2>2
    <3>2. e \in Edges(c) /\ e[1] \in R
      BY DEF ReachableEdges
    <3>3. e[2] \in Flow(c, LastOf(c, b))
      BY <1>7, <3>1, <3>2, EdgeIs
    <3>4. r \in M[e[2]]
      BY <1>7, <3>1
    <3>5. QED  BY <3>3, <3>4 DEF Wanted
  <2>3. QED  BY <2>1, <2>2 DEF MeetOuts
<1>8. ASSUME NEW ins \in SUBSET Top, Within(ins) PROVE Within(step[ins])
  <2> SUFFICES ASSUME NEW b, NEW r, <<b, r>> \in step[ins] PROVE r \in M[b]
    OBVIOUS
  <2>1. step[ins] = start \cup use \cup (Met(ins) \ kill)
    BY <1>1
  <2>2. CASE <<b, r>> \in start
    BY <2>2 DEF LiveAtExit, Supplies
  <2>3. CASE <<b, r>> \in use
    <3>1. b \in blocks /\ r \in UseKill(c, b).use
      BY <2>3
    <3>2. QED  BY <1>2, <3>1, SummaryWants
  <2>4. CASE <<b, r>> \in Met(ins) /\ <<b, r>> \notin kill
    <3>1. b \in blocks /\ r \in MeetOuts(c, E, ins, b)
      BY <2>4
    <3>2. r \notin UseKill(c, b).kill
      BY <2>4, <3>1
    <3> HIDE DEF Within
    <3>3. r \in Wanted(c, M, LastOf(c, b))
      BY <1>2, <1>7, <1>8, <3>1
    <3>4. QED  BY <1>2, <3>1, <3>2, <3>3, SummaryWants
  <2> HIDE DEF Met, use, kill, start
  <2>5. QED  BY <2>1, <2>2, <2>3, <2>4
<1>9. Within(start)
  BY DEF LiveAtExit, Supplies
<1>10. Within(LiveIns(c))
  <2> DEFINE T == {k \in 0..n : Within(f[k])}
  <2> HIDE DEF Within, n, step, start, Top
  <2>1. 0 \in T
    BY <1>3, <1>6, <1>9 DEF Goes
  <2>2. \A k \in 0..(n-1) : k \in T => k + 1 \in T
    <3> SUFFICES ASSUME NEW k \in 0..(n-1), k \in T PROVE k + 1 \in T
      OBVIOUS
    <3>1. k + 1 \in 1..n /\ k + 1 \in 0..n /\ (k + 1) - 1 = k /\ k \in 0..n
      BY <1>3
    <3>2. f[k+1] = step[f[k]] /\ f[k] \in SUBSET Top
      BY <1>6, <3>1 DEF Goes
    <3>3. QED  BY <1>8, <3>1, <3>2
  <2>3. n \in T
    <3>1. n \in 0..n
      BY <1>3
    <3> HIDE DEF T
    <3>2. QED  BY <1>3, <2>1, <2>2, <3>1, InductionFromZero
  <2>4. QED  BY <1>6, <2>3
<1>11. ASSUME NEW i \in 1..Len(c), Reached(c, i) PROVE lo[i] \subseteq Wanted(c, M, i)
  <2> DEFINE b == BlockOf(c, i)
             l == LastOf(c, b)
             S == {k \in 0..(l - b) : lo[l - k] \subseteq Wanted(c, M, l - k)}
  <2>1. b \in R /\ b # Entry /\ b # Exit(c) /\ i \in b..l
    <3>1. i \in 1..Exit(c) /\ i # Exit(c)
      BY <1>0
    <3>2. QED  BY <1>11, <3>1, ReachedBlock
  <2>2. /\ b \in recompute_blocks(c) /\ b \in 1..Len(c) /\ l \in b..Len(c)
        /\ \A j \in b..l : j \in 1..Len(c) /\ Reached(c, j) /\ BlockOf(c, j) = b
        /\ \A j \in b..(l - 1) : /\ j + 1 \in b..l
                                 /\ Flow(c, j) = {j + 1}
    BY <2>1, InReachable
  <2>3. 0 \in S
    <3>1. 0 \in 0..(l - b) /\ l - 0 = l /\ l \in b..l
      BY <1>0, <2>2
    <3>2. lo[l] = MeetOuts(c, E, LiveIns(c), b)
      BY <2>2, <3>1, LivenessTable DEF Reached
    <3>3. MeetOuts(c, E, LiveIns(c), b) \subseteq Wanted(c, M, l)
      <4> HIDE DEF Within
      <4>1. QED  BY <1>7, <1>10, <2>1
    <3>4. QED  BY <3>1, <3>2, <3>3
  <2>4. \A k \in 0..((l - b) - 1) : k \in S => k + 1 \in S
    <3> SUFFICES ASSUME NEW k \in 0..((l - b) - 1), k \in S PROVE k + 1 \in S
      OBVIOUS
    <3> DEFINE j == l - (k + 1)
    <3>1. /\ j \in b..(l - 1) /\ j \in b..l /\ j + 1 = l - k /\ k + 1 \in 0..(l - b) /\ j # l
          /\ j + 1 \in b..l
      BY <1>0, <2>2
    <3>2. lo[j+1] \subseteq Wanted(c, M, j+1)
      BY <3>1
    <3> HIDE DEF j
    <3>3. lo[j] = LiveBefore(c[j+1], lo[j+1])
      BY <2>2, <3>1, LivenessTable DEF Reached
    <3>4. LiveBefore(c[j+1], Wanted(c, M, j+1)) \subseteq M[j+1]
      BY <2>2, <3>1 DEF Supplies
    <3>5. M[j+1] \subseteq Wanted(c, M, j)
      BY <2>2, <3>1 DEF Wanted
    <3>6. lo[j] \subseteq M[j+1]
      BY <3>2, <3>3, <3>4 DEF LiveBefore
    <3>7. lo[j] \subseteq Wanted(c, M, j)
      BY <3>5, <3>6
    <3>8. QED  BY <3>1, <3>7 DEF j
  <2>5. l - b \in Nat /\ l - i \in 0..(l - b) /\ l - (l - i) = i
    BY <1>0, <2>1, <2>2
  <2>6. \A k \in 0..(l - b) : k \in S
    <3> HIDE DEF S
    <3> DEFINE m == l - b
    <3>1. m \in Nat /\ \A k \in 0..(m - 1) : k \in S => k + 1 \in S
      BY <2>4, <2>5
    <3> HIDE DEF m
    <3>2. \A k \in 0..m : k \in S
      BY <2>3, <3>1, InductionFromZero
    <3>3. QED  BY <3>2 DEF m
  <2>7. QED  BY <2>5, <2>6
<1>12. ASSUME NEW i \in 1..Exit(c), Reached(c, i) PROVE Live(c, i) \subseteq M[i]
  <2>1. CASE i = Exit(c)
    BY <2>1 DEF Live, Supplies
  <2>2. CASE i # Exit(c)
    <3>1. i \in 1..Len(c)
      BY <1>0, <2>2
    <3>2. lo[i] \subseteq Wanted(c, M, i)
      BY <1>11, <1>12, <3>1
    <3>3. LiveBefore(c[i], Wanted(c, M, i)) \subseteq M[i]
      BY <1>12, <3>1 DEF Supplies
    <3>4. Live(c, i) = LiveBefore(c[i], lo[i])
      BY <2>2 DEF Live
    <3>5. QED  BY <3>2, <3>3, <3>4 DEF LiveBefore
  <2>3. QED  BY <2>1, <2>2
<1>13. QED  BY <1>11, <1>12
=============================================================================
