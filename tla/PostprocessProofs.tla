-------------------------- MODULE PostprocessProofs --------------------------
(***************************************************************************)
(* What postprocessing promises, for every program, every set of           *)
(* replacements and every number of registers: check_invariants() holds    *)
(* all along, nothing removable is left when it is done, and the function  *)
(* computes what it computed.                                              *)
(*                                                                         *)
(* All three rest on what happens to a program when one instruction goes   *)
(* that is not reached, or is idle: control goes where it went; what was   *)
(* defined and live still is, and recompute_defs(), a greatest fixed       *)
(* point, finds it; and a run of either program is followed by a run of    *)
(* the other that agrees with it on what is live.                          *)
(***************************************************************************)
EXTENDS Postprocess, CfgProofs

-----------------------------------------------------------------------------
(* A program without one of its instructions *)

Drop(c, i) == [k \in 1..(Len(c) - 1) |-> IF k < i THEN c[k] ELSE c[k+1]]

\* Where an instruction of c is found when i is gone, and where one came from
Down(i, p) == IF p <= i THEN p ELSE p - 1
Up(i, q) == IF q < i THEN q ELSE q + 1

\* Its instructions are the others, in their order.
LEMMA DropIs ==
    ASSUME NEW c \in Seq(Instrs), NEW i \in 1..Len(c)
    PROVE  /\ Drop(c, i) \in Seq(Instrs)
           /\ Len(Drop(c, i)) = Len(c) - 1
           /\ Exit(Drop(c, i)) = Len(c)
           /\ \A p \in 1..Len(c) : p # i =>
                Down(i, p) \in 1..Len(Drop(c, i)) /\ Drop(c, i)[Down(i, p)] = c[p]
           /\ \A q \in 1..Len(Drop(c, i)) :
                /\ Up(i, q) \in 1..Len(c) /\ Up(i, q) # i /\ Down(i, Up(i, q)) = q
                /\ Drop(c, i)[q] = c[Up(i, q)]
<1> DEFINE d == Drop(c, i)
           n == Len(c) - 1
<1>1. n \in Nat /\ Len(c) \in Nat
  OBVIOUS
<1>2. d \in [1..n -> Instrs]
  BY <1>1 DEF Drop
<1>3. d \in Seq(Instrs) /\ Len(d) = n
  <2> HIDE DEF d, n
  <2>1. QED  BY <1>1, <1>2, FunctionIsSeq
<1>4. ASSUME NEW p \in 1..Len(c), p # i PROVE Down(i, p) \in 1..n /\ d[Down(i, p)] = c[p]
  <2>1. CASE p < i
    BY <2>1 DEF Down, Drop
  <2>2. CASE p > i
    <3>1. Down(i, p) = p - 1 /\ p - 1 \in 1..n /\ (p - 1) + 1 = p /\ ~(p - 1 < i)
      BY <2>2 DEF Down
    <3>2. QED  BY <3>1 DEF Drop
  <2>3. QED  BY <1>4, <2>1, <2>2
<1>5. ASSUME NEW q \in 1..n
      PROVE  Up(i, q) \in 1..Len(c) /\ Up(i, q) # i /\ Down(i, Up(i, q)) = q /\ d[q] = c[Up(i, q)]
  BY DEF Up, Down, Drop
<1>6. QED  BY <1>1, <1>3, <1>4, <1>5 DEF Exit

\* A label that is not the one removed keeps its meaning.
LEMMA DropDest ==
    ASSUME NEW c \in Seq(Instrs), NEW i \in 1..Len(c), NEW l, Dest(c, l) # i
    PROVE  Dest(Drop(c, i), l) = Down(i, Dest(c, l))
<1> DEFINE d == Drop(c, i)
           at == {j \in 1..Len(c) : c[j].kind = "label" /\ c[j].label = l}
           to == {j \in 1..Len(d) : d[j].kind = "label" /\ d[j].label = l}
<1>0. Len(c) \in Nat /\ Len(d) = Len(c) - 1 /\ Exit(d) = Len(c) /\ Exit(c) = Len(c) + 1
  BY DropIs DEF Exit
<1>1. /\ \A p \in at : p # i => Down(i, p) \in to
      /\ \A q \in to : Up(i, q) \in at /\ Up(i, q) # i /\ Down(i, Up(i, q)) = q
  BY DropIs
<1>2. at \in SUBSET (1..Len(c)) /\ to \in SUBSET Int
  OBVIOUS
<1>3. Dest(c, l) = IF at = {} THEN Exit(c) ELSE CHOOSE j \in at : \A k \in at : k <= j
  BY DEF Dest
<1>4. Dest(d, l) = IF to = {} THEN Exit(d) ELSE CHOOSE j \in to : \A k \in to : k <= j
  BY DEF Dest
<1> HIDE DEF at, to, d
<1>5. CASE at = {}
  <2>1. to = {}
    BY <1>1, <1>5
  <2>2. Down(i, Exit(c)) = Exit(d)
    BY <1>0 DEF Down
  <2>3. QED  BY <1>3, <1>4, <1>5, <2>1, <2>2 DEF d
<1>6. CASE at # {}
  <2> DEFINE m == Dest(c, l)
  <2>1. m \in at /\ \A k \in at : k <= m
    <3>1. at \in SUBSET (0..Len(c))
      BY <1>0, <1>2
    <3>2. \E j \in at : \A k \in at : k <= j
      BY <1>0, <1>6, <3>1, GreatestElement
    <3>3. QED  BY <1>3, <1>6, <3>2
  <2>2. Down(i, m) \in to
    BY <1>1, <2>1
  <2> HIDE DEF m
  <2>3. ASSUME NEW q \in to PROVE q <= Down(i, m)
    <3> DEFINE p == Up(i, q)
    <3>1. p <= m /\ q = Down(i, p) /\ p \in 1..Len(c) /\ m \in 1..Len(c) /\ p # i
      BY <1>1, <1>2, <2>1
    <3>2. m # i
      BY DEF m
    <3> HIDE DEF p
    <3>3. QED  BY <1>0, <3>1, <3>2 DEF Down
  <2>4. ASSUME NEW j \in to, \A k \in to : k <= j PROVE j = Down(i, m)
    <3>1. j <= Down(i, m) /\ Down(i, m) <= j
      BY <2>2, <2>3, <2>4
    <3>2. j \in Int /\ Down(i, m) \in Int
      BY <1>0, <1>2, <2>2
    <3>3. QED  BY <3>1, <3>2
  <2>5. Dest(d, l) = CHOOSE j \in to : \A k \in to : k <= j
    BY <1>4, <2>2
  <2>6. Dest(d, l) \in to /\ \A k \in to : k <= Dest(d, l)
    BY <2>2, <2>3, <2>5
  <2>7. QED  BY <2>4, <2>6 DEF d, m
<1>7. QED  BY <1>5, <1>6

\* A program of the model has an instruction and is well formed.
LEMMA ProgramIs ==
    ASSUME NEW c \in Seq(Instrs), c # <<>>
    PROVE  /\ IsProgram(c) /\ Len(c) \in Nat \ {0} /\ Exit(c) = Len(c) + 1
           /\ \A i \in 1..Len(c) : c[i] \in Instrs
<1>1. Len(c) \in Nat \ {0} /\ \A i \in 1..Len(c) : c[i] \in Instrs
  OBVIOUS
<1>2. QED  BY <1>1, PostprocessAssumption DEF IsProgram, Exit

\* A label leads to a label, or out of the function.
LEMMA DestIsLabel ==
    ASSUME NEW c, IsProgram(c), NEW l
    PROVE  Dest(c, l) # Exit(c) => Dest(c, l) \in 1..Len(c) /\ c[Dest(c, l)].kind = "label"
<1> DEFINE at == {i \in 1..Len(c) : c[i].kind = "label" /\ c[i].label = l}
<1>1. Len(c) \in Nat
  BY DEF IsProgram
<1>2. SUFFICES ASSUME at # {} PROVE Dest(c, l) \in at
  BY DEF Dest
<1>3. Dest(c, l) = CHOOSE i \in at : \A j \in at : j <= i
  BY <1>2 DEF Dest
<1>4. at \in SUBSET (0..Len(c))
  BY <1>1
<1> HIDE DEF at
<1>5. QED  BY <1>1, <1>2, <1>3, <1>4, GreatestElement

\* An instruction that keeps nothing alive
Idle(c, i) ==
    /\ ~is_control(c[i]) /\ ~has_side_effects(c[i])
    /\ c[i].maybe_write \cap recompute_liveness(c)[i] = {}

\* What the passes remove
Removable(c, i) == ~Reached(c, i) \/ Idle(c, i)

\* The first instruction stays: it is a label, and reached.
LEMMA RemovableIs ==
    ASSUME NEW c \in Seq(Instrs), c # <<>>, c[1].kind = "label",
           NEW i \in 1..Len(c), Removable(c, i)
    PROVE  /\ i # 1 /\ Len(c) >= 2
           /\ Drop(c, i) # <<>> /\ IsProgram(Drop(c, i)) /\ Drop(c, i)[1] = c[1]
           /\ Up(i, 1) = 1 /\ Down(i, 1) = 1
           /\ Down(i, Exit(c)) = Exit(Drop(c, i)) /\ Up(i, Exit(Drop(c, i))) = Exit(c)
<1>1. IsProgram(c) /\ Len(c) \in Nat \ {0} /\ Exit(c) = Len(c) + 1
  BY ProgramIs
<1>2. i # 1
  <2>1. Reached(c, 1)
    BY <1>1, FlowReached
  <2>2. ~Idle(c, 1)
    BY DEF Idle, is_control
  <2>3. QED  BY <2>1, <2>2 DEF Removable
<1>3. Len(c) >= 2
  BY <1>1, <1>2
<1>4. Up(i, 1) = 1 /\ Down(i, 1) = 1
  BY <1>1, <1>2 DEF Up, Down
<1>5. /\ Drop(c, i) \in Seq(Instrs) /\ Len(Drop(c, i)) = Len(c) - 1 /\ Exit(Drop(c, i)) = Len(c)
      /\ \A p \in 1..Len(c) : p # i => Drop(c, i)[Down(i, p)] = c[p]
  BY DropIs
<1>6. Drop(c, i) # <<>>
  BY <1>1, <1>3, <1>5
<1>7. Drop(c, i)[1] = c[1]
  <2>1. 1 \in 1..Len(c)
    BY <1>1
  <2>2. QED  BY <1>2, <1>4, <1>5, <2>1
<1>8. Down(i, Exit(c)) = Exit(Drop(c, i)) /\ Up(i, Exit(Drop(c, i))) = Exit(c)
  BY <1>1, <1>5 DEF Up, Down
<1>9. QED  BY <1>2, <1>3, <1>4, <1>5, <1>6, <1>7, <1>8, ProgramIs

\* Jumps from what is reached go where they went.
LEMMA DropJump ==
    ASSUME NEW c \in Seq(Instrs), c # <<>>, NEW i \in 1..Len(c), Removable(c, i),
           NEW p \in 1..Len(c), Reached(c, p), NEW l, Dest(c, l) \in Flow(c, p)
    PROVE  Dest(Drop(c, i), l) = Down(i, Dest(c, l))
<1>1. IsProgram(c) /\ Len(c) \in Nat \ {0} /\ Exit(c) = Len(c) + 1
  BY ProgramIs
<1>2. SUFFICES Dest(c, l) # i
  BY DropDest
<1>3. CASE ~Reached(c, i)
  BY <1>1, <1>3, FlowReached
<1>4. CASE Idle(c, i)
  <2>1. c[i].kind # "label" /\ i # Exit(c)
    BY <1>1, <1>4 DEF Idle, is_control
  <2>2. QED  BY <1>1, <2>1, DestIsLabel
<1>5. QED  BY <1>3, <1>4 DEF Removable

\* Control goes where it went.
LEMMA DropFlow ==
    ASSUME NEW c \in Seq(Instrs), c # <<>>, NEW i \in 1..Len(c), Removable(c, i),
           NEW p \in 1..Len(c), p # i, Reached(c, p)
    PROVE  Flow(Drop(c, i), Down(i, p)) = {Down(i, s) : s \in Flow(c, p)}
<1> DEFINE d == Drop(c, i)
           q == Down(i, p)
           l == c[p].label
<1>1. IsProgram(c) /\ Len(c) \in Nat \ {0} /\ Exit(c) = Len(c) + 1
  BY ProgramIs
<1>2. d[q] = c[p] /\ Exit(d) = Down(i, Exit(c))
  BY <1>1, DropIs DEF Down
<1>3. q + 1 = Down(i, p + 1)
  BY <1>1 DEF Down
<1>4. Dest(c, l) \in Flow(c, p) => Dest(d, l) = Down(i, Dest(c, l))
  BY DropJump
<1> HIDE DEF d, q, l
<1>5. CASE c[p].kind = "jmp" \/ c[p].kind = "jcc"
  <2>1. Dest(c, l) \in Flow(c, p)
    BY <1>5 DEF Flow, l
  <2>2. QED  BY <1>2, <1>3, <1>4, <1>5, <2>1 DEF Flow, l, d, q
<1>6. CASE c[p].kind # "jmp" /\ c[p].kind # "jcc"
  BY <1>2, <1>3, <1>6 DEF Flow, d, q
<1>7. QED  BY <1>5, <1>6

\* What was reached still is, and nothing else.
LEMMA DropReached ==
    ASSUME NEW c \in Seq(Instrs), c # <<>>, c[1].kind = "label",
           NEW i \in 1..Len(c), Removable(c, i)
    PROVE  /\ \A p \in 1..Exit(c) : Reached(c, p) => Reached(Drop(c, i), Down(i, p))
           /\ \A q \in 1..Exit(Drop(c, i)) : Reached(Drop(c, i), q) => Reached(c, Up(i, q))
<1> DEFINE d == Drop(c, i)
<1>1. IsProgram(c) /\ Len(c) \in Nat \ {0} /\ Exit(c) = Len(c) + 1
  BY ProgramIs
<1>2. IsProgram(d) /\ Up(i, 1) = 1 /\ Down(i, 1) = 1 /\ Exit(d) = Len(c) /\ Len(d) = Len(c) - 1
  BY RemovableIs, DropIs
<1>3. ASSUME Reached(c, i) PROVE Idle(c, i) /\ Flow(c, i) = {i + 1}
  <2>1. Idle(c, i)
    BY <1>3 DEF Removable
  <2>2. QED  BY <2>1 DEF Idle, is_control, Flow
<1>4. ASSUME NEW p \in 1..Exit(c), Reached(c, p) PROVE Reached(d, Down(i, p))
  <2> DEFINE S == {k \in 1..Exit(c) : Reached(d, Down(i, k))}
  <2>1. 1 \in S
    BY <1>1, <1>2, FlowReached
  <2>2. ASSUME NEW k \in 1..Len(c), k \in S, Reached(c, k), NEW s \in Flow(c, k) PROVE s \in S
    <3>1. s \in 1..Exit(c)
      BY <1>1, FlowIs
    <3>2. CASE k = i
      <4>1. s = i + 1 /\ Down(i, s) = Down(i, k)
        BY <1>1, <1>3, <2>2, <3>2 DEF Down
      <4>2. QED  BY <2>2, <3>1, <4>1
    <3>3. CASE k # i
      <4>1. Down(i, k) \in 1..Len(d)
        BY <3>3, DropIs
      <4>2. Down(i, s) \in Flow(d, Down(i, k))
        BY <2>2, <3>3, DropFlow
      <4>3. Reached(d, Down(i, s))
        BY <1>2, <2>2, <4>1, <4>2, FlowReached
      <4>4. QED  BY <3>1, <4>3
    <3>4. QED  BY <3>2, <3>3
  <2>3. p \in S
    <3> HIDE DEF S
    <3>1. \A k \in 1..Len(c) : k \in S /\ Reached(c, k) => Flow(c, k) \subseteq S
      BY <2>2
    <3>2. QED  BY <1>1, <1>4, <2>1, <3>1, ReachedLeast
  <2>4. QED  BY <2>3
<1>5. ASSUME NEW q \in 1..Exit(d), Reached(d, q) PROVE Reached(c, Up(i, q))
  <2> DEFINE S == {k \in 1..Exit(d) : Reached(c, Up(i, k))}
  <2>1. 1 \in S
    BY <1>1, <1>2, FlowReached
  <2>2. ASSUME NEW k \in 1..Len(d), k \in S, NEW t \in Flow(d, k) PROVE t \in S
    <3> DEFINE p == Up(i, k)
    <3>1. p \in 1..Len(c) /\ p # i /\ Down(i, p) = k /\ Reached(c, p)
      BY <2>2, DropIs
    <3>2. t \in 1..Exit(d)
      BY <1>2, FlowIs
    <3> HIDE DEF p
    <3>3. PICK s \in Flow(c, p) : t = Down(i, s)
      BY <2>2, <3>1, DropFlow
    <3>4. s \in 1..Exit(c) /\ Reached(c, s)
      BY <1>1, <3>1, <3>3, FlowIs, FlowReached
    <3>5. CASE s = i
      <4>1. i + 1 \in Flow(c, i)
        BY <1>3, <3>4, <3>5
      <4>2. Reached(c, i + 1)
        BY <1>1, <3>4, <3>5, <4>1, FlowReached
      <4>3. Up(i, t) = i + 1
        BY <1>1, <3>3, <3>5 DEF Up, Down
      <4>4. QED  BY <3>2, <4>2, <4>3
    <3>6. CASE s # i
      <4>1. Up(i, t) = s
        BY <1>1, <3>3, <3>4, <3>6 DEF Up, Down
      <4>2. QED  BY <3>2, <3>4, <4>1
    <3>7. QED  BY <3>5, <3>6
  <2>3. q \in S
    <3> HIDE DEF S
    <3>1. \A k \in 1..Len(d) : k \in S /\ Reached(d, k) => Flow(d, k) \subseteq S
      BY <2>2
    <3>2. QED  BY <1>2, <1>5, <2>1, <3>1, ReachedLeast
  <2>4. QED  BY <2>3
<1>6. QED  BY <1>4, <1>5

-----------------------------------------------------------------------------
(* check_invariants() survives a removal *)

\* The condition on undefs, for one program
LEMMA UndefsOf ==
    ASSUME UndefsAreOverwritten, NEW c \in Seq(Instrs)
    PROVE  UndefsOverwritten(c)
<1>1. \A i \in 1..Len(c) : c[i] \in Instrs
  OBVIOUS
<1>2. QED  BY <1>1 DEF UndefsAreOverwritten, UndefsOverwritten

\* check_invariants(), instruction by instruction
LEMMA SoundIs ==
    ASSUME NEW c, IsProgram(c)
    PROVE  Sound(c) <=> /\ c # <<>> /\ c[1].kind = "label"
                        /\ \A i \in 1..Len(c) : Reached(c, i) =>
                             c[i].maybe_read \subseteq recompute_defs(c)[i]
                        /\ LiveOuts \subseteq recompute_defs(c)[Exit(c)]
<1> DEFINE def == recompute_defs(c)
           R == recompute_reachable(c)
<1>0. Len(c) \in Nat
  BY DEF IsProgram
<1>1. ASSUME NEW b \in R, NEW i \in InstrsOf(c, b) PROVE i \in 1..Len(c) /\ Reached(c, i)
  <2>1. b # Entry /\ b # Exit(c) /\ i \in b..LastOf(c, b)
    BY <1>1 DEF InstrsOf, LastOf
  <2>2. QED  BY <2>1, InReachable
<1>2. ASSUME NEW i \in 1..Len(c), Reached(c, i)
      PROVE  BlockOf(c, i) \in R /\ i \in InstrsOf(c, BlockOf(c, i))
  BY <1>2, InBlock DEF Reached
<1>3. invariant_no_undef_reads(c, def, R) <=>
        \A i \in 1..Len(c) : Reached(c, i) => c[i].maybe_read \subseteq def[i]
  BY <1>1, <1>2 DEF invariant_no_undef_reads
<1>4. QED  BY <1>3 DEF Sound, check_invariants, invariant_no_undef_live_outs

\* What is defined and live behind an instruction was defined and live before it, or is
\* written by it.
LEMMA CarriedBack ==
    ASSUME NEW c, IsProgram(c), UndefsOverwritten(c), NEW p \in 1..Len(c), Reached(c, p),
           NEW s \in Flow(c, p), NEW r \in recompute_defs(c)[s] \cap Live(c, s)
    PROVE  /\ r \in recompute_liveness(c)[p]
           /\ r \notin c[p].maybe_undef
           /\ r \in c[p].must_write \/ r \in recompute_defs(c)[p] \cap Live(c, p)
<1>1. r \in DefAfter(c[p], recompute_defs(c)[p])
  BY DefsFlow
<1>2. r \in recompute_liveness(c)[p]
  BY LiveFlow
<1>3. p # Exit(c) /\ c[p].must_undef \subseteq c[p].maybe_undef
  BY DEF IsProgram, WellFormed, Exit
<1>4. QED  BY <1>1, <1>2, <1>3 DEF DefAfter, Live, LiveBefore

\* Taking out what is not reached, or keeps nothing alive, leaves the invariants intact.
LEMMA DropSound ==
    ASSUME UndefsAreOverwritten,
           NEW c \in Seq(Instrs), Sound(c), NEW i \in 1..Len(c), Removable(c, i)
    PROVE  Sound(Drop(c, i))
<1> DEFINE d == Drop(c, i)
           def == recompute_defs(c)
           Kept(p) == def[p] \cap Live(c, p)
           D == [q \in 1..Exit(d) |-> Kept(Up(i, q)) \cap Reg]
<1>0. c # <<>> /\ c[1].kind = "label"
  BY DEF Sound, check_invariants
<1>1. IsProgram(c) /\ Len(c) \in Nat \ {0} /\ Exit(c) = Len(c) + 1
  BY <1>0, ProgramIs
<1>2. /\ \A p \in 1..Len(c) : Reached(c, p) => c[p].maybe_read \subseteq def[p]
      /\ LiveOuts \subseteq def[Exit(c)]
  BY <1>1, SoundIs
<1>3. /\ d # <<>> /\ IsProgram(d) /\ d[1] = c[1] /\ Up(i, 1) = 1 /\ Down(i, 1) = 1
      /\ Down(i, Exit(c)) = Exit(d) /\ Up(i, Exit(d)) = Exit(c)
  BY <1>0, RemovableIs
<1>4. Len(d) = Len(c) - 1 /\ Exit(d) = Len(c)
      /\ \A q \in 1..Len(d) : /\ Up(i, q) \in 1..Len(c) /\ Up(i, q) # i /\ Down(i, Up(i, q)) = q
                              /\ d[q] = c[Up(i, q)]
  BY DropIs
<1>5. /\ \A p \in 1..Exit(c) : Reached(c, p) => Reached(d, Down(i, p))
      /\ \A q \in 1..Exit(d) : Reached(d, q) => Reached(c, Up(i, q))
  BY <1>0, DropReached
<1>6. UndefsOverwritten(c)
  BY UndefsOf
<1> HIDE DEF d
<1>7. ASSUME NEW q \in 1..Len(d), Reached(d, q), NEW t \in Flow(d, q)
      PROVE  D[t] \subseteq DefAfter(d[q], D[q])
  <2> DEFINE p == Up(i, q)
  <2>1. /\ p \in 1..Len(c) /\ p # i /\ Down(i, p) = q /\ d[q] = c[p]
        /\ Reached(c, p) /\ q \in 1..Exit(d)
    BY <1>1, <1>4, <1>5, <1>7
  <2>2. D[q] = Kept(p) \cap Reg
    BY <2>1
  <2> HIDE DEF p
  <2>3. t \in 1..Exit(d)
    BY <1>3, FlowIs
  <2>4. PICK s \in Flow(c, p) : t = Down(i, s)
    BY <1>0, <1>7, <2>1, DropFlow DEF d
  <2>5. s \in 1..Exit(c) /\ Reached(c, s)
    BY <1>1, <2>1, <2>4, FlowIs, FlowReached
  <2>6. Kept(Up(i, t)) \subseteq Kept(s)
    <3>1. CASE s = i
      <4>1. Idle(c, i) /\ Reached(c, i)
        BY <2>5, <3>1 DEF Removable
      <4>2. i + 1 \in Flow(c, i)
        BY <4>1 DEF Idle, is_control, Flow
      <4>3. Up(i, t) = i + 1
        BY <1>1, <2>4, <3>1 DEF Up, Down
      <4>4. ASSUME NEW r \in Kept(i + 1) PROVE r \in Kept(i)
        <5>1. r \in recompute_liveness(c)[i] /\ (r \in c[i].must_write \/ r \in Kept(i))
          BY <1>1, <1>6, <4>1, <4>2, CarriedBack
        <5>2. c[i].must_write \subseteq c[i].maybe_write
          BY <1>1 DEF IsProgram, WellFormed
        <5> HIDE DEF Kept
        <5>3. QED  BY <4>1, <5>1, <5>2 DEF Idle
      <4>5. QED  BY <3>1, <4>3, <4>4
    <3>2. CASE s # i
      <4>1. Up(i, t) = s
        BY <1>1, <2>4, <2>5, <3>2 DEF Up, Down
      <4>2. QED  BY <4>1
    <3>3. QED  BY <3>1, <3>2
  <2>7. ASSUME NEW r \in D[t] PROVE r \in DefAfter(d[q], D[q])
    <3>1. r \in Kept(s) /\ r \in Reg
      BY <2>3, <2>6
    <3>2. r \notin c[p].maybe_undef /\ (r \in c[p].must_write \/ r \in Kept(p))
      BY <1>1, <1>6, <2>1, <2>4, <3>1, CarriedBack
    <3> HIDE DEF Kept, D
    <3>3. QED  BY <2>1, <2>2, <3>1, <3>2 DEF DefAfter
  <2>8. QED  BY <2>7
<1>8. Carried(d, D)
  <2>1. \A q \in 1..Exit(d) : D[q] \subseteq Reg
    OBVIOUS
  <2>2. D[1] \subseteq DefIns
    <3>1. 1 \in 1..Exit(d)
      BY <1>1, <1>4
    <3>2. def[1] \subseteq DefIns
      BY <1>1, <1>6, DefsFlow
    <3>3. QED  BY <1>3, <3>1, <3>2
  <2> HIDE DEF D
  <2>3. QED  BY <1>7, <2>1, <2>2 DEF Carried
<1>9. \A q \in 1..Exit(d) : Reached(d, q) => D[q] \subseteq recompute_defs(d)[q]
  <2> HIDE DEF D
  <2>1. QED  BY <1>3, <1>8, DefsGreatest
<1>10. ASSUME NEW q \in 1..Len(d), Reached(d, q)
       PROVE  d[q].maybe_read \subseteq recompute_defs(d)[q]
  <2> DEFINE p == Up(i, q)
  <2>1. p \in 1..Len(c) /\ d[q] = c[p] /\ q \in 1..Exit(d) /\ Reached(c, p)
    BY <1>1, <1>4, <1>5, <1>10
  <2> HIDE DEF p
  <2>2. c[p].maybe_read \subseteq def[p] /\ c[p].maybe_read \subseteq Reg
    BY <1>1, <1>2, <2>1 DEF IsProgram, WellFormed
  <2>3. c[p].maybe_read \subseteq Live(c, p)
    <3>1. p # Exit(c)
      BY <1>1, <2>1
    <3>2. QED  BY <3>1 DEF Live, LiveBefore
  <2>4. D[q] = Kept(p) \cap Reg
    BY <2>1 DEF p
  <2>5. D[q] \subseteq recompute_defs(d)[q]
    BY <1>9, <1>10, <2>1
  <2> HIDE DEF D
  <2>6. QED  BY <2>1, <2>2, <2>3, <2>4, <2>5
<1>11. LiveOuts \subseteq recompute_defs(d)[Exit(d)]
  <2>1. CASE Reached(c, Exit(c))
    <3>1. Reached(d, Exit(d)) /\ Exit(d) \in 1..Exit(d)
      BY <1>1, <1>3, <1>4, <1>5, <2>1
    <3>2. D[Exit(d)] = def[Exit(c)] \cap LiveOuts \cap Reg
      BY <1>3, <3>1 DEF Live
    <3>3. LiveOuts \subseteq Reg
      BY RegAssumption
    <3>4. D[Exit(d)] \subseteq recompute_defs(d)[Exit(d)]
      BY <1>9, <3>1
    <3> HIDE DEF D
    <3>5. QED  BY <1>2, <3>2, <3>3, <3>4
  <2>2. CASE ~Reached(c, Exit(c))
    <3>1. Exit(c) \in recompute_blocks(c) /\ Exit(c) \in 1..(Len(c) + 1)
      BY <1>1, BlocksType
    <3>2. Exit(c) \notin recompute_reachable(c)
      BY <1>1, <2>2, <3>1, BlockOfFirst DEF Reached
    <3>3. def[Exit(c)] = {}
      BY <1>1, <3>1, <3>2, DefsTable
    <3>4. QED  BY <1>2, <3>3
  <2>3. QED  BY <2>1, <2>2
<1>12. QED
  <2>1. Sound(d)
    BY <1>0, <1>3, <1>10, <1>11, SoundIs
  <2>2. QED  BY <2>1 DEF d

-----------------------------------------------------------------------------
(* The passes keep the invariants, and what earlier passes achieved *)

\* The instructions remove_redundant() looks for, if the liveness is current
Spare(c) ==
    {i \in 1..Len(c) :
       /\ ~is_control(c[i]) /\ ~has_side_effects(c[i])
       /\ c[i].maybe_write \cap recompute_liveness(c)[i] = {}}

AllReached(c) == \A i \in 1..Len(c) : Reached(c, i)

NopsIn(c) == {i \in 1..Len(c) : c[i].kind = "nop"}

\* What earlier passes achieved
Achieved ==
    /\ pass \in {"redundant", "nop", "done"} => AllReached(code)
    /\ pass = "unreachable" /\ postprocessing = "full" => AllReached(code)
    /\ pass \in {"unreachable", "nop", "done"} /\ postprocessing = "full" => Spare(code) = {}
    /\ pass = "done" => NopsIn(code) = {}

PostInv ==
    /\ code \in Seq(Instrs)
    /\ Sound(code)
    /\ pass \in {"search", "redundant_unreachable", "redundant", "unreachable", "nop", "done"}
    /\ pass = "search" => original = code
    /\ pass \in {"redundant_unreachable", "redundant"} => postprocessing = "full"
    /\ pass \in {"redundant_unreachable", "redundant", "done"} =>
         live_outs = recompute_liveness(code)
    /\ Achieved

\* The first is one of them.
LEMMA FirstIs ==
    ASSUME NEW removable \in SUBSET (1..Len(code)), removable # {}, code \in Seq(Instrs)
    PROVE  First(removable) \in removable
<1>1. removable \in SUBSET Nat
  OBVIOUS
<1>2. \E x \in removable : \A y \in removable : x <= y
  BY <1>1, LeastElement
<1>3. QED  BY <1>2 DEF First

\* What a pass wants to remove may be removed.
LEMMA PassRemoves ==
    ASSUME PostInv
    PROVE  /\ Unreachable \in SUBSET (1..Len(code)) /\ (Unreachable = {} <=> AllReached(code))
           /\ Nops = NopsIn(code)
           /\ pass = "redundant" => Redundant = Spare(code)
           /\ pass = "done" => Redundant = Spare(code)
           /\ \A i \in Unreachable : Removable(code, i)
           /\ \A i \in Spare(code) : Removable(code, i)
           /\ \A i \in Nops : Removable(code, i) /\ i \in Spare(code)
<1>1. Unreachable = {i \in 1..Len(code) : ~Reached(code, i)}
  BY DEF Unreachable, Reached
<1>2. pass = "redundant" \/ pass = "done" => Redundant = Spare(code)
  BY DEF PostInv, Redundant, Spare
<1>3. ASSUME NEW i \in Nops PROVE i \in Spare(code)
  <2>1. i \in 1..Len(code) /\ code[i].kind = "nop" /\ code[i] \in Instrs
    BY DEF Nops, PostInv
  <2>2. code[i].maybe_write = {} /\ ~code[i].mem
    BY <2>1, PostprocessAssumption
  <2>3. QED  BY <2>1, <2>2 DEF Spare, is_control, has_side_effects
<1>4. \A i \in Spare(code) : Removable(code, i)
  BY DEF Spare, Removable, Idle
<1>5. Unreachable \in SUBSET (1..Len(code)) /\ (Unreachable = {} <=> AllReached(code))
  BY <1>1 DEF AllReached
<1>6. Nops = NopsIn(code)
  BY DEF Nops, NopsIn
<1>7. QED  BY <1>1, <1>2, <1>3, <1>4, <1>5, <1>6 DEF Removable

\* Where nothing was unreachable, nothing is when an idle instruction is gone.
LEMMA DropAllReached ==
    ASSUME NEW c \in Seq(Instrs), c # <<>>, c[1].kind = "label",
           NEW i \in 1..Len(c), Removable(c, i), AllReached(c)
    PROVE  AllReached(Drop(c, i))
<1> SUFFICES ASSUME NEW q \in 1..Len(Drop(c, i)) PROVE Reached(Drop(c, i), q)
  BY DEF AllReached
<1>1. Up(i, q) \in 1..Len(c) /\ Down(i, Up(i, q)) = q
  BY DropIs
<1>2. Up(i, q) \in 1..Exit(c)
  BY <1>1 DEF Exit
<1>3. QED  BY <1>1, <1>2, DropReached DEF AllReached

\* A pass either takes an instruction out, or finds none and leaves the code alone.
LEMMA PassIs ==
    ASSUME PostInv, NEW removable \in SUBSET (1..Len(code)), NEW next_pass,
           Pass(removable, next_pass)
    PROVE  /\ postprocessing' = postprocessing /\ moves' = moves /\ original' = original
           /\ removable = {} => code' = code /\ live_outs' = live_outs /\ pass' = next_pass
           /\ removable # {} =>
                \E i \in removable : /\ code' = Drop(code, i)
                                     /\ live_outs' = recompute_liveness(code')
                                     /\ pass' = pass
<1>1. removable # {} => First(removable) \in removable
  BY FirstIs DEF PostInv
<1>2. \A i : Without(i) = Drop(code, i)
  BY DEF Without, Drop
<1>3. QED  BY <1>1, <1>2 DEF Pass

\* Every pass removes what may be removed, so what it leaves is sound.
LEMMA PassSound ==
    ASSUME UndefsAreOverwritten, PostInv, NEW i \in 1..Len(code), Removable(code, i),
           code' = Drop(code, i)
    PROVE  code' \in Seq(Instrs) /\ Sound(code)' /\ (AllReached(code) => AllReached(code'))
<1>1. code \in Seq(Instrs) /\ Sound(code)
  BY DEF PostInv
<1>2. code # <<>> /\ code[1].kind = "label"
  BY <1>1 DEF Sound, check_invariants
<1>3. Drop(code, i) \in Seq(Instrs) /\ Sound(Drop(code, i))
  BY <1>1, DropIs, DropSound
<1>4. AllReached(code) => AllReached(Drop(code, i))
  BY <1>1, <1>2, DropAllReached
<1>5. Sound(code)'
  BY <1>3
<1>6. QED  BY <1>3, <1>4, <1>5

\* remove_redundant() keeps the invariant.
LEMMA RedundantInv ==
    ASSUME UndefsAreOverwritten, PostInv, remove_redundant
    PROVE  PostInv'
<1>0. /\ Unreachable \in SUBSET (1..Len(code)) /\ (Unreachable = {} <=> AllReached(code))
      /\ pass = "redundant" => Redundant = Spare(code)
      /\ \A i \in Unreachable : Removable(code, i)
      /\ \A i \in Spare(code) : Removable(code, i)
  BY PassRemoves
<1>1. CASE pass = "redundant_unreachable" /\ Pass(Unreachable, "redundant")
  <2>1. postprocessing' = postprocessing /\ postprocessing = "full"
    BY <1>0, <1>1, PassIs DEF PostInv
  <2>2. CASE Unreachable = {}
    <3>1. code' = code /\ live_outs' = live_outs /\ pass' = "redundant"
      BY <1>0, <1>1, <2>2, PassIs
    <3>2. Sound(code)' /\ code' \in Seq(Instrs) /\ live_outs' = recompute_liveness(code')
      BY <1>1, <3>1 DEF PostInv
    <3>3. AllReached(code')
      BY <1>0, <2>2, <3>1
    <3>4. QED  BY <2>1, <3>1, <3>2, <3>3 DEF PostInv, Achieved
  <2>3. CASE Unreachable # {}
    <3>1. PICK i \in Unreachable : /\ code' = Drop(code, i)
                                   /\ live_outs' = recompute_liveness(code')
                                   /\ pass' = pass
      BY <1>0, <1>1, <2>3, PassIs
    <3>2. code' \in Seq(Instrs) /\ Sound(code)'
      BY <1>0, <3>1, PassSound
    <3>3. QED  BY <1>1, <2>1, <3>1, <3>2 DEF PostInv, Achieved
  <2>4. QED  BY <2>2, <2>3
<1>2. CASE pass = "redundant" /\ Pass(Redundant, "unreachable")
  <2>0. Redundant \in SUBSET (1..Len(code)) /\ Redundant = Spare(code)
    BY <1>0, <1>2 DEF Spare
  <2>1. postprocessing' = postprocessing /\ postprocessing = "full" /\ AllReached(code)
    BY <1>2, <2>0, PassIs DEF PostInv, Achieved
  <2>2. CASE Redundant = {}
    <3>1. code' = code /\ live_outs' = live_outs /\ pass' = "unreachable"
      BY <1>2, <2>0, <2>2, PassIs
    <3>2. Sound(code)' /\ code' \in Seq(Instrs) /\ AllReached(code') /\ Spare(code') = {}
      BY <2>0, <2>1, <2>2, <3>1 DEF PostInv
    <3>3. QED  BY <2>1, <3>1, <3>2 DEF PostInv, Achieved
  <2>3. CASE Redundant # {}
    <3>1. PICK i \in Redundant : /\ code' = Drop(code, i)
                                 /\ live_outs' = recompute_liveness(code')
                                 /\ pass' = pass
      BY <1>2, <2>0, <2>3, PassIs
    <3>2. i \in 1..Len(code) /\ Removable(code, i)
      BY <1>0, <2>0
    <3>3. code' \in Seq(Instrs) /\ Sound(code)' /\ AllReached(code')
      BY <2>1, <3>1, <3>2, PassSound
    <3>4. QED  BY <1>2, <2>1, <3>1, <3>3 DEF PostInv, Achieved
  <2>4. QED  BY <2>2, <2>3
<1>3. QED  BY <1>1, <1>2 DEF remove_redundant

\* remove_unreachable() keeps the invariant.
LEMMA UnreachableInv ==
    ASSUME UndefsAreOverwritten, PostInv, remove_unreachable
    PROVE  PostInv'
<1>0. /\ Unreachable \in SUBSET (1..Len(code)) /\ (Unreachable = {} <=> AllReached(code))
      /\ \A i \in Unreachable : Removable(code, i)
  BY PassRemoves
<1>1. pass = "unreachable" /\ Pass(Unreachable, "nop")
  BY DEF remove_unreachable
<1>2. postprocessing' = postprocessing
  BY <1>0, <1>1, PassIs
<1>3. CASE Unreachable = {}
  <2>1. code' = code /\ live_outs' = live_outs /\ pass' = "nop"
    BY <1>0, <1>1, <1>3, PassIs
  <2>2. Sound(code)' /\ code' \in Seq(Instrs) /\ AllReached(code')
    BY <1>0, <1>3, <2>1 DEF PostInv
  <2>3. postprocessing = "full" => Spare(code') = {}
    BY <1>1, <2>1 DEF PostInv, Achieved
  <2>4. QED  BY <1>2, <2>1, <2>2, <2>3 DEF PostInv, Achieved
<1>4. CASE Unreachable # {}
  <2>1. postprocessing # "full"
    BY <1>0, <1>1, <1>4 DEF PostInv, Achieved
  <2>2. PICK i \in Unreachable : /\ code' = Drop(code, i)
                                 /\ live_outs' = recompute_liveness(code')
                                 /\ pass' = pass
    BY <1>0, <1>1, <1>4, PassIs
  <2>3. code' \in Seq(Instrs) /\ Sound(code)'
    BY <1>0, <2>2, PassSound
  <2>4. QED  BY <1>1, <1>2, <2>1, <2>2, <2>3 DEF PostInv, Achieved
<1>5. QED  BY <1>3, <1>4

\* remove_nop() keeps the invariant: after full postprocessing it finds none.
LEMMA NopInv ==
    ASSUME UndefsAreOverwritten, PostInv, remove_nop
    PROVE  PostInv'
<1>0. /\ Nops = NopsIn(code) /\ \A i \in Nops : Removable(code, i) /\ i \in Spare(code)
      /\ Nops \in SUBSET (1..Len(code))
  BY PassRemoves DEF Nops
<1>1. pass = "nop" /\ AllReached(code) /\ (postprocessing = "full" => Spare(code) = {})
  BY DEF remove_nop, PostInv, Achieved
<1>2. CASE Nops # {} /\ Pass(Nops, "nop")
  <2>1. postprocessing # "full" /\ postprocessing' = postprocessing
    BY <1>0, <1>1, <1>2, PassIs
  <2>2. PICK i \in Nops : /\ code' = Drop(code, i)
                          /\ live_outs' = recompute_liveness(code')
                          /\ pass' = pass
    BY <1>0, <1>2, PassIs
  <2>3. code' \in Seq(Instrs) /\ Sound(code)' /\ AllReached(code')
    BY <1>0, <1>1, <2>2, PassSound
  <2>4. QED  BY <1>1, <2>1, <2>2, <2>3 DEF PostInv, Achieved
<1>3. CASE /\ Nops = {}
           /\ live_outs' = recompute_liveness(code)
           /\ pass' = "done"
           /\ UNCHANGED <<code, postprocessing, moves, original>>
  <2>1. code' = code /\ postprocessing' = postprocessing
    BY <1>3
  <2>2. code' \in Seq(Instrs) /\ Sound(code)' /\ AllReached(code') /\ NopsIn(code') = {}
        /\ live_outs' = recompute_liveness(code')
    BY <1>0, <1>1, <1>3, <2>1 DEF PostInv
  <2>3. postprocessing' = "full" => Spare(code') = {}
    BY <1>1, <2>1
  <2>4. QED  BY <1>3, <2>1, <2>2, <2>3 DEF PostInv, Achieved
<1>4. QED  BY <1>2, <1>3 DEF remove_nop

\* A transform of the search keeps the invariant.
LEMMA TransformedInv ==
    ASSUME PostInv, NEW new \in Seq(Instrs), Transformed(new)
    PROVE  PostInv'
<1>1. pass = "search" /\ pass' = "search" /\ code' = new /\ original' = new /\ Sound(new)
  BY DEF Transformed
<1>2. Sound(code)' /\ code' \in Seq(Instrs)
  BY <1>1
<1>3. QED  BY <1>1, <1>2 DEF PostInv, Achieved

\* So does the beginning of postprocessing.
LEMMA BeginInv ==
    ASSUME LivenessCurrent, PostInv, SearchReturns \/ CallbackCopies
    PROVE  PostInv'
<1>1. pass = "search" /\ code' = code /\ original' = original
  BY DEF SearchReturns, CallbackCopies, Begin
<1>2. Sound(code)' /\ code' \in Seq(Instrs)
  BY <1>1 DEF PostInv
<1>3. CASE pass' = "redundant_unreachable" /\ postprocessing' = "full"
           /\ live_outs' = recompute_liveness(code)
  BY <1>1, <1>2, <1>3 DEF PostInv, Achieved
<1>4. CASE pass' = "unreachable" /\ postprocessing' = "simple"
  BY <1>1, <1>2, <1>4 DEF PostInv, Achieved
<1>5. QED  BY <1>3, <1>4 DEF SearchReturns, CallbackCopies, Begin, LivenessCurrent

\* Every step keeps the invariant.
LEMMA PostInvStep ==
    ASSUME LivenessCurrent, UndefsAreOverwritten, PostInv, [Next]_vars
    PROVE  PostInv'
<1>0. code \in Seq(Instrs) /\ \A i \in 1..Len(code) : code[i] \in Instrs
  BY DEF PostInv
<1>1. ASSUME NEW i \in 1..Len(code), NEW instr \in Replacements, Replace(i, instr) PROVE PostInv'
  <2>1. instr \in Instrs
    BY DEF Instrs
  <2>2. [code EXCEPT ![i] = instr] \in Seq(Instrs)
    BY <1>0, <2>1
  <2>3. QED  BY <1>1, <2>2, TransformedInv DEF Replace
<1>2. ASSUME NEW i \in 1..Len(code), NEW j \in 1..(i-1), Swap(i, j) PROVE PostInv'
  <2>1. j \in 1..Len(code)
    BY <1>0
  <2>2. [code EXCEPT ![i] = code[j], ![j] = code[i]] \in Seq(Instrs)
    BY <1>0, <2>1
  <2>3. QED  BY <1>2, <2>2, TransformedInv DEF Swap
<1>3. CASE SearchReturns \/ CallbackCopies
  BY <1>3, BeginInv
<1>4. CASE remove_redundant
  BY <1>4, RedundantInv
<1>5. CASE remove_unreachable
  BY <1>5, UnreachableInv
<1>6. CASE remove_nop
  BY <1>6, NopInv
<1>7. CASE UNCHANGED vars
  <2>1. code' = code /\ live_outs' = live_outs /\ pass' = pass
        /\ postprocessing' = postprocessing /\ original' = original
    BY <1>7 DEF vars
  <2>2. Sound(code)'
    BY <2>1 DEF PostInv
  <2>3. QED  BY <2>1, <2>2 DEF PostInv, Achieved
<1>8. QED  BY <1>1, <1>2, <1>3, <1>4, <1>5, <1>6, <1>7 DEF Next

\* It holds when the search starts.
LEMMA PostInvInit ==
    ASSUME Init
    PROVE  PostInv
<1>1. code \in Seq(Instrs)
  BY PostprocessAssumption DEF Init
<1>2. QED  BY <1>1 DEF Init, PostInv, Achieved

\* Whatever the search found, check_invariants() holds on entry to every pass and on exit
\* from it: no assertion of cfg_transforms.cc about the Cfg fails.
THEOREM InvariantsKeptHolds ==
    ASSUME LivenessCurrent, UndefsAreOverwritten
    PROVE  Spec => []InvariantsKept
<1>1. Init => PostInv
  BY PostInvInit
<1>2. PostInv /\ [Next]_vars => PostInv'
  BY PostInvStep
<1>3. PostInv => InvariantsKept
  BY DEF PostInv, InvariantsKept
<1>4. QED  BY <1>1, <1>2, <1>3, PTL DEF Spec

\* One round of the passes is enough for every program: what a pass removed, or left
\* alone, gives an earlier pass nothing new to remove.
THEOREM NothingLeftHolds ==
    ASSUME LivenessCurrent, UndefsAreOverwritten
    PROVE  Spec => []NothingLeft
<1>1. Init => PostInv
  BY PostInvInit
<1>2. PostInv /\ [Next]_vars => PostInv'
  BY PostInvStep
<1>3. ASSUME PostInv PROVE NothingLeft
  <2>1. /\ Unreachable = {} <=> AllReached(code)
        /\ Nops = NopsIn(code)
        /\ pass = "done" => Redundant = Spare(code)
    BY <1>3, PassRemoves
  <2>2. QED  BY <1>3, <2>1 DEF PostInv, Achieved, NothingLeft
<1>4. PostInv => NothingLeft
  BY <1>3
<1>5. QED  BY <1>1, <1>2, <1>4, PTL DEF Spec

-----------------------------------------------------------------------------
(* What a program returns within a number of steps *)

Machines(c) == (1..Exit(c)) \X SUBSET Bits

Outcomes == ({"returns"} \X SUBSET Bits) \cup {<<"runs on", {}>>}

\* A step of the machine
StepFrom(c, at) == <<NextPc(c, at[1], at[2]), After(c[at[1]], at[2])>>

\* What is known of the outcomes with k steps, given what is known with one step less
Known(c, k, less) ==
    [at \in Machines(c) |->
       IF at[1] = Exit(c) THEN <<"returns", at[2] \cap (LiveOuts \cup {Memory})>>
       ELSE IF k = 0 THEN <<"runs on", {}>> ELSE less[StepFrom(c, at)]]

\* out tells the outcomes with up to n steps.
Outs(c, n, out) ==
    /\ out \in [0..n -> [Machines(c) -> Outcomes]]
    /\ \A k \in 0..n : out[k] = Known(c, k, out[k-1])

\* A step leads to a machine state.
LEMMA StepType ==
    ASSUME NEW c \in Seq(Instrs), c # <<>>, NEW at \in Machines(c), at[1] # Exit(c)
    PROVE  StepFrom(c, at) \in Machines(c)
<1>1. IsProgram(c) /\ Len(c) \in Nat \ {0} /\ Exit(c) = Len(c) + 1
      /\ \A i \in 1..Len(c) : c[i] \in Instrs
  BY ProgramIs
<1>2. at[1] \in 1..Len(c) /\ at[2] \in SUBSET Bits
  BY <1>1 DEF Machines
<1>3. \A l : Dest(c, l) \in 1..Exit(c)
  BY <1>1, DestIsBlock, BlocksType
<1>4. NextPc(c, at[1], at[2]) \in 1..Exit(c)
  BY <1>1, <1>2, <1>3 DEF NextPc
<1>5. After(c[at[1]], at[2]) \in SUBSET Bits
  <2>1. WellFormed(c[at[1]])
    BY <1>1, <1>2, PostprocessAssumption
  <2>2. Written(c[at[1]]) \subseteq Bits
    BY <2>1 DEF Written, WellFormed, Bits
  <2>3. QED  BY <1>2, <2>2 DEF After
<1>6. QED  BY <1>4, <1>5 DEF StepFrom, Machines

\* Known() has the type of an outcome table.
LEMMA KnownType ==
    ASSUME NEW c \in Seq(Instrs), c # <<>>, NEW k, NEW less,
           k # 0 => less \in [Machines(c) -> Outcomes]
    PROVE  Known(c, k, less) \in [Machines(c) -> Outcomes]
<1> SUFFICES ASSUME NEW at \in Machines(c)
             PROVE  (IF at[1] = Exit(c) THEN <<"returns", at[2] \cap (LiveOuts \cup {Memory})>>
                     ELSE IF k = 0 THEN <<"runs on", {}>> ELSE less[StepFrom(c, at)]) \in Outcomes
  BY DEF Known
<1>1. <<"returns", at[2] \cap (LiveOuts \cup {Memory})>> \in Outcomes
  <2>1. at[2] \cap (LiveOuts \cup {Memory}) \in SUBSET Bits
    BY DEF Machines
  <2>2. QED  BY <2>1 DEF Outcomes
<1>2. <<"runs on", {}>> \in Outcomes
  BY DEF Outcomes
<1>3. ASSUME at[1] # Exit(c), k # 0 PROVE less[StepFrom(c, at)] \in Outcomes
  BY <1>3, StepType
<1>4. QED  BY <1>1, <1>2, <1>3

\* Within() is the last of the outcome tables.
LEMMA WithinTable ==
    ASSUME NEW c \in Seq(Instrs), c # <<>>, NEW n \in Nat
    PROVE  \E out : Outs(c, n, out) /\ Within(c, n) = out[n]
<1> DEFINE F(f) == [k \in 0..n |-> Known(c, k, f[k-1])]
           h == CHOOSE f : f = F(f)
           S == [Machines(c) -> Outcomes]
           start == Known(c, 0, 0)
           step == [p \in (1..n) \X S |-> Known(c, p[1], p[2])]
<1>1. Within(c, n) = h[n]
  BY DEF Within, Known, StepFrom, Machines
<1>2. start \in S
  BY KnownType
<1>3. \A k \in 1..n : \A less \in S : Known(c, k, less) \in S
  BY KnownType
<1>4. step \in [(1..n) \X S -> S]
  <2> HIDE DEF S
  <2>1. QED  BY <1>3
<1>5. PICK f : Recursive(f, n, S, start, step)
  <2> HIDE DEF S, start, step
  <2>1. QED  BY <1>2, <1>4, Recursion
<1>6. \A less : Known(c, 0, less) = start
  BY DEF Known
<1>7. ASSUME NEW k \in 0..n PROVE f[k] = Known(c, k, f[k-1])
  <2>1. CASE k = 0
    <3> HIDE DEF start
    <3>1. QED  BY <1>5, <1>6, <2>1 DEF Recursive
  <2>2. CASE k # 0
    <3>1. k \in 1..n /\ k - 1 \in 0..n
      BY <2>2
    <3>2. f[k-1] \in S
      <4> HIDE DEF S
      <4>1. QED  BY <1>5, <3>1 DEF Recursive
    <3>3. f[k] = step[<<k, f[k-1]>>]
      <4> HIDE DEF step, S
      <4>1. QED  BY <1>5, <3>1 DEF Recursive
    <3>4. step[<<k, f[k-1]>>] = Known(c, k, f[k-1])
      <4> HIDE DEF S
      <4>1. QED  BY <3>1, <3>2
    <3>5. QED  BY <3>3, <3>4
  <2>3. QED  BY <2>1, <2>2
<1>8. f = F(f)
  <2>1. f \in [0..n -> S]
    <3> HIDE DEF S
    <3>1. QED  BY <1>5 DEF Recursive
  <2> HIDE DEF S
  <2>2. QED  BY <1>7, <2>1
<1>9. h = F(h)
  BY <1>8
<1> HIDE DEF h
<1>10. \A k \in 0..n : h[k] = Known(c, k, h[k-1])
  BY <1>9
<1> DEFINE T == {k \in 0..n : h[k] \in S}
<1>11. \A k \in 0..n : k \in T
  <2>1. 0 \in T
    <3>1. 0 \in 0..n /\ h[0] = start
      BY <1>6, <1>10
    <3> HIDE DEF start, S
    <3>2. QED  BY <1>2, <3>1
  <2>2. \A k \in 0..(n-1) : k \in T => k + 1 \in T
    <3> SUFFICES ASSUME NEW k \in 0..(n-1), k \in T PROVE k + 1 \in T
      OBVIOUS
    <3>1. k + 1 \in 1..n /\ k + 1 \in 0..n /\ (k + 1) - 1 = k
      OBVIOUS
    <3>2. h[k+1] = Known(c, k + 1, h[k])
      BY <1>10, <3>1
    <3> HIDE DEF S
    <3>3. QED  BY <1>3, <3>1, <3>2
  <2> HIDE DEF T
  <2>3. QED  BY <2>1, <2>2, InductionFromZero
<1>12. h \in [0..n -> S]
  <2> HIDE DEF S
  <2>1. QED  BY <1>9, <1>11
<1>13. QED  BY <1>1, <1>10, <1>12 DEF Outs

\* The table for fewer steps is a part of the table for more.
LEMMA OutsAgree ==
    ASSUME NEW c \in Seq(Instrs), c # <<>>, NEW m \in Nat, NEW n \in Nat, m <= n,
           NEW f, Outs(c, m, f), NEW g, Outs(c, n, g)
    PROVE  f[m] = g[m]
<1> DEFINE T == {k \in 0..m : f[k] = g[k]}
<1>1. 0 \in T
  <2>1. 0 \in 0..m /\ 0 \in 0..n
    OBVIOUS
  <2>2. f[0] = Known(c, 0, f[0-1]) /\ g[0] = Known(c, 0, g[0-1])
    BY <2>1 DEF Outs
  <2>3. Known(c, 0, f[0-1]) = Known(c, 0, g[0-1])
    BY DEF Known
  <2>4. QED  BY <2>1, <2>2, <2>3
<1>2. \A k \in 0..(m-1) : k \in T => k + 1 \in T
  <2> SUFFICES ASSUME NEW k \in 0..(m-1), k \in T PROVE k + 1 \in T
    OBVIOUS
  <2>1. k + 1 \in 0..m /\ k + 1 \in 0..n /\ (k + 1) - 1 = k
    OBVIOUS
  <2>2. f[k+1] = Known(c, k + 1, f[k]) /\ g[k+1] = Known(c, k + 1, g[k])
    BY <2>1 DEF Outs
  <2>3. QED  BY <2>1, <2>2
<1>3. m \in T
  <2>1. m \in 0..m
    OBVIOUS
  <2> HIDE DEF T
  <2>2. QED  BY <1>1, <1>2, <2>1, InductionFromZero
<1>4. QED  BY <1>3

\* Within(), step by step
LEMMA WithinIs ==
    ASSUME NEW c \in Seq(Instrs), c # <<>>, NEW n \in Nat
    PROVE  /\ Within(c, n) \in [Machines(c) -> Outcomes]
           /\ Within(c, 0) = Known(c, 0, 0)
           /\ Within(c, n + 1) = Known(c, n + 1, Within(c, n))
<1>1. PICK f : Outs(c, n, f) /\ Within(c, n) = f[n]
  BY WithinTable
<1>2. PICK g : Outs(c, n + 1, g) /\ Within(c, n + 1) = g[n + 1]
  <2>1. n + 1 \in Nat
    OBVIOUS
  <2>2. QED  BY <2>1, WithinTable
<1>3. PICK z : Outs(c, 0, z) /\ Within(c, 0) = z[0]
  <2>1. 0 \in Nat
    OBVIOUS
  <2>2. QED  BY <2>1, WithinTable
<1>4. Within(c, n) \in [Machines(c) -> Outcomes]
  <2>1. n \in 0..n
    OBVIOUS
  <2>2. QED  BY <1>1, <2>1 DEF Outs
<1>5. f[n] = g[n]
  <2>1. n + 1 \in Nat /\ n <= n + 1
    OBVIOUS
  <2>2. QED  BY <1>1, <1>2, <2>1, OutsAgree
<1>6. g[n+1] = Known(c, n + 1, g[n])
  <2>1. n + 1 \in 0..(n+1) /\ (n + 1) - 1 = n
    OBVIOUS
  <2>2. QED  BY <1>2, <2>1 DEF Outs
<1>7. z[0] = Known(c, 0, 0)
  <2>1. 0 \in 0..0
    OBVIOUS
  <2>2. z[0] = Known(c, 0, z[0-1])
    BY <1>3, <2>1 DEF Outs
  <2>3. QED  BY <2>2 DEF Known
<1>8. QED  BY <1>1, <1>2, <1>3, <1>4, <1>5, <1>6, <1>7

\* The run from instruction p and state x returns out in at most n steps.
Returns(c, n, p, x, out) == Within(c, n)[<<p, x>>] = <<"returns", out>>

\* At the exit the run has returned.
LEMMA ReturnsAtExit ==
    ASSUME NEW c \in Seq(Instrs), c # <<>>, NEW n \in Nat, NEW x \in SUBSET Bits, NEW out
    PROVE  Returns(c, n, Exit(c), x, out) <=> out = x \cap (LiveOuts \cup {Memory})
<1>1. IsProgram(c) /\ Exit(c) = Len(c) + 1 /\ Len(c) \in Nat
  BY ProgramIs
<1> DEFINE at == <<Exit(c), x>>
<1>2. at \in Machines(c) /\ at[1] = Exit(c) /\ at[2] = x
  BY <1>1 DEF Machines
<1> HIDE DEF at
<1>3. \A k, less : Known(c, k, less)[at] = <<"returns", x \cap (LiveOuts \cup {Memory})>>
  BY <1>2 DEF Known
<1>4. \E k, less : Within(c, n) = Known(c, k, less)
  <2>1. CASE n = 0
    BY <2>1, WithinIs
  <2>2. CASE n # 0
    <3>1. n - 1 \in Nat /\ (n - 1) + 1 = n
      BY <2>2
    <3>2. Within(c, (n - 1) + 1) = Known(c, (n - 1) + 1, Within(c, n - 1))
      BY <3>1, WithinIs
    <3>3. QED  BY <3>1, <3>2
  <2>3. QED  BY <2>1, <2>2
<1>5. Within(c, n)[at] = <<"returns", x \cap (LiveOuts \cup {Memory})>>
  BY <1>3, <1>4
<1>6. QED  BY <1>5 DEF Returns, at

\* Elsewhere no run has returned before its first step, and with one step more it returns
\* what it returns from there.
LEMMA ReturnsStep ==
    ASSUME NEW c \in Seq(Instrs), c # <<>>, NEW p \in 1..Len(c), NEW x \in SUBSET Bits
    PROVE  /\ \A out : ~Returns(c, 0, p, x, out)
           /\ \A n \in Nat : \A out :
                Returns(c, n + 1, p, x, out) <=>
                  Returns(c, n, NextPc(c, p, x), After(c[p], x), out)
           /\ NextPc(c, p, x) \in 1..Exit(c)
           /\ After(c[p], x) \in SUBSET Bits
<1>1. IsProgram(c) /\ Exit(c) = Len(c) + 1 /\ Len(c) \in Nat
  BY ProgramIs
<1> DEFINE at == <<p, x>>
<1>2. at \in Machines(c) /\ at[1] # Exit(c) /\ at[1] = p /\ at[2] = x
  BY <1>1 DEF Machines
<1>3. StepFrom(c, at) = <<NextPc(c, p, x), After(c[p], x)>> /\ StepFrom(c, at) \in Machines(c)
  BY <1>2, StepType DEF StepFrom
<1> HIDE DEF at
<1>4. \A out : ~Returns(c, 0, p, x, out)
  <2>1. Within(c, 0) = Known(c, 0, 0)
    <3>1. 0 \in Nat
      OBVIOUS
    <3>2. QED  BY <3>1, WithinIs
  <2>2. Within(c, 0)[at] = <<"runs on", {}>>
    BY <1>2, <2>1 DEF Known
  <2>3. \A out : <<"runs on", {}>> # <<"returns", out>>
    OBVIOUS
  <2>4. QED  BY <2>2, <2>3 DEF Returns, at
<1>5. ASSUME NEW n \in Nat
      PROVE  Within(c, n + 1)[at] = Within(c, n)[StepFrom(c, at)]
  <2>1. Within(c, n + 1) = Known(c, n + 1, Within(c, n))
    BY WithinIs
  <2>2. n + 1 # 0
    OBVIOUS
  <2>3. QED  BY <1>2, <2>1, <2>2 DEF Known
<1>6. \A n \in Nat : \A out :
        Returns(c, n + 1, p, x, out) <=> Returns(c, n, NextPc(c, p, x), After(c[p], x), out)
  BY <1>3, <1>5 DEF Returns, at
<1>7. QED  BY <1>3, <1>4, <1>6 DEF Machines

\* The number of machine states
States(c) == Exit(c) * 2^Cardinality(Bits)

\* There are that many.
LEMMA StatesCounted ==
    ASSUME NEW c \in Seq(Instrs), c # <<>>
    PROVE  IsFiniteSet(Machines(c)) /\ States(c) \in Nat /\ Cardinality(Machines(c)) = States(c)
<1>1. Exit(c) \in Nat /\ Exit(c) >= 1
  BY ProgramIs
<1>2. IsFiniteSet(1..Exit(c)) /\ Cardinality(1..Exit(c)) = Exit(c)
  <2>1. 1 \in Int /\ Exit(c) \in Int
    BY <1>1
  <2>2. /\ IsFiniteSet(1..Exit(c))
        /\ Cardinality(1..Exit(c)) = IF 1 > Exit(c) THEN 0 ELSE Exit(c) - 1 + 1
    BY <2>1, FS_Interval
  <2>3. QED  BY <1>1, <2>2
<1>3. IsFiniteSet(Bits)
  BY RegAssumption, FS_AddElement DEF Bits
<1>4. IsFiniteSet(SUBSET Bits) /\ Cardinality(SUBSET Bits) = 2^Cardinality(Bits)
  BY <1>3, FS_SUBSET
<1>5. IsFiniteSet(Machines(c)) /\ Cardinality(Machines(c)) = Exit(c) * 2^Cardinality(Bits)
  <2> DEFINE P == 1..Exit(c)
             S == SUBSET Bits
  <2>1. IsFiniteSet(P) /\ IsFiniteSet(S)
    BY <1>2, <1>4
  <2>2. IsFiniteSet(P \X S) /\ Cardinality(P \X S) = Cardinality(P) * Cardinality(S)
    <3> HIDE DEF P, S
    <3>1. QED  BY <2>1, FS_Product, Zenon
  <2>3. QED  BY <1>2, <1>4, <2>2, Zenon DEF Machines
<1>6. Cardinality(Machines(c)) \in Nat
  BY <1>5, FS_CardinalityType
<1>7. QED  BY <1>5, <1>6 DEF States

\* A run that has returned has returned with one step more as well.
LEMMA ReturnsLonger ==
    ASSUME NEW c \in Seq(Instrs), c # <<>>, NEW n \in Nat, NEW p \in 1..Exit(c),
           NEW x \in SUBSET Bits, NEW out, Returns(c, n, p, x, out)
    PROVE  Returns(c, n + 1, p, x, out)
<1>0. Exit(c) = Len(c) + 1 /\ Len(c) \in Nat
  BY ProgramIs
<1> DEFINE Longer(k) == \A q \in 1..Exit(c) : \A y \in SUBSET Bits : \A o :
             Returns(c, k, q, y, o) => Returns(c, k + 1, q, y, o)
           T == {k \in 0..n : Longer(k)}
<1>1. ASSUME NEW k \in Nat, k # 0 => Longer(k - 1) PROVE Longer(k)
  <2> SUFFICES ASSUME NEW q \in 1..Exit(c), NEW y \in SUBSET Bits, NEW o, Returns(c, k, q, y, o)
               PROVE  Returns(c, k + 1, q, y, o)
    OBVIOUS
  <2>1. CASE q = Exit(c)
    <3>1. k + 1 \in Nat
      OBVIOUS
    <3>2. QED  BY <2>1, <3>1, ReturnsAtExit
  <2>2. CASE q # Exit(c)
    <3>1. q \in 1..Len(c)
      BY <1>0, <2>2
    <3>2. k # 0
      <4>1. ~Returns(c, 0, q, y, o)
        BY <3>1, ReturnsStep
      <4>2. QED  BY <4>1
    <3>3. k - 1 \in Nat /\ (k - 1) + 1 = k
      BY <3>2
    <3>4. Returns(c, (k - 1) + 1, q, y, o)
      BY <3>3
    <3>5. Returns(c, k - 1, NextPc(c, q, y), After(c[q], y), o)
          /\ NextPc(c, q, y) \in 1..Exit(c) /\ After(c[q], y) \in SUBSET Bits
      BY <3>1, <3>3, <3>4, ReturnsStep
    <3>6. Returns(c, k, NextPc(c, q, y), After(c[q], y), o)
      BY <1>1, <3>2, <3>3, <3>5
    <3>7. QED  BY <3>1, <3>6, ReturnsStep
  <2>3. QED  BY <2>1, <2>2
<1> HIDE DEF Longer
<1>2. 0 \in T
  BY <1>1
<1>3. \A k \in 0..(n-1) : k \in T => k + 1 \in T
  <2> SUFFICES ASSUME NEW k \in 0..(n-1), k \in T PROVE k + 1 \in T
    OBVIOUS
  <2>1. k + 1 \in Nat /\ k + 1 \in 0..n /\ (k + 1) - 1 = k
    OBVIOUS
  <2>2. QED  BY <1>1, <2>1
<1>4. n \in T
  <2>1. n \in 0..n
    OBVIOUS
  <2> HIDE DEF T
  <2>2. QED  BY <1>2, <1>3, <2>1, InductionFromZero
<1>5. QED  BY <1>4 DEF Longer

\* Nor do more steps change what it returned.
LEMMA ReturnsMore ==
    ASSUME NEW c \in Seq(Instrs), c # <<>>, NEW m \in Nat, NEW n \in Nat, m <= n,
           NEW p \in 1..Exit(c), NEW x \in SUBSET Bits, NEW out, Returns(c, m, p, x, out)
    PROVE  Returns(c, n, p, x, out)
<1> DEFINE T == {k \in m..n : Returns(c, k, p, x, out)}
<1>1. m \in Int /\ n \in Int /\ (m <= n => m \in T)
  OBVIOUS
<1>2. \A k \in m..(n-1) : k \in T => k + 1 \in T
  <2> SUFFICES ASSUME NEW k \in m..(n-1), k \in T PROVE k + 1 \in T
    OBVIOUS
  <2>1. k \in Nat /\ k + 1 \in m..n
    OBVIOUS
  <2>2. QED  BY <2>1, ReturnsLonger
<1>3. n \in T
  <2>1. n \in m..n
    OBVIOUS
  <2> HIDE DEF T
  <2>2. QED  BY <1>1, <1>2, <2>1, Induction
<1>4. QED  BY <1>3

\* What a run returns is determined.
LEMMA ReturnsOnce ==
    ASSUME NEW c, NEW n, NEW p, NEW x, NEW o1, NEW o2,
           Returns(c, n, p, x, o1), Returns(c, n, p, x, o2)
    PROVE  o1 = o2
<1>1. <<"returns", o1>> = <<"returns", o2>>
  BY DEF Returns
<1>2. QED  BY <1>1

\* The run from p and x returns out.
Ever(c, p, x, out) == \E n \in Nat : Returns(c, n, p, x, out)

\* A run that returns does so within as many steps as there are machine states: the states
\* from which it returns within k steps grow with k, until they stand still.
LEMMA Saturated ==
    ASSUME NEW c \in Seq(Instrs), c # <<>>, NEW p \in 1..Exit(c), NEW x \in SUBSET Bits, NEW out
    PROVE  Ever(c, p, x, out) <=> Returns(c, States(c), p, x, out)
<1>a. ASSUME NEW n \in Nat, NEW y \in SUBSET Bits PROVE \E o : Returns(c, n, Exit(c), y, o)
  <2> DEFINE o == y \cap (LiveOuts \cup {Memory})
  <2>1. Returns(c, n, Exit(c), y, o) <=> o = y \cap (LiveOuts \cup {Memory})
    <3> HIDE DEF o
    <3>1. QED  BY ReturnsAtExit
  <2>2. QED  BY <2>1
<1> DEFINE D == Machines(c)
           B == States(c)
           In(k, at) == \E o : Returns(c, k, at[1], at[2], o)
           f == [k \in 0..(B+1) |-> {at \in D : In(k, at)}]
<1>0. Exit(c) = Len(c) + 1 /\ Len(c) \in Nat
  BY ProgramIs
<1>1. IsFiniteSet(D) /\ B \in Nat /\ Cardinality(D) = B
  BY StatesCounted
<1> HIDE DEF B
<1>2. ASSUME NEW at \in D PROVE at[1] \in 1..Exit(c) /\ at[2] \in SUBSET Bits
  BY DEF Machines
<1>3. ASSUME NEW k \in Nat, NEW at \in D, In(k, at) PROVE In(k + 1, at)
  BY <1>2, <1>3, ReturnsLonger
<1>4. PICK k \in 0..B : \A at \in D : In(k + 1, at) => In(k, at)
  <2>1. \A k \in 0..(B+1) : f[k] = {at \in D : In(k, at)}
    OBVIOUS
  <2> HIDE DEF f, In, D
  <2>2. \A k \in 0..(B+1) : f[k] \in SUBSET D
    BY <2>1
  <2>3. ASSUME NEW k \in 0..B PROVE f[k] \subseteq f[k+1]
    <3>1. k \in Nat /\ k \in 0..(B+1) /\ k + 1 \in 0..(B+1)
      BY <1>1
    <3>2. QED  BY <1>3, <2>1, <3>1
  <2>4. IsFiniteSet(D) /\ Cardinality(D) <= B /\ B \in Nat
    BY <1>1 DEF D
  <2>5. PICK k \in 0..B : f[k] = f[k+1]
    BY <2>2, <2>3, <2>4, Stationary
  <2>6. k \in 0..(B+1) /\ k + 1 \in 0..(B+1)
    BY <1>1
  <2>7. \A at \in D : In(k + 1, at) => In(k, at)
    BY <2>1, <2>5, <2>6
  <2>8. QED  BY <2>7
<1>5. k \in Nat /\ k <= B
  BY <1>1
<1> DEFINE Still(m) == \A at \in D : In(m + 1, at) => In(m, at)
<1>6. ASSUME NEW m \in Nat, Still(m) PROVE Still(m + 1)
  <2> SUFFICES ASSUME NEW at \in D, In((m + 1) + 1, at) PROVE In(m + 1, at)
    OBVIOUS
  <2>0. m + 1 \in Nat
    OBVIOUS
  <2>1. CASE at[1] = Exit(c)
    <3>1. at[2] \in SUBSET Bits
      BY <1>2
    <3>2. QED  BY <1>a, <2>0, <2>1, <3>1
  <2>2. CASE at[1] # Exit(c)
    <3> DEFINE to == <<NextPc(c, at[1], at[2]), After(c[at[1]], at[2])>>
    <3>1. at[1] \in 1..Len(c) /\ at[2] \in SUBSET Bits
      BY <1>0, <1>2, <2>2
    <3>2. to \in D /\ to[1] = NextPc(c, at[1], at[2]) /\ to[2] = After(c[at[1]], at[2])
      BY <3>1, ReturnsStep DEF Machines
    <3> HIDE DEF to, D
    <3>3. In(m + 1, to)
      BY <2>0, <3>1, <3>2, ReturnsStep
    <3>4. In(m, to)
      BY <1>6, <3>2, <3>3
    <3>5. QED  BY <3>1, <3>2, <3>4, ReturnsStep
  <2>3. QED  BY <2>1, <2>2
<1> HIDE DEF In
<1>7. ASSUME NEW n \in Nat, k <= n, NEW at \in D, In(n, at) PROVE In(k, at)
  <2> DEFINE T == {m \in k..n : Still(m) /\ (In(m, at) => In(k, at))}
  <2>1. k \in Int /\ n \in Int /\ (k <= n => k \in T)
    BY <1>4, <1>5, <1>7
  <2>2. ASSUME NEW m \in k..(n-1), m \in T PROVE m + 1 \in T
    <3>1. m \in Nat /\ m + 1 \in k..n
      BY <1>5, <1>7
    <3>2. Still(m) /\ (In(m, at) => In(k, at))
      BY <2>2
    <3>3. Still(m + 1)
      <4> HIDE DEF Still
      <4>1. QED  BY <1>6, <3>1, <3>2
    <3>4. In(m + 1, at) => In(k, at)
      BY <3>2
    <3> HIDE DEF Still
    <3>5. QED  BY <3>1, <3>3, <3>4
  <2>3. n \in T
    <3>1. n \in k..n
      BY <1>5, <1>7
    <3> HIDE DEF T
    <3>2. QED  BY <2>1, <2>2, <3>1, Induction
  <2>4. QED  BY <1>7, <2>3
<1>8. ASSUME NEW n \in Nat, Returns(c, n, p, x, out) PROVE Returns(c, B, p, x, out)
  <2>1. CASE n <= B
    BY <1>1, <1>8, <2>1, ReturnsMore
  <2>2. CASE B < n
    <3> DEFINE at == <<p, x>>
    <3>1. at \in D /\ at[1] = p /\ at[2] = x
      BY DEF Machines
    <3>2. In(n, at)
      BY <1>8, <3>1 DEF In
    <3>3. k <= n /\ B <= n
      BY <1>1, <1>5, <2>2
    <3> HIDE DEF at
    <3>4. In(k, at)
      BY <1>7, <3>1, <3>2, <3>3
    <3>5. PICK o : Returns(c, k, p, x, o)
      BY <3>1, <3>4 DEF In
    <3>6. Returns(c, B, p, x, o)
      BY <1>1, <1>5, <3>5, ReturnsMore
    <3>7. Returns(c, n, p, x, o)
      BY <1>5, <3>3, <3>5, ReturnsMore
    <3>8. QED  BY <1>8, <3>6, <3>7, ReturnsOnce
  <2>3. QED  BY <1>1, <2>1, <2>2
<1>9. Returns(c, B, p, x, out) => Ever(c, p, x, out)
  BY <1>1 DEF Ever
<1>10. QED  BY <1>8, <1>9 DEF Ever, B

\* Programs whose runs return the same have the same result.
LEMMA SameRuns ==
    ASSUME NEW c \in Seq(Instrs), c # <<>>, NEW d \in Seq(Instrs), d # <<>>,
           NEW x \in SUBSET Bits,
           \A out : Ever(c, 1, x, out) <=> Ever(d, 1, x, out)
    PROVE  Result(c, x) = Result(d, x)
<1>1. ASSUME NEW e \in Seq(Instrs), e # <<>>
      PROVE  /\ Result(e, x) \in Outcomes
             /\ \A out : Ever(e, 1, x, out) <=> Result(e, x) = <<"returns", out>>
  <2>1. 1 \in 1..Exit(e)
    BY <1>1, ProgramIs
  <2>2. States(e) \in Nat
    BY <1>1, StatesCounted
  <2>3. Result(e, x) = Within(e, States(e))[<<1, x>>]
    BY DEF Result, States
  <2>4. Result(e, x) \in Outcomes
    <3>1. <<1, x>> \in Machines(e)
      BY <2>1 DEF Machines
    <3>2. QED  BY <1>1, <2>2, <2>3, <3>1, WithinIs
  <2>5. \A out : Ever(e, 1, x, out) <=> Returns(e, States(e), 1, x, out)
    BY <1>1, <2>1, Saturated
  <2>6. QED  BY <2>3, <2>4, <2>5 DEF Returns
<1>2. ASSUME NEW o \in Outcomes PROVE o = <<"runs on", {}>> \/ \E out : o = <<"returns", out>>
  <2>1. CASE o \in {"returns"} \X SUBSET Bits
    <3>1. o = <<"returns", o[2]>>
      BY <2>1
    <3>2. QED  BY <3>1
  <2>2. QED  BY <2>1 DEF Outcomes
<1>4. Result(c, x) \in Outcomes /\ Result(d, x) \in Outcomes
  BY <1>1
<1>5. \A out : Result(c, x) = <<"returns", out>> <=> Result(d, x) = <<"returns", out>>
  BY <1>1
<1>6. CASE \E out : Result(c, x) = <<"returns", out>>
  BY <1>5, <1>6
<1>7. CASE ~\E out : Result(c, x) = <<"returns", out>>
  <2>1. ~\E out : Result(d, x) = <<"returns", out>>
    BY <1>5, <1>7
  <2>2. Result(c, x) = <<"runs on", {}>> /\ Result(d, x) = <<"runs on", {}>>
    BY <1>2, <1>4, <1>7, <2>1
  <2>3. QED  BY <2>2
<1>8. QED  BY <1>6, <1>7

-----------------------------------------------------------------------------
(* A program and the program without the instruction run alike *)

\* What is live is defined: the code of a sound program has no use for an undefined value.
LEMMA LiveDefined ==
    ASSUME UndefsAreOverwritten, NoIndirectJumps, NEW c \in Seq(Instrs), Sound(c)
    PROVE  \A p \in 1..Exit(c) : Reached(c, p) => Live(c, p) \subseteq recompute_defs(c)[p]
<1> DEFINE def == recompute_defs(c)
<1>1. c # <<>>
  BY DEF Sound, check_invariants
<1>2. IsProgram(c) /\ UndefsOverwritten(c) /\ \A p \in 1..Len(c) : c[p].kind # "ijmp"
  BY <1>1, ProgramIs, UndefsOf DEF NoIndirectJumps
<1>3. /\ LiveOuts \subseteq def[Exit(c)]
      /\ \A p \in 1..Len(c) : Reached(c, p) => c[p].maybe_read \subseteq def[p]
  BY <1>2, SoundIs
<1>4. ASSUME NEW p \in 1..Len(c), Reached(c, p), NEW r \in LiveBefore(c[p], Wanted(c, def, p))
      PROVE  r \in def[p]
  <2>1. CASE r \in c[p].maybe_read
    BY <1>3, <1>4, <2>1
  <2>2. CASE r \notin c[p].maybe_read
    <3>1. r \in Wanted(c, def, p) /\ r \notin c[p].must_write
      BY <1>4, <2>2 DEF LiveBefore
    <3>2. PICK s \in Flow(c, p) : r \in def[s]
      BY <1>2, <3>1 DEF Wanted
    <3>3. r \in DefAfter(c[p], def[p])
      BY <1>2, <1>4, <3>2, DefsFlow
    <3>4. QED  BY <3>1, <3>3 DEF DefAfter
  <2>3. QED  BY <2>1, <2>2
<1>5. Supplies(c, def)
  BY <1>3, <1>4 DEF Supplies
<1> HIDE DEF def
<1>6. \A p \in 1..Exit(c) : Reached(c, p) => Live(c, p) \subseteq def[p]
  BY <1>2, <1>5, LiveLeast
<1>7. QED  BY <1>6 DEF def

\* x and y agree on what the code from p on may use.
Alike(c, p, x, y) == x \cap (Live(c, p) \cup {Memory}) = y \cap (Live(c, p) \cup {Memory})

\* A step from two such states goes to the same instruction, and to two such states.
LEMMA StepAlike ==
    ASSUME NoIndirectJumps, NEW c \in Seq(Instrs), c # <<>>, NEW p \in 1..Len(c), Reached(c, p),
           NEW x, NEW y, Alike(c, p, x, y)
    PROVE  /\ NextPc(c, p, x) = NextPc(c, p, y)
           /\ NextPc(c, p, y) \in Flow(c, p)
           /\ Alike(c, NextPc(c, p, y), After(c[p], x), After(c[p], y))
<1>1. IsProgram(c) /\ p # Exit(c) /\ c[p].kind # "ijmp"
  BY ProgramIs DEF NoIndirectJumps
<1>2. Live(c, p) = LiveBefore(c[p], recompute_liveness(c)[p])
  BY <1>1 DEF Live
<1>3. Read(c[p]) \subseteq Live(c, p) \cup {Memory}
  BY <1>2 DEF Read, LiveBefore
<1>4. x \cap Read(c[p]) = y \cap Read(c[p])
  BY <1>3 DEF Alike
<1>5. Odd(x, c[p]) <=> Odd(y, c[p])
  BY <1>4 DEF Odd
<1>6. NextPc(c, p, x) = NextPc(c, p, y)
  BY <1>5 DEF NextPc
<1>7. NextPc(c, p, y) \in Flow(c, p)
  <2> HIDE DEF Odd
  <2>1. QED  BY <1>1 DEF NextPc, Flow
<1> DEFINE s == NextPc(c, p, y)
<1>8. Live(c, s) \subseteq recompute_liveness(c)[p]
  BY <1>1, <1>7, LiveFlow
<1>9. Live(c, s) \ Written(c[p]) \subseteq Live(c, p)
  BY <1>2, <1>8 DEF LiveBefore, Written
<1> HIDE DEF s
<1>10. Alike(c, s, After(c[p], x), After(c[p], y))
  <2> DEFINE W == Written(c[p])
             L == Live(c, s) \cup {Memory}
  <2>1. ASSUME NEW r \in L, r \notin W PROVE r \in x <=> r \in y
    BY <1>9, <2>1 DEF Alike
  <2> HIDE DEF W, L
  <2>2. CASE Odd(y, c[p])
    <3>1. After(c[p], x) = x \cup W /\ After(c[p], y) = y \cup W
      BY <1>5, <2>2 DEF After, W
    <3>2. After(c[p], x) \cap L = After(c[p], y) \cap L
      BY <2>1, <3>1
    <3>3. QED  BY <3>2 DEF Alike, L
  <2>3. CASE ~Odd(y, c[p])
    <3>1. After(c[p], x) = x \ W /\ After(c[p], y) = y \ W
      BY <1>5, <2>3 DEF After, W
    <3>2. After(c[p], x) \cap L = After(c[p], y) \cap L
      BY <2>1, <3>1
    <3>3. QED  BY <3>2 DEF Alike, L
  <2>4. QED  BY <2>2, <2>3
<1>11. QED  BY <1>6, <1>7, <1>10 DEF s

\* The instruction that goes changes nothing the code behind it may use.
LEMMA IdleAlike ==
    ASSUME UndefsAreOverwritten, NoIndirectJumps, NEW c \in Seq(Instrs), Sound(c),
           NEW i \in 1..Len(c), Reached(c, i), Idle(c, i), NEW x, NEW y, Alike(c, i, x, y)
    PROVE  NextPc(c, i, x) = i + 1 /\ Alike(c, i + 1, After(c[i], x), y)
<1>1. c # <<>>
  BY DEF Sound, check_invariants
<1>2. IsProgram(c) /\ Exit(c) = Len(c) + 1 /\ Len(c) \in Nat /\ UndefsOverwritten(c)
  BY <1>1, ProgramIs, UndefsOf
<1>3. NextPc(c, i, x) = i + 1
  BY DEF Idle, is_control, NextPc
<1>4. i + 1 \in Flow(c, i)
  BY DEF Idle, is_control, Flow
<1>5. Live(c, i + 1) \subseteq recompute_liveness(c)[i]
  BY <1>2, <1>4, LiveFlow
<1>6. Live(c, i + 1) \subseteq DefAfter(c[i], recompute_defs(c)[i])
  <2>1. i + 1 \in 1..Exit(c) /\ Reached(c, i + 1)
    BY <1>2, <1>4, FlowReached
  <2>2. Live(c, i + 1) \subseteq recompute_defs(c)[i + 1]
    BY <2>1, LiveDefined
  <2>3. recompute_defs(c)[i + 1] \subseteq DefAfter(c[i], recompute_defs(c)[i])
    BY <1>2, <1>4, DefsFlow
  <2>4. QED  BY <2>2, <2>3
<1>7. WellFormed(c[i]) /\ Memory \notin Reg
  BY <1>2, PostprocessAssumption DEF IsProgram
<1>8. Written(c[i]) \cap (Live(c, i + 1) \cup {Memory}) = {}
  <2>1. ~c[i].mem /\ c[i].maybe_write \cap recompute_liveness(c)[i] = {}
    BY DEF Idle, has_side_effects
  <2>2. Written(c[i]) = c[i].must_write \cup c[i].must_undef
    BY <2>1 DEF Written
  <2>3. c[i].must_write \subseteq c[i].maybe_write /\ c[i].must_undef \subseteq c[i].maybe_undef
        /\ Memory \notin c[i].must_write /\ Memory \notin c[i].must_undef
    BY <1>7 DEF WellFormed
  <2>4. c[i].maybe_undef \cap Live(c, i + 1) = {}
    BY <1>6 DEF DefAfter
  <2>5. QED  BY <1>5, <2>1, <2>2, <2>3, <2>4
<1>9. Live(c, i + 1) \subseteq Live(c, i)
  <2>1. i # Exit(c)
    BY <1>2
  <2>2. c[i].must_write \subseteq Written(c[i]) /\ c[i].must_undef \subseteq Written(c[i])
    BY DEF Written
  <2>3. QED  BY <1>5, <1>8, <2>1, <2>2 DEF Live, LiveBefore
<1>10. After(c[i], x) \cap (Live(c, i + 1) \cup {Memory}) = x \cap (Live(c, i + 1) \cup {Memory})
  BY <1>8 DEF After
<1>11. QED  BY <1>3, <1>9, <1>10 DEF Alike

\* Without it, a run goes from where it went to where it went.
LEMMA NextPcDrop ==
    ASSUME NoIndirectJumps, NEW c \in Seq(Instrs), c # <<>>, NEW i \in 1..Len(c), Removable(c, i),
           NEW p \in 1..Len(c), p # i, Reached(c, p), NEW y
    PROVE  NextPc(Drop(c, i), Down(i, p), y) = Down(i, NextPc(c, p, y))
<1> DEFINE d == Drop(c, i)
           q == Down(i, p)
           l == c[p].label
<1>1. IsProgram(c) /\ Len(c) \in Nat \ {0} /\ Exit(c) = Len(c) + 1
  BY ProgramIs
<1>2. d[q] = c[p] /\ Exit(d) = Down(i, Exit(c))
  BY <1>1, DropIs DEF Down
<1>3. q + 1 = Down(i, p + 1)
  BY <1>1 DEF Down
<1>4. Dest(c, l) \in Flow(c, p) => Dest(d, l) = Down(i, Dest(c, l))
  BY DropJump
<1> HIDE DEF d, q, l
<1>5. c[p].kind = "jmp" \/ c[p].kind = "jcc" => Dest(d, l) = Down(i, Dest(c, l))
  BY <1>4 DEF Flow, l
<1>6. NextPc(d, q, y) = Down(i, NextPc(c, p, y))
  <2> HIDE DEF Odd, Down
  <2>1. QED  BY <1>2, <1>3, <1>5 DEF NextPc, l
<1>7. QED  BY <1>6 DEF d, q

\* What a run returned it still returns.
LEMMA ReturnsWithout ==
    ASSUME UndefsAreOverwritten, NoIndirectJumps, NEW c \in Seq(Instrs), Sound(c),
           NEW i \in 1..Len(c), Removable(c, i),
           NEW n \in Nat, NEW p \in 1..Exit(c), Reached(c, p),
           NEW x \in SUBSET Bits, NEW y \in SUBSET Bits, Alike(c, p, x, y),
           NEW out, Returns(c, n, p, x, out)
    PROVE  Ever(Drop(c, i), Down(i, p), y, out)
<1> DEFINE d == Drop(c, i)
           Sim(k) == \A q \in 1..Exit(c) : \A u, v \in SUBSET Bits : \A o :
             Reached(c, q) /\ Alike(c, q, u, v) /\ Returns(c, k, q, u, o)
               => Ever(d, Down(i, q), v, o)
           T == {k \in 0..n : Sim(k)}
<1>0. c # <<>> /\ c[1].kind = "label"
  BY DEF Sound, check_invariants
<1>1. IsProgram(c) /\ Len(c) \in Nat \ {0} /\ Exit(c) = Len(c) + 1
  BY <1>0, ProgramIs
<1>2. d # <<>> /\ d \in Seq(Instrs) /\ Down(i, Exit(c)) = Exit(d)
  BY <1>0, RemovableIs, DropIs
<1>3. ASSUME NEW k \in Nat, k # 0 => Sim(k - 1) PROVE Sim(k)
  <2> SUFFICES ASSUME NEW q \in 1..Exit(c), NEW u \in SUBSET Bits, NEW v \in SUBSET Bits, NEW o,
                      Reached(c, q), Alike(c, q, u, v), Returns(c, k, q, u, o)
               PROVE  Ever(d, Down(i, q), v, o)
    OBVIOUS
  <2> HIDE DEF d
  <2>1. CASE q = Exit(c)
    <3>1. o = u \cap (LiveOuts \cup {Memory})
      BY <1>0, <2>1, ReturnsAtExit
    <3>2. o = v \cap (LiveOuts \cup {Memory})
      BY <2>1, <3>1 DEF Alike, Live
    <3>3. Returns(d, 0, Exit(d), v, o)
      BY <1>2, <3>2, ReturnsAtExit
    <3>4. QED  BY <1>2, <2>1, <3>3 DEF Ever
  <2>2. CASE q # Exit(c)
    <3> DEFINE t == NextPc(c, q, v)
               w == After(c[q], u)
    <3>1. q \in 1..Len(c)
      BY <1>1, <2>2
    <3>2. k # 0
      <4>1. ~Returns(c, 0, q, u, o)
        BY <1>0, <3>1, ReturnsStep
      <4>2. QED  BY <4>1
    <3>3. k - 1 \in Nat /\ (k - 1) + 1 = k /\ Sim(k - 1)
      BY <1>3, <3>2
    <3>4. NextPc(c, q, u) = t /\ t \in Flow(c, q) /\ Alike(c, t, w, After(c[q], v))
      BY <1>0, <3>1, StepAlike
    <3>5. Returns(c, (k - 1) + 1, q, u, o)
      BY <3>3
    <3>6. Returns(c, k - 1, t, w, o) /\ w \in SUBSET Bits /\ After(c[q], v) \in SUBSET Bits
      BY <1>0, <3>1, <3>3, <3>4, <3>5, ReturnsStep
    <3>7. t \in 1..Exit(c) /\ Reached(c, t)
      BY <1>1, <3>1, <3>4, FlowIs, FlowReached
    <3> HIDE DEF t, w
    <3>8. CASE q = i
      <4>1. Idle(c, i)
        BY <3>8 DEF Removable
      <4>2. t = i + 1 /\ Alike(c, t, w, v)
        BY <3>4, <3>8, <4>1, IdleAlike DEF w
      <4>3. Ever(d, Down(i, t), v, o)
        BY <3>3, <3>6, <3>7, <4>2
      <4>4. Down(i, t) = Down(i, q)
        BY <1>1, <3>8, <4>2 DEF Down
      <4>5. QED  BY <4>3, <4>4
    <3>9. CASE q # i
      <4>1. Ever(d, Down(i, t), After(c[q], v), o)
        BY <3>3, <3>4, <3>6, <3>7
      <4>2. PICK m \in Nat : Returns(d, m, Down(i, t), After(c[q], v), o)
        BY <4>1 DEF Ever
      <4>3. Down(i, q) \in 1..Len(d) /\ d[Down(i, q)] = c[q]
        BY <3>1, <3>9, DropIs DEF d
      <4>4. NextPc(d, Down(i, q), v) = Down(i, t)
        BY <1>0, <3>1, <3>9, NextPcDrop DEF d, t
      <4>5. Returns(d, m + 1, Down(i, q), v, o)
        BY <1>2, <4>2, <4>3, <4>4, ReturnsStep
      <4>6. m + 1 \in Nat
        OBVIOUS
      <4>7. QED  BY <4>5, <4>6 DEF Ever
    <3>10. QED  BY <3>8, <3>9
  <2>3. QED  BY <2>1, <2>2
<1> HIDE DEF Sim
<1>4. 0 \in T
  BY <1>3
<1>5. \A k \in 0..(n-1) : k \in T => k + 1 \in T
  <2> SUFFICES ASSUME NEW k \in 0..(n-1), k \in T PROVE k + 1 \in T
    OBVIOUS
  <2>1. k + 1 \in Nat /\ k + 1 \in 0..n /\ (k + 1) - 1 = k
    OBVIOUS
  <2>2. QED  BY <1>3, <2>1
<1>6. n \in T
  <2>1. n \in 0..n
    OBVIOUS
  <2> HIDE DEF T
  <2>2. QED  BY <1>4, <1>5, <2>1, InductionFromZero
<1>7. QED  BY <1>6 DEF Sim

\* And what it returns it returned.
LEMMA ReturnsWith ==
    ASSUME UndefsAreOverwritten, NoIndirectJumps, NEW c \in Seq(Instrs), Sound(c),
           NEW i \in 1..Len(c), Removable(c, i),
           NEW n \in Nat, NEW p \in 1..Exit(c), Reached(c, p),
           NEW x \in SUBSET Bits, NEW y \in SUBSET Bits, Alike(c, p, x, y),
           NEW out, Returns(Drop(c, i), n, Down(i, p), y, out)
    PROVE  Ever(c, p, x, out)
<1> DEFINE d == Drop(c, i)
           Sim(k) == \A q \in 1..Exit(c) : \A u, v \in SUBSET Bits : \A o :
             Reached(c, q) /\ Alike(c, q, u, v) /\ Returns(d, k, Down(i, q), v, o)
               => Ever(c, q, u, o)
           T == {k \in 0..n : Sim(k)}
<1>0. c # <<>> /\ c[1].kind = "label"
  BY DEF Sound, check_invariants
<1>1. IsProgram(c) /\ Len(c) \in Nat \ {0} /\ Exit(c) = Len(c) + 1
  BY <1>0, ProgramIs
<1>2. d # <<>> /\ d \in Seq(Instrs) /\ Down(i, Exit(c)) = Exit(d)
  BY <1>0, RemovableIs, DropIs
<1>3. ASSUME NEW k \in Nat, k # 0 => Sim(k - 1) PROVE Sim(k)
  <2> HIDE DEF d
  <2>1. ASSUME NEW q \in 1..Exit(c), NEW u \in SUBSET Bits, NEW v \in SUBSET Bits, NEW o,
               Reached(c, q), Alike(c, q, u, v), Returns(d, k, Down(i, q), v, o), q # i
        PROVE  Ever(c, q, u, o)
    <3>1. CASE q = Exit(c)
      <4>1. o = v \cap (LiveOuts \cup {Memory})
        BY <1>2, <2>1, <3>1, ReturnsAtExit
      <4>2. o = u \cap (LiveOuts \cup {Memory})
        BY <2>1, <3>1, <4>1 DEF Alike, Live
      <4>3. Returns(c, 0, Exit(c), u, o)
        BY <1>0, <4>2, ReturnsAtExit
      <4>4. QED  BY <3>1, <4>3 DEF Ever
    <3>2. CASE q # Exit(c)
      <4> DEFINE t == NextPc(c, q, v)
                 w == After(c[q], u)
      <4>1. q \in 1..Len(c)
        BY <1>1, <3>2
      <4>2. Down(i, q) \in 1..Len(d) /\ d[Down(i, q)] = c[q]
        BY <2>1, <4>1, DropIs DEF d
      <4>3. k # 0
        <5>1. ~Returns(d, 0, Down(i, q), v, o)
          BY <1>2, <4>2, ReturnsStep
        <5>2. QED  BY <2>1, <5>1
      <4>4. k - 1 \in Nat /\ (k - 1) + 1 = k /\ Sim(k - 1)
        BY <1>3, <4>3
      <4>5. NextPc(c, q, u) = t /\ t \in Flow(c, q) /\ Alike(c, t, w, After(c[q], v))
        BY <1>0, <2>1, <4>1, StepAlike
      <4>6. NextPc(d, Down(i, q), v) = Down(i, t)
        BY <1>0, <2>1, <4>1, NextPcDrop DEF d
      <4>7. Returns(d, (k - 1) + 1, Down(i, q), v, o)
        BY <2>1, <4>4
      <4>8. Returns(d, k - 1, Down(i, t), After(c[q], v), o)
        BY <1>2, <4>2, <4>4, <4>6, <4>7, ReturnsStep
      <4>9. w \in SUBSET Bits /\ After(c[q], v) \in SUBSET Bits
        BY <1>0, <4>1, ReturnsStep
      <4>10. t \in 1..Exit(c) /\ Reached(c, t)
        BY <1>1, <2>1, <4>1, <4>5, FlowIs, FlowReached
      <4> HIDE DEF t, w
      <4>11. Ever(c, t, w, o)
        BY <4>4, <4>5, <4>8, <4>9, <4>10
      <4>12. PICK m \in Nat : Returns(c, m, t, w, o)
        BY <4>11 DEF Ever
      <4>13. Returns(c, m + 1, q, u, o)
        BY <1>0, <4>1, <4>5, <4>12, ReturnsStep DEF w
      <4>14. m + 1 \in Nat
        OBVIOUS
      <4>15. QED  BY <4>13, <4>14 DEF Ever
    <3>3. QED  BY <3>1, <3>2
  <2>2. ASSUME NEW u \in SUBSET Bits, NEW v \in SUBSET Bits, NEW o,
               Reached(c, i), Alike(c, i, u, v), Returns(d, k, Down(i, i), v, o)
        PROVE  Ever(c, i, u, o)
    <3> DEFINE w == After(c[i], u)
    <3>1. Idle(c, i)
      BY <2>2 DEF Removable
    <3>2. NextPc(c, i, u) = i + 1 /\ Alike(c, i + 1, w, v)
      BY <2>2, <3>1, IdleAlike
    <3>3. i + 1 \in Flow(c, i)
      BY <3>1 DEF Idle, is_control, Flow
    <3>4. i + 1 \in 1..Exit(c) /\ Reached(c, i + 1) /\ i + 1 # i
      BY <1>1, <2>2, <3>3, FlowReached
    <3>5. Down(i, i + 1) = Down(i, i)
      BY DEF Down
    <3>6. w \in SUBSET Bits
      BY <1>0, ReturnsStep
    <3> HIDE DEF w
    <3>7. Ever(c, i + 1, w, o)
      BY <2>1, <2>2, <3>2, <3>4, <3>5, <3>6
    <3>8. PICK m \in Nat : Returns(c, m, i + 1, w, o)
      BY <3>7 DEF Ever
    <3>9. Returns(c, m + 1, i, u, o)
      BY <1>0, <3>2, <3>8, ReturnsStep DEF w
    <3>10. m + 1 \in Nat
      OBVIOUS
    <3>11. QED  BY <3>9, <3>10 DEF Ever
  <2>3. QED  BY <2>1, <2>2
<1> HIDE DEF Sim
<1>4. 0 \in T
  BY <1>3
<1>5. \A k \in 0..(n-1) : k \in T => k + 1 \in T
  <2> SUFFICES ASSUME NEW k \in 0..(n-1), k \in T PROVE k + 1 \in T
    OBVIOUS
  <2>1. k + 1 \in Nat /\ k + 1 \in 0..n /\ (k + 1) - 1 = k
    OBVIOUS
  <2>2. QED  BY <1>3, <2>1
<1>6. n \in T
  <2>1. n \in 0..n
    OBVIOUS
  <2> HIDE DEF T
  <2>2. QED  BY <1>4, <1>5, <2>1, InductionFromZero
<1>7. QED  BY <1>6 DEF Sim

\* Without an instruction that may be removed, a sound program computes what it computed.
LEMMA DropComputes ==
    ASSUME UndefsAreOverwritten, NoIndirectJumps, NEW c \in Seq(Instrs), Sound(c),
           NEW i \in 1..Len(c), Removable(c, i)
    PROVE  Computes(Drop(c, i)) = Computes(c)
<1> DEFINE d == Drop(c, i)
<1>1. c # <<>> /\ c[1].kind = "label"
  BY DEF Sound, check_invariants
<1>2. IsProgram(c) /\ 1 \in 1..Exit(c)
  BY <1>1, ProgramIs
<1>3. d # <<>> /\ d \in Seq(Instrs) /\ Down(i, 1) = 1
  BY <1>1, RemovableIs, DropIs
<1>4. Reached(c, 1)
  BY <1>2, FlowReached
<1> HIDE DEF d
<1>5. ASSUME NEW x \in SUBSET Bits PROVE Result(d, x) = Result(c, x)
  <2>1. Alike(c, 1, x, x)
    BY DEF Alike
  <2>2. ASSUME NEW out, Ever(c, 1, x, out) PROVE Ever(d, 1, x, out)
    <3>1. PICK n \in Nat : Returns(c, n, 1, x, out)
      BY <2>2 DEF Ever
    <3>2. QED  BY <1>2, <1>3, <1>4, <2>1, <3>1, ReturnsWithout DEF d
  <2>3. ASSUME NEW out, Ever(d, 1, x, out) PROVE Ever(c, 1, x, out)
    <3>1. PICK n \in Nat : Returns(d, n, Down(i, 1), x, out)
      BY <1>3, <2>3 DEF Ever
    <3>2. QED  BY <1>2, <1>4, <2>1, <3>1, ReturnsWith DEF d
  <2>4. QED  BY <1>1, <1>3, <2>2, <2>3, SameRuns
<1>6. Computes(d) = Computes(c)
  BY <1>5 DEF Computes
<1>7. QED  BY <1>6 DEF d

\* A pass takes out nothing but what may be removed.
LEMMA PassesDrop ==
    ASSUME PostInv, remove_redundant \/ remove_unreachable \/ remove_nop
    PROVE  /\ original' = original /\ pass # "search"
           /\ \/ code' = code
              \/ \E i \in 1..Len(code) : Removable(code, i) /\ code' = Drop(code, i)
<1>0. /\ Unreachable \in SUBSET (1..Len(code)) /\ \A i \in Unreachable : Removable(code, i)
      /\ pass = "redundant" => Redundant = Spare(code)
      /\ \A i \in Spare(code) : Removable(code, i)
      /\ \A i \in Nops : Removable(code, i)
      /\ Nops \in SUBSET (1..Len(code)) /\ Spare(code) \in SUBSET (1..Len(code))
  BY PassRemoves DEF Nops, Spare
<1>1. ASSUME NEW removable \in SUBSET (1..Len(code)), \A i \in removable : Removable(code, i),
             NEW next_pass, Pass(removable, next_pass)
      PROVE  /\ original' = original
             /\ \/ code' = code
                \/ \E i \in 1..Len(code) : Removable(code, i) /\ code' = Drop(code, i)
  <2>1. /\ original' = original
        /\ removable = {} => code' = code
        /\ removable # {} => \E i \in removable : code' = Drop(code, i)
    BY <1>1, PassIs
  <2>2. QED  BY <1>1, <2>1
<1>2. CASE pass = "redundant_unreachable" /\ Pass(Unreachable, "redundant")
  BY <1>0, <1>1, <1>2
<1>3. CASE pass = "redundant" /\ Pass(Redundant, "unreachable")
  BY <1>0, <1>1, <1>3
<1>4. CASE remove_unreachable
  BY <1>0, <1>1, <1>4 DEF remove_unreachable
<1>5. CASE remove_nop
  <2>1. pass = "nop" /\ (Pass(Nops, "nop") \/ UNCHANGED <<code, original>>)
    BY <1>5 DEF remove_nop
  <2>2. QED  BY <1>0, <1>1, <2>1
<1>6. QED  BY <1>2, <1>3, <1>4, <1>5 DEF remove_redundant

\* Postprocessing preserves the meaning of every program the search can hand over: whatever
\* the start, the function returns the same live-out registers and the same memory, or
\* does not return, as it did before.
THEOREM SameResultHolds ==
    ASSUME LivenessCurrent, UndefsAreOverwritten, NoIndirectJumps
    PROVE  Spec => []SameResult
<1> DEFINE Inv == PostInv /\ Computes(code) = Computes(original)
<1>1. ASSUME Init PROVE Inv
  BY <1>1, PostInvInit DEF Init
<1>2. ASSUME Inv, [Next]_vars PROVE Inv'
  <2>1. PostInv'
    BY <1>2, PostInvStep
  <2>2. CASE remove_redundant \/ remove_unreachable \/ remove_nop
    <3>1. original' = original
      BY <1>2, <2>2, PassesDrop
    <3>2. Computes(code') = Computes(code)
      <4>1. CASE code' = code
        BY <4>1
      <4>2. ASSUME NEW i \in 1..Len(code), Removable(code, i), code' = Drop(code, i)
            PROVE  Computes(code') = Computes(code)
        BY <1>2, <4>2, DropComputes DEF PostInv
      <4>3. QED  BY <1>2, <2>2, <4>1, <4>2, PassesDrop
    <3>3. QED  BY <1>2, <2>1, <3>1, <3>2
  <2>3. CASE pass' = "search"
    BY <2>1, <2>3 DEF PostInv
  <2>4. CASE UNCHANGED <<code, original>>
    BY <1>2, <2>1, <2>4
  <2>5. QED
    <3>1. \/ pass' = "search" \/ UNCHANGED <<code, original>>
          \/ remove_redundant \/ remove_unreachable \/ remove_nop
      BY <1>2 DEF Next, vars, Replace, Swap, Transformed, SearchReturns, CallbackCopies, Begin
    <3>2. QED  BY <2>2, <2>3, <2>4, <3>1
<1>3. Inv => SameResult
  BY DEF SameResult
<1>4. Init => Inv
  BY <1>1
<1>5. Inv /\ [Next]_vars => Inv'
  BY <1>2
<1>6. QED  BY <1>3, <1>4, <1>5, PTL DEF Spec
==============================================================================
