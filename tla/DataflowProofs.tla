--------------------------- MODULE DataflowProofs ---------------------------
(***************************************************************************)
(* The analyses of the Cfg are sound for every program: their fixed point  *)
(* says of every run what the properties of the Dataflow specification ask *)
(* of it.                                                                  *)
(***************************************************************************)
EXTENDS Dataflow, CfgProofs

-----------------------------------------------------------------------------
(* Liveness before every instruction *)

\* What is live before an instruction covers its reads and what is live after it that it
\* neither writes nor undefines.
LEMMA LiveAtHas ==
    ASSUME NEW c, IsProgram(c), NEW i \in 1..Len(c), BlockOf(c, i) \in recompute_reachable(c)
    PROVE  LiveBefore(c[i], recompute_liveness(c)[i]) \cap Reg \subseteq LiveAt(c)[i]
<1> DEFINE lo == recompute_liveness(c)
<1>1. LiveAt(c)[i] = IF i \in recompute_blocks(c) THEN {r \in Reg : <<i, r>> \in LiveIns(c)}
                     ELSE lo[i-1]
  BY DEF LiveAt
<1>2. Len(c) \in Nat
  BY DEF IsProgram
<1>3. CASE i \in recompute_blocks(c)
  <2>1. BlockOf(c, i) = i
    BY <1>3, BlockOfFirst
  <2>2. i # Entry /\ i # Exit(c)
    BY <1>2 DEF Entry, Exit
  <2>3. i \in LiveBlocks(c)
    BY <2>1, <2>2 DEF LiveBlocks
  <2>4. \A r \in LiveBefore(c[i], lo[i]) : <<i, r>> \in LiveIns(c)
    BY <2>3, SummaryAgrees
  <2>5. LiveAt(c)[i] = {r \in Reg : <<i, r>> \in LiveIns(c)}
    BY <1>1, <1>3
  <2> HIDE DEF lo
  <2>6. QED  BY <2>4, <2>5 DEF lo
<1>4. CASE i \notin recompute_blocks(c)
  <2>1. i # 1
    BY <1>4, BlocksType
  <2>2. i - 1 \in 1..Len(c) /\ (i - 1) + 1 = i
    BY <2>1
  <2>3. i - 1 # LastOf(c, BlockOf(c, i-1))
    BY <1>4, <2>2, InBlock
  <2>4. BlockOf(c, i-1) = BlockOf(c, i)
    <3>1. /\ BlockOf(c, i-1) \in recompute_blocks(c) /\ BlockOf(c, i-1) # Exit(c)
          /\ i - 1 \in BlockOf(c, i-1)..LastOf(c, BlockOf(c, i-1))
      BY <2>2, InBlock
    <3>2. /\ BlockOf(c, i-1) \in 1..Len(c)
          /\ LastOf(c, BlockOf(c, i-1)) \in BlockOf(c, i-1)..Len(c)
          /\ \A j \in BlockOf(c, i-1)..LastOf(c, BlockOf(c, i-1)) : BlockOf(c, j) = BlockOf(c, i-1)
      BY <3>1, BlockEnds
    <3>3. i \in BlockOf(c, i-1)..LastOf(c, BlockOf(c, i-1))
      BY <1>2, <2>2, <2>3, <3>1, <3>2
    <3>4. QED  BY <3>2, <3>3
  <2>5. lo[i-1] = LiveBefore(c[i], lo[i])
    BY <2>2, <2>3, <2>4, LivenessTable
  <2>6. LiveAt(c)[i] = lo[i-1]
    BY <1>1, <1>4
  <2>7. QED  BY <2>5, <2>6
<1>5. QED  BY <1>3, <1>4

\* Behind an instruction in the middle of a block
LEMMA LiveInside ==
    ASSUME NEW c, IsProgram(c), NEW i \in 1..Len(c), i + 1 \notin recompute_blocks(c)
    PROVE  /\ i + 1 \in 1..Len(c)
           /\ BlockOf(c, i+1) = BlockOf(c, i)
           /\ LiveAt(c)[i+1] = recompute_liveness(c)[i]
<1> DEFINE b == BlockOf(c, i)
           l == LastOf(c, b)
<1>1. Len(c) \in Nat
  BY DEF IsProgram
<1>2. b \in recompute_blocks(c) /\ b # Exit(c) /\ i \in b..l /\ i # l
  BY InBlock
<1>3. b \in 1..Len(c) /\ l \in b..Len(c) /\ \A j \in b..l : BlockOf(c, j) = b
  BY <1>2, BlockEnds
<1> HIDE DEF b, l
<1>4. i + 1 \in b..l /\ i + 1 \in 1..Len(c) /\ (i + 1) - 1 = i
  BY <1>1, <1>2, <1>3
<1>5. BlockOf(c, i+1) = b
  BY <1>3, <1>4
<1>6. LiveAt(c)[i+1] = recompute_liveness(c)[i]
  BY <1>4 DEF LiveAt
<1>7. QED  BY <1>4, <1>5, <1>6 DEF b

\* What is live into a successor of a block is live behind the block.
LEMMA LiveAcross ==
    ASSUME NEW c, IsProgram(c), NEW i \in 1..Len(c), i + 1 \in recompute_blocks(c),
           BlockOf(c, i) \in recompute_reachable(c),
           NEW s \in recompute_succs(c, BlockOf(c, i))
    PROVE  /\ s \in recompute_reachable(c) /\ s \in recompute_blocks(c)
           /\ s = Exit(c) => LiveOuts \subseteq recompute_liveness(c)[i]
           /\ s # Exit(c) => /\ s \in 1..Len(c)
                             /\ LiveAt(c)[s] \subseteq recompute_liveness(c)[i]
<1> DEFINE b == BlockOf(c, i)
           lo == recompute_liveness(c)
           E == ReachableEdges(c)
           L == LiveIns(c)
<1>1. i = LastOf(c, b)
  BY InBlock
<1>2. lo[i] = MeetOuts(c, E, L, b)
  BY <1>1, LivenessTable
<1>3. s \in recompute_reachable(c) /\ s \in recompute_blocks(c) /\ <<b, s>> \in E
  BY ReachableSuccs
<1> HIDE DEF b, lo, E, L
<1>4. \A r \in Reg : <<s, r>> \in L => r \in lo[i]
  BY <1>2, <1>3 DEF MeetOuts
<1>5. s = Exit(c) => LiveOuts \subseteq lo[i]
  <2>1. \A r \in LiveOuts : <<Exit(c), r>> \in L
    BY LiveInsHas DEF L
  <2>2. QED  BY <1>4, <2>1, RegAssumption
<1>6. s # Exit(c) => s \in 1..Len(c) /\ LiveAt(c)[s] \subseteq lo[i]
  <2> SUFFICES ASSUME s # Exit(c) PROVE s \in 1..Len(c) /\ LiveAt(c)[s] \subseteq lo[i]
    OBVIOUS
  <2>1. s \in 1..Len(c)
    BY <1>3, BlockEnds
  <2>2. LiveAt(c)[s] = {r \in Reg : <<s, r>> \in L}
    BY <1>3, <2>1 DEF LiveAt, L
  <2>3. QED  BY <1>4, <2>1, <2>2
<1>7. QED  BY <1>3, <1>5, <1>6 DEF lo

\* Behind an indirect jump everything that is ever read is live.
LEMMA LiveAtIndirect ==
    ASSUME NEW c, IsProgram(c), NEW i \in 1..Len(c), c[i].kind = "ijmp",
           BlockOf(c, i) \in recompute_reachable(c)
    PROVE  EverRead(c) \subseteq recompute_liveness(c)[i]
<1>1. i + 1 \in recompute_blocks(c)
  BY DEF recompute_blocks, is_jump
<1>2. i = LastOf(c, BlockOf(c, i))
  BY <1>1, InBlock
<1>3. recompute_liveness(c)[i] = MeetOuts(c, ReachableEdges(c), LiveIns(c), BlockOf(c, i))
  BY <1>2, LivenessTable
<1>4. EverRead(c) \subseteq Reg
  BY RegAssumption DEF EverRead, IsProgram, WellFormed
<1>5. QED  BY <1>2, <1>3, <1>4 DEF MeetOuts

-----------------------------------------------------------------------------
(* Runs of a program *)

\* The Cfg is what the analyses left, and passed check_invariants().
Analysed ==
    /\ code \in Programs
    /\ def_ins = recompute_defs(code)
    /\ reachable = recompute_reachable(code)
    /\ check_invariants(code, def_ins, reachable)
    /\ live_ins = LiveAt(code)

\* What was overwritten is not needed: it is never read any more, or it is not live where
\* the program is.
Harmless ==
    \/ spoiled \cap EverRead(code) = {}
    \/ IF pc = Exit(code) THEN spoiled \cap LiveOuts = {}
       ELSE InReach(pc) /\ spoiled \cap live_ins[pc] = {}

LiveInv ==
    /\ Analysed
    /\ pc \in 1..Exit(code)
    /\ spoiled \subseteq Reg
    /\ watching \in BOOLEAN
    /\ ~watching => spoiled = {}
    /\ Harmless

\* A program that passed check_invariants() has an instruction.
LEMMA AnalysedProgram ==
    ASSUME Analysed
    PROVE  IsProgram(code)
<1>1. code \in Seq({code[i] : i \in DOMAIN code}) /\ \A i \in 1..Len(code) : WellFormed(code[i])
  BY ProgramsAssumption DEF Analysed
<1>2. code # <<>>
  BY DEF Analysed, check_invariants
<1>3. Len(code) \in Nat \ {0}
  BY <1>1, <1>2
<1>4. QED  BY <1>1, <1>3 DEF IsProgram

\* Control goes where recompute_succs() says, unless it jumps through a register.
LEMMA SuccessorsAre ==
    ASSUME Analysed, pc \in 1..Len(code)
    PROVE  /\ pc + 1 \notin recompute_blocks(code) =>
                Successors = {pc + 1} /\ code[pc].kind # "ijmp"
           /\ pc + 1 \in recompute_blocks(code) /\ code[pc].kind # "ijmp" =>
                Successors = recompute_succs(code, BlockOf(code, pc))
           /\ Successors \subseteq 1..Exit(code)
<1>0. IsProgram(code) /\ Len(code) \in Nat
  BY AnalysedProgram DEF IsProgram
<1>1. ASSUME pc + 1 \notin recompute_blocks(code)
      PROVE  Successors = {pc + 1} /\ code[pc].kind # "ijmp"
  <2>1. ~is_jump(code[pc]) /\ ~is_return(code[pc])
    BY <1>0, <1>1, InsidePlain
  <2>2. QED  BY <2>1 DEF Successors, is_jump, is_return
<1>2. ASSUME pc + 1 \in recompute_blocks(code), code[pc].kind # "ijmp"
      PROVE  Successors = recompute_succs(code, BlockOf(code, pc))
  <2> DEFINE b == BlockOf(code, pc)
  <2>1. pc = LastOf(code, b) /\ b \in recompute_blocks(code) /\ b # Exit(code)
    BY <1>0, <1>2, InBlock
  <2>2. NextBlock(code, b) = pc + 1
    BY <1>0, <2>1, BlockEnds
  <2>3. b # Entry
    BY <1>0, <2>1, EntryApart
  <2> HIDE DEF b
  <2>4. Successors = recompute_succs(code, b)
    BY <1>2, <2>1, <2>2, <2>3 DEF Successors, recompute_succs
  <2>5. QED  BY <2>4 DEF b
<1>3. Successors \subseteq 1..Exit(code)
  <2>1. \A l : Dest(code, l) \in 1..Exit(code)
    BY <1>0, DestIsBlock, BlocksType
  <2>2. Exit(code) = Len(code) + 1
    BY DEF Exit
  <2>3. QED  BY <1>0, <2>1, <2>2 DEF Successors
<1>4. QED  BY <1>1, <1>2, <1>3

-----------------------------------------------------------------------------
(* Liveness is sound *)

\* Where the program is, no read meets what was overwritten.
LEMMA HarmlessReads ==
    ASSUME LiveInv
    PROVE  LivenessSound
<1>0. Analysed /\ pc \in 1..Exit(code) /\ spoiled \subseteq Reg /\ Harmless
  BY DEF LiveInv
<1>1. IsProgram(code) /\ Len(code) \in Nat
  BY <1>0, AnalysedProgram DEF IsProgram
<1>2. CASE pc = Exit(code)
  <2>1. LiveOuts \subseteq EverRead(code)
    BY DEF EverRead
  <2>2. spoiled \cap LiveOuts = {}
    BY <1>0, <1>2, <2>1 DEF Harmless
  <2>3. QED  BY <1>2, <2>2 DEF LivenessSound
<1>3. CASE pc # Exit(code)
  <2>1. pc \in 1..Len(code)
    BY <1>0, <1>1, <1>3 DEF Exit
  <2>2. code[pc].maybe_read \subseteq EverRead(code)
    BY <2>1 DEF EverRead
  <2>3. CASE spoiled \cap EverRead(code) = {}
    BY <1>3, <2>2, <2>3 DEF LivenessSound
  <2>4. CASE InReach(pc) /\ spoiled \cap live_ins[pc] = {}
    <3>1. BlockOf(code, pc) \in recompute_reachable(code)
      BY <1>0, <1>3, <2>4 DEF InReach, Analysed
    <3>2. LiveBefore(code[pc], recompute_liveness(code)[pc]) \cap Reg \subseteq live_ins[pc]
      BY <1>0, <1>1, <2>1, <3>1, LiveAtHas DEF Analysed
    <3>3. code[pc].maybe_read \subseteq Reg
      BY <1>1, <2>1 DEF IsProgram, WellFormed
    <3>4. code[pc].maybe_read \subseteq live_ins[pc]
      BY <3>2, <3>3 DEF LiveBefore
    <3>5. QED  BY <1>3, <2>4, <3>4 DEF LivenessSound
  <2>5. QED  BY <1>0, <1>3, <2>3, <2>4 DEF Harmless
<1>4. QED  BY <1>2, <1>3

\* An instruction carries the invariant to where control goes next.
LEMMA ExecuteKeepsLive ==
    ASSUME LiveInv, Execute
    PROVE  LiveInv'
<1>0. /\ Analysed /\ pc \in 1..Exit(code) /\ spoiled \subseteq Reg /\ Harmless
      /\ watching \in BOOLEAN /\ (~watching => spoiled = {})
  BY DEF LiveInv
<1>1. IsProgram(code) /\ Len(code) \in Nat
  BY <1>0, AnalysedProgram DEF IsProgram
<1>2. /\ pc # Exit(code) /\ pc' \in Successors
      /\ code' = code /\ def_ins' = def_ins /\ live_ins' = live_ins /\ reachable' = reachable
      /\ watching' = watching
  BY DEF Execute, analysis
<1>3. pc \in 1..Len(code)
  BY <1>0, <1>1, <1>2 DEF Exit
<1>4. spoiled' = spoiled \ (code[pc].must_write \cup code[pc].must_undef)
  <2>1. code[pc].maybe_read \cap spoiled = {}
    BY <1>2, HarmlessReads DEF LivenessSound
  <2>2. spoiled' = Spoiled(code[pc])
    BY DEF Execute
  <2>3. QED  BY <2>1, <2>2 DEF Spoiled
<1>5. Analysed' /\ watching' \in BOOLEAN /\ spoiled' \subseteq Reg /\ (~watching' => spoiled' = {})
  <2>1. Analysed'
    BY <1>0, <1>2 DEF Analysed
  <2>2. QED  BY <1>0, <1>2, <1>4, <2>1
<1>6. pc' \in 1..Exit(code)'
  <2>1. pc' \in 1..Exit(code)
    BY <1>0, <1>2, <1>3, SuccessorsAre
  <2>2. QED  BY <1>2, <2>1 DEF Exit
<1>7. Harmless'
  <2>1. CASE spoiled \cap EverRead(code) = {}
    <3>1. spoiled' \cap EverRead(code) = {}
      BY <1>4, <2>1
    <3>2. EverRead(code') = EverRead(code)
      BY <1>2
    <3>3. spoiled' \cap EverRead(code') = {}
      BY <3>1, <3>2
    <3>4. QED  BY <3>3 DEF Harmless
  <2>2. CASE InReach(pc) /\ spoiled \cap live_ins[pc] = {}
    <3> DEFINE lo == recompute_liveness(code)[pc]
    <3>1. BlockOf(code, pc) \in recompute_reachable(code) /\ live_ins = LiveAt(code)
      BY <1>0, <1>2, <2>2 DEF InReach, Analysed
    <3>2. LiveBefore(code[pc], lo) \cap Reg \subseteq live_ins[pc]
      BY <1>1, <1>3, <3>1, LiveAtHas
    <3>3. spoiled' \cap lo = {}
      <4> HIDE DEF lo
      <4>1. QED  BY <1>0, <1>4, <2>2, <3>2 DEF LiveBefore
    <3>4. Exit(code') = Exit(code) /\ EverRead(code') = EverRead(code)
      BY <1>2
    <3>5. InReach(pc)' <=> (IF pc' = Exit(code) THEN pc' ELSE BlockOf(code, pc'))
                             \in recompute_reachable(code)
      BY <1>0, <1>2 DEF InReach, Analysed
    <3>6. CASE code[pc].kind = "ijmp"
      <4>1. EverRead(code) \subseteq lo
        BY <1>1, <1>3, <3>1, <3>6, LiveAtIndirect
      <4> HIDE DEF lo
      <4>2. spoiled' \cap EverRead(code') = {}
        BY <3>3, <3>4, <4>1
      <4>3. QED  BY <4>2 DEF Harmless
    <3>7. CASE pc + 1 \notin recompute_blocks(code)
      <4>1. pc' = pc + 1
        BY <1>0, <1>2, <1>3, <3>7, SuccessorsAre
      <4>2. pc + 1 \in 1..Len(code) /\ BlockOf(code, pc+1) = BlockOf(code, pc)
            /\ live_ins[pc+1] = lo
        BY <1>1, <1>3, <3>1, <3>7, LiveInside
      <4>3. pc + 1 # Exit(code)
        BY <1>1, <4>2 DEF Exit
      <4>4. InReach(pc)'
        BY <3>1, <3>5, <4>1, <4>2, <4>3
      <4> HIDE DEF lo
      <4>5. spoiled' \cap live_ins'[pc'] = {} /\ pc' # Exit(code')
        BY <1>2, <3>3, <3>4, <4>1, <4>2, <4>3
      <4>6. QED  BY <4>4, <4>5 DEF Harmless
    <3>8. CASE pc + 1 \in recompute_blocks(code) /\ code[pc].kind # "ijmp"
      <4>1. pc' \in recompute_succs(code, BlockOf(code, pc))
        BY <1>0, <1>2, <1>3, <3>8, SuccessorsAre
      <4>2. /\ pc' \in recompute_reachable(code) /\ pc' \in recompute_blocks(code)
            /\ pc' = Exit(code) => LiveOuts \subseteq lo
            /\ pc' # Exit(code) => pc' \in 1..Len(code) /\ live_ins[pc'] \subseteq lo
        BY <1>1, <1>3, <3>1, <3>8, <4>1, LiveAcross
      <4>3. BlockOf(code, pc') = pc'
        BY <1>1, <4>2, BlockOfFirst
      <4>4. InReach(pc)'
        BY <3>5, <4>2, <4>3
      <4> HIDE DEF lo
      <4>5. CASE pc' = Exit(code)
        <5>1. spoiled' \cap LiveOuts = {} /\ pc' = Exit(code')
          BY <3>3, <3>4, <4>2, <4>5
        <5>2. QED  BY <5>1 DEF Harmless
      <4>6. CASE pc' # Exit(code)
        <5>1. spoiled' \cap live_ins'[pc'] = {} /\ pc' # Exit(code')
          BY <1>2, <3>3, <3>4, <4>2, <4>6
        <5>2. QED  BY <4>4, <5>1 DEF Harmless
      <4>7. QED  BY <4>5, <4>6
    <3>9. QED  BY <3>6, <3>7, <3>8
  <2>3. QED  BY <1>0, <1>2, <2>1, <2>2 DEF Harmless
<1>8. QED  BY <1>5, <1>6, <1>7 DEF LiveInv

\* Liveness is sound for every program: registers overwritten when recompute_liveness()
\* calls them dead are never read and never live out of the function.
THEOREM LivenessSoundHolds == Spec => []LivenessSound
<1>1. Init => LiveInv
  <2> SUFFICES ASSUME Init PROVE LiveInv
    OBVIOUS
  <2>1. Analysed
    BY DEF Init, Analysed
  <2>2. Len(code) \in Nat
    BY <2>1, AnalysedProgram DEF IsProgram
  <2>3. pc \in 1..Exit(code)
    BY <2>2 DEF Init, Exit
  <2>4. spoiled = {} /\ watching = FALSE
    BY DEF Init
  <2>5. Harmless
    BY <2>4 DEF Harmless
  <2>6. QED  BY <2>1, <2>3, <2>4, <2>5 DEF LiveInv
<1>2. LiveInv /\ [Next]_vars => LiveInv'
  <2> SUFFICES ASSUME LiveInv, [Next]_vars PROVE LiveInv'
    OBVIOUS
  <2>1. CASE Execute
    BY <2>1, ExecuteKeepsLive
  <2>2. CASE Spoil
    <3>1. /\ code' = code /\ def_ins' = def_ins /\ live_ins' = live_ins /\ reachable' = reachable
          /\ pc' = pc /\ pc # Exit(code) /\ InReach(pc) /\ watching' = TRUE
          /\ spoiled' = Reg \ live_ins[pc]
      BY <2>2 DEF Spoil, analysis
    <3>2. Analysed' /\ pc' \in 1..Exit(code')
      BY <3>1 DEF LiveInv, Analysed
    <3>3. InReach(pc)'
      BY <3>1 DEF InReach
    <3>4. spoiled' \cap live_ins'[pc'] = {} /\ pc' # Exit(code') /\ spoiled' \subseteq Reg
      BY <3>1
    <3>5. Harmless'
      BY <3>3, <3>4 DEF Harmless
    <3>6. QED  BY <3>1, <3>2, <3>4, <3>5 DEF LiveInv
  <2>3. CASE UNCHANGED vars
    BY <2>3 DEF vars, analysis, LiveInv, Analysed, Harmless, InReach
  <2>4. QED  BY <2>1, <2>2, <2>3 DEF Next
<1>3. LiveInv => LivenessSound
  BY HarmlessReads
<1>4. QED  BY <1>1, <1>2, <1>3, PTL DEF Spec

-----------------------------------------------------------------------------
(* Definitions are sound *)

\* Without indirect jumps a run stays in reachable blocks, and has defined what def_ins_
\* says.
DefInv ==
    /\ Analysed
    /\ pc \in 1..Exit(code)
    /\ ~HasIndirect => InReach(pc) /\ def_ins[pc] \subseteq defined

\* An instruction carries the invariant to where control goes next.
LEMMA ExecuteKeepsDefs ==
    ASSUME \A c \in Programs : UndefsOverwritten(c), DefInv, Execute
    PROVE  DefInv'
<1>0. Analysed /\ pc \in 1..Exit(code)
  BY DEF DefInv
<1>1. IsProgram(code) /\ Len(code) \in Nat /\ UndefsOverwritten(code)
  BY <1>0, AnalysedProgram DEF IsProgram, Analysed
<1>2. /\ pc # Exit(code) /\ pc' \in Successors
      /\ code' = code /\ def_ins' = def_ins /\ live_ins' = live_ins /\ reachable' = reachable
      /\ defined' \in Defined(code[pc])
  BY DEF Execute, analysis
<1>3. pc \in 1..Len(code)
  BY <1>0, <1>1, <1>2 DEF Exit
<1>4. Analysed'
  BY <1>0, <1>2 DEF Analysed
<1>5. pc' \in 1..Exit(code)'
  <2>1. pc' \in 1..Exit(code)
    BY <1>0, <1>2, <1>3, SuccessorsAre
  <2>2. QED  BY <1>2, <2>1 DEF Exit
<1>6. ASSUME ~HasIndirect' PROVE InReach(pc)' /\ def_ins'[pc'] \subseteq defined'
  <2>1. ~HasIndirect
    BY <1>2, <1>6 DEF HasIndirect
  <2>2. InReach(pc) /\ def_ins[pc] \subseteq defined
    BY <2>1 DEF DefInv
  <2>3. code[pc].kind # "ijmp"
    BY <1>3, <2>1 DEF HasIndirect
  <2>4. BlockOf(code, pc) \in recompute_reachable(code) /\ def_ins = recompute_defs(code)
    BY <1>0, <1>2, <2>2 DEF InReach, Analysed
  <2>5. DefAfter(code[pc], def_ins[pc]) \subseteq defined'
    BY <1>2, <2>2 DEF Defined, DefAfter
  <2>6. InReach(pc)' <=> (IF pc' = Exit(code) THEN pc' ELSE BlockOf(code, pc'))
                           \in recompute_reachable(code)
    BY <1>0, <1>2 DEF InReach, Analysed
  <2>7. CASE pc + 1 \notin recompute_blocks(code)
    <3>1. pc' = pc + 1
      BY <1>0, <1>2, <1>3, <2>7, SuccessorsAre
    <3>2. pc + 1 \in 1..Len(code) /\ BlockOf(code, pc+1) = BlockOf(code, pc)
      BY <1>1, <1>3, <2>7, LiveInside
    <3>3. pc + 1 # Exit(code) /\ pc + 1 \in 1..(Len(code) + 1) /\ (pc + 1) - 1 = pc
      BY <1>1, <1>3, <3>2 DEF Exit
    <3>4. def_ins[pc+1] = DefAfter(code[pc], def_ins[pc])
      BY <1>1, <2>4, <2>7, <3>3, DefsTable
    <3>5. QED  BY <1>2, <2>4, <2>5, <2>6, <3>1, <3>2, <3>3, <3>4
  <2>8. CASE pc + 1 \in recompute_blocks(code)
    <3> DEFINE b == BlockOf(code, pc)
    <3>1. pc' \in recompute_succs(code, b)
      BY <1>0, <1>2, <1>3, <2>3, <2>8, SuccessorsAre
    <3>2. /\ pc' \in recompute_reachable(code) /\ pc' \in recompute_blocks(code)
          /\ <<b, pc'>> \in ReachableEdges(code)
      BY <1>1, <2>4, <3>1, ReachableSuccs
    <3>3. BlockOf(code, pc') = pc'
      BY <1>1, <3>2, BlockOfFirst
    <3>4. b \in recompute_blocks(code) /\ b # Exit(code) /\ pc = LastOf(code, b)
      BY <1>1, <1>3, <2>8, InBlock
    <3>5. def_ins[pc'] = MeetIns(ReachableEdges(code), DefOuts(code), pc')
      <4>1. pc' \in 1..(Len(code) + 1)
        BY <1>1, <3>2, BlocksType
      <4>2. QED  BY <1>1, <2>4, <3>2, <4>1, DefsTable
    <3> HIDE DEF b
    <3>6. ASSUME NEW r \in def_ins[pc'] PROVE r \in defined'
      <4>1. <<b, r>> \in DefOuts(code)
        BY <3>2, <3>5 DEF MeetIns
      <4>2. r \in DefAfter(code[pc], def_ins[pc])
        BY <1>1, <2>4, <3>4, <4>1, SummaryDefines DEF b
      <4>3. QED  BY <2>5, <4>2
    <3>7. QED  BY <1>2, <2>6, <3>2, <3>3, <3>6
  <2>9. QED  BY <2>7, <2>8
<1>7. QED  BY <1>4, <1>5, <1>6 DEF DefInv

\* The invariant holds from the start: nothing but the inputs of the function is defined.
LEMMA DefInvInit ==
    ASSUME Init
    PROVE  DefInv
<1>1. Analysed /\ pc = 1 /\ defined = DefIns
  BY DEF Init, Analysed
<1>2. IsProgram(code) /\ Len(code) \in Nat \ {0}
  BY <1>1, AnalysedProgram DEF IsProgram
<1>3. pc \in 1..Exit(code) /\ pc # Exit(code)
  BY <1>1, <1>2 DEF Exit
<1>4. 1 \in recompute_blocks(code) /\ BlockOf(code, 1) = 1
  BY <1>2, BlocksType, BlockOfFirst
<1>5. 1 \in recompute_reachable(code) /\ <<Entry, 1>> \in ReachableEdges(code)
  BY <1>2, FirstReachable
<1>6. InReach(pc)
  BY <1>1, <1>3, <1>4, <1>5 DEF InReach, Analysed
<1>7. def_ins[pc] = MeetIns(ReachableEdges(code), DefOuts(code), 1)
  <2>1. 1 \in 1..(Len(code) + 1)
    BY <1>2
  <2>2. recompute_defs(code)[1] = MeetIns(ReachableEdges(code), DefOuts(code), 1)
    BY <1>2, <1>4, <1>5, <2>1, DefsTable
  <2>3. QED  BY <1>1, <2>2 DEF Analysed
<1>8. ASSUME NEW r \in def_ins[pc] PROVE r \in DefIns
  <2>1. <<Entry, r>> \in DefOuts(code)
    BY <1>5, <1>7 DEF MeetIns
  <2>2. QED  BY <1>2, <2>1, DefOutsHas
<1>9. QED  BY <1>1, <1>3, <1>6, <1>8 DEF DefInv

\* A run keeps the invariant.
LEMMA DefInvStep ==
    ASSUME \A c \in Programs : UndefsOverwritten(c), DefInv, [Next]_vars
    PROVE  DefInv'
<1>1. CASE Execute
  BY <1>1, ExecuteKeepsDefs
<1>2. CASE Spoil
  <2>1. /\ code' = code /\ def_ins' = def_ins /\ live_ins' = live_ins /\ reachable' = reachable
        /\ pc' = pc /\ defined' = defined
    BY <1>2 DEF Spoil, analysis
  <2>2. QED  BY <2>1 DEF DefInv, Analysed, HasIndirect, InReach
<1>3. CASE UNCHANGED vars
  BY <1>3 DEF vars, analysis, DefInv, Analysed, HasIndirect, InReach
<1>4. QED  BY <1>1, <1>2, <1>3 DEF Next

\* recompute_defs() is sound for every program without indirect jumps in which what may be
\* undefined is only ever overwritten whole: a register that def_ins_ calls defined is
\* defined on every run that gets there.
THEOREM DefsSoundHolds ==
    ASSUME \A c \in Programs : UndefsOverwritten(c)
    PROVE  Spec => []DefsSound
<1>1. Init => DefInv
  BY DefInvInit
<1>2. DefInv /\ [Next]_vars => DefInv'
  BY DefInvStep
<1>3. DefInv => DefsSound
  BY DEF DefInv, DefsSound
<1>4. QED  BY <1>1, <1>2, <1>3, PTL DEF Spec

\* What check_invariants() is for, for the same programs: no run reads a register that is
\* not defined, or returns with a live-out that is not.
THEOREM NoUndefReadsHolds ==
    ASSUME \A c \in Programs : UndefsOverwritten(c)
    PROVE  Spec => []NoUndefReads
<1>1. Init => DefInv
  BY DefInvInit
<1>2. DefInv /\ [Next]_vars => DefInv'
  BY DefInvStep
<1>3. ASSUME DefInv PROVE NoUndefReads
  <2> SUFFICES ASSUME ~HasIndirect
               PROVE  IF pc = Exit(code) THEN LiveOuts \subseteq defined
                      ELSE code[pc].maybe_read \subseteq defined
    BY DEF NoUndefReads
  <2>1. Analysed /\ pc \in 1..Exit(code) /\ InReach(pc) /\ def_ins[pc] \subseteq defined
    BY <1>3 DEF DefInv
  <2>2. IsProgram(code) /\ Len(code) \in Nat
    BY <2>1, AnalysedProgram DEF IsProgram
  <2>3. /\ invariant_no_undef_reads(code, def_ins, reachable)
        /\ invariant_no_undef_live_outs(code, def_ins)
    BY <2>1 DEF Analysed, check_invariants
  <2>4. CASE pc = Exit(code)
    BY <2>1, <2>3, <2>4 DEF invariant_no_undef_live_outs
  <2>5. CASE pc # Exit(code)
    <3>1. pc \in 1..Len(code)
      BY <2>1, <2>2, <2>5 DEF Exit
    <3>2. BlockOf(code, pc) \in reachable
      BY <2>1, <2>5 DEF InReach
    <3>3. pc \in InstrsOf(code, BlockOf(code, pc))
      BY <2>2, <3>1, InBlock
    <3>4. code[pc].maybe_read \subseteq def_ins[pc]
      BY <2>3, <3>2, <3>3 DEF invariant_no_undef_reads
    <3>5. QED  BY <2>1, <2>5, <3>4
  <2>6. QED  BY <2>4, <2>5
<1>4. DefInv => NoUndefReads
  BY <1>3
<1>5. QED  BY <1>1, <1>2, <1>4, PTL DEF Spec
=============================================================================
