--------------------------------- MODULE Cfg ---------------------------------
(***************************************************************************)
(* The control flow graph of src/src/cfg/cfg.cc: basic blocks, successors, *)
(* reachability, the registers defined on entry to every instruction, the  *)
(* registers live after it, and the invariants the search insists on.      *)
(*                                                                         *)
(* An instruction is a record of what the analyses ask of it: its kind,    *)
(* the label it defines or jumps to, and its read, write and undef sets.   *)
(* Instructions are numbered from 1.  A block is named by its first        *)
(* instruction; the entry block, which is empty, is 0 and the exit block   *)
(* is the index behind the last instruction.                               *)
(***************************************************************************)
EXTENDS Integers, Sequences, FiniteSets

CONSTANTS
    Reg,        \* registers (and flags)
    DefIns,     \* fxn_def_ins_
    LiveOuts    \* fxn_live_outs_

ASSUME RegAssumption ==
    IsFiniteSet(Reg) /\ DefIns \subseteq Reg /\ LiveOuts \subseteq Reg

InstrKind == {"label", "jmp", "jcc", "ijmp", "ret", "nop", "plain"}

\* maybe_write \ must_write and maybe_undef \ must_undef are effects that depend on
\* values; mem: does it dereference memory?
WellFormed(instr) ==
    /\ instr.kind \in InstrKind
    /\ instr.must_write \subseteq instr.maybe_write /\ instr.maybe_write \subseteq Reg
    /\ instr.must_undef \subseteq instr.maybe_undef /\ instr.maybe_undef \subseteq Reg
    /\ instr.maybe_read \subseteq Reg
    /\ instr.mem \in BOOLEAN

is_jump(instr) == instr.kind \in {"jmp", "jcc", "ijmp"}
is_return(instr) == instr.kind = "ret"
is_control(instr) == instr.kind \in {"label", "jmp", "jcc", "ijmp", "ret"}

-----------------------------------------------------------------------------
(* recompute_structure *)

Entry == 0
Exit(code) == Len(code) + 1

recompute_blocks(code) ==
    {1, Len(code) + 1}
      \cup {i \in 1..Len(code) : code[i].kind = "label"}
      \cup {i + 1 : i \in {k \in 1..Len(code) : is_jump(code[k]) \/ is_return(code[k])}}

\* The block behind b
NextBlock(code, b) ==
    LET behind == {c \in recompute_blocks(code) : c > b}
    IN  CHOOSE c \in behind : \A d \in behind : c <= d

InstrsOf(code, b) ==
    IF b \in {Entry, Exit(code)} THEN {} ELSE b..(NextBlock(code, b) - 1)

LastOf(code, b) == NextBlock(code, b) - 1

\* get_loc: the last block that begins at i or before
BlockOf(code, i) ==
    LET upto == {b \in recompute_blocks(code) : b <= i}
    IN  CHOOSE b \in upto : \A c \in upto : c <= b

\* labels_: where a label is defined twice, the later block wins; a label that is not
\* defined here leads out of the function.
Dest(code, l) ==
    LET at == {i \in 1..Len(code) : code[i].kind = "label" /\ code[i].label = l}
    IN  IF at = {} THEN Exit(code) ELSE CHOOSE i \in at : \A j \in at : j <= i

recompute_succs(code, b) ==
    IF b = Exit(code) THEN {}
    ELSE IF b = Entry THEN {1}
    ELSE LET instr == code[LastOf(code, b)]
         IN  CASE instr.kind = "ret"  -> {Exit(code)}
               [] instr.kind = "jmp"  -> {Dest(code, instr.label)}
               [] instr.kind = "ijmp" -> {Exit(code)}
               [] instr.kind = "jcc"  -> {NextBlock(code, b), Dest(code, instr.label)}
               [] OTHER               -> {NextBlock(code, b)}

Edges(code) ==
    UNION {{<<b, s>> : s \in recompute_succs(code, b)} : b \in recompute_blocks(code) \cup {Entry}}

\* start after n rounds of step, a function from sets to sets
Rounds(step, start, n) ==
    LET after[i \in 0..n] == IF i = 0 THEN start ELSE step[after[i-1]]
    IN  after[n]

\* One generation of the work list
ReachStep(code) ==
    LET edges == Edges(code)
    IN  [reach \in SUBSET (recompute_blocks(code) \cup {Entry}) |->
           reach \cup {e[2] : e \in {d \in edges : d[1] \in reach}}]

recompute_reachable(code) ==
    Rounds(ReachStep(code), {Entry}, Cardinality(recompute_blocks(code)))

\* The edges between reachable blocks
ReachableEdges(code) ==
    LET reach == recompute_reachable(code) IN {e \in Edges(code) : e[1] \in reach}

-----------------------------------------------------------------------------
(* recompute_defs: a register is defined if it is on every path.  A dataflow  *)
(* value is a set of pairs of a block and a register.                         *)

GenKill(code, b) ==
    LET gk[i \in (b-1)..LastOf(code, b)] ==
          IF i = b-1 THEN [gen |-> {}, kill |-> {}]
          ELSE LET prev == gk[i-1]
               IN  [gen  |-> (prev.gen \cup code[i].must_write) \ code[i].maybe_undef,
                    kill |-> (prev.kill \cup code[i].maybe_undef) \ code[i].maybe_write]
    IN  IF b \in {Entry, Exit(code)} THEN [gen |-> {}, kill |-> {}] ELSE gk[LastOf(code, b)]

\* Mutant: defined on some path.
MeetIns_AnyPath(edges, outs, b) == {r \in Reg : \E e \in edges : e[2] = b /\ <<e[1], r>> \in outs}

\* What is defined on entry to block b, given what is defined out of the others
MeetIns(edges, outs, b) == {r \in Reg : \A e \in edges : e[2] = b => <<e[1], r>> \in outs}

\* The blocks whose definitions are computed, and the value the loop starts from:
\* everything is defined.
DefBlocks(code) == recompute_reachable(code) \ {Entry}

DefAtEntry == {<<Entry, r>> : r \in DefIns}

DefTop(code) == DefAtEntry \cup (DefBlocks(code) \X Reg)

\* One sweep over the reachable blocks
DefStep(code) ==
    LET edges  == ReachableEdges(code)
        blocks == DefBlocks(code)
        gen    == UNION {{<<b, r>> : r \in GenKill(code, b).gen} : b \in blocks}
        kill   == UNION {{<<b, r>> : r \in GenKill(code, b).kill} : b \in blocks}
        Met(outs) == UNION {{<<b, r>> : r \in MeetIns(edges, outs, b)} : b \in blocks}
    IN  [outs \in SUBSET DefTop(code) |-> DefAtEntry \cup gen \cup (Met(outs) \ kill)]

\* def_outs_.  The loop shrinks it until nothing changes: it ends at the greatest fixed
\* point, after at most one sweep per block and register.
DefOuts(code) ==
    Rounds(DefStep(code), DefTop(code), Cardinality(DefBlocks(code)) * Cardinality(Reg))

\* def_ins_, for the instructions of reachable blocks and the exit; empty elsewhere
recompute_defs(code) ==
    LET edges  == ReachableEdges(code)
        outs   == DefOuts(code)
        reach  == recompute_reachable(code)
        blocks == recompute_blocks(code)
        def[i \in 1..(Len(code) + 1)] ==
          IF i \in blocks THEN (IF i \in reach THEN MeetIns(edges, outs, i) ELSE {})
          ELSE LET prev == def[i-1] IN (prev \cup code[i-1].must_write) \ code[i-1].maybe_undef
    IN  def

\* The summary of a block in recompute_defs() takes a register out of kill_ as soon as an
\* instruction may write it.  It is exact if a register that some instruction may
\* undefine is always written, and not undefined, by those that may write it.
UndefsOverwritten(c) ==
    \A i, j \in 1..Len(c) :
      c[i].maybe_undef \cap c[j].maybe_write \subseteq c[j].must_write \ c[j].maybe_undef

-----------------------------------------------------------------------------
(* recompute_liveness: a register is live if some path reads it next *)

EverRead(code) == LiveOuts \cup UNION {code[i].maybe_read : i \in 1..Len(code)}

\* Mutant: an instruction's own writes hide its reads.
UseKill_KillFirst(code, b) ==
    LET uk[i \in (b-1)..LastOf(code, b)] ==
          IF i = b-1 THEN [use |-> {}, kill |-> {}]
          ELSE LET prev == uk[i-1]
                   kill == prev.kill \cup code[i].must_undef \cup code[i].must_write
               IN  [use |-> prev.use \cup (code[i].maybe_read \ kill), kill |-> kill]
    IN  uk[LastOf(code, b)]

UseKill(code, b) ==
    LET uk[i \in (b-1)..LastOf(code, b)] ==
          IF i = b-1 THEN [use |-> {}, kill |-> {}]
          ELSE LET prev == uk[i-1]
               IN  [use  |-> prev.use \cup (code[i].maybe_read \ prev.kill),
                    kill |-> prev.kill \cup code[i].must_undef \cup code[i].must_write]
    IN  uk[LastOf(code, b)]

\* What is live out of block b, given what is live into the others
MeetOuts(code, edges, ins, b) ==
    {r \in Reg :
       \/ code[LastOf(code, b)].kind = "ijmp" /\ r \in EverRead(code)
       \/ \E e \in edges : e[1] = b /\ <<e[2], r>> \in ins}

LiveBlocks(code) == recompute_reachable(code) \ {Entry, Exit(code)}

LiveAtExit(code) == {<<Exit(code), r>> : r \in LiveOuts}

\* One sweep over the reachable blocks
LiveStep(code) ==
    LET edges  == ReachableEdges(code)
        blocks == LiveBlocks(code)
        use    == UNION {{<<b, r>> : r \in UseKill(code, b).use} : b \in blocks}
        kill   == UNION {{<<b, r>> : r \in UseKill(code, b).kill} : b \in blocks}
        Met(ins) == UNION {{<<b, r>> : r \in MeetOuts(code, edges, ins, b)} : b \in blocks}
    IN  [ins \in SUBSET (LiveAtExit(code) \cup (blocks \X Reg)) |->
           LiveAtExit(code) \cup use \cup (Met(ins) \ kill)]

\* live_ins_ of the reachable blocks: the least fixed point
LiveIns(code) ==
    Rounds(LiveStep(code), LiveAtExit(code), Cardinality(LiveBlocks(code)) * Cardinality(Reg))

\* live_outs_ of the instructions of reachable blocks; empty elsewhere
recompute_liveness(code) ==
    LET edges == ReachableEdges(code)
        ins   == LiveIns(code)
        reach == recompute_reachable(code)
        out[k \in 0..(Len(code) - 1)] ==
          LET i == Len(code) - k
              b == BlockOf(code, i)
          IN  IF b \notin reach THEN {}
              ELSE IF i = LastOf(code, b) THEN MeetOuts(code, edges, ins, b)
              ELSE LET nxt == out[k-1]
                   IN  (nxt \ (code[i+1].must_write \cup code[i+1].must_undef))
                         \cup code[i+1].maybe_read
    IN  [i \in 1..Len(code) |-> out[Len(code) - i]]

-----------------------------------------------------------------------------
(* check_invariants *)

\* Mutant: the last instruction of a block is not looked at.
no_undef_reads_LastLeft(code, def_ins, reachable) ==
    \A b \in reachable : \A i \in InstrsOf(code, b) :
      i + 1 \in InstrsOf(code, b) => code[i].maybe_read \subseteq def_ins[i]

\* def_ins and reachable are what recompute_defs() and recompute_reachable() left.
invariant_no_undef_reads(code, def_ins, reachable) ==
    \A b \in reachable : \A i \in InstrsOf(code, b) : code[i].maybe_read \subseteq def_ins[i]

invariant_no_undef_live_outs(code, def_ins) == LiveOuts \subseteq def_ins[Exit(code)]

check_invariants(code, def_ins, reachable) ==
    /\ code # <<>> /\ code[1].kind = "label"
    /\ invariant_no_undef_reads(code, def_ins, reachable)
    /\ invariant_no_undef_live_outs(code, def_ins)
=============================================================================
