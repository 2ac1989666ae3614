----------------------------- MODULE Transform -----------------------------
(***************************************************************************)
(* The transforms of src/src/transform that the search proposes, applied   *)
(* to one function under search, and their undo.                           *)
(*                                                                         *)
(* A transform edits the TUnit, brings the Cfg's meta data up to date and  *)
(* checks the invariants; if the check fails it undoes itself, and if the  *)
(* search rejects the result it calls undo() with the TransformInfo.       *)
(* Both undo the same edit in the same way, so a proposal leaves the       *)
(* function "moved", and one of Keep and Undo follows.                     *)
(*                                                                         *)
(* Of the Cfg only the block boundaries are modelled here: add_nops,       *)
(* delete and rotate call Cfg::recompute(), the others call                *)
(* Cfg::recompute_defs(), which leaves the boundaries as they are.         *)
(***************************************************************************)
EXTENDS TUnit

CONSTANTS
    Globals,    \* addresses the target's rip operands can denote
    NopShape,   \* the shape of the one byte NOP
    MaxLen,     \* bound on the length of the code
    InitLens    \* lengths of the target

ASSUME GlobalsAssumption == Globals \subseteq Int
ASSUME NopAssumption == NopShape \in Shape /\ NopShape.kind = "plain" /\ NopShape.rip = "none"
ASSUME LengthAssumption == MaxLen \in Nat /\ InitLens \subseteq 1..MaxLen

VARIABLES
    fn,         \* Cfg::function_
    boundaries, \* Cfg::boundaries_, from which blocks_ is built
    rip_pool,   \* TransformPools::rip_pool_
    ti,         \* TransformInfo of the move in flight, or NoMove
    prev        \* ghost: fn before that move

vars == <<fn, boundaries, rip_pool, ti, prev>>

Moves == {"add_nops", "delete", "rotate", "swap", "replace"}

Plain(shape, disp, glob) == [shape |-> shape, disp |-> disp, glob |-> glob]

Nop == Plain(NopShape, 0, 0)

\* undo_index and undo_instr; move_type says which undo() is called
TransformInfo ==
    [move_type : Moves \cup {"none"}, undo_index : Nat \X Nat, undo_instr : Instr]

NoMove == [move_type |-> "none", undo_index |-> <<0, 0>>, undo_instr |-> Nop]

-----------------------------------------------------------------------------
(* The Cfg's block boundaries *)

\* Labels begin a block; jumps and returns end one.  Both ends of the code are
\* boundaries.
Boundaries(code) ==
    {1, Len(code) + 1}
      \cup {i \in 1..Len(code) : code[i].shape.kind = "label"}
      \cup {i + 1 : i \in {k \in 1..Len(code) : code[k].shape.kind \in {"jump", "ret"}}}

\* No boundary of bs lies after i and up to j: i and j are in one block.
SameBlock(bs, i, j) ==
    \A b \in bs : (b <= i) <=> (b <= j)

-----------------------------------------------------------------------------
(* Instructions *)

\* Mutant: labels may be moved and replaced.
is_control_NotLabels(instr) == instr.shape.kind \in {"jump", "ret"}

is_control_other_than_call(instr) == instr.shape.kind \in {"label", "jump", "ret"}

\* Instructions whose operands all come from the pools: a memory operand is
\* rip-relative with a pooled address in its displacement, or register based
\* (get_m); the operand of a lea never is rip-relative (get_lea_mem).
Pooled ==
    {Plain(s, 0, 0) : s \in {x \in Shape : x.kind \in {"plain", "call"} /\ x.rip = "none"}}
      \cup {Plain(s, g, g) : s \in {x \in Shape : x.kind = "plain" /\ x.rip = "mem"},
                             g \in rip_pool}

-----------------------------------------------------------------------------
(* Proposals.  An index is drawn from all but the leading label. *)

Move(type, i, j, undo_instr, new, recomputed) ==
    /\ fn' = new
    /\ boundaries' = IF recomputed THEN Boundaries(new.code) ELSE boundaries
    /\ ti' = [move_type |-> type, undo_index |-> <<i, j>>, undo_instr |-> undo_instr]
    /\ prev' = fn
    /\ UNCHANGED rip_pool

Movable(i) == ~is_control_other_than_call(fn.code[i])

AddNops(i) ==
    /\ ti = NoMove
    /\ Len(fn.code) >= 3 /\ Len(fn.code) < MaxLen
    /\ Move("add_nops", i, 1, Nop, insert(fn, i, Nop, FALSE), TRUE)

Delete(i) ==
    /\ ti = NoMove
    /\ Len(fn.code) >= 3
    /\ Movable(i)
    /\ Move("delete", i, 1, fn.code[i], remove(fn, i), TRUE)

Rotate(i, j) ==
    /\ ti = NoMove
    /\ Len(fn.code) >= 3
    /\ i # j /\ Movable(i) /\ Movable(j)
    /\ Move("rotate", i, j, fn.code[i],
            IF i < j THEN rotate_left(fn, i, j) ELSE rotate_right(fn, j, i), TRUE)

GlobalSwap(i, j) ==
    /\ ti = NoMove
    /\ Len(fn.code) >= 3
    /\ i # j /\ Movable(i) /\ Movable(j)
    /\ Move("swap", i, j, fn.code[i], swap(fn, i, j), FALSE)

LocalSwap(i, j) ==
    /\ ti = NoMove
    /\ SameBlock(boundaries, i, j)
    /\ i # j /\ Movable(i) /\ Movable(j)
    /\ Move("swap", i, j, fn.code[i], swap(fn, i, j), FALSE)

\* A type equivalent opcode with the operands of the old one: only local rescaling
OpcodeMove(i, s) ==
    /\ ti = NoMove
    /\ Movable(i)
    /\ s.kind = fn.code[i].shape.kind
    /\ (s.rip = "none") <=> (fn.code[i].shape.rip = "none")
    /\ Move("replace", i, 0, fn.code[i],
            replace(fn, i, [fn.code[i] EXCEPT !.shape = s], FALSE, FALSE), FALSE)

\* The memory operand is drawn anew: a rip operand needs global rescaling.
OperandMoveMem(i, instr) ==
    /\ ti = NoMove
    /\ Movable(i)
    /\ instr.shape.kind = fn.code[i].shape.kind
    /\ fn.code[i].shape.rip = "lea" => ~is_rip(instr)
    /\ Move("replace", i, 0, fn.code[i],
            replace(fn, i, instr, FALSE, is_rip(instr)), FALSE)

\* Another operand is drawn anew: the size may change, the memory operand stays.
OperandMoveOther(i, s) ==
    /\ ti = NoMove
    /\ Movable(i)
    /\ s.kind = fn.code[i].shape.kind
    /\ s.rip = fn.code[i].shape.rip
    /\ Move("replace", i, 0, fn.code[i],
            replace(fn, i, [fn.code[i] EXCEPT !.shape = s], FALSE, FALSE), FALSE)

\* The same operation at another width (get_equivalent_raw_memonic), with every operand
\* from the pools
OpcodeWidthMove(i, instr) ==
    /\ ti = NoMove
    /\ Movable(i)
    /\ instr.shape.kind = fn.code[i].shape.kind
    /\ Move("replace", i, 0, fn.code[i], replace(fn, i, instr, FALSE, TRUE), FALSE)

\* A new opcode, with every operand from the pools
InstructionMove(i, instr) ==
    /\ ti = NoMove
    /\ Movable(i)
    /\ Move("replace", i, 0, fn.code[i], replace(fn, i, instr, FALSE, TRUE), FALSE)

\* No index, operand or opcode fits: success stays false and nothing changes.
Fail ==
    /\ ti = NoMove
    /\ UNCHANGED vars

-----------------------------------------------------------------------------
(* Keeping and undoing a move *)

\* WeightedTransform::undo dispatches on move_type.
Undone(t, info) ==
    LET i == info.undo_index[1]
        j == info.undo_index[2]
    IN  CASE info.move_type = "add_nops" -> remove(t, i)
          [] info.move_type = "delete"   -> insert(t, i, info.undo_instr, FALSE)
          [] info.move_type = "rotate"   -> IF i < j THEN rotate_right(t, i, j)
                                                     ELSE rotate_left(t, j, i)
          [] info.move_type = "swap"     -> swap(t, i, j)
          [] info.move_type = "replace"  -> replace(t, i, info.undo_instr, TRUE, FALSE)

\* The moves whose undo calls Cfg::recompute()
Recomputes == {"add_nops", "delete", "rotate"}

Undo ==
    /\ ti # NoMove
    /\ fn' = Undone(fn, ti)
    /\ boundaries' = IF ti.move_type \in Recomputes THEN Boundaries(fn'.code) ELSE boundaries
    /\ ti' = NoMove
    /\ prev' = fn'
    /\ UNCHANGED rip_pool

Keep ==
    /\ ti # NoMove
    /\ check_invariants(fn)
    /\ ti' = NoMove
    /\ prev' = fn
    /\ UNCHANGED <<fn, boundaries, rip_pool>>

-----------------------------------------------------------------------------
(* The specification *)

\* The target: a label, then instructions whose rip operands resolve to Globals;
\* built as the TUnit constructor does, by recompute().
Local(code) ==
    LET t == recompute(code)
    IN  recompute([i \in 1..Len(code) |->
          AdjustIfRip(code[i], code[i].glob - RipOffset - t.offsets[i] - t.sizes[i])])

LabelInstrs == {Plain(s, 0, 0) : s \in {x \in Shape : x.kind = "label"}}

TargetInstrs ==
    {Plain(s, 0, 0) : s \in {x \in Shape : x.rip = "none"}}
      \cup {Plain(s, 0, g) : s \in {x \in Shape : x.rip # "none"}, g \in Globals}

Targets ==
    {Local(c) : c \in {x \in UNION {[1..n -> TargetInstrs] : n \in InitLens} :
                         x[1] \in LabelInstrs}}

Init ==
    /\ fn \in Targets
    /\ boundaries = Boundaries(fn.code)
    /\ rip_pool = fn.targets
    /\ ti = NoMove
    /\ prev = fn

Indices == 2..Len(fn.code)

Propose ==
    \/ \E i \in Indices, s \in Shape :
         OpcodeMove(i, s) \/ OperandMoveOther(i, s)
    \/ \E i \in Indices : AddNops(i) \/ Delete(i)
    \/ \E i \in Indices, j \in Indices : Rotate(i, j) \/ GlobalSwap(i, j) \/ LocalSwap(i, j)
    \/ \E i \in Indices, instr \in Pooled :
         OperandMoveMem(i, instr) \/ OpcodeWidthMove(i, instr) \/ InstructionMove(i, instr)

Next == Propose \/ Fail \/ Keep \/ Undo

Spec == Init /\ [][Next]_vars

-----------------------------------------------------------------------------
(* Properties *)

TypeOK ==
    /\ fn \in TUnitType
    /\ prev \in TUnitType
    /\ boundaries \subseteq Nat
    /\ rip_pool \subseteq Int
    /\ ti \in TransformInfo

\* The hex size and offset tables are those of the code, the leading label is in
\* place and every dereferenced rip target is a known one, after every edit and
\* every undo: what the transforms assert with check_invariants().
MetaDataCurrent == check_invariants(fn)

\* However instructions are inserted, removed, resized, swapped, rotated and put
\* back, a rip-relative operand still resolves to the address it was written for.
RipTargetsKept == RipsResolve(fn)

\* undo() gives back the very function the transform was applied to.
UndoRestores ==
    ti # NoMove =>
      LET u == Undone(fn, ti)
      IN  u.code = prev.code /\ u.sizes = prev.sizes /\ u.offsets = prev.offsets

\* The transforms that only call recompute_defs() never leave the Cfg with the
\* basic blocks of another program.
BlocksCurrent == boundaries = Boundaries(fn.code)
=============================================================================
