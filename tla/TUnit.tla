------------------------------- MODULE TUnit -------------------------------
(***************************************************************************)
(* The translation unit of src/src/tunit: one assembly function together   *)
(* with the meta data that every edit has to keep in step with the code,   *)
(* the hex size and the hex offset of each instruction and the set of      *)
(* global addresses its rip-relative operands resolve to.                  *)
(*                                                                         *)
(* A TUnit is a record; an edit is an operator from a TUnit to a TUnit.    *)
(* Indices run from 1 where the code runs from 0, so that the leading      *)
(* label is instruction 1.                                                 *)
(*                                                                         *)
(* An instruction is abstracted to what the edits look at: whether it is   *)
(* control flow, how many bytes it assembles to, whether it has a          *)
(* rip-relative operand and in which form, and that operand's              *)
(* displacement.  The field glob is a ghost: the absolute address the      *)
(* operand was written for, which no edit of the code reads.               *)
(***************************************************************************)
EXTENDS Integers, Sequences

CONSTANTS
    Shape,        \* what an instruction can be, apart from its displacement
    RipOffset     \* TUnit::rip_offset_, the address of the function

\* Control flow: a label, a jump or a return is never moved or replaced by a
\* transform; a direct call (CALL_LABEL) may be.
Kind == {"label", "jump", "ret", "call", "plain"}

\* "mem": dereferences rip + disp; "lea": computes it; "none": not rip relative
RipForm == {"none", "mem", "lea"}

ASSUME ShapeAssumption == Shape \subseteq [kind : Kind, size : Nat, rip : RipForm]
ASSUME RipOffsetAssumption == RipOffset \in Nat

Instr == [shape : Shape, disp : Int, glob : Int]

TUnitType == [code    : Seq(Instr),
              sizes   : Seq(Nat),
              offsets : Seq(Int),
              targets : SUBSET Int]

-----------------------------------------------------------------------------
(* Queries *)

\* x64asm's Assembler::hex_size: a rip-relative operand always carries a 32 bit
\* displacement, so the size does not depend on its value.
hex_size(instr) == instr.shape.size

is_rip(instr) == instr.shape.rip # "none"

adjust_rip(instr, delta) == [instr EXCEPT !.disp = @ + delta]

\* The edits' "if (is_rip(i)) adjust_rip(i, delta)"
AdjustIfRip(instr, delta) ==
    IF is_rip(instr) THEN adjust_rip(instr, delta) ELSE instr

\* The address the rip operand of code[i] resolves to
Resolved(code, sizes, offsets, i) == RipOffset + offsets[i] + sizes[i] + code[i].disp

RipTarget(t, i) == Resolved(t.code, t.sizes, t.offsets, i)

\* The addresses recompute() collects: a lea is not a memory dereference
Dereferenced(code, sizes, offsets) ==
    {Resolved(code, sizes, offsets, i) : i \in {k \in 1..Len(code) : code[k].shape.rip = "mem"}}

-----------------------------------------------------------------------------
(* Meta data from scratch *)

HexSizes(code) == [i \in 1..Len(code) |-> hex_size(code[i])]

\* The running sum of the sizes
HexOffsets(sizes) ==
    LET off[i \in 1..Len(sizes)] == IF i = 1 THEN 0 ELSE off[i-1] + sizes[i-1]
    IN  off

WithOffsets(code, sizes, offsets) ==
    [code |-> code, sizes |-> sizes, offsets |-> offsets,
     targets |-> Dereferenced(code, sizes, offsets)]

recompute(code) == WithOffsets(code, HexSizes(code), HexOffsets(HexSizes(code)))

-----------------------------------------------------------------------------
(* Edits *)

\* Mutant: the shift is applied to the sizes, not the offsets.
remove_ShiftsSizes(t, k) ==
    LET n     == Len(t.code)
        delta == 0 - t.sizes[k]
    IN  [code    |-> [i \in 1..(n-1) |->
                        IF i < k THEN t.code[i] ELSE AdjustIfRip(t.code[i+1], -delta)],
         sizes   |-> [i \in 1..(n-1) |-> IF i < k THEN t.sizes[i] ELSE t.sizes[i+1] + delta],
         offsets |-> [i \in 1..(n-1) |-> IF i < k THEN t.offsets[i] ELSE t.offsets[i+1]],
         targets |-> t.targets]

remove(t, k) ==
    LET n     == Len(t.code)
        delta == 0 - t.sizes[k]
    IN  [code    |-> [i \in 1..(n-1) |->
                        IF i < k THEN t.code[i] ELSE AdjustIfRip(t.code[i+1], -delta)],
         sizes   |-> [i \in 1..(n-1) |-> IF i < k THEN t.sizes[i] ELSE t.sizes[i+1]],
         offsets |-> [i \in 1..(n-1) |->
                        IF i < k THEN t.offsets[i] ELSE t.offsets[i+1] + delta],
         targets |-> t.targets]

\* The offset of an instruction put in front of the k-th
InsertOffset(t, k) == IF k = 1 THEN 0 ELSE t.offsets[k-1] + t.sizes[k-1]

\* rescale_rip: the operand's displacement is a global address and has to be made
\* relative to where the instruction now is.
insert(t, k, instr, rescale_rip) ==
    LET n    == Len(t.code)
        size == hex_size(instr)
        off  == InsertOffset(t, k)
        new  == IF rescale_rip THEN AdjustIfRip(instr, 0 - RipOffset - off - size)
                               ELSE instr
    IN  [code    |-> [i \in 1..(n+1) |->
                        IF i < k THEN t.code[i]
                        ELSE IF i = k THEN new ELSE AdjustIfRip(t.code[i-1], -size)],
         sizes   |-> [i \in 1..(n+1) |->
                        IF i < k THEN t.sizes[i]
                        ELSE IF i = k THEN size ELSE t.sizes[i-1]],
         offsets |-> [i \in 1..(n+1) |->
                        IF i < k THEN t.offsets[i]
                        ELSE IF i = k THEN off ELSE t.offsets[i-1] + size],
         targets |-> t.targets]

\* Mutant: the new instruction is not made up for its own change of size.
replace_OwnSizeForgotten(t, k, instr, skip_first, rescale_rip) ==
    LET size  == hex_size(instr)
        delta == size - t.sizes[k]
        own   == IF rescale_rip THEN 0 - RipOffset - t.offsets[k] - size ELSE 0
    IN  recompute([i \in 1..Len(t.code) |->
                     IF i < k THEN t.code[i]
                     ELSE IF i = k THEN AdjustIfRip(instr, own)
                     ELSE AdjustIfRip(t.code[i], -delta)])

\* Mutant: an instruction that is put back is adjusted like a new one.
replace_SkipIgnored(t, k, instr, skip_first, rescale_rip) ==
    LET size  == hex_size(instr)
        delta == size - t.sizes[k]
        own   == IF rescale_rip THEN 0 - RipOffset - t.offsets[k] - size ELSE -delta
    IN  recompute([i \in 1..Len(t.code) |->
                     IF i < k THEN t.code[i]
                     ELSE IF i = k THEN AdjustIfRip(instr, own)
                     ELSE AdjustIfRip(t.code[i], -delta)])

\* skip_first: the instruction's own displacement is right as it stands (an undo).
\* The tables that replace() updates on the way are overwritten by its recompute().
replace(t, k, instr, skip_first, rescale_rip) ==
    LET size  == hex_size(instr)
        delta == size - t.sizes[k]
        own   == IF rescale_rip THEN 0 - RipOffset - t.offsets[k] - size
                 ELSE IF skip_first THEN 0 ELSE -delta
    IN  recompute([i \in 1..Len(t.code) |->
                     IF i < k THEN t.code[i]
                     ELSE IF i = k THEN AdjustIfRip(instr, own)
                     ELSE AdjustIfRip(t.code[i], -delta)])

\* For i < j; the code reorders its arguments first.  When both instructions have
\* the same size the tables stay as they are.
SwapOrdered(t, i, j) ==
    LET n     == Len(t.code)
        span  == t.offsets[j] - t.offsets[i+1]
        di    == span + t.sizes[j]
        dj    == 0 - span - t.sizes[i]
        inner == t.sizes[j] - t.sizes[i]
    IN  [code    |-> [k \in 1..n |->
                        IF k = i THEN AdjustIfRip(t.code[j], -dj)
                        ELSE IF k = j THEN AdjustIfRip(t.code[i], -di)
                        ELSE IF i < k /\ k < j THEN AdjustIfRip(t.code[k], -inner)
                        ELSE t.code[k]],
         sizes   |-> IF inner = 0 THEN t.sizes
                     ELSE [k \in 1..n |->
                             IF k = i THEN t.sizes[j]
                             ELSE IF k = j THEN t.sizes[i] ELSE t.sizes[k]],
         offsets |-> IF inner = 0 THEN t.offsets
                     ELSE [k \in 1..n |->
                             IF k = i THEN t.offsets[j] + dj
                             ELSE IF k = j THEN t.offsets[i] + di
                             ELSE IF i < k /\ k < j THEN t.offsets[k] + inner
                             ELSE t.offsets[k]],
         targets |-> t.targets]

swap(t, i, j) ==
    IF i = j THEN t
    ELSE IF i < j THEN SwapOrdered(t, i, j) ELSE SwapOrdered(t, j, i)

\* Mutant: the offset of the instruction that moves is left behind.
rotate_left_OffsetLeft(t, i, j) ==
    LET n     == Len(t.code)
        small == 0 - t.sizes[i]
        large == t.offsets[j] - t.offsets[i+1] + t.sizes[j]
    IN  [code    |-> [k \in 1..n |->
                        IF i <= k /\ k < j THEN AdjustIfRip(t.code[k+1], -small)
                        ELSE IF k = j THEN AdjustIfRip(t.code[i], -large) ELSE t.code[k]],
         sizes   |-> [k \in 1..n |->
                        IF i <= k /\ k < j THEN t.sizes[k+1]
                        ELSE IF k = j THEN t.sizes[i] ELSE t.sizes[k]],
         offsets |-> [k \in 1..n |->
                        IF i <= k /\ k < j THEN t.offsets[k+1] + small
                        ELSE t.offsets[k]],
         targets |-> t.targets]

\* Instruction i goes to j, those in between move up by one; i < j.
rotate_left(t, i, j) ==
    LET n     == Len(t.code)
        small == 0 - t.sizes[i]
        large == t.offsets[j] - t.offsets[i+1] + t.sizes[j]
    IN  [code    |-> [k \in 1..n |->
                        IF i <= k /\ k < j THEN AdjustIfRip(t.code[k+1], -small)
                        ELSE IF k = j THEN AdjustIfRip(t.code[i], -large) ELSE t.code[k]],
         sizes   |-> [k \in 1..n |->
                        IF i <= k /\ k < j THEN t.sizes[k+1]
                        ELSE IF k = j THEN t.sizes[i] ELSE t.sizes[k]],
         offsets |-> [k \in 1..n |->
                        IF i <= k /\ k < j THEN t.offsets[k+1] + small
                        ELSE IF k = j THEN t.offsets[i] + large ELSE t.offsets[k]],
         targets |-> t.targets]

\* Instruction j goes to i, those in between move down by one; i < j.
rotate_right(t, i, j) ==
    LET n     == Len(t.code)
        small == t.sizes[j]
        large == 0 - (t.offsets[j] - t.offsets[i+1]) - t.sizes[i]
    IN  [code    |-> [k \in 1..n |->
                        IF i < k /\ k <= j THEN AdjustIfRip(t.code[k-1], -small)
                        ELSE IF k = i THEN AdjustIfRip(t.code[j], -large) ELSE t.code[k]],
         sizes   |-> [k \in 1..n |->
                        IF i < k /\ k <= j THEN t.sizes[k-1]
                        ELSE IF k = i THEN t.sizes[j] ELSE t.sizes[k]],
         offsets |-> [k \in 1..n |->
                        IF i < k /\ k <= j THEN t.offsets[k-1] + small
                        ELSE IF k = i THEN t.offsets[j] + large ELSE t.offsets[k]],
         targets |-> t.targets]

-----------------------------------------------------------------------------
(* TUnit::check_invariants *)

invariant_first_instr_is_label(t) ==
    t.code # <<>> /\ t.code[1].shape.kind = "label"

invariant_hex_sizes(t) ==
    /\ Len(t.sizes) = Len(t.code)
    /\ \A i \in 1..Len(t.code) : t.sizes[i] = hex_size(t.code[i])

invariant_hex_offsets(t) ==
    /\ Len(t.offsets) = Len(t.code)
    /\ t.code # <<>> => t.offsets[1] = 0
    /\ \A i \in 2..Len(t.code) : t.offsets[i] = t.offsets[i-1] + hex_size(t.code[i-1])

invariant_rip_offsets(t) == Dereferenced(t.code, t.sizes, t.offsets) \subseteq t.targets

check_invariants(t) ==
    /\ invariant_first_instr_is_label(t)
    /\ invariant_hex_sizes(t)
    /\ invariant_hex_offsets(t)
    /\ invariant_rip_offsets(t)

\* Every rip operand resolves to the address it was written for.
RipsResolve(t) ==
    \A i \in 1..Len(t.code) : is_rip(t.code[i]) => RipTarget(t, i) = t.code[i].glob
=============================================================================
