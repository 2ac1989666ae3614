------------------------------ MODULE Aliasing ------------------------------
(***************************************************************************)
(* ObligationChecker::check with the string strategies                     *)
(* (src/src/validator/obligation_checker.cc): accesses that are always at  *)
(* the same or at adjacent addresses share a cell, every way the cells can *)
(* overlap is an aliasing case, and for each case the solver is asked for  *)
(* an input on which two straight-line programs over the cells differ.     *)
(* From its model a test case is built (CpuState::memory_from_map) and run *)
(* in the sandbox.                                                         *)
(*                                                                         *)
(* An instruction is a sequence of register moves, reads and writes.       *)
(* Programs only move bytes around, so one memory in which every byte is   *)
(* different, its own address, stands for all.  An input then is the value *)
(* of the registers that addresses are made from.                          *)
(***************************************************************************)
EXTENDS Integers, SequencesExt

CONSTANTS
    Pairs,         \* targets and rewrites: <<target, rewrite>>
    Assignments,   \* inputs the invariant assumed of both programs allows: base -> address
    Strategies,    \* values of alias_strategy_
    HeapOut,       \* values of heap_out_ || stack_out_
    Top,           \* the size of the address space
    Margin,        \* distance cells keep from both of its ends
    Align, Quad,   \* what segments are aligned and rounded to
    Slot           \* bytes of stack a test case gets

ASSUME AliasingAssumption ==
    /\ Strategies \subseteq {"string", "string_no_alias"}
    /\ Align \in Nat \ {0} /\ Quad \in Nat \ {0} /\ Align % Quad = 0
    /\ \A sigma \in Assignments : "rsp" \in DOMAIN sigma

VARIABLES
    target, rewrite, strategy, heap_out,
    cells,       \* cell[], offset[], cell_sizes[] and max_cell
    placed,      \* accesses related, and then cells placed
    options,     \* the arrangements of the cells placed so far
    ceg,         \* what the solver and the sandbox said
    pc           \* "relate", "place", "solve", "proved" or "refuted"

pair == <<target, rewrite, strategy, heap_out>>
vars == <<pair, cells, placed, options, ceg, pc>>

-----------------------------------------------------------------------------
(* Programs *)

IsAccess(op) == op.kind \in {"read", "write"}

Address(op, sigma) == sigma[op.base] + op.off

\* Registers are two bytes wide; a shorter value is extended with zeros.
Zero == 0 - 1
Extended(value) == [k \in 1..2 |-> IF k <= Len(value) THEN value[k] ELSE Zero]

Registers == [r1 |-> <<1001, 1002>>, r2 |-> <<1003, 1004>>, tmp |-> <<Zero, Zero>>]

LiveOuts == {"r1", "r2"}

SameRegisters(s, t) == \A r \in LiveOuts : s[r] = t[r]

-----------------------------------------------------------------------------
(* The machine: memory is a sequence of segments, each with the bytes that are *)
(* valid.  emit_map_addr takes the first segment the address falls into, its    *)
(* upper bound included, and fails if a byte there is not valid.                *)

Segment(base, size, bytes) == [base |-> base, size |-> size, bytes |-> bytes]

emit_map_addr(segments, addr, size) ==
    LET hits == {k \in 1..Len(segments) :
                   /\ segments[k].size > 0
                   /\ segments[k].base <= addr /\ addr <= segments[k].base + segments[k].size}
        k    == CHOOSE k \in hits : \A h \in hits : k <= h
    IN  IF hits # {} /\ addr..(addr + size - 1) \subseteq DOMAIN segments[k].bytes THEN k ELSE 0

Execute(st, op, sigma) ==
    IF st.sig THEN st
    ELSE IF op.kind = "move" THEN [st EXCEPT !.regs[op.reg] = st.regs[op.from]]
    ELSE LET addr == Address(op, sigma)
             k    == emit_map_addr(st.segments, addr, op.size)
         IN  IF k = 0 THEN [st EXCEPT !.sig = TRUE]
             ELSE IF op.kind = "read"
             THEN [st EXCEPT !.regs[op.reg] =
                     Extended([n \in 1..op.size |-> st.segments[k].bytes[addr + n - 1]])]
             ELSE [st EXCEPT !.segments[k].bytes =
                     [b \in DOMAIN @ |-> IF b \in addr..(addr + op.size - 1)
                                         THEN st.regs[op.reg][b - addr + 1] ELSE @[b]]]

run_sandbox(prog, segments, sigma) ==
    FoldLeft(LAMBDA st, op : Execute(st, op, sigma),
             [regs |-> Registers, segments |-> segments, sig |-> FALSE], FlattenSeq(prog))

\* All of memory, before any program ran
Memory == <<Segment(0, Top, [b \in 0..(Top - 1) |-> b])>>

-----------------------------------------------------------------------------
(* enumerate_aliasing_string: accesses, cells *)

\* Lines of a program that access memory; what counts is the first access of a line.
Lines(prog) == SelectSeq([l \in 1..Len(prog) |-> l],
                         LAMBDA l : \E k \in 1..Len(prog[l]) : IsAccess(prog[l][k]))

FirstAccess(instr) == SelectSeq(instr, IsAccess)[1]

AccessesOf(prog, is_rewrite) ==
    [n \in 1..Len(Lines(prog)) |->
       LET op == FirstAccess(prog[Lines(prog)[n]])
       IN  [base |-> op.base, off |-> op.off, size |-> op.size,
            line |-> Lines(prog)[n], is_rewrite |-> is_rewrite]]

sym_accesses == AccessesOf(target, FALSE) \o AccessesOf(rewrite, TRUE)

total_accesses == Len(sym_accesses)

same_address(a, b) == \A sigma \in Assignments : Address(a, sigma) = Address(b, sigma)

next_address(a, b) ==
    ~same_address(a, b) /\ \A sigma \in Assignments : Address(a, sigma) + a.size = Address(b, sigma)

Larger(a, b) == IF a > b THEN a ELSE b

\* Access j joins the cell of i, in front of it: what is in the cell makes room.
InFront(c, acc, i, j) ==
    LET mine       == c.cell[i]
        difference == Larger(acc[j].size - c.offset[i], 0)
        offset     == [k \in DOMAIN c.offset |->
                         IF k = j THEN Larger(c.offset[i] - acc[j].size, 0)
                         ELSE IF c.cell[k] = mine THEN c.offset[k] + difference ELSE c.offset[k]]
    IN  [c EXCEPT !.cell[j] = mine, !.offset = offset,
                  !.size[mine] = Larger(Larger(@ + difference, offset[j] + acc[j].size),
                                        offset[i] + acc[i].size)]

\* Access j joins the cell of i at an offset.
At(c, acc, i, j, offset) ==
    [c EXCEPT !.cell[j] = c.cell[i], !.offset[j] = offset,
              !.size[c.cell[i]] = Larger(@, offset + acc[j].size)]

\* One round of the inner loop
Related(c, acc, i, j) ==
    IF same_address(acc[i], acc[j]) THEN At(c, acc, i, j, c.offset[i])
    ELSE IF next_address(acc[i], acc[j]) THEN At(c, acc, i, j, c.offset[i] + acc[i].size)
    ELSE IF next_address(acc[j], acc[i]) THEN InFront(c, acc, i, j)
    ELSE c

\* One round of the outer loop; cell 0 is none
RelateAll(c, acc, i) ==
    LET new  == [c EXCEPT !.max = @ + 1, !.cell[i] = c.max + 1, !.size[c.max + 1] = acc[i].size]
        here == IF c.cell[i] = 0 THEN new ELSE c
    IN  FoldLeft(LAMBDA d, j : Related(d, acc, i, j), here,
                 [k \in 1..(Len(acc) - i) |-> i + k])

-----------------------------------------------------------------------------
(* enumerate_aliasing_helper: the cells are placed one after the other.  A cell *)
(* in place is [cell, offset, cell_size]: the larger cell it now is a part of.  *)

Sizes(option) == FoldLeft(LAMBDA n, d : n + d.size, 0, option)

RECURSIVE find_arrangements(_, _, _)

\* Mutant: a cell is never laid over the end of another.
find_arrangements_WholeCells(start, available, max_size) ==
    IF Sizes(start) >= max_size THEN {start}
    ELSE find_arrangements(Append(start, [cell |-> 0, size |-> 1]), available, max_size)
           \cup UNION {find_arrangements(Append(start, d), available \ {d}, max_size) : d \in available}

\* Ways to fill max_size bytes with gaps, of one byte each, and cells; only the last j
\* bytes of the first cell may take part.
find_arrangements(start, available, max_size) ==
    IF Sizes(start) >= max_size THEN {start}
    ELSE find_arrangements(Append(start, [cell |-> 0, size |-> 1]), available, max_size)
           \cup UNION {UNION {find_arrangements(Append(start, [cell |-> d.cell, size |-> j]),
                                                available \ {d}, max_size) :
                               j \in IF start = <<>> THEN 1..d.size ELSE {d.size}} : d \in available}

InPlace(done) == {[cell |-> p.cell, size |-> p.cell_size] : p \in ToSet(done)}

\* The cells of an arrangement and the new one become one cell.
Merged(done, option) ==
    LET whole(d)  == (CHOOSE c \in InPlace(done) : c.cell = d.cell).size
        hangover  == IF option[1].cell # 0 THEN whole(option[1]) - option[1].size ELSE 0
        size      == Sizes(option) + hangover
        id        == 1 + FoldLeft(LAMBDA n, p : Larger(n, p.cell), 0, done)
        shift(i)  == IF i = 1 THEN 0 ELSE hangover + Sizes(SubSeq(option, 1, i - 1))
        place(p)  == {i \in 1..Len(option) : option[i].cell = p.cell}
        moved(p)  == [cell |-> id, cell_size |-> size,
                      offset |-> p.offset + shift(CHOOSE i \in place(p) : TRUE)]
    IN  Append([k \in 1..Len(done) |-> IF place(done[k]) = {} THEN done[k] ELSE moved(done[k])],
               [cell |-> id, cell_size |-> size, offset |-> hangover])

Extensions(done, cell_size) ==
    {Merged(done, option) : option \in find_arrangements(<<>>, InPlace(done), cell_size)}

-----------------------------------------------------------------------------
(* CellMemory.  An aliasing case m gives every access its cell and offset. *)

\* The access map_ has for a line
AtLine(m, is_rewrite, line) ==
    LET i == CHOOSE i \in 1..total_accesses :
               sym_accesses[i].is_rewrite = is_rewrite /\ sym_accesses[i].line = line
    IN  [cell |-> m[i].cell, offset |-> m[i].offset, cell_size |-> m[i].cell_size,
         size |-> sym_accesses[i].size]

\* Every access to memory of both programs, with the entry of its line
Uses(m) ==
    UNION {UNION {{[op |-> prog[1][l][k], at |-> AtLine(m, prog[2], l)] :
                     k \in {n \in 1..Len(prog[1][l]) : IsAccess(prog[1][l][n])}} :
                   l \in 1..Len(prog[1])} : prog \in {<<target, FALSE>>, <<rewrite, TRUE>>}}

Cells(m) == {[cell |-> m[i].cell, size |-> m[i].cell_size] : i \in DOMAIN m}

\* Where the constraints of the accesses put a cell
CellAddrs(uses, cell, sigma) ==
    {Address(u.op, sigma) - u.at.offset : u \in {v \in uses : v.at.cell = cell}}

Disjoint(a, n, b, k) == a + n <= b \/ b + k <= a

\* Cells keep away from the ends of the address space and from each other.
aliasing_formula(m, addr) ==
    /\ \A c \in Cells(m) : Margin <= addr[c.cell] /\ addr[c.cell] <= Top - c.size - Margin
    /\ \A c, d \in Cells(m) : c.cell # d.cell => Disjoint(addr[c.cell], c.size, addr[d.cell], d.size)

\* Mutant: a read takes the bytes at the start of the cell, a write those at its offset.
CellStep_ReadsStart(st, op, at) ==
    CASE op.kind = "move" -> [st EXCEPT !.regs[op.reg] = st.regs[op.from]]
      [] op.kind = "read" ->
           [st EXCEPT !.regs[op.reg] = Extended(SubSeq(st.cells[at.cell], 1, at.size))]
      [] op.kind = "write" ->
           [st EXCEPT !.cells[at.cell] =
              SubSeq(@, 1, at.offset) \o SubSeq(st.regs[op.reg], 1, at.size)
                \o SubSeq(@, at.offset + at.size + 1, at.cell_size)]

\* Read and write through the entry of the line
CellStep(st, op, at) ==
    CASE op.kind = "move" -> [st EXCEPT !.regs[op.reg] = st.regs[op.from]]
      [] op.kind = "read" ->
           [st EXCEPT !.regs[op.reg] =
              Extended(SubSeq(st.cells[at.cell], at.offset + 1, at.offset + at.size))]
      [] op.kind = "write" ->
           [st EXCEPT !.cells[at.cell] =
              SubSeq(@, 1, at.offset) \o SubSeq(st.regs[op.reg], 1, at.size)
                \o SubSeq(@, at.offset + at.size + 1, at.cell_size)]

\* What a program makes of its registers and cells
Circuit(prog, is_rewrite, m, initial) ==
    LET line(st, l) == FoldLeft(LAMBDA s, op :
                          CellStep(s, op, IF IsAccess(op) THEN AtLine(m, is_rewrite, l) ELSE <<>>),
                          st, prog[l])
    IN  FoldLeft(line, [regs |-> Registers, cells |-> initial], [l \in 1..Len(prog) |-> l])

InitialCells(m, addr) ==
    [cell \in DOMAIN addr |->
       [k \in 1..(CHOOSE c \in Cells(m) : c.cell = cell).size |-> addr[cell] + k - 1]]

\* Models of an aliasing case: the addresses of the cells are those of the accesses, and
\* live-outs differ, or cells do, if memory matters.
Models(m) ==
    LET ids == {c.cell : c \in Cells(m)}
        uses == Uses(m)
        addrs(sigma) == [c \in ids |-> CHOOSE a \in CellAddrs(uses, c, sigma) : TRUE]
        differ(addr) ==
          LET t == Circuit(target, FALSE, m, InitialCells(m, addr))
              r == Circuit(rewrite, TRUE, m, InitialCells(m, addr))
          IN  ~SameRegisters(t.regs, r.regs) \/ (heap_out /\ t.cells # r.cells)
    IN  {[sigma |-> s, addr |-> addrs(s)] :
           s \in {sigma \in Assignments :
                    /\ \A c \in ids : Cardinality(CellAddrs(uses, c, sigma)) = 1
                    /\ aliasing_formula(m, addrs(sigma))
                    /\ differ(addrs(sigma))}}

-----------------------------------------------------------------------------
(* build_testcase_cell_memory and memory_from_map *)

RoundDown(n, unit) == n - (n % unit)
RoundUp(n, unit) == RoundDown(n + unit - 1, unit)

\* The logical size of a segment of that size that starts at base: the headroom behind
\* it is not counted
resize(base, size) == RoundUp(size + (base % Align), Quad)

\* entry: an address and the bytes there
NewSegment(entry) ==
    Segment(RoundDown(entry.addr, Align), resize(entry.addr, Len(entry.bytes)), <<>>)

\* The bytes of an entry are valid in a segment; a smaller segment loses bytes.
Holding(seg, entry) ==
    LET kept == {b \in DOMAIN seg.bytes : b < seg.base + seg.size + Align}
        new  == entry.addr..(entry.addr + Len(entry.bytes) - 1)
    IN  [seg EXCEPT !.bytes = [b \in kept \cup new |->
           IF b \in new THEN entry.bytes[b - entry.addr + 1] ELSE seg.bytes[b]]]

\* Mutant: a segment does not grow with its entries.
Placed_NoGrowth(st, entry) ==
    LET end == entry.addr + Len(entry.bytes)
        old == Last(st.segments)
    IN  [max_addr |-> end,
         segments |->
           IF entry.addr < st.max_addr + Align
           THEN Append(Front(st.segments), old)
           ELSE Append(st.segments, Holding(NewSegment(entry), entry))]

\* The next entry, in the order of addresses.  Differences are unsigned: an entry that
\* begins before the last one ended and ends behind it opens a new segment.
Placed(st, entry) ==
    LET end    == entry.addr + Len(entry.bytes)
        old    == Last(st.segments)
        inside == entry.addr < st.max_addr /\ end <= st.max_addr
        near   == entry.addr >= st.max_addr /\ entry.addr - st.max_addr < Align
        grown  == [old EXCEPT !.size = resize(old.base, end - old.base)]
    IN  [max_addr |-> end,
         segments |->
           CASE inside          -> Append(Front(st.segments), Holding(old, entry))
             [] ~inside /\ near -> Append(Front(st.segments), Holding(grown, entry))
             [] OTHER           -> Append(st.segments, Holding(NewSegment(entry), entry))]

\* The second segment is the stack, which emit_map_addr tries before the first.
memory_from_map(entries) ==
    LET sorted == SetToSortSeq(entries, LAMBDA a, b : a.addr < b.addr)
        first  == [max_addr |-> sorted[1].addr + Len(sorted[1].bytes),
                   segments |-> <<Holding(NewSegment(sorted[1]), sorted[1])>>]
        segs   == FoldLeft(Placed, first, Tail(sorted)).segments
    IN  IF entries = {} THEN <<>>
        ELSE IF Len(segs) = 1 THEN segs
        ELSE <<segs[2], segs[1]>> \o SubSeq(segs, 3, Len(segs))

\* A little stack below rsp, unless a cell is at that address, and the cells
build_testcase_cell_memory(m, model) ==
    LET initial == InitialCells(m, model.addr)
        used    == {[addr |-> model.addr[c], bytes |-> initial[c]] : c \in DOMAIN initial}
        rsp     == model.sigma["rsp"]
        stack   == {e \in {[addr |-> rsp - Slot, bytes |-> [k \in 1..Slot |-> Zero]]} :
                      rsp > Align /\ rsp < Top - Align /\ \A u \in used : u.addr # e.addr}
    IN  memory_from_map(used \cup stack)

\* Both programs run on the test case
check_counterexample(segments, sigma) ==
    LET t == run_sandbox(target, segments, sigma)
        r == run_sandbox(rewrite, segments, sigma)
    IN  [ran |-> ~t.sig /\ ~r.sig,
         differ |-> ~SameRegisters(t.regs, r.regs) \/ (heap_out /\ t.segments # r.segments)]

-----------------------------------------------------------------------------
(* check *)

NoCeg == [ran |-> FALSE, differ |-> FALSE, sigma |-> <<>>]

Init ==
    /\ \E p \in Pairs : target = p[1] /\ rewrite = p[2]
    /\ strategy \in Strategies /\ heap_out \in HeapOut
    /\ LET none == [i \in 1..total_accesses |-> 0]
       IN  cells = [cell |-> none, offset |-> none, size |-> none, max |-> 0]
    /\ placed = 0 /\ options = {}
    /\ ceg = NoCeg
    /\ pc = "relate"

Relate ==
    /\ pc = "relate" /\ placed < total_accesses
    /\ placed' = placed + 1
    /\ cells' = RelateAll(cells, sym_accesses, placed + 1)
    /\ UNCHANGED <<pair, options, ceg, pc>>

\* The first cell is where it is.
First == <<[cell |-> 1, cell_size |-> cells.size[1], offset |-> 0]>>

\* Cells that are taken not to overlap
Apart == [c \in 1..cells.max |-> [cell |-> c, cell_size |-> cells.size[c], offset |-> 0]]

StartPlacing ==
    /\ pc = "relate" /\ placed = total_accesses
    /\ IF cells.max > 1 /\ strategy = "string"
       THEN placed' = 1 /\ options' = {First} /\ pc' = "place"
       ELSE placed' = cells.max /\ options' = {Apart} /\ pc' = "solve"
    /\ UNCHANGED <<pair, cells, ceg>>

Place ==
    /\ pc = "place" /\ placed < cells.max
    /\ placed' = placed + 1
    /\ options' = UNION {Extensions(done, cells.size[placed + 1]) : done \in options}
    /\ pc' = IF placed + 1 = cells.max THEN "solve" ELSE "place"
    /\ UNCHANGED <<pair, cells, ceg>>

\* The aliasing case an arrangement of the cells stands for
CaseOf(option) ==
    [i \in 1..total_accesses |->
       LET p == option[cells.cell[i]]
       IN  [cell |-> p.cell, cell_size |-> p.cell_size, offset |-> p.offset + cells.offset[i]]]

memory_list == {CaseOf(option) : option \in options}

\* No aliasing case has a model.
Proved ==
    /\ pc = "solve"
    /\ \A m \in memory_list : Models(m) = {}
    /\ pc' = "proved"
    /\ UNCHANGED <<pair, cells, placed, options, ceg>>

\* One has: the cases come in some order, and the first with a model ends it.
Refuted ==
    /\ pc = "solve"
    /\ \E m \in memory_list : \E model \in Models(m) :
         LET run == check_counterexample(build_testcase_cell_memory(m, model), model.sigma)
         IN  ceg' = [ran |-> run.ran, differ |-> run.differ, sigma |-> model.sigma]
    /\ pc' = "refuted"
    /\ UNCHANGED <<pair, cells, placed, options>>

Next == Relate \/ StartPlacing \/ Place \/ Proved \/ Refuted

Spec == Init /\ [][Next]_vars

-----------------------------------------------------------------------------
(* Properties *)

\* The programs do the same to registers and, if it matters, to memory.
Agree(sigma) ==
    LET t == run_sandbox(target, Memory, sigma)
        r == run_sandbox(rewrite, Memory, sigma)
    IN  SameRegisters(t.regs, r.regs) /\ (heap_out => t.segments = r.segments)

\* All accesses keep away from the ends of the address space
Inside(sigma) ==
    \A i \in 1..total_accesses :
      LET a == sym_accesses[i]
          far == FoldLeft(LAMBDA n, b : n + b.size, 0, sym_accesses)
      IN  Address(a, sigma) >= Margin + far /\ Address(a, sigma) + far <= Top - Margin

\* Accesses that are not always at the same or at adjacent addresses do not meet.
NoAliases(sigma) ==
    \A i, j \in 1..total_accesses :
      LET a == sym_accesses[i]
          b == sym_accesses[j]
      IN  \/ i = j \/ same_address(a, b) \/ next_address(a, b) \/ next_address(b, a)
          \/ Disjoint(Address(a, sigma), a.size, Address(b, sigma), b.size)

\* check() returns true only if the programs agree on every input it is to cover,
\* however the addresses coincide or overlap: with --alias_strategy string all of them,
\* with string_antialias those on which accesses that may meet do not.
ProvedAgrees ==
    pc = "proved" =>
      \A sigma \in Assignments :
        Inside(sigma) /\ (strategy = "string_no_alias" => NoAliases(sigma)) => Agree(sigma)

\* A model of an aliasing case is an input on which the programs differ: the cells are a
\* faithful picture of memory.
ModelsDiffer == pc = "refuted" => ~Agree(ceg.sigma)

\* The test case made from a model has all the memory both programs use, and shows the
\* difference: no counterexample is lost.
TestcaseRefutes == pc = "refuted" => ceg.ran /\ ceg.differ
=============================================================================
