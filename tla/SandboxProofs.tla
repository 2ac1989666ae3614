--------------------------- MODULE SandboxProofs ---------------------------
(* Theorems about the Sandbox specification, for every set of functions,    *)
(* bodies and test cases.                                                   *)
EXTENDS Sandbox, NatLemmas

\* What CompiledCurrent needs to be inductive: every name has a source and an entry in
\* the table of compiled functions, and callbacks are set or not.
Tables ==
    /\ fxns_src = [l \in Label |-> fxns_src[l]]
    /\ fxns = [l \in Label |-> fxns[l]]
    /\ global_before \in BOOLEAN

CompiledInv == Tables /\ CompiledCurrent

\* recompile() brings every function up to date with the callbacks that are set.
LEMMA RecompileCurrent ==
    ASSUME NEW hook \in BOOLEAN, Tables,
           fxns_src' = fxns_src, global_before' = hook, RecompileAll(fxns_src, hook)
    PROVE  CompiledInv'
<1>1. Tables'
  BY DEF Tables, RecompileAll
<1>2. ASSUME NEW l \in Inserted' PROVE fxns'[l] = Compiled(fxns_src'[l], global_before')
  BY <1>2 DEF Tables, RecompileAll, Inserted
<1>3. ASSUME NEW l \in Inserted' PROVE lnkr_good' <=> Links(fxns_src')
  <2>1. l \in Label /\ fxns_src[l] # <<>>
    BY <1>3 DEF Inserted
  <2>2. lnkr_good' = Links(fxns_src)
    BY <2>1 DEF RecompileAll
  <2>. QED BY <2>2
<1>. QED BY <1>1, <1>2, <1>3 DEF CompiledInv, CompiledCurrent

\* Inserting a function compiles it with the present callbacks and links it with the others.
LEMMA InsertCurrent ==
    ASSUME NEW l \in Label, NEW code, NEW entry, CompiledInv, insert_function(l, code, entry)
    PROVE  CompiledInv'
<1>. USE DEF CompiledInv
<1>1. Tables'
  BY DEF Tables, insert_function
<1>2. ASSUME NEW k \in Inserted' PROVE fxns'[k] = Compiled(fxns_src'[k], global_before')
  <2>1. k \in Label /\ fxns_src'[k] # <<>>
    BY <1>2 DEF Inserted
  <2>2. CASE k = l
    BY <2>1, <2>2 DEF Tables, insert_function
  <2>3. CASE k # l
    <3>1. fxns'[k] = fxns[k] /\ fxns_src'[k] = fxns_src[k]
      BY <2>1, <2>3 DEF Tables, insert_function
    <3>2. k \in Inserted
      BY <2>1, <3>1 DEF Inserted
    <3>. QED BY <3>1, <3>2 DEF CompiledCurrent, insert_function
  <2>. QED BY <2>2, <2>3
<1>3. lnkr_good' <=> Links(fxns_src')
  BY DEF insert_function
<1>. QED BY <1>1, <1>2, <1>3 DEF CompiledCurrent

\* Whatever the order in which functions and callbacks are set and cleared, and runs in
\* between, what is compiled is the present source with the present callbacks, and calls
\* are linked to the functions that are there.
THEOREM CompiledStaysCurrent == Spec => []CompiledCurrent
<1>1. Init => CompiledInv
  BY DEF Init, CompiledInv, Tables, CompiledCurrent, Inserted
<1>2. CompiledInv /\ [Next]_vars => CompiledInv'
  <2>. SUFFICES ASSUME CompiledInv, [Next]_vars PROVE CompiledInv'
    OBVIOUS
  <2>1. ASSUME UNCHANGED <<fxns_src, fxns, lnkr_good, global_before>> PROVE CompiledInv'
    BY <2>1 DEF CompiledInv, Tables, CompiledCurrent, Inserted
  <2>2. ASSUME NEW l \in Label, NEW code \in Bodies[l], NEW entry \in BOOLEAN,
               insert_function(l, code, entry)
        PROVE  CompiledInv'
    BY <2>2, InsertCurrent
  <2>3. CASE clear_functions
    <3>1. Inserted' = {}
      BY <2>3 DEF clear_functions, Inserted
    <3>. QED BY <2>3, <3>1 DEF clear_functions, CompiledInv, Tables, CompiledCurrent
  <2>4. CASE insert_before
    BY <2>4, RecompileCurrent DEF insert_before, CompiledInv
  <2>5. CASE clear_callbacks
    BY <2>5, RecompileCurrent DEF clear_callbacks, CompiledInv
  <2>6. ASSUME NEW in \in Inputs, insert_input(in) PROVE CompiledInv'
    BY <2>1, <2>6 DEF insert_input
  <2>7. CASE clear_inputs
    BY <2>1, <2>7 DEF clear_inputs
  <2>8. ASSUME NEW i \in 1..Len(io_pairs), Begin(i) PROVE CompiledInv'
    BY <2>1, <2>8 DEF Begin
  <2>9. CASE Step
    BY <2>1, <2>9 DEF Step
  <2>10. CASE UNCHANGED vars
    BY <2>1, <2>10 DEF vars
  <2>. QED BY <2>2, <2>3, <2>4, <2>5, <2>6, <2>7, <2>8, <2>9, <2>10 DEF Next
<1>3. CompiledInv => CompiledCurrent
  BY DEF CompiledInv
<1>. QED BY <1>1, <1>2, <1>3, PTL DEF Spec

-----------------------------------------------------------------------------
(* One instruction: the run is cut short, or goes on somewhere *)

\* Control is back in run().
Trapped(r) == r \in RunState /\ r.ended

\* The run goes on in function f at the given line.
At(r, f, line, rsp, frames) ==
    /\ r \in RunState /\ ~r.ended
    /\ r.f = f /\ r.line = line /\ r.rsp = rsp /\ r.frames = frames

\* A signal trap ends the run.
LEMMA TrapEffect ==
    ASSUME NEW s \in RunState, NEW ec \in ErrorCode
    PROVE  Trapped(emit_signal_trap(s, ec))
  BY DEF RunState, CpuState, emit_signal_trap, Trapped

\* The parts of a run state
LEMMA RunParts ==
    ASSUME NEW s \in RunState
    PROVE  /\ s.f \in Label /\ s.line \in Line /\ s.line \in Nat /\ s.line >= 1
           /\ s.rax \in Nat /\ s.rbx \in Nat /\ s.rsp \in Int
           /\ s.frames \in Seq(Label \X Line) /\ s.jumps \in 0..(Word - 1) /\ s.out \in CpuState
           /\ s.ended \in BOOLEAN
           /\ s.out.stack \in [Slots -> Nat]
  BY DEF RunState, CpuState, Line

\* Falling through to the next line
LEMMA AdvanceEffect ==
    ASSUME NEW s \in RunState, ~s.ended
    PROVE  At(Advance(s), s.f, s.line + 1, s.rsp, s.frames)
<1>1. ASSUME NEW n \in Line PROVE At([s EXCEPT !.line = n], s.f, n, s.rsp, s.frames)
  BY DEF RunState, At
<1>2. s.line + 1 \in Line
  BY RunParts DEF Line
<1>3. Advance(s) = [s EXCEPT !.line = s.line + 1]
  BY DEF Advance
<1>4. QED  BY <1>1, <1>2, <1>3

\* What leaves the place of the run alone
LEMMA RegEffect ==
    ASSUME NEW s \in RunState, ~s.ended
    PROVE  /\ \A v \in Nat : At([s EXCEPT !.rax = v], s.f, s.line, s.rsp, s.frames)
           /\ \A v \in Nat : At([s EXCEPT !.rbx = v], s.f, s.line, s.rsp, s.frames)
           /\ \A n \in 0..(Word - 1) :
                /\ At([s EXCEPT !.jumps = n], s.f, s.line, s.rsp, s.frames)
                /\ \A line \in Line :
                     At([s EXCEPT !.jumps = n, !.line = line], s.f, line, s.rsp, s.frames)
  BY DEF RunState, At

\* rsp may be moved to any address.
LEMMA RspEffect ==
    ASSUME NEW s \in RunState, ~s.ended, NEW v \in Int
    PROVE  At([s EXCEPT !.rsp = v], s.f, s.line, v, s.frames)
  BY DEF RunState, At

\* emit_load
LEMMA LoadEffect ==
    ASSUME NEW s \in RunState, ~s.ended, NEW addr \in Int
    PROVE  IF addr \in Slots THEN At(emit_load(s, addr), s.f, s.line + 1, s.rsp, s.frames)
           ELSE Trapped(emit_load(s, addr))
<1>1. CASE addr \in Slots
  <2> DEFINE r == [s EXCEPT !.rax = s.out.stack[addr]]
  <2>1. s.out.stack[addr] \in Nat
    BY <1>1, RunParts
  <2>2. At(r, s.f, s.line, s.rsp, s.frames)
    <3>1. 0 \in 0..(Word - 1)
      BY SandboxAssumption
    <3>2. QED  BY <2>1, <3>1, RegEffect
  <2>3. emit_load(s, addr) = Advance(r)
    BY <1>1 DEF emit_load, emit_map_addr
  <2> HIDE DEF r
  <2>4. QED  BY <1>1, <2>2, <2>3, AdvanceEffect DEF At
<1>2. CASE addr \notin Slots
  <2>1. "SIGSEGV" \in ErrorCode
    BY DEF ErrorCode
  <2>2. QED  BY <1>2, <2>1, TrapEffect DEF emit_load, emit_map_addr
<1>3. QED  BY <1>1, <1>2

\* emit_store
LEMMA StoreEffect ==
    ASSUME NEW s \in RunState, ~s.ended, NEW addr \in Int, NEW v \in Nat
    PROVE  IF addr \in Slots THEN At(emit_store(s, addr, v), s.f, s.line + 1, s.rsp, s.frames)
           ELSE Trapped(emit_store(s, addr, v))
<1>1. CASE addr \in Slots
  <2> DEFINE r == [s EXCEPT !.out.stack[addr] = v]
  <2>1. At(r, s.f, s.line, s.rsp, s.frames)
    BY DEF RunState, CpuState, At
  <2>2. emit_store(s, addr, v) = Advance(r)
    BY <1>1 DEF emit_store, emit_map_addr
  <2> HIDE DEF r
  <2>3. QED  BY <1>1, <2>1, <2>2, AdvanceEffect DEF At
<1>2. CASE addr \notin Slots
  <2>1. "SIGSEGV" \in ErrorCode
    BY DEF ErrorCode
  <2>2. QED  BY <1>2, <2>1, TrapEffect DEF emit_store, emit_map_addr
<1>3. QED  BY <1>1, <1>2

\* emit_push
LEMMA PushEffect ==
    ASSUME NEW s \in RunState, ~s.ended, NEW v \in Nat
    PROVE  IF s.rsp - 1 \in Slots
           THEN At(emit_push(s, v), s.f, s.line + 1, s.rsp - 1, s.frames)
           ELSE Trapped(emit_push(s, v))
<1> DEFINE r == emit_store(s, s.rsp - 1, v)
<1>1. s.rsp \in Int /\ s.rsp - 1 \in Int
  BY RunParts
<1>2. IF s.rsp - 1 \in Slots THEN At(r, s.f, s.line + 1, s.rsp, s.frames) ELSE Trapped(r)
  BY <1>1, StoreEffect
<1>3. emit_push(s, v) = IF s.rsp - 1 \in Slots THEN [r EXCEPT !.rsp = @ - 1] ELSE r
  BY DEF emit_push, emit_map_addr
<1> HIDE DEF r
<1>4. CASE s.rsp - 1 \in Slots
  <2>1. At(r, s.f, s.line + 1, s.rsp, s.frames)
    BY <1>2, <1>4
  <2>2. [r EXCEPT !.rsp = @ - 1] = [r EXCEPT !.rsp = s.rsp - 1]
    BY <2>1 DEF At
  <2>3. At([r EXCEPT !.rsp = s.rsp - 1], s.f, s.line + 1, s.rsp - 1, s.frames)
    BY <1>1, <2>1, RspEffect DEF At
  <2>4. QED  BY <1>3, <1>4, <2>2, <2>3
<1>5. CASE s.rsp - 1 \notin Slots
  BY <1>2, <1>3, <1>5
<1>6. QED  BY <1>4, <1>5

\* emit_pop
LEMMA PopEffect ==
    ASSUME NEW s \in RunState, ~s.ended
    PROVE  IF s.rsp \in Slots
           THEN At(emit_pop(s), s.f, s.line + 1, s.rsp + 1, s.frames)
           ELSE Trapped(emit_pop(s))
<1> DEFINE r == [s EXCEPT !.rsp = s.rsp + 1]
<1>1. s.rsp \in Int /\ s.rsp + 1 \in Int
  BY RunParts
<1>2. At(r, s.f, s.line, s.rsp + 1, s.frames)
  BY <1>1, RspEffect
<1>3. emit_pop(s) = emit_load(r, s.rsp)
  BY DEF emit_pop
<1> HIDE DEF r
<1>4. QED  BY <1>1, <1>2, <1>3, LoadEffect DEF At

\* emit_reg_div
LEMMA DivEffect ==
    ASSUME NEW s \in RunState, ~s.ended
    PROVE  \/ Trapped(emit_reg_div(s))
           \/ At(emit_reg_div(s), s.f, s.line + 1, s.rsp, s.frames)
<1>1. "SIGFPE" \in ErrorCode
  BY DEF ErrorCode
<1>2. QED  BY <1>1, TrapEffect, AdvanceEffect DEF emit_reg_div

\* emit_jump
LEMMA JumpEffect ==
    ASSUME NEW s \in RunState, ~s.ended, NEW taken, NEW line \in Line
    PROVE  \/ Trapped(emit_jump(s, taken, line))
           \/ taken /\ At(emit_jump(s, taken, line), s.f, line, s.rsp, s.frames)
           \/ ~taken /\ At(emit_jump(s, taken, line), s.f, s.line + 1, s.rsp, s.frames)
<1> DEFINE left == (s.jumps - 1) % Word
           r == [s EXCEPT !.jumps = left]
           u == [s EXCEPT !.jumps = left, !.line = line]
<1>1. left \in 0..(Word - 1)
  <2>1. s.jumps \in Int
    BY RunParts, SandboxAssumption
  <2>2. QED  BY <2>1, SandboxAssumption
<1>2. emit_jump(s, taken, line) =
        IF left = 0 THEN emit_signal_trap(r, "EXCEEDED_MAX_JUMPS")
        ELSE IF taken THEN u ELSE Advance(r)
  BY DEF emit_jump
<1> HIDE DEF left
<1>3. At(r, s.f, s.line, s.rsp, s.frames) /\ At(u, s.f, line, s.rsp, s.frames)
  BY <1>1, RegEffect
<1> HIDE DEF r, u
<1>4. Trapped(emit_signal_trap(r, "EXCEEDED_MAX_JUMPS"))
  <2>1. "EXCEEDED_MAX_JUMPS" \in ErrorCode
    BY DEF ErrorCode
  <2>2. QED  BY <1>3, <2>1, TrapEffect DEF At
<1>5. At(Advance(r), s.f, s.line + 1, s.rsp, s.frames)
  BY <1>3, AdvanceEffect DEF At
<1>6. QED  BY <1>2, <1>3, <1>4, <1>5

\* The address behind an instruction is a number.
LEMMA HexOffsetType ==
    ASSUME NEW at \in Label \X Line
    PROVE  hex_offset(at) \in Nat
<1>1. at[1] \in Label /\ at[2] \in Nat /\ rip_offset[at[1]] \in Nat
  BY SandboxAssumption DEF Line
<1>2. QED  BY <1>1 DEF hex_offset

\* emit_call
LEMMA CallEffect ==
    ASSUME NEW s \in RunState, ~s.ended, NEW l \in Label
    PROVE  IF s.rsp - 1 \in Slots
           THEN At(emit_call(s, l), l, 1, s.rsp - 1, Append(s.frames, <<s.f, s.line>>))
           ELSE Trapped(emit_call(s, l))
<1> DEFINE r == emit_push(s, hex_offset(<<s.f, s.line>>))
           point == <<s.f, s.line>>
           fs == Append(s.frames, point)
<1>1. hex_offset(point) \in Nat /\ point \in Label \X Line
  BY RunParts, HexOffsetType
<1>2. IF s.rsp - 1 \in Slots THEN At(r, s.f, s.line + 1, s.rsp - 1, s.frames) ELSE Trapped(r)
  BY <1>1, PushEffect
<1>3. emit_call(s, l) =
        IF r.ended THEN r ELSE [r EXCEPT !.f = l, !.line = 1, !.frames = Append(@, point)]
  BY DEF emit_call
<1> HIDE DEF r, point
<1>4. CASE s.rsp - 1 \in Slots
  <2>1. At(r, s.f, s.line + 1, s.rsp - 1, s.frames)
    BY <1>2, <1>4
  <2>2. fs \in Seq(Label \X Line)
    BY <1>1, RunParts
  <2>3. [r EXCEPT !.f = l, !.line = 1, !.frames = Append(@, point)]
          = [r EXCEPT !.f = l, !.line = 1, !.frames = fs]
    BY <2>1 DEF At
  <2> HIDE DEF fs
  <2>4. At([r EXCEPT !.f = l, !.line = 1, !.frames = fs], l, 1, s.rsp - 1, fs)
    <3>1. 1 \in Line
      BY DEF Line
    <3>2. QED  BY <2>1, <2>2, <3>1 DEF At, RunState
  <2>5. At(emit_call(s, l), l, 1, s.rsp - 1, fs)
    BY <1>3, <2>1, <2>3, <2>4 DEF At
  <2>6. QED  BY <1>4, <2>5 DEF fs, point
<1>5. CASE s.rsp - 1 \notin Slots
  BY <1>2, <1>3, <1>5 DEF Trapped
<1>6. QED  BY <1>4, <1>5

Top(frames) == frames[Len(frames)]

Below(frames) == SubSeq(frames, 1, Len(frames) - 1)

\* STOKE's stack without its last frame
LEMMA BelowType ==
    ASSUME NEW S, NEW fs \in Seq(S), fs # <<>>
    PROVE  /\ Top(fs) \in S
           /\ Below(fs) \in Seq(S) /\ Len(Below(fs)) = Len(fs) - 1 /\ Len(fs) \in Nat \ {0}
           /\ \A k \in 1..(Len(fs) - 1) : Below(fs)[k] = fs[k]
<1> DEFINE n == Len(fs)
<1>1. n \in Nat \ {0}
  OBVIOUS
<1>2. Top(fs) \in S
  BY <1>1 DEF Top
<1>3. 1 \in 1..(n+1) /\ n - 1 \in 0..n /\ n - 1 \in Nat
  BY <1>1
<1>4. Below(fs) = [k \in 1..(n-1) |-> fs[k]]
  BY <1>3 DEF Below
<1>5. [k \in 1..(n-1) |-> fs[k]] \in [1..(n-1) -> S]
  BY <1>1
<1>6. QED  BY <1>1, <1>2, <1>3, <1>4, <1>5, FunctionIsSeq

\* Behind a call
LEMMA ResumeEffect ==
    ASSUME NEW s \in RunState, ~s.ended, s.frames # <<>>
    PROVE  \/ Trapped(Resume(s))
           \/ At(Resume(s), Top(s.frames)[1], Top(s.frames)[2] + 1, s.rsp + 1, Below(s.frames))
<1> DEFINE top == Top(s.frames)
           fs == Below(s.frames)
           caller == [s EXCEPT !.f = top[1], !.line = top[2], !.frames = fs]
           popped == emit_pop(caller)
           r == [popped EXCEPT !.rax = s.rax]
<1>1. top \in Label \X Line /\ fs \in Seq(Label \X Line)
  BY RunParts, BelowType
<1>2. s.rsp \in Int /\ s.rax \in Nat
  BY RunParts
<1>3. Resume(s) =
        IF popped.ended THEN popped
        ELSE IF StackCheck /\ popped.rax # hex_offset(top)
             THEN emit_signal_trap(popped, "STACK_SMASH")
             ELSE r
  <2>1. [s EXCEPT !.f = top[1], !.line = top[2], !.frames = SubSeq(@, 1, Len(@) - 1)] = caller
    BY DEF Below
  <2>2. QED  BY <2>1 DEF Resume, Top
<1> HIDE DEF top, fs
<1>4. At(caller, top[1], top[2], s.rsp, fs)
  BY <1>1 DEF At, RunState
<1> HIDE DEF caller
<1>5. Trapped(popped) \/ At(popped, top[1], top[2] + 1, s.rsp + 1, fs)
  BY <1>2, <1>4, PopEffect DEF At
<1> HIDE DEF popped
<1>6. CASE Trapped(popped)
  BY <1>3, <1>6 DEF Trapped
<1>7. CASE At(popped, top[1], top[2] + 1, s.rsp + 1, fs)
  <2>1. Trapped(emit_signal_trap(popped, "STACK_SMASH"))
    <3>1. "STACK_SMASH" \in ErrorCode
      BY DEF ErrorCode
    <3>2. QED  BY <1>7, <3>1, TrapEffect DEF At
  <2>2. At(r, top[1], top[2] + 1, s.rsp + 1, fs)
    <3>1. 0 \in 0..(Word - 1)
      BY SandboxAssumption
    <3>2. QED  BY <1>2, <1>7, <3>1, RegEffect DEF At
  <2> HIDE DEF r
  <2>3. Resume(s) = emit_signal_trap(popped, "STACK_SMASH") \/ Resume(s) = r
    BY <1>3, <1>7 DEF At
  <2>4. QED  BY <2>1, <2>2, <2>3 DEF top, fs
<1>8. QED  BY <1>5, <1>6, <1>7

\* emit_ret
LEMMA RetEffect ==
    ASSUME NEW s \in RunState, ~s.ended
    PROVE  \/ Trapped(emit_ret(s))
           \/ /\ s.frames # <<>>
              /\ At(emit_ret(s), Top(s.frames)[1], Top(s.frames)[2] + 1, s.rsp + 1,
                    Below(s.frames))
<1>1. CASE s.frames # <<>>
  BY <1>1, ResumeEffect DEF emit_ret
<1>2. CASE s.frames = <<>>
  <2> DEFINE r == emit_cpu2state(s)
  <2>1. r \in RunState
    BY DEF emit_cpu2state, RunState, CpuState
  <2>2. emit_ret(s) = [r EXCEPT !.ended = TRUE, !.out.code = "NORMAL"]
    BY <1>2 DEF emit_ret
  <2> HIDE DEF r
  <2>3. Trapped([r EXCEPT !.ended = TRUE, !.out.code = "NORMAL"])
    BY <2>1 DEF Trapped, RunState, CpuState, ErrorCode
  <2>4. QED  BY <2>2, <2>3
<1>3. QED  BY <1>1, <1>2

\* Where an instruction takes a run that it does not end
Steps(s, instr, r) ==
    LET kind == instr.kind
    IN  \/ /\ kind \notin {"push", "pop", "jmp", "call", "ret", "ill"}
           /\ At(r, s.f, s.line + 1, s.rsp, s.frames)
        \/ kind \in {"jmp", "jne"} /\ At(r, s.f, instr.arg, s.rsp, s.frames)
        \/ /\ kind = "push" /\ s.rsp - 1 \in Slots
           /\ At(r, s.f, s.line + 1, s.rsp - 1, s.frames)
        \/ kind = "pop" /\ s.rsp \in Slots /\ At(r, s.f, s.line + 1, s.rsp + 1, s.frames)
        \/ /\ kind = "call" /\ s.rsp - 1 \in Slots
           /\ At(r, instr.arg, 1, s.rsp - 1, Append(s.frames, <<s.f, s.line>>))
        \/ /\ kind = "ret" /\ s.frames # <<>>
           /\ At(r, Top(s.frames)[1], Top(s.frames)[2] + 1, s.rsp + 1, Below(s.frames))

\* emit_instruction ends the run or takes it where Steps says.
LEMMA InstructionEffect ==
    ASSUME NEW s \in RunState, ~s.ended, NEW instr \in Instr
    PROVE  Trapped(emit_instruction(s, instr)) \/ Steps(s, instr, emit_instruction(s, instr))
<1> DEFINE r == emit_instruction(s, instr)
           k == instr.kind
<1>1. k \in {"rax", "rbx", "load", "store", "div", "push", "pop", "jmp", "jne", "call", "ret",
             "ill"}
  BY DEF Instr
<1>2. /\ k = "call" => instr.arg \in Label
      /\ k # "call" => instr.arg \in Nat
      /\ k \in {"jmp", "jne"} => instr.arg \in Line
  BY DEF Instr, Line
<1>3. s.rax \in Nat /\ s.rsp \in Int
  BY RunParts
<1>4. 0 \in 0..(Word - 1)
  BY SandboxAssumption
<1>5. CASE k \in {"rax", "rbx"}
  <2> DEFINE a == [s EXCEPT !.rax = instr.arg]
             b == [s EXCEPT !.rbx = instr.arg]
  <2>1. At(a, s.f, s.line, s.rsp, s.frames) /\ At(b, s.f, s.line, s.rsp, s.frames)
    BY <1>2, <1>4, <1>5, RegEffect
  <2>2. r = IF k = "rax" THEN Advance(a) ELSE Advance(b)
    BY <1>5 DEF emit_instruction
  <2> HIDE DEF a, b
  <2>3. At(r, s.f, s.line + 1, s.rsp, s.frames)
    BY <2>1, <2>2, AdvanceEffect DEF At
  <2> HIDE DEF r
  <2>4. Steps(s, instr, r)
    BY <1>5, <2>3 DEF Steps
  <2>5. QED  BY <2>4 DEF r
<1>6. CASE k \in {"load", "store"}
  <2>1. s.rsp + instr.arg \in Int
    BY <1>2, <1>3, <1>6
  <2>2. r = IF k = "load" THEN emit_load(s, s.rsp + instr.arg)
            ELSE emit_store(s, s.rsp + instr.arg, s.rax)
    BY <1>6 DEF emit_instruction
  <2>3. Trapped(r) \/ At(r, s.f, s.line + 1, s.rsp, s.frames)
    <3> HIDE DEF r
    <3>1. QED  BY <1>3, <2>1, <2>2, LoadEffect, StoreEffect
  <2> HIDE DEF r
  <2>4. Trapped(r) \/ Steps(s, instr, r)
    BY <1>6, <2>3 DEF Steps
  <2>5. QED  BY <2>4 DEF r
<1>7. CASE k = "div"
  <2>1. r = emit_reg_div(s)
    BY <1>7 DEF emit_instruction
  <2> HIDE DEF r
  <2>2. Trapped(r) \/ Steps(s, instr, r)
    BY <1>7, <2>1, DivEffect DEF Steps
  <2>3. QED  BY <2>2 DEF r
<1>8. CASE k = "push"
  <2>1. r = emit_push(s, s.rax)
    BY <1>8 DEF emit_instruction
  <2> HIDE DEF r
  <2>2. Trapped(r) \/ Steps(s, instr, r)
    BY <1>3, <1>8, <2>1, PushEffect DEF Steps
  <2>3. QED  BY <2>2 DEF r
<1>9. CASE k = "pop"
  <2>1. r = emit_pop(s)
    BY <1>9 DEF emit_instruction
  <2> HIDE DEF r
  <2>2. Trapped(r) \/ Steps(s, instr, r)
    BY <1>9, <2>1, PopEffect DEF Steps
  <2>3. QED  BY <2>2 DEF r
<1>10. CASE k \in {"jmp", "jne"}
  <2>1. r = IF k = "jmp" THEN emit_jump(s, TRUE, instr.arg) ELSE emit_jump(s, s.rax # 0, instr.arg)
    BY <1>10 DEF emit_instruction
  <2> HIDE DEF r
  <2>2. \/ Trapped(r)
        \/ At(r, s.f, instr.arg, s.rsp, s.frames)
        \/ k # "jmp" /\ At(r, s.f, s.line + 1, s.rsp, s.frames)
    BY <1>2, <1>10, <2>1, JumpEffect
  <2>3. Trapped(r) \/ Steps(s, instr, r)
    BY <1>10, <2>2 DEF Steps
  <2>4. QED  BY <2>3 DEF r
<1>11. CASE k = "call"
  <2>1. r = emit_call(s, instr.arg)
    BY <1>11 DEF emit_instruction
  <2> HIDE DEF r
  <2>2. Trapped(r) \/ Steps(s, instr, r)
    BY <1>2, <1>11, <2>1, CallEffect DEF Steps
  <2>3. QED  BY <2>2 DEF r
<1>12. CASE k = "ret"
  <2>1. r = emit_ret(s)
    BY <1>12 DEF emit_instruction
  <2> HIDE DEF r
  <2>2. Trapped(r) \/ Steps(s, instr, r)
    BY <1>12, <2>1, RetEffect DEF Steps
  <2>3. QED  BY <2>2 DEF r
<1>13. CASE k = "ill"
  <2>1. r = emit_signal_trap(s, "SIGILL") /\ "SIGILL" \in ErrorCode
    BY <1>13 DEF emit_instruction, ErrorCode
  <2> HIDE DEF r
  <2>2. QED  BY <2>1, TrapEffect DEF r
<1>14. QED
  BY <1>1, <1>5, <1>6, <1>7, <1>8, <1>9, <1>10, <1>11, <1>12, <1>13

-----------------------------------------------------------------------------
(* Types *)

\* Sources and compiled functions are bodies of their names, or none.
FunctionTables ==
    /\ fxns_src \in [Label -> Seq(Instr)]
    /\ fxns \in [Label -> [code : Seq(Instr), hook : BOOLEAN]]
    /\ \A l \in Label : /\ fxns_src[l] \in Bodies[l] \cup {<<>>}
                        /\ fxns[l].code \in Bodies[l] \cup {<<>>}

\* One step of a run ends it, or executes an instruction of the function it is in.
LEMMA FunctionEffect ==
    ASSUME FunctionTables, NEW s \in RunState, ~s.ended, s.line >= 1
    PROVE  \/ Trapped(emit_function(s))
           \/ /\ s.line \in 1..Len(fxns[s.f].code)
              /\ fxns[s.f].code[s.line] \in Instr
              /\ Steps(s, fxns[s.f].code[s.line], emit_function(s))
<1> DEFINE code == fxns[s.f].code
           e == emit_before(s)
           r == emit_function(s)
<1>1. s.f \in Label /\ s.line \in Nat /\ code \in Seq(Instr) /\ Len(code) \in Nat
  BY RunParts DEF FunctionTables
<1>2. CASE s.line > Len(code)
  <2>1. r = emit_signal_trap(s, "NO_RETURN") /\ "NO_RETURN" \in ErrorCode
    BY <1>2 DEF emit_function, ErrorCode
  <2> HIDE DEF r
  <2>2. QED  BY <2>1, TrapEffect DEF r
<1>3. CASE ~(s.line > Len(code))
  <2>1. s.line \in 1..Len(code)
    BY <1>1, <1>3
  <2> DEFINE instr == code[s.line]
  <2>2. instr \in Instr
    BY <1>1, <2>1
  <2>3. At(e, s.f, s.line, s.rsp, s.frames)
    <3>1. At(emit_cpu2state(s), s.f, s.line, s.rsp, s.frames)
      BY DEF emit_cpu2state, RunState, CpuState, At
    <3>2. At(s, s.f, s.line, s.rsp, s.frames)
      BY DEF At
    <3>3. QED  BY <3>1, <3>2 DEF emit_before
  <2>4. r = emit_instruction(e, instr)
    BY <1>3 DEF emit_function
  <2> HIDE DEF e, r, instr
  <2>5. Trapped(r) \/ Steps(e, instr, r)
    BY <2>2, <2>3, <2>4, InstructionEffect DEF At
  <2>6. Steps(e, instr, r) => Steps(s, instr, r)
    BY <2>3 DEF At, Steps
  <2>7. QED  BY <2>1, <2>2, <2>5, <2>6 DEF r, instr
<1>4. QED  BY <1>2, <1>3

IoPair == [in : Inputs, out : CpuState]

\* TypeOK made inductive: the tables of functions and of test cases have their types, and the
\* run under way is at a line.
SandboxInv ==
    /\ TypeOK
    /\ FunctionTables
    /\ io_pairs \in Seq(IoPair)
    /\ Running => ~run.s.ended /\ run.s.line >= 1

\* A step keeps a run at a line of a function.
LEMMA StepType ==
    ASSUME FunctionTables, NEW s \in RunState, ~s.ended, s.line >= 1
    PROVE  /\ emit_function(s) \in RunState
           /\ ~emit_function(s).ended => emit_function(s).line >= 1
<1> DEFINE r == emit_function(s)
           instr == fxns[s.f].code[s.line]
<1>1. Trapped(r) \/ (instr \in Instr /\ Steps(s, instr, r))
  BY FunctionEffect
<1> HIDE DEF r, instr
<1>2. CASE Trapped(r)
  BY <1>2 DEF Trapped, r
<1>3. CASE instr \in Instr /\ Steps(s, instr, r)
  <2>1. instr.kind \in {"jmp", "jne"} => instr.arg \in Nat /\ instr.arg >= 1
    BY <1>3 DEF Instr
  <2>2. s.line + 1 >= 1
    BY RunParts
  <2>3. s.frames # <<>> => Top(s.frames)[2] + 1 >= 1
    <3>1. s.frames # <<>> => Top(s.frames) \in Label \X Line
      BY RunParts, BelowType
    <3>2. QED  BY <3>1 DEF Line
  <2>4. r \in RunState /\ r.line >= 1
    BY <1>3, <2>1, <2>2, <2>3 DEF Steps, At
  <2>5. QED  BY <2>4 DEF r
<1>4. QED  BY <1>1, <1>2, <1>3

\* set_abi_check's error code is one.
LEMMA FinalizeType ==
    ASSUME NEW in \in CpuState, NEW out \in CpuState
    PROVE  Finalize(in, out) \in CpuState
<1>1. [out EXCEPT !.code = "ABI_VIOLATION"] \in CpuState
  BY DEF CpuState, ErrorCode
<1>2. QED  BY <1>1 DEF Finalize

\* A run starts in a run state.
LEMMA StartType ==
    ASSUME NEW in \in CpuState, NEW out \in CpuState, NEW left, main_fxn \in Label
    PROVE  /\ Start(in, out, left) \in RunState
           /\ Start(in, out, left).out \in CpuState
           /\ At(Start(in, out, left), main_fxn, 1, in.rsp, <<>>)
<1> DEFINE o == [out EXCEPT !.stack = in.stack]
<1>1. o \in CpuState
  BY DEF CpuState
<1> HIDE DEF o
<1>2. MaxJumps \in 0..(Word - 1)
  BY SandboxAssumption
<1>3. in.rax \in Nat /\ in.rbx \in Nat /\ in.rsp \in Int
  BY DEF CpuState
<1>4. Start(in, out, left) =
        [f |-> main_fxn, line |-> 1, rax |-> in.rax, rbx |-> in.rbx, rsp |-> in.rsp,
         frames |-> <<>>, jumps |-> MaxJumps, out |-> o, ended |-> FALSE]
  BY DEF Start, o
<1>5. <<>> \in Seq(Label \X Line)
  OBVIOUS
<1>6. QED  BY <1>1, <1>2, <1>3, <1>4, <1>5 DEF RunState, At, Line

\* An element of a sequence, and a sequence with one element changed
LEMMA SeqElement ==
    ASSUME NEW S, NEW sq \in Seq(S), NEW i \in 1..Len(sq), NEW x \in S
    PROVE  /\ sq[i] \in S
           /\ [sq EXCEPT ![i] = x] \in Seq(S) /\ Len([sq EXCEPT ![i] = x]) = Len(sq)
  OBVIOUS

\* Setting the output of one test case
LEMMA OutputType ==
    ASSUME NEW io \in Seq(IoPair), NEW i \in 1..Len(io), NEW out \in CpuState
    PROVE  /\ [io EXCEPT ![i].out = out] \in Seq(IoPair)
           /\ Len([io EXCEPT ![i].out = out]) = Len(io)
<1>1. io[i] \in IoPair
  BY SeqElement
<1>2. [io[i] EXCEPT !.out = out] \in IoPair
  BY <1>1 DEF IoPair
<1>3. [io EXCEPT ![i].out = out] = [io EXCEPT ![i] = [io[i] EXCEPT !.out = out]]
  OBVIOUS
<1>4. QED  BY <1>2, <1>3, SeqElement

\* Test cases have types when their table has.
LEMMA IoType ==
    ASSUME io_pairs \in Seq(IoPair)
    PROVE  \A i \in 1..Len(io_pairs) : io_pairs[i].in \in Inputs /\ io_pairs[i].out \in CpuState
                                       /\ io_pairs[i].in \in CpuState
<1>1. ASSUME NEW i \in 1..Len(io_pairs) PROVE io_pairs[i] \in IoPair
  BY SeqElement
<1>2. QED  BY <1>1, SandboxAssumption DEF IoPair

\* insert_function: the entry point stays one of the functions.
LEMMA InsertType ==
    ASSUME SandboxInv, NEW l \in Label, NEW code \in Bodies[l], NEW entry \in BOOLEAN,
           insert_function(l, code, entry)
    PROVE  SandboxInv'
<1>1. code \in Seq(Instr) /\ code # <<>>
  BY SandboxAssumption
<1>2. /\ fxns_src' = [fxns_src EXCEPT ![l] = code]
      /\ fxns' = [fxns EXCEPT ![l] = Compiled(code, global_before)]
      /\ lnkr_good' = Links(fxns_src')
      /\ UNCHANGED <<global_before, io_pairs, jumps_remaining, run>>
      /\ ~Running
  BY DEF insert_function
<1>3. FunctionTables'
  BY <1>1, <1>2 DEF SandboxInv, TypeOK, FunctionTables, Compiled
<1>4. /\ Inserted' = Inserted \cup {l}
      /\ main_fxn' = IF entry \/ Inserted \subseteq {l} THEN l ELSE main_fxn
  <2>1. \A m \in Label : fxns_src'[m] = IF m = l THEN code ELSE fxns_src[m]
    BY <1>2 DEF SandboxInv, FunctionTables
  <2>2. Inserted' = Inserted \cup {l}
    BY <1>1, <2>1 DEF Inserted
  <2>3. QED  BY <2>2 DEF insert_function
<1>5. main_fxn' \in Inserted' /\ Inserted' # {}
  <2>1. ~(Inserted \subseteq {l}) => main_fxn \in Inserted
    BY DEF SandboxInv, TypeOK
  <2>2. QED  BY <1>4, <2>1
<1>6. lnkr_good' \in BOOLEAN
  BY <1>2 DEF Links
<1>7. TypeOK'
  BY <1>2, <1>3, <1>5, <1>6 DEF SandboxInv, TypeOK, FunctionTables, Running
<1>8. QED  BY <1>2, <1>3, <1>7 DEF SandboxInv, Running

\* recompile()
LEMMA RecompileType ==
    ASSUME SandboxInv, NEW hook \in BOOLEAN, RecompileAll(fxns_src, hook), global_before' = hook,
           UNCHANGED <<fxns_src, main_fxn, io_pairs, jumps_remaining, run>>
    PROVE  SandboxInv'
<1>1. FunctionTables'
  BY DEF SandboxInv, FunctionTables, RecompileAll, Compiled
<1>2. lnkr_good' \in BOOLEAN
  BY DEF SandboxInv, TypeOK, RecompileAll, Links
<1>3. TypeOK'
  BY <1>1, <1>2 DEF SandboxInv, TypeOK, FunctionTables, Running, Inserted
<1>4. QED  BY <1>1, <1>3 DEF SandboxInv, Running

\* run(), up to the first instruction
LEMMA BeginType ==
    ASSUME SandboxInv, NEW i \in 1..Len(io_pairs), Begin(i)
    PROVE  SandboxInv'
<1> DEFINE io == io_pairs[i]
           s == Start(io.in, io.out, jumps_remaining)
<1>1. io_pairs \in Seq(IoPair) /\ io.in \in CpuState /\ io.out \in CpuState
  BY IoType DEF SandboxInv
<1>2. main_fxn \in Label
  BY DEF SandboxInv, TypeOK, Begin, Inserted
<1>3. s \in RunState /\ s.out \in CpuState /\ ~s.ended /\ s.line = 1
  BY <1>1, <1>2, StartType DEF At
<1>4. /\ UNCHANGED <<fxns_src, fxns, lnkr_good, main_fxn, global_before>>
      /\ jumps_remaining' = MaxJumps
  BY DEF Begin
<1>5. FunctionTables' /\ Inserted' = Inserted
  BY <1>4 DEF SandboxInv, FunctionTables, Inserted
<1>6. jumps_remaining' \in 0..(Word - 1)
  BY <1>4, SandboxAssumption
<1>7. /\ io_pairs' \in Seq(IoPair)
      /\ (run'.index \in 1..Len(io_pairs') /\ run'.s \in RunState) \/ ~Running'
      /\ Running' => ~run'.s.ended /\ run'.s.line >= 1
  <2>1. CASE lnkr_good
    <3>1. run' = [index |-> i, s |-> s] /\ io_pairs' = io_pairs
      BY <2>1 DEF Begin
    <3> HIDE DEF s
    <3>2. QED  BY <1>1, <1>3, <3>1
  <2>2. CASE ~lnkr_good
    <3> DEFINE o == [s.out EXCEPT !.code = "LINKER_ERROR"]
    <3>1. io_pairs' = [io_pairs EXCEPT ![i].out = Finalize(io.in, o)] /\ run' = run /\ ~Running
      BY <2>2 DEF Begin
    <3> HIDE DEF s
    <3>2. o \in CpuState
      BY <1>3 DEF CpuState, ErrorCode
    <3> HIDE DEF o, io
    <3>3. Finalize(io.in, o) \in CpuState
      BY <1>1, <3>2, FinalizeType
    <3>4. io_pairs' \in Seq(IoPair)
      BY <1>1, <3>1, <3>3, OutputType
    <3>5. ~Running'
      BY <3>1 DEF Running
    <3>6. QED  BY <3>4, <3>5
  <2>3. QED  BY <2>1, <2>2
<1> HIDE DEF s, io
<1>8. \A k \in 1..Len(io_pairs') : io_pairs'[k].in \in Inputs /\ io_pairs'[k].out \in CpuState
  <2>1. \A k \in 1..Len(io_pairs') : io_pairs'[k] \in IoPair
    BY <1>7, SeqElement
  <2>2. QED  BY <2>1 DEF IoPair
<1>9. TypeOK'
  BY <1>4, <1>5, <1>6, <1>7, <1>8 DEF SandboxInv, TypeOK
<1>10. QED  BY <1>5, <1>7, <1>9 DEF SandboxInv

\* One instruction of a run, and its end
LEMMA StepTypes ==
    ASSUME SandboxInv, Step
    PROVE  SandboxInv'
<1> DEFINE s == emit_function(run.s)
           i == run.index
<1>1. /\ Running /\ FunctionTables /\ i \in 1..Len(io_pairs) /\ io_pairs \in Seq(IoPair)
      /\ run.s \in RunState /\ ~run.s.ended /\ run.s.line >= 1
  BY DEF SandboxInv, TypeOK, Step
<1>2. s \in RunState /\ (~s.ended => s.line >= 1)
  BY <1>1, StepType
<1>3. UNCHANGED <<fxns_src, fxns, lnkr_good, main_fxn, global_before>>
  BY DEF Step
<1>4. IF s.ended
      THEN /\ run' = Idle
           /\ io_pairs' = [io_pairs EXCEPT ![i].out = Finalize(io_pairs[i].in, s.out)]
           /\ jumps_remaining' = s.jumps
      ELSE run' = [index |-> i, s |-> s] /\ UNCHANGED <<io_pairs, jumps_remaining>>
  BY DEF Step
<1> HIDE DEF s, i
<1>5. s.out \in CpuState /\ s.jumps \in 0..(Word - 1)
  BY <1>2, RunParts
<1>6. FunctionTables' /\ Inserted' = Inserted
  BY <1>3 DEF SandboxInv, FunctionTables, Inserted
<1>7. /\ io_pairs' \in Seq(IoPair)
      /\ jumps_remaining' \in 0..(Word - 1)
      /\ (run'.index \in 1..Len(io_pairs') /\ run'.s \in RunState) \/ ~Running'
      /\ Running' => ~run'.s.ended /\ run'.s.line >= 1
  <2>1. CASE s.ended
    <3>1. Finalize(io_pairs[i].in, s.out) \in CpuState
      BY <1>1, <1>5, IoType, FinalizeType
    <3>2. io_pairs' \in Seq(IoPair)
      BY <1>1, <1>4, <2>1, <3>1, OutputType
    <3>3. ~Running'
      BY <1>4, <2>1 DEF Running
    <3>4. QED  BY <1>4, <1>5, <2>1, <3>2, <3>3
  <2>2. CASE ~s.ended
    BY <1>1, <1>2, <1>4, <2>2 DEF SandboxInv, TypeOK
  <2>3. QED  BY <2>1, <2>2
<1>8. \A k \in 1..Len(io_pairs') : io_pairs'[k].in \in Inputs /\ io_pairs'[k].out \in CpuState
  <2>1. \A k \in 1..Len(io_pairs') : io_pairs'[k] \in IoPair
    BY <1>7, SeqElement
  <2>2. QED  BY <2>1 DEF IoPair
<1>9. TypeOK'
  BY <1>3, <1>6, <1>7, <1>8 DEF SandboxInv, TypeOK
<1>10. QED  BY <1>6, <1>7, <1>9 DEF SandboxInv

\* The invariant holds at first and is kept by every operation and every instruction.
LEMMA SandboxInvInit ==
    ASSUME Init
    PROVE  SandboxInv
<1>1. FunctionTables
  BY DEF Init, FunctionTables, Compiled
<1>2. ~Running /\ Inserted = {} /\ io_pairs = <<>> /\ io_pairs \in Seq(IoPair)
  BY DEF Init, Running, Inserted
<1>3. 0 \in 0..(Word - 1)
  BY SandboxAssumption
<1>4. TypeOK
  <2>1. lnkr_good \in BOOLEAN /\ global_before \in BOOLEAN /\ jumps_remaining \in 0..(Word - 1)
    BY <1>3 DEF Init
  <2>2. main_fxn \in IF Inserted # {} THEN Inserted ELSE Label \cup {NoLabel}
    BY <1>2 DEF Init
  <2>3. \A i \in 1..Len(io_pairs) : io_pairs[i].in \in Inputs /\ io_pairs[i].out \in CpuState
    BY <1>2
  <2>4. QED  BY <1>1, <1>2, <2>1, <2>2, <2>3, Zenon DEF TypeOK, FunctionTables
<1>5. QED  BY <1>1, <1>2, <1>4 DEF SandboxInv

\* Every operation of the sandbox and every instruction of a run keeps the invariant.
LEMMA SandboxInvNext ==
    ASSUME SandboxInv, [Next]_vars
    PROVE  SandboxInv'
<1>1. ASSUME NEW l \in Label, NEW code \in Bodies[l], NEW entry \in BOOLEAN,
             insert_function(l, code, entry)
      PROVE  SandboxInv'
  BY <1>1, InsertType
<1>2. CASE clear_functions
  <2>1. FunctionTables'
    BY <1>2 DEF clear_functions, FunctionTables, Compiled
  <2>2. Inserted' = {}
    BY <1>2 DEF clear_functions, Inserted
  <2>3. main_fxn' \in Label \cup {NoLabel}
    BY <1>2 DEF clear_functions, SandboxInv, TypeOK, Inserted
  <2>4. TypeOK'
    BY <1>2, <2>1, <2>2, <2>3 DEF clear_functions, SandboxInv, TypeOK, FunctionTables, Running
  <2>5. QED  BY <1>2, <2>1, <2>4 DEF clear_functions, SandboxInv, Running
<1>3. CASE insert_before
  BY <1>3, RecompileType DEF insert_before
<1>4. CASE clear_callbacks
  BY <1>4, RecompileType DEF clear_callbacks
<1>5. ASSUME NEW in \in Inputs, insert_input(in) PROVE SandboxInv'
  <2> DEFINE p == [in |-> in, out |-> in]
  <2>1. p \in IoPair
    BY SandboxAssumption DEF IoPair
  <2>2. io_pairs' = Append(io_pairs, p) /\ run' = run /\ ~Running
        /\ UNCHANGED <<fxns_src, fxns, lnkr_good, main_fxn, global_before, jumps_remaining>>
    BY <1>5 DEF insert_input
  <2> HIDE DEF p
  <2>3. io_pairs' \in Seq(IoPair)
    BY <2>1, <2>2 DEF SandboxInv
  <2>4. \A k \in 1..Len(io_pairs') : io_pairs'[k] \in IoPair
    BY <2>3, SeqElement
  <2>5. FunctionTables' /\ Inserted' = Inserted
    BY <2>2 DEF SandboxInv, FunctionTables, Inserted
  <2>6. TypeOK'
    BY <2>2, <2>4, <2>5 DEF SandboxInv, TypeOK, Running, IoPair
  <2>7. QED  BY <2>2, <2>3, <2>5, <2>6 DEF SandboxInv, Running
<1>6. CASE clear_inputs
  <2>1. io_pairs' = <<>> /\ io_pairs' \in Seq(IoPair) /\ ~Running'
        /\ UNCHANGED <<fxns_src, fxns, lnkr_good, main_fxn, global_before, jumps_remaining>>
    BY <1>6 DEF clear_inputs, Running
  <2>2. FunctionTables' /\ Inserted' = Inserted
    BY <2>1 DEF SandboxInv, FunctionTables, Inserted
  <2>3. TypeOK'
    BY <2>1, <2>2 DEF SandboxInv, TypeOK
  <2>4. QED  BY <2>1, <2>2, <2>3 DEF SandboxInv
<1>7. ASSUME NEW i \in 1..Len(io_pairs), Begin(i) PROVE SandboxInv'
  BY <1>7, BeginType
<1>8. CASE Step
  BY <1>8, StepTypes
<1>9. CASE UNCHANGED vars
  <2>1. FunctionTables' /\ Inserted' = Inserted
    BY <1>9 DEF vars, SandboxInv, FunctionTables, Inserted
  <2>2. TypeOK'
    BY <1>9, <2>1 DEF vars, SandboxInv, TypeOK, Running
  <2>3. QED  BY <1>9, <2>1, <2>2 DEF vars, SandboxInv, Running
<1>10. QED
  BY <1>1, <1>2, <1>3, <1>4, <1>5, <1>6, <1>7, <1>8, <1>9 DEF Next

\* Whatever is inserted, cleared and run, in whatever order, the sandbox's tables and the run
\* under way have their types, and an entry point is set, and there, as soon as there is a
\* function.
THEOREM SandboxTypeCorrect == Spec => []TypeOK
<1>1. Init => SandboxInv
  BY SandboxInvInit
<1>2. SandboxInv /\ [Next]_vars => SandboxInv'
  BY SandboxInvNext
<1>3. SandboxInv => TypeOK
  BY DEF SandboxInv
<1>4. QED  BY <1>1, <1>2, <1>3, PTL DEF Spec

-----------------------------------------------------------------------------
(* Recursion *)

\* A depth for every line of a function that keeps its return address
Depth(code) == CHOOSE d \in [1..Len(code) -> 0..Len(code)] : StackDepth(code, d)

DepthAt(l, line) == IF line \in 1..Len(fxns[l].code) THEN Depth(fxns[l].code)[line] ELSE 0

\* entry[k] bounds rsp where the k-th active call began.  Every call begins below the pushes of
\* its caller and one slot further down than the caller did; the function that runs is below its
\* own pushes.
StackBelow(s, entry) ==
    LET n == Len(s.frames)
    IN  /\ entry \in [1..n -> Slots]
        /\ \A k \in 1..n : entry[k] <= StackSize + 1 - k
        /\ \A k \in 2..n : entry[k] + 1 + DepthAt(s.frames[k][1], s.frames[k][2] + 1) <= entry[k-1]
        /\ n > 0 => s.rsp >= 1 /\ s.rsp + DepthAt(s.f, s.line) <= entry[n]

StackInv == Running => \E entry : StackBelow(run.s, entry)

BodiesKeepReturnAddress ==
    \A l \in Label : \A code \in Bodies[l] : KeepsReturnAddress(code)

\* What the depth of a line says about the lines that follow it
LEMMA DepthNext ==
    ASSUME FunctionTables, BodiesKeepReturnAddress, NEW l \in Label,
           NEW line \in 1..Len(fxns[l].code)
    PROVE  LET instr == fxns[l].code[line]
               d     == DepthAt(l, line)
           IN  /\ d \in Nat
               /\ instr.kind = "push" => DepthAt(l, line + 1) <= d + 1
               /\ instr.kind = "pop" => d > 0 /\ DepthAt(l, line + 1) <= d - 1
               /\ instr.kind \in {"jmp", "jne"} => DepthAt(l, instr.arg) <= d
               /\ instr.kind \notin {"push", "pop", "jmp", "ret", "ill"} =>
                    DepthAt(l, line + 1) <= d
<1> DEFINE code == fxns[l].code
           dep == Depth(code)
<1>1. code \in Seq(Instr) /\ Len(code) \in Nat /\ code \in Bodies[l]
  <2>1. code \in Seq(Instr) /\ code \in Bodies[l] \cup {<<>>}
    BY DEF FunctionTables
  <2>2. code # <<>>
    <3>1. Len(code) \in Nat /\ Len(code) >= 1
      BY <2>1
    <3>2. QED  BY <3>1
  <2>3. QED  BY <2>1, <2>2
<1>2. dep \in [1..Len(code) -> 0..Len(code)] /\ StackDepth(code, dep)
  BY <1>1 DEF BodiesKeepReturnAddress, KeepsReturnAddress, Depth
<1> HIDE DEF dep
<1>3. \A j : DepthAt(l, j) = IF j \in 1..Len(code) THEN dep[j] ELSE 0
  BY DEF DepthAt, dep
<1> HIDE DEF code
<1>4. \A j \in 1..Len(code) : dep[j] \in Nat
  BY <1>1, <1>2
<1>5. line \in 1..Len(code) /\ DepthAt(l, line) = dep[line]
  BY <1>3 DEF code
<1> DEFINE instr == code[line]
           d == dep[line]
<1>6. /\ instr.kind = "push" => (line + 1 \in 1..Len(code) => dep[line + 1] <= d + 1)
      /\ instr.kind = "pop" => d > 0 /\ (line + 1 \in 1..Len(code) => dep[line + 1] <= d - 1)
      /\ instr.kind \in {"jmp", "jne"} => (instr.arg \in 1..Len(code) => dep[instr.arg] <= d)
      /\ instr.kind \notin {"push", "pop", "jmp", "ret", "ill"} =>
           (line + 1 \in 1..Len(code) => dep[line + 1] <= d)
  BY <1>2, <1>5 DEF StackDepth
<1>7. d \in Nat
  BY <1>4, <1>5
<1> HIDE DEF d, instr
<1>8. /\ instr.kind = "push" => DepthAt(l, line + 1) <= d + 1
      /\ instr.kind = "pop" => d > 0 /\ DepthAt(l, line + 1) <= d - 1
      /\ instr.kind \in {"jmp", "jne"} => DepthAt(l, instr.arg) <= d
      /\ instr.kind \notin {"push", "pop", "jmp", "ret", "ill"} => DepthAt(l, line + 1) <= d
  BY <1>3, <1>6, <1>7
<1>9. QED  BY <1>5, <1>7, <1>8 DEF d, instr, code

\* Functions begin with nothing pushed.
LEMMA DepthEntry ==
    ASSUME FunctionTables, BodiesKeepReturnAddress, NEW l \in Label
    PROVE  DepthAt(l, 1) = 0 /\ \A j : DepthAt(l, j) \in Nat
<1>1. \A j \in 1..Len(fxns[l].code) : DepthAt(l, j) \in Nat
  BY DepthNext
<1>2. \A j : DepthAt(l, j) \in Nat
  BY <1>1 DEF DepthAt
<1>3. DepthAt(l, 1) = 0
  <2>1. CASE 1 \in 1..Len(fxns[l].code)
    <3> DEFINE code == fxns[l].code
               dep == Depth(code)
    <3>1. code \in Seq(Instr) /\ code \in Bodies[l] \cup {<<>>} /\ code # <<>>
      BY <2>1 DEF FunctionTables
    <3>2. StackDepth(code, dep)
      BY <3>1 DEF BodiesKeepReturnAddress, KeepsReturnAddress, Depth
    <3>3. dep[1] <= 0
      <4> HIDE DEF dep, code
      <4>1. QED  BY <2>1, <3>2 DEF StackDepth, code
    <3>4. DepthAt(l, 1) = dep[1]
      BY <2>1 DEF DepthAt
    <3> HIDE DEF dep, code
    <3>5. QED  BY <1>2, <3>3, <3>4
  <2>2. CASE 1 \notin 1..Len(fxns[l].code)
    BY <2>2 DEF DepthAt
  <2>3. QED  BY <2>1, <2>2
<1>4. QED  BY <1>2, <1>3

\* A call takes a slot below everything its callers pushed.
LEMMA CallBelow ==
    ASSUME FunctionTables, BodiesKeepReturnAddress, NEW s \in RunState, NEW r,
           NEW entry, StackBelow(s, entry), NEW l \in Label,
           s.rsp - 1 \in Slots, DepthAt(s.f, s.line + 1) <= DepthAt(s.f, s.line),
           At(r, l, 1, s.rsp - 1, Append(s.frames, <<s.f, s.line>>))
    PROVE  \E e : StackBelow(r, e)
<1> DEFINE n == Len(s.frames)
           point == <<s.f, s.line>>
           new == [k \in 1..(n+1) |-> IF k <= n THEN entry[k] ELSE s.rsp - 1]
<1>1. /\ s.f \in Label /\ s.rsp \in Int /\ n \in Nat /\ StackSize \in Nat
      /\ s.frames \in Seq(Label \X Line) /\ point \in Label \X Line
  BY RunParts, SandboxAssumption
<1>2. /\ r.f = l /\ r.line = 1 /\ r.rsp = s.rsp - 1
      /\ Len(r.frames) = n + 1
      /\ \A k \in 1..n : r.frames[k] = s.frames[k]
      /\ r.frames[n+1] = point
  BY <1>1 DEF At
<1>3. /\ DepthAt(s.f, s.line) \in Nat /\ DepthAt(s.f, s.line + 1) \in Nat
      /\ DepthAt(l, 1) = 0
  BY <1>1, DepthEntry
<1>4. /\ entry \in [1..n -> Slots]
      /\ \A k \in 1..n : entry[k] <= StackSize + 1 - k
      /\ \A k \in 2..n : entry[k] + 1 + DepthAt(s.frames[k][1], s.frames[k][2] + 1) <= entry[k-1]
      /\ n > 0 => s.rsp >= 1 /\ s.rsp + DepthAt(s.f, s.line) <= entry[n]
  BY DEF StackBelow
<1>5. /\ new \in [1..(n+1) -> Slots]
      /\ \A k \in 1..n : new[k] = entry[k]
      /\ new[n+1] = s.rsp - 1
  BY <1>1, <1>4
<1> HIDE DEF new, n
<1>6. s.rsp - 1 >= 1 /\ s.rsp - 1 <= StackSize
  BY <1>1 DEF Slots
<1>7. n > 0 => n \in 1..n /\ entry[n] \in Int /\ entry[n] <= StackSize + 1 - n
  BY <1>1, <1>4 DEF Slots
<1>8. ASSUME NEW k \in 1..(n+1) PROVE new[k] <= StackSize + 1 - k
  <2>1. CASE k \in 1..n
    BY <1>4, <1>5, <2>1
  <2>2. CASE k = n + 1
    <3>1. CASE n = 0
      BY <1>1, <1>5, <1>6, <2>2, <3>1
    <3>2. CASE n > 0
      BY <1>1, <1>3, <1>4, <1>5, <1>7, <2>2, <3>2
    <3>3. QED  BY <1>1, <3>1, <3>2
  <2>3. QED  BY <1>1, <2>1, <2>2
<1>9. ASSUME NEW k \in 2..(n+1)
      PROVE  new[k] + 1 + DepthAt(r.frames[k][1], r.frames[k][2] + 1) <= new[k-1]
  <2>1. CASE k \in 2..n
    <3>1. k \in 1..n /\ k-1 \in 1..n
      BY <1>1, <2>1
    <3>2. QED  BY <1>2, <1>4, <1>5, <2>1, <3>1
  <2>2. CASE k = n + 1
    <3>1. k - 1 = n /\ n > 0 /\ n \in 1..n
      BY <1>1, <2>2
    <3>2. r.frames[k][1] = s.f /\ r.frames[k][2] = s.line
      BY <1>2, <2>2
    <3>3. new[k-1] = entry[n] /\ new[k] = s.rsp - 1
      BY <1>5, <2>2, <3>1
    <3>4. s.rsp + DepthAt(s.f, s.line) <= entry[n]
      BY <1>4, <3>1
    <3>5. (s.rsp - 1) + 1 + DepthAt(s.f, s.line + 1) <= entry[n]
      BY <1>1, <1>3, <1>7, <3>1, <3>4
    <3>6. QED  BY <3>2, <3>3, <3>5
  <2>3. QED  BY <1>1, <2>1, <2>2
<1>10. StackBelow(r, new)
  BY <1>1, <1>2, <1>3, <1>5, <1>6, <1>8, <1>9, SMTT(30) DEF StackBelow
<1>11. QED  BY <1>10

\* A return gives the slot back.
LEMMA ReturnBelow ==
    ASSUME FunctionTables, BodiesKeepReturnAddress, NEW s \in RunState, NEW r,
           NEW entry, StackBelow(s, entry), s.frames # <<>>,
           At(r, Top(s.frames)[1], Top(s.frames)[2] + 1, s.rsp + 1, Below(s.frames))
    PROVE  \E e : StackBelow(r, e)
<1> DEFINE n == Len(s.frames)
           top == Top(s.frames)
           new == [k \in 1..(n-1) |-> entry[k]]
<1>1. /\ s.f \in Label /\ s.rsp \in Int /\ n \in Nat \ {0} /\ StackSize \in Nat
      /\ s.frames \in Seq(Label \X Line) /\ top \in Label \X Line /\ top = s.frames[n]
  BY RunParts, SandboxAssumption, BelowType DEF Top
<1>2. /\ r.f = top[1] /\ r.line = top[2] + 1 /\ r.rsp = s.rsp + 1
      /\ Len(r.frames) = n - 1
      /\ \A k \in 1..(n-1) : r.frames[k] = s.frames[k]
  <2>1. /\ Len(Below(s.frames)) = n - 1
        /\ \A k \in 1..(n-1) : Below(s.frames)[k] = s.frames[k]
    BY <1>1, BelowType
  <2>2. r.f = top[1] /\ r.line = top[2] + 1 /\ r.rsp = s.rsp + 1 /\ r.frames = Below(s.frames)
    BY DEF At
  <2>3. QED  BY <2>1, <2>2
<1>3. DepthAt(s.f, s.line) \in Nat /\ DepthAt(top[1], top[2] + 1) \in Nat
  BY <1>1, DepthEntry
<1>4. /\ entry \in [1..n -> Slots]
      /\ \A k \in 1..n : entry[k] <= StackSize + 1 - k
      /\ \A k \in 2..n : entry[k] + 1 + DepthAt(s.frames[k][1], s.frames[k][2] + 1) <= entry[k-1]
      /\ n > 0 => s.rsp >= 1 /\ s.rsp + DepthAt(s.f, s.line) <= entry[n]
  BY DEF StackBelow
<1>5. /\ new \in [1..(n-1) -> Slots]
      /\ \A k \in 1..(n-1) : new[k] = entry[k]
  BY <1>1, <1>4
<1> HIDE DEF new, n, top
<1>6. \A k \in 1..(n-1) : new[k] <= StackSize + 1 - k
  BY <1>1, <1>4, <1>5
<1>7. ASSUME NEW k \in 2..(n-1)
      PROVE  new[k] + 1 + DepthAt(r.frames[k][1], r.frames[k][2] + 1) <= new[k-1]
  <2>1. k \in 1..(n-1) /\ k-1 \in 1..(n-1) /\ k \in 2..n
    <3>1. n \in Int
      BY <1>1
    <3>2. QED  BY <3>1
  <2>2. QED  BY <1>2, <1>4, <1>5, <2>1
<1>8. ASSUME n - 1 > 0 PROVE r.rsp >= 1 /\ r.rsp + DepthAt(r.f, r.line) <= new[n-1]
  <2>1. n \in 2..n /\ n \in 1..n /\ n - 1 \in 1..(n-1) /\ n - 1 \in 1..n /\ n > 0
    BY <1>1, <1>8
  <2>2. entry[n] + 1 + DepthAt(top[1], top[2] + 1) <= entry[n-1]
    BY <1>1, <1>4, <2>1
  <2>3. entry[n] \in Int /\ entry[n-1] \in Int
    BY <1>4, <2>1 DEF Slots
  <2>4. s.rsp + DepthAt(s.f, s.line) <= entry[n] /\ s.rsp >= 1
    BY <1>4, <2>1
  <2>5. (s.rsp + 1) + DepthAt(top[1], top[2] + 1) <= entry[n-1] /\ s.rsp + 1 >= 1
    <3> DEFINE a == DepthAt(s.f, s.line)
               b == DepthAt(top[1], top[2] + 1)
               x == entry[n]
               y == entry[n-1]
               z == s.rsp
    <3>1. a \in Nat /\ b \in Nat /\ x \in Int /\ y \in Int /\ z \in Int
      BY <1>1, <1>3, <2>3
    <3>2. x + 1 + b <= y /\ z + a <= x /\ z >= 1
      BY <2>2, <2>4
    <3> HIDE DEF a, b, x, y, z
    <3>3. (z + 1) + b <= y /\ z + 1 >= 1
      BY <3>1, <3>2
    <3>4. QED  BY <3>3 DEF b, y, z
  <2>6. new[n-1] = entry[n-1]
    BY <1>5, <2>1
  <2>7. QED  BY <1>2, <2>5, <2>6
<1>9. StackBelow(r, new)
  BY <1>1, <1>2, <1>5, <1>6, <1>7, <1>8 DEF StackBelow
<1>10. QED  BY <1>9

\* Within a function rsp stays below what it was at the entry, less what the function pushed.
LEMMA StayBelow ==
    ASSUME FunctionTables, BodiesKeepReturnAddress, NEW s \in RunState, NEW r,
           NEW entry, StackBelow(s, entry), NEW line, NEW rsp \in Int,
           At(r, s.f, line, rsp, s.frames), s.rsp >= 1 => rsp >= 1,
           rsp + DepthAt(s.f, line) <= s.rsp + DepthAt(s.f, s.line)
    PROVE  \E e : StackBelow(r, e)
<1>1. /\ s.f \in Label /\ s.rsp \in Int /\ Len(s.frames) \in Nat
      /\ DepthAt(s.f, s.line) \in Nat /\ DepthAt(s.f, line) \in Nat
  BY RunParts, DepthEntry
<1>2. r.f = s.f /\ r.line = line /\ r.rsp = rsp /\ r.frames = s.frames
  BY DEF At
<1>3. Len(s.frames) > 0 => entry[Len(s.frames)] \in Int
  BY <1>1 DEF StackBelow, Slots
<1>4. Len(s.frames) > 0 => r.rsp >= 1 /\ r.rsp + DepthAt(r.f, r.line) <= entry[Len(s.frames)]
  BY <1>1, <1>2, <1>3 DEF StackBelow
<1>5. StackBelow(r, entry)
  BY <1>2, <1>4 DEF StackBelow
<1>6. QED  BY <1>5

\* No instruction breaks the bound.
LEMMA StepBelow ==
    ASSUME FunctionTables, BodiesKeepReturnAddress, NEW s \in RunState, ~s.ended, s.line >= 1,
           NEW entry, StackBelow(s, entry), ~emit_function(s).ended
    PROVE  \E e : StackBelow(emit_function(s), e)
<1> DEFINE r == emit_function(s)
           instr == fxns[s.f].code[s.line]
           d == DepthAt(s.f, s.line)
<1>1. s.line \in 1..Len(fxns[s.f].code) /\ instr \in Instr /\ Steps(s, instr, r)
  BY FunctionEffect DEF Trapped
<1>2. s.f \in Label /\ s.rsp \in Int /\ s.line \in Nat
  BY RunParts
<1>3. /\ d \in Nat
      /\ instr.kind = "push" => DepthAt(s.f, s.line + 1) <= d + 1
      /\ instr.kind = "pop" => d > 0 /\ DepthAt(s.f, s.line + 1) <= d - 1
      /\ instr.kind \in {"jmp", "jne"} => DepthAt(s.f, instr.arg) <= d
      /\ instr.kind \notin {"push", "pop", "jmp", "ret", "ill"} => DepthAt(s.f, s.line + 1) <= d
  BY <1>1, <1>2, DepthNext
<1>4. DepthAt(s.f, s.line + 1) \in Nat /\ DepthAt(s.f, instr.arg) \in Nat
  BY <1>2, DepthEntry
<1> HIDE DEF r, instr
<1>5. CASE /\ instr.kind \notin {"push", "pop", "jmp", "call", "ret", "ill"}
           /\ At(r, s.f, s.line + 1, s.rsp, s.frames)
  <2>1. s.rsp + DepthAt(s.f, s.line + 1) <= s.rsp + DepthAt(s.f, s.line)
    BY <1>2, <1>3, <1>4, <1>5
  <2>2. QED  BY <1>2, <1>5, <2>1, StayBelow DEF r
<1>6. CASE instr.kind \in {"jmp", "jne"} /\ At(r, s.f, instr.arg, s.rsp, s.frames)
  <2>1. s.rsp + DepthAt(s.f, instr.arg) <= s.rsp + DepthAt(s.f, s.line)
    BY <1>2, <1>3, <1>4, <1>6
  <2>2. QED  BY <1>2, <1>6, <2>1, StayBelow DEF r
<1>7. CASE /\ instr.kind = "push" /\ s.rsp - 1 \in Slots
           /\ At(r, s.f, s.line + 1, s.rsp - 1, s.frames)
  <2>1. (s.rsp - 1) + DepthAt(s.f, s.line + 1) <= s.rsp + DepthAt(s.f, s.line)
    BY <1>2, <1>3, <1>4, <1>7
  <2>2. s.rsp - 1 \in Int /\ s.rsp - 1 >= 1
    BY <1>2, <1>7, SandboxAssumption DEF Slots
  <2>3. QED  BY <1>7, <2>1, <2>2, StayBelow DEF r
<1>8. CASE /\ instr.kind = "pop" /\ s.rsp \in Slots
           /\ At(r, s.f, s.line + 1, s.rsp + 1, s.frames)
  <2>1. (s.rsp + 1) + DepthAt(s.f, s.line + 1) <= s.rsp + DepthAt(s.f, s.line)
    BY <1>2, <1>3, <1>4, <1>8
  <2>2. s.rsp + 1 \in Int /\ s.rsp + 1 >= 1
    BY <1>2, <1>8, SandboxAssumption DEF Slots
  <2>3. QED  BY <1>8, <2>1, <2>2, StayBelow DEF r
<1>9. CASE /\ instr.kind = "call" /\ s.rsp - 1 \in Slots
           /\ At(r, instr.arg, 1, s.rsp - 1, Append(s.frames, <<s.f, s.line>>))
  <2>1. instr.arg \in Label
    BY <1>1, <1>9 DEF Instr
  <2>2. DepthAt(s.f, s.line + 1) <= DepthAt(s.f, s.line)
    BY <1>3, <1>9
  <2>3. QED  BY <1>9, <2>1, <2>2, CallBelow DEF r
<1>10. CASE /\ instr.kind = "ret" /\ s.frames # <<>>
            /\ At(r, Top(s.frames)[1], Top(s.frames)[2] + 1, s.rsp + 1, Below(s.frames))
  BY <1>10, ReturnBelow DEF r
<1>11. QED
  BY <1>1, <1>5, <1>6, <1>7, <1>8, <1>9, <1>10 DEF Steps

\* Nested calls never take more of STOKE's stack than the test case's stack has slots: a
\* recursion without end is caught, if no function pops its own return address, however calls,
\* jumps, pushes and pops follow one another and whatever is left on the stack.
THEOREM RecursionCaughtHolds ==
    ASSUME BodiesKeepReturnAddress
    PROVE  Spec => []RecursionCaught
<1> DEFINE Inv == SandboxInv /\ StackInv
<1>1. Init => Inv
  <2>1. Init => StackInv
    BY DEF Init, StackInv, Running
  <2>2. QED  BY <2>1, SandboxInvInit
<1>2. Inv /\ [Next]_vars => Inv'
  <2> SUFFICES ASSUME SandboxInv, StackInv, [Next]_vars PROVE StackInv'
    BY SandboxInvNext
  <2>1. CASE UNCHANGED <<fxns, run>> \/ (UNCHANGED run /\ ~Running)
    BY <2>1 DEF StackInv, Running, StackBelow, DepthAt
  <2>2. ASSUME NEW i \in 1..Len(io_pairs), Begin(i), lnkr_good PROVE StackInv'
    <3> DEFINE s == Start(io_pairs[i].in, io_pairs[i].out, jumps_remaining)
    <3>1. run' = [index |-> i, s |-> s]
      BY <2>2 DEF Begin
    <3>2. s.frames = <<>>
      BY DEF Start
    <3> HIDE DEF s
    <3>3. run'.s.frames = <<>> /\ Len(run'.s.frames) = 0
      BY <3>1, <3>2
    <3>4. StackBelow(run.s, <<>>)'
      <4>1. <<>> \in [1..0 -> Slots]
        OBVIOUS
      <4>2. QED  BY <3>3, <4>1 DEF StackBelow
    <3>5. QED  BY <3>4 DEF StackInv
  <2>3. CASE Step
    <3> DEFINE s == emit_function(run.s)
    <3>1. /\ FunctionTables /\ run.s \in RunState /\ ~run.s.ended /\ run.s.line >= 1
          /\ \E entry : StackBelow(run.s, entry)
      BY <2>3 DEF SandboxInv, TypeOK, StackInv, Step
    <3>2. CASE s.ended
      BY <2>3, <3>2 DEF Step, StackInv, Running
    <3>3. CASE ~s.ended
      <4>1. \E e : StackBelow(s, e)
        BY <3>1, <3>3, StepBelow
      <4>2. run'.s = s /\ fxns' = fxns
        BY <2>3, <3>3 DEF Step
      <4> HIDE DEF s
      <4>3. QED  BY <4>1, <4>2 DEF StackInv, StackBelow, DepthAt
    <3>4. QED  BY <3>2, <3>3
  <2>4. CASE \/ \E l \in Label : \E code \in Bodies[l], entry \in BOOLEAN :
                  insert_function(l, code, entry)
             \/ clear_functions \/ insert_before \/ clear_callbacks
             \/ \E in \in Inputs : insert_input(in)
             \/ clear_inputs
             \/ \E i \in 1..Len(io_pairs) : Begin(i) /\ ~lnkr_good
             \/ UNCHANGED vars
    <3>1. UNCHANGED <<fxns, run>> \/ (UNCHANGED run /\ ~Running)
      BY <2>4 DEF insert_function, clear_functions, insert_before, clear_callbacks, insert_input,
                  clear_inputs, Begin, vars
    <3>2. QED  BY <2>1, <3>1
  <2>5. QED  BY <2>2, <2>3, <2>4 DEF Next
<1>3. Inv => RecursionCaught
  <2> SUFFICES ASSUME SandboxInv, StackInv, Running PROVE Len(run.s.frames) <= StackSize
    BY DEF RecursionCaught
  <2> DEFINE n == Len(run.s.frames)
  <2>1. PICK entry : StackBelow(run.s, entry)
    BY DEF StackInv
  <2>2. n \in Nat /\ StackSize \in Nat
    BY RunParts, SandboxAssumption DEF SandboxInv, TypeOK
  <2>3. entry \in [1..n -> Slots] /\ \A k \in 1..n : entry[k] <= StackSize + 1 - k
    BY <2>1 DEF StackBelow
  <2> HIDE DEF n
  <2>4. CASE n > 0
    <3>1. n \in 1..n
      BY <2>2, <2>4
    <3>2. entry[n] \in Slots /\ entry[n] <= StackSize + 1 - n
      BY <2>3, <3>1
    <3>3. entry[n] \in Int /\ entry[n] >= 1
      BY <2>2, <3>2 DEF Slots
    <3>4. n <= StackSize
      BY <2>2, <3>2, <3>3
    <3>5. QED  BY <3>4 DEF n
  <2>5. CASE ~(n > 0)
    <3>1. n <= StackSize
      BY <2>2, <2>5
    <3>2. QED  BY <3>1 DEF n
  <2>6. QED  BY <2>4, <2>5
<1>4. QED  BY <1>1, <1>2, <1>3, PTL DEF Spec

-----------------------------------------------------------------------------
(* Runs that are repeated *)

\* States of two runs that do the same from here on: registers, memory and the way back are the
\* same.  The registers of the output states may still differ.
Twin(s, t) ==
    /\ s \in RunState /\ t \in RunState
    /\ s.f = t.f /\ s.line = t.line /\ s.rax = t.rax /\ s.rbx = t.rbx /\ s.rsp = t.rsp
    /\ s.frames = t.frames /\ s.jumps = t.jumps /\ s.ended = t.ended
    /\ s.out.stack = t.out.stack

Alive(s, t) == Twin(s, t) /\ ~s.ended

\* Runs that ended the same way; normally, with the same output
EndAlike(s, t) ==
    /\ s \in RunState /\ t \in RunState /\ s.ended /\ t.ended
    /\ s.out.code = t.out.code
    /\ s.out.code = "NORMAL" => s.out = t.out

Alike(s, t) == Alive(s, t) \/ EndAlike(s, t)

\* Signal traps end both.
LEMMA TrapTwin ==
    ASSUME NEW s, NEW t, Twin(s, t), NEW ec \in ErrorCode \ {"NORMAL"}
    PROVE  EndAlike(emit_signal_trap(s, ec), emit_signal_trap(t, ec))
<1>1. emit_signal_trap(s, ec).out.code = ec /\ emit_signal_trap(t, ec).out.code = ec
  BY DEF emit_signal_trap, Twin, RunState, CpuState
<1>2. Trapped(emit_signal_trap(s, ec)) /\ Trapped(emit_signal_trap(t, ec))
  BY TrapEffect DEF Twin
<1>3. QED  BY <1>1, <1>2 DEF EndAlike, Trapped

\* Registers, place and counter set to the same values
LEMMA SetTwin ==
    ASSUME NEW s, NEW t, Alive(s, t)
    PROVE  /\ \A v \in Nat : Alive([s EXCEPT !.rax = v], [t EXCEPT !.rax = v])
           /\ \A v \in Nat : Alive([s EXCEPT !.rbx = v], [t EXCEPT !.rbx = v])
           /\ \A v \in Int : Alive([s EXCEPT !.rsp = v], [t EXCEPT !.rsp = v])
           /\ \A v \in Line : Alive([s EXCEPT !.line = v], [t EXCEPT !.line = v])
           /\ \A v \in 0..(Word - 1) : Alive([s EXCEPT !.jumps = v], [t EXCEPT !.jumps = v])
  BY DEF Alive, Twin, RunState

\* The next line
LEMMA AdvanceTwin ==
    ASSUME NEW s, NEW t, Alive(s, t)
    PROVE  Alive(Advance(s), Advance(t))
<1>1. s.line + 1 \in Line /\ s.line = t.line
  BY RunParts DEF Alive, Twin, Line
<1>2. Advance(s) = [s EXCEPT !.line = s.line + 1] /\ Advance(t) = [t EXCEPT !.line = s.line + 1]
  BY <1>1 DEF Advance
<1>3. QED  BY <1>1, <1>2, SetTwin

\* Loads read the same value, or fault both.
LEMMA LoadTwin ==
    ASSUME NEW s, NEW t, Alive(s, t), NEW addr
    PROVE  Alike(emit_load(s, addr), emit_load(t, addr))
<1>1. CASE addr \in Slots
  <2> DEFINE v == s.out.stack[addr]
             a == [s EXCEPT !.rax = v]
             b == [t EXCEPT !.rax = v]
  <2>1. v \in Nat /\ t.out.stack[addr] = v
    BY <1>1, RunParts DEF Alive, Twin
  <2>2. emit_load(s, addr) = Advance(a) /\ emit_load(t, addr) = Advance(b)
    BY <1>1, <2>1 DEF emit_load, emit_map_addr
  <2> HIDE DEF v
  <2>3. Alive(a, b)
    BY <2>1, SetTwin
  <2> HIDE DEF a, b
  <2>4. QED  BY <2>2, <2>3, AdvanceTwin DEF Alike
<1>2. CASE addr \notin Slots
  <2>1. "SIGSEGV" \in ErrorCode \ {"NORMAL"}
    BY DEF ErrorCode
  <2>2. QED  BY <1>2, <2>1, TrapTwin DEF emit_load, emit_map_addr, Alike, Alive
<1>3. QED  BY <1>1, <1>2

\* Stores of a value leave the same memory.
LEMMA StoreTwin ==
    ASSUME NEW s, NEW t, Alive(s, t), NEW addr, NEW v \in Nat
    PROVE  IF addr \in Slots THEN Alive(emit_store(s, addr, v), emit_store(t, addr, v))
           ELSE EndAlike(emit_store(s, addr, v), emit_store(t, addr, v))
<1>1. CASE addr \in Slots
  <2> DEFINE a == [s EXCEPT !.out.stack[addr] = v]
             b == [t EXCEPT !.out.stack[addr] = v]
  <2>1. emit_store(s, addr, v) = Advance(a) /\ emit_store(t, addr, v) = Advance(b)
    BY <1>1 DEF emit_store, emit_map_addr
  <2>2. Alive(a, b)
    BY <1>1 DEF Alive, Twin, RunState, CpuState
  <2> HIDE DEF a, b
  <2>3. QED  BY <1>1, <2>1, <2>2, AdvanceTwin
<1>2. CASE addr \notin Slots
  <2>1. "SIGSEGV" \in ErrorCode \ {"NORMAL"}
    BY DEF ErrorCode
  <2>2. QED  BY <1>2, <2>1, TrapTwin DEF emit_store, emit_map_addr, Alive
<1>3. QED  BY <1>1, <1>2

\* Pushes
LEMMA PushTwin ==
    ASSUME NEW s, NEW t, Alive(s, t), NEW v \in Nat
    PROVE  Alike(emit_push(s, v), emit_push(t, v))
<1> DEFINE a == emit_store(s, s.rsp - 1, v)
           b == emit_store(t, s.rsp - 1, v)
<1>1. s.rsp = t.rsp /\ s.rsp \in Int /\ s \in RunState /\ ~s.ended
  BY RunParts DEF Alive, Twin
<1>2. /\ emit_push(s, v) = IF s.rsp - 1 \in Slots THEN [a EXCEPT !.rsp = @ - 1] ELSE a
      /\ emit_push(t, v) = IF s.rsp - 1 \in Slots THEN [b EXCEPT !.rsp = @ - 1] ELSE b
  BY <1>1 DEF emit_push, emit_map_addr
<1>3. IF s.rsp - 1 \in Slots THEN Alive(a, b) ELSE EndAlike(a, b)
  BY StoreTwin
<1> HIDE DEF a, b
<1>4. CASE s.rsp - 1 \in Slots
  <2>1. Alive(a, b)
    BY <1>3, <1>4
  <2>2. a.rsp - 1 \in Int /\ a.rsp = b.rsp
    BY <2>1, RunParts DEF Alive, Twin
  <2>3. /\ [a EXCEPT !.rsp = @ - 1] = [a EXCEPT !.rsp = a.rsp - 1]
        /\ [b EXCEPT !.rsp = @ - 1] = [b EXCEPT !.rsp = a.rsp - 1]
    BY <2>2
  <2>4. Alive([a EXCEPT !.rsp = a.rsp - 1], [b EXCEPT !.rsp = a.rsp - 1])
    BY <2>1, <2>2, SetTwin
  <2>5. QED  BY <1>2, <1>4, <2>3, <2>4 DEF Alike
<1>5. CASE s.rsp - 1 \notin Slots
  BY <1>2, <1>3, <1>5 DEF Alike
<1>6. QED  BY <1>4, <1>5

\* Pops
LEMMA PopTwin ==
    ASSUME NEW s, NEW t, Alive(s, t)
    PROVE  Alike(emit_pop(s), emit_pop(t))
<1> DEFINE a == [s EXCEPT !.rsp = s.rsp + 1]
           b == [t EXCEPT !.rsp = s.rsp + 1]
<1>1. s.rsp = t.rsp /\ s.rsp + 1 \in Int
  BY RunParts DEF Alive, Twin
<1>2. emit_pop(s) = emit_load(a, s.rsp) /\ emit_pop(t) = emit_load(b, s.rsp)
  BY <1>1 DEF emit_pop
<1>3. Alive(a, b)
  BY <1>1, SetTwin
<1> HIDE DEF a, b
<1>4. QED  BY <1>2, <1>3, LoadTwin

\* Divisions
LEMMA DivTwin ==
    ASSUME NEW s, NEW t, Alive(s, t)
    PROVE  Alike(emit_reg_div(s), emit_reg_div(t))
<1>1. s.rax = t.rax /\ Twin(s, t)
  BY DEF Alive, Twin
<1>2. "SIGFPE" \in ErrorCode \ {"NORMAL"}
  BY DEF ErrorCode
<1>3. QED  BY <1>1, <1>2, TrapTwin, AdvanceTwin DEF emit_reg_div, Alike

\* Jumps count the same and lead to the same line.
LEMMA JumpTwin ==
    ASSUME NEW s, NEW t, Alive(s, t), NEW taken, NEW line \in Line
    PROVE  Alike(emit_jump(s, taken, line), emit_jump(t, taken, line))
<1> DEFINE left == (s.jumps - 1) % Word
           a == [s EXCEPT !.jumps = left]
           b == [t EXCEPT !.jumps = left]
           c == [a EXCEPT !.line = line]
           d == [b EXCEPT !.line = line]
<1>1. s.jumps = t.jumps /\ s.jumps \in Int
  BY RunParts, SandboxAssumption DEF Alive, Twin
<1>2. left \in 0..(Word - 1)
  BY <1>1, SandboxAssumption
<1>3. /\ emit_jump(s, taken, line) =
           IF left = 0 THEN emit_signal_trap(a, "EXCEEDED_MAX_JUMPS")
           ELSE IF taken THEN c ELSE Advance(a)
      /\ emit_jump(t, taken, line) =
           IF left = 0 THEN emit_signal_trap(b, "EXCEEDED_MAX_JUMPS")
           ELSE IF taken THEN d ELSE Advance(b)
  BY <1>1 DEF emit_jump
<1> HIDE DEF left
<1>4. Alive(a, b)
  BY <1>2, SetTwin
<1>5. Alive(c, d)
  <2> HIDE DEF a, b
  <2>1. QED  BY <1>4, SetTwin
<1> HIDE DEF a, b, c, d
<1>6. "EXCEEDED_MAX_JUMPS" \in ErrorCode \ {"NORMAL"}
  BY DEF ErrorCode
<1>7. EndAlike(emit_signal_trap(a, "EXCEEDED_MAX_JUMPS"), emit_signal_trap(b, "EXCEEDED_MAX_JUMPS"))
  BY <1>4, <1>6, TrapTwin DEF Alive
<1>8. Alive(Advance(a), Advance(b))
  BY <1>4, AdvanceTwin
<1>9. QED  BY <1>3, <1>5, <1>7, <1>8 DEF Alike

\* Calls and returns move both to the same place.
LEMMA PlaceTwin ==
    ASSUME NEW s, NEW t, Alive(s, t),
           NEW l \in Label, NEW line \in Line, NEW fs \in Seq(Label \X Line)
    PROVE  Alive([s EXCEPT !.f = l, !.line = line, !.frames = fs],
                 [t EXCEPT !.f = l, !.line = line, !.frames = fs])
  BY DEF Alive, Twin, RunState

\* Calls
LEMMA CallTwin ==
    ASSUME NEW s, NEW t, Alive(s, t), NEW l \in Label
    PROVE  Alike(emit_call(s, l), emit_call(t, l))
<1> DEFINE point == <<s.f, s.line>>
           a == emit_push(s, hex_offset(point))
           b == emit_push(t, hex_offset(point))
<1>1. point = <<t.f, t.line>> /\ point \in Label \X Line
  BY RunParts DEF Alive, Twin
<1>2. /\ emit_call(s, l) =
           IF a.ended THEN a ELSE [a EXCEPT !.f = l, !.line = 1, !.frames = Append(@, point)]
      /\ emit_call(t, l) =
           IF b.ended THEN b ELSE [b EXCEPT !.f = l, !.line = 1, !.frames = Append(@, point)]
  BY <1>1 DEF emit_call
<1> HIDE DEF point
<1>3. Alike(a, b)
  BY <1>1, HexOffsetType, PushTwin
<1> HIDE DEF a, b
<1>4. CASE EndAlike(a, b)
  BY <1>2, <1>4 DEF EndAlike, Alike
<1>5. CASE Alive(a, b)
  <2> DEFINE fs == Append(a.frames, point)
  <2>1. a.frames = b.frames /\ fs \in Seq(Label \X Line) /\ ~a.ended /\ ~b.ended
    BY <1>1, <1>5, RunParts DEF Alive, Twin
  <2>2. /\ [a EXCEPT !.f = l, !.line = 1, !.frames = Append(@, point)]
             = [a EXCEPT !.f = l, !.line = 1, !.frames = fs]
        /\ [b EXCEPT !.f = l, !.line = 1, !.frames = Append(@, point)]
             = [b EXCEPT !.f = l, !.line = 1, !.frames = fs]
    BY <2>1
  <2> HIDE DEF fs
  <2>3. 1 \in Line
    BY DEF Line
  <2>4. Alive([a EXCEPT !.f = l, !.line = 1, !.frames = fs],
              [b EXCEPT !.f = l, !.line = 1, !.frames = fs])
    BY <1>5, <2>1, <2>3, PlaceTwin
  <2>5. /\ emit_call(s, l) = [a EXCEPT !.f = l, !.line = 1, !.frames = fs]
        /\ emit_call(t, l) = [b EXCEPT !.f = l, !.line = 1, !.frames = fs]
    BY <1>2, <2>1, <2>2
  <2>6. QED  BY <2>4, <2>5 DEF Alike
<1>6. QED  BY <1>3, <1>4, <1>5 DEF Alike

\* Behind calls
LEMMA ResumeTwin ==
    ASSUME NEW s, NEW t, Alive(s, t), s.frames # <<>>
    PROVE  Alike(Resume(s), Resume(t))
<1> DEFINE top == Top(s.frames)
           fs == Below(s.frames)
           a == [s EXCEPT !.f = top[1], !.line = top[2], !.frames = fs]
           b == [t EXCEPT !.f = top[1], !.line = top[2], !.frames = fs]
           p == emit_pop(a)
           q == emit_pop(b)
<1>1. /\ s.frames = t.frames /\ s.rax = t.rax /\ s.rax \in Nat
      /\ top \in Label \X Line /\ fs \in Seq(Label \X Line)
  BY RunParts, BelowType DEF Alive, Twin
<1>2. /\ Resume(s) = IF p.ended THEN p
                     ELSE IF StackCheck /\ p.rax # hex_offset(top)
                          THEN emit_signal_trap(p, "STACK_SMASH")
                          ELSE [p EXCEPT !.rax = s.rax]
      /\ Resume(t) = IF q.ended THEN q
                     ELSE IF StackCheck /\ q.rax # hex_offset(top)
                          THEN emit_signal_trap(q, "STACK_SMASH")
                          ELSE [q EXCEPT !.rax = s.rax]
  <2>1. /\ [s EXCEPT !.f = top[1], !.line = top[2], !.frames = SubSeq(@, 1, Len(@) - 1)] = a
        /\ [t EXCEPT !.f = top[1], !.line = top[2], !.frames = SubSeq(@, 1, Len(@) - 1)] = b
    BY <1>1 DEF Below
  <2>2. s.frames[Len(s.frames)] = top /\ t.frames[Len(t.frames)] = top
    BY <1>1 DEF Top
  <2> HIDE DEF a, b, top, fs
  <2>3. QED  BY <1>1, <2>1, <2>2 DEF Resume
<1> HIDE DEF top, fs
<1>3. Alive(a, b)
  BY <1>1, PlaceTwin
<1> HIDE DEF a, b
<1>4. Alike(p, q)
  BY <1>3, PopTwin
<1> HIDE DEF p, q
<1>5. CASE EndAlike(p, q)
  BY <1>2, <1>5 DEF EndAlike, Alike
<1>6. CASE Alive(p, q)
  <2>1. ~p.ended /\ ~q.ended /\ p.rax = q.rax /\ Twin(p, q)
    BY <1>6 DEF Alive, Twin
  <2>2. "STACK_SMASH" \in ErrorCode \ {"NORMAL"}
    BY DEF ErrorCode
  <2>3. EndAlike(emit_signal_trap(p, "STACK_SMASH"), emit_signal_trap(q, "STACK_SMASH"))
    BY <2>1, <2>2, TrapTwin
  <2>4. Alive([p EXCEPT !.rax = s.rax], [q EXCEPT !.rax = s.rax])
    BY <1>1, <1>6, SetTwin
  <2>5. QED  BY <1>2, <2>1, <2>3, <2>4 DEF Alike
<1>7. QED  BY <1>4, <1>5, <1>6 DEF Alike

\* cpu2out writes the same into both outputs; only the codes may still differ.
LEMMA Cpu2StateTwin ==
    ASSUME NEW s, NEW t, Alive(s, t)
    PROVE  /\ Alive(emit_cpu2state(s), emit_cpu2state(t))
           /\ [emit_cpu2state(s).out EXCEPT !.code = "NORMAL"]
                = [emit_cpu2state(t).out EXCEPT !.code = "NORMAL"]
<1>1. Alive(emit_cpu2state(s), emit_cpu2state(t))
  BY DEF Alive, Twin, RunState, CpuState, emit_cpu2state
<1>2. [emit_cpu2state(s).out EXCEPT !.code = "NORMAL"]
        = [emit_cpu2state(t).out EXCEPT !.code = "NORMAL"]
  BY DEF Alive, Twin, RunState, CpuState, emit_cpu2state
<1>3. QED  BY <1>1, <1>2

\* Returns: to the callers, or to the harness, which reads the registers
LEMMA RetTwin ==
    ASSUME NEW s, NEW t, Alive(s, t)
    PROVE  Alike(emit_ret(s), emit_ret(t))
<1>1. s.frames = t.frames
  BY DEF Alive, Twin
<1>2. CASE s.frames # <<>>
  BY <1>1, <1>2, ResumeTwin DEF emit_ret
<1>3. CASE s.frames = <<>>
  <2> DEFINE a == emit_cpu2state(s)
             b == emit_cpu2state(t)
  <2>1. Alive(a, b) /\ [a.out EXCEPT !.code = "NORMAL"] = [b.out EXCEPT !.code = "NORMAL"]
    BY Cpu2StateTwin
  <2>2. /\ emit_ret(s) = [a EXCEPT !.ended = TRUE, !.out.code = "NORMAL"]
        /\ emit_ret(t) = [b EXCEPT !.ended = TRUE, !.out.code = "NORMAL"]
    BY <1>1, <1>3 DEF emit_ret
  <2> HIDE DEF a, b
  <2> DEFINE End(r) == [r EXCEPT !.ended = TRUE, !.out.code = "NORMAL"]
  <2>3. ASSUME NEW r \in RunState
        PROVE  /\ End(r) \in RunState /\ End(r).ended
               /\ End(r).out = [r.out EXCEPT !.code = "NORMAL"]
    BY DEF RunState, CpuState, ErrorCode
  <2>4. a \in RunState /\ b \in RunState
    BY <2>1 DEF Alive, Twin
  <2>5. emit_ret(s) = End(a) /\ emit_ret(t) = End(b)
    BY <2>2
  <2> HIDE DEF End
  <2>6. EndAlike(End(a), End(b))
    BY <2>1, <2>3, <2>4 DEF EndAlike
  <2>7. QED  BY <2>5, <2>6 DEF Alike
<1>4. QED  BY <1>2, <1>3

\* An instruction
LEMMA InstructionTwin ==
    ASSUME NEW s, NEW t, Alive(s, t), NEW instr \in Instr
    PROVE  Alike(emit_instruction(s, instr), emit_instruction(t, instr))
<1> DEFINE r == emit_instruction(s, instr)
           q == emit_instruction(t, instr)
           k == instr.kind
<1>1. k \in {"rax", "rbx", "load", "store", "div", "push", "pop", "jmp", "jne", "call", "ret",
             "ill"}
  BY DEF Instr
<1>2. /\ k = "call" => instr.arg \in Label
      /\ k \in {"rax", "rbx"} => instr.arg \in Nat
      /\ k \in {"jmp", "jne"} => instr.arg \in Line
  BY DEF Instr, Line
<1>3. s.rax = t.rax /\ s.rsp = t.rsp /\ s.rax \in Nat /\ Twin(s, t)
  BY RunParts DEF Alive, Twin
<1>4. CASE k = "rax"
  <2> DEFINE a == [s EXCEPT !.rax = instr.arg]
             b == [t EXCEPT !.rax = instr.arg]
  <2>1. r = Advance(a) /\ q = Advance(b)
    BY <1>4 DEF emit_instruction
  <2>2. Alive(a, b)
    BY <1>2, <1>4, SetTwin
  <2> HIDE DEF a, b, r, q
  <2>3. Alike(r, q)
    BY <2>1, <2>2, AdvanceTwin DEF Alike
  <2>4. QED  BY <2>3 DEF r, q
<1>5. CASE k = "rbx"
  <2> DEFINE a == [s EXCEPT !.rbx = instr.arg]
             b == [t EXCEPT !.rbx = instr.arg]
  <2>1. r = Advance(a) /\ q = Advance(b)
    BY <1>5 DEF emit_instruction
  <2>2. Alive(a, b)
    BY <1>2, <1>5, SetTwin
  <2> HIDE DEF a, b, r, q
  <2>3. Alike(r, q)
    BY <2>1, <2>2, AdvanceTwin DEF Alike
  <2>4. QED  BY <2>3 DEF r, q
<1>6. CASE k = "load"
  <2>1. r = emit_load(s, s.rsp + instr.arg) /\ q = emit_load(t, s.rsp + instr.arg)
    BY <1>3, <1>6 DEF emit_instruction
  <2> HIDE DEF r, q
  <2>2. Alike(r, q)
    BY <2>1, LoadTwin
  <2>3. QED  BY <2>2 DEF r, q
<1>7. CASE k = "store"
  <2>1. r = emit_store(s, s.rsp + instr.arg, s.rax) /\ q = emit_store(t, s.rsp + instr.arg, s.rax)
    BY <1>3, <1>7 DEF emit_instruction
  <2> HIDE DEF r, q
  <2>2. Alike(r, q)
    BY <1>3, <2>1, StoreTwin DEF Alike
  <2>3. QED  BY <2>2 DEF r, q
<1>8. CASE k = "div"
  <2>1. r = emit_reg_div(s) /\ q = emit_reg_div(t)
    BY <1>8 DEF emit_instruction
  <2> HIDE DEF r, q
  <2>2. Alike(r, q)
    BY <2>1, DivTwin
  <2>3. QED  BY <2>2 DEF r, q
<1>9. CASE k = "push"
  <2>1. r = emit_push(s, s.rax) /\ q = emit_push(t, s.rax)
    BY <1>3, <1>9 DEF emit_instruction
  <2> HIDE DEF r, q
  <2>2. Alike(r, q)
    BY <1>3, <2>1, PushTwin
  <2>3. QED  BY <2>2 DEF r, q
<1>10. CASE k = "pop"
  <2>1. r = emit_pop(s) /\ q = emit_pop(t)
    BY <1>10 DEF emit_instruction
  <2> HIDE DEF r, q
  <2>2. Alike(r, q)
    BY <2>1, PopTwin
  <2>3. QED  BY <2>2 DEF r, q
<1>11. CASE k \in {"jmp", "jne"}
  <2> DEFINE taken == IF k = "jmp" THEN TRUE ELSE s.rax # 0
  <2>1. r = emit_jump(s, taken, instr.arg) /\ q = emit_jump(t, taken, instr.arg)
    BY <1>3, <1>11 DEF emit_instruction
  <2> HIDE DEF r, q, taken
  <2>2. Alike(r, q)
    BY <1>2, <1>11, <2>1, JumpTwin
  <2>3. QED  BY <2>2 DEF r, q
<1>12. CASE k = "call"
  <2>1. r = emit_call(s, instr.arg) /\ q = emit_call(t, instr.arg)
    BY <1>12 DEF emit_instruction
  <2> HIDE DEF r, q
  <2>2. Alike(r, q)
    BY <1>2, <1>12, <2>1, CallTwin
  <2>3. QED  BY <2>2 DEF r, q
<1>13. CASE k = "ret"
  <2>1. r = emit_ret(s) /\ q = emit_ret(t)
    BY <1>13 DEF emit_instruction
  <2> HIDE DEF r, q
  <2>2. Alike(r, q)
    BY <2>1, RetTwin
  <2>3. QED  BY <2>2 DEF r, q
<1>14. CASE k = "ill"
  <2>1. r = emit_signal_trap(s, "SIGILL") /\ q = emit_signal_trap(t, "SIGILL")
    BY <1>14 DEF emit_instruction
  <2>2. "SIGILL" \in ErrorCode \ {"NORMAL"}
    BY DEF ErrorCode
  <2> HIDE DEF r, q
  <2>3. Alike(r, q)
    BY <1>3, <2>1, <2>2, TrapTwin DEF Alike
  <2>4. QED  BY <2>3 DEF r, q
<1>15. QED
  BY <1>1, <1>4, <1>5, <1>6, <1>7, <1>8, <1>9, <1>10, <1>11, <1>12, <1>13, <1>14

\* A step of both runs keeps them alike: nothing reads the output's registers.
LEMMA FunctionTwin ==
    ASSUME FunctionTables, NEW s, NEW t, Alive(s, t)
    PROVE  Alike(emit_function(s), emit_function(t))
<1> DEFINE code == fxns[s.f].code
           a == emit_before(s)
           b == emit_before(t)
           r == emit_function(s)
           q == emit_function(t)
<1>1. s.f = t.f /\ s.line = t.line /\ Twin(s, t) /\ s \in RunState
  BY DEF Alive, Twin
<1>2. s.f \in Label /\ s.line \in Nat /\ s.line >= 1 /\ code \in Seq(Instr) /\ Len(code) \in Nat
  BY <1>1, RunParts DEF FunctionTables
<1>3. CASE s.line > Len(code)
  <2>1. r = emit_signal_trap(s, "NO_RETURN") /\ q = emit_signal_trap(t, "NO_RETURN")
    BY <1>1, <1>3 DEF emit_function
  <2>2. "NO_RETURN" \in ErrorCode \ {"NORMAL"}
    BY DEF ErrorCode
  <2> HIDE DEF r, q
  <2>3. Alike(r, q)
    BY <1>1, <2>1, <2>2, TrapTwin DEF Alike
  <2>4. QED  BY <2>3 DEF r, q
<1>4. CASE ~(s.line > Len(code))
  <2> DEFINE instr == code[s.line]
  <2>1. instr \in Instr
    BY <1>2, <1>4
  <2>2. Alive(a, b)
    BY <1>1, Cpu2StateTwin DEF emit_before
  <2>3. r = emit_instruction(a, instr) /\ q = emit_instruction(b, instr)
    BY <1>1, <1>4 DEF emit_function
  <2> HIDE DEF a, b, instr, r, q
  <2>4. Alike(r, q)
    BY <2>1, <2>2, <2>3, InstructionTwin
  <2>5. QED  BY <2>4 DEF r, q
<1>5. QED  BY <1>3, <1>4

\* The runs that end with the output o: the least set that has the run that ended with o, and
\* with a run also the one that is a step before.
Before(o, C) ==
    \A s \in RunState : (IF s.ended THEN s.out = o ELSE emit_function(s) \in C) => s \in C

EndsWith(o) == {s \in RunState : \A C \in SUBSET RunState : Before(o, C) => s \in C}

\* A run that ended, ended with its output; any other ends with what the next state of it
\* ends with.
LEMMA EndsWithStep ==
    ASSUME FunctionTables, NEW s \in RunState, NEW o
    PROVE  s \in EndsWith(o) <=> IF s.ended THEN s.out = o ELSE emit_function(s) \in EndsWith(o)
<1> DEFINE L == EndsWith(o)
           P(u) == IF u.ended THEN u.out = o ELSE emit_function(u) \in L
<1>1. ASSUME NEW u \in RunState, P(u) PROVE u \in L
  <2>1. ASSUME NEW C \in SUBSET RunState, Before(o, C) PROVE u \in C
    <3>1. ~u.ended => emit_function(u) \in C
      BY <1>1, <2>1 DEF EndsWith
    <3>2. QED  BY <1>1, <2>1, <3>1 DEF Before
  <2>2. QED  BY <2>1 DEF EndsWith
<1>2. ASSUME s \in L, ~P(s) PROVE FALSE
  <2> DEFINE C == L \ {s}
  <2>1. C \in SUBSET RunState
    BY DEF EndsWith
  <2>2. Before(o, C)
    <3> SUFFICES ASSUME NEW u \in RunState, IF u.ended THEN u.out = o ELSE emit_function(u) \in C
                 PROVE  u \in C
      BY DEF Before
    <3>1. P(u)
      OBVIOUS
    <3> HIDE DEF P, L
    <3>2. u \in L /\ u # s
      BY <1>1, <1>2, <3>1
    <3>3. QED  BY <3>2
  <2>3. s \in C
    BY <1>2, <2>1, <2>2 DEF EndsWith
  <2>4. QED  BY <2>3
<1>3. QED  BY <1>1, <1>2

\* Result's equation has a solution: the output a run ends with, and anything for one that does
\* not end.
LEMMA ResultIs ==
    ASSUME FunctionTables
    PROVE  \A s \in RunState : Result[s] = IF s.ended THEN s.out ELSE Result[emit_function(s)]
<1> DEFINE Is(g) == g = [s \in RunState |-> IF s.ended THEN s.out ELSE g[emit_function(s)]]
           f == [s \in RunState |-> CHOOSE o : s \in EndsWith(o)]
<1>1. ASSUME NEW s \in RunState
      PROVE  f[s] = IF s.ended THEN s.out ELSE f[emit_function(s)]
  <2>1. CASE s.ended
    <3>1. \A o : s \in EndsWith(o) <=> o = s.out
      BY <2>1, EndsWithStep
    <3>2. (CHOOSE o : s \in EndsWith(o)) = s.out
      BY <3>1
    <3>3. QED  BY <2>1, <3>2
  <2>2. CASE ~s.ended
    <3> DEFINE r == emit_function(s)
    <3>1. \A o : s \in EndsWith(o) <=> r \in EndsWith(o)
      BY <2>2, EndsWithStep
    <3>2. r \in RunState
      BY <2>2, RunParts, StepType
    <3> HIDE DEF r
    <3>3. (CHOOSE o : s \in EndsWith(o)) = (CHOOSE o : r \in EndsWith(o))
      BY <3>1
    <3>4. f[s] = f[r]
      BY <3>2, <3>3
    <3>5. QED  BY <2>2, <3>4 DEF r
  <2>3. QED  BY <2>1, <2>2
<1>2. Is(f)
  <2> DEFINE h == [s \in RunState |-> IF s.ended THEN s.out ELSE f[emit_function(s)]]
  <2>1. f = [s \in RunState |-> f[s]]
    OBVIOUS
  <2> HIDE DEF f
  <2>2. f = h
    BY <1>1, <2>1
  <2>3. QED  BY <2>2
<1>3. Result = CHOOSE g : Is(g)
  BY DEF Result
<1> HIDE DEF f
<1>4. \E g : Is(g)
  BY <1>2
<1>5. Is(Result)
  <2> HIDE DEF Is
  <2>1. QED  BY <1>3, <1>4
<1>6. QED  BY <1>5

\* A run that is in the state a comes to the state t.
ComesTo(a, t) ==
    \A C \in SUBSET RunState :
      a \in C /\ (\A s \in C : ~s.ended => emit_function(s) \in C) => t \in C

\* What it comes to has its result.
LEMMA ResultKept ==
    ASSUME FunctionTables, NEW a \in RunState, NEW t, ComesTo(a, t)
    PROVE  t \in RunState /\ Result[t] = Result[a]
<1> DEFINE C == {s \in RunState : Result[s] = Result[a]}
<1>1. ASSUME NEW s \in C, ~s.ended PROVE emit_function(s) \in C
  <2>1. emit_function(s) \in RunState
    BY <1>1, RunParts, StepType
  <2>2. Result[emit_function(s)] = Result[s]
    BY <1>1, ResultIs
  <2>3. QED  BY <2>1, <2>2
<1>2. a \in C /\ C \in SUBSET RunState
  OBVIOUS
<1>3. t \in C
  <2> HIDE DEF C
  <2>1. QED  BY <1>1, <1>2 DEF ComesTo
<1>4. QED  BY <1>3

\* The run under way is alike to one in a new sandbox: the sandbox links, and a run that begins
\* with the input as its output has come to a state in which it does the same from here on.
RepeatInv ==
    Running =>
      LET in == io_pairs[run.index].in
      IN  /\ lnkr_good /\ main_fxn \in Label
          /\ \E t : Alive(run.s, t) /\ ComesTo(Start(in, in, 0), t)

\* What a run comes to depends on the functions only, which stay as they are while it runs.
LEMMA RepeatKept ==
    ASSUME NEW in, NEW t, io_pairs'[run'.index].in = in, lnkr_good', main_fxn \in Label,
           UNCHANGED <<fxns, main_fxn>>, Alive(run'.s, t), ComesTo(Start(in, in, 0), t)
    PROVE  RepeatInv'
<1> DEFINE a == Start(in, in, 0)
<1>1. \A s : emit_function(s)' = emit_function(s)
  BY DEF emit_function, emit_before
<1>2. ComesTo(a, t)'
  <2>1. a' = a
    BY DEF Start
  <2> HIDE DEF a
  <2>2. QED  BY <1>1, <2>1 DEF ComesTo, a
<1>3. QED  BY <1>2 DEF RepeatInv

\* A run does the same as in a new sandbox from its first instruction on.
LEMMA BeginRepeat ==
    ASSUME SandboxInv, NEW i \in 1..Len(io_pairs), Begin(i)
    PROVE  RepeatInv'
<1> DEFINE in == io_pairs[i].in
           out == io_pairs[i].out
           s == Start(in, out, jumps_remaining)
           t == Start(in, in, 0)
<1>1. in \in CpuState /\ out \in CpuState /\ main_fxn \in Label
  BY IoType DEF SandboxInv, TypeOK, Begin, Inserted
<1>2. CASE ~lnkr_good
  <2>1. ~Running'
    BY <1>2 DEF Begin, Running
  <2>2. QED  BY <2>1 DEF RepeatInv
<1>3. CASE lnkr_good
  <2>1. /\ run' = [index |-> i, s |-> s] /\ io_pairs' = io_pairs
        /\ UNCHANGED <<fxns, main_fxn, lnkr_good>>
    BY <1>3 DEF Begin
  <2>2. Alive(s, t)
    <3>1. s \in RunState /\ t \in RunState
      BY <1>1, StartType
    <3>2. /\ s.f = t.f /\ s.line = t.line /\ s.rax = t.rax /\ s.rbx = t.rbx /\ s.rsp = t.rsp
          /\ s.frames = t.frames /\ s.jumps = t.jumps /\ s.ended = t.ended /\ ~s.ended
      BY DEF Start
    <3>3. s.out = [out EXCEPT !.stack = in.stack] /\ t.out = [in EXCEPT !.stack = in.stack]
      BY DEF Start
    <3> HIDE DEF s, t
    <3>4. s.out.stack = t.out.stack
      BY <1>1, <3>3 DEF CpuState
    <3>5. QED  BY <3>1, <3>2, <3>4 DEF Alive, Twin
  <2> HIDE DEF s, in
  <2>3. run'.s = s /\ io_pairs'[run'.index].in = in
    BY <2>1 DEF in
  <2>4. ComesTo(t, t)
    BY DEF ComesTo
  <2>5. QED  BY <1>1, <1>3, <2>1, <2>2, <2>3, <2>4, RepeatKept
<1>4. QED  BY <1>2, <1>3

\* One instruction: the run goes on as the one in a new sandbox does, or both end.
LEMMA StepRepeat ==
    ASSUME SandboxInv, RepeatInv, Step
    PROVE  LET s  == emit_function(run.s)
               in == io_pairs[run.index].in
           IN  IF s.ended THEN \E t : EndAlike(s, t) /\ ComesTo(Start(in, in, 0), t)
               ELSE RepeatInv'
<1> DEFINE s == emit_function(run.s)
           in == io_pairs[run.index].in
           a == Start(in, in, 0)
<1>1. FunctionTables /\ lnkr_good /\ main_fxn \in Label
  BY DEF SandboxInv, RepeatInv, Step
<1>2. PICK u : Alive(run.s, u) /\ ComesTo(a, u)
  BY DEF RepeatInv, Step
<1> DEFINE t == emit_function(u)
<1>3. Alike(s, t)
  BY <1>1, <1>2, FunctionTwin
<1>4. ComesTo(a, t)
  <2>1. ~u.ended
    BY <1>2 DEF Alive, Twin
  <2> HIDE DEF a
  <2>2. QED  BY <1>2, <2>1 DEF ComesTo
<1>5. CASE s.ended
  <2>1. EndAlike(s, t)
    BY <1>3, <1>5 DEF Alike, Alive
  <2>2. QED  BY <1>4, <1>5, <2>1
<1>6. CASE ~s.ended
  <2>1. Alive(s, t)
    BY <1>3, <1>6 DEF Alike, EndAlike
  <2>2. /\ run' = [index |-> run.index, s |-> s] /\ io_pairs' = io_pairs
        /\ UNCHANGED <<fxns, main_fxn, lnkr_good>>
    BY <1>6 DEF Step
  <2> HIDE DEF s, t, in
  <2>3. run'.s = s /\ io_pairs'[run'.index].in = in
    BY <2>2 DEF in
  <2>4. RepeatInv'
    BY <1>1, <1>4, <2>1, <2>2, <2>3, RepeatKept
  <2>5. QED  BY <1>6, <2>4 DEF s
<1>7. QED  BY <1>5, <1>6

\* The invariant is kept.
LEMMA RepeatInvNext ==
    ASSUME SandboxInv, RepeatInv, [Next]_vars
    PROVE  RepeatInv'
<1>1. CASE UNCHANGED vars
  BY <1>1 DEF vars, RepeatInv, Running, ComesTo, Start, emit_function, emit_before
<1>2. CASE ~Running'
  BY <1>2 DEF RepeatInv
<1>3. ASSUME NEW i \in 1..Len(io_pairs), Begin(i) PROVE RepeatInv'
  BY <1>3, BeginRepeat
<1>4. CASE Step
  <2>1. CASE emit_function(run.s).ended
    <3>1. ~Running'
      BY <1>4, <2>1 DEF Step, Running
    <3>2. QED  BY <1>2, <3>1
  <2>2. CASE ~emit_function(run.s).ended
    BY <1>4, <2>2, StepRepeat
  <2>3. QED  BY <2>1, <2>2
<1>5. CASE \/ \E l \in Label : \E code \in Bodies[l], entry \in BOOLEAN :
                insert_function(l, code, entry)
           \/ clear_functions \/ insert_before \/ clear_callbacks
           \/ \E in \in Inputs : insert_input(in)
           \/ clear_inputs
  <2>1. ~Running'
    BY <1>5 DEF insert_function, clear_functions, insert_before, clear_callbacks, insert_input,
                clear_inputs, Running
  <2>2. QED  BY <1>2, <2>1
<1>6. QED  BY <1>1, <1>3, <1>4, <1>5 DEF Next

\* The step that ends a run leaves what a run in a new sandbox leaves, up to check_abi.
LEMMA EndRepeats ==
    ASSUME SandboxInv, RepeatInv, [Next]_vars, NEW i \in 1..Len(io_pairs), Ends(i)
    PROVE  LET in == io_pairs[i].in
           IN  \E s, t : /\ EndAlike(s, t)
                         /\ io_pairs'[i].out = Finalize(in, s.out)
                         /\ Fresh(in) = Finalize(in, t.out)
<1> DEFINE s == emit_function(run.s)
           in == io_pairs[i].in
           a == Start(in, in, 0)
<1>1. run # Idle /\ run.index = i /\ run' = Idle
  BY DEF Ends
<1>2. Step
  <2>1. Running /\ run' # run
    BY <1>1 DEF Running
  <2>2. QED
    BY <2>1 DEF Next, vars, insert_function, clear_functions, insert_before, clear_callbacks,
                insert_input, clear_inputs, Begin
<1>3. s.ended
  BY <1>1, <1>2 DEF Step, Idle
<1>4. PICK t : EndAlike(s, t) /\ ComesTo(a, t)
  BY <1>1, <1>2, <1>3, StepRepeat
<1>5. /\ FunctionTables /\ in \in CpuState /\ main_fxn \in Label /\ lnkr_good
      /\ io_pairs \in Seq(IoPair)
  BY <1>1, IoType DEF SandboxInv, RepeatInv, Running
<1>6. Fresh(in) = Finalize(in, t.out)
  <2>1. a \in RunState
    BY <1>5, StartType
  <2>2. t \in RunState /\ Result[t] = Result[a]
    <3> HIDE DEF a
    <3>1. QED  BY <1>4, <1>5, <2>1, ResultKept
  <2>3. Result[t] = t.out
    BY <1>4, <1>5, <2>2, ResultIs DEF EndAlike
  <2>4. QED  BY <1>5, <2>2, <2>3 DEF Fresh
<1>7. io_pairs'[i].out = Finalize(in, s.out)
  <2>1. io_pairs' = [io_pairs EXCEPT ![i].out = Finalize(in, s.out)]
    BY <1>1, <1>2, <1>3 DEF Step
  <2>2. io_pairs[i] \in IoPair
    BY <1>5, SeqElement
  <2> HIDE DEF s, in
  <2>3. QED  BY <1>5, <2>1, <2>2 DEF IoPair
<1> HIDE DEF s, in
<1>8. QED  BY <1>4, <1>6, <1>7 DEF in

\* The invariant of both theorems holds at first and is kept.
LEMMA RepeatInductive ==
    /\ Init => SandboxInv /\ RepeatInv
    /\ SandboxInv /\ RepeatInv /\ [Next]_vars => (SandboxInv /\ RepeatInv)'
<1>1. Init => RepeatInv
  BY DEF Init, RepeatInv, Running
<1>2. QED  BY <1>1, SandboxInvInit, SandboxInvNext, RepeatInvNext

\* A run ends the way it would in a new sandbox, with the same code and, after a normal end,
\* with the same output, whatever functions, callbacks and runs there were before.  Without
\* abi_check_: that check compares the output's registers, which a run that was cut short has
\* not written.
THEOREM RunsRepeatableHolds ==
    ASSUME AbiCheck = FALSE
    PROVE  Spec => RunsRepeatable
<1> DEFINE Inv == SandboxInv /\ RepeatInv
           Repeats ==
             \A i \in 1..Len(io_pairs) : Ends(i) =>
               LET fresh == Fresh(io_pairs[i].in)
                   out   == io_pairs'[i].out
               IN  /\ out.code = fresh.code
                   /\ fresh.code = "NORMAL" => out = fresh
<1>1. Init => Inv
  BY RepeatInductive
<1>2. Inv /\ [Next]_vars => Inv'
  BY RepeatInductive
<1>3. Inv /\ [Next]_vars => [Repeats]_vars
  <2> SUFFICES ASSUME SandboxInv, RepeatInv, [Next]_vars PROVE Repeats
    OBVIOUS
  <2>1. ASSUME NEW i \in 1..Len(io_pairs), Ends(i)
        PROVE  LET fresh == Fresh(io_pairs[i].in)
                   out   == io_pairs'[i].out
               IN  /\ out.code = fresh.code
                   /\ fresh.code = "NORMAL" => out = fresh
    <3>1. PICK s, t : /\ EndAlike(s, t)
                      /\ io_pairs'[i].out = Finalize(io_pairs[i].in, s.out)
                      /\ Fresh(io_pairs[i].in) = Finalize(io_pairs[i].in, t.out)
      BY <2>1, EndRepeats
    <3>2. io_pairs'[i].out = s.out /\ Fresh(io_pairs[i].in) = t.out
      BY <3>1 DEF Finalize
    <3>3. QED  BY <3>1, <3>2 DEF EndAlike
  <2>2. QED  BY <2>1
<1>4. RunsRepeatable <=> [][Repeats]_vars
  BY DEF RunsRepeatable
<1>5. Spec => [][Repeats]_vars
  <2> HIDE DEF Repeats, Inv
  <2>1. QED  BY <1>1, <1>2, <1>3, PTL DEF Spec
<1>6. QED  BY <1>4, <1>5

\* Whether a run ends normally, and with which output, is the same as in a new sandbox.
NormalRunsRepeatable ==
    [][\A i \in 1..Len(io_pairs) : Ends(i) =>
         LET fresh == Fresh(io_pairs[i].in)
             out   == io_pairs'[i].out
         IN  out.code = "NORMAL" \/ fresh.code = "NORMAL" => out = fresh]_vars

\* With abi_check_ or without, a run ends normally just when it would in a new sandbox, and then
\* with the same output: check_abi turns a normal end into an error for both or for neither.
THEOREM NormalRunsRepeatableHolds == Spec => NormalRunsRepeatable
<1> DEFINE Inv == SandboxInv /\ RepeatInv
           Repeats ==
             \A i \in 1..Len(io_pairs) : Ends(i) =>
               LET fresh == Fresh(io_pairs[i].in)
                   out   == io_pairs'[i].out
               IN  out.code = "NORMAL" \/ fresh.code = "NORMAL" => out = fresh
<1>1. Init => Inv
  BY RepeatInductive
<1>2. Inv /\ [Next]_vars => Inv'
  BY RepeatInductive
<1>3. Inv /\ [Next]_vars => [Repeats]_vars
  <2> SUFFICES ASSUME SandboxInv, RepeatInv, [Next]_vars PROVE Repeats
    OBVIOUS
  <2>1. ASSUME NEW i \in 1..Len(io_pairs), Ends(i)
        PROVE  LET fresh == Fresh(io_pairs[i].in)
                   out   == io_pairs'[i].out
               IN  out.code = "NORMAL" \/ fresh.code = "NORMAL" => out = fresh
    <3>1. PICK s, t : /\ EndAlike(s, t)
                      /\ io_pairs'[i].out = Finalize(io_pairs[i].in, s.out)
                      /\ Fresh(io_pairs[i].in) = Finalize(io_pairs[i].in, t.out)
      BY <2>1, EndRepeats
    <3>2. ASSUME NEW in, NEW out \in CpuState, Finalize(in, out).code = "NORMAL"
          PROVE  out.code = "NORMAL"
      <4>1. [out EXCEPT !.code = "ABI_VIOLATION"].code = "ABI_VIOLATION"
        BY DEF CpuState
      <4>2. QED  BY <3>2, <4>1 DEF Finalize
    <3>3. s.out \in CpuState /\ t.out \in CpuState
      BY <3>1, RunParts DEF EndAlike
    <3>4. s.out.code = "NORMAL" \/ t.out.code = "NORMAL" => s.out = t.out
      BY <3>1 DEF EndAlike
    <3>5. QED  BY <3>1, <3>2, <3>3, <3>4
  <2>2. QED  BY <2>1
<1>4. NormalRunsRepeatable <=> [][Repeats]_vars
  BY DEF NormalRunsRepeatable
<1>5. Spec => [][Repeats]_vars
  <2> HIDE DEF Repeats, Inv
  <2>1. QED  BY <1>1, <1>2, <1>3, PTL DEF Spec
<1>6. QED  BY <1>4, <1>5
=============================================================================
