------------------------------ MODULE Sandbox ------------------------------
(***************************************************************************)
(* The sandbox of src/src/sandbox/sandbox.cc: it keeps test cases (an      *)
(* input and an output state each) and functions, compiles the functions   *)
(* with instrumentation, and runs the entry function on a test case.       *)
(*                                                                         *)
(* A run is modelled one user instruction at a time, together with the     *)
(* code that is emitted around it.  It ends by a return, by a signal trap  *)
(* (which cuts STOKE's stack back to the harness and does not read the     *)
(* registers) or by SIGFPE (siglongjmp).                                   *)
(*                                                                         *)
(* A CpuState is an error code, the registers rax and rbx (which a         *)
(* function has to preserve), rsp, and the stack segment.  The output's    *)
(* memory is what the running code works on; its registers are written     *)
(* only by cpu2out.                                                        *)
(***************************************************************************)
EXTENDS Integers, Sequences

CONSTANTS
    Label,       \* names of functions
    Bodies,      \* Bodies[l]: what may be inserted under the name l; reachable code only
    rip_offset,  \* rip_offset[l]: where l is in the program it was taken from
    Inputs,      \* test cases
    StackSize,   \* slots of the stack segment
    AbiCheck,    \* abi_check_
    StackCheck,  \* stack_check_, set before any function is compiled
    MaxJumps,    \* max_jumps_
    Word,        \* number of values of jumps_remaining_
    MaxInputs    \* bound on the number of test cases

Slots == 1..StackSize

ErrorCode == {"NORMAL", "SIGILL", "SIGFPE", "SIGSEGV", "EXCEEDED_MAX_JUMPS", "LINKER_ERROR",
              "ABI_VIOLATION", "NO_RETURN", "STACK_SMASH"}

CpuState == [code : ErrorCode, rax : Nat, rbx : Nat, rsp : Int, stack : [Slots -> Nat]]

\* The argument is a value or an offset from rsp, the line a jump leads to, or the function
\* that is called.
Instr ==
    [kind : {"rax", "rbx", "load", "store", "div", "push", "pop", "ret", "ill"}, arg : Nat]
      \cup [kind : {"jmp", "jne"}, arg : Nat \ {0}]
      \cup [kind : {"call"}, arg : Label]

ASSUME SandboxAssumption ==
    /\ Bodies \in [Label -> SUBSET (Seq(Instr) \ {<<>>})]
    /\ rip_offset \in [Label -> Nat]
    /\ Inputs \subseteq CpuState
    /\ StackSize \in Nat /\ MaxInputs \in Nat
    /\ Word \in Nat \ {0} /\ MaxJumps \in 0..(Word - 1)
    /\ AbiCheck \in BOOLEAN /\ StackCheck \in BOOLEAN

VARIABLES
    fxns_src,         \* fxns_src_: the source of every function; <<>> for none
    fxns,             \* fxns_: what it was compiled to
    lnkr_good,        \* lnkr_.good()
    main_fxn,         \* main_fxn_, whose address is entrypoint_
    global_before,    \* is there a callback before every instruction?
    io_pairs,         \* io_pairs_
    jumps_remaining,  \* jumps_remaining_
    run               \* the run under way, or Idle

vars == <<fxns_src, fxns, lnkr_good, main_fxn, global_before, io_pairs, jumps_remaining, run>>

Idle == [index |-> 0]

\* main_fxn_ of a new sandbox
NoLabel == "none"

Running == run # Idle

Inserted == {l \in Label : fxns_src[l] # <<>>}

-----------------------------------------------------------------------------
(* Compiling *)

Compiled(code, hook) == [code |-> code, hook |-> hook]

\* The linker finds every function that is called.
Links(src) ==
    \A l \in Label : \A i \in 1..Len(src[l]) :
      src[l][i].kind = "call" => src[src[l][i].arg] # <<>>

\* recompile(): every function that there is
RecompileAll(src, hook) ==
    /\ fxns' = [l \in Label |-> IF src[l] # <<>> THEN Compiled(src[l], hook) ELSE fxns[l]]
    /\ lnkr_good' = IF \E l \in Label : src[l] # <<>> THEN Links(src) ELSE lnkr_good

\* Mutant: a single function does not become the entry by itself.
insert_function_NoEntry(l, code, entry) ==
    /\ ~Running
    /\ fxns_src' = [fxns_src EXCEPT ![l] = code]
    /\ fxns' = [fxns EXCEPT ![l] = Compiled(code, global_before)]
    /\ lnkr_good' = Links(fxns_src')
    /\ main_fxn' = IF entry THEN l ELSE main_fxn
    /\ UNCHANGED <<global_before, io_pairs, jumps_remaining, run>>

\* insert_function() and, if entry, set_entrypoint(), as compile() does
insert_function(l, code, entry) ==
    /\ ~Running
    /\ fxns_src' = [fxns_src EXCEPT ![l] = code]
    /\ fxns' = [fxns EXCEPT ![l] = Compiled(code, global_before)]
    /\ lnkr_good' = Links(fxns_src')
    /\ main_fxn' = IF entry \/ Inserted \subseteq {l} THEN l ELSE main_fxn
    /\ UNCHANGED <<global_before, io_pairs, jumps_remaining, run>>

clear_functions ==
    /\ ~Running
    /\ fxns_src' = [l \in Label |-> <<>>]
    /\ fxns' = [l \in Label |-> Compiled(<<>>, FALSE)]
    /\ UNCHANGED <<lnkr_good, main_fxn, global_before, io_pairs, jumps_remaining, run>>

insert_before ==
    /\ ~Running
    /\ global_before' = TRUE
    /\ RecompileAll(fxns_src, TRUE)
    /\ UNCHANGED <<fxns_src, main_fxn, io_pairs, jumps_remaining, run>>

\* Mutant: the functions keep the calls compiled into them.
clear_callbacks_NotRecompiled ==
    /\ ~Running
    /\ global_before' = FALSE
    /\ UNCHANGED <<fxns_src, fxns, lnkr_good, main_fxn, io_pairs, jumps_remaining, run>>

clear_callbacks ==
    /\ ~Running
    /\ global_before' = FALSE
    /\ RecompileAll(fxns_src, FALSE)
    /\ UNCHANGED <<fxns_src, main_fxn, io_pairs, jumps_remaining, run>>

insert_input(in) ==
    /\ ~Running
    /\ Len(io_pairs) < MaxInputs
    /\ io_pairs' = Append(io_pairs, [in |-> in, out |-> in])
    /\ UNCHANGED <<fxns_src, fxns, lnkr_good, main_fxn, global_before, jumps_remaining, run>>

clear_inputs ==
    /\ ~Running
    /\ io_pairs' = <<>>
    /\ UNCHANGED <<fxns_src, fxns, lnkr_good, main_fxn, global_before, jumps_remaining, run>>

-----------------------------------------------------------------------------
(* One user instruction.  s is a run: where it is (f, line), the cpu's       *)
(* registers, the return points on STOKE's stack (frames), the jump counter, *)
(* the output state, and whether control is back in run().                   *)

\* What emit_signal_trap_call() calls: back to run(); no register is read.
emit_signal_trap(s, ec) == [s EXCEPT !.ended = TRUE, !.out.code = ec]

\* Everything cpu2out writes
emit_cpu2state(s) ==
    [s EXCEPT !.out.rax = s.rax, !.out.rbx = s.rbx, !.out.rsp = s.rsp]

\* The callback sees the state it is given, and leaves it alone.
emit_before(s) == IF fxns[s.f].hook THEN emit_cpu2state(s) ELSE s

Advance(s) == [s EXCEPT !.line = @ + 1]

\* The address is mapped to a slot of the output's memory.
emit_map_addr(addr) == addr \in Slots

emit_load(s, addr) ==
    IF emit_map_addr(addr) THEN Advance([s EXCEPT !.rax = s.out.stack[addr]])
    ELSE emit_signal_trap(s, "SIGSEGV")

emit_store(s, addr, value) ==
    IF emit_map_addr(addr) THEN Advance([s EXCEPT !.out.stack[addr] = value])
    ELSE emit_signal_trap(s, "SIGSEGV")

\* The store comes first, then rsp moves.
emit_push(s, value) ==
    IF emit_map_addr(s.rsp - 1) THEN [emit_store(s, s.rsp - 1, value) EXCEPT !.rsp = @ - 1]
    ELSE emit_store(s, s.rsp - 1, value)

\* rsp moves first.
emit_pop(s) == emit_load([s EXCEPT !.rsp = @ + 1], s.rsp)

emit_reg_div(s) == IF s.rax = 0 THEN emit_signal_trap(s, "SIGFPE") ELSE Advance(s)

\* Mutant: jumps are not counted.
emit_jump_Uncounted(s, taken, line) ==
    IF taken THEN [s EXCEPT !.line = line] ELSE Advance(s)

\* Every jump counts, taken or not; the one that brings the counter to zero traps.
emit_jump(s, taken, line) ==
    LET left == (s.jumps - 1) % Word
    IN  IF left = 0 THEN emit_signal_trap([s EXCEPT !.jumps = left], "EXCEEDED_MAX_JUMPS")
        ELSE IF taken THEN [s EXCEPT !.jumps = left, !.line = line]
             ELSE Advance([s EXCEPT !.jumps = left])

\* The address behind an instruction, in the user's address space
hex_offset(at) == rip_offset[at[1]] + at[2] + 1

\* Mutant: nothing is pushed for a call.
emit_call_NoPush(s, l) ==
    [s EXCEPT !.f = l, !.line = 1, !.frames = Append(@, <<s.f, s.line>>)]

\* The return address goes onto the user's stack, the return point onto STOKE's.
emit_call(s, l) ==
    LET pushed == emit_push(s, hex_offset(<<s.f, s.line>>))
    IN  IF pushed.ended THEN pushed
        ELSE [pushed EXCEPT !.f = l, !.line = 1, !.frames = Append(@, <<s.f, s.line>>)]

\* Behind the call: the user's stack must have the return address on top, and, with the
\* stack check, unchanged.  rax is restored.
Resume(s) ==
    LET top    == s.frames[Len(s.frames)]
        caller == [s EXCEPT !.f = top[1], !.line = top[2],
                            !.frames = SubSeq(@, 1, Len(@) - 1)]
        popped == emit_pop(caller)
    IN  IF popped.ended THEN popped
        ELSE IF StackCheck /\ popped.rax # hex_offset(top)
             THEN emit_signal_trap(popped, "STACK_SMASH")
             ELSE [popped EXCEPT !.rax = s.rax]

\* Back to the caller or, from the entry function, to the harness
emit_ret(s) ==
    IF s.frames # <<>> THEN Resume(s)
    ELSE [emit_cpu2state(s) EXCEPT !.ended = TRUE, !.out.code = "NORMAL"]

emit_instruction(s, instr) ==
    CASE instr.kind = "rax"   -> Advance([s EXCEPT !.rax = instr.arg])
      [] instr.kind = "rbx"   -> Advance([s EXCEPT !.rbx = instr.arg])
      [] instr.kind = "load"  -> emit_load(s, s.rsp + instr.arg)
      [] instr.kind = "store" -> emit_store(s, s.rsp + instr.arg, s.rax)
      [] instr.kind = "div"   -> emit_reg_div(s)
      [] instr.kind = "push"  -> emit_push(s, s.rax)
      [] instr.kind = "pop"   -> emit_pop(s)
      [] instr.kind = "jmp"   -> emit_jump(s, TRUE, instr.arg)
      [] instr.kind = "jne"   -> emit_jump(s, s.rax # 0, instr.arg)
      [] instr.kind = "call"  -> emit_call(s, instr.arg)
      [] instr.kind = "ret"   -> emit_ret(s)
      [] instr.kind = "ill"   -> emit_signal_trap(s, "SIGILL")

\* Run-away code is caught at the end of the function.
emit_function(s) ==
    IF s.line > Len(fxns[s.f].code) THEN emit_signal_trap(s, "NO_RETURN")
    ELSE emit_instruction(emit_before(s), fxns[s.f].code[s.line])

-----------------------------------------------------------------------------
(* Sandbox::run(index) *)

\* Mutant: the output keeps its memory.
Start_KeepsMemory(in, out, left) ==
    [f |-> main_fxn, line |-> 1, rax |-> in.rax, rbx |-> in.rbx, rsp |-> in.rsp,
     frames |-> <<>>, jumps |-> MaxJumps, out |-> out, ended |-> FALSE]

\* Memory is copied and the jump counter reset; the output's registers are not touched.
\* left is what the last run left of the counter.
Start(in, out, left) ==
    [f |-> main_fxn, line |-> 1, rax |-> in.rax, rbx |-> in.rbx, rsp |-> in.rsp,
     frames |-> <<>>, jumps |-> MaxJumps, out |-> [out EXCEPT !.stack = in.stack],
     ended |-> FALSE]

check_abi(in, out) == in.rbx = out.rbx /\ in.rsp = out.rsp

Finalize(in, out) ==
    IF AbiCheck /\ ~check_abi(in, out) THEN [out EXCEPT !.code = "ABI_VIOLATION"] ELSE out

Begin(i) ==
    LET io == io_pairs[i]
        s  == Start(io.in, io.out, jumps_remaining)
    IN  /\ ~Running
        /\ Inserted # {}
        /\ io.in.code = "NORMAL"
        /\ IF lnkr_good
           THEN /\ run' = [index |-> i, s |-> s]
                /\ UNCHANGED io_pairs
           ELSE /\ io_pairs' = [io_pairs EXCEPT ![i].out =
                     Finalize(io.in, [s.out EXCEPT !.code = "LINKER_ERROR"])]
                /\ UNCHANGED run
        /\ jumps_remaining' = MaxJumps
        /\ UNCHANGED <<fxns_src, fxns, lnkr_good, main_fxn, global_before>>

Step ==
    /\ Running
    /\ LET s == emit_function(run.s)
           i == run.index
       IN  IF s.ended
           THEN /\ run' = Idle
                /\ io_pairs' = [io_pairs EXCEPT ![i].out = Finalize(io_pairs[i].in, s.out)]
                /\ jumps_remaining' = s.jumps
           ELSE /\ run' = [index |-> i, s |-> s]
                /\ UNCHANGED <<io_pairs, jumps_remaining>>
    /\ UNCHANGED <<fxns_src, fxns, lnkr_good, main_fxn, global_before>>

-----------------------------------------------------------------------------
(* The specification *)

Init ==
    /\ fxns_src = [l \in Label |-> <<>>]
    /\ fxns = [l \in Label |-> Compiled(<<>>, FALSE)]
    /\ lnkr_good = TRUE
    /\ main_fxn = NoLabel
    /\ global_before = FALSE
    /\ io_pairs = <<>>
    /\ jumps_remaining = 0
    /\ run = Idle

Next ==
    \/ \E l \in Label : \E code \in Bodies[l], entry \in BOOLEAN : insert_function(l, code, entry)
    \/ clear_functions
    \/ insert_before
    \/ clear_callbacks
    \/ \E in \in Inputs : insert_input(in)
    \/ clear_inputs
    \/ \E i \in 1..Len(io_pairs) : Begin(i)
    \/ Step

\* Code that runs keeps running.
Spec == Init /\ [][Next]_vars /\ WF_vars(Step)

-----------------------------------------------------------------------------
(* Properties *)

Line == Nat \ {0}

RunState ==
    [f : Label, line : Line, rax : Nat, rbx : Nat, rsp : Int, frames : Seq(Label \X Line),
     jumps : 0..(Word - 1), out : CpuState, ended : BOOLEAN]

\* The output of a run that has come as far as s
Result[s \in RunState] == IF s.ended THEN s.out ELSE Result[emit_function(s)]

\* What a run of the functions that are inserted leaves behind in a new sandbox
Fresh(in) ==
    Finalize(in, IF lnkr_good THEN Result[Start(in, in, 0)]
                 ELSE [in EXCEPT !.code = "LINKER_ERROR"])

\* Types; an entry point is set, and there, as soon as there are functions.
TypeOK ==
    /\ \A l \in Label : fxns_src[l] \in Bodies[l] \cup {<<>>}
    /\ lnkr_good \in BOOLEAN /\ global_before \in BOOLEAN
    /\ main_fxn \in IF Inserted # {} THEN Inserted ELSE Label \cup {NoLabel}
    /\ \A i \in 1..Len(io_pairs) : io_pairs[i].in \in Inputs /\ io_pairs[i].out \in CpuState
    /\ jumps_remaining \in 0..(Word - 1)
    /\ Running => run.index \in 1..Len(io_pairs) /\ run.s \in RunState

\* The functions are compiled from their present source, with the callbacks that are
\* set now, and calls are linked to what is there now.
CompiledCurrent ==
    \A l \in Inserted :
      /\ fxns[l] = Compiled(fxns_src[l], global_before)
      /\ lnkr_good <=> Links(fxns_src)

Ends(i) == run # Idle /\ run.index = i /\ run' = Idle

\* A run ends the way it would in a new sandbox, with the same code and, after a normal
\* end, in the same state, no matter which functions ran before and with which callbacks:
\* memory and the jump counter are reset, and the present functions are what runs.
RunsRepeatable ==
    [][\A i \in 1..Len(io_pairs) : Ends(i) =>
         LET fresh == Fresh(io_pairs[i].in)
             out   == io_pairs'[i].out
         IN  /\ out.code = fresh.code
             /\ fresh.code = "NORMAL" => out = fresh]_vars

\* d[i] is a number of pushes of this function that are on the stack at line i at least,
\* however line i is reached.
StackDepth(code, d) ==
    LET After(j, depth) == j \in 1..Len(code) => d[j] <= depth
    IN  /\ After(1, 0)
        /\ \A i \in 1..Len(code) :
             LET kind == code[i].kind
             IN  /\ kind = "push" => After(i + 1, d[i] + 1)
                 /\ kind = "pop" => d[i] > 0 /\ After(i + 1, d[i] - 1)
                 /\ kind \in {"jmp", "jne"} => After(code[i].arg, d[i])
                 /\ kind \notin {"push", "pop", "jmp", "ret", "ill"} => After(i + 1, d[i])

\* The function pops only what it pushed, and never its return address.
KeepsReturnAddress(code) ==
    \E d \in [1..Len(code) -> 0..Len(code)] : StackDepth(code, d)

\* Every call that is active has a slot of the user's stack, so that a recursion without
\* end runs into SIGSEGV before it uses up the stack of STOKE itself.
RecursionCaught == Running => Len(run.s.frames) <= StackSize

\* Every run comes back: loops meet the jump limit, and recursion the end of the stack.
RunsEnd == Running ~> ~Running
=============================================================================
