------------------------------- MODULE Bounded -------------------------------
(***************************************************************************)
(* BoundedValidator (src/src/validator/bounded.cc) and LeakageValidator    *)
(* (leakage.cc): calls are inlined, the paths of target and rewrite are    *)
(* enumerated up to a bound, and for every pair of paths the obligation    *)
(* checker asks the solver for an input on which both paths are taken and  *)
(* the results differ.  An answer is believed only if running both         *)
(* programs in a sandbox confirms it.  The leakage validator then asks     *)
(* whether an instruction of a path of the rewrite can see operands of     *)
(* more than one equivalence class.                                        *)
(*                                                                         *)
(* A machine state is a register, a flag and whether a signal was raised.  *)
(* The solver is exact, or gives up.  Programs do not use memory.          *)
(***************************************************************************)
EXTENDS Paths

CONSTANTS
    Targets,       \* targets to verify against
    Rewrites,      \* rewrites of the first call
    Again,         \* rewrites of later calls
    Aux,           \* Aux[l]: the code of the function called by label l
    Input,         \* initial states
    Bound,         \* values of bound_
    Foreign,       \* rewrites whose def-ins or live-outs are not those of the target
    SupportedReg,  \* registers the handlers support
    Unsupported,   \* operations the handlers do not support
    LeakageClasses,\* leakage_ranges: operation -> classes of register values
    MaxJumps       \* max_jumps_ of the sandbox

ASSUME BoundedAssumption ==
    /\ Again \subseteq Rewrites
    /\ Bound \subseteq Nat /\ MaxJumps \in Nat

VARIABLES
    init_target, bound, bailout, leakage,   \* a validator, its options and its target
    init_rewrite,                      \* the rewrite of the call
    target, rewrite,                   \* both, with their calls inlined
    target_paths, rewrite_paths,       \* paths of the inlined programs, short ones first
    count,                             \* pairs, and then paths, done
    ok,                                \* what was proved so far
    counterexamples, has_error,
    pc                                 \* "idle", "pairs", "leakage" or "returned"

object == <<init_target, bound, bailout, leakage>>
programs == <<init_rewrite, target, rewrite, target_paths, rewrite_paths>>
vars == <<object, programs, count, ok, counterexamples, has_error, pc>>

-----------------------------------------------------------------------------
(* The machine *)

Effect(op, s) ==
    CASE op = "inc" -> LET v == (s.a + 1) % 3 IN [s EXCEPT !.a = v, !.zf = v = 0]
      [] op = "dec" -> LET v == (s.a - 1) % 3 IN [s EXCEPT !.a = v, !.zf = v = 0]
      [] op = "zero" -> [s EXCEPT !.a = 0]
      [] op = "load" -> [s EXCEPT !.sig = s.sig \/ s.a = 1]     \* misaligned
      [] OTHER -> s

\* Is a conditional jump taken?
Taken(op, s) == IF op = "e" THEN s.zf ELSE ~s.zf

Ended(s, why, path) == [s |-> s, end |-> why, path |-> path]

RECURSIVE Exec(_, _, _, _, _, _, _)

\* A run of code from instruction i, as the sandbox runs it: the jump limit ends it, and
\* so does a signal if it is fatal.  stack: the callers; path: the blocks of the main
\* function entered.
Exec(code, i, s, stack, path, jumps, fatal) ==
    LET entered == IF stack = <<>> /\ i \in recompute_blocks(code) /\ i # Exit(code)
                   THEN Append(path, i) ELSE path
        goto(j) == IF jumps = 0 THEN Ended(s, "limit", entered)
                   ELSE Exec(code, j, s, stack, entered, jumps - 1, fatal)
        next    == Exec(code, i + 1, Effect(code[i].op, s),
                        stack, entered, jumps, fatal)
    IN  IF s.sig /\ fatal THEN Ended(s, "signal", path)
        ELSE IF i = Exit(code) \/ code[i].kind = "ret"
        THEN IF stack = <<>> THEN Ended(s, "normal", entered)
             ELSE Exec(Last(stack)[1], Last(stack)[2], s, Front(stack), entered, jumps, fatal)
        ELSE CASE code[i].kind = "call" ->
                    Exec(Aux[code[i].label], 1, s, Append(stack, <<code, i + 1>>), entered, jumps, fatal)
               [] code[i].kind = "jmp" -> goto(Dest(code, code[i].label))
               [] code[i].kind = "jcc" /\ Taken(code[i].op, s) -> goto(Dest(code, code[i].label))
               [] OTHER -> next

\* run_sandbox_on_path runs all of the program, not only the path.  The output of the new
\* sandbox begins as a copy of the input, and a run that ends in a trap leaves it so.
run_sandbox(code, x) ==
    LET run == Exec(code, 1, x, <<>>, <<>>, MaxJumps, TRUE)
    IN  IF run.end = "normal" THEN run ELSE [run EXCEPT !.s = x]

\* What the formula of a path describes: signals are noted and execution goes on.
RunOn(code, x) == Exec(code, 1, x, <<>>, <<>>, MaxJumps, FALSE)

-----------------------------------------------------------------------------
(* inline_functions *)

Instr(kind, label, op) == [kind |-> kind, label |-> label, op |-> op]

\* Labels of the n-th inlined body; label 0 stands for its end
Renamed(n, l) == 100 * n + l

\* Mutant: labels inside an inlined function keep their names.
Inlined_SameLabels(n, l) ==
    LET body == Aux[l]
    IN  <<Instr("plain", 0, "push")>>
          \o [j \in 1..Len(body) |->
                IF body[j].kind = "ret" THEN Instr("jmp", Renamed(n, 0), "")
                ELSE body[j]]
          \o <<Instr("label", Renamed(n, 0), ""), Instr("plain", 0, "pop")>>

\* push %rbp; the body, with its returns turned into jumps to its end; pop %rbp
Inlined(n, l) ==
    LET body == Aux[l]
    IN  <<Instr("plain", 0, "push")>>
          \o [j \in 1..Len(body) |->
                IF body[j].kind = "ret" THEN Instr("jmp", Renamed(n, 0), "")
                ELSE IF body[j].label # 0 THEN [body[j] EXCEPT !.label = Renamed(n, @)]
                ELSE body[j]]
          \o <<Instr("label", Renamed(n, 0), ""), Instr("plain", 0, "pop")>>

\* A call in an inlined body stays.
inline_functions(code) ==
    LET calls(i) == Cardinality({j \in 1..i : code[j].kind = "call"})
    IN  FlattenSeq([i \in 1..Len(code) |->
          IF code[i].kind = "call" THEN Inlined(calls(i), code[i].label) ELSE <<code[i]>>])

\* Every instruction but labels, jumps and returns
is_supported(code) ==
    \A i \in 1..Len(code) :
      code[i].kind # "call" /\ (code[i].kind = "plain" => code[i].op \notin Unsupported)

\* The rewrite r, and both programs with their calls inlined
sanity_checks(r, inlined) ==
    /\ r \notin Foreign
    /\ DefIns \cup LiveOuts \subseteq SupportedReg
    /\ \A code \in inlined : is_supported(code)

-----------------------------------------------------------------------------
(* The obligation checker *)

\* Mutant: the last branch of a path is not constrained.
jump_type_LastFree(code, path, i) ==
    IF i >= Len(path) - 1 \/ Len(Succs(code, path[i])) < 2 THEN "none"
    ELSE IF path[i+1] = NextBlock(code, path[i]) THEN "fall_through" ELSE "jump"

\* Does the path leave its i-th block by the jump or by falling through?  The test for
\* a path of one block, which is put behind the entry, comes to "none".
jump_type(code, path, i) ==
    IF i = Len(path) \/ Len(Succs(code, path[i])) < 2 THEN "none"
    ELSE IF path[i+1] = NextBlock(code, path[i]) THEN "fall_through" ELSE "jump"

\* st: the machine state and whether the constraints so far hold
AfterInstr(instr, jump, st) ==
    CASE instr.kind = "jcc" /\ jump = "jump" ->
           [st EXCEPT !.holds = @ /\ Taken(instr.op, st.s)]
      [] instr.kind = "jcc" /\ jump = "fall_through" ->
           [st EXCEPT !.holds = @ /\ ~Taken(instr.op, st.s)]
      [] instr.kind = "plain" -> [st EXCEPT !.s = Effect(instr.op, st.s)]
      [] OTHER -> st

build_circuit(code, b, jump, before) ==
    LET st[i \in (b-1)..LastOf(code, b)] ==
          IF i = b - 1 THEN before ELSE AfterInstr(code[i], jump, st[i-1])
    IN  st[LastOf(code, b)]

\* What the i-th block of the path starts from; Len(path) + 1 for the end
Circuit(code, path, x) ==
    LET st[i \in 1..(Len(path) + 1)] ==
          IF i = 1 THEN [s |-> x, holds |-> TRUE]
          ELSE build_circuit(code, path[i-1], jump_type(code, path, i-1), st[i-1])
    IN  st

AtEnd(code, path, x) == Circuit(code, path, x)[Len(path) + 1]

\* The models of the formula for a pair of paths: both are taken, and live-outs or
\* signals differ.
Models(P, Q) ==
    {x \in Input :
       LET p == AtEnd(target, P, x)
           q == AtEnd(rewrite, Q, x)
       IN  p.holds /\ q.holds /\ ~(p.s.a = q.s.a /\ p.s.sig = q.s.sig)}

\* The live-outs of both runs; error codes are not compared.
check_counterexample(x) == run_sandbox(target, x).s.a # run_sandbox(rewrite, x).s.a

\* The register before the j-th instruction, in the i-th block of the path
ValueAt(code, path, i, j, x) ==
    LET st[n \in (path[i]-1)..(j-1)] ==
          IF n = path[i] - 1 THEN Circuit(code, path, x)[i] ELSE AfterInstr(code[n], "none", st[n-1])
    IN  st[j-1].s.a

\* Mutant: only what the last block of a path sees counts.
check_instr_leakage_LastBlock(code, path, i, j) ==
    {<<x, y>> \in Input \X Input :
       /\ i = Len(path)
       /\ code[j].kind = "plain" /\ code[j].op \in DOMAIN LeakageClasses
       /\ \E c \in LeakageClasses[code[j].op] :
            ValueAt(code, path, i, j, x) \in c /\ ValueAt(code, path, i, j, y) \notin c}

\* Models in different classes of one instruction.  Only its operands are asked about:
\* the constraints of the path are not part of the question.
check_instr_leakage(code, path, i, j) ==
    {<<x, y>> \in Input \X Input :
       /\ code[j].kind = "plain" /\ code[j].op \in DOMAIN LeakageClasses
       /\ \E c \in LeakageClasses[code[j].op] :
            ValueAt(code, path, i, j, x) \in c /\ ValueAt(code, path, i, j, y) \notin c}

Leaks(code, path) ==
    UNION {UNION {check_instr_leakage(code, path, i, j) : j \in InstrsOf(code, path[i])} :
             i \in 1..Len(path)}

-----------------------------------------------------------------------------
(* verify() *)

Init ==
    /\ init_target \in Targets /\ bound \in Bound /\ bailout \in BOOLEAN /\ leakage \in BOOLEAN
    /\ init_rewrite = init_target /\ target = <<>> /\ rewrite = <<>>
    /\ target_paths = <<>> /\ rewrite_paths = <<>>
    /\ count = 0 /\ ok = TRUE
    /\ counterexamples = {} /\ has_error = FALSE
    /\ pc = "idle"

ByLength(paths) == SortSeq(paths, LAMBDA p, q : Len(p) < Len(q))

Sane == sanity_checks(init_rewrite', {target', rewrite'})

\* Mutant: the counterexamples of the last call are kept.
Call_KeepsOld(r) ==
    /\ pc = "idle" \/ (pc = "returned" /\ r \in Again)
    /\ init_rewrite' = r
    /\ target' = inline_functions(init_target)
    /\ rewrite' = inline_functions(r)
    /\ target_paths' = IF Sane THEN ByLength(AllPaths(target', bound)) ELSE <<>>
    /\ rewrite_paths' = IF Sane THEN ByLength(AllPaths(rewrite', bound)) ELSE <<>>
    /\ count' = 0 /\ ok' = TRUE
    /\ counterexamples' = counterexamples
    /\ has_error' = ~Sane
    /\ pc' = IF Sane THEN "pairs" ELSE "returned"
    /\ UNCHANGED object

\* Up to the loop over the pairs: a call forgets what the last one found; a validator
\* error of the checks ends it.
Call(r) ==
    /\ pc = "idle" \/ (pc = "returned" /\ r \in Again)
    /\ init_rewrite' = r
    /\ target' = inline_functions(init_target)
    /\ rewrite' = inline_functions(r)
    /\ target_paths' = IF Sane THEN ByLength(AllPaths(target', bound)) ELSE <<>>
    /\ rewrite_paths' = IF Sane THEN ByLength(AllPaths(rewrite', bound)) ELSE <<>>
    /\ count' = 0 /\ ok' = TRUE
    /\ counterexamples' = {}
    /\ has_error' = ~Sane
    /\ pc' = IF Sane THEN "pairs" ELSE "returned"
    /\ UNCHANGED object

Pairs == Len(target_paths) * Len(rewrite_paths)

Pair(n) ==
    <<target_paths[1 + (n \div Len(rewrite_paths))], rewrite_paths[1 + (n % Len(rewrite_paths))]>>

\* With --no_bailout all pairs are checked; otherwise a confirmed counterexample ends it.
MorePairs == pc = "pairs" /\ count < Pairs /\ ~(bailout /\ ~ok /\ counterexamples # {})

\* verify_pair: no model, and the pair is proved; or a model, which is kept if it is
\* confirmed.
PairProved ==
    /\ MorePairs
    /\ Models(Pair(count)[1], Pair(count)[2]) = {}
    /\ count' = count + 1
    /\ UNCHANGED <<object, programs, ok, counterexamples, has_error, pc>>

PairFails ==
    /\ MorePairs
    /\ \E x \in Models(Pair(count)[1], Pair(count)[2]) :
         counterexamples' = counterexamples \cup {y \in {x} : check_counterexample(y)}
    /\ ok' = FALSE
    /\ count' = count + 1
    /\ UNCHANGED <<object, programs, has_error, pc>>

\* The leakage validator goes on if all pairs were proved.
PairsDone ==
    /\ pc = "pairs" /\ ~MorePairs
    /\ pc' = IF leakage /\ ok THEN "leakage" ELSE "returned"
    /\ count' = 0
    /\ UNCHANGED <<object, programs, ok, counterexamples, has_error>>

MoreLeaks == pc = "leakage" /\ count < Len(rewrite_paths) /\ ~(bailout /\ ~ok)

\* check_no_leakage_on_path.  Of the states the checker notes, the two for one leaky
\* instruction are kept; those of other instructions of the path are left out.
PathChecked ==
    /\ MoreLeaks
    /\ LET leaks == Leaks(rewrite, rewrite_paths[count + 1])
       IN  \/ leaks = {} /\ UNCHANGED <<ok, counterexamples>>
           \/ /\ ok' = FALSE
              /\ \E w \in leaks : counterexamples' = counterexamples \cup {w[1], w[2]}
    /\ count' = count + 1
    /\ UNCHANGED <<object, programs, has_error, pc>>

LeakageDone ==
    /\ pc = "leakage" /\ ~MoreLeaks
    /\ pc' = "returned"
    /\ UNCHANGED <<object, programs, count, ok, counterexamples, has_error>>

\* The solver's error, or the filter's, ends the call; counterexamples found so far stay.
SolverError ==
    /\ MorePairs \/ MoreLeaks
    /\ has_error' = TRUE
    /\ pc' = "returned"
    /\ UNCHANGED <<object, programs, count, ok, counterexamples>>

Next ==
    \/ \E r \in Rewrites : Call(r)
    \/ PairProved \/ PairFails \/ PairsDone
    \/ PathChecked \/ LeakageDone
    \/ SolverError

Spec == Init /\ [][Next]_vars

-----------------------------------------------------------------------------
(* Properties *)

\* The programs that were given, calls and all, run on x
TargetRun(x) == run_sandbox(init_target, x)
RewriteRun(x) == run_sandbox(init_rewrite, x)

\* Both runs end within the bound; what follows a signal counts, too.
Covered(x) ==
    LET t == RunOn(target, x)
        r == RunOn(rewrite, x)
    IN  t.end # "limit" /\ r.end # "limit" /\ WithinBound(t.path, bound) /\ WithinBound(r.path, bound)

SameOutcome(x) ==
    LET t == TargetRun(x)
        r == RewriteRun(x)
    IN  t.end = r.end /\ (t.end = "normal" => t.s.a = r.s.a)

Accepted == pc = "returned" /\ ok /\ ~has_error

\* A run that ends normally and enters no block more often than the bound follows an
\* enumerated path, and every enumerated path stays within the bound.
PathsCoverRuns ==
    pc = "pairs" =>
      /\ \A i \in 1..Len(rewrite_paths) : WithinBound(rewrite_paths[i], bound)
      /\ \A x \in Input :
           LET r == run_sandbox(rewrite, x)
           IN  r.end = "normal" /\ WithinBound(r.path, bound) =>
                 \E i \in 1..Len(rewrite_paths) : rewrite_paths[i] = r.path

\* verify() accepts only a rewrite that does what the target does on every input whose
\* runs stay within the bound.
AcceptedUpToBound == Accepted => \A x \in Input : Covered(x) => SameOutcome(x)

\* Without an error verify() rejects only for a reason: an input on
\* which the programs differ, or one on which the target signals.
RejectedForCause ==
    pc = "returned" /\ ~ok /\ ~has_error /\ ~leakage =>
      \E x \in Input : ~SameOutcome(x) \/ TargetRun(x).end = "signal"

\* What get_counter_examples() returns after a call refutes the rewrite of that call: the
\* programs as they were given, calls and all, return different results, or only one of
\* them returns.  (The leakage validator adds others, once all is proved.)
CounterExamplesConfirmed ==
    pc = "returned" /\ ~leakage => \A x \in counterexamples : ~SameOutcome(x)

\* The values the instructions of code see on x, in order
Seen(code, x) ==
    LET path == run_sandbox(code, x).path
    IN  {<<i, j, ValueAt(code, path, i, j, x)>> :
           <<i, j>> \in UNION {{n} \X InstrsOf(code, path[n]) : n \in 1..Len(path)}}

\* The leakage validator accepts only a rewrite whose instructions show an observer the
\* same equivalence class whatever the input, along any one path within the bound.
AcceptedNotLeaky ==
    Accepted /\ leakage =>
      \A x, y \in Input :
        LET p == run_sandbox(rewrite, x)
            q == run_sandbox(rewrite, y)
        IN  p.end = "normal" /\ q.end = "normal" /\ p.path = q.path /\ WithinBound(p.path, bound) =>
              \A u \in Seen(rewrite, x), v \in Seen(rewrite, y) :
                u[1] = v[1] /\ u[2] = v[2] /\ rewrite[u[2]].kind = "plain"
                  /\ rewrite[u[2]].op \in DOMAIN LeakageClasses =>
                \A c \in LeakageClasses[rewrite[u[2]].op] : u[3] \in c <=> v[3] \in c
=============================================================================
