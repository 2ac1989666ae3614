# A TLA+ model of STOKE

STOKE is a stochastic superoptimizer for x86-64: a random walk over programs,
guided by test cases, looks for a cheaper program that does what a target
function does; a verifier then decides whether it really does, and its
counterexamples become new test cases. This directory models the parts whose
mistakes would be silent: the edits of a function and their undo, the cost
expressions that stop early over leaves that share a sandbox, the search loop,
the verifier sequence, the driver that ties them together, the bounded and the
leakage validator with the memory cases they distinguish, the sandbox that runs
rewrites on test cases, and the dataflow analyses and clean up passes that the
rest relies on.

`src/...` below is relative to the repository, whose implementation is under
`src/` and `tools/`; in `PROJECT.json` both carry a leading `src/`.

## Inventory

| component | state it keeps | operations | used by |
|---|---|---|---|
| `tunit` | code, hex sizes, hex offsets, rip targets, rip offset | insert, remove, replace, swap, rotate left/right, recompute | cfg, transform |
| `cfg` | block boundaries, labels, successors, reachable set, `def_ins_`, `live_outs_` | recompute and its parts, `check_invariants` | transform, cfg_transforms, verifier |
| `cfg_transforms` | none | remove_unreachable, remove_nop, remove_redundant | stoke_search |
| `transform` | pools of opcodes, operands and rip addresses; one `TransformInfo` in flight | nine transforms, a weighted choice of them, undo | search |
| `cost` | expression trees; reference outputs, index of the last counterexample; whose results the shared sandbox holds | parse, set_target, evaluation with a bound, counterexample | search, hold_out |
| `cost/leakage` | the equivalence classes of operands seen at each line | a callback before every instruction, evaluation | cost |
| `search` | `SearchState`, iteration and time limits, `give_up_now`, statistics | run, stop, the SIGINT handler, callbacks | stoke_search |
| `verifier` | error flag, message and counterexamples, of the sequence and of each member | verify | stoke_search |
| `stoke_search` | cycle, total iterations, cached verification result, test cases | main loop, new_best_correct callback | - |
| `validator` (bounded, leakage) | inlined programs, their paths, error flag, counterexamples | verify | verifier |
| `validator/obligation_checker` | path constraints, circuits, memory cells, aliasing cases | check one pair of paths; build a test case from a model and run it | bounded, leakage, ddec |
| `validator/ddec` | cutpoints, invariants, error flag | verify | verifier |
| `sandbox` | inputs and outputs, functions and their compiled form, callbacks, entry point, jump counter | insert and clear each of them, run | cost, stategen, validator |
| `cfg/paths`, `state`, `stategen` | paths; memory images; generated test cases | enumerate, resize, fix up | validator, sandbox |
| `solver`, `symstate`, `expr`, `disassembler`, `target` | formulas and text | translation | validator, tools |

How they interact. `main` of `tools/apps/stoke_search.cc` builds the cost
function (which runs the target on the training set in a sandbox) and calls
`Search::run`. The search asks the weighted transform for an edit of the current
`Cfg`, evaluates it with a bound, keeps or undoes it, and calls back when it
finds a better correct rewrite; the callback post-processes a copy, verifies it
and may save it. When the search returns, `main` verifies the best correct
rewrite or takes over the result of the callback, and succeeds, gives up, or
adds the counterexamples to the training set and starts another cycle.

What is hard here:

* meta data that is updated in place by a dozen edits and never recomputed from
  scratch while the search runs (`tunit.cc`), and an undo that works from two
  indices and one instruction;
* analyses that are deliberately stale during the search (liveness) and must not
  be used there;
* costs that are truncated at a bound and compared with other costs;
* a signal that may arrive between any two instructions, and a flag that is
  cleared when a run begins;
* flags, counterexamples and results that outlive the call they belong to
  (`has_error_`, `counterexamples_`, `best_correct_verified`);
* limits where 0 means "none";
* a sandbox, a monitor and a set of leaves that several cost functions share, run
  or not by a flag of one of them;
* an enumeration of paths, and of the ways memory accesses can overlap, in which a
  case that is left out looks like a proof;
* cells that are merged, moved and grown while others are placed relative to them;
* arbitrary rewrites that run in the process of the search, on state that an
  earlier rewrite left behind.

There are no threads, no messages and nothing is persisted between runs, so
message loss, crashes and recovery do not arise. The hazards, each at its line
and with the properties that would catch it, are listed in `PROJECT.json`.

## Modules

Reading order; an arrow means EXTENDS or INSTANCE.

| module | models | uses |
|---|---|---|
| `TUnit` | the edits of `src/tunit/tunit.cc` as operators on a record | - |
| `Transform` | `src/transform/*`: proposals, keep and undo | -> `TUnit` |
| `NatLemmas` | lemmas: induction, least and greatest elements, recursive functions | - |
| `TransformProofs` | the theorems about `Transform` | -> `Transform`, `NatLemmas` |
| `Cost` | `evaluate_error` and both reductions | - |
| `CostParser` | the grammar of `--cost` and `--correctness` | - |
| `ExprCost` | cost functions over shared leaves and a shared sandbox, leakage included | -> `Cost`, `CostParser` |
| `Verifier` | `SequenceVerifier` and its members | -> `Cost` |
| `Search` | `Search::run`, `stop`, the signal handler | -> `Cost` |
| `SearchProofs` | what the reductions of `Cost` return, with and without a bound; the theorems about `Search` | -> `Search`, `NatLemmas` |
| `Synthesis` | abstract: counterexample guided synthesis | - |
| `StokeSearch` | `main` of `stoke_search.cc` and its callback | -> `Search`, `Verifier`, `Synthesis` |
| `StokeSearchProofs` | the theorems about `StokeSearch` and `Verifier`, the refinement of `Synthesis` | -> `StokeSearch`, `SearchProofs` |
| `Cfg` | blocks, successors, reachability, definedness, liveness | - |
| `CfgProofs` | lemmas: what the analyses compute, block by block and instruction by instruction | -> `Cfg`, `NatLemmas` |
| `Dataflow` | runs of a program that passed `check_invariants` | -> `Cfg` |
| `DataflowProofs` | the theorems about `Dataflow` | -> `Dataflow`, `CfgProofs` |
| `Postprocess` | the clean up passes, on a `Cfg` that comes out of a search | -> `Cfg` |
| `PostprocessProofs` | the theorems about `Postprocess` | -> `Postprocess`, `CfgProofs` |
| `Paths` | `src/cfg/paths.cc`: paths up to a bound | -> `Cfg` |
| `Bounded` | `BoundedValidator` and `LeakageValidator`, and what the obligation checker does without memory | -> `Paths` |
| `Aliasing` | the obligation checker's cells and aliasing cases, cell memory, and the test case built from a model | - |
| `Sandbox` | `src/sandbox/sandbox.cc`: what is compiled, and runs of it | - |
| `SandboxProofs` | the theorems about `Sandbox` | -> `Sandbox`, `NatLemmas` |

`MC<module>` gives the constants of a module their values for TLC, one `.cfg`
per run. A definition whose name ends in an underscore and a description
(`remove_ShiftsSizes`) is a mutated form of the definition that follows it; no
specification uses it. It stands for a plausible slip in that code and shows
that the property it is listed with can fail.

### TUnit and Transform

An instruction is a *shape* (kind, encoded size, whether its memory operand is
rip-relative: dereferenced, address only, or not), a displacement, and a ghost
`glob`, the address it was written for. Sizes are all that x64asm's assembler
contributes (external). `insert`, `remove`, `replace`, `swap`, `rotate_left` and
`rotate_right` are translated index by index, 1-based. `Transform` has one action
per transform. A transform checks the invariants and undoes itself if they fail,
in the way in which the search undoes a rejected proposal; so a proposal leaves a
move in flight (`ti`), and `Keep` (only if `check_invariants` holds) or `Undo`
follows. Transforms that call `Cfg::recompute()` refresh `boundaries`, the others
leave it alone.

Abstractions: the pools are the set of instructions they can yield; conditions on
reachability and on opcodes are dropped, which allows more moves than the code;
displacements are unbounded integers, the 32 bit wrap of `adjust_rip` is not
modelled; `rip_offset()` of an operand that is not memory (`operand.cc:72`) is
taken to be false.

### Cost, CostParser and ExprCost

A rewrite is a model value with an error code, a distance from the target per
input, a performance term, and the operand values its lines show on an input.
`sum_correctness` and `max_correctness` are recursive functions over the list of
errors which stop at `max` as the loops do. The distances themselves
(`evaluate_error`'s gp, sse, flag and memory terms) are data. `CostParser` is the
recursive descent over a list of tokens, one operator per parse function, with
the seven operator classes of the code's switch (`Operators`); that tokens are found
in a string is left out. What a text should mean is another definition: `Written`
writes a tree with the table of precedences of the comment at `cost_parser.h:69-75`
(`BINOP`). The two tables differ in where `==` binds; `ParsedAsWritten` says of every
expression that it is read as it was written, except for exactly those that the
difference spoils (`Misread`): an `==` without parentheses next to a comparison or shift.

`ExprCost` builds one or several cost functions over the same leaves, as the
gadgets do: `build_fxn` sets the target, which runs it in the sandbox and only then
installs the leakage callback; `Evaluate` runs the test cases if the expression
asks for it, evaluates all leaves with the same `max`, and the correctness
expression on the same values; `HoldOutRun` is the hold-out verifier in a shared
sandbox. `results` is whose outputs the sandbox holds, `monitor` what the leakage
callback has collected since it was last emptied. `latency` stands for every leaf
that does not need the test cases. Costs stay far below `max_cost`.

### Search

`pc` follows `Search::run`: `idle` (called), `configured` (costs computed, flag
cleared), `loop`, `callback` (in `new_best_correct`), `returned`. One iteration
of the loop is one action (`ProposalFails`, `Reject`, `Accept`), with the head
of the loop (timeouts, `give_up_now`, cost 0) as its guard. `Sigint` and
`TimePasses` may happen between any two. A proposal may be any rewrite; that
undo is exact is what `Transform` shows. A run without limit is cut off by
`MaxItr`: it then just stops proposing.

### Verifier

`verify` runs the members of the strategy in order until one fails or reports an
error. Each member is the set of outcomes a call can have, together with what the
call does to the member's own error flag: `bounded` and `leakage` clear it, `ddec`
never does. The validators are taken to be *sound* here: `ddec` accepts only a rewrite
that agrees with the target on every input, `bounded` and `leakage` one that agrees on
the inputs they ask about (`Covered`: those whose runs stay within the bound and, see
`bounded_fallthrough`, do not jump to the next block), which is what `Bounded` and
`Aliasing` check. `leakage` then refuses a rewrite that leaks (`Leaky`), with any inputs
as counterexamples: they show the leak and need not refute the rewrite
(`leakage.cc:142-154`). `CounterExamplesRefute` makes an exception of just this case.

### StokeSearch and Synthesis

`phase` is the place in `main`. The callback and the final verification call
`Verifier!verify`; their result is `cached`. `Synthesis` says what the tool
promises: candidates follow one another, and the test cases grow when the present one
passes them all and yet is refused: by inputs that refute it (`Refine`, which is progress)
or, if the strategy asks for leakage and the candidate leaks, by any inputs (`Refuse`,
after which the same candidate may be found again); until one that passes all tests and
is acceptable is written out, postprocessed (`Final`), or the tool gives up. `StokeSearch`
is checked to refine it with `tests <- the set of training inputs`,
`candidate <- state.best_correct` and `result <- exit`. That the driver ends although
`Refuse` makes no progress is due to the iteration budget alone (`Terminates`).

### Cfg, Dataflow and Postprocess

`Cfg` computes blocks, successors, reachability and both dataflow problems by
sweeps of the code's transfer functions over all blocks (`ReachStep`, `DefStep`,
`LiveStep`), repeated (`Rounds`) as often as there are blocks, or pairs of a
block and a register, after which nothing changes any more: the code's loop, which stops when
nothing changes, ends with the same sets. An instruction is its read, write
and undef sets, as x64asm reports them. `Dataflow` executes a program with every
outcome those sets allow. Within a run it may once overwrite all registers that
are not live, and tracks what that overwriting reaches: this is how liveness is
checked against executions rather than against itself. `Postprocess` lets a
search change a program (with definedness recomputed and liveness left as it is),
hands it to the driver (recomputed) or to the callback (not), and removes one
instruction per step as the passes do. Its semantics of an instruction is a
one-bit function of what it reads, enough to tell a dropped instruction from a
kept one. What a program computes (`Computes`) is, for every start state, what it
returns, or that it does not: `Within(c, n)` is a table of what is returned in at most
`n` steps from every instruction and machine state, and `Result` looks it up for as
many steps as there are machine states.

`recompute_defs` is a function of the code here; in the code `def_ins_` is
resized and not cleared, so entries of unreachable blocks have a history (see the
plan).

### Paths and Bounded

`enumerate_paths` returns the list of block sequences the code returns, copies
included: where a conditional jump leads to the next block, that block is the
successor twice. `Bounded` is one validator and calls of it: `Call` inlines calls
(with the renaming of labels by a counter), enumerates and sorts the paths;
`PairProved` and `PairFails` are one pass of the loop over pairs; `PathChecked`
is the check of one path of the rewrite that `LeakageValidator` adds; a later
call begins from the flags and counterexamples of the one before. Inside a step, `check` builds the
path constraint of each block from the block that follows it, executes both paths
on every input, and asks for one on which both constraints hold and the live
outputs differ. The solver is exact, or gives up; operations without a handler
raise an error, as do a rewrite whose def-ins or live-outs are not the target's
(`Foreign`) and registers that no handler knows. A counterexample is run in a sandbox
with its limit on jumps and kept only if the results differ there; a run that traps
leaves the output of that new sandbox as it was, a copy of the input. A machine state is a register, a flag and
a signal: memory is the business of `Aliasing`.

### Aliasing

The other half of the obligation checker: straight-line programs whose
instructions are lists of moves, reads and writes. `Relate` compares one access
with the cells found so far (same address, adjacent, or in a cell of its own),
`Place` adds one cell to every arrangement of those before it, overlaps at either
end, containment and merging included. The check then ends in `Proved` or
`Refuted`: the solver looks for an input that has one of the arrangements and on
which the two programs, executed on cells, differ. From an answer the test case
is built as `build_testcase_cell_memory` and `memory_from_map` do, with their
rounding, headroom and stack slot, and both programs are run on real addresses. Programs
only move bytes, so one memory in which every byte is its own address stands for
all; addresses are `0..Top-1`, and alignment and slot are scaled down from 32 and
8 bytes. Pairs in which an instruction has two accesses at different addresses,
and sequences of adjacent accesses out of order under `string_antialias`, are
left out of the run: the first two entries under "Observed" are about them.

### Sandbox

`fxns_src`, `fxns`, `global_before`, `io_pairs` and `main_fxn` are the members of
the same name; what a function was compiled to is its source and whether
callbacks were compiled in. `Begin` is `run()` up to the call of the harness;
each `Step` is one user instruction with everything that is emitted around it,
one operator per `emit_` function; the last one ends in `Finalize`. A run has the
user's registers, and the return points on STOKE's own stack (`frames`), next to
the output state whose memory it works on. Registers reach the output only by
`cpu2out`, at a normal end or before a callback; a trap leaves them as they are.
`KeepsReturnAddress(code)` says of a function that some assignment of depths to
its lines shows it never pops more than it pushed; `RecursionCaught` needs it of
every body, and the run checks that its bodies have it (`ReturnAddressesKept`).

Memory is the stack segment, one word per slot; register pressure, scratch
registers, alignment and the switching between the two stack pointers are left
out, and so are rewrites with unreachable blocks (they are not emitted).

## Runs

| run | states | shows |
|---|---|---|
| `transform` | 77,300 | tables, rip targets, undo and block boundaries, over all targets of 3 and 4 instructions from 7 shapes, code up to 4 long |
| `cost` | 14,197 | expressions mean what they say, but for those with `==` next to a comparison or shift; truncated costs are on the right side of the bound, the counterexample is one, with leaves, sandbox and monitor shared |
| `cost_unrun` | violation | a cost expression that needs no test cases leaves the correctness expression with old results |
| `bounded` | 46,014 | every run within the bound has its path; acceptance, rejection, counterexamples and leakage verdicts against all runs |
| `bounded_fallthrough` | violation | runs that take a jump to the next block are never asked about |
| `aliasing` | 33,351 | no overlap of memory accesses is left out, models are real differences, and their test cases show them |
| `search` | 6,922 | exact costs, a sound best rewrite, honest counting, stopping |
| `stoke_search` | 34,444 | verdicts and counterexamples of the verifier, cached results, what is written out, the iteration budget, termination, refinement of `Synthesis` |
| `dataflow` | 15,553 | definedness and liveness against all runs of all programs with four free instructions |
| `postprocess` | 8,153 | clean up preserves results and invariants, and finishes the job |
| `postprocess_stale` | violation | full post-processing in the callback uses stale liveness |
| `sandbox` | 78,450 | the compiled code is current, a run ends, and ends as in a new sandbox |

Why the bounds are enough to be interesting:

* `transform`: four instructions hold an edit, a rip operand before it, one
  behind it and one between two moved instructions; sizes 0, 1, 2, 5, 6, 7 make
  every wrong distance visible. `MaxLen` only limits `AddNops`.
* `cost`: two test cases let an evaluation stop early, at the last and not at all;
  bounds lie below, between and above the sums; the rewrites are wrong on one
  input, wrong on both, trapping, and leak on one line, on another or on none. The
  setups are the cost functions of the examples, both reductions, the four
  leakage reductions, and a logger with two functions next to a hold-out verifier. The
  parser reads every expression with up to three of the 14 operators, each at every
  place, but for chains of three to one side: precedence and associativity are about
  two operators next to each other, and about one that binds them both.
* `bounded`: targets with straight code, a loop, a branch with a call, and a
  signal; all rewrites of three instructions from seven (labels defined once, no
  conditional jump to the next block: that is `bounded_fallthrough`), one with a
  call of a call and one without a handler; bounds 1 and 2; two calls of one
  validator; one rewrite whose live-outs are not the target's. The called function uses
  the programs' own label. `MaxJumps` (12) is more than any run within the bound needs.
* `aliasing`: accesses of one and two bytes at distances that let two cells miss,
  touch, overlap at either end, contain each other and coincide; `p` at either
  side of an alignment; four targets with all rewrites of up to two instructions.
* `search`: rewrites that are free and wrong on an input outside the first test set,
  correct and cheaper, correct with removable code, and wrong everywhere. `MaxItr` bounds
  only runs without limit.
* `stoke_search`: a target that leaks; a rewrite that is free and wrong on an input
  outside the first test set; one that is correct and cheaper; one with dead code that
  leaks and that postprocessing removes; and one that is wrong where the validators do
  not look, which they may accept. The strategy is `hold_out`, then `leakage`, whose
  outcomes include those of `bounded`. Three cycles fit into `TimeoutIterations` (3),
  and `MaxCycles` (3) keeps none from beginning: with 5 the states are the same. `MaxCex` 2 lets
  "add one" and "add all" differ.
* `dataflow`: all 10^4 programs, those that `check_invariants` refuses left out;
  they include loops, indirect jumps, code after a jump and returns in the middle.
* `postprocess`: three instructions between two labels, one accepted move, every
  allowed combination of caller and `--postprocessing`.
* `sandbox`: one test case, run again and again with seven entry functions that
  between them end in every way (normally, SIGSEGV, SIGFPE, SIGILL, too many
  jumps, no return, a smashed stack, a function that is not there), and five
  functions they may call. Three slots of stack hold two nested calls; three
  jumps let a loop go around twice. Its options are the tools' defaults, except
  that the stack check is on.

`CHECK_DEADLOCK FALSE` is set where the modelled program ends: a driver that has
exited, a function that has returned, post-processing that is done, a pair of
programs that is proved or refuted, and in `bounded_fallthrough` a validator that
is called once.

### Fairness

`Search` assumes weak fairness of the program's own steps (`Program`),
`StokeSearch` of `main`'s (`Driver`), `Sandbox` of the code that runs (`Step`): a single threaded process keeps executing.
Nothing is assumed of the signal, of the clock or of a caller that searches
again. In particular termination does not rely on the time limit, only on
`--timeout_iterations`. A verifier call ends (the solver has its own timeout).
`ExprCost`, `Bounded` and `Aliasing` are checked for safety only and state no
fairness.

### What disagrees with the code's own statements

Three runs state what a comment or help text says and are violated by what the
code does; the quotes are under "findings" in `PROJECT.json`.

1. `--cost latency` (or any expression that needs no test cases) with the default
   `--correctness` leaves the test cases unrun: every rewrite counts as correct
   (`cost_unrun`).
2. `is_jump` tells a taken jump from a fall-through by the number of the next
   block; where both are the same, the inputs that take the jump are never asked
   about and the validator accepts rewrites that differ on them
   (`bounded_fallthrough`).
3. The callback runs `remove_redundant` on a `Cfg` with stale liveness
   (`postprocess_stale`). The result is verified after that, so nothing wrong
   succeeds (`SuccessVerified`); a good rewrite may be missed.

A fourth disagreement is stated by a property that holds. The comment at
`cost_parser.h:71-73` gives `< <= > >=` class 3, `>> <<` class 4 and `==` class 5;
`cost_parser.cc:240-263` takes `==` as class 3, the comparisons as 4 and the shifts as 5.
By the comment `a == b < c` is `(a == b) < c`, the code reads `a == (b < c)`.
`ParsedAsWritten` says that the code reads something else than the comment for all
expressions of this kind, and for no other.

### Observed

Met while modelling; no run is about these.

Memory in the validator:

* Accesses are kept by line (`obligation_checker.cc:583`): an instruction with two
  accesses at different addresses (`pushq` of memory) has one of them related to
  cells and the other not; `ProvedAgrees` fails if such pairs are added.
* With `string_antialias`, an access that joins another cell leaves its old cell's
  size as it was (`obligation_checker.cc:738`). One-byte accesses at `p`, `p+2`,
  `p+1` then make contradictory constraints, and everything is proved.
* The zeros put into the stack slot of a test case overwrite cell bytes that lie
  there, and overlapping entries of `memory_from_map` are taken in any order.
* "Just leave" after an inaccurate memory does not leave
  (`obligation_checker.cc:1313-1317`); a difference in signals alone is reported
  as a counterexample that no live output shows.

Leakage:

* The check of `leakage.cc` ignores path constraints, and its counterexamples need
  not refute the rewrite (`LeakFound` in `Verifier`, `Refuse` in `Synthesis`). The driver
  adds them to the test cases all the same, and may find and refuse the same rewrite until
  the iterations are used up. The cost's monitor is keyed by line alone, its mask
  `1 << i` is 32 bits wide, `popct` counts up to the highest bit while
  `leakage.h:86` says bits set, and in a cost logger every function's run feeds
  the one monitor, to be emptied by whichever evaluates it (`leakage.cc:24-30`).

Cost expressions:

* All operators associate to the right (`5 - 2 - 1` is 4); the documentation says nothing
  of it, and `Written` does as the code does. In `correctness / 2` a leaf stopped at
  `max` falls below it, so `ShortCircuitSound` is for expressions that do not decrease in
  their leaves.

Driver, verifier and search:

* `DdecValidator` and `SequenceVerifier` never lower `has_error_` (`ddec.cc:293`):
  one error fails all later calls, and an error while the callback verifies makes
  `main` give up after a final verification that had none (`stoke_search.cc:581`).
* `--cycle_timeout` is evaluated with `i` from 0 (`stoke_search.cc:488`), so
  `2*i` is 0 in the first cycle, which means no limit.
* After a call that ends in an error `SequenceVerifier` still shows the
  counterexamples of an earlier call (the driver asks for the error first); the
  failed verification action `quit` does not quit; a SIGINT that arrives before
  `search.cc:93` clears the flag is lost; what `main` writes out is
  post-processed after it was verified.

Cfg and sandbox:

* `recompute_defs_gen_kill` (`cfg.cc:233`) and the per-instruction pass (280-284)
  differ for registers that may be written and may be undefined (shifts by `cl`):
  `kill -= maybe_write` forgets that the same instruction, or an earlier one of the
  block, leaves the register undefined. If an instruction that may write and may
  undefine `zf`, and need do neither, is added to the run `dataflow`, `DefsSound`
  fails: `def_ins_` of the exit holds a flag that is undefined there. The
  programs of that run satisfy `UndefsOverwritten` (what some instruction may
  undefine is, by any instruction that may write it, surely written and not
  undefined), which is also the hypothesis of the theorems about definedness.
* A function that pops its return address before it calls itself recurses on
  STOKE's stack without limit (`sandbox.cc:1076`): `RecursionCaught` is for
  functions that keep their return address.
* With `--abi_check`, `check_abi` compares registers that a run which trapped did
  not write, so its error code may be that of an earlier run. `emit_map_addr` uses
  `ja` against an exclusive upper bound; `emit_mem_push` and `emit_mem_pop`
  (1282-1334) differ from the instruction when the operand overlaps the slot.
* StateGen: `resize_below` wraps for low addresses (`stategen.cc:217`), `get_addr`
  of a call is 0 in release builds, `last_line_index` may be another function's,
  `max_memory_` is exceeded by rounding, the SIGBUS branch is dead.

## Proofs

The theorems hold for every value of the constants that satisfies the named
assumptions of the modules; TLC evaluates these in the runs. Every listed theorem
that names a property of a run says of all instances what the run says of one.

| module | theorems |
|---|---|
| `TransformProofs` | `Invariance`, `TypeCorrect`, `MetaDataStaysCurrent`, `RipTargetsStay`; `UndoInvariance`, `UndoRestoresHolds`, `BlocksCurrentHolds` |
| `SearchProofs` | `SearchInvHolds`, `BestSoundHolds`, `IterationsCountedHolds`, `StopHonouredHolds` (an action property), `CostsExactHolds` |
| `StokeSearchProofs` | `DriverInvHolds`, `AcceptedByAllHolds`, `CounterExamplesRefuteHolds`, `CachedResultFreshHolds`, `SuccessVerifiedHolds`, `ReferencesCurrentHolds`, `IterationBudgetHolds`, `Refinement` (of `Synthesis`) |
| `SandboxProofs` | `CompiledStaysCurrent`, `SandboxTypeCorrect`, `RecursionCaughtHolds`, `RunsRepeatableHolds` and `NormalRunsRepeatableHolds` (action properties) |
| `DataflowProofs` | `LivenessSoundHolds`, `DefsSoundHolds`, `NoUndefReadsHolds` |
| `PostprocessProofs` | `InvariantsKeptHolds`, `NothingLeftHolds`, `SameResultHolds` |

Seven of them have hypotheses of their own, besides the assumptions:

* `IterationBudgetHolds` assumes that no `--cycle_timeout` is 0: `Search::run` takes
  a limit of 0 for none, and the statement is false without it (see "Observed").
* `RecursionCaughtHolds` assumes that every body keeps its return address.
* `RunsRepeatableHolds` assumes that `abi_check_` is off, as it is in every tool
  without `--abi_check`; with it, the error code of a run that trapped may differ (see
  "Observed"). `NormalRunsRepeatableHolds` says what is left then, and assumes nothing.
* `DefsSoundHolds` and `NoUndefReadsHolds` assume `UndefsOverwritten` of every
  program. Without it the code's summaries of blocks are wrong (see "Observed").
* `InvariantsKeptHolds`, `NothingLeftHolds` and `SameResultHolds` assume
  `LivenessCurrent` (nobody asks the callback for full postprocessing: that is
  `postprocess_stale`) and `UndefsAreOverwritten`, the same of the pool of instructions.
  `SameResultHolds` also assumes `NoIndirectJumps`: the Cfg takes them to leave the
  function.

The theorems about `Verifier` and `StokeSearch` hold for every strategy, under the
assumptions on the validators that are built into `Outcomes`.

The runs check the first and `abi_check_` by their constants and the others by an
`ASSUME` in `MCSandbox`, `MCDataflow` and `MCPostprocess`; `LivenessCurrent` is what
`Postprocess.cfg` says of `Requests`.

### Recursive definitions

The provers cannot instantiate an induction theorem, so `NatLemmas` states
induction for the *set* of numbers that have a property (`Induction`, from the
well-foundedness of `<` by a least counterexample) and recursion for a *step
function*: `Recursion` gives a function on `0..n` that obeys its step, and a
`CHOOSE` of such a function is then known to. `SearchProofs` uses it for the sums of
errors (`SumOfPartial`, `SumUpToPartial`): a bounded evaluation is exact if it is
below the bound and at least the bound otherwise (`Evaluated`), and a failing
evaluation has a counterexample (`CounterExample`).

### Transform

`MetaDataCurrent` alone is not preserved by `Undo`: an arbitrary `ti` could name an
index that is not there, or an instruction whose operand does not resolve at the
place it is put back to. `IInv` adds `RipTargetsKept` and `UndoApplies`: the
recorded indices are in range and are not the leading label, and the recorded
instruction fits the place it came from.

A row of the tables (instruction, size, offset) *fits* if the size is the
instruction's and the operand resolves from that offset; `FitsAdjust` says that
adjusting an operand by minus the distance a row moves keeps it fitting. A
function is sound iff all rows fit and the offsets are the running sums of the
sizes (`SoundTables`, `TablesSound`). For every edit one lemma (`RemoveTables`,
`InsertTables`, ...) gives the distance of each row, hence the edit keeps a
function sound (`RemoveSound`, ...). `replace` has three, one per rescaling rule
(`ReplaceLocal`, `ReplaceSkipped`, `ReplaceRescaled`). Each transform establishes
`UndoApplies` for its own move and `UndoneSound` consumes it.

That undo restores the function follows without following offsets back: two sound
functions whose instructions agree up to displacement, at the same places and with
the same targets, are equal (`SoundUnique`), since sizes give the offsets and an
offset and an address give the displacement. What remains is where each
instruction goes under an edit and its inverse (`RemoveInserted`, `SwapBack`, ...).
`UndoInv` adds `BlocksOfPrev`: the undo of a swap or of a replacement does not
recompute the blocks, so those it leaves must already be those of the function it
restores; a replacement keeps the kind of every instruction that bounds a block.

### Search, Verifier and StokeSearch

`SearchInv` is `BestSound` with what it needs: the states `run()` may be called in
(`IdleFresh`), a positive cost on entry to the loop, so that a run without
iterations ended for an outside reason (`Counting`), and a flag that stays up until
the loop is left (`Stopping`). `ExactInv` adds that the training set is one whose
errors fit (`CostsFit`: no sum of errors reaches `max_cost`; with larger sums
the current cost would be a truncated one). One lemma per action keeps `SearchInv`;
the driver's proof uses the same lemmas for the steps it takes inside `run()`.

`DriverInv` joins `SearchInv`, the verifier's two properties and, per phase of
`main`, what the cached result is about: in `decide` it belongs to
`state.best_correct`, and if it is a refusal without error its counterexamples
refute that rewrite. `VerifyEffect` is the contract of `verify`: the sequence stops
at the first member that fails (`StopsAtFirst`), every member that accepted is
sound (`OutcomeSound`; for `hold_out` it follows from the sums, for the validators
it is what the model takes them to be), and the counterexamples of the one that failed
refute the rewrite unless it is a leak (`RefutedBy`). `BudgetInv` relates the limit of
the running cycle to what is left of the budget.

`Refinement` shows that every step of the driver is a step of `Synthesis` or
stutters: a step of the search or of the callback proposes or stutters; only
`RestartRefines` changes the tests, and needs that the rewrite that was found correct
passes all of them, while the new ones refute it (`NewTestsRefute`) unless it leaks;
only `VerifiedRefines` sets a result, and there the last verdict is known to be about
this rewrite, as it is or postprocessed.

### Sandbox

`CompiledCurrent` needs only that the tables of sources and of compiled functions
have an entry per name. `TypeOK` is proved with one lemma per `emit_` function,
which says what it leaves of a running state. For `RecursionCaught`, `StackInv`
gives every active call a bound on `rsp` at its entry (`StackBelow`): a call begins
below the pushes of its caller and one slot further down than the caller did, so
there are no more active calls than slots, whatever pushes, pops and jumps happen
in between.

`RunsRepeatable` compares a run with `Fresh`, the run of the same functions in a new
sandbox. `RepeatInv` keeps the second one beside the first: it has come (`ComesTo`)
to a state that agrees with the run under way on everything but the registers of the
output (`Twin`). An instruction keeps the two alike, or ends both with the same
code (`FunctionTwin`, over one lemma per `emit_` function): nothing reads the
output's registers, and the only normal end writes all of them. That `Fresh`, a
function defined by recursion over the steps of a run, has the value its equation
says needs no termination argument: `EndsWith(o)`, the least set of run states that
leads to the output `o`, gives a solution for runs that end and for those that do not
(`ResultIs`). It does need that a step of any run state is a run state, which is why
lines count from 1 in `RunState`.

### Dataflow

The sweeps of `Cfg` end at a fixed point. A step that only adds (or only removes)
elements of a finite set either stands still or changes the cardinality, so after
as many rounds as there are elements nothing changes (`Stationary`,
`GrowsToFixpoint`, `ShrinksToFixpoint`): no bound on the program is used.
At the fixed point, the block summaries (use and kill, gen and kill) must agree
with the instruction by instruction pass inside a block; that is an induction over
the instructions of the block (`SummaryAgrees` for liveness, `SummaryDefines` for
definedness, the only place where `UndefsOverwritten` is used). Then liveness
before an instruction contains what it reads and what is live behind it and not
surely overwritten, also across the edges of blocks (`LiveInside`, `LiveAcross`)
and at indirect jumps (`LiveAtIndirect`).

`LiveInv` says of a run that what was overwritten is not live where the program is,
or is read nowhere at all (`Harmless`): behind an indirect jump the run may be
in a block that the analysis does not reach, and there only the second holds.
`DefInv` says that a run without indirect jumps stays in reachable blocks with
`def_ins` defined.

### Postprocess

The passes recompute everything after each removal, so the theorems are about the
analyses of *two* programs, `c` and `Drop(c, i)`. A fixed point of one does not give
the fixed point of the other; that the code's loops start from everything (or
nothing), and so end at the *greatest* (or *least*) one, does. `CfgProofs` says so
instruction by instruction: what is reached is in every set that is closed under
control flow (`ReachedLeast`), every table of registers that the program carries
along is below `def_ins_` (`DefsGreatest`), and every table that supplies what is
read is above liveness (`LiveLeast`). Blocks, which a removal cuts and joins, do not
occur in these.

A pass removes an instruction that is not reached, or is *idle*: it writes nothing that
is live behind it and has no side effect (`Removable`; a nop is idle). Then control goes
where it went, since a label that is jumped to stays (`DropFlow`), and the same
instructions are reached (`DropReached`). Definedness of `c` itself is not carried
along by `Drop(c, i)`, which lacks the definitions of `i`; what is defined *and
live* in `c` is (`CarriedBack`), and it is all that anybody reads (`DropSound`).

`PostInv` is the inductive invariant: the Cfg is sound, liveness is current in the
passes that use it, and per pass what earlier ones achieved. That nothing is left
needs it: a redundant instruction that goes can make others redundant, which the
same pass then takes; but it never makes one unreachable, and after
full postprocessing `remove_nop` finds none, as a nop is redundant.

`SameResultHolds` is a simulation in both directions. Two states are `Alike` at an
instruction if they agree on what is live there and on memory. A step keeps them alike
(`StepAlike`), and so does a step of the idle instruction on one side only
(`IdleAlike`; that it undefines nothing live holds because in a sound program everything
live is defined, `LiveDefined`). So a run of one program that returns is followed by
a run of the other that returns the same (`ReturnsWithout`, `ReturnsWith`), in another
number of steps. That `Result`, which looks up a fixed number, sees both
is a counting argument: the states from which a run returns within `k` steps grow
with `k` and stand still before there are more of them than states (`Saturated`).

### Only model-checked

* `SearchReturns`, `Terminates`, `RunsEnd`: liveness, out of the prover's reach.
* `CostParser`, `ExprCost`, `Paths`, `Bounded` and `Aliasing`: parser, path
  enumeration, inlining and arrangement of cells are RECURSIVE operators, in whose
  modules the prover has no SMT solver.

## Not modelled, and why

* Bit level semantics of x86 (`validator/handlers`, `symstate`, `solver`): large
  tables of formulas, and queries for external solvers.
* `ddec`'s invariant learning: linear algebra over traces.
* Text formats, disassembly, CPU detection, the command line parsers: I/O.
* In the sandbox: callbacks at one line or after an instruction, `bt`, `leave`,
  `pushf`, `popf`, memory operands of `push`, `pop` and `div`.
* Real-valued cost arithmetic (`log(p)/beta` and its conversion to an unsigned
  cost): `Slack` takes small naturals.
* The cost leaves that only read the program (binsize, size, nongoal, sseavx,
  measured); leaves that are not monotone.
* The flat and ARM memory models and NaCl constraints of the obligation checker;
  there the solver does the work that `Aliasing` shows being done by cases.
* `learn_path`, which notes the path of a run by a callback.
* `StateGen`: its repair loop is small next to the byte exact segments and the
  sandbox it needs; its own oddities are listed above.

The largest files of the repository are vendored (`src/ext`, the Pin kit, gtest)
or tables of formulas (`validator/handlers`, `strata_support.cc`): no state, no
order of steps. What is modelled is where the state is.

## Plan

Done: `TUnit`, `Transform`, `Cost`, `Search`, `Verifier`, `StokeSearch` over
`Synthesis`, `Cfg`, `Dataflow`, `Postprocess` and `Sandbox`, with their proofs;
`CostParser`, `ExprCost`, `Paths`, `Bounded` and `Aliasing`, model-checked.

Next, in this order:

1. `Paths` and the loop of `Bounded` with recursive functions
   instead of operators, for `RejectedForCause` and `CounterExamplesConfirmed`.
2. The flat memory model in `Aliasing`; branches in it, which would make it and
   `Bounded` one module.
3. `StateGen` over a byte exact `Memory`; the instructions that the sandbox
   expands into several (`emit_mem_push`, `emit_mem_pop`, `emit_mem_div`).
4. `learn_path`; the history of `def_ins_` in `Cfg`.
