------------------------------ MODULE ExprCost ------------------------------
(***************************************************************************)
(* A cost function as the tools build it (CostFunctionGadget, and the      *)
(* CostLoggerGadget with several expressions over the same leaves): the    *)
(* expressions of src/src/cost/expr.cc over the leaves correctness,        *)
(* leakage and latency, and the test sandbox the leaves share.             *)
(*                                                                         *)
(* The correctness leaf compares the results the sandbox holds with the    *)
(* target's.  The leakage leaf (src/src/cost/leakage.cc) is called back    *)
(* before every instruction the sandbox runs, notes which equivalence      *)
(* class of operand values each line has seen, and forgets it when it is   *)
(* evaluated.                                                              *)
(***************************************************************************)
EXTENDS Cost, CostParser, FiniteSetsExt, Bitwise

CONSTANTS
    Setups,       \* ways to build cost functions
    Trace,        \* Trace[r][x]: the <<line, opcode, operand value>> that r executes on x
    LeakageRanges,\* leakage_ranges: opcode -> classes, each a list of value ranges
    Bounds,       \* values of max
    MaxTests      \* bound on the number of test cases

\* fxns: the token lists of --cost and --correctness (<<>> for none) of each function;
\* reduction and lkg_reduction: of the correctness and of the leakage leaf;
\* shared: the hold-out verifier runs in the same sandbox.
ASSUME SetupAssumption ==
    \A s \in Setups :
      /\ s.shared \in BOOLEAN
      /\ \A k \in 1..Len(s.fxns) :
           /\ ~parse_S(s.fxns[k].cost).err
           /\ s.fxns[k].correctness # <<>> => ~parse_S(s.fxns[k].correctness).err

VARIABLES
    setup,            \* how the functions are built
    fxns,             \* their trees
    built,            \* have they been built?
    inputs,           \* the sandbox's inputs
    results,          \* the program whose results the sandbox holds
    reference_out,    \* inputs whose reference output is known, in order
    counter_example,  \* counter_example_testcase_, 0 for -1
    monitor,          \* leakage_monitor: the <<line, class, range>> seen
    last              \* the last evaluation and its result

options == <<setup, fxns>>

vars == <<options, built, inputs, results, reference_out, counter_example, monitor, last>>

-----------------------------------------------------------------------------
(* LeakageCost *)

\* The value ranges of a class that hold the value
get_partition_index_mask(eq_class, value) ==
    {i \in 1..Len(eq_class) : value \in eq_class[i]}

\* The first class with such a range, 0 for none
EqClass(opcode, value) ==
    LET classes == LeakageRanges[opcode]
        match   == {i \in 1..Len(classes) : get_partition_index_mask(classes[i], value) # {}}
    IN  IF match = {} THEN 0 ELSE Min(match)

\* What one call back adds to the monitor
leakage_callback(line, opcode, value) ==
    IF opcode \notin DOMAIN LeakageRanges \/ EqClass(opcode, value) = 0 THEN {}
    ELSE LET c == EqClass(opcode, value)
         IN  {<<line, c, i>> : i \in get_partition_index_mask(LeakageRanges[opcode][c], value)}

\* What a run of r on the tests adds to it
Observed(r, tests) ==
    UNION {UNION {leakage_callback(e[1], e[2], e[3]) : e \in Trace[r][tests[i]]} :
             i \in 1..Len(tests)}

ClassesAt(m, line) == {e[2] : e \in {d \in m : d[1] = line}}

LeakyLines(m) == {line \in {e[1] : e \in m} : Cardinality(ClassesAt(m, line)) > 1}

\* popct() shifts the mask until it is zero: it counts up to the highest bit.
popct(mask) == Max(mask)

sum_equivalence_classes(m) ==
    MapThenSumSet(LAMBDA line : Cardinality(ClassesAt(m, line)) - 1, LeakyLines(m))

sum_value_ranges(m) ==
    MapThenSumSet(
      LAMBDA line :
        MapThenSumSet(LAMBDA c : popct({e[3] : e \in {d \in m : d[1] = line /\ d[2] = c}}),
                      ClassesAt(m, line)),
      LeakyLines(m))

evaluate_current_leakage(m) ==
    CASE setup.lkg_reduction = "binary"              -> IF LeakyLines(m) # {} THEN 1 ELSE 0
      [] setup.lkg_reduction = "instructions"        -> Cardinality(LeakyLines(m))
      [] setup.lkg_reduction = "equivalence_classes" -> sum_equivalence_classes(m)
      [] setup.lkg_reduction = "value_ranges"        -> sum_value_ranges(m)

-----------------------------------------------------------------------------
(* ExprCost *)

\* The cost tree and correctness_; without the latter every rewrite is correct
ParsedFxn(text) ==
    [cost        |-> parse_S(text.cost).tree,
     correctness |-> IF text.correctness = <<>> THEN Constant(1)
                     ELSE parse_S(text.correctness).tree]

RECURSIVE leaf_functions(_)

leaf_functions(e) ==
    CASE e.op = "leaf"  -> {e.fxn}
      [] e.op = "const" -> {}
      [] OTHER          -> leaf_functions(e.a1) \cup leaf_functions(e.a2)

all_leaf_functions(k) == leaf_functions(fxns[k].cost) \cup leaf_functions(fxns[k].correctness)

\* Set by the constructors, from the operands: the correctness term is not asked.
need_test_sandbox(k) == leaf_functions(fxns[k].cost) \cap {"correctness", "leakage"} # {}

Bit(b) == IF b THEN 1 ELSE 0

\* Costs are 64-bit unsigned; here 16.
CostRange == 2^16

RECURSIVE run(_, _)

run(e, env) ==
    IF e.op = "leaf" THEN env[e.fxn]
    ELSE IF e.op = "const" THEN e.val
    ELSE LET c1 == run(e.a1, env)
             c2 == run(e.a2, env)
         IN  CASE e.op = "+"  -> (c1 + c2) % CostRange
               [] e.op = "-"  -> (c1 - c2) % CostRange
               [] e.op = "*"  -> (c1 * c2) % CostRange
               [] e.op = "/"  -> c1 \div c2
               [] e.op = "%"  -> c1 % c2
               [] e.op = "&"  -> c1 & c2
               [] e.op = "|"  -> c1 | c2
               [] e.op = "<<" -> (c1 * 2^c2) % CostRange
               [] e.op = ">>" -> c1 \div 2^c2
               [] e.op = "<"  -> Bit(c1 < c2)
               [] e.op = "<=" -> Bit(c1 <= c2)
               [] e.op = ">"  -> Bit(c1 > c2)
               [] e.op = ">=" -> Bit(c1 >= c2)
               [] e.op = "==" -> Bit(c1 = c2)

\* env: what the leaves say of r when the sandbox holds the results of res and the
\* leakage leaf has seen m
Environment(r, res, m, max) ==
    [correctness |-> evaluate_correctness(setup.reduction, Errors(res, reference_out), max),
     leakage     |-> evaluate_current_leakage(m),
     latency     |-> Perf[r]]

\* What is left in the monitor once the leaves have been evaluated
Forget(k, m) == IF "leakage" \in all_leaf_functions(k) THEN {} ELSE m

\* Is the leakage leaf called back?  It is hooked in when the functions are built, if
\* one of them has it.
Hooked == \E k \in 1..Len(fxns) : "leakage" \in all_leaf_functions(k)

Seen(r) == IF built /\ Hooked THEN monitor \cup Observed(r, inputs) ELSE monitor

NoEval == [count |-> 0, k |-> 1, rewrite |-> Target, max |-> 0, correct |-> TRUE, cost |-> 0]

Init ==
    /\ setup \in Setups
    /\ fxns = [k \in 1..Len(setup.fxns) |-> ParsedFxn(setup.fxns[k])]
    /\ built = FALSE
    /\ inputs = <<>>
    /\ results = Target
    /\ reference_out = <<>>
    /\ counter_example = 0
    /\ monitor = {}
    /\ last = NoEval

\* The driver adds counterexamples to its training set; a sandbox that is shared with
\* the hold-out verifier has its inputs from the start.
insert_input(x) ==
    /\ Len(inputs) < MaxTests
    /\ built => ~setup.shared
    /\ inputs' = Append(inputs, x)
    /\ UNCHANGED <<options, built, results, reference_out, counter_example, monitor, last>>

\* New leaves, for every cycle of the search: set_target() runs the target, then the new
\* leakage leaf takes the place of the old one in the sandbox.
build_fxn ==
    /\ built' = TRUE
    /\ results' = Target
    /\ reference_out' = inputs
    /\ monitor' = {}
    /\ counter_example' = 0
    /\ UNCHANGED <<options, inputs, last>>

\* operator()(r, max) of the k-th function.  Reading reference_out_ past its end is
\* undefined: the owner must have built the functions since it last added an input.
Evaluate(k, r, max) ==
    /\ built /\ Len(reference_out) = Len(inputs)
    /\ LET res  == IF need_test_sandbox(k) THEN r ELSE results
           seen == IF need_test_sandbox(k) THEN Seen(r) ELSE monitor
           env  == Environment(r, res, seen, max)
       IN  /\ results' = res
           /\ monitor' = Forget(k, seen)
           /\ counter_example' =
                IF "correctness" \in all_leaf_functions(k)
                THEN counter_example_testcase(Errors(res, reference_out), max) ELSE counter_example
           /\ last' = [count |-> 1 - last.count, k |-> k, rewrite |-> r, max |-> max,
                       correct |-> run(fxns[k].correctness, env) # 0, cost |-> run(fxns[k].cost, env)]
    /\ UNCHANGED <<options, built, inputs, reference_out>>

\* The hold-out verifier runs a rewrite in the sandbox.
HoldOutRun(r) ==
    /\ built /\ setup.shared
    /\ results' = r
    /\ monitor' = Seen(r)
    /\ UNCHANGED <<options, built, inputs, reference_out, counter_example, last>>

Next ==
    \/ \E x \in Input : insert_input(x)
    \/ build_fxn
    \/ \E k \in 1..Len(fxns), r \in Rewrite, max \in Bounds : Evaluate(k, r, max)
    \/ \E r \in Rewrite : HoldOutRun(r)

Spec == Init /\ [][Next]_vars

-----------------------------------------------------------------------------
(* Properties *)

Evaluated == last'.count # last.count

\* Leaves without a bound, of the rewrite's own runs
ExactEnvironment(r) ==
    LET errs == Errors(r, inputs)
    IN  [correctness |-> IF setup.reduction = "sum" THEN SumOf(errs) ELSE MaxOf(errs),
         leakage     |-> evaluate_current_leakage(Observed(r, inputs)),
         latency     |-> Perf[r]]

\* Stopping at the bound is invisible to a caller that only asks whether the cost is
\* below max: a result below max is the exact cost, and a result at or above max means
\* that the exact cost is too.  The search accepts a rewrite on this.  The exact leakage
\* is that of the rewrite's own runs: nothing may be left of what ran before.
ShortCircuitSound ==
    [][Evaluated =>
         LET exact == run(fxns[last'.k].cost, ExactEnvironment(last'.rewrite))
         IN  IF last'.cost < last'.max THEN last'.cost = exact ELSE exact >= last'.max]_vars

\* With "correctness == 0" a rewrite is called correct exactly when it agrees with the
\* target on every test case, whatever the bound (as long as it lets one test case
\* run), and otherwise get_counter_example() is a test case on which it does not.
CounterExampleWitnesses ==
    [][Evaluated /\ last'.max > 0 /\ setup.fxns[last'.k].correctness # <<>> =>
         /\ last'.correct <=> PassesAll(last'.rewrite, inputs)
         /\ ~last'.correct =>
              /\ counter_example' \in 1..Len(inputs)
              /\ evaluate_error(last'.rewrite, inputs[counter_example']) > 0]_vars

\* Expressions of up to three operators, every operator at every place
Trees ==
    LET a    == Leaf(CHOOSE n \in LeafName : TRUE)
        b    == Constant(NumberOf[CHOOSE n \in Numeral : TRUE])
        flat == {a, b} \cup {Binary(op, a, b) : op \in DOMAIN BINOP}
    IN  flat \cup {Binary(op, e1, e2) : op \in DOMAIN BINOP, e1 \in flat, e2 \in flat}

\* The options mean what they say: the trees the cost functions begin with are those
\* the texts were written from, and so is that of every other expression, with
\* parentheses only where the documented precedence (cost_parser.h:69-75) or
\* associativity asks for them; all but those, and just those, in which == without
\* parentheses is an operand of a comparison or shift.
ParsedAsWritten ==
    ~built /\ inputs = <<>> =>
      /\ \A k \in 1..Len(fxns) : Written(fxns[k].cost, 0) = setup.fxns[k].cost
      /\ \A tree \in Trees : ReadBack(tree) <=> ~Misread(tree)
=============================================================================
