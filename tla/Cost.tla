-------------------------------- MODULE Cost --------------------------------
(***************************************************************************)
(* The cost functions of src/src/cost that decide the search: how far a    *)
(* rewrite's results are from the target's on a list of test cases         *)
(* (CorrectnessCost), and the expression that adds a performance term      *)
(* (ExprCost, for --cost "correctness + perf" and the default              *)
(* --correctness "correctness == 0").                                      *)
(*                                                                         *)
(* A rewrite is a model value.  What it does on an input is abstracted to  *)
(* the error code it ends with and the distance of its final state from    *)
(* the target's; the instruction level terms (gp, sse, flags, memory) are  *)
(* all inside that distance.                                               *)
(***************************************************************************)
EXTENDS Integers, Sequences

CONSTANTS
    Rewrite,      \* programs
    Target,       \* the program to be improved
    Input,        \* test cases
    Code,         \* Code[r][x]: the ErrorCode r ends with on x
    Distance,     \* Distance[r][x]: how far r's final state on x is from the target's
    Perf,         \* Perf[r]: the performance term
    SigPenalty    \* sig_penalty_

ASSUME CostAssumption ==
    /\ Target \in Rewrite
    /\ Code \in [Rewrite -> [Input -> {"normal", "signal"}]]
    /\ Distance \in [Rewrite -> [Input -> Nat]]
    /\ \A x \in Input : Distance[Target][x] = 0
    /\ Perf \in [Rewrite -> Nat]
    /\ SigPenalty \in Nat \ {0}

\* A testcase on which the target itself signals never counts against a rewrite
\* that ends the same way.
evaluate_error(r, x) ==
    IF Code[Target][x] # Code[r][x] THEN SigPenalty
    ELSE IF Code[Target][x] # "normal" THEN 0 ELSE Distance[r][x]

Errors(r, tests) == [i \in 1..Len(tests) |-> evaluate_error(r, tests[i])]

-----------------------------------------------------------------------------
(* Reductions.  Both stop adding testcases once the result reaches max.    *)

\* Mutant: stops one short of the bound.
sum_correctness_StopsEarly(errs, max) ==
    LET res[i \in 0..Len(errs)] ==
          IF i = 0 THEN 0
          ELSE IF res[i-1] + 1 < max THEN res[i-1] + errs[i] ELSE res[i-1]
    IN  res[Len(errs)]

sum_correctness(errs, max) ==
    LET res[i \in 0..Len(errs)] ==
          IF i = 0 THEN 0
          ELSE IF res[i-1] < max THEN res[i-1] + errs[i] ELSE res[i-1]
    IN  res[Len(errs)]

max_correctness(errs, max) ==
    LET res[i \in 0..Len(errs)] ==
          IF i = 0 THEN 0
          ELSE IF res[i-1] < max /\ res[i-1] < errs[i] THEN errs[i] ELSE res[i-1]
    IN  res[Len(errs)]

evaluate_correctness(reduction, errs, max) ==
    IF reduction = "sum" THEN sum_correctness(errs, max) ELSE max_correctness(errs, max)

\* Mutant: set after the index has been advanced.
counter_example_OffByOne(errs, max) ==
    IF max > 0 /\ \E i \in 1..Len(errs) : errs[i] # 0
    THEN 1 + CHOOSE i \in 1..Len(errs) : errs[i] # 0 /\ \A j \in 1..(i-1) : errs[j] = 0
    ELSE 0

\* counter_example_testcase_: the first testcase with an error, 0 if there is none
\* (nothing is evaluated when max is 0)
counter_example_testcase(errs, max) ==
    IF max > 0 /\ \E i \in 1..Len(errs) : errs[i] # 0
    THEN CHOOSE i \in 1..Len(errs) : errs[i] # 0 /\ \A j \in 1..(i-1) : errs[j] = 0
    ELSE 0

\* ExprCost::operator(): every leaf is evaluated with the same max, then combined.
fxn(r, tests, max) ==
    LET correctness == sum_correctness(Errors(r, tests), max)
    IN  [correct |-> correctness = 0, cost |-> correctness + Perf[r]]

\* CostFunction::max_cost: the default, which never short circuits.  0x1 << 62 in the
\* code; 2^30 here, as TLC's integers end below the code's.
max_cost == 1073741824

-----------------------------------------------------------------------------
(* Reference definitions: no short circuit *)

SumOf(errs) ==
    LET sum[i \in 0..Len(errs)] == IF i = 0 THEN 0 ELSE sum[i-1] + errs[i]
    IN  sum[Len(errs)]

MaxOf(errs) ==
    IF errs = <<>> THEN 0
    ELSE CHOOSE e \in {errs[i] : i \in 1..Len(errs)} : \A i \in 1..Len(errs) : errs[i] <= e

PassesAll(r, tests) == \A i \in 1..Len(tests) : evaluate_error(r, tests[i]) = 0

ExactCost(r, tests) == SumOf(Errors(r, tests)) + Perf[r]
=============================================================================
