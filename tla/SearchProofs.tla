---------------------------- MODULE SearchProofs ----------------------------
(***************************************************************************)
(* Proofs about Search::run, for every set of rewrites, training set, cost *)
(* function and limit.                                                     *)
(*                                                                         *)
(* The lemmas named after an action say that it keeps the invariant; the   *)
(* driver's proofs use them again, as its search phase takes these steps.  *)
(***************************************************************************)
EXTENDS Search, NatLemmas

-----------------------------------------------------------------------------
(* What an evaluation of the cost function that stops at its bound still says, *)
(* for every rewrite, every list of test cases and every bound                 *)

\* The partial sums that SumOf is defined by
Partial(errs, n, s) ==
    /\ s \in [0..n -> Nat]
    /\ s[0] = 0
    /\ \A i \in 1..n : s[i] = s[i-1] + errs[i]

\* The partial sums of sum_correctness, which stop growing at max
PartialUpTo(errs, n, max, s) ==
    /\ s \in [0..n -> Nat]
    /\ s[0] = 0
    /\ \A i \in 1..n : s[i] = IF s[i-1] < max THEN s[i-1] + errs[i] ELSE s[i-1]

\* SumOf is the last of the partial sums.
LEMMA SumOfPartial ==
    ASSUME NEW n \in Nat, NEW errs \in [1..n -> Nat]
    PROVE  \E s : Partial(errs, n, s) /\ SumOf(errs) = s[n]
<1> DEFINE F(f) == [i \in 0..n |-> IF i = 0 THEN 0 ELSE f[i-1] + errs[i]]
           h == CHOOSE f : f = F(f)
           step == [p \in (1..n) \X Nat |-> p[2] + errs[p[1]]]
<1>1. Len(errs) = n
  BY FunctionIsSeq
<1>2. SumOf(errs) = h[n]
  BY <1>1 DEF SumOf
<1>3. step \in [(1..n) \X Nat -> Nat]
  OBVIOUS
<1>4. PICK f : Recursive(f, n, Nat, 0, step)
  <2> HIDE DEF step
  <2>1. QED  BY <1>3, Recursion
<1>5. \A i \in 1..n : f[i] = f[i-1] + errs[i]
  <2> TAKE i \in 1..n
  <2>1. f[i-1] \in Nat /\ <<i, f[i-1]>> \in (1..n) \X Nat
    BY <1>4 DEF Recursive
  <2>2. step[<<i, f[i-1]>>] = f[i-1] + errs[i]
    BY <2>1
  <2>3. QED
    <3> HIDE DEF step
    <3>1. QED  BY <1>4, <2>2 DEF Recursive
<1>6. f = F(f)
  BY <1>4, <1>5 DEF Recursive
<1>7. h = F(h)
  BY <1>6
<1> HIDE DEF h
<1>8. h[0] = 0 /\ \A i \in 1..n : h[i] = h[i-1] + errs[i]
  BY <1>7
<1> DEFINE T == {i \in 0..n : h[i] \in Nat}
<1>9. \A i \in 0..n : i \in T
  <2>1. 0 \in T
    BY <1>8
  <2>2. \A i \in 0..(n-1) : i \in T => i + 1 \in T
    <3> SUFFICES ASSUME NEW i \in 0..(n-1), i \in T PROVE i + 1 \in T
      OBVIOUS
    <3>1. i + 1 \in 1..n /\ (i + 1) - 1 = i
      OBVIOUS
    <3>2. h[i+1] = h[i] + errs[i+1]
      BY <1>8, <3>1
    <3>3. QED  BY <3>1, <3>2
  <2> HIDE DEF T
  <2>3. QED  BY <2>1, <2>2, InductionFromZero
<1>10. h \in [0..n -> Nat]
  BY <1>7, <1>9
<1>11. QED  BY <1>2, <1>8, <1>10 DEF Partial
\* sum_correctness is the last of its partial sums.
LEMMA SumUpToPartial ==
    ASSUME NEW n \in Nat, NEW errs \in [1..n -> Nat], NEW max \in Nat
    PROVE  \E s : PartialUpTo(errs, n, max, s) /\ sum_correctness(errs, max) = s[n]
<1> DEFINE F(f) == [i \in 0..n |-> IF i = 0 THEN 0
                                  ELSE IF f[i-1] < max THEN f[i-1] + errs[i] ELSE f[i-1]]
           h == CHOOSE f : f = F(f)
           step == [p \in (1..n) \X Nat |-> IF p[2] < max THEN p[2] + errs[p[1]] ELSE p[2]]
<1>1. Len(errs) = n
  BY FunctionIsSeq
<1>2. sum_correctness(errs, max) = h[n]
  BY <1>1 DEF sum_correctness
<1>3. step \in [(1..n) \X Nat -> Nat]
  OBVIOUS
<1>4. PICK f : Recursive(f, n, Nat, 0, step)
  <2> HIDE DEF step
  <2>1. QED  BY <1>3, Recursion
<1>5. \A i \in 1..n : f[i] = IF f[i-1] < max THEN f[i-1] + errs[i] ELSE f[i-1]
  <2> TAKE i \in 1..n
  <2>1. f[i-1] \in Nat /\ <<i, f[i-1]>> \in (1..n) \X Nat
    BY <1>4 DEF Recursive
  <2>2. step[<<i, f[i-1]>>] = IF f[i-1] < max THEN f[i-1] + errs[i] ELSE f[i-1]
    BY <2>1
  <2>3. QED
    <3> HIDE DEF step
    <3>1. QED  BY <1>4, <2>2 DEF Recursive
<1>6. f = F(f)
  BY <1>4, <1>5 DEF Recursive
<1>7. h = F(h)
  BY <1>6
<1> HIDE DEF h
<1>8. h[0] = 0 /\ \A i \in 1..n : h[i] = IF h[i-1] < max THEN h[i-1] + errs[i] ELSE h[i-1]
  BY <1>7
<1> DEFINE T == {i \in 0..n : h[i] \in Nat}
<1>9. \A i \in 0..n : i \in T
  <2>1. 0 \in T
    BY <1>8
  <2>2. \A i \in 0..(n-1) : i \in T => i + 1 \in T
    <3> SUFFICES ASSUME NEW i \in 0..(n-1), i \in T PROVE i + 1 \in T
      OBVIOUS
    <3>1. i + 1 \in 1..n /\ (i + 1) - 1 = i
      OBVIOUS
    <3>2. h[i+1] = IF h[i] < max THEN h[i] + errs[i+1] ELSE h[i]
      BY <1>8, <3>1
    <3>3. QED  BY <3>1, <3>2
  <2> HIDE DEF T
  <2>3. QED  BY <2>1, <2>2, InductionFromZero
<1>10. h \in [0..n -> Nat]
  BY <1>7, <1>9
<1>11. QED  BY <1>2, <1>8, <1>10 DEF PartialUpTo

\* What a sum cut short at max says of the whole one: it never exceeds it, and below max
\* it is the whole sum.  The whole sum is 0 exactly if there is no error.
LEMMA SumCorrectness ==
    ASSUME NEW n \in Nat, NEW errs \in [1..n -> Nat], NEW max \in Nat
    PROVE  /\ sum_correctness(errs, max) \in Nat
           /\ SumOf(errs) \in Nat
           /\ sum_correctness(errs, max) <= SumOf(errs)
           /\ sum_correctness(errs, max) < max => sum_correctness(errs, max) = SumOf(errs)
           /\ SumOf(errs) = 0 <=> \A i \in 1..n : errs[i] = 0
<1>1. PICK s : Partial(errs, n, s) /\ SumOf(errs) = s[n]
  BY SumOfPartial
<1>2. PICK p : PartialUpTo(errs, n, max, p) /\ sum_correctness(errs, max) = p[n]
  BY SumUpToPartial
<1> DEFINE T == {i \in 0..n : /\ p[i] <= s[i]
                              /\ p[i] < max => p[i] = s[i]
                              /\ s[i] = 0 <=> \A j \in 1..i : errs[j] = 0}
<1>3. 0 \in T
  BY <1>1, <1>2 DEF Partial, PartialUpTo
<1>4. \A i \in 0..(n-1) : i \in T => i + 1 \in T
  <2> SUFFICES ASSUME NEW i \in 0..(n-1), i \in T PROVE i + 1 \in T
    OBVIOUS
  <2>1. i + 1 \in 1..n /\ (i + 1) - 1 = i /\ i \in 0..n /\ i + 1 \in 0..n
    OBVIOUS
  <2>2. s[i] \in Nat /\ p[i] \in Nat /\ s[i+1] \in Nat /\ p[i+1] \in Nat
        /\ errs[i+1] \in Nat
    BY <1>1, <1>2, <2>1 DEF Partial, PartialUpTo
  <2>3. s[i+1] = s[i] + errs[i+1]
    BY <1>1, <2>1 DEF Partial
  <2>4. p[i+1] = IF p[i] < max THEN p[i] + errs[i+1] ELSE p[i]
    BY <1>2, <2>1 DEF PartialUpTo
  <2>5. p[i+1] <= s[i+1] /\ (p[i+1] < max => p[i+1] = s[i+1])
    BY <2>2, <2>3, <2>4
  <2>6. (\A j \in 1..(i+1) : errs[j] = 0) <=> (\A j \in 1..i : errs[j] = 0) /\ errs[i+1] = 0
    <3>1. \A j \in 1..(i+1) : j \in 1..i \/ j = i + 1
      OBVIOUS
    <3>2. 1..i \subseteq 1..(i+1) /\ i + 1 \in 1..(i+1)
      OBVIOUS
    <3>3. QED  BY <3>1, <3>2
  <2>7. s[i+1] = 0 <=> s[i] = 0 /\ errs[i+1] = 0
    BY <2>2, <2>3
  <2>8. QED  BY <2>1, <2>5, <2>6, <2>7
<1>5. n \in T
  <2> HIDE DEF T
  <2>1. n \in 0..n
    OBVIOUS
  <2>2. QED  BY <1>3, <1>4, <2>1, InductionFromZero
<1>6. s[n] \in Nat /\ p[n] \in Nat
  BY <1>1, <1>2 DEF Partial, PartialUpTo
<1>7. QED  BY <1>1, <1>2, <1>5, <1>6
-----------------------------------------------------------------------------
(* The cost function *)

\* The error of a run is a natural.
LEMMA ErrorType ==
    ASSUME NEW r \in Rewrite, NEW x \in Input
    PROVE  evaluate_error(r, x) \in Nat
  BY CostAssumption DEF evaluate_error

\* Errors over a training set are naturals.
LEMMA ErrorsType ==
    ASSUME NEW r \in Rewrite, NEW tests \in Seq(Input)
    PROVE  /\ Len(tests) \in Nat
           /\ Errors(r, tests) \in [1..Len(tests) -> Nat]
           /\ \A i \in 1..Len(tests) : Errors(r, tests)[i] = evaluate_error(r, tests[i])
<1>1. \A i \in 1..Len(tests) : tests[i] \in Input
  OBVIOUS
<1>2. QED  BY <1>1, ErrorType DEF Errors

\* The target makes no error.
LEMMA TargetPasses ==
    ASSUME NEW tests \in Seq(Input)
    PROVE  PassesAll(Target, tests)
<1>1. \A i \in 1..Len(tests) : tests[i] \in Input
  OBVIOUS
<1>2. QED  BY <1>1, CostAssumption DEF PassesAll, evaluate_error

\* An evaluation with the bound max: it is correct exactly on rewrites that pass all the
\* tests (unless nothing was evaluated), and a result below the bound is the exact cost.
LEMMA Evaluated ==
    ASSUME NEW r \in Rewrite, NEW tests \in Seq(Input), NEW max \in Nat
    PROVE  /\ fxn(r, tests, max) \in [correct : BOOLEAN, cost : Nat]
           /\ ExactCost(r, tests) \in Nat
           /\ PassesAll(r, tests) <=> SumOf(Errors(r, tests)) = 0
           /\ PassesAll(r, tests) => ExactCost(r, tests) = Perf[r]
           /\ max > 0 => (fxn(r, tests, max).correct <=> PassesAll(r, tests))
           /\ max > 0 /\ fxn(r, tests, max).cost = 0 => PassesAll(r, tests)
           /\ fxn(r, tests, max).cost <= ExactCost(r, tests)
           /\ fxn(r, tests, max).cost < max => fxn(r, tests, max).cost = ExactCost(r, tests)
           /\ SumOf(Errors(r, tests)) < max => fxn(r, tests, max).cost = ExactCost(r, tests)
<1> DEFINE errs == Errors(r, tests)
           n == Len(tests)
           c == sum_correctness(errs, max)
           e == SumOf(errs)
<1>1. n \in Nat /\ errs \in [1..n -> Nat] /\ \A i \in 1..n : errs[i] = evaluate_error(r, tests[i])
  BY ErrorsType
<1>2. /\ c \in Nat /\ e \in Nat /\ c <= e
      /\ c < max => c = e
      /\ e = 0 <=> \A i \in 1..n : errs[i] = 0
  BY <1>1, SumCorrectness
<1>3. PassesAll(r, tests) <=> e = 0
  BY <1>1, <1>2 DEF PassesAll
<1>4. Perf[r] \in Nat
  BY CostAssumption
<1>5. fxn(r, tests, max) = [correct |-> c = 0, cost |-> c + Perf[r]]
      /\ ExactCost(r, tests) = e + Perf[r]
  BY DEF fxn, ExactCost
<1> HIDE DEF c, e, errs, n
<1>6. fxn(r, tests, max).correct = (c = 0) /\ fxn(r, tests, max).cost = c + Perf[r]
  BY <1>5
<1>7. fxn(r, tests, max) \in [correct : BOOLEAN, cost : Nat]
  BY <1>2, <1>4, <1>5
<1>8. max > 0 => (c = 0 <=> e = 0)
  BY <1>2
<1>9. max > 0 => (fxn(r, tests, max).correct <=> PassesAll(r, tests))
  BY <1>3, <1>6, <1>8
<1>10. /\ e + Perf[r] \in Nat
       /\ c + Perf[r] <= e + Perf[r]
       /\ c + Perf[r] < max => c + Perf[r] = e + Perf[r]
       /\ e < max => c + Perf[r] = e + Perf[r]
       /\ e = 0 => e + Perf[r] = Perf[r]
  BY <1>2, <1>4
<1>11. PassesAll(r, tests) <=> SumOf(Errors(r, tests)) = 0
  BY <1>3 DEF e, errs
<1>12. SumOf(Errors(r, tests)) < max => e < max
  BY DEF e, errs
<1>13. max > 0 /\ fxn(r, tests, max).cost = 0 => PassesAll(r, tests)
  BY <1>2, <1>3, <1>4, <1>6
<1>14. QED  BY <1>3, <1>5, <1>6, <1>7, <1>9, <1>10, <1>11, <1>12, <1>13

\* The counterexample kept by an evaluation that finds an error is a test with an error.
LEMMA CounterExample ==
    ASSUME NEW r \in Rewrite, NEW tests \in Seq(Input), NEW max \in Nat, max > 0,
           ~PassesAll(r, tests)
    PROVE  LET cex == counter_example_testcase(Errors(r, tests), max)
           IN  cex \in 1..Len(tests) /\ evaluate_error(r, tests[cex]) # 0
<1> DEFINE errs == Errors(r, tests)
           P(i) == errs[i] # 0 /\ \A j \in 1..(i-1) : errs[j] = 0
           T == {i \in 1..Len(errs) : errs[i] # 0}
<1>1. /\ Len(tests) \in Nat /\ errs \in [1..Len(tests) -> Nat]
      /\ \A i \in 1..Len(tests) : errs[i] = evaluate_error(r, tests[i])
  BY ErrorsType
<1>2. Len(errs) = Len(tests)
  BY <1>1, FunctionIsSeq
<1>3. T \in SUBSET Nat /\ T # {}
  BY <1>1, <1>2 DEF PassesAll
<1>4. PICK k \in T : \A i \in T : k <= i
  BY <1>3, LeastElement
<1>5. k \in 1..Len(errs) /\ P(k)
  BY <1>2, <1>4, <1>1
<1>6. max > 0 /\ \E i \in 1..Len(errs) : errs[i] # 0
  BY <1>5
<1>7. counter_example_testcase(errs, max) = CHOOSE i \in 1..Len(errs) : P(i)
  BY <1>6 DEF counter_example_testcase
<1>8. counter_example_testcase(errs, max) \in 1..Len(errs)
      /\ P(counter_example_testcase(errs, max))
  <2> HIDE DEF P, errs
  <2>1. QED  BY <1>5, <1>7
<1>9. QED  BY <1>1, <1>2, <1>8

-----------------------------------------------------------------------------
(* The invariant of a search *)

SearchTypeOK ==
    /\ state \in SearchState
    /\ training \in Seq(Input)
    /\ timeout_itr \in Nat
    /\ time_up \in BOOLEAN
    /\ give_up_now \in BOOLEAN
    /\ iterations \in Nat
    /\ num_iterations \in Nat
    /\ pc \in {"idle", "configured", "loop", "callback", "returned"}
    /\ stop_requested \in BOOLEAN

\* What run() is called with: a state as its constructor makes it
IdleFresh ==
    pc = "idle" =>
      /\ state.best_correct = Target
      /\ state.best_yet = state.current
      /\ ~state.interrupted

\* The loop is entered only with a rewrite that costs something, and a callback comes
\* only from an iteration, so that a run of no iterations ends for an outside reason.
Counting ==
    /\ pc = "configured" => state.current_cost > 0
    /\ pc = "loop" /\ iterations = 0 => state.current_cost > 0
    /\ pc = "callback" => iterations > 0
    /\ Running /\ timeout_itr > 0 => iterations <= timeout_itr
    /\ IterationsCounted

\* The flag of a stop requested in the loop stays up until the loop is left.
Stopping ==
    /\ pc = "configured" => ~stop_requested
    /\ Running /\ stop_requested => give_up_now
    /\ pc = "returned" /\ stop_requested => state.interrupted

SearchInv ==
    /\ SearchTypeOK
    /\ IdleFresh
    /\ BestSound
    /\ Counting
    /\ Stopping

-----------------------------------------------------------------------------
(* What the steps do to the state *)

\* The cost that stands for no cost yet is a positive number.
LEMMA MaxCostPositive == max_cost \in Nat /\ max_cost > 0
  BY DEF max_cost

\* SearchState's constructor makes a state.
LEMMA NewStateType ==
    ASSUME NEW r \in Rewrite
    PROVE  /\ NewState(r) \in SearchState
           /\ NewState(r).best_correct = Target
           /\ NewState(r).best_yet = NewState(r).current
           /\ ~NewState(r).interrupted
  BY CostAssumption DEF NewState, SearchState

\* configure evaluates the three rewrites without a bound.
LEMMA Configured ==
    ASSUME SearchTypeOK
    PROVE  LET st == configure(state)
           IN  /\ st \in SearchState
               /\ st.current = state.current /\ st.best_yet = state.best_yet
               /\ st.best_correct = state.best_correct /\ st.interrupted = state.interrupted
               /\ st.current_cost = fxn(state.current, training, max_cost).cost
               /\ st.best_yet_cost = fxn(state.best_yet, training, max_cost).cost
               /\ st.best_correct_cost = fxn(state.best_correct, training, max_cost).cost
               /\ ~st.success
<1>1. \A r \in Rewrite : fxn(r, training, max_cost).cost \in Nat
  <2> TAKE r \in Rewrite
  <2>1. fxn(r, training, max_cost) \in [correct : BOOLEAN, cost : Nat]
    BY Evaluated, MaxCostPositive DEF SearchTypeOK
  <2>2. QED  BY <2>1
<1>2. state \in SearchState
  BY DEF SearchTypeOK
<1>3. state.current \in Rewrite /\ state.best_yet \in Rewrite /\ state.best_correct \in Rewrite
  BY <1>2 DEF SearchState
<1>4. QED  BY <1>1, <1>2, <1>3 DEF configure, SearchState

\* An accepted proposal was evaluated below its bound: its cost is exact, and it counts as
\* correct exactly if it passes all the tests.
LEMMA AcceptEffect ==
    ASSUME SearchTypeOK, NEW r \in Rewrite, NEW slack \in Slack, Accept(r, slack)
    PROVE  \E cost \in Nat, new \in BOOLEAN :
             /\ cost = ExactCost(r, training)
             /\ new <=> PassesAll(r, training) /\ (cost = 0 \/ cost < state.best_correct_cost)
             /\ state' \in SearchState
             /\ state'.current = r /\ state'.current_cost = cost
             /\ state'.best_yet = IF cost < state.best_yet_cost THEN r ELSE state.best_yet
             /\ state'.best_yet_cost =
                  IF cost < state.best_yet_cost THEN cost ELSE state.best_yet_cost
             /\ state'.success <=> state.success \/ new
             /\ state'.best_correct = IF new THEN r ELSE state.best_correct
             /\ state'.best_correct_cost = IF new THEN cost ELSE state.best_correct_cost
             /\ state'.interrupted = state.interrupted
             /\ pc' = IF new THEN "callback" ELSE "loop"
<1> DEFINE max == state.current_cost + slack + 1
           res == Evaluation(r, slack)
           new == NewBestCorrect(res)
<1>1. slack \in Nat /\ state \in SearchState /\ training \in Seq(Input)
  BY SearchAssumption DEF SearchTypeOK
<1>2. state.current_cost \in Nat
  BY <1>1 DEF SearchState
<1>3. max \in Nat /\ max > 0 /\ res = fxn(r, training, max)
  BY <1>1, <1>2 DEF Evaluation
<1>4. /\ res \in [correct : BOOLEAN, cost : Nat]
      /\ res.correct <=> PassesAll(r, training)
      /\ res.cost < max => res.cost = ExactCost(r, training)
  <2> HIDE DEF max, res
  <2>1. QED  BY <1>1, <1>3, Evaluated
<1>5. res.cost \in Nat /\ res.correct \in BOOLEAN
  <2> HIDE DEF res
  <2>1. QED  BY <1>4
<1>6. res.cost = ExactCost(r, training)
  <2>1. res.cost <= state.current_cost + slack
    BY <1>1, <1>2, <1>5 DEF Accept, Rejected
  <2>2. res.cost < max
    BY <2>1, <1>1, <1>2, <1>5
  <2>3. QED  BY <2>2, <1>4
<1>7. state' = Accepted(r, res) /\ pc' = IF new THEN "callback" ELSE "loop"
  BY DEF Accept
<1>8. new \in BOOLEAN
      /\ (new <=> PassesAll(r, training) /\ (res.cost = 0 \/ res.cost < state.best_correct_cost))
  BY <1>4 DEF NewBestCorrect
<1> HIDE DEF max, res
<1>9. Accepted(r, res) =
        [state EXCEPT
           !.current = r, !.current_cost = res.cost,
           !.best_yet = IF res.cost < state.best_yet_cost THEN r ELSE @,
           !.best_yet_cost = IF res.cost < state.best_yet_cost THEN res.cost ELSE @,
           !.success = @ \/ new,
           !.best_correct = IF new THEN r ELSE @,
           !.best_correct_cost = IF new THEN res.cost ELSE @]
  BY DEF Accepted, NewBestCorrect
<1> HIDE DEF new
<1>10. /\ state' \in SearchState
       /\ state'.current = r /\ state'.current_cost = res.cost
       /\ state'.best_yet = IF res.cost < state.best_yet_cost THEN r ELSE state.best_yet
       /\ state'.best_yet_cost =
            IF res.cost < state.best_yet_cost THEN res.cost ELSE state.best_yet_cost
       /\ state'.success = (state.success \/ new)
       /\ state'.best_correct = IF new THEN r ELSE state.best_correct
       /\ state'.best_correct_cost = IF new THEN res.cost ELSE state.best_correct_cost
       /\ state'.interrupted = state.interrupted
  BY <1>1, <1>5, <1>7, <1>8, <1>9 DEF SearchState
<1>11. QED  BY <1>5, <1>6, <1>7, <1>8, <1>10
-----------------------------------------------------------------------------
(* The steps of run() keep the invariant *)

\* A constructor's state is all the invariant asks for before run() is called.
LEMMA IdleInv ==
    ASSUME SearchTypeOK, pc = "idle", NEW r \in Rewrite, state = NewState(r)
    PROVE  SearchInv
<1>1. IdleFresh
  BY NewStateType DEF IdleFresh
<1>2. BestSound /\ Counting /\ Stopping
  BY DEF BestSound, Counting, IterationsCounted, Stopping, Running
<1>3. QED  BY <1>1, <1>2 DEF SearchInv

\* Entering Search::run keeps the invariant.
LEMMA RunInv ==
    ASSUME SearchInv, Run
    PROVE  SearchInv'
<1> DEFINE st == configure(state)
           cost(r) == fxn(r, training, max_cost).cost
<1>1. SearchTypeOK /\ training \in Seq(Input) /\ state \in SearchState
  BY DEF SearchInv, SearchTypeOK
<1>2. state.best_correct = Target /\ state.best_yet = state.current /\ ~state.interrupted
  BY DEF SearchInv, IdleFresh, Run
<1>3. /\ st \in SearchState
      /\ st.current = state.current /\ st.best_yet = state.best_yet
      /\ st.best_correct = state.best_correct /\ st.interrupted = state.interrupted
      /\ st.current_cost = cost(state.current)
      /\ st.best_yet_cost = cost(state.best_yet)
      /\ st.best_correct_cost = cost(state.best_correct)
      /\ ~st.success
  BY <1>1, Configured
<1>4. state.current \in Rewrite
  BY <1>1 DEF SearchState
<1>5. cost(state.current) = 0 => PassesAll(state.current, training)
  BY <1>1, <1>4, Evaluated, MaxCostPositive
<1>6. PassesAll(Target, training)
  BY <1>1, TargetPasses
<1> HIDE DEF st, cost
<1>7. /\ UNCHANGED <<training, timeout_itr, time_up, give_up_now, iterations>>
      /\ stop_requested' = FALSE
  BY DEF Run
<1>8. CASE st.current_cost = 0
  <2>1. /\ state' = [st EXCEPT !.success = TRUE, !.best_correct = st.current,
                               !.best_correct_cost = 0]
        /\ num_iterations' = 1 /\ pc' = "returned"
    BY <1>8 DEF Run, st
  <2>2. /\ state' \in SearchState
        /\ state'.current_cost = 0 /\ state'.best_yet_cost = st.best_yet_cost
        /\ state'.best_correct = st.current /\ state'.best_correct_cost = 0
    BY <2>1, <1>3, <1>8 DEF SearchState
  <2>3. SearchTypeOK'
    BY <2>1, <2>2, <1>1, <1>7 DEF SearchTypeOK
  <2>4. BestSound'
    <3>1. PassesAll(state'.best_correct, training')
      BY <2>2, <1>3, <1>5, <1>7, <1>8
    <3>2. st.best_yet_cost = 0
      BY <1>2, <1>3, <1>8
    <3>3. QED  BY <2>2, <3>1, <3>2 DEF BestSound
  <2>5. Counting'
    <3>1. timeout_itr \in Nat
      BY <1>1 DEF SearchTypeOK
    <3>2. QED  BY <2>1, <1>7, <3>1 DEF Counting, IterationsCounted, Running
  <2>6. IdleFresh' /\ Stopping'
    BY <2>1, <1>7 DEF IdleFresh, Stopping, Running
  <2>7. QED  BY <2>3, <2>4, <2>5, <2>6 DEF SearchInv
<1>9. CASE st.current_cost # 0
  <2>1. state' = st /\ num_iterations' = 0 /\ pc' = "configured"
    BY <1>9 DEF Run, st
  <2>2. SearchTypeOK'
    BY <2>1, <1>1, <1>3, <1>7 DEF SearchTypeOK
  <2>3. st.current_cost \in Nat /\ st.best_yet_cost \in Nat
    BY <1>3 DEF SearchState
  <2>4. BestSound'
    BY <2>1, <2>3, <1>2, <1>3, <1>6, <1>7 DEF BestSound
  <2>5. IdleFresh' /\ Counting' /\ Stopping'
    BY <2>1, <2>3, <1>7, <1>9 DEF IdleFresh, Counting, IterationsCounted, Stopping, Running
  <2>6. QED  BY <2>2, <2>4, <2>5 DEF SearchInv
<1>10. QED  BY <1>8, <1>9

\* Leaving the preamble of Search::run keeps the invariant.
LEMMA StartLoopInv ==
    ASSUME SearchInv, StartLoop
    PROVE  SearchInv'
<1> USE DEF StartLoop
<1>1. SearchTypeOK'
  BY DEF SearchInv, SearchTypeOK
<1>2. IdleFresh' /\ BestSound'
  BY DEF SearchInv, IdleFresh, BestSound
<1>3. Counting' /\ Stopping'
  BY DEF SearchInv, SearchTypeOK, Counting, IterationsCounted, Stopping, Running
<1>4. QED  BY <1>1, <1>2, <1>3 DEF SearchInv

\* What every trip through the loop does
LEMMA StepEffect ==
    ASSUME SearchInv, Step
    PROVE  /\ pc = "loop" /\ ~give_up_now
           /\ iterations' = iterations + 1 /\ iterations' \in Nat /\ iterations' > 0
           /\ timeout_itr > 0 => iterations' <= timeout_itr
           /\ UNCHANGED <<training, timeout_itr, time_up, give_up_now, num_iterations,
                          stop_requested>>
<1>1. iterations \in Nat /\ timeout_itr \in Nat
  BY DEF SearchInv, SearchTypeOK
<1>2. timeout_itr > 0 => ~(iterations >= timeout_itr)
  BY DEF Step, Continues, TimedOut
<1>3. QED  BY <1>1, <1>2 DEF Step, Continues

\* A proposal without effect keeps the invariant.
LEMMA ProposalFailsInv ==
    ASSUME SearchInv, Step, UNCHANGED <<state, pc>>
    PROVE  SearchInv'
<1>1. SearchTypeOK'
  BY StepEffect DEF SearchInv, SearchTypeOK
<1>2. IdleFresh' /\ BestSound'
  BY StepEffect DEF SearchInv, IdleFresh, BestSound
<1>3. Counting'
  BY StepEffect DEF SearchInv, Counting, IterationsCounted, Running
<1>4. Stopping'
  BY StepEffect DEF SearchInv, Stopping, Running
<1>5. QED  BY <1>1, <1>2, <1>3, <1>4 DEF SearchInv

\* Accepting a proposal keeps the invariant: the new costs are those of the new program.
LEMMA AcceptInv ==
    ASSUME SearchInv, NEW r \in Rewrite, NEW slack \in Slack, Accept(r, slack)
    PROVE  SearchInv'
<1>1. Step
  BY DEF Accept
<1>2. SearchTypeOK /\ state \in SearchState
  BY DEF SearchInv, SearchTypeOK
<1>3. PICK cost \in Nat, new \in BOOLEAN :
             /\ cost = ExactCost(r, training)
             /\ new <=> PassesAll(r, training) /\ (cost = 0 \/ cost < state.best_correct_cost)
             /\ state' \in SearchState
             /\ state'.current = r /\ state'.current_cost = cost
             /\ state'.best_yet = IF cost < state.best_yet_cost THEN r ELSE state.best_yet
             /\ state'.best_yet_cost =
                  IF cost < state.best_yet_cost THEN cost ELSE state.best_yet_cost
             /\ state'.success <=> state.success \/ new
             /\ state'.best_correct = IF new THEN r ELSE state.best_correct
             /\ state'.best_correct_cost = IF new THEN cost ELSE state.best_correct_cost
             /\ state'.interrupted = state.interrupted
             /\ pc' = IF new THEN "callback" ELSE "loop"
  BY <1>2, AcceptEffect
<1>4. SearchTypeOK'
  BY <1>1, <1>2, <1>3, StepEffect DEF SearchTypeOK
<1>5. IdleFresh'
  BY <1>3 DEF IdleFresh
<1>6. BestSound'
  <2>1. /\ PassesAll(state.best_correct, training)
        /\ state.success => state.best_yet_cost <= state.best_correct_cost
    BY <1>1, StepEffect DEF SearchInv, BestSound
  <2>2. state.best_yet_cost \in Nat /\ state.best_correct_cost \in Nat
    BY <1>2 DEF SearchState
  <2>3. training' = training
    BY <1>1, StepEffect
  <2>4. PassesAll(state'.best_correct, training')
    BY <2>1, <2>3, <1>3
  <2>5. state'.best_yet_cost <= state'.current_cost
    BY <2>2, <1>3
  <2>6. state'.success => state'.best_yet_cost <= state'.best_correct_cost
    BY <2>1, <2>2, <1>3
  <2>7. QED  BY <2>4, <2>5, <2>6 DEF BestSound
<1>7. Counting'
  BY <1>1, <1>3, StepEffect DEF Counting, IterationsCounted, Running
<1>8. Stopping'
  BY <1>1, <1>3, StepEffect DEF SearchInv, Stopping, Running
<1>9. QED  BY <1>4, <1>5, <1>6, <1>7, <1>8 DEF SearchInv

\* Every way through the loop keeps the invariant.
LEMMA IterateInv ==
    ASSUME SearchInv, Iterate
    PROVE  SearchInv'
<1>1. CASE ProposalFails
  BY <1>1, ProposalFailsInv DEF ProposalFails
<1>2. ASSUME NEW r \in Rewrite, NEW slack \in Slack, Reject(r, slack) PROVE SearchInv'
  BY <1>2, ProposalFailsInv DEF Reject
<1>3. ASSUME NEW r \in Rewrite, NEW slack \in Slack, Accept(r, slack) PROVE SearchInv'
  BY <1>3, AcceptInv
<1>4. QED  BY <1>1, <1>2, <1>3 DEF Iterate

\* The return of the new_best_correct callback keeps the invariant.
LEMMA CallbackReturnsInv ==
    ASSUME SearchInv, NEW stops \in BOOLEAN, CallbackReturns(stops)
    PROVE  SearchInv'
<1> USE DEF CallbackReturns
<1>1. SearchTypeOK'
  BY DEF SearchInv, SearchTypeOK
<1>2. IdleFresh' /\ BestSound'
  BY DEF SearchInv, IdleFresh, BestSound
<1>3. Counting'
  BY DEF SearchInv, SearchTypeOK, Counting, IterationsCounted, Running
<1>4. Stopping'
  BY DEF SearchInv, Stopping, Running
<1>5. QED  BY <1>1, <1>2, <1>3, <1>4 DEF SearchInv

\* Leaving the loop keeps the invariant.
LEMMA FinishInv ==
    ASSUME SearchInv, Finish
    PROVE  SearchInv'
<1>1. SearchTypeOK /\ state \in SearchState /\ give_up_now \in BOOLEAN
  BY DEF SearchInv, SearchTypeOK
<1>2. /\ pc = "loop" /\ pc' = "returned" /\ num_iterations' = iterations
      /\ UNCHANGED <<training, timeout_itr, time_up, give_up_now, iterations, stop_requested>>
      /\ state' = [state EXCEPT !.interrupted = @ \/ give_up_now]
  BY DEF Finish
<1>3. /\ state' \in SearchState
      /\ state'.current_cost = state.current_cost /\ state'.best_yet_cost = state.best_yet_cost
      /\ state'.best_correct = state.best_correct
      /\ state'.best_correct_cost = state.best_correct_cost
      /\ state'.success = state.success
      /\ state'.interrupted = (state.interrupted \/ give_up_now)
  BY <1>1, <1>2 DEF SearchState
<1>4. SearchTypeOK'
  BY <1>1, <1>2, <1>3 DEF SearchTypeOK
<1>5. IdleFresh' /\ BestSound'
  BY <1>2, <1>3 DEF SearchInv, IdleFresh, BestSound
<1>6. Counting'
  <2>1. /\ timeout_itr > 0 => iterations <= timeout_itr
        /\ iterations = 0 => state.current_cost > 0
    BY <1>2 DEF SearchInv, Counting, Running
  <2>2. ~give_up_now /\ ~time_up => iterations >= 1
    <3>1. state.current_cost \in Nat /\ iterations \in Nat /\ timeout_itr \in Nat
      BY <1>1 DEF SearchTypeOK, SearchState
    <3>2. ~give_up_now /\ ~time_up =>
            ~(state.current_cost > 0) \/ (timeout_itr > 0 /\ iterations >= timeout_itr)
      BY DEF Finish, Continues, TimedOut
    <3>3. QED  BY <2>1, <3>1, <3>2
  <2>3. QED  BY <1>2, <1>3, <2>1, <2>2 DEF Counting, IterationsCounted, Running
<1>7. Stopping'
  BY <1>2, <1>3 DEF SearchInv, Stopping, Running
<1>8. QED  BY <1>4, <1>5, <1>6, <1>7 DEF SearchInv

\* A signal at any moment keeps the invariant.
LEMMA SigintInv ==
    ASSUME SearchInv, Sigint
    PROVE  SearchInv'
<1> USE DEF Sigint
<1>1. SearchTypeOK'
  BY DEF SearchInv, SearchTypeOK, Running
<1>2. IdleFresh' /\ BestSound'
  BY DEF SearchInv, IdleFresh, BestSound
<1>3. Counting'
  BY DEF SearchInv, Counting, IterationsCounted, Running
<1>4. Stopping'
  BY DEF SearchInv, Stopping, Running
<1>5. QED  BY <1>1, <1>2, <1>3, <1>4 DEF SearchInv

\* The passing of time keeps the invariant.
LEMMA TimePassesInv ==
    ASSUME SearchInv, TimePasses
    PROVE  SearchInv'
<1> USE DEF TimePasses
<1>1. SearchTypeOK'
  BY DEF SearchInv, SearchTypeOK
<1>2. IdleFresh' /\ BestSound'
  BY DEF SearchInv, IdleFresh, BestSound
<1>3. Counting'
  BY DEF SearchInv, Counting, IterationsCounted, Running
<1>4. Stopping'
  BY DEF SearchInv, Stopping, Running
<1>5. QED  BY <1>1, <1>2, <1>3, <1>4 DEF SearchInv

\* A further call of Search::run, with other test cases, keeps the invariant.
LEMMA AgainInv ==
    ASSUME SearchInv, NEW r \in Starts, NEW n \in Timeouts, Again(r, n)
    PROVE  SearchInv'
<1>1. r \in Rewrite /\ n \in Nat
  BY SearchAssumption
<1>2. SearchTypeOK'
  BY <1>1, NewStateType DEF SearchInv, SearchTypeOK, Again
<1>3. pc' = "idle" /\ state' = NewState(r)
  BY DEF Again
<1>4. IdleFresh'
  BY <1>1, <1>3, NewStateType DEF IdleFresh
<1>5. BestSound' /\ Counting' /\ Stopping'
  BY <1>3 DEF BestSound, Counting, IterationsCounted, Stopping, Running
<1>6. QED  BY <1>2, <1>4, <1>5 DEF SearchInv

\* A step of somebody else keeps the invariant.
LEMMA UnchangedInv ==
    ASSUME SearchInv, UNCHANGED search_vars
    PROVE  SearchInv'
  BY DEF SearchInv, SearchTypeOK, IdleFresh, BestSound, Counting, IterationsCounted, Stopping,
         Running, search_vars

\* The search starts in the invariant.
LEMMA InitInv == SearchInit => SearchInv
<1> SUFFICES ASSUME SearchInit PROVE SearchInv
  OBVIOUS
<1>1. PICK r \in Starts : state = NewState(r)
  BY DEF SearchInit
<1>2. r \in Rewrite
  BY SearchAssumption
<1>3. SearchTypeOK
  BY <1>1, <1>2, NewStateType, SearchAssumption DEF SearchInit, SearchTypeOK
<1>4. pc = "idle"
  BY DEF SearchInit
<1>5. QED  BY <1>1, <1>2, <1>3, <1>4, IdleInv

\* Every step of the search keeps the invariant.
LEMMA NextInv == SearchInv /\ [SearchNext]_search_vars => SearchInv'
<1> SUFFICES ASSUME SearchInv, [SearchNext]_search_vars PROVE SearchInv'
  OBVIOUS
<1>1. CASE Program
  BY <1>1, RunInv, StartLoopInv, IterateInv, CallbackReturnsInv, FinishInv DEF Program
<1>2. CASE Sigint \/ TimePasses
  BY <1>2, SigintInv, TimePassesInv
<1>3. ASSUME NEW r \in Starts, NEW n \in Timeouts, Again(r, n) PROVE SearchInv'
  BY <1>3, AgainInv
<1>4. CASE UNCHANGED search_vars
  BY <1>4, UnchangedInv
<1>5. QED  BY <1>1, <1>2, <1>3, <1>4 DEF SearchNext
-----------------------------------------------------------------------------
(* Theorems *)

\* The invariant holds in every state of a search that is run again and again, while
\* signals come and time passes.
THEOREM SearchInvHolds == SearchSpec => []SearchInv
  BY InitInv, NextInv, PTL DEF SearchSpec

\* The rewrite that run() hands out as correct, to the callback or when it returns, agrees
\* with the target on every test case, and no rewrite it has been at was cheaper than
\* best_yet.
THEOREM BestSoundHolds == SearchSpec => []BestSound
<1>1. SearchInv => BestSound
  BY DEF SearchInv
<1>2. QED  BY <1>1, SearchInvHolds, PTL

\* Search::run never exceeds timeout_itr_, and returns without an iteration only if it was
\* interrupted or out of time.
THEOREM IterationsCountedHolds == SearchSpec => []IterationsCounted
<1>1. SearchInv => IterationsCounted
  BY DEF SearchInv, Counting
<1>2. QED  BY <1>1, SearchInvHolds, PTL

\* After a signal or stop() during the loop, Search::run accepts no further rewrite and
\* returns as interrupted.
THEOREM StopHonouredHolds == SearchSpec => StopHonoured
<1> DEFINE Keeps == stop_requested /\ pc = "loop" => state'.current = state.current
<1>1. SearchInv /\ [SearchNext]_search_vars => [Keeps]_search_vars
  <2> SUFFICES ASSUME SearchInv, SearchNext, stop_requested, pc = "loop"
               PROVE  state'.current = state.current
    BY DEF search_vars
  <2>1. ~Step
    BY StepEffect DEF SearchInv, Stopping, Running
  <2>2. ~Iterate
    BY <2>1 DEF Iterate, ProposalFails, Reject, Accept
  <2>3. ~Run /\ ~StartLoop /\ \A stops \in BOOLEAN : ~CallbackReturns(stops)
    BY DEF Run, StartLoop, CallbackReturns
  <2>4. CASE Finish
    BY <2>4 DEF Finish, SearchInv, SearchTypeOK, SearchState
  <2>5. CASE Sigint \/ TimePasses
    BY <2>5 DEF Sigint, TimePasses
  <2>6. \A r \in Starts, n \in Timeouts : ~Again(r, n)
    BY DEF Again
  <2>7. QED  BY <2>2, <2>3, <2>4, <2>5, <2>6 DEF SearchNext, Program
<1>2. SearchInv => (pc = "returned" /\ stop_requested => state.interrupted)
  BY DEF SearchInv, Stopping
<1>3. QED  BY <1>1, <1>2, SearchInvHolds, PTL DEF SearchSpec, StopHonoured

\* The training set is one of those that CostsFit speaks of.
ExactInv == training \in Trainings /\ CostsExact

\* Search::run evaluates the first current rewrite without a bound.
LEMMA RunExact ==
    ASSUME SearchTypeOK, ExactInv, Run
    PROVE  CostsExact'
<1> DEFINE st == configure(state)
           cost(r) == fxn(r, training, max_cost).cost
<1>1. training \in Seq(Input) /\ training \in Trainings /\ state \in SearchState
      /\ training' = training
  BY DEF SearchTypeOK, ExactInv, Run
<1>2. \A r \in Rewrite : cost(r) = ExactCost(r, training)
  BY <1>1, CostsFit, Evaluated, MaxCostPositive
<1>3. /\ st \in SearchState
      /\ st.current = state.current /\ st.best_yet = state.best_yet
      /\ st.best_correct = state.best_correct
      /\ st.current_cost = cost(state.current)
      /\ st.best_yet_cost = cost(state.best_yet)
      /\ st.best_correct_cost = cost(state.best_correct)
  BY Configured
<1>4. state.current \in Rewrite /\ state.best_yet \in Rewrite /\ state.best_correct \in Rewrite
  BY <1>1 DEF SearchState
<1> HIDE DEF st, cost
<1>5. CASE st.current_cost = 0
  <2>1. state' = [st EXCEPT !.success = TRUE, !.best_correct = st.current,
                            !.best_correct_cost = 0]
    BY <1>5 DEF Run, st
  <2>2. /\ state'.current = st.current /\ state'.current_cost = st.current_cost
        /\ state'.best_yet = st.best_yet /\ state'.best_yet_cost = st.best_yet_cost
        /\ state'.best_correct = st.current /\ state'.best_correct_cost = 0
    BY <2>1, <1>3 DEF SearchState
  <2>3. QED  BY <1>1, <1>2, <1>3, <1>4, <1>5, <2>2 DEF CostsExact
<1>6. CASE st.current_cost # 0
  <2>1. state' = st
    BY <1>6 DEF Run, st
  <2>2. QED  BY <1>1, <1>2, <1>3, <1>4, <2>1 DEF CostsExact
<1>7. QED  BY <1>5, <1>6

\* What is accepted was not truncated.
LEMMA AcceptExact ==
    ASSUME SearchTypeOK, CostsExact, NEW r \in Rewrite, NEW slack \in Slack, Accept(r, slack)
    PROVE  CostsExact'
<1>1. training' = training /\ pc = "loop"
  BY DEF Accept, Step
<1>2. PICK cost \in Nat, new \in BOOLEAN :
        /\ cost = ExactCost(r, training)
        /\ state'.current = r /\ state'.current_cost = cost
        /\ state'.best_yet = IF cost < state.best_yet_cost THEN r ELSE state.best_yet
        /\ state'.best_yet_cost = IF cost < state.best_yet_cost THEN cost ELSE state.best_yet_cost
        /\ state'.best_correct = IF new THEN r ELSE state.best_correct
        /\ state'.best_correct_cost = IF new THEN cost ELSE state.best_correct_cost
  BY AcceptEffect
<1>3. QED  BY <1>1, <1>2 DEF CostsExact

\* The costs by which Search::run decides are the exact costs of the rewrites: no result
\* that the cost function cut short at its bound is kept.
THEOREM CostsExactHolds == SearchSpec => []CostsExact
<1>1. SearchInit => ExactInv
  BY DEF SearchInit, ExactInv, CostsExact
<1>2. SearchInv /\ ExactInv /\ [SearchNext]_search_vars => ExactInv'
  <2> SUFFICES ASSUME SearchInv, ExactInv, [SearchNext]_search_vars PROVE ExactInv'
    OBVIOUS
  <2>1. SearchTypeOK /\ state \in SearchState /\ CostsExact /\ training \in Trainings
    BY DEF SearchInv, SearchTypeOK, ExactInv
  <2>2. training' = training
    BY DEF SearchNext, Program, Run, StartLoop, Iterate, ProposalFails, Reject, Accept, Step,
           CallbackReturns, Finish, Sigint, TimePasses, Again, search_vars
  <2>3. CASE Run
    BY <2>1, <2>2, <2>3, RunExact DEF ExactInv
  <2>4. CASE StartLoop \/ \E stops \in BOOLEAN : CallbackReturns(stops)
    BY <2>1, <2>2, <2>4 DEF StartLoop, CallbackReturns, CostsExact, ExactInv
  <2>5. CASE ProposalFails
    BY <2>1, <2>2, <2>5 DEF ProposalFails, CostsExact, ExactInv
  <2>6. ASSUME NEW r \in Rewrite, NEW slack \in Slack, Reject(r, slack) PROVE ExactInv'
    BY <2>1, <2>2, <2>6 DEF Reject, CostsExact, ExactInv
  <2>7. ASSUME NEW r \in Rewrite, NEW slack \in Slack, Accept(r, slack) PROVE ExactInv'
    BY <2>1, <2>2, <2>7, AcceptExact DEF ExactInv
  <2>8. CASE Finish
    BY <2>1, <2>2, <2>8 DEF Finish, SearchState, CostsExact, ExactInv
  <2>9. CASE Sigint \/ TimePasses \/ UNCHANGED search_vars
    BY <2>1, <2>2, <2>9 DEF Sigint, TimePasses, search_vars, CostsExact, ExactInv
  <2>10. ASSUME NEW r \in Starts, NEW n \in Timeouts, Again(r, n) PROVE ExactInv'
    BY <2>1, <2>2, <2>10 DEF Again, CostsExact, ExactInv
  <2>11. QED
    BY <2>3, <2>4, <2>5, <2>6, <2>7, <2>8, <2>9, <2>10 DEF SearchNext, Program, Iterate
<1>3. ExactInv => CostsExact
  BY DEF ExactInv
<1>4. QED  BY <1>1, <1>2, <1>3, SearchInvHolds, PTL DEF SearchSpec
=============================================================================
