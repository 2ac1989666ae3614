------------------------- MODULE StokeSearchProofs -------------------------
(***************************************************************************)
(* Proofs about the sequence of verifiers and the cycles of stoke_search,  *)
(* for every set of rewrites and inputs, every strategy, test set, command *)
(* line and number of cycles.                                              *)
(***************************************************************************)
EXTENDS StokeSearch, SearchProofs

-----------------------------------------------------------------------------
(* The verifier *)

VerifierTypeOK ==
    /\ member_error \in [Members -> BOOLEAN]
    /\ has_error \in BOOLEAN
    /\ counterexamples \in Seq(Input)
    /\ call.rewrite \in Rewrite
    /\ call.good \in BOOLEAN

\* The strategies are verifiers.
LEMMA StrategyType ==
    Len(Strategy) \in Nat \ {0} /\ \A k \in Members : Strategy[k] \in Verifiers
  BY StrategyAssumption DEF Members

\* Counterexamples are test cases.
LEMMA RefutesType ==
    ASSUME NEW r \in Rewrite, NEW x \in Input
    PROVE  x \in Refutes(r) <=> evaluate_error(r, x) # 0
  BY ErrorType DEF Refutes

\* hold_out accepts only what passes its whole test set, and its counterexample is a test
\* that fails.
LEMMA HoldOutSound ==
    ASSUME NEW r \in Rewrite
    PROVE  /\ HoldOut(r).good \in BOOLEAN /\ HoldOut(r).err = FALSE
           /\ HoldOut(r).cex \in Seq(Refutes(r))
           /\ HoldOut(r).good => TestSet # <<>> /\ PassesAll(r, TestSet)
<1> DEFINE errs == Errors(r, TestSet)
           cex  == counter_example_testcase(errs, max_cost)
<1>1. TestSet \in Seq(Input)
  BY StrategyAssumption
<1>2. CASE TestSet = <<>>
  BY <1>2 DEF HoldOut, Failed, Outcome
<1>3. CASE TestSet # <<>> /\ sum_correctness(errs, max_cost) # 0
  <2>1. HoldOut(r) = Outcome(FALSE, FALSE, <<TestSet[cex]>>)
    BY <1>3 DEF HoldOut, Failed
  <2>2. ~PassesAll(r, TestSet)
    <3>1. /\ Len(TestSet) \in Nat /\ errs \in [1..Len(TestSet) -> Nat]
          /\ \A i \in 1..Len(TestSet) : errs[i] = evaluate_error(r, TestSet[i])
      BY <1>1, ErrorsType
    <3> HIDE DEF errs
    <3>2. /\ sum_correctness(errs, max_cost) \in Nat /\ SumOf(errs) \in Nat
          /\ sum_correctness(errs, max_cost) <= SumOf(errs)
          /\ SumOf(errs) = 0 <=> \A i \in 1..Len(TestSet) : errs[i] = 0
      BY <3>1, SumCorrectness, MaxCostPositive
    <3>3. QED  BY <1>3, <3>1, <3>2 DEF PassesAll
  <2>3. cex \in 1..Len(TestSet) /\ evaluate_error(r, TestSet[cex]) # 0
    BY <1>1, <2>2, CounterExample, MaxCostPositive
  <2> HIDE DEF cex
  <2>4. TestSet[cex] \in Input
    BY <1>1, <2>3
  <2>5. TestSet[cex] \in Refutes(r)
    BY <2>3, <2>4, RefutesType
  <2>6. QED  BY <2>1, <2>5 DEF Outcome
<1>4. CASE TestSet # <<>> /\ sum_correctness(errs, max_cost) = 0
  <2>1. HoldOut(r) = Outcome(TRUE, FALSE, <<>>)
    BY <1>4 DEF HoldOut, Passed
  <2>2. PassesAll(r, TestSet)
    <3>1. /\ Len(TestSet) \in Nat /\ errs \in [1..Len(TestSet) -> Nat]
          /\ \A i \in 1..Len(TestSet) : errs[i] = evaluate_error(r, TestSet[i])
      BY <1>1, ErrorsType
    <3> HIDE DEF errs
    <3>2. /\ sum_correctness(errs, max_cost) < max_cost =>
               sum_correctness(errs, max_cost) = SumOf(errs)
          /\ SumOf(errs) = 0 <=> \A i \in 1..Len(TestSet) : errs[i] = 0
      BY <3>1, SumCorrectness, MaxCostPositive
    <3>3. QED  BY <1>4, <3>1, <3>2, MaxCostPositive DEF PassesAll
  <2>3. QED  BY <1>4, <2>1, <2>2 DEF Outcome
<1>5. QED  BY <1>2, <1>3, <1>4

\* The leakage validator has nothing against the rewrite but a leak.
Leaks(v, r) == v = "leakage" /\ EquivalentUpToBound(r) /\ r \in Leaky

\* What a member vouches for when it accepts
Vouched(v, r) ==
    /\ v \in {"bounded", "leakage"} => EquivalentUpToBound(r)
    /\ v = "leakage" => r \notin Leaky
    /\ v = "ddec" => Equivalent(r)
    /\ v = "hold_out" => TestSet # <<>> /\ PassesAll(r, TestSet)

\* Lists of inputs are sequences.
LEMMA ListsAreSeqs ==
    ASSUME NEW T, NEW cex \in Lists(T)
    PROVE  cex \in Seq(T)
<1>1. PICK n \in 0..MaxCex : cex \in [1..n -> T]
  BY DEF Lists
<1>2. n \in Nat
  BY StrategyAssumption
<1>3. QED  BY <1>1, <1>2, FunctionIsSeq

\* An answer other than acceptance: an error, or counterexamples that refute the rewrite.
LEMMA NotProvedSound ==
    ASSUME NEW r \in Rewrite, NEW out \in NotProved(r)
    PROVE  /\ out.good = FALSE /\ out.err \in BOOLEAN
           /\ out.cex \in Seq(Refutes(r))
<1>1. CASE out = Erring
  BY <1>1 DEF Erring, Outcome
<1>2. ASSUME NEW cex \in Lists(Refutes(r) \cap Covered[r]), out = Failed(cex)
      PROVE  out.good = FALSE /\ out.err = FALSE /\ out.cex \in Seq(Refutes(r))
  <2>1. cex \in Seq(Refutes(r) \cap Covered[r])
    BY ListsAreSeqs
  <2>2. cex \in Seq(Refutes(r))
    BY <2>1
  <2>3. QED  BY <1>2, <2>2 DEF Failed, Outcome
<1>3. QED  BY <1>1, <1>2 DEF NotProved

\* What a member's answer says of the rewrite
LEMMA OutcomeSound ==
    ASSUME NEW r \in Rewrite, NEW v \in Verifiers, NEW out \in Outcomes(v, r)
    PROVE  /\ out.good \in BOOLEAN /\ out.err \in BOOLEAN
           /\ out.cex \in Seq(Input)
           /\ Leaks(v, r) \/ out.cex \in Seq(Refutes(r))
           /\ out.good => Vouched(v, r)
<1>1. Refutes(r) \subseteq Input
  BY DEF Refutes
<1>2. out.cex \in Seq(Refutes(r)) => out.cex \in Seq(Input)
  BY <1>1
<1>3. /\ Passed.good = TRUE /\ Passed.err = FALSE
      /\ Passed.cex \in Seq(Input) /\ Passed.cex \in Seq(Refutes(r))
  <2>1. Passed.good = TRUE /\ Passed.err = FALSE /\ Passed.cex = <<>>
    BY DEF Passed, Outcome
  <2>2. QED  BY <2>1
<1>4. CASE v = "hold_out"
  <2>1. out = HoldOut(r)
    BY <1>4 DEF Outcomes
  <2>2. QED  BY <1>2, <1>4, <2>1, HoldOutSound DEF Vouched
<1>5. CASE v = "bounded"
  <2>1. out \in Bounded(r)
    BY <1>5 DEF Outcomes
  <2>2. CASE out \in NotProved(r)
    BY <1>2, <2>2, NotProvedSound
  <2>3. CASE out = Passed /\ EquivalentUpToBound(r)
    BY <1>3, <1>5, <2>3 DEF Vouched
  <2>4. QED  BY <2>1, <2>2, <2>3 DEF Bounded
<1>6. CASE v = "leakage"
  <2>1. out \in Leakage(r)
    BY <1>6 DEF Outcomes
  <2>2. CASE out \in NotProved(r)
    BY <1>2, <2>2, NotProvedSound
  <2>3. CASE out = Passed /\ EquivalentUpToBound(r) /\ r \notin Leaky
    BY <1>3, <1>6, <2>3 DEF Vouched
  <2>4. ASSUME NEW cex \in Lists(Input), out = Failed(cex), EquivalentUpToBound(r), r \in Leaky
        PROVE  out.good = FALSE /\ out.err = FALSE /\ out.cex \in Seq(Input) /\ Leaks(v, r)
    <3>1. cex \in Seq(Input)
      BY ListsAreSeqs
    <3>2. QED  BY <1>6, <2>4, <3>1 DEF Failed, Outcome, Leaks
  <2>5. QED  BY <2>1, <2>2, <2>3, <2>4 DEF Leakage
<1>7. CASE v = "ddec"
  <2>1. out \in Ddec(r)
    BY <1>7 DEF Outcomes
  <2>2. CASE out = Passed /\ Equivalent(r)
    BY <1>3, <1>7, <2>2 DEF Vouched
  <2>3. CASE out \in {Failed(<<>>), Erring}
    <3>1. out.good = FALSE /\ out.err \in BOOLEAN /\ out.cex = <<>>
      <4>1. CASE out = Failed(<<>>)
        BY <4>1 DEF Failed, Outcome
      <4>2. CASE out = Erring
        BY <4>2 DEF Erring, Outcome
      <4>3. QED  BY <2>3, <4>1, <4>2
    <3>2. out.cex \in Seq(Input) /\ out.cex \in Seq(Refutes(r))
      BY <3>1
    <3>3. QED  BY <3>1, <3>2
  <2>4. QED  BY <2>1, <2>2, <2>3 DEF Ddec
<1>8. CASE v = "none"
  <2>1. out = Passed
    BY <1>8 DEF Outcomes
  <2>2. QED  BY <1>3, <1>8, <2>1 DEF Vouched
<1>9. QED  BY <1>4, <1>5, <1>6, <1>7, <1>8 DEF Verifiers

\* The sequence stops at its first failing member, and accepts if there is none.
LEMMA StopsAtFirst ==
    ASSUME NEW o
    PROVE  /\ Stop(o) \in 1..(Len(Strategy) + 1)
           /\ Accepts(o) <=> \A k \in Members : ~Fails(o, k)
           /\ ~Accepts(o) => Stop(o) \in Members
<1>1. Len(Strategy) \in Nat \ {0}
  BY StrategyType
<1>2. CASE \E k \in Members : Fails(o, k)
  <2> DEFINE P(k) == Fails(o, k) /\ \A m \in 1..(k-1) : ~Fails(o, m)
             T == {k \in Members : Fails(o, k)}
  <2>1. T \in SUBSET Nat /\ T # {}
    BY <1>1, <1>2 DEF Members
  <2>2. PICK k \in T : \A m \in T : k <= m
    BY <2>1, LeastElement
  <2>3. k \in Members /\ P(k)
    BY <1>1, <2>1, <2>2 DEF Members
  <2>4. Stop(o) = CHOOSE m \in Members : P(m)
    BY <1>2 DEF Stop
  <2>5. Stop(o) \in Members /\ P(Stop(o))
    <3> HIDE DEF P
    <3>1. QED  BY <2>3, <2>4
  <2>6. Stop(o) \in 1..(Len(Strategy) + 1) /\ Stop(o) # Len(Strategy) + 1
    BY <1>1, <2>5 DEF Members
  <2>7. QED  BY <1>2, <2>5, <2>6 DEF Accepts
<1>3. CASE ~\E k \in Members : Fails(o, k)
  BY <1>1, <1>3 DEF Stop, Accepts
<1>4. QED  BY <1>2, <1>3

\* The inputs refute the rewrite, unless it is one that the leakage validator may refuse.
RefutedBy(r, cex) == Objectionable(r) \/ \A i \in 1..Len(cex) : cex[i] \in Refutes(r)

\* A call of verify() answers for the rewrite it was given, and leaves its counterexamples.
LEMMA VerifyEffect ==
    ASSUME VerifierTypeOK, NEW r \in Rewrite, NEW o \in Answers[r], verify(r, o)
    PROVE  /\ VerifierTypeOK'
           /\ AcceptedByAll' /\ CounterExamplesRefute'
           /\ call'.rewrite = r /\ call'.good = Accepts(o)
           /\ Called'
           /\ ~Accepts(o) /\ ~has_error' => RefutedBy(r, counterexamples')
<1> DEFINE k == Stop(o)
           err == k \in Members /\ MemberError(k, o[k])
<1>1. Len(Strategy) \in Nat \ {0} /\ \A m \in Members : Strategy[m] \in Verifiers
  BY StrategyType
<1>2. \A m \in Members : o[m] \in Outcomes(Strategy[m], r)
  BY DEF Answers
<1>3. \A m \in Members :
         /\ o[m].good \in BOOLEAN /\ o[m].err \in BOOLEAN
         /\ o[m].cex \in Seq(Input)
         /\ Leaks(Strategy[m], r) \/ o[m].cex \in Seq(Refutes(r))
         /\ o[m].good => Vouched(Strategy[m], r)
  BY <1>1, <1>2, OutcomeSound
<1>4. /\ k \in 1..(Len(Strategy) + 1)
      /\ Accepts(o) <=> \A m \in Members : ~Fails(o, m)
      /\ ~Accepts(o) => k \in Members
  BY StopsAtFirst
<1>5. /\ member_error' = [m \in Members |->
             IF m <= k THEN MemberError(m, o[m]) ELSE member_error[m]]
      /\ has_error' = (has_error \/ err)
      /\ counterexamples' = IF k \in Members /\ ~err THEN o[k].cex ELSE counterexamples
      /\ call' = [rewrite |-> r, stop |-> k, good |-> Accepts(o)]
  BY DEF verify
<1>6. /\ call'.rewrite = r /\ call'.good = Accepts(o) /\ call'.stop = k
  BY <1>5
<1>7. \A m \in Members : MemberError(m, o[m]) \in BOOLEAN
  BY <1>1, <1>3 DEF MemberError, VerifierTypeOK, Verifiers
<1>8. VerifierTypeOK'
  <2>1. member_error' \in [Members -> BOOLEAN] /\ has_error' \in BOOLEAN
    <3> HIDE DEF k
    <3>1. QED  BY <1>5, <1>7 DEF VerifierTypeOK
  <2>2. counterexamples' \in Seq(Input)
    <3> HIDE DEF k, err
    <3>1. QED  BY <1>3, <1>5 DEF VerifierTypeOK
  <2>3. call'.rewrite \in Rewrite /\ call'.good \in BOOLEAN
    BY <1>6 DEF Accepts
  <2>4. QED  BY <2>1, <2>2, <2>3 DEF VerifierTypeOK
<1>9. AcceptedByAll'
  <2> SUFFICES ASSUME Accepts(o), NEW m \in Members
               PROVE  Vouched(Strategy[m], r)
    BY <1>6 DEF AcceptedByAll, Vouched
  <2>1. o[m].good
    BY <1>3, <1>4 DEF Fails
  <2>2. QED  BY <1>3, <2>1
<1>10. ASSUME ~Accepts(o), ~err
       PROVE  /\ k \in Members
              /\ Leaks(Strategy[k], r) \/ counterexamples' \in Seq(Refutes(r))
  <2>1. k \in Members
    BY <1>4, <1>10
  <2>2. counterexamples' = o[k].cex
    BY <1>5, <1>10, <2>1
  <2>3. Leaks(Strategy[k], r) \/ o[k].cex \in Seq(Refutes(r))
    BY <1>3, <2>1
  <2> HIDE DEF k
  <2>4. QED  BY <2>1, <2>2, <2>3
<1>11. CounterExamplesRefute'
  <2> SUFFICES ASSUME ~Accepts(o), ~Erred'
               PROVE  \/ LeakFound'
                      \/ \A i \in 1..Len(counterexamples') : counterexamples'[i] \in Refutes(r)
    BY <1>6 DEF CounterExamplesRefute
  <2>1. k \in Members /\ k <= k
    BY <1>1, <1>4 DEF Members
  <2>2. member_error'[k] = MemberError(k, o[k])
    <3> HIDE DEF k
    <3>1. QED  BY <1>5, <2>1
  <2>3. ~err
    BY <1>6, <2>1, <2>2 DEF Erred
  <2>4. CASE Leaks(Strategy[k], r)
    BY <1>6, <2>1, <2>4 DEF Leaks, LeakFound
  <2>5. CASE counterexamples' \in Seq(Refutes(r))
    BY <2>5
  <2>6. QED  BY <1>10, <2>3, <2>4, <2>5
<1>12. Called'
  <2>1. k # 0
    BY <1>1, <1>4
  <2>2. QED  BY <1>6, <2>1 DEF Called
<1>13. ~Accepts(o) /\ ~has_error' => RefutedBy(r, counterexamples')
  <2> SUFFICES ASSUME ~Accepts(o), ~has_error'
               PROVE  RefutedBy(r, counterexamples')
    OBVIOUS
  <2>1. ~err
    BY <1>5
  <2>2. CASE Leaks(Strategy[k], r)
    BY <1>10, <2>1, <2>2 DEF Leaks, RefutedBy, Objectionable, Uses
  <2>3. CASE counterexamples' \in Seq(Refutes(r))
    BY <2>3 DEF RefutedBy
  <2>4. QED  BY <1>10, <2>1, <2>2, <2>3
<1>14. QED  BY <1>6, <1>8, <1>9, <1>11, <1>12, <1>13

-----------------------------------------------------------------------------
(* The driver's invariant *)

DriverTypeOK ==
    /\ options \in Options
    /\ phase \in {"cycle", "search", "verify", "decide", "exited"}
    /\ cycle \in 0..MaxCycles
    /\ total_iterations \in Nat
    /\ cached \in [first : BOOLEAN, second : BOOLEAN, has_error : BOOLEAN, cex : Seq(Input)]
    /\ exit \in {"running", "verified", "failed", "interrupted"}

\* From the start of a search to the decision on its result, the state is one that run()
\* made; the search has returned when its result is verified.
Working == phase \in {"search", "verify", "decide"}

SearchPart ==
    /\ SearchTypeOK
    /\ Working => SearchInv
    /\ phase \in {"verify", "decide"} => pc = "returned"
    /\ pc = "callback" => state.best_correct = state.current

CyclePart ==
    /\ Working => cycle < MaxCycles
    /\ phase # "exited" <=> exit = "running"
    /\ phase = "cycle" /\ TimeoutIterations # 0 => total_iterations < TimeoutIterations
    /\ ReferencesCurrent

VerifierPart ==
    /\ VerifierTypeOK
    /\ AcceptedByAll
    /\ CounterExamplesRefute
    /\ call.good => Called

\* The result kept is about the present best_correct, none is kept when a search begins,
\* and the counterexamples that may join the training set refute best_correct, or it leaks.
CachePart ==
    /\ CachedResultFresh
    /\ phase = "search" /\ pc = "idle" => ~cached.first
    /\ phase = "decide" =>
         /\ cached.first
         /\ ~cached.second /\ ~cached.has_error => RefutedBy(state.best_correct, cached.cex)

DriverInv ==
    /\ DriverTypeOK
    /\ SearchPart
    /\ CyclePart
    /\ VerifierPart
    /\ CachePart
    /\ SuccessVerified

\* The limit of a running cycle stops the loop before the total passes the budget.
BudgetInv ==
    TimeoutIterations # 0 =>
      /\ total_iterations <= TimeoutIterations
      /\ phase = "search" =>
           timeout_itr > 0 /\ total_iterations + timeout_itr <= TimeoutIterations
-----------------------------------------------------------------------------
(* The steps of main() keep the invariant *)

\* Of a step of run(): best_correct changes only when run() begins, or in a step that goes
\* on to the callback with the new one.
LEMMA SearchStepEffect ==
    ASSUME SearchInv, Run \/ StartLoop \/ Iterate \/ Finish
    PROVE  /\ SearchInv'
           /\ UNCHANGED <<training, timeout_itr>>
           /\ pc' # "idle"
           /\ pc' = "callback" => state'.best_correct = state'.current
           /\ pc # "idle" /\ pc' # "callback" => state'.best_correct = state.best_correct
<1>1. SearchTypeOK /\ state \in SearchState
  BY DEF SearchInv, SearchTypeOK
<1>2. CASE Run
  <2>1. SearchInv'
    BY <1>2, RunInv
  <2>2. pc = "idle" /\ pc' \in {"configured", "returned"} /\ UNCHANGED <<training, timeout_itr>>
    BY <1>2 DEF Run
  <2>3. QED  BY <2>1, <2>2
<1>3. CASE StartLoop
  <2>1. SearchInv'
    BY <1>3, StartLoopInv
  <2>2. QED  BY <1>3, <2>1 DEF StartLoop
<1>4. CASE Iterate
  <2>1. SearchInv'
    BY <1>4, IterateInv
  <2>2. CASE Step /\ UNCHANGED <<state, pc>>
    BY <2>1, <2>2 DEF Step
  <2>3. ASSUME NEW r \in Rewrite, NEW slack \in Slack, Accept(r, slack)
        PROVE  /\ UNCHANGED <<training, timeout_itr>>
               /\ pc' # "idle"
               /\ pc' = "callback" => state'.best_correct = state'.current
               /\ pc' # "callback" => state'.best_correct = state.best_correct
    <3>1. PICK new \in BOOLEAN :
             /\ state'.current = r
             /\ state'.best_correct = IF new THEN r ELSE state.best_correct
             /\ pc' = IF new THEN "callback" ELSE "loop"
      BY <1>1, <2>3, AcceptEffect
    <3>2. QED  BY <2>3, <3>1 DEF Accept, Step
  <2>4. QED  BY <1>4, <2>1, <2>2, <2>3 DEF Iterate, ProposalFails, Reject
<1>5. CASE Finish
  <2>1. SearchInv'
    BY <1>5, FinishInv
  <2>2. QED  BY <1>1, <1>5, <2>1 DEF Finish, SearchState
<1>6. QED  BY <1>2, <1>3, <1>4, <1>5

\* A verifier that is not called keeps its state.
LEMMA VerifierUnchanged ==
    ASSUME VerifierPart, UNCHANGED verifier_vars
    PROVE  VerifierPart'
  BY DEF VerifierPart, VerifierTypeOK, verifier_vars, AcceptedByAll, CounterExamplesRefute,
         Called, Erred, LeakFound

\* Steps of main() that leave the search as it is
LEMMA SearchUnchanged ==
    ASSUME SearchPart, UNCHANGED search_vars,
           Working' => SearchInv,
           phase' \in {"verify", "decide"} => pc = "returned"
    PROVE  SearchPart'
<1>1. SearchTypeOK'
  BY DEF SearchPart, SearchTypeOK, search_vars
<1>2. Working' => SearchInv'
  BY UnchangedInv
<1>3. QED  BY <1>1, <1>2 DEF SearchPart, search_vars

\* Beginning a cycle keeps the invariant.
LEMMA BeginCycleInv ==
    ASSUME DriverInv, NEW r \in Starts, BeginCycle(r), UNCHANGED options
    PROVE  DriverInv'
<1>1. r \in Rewrite
  BY SearchAssumption
<1>2. /\ phase = "cycle" /\ cycle < MaxCycles /\ phase' = "search" /\ pc' = "idle"
      /\ reference_out' = training /\ timeout_itr' = CycleLimit
      /\ state' = NewState(r) /\ cached' = NothingCached
      /\ UNCHANGED <<training, time_up, give_up_now, iterations, num_iterations, stop_requested>>
      /\ UNCHANGED <<cycle, total_iterations, saved, exit>> /\ UNCHANGED verifier_vars
  BY DEF BeginCycle
<1>3. DriverTypeOK /\ SearchTypeOK /\ exit = "running"
  BY <1>2 DEF DriverInv, SearchPart, CyclePart
<1>4. CycleLimit \in Nat
  <2>1. CycleTimeout(cycle) \in Nat
    BY <1>3, DriverAssumption DEF DriverTypeOK
  <2>2. TimeoutIterations # 0 => total_iterations < TimeoutIterations
    BY <1>2 DEF DriverInv, CyclePart
  <2>3. TimeoutIterations \in Nat /\ total_iterations \in Nat
    BY <1>3, DriverAssumption DEF DriverTypeOK
  <2>4. QED  BY <2>1, <2>2, <2>3 DEF CycleLimit, Minimum
<1>5. SearchTypeOK'
  BY <1>1, <1>2, <1>3, <1>4, NewStateType DEF SearchTypeOK
<1>6. DriverTypeOK'
  BY <1>2, <1>3 DEF DriverTypeOK, NothingCached
<1>7. SearchPart'
  <2>1. SearchInv'
    <3>1. IdleFresh'
      BY <1>1, <1>2, NewStateType DEF IdleFresh
    <3>2. BestSound' /\ Counting' /\ Stopping'
      BY <1>2 DEF BestSound, Counting, IterationsCounted, Stopping, Running
    <3>3. QED  BY <1>5, <3>1, <3>2 DEF SearchInv
  <2>2. QED  BY <1>2, <1>5, <2>1 DEF SearchPart
<1>8. CyclePart'
  BY <1>2, <1>3 DEF CyclePart, ReferencesCurrent
<1>9. VerifierPart'
  BY <1>2, VerifierUnchanged DEF DriverInv
<1>10. CachePart'
  BY <1>2 DEF CachePart, CachedResultFresh, NothingCached
<1>11. SuccessVerified'
  BY <1>2, <1>3 DEF SuccessVerified
<1>12. QED  BY <1>6, <1>7, <1>8, <1>9, <1>10, <1>11 DEF DriverInv

\* Exits that leave everything but phase and exit as it is
LEMMA ExitsInv ==
    ASSUME DriverInv, phase \in {"cycle", "decide"}, Exit("failed"), UNCHANGED options,
           UNCHANGED <<search_vars, verifier_vars, cycle, total_iterations, reference_out,
                       cached, saved>>
    PROVE  DriverInv'
<1>1. phase' = "exited" /\ exit' = "failed"
  BY DEF Exit
<1>2. DriverTypeOK'
  BY <1>1 DEF DriverInv, DriverTypeOK
<1>3. SearchPart'
  BY <1>1, SearchUnchanged DEF DriverInv, Working
<1>4. CyclePart'
  BY <1>1 DEF CyclePart, Working, ReferencesCurrent
<1>5. VerifierPart'
  BY VerifierUnchanged DEF DriverInv
<1>6. CachePart'
  BY <1>1 DEF CachePart, CachedResultFresh
<1>7. SuccessVerified'
  BY <1>1 DEF SuccessVerified
<1>8. QED  BY <1>2, <1>3, <1>4, <1>5, <1>6, <1>7 DEF DriverInv

\* Every step of the search keeps the driver's invariant.
LEMMA SearchStepInv ==
    ASSUME DriverInv, SearchStep, UNCHANGED options
    PROVE  DriverInv'
<1>1. /\ phase = "search" /\ UNCHANGED verifier_vars
      /\ UNCHANGED <<phase, cycle, total_iterations, reference_out, cached, saved, exit>>
  BY DEF SearchStep, driver_vars
<1>2. SearchInv
  BY <1>1 DEF DriverInv, SearchPart, Working
<1>3. /\ SearchInv'
      /\ UNCHANGED <<training, timeout_itr>>
      /\ pc' # "idle"
      /\ pc' = "callback" => state'.best_correct = state'.current
      /\ pc # "idle" /\ pc' # "callback" => state'.best_correct = state.best_correct
  BY <1>2, SearchStepEffect DEF SearchStep
<1>4. DriverTypeOK'
  BY <1>1 DEF DriverInv, DriverTypeOK
<1>5. SearchPart'
  BY <1>1, <1>3 DEF SearchPart, SearchInv
<1>6. CyclePart'
  BY <1>1, <1>3 DEF DriverInv, CyclePart, Working, ReferencesCurrent
<1>7. VerifierPart'
  BY <1>1, VerifierUnchanged DEF DriverInv
<1>8. CachePart'
  <2>1. CachedResultFresh'
    <3> SUFFICES ASSUME cached.first, pc' # "callback"
                 PROVE  /\ call.rewrite \in {state'.best_correct, Post[state'.best_correct]}
                        /\ call.good = cached.second
      BY <1>1 DEF CachedResultFresh, verifier_vars
    <3>1. pc # "idle"
      BY <1>1 DEF DriverInv, CachePart
    <3>2. pc # "callback"
      BY DEF SearchStep, Run, StartLoop, Iterate, ProposalFails, Reject, Accept, Step, Finish
    <3>3. QED  BY <1>1, <1>3, <3>1, <3>2 DEF DriverInv, CachePart, CachedResultFresh
  <2>2. QED  BY <1>1, <1>3, <2>1 DEF CachePart
<1>9. SuccessVerified'
  BY <1>1 DEF DriverInv, CyclePart, SuccessVerified
<1>10. QED  BY <1>4, <1>5, <1>6, <1>7, <1>8, <1>9 DEF DriverInv

\* A verification keeps its part of the invariant, and its result is cached.
LEMMA VerifyInv ==
    ASSUME VerifierTypeOK, NEW r \in Rewrite, NEW o \in Answers[r], verify(r, o), CacheCall(o)
    PROVE  /\ VerifierPart'
           /\ cached' \in [first : BOOLEAN, second : BOOLEAN, has_error : BOOLEAN,
                           cex : Seq(Input)]
           /\ cached'.first
           /\ call'.rewrite = r /\ call'.good = cached'.second
           /\ ~cached'.second /\ ~cached'.has_error => RefutedBy(r, cached'.cex)
<1>1. /\ VerifierTypeOK'
      /\ AcceptedByAll' /\ CounterExamplesRefute'
      /\ call'.rewrite = r /\ call'.good = Accepts(o)
      /\ Called'
      /\ ~Accepts(o) /\ ~has_error' => RefutedBy(r, counterexamples')
  BY VerifyEffect
<1>2. cached' = [first |-> TRUE, second |-> Accepts(o), has_error |-> has_error',
                 cex |-> IF Accepts(o) THEN <<>> ELSE counterexamples']
  BY DEF CacheCall
<1>3. Accepts(o) \in BOOLEAN /\ has_error' \in BOOLEAN /\ counterexamples' \in Seq(Input)
  BY <1>1 DEF VerifierTypeOK, Accepts
<1>4. cached' \in [first : BOOLEAN, second : BOOLEAN, has_error : BOOLEAN, cex : Seq(Input)]
  BY <1>2, <1>3
<1>5. /\ cached'.first = TRUE /\ cached'.second = Accepts(o)
      /\ cached'.has_error = has_error'
      /\ ~Accepts(o) => cached'.cex = counterexamples'
  BY <1>2
<1>6. VerifierPart'
  BY <1>1 DEF VerifierPart
<1>7. QED  BY <1>1, <1>4, <1>5, <1>6

\* The new_best_correct callback keeps the invariant.
LEMMA CallbackInv ==
    ASSUME DriverInv, new_best_correct_callback, UNCHANGED options
    PROVE  DriverInv'
<1>1. /\ phase = "search" /\ pc = "callback" /\ pc' = "loop"
      /\ UNCHANGED <<state, training, timeout_itr, time_up, give_up_now, iterations,
                     num_iterations, stop_requested>>
      /\ UNCHANGED <<phase, cycle, total_iterations, reference_out, exit>>
  BY DEF new_best_correct_callback
<1>2. SearchInv /\ state \in SearchState
  BY <1>1 DEF DriverInv, SearchPart, Working, SearchTypeOK
<1>3. SearchInv'
  <2>1. give_up_now \in BOOLEAN /\ stop_requested \in BOOLEAN
    BY <1>2 DEF SearchInv, SearchTypeOK
  <2>2. give_up_now' = (give_up_now \/ FALSE) /\ stop_requested' = (stop_requested \/ FALSE)
    BY <1>1, <2>1
  <2>3. CallbackReturns(FALSE)
    BY <1>1, <2>2 DEF CallbackReturns
  <2>4. QED  BY <1>2, <2>3, CallbackReturnsInv
<1>4. SearchPart'
  BY <1>1, <1>3 DEF SearchPart, SearchInv
<1>5. CyclePart'
  BY <1>1 DEF DriverInv, CyclePart, Working, ReferencesCurrent
<1> DEFINE Kept ==
           /\ cached' \in [first : BOOLEAN, second : BOOLEAN, has_error : BOOLEAN, cex : Seq(Input)]
           /\ VerifierPart'
           /\ cached'.first =>
                /\ call'.rewrite \in {state.best_correct, Post[state.best_correct]}
                /\ call'.good = cached'.second
<1>6. Kept
  <2>1. ASSUME NEW o \in Answers[Post[state.current]], verify(Post[state.current], o),
               CacheCall(o)
        PROVE  Kept
    <3>1. Post[state.current] \in Rewrite /\ state.best_correct = state.current
      BY <1>1, <1>2, DriverAssumption DEF SearchState, DriverInv, SearchPart
    <3>2. VerifierTypeOK
      BY DEF DriverInv, VerifierPart
    <3>3. /\ VerifierPart'
          /\ cached' \in [first : BOOLEAN, second : BOOLEAN, has_error : BOOLEAN,
                          cex : Seq(Input)]
          /\ call'.rewrite = Post[state.current] /\ call'.good = cached'.second
      BY <2>1, <3>1, <3>2, VerifyInv
    <3>4. QED  BY <3>1, <3>3
  <2>2. CASE ~options.results /\ cached' = [cached EXCEPT !.first = FALSE]
             /\ UNCHANGED verifier_vars
    <3>1. VerifierPart'
      BY <2>2, VerifierUnchanged DEF DriverInv
    <3>2. /\ cached' \in [first : BOOLEAN, second : BOOLEAN, has_error : BOOLEAN,
                          cex : Seq(Input)]
          /\ cached'.first = FALSE
      BY <2>2 DEF DriverInv, DriverTypeOK
    <3>3. QED  BY <3>1, <3>2
  <2>3. QED  BY <2>1, <2>2 DEF new_best_correct_callback
<1>7. DriverTypeOK'
  BY <1>1, <1>6 DEF DriverInv, DriverTypeOK
<1>8. CachePart'
  BY <1>1, <1>6 DEF CachePart, CachedResultFresh
<1>9. SuccessVerified'
  BY <1>1 DEF DriverInv, CyclePart, SuccessVerified
<1>10. QED  BY <1>4, <1>5, <1>6, <1>7, <1>8, <1>9 DEF DriverInv

\* The return of Search::run keeps the invariant.
LEMMA EndSearchInv ==
    ASSUME DriverInv, EndSearch, UNCHANGED options
    PROVE  DriverInv'
<1>1. /\ phase = "search" /\ pc = "returned" /\ UNCHANGED search_vars
      /\ UNCHANGED verifier_vars /\ UNCHANGED <<cycle, reference_out, cached, saved>>
      /\ total_iterations' = total_iterations + num_iterations
  BY DEF EndSearch
<1>2. \/ phase' = "exited" /\ exit' = "interrupted"
      \/ phase' = "verify" /\ exit' = exit
  BY DEF EndSearch, Exit
<1>3. SearchInv /\ num_iterations \in Nat
  BY <1>1 DEF DriverInv, SearchPart, Working, SearchTypeOK
<1>4. DriverTypeOK'
  BY <1>1, <1>2, <1>3 DEF DriverInv, DriverTypeOK
<1>5. SearchPart'
  BY <1>1, <1>3, SearchUnchanged DEF DriverInv
<1>6. CyclePart'
  BY <1>1, <1>2 DEF DriverInv, CyclePart, Working, ReferencesCurrent
<1>7. VerifierPart'
  BY <1>1, VerifierUnchanged DEF DriverInv
<1>8. CachePart'
  BY <1>1, <1>2 DEF DriverInv, CachePart, CachedResultFresh, search_vars, verifier_vars
<1>9. SuccessVerified'
  BY <1>1, <1>2 DEF DriverInv, CyclePart, SuccessVerified
<1>10. QED  BY <1>4, <1>5, <1>6, <1>7, <1>8, <1>9 DEF DriverInv

\* Verifying the best correct rewrite, or taking over the cached result, keeps the invariant.
LEMMA VerifyBestInv ==
    ASSUME DriverInv, VerifyBest, UNCHANGED options
    PROVE  DriverInv'
<1>1. /\ phase = "verify" /\ phase' = "decide" /\ UNCHANGED search_vars
      /\ UNCHANGED <<cycle, total_iterations, reference_out, saved, exit>>
  BY DEF VerifyBest
<1>2. SearchInv /\ state \in SearchState /\ pc = "returned"
  BY <1>1 DEF DriverInv, SearchPart, Working, SearchTypeOK
<1> DEFINE Kept ==
           /\ cached' \in [first : BOOLEAN, second : BOOLEAN, has_error : BOOLEAN, cex : Seq(Input)]
           /\ VerifierPart'
           /\ cached'.first
           /\ call'.rewrite \in {state.best_correct, Post[state.best_correct]}
           /\ call'.good = cached'.second
           /\ ~cached'.second /\ ~cached'.has_error =>
                RefutedBy(state.best_correct, cached'.cex)
<1>3. Kept
  <2>1. CASE UseCached /\ UNCHANGED cached /\ UNCHANGED verifier_vars
    <3>1. VerifierPart'
      BY <2>1, VerifierUnchanged DEF DriverInv
    <3>2. cached.first /\ cached.second
      BY <2>1 DEF UseCached
    <3>3. /\ call.rewrite \in {state.best_correct, Post[state.best_correct]}
          /\ call.good = cached.second
      BY <1>1, <1>2, <3>2 DEF DriverInv, CachePart, CachedResultFresh
    <3>4. cached' = cached /\ call' = call
      BY <2>1 DEF verifier_vars
    <3>5. QED  BY <3>1, <3>2, <3>3, <3>4 DEF DriverInv, DriverTypeOK
  <2>2. ASSUME NEW o \in Answers[state.best_correct], verify(state.best_correct, o),
               CacheCall(o)
        PROVE  Kept
    <3>1. state.best_correct \in Rewrite
      BY <1>2 DEF SearchState
    <3>2. VerifierTypeOK
      BY DEF DriverInv, VerifierPart
    <3>3. QED  BY <2>2, <3>1, <3>2, VerifyInv
  <2>3. QED  BY <2>1, <2>2 DEF VerifyBest
<1>4. DriverTypeOK'
  BY <1>1, <1>3 DEF DriverInv, DriverTypeOK
<1>5. SearchPart'
  BY <1>1, <1>2, SearchUnchanged DEF DriverInv
<1>6. CyclePart'
  BY <1>1 DEF DriverInv, CyclePart, Working, ReferencesCurrent
<1>7. CachePart'
  <2>1. state' = state
    BY <1>1 DEF search_vars
  <2>2. QED  BY <1>1, <1>3, <2>1 DEF CachePart, CachedResultFresh
<1>8. SuccessVerified'
  BY <1>1 DEF DriverInv, CyclePart, SuccessVerified
<1>9. QED  BY <1>3, <1>4, <1>5, <1>6, <1>7, <1>8 DEF DriverInv

\* What main() knows of best_correct when it decides
LEMMA DecideFacts ==
    ASSUME DriverInv, phase = "decide"
    PROVE  /\ state \in SearchState /\ state.best_correct \in Rewrite
           /\ PassesAll(state.best_correct, training)
           /\ call.rewrite \in {state.best_correct, Post[state.best_correct]}
           /\ call.good = cached.second
           /\ exit = "running"
<1>1. SearchInv /\ pc = "returned"
  BY DEF DriverInv, SearchPart, Working
<1>2. PassesAll(state.best_correct, training)
  BY <1>1 DEF SearchInv, BestSound
<1>3. state \in SearchState /\ state.best_correct \in Rewrite
  BY <1>1 DEF SearchInv, SearchTypeOK, SearchState
<1>4. /\ call.rewrite \in {state.best_correct, Post[state.best_correct]}
      /\ call.good = cached.second
  BY <1>1 DEF DriverInv, CachePart, CachedResultFresh
<1>5. QED  BY <1>2, <1>3, <1>4 DEF DriverInv, CyclePart

\* Acting on the verification result keeps the invariant.
LEMMA VerifiedInv ==
    ASSUME DriverInv, Verified, UNCHANGED options
    PROVE  DriverInv'
<1>1. /\ phase = "decide" /\ phase' = "exited" /\ exit' = "verified"
      /\ state.success /\ cached.second
      /\ state' = [state EXCEPT !.best_correct = Post[@]]
      /\ UNCHANGED <<training, timeout_itr, time_up, give_up_now, iterations, num_iterations,
                     pc, stop_requested>>
      /\ UNCHANGED verifier_vars
      /\ UNCHANGED <<cycle, total_iterations, reference_out, cached, saved>>
  BY DEF Verified, Exit
<1>2. /\ state \in SearchState /\ state.best_correct \in Rewrite
      /\ PassesAll(state.best_correct, training)
      /\ call.rewrite \in {state.best_correct, Post[state.best_correct]}
      /\ call.good = cached.second
  BY <1>1, DecideFacts
<1>3. Post[state.best_correct] \in Rewrite
  BY <1>2, DriverAssumption
<1>4. /\ state' \in SearchState /\ state'.success = state.success
      /\ state'.best_correct = Post[state.best_correct]
  BY <1>1, <1>2, <1>3 DEF SearchState
<1>5. DriverTypeOK'
  BY <1>1 DEF DriverInv, DriverTypeOK
<1>6. SearchPart'
  <2>1. SearchTypeOK'
    BY <1>1, <1>4 DEF DriverInv, SearchPart, SearchTypeOK
  <2>2. pc' = "returned"
    BY <1>1 DEF DriverInv, SearchPart
  <2>3. QED  BY <1>1, <2>1, <2>2 DEF SearchPart, Working
<1>7. CyclePart'
  BY <1>1 DEF CyclePart, Working, ReferencesCurrent
<1>8. VerifierPart'
  BY <1>1, VerifierUnchanged DEF DriverInv
<1>9. CachePart'
  BY <1>1 DEF CachePart, CachedResultFresh
<1>10. SuccessVerified'
  <2>1. call' = call /\ training' = training
    BY <1>1 DEF verifier_vars
  <2>2. state'.success /\ call'.good
    BY <1>1, <1>2, <1>4, <2>1
  <2>3. QED  BY <1>2, <1>4, <2>1, <2>2 DEF SuccessVerified
<1>11. QED  BY <1>5, <1>6, <1>7, <1>8, <1>9, <1>10 DEF DriverInv

\* The inputs that join the training set refute the best_correct that passed all of it,
\* unless that one leaks.
LEMMA NewTestsRefute ==
    ASSUME DriverInv, phase = "decide", ~cached.has_error
    PROVE  /\ NewTests \in Seq(Input)
           /\ RefutedBy(state.best_correct, NewTests)
<1> DEFINE r == state.best_correct
<1>1. cached.cex \in Seq(Input) /\ cached.second \in BOOLEAN
  BY DEF DriverInv, DriverTypeOK
<1>2. ~cached.second => RefutedBy(r, cached.cex)
  BY DEF DriverInv, CachePart
<1>3. CASE NewTests = <<>>
  BY <1>3 DEF RefutedBy
<1>4. CASE ~cached.second /\ cached.cex # <<>> /\ NewTests = <<cached.cex[1]>>
  <2>1. 1 \in 1..Len(cached.cex) /\ cached.cex[1] \in Input
    BY <1>1, <1>4
  <2>2. Objectionable(r) \/ cached.cex[1] \in Refutes(r)
    BY <1>2, <1>4, <2>1 DEF RefutedBy
  <2>3. QED  BY <1>4, <2>1, <2>2 DEF RefutedBy
<1>5. CASE ~cached.second /\ NewTests = cached.cex
  BY <1>1, <1>2, <1>5
<1>6. QED  BY <1>3, <1>4, <1>5 DEF NewTests

\* Starting another cycle with new test cases keeps the invariant.
LEMMA RestartInv ==
    ASSUME DriverInv, Restart, UNCHANGED options
    PROVE  DriverInv'
<1>1. /\ phase = "decide" /\ phase' = "cycle"
      /\ ~cached.has_error /\ ~Exhausted
      /\ training' = training \o NewTests /\ cycle' = cycle + 1
      /\ UNCHANGED <<state, timeout_itr, time_up, give_up_now, iterations, num_iterations, pc,
                     stop_requested>>
      /\ UNCHANGED verifier_vars
      /\ UNCHANGED <<total_iterations, reference_out, cached, saved, exit>>
  BY DEF Restart
<1>2. DriverTypeOK /\ SearchTypeOK /\ cycle < MaxCycles /\ exit = "running" /\ pc = "returned"
  BY <1>1 DEF DriverInv, SearchPart, CyclePart, Working
<1>3. cycle' \in 0..MaxCycles
  BY <1>1, <1>2, DriverAssumption DEF DriverTypeOK
<1>4. DriverTypeOK'
  BY <1>1, <1>2, <1>3 DEF DriverTypeOK
<1>5. training' \in Seq(Input)
  <2>1. NewTests \in Seq(Input)
    BY <1>1, NewTestsRefute
  <2>2. QED  BY <1>1, <1>2, <2>1 DEF SearchTypeOK
<1>6. SearchPart'
  BY <1>1, <1>2, <1>5 DEF SearchPart, SearchTypeOK, Working
<1>7. CyclePart'
  <2>1. total_iterations \in Nat /\ TimeoutIterations \in Nat
    BY <1>2, DriverAssumption DEF DriverTypeOK
  <2>2. QED  BY <1>1, <1>2, <2>1 DEF CyclePart, Working, ReferencesCurrent, Exhausted
<1>8. VerifierPart'
  BY <1>1, VerifierUnchanged DEF DriverInv
<1>9. CachePart'
  BY <1>1, <1>2 DEF DriverInv, CachePart, CachedResultFresh, verifier_vars
<1>10. SuccessVerified'
  BY <1>1, <1>2 DEF SuccessVerified
<1>11. QED  BY <1>4, <1>6, <1>7, <1>8, <1>9, <1>10 DEF DriverInv

\* The signal handler and the clock
LEMMA OutsideInv ==
    ASSUME DriverInv, Outside
    PROVE  DriverInv'
<1>1. /\ phase # "exited" /\ UNCHANGED verifier_vars /\ UNCHANGED options
      /\ UNCHANGED <<phase, cycle, total_iterations, reference_out, cached, saved, exit>>
  BY DEF Outside, driver_vars
<1>2. UNCHANGED <<state, training, pc>>
  BY DEF Outside, Sigint, TimePasses
<1>3. SearchTypeOK'
  BY DEF DriverInv, SearchPart, SearchTypeOK, Outside, Sigint, TimePasses, Running
<1>4. Working => SearchInv'
  BY SigintInv, TimePassesInv DEF DriverInv, SearchPart, Outside
<1>5. SearchPart'
  BY <1>1, <1>2, <1>3, <1>4 DEF DriverInv, SearchPart, Working
<1>6. DriverTypeOK'
  BY <1>1 DEF DriverInv, DriverTypeOK
<1>7. CyclePart'
  BY <1>1, <1>2 DEF DriverInv, CyclePart, Working, ReferencesCurrent
<1>8. VerifierPart'
  BY <1>1, VerifierUnchanged DEF DriverInv
<1>9. CachePart'
  BY <1>1, <1>2 DEF DriverInv, CachePart, CachedResultFresh, verifier_vars
<1>10. SuccessVerified'
  BY <1>1 DEF DriverInv, CyclePart, SuccessVerified
<1>11. QED  BY <1>5, <1>6, <1>7, <1>8, <1>9, <1>10 DEF DriverInv

\* A step that changes nothing keeps the invariant.
LEMMA StutterInv ==
    ASSUME DriverInv, UNCHANGED vars
    PROVE  DriverInv'
<1>1. UNCHANGED search_vars /\ UNCHANGED verifier_vars /\ UNCHANGED driver_vars
      /\ UNCHANGED options
  BY DEF vars
<1>2. SearchPart'
  BY <1>1, SearchUnchanged DEF DriverInv, SearchPart, Working, driver_vars
<1>3. VerifierPart'
  BY <1>1, VerifierUnchanged DEF DriverInv
<1>4. DriverTypeOK' /\ CyclePart'
  BY <1>1 DEF DriverInv, DriverTypeOK, CyclePart, Working, ReferencesCurrent, driver_vars,
              search_vars
<1>5. CachePart' /\ SuccessVerified'
  BY <1>1 DEF DriverInv, CachePart, CachedResultFresh, SuccessVerified, driver_vars,
              search_vars, verifier_vars
<1>6. QED  BY <1>2, <1>3, <1>4, <1>5 DEF DriverInv

\* The driver starts in the invariant.
LEMMA DriverInitInv == Init => DriverInv
<1> SUFFICES ASSUME Init PROVE DriverInv
  OBVIOUS
<1>1. PICK r \in Starts : state = NewState(r)
  BY DEF Init
<1>2. r \in Rewrite
  BY SearchAssumption
<1>3. SearchTypeOK
  BY <1>1, <1>2, NewStateType, SearchAssumption DEF Init, SearchTypeOK
<1>4. SearchPart
  BY <1>3 DEF Init, SearchPart, Working
<1>5. DriverTypeOK
  BY DriverAssumption DEF Init, DriverTypeOK, NothingCached
<1>6. CyclePart
  BY DriverAssumption DEF Init, CyclePart, Working, ReferencesCurrent
<1>7. VerifierPart
  <2>1. call = NoCall
    BY DEF Init, VerifierInit
  <2>2. call.rewrite = Target /\ call.stop = 0 /\ call.good = FALSE
    BY <2>1 DEF NoCall
  <2>3. VerifierTypeOK
    <3>1. member_error = [k \in Members |-> FALSE] /\ has_error = FALSE /\ counterexamples = <<>>
      BY DEF Init, VerifierInit
    <3>2. member_error \in [Members -> BOOLEAN] /\ has_error \in BOOLEAN
      BY <3>1
    <3>3. counterexamples \in Seq(Input)
      BY <3>1
    <3>4. call.rewrite \in Rewrite /\ call.good \in BOOLEAN
      BY <2>2, CostAssumption
    <3>5. QED  BY <3>2, <3>3, <3>4 DEF VerifierTypeOK
  <2>4. QED  BY <2>2, <2>3 DEF VerifierPart, AcceptedByAll, CounterExamplesRefute, Called
<1>8. CachePart
  BY DEF Init, NothingCached, CachePart, CachedResultFresh
<1>9. SuccessVerified
  BY DEF Init, SuccessVerified
<1>10. QED  BY <1>4, <1>5, <1>6, <1>7, <1>8, <1>9 DEF DriverInv

\* Every step of the driver keeps the invariant.
LEMMA DriverNextInv == DriverInv /\ [Next]_vars => DriverInv'
<1> SUFFICES ASSUME DriverInv, [Next]_vars PROVE DriverInv'
  OBVIOUS
<1>1. CASE Driver
  <2>1. UNCHANGED options
    BY <1>1 DEF Driver
  <2>2. CASE OutOfTime
    BY <2>1, <2>2, ExitsInv DEF OutOfTime
  <2>3. CASE GivesUp
    BY <2>1, <2>3, ExitsInv DEF GivesUp
  <2>4. QED
    BY <1>1, <2>1, <2>2, <2>3, BeginCycleInv, SearchStepInv, CallbackInv, EndSearchInv,
       VerifyBestInv, VerifiedInv, RestartInv DEF Driver
<1>2. CASE Outside
  BY <1>2, OutsideInv
<1>3. CASE UNCHANGED vars
  BY <1>3, StutterInv
<1>4. QED  BY <1>1, <1>2, <1>3 DEF Next
-----------------------------------------------------------------------------
(* Theorems *)

\* The invariant of the cycles of search and verification
THEOREM DriverInvHolds == Spec => []DriverInv
  BY DriverInitInv, DriverNextInv, PTL DEF Spec

\* SequenceVerifier answers true only for a rewrite that every member accepted, for any
\* sequence of verifiers and any sequence of calls to it.
THEOREM AcceptedByAllHolds == Spec => []AcceptedByAll
<1>1. DriverInv => AcceptedByAll
  BY DEF DriverInv, VerifierPart
<1>2. QED  BY <1>1, DriverInvHolds, PTL

\* The counterexamples of a call that failed without an error refute the rewrite of that
\* very call, not one of an earlier call, unless a leakage validator refused it for a leak.
THEOREM CounterExamplesRefuteHolds == Spec => []CounterExamplesRefute
<1>1. DriverInv => CounterExamplesRefute
  BY DEF DriverInv, VerifierPart
<1>2. QED  BY <1>1, DriverInvHolds, PTL

\* The verification result that main() keeps from the callback is about the best_correct
\* it is used for.
THEOREM CachedResultFreshHolds == Spec => []CachedResultFresh
<1>1. DriverInv => CachedResultFresh
  BY DEF DriverInv, CachePart
<1>2. QED  BY <1>1, DriverInvHolds, PTL

\* When main() ends in success, what it writes out is the postprocessed form of a rewrite
\* that passes the whole training set and that the verifier's last call accepted.
THEOREM SuccessVerifiedHolds == Spec => []SuccessVerified
<1>1. DriverInv => SuccessVerified
  BY DEF DriverInv
<1>2. QED  BY <1>1, DriverInvHolds, PTL

\* While a search runs, the cost function has the target's output for each of its tests.
THEOREM ReferencesCurrentHolds == Spec => []ReferencesCurrent
<1>1. DriverInv => ReferencesCurrent
  BY DEF DriverInv, CyclePart
<1>2. QED  BY <1>1, DriverInvHolds, PTL

\* Every step keeps the iteration budget.
LEMMA BudgetNext ==
    ASSUME \A i \in 0..MaxCycles : CycleTimeout(i) > 0,
           DriverInv, BudgetInv, [Next]_vars
    PROVE  BudgetInv'
<1> SUFFICES ASSUME TimeoutIterations # 0
             PROVE  /\ total_iterations' <= TimeoutIterations
                    /\ phase' = "search" =>
                         timeout_itr' > 0 /\ total_iterations' + timeout_itr' <= TimeoutIterations
  BY DEF BudgetInv
<1>1. /\ total_iterations <= TimeoutIterations
      /\ phase = "search" =>
           timeout_itr > 0 /\ total_iterations + timeout_itr <= TimeoutIterations
  BY DEF BudgetInv
<1>2. /\ total_iterations \in Nat /\ TimeoutIterations \in Nat
      /\ timeout_itr \in Nat /\ num_iterations \in Nat
  BY DriverAssumption DEF DriverInv, DriverTypeOK, SearchPart, SearchTypeOK
<1>3. ASSUME NEW r \in Starts, BeginCycle(r)
      PROVE  total_iterations' = total_iterations
             /\ timeout_itr' > 0 /\ total_iterations' + timeout_itr' <= TimeoutIterations
  <2>1. timeout_itr' = CycleLimit /\ total_iterations' = total_iterations /\ phase = "cycle"
    BY <1>3 DEF BeginCycle
  <2>2. CycleTimeout(cycle) \in Nat /\ CycleTimeout(cycle) > 0
    BY DriverAssumption DEF DriverInv, DriverTypeOK
  <2>3. total_iterations < TimeoutIterations
    BY <2>1 DEF DriverInv, CyclePart
  <2>4. QED  BY <1>2, <2>1, <2>2, <2>3 DEF CycleLimit, Minimum
<1>4. CASE SearchStep
  <2>1. phase = "search" /\ UNCHANGED <<phase, total_iterations>>
    BY <1>4 DEF SearchStep, driver_vars
  <2>2. timeout_itr' = timeout_itr
    BY <1>4, <2>1, SearchStepEffect DEF SearchStep, DriverInv, SearchPart, Working
  <2>3. QED  BY <1>1, <2>1, <2>2
<1>5. CASE new_best_correct_callback
  BY <1>1, <1>5 DEF new_best_correct_callback
<1>6. CASE EndSearch
  <2>1. /\ phase = "search" /\ pc = "returned" /\ phase' # "search"
        /\ total_iterations' = total_iterations + num_iterations
    BY <1>6 DEF EndSearch, Exit
  <2>2. num_iterations <= timeout_itr
    BY <1>1, <2>1 DEF DriverInv, SearchPart, Working, SearchInv, Counting, IterationsCounted
  <2>3. QED  BY <1>1, <1>2, <2>1, <2>2
<1>7. CASE OutOfTime \/ VerifyBest \/ Verified \/ GivesUp \/ Restart
  BY <1>1, <1>7 DEF OutOfTime, VerifyBest, Verified, GivesUp, Restart, Exit
<1>8. CASE Outside
  BY <1>1, <1>8 DEF Outside, Sigint, TimePasses, driver_vars
<1>9. CASE UNCHANGED vars
  BY <1>1, <1>9 DEF vars, search_vars, driver_vars
<1>10. QED
  <2>1. ASSUME NEW r \in Starts, BeginCycle(r)
        PROVE  total_iterations' <= TimeoutIterations
    BY <1>1, <1>3, <2>1
  <2>2. QED
    BY <1>3, <1>4, <1>5, <1>6, <1>7, <1>8, <1>9, <2>1 DEF Next, Driver

\* Unless a --cycle_timeout is 0, which Search::run takes for no limit, the cycles together
\* never exceed --timeout_iterations.
THEOREM IterationBudgetHolds ==
    ASSUME \A i \in 0..MaxCycles : CycleTimeout(i) > 0
    PROVE  Spec => []IterationBudget
<1>1. Init => BudgetInv
  BY DriverAssumption DEF Init, BudgetInv
<1>2. DriverInv /\ BudgetInv /\ [Next]_vars => BudgetInv'
  BY BudgetNext
<1>3. BudgetInv => IterationBudget
  BY DEF BudgetInv, IterationBudget
<1>4. QED  BY <1>1, <1>2, <1>3, DriverInvHolds, PTL DEF Spec
-----------------------------------------------------------------------------
(* The refinement *)

\* The set of the training inputs, the abstract specification's tests
Tests == {training[i] : i \in 1..Len(training)}

\* The values of the abstract specification's variables
Abstract == <<Tests, state.best_correct, exit>>

\* A candidate that passes all test cases is consistent with them.
LEMMA ConsistentIfPasses ==
    ASSUME PassesAll(state.best_correct, training)
    PROVE  S!Consistent
  BY DEF S!Consistent, Agrees, PassesAll

\* Restart adds inputs that refute the consistent candidate, or any if it leaks.
LEMMA RestartRefines ==
    ASSUME DriverInv, Restart
    PROVE  S!SynthesisNext
<1> DEFINE r == state.best_correct
           found == {NewTests[i] : i \in 1..Len(NewTests)}
<1>1. /\ phase = "decide" /\ ~cached.has_error /\ exit' = exit /\ state' = state
      /\ training' = training \o NewTests
  BY DEF Restart
<1>2. r \in Rewrite /\ PassesAll(r, training) /\ exit = "running"
  BY <1>1, DecideFacts
<1>3. NewTests \in Seq(Input) /\ RefutedBy(r, NewTests)
  BY <1>1, NewTestsRefute
<1>4. training \in Seq(Input)
  BY DEF DriverInv, SearchPart, SearchTypeOK
<1>5. Tests' = Tests \cup found
  <2>1. Tests' = {(training \o NewTests)[i] : i \in 1..Len(training \o NewTests)}
    BY <1>1 DEF Tests
  <2>2. \A i \in 1..Len(training \o NewTests) :
          \/ i \in 1..Len(training) /\ (training \o NewTests)[i] = training[i]
          \/ /\ i - Len(training) \in 1..Len(NewTests)
             /\ (training \o NewTests)[i] = NewTests[i - Len(training)]
    BY <1>3, <1>4
  <2>3. \A i \in 1..Len(training) :
          i \in 1..Len(training \o NewTests) /\ (training \o NewTests)[i] = training[i]
    BY <1>3, <1>4
  <2>4. \A i \in 1..Len(NewTests) :
          /\ i + Len(training) \in 1..Len(training \o NewTests)
          /\ (training \o NewTests)[i + Len(training)] = NewTests[i]
    BY <1>3, <1>4
  <2>5. Tests' \subseteq Tests \cup found
    BY <2>1, <2>2 DEF Tests
  <2>6. Tests \subseteq Tests' /\ found \subseteq Tests'
    BY <2>1, <2>3, <2>4 DEF Tests
  <2>7. QED  BY <2>5, <2>6
<1>6. S!MoreTests
  <2>1. Tests \subseteq Input /\ found \subseteq Input
    BY <1>3, <1>4 DEF Tests
  <2> HIDE DEF found
  <2>2. Tests' \in SUBSET Input /\ Tests \subseteq Tests'
    BY <1>5, <2>1
  <2>3. QED  BY <1>1, <2>2 DEF S!MoreTests, Tests
<1>7. S!Consistent
  BY <1>2, ConsistentIfPasses
<1>8. CASE Objectionable(r)
  BY <1>2, <1>6, <1>7, <1>8 DEF S!SynthesisNext, S!Refuse
<1>9. CASE \A i \in 1..Len(NewTests) : NewTests[i] \in Refutes(r)
  <2>1. \A x \in found : ~Agrees(r, x)
    <3>1. \A x \in Refutes(r) : x \in Input /\ evaluate_error(r, x) # 0
      BY <1>2, RefutesType DEF Refutes
    <3>2. QED  BY <1>9, <3>1 DEF Agrees
  <2> HIDE DEF found
  <2>2. \A x \in Tests' \ Tests : ~Agrees(r, x)
    BY <1>5, <2>1
  <2>3. QED  BY <1>2, <1>6, <1>7, <2>2 DEF S!SynthesisNext, S!Refine, Tests
<1>10. QED  BY <1>3, <1>8, <1>9 DEF RefutedBy

\* Verified accepts a candidate that is consistent with all inputs and acceptable.
LEMMA VerifiedRefines ==
    ASSUME DriverInv, Verified
    PROVE  S!SynthesisNext
<1> DEFINE r == state.best_correct
<1>1. /\ phase = "decide" /\ cached.second /\ training' = training /\ exit' = "verified"
      /\ state' = [state EXCEPT !.best_correct = Post[@]]
  BY DEF Verified, Exit
<1>2. /\ r \in Rewrite /\ PassesAll(r, training) /\ exit = "running"
      /\ call.rewrite \in {r, Post[r]} /\ call.good = cached.second
      /\ state \in SearchState
  BY <1>1, DecideFacts
<1>3. state'.best_correct = Final(r)
  BY <1>1, <1>2 DEF Final, SearchState
<1>4. Acceptable(r)
  <2>1. \A k \in Members : Vouched(Strategy[k], call.rewrite)
    BY <1>1, <1>2 DEF DriverInv, VerifierPart, AcceptedByAll, Vouched
  <2>2. QED  BY <1>2, <2>1 DEF Acceptable, Uses, Vouched
<1>5. S!Succeed
  BY <1>1, <1>2, <1>3, <1>4, ConsistentIfPasses DEF S!Succeed
<1>6. QED  BY <1>5 DEF S!SynthesisNext

\* Every step of the driver is one of the abstract synthesis loop, or a stutter.
LEMMA NextRefines ==
    ASSUME DriverInv, DriverInv', [Next]_vars
    PROVE  [S!SynthesisNext]_Abstract
<1>1. CASE Restart
  BY <1>1, RestartRefines
<1>2. CASE Verified
  BY <1>2, VerifiedRefines
<1>3. state'.best_correct \in Rewrite
  BY DEF DriverInv, SearchPart, SearchTypeOK, SearchState
<1>4. ASSUME training' = training, exit' = exit, exit = "running"
      PROVE  S!SynthesisNext
  BY <1>3, <1>4 DEF S!SynthesisNext, S!Propose
<1>5. ASSUME training' = training, state' = state,
             exit = "running", exit' \in {"failed", "interrupted"}
      PROVE  S!SynthesisNext
  BY <1>5 DEF S!SynthesisNext, S!GiveUp
<1>6. phase # "exited" => exit = "running"
  BY DEF DriverInv, CyclePart
<1>7. CASE OutOfTime \/ GivesUp \/ EndSearch
  <2>1. /\ training' = training /\ state' = state /\ exit = "running"
        /\ exit' \in {"failed", "interrupted"} \/ exit' = exit
    BY <1>6, <1>7 DEF OutOfTime, GivesUp, EndSearch, Exit, search_vars
  <2>2. QED  BY <1>4, <1>5, <2>1
<1>8. CASE SearchStep
  <2>1. training' = training
    BY <1>8, SearchStepEffect DEF SearchStep, DriverInv, SearchPart, Working
  <2>2. exit' = exit /\ exit = "running"
    BY <1>6, <1>8 DEF SearchStep, driver_vars
  <2>3. QED  BY <1>4, <2>1, <2>2
<1>9. CASE (\E r \in Starts : BeginCycle(r)) \/ new_best_correct_callback \/ VerifyBest
  <2>1. training' = training /\ exit' = exit /\ exit = "running"
    BY <1>6, <1>9 DEF BeginCycle, new_best_correct_callback, VerifyBest, search_vars
  <2>2. QED  BY <1>4, <2>1
<1>10. CASE Outside
  <2>1. training' = training /\ exit' = exit /\ exit = "running"
    BY <1>6, <1>10 DEF Outside, Sigint, TimePasses, driver_vars
  <2>2. QED  BY <1>4, <2>1
<1>11. CASE UNCHANGED vars
  BY <1>11 DEF vars, search_vars, driver_vars, Abstract, Tests
<1>12. QED
  BY <1>1, <1>2, <1>7, <1>8, <1>9, <1>10, <1>11 DEF Next, Driver

\* stoke_search implements counterexample guided synthesis, for every strategy, option and
\* number of cycles: every step of main() is a step of Synthesis, or changes neither the
\* inputs nor the candidate nor the outcome.  Inputs that refute nothing are added only
\* if leakage is in the strategy and the candidate leaks.
THEOREM Refinement == Spec => ImplementsSynthesis
<1>1. Init => S!SynthesisInit
  <2> SUFFICES ASSUME Init PROVE S!SynthesisInit
    OBVIOUS
  <2>1. training \in Seq(Input) /\ exit = "running"
    BY SearchAssumption DEF Init
  <2>2. \A i \in 1..Len(training) : training[i] \in Input
    BY <2>1
  <2>3. state.best_correct \in Rewrite
    BY DriverInitInv DEF DriverInv, SearchPart, SearchTypeOK, SearchState
  <2>4. QED  BY <2>1, <2>2, <2>3 DEF S!SynthesisInit
<1>2. DriverInv /\ DriverInv' /\ [Next]_vars => [S!SynthesisNext]_(S!synthesis_vars)
  BY NextRefines DEF Tests, Abstract, S!synthesis_vars
<1>3. QED  BY <1>1, <1>2, DriverInvHolds, PTL DEF Spec, ImplementsSynthesis, S!SynthesisSpec
=============================================================================
