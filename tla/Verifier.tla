------------------------------ MODULE Verifier ------------------------------
(***************************************************************************)
(* SequenceVerifier (src/src/verifier/sequence.h): the verifiers named by  *)
(* --strategy asked one after the other, stopping at the first that fails  *)
(* or has an error.  Its members are modelled by what verify() leaves      *)
(* behind: a verdict, counterexamples and the member's error flag.         *)
(*                                                                         *)
(*   hold_out  runs the test set; never raises its error flag              *)
(*   bounded   clears its error flag and counterexamples on every call     *)
(*   leakage   does as bounded does, and then looks for leaks              *)
(*   ddec      has no counterexamples and never clears its error flag      *)
(*   none      accepts everything                                          *)
(*                                                                         *)
(* The validators are taken to be sound: ddec accepts only a rewrite that  *)
(* agrees with the target on every input; bounded and leakage one that     *)
(* agrees on the inputs they cover, and their counterexamples to this are  *)
(* inputs on which it does not.  All may fail or err on any rewrite.  The  *)
(* module Bounded checks this of the bounded and leakage validators.       *)
(***************************************************************************)
EXTENDS Cost

CONSTANTS
    Strategy,    \* the members, in order
    TestSet,     \* the hold-out test cases
    Covered,     \* Covered[r]: inputs whose runs are on paths that bounded and leakage ask about
    Leaky,       \* rewrites in which the check of the leakage validator finds a leak
    MaxCex       \* bound on the counterexamples of one call

Verifiers == {"hold_out", "bounded", "leakage", "ddec", "none"}

ASSUME StrategyAssumption ==
    /\ Strategy \in Seq(Verifiers) /\ Strategy # <<>>
    /\ TestSet \in Seq(Input)
    /\ Covered \in [Rewrite -> SUBSET Input]
    /\ Leaky \subseteq Rewrite
    /\ MaxCex \in Nat

VARIABLES
    member_error,      \* has_error_ of each member
    has_error,         \* has_error_ of the SequenceVerifier
    counterexamples,   \* counterexamples_ of the SequenceVerifier
    call               \* the last call: the rewrite, the member it stopped at, the answer

verifier_vars == <<member_error, has_error, counterexamples, call>>

Members == 1..Len(Strategy)

Outcome(good, err, cex) == [good |-> good, err |-> err, cex |-> cex]

Passed == Outcome(TRUE, FALSE, <<>>)
Erring == Outcome(FALSE, TRUE, <<>>)
Failed(cex) == Outcome(FALSE, FALSE, cex)

Equivalent(r) == \A x \in Input : evaluate_error(r, x) = 0
EquivalentUpToBound(r) == \A x \in Covered[r] : evaluate_error(r, x) = 0

\* Mutant: the solver's models are not confirmed by running them.
Refutes_Unconfirmed(r) == Input

Refutes(r) == {x \in Input : evaluate_error(r, x) > 0}

-----------------------------------------------------------------------------
(* What one verify() of a member can do *)

\* No test case: an error message, but has_error_ is not set.
HoldOut(r) ==
    LET errs == Errors(r, TestSet)
        cex  == counter_example_testcase(errs, max_cost)
    IN  IF TestSet = <<>> THEN Failed(<<>>)
        ELSE IF sum_correctness(errs, max_cost) # 0 THEN Failed(<<TestSet[cex]>>)
             ELSE Passed

Lists(S) == UNION {[1..n -> S] : n \in 0..MaxCex}

\* Some pair of paths is not proved, with the counterexamples that could be confirmed
\* (none, when the solver gave up); or there was a validator_error.
NotProved(r) == {Failed(cex) : cex \in Lists(Refutes(r) \cap Covered[r])} \cup {Erring}

Bounded(r) == NotProved(r) \cup {o \in {Passed} : EquivalentUpToBound(r)}

\* Once all pairs are proved, the operands on the rewrite's paths are asked about.  The
\* models of a leak become counterexamples as they are: path constraints are not asked
\* for, nothing is run, and the rewrite is right on those that are covered.
Leakage(r) ==
    NotProved(r)
      \cup {o \in {Passed} : EquivalentUpToBound(r) /\ r \notin Leaky}
      \cup {o \in {Failed(cex) : cex \in Lists(Input)} : EquivalentUpToBound(r) /\ r \in Leaky}

Ddec(r) == {Failed(<<>>), Erring} \cup {o \in {Passed} : Equivalent(r)}

Outcomes(v, r) ==
    CASE v = "hold_out" -> {HoldOut(r)}
      [] v = "bounded"  -> Bounded(r)
      [] v = "leakage"  -> Leakage(r)
      [] v = "ddec"     -> Ddec(r)
      [] v = "none"     -> {Passed}

\* The member's has_error() after a call
MemberError(k, o) ==
    CASE Strategy[k] \in {"bounded", "leakage"} -> o.err
      [] Strategy[k] = "ddec"                   -> member_error[k] \/ o.err
      [] OTHER                                  -> FALSE

-----------------------------------------------------------------------------
(* SequenceVerifier::verify *)

\* Answers[r]: the members' outcomes if each were called; only those up to the stop are.
Answers ==
    [r \in Rewrite |->
       {o \in [Members -> UNION {Outcomes(Strategy[k], r) : k \in Members}] :
          \A k \in Members : o[k] \in Outcomes(Strategy[k], r)}]

\* Mutant: only an error stops the sequence.
Fails_ErrorOnly(o, k) == MemberError(k, o[k])

Fails(o, k) == MemberError(k, o[k]) \/ ~o[k].good

\* The first member that fails, or one past the last
Stop(o) ==
    IF \E k \in Members : Fails(o, k)
    THEN CHOOSE k \in Members : Fails(o, k) /\ \A m \in 1..(k-1) : ~Fails(o, m)
    ELSE Len(Strategy) + 1

Accepts(o) == Stop(o) = Len(Strategy) + 1

\* Mutant: a member without counterexamples leaves the old ones.
verify_KeepsOld(r, o) ==
    LET k   == Stop(o)
        err == k \in Members /\ MemberError(k, o[k])
    IN  /\ member_error' = [m \in Members |->
             IF m <= k THEN MemberError(m, o[m]) ELSE member_error[m]]
        /\ has_error' = (has_error \/ err)
        /\ counterexamples' = IF k \in Members /\ ~err /\ o[k].cex # <<>> THEN o[k].cex
                              ELSE counterexamples
        /\ call' = [rewrite |-> r, stop |-> k, good |-> Accepts(o)]

\* The answer is Accepts(o); assert(!good) is compiled out of a release build.
verify(r, o) ==
    LET k   == Stop(o)
        err == k \in Members /\ MemberError(k, o[k])
    IN  /\ member_error' = [m \in Members |->
             IF m <= k THEN MemberError(m, o[m]) ELSE member_error[m]]
        /\ has_error' = (has_error \/ err)
        /\ counterexamples' = IF k \in Members /\ ~err THEN o[k].cex ELSE counterexamples
        /\ call' = [rewrite |-> r, stop |-> k, good |-> Accepts(o)]

NoCall == [rewrite |-> Target, stop |-> 0, good |-> FALSE]

VerifierInit ==
    /\ member_error = [k \in Members |-> FALSE]
    /\ has_error = FALSE
    /\ counterexamples = <<>>
    /\ call = NoCall

-----------------------------------------------------------------------------
(* Properties *)

Called == call.stop # 0

\* The last call stopped at a member with its error flag up
Erred == call.stop \in Members /\ member_error[call.stop]

\* "verify" answers true only if every member of the strategy accepted this very
\* rewrite: with a validator in the strategy it agrees with the target on what the
\* validator covers, with leakage it does not leak, with hold_out it passes the test set.
AcceptedByAll ==
    Called /\ call.good =>
      \A k \in Members :
        /\ Strategy[k] \in {"bounded", "leakage"} => EquivalentUpToBound(call.rewrite)
        /\ Strategy[k] = "leakage"  => call.rewrite \notin Leaky
        /\ Strategy[k] = "ddec"     => Equivalent(call.rewrite)
        /\ Strategy[k] = "hold_out" => TestSet # <<>> /\ PassesAll(call.rewrite, TestSet)

\* The last call stopped at a leakage validator that has nothing else against the rewrite
LeakFound ==
    /\ call.stop \in Members /\ Strategy[call.stop] = "leakage"
    /\ EquivalentUpToBound(call.rewrite) /\ call.rewrite \in Leaky

\* When verify() fails without an error, every input that get_counter_examples() returns
\* refutes the rewrite of this call, whatever earlier calls left behind; except that what
\* a leakage validator returns of a rewrite that it proved, and that leaks, may refute
\* nothing.
CounterExamplesRefute ==
    Called /\ ~call.good /\ ~Erred =>
      LeakFound \/ \A i \in 1..Len(counterexamples) : counterexamples[i] \in Refutes(call.rewrite)

=============================================================================
