----------------------------- MODULE StokeSearch -----------------------------
(***************************************************************************)
(* The driver of tools/apps/stoke_search.cc: cycles of search, each        *)
(* followed by the verification of its best correct rewrite, whose         *)
(* counterexamples join the training set of the next cycle.                *)
(*                                                                         *)
(* It composes Search (whose callback is new_best_correct_callback here)   *)
(* and Verifier.  phase says where main() is; while it is "search", pc     *)
(* says where Search::run is.                                              *)
(***************************************************************************)
EXTENDS Search, Verifier

CONSTANTS
    CycleTimeout(_),     \* the --cycle_timeout expressions, as a function of i
    TimeoutIterations,   \* --timeout_iterations; 0 is no limit
    CacheResults,        \* --cache_verification_results
    Options,             \* command lines: is --results given, --failed_verification_action
    Post,                \* Post[r]: r after postprocessing
    MaxCycles            \* bound on the number of cycles

ASSUME DriverAssumption ==
    /\ TimeoutIterations \in Nat /\ MaxCycles \in Nat
    /\ CacheResults \in BOOLEAN
    /\ Options \subseteq
         [results : BOOLEAN,
          failed_action : {"quit", "add_counterexample", "add_all_counterexamples"}]
    /\ Post \in [Rewrite -> Rewrite]
    /\ \A i \in 0..MaxCycles : CycleTimeout(i) \in Nat

VARIABLES
    options,            \* the command line, which never changes
    phase,              \* "cycle", "search", "verify", "decide" or "exited"
    cycle,              \* i
    total_iterations,
    reference_out,      \* the inputs for which the cost function knows the target's output
    cached,             \* best_correct_verified, best_correct_has_error, best_correct_cex
    saved,              \* rewrites written to the results directory
    exit                \* how main() ended

driver_vars == <<phase, cycle, total_iterations, reference_out, cached, saved, exit>>

vars == <<search_vars, verifier_vars, driver_vars, options>>

NothingCached == [first |-> FALSE, second |-> FALSE, has_error |-> FALSE, cex |-> <<>>]

Minimum(m, n) == IF m < n THEN m ELSE n

-----------------------------------------------------------------------------
(* One cycle of main() *)

\* Mutant: what earlier cycles used is not taken off.
CycleLimit_PerCycle == CycleTimeout(cycle)

\* timeout_left is the unsigned difference: the program exits before the total
\* reaches the limit, so that it does not wrap.
CycleLimit ==
    LET cur == CycleTimeout(cycle)
    IN  IF TimeoutIterations = 0 THEN cur
        ELSE Minimum(cur, TimeoutIterations - total_iterations)

Exit(how) ==
    /\ exit' = how
    /\ phase' = "exited"

\* Mutant: the cost function is built once, before the first cycle.
BeginCycle_OldReferences(r) ==
    /\ phase = "cycle"
    /\ cycle < MaxCycles
    /\ ~(TimeLimit /\ time_up)
    /\ reference_out' = IF cycle = 0 THEN training ELSE reference_out
    /\ timeout_itr' = CycleLimit
    /\ state' = NewState(r)
    /\ cached' = NothingCached
    /\ phase' = "search" /\ pc' = "idle"
    /\ UNCHANGED <<training, time_up, give_up_now, iterations, num_iterations, stop_requested,
                   cycle, total_iterations, saved, exit, verifier_vars>>

\* Mutant: the verification result of the last cycle is kept.
BeginCycle_KeepsResult(r) ==
    /\ phase = "cycle"
    /\ cycle < MaxCycles
    /\ ~(TimeLimit /\ time_up)
    /\ reference_out' = training
    /\ timeout_itr' = CycleLimit
    /\ state' = NewState(r)
    /\ phase' = "search" /\ pc' = "idle"
    /\ UNCHANGED <<training, time_up, give_up_now, iterations, num_iterations, stop_requested,
                   cached, cycle, total_iterations, saved, exit, verifier_vars>>

\* The cost function is built anew, and runs the target on the whole training set; r is
\* the start that --init stands for.
BeginCycle(r) ==
    /\ phase = "cycle"
    /\ cycle < MaxCycles
    /\ ~(TimeLimit /\ time_up)
    /\ reference_out' = training
    /\ timeout_itr' = CycleLimit
    /\ state' = NewState(r)
    /\ cached' = NothingCached
    /\ phase' = "search" /\ pc' = "idle"
    /\ UNCHANGED <<training, time_up, give_up_now, iterations, num_iterations, stop_requested,
                   cycle, total_iterations, saved, exit, verifier_vars>>

OutOfTime ==
    /\ phase = "cycle"
    /\ TimeLimit /\ time_up
    /\ Exit("failed")
    /\ UNCHANGED <<search_vars, verifier_vars, cycle, total_iterations, reference_out, cached, saved>>

SearchStep ==
    /\ phase = "search"
    /\ Run \/ StartLoop \/ Iterate \/ Finish
    /\ UNCHANGED <<verifier_vars, driver_vars>>

\* What is cached of a call to the verifier
CacheCall(o) ==
    cached' = [first |-> TRUE, second |-> Accepts(o), has_error |-> has_error',
               cex |-> IF Accepts(o) THEN <<>> ELSE counterexamples']

\* With --results, the postprocessed rewrite is verified and saved.
new_best_correct_callback ==
    /\ phase = "search" /\ pc = "callback"
    /\ pc' = "loop"
    /\ UNCHANGED <<state, training, timeout_itr, time_up, give_up_now, iterations,
                   num_iterations, stop_requested>>
    /\ \/ /\ options.results
          /\ \E o \in Answers[Post[state.current]] :
               /\ verify(Post[state.current], o)
               /\ CacheCall(o)
               /\ saved' = IF Accepts(o) THEN saved \cup {Post[state.current]} ELSE saved
       \/ /\ ~options.results
          /\ cached' = [cached EXCEPT !.first = FALSE]
          /\ UNCHANGED <<verifier_vars, saved>>
    /\ UNCHANGED <<phase, cycle, total_iterations, reference_out, exit>>

EndSearch ==
    /\ phase = "search" /\ pc = "returned"
    /\ total_iterations' = total_iterations + num_iterations
    /\ IF state.interrupted THEN Exit("interrupted") ELSE phase' = "verify" /\ UNCHANGED exit
    /\ UNCHANGED <<search_vars, verifier_vars, cycle, reference_out, cached, saved>>

UseCached == CacheResults /\ cached.first /\ cached.second

VerifyBest ==
    /\ phase = "verify"
    /\ \/ /\ UseCached
          /\ UNCHANGED <<cached, verifier_vars>>
       \/ /\ ~UseCached
          /\ \E o \in Answers[state.best_correct] :
               verify(state.best_correct, o) /\ CacheCall(o)
    /\ phase' = "decide"
    /\ UNCHANGED <<search_vars, cycle, total_iterations, reference_out, saved, exit>>

\* Mutant: the verdict is not looked at.
Verified_Unchecked ==
    /\ phase = "decide"
    /\ state.success
    /\ state' = [state EXCEPT !.best_correct = Post[@]]
    /\ Exit("verified")
    /\ UNCHANGED <<training, timeout_itr, time_up, give_up_now, iterations, num_iterations, pc,
                   stop_requested, verifier_vars, cycle, total_iterations, reference_out,
                   cached, saved>>

\* cached.second is "verified" from here on.  What is written out is best_correct,
\* postprocessed after it was verified.
Verified ==
    /\ phase = "decide"
    /\ state.success /\ cached.second
    /\ state' = [state EXCEPT !.best_correct = Post[@]]
    /\ Exit("verified")
    /\ UNCHANGED <<training, timeout_itr, time_up, give_up_now, iterations, num_iterations, pc,
                   stop_requested, verifier_vars, cycle, total_iterations, reference_out,
                   cached, saved>>

Exhausted == TimeoutIterations # 0 /\ total_iterations >= TimeoutIterations

GivesUp ==
    /\ phase = "decide"
    /\ ~(state.success /\ cached.second)
    /\ cached.has_error \/ Exhausted
    /\ Exit("failed")
    /\ UNCHANGED <<search_vars, verifier_vars, cycle, total_iterations, reference_out, cached, saved>>

\* The inputs that join the training set
NewTests ==
    IF cached.second \/ cached.cex = <<>> \/ options.failed_action = "quit" THEN <<>>
    ELSE IF options.failed_action = "add_counterexample" THEN <<cached.cex[1]>> ELSE cached.cex

Restart ==
    /\ phase = "decide"
    /\ ~(state.success /\ cached.second)
    /\ ~(cached.has_error \/ Exhausted)
    /\ training' = training \o NewTests
    /\ cycle' = cycle + 1
    /\ phase' = "cycle"
    /\ UNCHANGED <<state, timeout_itr, time_up, give_up_now, iterations, num_iterations, pc,
                   stop_requested, verifier_vars, total_iterations, reference_out, cached,
                   saved, exit>>

-----------------------------------------------------------------------------
(* The specification *)

Init ==
    /\ state \in {NewState(r) : r \in Starts}
    /\ training \in Trainings
    /\ timeout_itr = 0 /\ iterations = 0 /\ num_iterations = 0
    /\ time_up = FALSE /\ give_up_now = FALSE /\ stop_requested = FALSE
    /\ pc = "returned"
    /\ VerifierInit
    /\ options \in Options
    /\ phase = "cycle" /\ cycle = 0
    /\ total_iterations = 0
    /\ reference_out = <<>>
    /\ cached = NothingCached
    /\ saved = {}
    /\ exit = "running"

Driver ==
    /\ \/ \E r \in Starts : BeginCycle(r)
       \/ OutOfTime
       \/ SearchStep
       \/ new_best_correct_callback
       \/ EndSearch
       \/ VerifyBest
       \/ Verified
       \/ GivesUp
       \/ Restart
    /\ UNCHANGED options

\* The signal handler and the clock, while main() runs
Outside ==
    /\ phase # "exited"
    /\ Sigint \/ TimePasses
    /\ UNCHANGED <<verifier_vars, driver_vars, options>>

Next == Driver \/ Outside

\* main() keeps running until it exits.
Spec == Init /\ [][Next]_vars /\ WF_vars(Driver)

-----------------------------------------------------------------------------
(* Properties *)

\* A verification result kept from the callback is used only for the rewrite it is
\* about: whenever one is kept, the last call to the verifier was for the present
\* best_correct (as it is, or postprocessed) and gave that result.
CachedResultFresh ==
    cached.first /\ pc # "callback" /\ phase # "exited" =>
      /\ call.rewrite \in {state.best_correct, Post[state.best_correct]}
      /\ call.good = cached.second

\* "Search terminated successfully": what is written out comes from a rewrite that the
\* search found, that agrees with the target on every training input collected, and
\* that the verifier's last word accepted, as it was or postprocessed.
SuccessVerified ==
    exit = "verified" =>
      /\ state.success /\ call.good
      /\ \E r \in Rewrite :
           /\ PassesAll(r, training)
           /\ call.rewrite \in {r, Post[r]}
           /\ state.best_correct = Post[r]

\* The cost function knows the target's output for every test case it reads: it is
\* rebuilt after counterexamples are added.
ReferencesCurrent == phase = "search" => reference_out = training

\* What --timeout_iterations says: the "total number of iterations before giving up
\* (across all cycles)".
IterationBudget == TimeoutIterations # 0 => total_iterations <= TimeoutIterations

\* With a limit on the iterations, the program ends.
Terminates == <>(exit # "running")

Agrees(r, x) == evaluate_error(r, x) = 0

Uses(v) == \E k \in Members : Strategy[k] = v

\* The verifier's last word is on r as it is, or postprocessed.
Acceptable(r) ==
    \E a \in {r, Post[r]} :
      /\ Uses("bounded") \/ Uses("leakage") => EquivalentUpToBound(a)
      /\ Uses("ddec")     => Equivalent(a)
      /\ Uses("leakage")  => a \notin Leaky
      /\ Uses("hold_out") => PassesAll(a, TestSet)

Objectionable(r) == Uses("leakage") /\ EquivalentUpToBound(r) /\ r \in Leaky

Final(r) == Post[r]

S == INSTANCE Synthesis WITH tests <- {training[i] : i \in 1..Len(training)},
                             candidate <- state.best_correct, result <- exit

\* The driver implements counterexample guided synthesis: what is written out comes from a
\* rewrite consistent with all inputs collected, and inputs join them only if they refute
\* the best correct rewrite, which all earlier ones let through (so it never fails
\* verification again), or, with leakage in the strategy, if it leaks (it may come back).
ImplementsSynthesis == S!SynthesisSpec
=============================================================================
