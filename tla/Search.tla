-------------------------------- MODULE Search --------------------------------
(***************************************************************************)
(* Search::run (src/src/search/search.cc): the Markov chain over rewrites. *)
(* Each iteration proposes a transformed rewrite, evaluates its cost with  *)
(* a bound drawn from the acceptance probability, and keeps it or undoes   *)
(* the transform.  SIGINT (or stop(), from a callback) raises give_up_now  *)
(* at any moment; the loop only looks at its head.                         *)
(*                                                                         *)
(* pc:  idle -> configured -> loop <-> callback -> returned                *)
(*                                                                         *)
(* The transforms are abstracted to "any rewrite may be proposed"; that    *)
(* undoing one gives back the very rewrite it was applied to is the        *)
(* subject of module Transform.                                            *)
(***************************************************************************)
EXTENDS Cost

CONSTANTS
    Slack,       \* values of -log(p)/beta, rounded down
    Trainings,   \* training sets
    Starts,      \* what current and best_yet may start from (--init)
    Timeouts,    \* values of timeout_itr_; 0 is no limit
    TimeLimit,   \* is timeout_sec_ set?
    MaxItr       \* bound on the iterations of a search without limit

ASSUME SearchAssumption ==
    /\ Slack \subseteq Nat
    /\ Trainings \subseteq Seq(Input)
    /\ Starts \subseteq Rewrite
    /\ Timeouts \subseteq Nat
    /\ TimeLimit \in BOOLEAN
    /\ MaxItr \in Nat

\* max_cost is beyond what any training set can add up to.
ASSUME CostsFit ==
    \A r \in Rewrite, tests \in Trainings : SumOf(Errors(r, tests)) < max_cost

VARIABLES
    state,           \* SearchState
    training,        \* the inputs of the training sandbox, in order
    timeout_itr,     \* timeout_itr_
    time_up,         \* timeout_sec_ has elapsed
    give_up_now,     \* the flag the signal handler sets
    iterations,      \* local to run()
    num_iterations,  \* what get_statistics() reports
    pc,
    stop_requested   \* ghost: a signal or stop() came while the loop was running

search_vars == <<state, training, timeout_itr, time_up, give_up_now, iterations,
                 num_iterations, pc, stop_requested>>

SearchState ==
    [current : Rewrite, current_cost : Nat, best_yet : Rewrite, best_yet_cost : Nat,
     best_correct : Rewrite, best_correct_cost : Nat, success : BOOLEAN, interrupted : BOOLEAN]

\* The constructor: best_correct is the target.  The costs are not set yet.
NewState(r) ==
    [current |-> r, current_cost |-> 0, best_yet |-> r, best_yet_cost |-> 0,
     best_correct |-> Target, best_correct_cost |-> 0, success |-> FALSE, interrupted |-> FALSE]

Running == pc \in {"loop", "callback"}

-----------------------------------------------------------------------------
(* Search::run *)

configure(st) ==
    [st EXCEPT !.current_cost = fxn(st.current, training, max_cost).cost,
               !.best_yet_cost = fxn(st.best_yet, training, max_cost).cost,
               !.best_correct_cost = fxn(st.best_correct, training, max_cost).cost,
               !.success = FALSE]

\* Mutant: a start that costs nothing counts no iteration.
Run_NoneCounted ==
    /\ pc = "idle"
    /\ LET st == configure(state)
       IN  IF st.current_cost = 0
           THEN /\ state' = [st EXCEPT !.success = TRUE, !.best_correct = st.current,
                                       !.best_correct_cost = 0]
                /\ pc' = "returned"
           ELSE /\ state' = st
                /\ pc' = "configured"
    /\ num_iterations' = 0
    /\ stop_requested' = FALSE
    /\ UNCHANGED <<training, timeout_itr, time_up, give_up_now, iterations>>

\* A start that costs nothing is returned at once.
Run ==
    /\ pc = "idle"
    /\ LET st == configure(state)
       IN  IF st.current_cost = 0
           THEN /\ state' = [st EXCEPT !.success = TRUE, !.best_correct = st.current,
                                       !.best_correct_cost = 0]
                /\ num_iterations' = 1
                /\ pc' = "returned"
           ELSE /\ state' = st
                /\ num_iterations' = 0
                /\ pc' = "configured"
    /\ stop_requested' = FALSE
    /\ UNCHANGED <<training, timeout_itr, time_up, give_up_now, iterations>>

\* A signal that came before this is forgotten.
StartLoop ==
    /\ pc = "configured"
    /\ give_up_now' = FALSE
    /\ iterations' = 0
    /\ pc' = "loop"
    /\ UNCHANGED <<state, training, timeout_itr, time_up, num_iterations, stop_requested>>

\* Mutant: one iteration too many.
TimedOut_OneMore ==
    \/ timeout_itr > 0 /\ iterations > timeout_itr
    \/ TimeLimit /\ time_up

TimedOut ==
    \/ timeout_itr > 0 /\ iterations >= timeout_itr
    \/ TimeLimit /\ time_up

\* Mutant: the flag is looked at only when the loop is left.
Continues_SignalIgnored == state.current_cost > 0 /\ ~TimedOut

Continues == state.current_cost > 0 /\ ~give_up_now /\ ~TimedOut

\* One trip through the loop
Step ==
    /\ pc = "loop"
    /\ Continues
    /\ timeout_itr = 0 => iterations < MaxItr
    /\ iterations' = iterations + 1
    /\ UNCHANGED <<training, timeout_itr, time_up, give_up_now, num_iterations, stop_requested>>

ProposalFails ==
    /\ Step
    /\ UNCHANGED <<state, pc>>

\* Mutant: the cost function may stop at max.
Evaluation_StopsAtMax(r, slack) == fxn(r, training, state.current_cost + slack)

\* max is current_cost - log(p)/beta; the cost function may stop at max + 1.
Evaluation(r, slack) == fxn(r, training, state.current_cost + slack + 1)

Rejected(r, slack) == Evaluation(r, slack).cost > state.current_cost + slack

\* The transform is undone.
Reject(r, slack) ==
    /\ Step
    /\ Rejected(r, slack)
    /\ UNCHANGED <<state, pc>>

\* Mutant: correctness is not asked for.
Accepted_AnyCheaper(r, res) ==
    LET better  == res.cost < state.best_yet_cost
        correct == res.cost = 0 \/ res.cost < state.best_correct_cost
    IN  [state EXCEPT
           !.current = r, !.current_cost = res.cost,
           !.best_yet = IF better THEN r ELSE @,
           !.best_yet_cost = IF better THEN res.cost ELSE @,
           !.success = @ \/ correct,
           !.best_correct = IF correct THEN r ELSE @,
           !.best_correct_cost = IF correct THEN res.cost ELSE @]

Accepted(r, res) ==
    LET better  == res.cost < state.best_yet_cost
        correct == res.correct /\ (res.cost = 0 \/ res.cost < state.best_correct_cost)
    IN  [state EXCEPT
           !.current = r, !.current_cost = res.cost,
           !.best_yet = IF better THEN r ELSE @,
           !.best_yet_cost = IF better THEN res.cost ELSE @,
           !.success = @ \/ correct,
           !.best_correct = IF correct THEN r ELSE @,
           !.best_correct_cost = IF correct THEN res.cost ELSE @]

NewBestCorrect(res) ==
    res.correct /\ (res.cost = 0 \/ res.cost < state.best_correct_cost)

\* The new best correct rewrite is handed to new_best_correct_cb_.
Accept(r, slack) ==
    /\ Step
    /\ ~Rejected(r, slack)
    /\ state' = Accepted(r, Evaluation(r, slack))
    /\ pc' = IF NewBestCorrect(Evaluation(r, slack)) THEN "callback" ELSE "loop"

\* A callback that does nothing, or calls stop()
CallbackReturns(stops) ==
    /\ pc = "callback"
    /\ pc' = "loop"
    /\ give_up_now' = (give_up_now \/ stops)
    /\ stop_requested' = (stop_requested \/ stops)
    /\ UNCHANGED <<state, training, timeout_itr, time_up, iterations, num_iterations>>

\* Mutant: at the iteration limit the loop continues instead of breaking.
Finish_LimitIgnored ==
    /\ pc = "loop"
    /\ state.current_cost = 0 \/ give_up_now \/ (TimeLimit /\ time_up)
    /\ num_iterations' = iterations
    /\ state' = [state EXCEPT !.interrupted = @ \/ give_up_now]
    /\ pc' = "returned"
    /\ UNCHANGED <<training, timeout_itr, time_up, give_up_now, iterations, stop_requested>>

Finish ==
    /\ pc = "loop"
    /\ ~Continues
    /\ num_iterations' = iterations
    /\ state' = [state EXCEPT !.interrupted = @ \/ give_up_now]
    /\ pc' = "returned"
    /\ UNCHANGED <<training, timeout_itr, time_up, give_up_now, iterations, stop_requested>>

-----------------------------------------------------------------------------
(* The world outside *)

\* The signal handler, between any two steps
Sigint ==
    /\ give_up_now' = TRUE
    /\ stop_requested' = (stop_requested \/ Running)
    /\ UNCHANGED <<state, training, timeout_itr, time_up, iterations, num_iterations, pc>>

TimePasses ==
    /\ TimeLimit /\ ~time_up
    /\ time_up' = TRUE
    /\ UNCHANGED <<state, training, timeout_itr, give_up_now, iterations, num_iterations,
                   pc, stop_requested>>

\* A caller runs the search again, from a new state.
Again(r, n) ==
    /\ pc = "returned"
    /\ state' = NewState(r)
    /\ timeout_itr' = n
    /\ pc' = "idle"
    /\ UNCHANGED <<training, time_up, give_up_now, iterations, num_iterations, stop_requested>>

-----------------------------------------------------------------------------
(* The specification of a search on its own *)

SearchInit ==
    /\ state \in {NewState(r) : r \in Starts}
    /\ training \in Trainings
    /\ timeout_itr \in Timeouts
    /\ time_up = FALSE
    /\ give_up_now = FALSE
    /\ iterations = 0
    /\ num_iterations = 0
    /\ pc = "idle"
    /\ stop_requested = FALSE

Iterate ==
    \/ ProposalFails
    \/ \E r \in Rewrite, slack \in Slack : Reject(r, slack) \/ Accept(r, slack)

Program ==
    \/ Run
    \/ StartLoop
    \/ Iterate
    \/ \E stops \in BOOLEAN : CallbackReturns(stops)
    \/ Finish

SearchNext ==
    \/ Program
    \/ Sigint
    \/ TimePasses
    \/ \E r \in Starts, n \in Timeouts : Again(r, n)

\* The program keeps running; signals, time and further searches need not come.
SearchSpec == SearchInit /\ [][SearchNext]_search_vars /\ WF_search_vars(Program)

-----------------------------------------------------------------------------
(* Properties *)

\* The costs the search compares are the true costs of the rewrites it holds: an
\* evaluation cut short by its bound is never taken for a cost.
CostsExact ==
    pc # "idle" =>
      /\ state.current_cost = ExactCost(state.current, training)
      /\ state.best_yet_cost = ExactCost(state.best_yet, training)
      /\ state.best_correct_cost = ExactCost(state.best_correct, training)

\* best_correct agrees with the target on every test case, in every state of the
\* search (the early return included), and best_yet is no worse than what the chain
\* is at or than what it has found correct.
BestSound ==
    pc # "idle" =>
      /\ PassesAll(state.best_correct, training)
      /\ state.best_yet_cost <= state.current_cost
      /\ state.success => state.best_yet_cost <= state.best_correct_cost

\* Once a stop is requested while the loop runs, nothing more is proposed and the
\* run ends as interrupted.
StopHonoured ==
    /\ [][stop_requested /\ pc = "loop" => state'.current = state.current]_search_vars
    /\ [](pc = "returned" /\ stop_requested => state.interrupted)

\* A run never exceeds its limit, and one that ends for no other reason than its own
\* has at least one iteration to report: the caller that counts them gets on.
IterationsCounted ==
    pc = "returned" =>
      /\ timeout_itr > 0 => num_iterations <= timeout_itr
      /\ ~state.interrupted /\ ~time_up => num_iterations >= 1

\* A search with an iteration limit returns, and so does any search asked to stop.
SearchReturns ==
    /\ (pc = "idle" /\ timeout_itr > 0) ~> (pc = "returned")
    /\ stop_requested ~> (pc \in {"returned", "idle"})
=============================================================================
