------------------------------ MODULE Synthesis ------------------------------
(***************************************************************************)
(* What stoke_search promises, without saying how: counterexample guided   *)
(* synthesis.  One rewrite after the other is a candidate.  A set of       *)
(* inputs grows because the candidate, which agrees with the target on all *)
(* of them, is refuted by others (it will not be consistent again), or is  *)
(* refused for what no input can show (and may come back); until one is    *)
(* accepted that agrees on all, or the search gives up.                    *)
(***************************************************************************)
CONSTANTS
    Rewrite,
    Input,
    Agrees(_, _),       \* Agrees(r, x): r does on x what the target does
    Acceptable(_),      \* a rewrite the verifier may accept
    Objectionable(_),   \* one that it may refuse though no input refutes it
    Final(_)            \* Final(r): what is written out when r is accepted

VARIABLES
    tests,        \* the inputs every new candidate has to get right
    candidate,
    result        \* "running", "verified", "failed" or "interrupted"

synthesis_vars == <<tests, candidate, result>>

Consistent == \A x \in tests : Agrees(candidate, x)

SynthesisInit ==
    /\ tests \in SUBSET Input
    /\ candidate \in Rewrite
    /\ result = "running"

Propose ==
    /\ result = "running"
    /\ candidate' \in Rewrite
    /\ UNCHANGED <<tests, result>>

MoreTests ==
    /\ tests' \in SUBSET Input /\ tests \subseteq tests'
    /\ UNCHANGED <<candidate, result>>

\* Progress: the candidate is consistent no more.
Refine ==
    /\ result = "running"
    /\ MoreTests
    /\ Consistent
    /\ \A x \in tests' \ tests : ~Agrees(candidate, x)

\* No progress: the candidate may be as consistent as before.
Refuse ==
    /\ result = "running"
    /\ MoreTests
    /\ Consistent /\ Objectionable(candidate)

Succeed ==
    /\ result = "running"
    /\ Consistent /\ Acceptable(candidate)
    /\ result' = "verified" /\ candidate' = Final(candidate)
    /\ UNCHANGED tests

GiveUp ==
    /\ result = "running"
    /\ result' \in {"failed", "interrupted"}
    /\ UNCHANGED <<tests, candidate>>

SynthesisNext == Propose \/ Refine \/ Refuse \/ Succeed \/ GiveUp

SynthesisSpec == SynthesisInit /\ [][SynthesisNext]_synthesis_vars
=============================================================================
