---------------------------- MODULE MCStokeSearch ----------------------------
(* Constants of the StokeSearch specification for model checking: a target t, *)
(* which leaks; a, free but wrong on y; b, correct and cheaper than t; d, b   *)
(* with dead code that leaks and that postprocessing removes; c, wrong on y,  *)
(* too, where its runs leave the validators' bound.                           *)
EXTENDS StokeSearch

CONSTANTS t, a, b, c, d, x, y

All == {t, a, b, c, d}

MCCode == [r \in All |-> [i \in {x, y} |-> "normal"]]

MCDistance == [r \in All |-> [i \in {x, y} |->
                 CASE r = a -> (IF i = y THEN 2 ELSE 0)
                   [] r = c -> (IF i = y THEN 1 ELSE 0)
                   [] OTHER -> 0]]

MCPerf == [r \in All |->
             CASE r = t -> 3 [] r = a -> 0 [] r = b -> 1 [] r = c -> 1 [] r = d -> 2]

MCPost == [r \in All |-> IF r = d THEN b ELSE r]

\* The defaults with a results directory; and without, adding all counterexamples
Saving == [results |-> TRUE, failed_action |-> "add_counterexample"]
NotSaving == [results |-> FALSE, failed_action |-> "add_all_counterexamples"]

SavingOrNot == {Saving, NotSaving}

HoldOutLeakage == <<"hold_out", "leakage">>
MCCovered == [r \in All |-> IF r = c THEN {x} ELSE {x, y}]
OneTest == <<x>>
OneTraining == {OneTest}

\* --cycle_timeout 2
TwoEach(i) == 2
=============================================================================
