------------------------------ MODULE MCExprCost ------------------------------
(* Constants of the ExprCost specification for model checking: a target, and  *)
(* rewrites that are wrong on one input, wrong on several, and that signal.   *)
(* Line 1 of the target leaks on x and y together; near's line 1 never leaves *)
(* one class, far's line 1 and line 2 see one class each, trap's line 2 leaks.*)
EXTENDS ExprCost

CONSTANTS t, near, far, trap, x, y

All == {t, near, far, trap}

MCCode == [r \in All |-> [i \in {x, y} |-> IF r = trap /\ i = y THEN "signal" ELSE "normal"]]

MCDistance == [r \in All |-> [i \in {x, y} |->
                 CASE r = near -> (IF i = y THEN 2 ELSE 0)
                   [] r = far -> (IF i = x THEN 1 ELSE 3)
                   [] OTHER -> 0]]

MCPerf == [r \in All |-> IF r = t THEN 2 ELSE 1]

MCTrace == [r \in All |-> [i \in {x, y} |->
              CASE r = t -> {<<1, "sub", IF i = x THEN 0 ELSE 5>>}
                [] r = near -> {<<1, "sub", 0>>, <<2, "mov", 5>>}
                [] r = far -> {<<1, "sub", 5>>, <<2, "sub", 0>>}
                [] r = trap -> {<<1, "and", 1>>, <<2, "sub", IF i = x THEN 9 ELSE 0>>}]]

\* sub: zero, and everything else in two ranges; and: one class only
MCLeakageRanges ==
    [o \in {"sub", "and"} |->
       IF o = "sub" THEN <<<<{0}>>, <<1..7, 8..15>>>> ELSE <<<<0..15>>>>]

MCLeafName == {"correctness", "leakage", "latency"}
MCNumber == [n \in {"0", "2"} |-> IF n = "0" THEN 0 ELSE 2]

Default(cost) == [cost |-> cost, correctness |-> <<"correctness", "==", "0">>]

Bare(cost) == [cost |-> cost, correctness |-> <<>>]

Setup(texts, shared, reduction, lkg) ==
    [fxns |-> texts, shared |-> shared, reduction |-> reduction, lkg_reduction |-> lkg]

\* The cost functions of the examples; the leakage cost; and a logger that does not ask
\* for leakage
MCSetups ==
    {Setup(<<Default(cost)>>, FALSE, reduction, "binary") :
       cost \in {<<"correctness">>,
                <<"2", "*", "correctness", "+", "latency">>,
                <<"2", "*", "correctness", "+", "leakage">>},
       reduction \in {"sum", "max"}}
    \cup {Setup(<<Default(<<"leakage">>)>>, FALSE, "sum", lkg) :
            lkg \in {"binary", "instructions", "equivalence_classes", "value_ranges"}}
    \cup {Setup(<<Bare(<<"correctness">>), Bare(<<"latency">>)>>, TRUE, "sum", "binary")}

\* --cost latency, and the correctness term left as it is
LatencyOnly == {Setup(<<Default(<<"latency">>)>>, FALSE, "sum", "binary")}
=============================================================================
