------------------------------ MODULE MCSearch ------------------------------
(* Constants of the Search specification for model checking: a target, a    *)
(* free rewrite that is wrong on y, a correct and cheaper one, and one that *)
(* is wrong on both inputs.                                                 *)
EXTENDS Search

CONSTANTS t, a, b, c, x, y

MCTrainings == UNION {[1..n -> {x, y}] : n \in 0..2}

MCCode == [r \in {t, a, b, c} |-> [i \in {x, y} |-> "normal"]]

MCDistance == [r \in {t, a, b, c} |-> [i \in {x, y} |->
                 CASE r = a -> (IF i = y THEN 2 ELSE 0)
                   [] r = c -> (IF i = x THEN 1 ELSE 3)
                   [] OTHER -> 0]]

MCPerf == [r \in {t, a, b, c} |-> CASE r = t -> 2 [] r = a -> 0 [] r = b -> 1 [] r = c -> 0]
=============================================================================
