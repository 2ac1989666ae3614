----------------------------- MODULE CostParser -----------------------------
(***************************************************************************)
(* The expressions of --cost and --correctness: the recursive descent      *)
(* parser of src/src/cost/cost_parser.cc and the expression trees it       *)
(* builds (src/src/cost/expr.h).                                           *)
(*                                                                         *)
(* The text is a sequence of tokens; that the parser finds them in a       *)
(* string while it parses is left out.                                     *)
(***************************************************************************)
EXTENDS Integers, Sequences, FiniteSets, TLC

CONSTANTS
    LeafName,    \* the symbol table
    NumberOf     \* NumberOf[n]: the value of the numeral n

Numeral == DOMAIN NumberOf

Operators == <<{"|"}, {"&"}, {"=="}, {"<", "<=", ">", ">="}, {"<<", ">>"}, {"+", "-"},
               {"*", "/", "%"}>>

COST_PARSER_N == Len(Operators)

Leaf(name) == [op |-> "leaf", fxn |-> name]
Constant(v) == [op |-> "const", val |-> v]
Binary(op, a, b) == [op |-> op, a1 |-> a, a2 |-> b]

\* What a parse function leaves: a tree, or an error; and index_
Parsed(tree, next) == [err |-> FALSE, tree |-> tree, next |-> next]
ParseError(next) == [err |-> TRUE, tree |-> Constant(0), next |-> next]

TokenAt(s, i) == IF i <= Len(s) THEN s[i] ELSE "end"

\* Mutant: an operator that binds less tightly is taken as well.
parse_BINOP_Looser(n, tok) == \E m \in 1..n : tok \in Operators[m]

\* Is there an operator of class n here?
parse_BINOP(n, tok) == tok \in Operators[n]

RECURSIVE parse_L(_, _, _)

parse_T(s, i) ==
    LET tok == TokenAt(s, i)
    IN  CASE tok \in LeafName -> Parsed(Leaf(tok), i + 1)
          [] tok \in Numeral  -> Parsed(Constant(NumberOf[tok]), i + 1)
          [] tok = "("        ->
               LET inner == parse_L(0, s, i + 1)
               IN  IF inner.err \/ TokenAt(s, inner.next) # ")" THEN ParseError(inner.next)
                   ELSE Parsed(inner.tree, inner.next + 1)
          [] OTHER            -> ParseError(i)

\* A tighter expression, and with an operator of class n + 1 behind it the rest: all
\* operators associate to the right.
parse_L(n, s, i) ==
    LET lhs == IF n = COST_PARSER_N - 1 THEN parse_T(s, i) ELSE parse_L(n + 1, s, i)
    IN  IF lhs.err \/ ~parse_BINOP(n + 1, TokenAt(s, lhs.next)) THEN lhs
        ELSE LET rhs == parse_L(n, s, lhs.next + 1)
             IN  IF rhs.err THEN rhs
                 ELSE Parsed(Binary(s[lhs.next], lhs.tree, rhs.tree), rhs.next)

\* Everything must be consumed.
parse_S(s) ==
    LET all == parse_L(0, s, 1)
    IN  IF all.next <= Len(s) THEN ParseError(all.next) ELSE all

-----------------------------------------------------------------------------
(* Reference definition: a tree written with no more parentheses than it     *)
(* needs, by the table of operators in the comment at cost_parser.h:69-75.   *)

BINOP == [op \in {"|"} |-> 1] @@ [op \in {"&"} |-> 2] @@ [op \in {"<", "<=", ">", ">="} |-> 3]
           @@ [op \in {"<<", ">>"} |-> 4] @@ [op \in {"=="} |-> 5] @@ [op \in {"+", "-"} |-> 6]
           @@ [op \in {"*", "/", "%"} |-> 7]

RECURSIVE Written(_, _)

\* tree, where an operator of a class below least needs parentheses
Written(tree, least) ==
    CASE tree.op = "leaf"  -> <<tree.fxn>>
      [] tree.op = "const" -> <<CHOOSE n \in Numeral : NumberOf[n] = tree.val>>
      [] OTHER ->
           LET n    == BINOP[tree.op]
               text == Written(tree.a1, n + 1) \o <<tree.op>> \o Written(tree.a2, n)
           IN  IF n < least THEN <<"(">> \o text \o <<")">> ELSE text

\* The tree that a text was written from is what the parser finds in it.
ReadBack(tree) ==
    LET text == Written(tree, 0) IN parse_S(text) = Parsed(tree, Len(text) + 1)

RECURSIVE Misread(_)

\* Where code and comment disagree.  By the comment == binds more tightly than comparisons
\* and shifts and needs no parentheses as their operand; parse_BINOP takes it as the
\* looser one.
Misread(tree) ==
    /\ tree.op \notin {"leaf", "const"}
    /\ \/ /\ tree.op \in {"<", "<=", ">", ">=", "<<", ">>"}
          /\ "==" \in {tree.a1.op, tree.a2.op}
       \/ Misread(tree.a1) \/ Misread(tree.a2)
=============================================================================
