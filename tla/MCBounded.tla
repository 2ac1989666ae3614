----------------------------- MODULE MCBounded -----------------------------
(* Constants of the Bounded specification for model checking: targets with a *)
(* branch, a loop, a call and a load, and all rewrites of three              *)
(* instructions over one register and one flag.                              *)
EXTENDS Bounded

Label(l) == Instr("label", l, "")
Jmp(l) == Instr("jmp", l, "")
Jcc(c, l) == Instr("jcc", l, c)
Plain(op) == Instr("plain", 0, op)
CallTo(l) == Instr("call", l, "")
Ret == Instr("ret", 0, "")

\* Function 7 uses the label the programs use too; function 8 calls.
MCAux ==
    [l \in {7, 8} |->
       IF l = 7 THEN <<Label(7), Jcc("e", 1), Plain("inc"), Label(1), Ret>>
       ELSE <<Label(8), CallTo(7), Ret>>]

Ops == {Label(1), Jmp(1), Jcc("ne", 1), CallTo(7), Plain("inc"), Plain("dec"), Plain("load")}

Defined(code, l) == Cardinality({i \in 1..Len(code) : code[i] = Label(l)}) = 1

\* Every label that is used is defined once.
LabelsDefined(code) ==
    \A i \in 1..Len(code) : code[i].kind \in {"label", "jmp", "jcc"} => Defined(code, code[i].label)

\* A conditional jump to the block behind it
JumpsToNext(code) ==
    \E b \in recompute_blocks(code) \ {Exit(code)} :
      LET i == LastOf(code, b) IN code[i].kind = "jcc" /\ Dest(code, code[i].label) = i + 1

Three == {<<Label(0), x, y, z, Ret>> : x \in Ops, y \in Ops, z \in Ops}

MCTargets ==
    {<<Label(0), Plain("inc"), Plain("dec"), Ret>>,
     <<Label(0), Label(1), Plain("dec"), Jcc("ne", 1), Ret>>,
     <<Label(0), Jcc("e", 1), Plain("inc"), Label(1), CallTo(7), Ret>>,
     <<Label(0), Plain("load"), Plain("inc"), Ret>>}

\* Equal to a target but for what it says of itself
MCForeign == {<<Label(0), Plain("dec"), Plain("inc"), Ret>>}

MCRewrites ==
    {code \in Three : LabelsDefined(code) /\ ~JumpsToNext(code)}
      \cup MCTargets
      \cup {<<Label(0), CallTo(8), Ret>>, <<Label(0), Plain("cpuid"), Ret>>}
      \cup MCForeign

MCAgain == {<<Label(0), Plain("inc"), Plain("dec"), Ret>>, <<Label(0), Plain("cpuid"), Ret>>}

\* Rewrites in which a jump leads where control goes anyway
FallthroughRewrites == {code \in Three : LabelsDefined(code) /\ JumpsToNext(code)}

FallthroughTargets == {<<Label(0), Plain("inc"), Plain("dec"), Ret>>}

\* The flag matters to a branch that comes first.
MCInput ==
    {[a |-> v, zf |-> FALSE, sig |-> FALSE] : v \in 0..2} \cup {[a |-> 2, zf |-> TRUE, sig |-> FALSE]}

\* An increment shows whether its operand is zero.
MCLeakageClasses == [op \in {"inc"} |-> {{0}, {1, 2}}]
=============================================================================
