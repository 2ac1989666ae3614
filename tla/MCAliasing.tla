----------------------------- MODULE MCAliasing -----------------------------
(* Constants of the Aliasing specification for model checking: accesses of one *)
(* and two bytes through two pointers and the stack pointer.                   *)
EXTENDS Aliasing

Acc(kind, base, off, size, reg) ==
    [kind |-> kind, base |-> base, off |-> off, size |-> size, reg |-> reg, from |-> reg]

Load(base, off, size, reg) == <<Acc("read", base, off, size, reg)>>
Store(base, off, size, reg) == <<Acc("write", base, off, size, reg)>>
Move(reg, from) == <<[Acc("move", "p", 0, 0, reg) EXCEPT !.from = from]>>

\* Reads and writes the same bytes
Xchg(base, off, size, reg) ==
    <<Acc("read", base, off, size, "tmp"), Acc("write", base, off, size, reg), Move(reg, "tmp")[1]>>

Instrs ==
    {Load("p", 0, 2, "r1"), Load("q", 0, 1, "r1"), Load("p", 1, 1, "r2"), Load("q", 0, 2, "r2"),
     Store("p", 0, 1, "r1"), Store("q", 0, 2, "r1"), Store("p", 1, 2, "r2"), Xchg("q", 1, 1, "r2"),
     Move("r2", "r1")}

Upto2 == {<<x>> : x \in Instrs} \cup {<<x, y>> : x \in Instrs, y \in Instrs}

MCTargets ==
    {<<Store("p", 0, 2, "r1"), Load("q", 0, 2, "r2")>>,
     <<Load("p", 2, 1, "r1"), Load("p", 0, 2, "r2")>>,
     <<Store("q", 0, 1, "r2"), Store("p", 1, 1, "r1")>>,
     <<Store("p", 0, 1, "r1"), Move("r2", "r1")>>}

\* A load of what was just stored against a move of it, next to a load that does not
\* matter, in the same cell or through another pointer
Forwarding ==
    {<<<<Load("p", 0, 2, "r2"), Store(x.base, x.off, 2, "r1"), Load(x.base, x.off, 2, "r2")>>,
       <<Store(x.base, x.off, 2, "r1"), Move("r2", "r1")>>>> :
       x \in {[base |-> "p", off |-> 2], [base |-> "q", off |-> 0]}}

\* Every target with all rewrites, with itself, and with its instructions in reverse;
\* and programs without an access
MCPairs ==
    (MCTargets \X Upto2)
      \cup {<<t, t>> : t \in MCTargets} \cup {<<t, Reverse(t)>> : t \in MCTargets}
      \cup Forwarding
      \cup {<<<<Move("r2", "r1")>>, <<Move("r2", "r1")>>>>}

\* p at either side of an alignment, q anywhere around it, the stack out of the way
MCAssignments ==
    {[b \in {"p", "q", "rsp"} |-> IF b = "p" THEN p ELSE IF b = "q" THEN q ELSE 45] :
       p \in {14, 15}, q \in 10..20}
=============================================================================
