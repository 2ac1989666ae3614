---------------------------- MODULE MCPostprocess ----------------------------
(* Constants of the Postprocess specification for model checking: all programs  *)
(* of three instructions between two labels and a return, over two registers    *)
(* and a flag, with jumps forward and back, a nop, and stores.                  *)
EXTENDS Postprocess

CONSTANTS rax, rbx, zf

Op(kind, label, read, write, undef, mem, op) ==
    [kind |-> kind, label |-> label, maybe_read |-> read,
     must_write |-> write, maybe_write |-> write,
     must_undef |-> undef, maybe_undef |-> undef, mem |-> mem, op |-> op]

Label(l) == Op("label", l, {}, {}, {}, FALSE, 0)

Ret == Op("ret", 0, {}, {}, {}, FALSE, 0)

Plain ==
    {Op("nop", 0, {}, {}, {}, FALSE, 0),
     Op("plain", 0, {}, {rbx}, {}, FALSE, 1),           \* mov $1, rbx
     Op("plain", 0, {rax}, {rbx}, {}, FALSE, 0),        \* mov rax, rbx
     Op("plain", 0, {rax, rbx}, {rax, zf}, {}, FALSE, 0),\* add rbx, rax
     Op("plain", 0, {rbx}, {rbx}, {zf}, FALSE, 1),      \* imul rbx, rbx
     Op("plain", 0, {rax}, {zf}, {}, FALSE, 0),         \* test rax, rax
     Op("plain", 0, {rax}, {}, {}, TRUE, 0)}            \* mov rax, (mem)

Control ==
    {Label(1),
     Op("jmp", 1, {}, {}, {}, FALSE, 0),
     Op("jcc", 1, {zf}, {}, {}, FALSE, 0),
     Ret}

MCPrograms ==
    {<<Label(0), x, y, z, Label(1), Ret>> :
       x \in Plain, y \in Plain \cup Control, z \in Plain \cup Control}

\* What a move may put in
Copies ==
    {Op("nop", 0, {}, {}, {}, FALSE, 0),
     Op("plain", 0, {rax}, {rbx}, {}, FALSE, 0),        \* mov rax, rbx
     Op("plain", 0, {rax}, {}, {}, TRUE, 0)}            \* mov rax, (mem)

\* Straight line code
LinePrograms == {<<Label(0), x, y, Ret>> : x \in Plain, y \in Plain}

\* All but full postprocessing in the callback
SafeRequests == {<<"main", "simple">>, <<"main", "full">>, <<"callback", "simple">>}

CallbackFull == {<<"callback", "full">>}

\* Hypotheses of the theorems about SameResult and the other invariants
ASSUME ProgramsSatisfyHypotheses == UndefsAreOverwritten /\ NoIndirectJumps
=============================================================================
