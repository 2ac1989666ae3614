----------------------------- MODULE MCDataflow -----------------------------
(* Constants of the Dataflow specification for model checking: all programs *)
(* of a label, four instructions and a return over two registers and a     *)
(* flag.                                                                    *)
EXTENDS Dataflow

CONSTANTS rax, rbx, zf

Op(kind, label, read, write, undef) ==
    [kind |-> kind, label |-> label, maybe_read |-> read,
     must_write |-> write, maybe_write |-> write,
     must_undef |-> undef, maybe_undef |-> undef, mem |-> FALSE]

Label(l) == Op("label", l, {}, {}, {})

Ret == Op("ret", 0, {}, {}, {})

Ops ==
    {Label(1),
     Op("jmp", 1, {}, {}, {}),
     Op("jmp", 2, {}, {}, {}),
     Op("jcc", 1, {zf}, {}, {}),
     Op("ijmp", 0, {rax}, {}, {}),
     Ret,
     Op("plain", 0, {}, {rax}, {}),                     \* mov $0, rax
     Op("plain", 0, {rax}, {rbx}, {}),                  \* mov rax, rbx
     Op("plain", 0, {rax, rbx}, {rax, zf}, {}),         \* add rbx, rax
     Op("plain", 0, {rbx}, {rbx}, {zf})}                \* imul rbx, rbx

MCPrograms ==
    {<<Label(0), x, y, z, w, Ret>> : x \in Ops, y \in Ops, z \in Ops, w \in Ops}

\* What the theorems about DefsSound and NoUndefReads ask of the programs
ASSUME UndefsAreOverwritten == \A c \in MCPrograms : UndefsOverwritten(c)
=============================================================================
