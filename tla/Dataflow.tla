------------------------------- MODULE Dataflow -------------------------------
(***************************************************************************)
(* What the analyses of the Cfg promise about runs of the program: a       *)
(* program that passed check_invariants() is executed step by step, with   *)
(* every outcome the read, write and undef sets of its instructions allow. *)
(*                                                                         *)
(* The execution is the hardware's, not the repository's; it is what the   *)
(* results of recompute_defs() and recompute_liveness() are about.         *)
(***************************************************************************)
EXTENDS Cfg

CONSTANTS Programs     \* programs to run

ASSUME ProgramsAssumption ==
    \A code \in Programs :
      /\ code \in Seq({code[i] : i \in DOMAIN code})
      /\ \A i \in 1..Len(code) : WellFormed(code[i])

VARIABLES
    code,       \* the program
    def_ins,    \* the Cfg's def_ins_
    live_ins,   \* live_ins_, of every instruction of a reachable block
    reachable,  \* reachable_
    pc,         \* the next instruction; Exit(code) when it has returned
    defined,    \* the registers that hold a defined value
    spoiled,    \* registers overwritten from outside when nothing needed them
    watching    \* has that happened?

analysis == <<code, def_ins, live_ins, reachable>>

vars == <<analysis, pc, defined, spoiled, watching>>

\* live_ins_, of blocks and then of the instructions behind their first
LiveAt(c) ==
    LET ins  == LiveIns(c)
        outs == recompute_liveness(c)
        starts == recompute_blocks(c)
    IN  [i \in 1..Len(c) |-> IF i \in starts THEN {r \in Reg : <<i, r>> \in ins} ELSE outs[i-1]]

Init ==
    /\ code \in Programs
    /\ def_ins = recompute_defs(code)
    /\ reachable = recompute_reachable(code)
    /\ check_invariants(code, def_ins, reachable)
    /\ live_ins = LiveAt(code)
    /\ pc = 1
    /\ defined = DefIns
    /\ spoiled = {}
    /\ watching = FALSE

\* Where control may go from pc
Successors ==
    LET instr == code[pc]
    IN  CASE instr.kind = "ret"  -> {Exit(code)}
          [] instr.kind = "jmp"  -> {Dest(code, instr.label)}
          [] instr.kind = "jcc"  -> {pc + 1, Dest(code, instr.label)}
          [] instr.kind = "ijmp" -> {Exit(code)} \cup {i \in 1..Len(code) : code[i].kind = "label"}
          [] OTHER               -> {pc + 1}

\* What an instruction may leave defined: a register it undefines is undefined
\* whatever it wrote before.
Defined(instr) ==
    {(defined \cup instr.must_write \cup w) \ u :
       w \in SUBSET (instr.maybe_write \ instr.must_write),
       u \in {v \in SUBSET instr.maybe_undef : instr.must_undef \subseteq v}}

\* A read of a spoiled register spoils what is written.
Spoiled(instr) ==
    (spoiled \ (instr.must_write \cup instr.must_undef))
      \cup (IF instr.maybe_read \cap spoiled # {} THEN instr.maybe_write ELSE {})

Execute ==
    /\ pc # Exit(code)
    /\ pc' \in Successors
    /\ defined' \in Defined(code[pc])
    /\ spoiled' = Spoiled(code[pc])
    /\ UNCHANGED <<analysis, watching>>

InReach(i) == (IF i = Exit(code) THEN i ELSE BlockOf(code, i)) \in reachable

\* Once, everything that is not live is overwritten.
Spoil ==
    /\ ~watching
    /\ pc # Exit(code) /\ InReach(pc)
    /\ watching' = TRUE
    /\ spoiled' = Reg \ live_ins[pc]
    /\ UNCHANGED <<analysis, pc, defined>>

Next == Execute \/ Spoil

Spec == Init /\ [][Next]_vars

HasIndirect == \E i \in 1..Len(code) : code[i].kind = "ijmp"

-----------------------------------------------------------------------------
(* Properties *)

\* def_ins is sound: a register it calls defined is defined on every run that gets
\* there.
DefsSound == ~HasIndirect => def_ins[pc] \subseteq defined

\* "This cfg only reads from defined register locations", and returns with every
\* live-out defined: what check_invariants() is for.
NoUndefReads ==
    ~HasIndirect => IF pc = Exit(code) THEN LiveOuts \subseteq defined
                    ELSE code[pc].maybe_read \subseteq defined

\* Liveness is sound: overwriting every register that is not live at some point never
\* reaches a read, or a register that is live out of the function.
LivenessSound ==
    IF pc = Exit(code) THEN spoiled \cap LiveOuts = {}
    ELSE code[pc].maybe_read \cap spoiled = {}
=============================================================================
