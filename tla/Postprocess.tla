---------------------------- MODULE Postprocess ----------------------------
(***************************************************************************)
(* The clean up of src/src/cfg/cfg_transforms.cc that stoke_search applies *)
(* to what the search found: remove_redundant(), remove_unreachable() and  *)
(* remove_nop(), each of which takes one instruction out at a time and     *)
(* recomputes the Cfg before it looks for the next.                        *)
(*                                                                         *)
(* The Cfg comes out of a search.  Most transforms recompute what is       *)
(* defined but not what is live; Search::run recomputes everything when it *)
(* returns, but its callback sees the Cfg as the last transform left it.   *)
(***************************************************************************)
EXTENDS Cfg

CONSTANTS
    Programs,     \* programs the search may start from
    Replacements, \* instructions a transform may put in
    Requests,     \* <<caller, --postprocessing>>: who post-processes, and how
    Memory,       \* the memory, apart from the registers
    MaxMoves      \* bound on the number of accepted transforms

\* The instructions a program may be made of
Instrs == Replacements \cup UNION {{c[i] : i \in DOMAIN c} : c \in Programs}

\* A nop (is_nop() knows the one without operands) does nothing.
ASSUME PostprocessAssumption ==
    /\ Requests \subseteq {"main", "callback"} \X {"simple", "full"}
    /\ MaxMoves \in Nat
    /\ Memory \notin Reg
    /\ \A c \in Programs : c \in Seq(Instrs)
    /\ \A instr \in Instrs :
         /\ WellFormed(instr)
         /\ instr.kind = "nop" => instr.maybe_write = {} /\ ~instr.mem

VARIABLES
    code,         \* the function of the Cfg
    live_outs,    \* its live_outs_
    postprocessing, \* the option; it matters from the end of the search on
    pass,         \* "search", or the pass that is running, or "done"
    moves,        \* transforms accepted so far
    original      \* ghost: the code that was handed over

vars == <<code, live_outs, postprocessing, pass, moves, original>>

Sound(c) == check_invariants(c, recompute_defs(c), recompute_reachable(c))

Init ==
    /\ code \in Programs
    /\ Sound(code)
    /\ live_outs = recompute_liveness(code)
    /\ postprocessing = "none"
    /\ pass = "search"
    /\ moves = 0
    /\ original = code

-----------------------------------------------------------------------------
(* The search *)

\* The transforms that replace an instruction or swap two: recompute_defs(), and the
\* invariants must hold.  The control flow stays.
Transformed(new) ==
    /\ pass = "search"
    /\ moves < MaxMoves
    /\ Sound(new)
    /\ code' = new
    /\ moves' = moves + 1
    /\ original' = new
    /\ UNCHANGED <<live_outs, postprocessing, pass>>

Replace(i, instr) ==
    /\ ~is_control(code[i])
    /\ Transformed([code EXCEPT ![i] = instr])

Swap(i, j) ==
    /\ ~is_control(code[i]) /\ ~is_control(code[j])
    /\ Transformed([code EXCEPT ![i] = code[j], ![j] = code[i]])

\* The passes begin, with remove_redundant() if the option is full.
Begin(caller) ==
    /\ pass = "search"
    /\ \E option \in {"simple", "full"} :
         /\ <<caller, option>> \in Requests
         /\ postprocessing' = option
         /\ pass' = IF option = "full" THEN "redundant_unreachable" ELSE "unreachable"
    /\ UNCHANGED <<code, moves, original>>

\* Search::run returns, after state.best_correct.recompute().
SearchReturns == Begin("main") /\ live_outs' = recompute_liveness(code)

\* new_best_correct_callback copies state.current.
CallbackCopies == Begin("callback") /\ UNCHANGED live_outs

-----------------------------------------------------------------------------
(* The passes *)

Without(i) == [k \in 1..(Len(code) - 1) |-> IF k < i THEN code[k] ELSE code[k+1]]

First(removable) == CHOOSE i \in removable : \A k \in removable : i <= k

\* Mutant: one sweep over the code, which goes on behind what it removes.
Pass_Once(removable, next_pass) ==
    IF removable = {}
    THEN /\ pass' = next_pass
         /\ UNCHANGED <<code, live_outs, postprocessing, moves, original>>
    ELSE /\ code' = Without(First(removable))
         /\ live_outs' = recompute_liveness(code')
         /\ pass' = next_pass
         /\ UNCHANGED <<postprocessing, moves, original>>

\* The first instruction the pass wants to remove goes, and everything is recomputed;
\* when there is none, the next pass begins.
Pass(removable, next_pass) ==
    IF removable = {}
    THEN /\ pass' = next_pass
         /\ UNCHANGED <<code, live_outs, postprocessing, moves, original>>
    ELSE /\ code' = Without(First(removable))
         /\ live_outs' = recompute_liveness(code')
         /\ UNCHANGED <<postprocessing, pass, moves, original>>

Unreachable ==
    LET reachable == recompute_reachable(code)
    IN  {i \in 1..Len(code) : BlockOf(code, i) \notin reachable}

\* Mutant: memory is not a side effect.
has_side_effects_None(instr) == FALSE

has_side_effects(instr) == instr.mem

\* Mutant: what is live before the instruction, not after it.
Redundant_LiveBefore ==
    {i \in 2..Len(code) :
       /\ ~is_control(code[i]) /\ ~has_side_effects(code[i])
       /\ code[i].maybe_write \cap live_outs[i-1] = {}}

Redundant ==
    {i \in 1..Len(code) :
       /\ ~is_control(code[i]) /\ ~has_side_effects(code[i])
       /\ code[i].maybe_write \cap live_outs[i] = {}}

Nops == {i \in 1..Len(code) : code[i].kind = "nop"}

\* remove_redundant() begins with remove_unreachable().
remove_redundant ==
    \/ pass = "redundant_unreachable" /\ Pass(Unreachable, "redundant")
    \/ pass = "redundant" /\ Pass(Redundant, "unreachable")

remove_unreachable == pass = "unreachable" /\ Pass(Unreachable, "nop")

\* The caller recomputes once more, or has a Cfg that is current.
remove_nop ==
    /\ pass = "nop"
    /\ \/ Nops # {} /\ Pass(Nops, "nop")
       \/ /\ Nops = {}
          /\ live_outs' = recompute_liveness(code)
          /\ pass' = "done"
          /\ UNCHANGED <<code, postprocessing, moves, original>>

Next ==
    \/ \E i \in 1..Len(code), instr \in Replacements : Replace(i, instr)
    \/ \E i \in 1..Len(code) : \E j \in 1..(i-1) : Swap(i, j)
    \/ SearchReturns
    \/ CallbackCopies
    \/ remove_redundant \/ remove_unreachable \/ remove_nop

Spec == Init /\ [][Next]_vars

-----------------------------------------------------------------------------
(* What a program computes: one bit registers and one bit of memory, and an  *)
(* instruction that leaves in every register it writes (or undefines), and in *)
(* memory if it dereferences it, a sum of its reads and of its opcode.  A      *)
(* machine state is the set of the bits that are 1.                           *)

Bits == Reg \cup {Memory}

Read(instr) == instr.maybe_read \cup (IF instr.mem THEN {Memory} ELSE {})

Written(instr) ==
    instr.must_write \cup instr.must_undef \cup (IF instr.mem THEN {Memory} ELSE {})

Odd(ones, instr) == (Cardinality(ones \cap Read(instr)) + instr.op) % 2 = 1

After(instr, ones) ==
    IF Odd(ones, instr) THEN ones \cup Written(instr) ELSE ones \ Written(instr)

NextPc(c, i, ones) ==
    CASE c[i].kind = "ret" -> Exit(c)
      [] c[i].kind = "jmp" -> Dest(c, c[i].label)
      [] c[i].kind = "jcc" -> IF Odd(ones, c[i]) THEN Dest(c, c[i].label) ELSE i + 1
      [] OTHER -> i + 1

\* What a run returns in at most n steps, from every instruction and machine state
Within(c, n) ==
    LET after[k \in 0..n] ==
          [at \in (1..Exit(c)) \X SUBSET Bits |->
             IF at[1] = Exit(c) THEN <<"returns", at[2] \cap (LiveOuts \cup {Memory})>>
             ELSE IF k = 0 THEN <<"runs on", {}>>
                  ELSE after[k-1][<<NextPc(c, at[1], at[2]), After(c[at[1]], at[2])>>]]
    IN  after[n]

\* A run that has not returned after as many steps as there are states never does.
Result(c, start) == Within(c, Exit(c) * 2^Cardinality(Bits))[<<1, start>>]

Computes(c) == [start \in SUBSET Bits |-> Result(c, start)]

-----------------------------------------------------------------------------
(* Properties *)

\* Conditions of the theorems.  Nobody asks the callback for full postprocessing, whose
\* liveness is stale there; a register that some instruction may undefine is always
\* written, and not undefined, by those that may write it; there are no indirect jumps.
LivenessCurrent == <<"callback", "full">> \notin Requests

UndefsAreOverwritten ==
    \A a, b \in Instrs : a.maybe_undef \cap b.maybe_write \subseteq b.must_write \ b.maybe_undef

NoIndirectJumps == \A instr \in Instrs : instr.kind # "ijmp"

\* check_invariants(), which every pass asserts on entry and on exit
InvariantsKept == pass # "search" => Sound(code)

\* Postprocessing changes nothing that can be seen from outside: for every start, the
\* function returns (or does not) as it did before, with the same live-out registers
\* and the same memory.
SameResult == pass # "search" => Computes(code) = Computes(original)

\* When it is done there is nothing left to remove: no pass undoes what an earlier
\* pass achieved.
NothingLeft ==
    pass = "done" =>
      /\ Unreachable = {} /\ Nops = {}
      /\ postprocessing = "full" => Redundant = {}
=============================================================================
