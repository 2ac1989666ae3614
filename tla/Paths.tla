-------------------------------- MODULE Paths --------------------------------
(***************************************************************************)
(* Paths through a control flow graph (src/src/cfg/paths.cc): the          *)
(* enumeration of all of them up to a bound, and the one a test case       *)
(* takes.                                                                  *)
(***************************************************************************)
EXTENDS Cfg, SequencesExt

\* succs_[b] as the list it is: where a conditional jump leads to the next block, that
\* block is in it twice.
Succs(code, b) ==
    IF b \in {Entry, Exit(code)} THEN SetToSeq(recompute_succs(code, b))
    ELSE LET instr == code[LastOf(code, b)]
         IN  IF instr.kind = "jcc" THEN <<NextBlock(code, b), Dest(code, instr.label)>>
             ELSE SetToSeq(recompute_succs(code, b))

RECURSIVE enumerate_paths_helper(_, _, _, _, _, _)

\* Mutant: a block may not be entered as often as the bound says.
Explored_OneLess(count, max_count) == count + 1 < max_count

\* Is a successor that was entered count times entered again?
Explored(count, max_count) == count + 1 <= max_count

\* counts[b]: how often path enters b, its first block not counted
enumerate_paths_helper(code, path, end, max_count, counts, nopass) ==
    LET last  == Last(path)
        succs == Succs(code, last)
        found == IF last = end /\ Len(path) > 1 THEN <<path>> ELSE <<>>
        stop  == last = Exit(code) \/ (Len(path) > 1 /\ last \in nopass)
    IN  IF stop THEN found
        ELSE found \o
             FlattenSeq([k \in 1..Len(succs) |->
               IF ~Explored(counts[succs[k]], max_count) THEN <<>>
               ELSE enumerate_paths_helper(code, Append(path, succs[k]), end, max_count,
                                           [counts EXCEPT ![succs[k]] = @ + 1], nopass)])

NonEmpty(code, path) == SelectSeq(path, LAMBDA b : b \notin {Entry, Exit(code)})

\* The entry, which is empty, and the exit are dropped from what was found.
enumerate_paths(code, max_len, start, end, nopass) ==
    LET none  == [b \in recompute_blocks(code) \cup {Entry} |-> 0]
        found == IF max_len > 0
                 THEN enumerate_paths_helper(code, <<start>>, end, max_len, none, nopass)
                 ELSE <<>>
    IN  [i \in 1..Len(found) |-> NonEmpty(code, found[i])]

\* The defaults: from the entry to the exit, through any block
AllPaths(code, max_len) == enumerate_paths(code, max_len, Entry, Exit(code), {})

\* How often a path enters a block
Entered(path, b) == Cardinality({i \in 1..Len(path) : path[i] = b})

WithinBound(path, max_len) == \A i \in 1..Len(path) : Entered(path, path[i]) <= max_len
=============================================================================
