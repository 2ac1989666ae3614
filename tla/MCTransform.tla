---------------------------- MODULE MCTransform ----------------------------
(* Constants of the Transform specification for model checking. *)
EXTENDS Transform

MCShape ==
    {[kind |-> "label", size |-> 0, rip |-> "none"],
     [kind |-> "jump",  size |-> 2, rip |-> "none"],
     [kind |-> "ret",   size |-> 1, rip |-> "none"],
     [kind |-> "call",  size |-> 5, rip |-> "none"],
     [kind |-> "plain", size |-> 1, rip |-> "none"],
     [kind |-> "plain", size |-> 6, rip |-> "mem"],
     [kind |-> "plain", size |-> 7, rip |-> "lea"]}

MCNop == [kind |-> "plain", size |-> 1, rip |-> "none"]
=============================================================================
