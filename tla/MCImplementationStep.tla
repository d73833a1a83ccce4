------------------------ MODULE MCImplementationStep ------------------------
(* Instances of ImplementationStep for TLC: an existing test file, the     *)
(* reproduction's test file, and two test files nobody wrote yet, one in a *)
(* new folder called tests and one in a new folder of another name.  The   *)
(* base holds the reproduction test only when there is one.                *)
EXTENDS ImplementationStep

CONSTANTS suite, repro, extra, nested, root, testFolder, newFolder, c0, c1

MCBase == [f \in Files |->
    IF f \in {extra, nested} \/ (f = repro /\ ~Guarded) THEN Absent ELSE c0]

MCFolder == [f \in Files |->
    CASE f = extra -> testFolder [] f = nested -> newFolder [] OTHER -> root]
=============================================================================
