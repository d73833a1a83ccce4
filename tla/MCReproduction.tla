--------------------------- MODULE MCReproduction ---------------------------
(* Instances of Reproduction for TLC: a defective production file, a test  *)
(* file the user committed, and the name of a test nobody wrote yet.       *)
EXTENDS Reproduction

CONSTANTS source, suite, anchor, root

MCContents == CodeContents \cup TestContents
MCBase == [f \in Files |->
    CASE f = source -> Defective [] f = suite -> Asserting [] f = anchor -> Absent]
MCFolder == [f \in Files |-> root]
=============================================================================
