--------------------------- MODULE MCMainWorkflow ---------------------------
(* Instances of MainWorkflow for TLC. *)
EXTENDS MainRefinement

CONSTANTS code, anchor, suite, c0, c1, c2

(* The production file and the test suite exist, the anchor test is still  *)
(* to be written.                                                          *)
MCOrigin == [f \in Files |-> IF f = anchor THEN Absent ELSE c0]

(* The candidate counts of the default configuration ... *)
DefaultCount == CountForConfidence(1, 2)
(* ... and with CANDIDATE_COUNT_LOW_CONFIDENCE=1. *)
SingleCount == CountForConfidence(1, 1)
=============================================================================
