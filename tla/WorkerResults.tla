--------------------------- MODULE WorkerResults ---------------------------
(***************************************************************************)
(* Worker results as models/worker.py types them, and the rules that pick  *)
(* test results, candidate counts and candidates from them.                *)
(*                                                                         *)
(* A list of test results is the sequence of their passed flags.           *)
(***************************************************************************)
EXTENDS Integers, Sequences, FiniteSets

Statuses    == {"success", "failed", "blocked", "needs_replan"}
Confidences == {"low", "medium", "high"}
Decisions   == {"accept", "revise", "reject", "needs_human"}

(* What the orchestration reads of a worker result.  Only a success is     *)
(* ever compared with other candidates, so only there the confidence and   *)
(* the number of passing tests matter; only needs_replan has its issues    *)
(* folded into remaining_work.                                             *)
Results(maxPassed) ==
    [status : {"success"}, confidence : Confidences, passed : 0 .. maxPassed,
     issues : {FALSE}]
    \cup
    [status : {"failed", "blocked"}, confidence : {"low"}, passed : {0},
     issues : {FALSE}]
    \cup
    [status : {"needs_replan"}, confidence : {"low"}, passed : {0},
     issues : BOOLEAN]

Success(confidence, passed) ==
    [status |-> "success", confidence |-> confidence, passed |-> passed,
     issues |-> FALSE]
NoSuccess(status, issues) ==
    [status |-> status, confidence |-> "low", passed |-> 0, issues |-> issues]

Rank(confidence) ==
    CASE confidence = "low" -> 0 [] confidence = "medium" -> 1
      [] confidence = "high" -> 2

(* candidate_count_for_confidence, with the configured counts. *)
CountForConfidence(medium, low) == [confidence \in Confidences |->
    CASE confidence = "high" -> 1
      [] confidence = "medium" -> medium
      [] confidence = "low" -> low]

(* Mutant: every result is reported. *)
AllTests(results) == results
(* Mutant: the last pass is reported without what failed after it. *)
LastPassOnly(results) == IF \E i \in DOMAIN results : results[i] THEN <<TRUE>> ELSE results

(* _select_reported_test_results: the suffix from the last pass on. *)
ReportedTests(results) ==
    LET passes == {i \in DOMAIN results : results[i]}
    IN  IF passes = {} THEN results
        ELSE SubSeq(results,
                    CHOOSE i \in passes : \A j \in passes : j <= i, Len(results))

(* The number of passing tests in a list. *)
PassCount(results) == Cardinality({i \in DOMAIN results : results[i]})
=============================================================================
