------------------------- MODULE ImplementationStep -------------------------
(***************************************************************************)
(* implementation_workflow: one plan step in a bounded tool loop           *)
(* (run_implementation_turn), the test-file protection after mutating      *)
(* tools, the evidence gate and the review of a success.                   *)
(*                                                                         *)
(* It runs on candidate branch 0 of a repository whose index and tree are  *)
(* the candidate base.  The model answers anything its schema allows; a    *)
(* tool call is chosen when it runs, which is the same as being listed     *)
(* upfront.                                                                *)
(***************************************************************************)
EXTENDS TestProtection, WorkerResults

CONSTANTS
    Base,            (* the tree of the candidate base                       *)
    ReproFile,       (* the test file of the reproduction target             *)
    Guarded,         (* is there a reproduction context?                     *)
    Loopholes,       (* ways round the protection: "stage" (commands that    *)
                     (* stage or commit), "gather" (a gather_context whose   *)
                     (* shell writes), "tests" (test runs that write),       *)
                     (* "status" (a status that is very long or very slow)   *)
    MaxToolRounds,   (* CONFIG.implementation_max_tool_rounds                *)
    MaxCalls,        (* bound: tool calls of one agent turn                  *)
    MaxEdits,        (* bound: files one command changes                     *)
    MaxClaims        (* bound: test results the model claims in its result   *)

ASSUME StepAssumption ==
    /\ Base \in Trees
    /\ ReproFile \in Tests
    /\ Guarded \in BOOLEAN
    /\ Loopholes \subseteq {"stage", "gather", "tests", "status"}
    /\ {MaxToolRounds, MaxCalls, MaxClaims, MaxEdits} \subseteq Nat

VARIABLES
    pc,        (* llm, tools, protect, review, anchor, verdict, returned or  *)
               (* failed                                                     *)
    repo,
    round,     (* tool rounds completed                                      *)
    calls,     (* tool calls of this turn still to run                       *)
    sawDiff,   (* saw_diff                                                   *)
    ran,       (* test_results: passed flags of the run_tests calls          *)
    reported,  (* test_results of a success, claims included                 *)
    reviewed,  (* the tree the reviewed diff shows                           *)
    result,    (* the worker result                                          *)
    exposed,   (* history: files that differ since the last protection pass, *)
               (* or that it did not cover                                   *)
    late       (* history: files that changed after the reviewed diff        *)

loop == <<round, calls, sawDiff, ran>>
hist == <<exposed, late>>
vars == <<pc, repo, loop, reported, reviewed, result, hist>>

NoResult == NoSuccess("blocked", FALSE)
Claims == UNION {[1 .. n -> BOOLEAN] : n \in 0 .. MaxClaims}

Init ==
    /\ pc = "llm"
    /\ repo = Repo(0, SetRef(SetRef(<<>>, Home, Commit("origin", Base)),
                             0, Commit("base", Base)), Base, Base)
    /\ round = 0
    /\ calls = 0
    /\ sawDiff = FALSE
    /\ ran = <<>>
    /\ reported = <<>>
    /\ reviewed = Base
    /\ result = NoResult
    /\ exposed = {}
    /\ late = {}

Return(r) ==
    /\ pc' = "returned"
    /\ result' = r
-----------------------------------------------------------------------------
(* Agent turns *)

(* done with a status other than success: returned as it is. *)
ReportNoSuccess ==
    /\ pc = "llm" /\ round < MaxToolRounds
    /\ \E r \in Results(0) : r.status # "success" /\ Return(r)
    /\ UNCHANGED <<repo, loop, reported, reviewed, hist>>

(* done with success: _worker_result_with_evidence puts the claimed test   *)
(* results before the ones that ran and wants a diff or a test result.     *)
ReportSuccess ==
    /\ pc = "llm" /\ round < MaxToolRounds
    /\ \E claimed \in Claims, confidence \in Confidences :
         LET tests == ReportedTests(claimed \o ran)
         IN  IF ~sawDiff /\ tests = <<>>
             THEN Return(NoSuccess("failed", FALSE)) /\ UNCHANGED reported
             ELSE /\ pc' = "review"
                  /\ reported' = tests
                  /\ result' = Success(confidence, PassCount(tests))
    /\ UNCHANGED <<repo, loop, reviewed, hist>>

(* Context utilization above the stop threshold. *)
StopOnContextBudget ==
    /\ pc = "llm" /\ round < MaxToolRounds
    /\ Return(NoSuccess("blocked", FALSE))
    /\ UNCHANGED <<repo, loop, reported, reviewed, hist>>

(* Mutant: one tool round too many. *)
RequestToolsLate ==
    /\ pc = "llm" /\ round <= MaxToolRounds
    /\ calls' \in 0 .. MaxCalls
    /\ pc' = "tools"
    /\ UNCHANGED <<repo, round, sawDiff, ran, reported, reviewed, result, hist>>

RequestTools ==
    /\ pc = "llm" /\ round < MaxToolRounds
    /\ calls' \in 0 .. MaxCalls
    /\ pc' = "tools"
    /\ UNCHANGED <<repo, round, sawDiff, ran, reported, reviewed, result, hist>>

ToolRoundsExhausted ==
    /\ pc = "llm" /\ round = MaxToolRounds
    /\ Return(NoSuccess("needs_replan", TRUE))
    /\ UNCHANGED <<repo, loop, reported, reviewed, hist>>
-----------------------------------------------------------------------------
(* Tool calls *)

Near == [t \in Trees |-> {w \in Trees : Cardinality({f \in Files : w[f] # t[f]}) <= MaxEdits}]
Edits(r) == {Repo(r.head, r.refs, r.index, w) : w \in Near[r.work]}
ShellOutcomes(r) == CommandOutcomes(Edits(r), "stage" \in Loopholes)

(* A command that no protection pass follows. *)
Unguarded(loophole) ==
    /\ repo' \in IF loophole \in Loopholes THEN ShellOutcomes(repo) ELSE {repo}
    /\ exposed' = exposed \cup Touched(repo, repo')

Tool(mutates) ==
    /\ pc = "tools" /\ calls > 0
    /\ calls' = calls - 1
    /\ pc' = IF mutates /\ Guarded THEN "protect" ELSE "tools"
    /\ UNCHANGED <<round, reported, reviewed, result, late>>

WriteFile ==
    /\ Tool(TRUE)
    /\ \E f \in Files, c \in Contents :
         repo' = Repo(repo.head, repo.refs, repo.index, [repo.work EXCEPT ![f] = c])
    /\ sawDiff' = TRUE
    /\ UNCHANGED <<ran, exposed>>

WriteRegression ==
    /\ Tool(TRUE)
    /\ \E f \in Files, c \in Contents :
         IF repo.work[f] = Absent
         THEN /\ repo' = Repo(repo.head, repo.refs, repo.index,
                              [repo.work EXCEPT ![f] = c])
              /\ sawDiff' = TRUE
         ELSE UNCHANGED <<repo, sawDiff>>
    /\ UNCHANGED <<ran, exposed>>

(* git apply changes the working tree only, or nothing when it fails. *)
ApplyPatch ==
    /\ Tool(TRUE)
    /\ \/ repo' \in Edits(repo) /\ sawDiff' = TRUE
       \/ UNCHANGED <<repo, sawDiff>>
    /\ UNCHANGED <<ran, exposed>>

RunShell ==
    /\ Tool(TRUE)
    /\ repo' \in ShellOutcomes(repo)
    /\ UNCHANGED <<sawDiff, ran, exposed>>

(* The tests are code the agent may have edited; no protection pass        *)
(* follows.                                                                *)
RunTests ==
    /\ Tool(FALSE)
    /\ Unguarded("tests")
    /\ \E passed \in BOOLEAN : ran' = Append(ran, passed)
    /\ UNCHANGED sawDiff

(* read_file, find_* *)
Inspect ==
    /\ Tool(FALSE)
    /\ UNCHANGED <<repo, sawDiff, ran, exposed>>

(* The gatherer has a shell of its own; no protection pass follows. *)
GatherContext ==
    /\ Tool(FALSE)
    /\ Unguarded("gather")
    /\ UNCHANGED <<sawDiff, ran>>

ProtectTests ==
    /\ pc = "protect"
    /\ \E l \in Listings(repo, "status" \in Loopholes) :
         /\ repo' = RevertTestEdits(repo, l, {ReproFile}, TRUE)
         /\ exposed' = Missed(repo, l, {ReproFile})
    /\ pc' = "tools"
    /\ UNCHANGED <<loop, reported, reviewed, result, late>>

(* Mutant: rounds count only once something was edited or tested. *)
EndProductiveRound ==
    /\ pc = "tools" /\ calls = 0
    /\ round' = IF sawDiff \/ ran # <<>> THEN round + 1 ELSE round
    /\ pc' = "llm"
    /\ UNCHANGED <<repo, calls, sawDiff, ran, reported, reviewed, result, hist>>

EndToolRound ==
    /\ pc = "tools" /\ calls = 0
    /\ round' = round + 1
    /\ pc' = "llm"
    /\ UNCHANGED <<repo, calls, sawDiff, ran, reported, reviewed, result, hist>>
-----------------------------------------------------------------------------
(* Review of a success *)

(* Mutant: the review is shown what is staged. *)
TakeStagedDiff ==
    /\ pc = "review"
    /\ reviewed' = repo.index
    /\ pc' = IF Guarded THEN "anchor" ELSE "verdict"
    /\ UNCHANGED <<repo, loop, reported, result, hist>>

(* get_full_diff: what the reviewer is shown. *)
TakeDiff ==
    /\ pc = "review"
    /\ reviewed' = DiffTree(repo)
    /\ pc' = IF Guarded THEN "anchor" ELSE "verdict"
    /\ UNCHANGED <<repo, loop, reported, result, hist>>

(* run_anchor_tests, regression files not restored.  The reviewer judges   *)
(* by its results; without a reproduction by the reported ones.            *)
RunAnchorTests ==
    /\ pc = "anchor"
    /\ Unguarded("tests")
    /\ late' = Touched(repo, repo')
    /\ pc' = "verdict"
    /\ UNCHANGED <<loop, reported, reviewed, result>>

(* review_patch and _worker_result_from_review *)
ReviewSuccessfulStep ==
    /\ pc = "verdict"
    /\ \E verdict \in Decisions :
         Return(CASE verdict = "accept" -> result
                  [] verdict = "revise" -> NoSuccess("needs_replan", TRUE)
                  [] OTHER              -> NoSuccess("failed", FALSE))
    /\ UNCHANGED <<repo, loop, reported, reviewed, hist>>

(* An activity raises, or the model is done without a worker result. *)
StepFails ==
    /\ pc \in {"llm", "tools", "protect", "review", "anchor", "verdict"}
    /\ pc = "llm" => round < MaxToolRounds
    /\ pc = "tools" => calls > 0
    /\ pc' = "failed"
    /\ UNCHANGED <<repo, loop, reported, reviewed, result, hist>>

Finished == pc \in {"returned", "failed"} /\ UNCHANGED vars

Next ==
    \/ ReportNoSuccess \/ ReportSuccess \/ StopOnContextBudget
    \/ RequestTools \/ ToolRoundsExhausted
    \/ WriteFile \/ WriteRegression \/ ApplyPatch \/ RunShell \/ RunTests \/ Inspect \/ GatherContext
    \/ ProtectTests \/ EndToolRound
    \/ TakeDiff \/ RunAnchorTests \/ ReviewSuccessfulStep
    \/ StepFails \/ Finished

Spec == Init /\ [][Next]_vars

(* The engine keeps driving the child; every tool and completion returns. *)
FairSpec == Spec /\ WF_vars(Next)
-----------------------------------------------------------------------------
TypeOK ==
    /\ pc \in {"llm", "tools", "protect", "review", "anchor", "verdict",
               "returned", "failed"}
    /\ IsRepo(repo)
    /\ round \in 0 .. MaxToolRounds
    /\ calls \in 0 .. MaxCalls
    /\ sawDiff \in BOOLEAN
    /\ ran \in Seq(BOOLEAN) /\ Len(ran) <= MaxToolRounds * MaxCalls
    /\ reported \in Seq(BOOLEAN)
    /\ reviewed \in Trees
    /\ result \in Results(MaxClaims + MaxToolRounds * MaxCalls)
    /\ exposed \subseteq Files /\ late \subseteq Files

(* The ways a test file can escape the protection: a command that no pass  *)
(* followed changed it, or the last pass did not cover it; it is staged or *)
(* committed; or git status does not show it as a test file.               *)
Escaped(f) == f \in exposed \/ repo.index[f] # Base[f] \/ Overlooked(repo, f)

(* With a reproduction these are the only ways: whenever the model is      *)
(* asked again, and when the step returns, every other test file but the   *)
(* reproduction's is that of the candidate base, and new ones are gone.    *)
ProtectedTestsIntact ==
    Guarded /\ pc \in {"llm", "returned"} =>
        \A f \in Tests \ {ReproFile} : repo.work[f] # Base[f] => Escaped(f)

(* Edits of test files that exist in the candidate base are reverted each  *)
(* turn, whatever tool made them.                                          *)
ExistingTestsIntact ==
    pc \in {"llm", "returned"} =>
        \A f \in Tests \ {ReproFile} : Base[f] # Absent => repo.work[f] = Base[f]

(* A success never hides the last test run: the claimed results come first *)
(* and the reported list is a suffix, so a failing last run stays visible. *)
LastRunReported ==
    pc = "review" /\ ran # <<>> => reported # <<>> /\ reported[Len(reported)] = ran[Len(ran)]

(* A success reports at most one passing test however many were run or     *)
(* claimed: the passing-test count that ranks candidates is 0 or 1.        *)
AtMostOnePassReported == result.passed <= 1

(* What an accepted step commits and its reviewer did not see is what the  *)
(* anchor tests changed after the diff was taken, or new, unstaged files;  *)
(* and with a reproduction no test file is among those but the anchor and  *)
(* what escaped the protection.                                            *)
UnreviewedIsNewAndNoTest ==
    pc = "returned" /\ result.status = "success" =>
        \A f \in Files : reviewed[f] # repo.work[f] =>
            \/ f \in late
            \/ /\ repo.index[f] = Absent
               /\ Guarded /\ f \in Tests \ {ReproFile} => Escaped(f)

(* The reviewer saw the tree that the candidate snapshot will commit. *)
ReviewCoversResult ==
    pc = "returned" /\ result.status = "success" => reviewed = repo.work

(* A success is backed by something that happened: a change of the tree or *)
(* a test that ran.                                                        *)
SuccessIsBacked ==
    pc = "review" => repo.work # Base \/ ran # <<>>

(* The step always returns or fails. *)
StepTerminates == <>(pc \in {"returned", "failed"})
=============================================================================
