---------------------------- MODULE Reproduction ----------------------------
(***************************************************************************)
(* reproduction_workflow: the reproduction agent writes a failing anchor   *)
(* test in a bounded tool loop (reproduce_bug), and what it claims is      *)
(* verified on the tree it leaves.                                         *)
(*                                                                         *)
(* It works with HEAD on the user's branch.  The content of a production   *)
(* file is Defective or Fixed; that of a test file says how the test runs. *)
(***************************************************************************)
EXTENDS TestProtection, FiniteSets

CONSTANTS
    Defective, Fixed,   (* what a production file may hold                   *)
    Asserting,          (* a test that asserts the wanted behaviour          *)
    Plain,              (* one that checks it without an assert              *)
    Raising,            (* one that raises before its assert is reached      *)
    Broken,             (* one that pytest cannot collect                    *)
    Base,               (* the user's tree                                   *)
    Loopholes,          (* ways round the protection: "stage", "gather",     *)
                        (* "tests" and "status", as in ImplementationStep    *)
    MaxToolRounds,      (* CONFIG.reproducer_max_tool_rounds                 *)
    MaxCalls,           (* bound: tool calls of one agent turn               *)
    MaxEdits            (* bound: files one command changes                  *)

CodeContents == {Defective, Fixed}
TestContents == {Asserting, Plain, Raising, Broken}

Written(f) == IF f \in Tests THEN TestContents ELSE CodeContents
WrittenTrees == {t \in Trees : \A f \in Files : t[f] \in Written(f) \cup {Absent}}

ASSUME ReproductionAssumption ==
    /\ Contents = CodeContents \cup TestContents
    /\ CodeContents \cap TestContents = {}
    /\ Base \in WrittenTrees
    /\ Loopholes \subseteq {"stage", "gather", "tests", "status"}
    /\ {MaxToolRounds, MaxCalls, MaxEdits} \subseteq Nat

VARIABLES
    pc,        (* llm, tools, protect, returned or failed                    *)
    repo,
    round,     (* tool rounds completed                                      *)
    calls,     (* tool calls of this turn still to run                       *)
    turn,      (* the turn's done flag, claim and context utilization        *)
    result,    (* the reproduction result                                    *)
    created,   (* history: files write_regression created                    *)
    exposed,   (* history: files that differ since the last protection pass, *)
               (* or that it did not cover                                   *)
    disturbed  (* history: files the verification run itself changed         *)

hist == <<created, exposed, disturbed>>
vars == <<pc, repo, round, calls, turn, result, hist>>

NotReproduced == [status |-> "could_not_reproduce", target |-> "none"]
Claims == {NotReproduced} \cup [status : {"reproduced"}, target : Files]
(* Of a turn that is done only the claim is read, of another only whether  *)
(* it overran the context budget.                                          *)
ReproTurns ==
    [done : {TRUE}, claim : Claims, missing : BOOLEAN, over : {FALSE}] \cup
    [done : {FALSE}, claim : {NotReproduced}, missing : {FALSE}, over : BOOLEAN]
NoTurn == [done |-> FALSE, claim |-> NotReproduced, missing |-> FALSE, over |-> FALSE]

Init ==
    /\ pc = IF MaxToolRounds > 0 THEN "llm" ELSE "returned"
    /\ repo = Repo(Home, SetRef(<<>>, Home, Commit("origin", Base)), Base, Base)
    /\ round = 0
    /\ calls = 0
    /\ turn = NoTurn
    /\ result = NotReproduced
    /\ created = {}
    /\ exposed = {}
    /\ disturbed = {}
-----------------------------------------------------------------------------
(* pytest on one test file: every production file must be there to import. *)
Outcome(tree, f) ==
    IF \/ f \notin Tests
       \/ tree[f] \in {Absent, Broken}
       \/ \E p \in Files \ Tests : tree[p] = Absent
    THEN "not_collected"
    ELSE IF tree[f] = Raising THEN "error"
    ELSE IF \E p \in Files \ Tests : tree[p] = Defective THEN "assertion"
    ELSE "passed"

(* Mutant: any exit code but 0 will do. *)
IsNonzeroExit(outcome) == outcome # "passed"

(* _is_assertion_failure reads the exit code (1) and the output: a test    *)
(* that raised looks the same as one whose assertion failed.               *)
IsAssertionFailure(outcome) == outcome \in {"assertion", "error"}

(* test_file_has_assertion: grep -c assert on the file. *)
HasAssertion(tree, f) == tree[f] \in {Asserting, Raising, Broken, Defective, Fixed}

(* _verify_reproduction; unclear: the output of a genuine failure contains *)
(* one of the markers, or the run timed out.  The file is searched for     *)
(* asserts in the tree the run left.                                       *)
Verified(tree, left, claim, unclear) ==
    IF /\ claim.status = "reproduced"
       /\ ~unclear
       /\ IsAssertionFailure(Outcome(tree, claim.target))
       /\ HasAssertion(left, claim.target)
    THEN claim ELSE NotReproduced
-----------------------------------------------------------------------------
(* A completion: its tool calls are run first, even when it says done. *)
Ask ==
    /\ pc = "llm"
    /\ turn' \in ReproTurns
    /\ calls' \in 0 .. MaxCalls
    /\ pc' = "tools"
    /\ UNCHANGED <<repo, round, result, hist>>

Tool(mutates) ==
    /\ pc = "tools" /\ calls > 0
    /\ calls' = calls - 1
    /\ pc' = IF mutates THEN "protect" ELSE "tools"
    /\ UNCHANGED <<round, turn, result, disturbed>>

WriteRegression ==
    /\ Tool(TRUE)
    /\ \E f \in Files : \E c \in Written(f) :
         IF repo.work[f] = Absent
         THEN /\ repo' = Repo(repo.head, repo.refs, repo.index,
                              [repo.work EXCEPT ![f] = c])
              /\ created' = created \cup {f}
         ELSE UNCHANGED <<repo, created>>
    /\ UNCHANGED exposed

Near == [t \in Trees |->
    {w \in WrittenTrees : Cardinality({f \in Files : w[f] # t[f]}) <= MaxEdits}]
Edits(r) == {Repo(r.head, r.refs, r.index, w) : w \in Near[r.work]}
ShellOutcomes(r) == CommandOutcomes(Edits(r), "stage" \in Loopholes)

(* A command that no protection pass follows. *)
Unguarded(loophole) ==
    /\ repo' \in IF loophole \in Loopholes THEN ShellOutcomes(repo) ELSE {repo}
    /\ exposed' = exposed \cup Touched(repo, repo')

RunShell ==
    /\ Tool(TRUE)
    /\ repo' \in ShellOutcomes(repo)
    /\ UNCHANGED <<created, exposed>>

(* The tests are code the agent may have written; no protection pass       *)
(* follows.                                                                *)
RunTests ==
    /\ Tool(FALSE)
    /\ Unguarded("tests")
    /\ UNCHANGED created

(* read_file, find_* *)
Inspect ==
    /\ Tool(FALSE)
    /\ UNCHANGED <<repo, created, exposed>>

(* The gatherer has a shell of its own; no protection pass follows. *)
GatherContext ==
    /\ Tool(FALSE)
    /\ Unguarded("gather")
    /\ UNCHANGED created

(* No test file is exempt, but new ones are kept. *)
ProtectTests ==
    /\ pc = "protect"
    /\ \E l \in Listings(repo, "status" \in Loopholes) :
         /\ repo' = RevertTestEdits(repo, l, {}, FALSE)
         /\ exposed' = Missed(repo, l, {})
    /\ pc' = "tools"
    /\ UNCHANGED <<round, calls, turn, result, created, disturbed>>

(* The target is run to see it fail, and running it can change the tree.   *)
VerifyClaim ==
    /\ pc = "tools" /\ calls = 0 /\ turn.done /\ ~turn.missing
    /\ IF turn.claim.status = "reproduced"
       THEN Unguarded("tests") ELSE UNCHANGED <<repo, exposed>>
    /\ \E unclear \in BOOLEAN :
         result' = Verified(repo.work, repo'.work, turn.claim, unclear)
    /\ disturbed' = Touched(repo, repo')
    /\ pc' = "returned"
    /\ UNCHANGED <<round, calls, turn, created>>

StopOnContextBudget ==
    /\ pc = "tools" /\ calls = 0 /\ ~turn.done /\ turn.over
    /\ pc' = "returned"
    /\ UNCHANGED <<repo, round, calls, turn, result, hist>>

(* Mutant: one round too many. *)
EndRoundLate ==
    /\ pc = "tools" /\ calls = 0 /\ ~turn.done /\ ~turn.over
    /\ round' = round + 1
    /\ pc' = IF round' > MaxToolRounds THEN "returned" ELSE "llm"
    /\ UNCHANGED <<repo, calls, turn, result, hist>>

EndRound ==
    /\ pc = "tools" /\ calls = 0 /\ ~turn.done /\ ~turn.over
    /\ round' = round + 1
    /\ pc' = IF round' = MaxToolRounds THEN "returned" ELSE "llm"
    /\ UNCHANGED <<repo, calls, turn, result, hist>>

(* An activity raises, or a turn is done without a reproduction result. *)
ReproductionFails ==
    /\ \/ pc \in {"llm", "protect"}
       \/ pc = "tools" /\ calls > 0
       \/ pc = "tools" /\ turn.done
    /\ pc' = "failed"
    /\ UNCHANGED <<repo, round, calls, turn, result, hist>>

Finished == pc \in {"returned", "failed"} /\ UNCHANGED vars

Next ==
    \/ Ask \/ WriteRegression \/ RunShell \/ RunTests \/ Inspect \/ GatherContext \/ ProtectTests
    \/ VerifyClaim \/ StopOnContextBudget \/ EndRound
    \/ ReproductionFails \/ Finished

Spec == Init /\ [][Next]_vars
-----------------------------------------------------------------------------
TypeOK ==
    /\ pc \in {"llm", "tools", "protect", "returned", "failed"}
    /\ IsRepo(repo)
    /\ round \in 0 .. MaxToolRounds
    /\ calls \in 0 .. MaxCalls
    /\ turn \in ReproTurns
    /\ result \in Claims
    /\ created \subseteq Files /\ exposed \subseteq Files /\ disturbed \subseteq Files
    /\ pc = "llm" => round < MaxToolRounds

(* A reproduction that is returned names a file that holds an assert in    *)
(* the tree it is returned with, which the candidate base then records;    *)
(* and unless the run that verified it itself changed that file or the     *)
(* production code, the target fails on that tree: nothing else runs after *)
(* the check.                                                              *)
AnchorFailsOnBase ==
    pc = "returned" /\ result.status = "reproduced" =>
        /\ HasAssertion(repo.work, result.target)
        /\ disturbed \cap ({result.target} \cup (Files \ Tests)) = {} =>
             /\ Outcome(repo.work, result.target) \in {"assertion", "error"}
             /\ repo.work[result.target] \in {Asserting, Raising}

(* The reproducer leaves the tests that the user committed as they were,   *)
(* through every order of new tests, deletions and shell edits, except     *)
(* where a command no protection pass followed changed one, the last pass  *)
(* did not cover it, it was staged or committed, or its path is quoted.    *)
CommittedTestsIntact ==
    pc \in {"llm", "returned"} =>
        \A f \in Tests : Base[f] # Absent /\ repo.work[f] # Base[f] =>
            f \in exposed \/ repo.index[f] # Base[f] \/ f \in Quoted \cup Garbled

(* The anchor of a reproduction was created by write_regression. *)
AnchorCreatedByTool ==
    pc = "returned" /\ result.status = "reproduced" => result.target \in created

(* The anchor fails because of an assertion on the wrong behaviour, not    *)
(* because the test itself raises: a correct fix can turn it green.        *)
AnchorFailsByAssertion ==
    pc = "returned" /\ result.status = "reproduced" =>
        Outcome(repo.work, result.target) = "assertion"
=============================================================================
