---------------------------- MODULE MainWorkflow ----------------------------
(***************************************************************************)
(* The orchestration of src/workflows/main_workflow.py: bootstrap, planner *)
(* loop, step candidates, final verification, report and finalization.     *)
(*                                                                         *)
(* The workflow is sequential; phase names the await it stands at.  What   *)
(* interleaves with it is its environment: child workflows and activities  *)
(* that answer anything their contract allows, the one physical repository *)
(* they all edit behind the workflow's back, and failures, which end the   *)
(* workflow wherever it stands (every workspace activity has retries=0).   *)
(***************************************************************************)
EXTENDS Workspace, WorkerResults

CONSTANTS
    Origin,             (* the tree of base_sha                               *)
    Anchor,             (* the test file of the reproduction target           *)
    RegressionFiles,    (* the existing files of the regression set           *)
    Tests,              (* the files is_test_path recognises                  *)
    MaxPlannerTurns,    (* CONFIG.max_planner_turns                           *)
    CandidateCount,     (* candidates wanted per confidence of the first one  *)
    MaxPassed,          (* bound: passing tests one worker result may report  *)
    Docker,             (* docker origin rather than host origin              *)
    CleanupBranches,    (* CONFIG.cleanup_candidate_branches                  *)
    Litter,             (* what planner tools and test runs do to the tree    *)
    TestsProtected      (* does the test protection of the children hold?     *)

ASSUME ConfigAssumption ==
    /\ Origin \in Trees
    /\ Anchor \in Files
    /\ {RegressionFiles, Tests} \subseteq SUBSET Files
    /\ MaxPlannerTurns \in Nat
    /\ CandidateCount \in [Confidences -> Int]
    /\ MaxPassed \in Nat
    /\ Litter \in {"none", "untracked", "any"}
    /\ {Docker, CleanupBranches, TestsProtected} \subseteq BOOLEAN

VARIABLES
    phase,          (* the await the workflow stands at                      *)
    crash,          (* what ended a failed workflow                          *)
    repo,           (* the physical repository                               *)
    container,      (* the docker container of the run                       *)
    reproduction,   (* is there a ReproductionContext?                       *)
    ws,             (* state.workspace_info                                  *)
    turns,          (* planner_turns_remaining                               *)
    backlog,        (* is remaining_work non-empty?                          *)
    last,           (* outcome of the last completed step                    *)
    next,           (* next_candidate_index                                  *)
    candidates,     (* the candidates of the current step, with their trees  *)
    evidence,       (* the tree the planner's diff evidence shows            *)
    hitCap,         (* hit_cap                                               *)
    verified,       (* what the final verification ran on, and its outcome   *)
    report,         (* verdict and patch of the final report                 *)
    accepted,       (* history: the result of the last successful step       *)
    winner          (* history: the result finalization is meant to apply    *)

bootVars == <<reproduction, container>>
stepVars == <<next, candidates>>
loopVars == <<turns, backlog, last, hitCap, evidence>>
endVars  == <<verified, report>>
histVars == <<accepted, winner>>
vars == <<phase, crash, repo, ws, histVars, bootVars, stepVars, loopVars, endVars>>

Terminal  == {"done", "failed"}
StepPhases == {"begin_candidate", "implement", "snapshot_result",
               "reset_to_base", "conclude_step"}
FinalizePhases == {"discard", "return_home", "apply_winner", "unstage",
                   "delete_branches"}
Phases == Terminal \cup StepPhases \cup FinalizePhases \cup
    {"build_contract", "setup_environment", "build_repo_index",
     "plan_reproduction", "reproduce", "snapshot_reproduction", "replan",
     "refresh_evidence", "final_verification", "integration_tests",
     "build_report", "teardown"}

OriginCommit == Commit("origin", Origin)

Candidate(k, result, tree) == [index |-> k, result |-> result, tree |-> tree]

(* _step_candidate_target_count *)
TargetCount(c) ==
    IF c.result.status = "success" THEN CandidateCount[c.result.confidence] ELSE 1

(* _step_candidate_preference_key, compared lexicographically. *)
Preferred(c, d) ==
    LET success(x) == IF x.result.status = "success" THEN 1 ELSE 0
        rank(x)    == Rank(x.result.confidence)
    IN  \/ success(c) > success(d)
        \/ /\ success(c) = success(d)
           /\ \/ rank(c) > rank(d)
              \/ /\ rank(c) = rank(d)
                 /\ \/ c.result.passed > d.result.passed
                    \/ c.result.passed = d.result.passed /\ c.index < d.index

(* _select_step_candidate: the candidate preferred to every other one. *)
IsSelected(i) == \A j \in DOMAIN candidates \ {i} :
    Preferred(candidates[i], candidates[j])

(* _has_outstanding_work *)
HasOutstandingWork(remaining, outcome) == remaining \/ outcome = "needs_replan"

(* Planner tools and test runs: at best they keep the tree, commonly they  *)
(* leave untracked files, and a shell command can do anything to it.       *)
Littered(r) ==
    CASE Litter = "none" -> {r}
      [] Litter = "untracked" ->
            {e \in Edited(r) : \A f \in Files : r.index[f] # Absent => e.work[f] = r.work[f]}
      [] Litter = "any" -> Edited(r)

(* Mutant: the child does not revert edits of test files. *)
UnprotectedEdits(r, guarded) == Edited(r)

(* An agent edits the tree at will, but a guarded child that changed it    *)
(* hands back the committed test files as the index has them.              *)
AgentEdits(r, guarded) ==
    IF guarded /\ TestsProtected
    THEN {e \in Edited(r) : \A f \in Tests \ {Anchor} :
            r.index[f] # Absent => e.work[f] \in {r.index[f], r.work[f]}}
    ELSE Edited(r)

(* The files of the regression set that the protection is about. *)
ProtectedFiles == (RegressionFiles \cap Tests) \ {Anchor}

(* _restore_regression_files: git fails as a whole, and the failure is     *)
(* ignored, when HEAD lacks one of the files.                              *)
RestoreFromHead(r, paths) ==
    IF \A f \in paths : HeadTree(r)[f] # Absent
    THEN CheckoutPaths(r, HeadTree(r), paths)
    ELSE r

(* What the final anchor tests run on. *)
RestoredRepo == IF reproduction THEN RestoreFromHead(repo, RegressionFiles) ELSE repo

Init ==
    /\ phase = "build_contract"
    /\ crash = "none"
    /\ \E w \in Trees :
         repo = Repo(Home, [b \in {Home} |-> OriginCommit], Origin, w)
    /\ container = "none"
    /\ reproduction = FALSE
    /\ ws = WorkspaceOf(Home, OriginCommit)
    /\ turns = MaxPlannerTurns
    /\ backlog = FALSE
    /\ last = "none"
    /\ next = 0
    /\ candidates = <<>>
    /\ evidence = Origin
    /\ hitCap = TRUE
    /\ verified = [tree |-> Origin, passed |-> FALSE]
    /\ report = [verdict |-> "none", patch |-> Origin]
    /\ accepted = Origin
    /\ winner = Origin
-----------------------------------------------------------------------------
(* Bootstrap *)

BuildContract ==
    /\ phase = "build_contract"
    /\ phase' = "setup_environment"
    /\ UNCHANGED <<crash, repo, ws, histVars, bootVars, stepVars, loopVars, endVars>>

(* A dirty tree is refused; a docker container is already running by then. *)
SetupEnvironment ==
    /\ phase = "setup_environment"
    /\ container' = IF Docker THEN "running" ELSE container
    /\ \/ IsClean(repo) /\ phase' = "build_repo_index" /\ UNCHANGED crash
       \/ ~IsClean(repo) /\ phase' = "failed" /\ crash' = "activity"
    /\ UNCHANGED <<repo, ws, histVars, reproduction, stepVars, loopVars, endVars>>

(* Bug and test-failure contracts are reproduced first, others are planned. *)
BuildRepoIndex ==
    /\ phase = "build_repo_index"
    /\ phase' \in {"plan_reproduction", "replan"}
    /\ UNCHANGED <<crash, repo, ws, histVars, bootVars, stepVars, loopVars, endVars>>

(* The planning child seeds remaining_work; its turns are not counted. *)
PlanReproduction ==
    /\ phase = "plan_reproduction"
    /\ repo' \in Littered(repo)
    /\ backlog' \in BOOLEAN
    /\ phase' = "reproduce"
    /\ UNCHANGED <<crash, ws, histVars, bootVars, stepVars, turns, last, hitCap,
                   evidence, endVars>>

(* Mutant: the tree is snapshotted before the outcome is looked at. *)
ReproduceStaged ==
    /\ phase = "reproduce"
    /\ \E e \in AgentEdits(repo, TRUE) : repo' = SnapshotBase(e)
    /\ report' = [verdict |-> "blocked", patch |-> Origin]
    /\ phase' = "teardown"
    /\ UNCHANGED <<crash, ws, histVars, bootVars, stepVars, loopVars, verified>>

(* The reproducer edits the tree with HEAD still on the user's branch.  A  *)
(* bug it cannot reproduce ends the run blocked, without finalization.     *)
Reproduce ==
    /\ phase = "reproduce"
    /\ repo' \in AgentEdits(repo, TRUE)
    /\ \/ /\ repo'.work[Anchor] # Absent
          /\ reproduction' = TRUE
          /\ phase' = "snapshot_reproduction"
          /\ UNCHANGED report
       \/ /\ report' = [verdict |-> "blocked", patch |-> Origin]
          /\ phase' = "teardown"
          /\ UNCHANGED reproduction
    /\ UNCHANGED <<crash, ws, histVars, container, stepVars, loopVars, verified>>

SnapshotReproduction ==
    /\ phase = "snapshot_reproduction"
    /\ repo' = SnapshotBase(repo)
    /\ ws' = WorkspaceOf(ws.branch, BaseSnapshot(repo))
    /\ accepted' = repo.work
    /\ phase' = "replan"
    /\ UNCHANGED <<crash, winner, bootVars, stepVars, loopVars, endVars>>
-----------------------------------------------------------------------------
(* The planner loop *)

(* One replanning child: it spends 1..turns planner turns and returns its  *)
(* last turn.  Only a child that ran out of budget can return a turn with  *)
(* context requests pending, and that trips the assertion.                 *)
Replan ==
    /\ phase = "replan"
    /\ turns > 0
    /\ repo' \in Littered(repo)
    /\ \E spent \in 1 .. turns, hasStep, done, pending \in BOOLEAN :
         /\ pending => spent = turns
         /\ turns' = turns - spent
         /\ IF pending
            THEN /\ phase' = "failed"
                 /\ crash' = "assertion"
                 /\ UNCHANGED <<backlog, hitCap>>
            ELSE /\ backlog' \in BOOLEAN
                 /\ UNCHANGED crash
                 /\ IF hasStep
                    THEN phase' = "begin_candidate" /\ UNCHANGED hitCap
                    ELSE IF done /\ ~HasOutstandingWork(backlog', last)
                    THEN phase' = "final_verification" /\ hitCap' = FALSE
                    ELSE UNCHANGED <<phase, hitCap>>
    /\ UNCHANGED <<ws, histVars, bootVars, stepVars, last, evidence, endVars>>

(* Mutant: the loop runs while turns >= 0. *)
PlannerMissesCap ==
    /\ phase = "replan"
    /\ turns = 0
    /\ backlog' \in BOOLEAN
    /\ UNCHANGED <<phase, crash, repo, ws, histVars, bootVars, stepVars, turns, last,
                   hitCap, evidence, endVars>>

(* The loop ran dry: a blocked worker result is appended. *)
PlannerTurnCap ==
    /\ phase = "replan"
    /\ turns = 0
    /\ phase' = "final_verification"
    /\ UNCHANGED <<crash, repo, ws, histVars, bootVars, stepVars, loopVars, endVars>>

(* checkout -B fails on conflicting local changes. *)
BeginStepCandidate ==
    /\ phase = "begin_candidate"
    /\ \/ /\ BeginAllowed(repo, ws)
          /\ repo' = BeginCandidate(repo, ws, next)
          /\ phase' = "implement"
          /\ UNCHANGED crash
       \/ /\ ~BeginAllowed(repo, ws)
          /\ phase' = "failed"
          /\ crash' = "activity"
          /\ UNCHANGED repo
    /\ UNCHANGED <<ws, histVars, bootVars, stepVars, loopVars, endVars>>

(* The implementation child edits the tree and returns a result; the       *)
(* candidate joins the list once its result is snapshotted.                *)
Implement ==
    /\ phase = "implement"
    /\ repo' \in AgentEdits(repo, reproduction)
    /\ \E result \in Results(MaxPassed) :
         candidates' = Append(candidates, Candidate(next, result, repo'.work))
    /\ phase' = "snapshot_result"
    /\ UNCHANGED <<crash, ws, histVars, bootVars, next, loopVars, endVars>>

(* Mutant: a step's last candidate leaves its index to the next step. *)
SnapshotKeepingIndex ==
    /\ phase = "snapshot_result"
    /\ repo' = SnapshotResult(repo)
    /\ next' = IF Len(candidates) < TargetCount(candidates[1]) THEN next + 1 ELSE next
    /\ phase' = IF Len(candidates) < TargetCount(candidates[1])
                THEN "reset_to_base" ELSE "conclude_step"
    /\ UNCHANGED <<crash, ws, histVars, bootVars, candidates, loopVars, endVars>>

SnapshotCandidateResult ==
    /\ phase = "snapshot_result"
    /\ repo' = SnapshotResult(repo)
    /\ next' = next + 1
    /\ phase' = IF Len(candidates) < TargetCount(candidates[1])
                THEN "reset_to_base" ELSE "conclude_step"
    /\ UNCHANGED <<crash, ws, histVars, bootVars, candidates, loopVars, endVars>>

(* HEAD is still on the branch of the candidate just snapshotted. *)
ResetBetweenCandidates ==
    /\ phase = "reset_to_base"
    /\ repo' = ResetToBase(repo, ws)
    /\ phase' = "begin_candidate"
    /\ UNCHANGED <<crash, ws, histVars, bootVars, stepVars, loopVars, endVars>>

ConcludeStep(i) ==
    /\ phase = "conclude_step"
    /\ IsSelected(i)
    /\ last' = candidates[i].result.status
    /\ candidates' = <<>>
    /\ phase' = "refresh_evidence"
    /\ UNCHANGED <<crash, bootVars, next, turns, hitCap, evidence, endVars>>

(* Success: the physical tree becomes the candidate base of the workspace *)
(* of the selected candidate.                                              *)
AcceptStep ==
    \E i \in DOMAIN candidates :
        /\ ConcludeStep(i)
        /\ candidates[i].result.status = "success"
        /\ repo' = SnapshotBase(repo)
        /\ ws' = WorkspaceOf(candidates[i].index, BaseSnapshot(repo))
        /\ accepted' = candidates[i].tree
        /\ winner' = candidates[i].tree
        /\ UNCHANGED backlog

(* needs_replan: the candidate's workspace is carried on, its base is the *)
(* old one, and the review issues go to the backlog.                       *)
ReplanStep ==
    \E i \in DOMAIN candidates :
        /\ ConcludeStep(i)
        /\ candidates[i].result.status = "needs_replan"
        /\ ws' = WorkspaceOf(candidates[i].index, ws.base)
        /\ backlog' = (backlog \/ candidates[i].result.issues)
        /\ winner' = candidates[i].tree
        /\ UNCHANGED <<repo, accepted>>

(* failed or blocked: the prior workspace value stays. *)
RejectStep ==
    \E i \in DOMAIN candidates :
        /\ ConcludeStep(i)
        /\ candidates[i].result.status \in {"failed", "blocked"}
        /\ UNCHANGED <<repo, ws, histVars, backlog>>

(* get_full_diff, then the anchor tests when there is a reproduction. *)
RefreshPlanningEvidence ==
    /\ phase = "refresh_evidence"
    /\ evidence' = DiffTree(repo)
    /\ repo' \in IF reproduction THEN Littered(repo) ELSE {repo}
    /\ phase' = "replan"
    /\ UNCHANGED <<crash, ws, histVars, bootVars, stepVars, turns, backlog, last,
                   hitCap, endVars>>
-----------------------------------------------------------------------------
(* Final verification, report, finalization *)

(* The anchor tests run with the regression files restored from HEAD; if   *)
(* one fails the integration tests are not run.                            *)
FinalVerification ==
    /\ phase = "final_verification"
    /\ \E passed \in BOOLEAN :
         /\ ~passed => reproduction
         /\ verified' = [tree |-> DiffTree(RestoredRepo), passed |-> passed]
         /\ phase' = IF passed THEN "integration_tests" ELSE "build_report"
    /\ repo' \in IF reproduction THEN Littered(RestoredRepo) ELSE {repo}
    /\ UNCHANGED <<crash, ws, histVars, bootVars, stepVars, loopVars, report>>

(* The tests of the executed steps, up to the first that fails; without    *)
(* steps there are none.                                                   *)
IntegrationTests ==
    /\ phase = "integration_tests"
    /\ \E passed \in BOOLEAN :
         /\ ~passed => last # "none"
         /\ verified' = [tree |-> verified.tree, passed |-> passed]
    /\ repo' \in IF last # "none" THEN Littered(repo) ELSE {repo}
    /\ phase' = "build_report"
    /\ UNCHANGED <<crash, ws, histVars, bootVars, stepVars, loopVars, report>>

(* A failed final verification forces the verdict; the review decides else. *)
BuildFinalReport ==
    /\ phase = "build_report"
    /\ \E verdict \in Decisions :
         /\ ~verified.passed => verdict = "revise"
         /\ report' = [verdict |-> verdict, patch |-> DiffTree(repo)]
    /\ phase' = "discard"
    /\ UNCHANGED <<crash, repo, ws, histVars, bootVars, stepVars, loopVars, verified>>

FinalizeStep(from, to, newRepo) ==
    /\ phase = from
    /\ phase' = to
    /\ repo' = newRepo
    /\ UNCHANGED <<crash, ws, histVars, bootVars, stepVars, loopVars, endVars>>

FinalizeWinner ==
    \/ FinalizeStep("discard", "return_home", DiscardUncommitted(repo))
    \/ FinalizeStep("return_home", "apply_winner", ReturnHome(repo))
    \/ FinalizeStep("apply_winner", "unstage", ApplyWinner(repo, ws.branch))
    \/ FinalizeStep("unstage", IF CleanupBranches THEN "delete_branches" ELSE "teardown",
                    Unstage(repo))

(* _delete_candidate_branches goes through the list one branch at a time. *)
DeleteCandidateBranches ==
    \/ \E b \in CandidateBranches(repo) :
         FinalizeStep("delete_branches", "delete_branches", DeleteBranch(repo, b))
    \/ /\ CandidateBranches(repo) = {}
       /\ FinalizeStep("delete_branches", "teardown", repo)

TeardownEnvironment ==
    /\ phase = "teardown"
    /\ container' = IF Docker THEN "removed" ELSE container
    /\ phase' = "done"
    /\ UNCHANGED <<crash, repo, ws, histVars, reproduction, stepVars, loopVars, endVars>>
-----------------------------------------------------------------------------
(* What an activity that fails half-way leaves of the repository. *)
Interrupted(r) ==
    CASE phase \in {"reproduce", "implement"} -> Edited(r)
      [] phase \in {"snapshot_reproduction", "snapshot_result", "conclude_step"} ->
            {r, AddAll(r)}
      [] phase = "reset_to_base" -> {r, ResetHard(r, ws.base)}
      [] phase = "discard" -> {r, ResetHard(r, r.refs[r.head])}
      [] phase = "final_verification" -> {r} \cup Littered(RestoredRepo)
      [] phase \in {"plan_reproduction", "replan", "refresh_evidence",
                    "integration_tests"} -> Littered(r)
      [] OTHER -> {r}

(* An activity or a child workflow raises: the workflow fails on the spot, *)
(* without finalization and without teardown.                              *)
ActivityFails ==
    /\ phase \notin Terminal
    /\ phase = "replan" => turns > 0
    /\ phase = "conclude_step" =>
         \E i \in DOMAIN candidates :
            IsSelected(i) /\ candidates[i].result.status = "success"
    /\ repo' \in Interrupted(repo)
    /\ phase' = "failed"
    /\ crash' = "activity"
    /\ UNCHANGED <<ws, histVars, bootVars, stepVars, loopVars, endVars>>

WorkflowStep ==
    \/ BuildContract \/ SetupEnvironment \/ BuildRepoIndex
    \/ PlanReproduction \/ Reproduce \/ SnapshotReproduction
    \/ Replan \/ PlannerTurnCap
    \/ BeginStepCandidate \/ Implement \/ SnapshotCandidateResult
    \/ ResetBetweenCandidates \/ AcceptStep \/ ReplanStep \/ RejectStep
    \/ RefreshPlanningEvidence
    \/ FinalVerification \/ IntegrationTests \/ BuildFinalReport
    \/ FinalizeWinner \/ DeleteCandidateBranches \/ TeardownEnvironment

(* The workflow has returned or failed; nothing else may block it. *)
Finished == phase \in Terminal /\ UNCHANGED vars

Next == WorkflowStep \/ ActivityFails \/ Finished

Spec == Init /\ [][Next]_vars

(* The engine keeps driving the workflow, and every activity and every     *)
(* child workflow returns or fails (they run under timeouts).              *)
FairSpec == Spec /\ WF_vars(Next)
-----------------------------------------------------------------------------
TypeOK ==
    /\ phase \in Phases
    /\ crash \in {"none", "activity", "assertion"}
    /\ IsRepo(repo)
    /\ container \in {"none", "running", "removed"}
    /\ reproduction \in BOOLEAN
    /\ IsWorkspace(ws)
    /\ turns \in 0 .. MaxPlannerTurns
    /\ backlog \in BOOLEAN
    /\ last \in Statuses \cup {"none"}
    /\ next \in Nat
    /\ candidates \in Seq([index : Nat, result : Results(MaxPassed), tree : Trees])
    /\ evidence \in Trees
    /\ hitCap \in BOOLEAN
    /\ verified \in [tree : Trees, passed : BOOLEAN]
    /\ report \in [verdict : Decisions \cup {"none", "blocked"}, patch : Trees]
    /\ accepted \in Trees
    /\ winner \in Trees

(* The user's branch never moves: whatever the candidates do, wherever the *)
(* run fails, the ref HEAD stood on at setup still names base_sha.  Every  *)
(* reset --hard moves the current branch, so this holds only because each  *)
(* of them runs while HEAD is on a candidate branch, or targets HEAD.      *)
HomeUnmoved == Home \in DOMAIN repo.refs /\ repo.refs[Home] = OriginCommit

(* A candidate never re-points a branch an earlier candidate was stored on *)
(* (checkout -B would do so silently): indices are unique over all steps.  *)
CandidateBranchFresh ==
    phase \in {"begin_candidate", "reset_to_base"} => next \notin DOMAIN repo.refs

(* Every candidate of a step, the first and the later ones, is handed      *)
(* exactly the tree of the candidate base.                                 *)
CandidateStartsFromBase ==
    [][phase = "begin_candidate" /\ phase' = "implement" =>
        repo'.work = ws.base.tree /\ repo'.index = ws.base.tree]_vars

(* Whatever untracked files tools and test runs leave behind, a candidate  *)
(* begins with every tracked file as the candidate base has it: checkout   *)
(* -B, which keeps local changes, finds none it could keep.                *)
TrackedFilesFromBase ==
    [][phase = "begin_candidate" /\ phase' = "implement" =>
        /\ repo'.index = ws.base.tree
        /\ \A f \in Files : ws.base.tree[f] # Absent => repo'.work[f] = ws.base.tree[f]]_vars

(* The workspace handed to later steps holds the result of the candidate   *)
(* that was selected last, the one completed_step_summaries tells the next *)
(* implementer is already present.                                         *)
BaseIsSelectedCandidate == ws.base.tree = accepted

(* The work of the selected candidate survives until it is delivered: in   *)
(* every state, failed ones included, the branch finalize_winner is given  *)
(* holds the selected result, or the user's working tree already has it.   *)
SelectedWorkSurvives ==
    \/ ws.branch \in DOMAIN repo.refs /\ repo.refs[ws.branch].tree = winner
    \/ \A f \in Files : winner[f] # Absent => repo.work[f] = winner[f]

(* No assertion fails: the replanning child never returns a turn that      *)
(* still asks for context.                                                 *)
NoAssertionFailure == crash # "assertion"

(* The planner's evidence shows the workspace that is kept: after a failed *)
(* or blocked step the planner sees the prior workspace, not the rejected  *)
(* candidate.                                                              *)
EvidenceShowsKeptWorkspace ==
    phase = "replan" /\ last \in {"failed", "blocked"} => evidence = ws.base.tree

(* Partial work of a needs_replan step is preserved: the next candidate    *)
(* starts from it.                                                         *)
PartialWorkPreserved ==
    phase = "implement" /\ last = "needs_replan" /\ candidates = <<>>
    => repo.work = repo.refs[ws.branch].tree

(* A rejected step leaves no trace in the report: the patch shown is the   *)
(* one that was accepted and is going to be applied.                       *)
RejectedStepNotReported ==
    report.verdict \in Decisions /\ last \in {"failed", "blocked"} /\ ws.branch # Home
    => report.patch = winner

(* The final anchor run sees the regression files as the user committed    *)
(* them: no candidate's edit of them can turn it green.  The restore that  *)
(* precedes it does not see to that, it takes what the candidate committed *)
(* (HEAD is on its branch); the protection inside the children has to.     *)
RegressionFilesRestored ==
    phase = "build_report" /\ reproduction =>
        \A f \in ProtectedFiles : Origin[f] # Absent => verified.tree[f] = Origin[f]

(* A run blocked for want of a reproduction is not finalized, and needs no *)
(* finalization: HEAD and index are where the user left them, there is no  *)
(* candidate branch, and the committed regression tests are intact.  Only  *)
(* other files of the working tree may differ.                             *)
BlockedRunKeepsRepository ==
    report.verdict = "blocked" =>
        /\ repo.head = Home /\ DOMAIN repo.refs = {Home} /\ repo.index = Origin
        /\ \A f \in ProtectedFiles : Origin[f] # Absent => repo.work[f] = Origin[f]

(* Finalization leaves the winning branch's tree as uncommitted edits. *)
WinnerApplied ==
    phase = "unstage" => repo.work = repo.refs[ws.branch].tree

(* The reviewed patch is the patch that was verified: nothing changes the  *)
(* tree between the first of the final tests and the reported diff.        *)
ReportedPatchVerified ==
    report.verdict \in Decisions => report.patch = verified.tree

(* The run always ends. *)
Termination == <>(phase \in Terminal)
=============================================================================
