# A formal model of the agentic coding runtime

TLA+ modules for the runtime in `src/` (Python, workflows on the Temporal-Light engine), TLC
configurations that model-check them on small instances, and TLAPS proofs about the orchestration,
its children, the tools, the LLM client and the evaluation driver.

- [System inventory](#system-inventory)
- [Modules and how they correspond to the code](#modules-and-how-they-correspond-to-the-code)
- [Runs, bounds, results](#runs-bounds-results)
- [Disagreements between code and documentation](#disagreements-between-code-and-documentation)
- [Fairness](#fairness)
- [Proofs](#proofs)
- [Assumptions](#assumptions)
- [What is not modelled](#what-is-not-modelled)
- [Plan](#plan)

## System inventory

All paths are under `src/src/`. One run of the runtime is one `main_workflow`: a sequential
coroutine that awaits activities (functions with side effects) and child workflows. There is no
shared memory between workflows. What they do share is **one physical git repository**, edited by
the workspace activities, by tools, and by agents with a shell, while workflows pass around
`Workspace` *values* that describe it. Most of what is hard about this system comes from values and
the physical tree drifting apart.

| Component | State | Operations | Interacts with | Hard behaviour | What makes it correct |
|---|---|---|---|---|---|
| Main workflow (`workflows/main_workflow.py`) | `PlannerLoopState`: workspace value, remaining work, results, candidate counter, evidence; planner turn budget | bootstrap, planner loop, step candidates and selection, evidence, final verification, report, finalization | all others | several candidates on one tree; a failure between any two steps; budget shared with a child | accepted work is built on and delivered, the user's branch stays put, the final tests see the committed regression files, the run ends |
| Workspace (`activities/workspace_manager.py`) | git refs, index, tree, container; the `Workspace` value | setup, `begin_candidate`, `reset_to_base`, `snapshot_candidate_base`, `snapshot_candidate_result`, `finalize_to_base`, branch cleanup, teardown, `run_tool`, `pack_context` | git, docker | multi-command activities that fail half-way; resets that act on whatever branch HEAD is on | branches are fresh, resets hit candidate branches only, candidates start from the base |
| Implementation step (`workflows/implementation_workflow.py`, `activities/implementation.py`) | tool round, `saw_diff`, test results | agent turns, tools, protection, evidence gate, review | tools, test protection, reviewer | any order of edits, stagings and test runs | protected tests are intact but for named ways round the protection, a failing last run is reported, the loop ends |
| Test protection and verification (`activities/test_protection.py`, `activities/verifier.py`) | none (git) | revert of test edits, anchor tests with restored regression files | git | restores depend on index and HEAD, and on how `git status` prints a change; test runs and gatherers are not followed by it | existing tests stay as committed, but for named ways round it |
| Reproduction (`workflows/reproduction_workflow.py`, `activities/reproduction.py`) | tool round, the agent's claim | tool loop, protection, verification of the claim | tools, test protection | claim verified after tools of the same turn | a returned anchor fails on the tree it is returned with |
| Replanning (`workflows/replanning_workflow.py`, `activities/planner.py`) | turn count, context notes, observations | plan turn, gather context, run tools | context gatherer, tools | turns ended by the budget | the contract the parent's budget arithmetic needs; notes answer requests in order |
| Context gatherer (`workflows/context_gathering_workflow.py`, `activities/context_gatherer.py`) | tool count, observations, utilization | completions, read-only tools, finalization, packing | LLM client, `pack_context` | context limit near; empty turns | stops before it overflows, loses no observation, packs within budget, ends |
| Worker results and selection (`models/worker.py`, `activities/selector.py`, `activities/reviewer.py`) | none | confidence, candidate count, preference, reported tests | main workflow, step | ties, suffixes | the selected candidate is the preferred one |
| LLM client (`llm/client.py`) | one client per attempt, rate-limit count | completion, structured completion | engine (timeout, retries) | two nested retry loops and a timeout | bounded requests, clients closed, waits respected |
| Tools (`tools/`, `run_tool`) | files of the workspace, artifacts | dispatch, path checks, commands, compaction of output | workspace | two implementations (host and container), time limits, output beyond the limit | nothing is lost without a trace, both implementations mean the same lines, a call with an enforced limit ends |
| SWE-bench driver (`eval/swe_bench.py`) | a record per instance, the predictions file, evaluation reports, a worker process | prepare, generate, evaluate; forced or not | engine, evaluation harness | re-runs, failures and kills between two writes; reports that outlive their patch | predictions are what the records hold, fresh patches are scored, the worker is stopped |
| Contract, index, report (`activities/contract_builder.py`, ...) | none | built once | main workflow | - | steps of the main workflow |
| Configuration (`config.py`) | read once at import | - | all | unvalidated sizes | values of the constants |
| Smoke workflow, worker, CLI (`eval/smoke_workflow.py`, `worker.py`, `cli/`) | none | start-up scripts | - | - | - |
| Temporal-Light | the durable engine | drives workflows, retries activities | all | replay, restarts | an empty submodule here, so external |

`PROJECT.json` lists the hazards found in this code, each at its line, with the properties that
watch it or the reason none does.

## Modules and how they correspond to the code

```
GitRepo ── Workspace ─┬─ + WorkerResults ── MainWorkflow ── MainRefinement ─┬─ MCMainWorkflow
                      │                                     INSTANCE        └─ MainWorkflowProofs
                      │                                     RollingPatch
                      └─ TestProtection ─┬─ + WorkerResults ── ImplementationStep ─┬─ MCImplementationStep
                                         │                                         └─ StepProofs
                                         └─ Reproduction ─┬─ MCReproduction
                                                          └─ ReproductionProofs
Replanning ── ReplanningProofs          LLMCompletion ── CompletionProofs
ContextGatherer ── GathererProofs       ToolRun ── ToolRunProofs
Predictions ── PredictionsProofs                                              (stand-alone)
```

**`GitRepo`** is the part of git the code relies on, as operators on a repository value
`[head, refs, index, work]`. A tree maps files to contents or `Absent`. Git is external; each
operator follows how the code calls it. `git checkout` between trees carries local changes along
or refuses; `git checkout <tree> -- .` is an overlay that deletes nothing; `git diff` does not see
untracked files. Several results below hang on exactly these three facts.

**`Workspace`** translates the methods of `_Workspace`. A workspace value is `[branch, base]`:
`current_branch` and the commit `candidate_base_sha` names.

**`TestProtection`** translates `revert_unauthorized_test_edits`, and with it what `git status
--porcelain` makes of the changes it is asked for, because the function takes each line for a path.
`Listings` are the listings it may read: a new folder is one entry that stands for all its files and
is judged by its own name, a staged rename is one line that hides both files, and a status that is
compacted by `run_tool`, or ran into its time limit, lacks any part. `Quoted` and `Garbled` are test
files whose path git prints in quotes, so that it is not recognised as a test, or is and then names
no file. `RevertTestEdits` runs both commands as the code does, `git checkout --` from the **index**,
which does nothing at all when it does not know one of its paths, and `git clean -f`.
**`WorkerResults`** holds the result types, the candidate count per confidence and the rule for
reported test results (the suffix that starts with the last passing one).

**`MainWorkflow`** is the orchestration. `phase` is the await the workflow stands at; between two
awaits the coroutine runs without interruption, so one await with the code up to the next is one
action. Its environment answers nondeterministically: children edit the tree in any way and return
any result their contract admits, tools may leave litter, every activity may fail, and a failing
multi-command activity may leave any prefix of its git commands behind (`Interrupted`).
Finalization, the activity with most commands, is split into one action per group of commands, and
so are the final checks: `FinalVerification` (in the anchor's presence after the restore of the
regression files), `IntegrationTests`, the diff and the review. Two constants say what the
environment may do: `Litter` is what planner tools and test runs do to the tree (`"none"`,
`"untracked"` files, or `"any"` edit), `TestsProtected` whether the children hand back committed
test files as they were; `Tests` are the files that is about, those `is_test_path` recognises.
`ImplementationStep` and `Reproduction` establish exactly in which runs the children do.
Two history variables record what was accepted and what delivery is meant to apply; no guard reads
them.

**`RollingPatch`** is what the orchestration promises, without branches and index: a patch that
grows by accepted steps and is delivered once. **`MainRefinement`** maps the one to the other.

**`ImplementationStep`** is one step: agent turns, each tool by its effect on the repository, the
protection pass after mutating tools, the evidence gate, and the review as the three awaits it is
(`TakeDiff`, `RunAnchorTests`, `ReviewSuccessfulStep`). **`Reproduction`** is the loop that writes
the failing test; a test file's content says how it fails (by assertion, by raising before one, not
collected), a source file's content whether the defect is there. In both a command may change the
tree, and, like any shell command, stage and commit what it did. `Unguarded` is a command that no
protection pass follows: `run_tests`, the run of the anchor, the gatherer's shell inside
`gather_context`. `Loopholes` says which of these things the environment does: `"stage"` (commands
stage or commit), `"gather"` and `"tests"` (gatherers and test runs write), `"status"` (a listing is
cut). The passing runs and the theorems have all of them. Histories that no guard reads record what
the protection could not know: `exposed`, the files changed by an unguarded command or missed by a
pass since the last one that covered them; `late` and `disturbed`, what the anchor run changed after
the diff was taken, and what the verifying run changed itself.

**`Replanning`** is the planning child. **`ContextGatherer`** is the gatherer's loop with
`pack_context`, on a host or in a container, which differ in what a missing file packs.
**`LLMCompletion`** is one completion with its three bounds: rate-limit retries inside an attempt,
the attempt's timeout, and the activity's retries. Time is a number of seconds that sleeps and
backoffs advance.

**`ToolRun`** is `run_tool`, one call after another: a call is refused, served by the symbol search,
by the host's file system or by a command, which may hang, time out or raise; its output is
compacted and stored. The host's file system may also never answer a read or a write
(`HostFileHangs`), for which no time limit is enforced. Files are numbers of lines and outputs numbers of characters, because what
can go wrong is arithmetic: the part a compacted output says it omits, and the line range that
Python slices on the host and a script clamps in the container, of whose output only the `Excerpt`
is shown when it is long.

**`Predictions`** is the evaluation driver as invocations that share a disk: records, predictions
file and reports survive, the rest starts anew. `Interrupted` is what a failure or a kill leaves
in the middle of a step, a truncated record or half of the reports included. The history variable
`followed` tells whether each record written was followed by the removal of its report; no guard
reads it.

Children are also modelled inside `MainWorkflow`, each as one action with its contract. That the
contract is right is checked where the child is modelled in detail: `Replan`'s "requests pending
only if the budget is spent" is `ReplanContract`; `Reproduce`'s "a reproduction has its anchor in
the tree" follows from `AnchorFailsOnBase`; `MaxPassed = 1` (what one result reports as passed) is
exact because of `AtMostOnePassReported`;
`TestsProtected = TRUE` stands for the runs in which none of the escapes that `ProtectedTestsIntact`
and `CommittedTestsIntact` name occurs: no unguarded command changed a test, no test was staged or
committed by an agent, no listing was cut, and `git status` shows each changed test as one.

The operators marked `Mutant` are variants of the definition that follows them, each a plausible bug.
They take no part in any specification; putting one in the place of its definition must break the
property that `PROJECT.json` pairs it with.

## Runs, bounds, results

| Run | Question | Bounds, and why they are enough |
|---|---|---|
| `main_single` | One candidate per step, in a container: is accepted work built on and kept, does a candidate begin with the base's tracked files, do the final tests see the committed regression files, is a blocked run harmless, does the orchestration implement `RollingPatch`? | production, anchor and regression file with 2 contents plus absence: additions, edits, deletions and an untracked anchor all occur. 2 planner turns: two consecutive steps, so every pair (accepted, partial, rejected) x (same) of step outcomes occurs. Untracked litter. 2.9 million states |
| `main_candidates` | Default counts (2 on low confidence): the user's branch, fresh branches, clean starts, termination | 1 file with 3 contents, so base and two candidates differ; 2 turns give up to 4 candidates over two steps; no litter. 1 million states |
| `step_protected` | One step with a reproduction: which test edits survive, reported tests, reviewed files, termination | committed test, anchor, a new test in a new folder `tests` and one in a new folder of another name; all `Loopholes`. One content, so a change is a deletion or a creation: what the protection does depends on whether a file differs, not on how, and the theorem covers all contents. 3 rounds of 1 call: edit, unguarded command and test run in any order, with a completion or a success between them. 520 000 states |
| `reproduction` | Is a returned anchor real, are committed tests untouched? | one file of each role, every way to fail; all `Loopholes`; 3 rounds of 1 call, so a claim may follow an edit in its own turn and in earlier ones. 1.4 million states |
| `replanning` | The child's contract and its notes | 3 turns, 2 requests, 3 listed tools against a limit of 2, so cutting off happens |
| `gatherer` | Does it stop in time, lose nothing, end? | 3 tools in turns of up to 2, so a turn is cut by the budget; 6 units of context with both thresholds in between |
| `completion` | One completion: bounded, closed, patient, ending | the code's constants (3 retries, 5 retries, 600 s, 10 s, 1 s); delays of 0, 7, 45 and 600 s, the last one longer than an attempt |
| `predictions` | Several invocations of the driver: what is submitted, what is scored, what is lost, what is left running, do they end? | 2 instances and every subset, so a loop re-uses one record and makes another; 3 invocations, the number it takes to write, outdate and score; 1 kill on top of any number of failures; 390 000 states |
| `tools` | Tool calls on host and container: output accounted for, line ranges, `write_regression`, an end | 2 files of up to 4 lines with ranges from before the start to past the end; outputs of 0 to 4 characters around a limit of 3, with excerpts of 1, so a file of 4 lines is read in full on the host and cut in a container |

Every run without name prefix passes. The properties are defined, with a comment each, at the end
of their module. The ones worth a reader's attention:

- `HomeUnmoved`: no failure and no reset ever moves the user's branch. It is not local: it
  depends on where HEAD is in each phase that resets.
- `SelectedWorkSurvives`, `BaseIsSelectedCandidate` and the refinement of `RollingPatch` hold **with
  one candidate per step only** (see below for more, and [Proofs](#proofs) for why one is enough).
- `RegressionFilesRestored`: the final anchor run sees the regression files as committed. The
  restore in front of it does not achieve that, it takes what the candidate committed; it holds
  because the protection in every earlier child did its work, and for files that it recognises as
  tests only.
- `CandidateStartsFromBase` needs that tools leave no untracked files behind. `TrackedFilesFromBase`
  is what is left when they do: `checkout -B` keeps local changes, but after a snapshot and with
  tracked files left alone there are none to keep.
- `ProtectedTestsIntact` and `CommittedTestsIntact` say of the protection what is true of it: a test
  that differs when the model is asked again, or in the result, differs because an unguarded command
  changed it or the last listing lacked it (`exposed`), because it was staged or committed, or
  because `git status` does not show it as a test (`Overlooked`). Nothing else gets round it. That
  each of these ways is really open is the list under
  [Disagreements](#disagreements-between-code-and-documentation).
- `AnchorFailsOnBase` takes `_is_assertion_failure` as it is, a raising test included.
- `ReadsRequestedLines`: host and container read the same lines; of a long text the container's
  answer shows the first and last ones and names the artifact, the host's shows all.
- `CallEnds` is for the tools a limit is enforced for; `ReadEnds` is the promise of `read_file`.
- `LastRunReported`: if the last test run of a step failed, its result says so. It is what makes
  cutting results to a suffix harmless.
- `UnreviewedIsNewAndNoTest` bounds the difference between what is reviewed and what is committed:
  what the anchor tests changed after the diff was taken, and new files, no tests among them.
- `NoCompletionAboveHardStop` is about the utilization the last completion reported. The tool
  outputs of one turn may still take the next completion past the limit.
- `GatheringTerminates`: the tool budget does not bound the loop (a turn may list no tool); it ends
  because every turn lengthens the conversation.
- `StaleOnlyThroughWindow`: after any sequence of failed and killed invocations, a report of an old
  patch has one of two causes: a record written without the removal of its report (the window between
  two statements, or `--generate-only`), or an evaluation of predictions the records have outdated.

A `TypeOK` that is not part of a run is proved. So is every other property of a passing run except
the six liveness properties.

Deadlock is checked in every run; a finished workflow stutters (`Finished`).

## Disagreements between code and documentation

Three runs each check one property that a document, comment or assertion states, and TLC finds a
behaviour of the code that breaks it. `PROJECT.json` quotes the lines.

| Run | What happens |
|---|---|
| `v_work_survives` | `reset_to_base` between candidates moves the branch of the candidate just stored; if that one is selected, its work is gone |
| `v_no_assert` | a planning child that spends its budget on a context request trips the parent's assertion |
| `v_gather_unprotected` | an edit of an existing test by the gatherer inside `gather_context` is not reverted |

Further properties are stated in the modules and part of no run, because the code does not have
them. Checking the property in the configuration named shows how.

| Property | Configuration | What happens | What is documented |
|---|---|---|---|
| `BaseIsSelectedCandidate` | `main_candidates` | with two successful candidates, the base is snapshotted from the tree of the last one, whichever is selected | `src/README.md:52` "the best candidate [...] is snapshotted as the base for later steps" |
| `EvidenceShowsKeptWorkspace` | `v_no_assert` | after a failed step the planner is shown the rejected candidate's diff | `src/README.md:94` "Keep prior workspace" |
| `RejectedStepNotReported` | `v_no_assert` | the final report may show a rejected candidate's patch, another than the one applied | `src/README.md:94` |
| `PartialWorkPreserved` | `v_no_assert` | after `needs_replan` the next candidate starts without the partial work | `src/README.md:93` "Preserve partial workspace" |
| `WinnerApplied` | `v_no_assert` | files the winner deleted come back at finalization (`RollingPatch` states what delivery does do: an overlay) | `src/docs/PLAN.md:218` |
| `CandidateStartsFromBase` | `main_single` | untracked files of an evidence run are in the next candidate's starting tree | `src/docs/PLAN.md:173` "The first candidate runs from the current candidate base." |
| `RegressionFilesRestored` | `main_single` with `TestsProtected = FALSE` or `Litter = "any"` | regression files are restored from HEAD, which is the candidate's own commit; an edit that got past the protection stays | docstring of `run_anchor_tests` |
| `ReportedPatchVerified` | `main_single` with `Litter = "any"` | a test run that edits tracked files makes the reported patch another than the tested one. With untracked litter it holds, but only because `git diff` does not see untracked files | - |
| `ExistingTestsIntact` | `step_protected` with `Guarded = FALSE`, or with any one of the `Loopholes` | edits of existing tests survive without a reproduction, when the shell staged them, when a test run or a gatherer made them, or when the listing was cut. With `Guarded`, no loophole and no quoted path it holds. The reproducer's protection has the same holes, which `CommittedTestsIntact` names | `src/README.md:48` "reverts any edits to existing test files", `src/docs/PLAN.md:243` |
| `SuccessIsBacked` | `step_protected` | test results the model only claims are evidence enough for a success | `src/README.md:20-21` "Model narration alone is never treated as proof." |
| `ReviewCoversResult` | `step_protected` | a new, unstaged file, or what the anchor run changed, is not in the reviewed diff and is in the snapshot | `src/README.md:160` |
| `AnchorCreatedByTool` | `reproduction` | an anchor the shell wrote, or a committed test, is accepted | `src/docs/PLAN.md:242` |
| `AnchorFailsByAssertion` | `reproduction` | an anchor that raised before its assertion is accepted | `_verify_reproduction`'s own message |
| `SearchOutputAccounted` | `tools` | a search drops what it omits and reports `truncated=False` | `src/docs/PLAN.md:251` |
| `ReadEnds` | `tools` | a read that blocks, of a pipe for instance, is not cut off: `_tool_timeout_seconds` does not know `read_file` | `src/src/tools/definitions.py:88` "Maximum seconds to allow the read." |
| `RequestsAfterWindow` | `completion` | the activity retry after a rate limit does not wait for the delay that was reported | comment on `_RATE_LIMIT_BUFFER_SECONDS` |

## Fairness

`MainWorkflow`, `ImplementationStep`, `ContextGatherer` and `LLMCompletion` check liveness under
`Spec /\ WF_vars(Next)`: as long as a step is possible one is taken. Next is one sequential
coroutine, so this says only that the engine keeps driving a workflow and that each await returns
or raises. The code justifies it: every activity and child runs under a timeout, subprocesses
included. No fairness is put on a particular outcome: a model may fail, loop or ask for tools for
ever, and termination holds because every loop has a counter (planner turns, tool rounds,
conversation length, retries).

`Predictions` and `ToolRun` have `Spec /\ WF_vars(Steps)`, where `Steps` leaves out what nobody owes:
in `Predictions` the next invocation, failures and kills; in `ToolRun` the agent's next call, its
reading of an answer, and a command that raises. What remains is the code's own progress: the driver
waits for an agent with a timeout and for the harness; a command that does not hang ends, and a
time limit that is positive is enforced by `subprocess.run` or `timeout(1)`. A command that hangs
and has no limit, and a read or write the host's file system does not answer, never end in the
model, as in the code.

## Proofs

Every theorem is for all values of the constants that satisfy the named assumptions of the module,
which TLC evaluates in every run of it. Files and contents need not be finite.

| Module | Theorem | Statement |
|---|---|---|
| `MainWorkflowProofs` | `TypeCorrect`, `UserBranchUnmoved`, `FreshBranches` | `Spec => []` of `TypeOK`, `HomeUnmoved`, `CandidateBranchFresh` |
| | `CandidatesStartFromTrackedBase` | if `Litter # "any"`, `Spec => TrackedFilesFromBase` |
| | `CandidatesStartFromBase` | if `Litter = "none"`, `Spec => CandidateStartsFromBase` |
| | `AnchorSeesCommittedTests`, `BlockedRunIsHarmless` | if `TestsProtected` and `Litter # "any"`, `Spec => []` of `RegressionFilesRestored`, `BlockedRunKeepsRepository` |
| | `BaseIsAccepted`, `SelectedWorkIsKept` | if `SingleCandidate`, `Spec => []` of `BaseIsSelectedCandidate`, `SelectedWorkSurvives` |
| | `ImplementsRollingPatch` | if `SingleCandidate`, `Spec => RollingPatchSpec` |
| | `SelectionIsDefinite`, `CandidatesWithinTarget` | `Spec => []` of `SelectionDefinite` (a step that is concluded selects exactly one candidate), `WithinTarget` (no more candidates than the first one asks for) |
| `StepProofs` | `StepTypeCorrect`, `LastRunIsReported`, `OnePassReported` | `Spec => []` of `TypeOK`, `LastRunReported`, `AtMostOnePassReported` |
| | `ProtectionHolds`, `OnlyNewFilesUnreviewed` | `Spec => []` of `ProtectedTestsIntact`, `UnreviewedIsNewAndNoTest` |
| `ReproductionProofs` | `ReproducerTypeCorrect`, `AnchorIsReal`, `CommittedTestsKept` | `Spec => []` of `TypeOK`, `AnchorFailsOnBase`, `CommittedTestsIntact` |
| `ReplanningProofs` | `PlannerTypeCorrect`, `ContractHolds`, `RequestsAnswered` | `Spec => []` of `TypeOK`, `ReplanContract`, `NotesAnswerRequests` |
| `GathererProofs` | `GathererTypeCorrect`, `HardStopIsFinal`, `NoObservationLost` | `Spec => []` of `TypeOK`, `NoCompletionAboveHardStop`, `ObservationsAccounted` |
| `ToolRunProofs` | `ToolTypeCorrect`, `NoOutputLost`, `ReadIsRequested` | `Spec => []` of `TypeOK`, `OutputAccounted`, `ReadsRequestedLines` |
| | `ExistingTestKept` | `Spec => RegressionNotOverwritten` |
| `CompletionProofs` | `CompletionTypeCorrect`, `RequestBudget`, `ClientsAreClosed`, `WindowRespected` | `Spec => []` of `TypeOK`, `RequestsBounded`, `ClientsClosed`, `RetriesAfterWindow` |
| `PredictionsProofs` | `DriverTypeCorrect`, `OfficialIsRecords`, `FreshIsScored`, `StaleThroughWindow`, `WorkerStopped` | `Spec => []` of `TypeOK`, `OfficialListsRecords`, `FreshPredictionScored`, `StaleOnlyThroughWindow`, `NoWorkerLeft` |
| | `CompleteRecordsKept` | `Spec => RecordsKept` |
| all but `ToolRunProofs`, `PredictionsProofs` | `EveryStepAdvances` | `Spec => [][Advances]_vars`: the variant of the component |

Each module has an inductive invariant and one lemma per action, or per group of actions with the
same effect, joined in a `NextInd`.

- **Orchestration.** `HomeUnmoved` is not inductive: `ResetBetweenCandidates` and
  `SnapshotCandidateResult` move the current branch, so one must know that HEAD is not at home
  there. `IndInv` adds where HEAD stands (`HeadOnCandidate`, `HeadAtHome`), that the branches the
  workflow refers to exist (`BranchesExist`), and that no branch carries an index not handed out yet
  (`BranchesBelowNext`, which also gives `FreshBranches`). `CleanInv` extends it: before a candidate
  is begun the tree differs from HEAD in untracked files at most (`Staged`, `LitterIsUntracked`), so
  `checkout -B` has nothing to carry over; with no litter at all there is nothing untracked either.
  Lemmas in front say of each git operator that it keeps a repository one and which refs it moves.
- **Candidates and selection.** `StepInv` relates the list of candidates to the phase, the target
  and the counter: at most as many as the first one asks for, with rising indices. From the rising
  indices follows that the preference has no ties (`PreferenceOrder`), and by the least-number
  principle that a list with a candidate has a preferred one (`OneIsSelected`).
- **Regression files.** A committed regression file equals its origin in the tree, the index and on
  *every* branch (`Kept`); that the branches are included makes it inductive, because later
  resets, checkouts and snapshots bring back what a branch holds.
- **Delivery and refinement.** `SelectedWorkSurvives` says that a branch holds the winner, and many
  steps move branches. `DeliveryInv` strengthens it by three parts. `SingleInv`: with one candidate
  a step never comes to the reset between candidates, the list holds the tree the agent left, and
  after the snapshot so does its branch. `CarriedInv`: the carried value's base is the accepted tree
  and its branch, while it exists, holds the winner; no candidate is begun on that branch. `FinalInv`
  follows finalization command by command: clean on the candidate branch, then the user's own tree,
  then the winner over it; only then may the branch be deleted. The refinement maps every action
  to a step of `RollingPatch` or a stutter, given `DeliveryInv` before and after. None of it needs
  `Litter = "none"` or protected tests. The hypothesis `SingleCandidate` is necessary:
  `v_work_survives` refutes `SelectedWorkSurvives` at the default counts.
- **Step and reproduction.** `EscapesOnly` says that outside the state in which a pass is due every
  protected file that differs has escaped. The case that carries it is the pass itself: a file it
  covered is restored from the index, and so differs only if its index entry does; a file of a
  listed folder goes with its folder; a pass whose checkout is refused covers nothing. An unguarded
  command changes only what it adds to `exposed`, index entries of the folder included, because
  whether a new file is listed on its own depends on its neighbours (`Touched`). `Reviews` relates
  the reviewed diff to the tree through the anchor run, whose changes are `late`. That the reported
  suffix has one pass needs the position of the last one, which the least-number principle yields in
  set form (`LastMember`). The bound on test runs is an invariant on rounds and calls left (`Rounds`).
- **Planning child.** `Budgeted` places the turn count in each state; `Noted` splits the notes into
  what is known and what this turn has gathered.
- **Gatherer.** `BelowThresholds` places the measured utilization in each state that still asks;
  `Observed` numbers the observations of the turns shown and of the one under way; `Spilled` says
  that packing the snippets leaves what a pack without curation carries as it was.
- **Tools.** Compaction is arithmetic (`CompactAccounts`: head, tail and omission make up the
  stream). That the host and the container read the same lines is `SameLines`, a case split over
  where the range begins and ends relative to the file; `ReadFound` carries it from the command to
  its answer, which `ExcerptOfInterval` cuts. That a command reads files in containers only is
  `ReadRuns`. Type correctness showed two bounds the instances had met by chance: a file must exist
  to be asked for, and a command must be able to print a file.
- **Completion.** Requests of all attempts fill slots, four per attempt in the default
  configuration; `Spent` says how many slots the attempt under way has used. `Patience` carries the
  window from the error through the sleep.
- **Driver.** `Collection` says the loop has collected what the records behind it hold;
  `Freshness` that a record of this invocation lies behind the loop and has no report yet;
  `Faithful` that a report scores its record except inside the window that `followed` watches.
- **Why runs end.** `Advances` compares a step's two states lexicographically: a counter the code
  bounds (planner turns, tool rounds, conversation length, engine attempts), then the stage, then
  what is pending in the stage (candidates, branches to delete, calls, requests). Every component of
  the order is bounded by `TypeOK` or a theorem above (`CandidatesWithinTarget`, `RequestBudget`), so no
  run takes infinitely many steps other than the stuttering of a finished one. For `StepProofs` and
  `ReproductionProofs` a call counts twice, because a protection pass may follow it. The last part of
  a termination proof, that an unfinished run can take a step and does, is fairness and stays
  with TLC.

Only model-checked: the liveness properties `Termination`, `StepTerminates`, `GatheringTerminates`,
`CompletionEnds`, `InvocationEnds` and `CallEnds`. Their safety part is `EveryStepAdvances` where there is
one; fairness and `ENABLED` are out of the prover's reach. So is what recursively defined data would
need by induction: `UsedCharacters` of `ContextGatherer` folds over a sequence, and no theorem says
that a pack stays within its characters.

## Assumptions

- In `MainWorkflow` agents edit files, but do not stage, commit or switch branches; `run_shell` would
  let them. `ImplementationStep` and `Reproduction` explore staging and committing on the branch they
  are on.
- The theorems of `MainWorkflow` about regression files have `TestsProtected` as a hypothesis; what
  it stands for is said [above](#modules-and-how-they-correspond-to-the-code).
- In `TestProtection` folders are not nested, and a command edits files, stages all or commits all;
  ignored files are left out.
- `Reproduction` takes `_is_assertion_failure` as it is: exit code 1 without one of a few words. What
  it lets through is `AnchorFailsByAssertion`, refuted.
- An unreferenced commit stays available (no garbage collection during a run), ignored files are
  left out, and except in `TestProtection` directories are not distinguished from files.
- `ContextGatherer`: the stop threshold is below the hard one, as the defaults are, the context
  limit is positive, usage is reported, and a conversation that got longer costs more tokens. The
  code takes a missing usage for a utilization of 0 (`client.py:325-326`): then no threshold is ever
  reached, and only the model's provider ends the conversation.
- `ImplementationStep` and `Reproduction` choose a tool call when it runs, not when the turn lists
  it. The calls of one turn are independent of each other's results, so the runs of the code are
  among those of the model.
- `LLMCompletion`: a reported delay is right up to `Buffer`; requests take no time unless they run
  into the timeout; the engine waits `backoff_seconds` between attempts. The `openai` package's own
  retries below `make_request` are part of a request.

- `ReproductionAssumption`: production and test files do not share contents.
- `SingleCandidate` (hypothesis of the theorems about delivery and refinement): one candidate per step whatever the
  confidence, that is `CANDIDATE_COUNT_MEDIUM_CONFIDENCE` and `CANDIDATE_COUNT_LOW_CONFIDENCE` of 1;
  the default of the latter is 2.
- `ToolRunAssumption`: head and tail of a compacted output fit into the limit and the tail is not
  empty, as with the defaults. The code does not check it, and `OutputAccounted` and
  `ReadsRequestedLines` are false of a tail of 0 or of overlapping parts. A line is one character. Of the bounds: there is a file, and a
  command can print every file (`MaxLines <= MaxOutput`).
- `Predictions`: run id and model name stay the same over the invocations; a killed invocation takes
  its harness along, and a worker it orphans is left out; stopping the worker succeeds; a harness that
  exits with 0 has written a report for every patch that is not empty, which the driver does not
  check; the harness skips instances that have a report, as the driver's removal of stale ones supposes.

## What is not modelled

- Texts: prompts, summaries, reports, command lines, and the parsing of them, beyond what the
  control reads of them. Usage and cost sums. The index behind the symbol search.
- Configuration: its values are constants, its reading from the environment is left out.
- The replay of Temporal-Light: whether a restarted worker runs an activity again is decided in a
  submodule that is not in the repository. One crash hazard is listed for it. The same holds for
  what becomes of a tool whose own limit exceeds the 300 s of its activity.
- Clocks other than in `LLMCompletion`; elsewhere a timeout is one of the ways to fail.
- Docker setup (pull, start, readiness) is one step that succeeds or fails.
- Data set rows, prices and comparison texts of the driver; the smoke workflow, worker start-up and
  the CLI, which keep no state.

## Plan

Done: all components above except those listed as not modelled; proofs of every property of a
passing run that is not liveness, and of why the runs of each component are finite.

Next, prove: the contracts by which `MainWorkflow` abstracts its children, as implications from the
invariants of the detailed modules; which tree becomes the base when a step has several candidates.

Next, model: Docker setup as separate steps with their failures.
