----------------------------- MODULE Workspace -----------------------------
(***************************************************************************)
(* The methods of _Workspace in src/activities/workspace_manager.py.       *)
(*                                                                         *)
(* A workspace value ws = [branch, base] is what the workflow carries      *)
(* around: current_branch, and the commit _candidate_base returns          *)
(* (candidate_base_sha, or base_sha before the first snapshot).  The       *)
(* repository r is the shared physical state: two workspace values of one  *)
(* run act on the same r.                                                  *)
(***************************************************************************)
EXTENDS GitRepo

WorkspaceOf(branch, base) == [branch |-> branch, base |-> base]

IsWorkspace(ws) == ws.branch \in Branches /\ ws.base \in Commits

(* What tools that write files can make of a repository. *)
Edited(r) == {Repo(r.head, r.refs, r.index, w) : w \in Trees}

(* begin_candidate: the branch is created or re-pointed at the base. *)
BeginAllowed(r, ws) == CheckoutAllowed(r, ws.base.tree)

(* Mutant: the branch is cut from HEAD. *)
BeginAtHead(r, ws, k) == CheckoutNew(r, k, r.refs[r.head])

BeginCandidate(r, ws, k) == CheckoutNew(r, k, ws.base)

(* reset_to_base: reset --hard, then clean. *)
ResetToBase(r, ws) == Clean(ResetHard(r, ws.base))

(* Mutant: git commit instead of git commit-tree. *)
CommitBase(r) == ResetHard(AddAll(r), Commit("base", r.work))

(* snapshot_candidate_base: stages everything and records the index as a   *)
(* commit no branch points at; HEAD and the working tree stay.             *)
SnapshotBase(r) == AddAll(r)

(* Mutant: the tree is written before git add -A. *)
UnstagedSnapshot(r) == Commit("base", r.index)

BaseSnapshot(r) == Commit("base", r.work)

(* Mutant: the result is staged and never committed. *)
StageResult(r) == AddAll(r)

(* snapshot_candidate_result: commits everything on the current branch. *)
SnapshotResult(r) ==
    LET staged == AddAll(r)
    IN  ResetHard(staged, Commit("result", staged.index))

(* finalize_to_base, one operator per group of git commands. *)
DiscardUncommitted(r) == Clean(ResetHard(r, r.refs[r.head]))
ReturnHome(r) == CheckoutBranch(r, Home)
ApplyWinner(r, winner) == CheckoutPaths(r, r.refs[winner].tree, Files)
(* Mutant: git reset --hard instead of git reset. *)
UnstageHard(r) == ResetHard(r, r.refs[r.head])

Unstage(r) == ResetMixed(r)
CandidateBranches(r) == DOMAIN r.refs \ {Home}
=============================================================================
