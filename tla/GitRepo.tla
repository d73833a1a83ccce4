------------------------------ MODULE GitRepo ------------------------------
(***************************************************************************)
(* The part of git that workspace_manager.py relies on, as pure operators  *)
(* on a repository value.  Git is not in this repository: each operator is *)
(* modelled from how the code calls it.                                    *)
(*                                                                         *)
(* A tree maps every file name to its content or to Absent.  A commit is   *)
(* its tree tagged with the reason the runtime made it (the tag stands for *)
(* the commit message).  A repository value holds the current branch, the  *)
(* branch refs, the index and the working tree.  Ignored files and the     *)
(* object store are left out: an unreferenced commit is never lost.        *)
(*                                                                         *)
(* Home is the user's own position: the branch HEAD was on when the run    *)
(* started, or the detached commit when there was no branch.  Candidate    *)
(* branch agentic/<run_id>/cand-k is the natural number k.                 *)
(***************************************************************************)
EXTENDS Integers

CONSTANTS Files, Contents, Absent

ASSUME AbsentAssumption == Absent \notin Contents

Trees == [Files -> Contents \cup {Absent}]

Kinds == {"origin", "base", "result"}
Commit(kind, tree) == [kind |-> kind, tree |-> tree]
Commits == [kind : Kinds, tree : Trees]

Home == -1
Branches == {Home} \cup Nat

Repo(head, refs, index, work) ==
    [head |-> head, refs |-> refs, index |-> index, work |-> work]

IsRepo(r) ==
    /\ r.head \in DOMAIN r.refs
    /\ DOMAIN r.refs \subseteq Branches
    /\ \A b \in DOMAIN r.refs : r.refs[b] \in Commits
    /\ r.index \in Trees
    /\ r.work \in Trees

HeadTree(r) == r.refs[r.head].tree

SetRef(refs, b, commit) ==
    [x \in DOMAIN refs \cup {b} |-> IF x = b THEN commit ELSE refs[x]]

(* git status --porcelain prints nothing. *)
IsClean(r) == r.index = HeadTree(r) /\ r.work = r.index

(* git add -A *)
AddAll(r) == Repo(r.head, r.refs, r.work, r.work)

(* git reset --hard <commit>: the current branch moves, tracked files take *)
(* the commit's content, files tracked by neither side stay.               *)
ResetHard(r, commit) ==
    Repo(r.head, SetRef(r.refs, r.head, commit), commit.tree,
         [f \in Files |-> IF r.index[f] = Absent /\ commit.tree[f] = Absent
                          THEN r.work[f] ELSE commit.tree[f]])

(* git reset: the index goes back to HEAD, the working tree stays. *)
ResetMixed(r) == Repo(r.head, r.refs, HeadTree(r), r.work)

(* git clean -fd: untracked files go. *)
Clean(r) ==
    Repo(r.head, r.refs, r.index,
         [f \in Files |-> IF r.index[f] = Absent THEN Absent ELSE r.work[f]])

(* git checkout of a tree moves a file only when HEAD and the target       *)
(* differ on it and the index does not already hold the target's version;  *)
(* it refuses to overwrite staged or unstaged changes and untracked files. *)
Moves(r, f, target) == HeadTree(r)[f] # target[f] /\ r.index[f] # target[f]

CheckoutAllowed(r, target) ==
    \A f \in Files : Moves(r, f, target) =>
        /\ r.index[f] = HeadTree(r)[f]
        /\ r.work[f] \in {r.index[f], Absent}

Switch(r, branch, refs, target) ==
    Repo(branch, refs,
         [f \in Files |-> IF Moves(r, f, target) THEN target[f] ELSE r.index[f]],
         [f \in Files |-> IF Moves(r, f, target) THEN target[f] ELSE r.work[f]])

(* git checkout -B <branch> <commit> *)
CheckoutNew(r, branch, commit) ==
    Switch(r, branch, SetRef(r.refs, branch, commit), commit.tree)

(* git checkout <branch> *)
CheckoutBranch(r, branch) == Switch(r, branch, r.refs, r.refs[branch].tree)

(* git checkout <tree-ish> -- <paths>: an overlay.  Files the tree has are *)
(* written to index and working tree, files it lacks are left alone.       *)
CheckoutPaths(r, tree, paths) ==
    LET Over(old) == [f \in Files |-> IF f \in paths /\ tree[f] # Absent
                                      THEN tree[f] ELSE old[f]]
    IN  Repo(r.head, r.refs, Over(r.index), Over(r.work))

(* git diff <commit>: the right-hand side of the patch.  A file the index  *)
(* does not know shows as deleted, so an untracked file is invisible.      *)
DiffTree(r) ==
    [f \in Files |-> IF r.index[f] = Absent THEN Absent ELSE r.work[f]]

(* git branch -D <branch> *)
DeleteBranch(r, b) ==
    Repo(r.head, [x \in DOMAIN r.refs \ {b} |-> r.refs[x]], r.index, r.work)
=============================================================================
