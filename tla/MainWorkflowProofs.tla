------------------------- MODULE MainWorkflowProofs -------------------------
(***************************************************************************)
(* Theorems about MainWorkflow for every set of files and contents, every  *)
(* number of candidates and planner turns, host or docker, with or without *)
(* litter and branch cleanup.  Part 1 is about the git operators, part 2   *)
(* about any configuration; part 3 supposes that the test files are        *)
(* protected, part 4 that every step runs a single candidate.              *)
(***************************************************************************)
EXTENDS MainRefinement, WellFoundedInduction, TLAPS

-----------------------------------------------------------------------------
(***************************************************************************)
(* Part 1.  The git operators: each of them keeps a repository a           *)
(* repository, and each says which branch it leaves HEAD on and which refs *)
(* it moves.                                                               *)
(***************************************************************************)

(* Changing index and working tree only. *)
LEMMA KeepRefs ==
    ASSUME NEW r, IsRepo(r), NEW i \in Trees, NEW w \in Trees
    PROVE  LET s == Repo(r.head, r.refs, i, w)
           IN  IsRepo(s) /\ s.head = r.head /\ s.refs = r.refs
BY DEF IsRepo, Repo

(* Pointing a branch at a commit keeps a ref map well-formed. *)
LEMMA SetRefType ==
    ASSUME NEW refs, DOMAIN refs \subseteq Branches,
           \A x \in DOMAIN refs : refs[x] \in Commits,
           NEW b \in Branches, NEW c \in Commits
    PROVE  /\ DOMAIN SetRef(refs, b, c) \subseteq Branches
           /\ \A x \in DOMAIN SetRef(refs, b, c) : SetRef(refs, b, c)[x] \in Commits
BY DEF SetRef

(* A commit of a tree holds that tree. *)
LEMMA CommitType ==
    ASSUME NEW kind \in Kinds, NEW t \in Trees
    PROVE  Commit(kind, t) \in Commits /\ Commit(kind, t).tree = t
BY DEF Commit, Commits

(* git add -A copies the working tree to the index and moves no ref. *)
LEMMA AddAllFacts ==
    ASSUME NEW r, IsRepo(r)
    PROVE  /\ IsRepo(AddAll(r))
           /\ AddAll(r).head = r.head /\ AddAll(r).refs = r.refs
           /\ AddAll(r).index = r.work /\ AddAll(r).work = r.work
BY DEF AddAll, IsRepo, Repo

(* git reset --hard moves the ref of the current branch only. *)
LEMMA ResetHardFacts ==
    ASSUME NEW r, IsRepo(r), NEW c \in Commits
    PROVE  /\ IsRepo(ResetHard(r, c))
           /\ ResetHard(r, c).head = r.head
           /\ ResetHard(r, c).refs = SetRef(r.refs, r.head, c)
<1> DEFINE w == [f \in Files |-> IF r.index[f] = Absent /\ c.tree[f] = Absent
                                 THEN r.work[f] ELSE c.tree[f]]
           s == Repo(r.head, SetRef(r.refs, r.head, c), c.tree, w)
<1>1. c.tree \in Trees
  BY DEF Commits
<1>2. w \in Trees
  BY <1>1 DEF Trees, IsRepo
<1>3. /\ r.head \in DOMAIN r.refs /\ DOMAIN r.refs \subseteq Branches
      /\ \A b \in DOMAIN r.refs : r.refs[b] \in Commits
  BY DEF IsRepo
<1>4. /\ r.head \in DOMAIN SetRef(r.refs, r.head, c)
      /\ DOMAIN SetRef(r.refs, r.head, c) \subseteq Branches
      /\ \A b \in DOMAIN SetRef(r.refs, r.head, c) :
            SetRef(r.refs, r.head, c)[b] \in Commits
  <2>1. r.head \in Branches
    BY <1>3
  <2>2. r.head \in DOMAIN SetRef(r.refs, r.head, c)
    BY DEF SetRef
  <2> QED BY <1>3, <2>1, <2>2, SetRefType
<1>5. s.head = r.head /\ s.refs = SetRef(r.refs, r.head, c)
      /\ s.index = c.tree /\ s.work = w
  BY DEF Repo
<1>6. IsRepo(s)
  <2> HIDE DEF s, w
  <2> QED BY <1>1, <1>2, <1>4, <1>5 DEF IsRepo
<1>7. ResetHard(r, c) = s
  BY DEF ResetHard
<1> QED BY <1>5, <1>6, <1>7

(* git reset moves no ref. *)
LEMMA ResetMixedFacts ==
    ASSUME NEW r, IsRepo(r)
    PROVE  /\ IsRepo(ResetMixed(r))
           /\ ResetMixed(r).head = r.head /\ ResetMixed(r).refs = r.refs
<1>1. HeadTree(r) \in Trees
  BY DEF HeadTree, IsRepo, Commits
<1> QED BY <1>1, KeepRefs DEF ResetMixed, IsRepo

(* git clean moves no ref. *)
LEMMA CleanFacts ==
    ASSUME NEW r, IsRepo(r)
    PROVE  /\ IsRepo(Clean(r))
           /\ Clean(r).head = r.head /\ Clean(r).refs = r.refs
<1>1. [f \in Files |-> IF r.index[f] = Absent THEN Absent ELSE r.work[f]] \in Trees
  BY DEF Trees, IsRepo
<1>2. r.index \in Trees
  BY DEF IsRepo
<1> QED BY <1>1, <1>2, KeepRefs DEF Clean

(* git checkout -B points the new branch at the commit and HEAD at it. *)
LEMMA CheckoutNewFacts ==
    ASSUME NEW r, IsRepo(r), NEW b \in Branches, NEW c \in Commits
    PROVE  /\ IsRepo(CheckoutNew(r, b, c))
           /\ CheckoutNew(r, b, c).head = b
           /\ CheckoutNew(r, b, c).refs = SetRef(r.refs, b, c)
<1> DEFINE i == [f \in Files |-> IF Moves(r, f, c.tree) THEN c.tree[f] ELSE r.index[f]]
           w == [f \in Files |-> IF Moves(r, f, c.tree) THEN c.tree[f] ELSE r.work[f]]
           s == Repo(b, SetRef(r.refs, b, c), i, w)
<1>1. c.tree \in Trees
  BY DEF Commits
<1>2. i \in Trees /\ w \in Trees
  BY <1>1 DEF Trees, IsRepo
<1>3. /\ DOMAIN r.refs \subseteq Branches
      /\ \A x \in DOMAIN r.refs : r.refs[x] \in Commits
  BY DEF IsRepo
<1>4. /\ b \in DOMAIN SetRef(r.refs, b, c)
      /\ DOMAIN SetRef(r.refs, b, c) \subseteq Branches
      /\ \A x \in DOMAIN SetRef(r.refs, b, c) : SetRef(r.refs, b, c)[x] \in Commits
  <2>1. b \in DOMAIN SetRef(r.refs, b, c)
    BY DEF SetRef
  <2> QED BY <1>3, <2>1, SetRefType
<1>5. s.head = b /\ s.refs = SetRef(r.refs, b, c) /\ s.index = i /\ s.work = w
  BY DEF Repo
<1>6. IsRepo(s)
  <2> HIDE DEF s, i, w
  <2> QED BY <1>2, <1>4, <1>5 DEF IsRepo
<1>7. CheckoutNew(r, b, c) = s
  BY DEF CheckoutNew, Switch
<1> QED BY <1>5, <1>6, <1>7

(* git checkout of a branch moves HEAD and no ref. *)
LEMMA CheckoutBranchFacts ==
    ASSUME NEW r, IsRepo(r), NEW b \in DOMAIN r.refs
    PROVE  /\ IsRepo(CheckoutBranch(r, b))
           /\ CheckoutBranch(r, b).head = b
           /\ CheckoutBranch(r, b).refs = r.refs
<1> DEFINE t == r.refs[b].tree
           i == [f \in Files |-> IF Moves(r, f, t) THEN t[f] ELSE r.index[f]]
           w == [f \in Files |-> IF Moves(r, f, t) THEN t[f] ELSE r.work[f]]
           s == Repo(b, r.refs, i, w)
<1>1. t \in Trees
  BY DEF Commits, IsRepo
<1>2. i \in Trees /\ w \in Trees
  <2> HIDE DEF t
  <2> QED BY <1>1 DEF Trees, IsRepo
<1>3. s.head = b /\ s.refs = r.refs /\ s.index = i /\ s.work = w
  BY DEF Repo
<1>4. IsRepo(s)
  <2> HIDE DEF s, i, w
  <2> QED BY <1>2, <1>3 DEF IsRepo
<1>5. CheckoutBranch(r, b) = s
  BY DEF CheckoutBranch, Switch
<1> QED BY <1>3, <1>4, <1>5

(* git checkout of paths moves neither HEAD nor a ref. *)
LEMMA CheckoutPathsFacts ==
    ASSUME NEW r, IsRepo(r), NEW t \in Trees, NEW paths
    PROVE  /\ IsRepo(CheckoutPaths(r, t, paths))
           /\ CheckoutPaths(r, t, paths).head = r.head
           /\ CheckoutPaths(r, t, paths).refs = r.refs
<1> DEFINE i == [f \in Files |-> IF f \in paths /\ t[f] # Absent THEN t[f] ELSE r.index[f]]
           w == [f \in Files |-> IF f \in paths /\ t[f] # Absent THEN t[f] ELSE r.work[f]]
<1>1. i \in Trees /\ w \in Trees
  BY DEF Trees, IsRepo
<1>2. CheckoutPaths(r, t, paths) = Repo(r.head, r.refs, i, w)
  BY DEF CheckoutPaths
<1> QED
  <2> HIDE DEF i, w
  <2> QED BY <1>1, <1>2, KeepRefs

(* git branch -D removes one ref, never the current one. *)
LEMMA DeleteBranchFacts ==
    ASSUME NEW r, IsRepo(r), NEW b, b # r.head
    PROVE  /\ IsRepo(DeleteBranch(r, b))
           /\ DeleteBranch(r, b).head = r.head
           /\ DOMAIN DeleteBranch(r, b).refs = DOMAIN r.refs \ {b}
           /\ \A x \in DOMAIN r.refs \ {b} : DeleteBranch(r, b).refs[x] = r.refs[x]
BY DEF DeleteBranch, IsRepo, Repo

(* A diff shows a tree. *)
LEMMA DiffTreeType ==
    ASSUME NEW r, IsRepo(r)
    PROVE  DiffTree(r) \in Trees
BY DEF DiffTree, IsRepo, Trees
-----------------------------------------------------------------------------
(***************************************************************************)
(* Part 2.  Branches, reports, the candidates of a step and the progress   *)
(* of a run, in any configuration.                                         *)
(***************************************************************************)

(* The inductive invariant *)

(* Candidates run with HEAD on their own branch, and the reset between two *)
(* candidates runs while HEAD is still on the first one's: the hard resets *)
(* never find HEAD at home.                                                *)
HeadOnCandidate ==
    /\ phase \in {"implement", "snapshot_result"} => repo.head = next
    /\ phase = "reset_to_base" => repo.head \in Nat

(* Finalization is home before it applies the winner and deletes branches. *)
HeadAtHome ==
    phase \in {"apply_winner", "unstage", "delete_branches"} => repo.head = Home

(* Until branches are deleted, every branch the workflow still refers to   *)
(* exists: that of its workspace value and those of the step's candidates. *)
BranchesExist ==
    phase \notin {"delete_branches", "teardown"} \cup Terminal =>
        /\ ws.branch \in DOMAIN repo.refs
        /\ \A i \in DOMAIN candidates : candidates[i].index \in DOMAIN repo.refs

(* No branch carries an index the counter has not handed out yet. *)
BranchesBelowNext ==
    /\ phase \notin {"implement", "snapshot_result", "failed"} =>
         \A b \in DOMAIN repo.refs : b < next
    /\ phase \in {"implement", "snapshot_result"} =>
         \A b \in DOMAIN repo.refs : b <= next

IndInv ==
    /\ TypeOK
    /\ HomeUnmoved
    /\ HeadOnCandidate
    /\ HeadAtHome
    /\ BranchesExist
    /\ BranchesBelowNext

-----------------------------------------------------------------------------
(* Helpers of the model *)

(* What an operation that moves no ref and no HEAD leaves of a repository. *)
SameRefs(r, s) ==
    /\ IsRepo(s)
    /\ s.head = r.head
    /\ DOMAIN s.refs = DOMAIN r.refs
    /\ \A b \in DOMAIN r.refs : s.refs[b] = r.refs[b]

(* The elements of a typed sequence have its type. *)
LEMMA SeqElement ==
    ASSUME NEW S, NEW q \in Seq(S), NEW i \in DOMAIN q
    PROVE  q[i] \in S
OBVIOUS

(* A worker result has one of the four statuses. *)
LEMMA ResultStatus ==
    ASSUME NEW m, NEW r \in Results(m)
    PROVE  r.status \in Statuses
BY DEF Results, Statuses

(* base_sha is a commit. *)
LEMMA OriginCommitType == OriginCommit \in Commits
BY ConfigAssumption, CommitType DEF OriginCommit, Kinds

(* Home is a branch like the others, and no candidate index. *)
LEMMA HomeIsNoIndex == Home \in Branches /\ Home \notin Nat /\ Nat \subseteq Branches
BY DEF Home, Branches

(* An agent that edits files moves no ref. *)
LEMMA EditedFacts ==
    ASSUME NEW r, IsRepo(r), NEW s \in Edited(r)
    PROVE  SameRefs(r, s)
<1>1. PICK w \in Trees : s = Repo(r.head, r.refs, r.index, w)
  BY DEF Edited
<1> QED BY <1>1, KeepRefs DEF SameRefs, IsRepo

(* A protected agent edits files, too. *)
LEMMA AgentEditsFacts ==
    ASSUME NEW r, IsRepo(r), NEW guarded, NEW s \in AgentEdits(r, guarded)
    PROVE  SameRefs(r, s)
BY EditedFacts DEF AgentEdits

(* A tool or test run that litters moves no ref. *)
LEMMA LitteredFacts ==
    ASSUME NEW r, IsRepo(r), NEW s \in Littered(r)
    PROVE  SameRefs(r, s)
<1>1. CASE Litter = "none"
  BY <1>1 DEF Littered, SameRefs
<1>2. CASE Litter \in {"untracked", "any"}
  BY <1>2, EditedFacts DEF Littered
<1> QED BY <1>1, <1>2, ConfigAssumption

(* Restoring regression files moves no ref. *)
LEMMA RestoreFromHeadFacts ==
    ASSUME NEW r, IsRepo(r), NEW paths
    PROVE  SameRefs(r, RestoreFromHead(r, paths))
<1>1. HeadTree(r) \in Trees
  BY DEF HeadTree, IsRepo, Commits
<1>2. SameRefs(r, CheckoutPaths(r, HeadTree(r), paths))
  BY <1>1, CheckoutPathsFacts DEF SameRefs
<1>3. SameRefs(r, r)
  BY DEF SameRefs
<1> QED BY <1>2, <1>3 DEF RestoreFromHead

(* The final anchor tests, restore included, move no ref. *)
LEMMA RestoredFacts ==
    ASSUME IsRepo(repo)
    PROVE  /\ SameRefs(repo, RestoredRepo)
           /\ \A s \in Littered(RestoredRepo) : SameRefs(repo, s)
<1>1. SameRefs(repo, RestoredRepo)
  BY RestoreFromHeadFacts DEF RestoredRepo, SameRefs
<1>2. ASSUME NEW s \in Littered(RestoredRepo) PROVE SameRefs(repo, s)
  <2>1. SameRefs(RestoredRepo, s)
    BY <1>1, LitteredFacts DEF SameRefs
  <2> QED BY <1>1, <2>1 DEF SameRefs
<1> QED BY <1>1, <1>2

(* reset --hard of HEAD itself moves nothing. *)
LEMMA DiscardFacts ==
    ASSUME NEW r, IsRepo(r)
    PROVE  /\ SameRefs(r, ResetHard(r, r.refs[r.head]))
           /\ SameRefs(r, DiscardUncommitted(r))
<1> DEFINE c == r.refs[r.head]
           s == ResetHard(r, c)
<1>1. c \in Commits /\ r.head \in DOMAIN r.refs
  BY DEF IsRepo
<1>2. /\ IsRepo(s)
      /\ s.head = r.head
      /\ s.refs = SetRef(r.refs, r.head, c)
  <2> HIDE DEF c
  <2> QED BY <1>1, ResetHardFacts
<1>3. SameRefs(r, s)
  <2> HIDE DEF s
  <2> QED BY <1>1, <1>2 DEF SameRefs, SetRef
<1>4. SameRefs(r, Clean(s))
  <2> HIDE DEF s
  <2> QED BY <1>2, <1>3, CleanFacts DEF SameRefs
<1> QED BY <1>3, <1>4 DEF DiscardUncommitted

(* A hard reset that finds HEAD on a candidate branch leaves home alone. *)
LEMMA ResetAwayFromHome ==
    ASSUME NEW r, IsRepo(r), NEW c \in Commits, r.head \in Nat,
           NEW s, IsRepo(s), s.head = r.head, s.refs = SetRef(r.refs, r.head, c)
    PROVE  /\ DOMAIN s.refs = DOMAIN r.refs
           /\ Home \in DOMAIN r.refs => s.refs[Home] = r.refs[Home]
BY HomeIsNoIndex DEF IsRepo, SetRef
-----------------------------------------------------------------------------
(* Initially *)

(* The invariant holds when the workflow starts. *)
LEMMA InitInd == Init => IndInv
<1> SUFFICES ASSUME Init PROVE IndInv
  OBVIOUS
<1>1. PICK w \in Trees : repo = Repo(Home, [b \in {Home} |-> OriginCommit], Origin, w)
  BY DEF Init
<1>2. /\ repo.head = Home
      /\ repo.refs = [b \in {Home} |-> OriginCommit]
      /\ repo.index = Origin /\ repo.work = w
  BY <1>1 DEF Repo
<1>3. IsRepo(repo)
  BY <1>2, OriginCommitType, HomeIsNoIndex, ConfigAssumption DEF IsRepo
<1>4. IsWorkspace(ws)
  BY OriginCommitType, HomeIsNoIndex DEF Init, IsWorkspace, WorkspaceOf
<1>5. TypeOK
  <2>1. Origin \in Trees /\ turns \in 0 .. MaxPlannerTurns
    BY ConfigAssumption DEF Init
  <2>2. candidates \in Seq([index : Nat, result : Results(MaxPassed), tree : Trees])
    BY DEF Init
  <2>3. /\ verified \in [tree : Trees, passed : BOOLEAN]
        /\ report \in [verdict : Decisions \cup {"none", "blocked"}, patch : Trees]
    BY <2>1 DEF Init
  <2> QED BY <1>3, <1>4, <2>1, <2>2, <2>3 DEF Init, TypeOK, Phases
<1>6. HomeUnmoved
  BY <1>2 DEF HomeUnmoved
<1>7. HeadOnCandidate /\ HeadAtHome
  BY DEF Init, HeadOnCandidate, HeadAtHome
<1>8. BranchesExist
  BY <1>2 DEF Init, BranchesExist, WorkspaceOf
<1>9. BranchesBelowNext
  BY <1>2 DEF Init, BranchesBelowNext, Home
<1> QED BY <1>5, <1>6, <1>7, <1>8, <1>9 DEF IndInv
-----------------------------------------------------------------------------
(* Steps that move no ref and stay clear of the phases where HEAD matters *)

Quiet == Phases \ {"implement", "snapshot_result", "reset_to_base",
                   "apply_winner", "unstage", "delete_branches"}

(* A step that moves no ref keeps the invariant if its types are right. *)
LEMMA QuietStep ==
    ASSUME IndInv, TypeOK', SameRefs(repo, repo'), next' = next,
           phase \notin {"implement", "snapshot_result", "delete_branches"} \cup Terminal,
           phase = "teardown" => phase' \in Terminal,
           phase' \in Quiet,
           candidates' \in {candidates, <<>>},
           \/ ws'.branch = ws.branch
           \/ \E i \in DOMAIN candidates : ws'.branch = candidates[i].index
    PROVE  IndInv'
<1>1. HomeUnmoved'
  BY DEF IndInv, HomeUnmoved, SameRefs
<1>2. HeadOnCandidate' /\ HeadAtHome'
  BY DEF HeadOnCandidate, HeadAtHome, Quiet
<1>3. BranchesExist'
  <2>1. CASE phase = "teardown"
    BY <2>1 DEF BranchesExist
  <2>2. CASE phase # "teardown"
    <3>1. /\ ws.branch \in DOMAIN repo.refs
          /\ \A i \in DOMAIN candidates : candidates[i].index \in DOMAIN repo.refs
      BY <2>2 DEF IndInv, BranchesExist
    <3> QED BY <3>1 DEF BranchesExist, SameRefs
  <2> QED BY <2>1, <2>2
<1>4. BranchesBelowNext'
  BY DEF IndInv, BranchesBelowNext, SameRefs, Quiet, Terminal
<1> QED BY <1>1, <1>2, <1>3, <1>4 DEF IndInv

(* The bootstrap keeps the invariant. *)
LEMMA Bootstrap ==
    ASSUME IndInv,
           BuildContract \/ SetupEnvironment \/ BuildRepoIndex \/ PlanReproduction
           \/ Reproduce \/ SnapshotReproduction
    PROVE  IndInv'
<1> USE DEF bootVars, stepVars, loopVars, endVars, histVars
<1>1. IsRepo(repo) /\ SameRefs(repo, repo)
  BY DEF IndInv, TypeOK, SameRefs
<1>2. CASE BuildContract \/ SetupEnvironment \/ BuildRepoIndex
  <2>1. TypeOK'
    BY <1>2 DEF IndInv, TypeOK, IsWorkspace, BuildContract, SetupEnvironment,
                BuildRepoIndex, Phases, Terminal
  <2> QED BY <1>1, <1>2, <2>1, QuietStep
          DEF BuildContract, SetupEnvironment, BuildRepoIndex, Quiet, Phases, Terminal
<1>3. CASE PlanReproduction
  <2>1. SameRefs(repo, repo')
    BY <1>1, <1>3, LitteredFacts DEF PlanReproduction
  <2>2. TypeOK'
    BY <1>3, <2>1 DEF IndInv, TypeOK, IsWorkspace, PlanReproduction, SameRefs,
                      Phases, Terminal
  <2> QED BY <1>3, <2>1, <2>2, QuietStep DEF PlanReproduction, Quiet, Phases, Terminal
<1>4. CASE Reproduce
  <2>1. SameRefs(repo, repo')
    BY <1>1, <1>4, AgentEditsFacts DEF Reproduce
  <2>2. report' \in [verdict : Decisions \cup {"none", "blocked"}, patch : Trees]
    BY <1>4, ConfigAssumption DEF Reproduce, IndInv, TypeOK
  <2>3. TypeOK'
    BY <1>4, <2>1, <2>2
       DEF IndInv, TypeOK, IsWorkspace, Reproduce, SameRefs, Phases, Terminal
  <2> QED BY <1>4, <2>1, <2>3, QuietStep DEF Reproduce, Quiet, Phases, Terminal
<1>5. CASE SnapshotReproduction
  <2>1. SameRefs(repo, repo')
    BY <1>1, <1>5, AddAllFacts DEF SnapshotReproduction, SnapshotBase, SameRefs
  <2>2. ws'.branch = ws.branch /\ IsWorkspace(ws') /\ accepted' \in Trees
    BY <1>1, <1>5, CommitType DEF SnapshotReproduction, WorkspaceOf, IsWorkspace,
       BaseSnapshot, IndInv, TypeOK, IsRepo, Kinds
  <2>3. TypeOK'
    BY <1>5, <2>1, <2>2 DEF IndInv, TypeOK, SnapshotReproduction, SameRefs,
                            Phases, Terminal
  <2> QED BY <1>5, <2>1, <2>2, <2>3, QuietStep
          DEF SnapshotReproduction, Quiet, Phases, Terminal
<1> QED BY <1>2, <1>3, <1>4, <1>5

(* The planner turns and the evidence refresh keep the invariant. *)
LEMMA PlannerLoop ==
    ASSUME IndInv, Replan \/ PlannerTurnCap \/ RefreshPlanningEvidence
    PROVE  IndInv'
<1> USE DEF bootVars, stepVars, loopVars, endVars, histVars
<1>1. IsRepo(repo) /\ SameRefs(repo, repo)
  BY DEF IndInv, TypeOK, SameRefs
<1>2. CASE Replan
  <2>1. SameRefs(repo, repo')
    BY <1>1, <1>2, LitteredFacts DEF Replan
  <2>2. /\ turns' \in 0 .. MaxPlannerTurns
        /\ phase' \in {"failed", "begin_candidate", "final_verification", "replan"}
        /\ backlog' \in BOOLEAN /\ hitCap' \in BOOLEAN
        /\ crash' \in {"none", "activity", "assertion"}
    <3>1. MaxPlannerTurns \in Nat /\ turns \in 0 .. MaxPlannerTurns
      BY ConfigAssumption DEF IndInv, TypeOK
    <3>2. \E spent \in 1 .. turns : turns' = turns - spent
      BY <1>2 DEF Replan
    <3>3. turns' \in 0 .. MaxPlannerTurns
      BY <3>1, <3>2
    <3>4. /\ phase \in {"replan"} /\ backlog \in BOOLEAN /\ hitCap \in BOOLEAN
          /\ crash \in {"none", "activity", "assertion"}
      BY <1>2 DEF Replan, IndInv, TypeOK
    <3> QED BY <1>2, <3>3, <3>4 DEF Replan
  <2>3. UNCHANGED <<ws, histVars, bootVars, stepVars, last, evidence, endVars>>
        /\ phase = "replan"
    BY <1>2 DEF Replan
  <2>4. TypeOK'
    BY <2>1, <2>2, <2>3 DEF IndInv, TypeOK, IsWorkspace, SameRefs, Phases, Terminal,
                            StepPhases
  <2> QED BY <2>1, <2>2, <2>3, <2>4, QuietStep
          DEF Quiet, Phases, Terminal, StepPhases
<1>3. CASE PlannerTurnCap
  <2>1. TypeOK'
    BY <1>3 DEF IndInv, TypeOK, IsWorkspace, PlannerTurnCap, Phases, Terminal
  <2> QED BY <1>1, <1>3, <2>1, QuietStep DEF PlannerTurnCap, Quiet, Phases, Terminal
<1>4. CASE RefreshPlanningEvidence
  <2>1. SameRefs(repo, repo')
    BY <1>1, <1>4, LitteredFacts DEF RefreshPlanningEvidence
  <2>2. evidence' \in Trees
    BY <1>1, <1>4, DiffTreeType DEF RefreshPlanningEvidence
  <2>3. TypeOK'
    BY <1>4, <2>1, <2>2 DEF IndInv, TypeOK, IsWorkspace, RefreshPlanningEvidence,
                            SameRefs, Phases, Terminal
  <2> QED BY <1>4, <2>1, <2>3, QuietStep
          DEF RefreshPlanningEvidence, Quiet, Phases, Terminal
<1> QED BY <1>2, <1>3, <1>4

(* Concluding a step, whatever its status, keeps the invariant. *)
LEMMA StepConcluded ==
    ASSUME IndInv, AcceptStep \/ ReplanStep \/ RejectStep
    PROVE  IndInv'
<1> USE DEF bootVars, stepVars, loopVars, endVars, histVars
<1>1. IsRepo(repo) /\ SameRefs(repo, repo)
  BY DEF IndInv, TypeOK, SameRefs
<1>2. PICK i \in DOMAIN candidates :
        /\ ConcludeStep(i)
        /\ \/ /\ repo' = SnapshotBase(repo)
              /\ ws' = WorkspaceOf(candidates[i].index, BaseSnapshot(repo))
              /\ accepted' = candidates[i].tree /\ winner' = candidates[i].tree
              /\ UNCHANGED backlog
           \/ /\ ws' = WorkspaceOf(candidates[i].index, ws.base)
              /\ backlog' = (backlog \/ candidates[i].result.issues)
              /\ winner' = candidates[i].tree
              /\ candidates[i].result.status = "needs_replan"
              /\ UNCHANGED <<repo, accepted>>
           \/ UNCHANGED <<repo, ws, histVars, backlog>>
  BY DEF AcceptStep, ReplanStep, RejectStep
<1>3. /\ candidates[i].index \in Nat /\ candidates[i].tree \in Trees
      /\ candidates[i].result \in Results(MaxPassed)
  <2>1. candidates \in Seq([index : Nat, result : Results(MaxPassed), tree : Trees])
    BY DEF IndInv, TypeOK
  <2>2. candidates[i] \in [index : Nat, result : Results(MaxPassed), tree : Trees]
    BY <2>1, SeqElement
  <2> QED BY <2>2
<1>4. /\ candidates[i].result.status \in Statuses
      /\ candidates[i].result.issues \in BOOLEAN
  BY <1>3, ResultStatus DEF Results
<1>5. SameRefs(repo, repo')
  BY <1>1, <1>2, AddAllFacts DEF SnapshotBase, SameRefs
<1>6. ws'.branch \in {ws.branch, candidates[i].index} /\ IsWorkspace(ws')
  BY <1>1, <1>2, <1>3, CommitType, HomeIsNoIndex
     DEF WorkspaceOf, IsWorkspace, BaseSnapshot, IndInv, TypeOK, IsRepo, Kinds
<1>7. /\ phase = "conclude_step" /\ phase' = "refresh_evidence"
      /\ candidates' = <<>> /\ last' = candidates[i].result.status
      /\ UNCHANGED <<crash, bootVars, next, turns, hitCap, evidence, endVars>>
  BY <1>2 DEF ConcludeStep
<1>8. /\ backlog' \in BOOLEAN /\ accepted' \in Trees /\ winner' \in Trees
  BY <1>2, <1>3, <1>4 DEF IndInv, TypeOK
<1>9. TypeOK'
  BY <1>4, <1>5, <1>6, <1>7, <1>8 DEF IndInv, TypeOK, SameRefs, Phases, Terminal
<1> QED BY <1>5, <1>6, <1>7, <1>9, QuietStep DEF Quiet, Phases, Terminal

(* Verification, report and teardown keep the invariant. *)
LEMMA VerificationAndReport ==
    ASSUME IndInv, FinalVerification \/ IntegrationTests \/ BuildFinalReport
                   \/ TeardownEnvironment
    PROVE  IndInv'
<1> USE DEF bootVars, stepVars, loopVars, endVars, histVars
<1>1. IsRepo(repo) /\ SameRefs(repo, repo)
  BY DEF IndInv, TypeOK, SameRefs
<1>2. CASE FinalVerification
  <2>1. SameRefs(repo, repo')
    BY <1>1, <1>2, RestoredFacts DEF FinalVerification
  <2>2. verified' \in [tree : Trees, passed : BOOLEAN]
    BY <1>1, <1>2, RestoredFacts, DiffTreeType DEF FinalVerification, SameRefs
  <2>3. /\ phase = "final_verification"
        /\ phase' \in {"integration_tests", "build_report"}
        /\ UNCHANGED <<crash, ws, histVars, bootVars, stepVars, loopVars, report>>
    BY <1>2 DEF FinalVerification
  <2>4. TypeOK'
    BY <2>1, <2>2, <2>3 DEF IndInv, TypeOK, IsWorkspace, SameRefs, Phases, Terminal
  <2> QED BY <2>1, <2>3, <2>4, QuietStep DEF Quiet, Phases, Terminal
<1>5. CASE IntegrationTests
  <2>1. SameRefs(repo, repo')
    BY <1>1, <1>5, LitteredFacts DEF IntegrationTests
  <2>2. verified' \in [tree : Trees, passed : BOOLEAN]
    BY <1>5 DEF IntegrationTests, IndInv, TypeOK
  <2>3. /\ phase = "integration_tests" /\ phase' = "build_report"
        /\ UNCHANGED <<crash, ws, histVars, bootVars, stepVars, loopVars, report>>
    BY <1>5 DEF IntegrationTests
  <2>4. TypeOK'
    BY <2>1, <2>2, <2>3 DEF IndInv, TypeOK, IsWorkspace, SameRefs, Phases, Terminal
  <2> QED BY <2>1, <2>3, <2>4, QuietStep DEF Quiet, Phases, Terminal
<1>3. CASE BuildFinalReport
  <2>1. report' \in [verdict : Decisions \cup {"none", "blocked"}, patch : Trees]
    BY <1>1, <1>3, DiffTreeType DEF BuildFinalReport
  <2>2. TypeOK'
    BY <1>3, <2>1 DEF IndInv, TypeOK, IsWorkspace, BuildFinalReport, Phases,
                      FinalizePhases
  <2> QED BY <1>1, <1>3, <2>2, QuietStep
          DEF BuildFinalReport, Quiet, Phases, FinalizePhases, Terminal
<1>4. CASE TeardownEnvironment
  <2>1. TypeOK'
    BY <1>4 DEF IndInv, TypeOK, IsWorkspace, TeardownEnvironment, Phases, Terminal
  <2> QED BY <1>1, <1>4, <2>1, QuietStep
          DEF TeardownEnvironment, Quiet, Phases, Terminal
<1> QED BY <1>2, <1>3, <1>4, <1>5
-----------------------------------------------------------------------------
(* Steps that run a candidate: the only ones that create or move a branch *)

(* A candidate gets a new branch, and home is not it. *)
LEMMA CandidateBegins ==
    ASSUME IndInv, BeginStepCandidate
    PROVE  IndInv'
<1> USE DEF bootVars, stepVars, loopVars, endVars, histVars
<1>1. /\ IsRepo(repo) /\ SameRefs(repo, repo)
      /\ next \in Nat /\ next \in Branches /\ ws.base \in Commits
      /\ phase = "begin_candidate"
      /\ UNCHANGED <<ws, histVars, bootVars, stepVars, loopVars, endVars>>
  BY HomeIsNoIndex DEF IndInv, TypeOK, SameRefs, IsWorkspace, BeginStepCandidate
<1>2. CASE phase' = "failed" /\ crash' = "activity" /\ UNCHANGED repo
  <2>1. TypeOK'
    BY <1>1, <1>2 DEF IndInv, TypeOK, IsWorkspace, Phases, Terminal
  <2> QED BY <1>1, <1>2, <2>1, QuietStep DEF Quiet, Phases, Terminal
<1>3. CASE /\ repo' = BeginCandidate(repo, ws, next)
           /\ phase' = "implement" /\ UNCHANGED crash
  <2>1. /\ IsRepo(repo') /\ repo'.head = next
        /\ repo'.refs = SetRef(repo.refs, next, ws.base)
    BY <1>1, <1>3, CheckoutNewFacts DEF BeginCandidate
  <2>2. /\ DOMAIN repo'.refs = DOMAIN repo.refs \cup {next}
        /\ \A x \in DOMAIN repo.refs \ {next} : repo'.refs[x] = repo.refs[x]
    BY <2>1 DEF SetRef
  <2>3. TypeOK'
    <3>1. UNCHANGED <<crash, container, reproduction, ws, turns, backlog, last, next,
                      candidates, evidence, hitCap, verified, report, accepted, winner>>
          /\ phase' \in Phases
      BY <1>1, <1>3 DEF Phases, StepPhases
    <3> QED BY <2>1, <3>1 DEF IndInv, TypeOK, IsWorkspace
  <2>4. HomeUnmoved'
    BY <1>1, <2>2, HomeIsNoIndex DEF IndInv, HomeUnmoved
  <2>5. HeadOnCandidate' /\ HeadAtHome'
    BY <1>1, <1>3, <2>1 DEF HeadOnCandidate, HeadAtHome
  <2>6. BranchesExist'
    BY <1>1, <2>2 DEF IndInv, BranchesExist, Terminal
  <2>7. BranchesBelowNext'
    <3>1. \A b \in DOMAIN repo.refs : b \in Int /\ b < next
      BY <1>1 DEF IndInv, BranchesBelowNext, IsRepo, Branches, Home
    <3> QED BY <1>1, <1>3, <2>2, <3>1 DEF BranchesBelowNext
  <2> QED BY <2>3, <2>4, <2>5, <2>6, <2>7 DEF IndInv
<1> QED BY <1>2, <1>3 DEF BeginStepCandidate

(* The implementer works on the branch of its candidate. *)
LEMMA CandidateImplemented ==
    ASSUME IndInv, Implement
    PROVE  IndInv'
<1> USE DEF bootVars, stepVars, loopVars, endVars, histVars
<1>1. IsRepo(repo) /\ next \in Nat /\ repo.head = next /\ phase = "implement"
  BY DEF IndInv, TypeOK, HeadOnCandidate, Implement
<1>2. /\ SameRefs(repo, repo') /\ phase' = "snapshot_result"
      /\ UNCHANGED <<crash, ws, histVars, bootVars, next, loopVars, endVars>>
  BY <1>1, AgentEditsFacts DEF Implement
<1>3. PICK result \in Results(MaxPassed) :
        candidates' = Append(candidates, Candidate(next, result, repo'.work))
  BY DEF Implement
<1> DEFINE c == Candidate(next, result, repo'.work)
           S == [index : Nat, result : Results(MaxPassed), tree : Trees]
<1>4. c \in S /\ c.index = next
  BY <1>1, <1>2 DEF Candidate, SameRefs, IsRepo
<1>5. candidates \in Seq(S)
  BY DEF IndInv, TypeOK
<1>6. candidates' = Append(candidates, c)
  BY <1>3
<1>7. candidates' \in Seq(S)
  <2> HIDE DEF c, S
  <2> QED BY <1>4, <1>5, <1>6
<1>8. TypeOK'
  BY <1>2, <1>7 DEF IndInv, TypeOK, IsWorkspace, SameRefs, Phases, StepPhases
<1>9. HomeUnmoved' /\ HeadOnCandidate' /\ HeadAtHome'
  BY <1>1, <1>2 DEF IndInv, HomeUnmoved, HeadOnCandidate, HeadAtHome, SameRefs
<1>10. BranchesExist'
  <2>1. /\ ws.branch \in DOMAIN repo.refs /\ next \in DOMAIN repo.refs
        /\ \A i \in DOMAIN candidates : candidates[i].index \in DOMAIN repo.refs
    BY <1>1 DEF IndInv, BranchesExist, Terminal, IsRepo
  <2>2. \A i \in DOMAIN candidates' :
          candidates'[i] = c \/ (i \in DOMAIN candidates /\ candidates'[i] = candidates[i])
    <3> HIDE DEF c, S
    <3> QED BY <1>5, <1>6
  <2> HIDE DEF c
  <2> QED BY <1>2, <1>4, <2>1, <2>2 DEF BranchesExist, SameRefs
<1>11. BranchesBelowNext'
  BY <1>1, <1>2 DEF IndInv, BranchesBelowNext, SameRefs
<1> QED BY <1>8, <1>9, <1>10, <1>11 DEF IndInv

(* The result is committed on the branch of its candidate. *)
LEMMA CandidateSnapshotted ==
    ASSUME IndInv, SnapshotCandidateResult
    PROVE  IndInv'
<1> USE DEF bootVars, stepVars, loopVars, endVars, histVars
<1> DEFINE staged == AddAll(repo)
           c == Commit("result", staged.index)
<1>1. /\ IsRepo(repo) /\ next \in Nat /\ repo.head = next
      /\ phase = "snapshot_result" /\ phase' \in {"reset_to_base", "conclude_step"}
      /\ next' = next + 1
      /\ UNCHANGED <<crash, ws, histVars, bootVars, candidates, loopVars, endVars>>
  BY DEF IndInv, TypeOK, HeadOnCandidate, SnapshotCandidateResult
<1>2. /\ IsRepo(staged) /\ staged.head = next /\ staged.refs = repo.refs
      /\ staged.index \in Trees
  BY <1>1, AddAllFacts DEF IsRepo
<1>3. c \in Commits
  BY <1>2, CommitType DEF Kinds
<1>4. repo' = ResetHard(staged, c)
  BY DEF SnapshotCandidateResult, SnapshotResult
<1> HIDE DEF staged, c
<1>5. /\ IsRepo(repo') /\ repo'.head = staged.head
      /\ repo'.refs = SetRef(staged.refs, staged.head, c)
  BY <1>2, <1>3, <1>4, ResetHardFacts
<1>6. /\ DOMAIN repo'.refs = DOMAIN repo.refs
      /\ Home \in DOMAIN repo.refs => repo'.refs[Home] = repo.refs[Home]
  BY <1>1, <1>2, <1>3, <1>5, ResetAwayFromHome
<1>7. TypeOK'
  BY <1>1, <1>5 DEF IndInv, TypeOK, IsWorkspace, Phases, StepPhases
<1>8. HomeUnmoved' /\ HeadOnCandidate' /\ HeadAtHome'
  BY <1>1, <1>2, <1>5, <1>6 DEF IndInv, HomeUnmoved, HeadOnCandidate, HeadAtHome
<1>9. BranchesExist'
  BY <1>1, <1>6 DEF IndInv, BranchesExist, Terminal
<1>10. BranchesBelowNext'
  <2>1. \A b \in DOMAIN repo.refs : b \in Int /\ b <= next
    BY <1>1 DEF IndInv, BranchesBelowNext, IsRepo, Branches, Home
  <2> QED BY <1>1, <1>6, <2>1 DEF BranchesBelowNext
<1> QED BY <1>7, <1>8, <1>9, <1>10 DEF IndInv

(* The reset moves the branch of the candidate just stored. *)
LEMMA ResetToCandidateBase ==
    ASSUME IndInv, ResetBetweenCandidates
    PROVE  IndInv'
<1> USE DEF bootVars, stepVars, loopVars, endVars, histVars
<1> DEFINE r == ResetHard(repo, ws.base)
<1>1. /\ IsRepo(repo) /\ repo.head \in Nat /\ ws.base \in Commits
      /\ phase = "reset_to_base" /\ phase' = "begin_candidate"
      /\ UNCHANGED <<crash, ws, histVars, bootVars, stepVars, loopVars, endVars>>
  BY DEF IndInv, TypeOK, IsWorkspace, HeadOnCandidate, ResetBetweenCandidates
<1>2. /\ IsRepo(r) /\ r.head = repo.head
      /\ r.refs = SetRef(repo.refs, repo.head, ws.base)
  BY <1>1, ResetHardFacts
<1>3. repo' = Clean(r)
  BY DEF ResetBetweenCandidates, ResetToBase
<1> HIDE DEF r
<1>4. IsRepo(repo') /\ repo'.head = r.head /\ repo'.refs = r.refs
  BY <1>2, <1>3, CleanFacts
<1>5. /\ DOMAIN repo'.refs = DOMAIN repo.refs
      /\ Home \in DOMAIN repo.refs => repo'.refs[Home] = repo.refs[Home]
  BY <1>1, <1>2, <1>4, ResetAwayFromHome
<1>6. TypeOK'
  BY <1>1, <1>4 DEF IndInv, TypeOK, IsWorkspace, Phases, StepPhases
<1>7. HomeUnmoved' /\ HeadOnCandidate' /\ HeadAtHome'
  BY <1>1, <1>5 DEF IndInv, HomeUnmoved, HeadOnCandidate, HeadAtHome
<1>8. BranchesExist' /\ BranchesBelowNext'
  BY <1>1, <1>5 DEF IndInv, BranchesExist, BranchesBelowNext, Terminal
<1> QED BY <1>6, <1>7, <1>8 DEF IndInv
-----------------------------------------------------------------------------
(* Finalization and failure *)

(* Finalization goes home, and only then deletes branches. *)
LEMMA Finalized ==
    ASSUME IndInv, FinalizeWinner \/ DeleteCandidateBranches
    PROVE  IndInv'
<1> USE DEF bootVars, stepVars, loopVars, endVars, histVars
<1>1. IsRepo(repo) /\ SameRefs(repo, repo)
  BY DEF IndInv, TypeOK, SameRefs
<1>2. UNCHANGED <<crash, ws, histVars, bootVars, stepVars, loopVars, endVars>>
  BY DEF FinalizeWinner, DeleteCandidateBranches, FinalizeStep
<1>3. ASSUME IsRepo(repo'), phase' \in Phases
      PROVE  TypeOK'
  BY <1>2, <1>3 DEF IndInv, TypeOK, IsWorkspace
<1>4. CASE FinalizeStep("discard", "return_home", DiscardUncommitted(repo))
  <2>1. SameRefs(repo, repo') /\ phase = "discard" /\ phase' = "return_home"
    BY <1>1, <1>4, DiscardFacts DEF FinalizeStep
  <2>2. TypeOK'
    BY <1>3, <2>1 DEF SameRefs, Phases, FinalizePhases
  <2> QED BY <1>2, <2>1, <2>2, QuietStep DEF Quiet, Phases, FinalizePhases, Terminal
<1>5. CASE FinalizeStep("return_home", "apply_winner", ReturnHome(repo))
  <2>1. phase = "return_home" /\ phase' = "apply_winner" /\ Home \in DOMAIN repo.refs
    BY <1>5 DEF FinalizeStep, IndInv, HomeUnmoved
  <2>2. IsRepo(repo') /\ repo'.head = Home /\ repo'.refs = repo.refs
    BY <1>1, <1>5, <2>1, CheckoutBranchFacts DEF FinalizeStep, ReturnHome
  <2>3. TypeOK'
    BY <1>3, <2>1, <2>2 DEF Phases, FinalizePhases
  <2> QED BY <1>2, <2>1, <2>2, <2>3
          DEF IndInv, HomeUnmoved, HeadOnCandidate, HeadAtHome, BranchesExist,
              BranchesBelowNext, Terminal
<1>6. CASE FinalizeStep("apply_winner", "unstage", ApplyWinner(repo, ws.branch))
  <2>1. /\ phase = "apply_winner" /\ phase' = "unstage" /\ repo.head = Home
        /\ ws.branch \in DOMAIN repo.refs
    BY <1>6 DEF FinalizeStep, IndInv, HeadAtHome, BranchesExist, Terminal
  <2>2. repo.refs[ws.branch].tree \in Trees
    BY <1>1, <2>1 DEF IsRepo, Commits
  <2>3. repo' = CheckoutPaths(repo, repo.refs[ws.branch].tree, Files)
    BY <1>6 DEF FinalizeStep, ApplyWinner
  <2>4. IsRepo(repo') /\ repo'.head = Home /\ repo'.refs = repo.refs
    BY <1>1, <2>1, <2>2, <2>3, CheckoutPathsFacts
  <2>5. TypeOK'
    BY <1>3, <2>1, <2>4 DEF Phases, FinalizePhases
  <2> QED BY <1>2, <2>1, <2>4, <2>5
          DEF IndInv, HomeUnmoved, HeadOnCandidate, HeadAtHome, BranchesExist,
              BranchesBelowNext, Terminal
<1>7. CASE FinalizeStep("unstage",
                        IF CleanupBranches THEN "delete_branches" ELSE "teardown",
                        Unstage(repo))
  <2>1. /\ phase = "unstage" /\ phase' \in {"delete_branches", "teardown"}
        /\ repo.head = Home
    BY <1>7 DEF FinalizeStep, IndInv, HeadAtHome
  <2>2. IsRepo(repo') /\ repo'.head = Home /\ repo'.refs = repo.refs
    BY <1>1, <1>7, <2>1, ResetMixedFacts DEF FinalizeStep, Unstage
  <2>3. TypeOK'
    BY <1>3, <2>1, <2>2 DEF Phases, FinalizePhases
  <2> QED BY <1>2, <2>1, <2>2, <2>3
          DEF IndInv, HomeUnmoved, HeadOnCandidate, HeadAtHome, BranchesExist,
              BranchesBelowNext, Terminal
<1>8. CASE DeleteCandidateBranches
  <2>1. PICK b : /\ \/ b \in CandidateBranches(repo) /\ repo' = DeleteBranch(repo, b)
                    \/ repo' = repo
                 /\ phase = "delete_branches"
                 /\ phase' \in {"delete_branches", "teardown"}
    BY <1>8 DEF DeleteCandidateBranches, FinalizeStep
  <2>2. repo.head = Home
    BY <2>1 DEF IndInv, HeadAtHome
  <2>3. /\ IsRepo(repo') /\ repo'.head = Home
        /\ DOMAIN repo'.refs \subseteq DOMAIN repo.refs
        /\ Home \in DOMAIN repo.refs =>
             Home \in DOMAIN repo'.refs /\ repo'.refs[Home] = repo.refs[Home]
    BY <1>1, <2>1, <2>2, DeleteBranchFacts DEF CandidateBranches
  <2>4. TypeOK'
    BY <1>3, <2>1, <2>3 DEF Phases, FinalizePhases
  <2> QED BY <1>2, <2>1, <2>3, <2>4
          DEF IndInv, HomeUnmoved, HeadOnCandidate, HeadAtHome, BranchesExist,
              BranchesBelowNext, Terminal
<1> QED BY <1>4, <1>5, <1>6, <1>7, <1>8 DEF FinalizeWinner

(* Wherever an activity stops half-way, the user's branch is where it was. *)
LEMMA Failed ==
    ASSUME IndInv, ActivityFails
    PROVE  IndInv'
<1> USE DEF bootVars, stepVars, loopVars, endVars, histVars
<1>1. /\ IsRepo(repo) /\ SameRefs(repo, repo) /\ ws.base \in Commits
      /\ phase' = "failed" /\ crash' = "activity" /\ repo' \in Interrupted(repo)
      /\ UNCHANGED <<ws, histVars, bootVars, stepVars, loopVars, endVars>>
  BY DEF IndInv, TypeOK, IsWorkspace, SameRefs, ActivityFails
<1>2. /\ IsRepo(repo')
      /\ Home \in DOMAIN repo.refs =>
           Home \in DOMAIN repo'.refs /\ repo'.refs[Home] = repo.refs[Home]
  <2>1. CASE SameRefs(repo, repo')
    BY <2>1 DEF SameRefs
  <2>2. CASE phase = "reset_to_base" /\ repo' = ResetHard(repo, ws.base)
    <3>1. repo.head \in Nat
      BY <2>2 DEF IndInv, HeadOnCandidate
    <3>2. /\ IsRepo(repo') /\ repo'.head = repo.head
          /\ repo'.refs = SetRef(repo.refs, repo.head, ws.base)
      BY <1>1, <2>2, ResetHardFacts
    <3> QED BY <1>1, <3>1, <3>2, ResetAwayFromHome
  <2>3. repo' \in Edited(repo) => SameRefs(repo, repo')
    BY <1>1, EditedFacts
  <2>4. SameRefs(repo, AddAll(repo)) /\ SameRefs(repo, ResetHard(repo, repo.refs[repo.head]))
    BY <1>1, AddAllFacts, DiscardFacts DEF SameRefs
  <2>5. repo' \in Littered(repo) \cup Littered(RestoredRepo) => SameRefs(repo, repo')
    BY <1>1, LitteredFacts, RestoredFacts
  <2> QED BY <1>1, <2>1, <2>2, <2>3, <2>4, <2>5 DEF Interrupted
<1>3. TypeOK'
  BY <1>1, <1>2 DEF IndInv, TypeOK, IsWorkspace, Phases, Terminal
<1> QED BY <1>1, <1>2, <1>3
        DEF IndInv, HomeUnmoved, HeadOnCandidate, HeadAtHome, BranchesExist,
            BranchesBelowNext, Terminal
-----------------------------------------------------------------------------
(* Every step keeps the invariant. *)
LEMMA NextInd == IndInv /\ [Next]_vars => IndInv'
<1> SUFFICES ASSUME IndInv, [Next]_vars PROVE IndInv'
  OBVIOUS
<1>1. CASE WorkflowStep
  BY <1>1, Bootstrap, PlannerLoop, StepConcluded, VerificationAndReport,
     CandidateBegins, CandidateImplemented, CandidateSnapshotted,
     ResetToCandidateBase, Finalized DEF WorkflowStep
<1>2. CASE ActivityFails
  BY <1>2, Failed
<1>3. CASE UNCHANGED vars
  BY <1>3 DEF vars, bootVars, stepVars, loopVars, endVars, histVars, IndInv, TypeOK,
     IsWorkspace, HomeUnmoved, HeadOnCandidate, HeadAtHome, BranchesExist,
     BranchesBelowNext
<1> QED BY <1>1, <1>2, <1>3 DEF Next, Finished

(* The strengthening holds in every reachable state. *)
THEOREM Invariance == Spec => []IndInv
BY InitInd, NextInd, PTL DEF Spec

(* Every variable keeps its type, the repository its shape: HEAD names a   *)
(* branch that exists, through every checkout, reset and branch deletion.  *)
THEOREM TypeCorrect == Spec => []TypeOK
<1>1. IndInv => TypeOK
  BY DEF IndInv
<1> QED BY <1>1, Invariance, PTL

(* The user's branch never moves, whatever the candidates do and wherever  *)
(* the run fails: no hard reset ever finds HEAD at home, except the one    *)
(* that resets to HEAD itself.                                             *)
THEOREM UserBranchUnmoved == Spec => []HomeUnmoved
<1>1. IndInv => HomeUnmoved
  BY DEF IndInv
<1> QED BY <1>1, Invariance, PTL

(* checkout -B never re-points the branch of an earlier candidate. *)
THEOREM FreshBranches == Spec => []CandidateBranchFresh
<1>1. IndInv => CandidateBranchFresh
  <2> SUFFICES ASSUME IndInv, phase \in {"begin_candidate", "reset_to_base"}
               PROVE  next \notin DOMAIN repo.refs
    BY DEF CandidateBranchFresh
  <2>1. next \in Nat
    BY DEF IndInv, TypeOK
  <2>2. \A b \in DOMAIN repo.refs : b < next
    BY DEF IndInv, BranchesBelowNext
  <2> QED BY <2>1, <2>2
<1> QED BY <1>1, Invariance, PTL
-----------------------------------------------------------------------------
(* Every candidate starts from the tracked files of the candidate base,    *)
(* and from nothing else when nothing is littered                          *)

CleanPhases == {"build_repo_index", "plan_reproduction", "replan", "begin_candidate",
                "conclude_step", "refresh_evidence", "reset_to_base"}

(* Every tracked file is in the tree as it is in the index, and no file is *)
(* untracked when nothing is littered.                                     *)
Staged(r) ==
    /\ \A f \in Files : r.index[f] # Absent => r.work[f] = r.index[f]
    /\ Litter = "none" => r.work = r.index

(* Between candidates the tree is fully staged or committed, and the index *)
(* holds what HEAD holds or what the candidate base holds: checkout -B     *)
(* finds no tracked file it must leave alone.                              *)
CleanInv ==
    phase \in CleanPhases =>
        /\ Staged(repo)
        /\ repo.index = HeadTree(repo) \/ repo.index = ws.base.tree

(* Litter short of "any" leaves HEAD, index and tracked files alone. *)
LEMMA LitterIsUntracked ==
    ASSUME Litter # "any", NEW r, IsRepo(r), NEW s \in Littered(r)
    PROVE  /\ s.index = r.index /\ HeadTree(s) = HeadTree(r)
           /\ Staged(r) => Staged(s)
<1>1. CASE Litter = "none"
  BY <1>1 DEF Littered
<1>2. CASE Litter = "untracked"
  <2>1. PICK w \in Trees : /\ s = Repo(r.head, r.refs, r.index, w)
                           /\ \A f \in Files : r.index[f] # Absent => w[f] = r.work[f]
    BY <1>2 DEF Littered, Edited, Repo
  <2>2. s.index = r.index /\ s.work = w /\ s.head = r.head /\ s.refs = r.refs
    BY <2>1 DEF Repo
  <2> QED BY <1>2, <2>1, <2>2 DEF Staged, HeadTree
<1> QED BY <1>1, <1>2, ConfigAssumption

(* A result snapshot leaves nothing uncommitted. *)
LEMMA ResultSnapshotIsClean ==
    ASSUME NEW r, IsRepo(r)
    PROVE  LET s == SnapshotResult(r)
           IN  s.work = s.index /\ s.index = HeadTree(s)
<1> DEFINE staged == AddAll(r)
           c == Commit("result", staged.index)
           s == ResetHard(staged, c)
<1>1. staged.index = r.work /\ staged.work = r.work /\ r.work \in Trees
  BY AddAllFacts DEF IsRepo
<1>2. c.tree = r.work
  BY <1>1 DEF Commit
<1>3. s.index = r.work /\ s.refs[s.head] = c
  BY <1>2 DEF ResetHard, Repo, SetRef
<1>4. s.work = [f \in Files |-> IF staged.index[f] = Absent /\ c.tree[f] = Absent
                                THEN staged.work[f] ELSE c.tree[f]]
  BY DEF ResetHard, Repo
<1>5. s.work = [f \in Files |-> r.work[f]]
  <2> HIDE DEF staged, c, s
  <2> QED BY <1>1, <1>2, <1>4
<1>6. s.work = r.work
  BY <1>1, <1>5 DEF Trees
<1> QED BY <1>2, <1>3, <1>6 DEF SnapshotResult, HeadTree

(* reset --hard and clean reach the base from any tree. *)
LEMMA ResetReachesBase ==
    ASSUME NEW r, NEW w, IsWorkspace(w)
    PROVE  LET s == ResetToBase(r, w)
           IN  s.work = w.base.tree /\ s.index = w.base.tree
<1> DEFINE t == w.base.tree
           h == ResetHard(r, w.base)
           s == Clean(h)
<1>1. t \in Trees
  BY DEF IsWorkspace, Commits
<1>2. /\ h.index = t
      /\ h.work = [f \in Files |-> IF r.index[f] = Absent /\ t[f] = Absent
                                    THEN r.work[f] ELSE t[f]]
  BY DEF ResetHard, Repo
<1>3. /\ s.index = h.index
      /\ s.work = [f \in Files |-> IF h.index[f] = Absent THEN Absent ELSE h.work[f]]
  BY DEF Clean, Repo
<1>4. s.work = [f \in Files |-> t[f]]
  <2> HIDE DEF t, h, s
  <2> QED BY <1>2, <1>3
<1>5. s.work = t
  <2> HIDE DEF s
  <2> QED BY <1>1, <1>4 DEF Trees
<1> QED BY <1>2, <1>3, <1>5 DEF ResetToBase

(* From such a tree, checkout -B reaches its commit. *)
LEMMA CheckoutReachesBase ==
    ASSUME NEW r, IsRepo(r), NEW k, NEW c \in Commits,
           Staged(r), r.index = HeadTree(r) \/ r.index = c.tree
    PROVE  LET s == CheckoutNew(r, k, c)
           IN  /\ s.index = c.tree
               /\ \A f \in Files : c.tree[f] # Absent => s.work[f] = c.tree[f]
               /\ Litter = "none" => s.work = c.tree
<1> DEFINE t == c.tree
           s == CheckoutNew(r, k, c)
<1>1. t \in Trees
  BY DEF Commits
<1>2. /\ s.index = [f \in Files |-> IF Moves(r, f, t) THEN t[f] ELSE r.index[f]]
      /\ s.work = [f \in Files |-> IF Moves(r, f, t) THEN t[f] ELSE r.work[f]]
  BY DEF CheckoutNew, Switch, Repo
<1>3. \A f \in Files : ~Moves(r, f, t) => r.index[f] = t[f]
  BY DEF Moves
<1>4. s.index = t
  <2> HIDE DEF t, s
  <2>1. s.index = [f \in Files |-> t[f]]
    BY <1>2, <1>3
  <2> QED BY <1>1, <2>1 DEF Trees
<1>5. ASSUME NEW f \in Files, t[f] # Absent PROVE s.work[f] = t[f]
  <2> HIDE DEF t, s
  <2> QED BY <1>2, <1>3, <1>5 DEF Staged
<1>6. ASSUME Litter = "none" PROVE s.work = t
  <2> HIDE DEF t, s
  <2>1. r.work = r.index
    BY <1>6 DEF Staged
  <2>2. s.work = [f \in Files |-> t[f]]
    BY <1>2, <1>3, <2>1
  <2> QED BY <1>1, <2>2 DEF Trees
<1> QED BY <1>4, <1>5, <1>6

(* The run does not start in one of the clean phases. *)
LEMMA CleanInit == Init => CleanInv
BY DEF Init, CleanInv, CleanPhases

(* Every step keeps the tree clean between candidates. *)
LEMMA CleanStep ==
    ASSUME Litter # "any", IndInv, CleanInv, [Next]_vars
    PROVE  CleanInv'
<1> USE DEF bootVars, stepVars, loopVars, endVars, histVars, CleanPhases
<1>1. IsRepo(repo) /\ IsWorkspace(ws)
  BY DEF IndInv, TypeOK
<1>2. ASSUME UNCHANGED <<repo, ws>>,
             phase \in CleanPhases \/ phase' \notin CleanPhases
      PROVE  CleanInv'
  BY <1>2 DEF CleanInv
<1>3. ASSUME phase' \notin CleanPhases
      PROVE  CleanInv'
  BY <1>3 DEF CleanInv
<1>4. CASE SetupEnvironment
  BY <1>3, <1>4 DEF SetupEnvironment, CleanInv, IsClean, Staged
<1>5. CASE BuildContract \/ BuildRepoIndex \/ Reproduce \/ PlannerTurnCap
  BY <1>2, <1>3, <1>5 DEF BuildContract, BuildRepoIndex, Reproduce, PlannerTurnCap
<1>16. ASSUME UNCHANGED ws, repo' \in Littered(repo) \/ repo' = repo,
              phase \in CleanPhases
       PROVE  CleanInv'
  BY <1>1, <1>16, LitterIsUntracked DEF CleanInv
<1>17. CASE PlanReproduction \/ Replan
  BY <1>16, <1>17 DEF PlanReproduction, Replan
<1>6. CASE SnapshotReproduction
  <2>1. /\ repo' = AddAll(repo)
        /\ ws'.base.tree = repo.work
    BY <1>6 DEF SnapshotReproduction, SnapshotBase, WorkspaceOf, BaseSnapshot, Commit
  <2> QED BY <1>1, <2>1, AddAllFacts DEF CleanInv, Staged
<1>7. CASE BeginStepCandidate \/ Implement
  BY <1>3, <1>7 DEF BeginStepCandidate, Implement
<1>8. CASE SnapshotCandidateResult
  BY <1>1, <1>8, ResultSnapshotIsClean DEF SnapshotCandidateResult, CleanInv, Staged
<1>9. CASE ResetBetweenCandidates
  <2>1. repo' = ResetToBase(repo, ws) /\ ws' = ws
    BY <1>9 DEF ResetBetweenCandidates
  <2> QED BY <1>1, <2>1, ResetReachesBase DEF CleanInv, Staged
<1>10. CASE AcceptStep
  <2>1. repo' = AddAll(repo) /\ ws'.base.tree = repo.work
    BY <1>10 DEF AcceptStep, SnapshotBase, WorkspaceOf, BaseSnapshot, Commit
  <2> QED BY <1>1, <2>1, AddAllFacts DEF CleanInv, Staged
<1>11. CASE ReplanStep
  <2>1. repo' = repo /\ ws'.base = ws.base /\ phase = "conclude_step"
    BY <1>11 DEF ReplanStep, ConcludeStep, WorkspaceOf
  <2> QED BY <2>1 DEF CleanInv
<1>12. CASE RejectStep
  BY <1>2, <1>12 DEF RejectStep, ConcludeStep
<1>13. CASE RefreshPlanningEvidence
  BY <1>13, <1>16 DEF RefreshPlanningEvidence
<1>14. CASE FinalVerification \/ IntegrationTests \/ BuildFinalReport
            \/ FinalizeWinner \/ DeleteCandidateBranches \/ TeardownEnvironment
            \/ ActivityFails
  BY <1>3, <1>14 DEF FinalVerification, IntegrationTests, BuildFinalReport, FinalizeWinner, FinalizeStep,
     DeleteCandidateBranches, TeardownEnvironment, ActivityFails
<1>15. CASE UNCHANGED vars
  BY <1>15 DEF vars, CleanInv
<1> QED BY <1>4, <1>5, <1>6, <1>7, <1>8, <1>9, <1>10, <1>11, <1>12, <1>13, <1>14, <1>15, <1>17
        DEF Next, WorkflowStep, Finished

(* A candidate begins with the index of the base, the tracked files of the *)
(* base, and with no other file when there is no litter.                   *)
LEMMA CandidateBase ==
    ASSUME IndInv, CleanInv, Next, phase = "begin_candidate", phase' = "implement"
    PROVE  /\ repo'.index = ws.base.tree
           /\ \A f \in Files : ws.base.tree[f] # Absent => repo'.work[f] = ws.base.tree[f]
           /\ Litter = "none" => repo'.work = ws.base.tree
<1>1. BeginStepCandidate
  BY DEF Next, WorkflowStep, Finished, Terminal, BuildContract, SetupEnvironment,
     BuildRepoIndex, PlanReproduction, Reproduce, SnapshotReproduction, Replan,
     PlannerTurnCap, Implement, SnapshotCandidateResult, ResetBetweenCandidates,
     AcceptStep, ReplanStep, RejectStep, ConcludeStep, RefreshPlanningEvidence,
     FinalVerification, IntegrationTests, BuildFinalReport, FinalizeWinner,
     FinalizeStep, DeleteCandidateBranches, TeardownEnvironment, ActivityFails
<1>2. repo' = CheckoutNew(repo, next, ws.base)
  BY <1>1 DEF BeginStepCandidate, BeginCandidate
<1>3. /\ IsRepo(repo) /\ ws.base \in Commits
      /\ Staged(repo)
      /\ repo.index = HeadTree(repo) \/ repo.index = ws.base.tree
  BY DEF IndInv, TypeOK, IsWorkspace, CleanInv, CleanPhases
<1> QED BY <1>2, <1>3, CheckoutReachesBase

(* When planner tools and test runs leave no files behind, every candidate *)
(* of every step is handed exactly the tree of the candidate base.         *)
THEOREM CandidatesStartFromBase ==
    ASSUME Litter = "none"
    PROVE  Spec => CandidateStartsFromBase
<1>1. IndInv /\ CleanInv /\ [Next]_vars
      => [phase = "begin_candidate" /\ phase' = "implement" =>
            repo'.work = ws.base.tree /\ repo'.index = ws.base.tree]_vars
  BY CandidateBase
<1>2. IndInv /\ CleanInv /\ [Next]_vars => CleanInv'
  BY CleanStep
<1> QED BY <1>1, <1>2, CleanInit, Invariance, PTL DEF Spec, CandidateStartsFromBase

(* When they leave untracked files only, it is handed the index and every  *)
(* tracked file of the candidate base.                                     *)
THEOREM CandidatesStartFromTrackedBase ==
    ASSUME Litter # "any"
    PROVE  Spec => TrackedFilesFromBase
<1>1. IndInv /\ CleanInv /\ [Next]_vars
      => [phase = "begin_candidate" /\ phase' = "implement" =>
            /\ repo'.index = ws.base.tree
            /\ \A f \in Files :
                 ws.base.tree[f] # Absent => repo'.work[f] = ws.base.tree[f]]_vars
  BY CandidateBase
<1>2. IndInv /\ CleanInv /\ [Next]_vars => CleanInv'
  BY CleanStep
<1> QED BY <1>1, <1>2, CleanInit, Invariance, PTL DEF Spec, TrackedFilesFromBase
-----------------------------------------------------------------------------
(* How many candidates a step has, and which one it selects *)

(* A step that is about to begin a further candidate wants one, and no     *)
(* step has more candidates than it wants.                                 *)
WithinTarget ==
    /\ phase \in {"begin_candidate", "implement", "reset_to_base"} /\ candidates # <<>> =>
         Len(candidates) < TargetCount(candidates[1])
    /\ Len(candidates) > 1 => Len(candidates) <= TargetCount(candidates[1])

(* Where there is a candidate, and where there is none. *)
Listed ==
    /\ phase \in {"snapshot_result", "reset_to_base", "conclude_step"} => candidates # <<>>
    /\ phase \notin StepPhases \cup {"failed"} => candidates = <<>>

(* Candidates carry rising indices that the counter has handed out. *)
Indexed ==
    /\ phase # "failed" => \A i \in DOMAIN candidates :
         \/ candidates[i].index < next
         \/ phase = "snapshot_result" /\ candidates[i].index = next
    /\ \A i, j \in DOMAIN candidates : i < j => candidates[i].index < candidates[j].index

StepInv == WithinTarget /\ Listed /\ Indexed

(* A candidate as the list holds it. *)
ListedCandidate == [index : Nat, result : Results(MaxPassed), tree : Trees]

(* The target of a candidate is a number. *)
LEMMA TargetType ==
    ASSUME NEW c \in ListedCandidate
    PROVE  TargetCount(c) \in Int
<1>1. c.result.confidence \in Confidences
  BY DEF ListedCandidate, Results, Confidences
<1> QED BY <1>1, ConfigAssumption DEF TargetCount

LEMMA StepInit == Init => StepInv
BY DEF Init, StepInv, WithinTarget, Listed, Indexed, StepPhases

(* One more candidate, with the index the counter stands at. *)
LEMMA StepImplemented ==
    ASSUME IndInv, StepInv, Implement
    PROVE  StepInv'
<1> USE DEF bootVars, stepVars, loopVars, endVars, histVars
<1>1. PICK c \in ListedCandidate :
        candidates' = Append(candidates, c) /\ c.index = next
  <2>1. PICK result \in Results(MaxPassed) :
          candidates' = Append(candidates, Candidate(next, result, repo'.work))
    BY DEF Implement
  <2>2. repo'.work \in Trees /\ next \in Nat
    <3>1. IsRepo(repo) /\ next \in Nat /\ repo' \in AgentEdits(repo, reproduction)
      BY DEF IndInv, TypeOK, Implement
    <3> QED BY <3>1, AgentEditsFacts DEF SameRefs, IsRepo
  <2>3. /\ Candidate(next, result, repo'.work) \in ListedCandidate
        /\ Candidate(next, result, repo'.work).index = next
    BY <2>2 DEF Candidate, ListedCandidate
  <2> QED BY <2>1, <2>3
<1>2. /\ candidates \in Seq(ListedCandidate) /\ next \in Nat /\ next' = next
      /\ phase = "implement" /\ phase' = "snapshot_result"
  BY DEF IndInv, TypeOK, ListedCandidate, Implement
<1>3. /\ Len(candidates') = Len(candidates) + 1 /\ Len(candidates) \in Nat
      /\ \A i \in DOMAIN candidates : candidates'[i] = candidates[i]
      /\ candidates'[Len(candidates) + 1] = c
      /\ DOMAIN candidates' = 1 .. Len(candidates) + 1
      /\ DOMAIN candidates = 1 .. Len(candidates)
  BY <1>1, <1>2
<1>4. Len(candidates') > 1 => Len(candidates') <= TargetCount(candidates'[1])
  <2> SUFFICES ASSUME Len(candidates') > 1
               PROVE  Len(candidates') <= TargetCount(candidates'[1])
    OBVIOUS
  <2>1. candidates # <<>> /\ 1 \in DOMAIN candidates /\ candidates[1] \in ListedCandidate
    BY <1>2, <1>3
  <2>2. candidates'[1] = candidates[1] /\ Len(candidates) < TargetCount(candidates[1])
    BY <1>2, <1>3, <2>1 DEF StepInv, WithinTarget
  <2>3. TargetCount(candidates[1]) \in Int
    BY <2>1, TargetType
  <2> QED BY <1>3, <2>2, <2>3
<1>5. \A i \in DOMAIN candidates : candidates[i].index \in Nat /\ candidates[i].index < next
  <2>1. \A i \in DOMAIN candidates : candidates[i] \in ListedCandidate
    BY <1>2
  <2>2. \A i \in DOMAIN candidates : candidates[i].index < next
    BY <1>2 DEF StepInv, Indexed
  <2> QED BY <2>1, <2>2 DEF ListedCandidate
<1>6. \A i \in DOMAIN candidates' : candidates'[i].index < next \/ candidates'[i].index = next
  BY <1>1, <1>3, <1>5
<1>7. \A i, j \in DOMAIN candidates' : i < j => candidates'[i].index < candidates'[j].index
  BY <1>1, <1>3, <1>5 DEF StepInv, Indexed
<1>8. candidates' # <<>>
  BY <1>1, <1>2
<1>9. \A i \in DOMAIN candidates' :
        \/ candidates'[i].index < next'
        \/ phase' = "snapshot_result" /\ candidates'[i].index = next'
  BY <1>2, <1>6
<1>10. WithinTarget'
  BY <1>2, <1>4 DEF WithinTarget
<1>11. Listed'
  BY <1>2, <1>8 DEF Listed, StepPhases
<1>12. Indexed'
  BY <1>7, <1>9 DEF Indexed
<1> QED BY <1>10, <1>11, <1>12 DEF StepInv

LEMMA StepSnapshotted ==
    ASSUME IndInv, StepInv, SnapshotCandidateResult
    PROVE  StepInv'
<1>1. /\ candidates' = candidates /\ next' = next + 1 /\ next \in Nat
      /\ phase = "snapshot_result" /\ phase' \in {"reset_to_base", "conclude_step"}
      /\ phase' = "reset_to_base" => Len(candidates) < TargetCount(candidates[1])
  BY DEF SnapshotCandidateResult, IndInv, TypeOK
<1>2. candidates \in Seq(ListedCandidate)
  BY DEF IndInv, TypeOK, ListedCandidate
<1>3. \A i \in DOMAIN candidates : candidates[i].index \in Nat
  <2>1. \A i \in DOMAIN candidates : candidates[i] \in ListedCandidate
    BY <1>2
  <2> QED BY <2>1 DEF ListedCandidate
<1>4. \A i \in DOMAIN candidates : candidates[i].index < next'
  BY <1>1, <1>3 DEF StepInv, Indexed
<1>5. \A i \in DOMAIN candidates' :
        \/ candidates'[i].index < next'
        \/ phase' = "snapshot_result" /\ candidates'[i].index = next'
  BY <1>1, <1>4
<1>6. \A i, j \in DOMAIN candidates' : i < j => candidates'[i].index < candidates'[j].index
  BY <1>1 DEF StepInv, Indexed
<1>7. candidates' # <<>> /\ (Len(candidates') > 1 => Len(candidates') <= TargetCount(candidates'[1]))
  BY <1>1 DEF StepInv, WithinTarget, Listed
<1>8. WithinTarget'
  BY <1>1, <1>7 DEF WithinTarget
<1>9. Listed'
  BY <1>1, <1>7 DEF Listed, StepPhases
<1>10. Indexed'
  BY <1>5, <1>6 DEF Indexed
<1> QED BY <1>8, <1>9, <1>10 DEF StepInv

LEMMA StepConcludes ==
    ASSUME StepInv, AcceptStep \/ ReplanStep \/ RejectStep
    PROVE  StepInv'
<1>1. candidates' = <<>> /\ phase' = "refresh_evidence" /\ next' = next
  BY DEF AcceptStep, ReplanStep, RejectStep, ConcludeStep
<1> QED BY <1>1 DEF StepInv, WithinTarget, Listed, Indexed, StepPhases

(* Everything else leaves the list alone. *)
LEMMA StepElsewhere ==
    ASSUME IndInv, StepInv, [Next]_vars, candidates' = candidates, next' = next,
           ~SnapshotCandidateResult, ~Implement
    PROVE  StepInv'
<1> USE DEF bootVars, stepVars, loopVars, endVars, histVars
<1>1. CASE ResetBetweenCandidates \/ BeginStepCandidate
  BY <1>1 DEF StepInv, WithinTarget, Listed, Indexed, StepPhases,
     ResetBetweenCandidates, BeginStepCandidate
<1>2. CASE phase' = "failed"
  BY <1>2 DEF StepInv, WithinTarget, Listed, Indexed
<1>3. CASE UNCHANGED vars
  BY <1>3 DEF StepInv, WithinTarget, Listed, Indexed, vars
<1>4. CASE \/ BuildContract \/ SetupEnvironment \/ BuildRepoIndex \/ PlanReproduction
           \/ Reproduce \/ SnapshotReproduction \/ Replan \/ PlannerTurnCap
           \/ RefreshPlanningEvidence \/ FinalVerification \/ IntegrationTests
           \/ BuildFinalReport \/ FinalizeWinner \/ DeleteCandidateBranches
           \/ TeardownEnvironment
  <2>1. phase \notin StepPhases \cup {"failed"}
    BY <1>4 DEF StepPhases, BuildContract, SetupEnvironment, BuildRepoIndex, PlanReproduction,
       Reproduce, SnapshotReproduction, Replan, PlannerTurnCap, RefreshPlanningEvidence,
       FinalVerification, IntegrationTests, BuildFinalReport, FinalizeWinner, FinalizeStep,
       DeleteCandidateBranches, TeardownEnvironment
  <2>2. candidates = <<>>
    BY <2>1 DEF StepInv, Listed
  <2>3. phase' \notin {"snapshot_result", "reset_to_base", "conclude_step"}
    BY <1>4 DEF BuildContract, SetupEnvironment, BuildRepoIndex, PlanReproduction,
       Reproduce, SnapshotReproduction, Replan, PlannerTurnCap, RefreshPlanningEvidence,
       FinalVerification, IntegrationTests, BuildFinalReport, FinalizeWinner, FinalizeStep,
       DeleteCandidateBranches, TeardownEnvironment
  <2> QED BY <2>2, <2>3 DEF StepInv, WithinTarget, Listed, Indexed
<1>5. CASE AcceptStep \/ ReplanStep \/ RejectStep
  BY <1>5, StepConcludes
<1> QED BY <1>1, <1>2, <1>3, <1>4, <1>5 DEF Next, WorkflowStep, ActivityFails, Finished

LEMMA StepStep ==
    ASSUME IndInv, StepInv, [Next]_vars
    PROVE  StepInv'
<1> USE DEF bootVars, stepVars, loopVars, endVars, histVars
<1>1. CASE Implement
  BY <1>1, StepImplemented
<1>2. CASE SnapshotCandidateResult
  BY <1>2, StepSnapshotted
<1>3. CASE AcceptStep \/ ReplanStep \/ RejectStep
  BY <1>3, StepConcludes
<1>4. CASE ~(Implement \/ SnapshotCandidateResult \/ AcceptStep \/ ReplanStep \/ RejectStep)
  <2>1. candidates' = candidates /\ next' = next
    BY <1>4 DEF Next, WorkflowStep, vars,
       BuildContract, SetupEnvironment, BuildRepoIndex, PlanReproduction,
       Reproduce, SnapshotReproduction, Replan, PlannerTurnCap, BeginStepCandidate,
       ResetBetweenCandidates, RefreshPlanningEvidence,
       FinalVerification, IntegrationTests, BuildFinalReport, FinalizeWinner, FinalizeStep,
       DeleteCandidateBranches, TeardownEnvironment, ActivityFails, Finished
  <2> QED BY <1>4, <2>1, StepElsewhere
<1> QED BY <1>1, <1>2, <1>3, <1>4

LEMMA StepInvariance == Spec => [](IndInv /\ StepInv)
<1>1. Init => IndInv /\ StepInv
  BY InitInd, StepInit
<1>2. IndInv /\ StepInv /\ [Next]_vars => (IndInv /\ StepInv)'
  BY NextInd, StepStep
<1> QED BY <1>1, <1>2, PTL DEF Spec

(* A non-empty set of numbers has a least one. *)
LEMMA LeastNumber ==
    ASSUME NEW T \in SUBSET Nat, T # {}
    PROVE  \E x \in T : \A y \in T : x <= y
<1> DEFINE Below == OpToRel(<, Nat)
<1>1. IsWellFoundedOn(Below, Nat)
  BY NatLessThanWellFounded
<1>2. \A x, y \in Nat : y < x => <<y, x>> \in Below
  BY DEF OpToRel
<1> HIDE DEF Below
<1>3. PICK x \in T : \A y \in T : ~ (<<y, x>> \in Below)
  BY <1>1, WFMin
<1>4. \A y \in T : ~ (y < x)
  BY <1>2, <1>3
<1> QED BY <1>4

(* The preference key puts listed candidates of different index in a       *)
(* strict total order.                                                     *)
LEMMA PreferenceOrder ==
    ASSUME NEW c \in ListedCandidate, NEW d \in ListedCandidate, NEW e \in ListedCandidate
    PROVE  /\ c.index # d.index => Preferred(c, d) \/ Preferred(d, c)
           /\ ~(Preferred(c, d) /\ Preferred(d, c))
           /\ Preferred(c, d) /\ Preferred(d, e) => Preferred(c, e)
<1> DEFINE success(x) == IF x.result.status = "success" THEN 1 ELSE 0
           rank(x) == Rank(x.result.confidence)
<1>1. ASSUME NEW x \in ListedCandidate
      PROVE  success(x) \in Int /\ rank(x) \in Int /\ x.result.passed \in Int /\ x.index \in Int
  <2>1. x.result \in Results(MaxPassed) /\ x.index \in Nat
    BY <1>1 DEF ListedCandidate
  <2>2. x.result.confidence \in Confidences /\ x.result.passed \in 0 .. MaxPassed \cup {0}
    BY <2>1 DEF Results, Confidences
  <2>3. rank(x) \in Int
    <3>1. Rank("low") = 0 /\ Rank("medium") = 1 /\ Rank("high") = 2
      BY DEF Rank
    <3> QED BY <2>2, <3>1 DEF Confidences
  <2>4. x.result.passed \in Int
    BY <2>2, ConfigAssumption
  <2> QED BY <2>1, <2>3, <2>4
<1>2. ASSUME NEW x, NEW y
      PROVE  Preferred(x, y) <=>
               \/ success(x) > success(y)
               \/ /\ success(x) = success(y)
                  /\ \/ rank(x) > rank(y)
                     \/ /\ rank(x) = rank(y)
                        /\ \/ x.result.passed > y.result.passed
                           \/ x.result.passed = y.result.passed /\ x.index < y.index
  BY DEF Preferred
<1> HIDE DEF success, rank
<1> QED BY <1>1, <1>2

(* Of a list of candidates with rising indices exactly one is selected.    *)
LEMMA OneIsSelected ==
    ASSUME candidates \in Seq(ListedCandidate), candidates # <<>>, Indexed
    PROVE  \E i \in DOMAIN candidates :
             IsSelected(i) /\ \A j \in DOMAIN candidates : IsSelected(j) => j = i
<1>0. /\ Len(candidates) \in Nat \ {0} /\ DOMAIN candidates = 1 .. Len(candidates)
      /\ \A i \in DOMAIN candidates : candidates[i] \in ListedCandidate
  OBVIOUS
<1>1. \A i, j \in DOMAIN candidates : i # j => candidates[i].index # candidates[j].index
  <2> SUFFICES ASSUME NEW i \in DOMAIN candidates, NEW j \in DOMAIN candidates, i < j
               PROVE  candidates[i].index # candidates[j].index
    BY <1>0
  <2>1. candidates[i].index \in Nat /\ candidates[j].index \in Nat
    BY <1>0 DEF ListedCandidate
  <2> QED BY <2>1 DEF Indexed
<1> DEFINE BestOf(n) == \E i \in 1 .. n : \A j \in 1 .. n \ {i} :
                           Preferred(candidates[i], candidates[j])
           Without == {n \in 1 .. Len(candidates) : ~BestOf(n)}
<1>2. Without = {}
  <2> SUFFICES ASSUME Without # {} PROVE FALSE
    OBVIOUS
  <2>1. Without \in SUBSET Nat
    BY <1>0
  <2>2. PICK n \in Without : \A m \in Without : n <= m
    <3> HIDE DEF Without
    <3> QED BY <2>1, LeastNumber
  <2>3. n \in 1 .. Len(candidates) /\ ~BestOf(n)
    BY <2>2
  <2>4. n # 1
    <3>1. BestOf(1)
      OBVIOUS
    <3> QED BY <2>3, <3>1
  <2>5. n - 1 \in 1 .. Len(candidates) /\ BestOf(n - 1)
    <3>1. n - 1 \in 1 .. Len(candidates)
      BY <1>0, <2>3, <2>4
    <3>2. n - 1 \notin Without
      <4> HIDE DEF Without
      <4> QED BY <1>0, <2>2, <2>3
    <3> HIDE DEF BestOf
    <3> QED BY <3>1, <3>2
  <2>6. PICK i \in 1 .. n - 1 : \A j \in 1 .. n - 1 \ {i} :
                                  Preferred(candidates[i], candidates[j])
    BY <2>5
  <2>7. /\ i \in DOMAIN candidates /\ n \in DOMAIN candidates /\ i # n
        /\ i \in 1 .. n /\ n \in 1 .. n /\ n \in Nat
        /\ \A j \in 1 .. n : j \in DOMAIN candidates /\ (j = n \/ j \in 1 .. n - 1)
    <3> HIDE DEF BestOf
    <3> QED BY <1>0, <2>3, <2>6
  <2>8. CASE Preferred(candidates[i], candidates[n])
    <3>1. \A j \in 1 .. n \ {i} : Preferred(candidates[i], candidates[j])
      BY <2>6, <2>7, <2>8
    <3>2. BestOf(n)
      BY <2>7, <3>1
    <3> HIDE DEF BestOf
    <3> QED BY <2>3, <3>2
  <2>9. CASE Preferred(candidates[n], candidates[i])
    <3>1. ASSUME NEW j \in 1 .. n \ {n}
          PROVE  Preferred(candidates[n], candidates[j])
      <4>1. j = i \/ Preferred(candidates[i], candidates[j])
        BY <2>6, <2>7
      <4>2. candidates[j] \in ListedCandidate
        BY <1>0, <2>7
      <4> QED BY <1>0, <2>7, <2>9, <4>1, <4>2, PreferenceOrder
    <3>2. BestOf(n)
      BY <2>7, <3>1
    <3> HIDE DEF BestOf
    <3> QED BY <2>3, <3>2
  <2>10. Preferred(candidates[i], candidates[n]) \/ Preferred(candidates[n], candidates[i])
    BY <1>0, <1>1, <2>7, PreferenceOrder
  <2> QED BY <2>8, <2>9, <2>10
<1>3. BestOf(Len(candidates))
  <2>1. Len(candidates) \in 1 .. Len(candidates)
    BY <1>0
  <2> HIDE DEF BestOf
  <2> QED BY <1>2, <2>1
<1>4. PICK i \in DOMAIN candidates : IsSelected(i)
  BY <1>0, <1>3 DEF IsSelected
<1>5. ASSUME NEW j \in DOMAIN candidates, IsSelected(j) PROVE j = i
  <2> SUFFICES ASSUME j # i PROVE FALSE
    OBVIOUS
  <2>1. Preferred(candidates[i], candidates[j]) /\ Preferred(candidates[j], candidates[i])
    BY <1>4, <1>5 DEF IsSelected
  <2> QED BY <1>0, <2>1, PreferenceOrder
<1> QED BY <1>4, <1>5

(* A step that is concluded has exactly one candidate to conclude it with: *)
(* _select_step_candidate is given a list that is not empty, and its       *)
(* preference leaves no tie.                                               *)
SelectionDefinite ==
    phase = "conclude_step" =>
        \E i \in DOMAIN candidates :
            IsSelected(i) /\ \A j \in DOMAIN candidates : IsSelected(j) => j = i

THEOREM SelectionIsDefinite == Spec => []SelectionDefinite
<1>1. IndInv /\ StepInv => SelectionDefinite
  BY OneIsSelected DEF IndInv, TypeOK, ListedCandidate, StepInv, Listed, SelectionDefinite
<1> QED BY <1>1, StepInvariance, PTL

(* No step has more candidates than the first one's status and confidence  *)
(* ask for: a candidate beyond the first is begun below the target only.   *)
THEOREM CandidatesWithinTarget == Spec => []WithinTarget
<1>1. IndInv /\ StepInv => WithinTarget
  BY DEF StepInv
<1> QED BY <1>1, StepInvariance, PTL
-----------------------------------------------------------------------------
(* Why a run ends *)

(* How many stages a run with a given number of planner turns has before   *)
(* it; the candidates of a step are one stage.                             *)
Stage == [build_contract |-> 20, setup_environment |-> 19, build_repo_index |-> 18,
          plan_reproduction |-> 17, reproduce |-> 16, snapshot_reproduction |-> 15,
          begin_candidate |-> 14, implement |-> 14, snapshot_result |-> 14,
          reset_to_base |-> 14, conclude_step |-> 13, refresh_evidence |-> 12,
          replan |-> 11, final_verification |-> 10, integration_tests |-> 9,
          build_report |-> 8, discard |-> 7, return_home |-> 6, apply_winner |-> 5,
          unstage |-> 4, delete_branches |-> 3, teardown |-> 2, done |-> 1,
          failed |-> 0][phase]

(* How far a candidate is from being the next one in the list. *)
Within == [snapshot_result |-> 4, reset_to_base |-> 3, begin_candidate |-> 2,
           implement |-> 1][phase]

(* Another candidate, the present one further on, or one branch less to    *)
(* delete.                                                                 *)
AdvancesInStage ==
    \/ Len(candidates') > Len(candidates)
    \/ {phase, phase'} \subseteq StepPhases \ {"conclude_step"}
       /\ candidates' = candidates /\ Within' < Within
    \/ {phase, phase'} = {"delete_branches"}
       /\ CandidateBranches(repo') \subseteq CandidateBranches(repo)
       /\ CandidateBranches(repo') # CandidateBranches(repo)

(* Planner turns are spent, a later stage is reached, or the stage goes on. *)
Advances ==
    \/ turns' < turns
    \/ turns' = turns /\ Stage' < Stage
    \/ turns' = turns /\ Stage' = Stage /\ AdvancesInStage

LEMMA LaterStage ==
    ASSUME IndInv, \/ BuildContract \/ SetupEnvironment \/ BuildRepoIndex
           \/ PlanReproduction \/ Reproduce \/ SnapshotReproduction \/ PlannerTurnCap
           \/ AcceptStep \/ ReplanStep \/ RejectStep \/ RefreshPlanningEvidence
           \/ FinalVerification \/ IntegrationTests \/ BuildFinalReport
           \/ FinalizeWinner \/ TeardownEnvironment \/ ActivityFails
    PROVE  Advances
<1> USE DEF loopVars
<1>1. turns' = turns
  BY DEF BuildContract, SetupEnvironment, BuildRepoIndex, PlanReproduction, Reproduce,
     SnapshotReproduction, PlannerTurnCap, AcceptStep, ReplanStep, RejectStep, ConcludeStep,
     RefreshPlanningEvidence, FinalVerification, IntegrationTests, BuildFinalReport,
     FinalizeWinner, FinalizeStep, TeardownEnvironment, ActivityFails
<1>2. Stage' < Stage
  <2>1. CASE ActivityFails
    BY <2>1 DEF ActivityFails, Stage, IndInv, TypeOK, Phases, Terminal, StepPhases,
       FinalizePhases
  <2>2. CASE FinalizeWinner
    <3>1. \/ phase = "discard" /\ phase' = "return_home"
          \/ phase = "return_home" /\ phase' = "apply_winner"
          \/ phase = "apply_winner" /\ phase' = "unstage"
          \/ phase = "unstage" /\ phase' \in {"delete_branches", "teardown"}
      BY <2>2 DEF FinalizeWinner, FinalizeStep
    <3> QED BY <3>1 DEF Stage
  <2>3. CASE AcceptStep \/ ReplanStep \/ RejectStep
    BY <2>3 DEF AcceptStep, ReplanStep, RejectStep, ConcludeStep, Stage
  <2>4. CASE BuildContract \/ SetupEnvironment \/ BuildRepoIndex \/ PlanReproduction
             \/ Reproduce \/ SnapshotReproduction
    <3>1. \/ phase = "build_contract" /\ phase' = "setup_environment"
          \/ phase = "setup_environment" /\ phase' \in {"build_repo_index", "failed"}
          \/ phase = "build_repo_index" /\ phase' \in {"plan_reproduction", "replan"}
          \/ phase = "plan_reproduction" /\ phase' = "reproduce"
          \/ phase = "reproduce" /\ phase' \in {"snapshot_reproduction", "teardown"}
          \/ phase = "snapshot_reproduction" /\ phase' = "replan"
      BY <2>4 DEF BuildContract, SetupEnvironment, BuildRepoIndex, PlanReproduction,
         Reproduce, SnapshotReproduction
    <3> QED BY <3>1 DEF Stage
  <2>5. CASE PlannerTurnCap \/ RefreshPlanningEvidence \/ FinalVerification
             \/ IntegrationTests \/ BuildFinalReport \/ TeardownEnvironment
    BY <2>5 DEF PlannerTurnCap, RefreshPlanningEvidence, FinalVerification, IntegrationTests,
       BuildFinalReport, TeardownEnvironment, Stage
  <2> QED BY <2>1, <2>2, <2>3, <2>4, <2>5
<1> QED BY <1>1, <1>2 DEF Advances

LEMMA TurnsSpent ==
    ASSUME IndInv, Replan
    PROVE  Advances
<1>1. PICK spent \in 1 .. turns : turns' = turns - spent
  BY DEF Replan
<1>2. turns \in Nat
  BY ConfigAssumption DEF IndInv, TypeOK
<1> QED BY <1>1, <1>2 DEF Advances

LEMMA CandidateGoesOn ==
    ASSUME IndInv, \/ BeginStepCandidate \/ Implement \/ SnapshotCandidateResult
           \/ ResetBetweenCandidates
    PROVE  Advances
<1> USE DEF loopVars, stepVars
<1>1. CASE Implement
  <2>1. PICK c : candidates' = Append(candidates, c)
    BY <1>1 DEF Implement
  <2>2. candidates \in Seq([index : Nat, result : Results(MaxPassed), tree : Trees])
    BY DEF IndInv, TypeOK
  <2>3. Len(candidates') > Len(candidates)
    BY <2>1, <2>2
  <2> QED BY <1>1, <2>3 DEF Implement, Advances, AdvancesInStage, Stage
<1>2. CASE BeginStepCandidate
  BY <1>2 DEF BeginStepCandidate, Advances, AdvancesInStage, Stage, Within, StepPhases
<1>3. CASE SnapshotCandidateResult
  BY <1>3 DEF SnapshotCandidateResult, Advances, AdvancesInStage, Stage, Within, StepPhases
<1>4. CASE ResetBetweenCandidates
  BY <1>4 DEF ResetBetweenCandidates, Advances, AdvancesInStage, Stage, Within, StepPhases
<1> QED BY <1>1, <1>2, <1>3, <1>4

LEMMA BranchesGo ==
    ASSUME IndInv, DeleteCandidateBranches
    PROVE  Advances
<1> USE DEF loopVars
<1>1. CASE FinalizeStep("delete_branches", "teardown", repo)
  BY <1>1 DEF FinalizeStep, Advances, Stage
<1>2. ASSUME NEW b \in CandidateBranches(repo),
             FinalizeStep("delete_branches", "delete_branches", DeleteBranch(repo, b))
      PROVE  Advances
  <2>1. IsRepo(repo) /\ repo.head = Home
    BY <1>2 DEF IndInv, TypeOK, HeadAtHome, FinalizeStep
  <2>2. b \in DOMAIN repo.refs /\ b # Home
    BY HomeIsNoIndex DEF CandidateBranches
  <2>3. DOMAIN repo'.refs = DOMAIN repo.refs \ {b}
    BY <1>2, <2>1, <2>2, DeleteBranchFacts DEF FinalizeStep
  <2>4. /\ CandidateBranches(repo') \subseteq CandidateBranches(repo)
        /\ b \notin CandidateBranches(repo')
    BY <2>3 DEF CandidateBranches
  <2> QED BY <1>2, <2>4 DEF FinalizeStep, Advances, AdvancesInStage, Stage
<1> QED BY <1>1, <1>2 DEF DeleteCandidateBranches

(* Every step of a run spends planner turns, reaches a later stage with as *)
(* many turns, gets on with the step's candidates, whose number has a      *)
(* bound (CandidatesWithinTarget), or deletes one of its branches.  That   *)
(* is why a run that keeps going ends.                                     *)
THEOREM EveryStepAdvances == Spec => [][Advances]_vars
<1>1. IndInv /\ [Next]_vars => [Advances]_vars
  BY LaterStage, TurnsSpent, CandidateGoesOn, BranchesGo DEF Next, WorkflowStep, Finished
<1> QED BY <1>1, Invariance, PTL DEF Spec
-----------------------------------------------------------------------------
(***************************************************************************)
(* Part 3.  The regression files and runs that end blocked, for every      *)
(* instance in which the children protect the test files and tool runs     *)
(* keep the tracked ones.                                                  *)
(***************************************************************************)

(* The regression files the user has committed and the children protect. *)
Committed == {f \in ProtectedFiles : Origin[f] # Absent}

(* A file is as committed in the tree, the index and on every branch. *)
Kept(r, f) ==
    /\ r.index[f] = Origin[f]
    /\ r.work[f] = Origin[f]
    /\ \A b \in DOMAIN r.refs : r.refs[b].tree[f] = Origin[f]

-----------------------------------------------------------------------------
(* Operations that keep a file as committed *)

(* A tool run that keeps tracked files keeps this one. *)
LEMMA LitterKeeps ==
    ASSUME Litter # "any", NEW f \in Committed, NEW r, Kept(r, f), NEW s \in Littered(r)
    PROVE  Kept(s, f)
<1>1. f \in Files /\ r.index[f] # Absent
  BY ConfigAssumption DEF Committed, Kept, ProtectedFiles
<1>2. CASE Litter = "none"
  BY <1>2 DEF Littered
<1>3. CASE Litter = "untracked"
  <2>1. PICK w \in Trees : /\ s = Repo(r.head, r.refs, r.index, w)
                           /\ r.index[f] # Absent => w[f] = r.work[f]
    BY <1>1, <1>3 DEF Littered, Edited, Repo
  <2> QED BY <1>1, <2>1 DEF Kept, Repo
<1> QED BY <1>2, <1>3, ConfigAssumption

(* A guarded agent keeps it. *)
LEMMA AgentKeeps ==
    ASSUME TestsProtected, NEW f \in Committed, NEW r, Kept(r, f),
           NEW s \in AgentEdits(r, TRUE)
    PROVE  Kept(s, f)
<1>1. f \in Tests \ {Anchor} /\ r.index[f] # Absent
  BY DEF Committed, Kept, ProtectedFiles
<1>2. s \in Edited(r) /\ s.work[f] \in {r.index[f], r.work[f]}
  BY <1>1 DEF AgentEdits
<1>3. PICK w \in Trees : s = Repo(r.head, r.refs, r.index, w)
  BY <1>2 DEF Edited
<1> QED BY <1>2, <1>3 DEF Kept, Repo

(* Staging keeps it. *)
LEMMA AddAllKeeps ==
    ASSUME NEW f, NEW r, Kept(r, f)
    PROVE  Kept(AddAll(r), f)
BY DEF Kept, AddAll, Repo

(* A reset to a commit that has it keeps it. *)
LEMMA ResetKeeps ==
    ASSUME NEW f \in Committed, NEW r, Kept(r, f), NEW c, c.tree[f] = Origin[f]
    PROVE  Kept(ResetHard(r, c), f)
<1>1. f \in Files /\ Origin[f] # Absent
  BY ConfigAssumption DEF Committed, ProtectedFiles
<1> DEFINE s == ResetHard(r, c)
<1>2. /\ s.refs = SetRef(r.refs, r.head, c) /\ s.index = c.tree
      /\ s.work = [g \in Files |-> IF r.index[g] = Absent /\ c.tree[g] = Absent
                                   THEN r.work[g] ELSE c.tree[g]]
  BY DEF ResetHard, Repo
<1>3. \A b \in DOMAIN s.refs : s.refs[b].tree[f] = Origin[f]
  <2> HIDE DEF s
  <2> QED BY <1>2 DEF Kept, SetRef
<1>4. s.index[f] = Origin[f] /\ s.work[f] = Origin[f]
  <2> HIDE DEF s
  <2> QED BY <1>1, <1>2
<1> QED
  <2> HIDE DEF s
  <2>1. Kept(s, f)
    BY <1>3, <1>4 DEF Kept
  <2> QED BY <2>1 DEF s

(* git clean removes untracked files only. *)
LEMMA CleanKeeps ==
    ASSUME NEW f \in Committed, NEW r, Kept(r, f)
    PROVE  Kept(Clean(r), f)
<1>1. f \in Files /\ Origin[f] # Absent
  BY ConfigAssumption DEF Committed, ProtectedFiles
<1> QED BY <1>1 DEF Kept, Clean, Repo

(* A new branch from a commit that has it keeps it. *)
LEMMA CheckoutKeeps ==
    ASSUME NEW f \in Committed, NEW r, Kept(r, f), NEW k, NEW c, c.tree[f] = Origin[f]
    PROVE  Kept(CheckoutNew(r, k, c), f)
<1>1. f \in Files
  BY ConfigAssumption DEF Committed, ProtectedFiles
<1> DEFINE s == CheckoutNew(r, k, c)
<1>2. /\ s.refs = SetRef(r.refs, k, c)
      /\ s.index = [g \in Files |-> IF Moves(r, g, c.tree) THEN c.tree[g] ELSE r.index[g]]
      /\ s.work = [g \in Files |-> IF Moves(r, g, c.tree) THEN c.tree[g] ELSE r.work[g]]
  BY DEF CheckoutNew, Switch, Repo
<1>3. \A b \in DOMAIN s.refs : s.refs[b].tree[f] = Origin[f]
  <2> HIDE DEF s
  <2> QED BY <1>2 DEF Kept, SetRef
<1>4. s.index[f] = Origin[f] /\ s.work[f] = Origin[f]
  <2> HIDE DEF s
  <2> QED BY <1>1, <1>2 DEF Kept
<1> QED
  <2> HIDE DEF s
  <2>1. Kept(s, f)
    BY <1>3, <1>4 DEF Kept
  <2> QED BY <2>1 DEF s

(* Restoring files from HEAD keeps it. *)
LEMMA RestoreKeeps ==
    ASSUME NEW f \in Committed, NEW r, IsRepo(r), Kept(r, f), NEW paths
    PROVE  Kept(RestoreFromHead(r, paths), f)
<1>1. f \in Files /\ HeadTree(r)[f] = Origin[f]
  BY ConfigAssumption DEF Committed, ProtectedFiles, HeadTree, IsRepo, Kept
<1> DEFINE s == CheckoutPaths(r, HeadTree(r), paths)
           over(old) == [g \in Files |-> IF g \in paths /\ HeadTree(r)[g] # Absent
                                         THEN HeadTree(r)[g] ELSE old[g]]
<1>2. s.refs = r.refs /\ s.index = over(r.index) /\ s.work = over(r.work)
  BY DEF CheckoutPaths, Repo
<1>3. over(r.index)[f] = Origin[f] /\ over(r.work)[f] = Origin[f]
  BY <1>1 DEF Kept
<1>4. Kept(s, f)
  <2> HIDE DEF s, over
  <2> QED BY <1>2, <1>3 DEF Kept
<1> QED BY <1>4 DEF RestoreFromHead
-----------------------------------------------------------------------------
(* Before the reproduction is snapshotted, nothing is staged or branched *)

Early == {"build_contract", "setup_environment", "build_repo_index",
          "plan_reproduction", "reproduce", "snapshot_reproduction"}

Untouched(r) == r.head = Home /\ DOMAIN r.refs = {Home} /\ r.index = Origin

EarlyInv ==
    /\ phase \in Early =>
         Untouched(repo) /\ ws.base = OriginCommit /\ report.verdict = "none"
    /\ report.verdict = "blocked" =>
         Untouched(repo) /\ phase \in {"teardown", "done", "failed"}

(* It holds when the workflow starts. *)
LEMMA EarlyInit == Init => EarlyInv
<1> SUFFICES ASSUME Init PROVE EarlyInv
  OBVIOUS
<1>1. PICK w \in Trees : repo = Repo(Home, [b \in {Home} |-> OriginCommit], Origin, w)
  BY DEF Init
<1>2. Untouched(repo)
  BY <1>1 DEF Untouched, Repo
<1> QED BY <1>2 DEF Init, EarlyInv, WorkspaceOf

(* Editing the working tree leaves head, branches and index alone. *)
LEMMA EditsUntouched ==
    ASSUME NEW r, Untouched(r), NEW s \in Edited(r)
    PROVE  Untouched(s)
BY DEF Edited, Untouched, Repo

(* So does a tool run, ... *)
LEMMA LitterUntouched ==
    ASSUME NEW r, Untouched(r), NEW s \in Littered(r)
    PROVE  Untouched(s)
<1>1. CASE Litter = "none"
  BY <1>1 DEF Littered
<1>2. CASE Litter \in {"untracked", "any"}
  BY <1>2, EditsUntouched DEF Littered
<1> QED BY <1>1, <1>2, ConfigAssumption

(* Every step keeps it. *)
LEMMA EarlyStep == EarlyInv /\ [Next]_vars => EarlyInv'
<1> SUFFICES ASSUME EarlyInv, [Next]_vars PROVE EarlyInv'
  OBVIOUS
<1> USE DEF bootVars, stepVars, loopVars, endVars, histVars, Early, Terminal,
            FinalizePhases, StepPhases
<1>1. CASE BuildContract \/ SetupEnvironment \/ BuildRepoIndex
  BY <1>1 DEF EarlyInv, BuildContract, SetupEnvironment, BuildRepoIndex
<1>2. CASE PlanReproduction
  <2>1. Untouched(repo')
    BY <1>2, LitterUntouched DEF EarlyInv, PlanReproduction
  <2> QED BY <1>2, <2>1 DEF EarlyInv, PlanReproduction
<1>3. CASE Reproduce
  <2>1. repo' \in Edited(repo)
    BY <1>3 DEF Reproduce, AgentEdits
  <2>2. Untouched(repo')
    BY <1>3, <2>1, EditsUntouched DEF EarlyInv, Reproduce
  <2> QED BY <1>3, <2>2 DEF EarlyInv, Reproduce
<1>4. CASE BuildFinalReport
  BY <1>4 DEF EarlyInv, BuildFinalReport, Decisions
<1>5. CASE TeardownEnvironment
  BY <1>5 DEF EarlyInv, TeardownEnvironment
<1>6. CASE ActivityFails
  <2>1. CASE report.verdict # "blocked"
    BY <1>6, <2>1 DEF EarlyInv, ActivityFails
  <2>2. CASE report.verdict = "blocked"
    <3>1. phase = "teardown" /\ repo' \in Interrupted(repo)
      BY <1>6, <2>2 DEF EarlyInv, ActivityFails
    <3>2. repo' = repo
      BY <3>1 DEF Interrupted
    <3> QED BY <1>6, <2>2, <3>2 DEF EarlyInv, ActivityFails
  <2> QED BY <2>1, <2>2
<1>7. ASSUME phase \notin Early \cup {"teardown"} \cup Terminal, phase' \notin Early,
             report' = report
      PROVE  EarlyInv'
  BY <1>7 DEF EarlyInv
<1>8. CASE SnapshotReproduction
  BY <1>8 DEF EarlyInv, SnapshotReproduction
<1>9. CASE Replan \/ PlannerTurnCap \/ RefreshPlanningEvidence
           \/ FinalVerification \/ IntegrationTests
  BY <1>7, <1>9 DEF Replan, PlannerTurnCap, RefreshPlanningEvidence, FinalVerification,
                    IntegrationTests
<1>10. CASE BeginStepCandidate \/ Implement \/ SnapshotCandidateResult
            \/ ResetBetweenCandidates \/ AcceptStep \/ ReplanStep \/ RejectStep
  BY <1>7, <1>10 DEF BeginStepCandidate, Implement, SnapshotCandidateResult,
     ResetBetweenCandidates, AcceptStep, ReplanStep, RejectStep, ConcludeStep
<1>11. CASE FinalizeWinner \/ DeleteCandidateBranches
  BY <1>7, <1>11 DEF FinalizeWinner, DeleteCandidateBranches, FinalizeStep
<1>12. CASE UNCHANGED vars
  BY <1>12 DEF vars, EarlyInv
<1> QED BY <1>1, <1>2, <1>3, <1>4, <1>5, <1>6, <1>8, <1>9, <1>10, <1>11, <1>12
        DEF Next, WorkflowStep, Finished
-----------------------------------------------------------------------------
(* From the clean tree at setup to the final anchor tests *)

AfterSetup == {"build_repo_index", "plan_reproduction", "reproduce",
               "snapshot_reproduction"}
Looping == StepPhases \cup {"replan", "refresh_evidence", "final_verification"}

RegressionInv ==
    \A f \in Committed :
        /\ phase \in AfterSetup \/ (reproduction /\ phase \in Looping) =>
             Kept(repo, f) /\ ws.base.tree[f] = Origin[f]
        /\ reproduction /\ phase \in {"integration_tests", "build_report"} =>
             verified.tree[f] = Origin[f]
        /\ report.verdict = "blocked" => repo.work[f] = Origin[f]

(* Nothing is claimed of the first phase. *)
LEMMA RegressionInit == Init => RegressionInv
BY DEF Init, RegressionInv, AfterSetup, Looping, StepPhases

(* The setup refuses a tree that is not clean. *)
LEMMA SetupKeeps ==
    ASSUME IndInv, EarlyInv, SetupEnvironment, phase' # "failed", NEW f \in Committed
    PROVE  Kept(repo', f) /\ ws'.base.tree[f] = Origin[f]
<1>1. /\ repo' = repo /\ ws' = ws /\ IsClean(repo) /\ phase = "setup_environment"
  BY DEF SetupEnvironment
<1>2. Untouched(repo) /\ ws.base = OriginCommit
  BY <1>1 DEF EarlyInv, Early
<1>3. repo.refs[Home] = OriginCommit /\ OriginCommit.tree = Origin
  BY DEF IndInv, HomeUnmoved, OriginCommit, Commit
<1>4. repo.work = Origin
  BY <1>1, <1>2 DEF IsClean, Untouched
<1> QED BY <1>1, <1>2, <1>3, <1>4 DEF Kept, Untouched

(* A result snapshot and a reset between candidates keep the file. *)
LEMMA SnapshotsKeep ==
    ASSUME NEW f \in Committed, NEW r, Kept(r, f),
           NEW w, w.base.tree[f] = Origin[f]
    PROVE  Kept(SnapshotResult(r), f) /\ Kept(ResetToBase(r, w), f)
<1> DEFINE staged == AddAll(r)
           c == Commit("result", staged.index)
<1>1. Kept(staged, f)
  BY AddAllKeeps
<1>2. c.tree[f] = Origin[f]
  BY <1>1 DEF Kept, Commit
<1>3. Kept(ResetHard(staged, c), f)
  <2> HIDE DEF staged, c
  <2> QED BY <1>1, <1>2, ResetKeeps
<1>4. Kept(ResetHard(r, w.base), f)
  BY ResetKeeps
<1>5. Kept(Clean(ResetHard(r, w.base)), f)
  BY <1>4, CleanKeeps
<1> QED BY <1>3, <1>5 DEF SnapshotResult, ResetToBase

(* Planner turns and the steps of a candidate keep every committed         *)
(* regression file, when there is a reproduction.                          *)
LEMMA LoopKeeps ==
    ASSUME Litter # "any", TestsProtected, IndInv, RegressionInv,
           reproduction, reproduction', phase \in Looping, NEW f \in Committed,
           \/ Replan \/ PlannerTurnCap \/ BeginStepCandidate \/ Implement
           \/ SnapshotCandidateResult \/ ResetBetweenCandidates \/ AcceptStep
           \/ ReplanStep \/ RejectStep \/ RefreshPlanningEvidence,
           phase' \in Looping
    PROVE  Kept(repo', f) /\ ws'.base.tree[f] = Origin[f]
<1>1. Kept(repo, f) /\ ws.base.tree[f] = Origin[f]
  BY DEF RegressionInv
<1>2. CASE Replan \/ PlannerTurnCap \/ RefreshPlanningEvidence
  <2>1. ws' = ws /\ (repo' = repo \/ repo' \in Littered(repo))
    BY <1>2 DEF Replan, PlannerTurnCap, RefreshPlanningEvidence
  <2> QED BY <1>1, <2>1, LitterKeeps
<1>3. CASE BeginStepCandidate
  <2>1. ws' = ws /\ (repo' = repo \/ repo' = CheckoutNew(repo, next, ws.base))
    BY <1>3 DEF BeginStepCandidate, BeginCandidate
  <2> QED BY <1>1, <2>1, CheckoutKeeps
<1>4. CASE Implement
  <2>1. ws' = ws /\ repo' \in AgentEdits(repo, TRUE)
    BY <1>4 DEF Implement
  <2> QED BY <1>1, <2>1, AgentKeeps
<1>5. CASE SnapshotCandidateResult
  <2>1. ws' = ws /\ repo' = SnapshotResult(repo)
    BY <1>5 DEF SnapshotCandidateResult
  <2> QED BY <1>1, <2>1, SnapshotsKeep
<1>6. CASE ResetBetweenCandidates
  <2>1. ws' = ws /\ repo' = ResetToBase(repo, ws)
    BY <1>6 DEF ResetBetweenCandidates
  <2> QED BY <1>1, <2>1, SnapshotsKeep
<1>7. CASE AcceptStep
  <2>1. repo' = AddAll(repo) /\ ws'.base.tree = repo.work
    BY <1>7 DEF AcceptStep, SnapshotBase, WorkspaceOf, BaseSnapshot, Commit
  <2> QED BY <1>1, <2>1, AddAllKeeps DEF Kept
<1>8. CASE ReplanStep \/ RejectStep
  <2>1. repo' = repo /\ ws'.base = ws.base
    BY <1>8 DEF ReplanStep, RejectStep, WorkspaceOf
  <2> QED BY <1>1, <2>1
<1> QED BY <1>2, <1>3, <1>4, <1>5, <1>6, <1>7, <1>8

(* Every step keeps the invariant. *)
LEMMA RegressionStep ==
    ASSUME Litter # "any", TestsProtected, IndInv, EarlyInv, RegressionInv, [Next]_vars
    PROVE  RegressionInv'
<1> USE DEF bootVars, stepVars, loopVars, endVars, histVars, Terminal, FinalizePhases,
            StepPhases, AfterSetup, Looping
<1>1. SUFFICES ASSUME NEW f \in Committed
      PROVE  /\ phase' \in AfterSetup \/ (reproduction' /\ phase' \in Looping) =>
                  Kept(repo', f) /\ ws'.base.tree[f] = Origin[f]
             /\ reproduction' /\ phase' \in {"integration_tests", "build_report"} =>
                  verified'.tree[f] = Origin[f]
             /\ report'.verdict = "blocked" => repo'.work[f] = Origin[f]
  BY DEF RegressionInv
<1>2. /\ phase \in AfterSetup \/ (reproduction /\ phase \in Looping) =>
           Kept(repo, f) /\ ws.base.tree[f] = Origin[f]
      /\ reproduction /\ phase \in {"integration_tests", "build_report"} =>
           verified.tree[f] = Origin[f]
      /\ report.verdict = "blocked" => repo.work[f] = Origin[f]
  BY DEF RegressionInv
<1>3. phase \notin {"teardown", "done", "failed"} => report.verdict # "blocked"
  BY DEF EarlyInv
<1>4. CASE BuildContract
  BY <1>3, <1>4 DEF BuildContract
<1>5. CASE SetupEnvironment
  <2>1. report' = report /\ phase = "setup_environment"
        /\ phase' \in {"build_repo_index", "failed"}
    BY <1>5 DEF SetupEnvironment
  <2> QED BY <1>3, <1>5, <2>1, SetupKeeps
<1>6. CASE BuildRepoIndex
  BY <1>2, <1>3, <1>6 DEF BuildRepoIndex
<1>7. CASE PlanReproduction
  <2>1. Kept(repo', f)
    BY <1>2, <1>7, LitterKeeps DEF PlanReproduction
  <2> QED BY <1>2, <1>3, <1>7, <2>1 DEF PlanReproduction
<1>8. CASE Reproduce
  <2>1. Kept(repo', f)
    BY <1>2, <1>8, AgentKeeps DEF Reproduce
  <2> QED BY <1>2, <1>3, <1>8, <2>1 DEF Reproduce, Kept
<1>9. CASE SnapshotReproduction
  <2>1. /\ repo' = AddAll(repo) /\ ws'.base.tree = repo.work /\ Kept(repo, f)
        /\ phase = "snapshot_reproduction" /\ phase' = "replan" /\ report' = report
    BY <1>2, <1>9 DEF SnapshotReproduction, SnapshotBase, WorkspaceOf, BaseSnapshot, Commit
  <2>2. Kept(repo', f) /\ ws'.base.tree[f] = Origin[f]
    BY <2>1, AddAllKeeps DEF Kept
  <2> QED BY <1>3, <2>1, <2>2
<1>10. CASE \/ Replan \/ PlannerTurnCap \/ BeginStepCandidate \/ Implement
            \/ SnapshotCandidateResult \/ ResetBetweenCandidates \/ AcceptStep
            \/ ReplanStep \/ RejectStep \/ RefreshPlanningEvidence
  <2>1. /\ report' = report /\ reproduction' = reproduction /\ phase \in Looping
        /\ phase' \in Looping \cup {"failed"}
    BY <1>10 DEF Replan, PlannerTurnCap, BeginStepCandidate, Implement,
       SnapshotCandidateResult, ResetBetweenCandidates, AcceptStep, ReplanStep,
       RejectStep, ConcludeStep, RefreshPlanningEvidence
  <2>2. reproduction /\ phase' \in Looping =>
          Kept(repo', f) /\ ws'.base.tree[f] = Origin[f]
    BY <1>10, <2>1, LoopKeeps
  <2> QED BY <1>3, <2>1, <2>2
<1>11. CASE FinalVerification
  <2>1. /\ report' = report /\ reproduction' = reproduction
        /\ phase = "final_verification"
        /\ phase' \in {"integration_tests", "build_report"}
        /\ verified'.tree = DiffTree(RestoredRepo)
    BY <1>11 DEF FinalVerification
  <2>2. ASSUME reproduction PROVE verified'.tree[f] = Origin[f]
    <3>1. Kept(repo, f) /\ IsRepo(repo) /\ f \in Files /\ Origin[f] # Absent
      BY <1>2, <2>1, <2>2, ConfigAssumption
         DEF IndInv, TypeOK, Committed, ProtectedFiles
    <3>2. Kept(RestoredRepo, f)
      BY <2>2, <3>1, RestoreKeeps DEF RestoredRepo
    <3> QED BY <2>1, <3>1, <3>2 DEF DiffTree, Kept
  <2> QED BY <1>3, <2>1, <2>2
<1>12. CASE IntegrationTests
  <2>1. /\ report' = report /\ reproduction' = reproduction
        /\ phase = "integration_tests" /\ phase' = "build_report"
        /\ verified'.tree = verified.tree
    BY <1>12 DEF IntegrationTests
  <2> QED BY <1>2, <1>3, <2>1
<1>13. CASE BuildFinalReport
  BY <1>13 DEF BuildFinalReport, Decisions
<1>14. CASE FinalizeWinner \/ DeleteCandidateBranches
  BY <1>3, <1>14 DEF FinalizeWinner, DeleteCandidateBranches, FinalizeStep
<1>15. CASE TeardownEnvironment
  BY <1>2, <1>15 DEF TeardownEnvironment
<1>16. CASE ActivityFails
  <2>1. phase' = "failed" /\ report' = report /\ repo' \in Interrupted(repo)
    BY <1>16 DEF ActivityFails
  <2>2. CASE report.verdict # "blocked"
    BY <2>1, <2>2
  <2>3. CASE report.verdict = "blocked"
    <3>1. phase = "teardown"
      BY <1>16, <2>3 DEF EarlyInv, ActivityFails
    <3>2. repo' = repo
      BY <2>1, <3>1 DEF Interrupted
    <3> QED BY <1>2, <2>1, <2>3, <3>2
  <2> QED BY <2>2, <2>3
<1>17. CASE UNCHANGED vars
  BY <1>2, <1>17 DEF vars
<1> QED BY <1>4, <1>5, <1>6, <1>7, <1>8, <1>9, <1>10, <1>11, <1>12, <1>13, <1>14, <1>15,
           <1>16, <1>17 DEF Next, WorkflowStep, Finished

(* With children that protect the test files and tool runs that keep the   *)
(* tracked ones, the final anchor tests see every committed regression     *)
(* file as it was committed, whatever the candidates were.                 *)
THEOREM AnchorSeesCommittedTests ==
    ASSUME Litter # "any", TestsProtected
    PROVE  Spec => []RegressionFilesRestored
<1>1. RegressionInv => RegressionFilesRestored
  BY DEF RegressionInv, RegressionFilesRestored, Committed
<1>2. IndInv /\ EarlyInv /\ RegressionInv /\ [Next]_vars => RegressionInv'
  BY RegressionStep
<1> QED BY <1>1, <1>2, RegressionInit, EarlyInit, EarlyStep, Invariance, PTL DEF Spec

(* Under the same assumptions a blocked run leaves HEAD, index, branches   *)
(* and the committed regression files as the user had them.                *)
THEOREM BlockedRunIsHarmless ==
    ASSUME Litter # "any", TestsProtected
    PROVE  Spec => []BlockedRunKeepsRepository
<1>1. EarlyInv /\ RegressionInv => BlockedRunKeepsRepository
  BY DEF EarlyInv, RegressionInv, BlockedRunKeepsRepository, Untouched, Committed
<1>2. IndInv /\ EarlyInv /\ RegressionInv /\ [Next]_vars => RegressionInv'
  BY RegressionStep
<1> QED BY <1>1, <1>2, RegressionInit, EarlyInit, EarlyStep, Invariance, PTL DEF Spec
-----------------------------------------------------------------------------
(***************************************************************************)
(* Part 4.  What is built on and delivered when every step runs a single   *)
(* candidate, up to the refinement of RollingPatch.                        *)
(***************************************************************************)

(* The configuration asks for one candidate whatever the confidence. *)
SingleCandidate == \A c \in Confidences : CandidateCount[c] <= 1

(* The one candidate of a step: what its agent left is in the tree, then   *)
(* also on its branch, and it is the one that gets selected.               *)
SingleInv ==
    /\ phase # "reset_to_base"
    /\ phase \in {"begin_candidate", "implement"} => candidates = <<>>
    /\ phase \in {"snapshot_result", "conclude_step"} =>
         Len(candidates) = 1 /\ candidates[1].tree = repo.work
    /\ phase = "snapshot_result" => candidates[1].index = next
    /\ phase = "conclude_step" =>
         repo.refs[candidates[1].index].tree = candidates[1].tree
    /\ phase \notin StepPhases \cup {"failed"} => candidates = <<>>

(* What is delivered: the files of a result, the user's own elsewhere. *)
Delivery(tree) == [f \in Files |-> IF tree[f] # Absent THEN tree[f] ELSE Origin[f]]

(* The carried workspace value stands for the accepted tree and, as long   *)
(* as its branch is there, for the selected result.                        *)
CarriedInv ==
    /\ ws.base.tree = accepted
    /\ ws.branch \in DOMAIN repo.refs => repo.refs[ws.branch].tree = winner
    /\ phase \in Early \/ report.verdict = "blocked" =>
         ws.branch = Home /\ ws.base.tree = Origin /\ winner = Origin
    /\ phase \in {"implement", "snapshot_result"} => ws.branch # next

(* Finalization, command by command: a clean candidate branch, the clean   *)
(* branch of the user, the user's tree with the result over it.            *)
FinalInv ==
    /\ phase = "return_home" => repo.work = HeadTree(repo) /\ repo.index = HeadTree(repo)
    /\ phase = "apply_winner" => repo.work = Origin
    /\ phase = "unstage" => repo.work = Delivery(winner)
    /\ phase \in {"delete_branches", "teardown", "done"} /\ report.verdict # "blocked" =>
         repo.work = Delivery(winner)
    /\ phase = "failed" => ws.branch \in DOMAIN repo.refs \/ repo.work = Delivery(winner)
-----------------------------------------------------------------------------
(* The one candidate *)

(* A result snapshot commits the tree on the current branch and keeps it.  *)
LEMMA ResultSnapshotFacts ==
    ASSUME NEW r, IsRepo(r)
    PROVE  /\ SnapshotResult(r).work = r.work
           /\ SnapshotResult(r).head = r.head
           /\ SnapshotResult(r).refs = SetRef(r.refs, r.head, Commit("result", r.work))
<1> DEFINE staged == AddAll(r)
           c == Commit("result", staged.index)
           s == ResetHard(staged, c)
<1>1. /\ staged.index = r.work /\ staged.work = r.work /\ r.work \in Trees
      /\ staged.head = r.head /\ staged.refs = r.refs
  BY AddAllFacts DEF IsRepo
<1>2. c = Commit("result", r.work) /\ c.tree = r.work
  BY <1>1 DEF Commit
<1>3. /\ s.head = staged.head /\ s.refs = SetRef(staged.refs, staged.head, c)
      /\ s.work = [f \in Files |-> IF staged.index[f] = Absent /\ c.tree[f] = Absent
                                   THEN staged.work[f] ELSE c.tree[f]]
  BY DEF ResetHard, Repo
<1>4. s.work = [f \in Files |-> r.work[f]]
  <2> HIDE DEF staged, c, s
  <2> QED BY <1>1, <1>2, <1>3
<1>5. s.work = r.work
  BY <1>1, <1>4 DEF Trees
<1>6. SnapshotResult(r) = s
  BY DEF SnapshotResult
<1> QED
  <2> HIDE DEF staged, c, s
  <2> QED BY <1>1, <1>2, <1>3, <1>5, <1>6

(* A step is content with its first candidate. *)
LEMMA OneIsEnough ==
    ASSUME SingleCandidate, TypeOK, Len(candidates) = 1
    PROVE  ~(Len(candidates) < TargetCount(candidates[1]))
<1>1. candidates \in Seq([index : Nat, result : Results(MaxPassed), tree : Trees])
  BY DEF TypeOK
<1>2. 1 \in DOMAIN candidates
  BY <1>1
<1>3. candidates[1] \in [index : Nat, result : Results(MaxPassed), tree : Trees]
  BY <1>1, <1>2, SeqElement
<1>4. candidates[1].result.status = "success" =>
        candidates[1].result.confidence \in Confidences
  BY <1>3 DEF Results
<1>5. \A c \in Confidences : CandidateCount[c] \in Int /\ CandidateCount[c] <= 1
  BY ConfigAssumption DEF SingleCandidate
<1> QED BY <1>4, <1>5 DEF TargetCount

(* It holds when the workflow starts. *)
LEMMA SingleInit == Init => SingleInv
BY DEF Init, SingleInv

(* Every step keeps it. *)
LEMMA SingleStep ==
    ASSUME SingleCandidate, IndInv, SingleInv, [Next]_vars
    PROVE  SingleInv'
<1> USE DEF bootVars, stepVars, loopVars, endVars, histVars, Terminal, StepPhases,
            FinalizePhases
<1>1. ASSUME candidates' = candidates, phase \notin StepPhases \cup {"failed"},
             phase' \notin StepPhases
      PROVE  SingleInv'
  BY <1>1 DEF SingleInv
<1>2. CASE BuildContract \/ SetupEnvironment \/ BuildRepoIndex \/ PlanReproduction
           \/ Reproduce \/ SnapshotReproduction \/ PlannerTurnCap
           \/ RefreshPlanningEvidence
  BY <1>1, <1>2 DEF BuildContract, SetupEnvironment, BuildRepoIndex, PlanReproduction,
     Reproduce, SnapshotReproduction, PlannerTurnCap, RefreshPlanningEvidence
<1>3. CASE Replan
  <2>1. /\ phase = "replan" /\ candidates' = candidates
        /\ phase' \in {"replan", "failed", "begin_candidate", "final_verification"}
    BY <1>3 DEF Replan
  <2> QED BY <2>1 DEF SingleInv
<1>4. CASE BeginStepCandidate
  <2>1. /\ phase = "begin_candidate" /\ candidates' = candidates
        /\ phase' \in {"failed", "implement"}
    BY <1>4 DEF BeginStepCandidate
  <2> QED BY <2>1 DEF SingleInv
<1>5. CASE Implement
  <2>1. /\ phase = "implement" /\ phase' = "snapshot_result" /\ next' = next
        /\ candidates = <<>>
    BY <1>5 DEF Implement, SingleInv
  <2>2. PICK result : candidates' = <<Candidate(next, result, repo'.work)>>
    BY <1>5, <2>1 DEF Implement
  <2> QED BY <2>1, <2>2 DEF SingleInv, Candidate
<1>6. CASE SnapshotCandidateResult
  <2>1. /\ phase = "snapshot_result" /\ candidates' = candidates
        /\ Len(candidates) = 1 /\ candidates[1].tree = repo.work
        /\ candidates[1].index = next /\ repo.head = next /\ IsRepo(repo)
        /\ repo' = SnapshotResult(repo)
    BY <1>6 DEF SnapshotCandidateResult, SingleInv, IndInv, HeadOnCandidate, TypeOK
  <2>2. phase' = "conclude_step"
    BY <1>6, <2>1, OneIsEnough DEF SnapshotCandidateResult, IndInv
  <2>3. repo'.work = repo.work /\ repo'.refs[next].tree = repo.work
    <3>1. /\ repo'.work = repo.work
          /\ repo'.refs = SetRef(repo.refs, next, Commit("result", repo.work))
      BY <2>1, ResultSnapshotFacts
    <3>2. repo'.refs[next] = Commit("result", repo.work)
      BY <3>1 DEF SetRef
    <3> QED BY <3>1, <3>2 DEF Commit
  <2> QED BY <2>1, <2>2, <2>3 DEF SingleInv
<1>7. CASE ResetBetweenCandidates
  BY <1>7 DEF ResetBetweenCandidates, SingleInv
<1>8. CASE AcceptStep \/ ReplanStep \/ RejectStep
  BY <1>8 DEF AcceptStep, ReplanStep, RejectStep, ConcludeStep, SingleInv
<1>9. CASE FinalVerification \/ IntegrationTests \/ BuildFinalReport
           \/ FinalizeWinner \/ DeleteCandidateBranches \/ TeardownEnvironment
  BY <1>1, <1>9 DEF FinalVerification, IntegrationTests, BuildFinalReport, FinalizeWinner,
     FinalizeStep, DeleteCandidateBranches, TeardownEnvironment
<1>10. CASE ActivityFails
  BY <1>10 DEF ActivityFails, SingleInv
<1>11. CASE UNCHANGED vars
  BY <1>11 DEF vars, SingleInv
<1> QED BY <1>2, <1>3, <1>4, <1>5, <1>6, <1>7, <1>8, <1>9, <1>10, <1>11
        DEF Next, WorkflowStep, Finished
-----------------------------------------------------------------------------
(* What the workspace value stands for *)

(* It holds when the workflow starts. *)
LEMMA CarriedInit == Init => CarriedInv
<1> SUFFICES ASSUME Init PROVE CarriedInv
  OBVIOUS
<1>1. PICK w \in Trees : repo = Repo(Home, [b \in {Home} |-> OriginCommit], Origin, w)
  BY DEF Init
<1>2. /\ repo.refs = [b \in {Home} |-> OriginCommit]
      /\ OriginCommit.tree = Origin
  BY <1>1 DEF Repo, OriginCommit, Commit
<1>3. repo.refs[Home].tree = Origin
  BY <1>2
<1> QED BY <1>2, <1>3 DEF Init, CarriedInv, WorkspaceOf

(* A step that moves neither a ref nor the workspace value keeps it, ... *)
LEMMA CarriedSame ==
    ASSUME CarriedInv, SameRefs(repo, repo'), UNCHANGED <<ws, histVars>>,
           phase' \in Early => phase \in Early,
           phase' \in {"implement", "snapshot_result"} =>
             next' = next /\ phase = "implement",
           report'.verdict = "blocked" => report.verdict = "blocked" \/ phase \in Early
    PROVE  CarriedInv'
BY DEF CarriedInv, SameRefs, histVars

(* ... and so does one that leaves the branch of that value alone. *)
LEMMA CarriedElsewhere ==
    ASSUME CarriedInv, UNCHANGED <<ws, histVars, report>>, phase' \notin Early,
           phase' \in {"implement", "snapshot_result"} => ws.branch # next',
           ws.branch \in DOMAIN repo'.refs =>
             ws.branch \in DOMAIN repo.refs
             /\ repo'.refs[ws.branch] = repo.refs[ws.branch]
    PROVE  CarriedInv'
BY DEF CarriedInv, histVars

(* The conclusion of a step keeps it: what the selected candidate left is  *)
(* in the tree and on its branch.                                          *)
LEMMA CarriedConcluded ==
    ASSUME IndInv, EarlyInv, SingleInv, CarriedInv, AcceptStep \/ ReplanStep \/ RejectStep
    PROVE  CarriedInv'
<1> USE DEF histVars, endVars
<1>1. IsRepo(repo) /\ phase = "conclude_step" /\ phase' = "refresh_evidence"
      /\ report' = report
  BY DEF IndInv, TypeOK, AcceptStep, ReplanStep, RejectStep, ConcludeStep
<1>2. report.verdict # "blocked"
  BY <1>1 DEF EarlyInv
<1>3. /\ DOMAIN candidates = {1} /\ candidates[1].tree = repo.work
      /\ repo.refs[candidates[1].index].tree = candidates[1].tree
  <2>1. candidates \in Seq([index : Nat, result : Results(MaxPassed), tree : Trees])
        /\ Len(candidates) = 1
    BY <1>1 DEF IndInv, TypeOK, SingleInv
  <2>2. DOMAIN candidates = {1}
    BY <2>1
  <2> QED BY <1>1, <2>2 DEF SingleInv
<1>4. CASE AcceptStep
  <2>1. /\ repo' = AddAll(repo)
        /\ ws' = [branch |-> candidates[1].index, base |-> Commit("base", repo.work)]
        /\ accepted' = candidates[1].tree /\ winner' = candidates[1].tree
    BY <1>3, <1>4 DEF AcceptStep, SnapshotBase, WorkspaceOf, BaseSnapshot
  <2>2. repo'.refs = repo.refs
    BY <1>1, <2>1, AddAllFacts
  <2> QED BY <1>1, <1>2, <1>3, <2>1, <2>2 DEF CarriedInv, Commit, Early
<1>5. CASE ReplanStep
  <2>1. /\ repo' = repo /\ accepted' = accepted
        /\ ws' = [branch |-> candidates[1].index, base |-> ws.base]
        /\ winner' = candidates[1].tree
    BY <1>3, <1>5 DEF ReplanStep, WorkspaceOf
  <2> QED BY <1>1, <1>2, <1>3, <2>1 DEF CarriedInv, Early
<1>6. CASE RejectStep
  <2>1. repo' = repo /\ ws' = ws /\ UNCHANGED histVars
    BY <1>6 DEF RejectStep
  <2> QED BY <1>1, <1>2, <2>1, CarriedElsewhere DEF Early
<1> QED BY <1>4, <1>5, <1>6

(* A step of a candidate keeps it: it moves the candidate's branch, which  *)
(* is not the one the workspace value names.                               *)
LEMMA CarriedCandidate ==
    ASSUME SingleCandidate, IndInv, SingleInv, CarriedInv,
           \/ BeginStepCandidate \/ Implement \/ SnapshotCandidateResult
           \/ ResetBetweenCandidates
    PROVE  CarriedInv'
<1> USE DEF bootVars, stepVars, loopVars, endVars, histVars
<1>1. /\ IsRepo(repo) /\ SameRefs(repo, repo) /\ next \in Nat /\ next \in Branches
      /\ ws.base \in Commits
  BY HomeIsNoIndex DEF IndInv, TypeOK, IsWorkspace, SameRefs
<1>2. CASE BeginStepCandidate
  <2>1. /\ phase = "begin_candidate" /\ phase' \in {"failed", "implement"}
        /\ UNCHANGED <<ws, histVars, report, next>>
        /\ repo' = repo \/ repo' = CheckoutNew(repo, next, ws.base)
    BY <1>2 DEF BeginStepCandidate, BeginCandidate
  <2>2. ws.branch # next
    <3>1. ws.branch < next
      BY <2>1 DEF IndInv, BranchesExist, BranchesBelowNext, Terminal
    <3> QED BY <1>1, <3>1
  <2>3. repo'.refs \in {repo.refs, SetRef(repo.refs, next, ws.base)}
    BY <1>1, <2>1, CheckoutNewFacts
  <2>4. ws.branch \in DOMAIN repo'.refs =>
          ws.branch \in DOMAIN repo.refs /\ repo'.refs[ws.branch] = repo.refs[ws.branch]
    BY <2>2, <2>3 DEF SetRef
  <2> QED BY <2>1, <2>2, <2>4, CarriedElsewhere DEF Early
<1>3. CASE Implement
  <2>1. SameRefs(repo, repo')
    BY <1>1, <1>3, AgentEditsFacts DEF Implement
  <2> QED BY <1>3, <2>1, CarriedSame DEF Implement, Early
<1>4. CASE SnapshotCandidateResult
  <2>1. /\ phase = "snapshot_result" /\ repo.head = next /\ ws.branch # next
        /\ repo' = SnapshotResult(repo)
        /\ UNCHANGED <<ws, histVars, report>>
        /\ phase' \in {"reset_to_base", "conclude_step"}
    BY <1>4 DEF SnapshotCandidateResult, IndInv, HeadOnCandidate, CarriedInv
  <2>2. repo'.refs = SetRef(repo.refs, next, Commit("result", repo.work))
    BY <1>1, <2>1, ResultSnapshotFacts
  <2>3. ws.branch \in DOMAIN repo'.refs =>
          ws.branch \in DOMAIN repo.refs /\ repo'.refs[ws.branch] = repo.refs[ws.branch]
    BY <2>1, <2>2 DEF SetRef
  <2> QED BY <2>1, <2>3, CarriedElsewhere DEF Early
<1>5. CASE ResetBetweenCandidates
  BY <1>5 DEF ResetBetweenCandidates, SingleInv
<1> QED BY <1>2, <1>3, <1>4, <1>5

(* Finalization keeps it, branch deletion included. *)
LEMMA CarriedFinalized ==
    ASSUME IndInv, CarriedInv, FinalizeWinner \/ DeleteCandidateBranches
    PROVE  CarriedInv'
<1> USE DEF bootVars, stepVars, loopVars, endVars, histVars
<1>1. /\ IsRepo(repo) /\ SameRefs(repo, repo)
      /\ UNCHANGED <<ws, histVars, report>>
      /\ phase' \in {"return_home", "apply_winner", "unstage", "delete_branches", "teardown"}
  BY DEF IndInv, TypeOK, SameRefs, FinalizeWinner, DeleteCandidateBranches, FinalizeStep
<1>2. ASSUME \A b \in DOMAIN repo'.refs :
               b \in DOMAIN repo.refs /\ repo'.refs[b] = repo.refs[b]
      PROVE  CarriedInv'
  BY <1>1, <1>2, CarriedElsewhere DEF Early
<1>3. CASE FinalizeStep("discard", "return_home", DiscardUncommitted(repo))
  BY <1>1, <1>2, <1>3, DiscardFacts DEF FinalizeStep, SameRefs
<1>4. CASE FinalizeStep("return_home", "apply_winner", ReturnHome(repo))
  <2>1. repo'.refs = repo.refs
    BY <1>4 DEF FinalizeStep, ReturnHome, CheckoutBranch, Switch, Repo
  <2> QED BY <1>2, <2>1
<1>5. CASE FinalizeStep("apply_winner", "unstage", ApplyWinner(repo, ws.branch))
  <2>1. repo'.refs = repo.refs
    BY <1>5 DEF FinalizeStep, ApplyWinner, CheckoutPaths, Repo
  <2> QED BY <1>2, <2>1
<1>6. CASE FinalizeStep("unstage",
                        IF CleanupBranches THEN "delete_branches" ELSE "teardown",
                        Unstage(repo))
  <2>1. repo'.refs = repo.refs
    BY <1>6 DEF FinalizeStep, Unstage, ResetMixed, Repo
  <2> QED BY <1>2, <2>1
<1>7. CASE DeleteCandidateBranches
  <2>1. PICK b : repo' = DeleteBranch(repo, b) \/ repo' = repo
    BY <1>7 DEF DeleteCandidateBranches, FinalizeStep
  <2> QED BY <1>2, <2>1 DEF DeleteBranch, Repo
<1> QED BY <1>3, <1>4, <1>5, <1>6, <1>7 DEF FinalizeWinner

(* An activity that fails moves no ref, the reset between candidates aside. *)
LEMMA FailureMovesNoRef ==
    ASSUME IndInv, ActivityFails, phase # "reset_to_base"
    PROVE  SameRefs(repo, repo')
<1>1. IsRepo(repo) /\ SameRefs(repo, repo) /\ repo' \in Interrupted(repo)
  BY DEF IndInv, TypeOK, SameRefs, ActivityFails
<1>2. repo' \in Edited(repo) => SameRefs(repo, repo')
  BY <1>1, EditedFacts
<1>3. SameRefs(repo, AddAll(repo)) /\ SameRefs(repo, ResetHard(repo, repo.refs[repo.head]))
  BY <1>1, AddAllFacts, DiscardFacts DEF SameRefs
<1>4. repo' \in Littered(repo) \cup Littered(RestoredRepo) => SameRefs(repo, repo')
  BY <1>1, LitteredFacts, RestoredFacts
<1> QED BY <1>1, <1>2, <1>3, <1>4 DEF Interrupted

(* Every step keeps it. *)
LEMMA CarriedStep ==
    ASSUME SingleCandidate, IndInv, EarlyInv, SingleInv, CarriedInv, [Next]_vars
    PROVE  CarriedInv'
<1> USE DEF bootVars, stepVars, loopVars, endVars, histVars
<1>1. IsRepo(repo) /\ SameRefs(repo, repo)
  BY DEF IndInv, TypeOK, SameRefs
<1>2. CASE BuildContract \/ SetupEnvironment \/ BuildRepoIndex
  BY <1>1, <1>2, CarriedSame DEF BuildContract, SetupEnvironment, BuildRepoIndex, Early
<1>3. CASE PlanReproduction \/ Reproduce
  <2>1. SameRefs(repo, repo')
    BY <1>1, <1>3, LitteredFacts, AgentEditsFacts DEF PlanReproduction, Reproduce
  <2> QED BY <1>3, <2>1, CarriedSame DEF PlanReproduction, Reproduce, Early
<1>4. CASE SnapshotReproduction
  <2>1. /\ phase = "snapshot_reproduction" /\ phase' = "replan" /\ report' = report
        /\ repo' = AddAll(repo)
        /\ ws' = [branch |-> ws.branch, base |-> Commit("base", repo.work)]
        /\ accepted' = repo.work /\ winner' = winner
    BY <1>4 DEF SnapshotReproduction, SnapshotBase, WorkspaceOf, BaseSnapshot
  <2>2. repo'.refs = repo.refs
    BY <1>1, <2>1, AddAllFacts
  <2>3. report.verdict # "blocked"
    BY <2>1 DEF EarlyInv
  <2> QED BY <2>1, <2>2, <2>3 DEF CarriedInv, Commit, Early
<1>5. CASE Replan \/ PlannerTurnCap \/ RefreshPlanningEvidence
  <2>1. SameRefs(repo, repo')
    BY <1>1, <1>5, LitteredFacts DEF Replan, PlannerTurnCap, RefreshPlanningEvidence
  <2> QED BY <1>5, <2>1, CarriedSame
          DEF Replan, PlannerTurnCap, RefreshPlanningEvidence, Early
<1>6. CASE \/ BeginStepCandidate \/ Implement \/ SnapshotCandidateResult
           \/ ResetBetweenCandidates
  BY <1>6, CarriedCandidate
<1>7. CASE AcceptStep \/ ReplanStep \/ RejectStep
  BY <1>7, CarriedConcluded
<1>8. CASE FinalVerification \/ IntegrationTests
  <2>1. SameRefs(repo, repo')
    BY <1>1, <1>8, LitteredFacts, RestoredFacts DEF FinalVerification, IntegrationTests
  <2> QED BY <1>8, <2>1, CarriedSame DEF FinalVerification, IntegrationTests, Early
<1>9. CASE BuildFinalReport
  <2>1. /\ repo' = repo /\ UNCHANGED <<ws, histVars>> /\ phase' = "discard"
        /\ report'.verdict \in Decisions
    BY <1>9 DEF BuildFinalReport
  <2> QED BY <1>1, <2>1, CarriedSame DEF Early, Decisions
<1>10. CASE FinalizeWinner \/ DeleteCandidateBranches
  BY <1>10, CarriedFinalized
<1>11. CASE TeardownEnvironment
  BY <1>1, <1>11, CarriedSame DEF TeardownEnvironment, Early
<1>12. CASE ActivityFails
  BY <1>12, FailureMovesNoRef, CarriedSame DEF ActivityFails, SingleInv, Early
<1>13. CASE UNCHANGED vars
  BY <1>13 DEF vars, CarriedInv
<1> QED BY <1>2, <1>3, <1>4, <1>5, <1>6, <1>7, <1>8, <1>9, <1>10, <1>11, <1>12, <1>13
        DEF Next, WorkflowStep, Finished
-----------------------------------------------------------------------------
(* Finalization, command by command *)

(* reset --hard of HEAD and clean leave exactly what HEAD holds. *)
LEMMA DiscardIsClean ==
    ASSUME NEW r, IsRepo(r)
    PROVE  /\ DiscardUncommitted(r).work = HeadTree(r)
           /\ DiscardUncommitted(r).index = HeadTree(r)
           /\ HeadTree(DiscardUncommitted(r)) = HeadTree(r)
<1> DEFINE w == WorkspaceOf(r.head, r.refs[r.head])
           s == DiscardUncommitted(r)
<1>1. r.head \in DOMAIN r.refs /\ r.head \in Branches /\ r.refs[r.head] \in Commits
  BY DEF IsRepo
<1>2. IsWorkspace(w) /\ w.base.tree = HeadTree(r) /\ s = ResetToBase(r, w)
  BY <1>1 DEF IsWorkspace, WorkspaceOf, HeadTree, ResetToBase, DiscardUncommitted
<1>3. s.work = HeadTree(r) /\ s.index = HeadTree(r)
  <2> HIDE DEF w, s
  <2> QED BY <1>2, ResetReachesBase
<1>4. SameRefs(r, s)
  BY DiscardFacts
<1>5. s.refs[s.head] = r.refs[r.head]
  <2> HIDE DEF s
  <2> QED BY <1>1, <1>4 DEF SameRefs
<1> QED BY <1>3, <1>5 DEF HeadTree

(* From a clean tree git checkout of a branch reaches the branch's tree. *)
LEMMA CheckoutBranchReaches ==
    ASSUME NEW r, IsRepo(r), NEW b \in DOMAIN r.refs,
           r.work = HeadTree(r), r.index = HeadTree(r)
    PROVE  CheckoutBranch(r, b).work = r.refs[b].tree
<1> DEFINE t == r.refs[b].tree
           s == CheckoutBranch(r, b)
<1>1. t \in Trees
  BY DEF IsRepo, Commits
<1>2. s.work = [f \in Files |-> IF Moves(r, f, t) THEN t[f] ELSE r.work[f]]
  BY DEF CheckoutBranch, Switch, Repo
<1>3. \A f \in Files : ~Moves(r, f, t) => r.work[f] = t[f]
  BY DEF Moves
<1>4. s.work = [f \in Files |-> t[f]]
  <2> HIDE DEF t, s
  <2> QED BY <1>2, <1>3
<1> QED
  <2> HIDE DEF t, s
  <2>1. s.work = t
    BY <1>1, <1>4 DEF Trees
  <2> QED BY <2>1 DEF s, t

(* The overlay of all files over the user's tree is the delivery. *)
LEMMA OverlayIsDelivery ==
    ASSUME NEW r, NEW t, r.work = Origin
    PROVE  CheckoutPaths(r, t, Files).work = Delivery(t)
BY DEF CheckoutPaths, Repo, Delivery

(* Nothing is said of the first phase. *)
LEMMA FinalInit == Init => FinalInv
BY DEF Init, FinalInv

(* A run that fails before branches are deleted still has the branch. *)
LEMMA FinalBeforeDelivery ==
    ASSUME IndInv, SameRefs(repo, repo'), ws' = ws,
           phase \notin {"delete_branches", "teardown"} \cup Terminal,
           phase' \notin FinalizePhases \cup {"teardown", "done"}
    PROVE  FinalInv'
<1>1. ws.branch \in DOMAIN repo.refs
  BY DEF IndInv, BranchesExist
<1> QED BY <1>1 DEF FinalInv, FinalizePhases, SameRefs

(* Finalization keeps it. *)
LEMMA FinalFinalized ==
    ASSUME IndInv, CarriedInv, FinalInv, FinalizeWinner \/ DeleteCandidateBranches
    PROVE  FinalInv'
<1> USE DEF bootVars, stepVars, loopVars, endVars, histVars
<1>1. IsRepo(repo) /\ Home \in DOMAIN repo.refs /\ repo.refs[Home].tree = Origin
      /\ UNCHANGED <<ws, winner, report>>
  BY DEF IndInv, TypeOK, HomeUnmoved, OriginCommit, Commit, FinalizeWinner,
         DeleteCandidateBranches, FinalizeStep
<1>2. CASE FinalizeStep("discard", "return_home", DiscardUncommitted(repo))
  <2>1. phase' = "return_home" /\ repo' = DiscardUncommitted(repo)
    BY <1>2 DEF FinalizeStep
  <2>2. repo'.work = HeadTree(repo') /\ repo'.index = HeadTree(repo')
    BY <1>1, <2>1, DiscardIsClean
  <2>3. HeadTree(repo)' = HeadTree(repo')
    BY DEF HeadTree
  <2> QED BY <2>1, <2>2, <2>3 DEF FinalInv
<1>3. CASE FinalizeStep("return_home", "apply_winner", ReturnHome(repo))
  <2>1. /\ phase = "return_home" /\ phase' = "apply_winner"
        /\ repo' = CheckoutBranch(repo, Home)
    BY <1>3 DEF FinalizeStep, ReturnHome
  <2>2. repo'.work = Origin
    BY <1>1, <2>1, CheckoutBranchReaches DEF FinalInv
  <2> QED BY <2>1, <2>2 DEF FinalInv
<1>4. CASE FinalizeStep("apply_winner", "unstage", ApplyWinner(repo, ws.branch))
  <2>1. /\ phase = "apply_winner" /\ phase' = "unstage" /\ repo.work = Origin
        /\ repo' = CheckoutPaths(repo, repo.refs[ws.branch].tree, Files)
    BY <1>4 DEF FinalizeStep, ApplyWinner, FinalInv
  <2>2. repo.refs[ws.branch].tree = winner
    BY <2>1 DEF IndInv, BranchesExist, Terminal, CarriedInv
  <2>3. repo'.work = Delivery(winner)
    BY <2>1, <2>2, OverlayIsDelivery
  <2> QED BY <1>1, <2>1, <2>3 DEF FinalInv, Delivery
<1>5. CASE FinalizeStep("unstage",
                        IF CleanupBranches THEN "delete_branches" ELSE "teardown",
                        Unstage(repo))
  <2>1. /\ phase = "unstage" /\ phase' \in {"delete_branches", "teardown"}
        /\ repo'.work = repo.work
    BY <1>5 DEF FinalizeStep, Unstage, ResetMixed, Repo
  <2> QED BY <1>1, <2>1 DEF FinalInv, Delivery
<1>6. CASE DeleteCandidateBranches
  <2>1. /\ phase = "delete_branches" /\ phase' \in {"delete_branches", "teardown"}
        /\ \E b : repo' = DeleteBranch(repo, b) \/ repo' = repo
    BY <1>6 DEF DeleteCandidateBranches, FinalizeStep
  <2>2. repo'.work = repo.work
    BY <2>1 DEF DeleteBranch, Repo
  <2> QED BY <1>1, <2>1, <2>2 DEF FinalInv, Delivery
<1> QED BY <1>2, <1>3, <1>4, <1>5, <1>6 DEF FinalizeWinner

(* A failure after delivery leaves the delivered tree, one before it the   *)
(* branch.                                                                 *)
LEMMA FinalFailed ==
    ASSUME IndInv, EarlyInv, SingleInv, CarriedInv, FinalInv, ActivityFails
    PROVE  FinalInv'
<1>1. /\ phase \notin Terminal /\ phase' = "failed" /\ repo' \in Interrupted(repo)
      /\ UNCHANGED <<ws, winner, report>> /\ phase # "reset_to_base"
  BY DEF ActivityFails, histVars, endVars, SingleInv
<1>2. CASE phase \in {"delete_branches", "teardown"}
  <2>1. repo' = repo
    BY <1>1, <1>2 DEF Interrupted
  <2>2. Home \in DOMAIN repo.refs /\ (report.verdict = "blocked" => ws.branch = Home)
    BY DEF IndInv, HomeUnmoved, CarriedInv
  <2> QED BY <1>1, <1>2, <2>1, <2>2 DEF FinalInv, Delivery
<1>3. CASE phase \notin {"delete_branches", "teardown"}
  BY <1>1, <1>3, FailureMovesNoRef, FinalBeforeDelivery DEF FinalizePhases
<1> QED BY <1>2, <1>3

(* Every step keeps it. *)
LEMMA FinalStep ==
    ASSUME SingleCandidate, IndInv, EarlyInv, SingleInv, CarriedInv, FinalInv, [Next]_vars
    PROVE  FinalInv'
<1> USE DEF bootVars, stepVars, loopVars, endVars, histVars
<1>1. IsRepo(repo) /\ SameRefs(repo, repo)
  BY DEF IndInv, TypeOK, SameRefs
<1>2. ASSUME phase' \notin FinalizePhases \cup {"teardown", "done", "failed"}
      PROVE  FinalInv'
  BY <1>2 DEF FinalInv, FinalizePhases
<1>3. CASE SetupEnvironment
  BY <1>1, <1>3, FinalBeforeDelivery DEF SetupEnvironment, FinalizePhases, Terminal
<1>4. CASE BuildContract \/ BuildRepoIndex \/ PlanReproduction \/ SnapshotReproduction
           \/ PlannerTurnCap \/ RefreshPlanningEvidence \/ Implement
           \/ SnapshotCandidateResult \/ ResetBetweenCandidates
  BY <1>2, <1>4 DEF BuildContract, BuildRepoIndex, PlanReproduction, SnapshotReproduction,
     PlannerTurnCap, RefreshPlanningEvidence, Implement, SnapshotCandidateResult,
     ResetBetweenCandidates, FinalizePhases
<1>5. CASE Reproduce
  BY <1>2, <1>5 DEF Reproduce, FinalInv, FinalizePhases
<1>6. CASE Replan
  <2>1. SameRefs(repo, repo')
    BY <1>1, <1>6, LitteredFacts DEF Replan
  <2>2. /\ phase = "replan" /\ ws' = ws
        /\ phase' \in {"replan", "failed", "begin_candidate", "final_verification"}
    BY <1>6 DEF Replan
  <2> QED BY <2>1, <2>2, FinalBeforeDelivery DEF FinalizePhases, Terminal
<1>7. CASE BeginStepCandidate
  <2>1. /\ phase = "begin_candidate" /\ ws' = ws
        /\ phase' = "implement" \/ (phase' = "failed" /\ repo' = repo)
    BY <1>7 DEF BeginStepCandidate
  <2> QED BY <1>1, <1>2, <2>1, FinalBeforeDelivery DEF FinalizePhases, Terminal
<1>8. CASE AcceptStep \/ ReplanStep \/ RejectStep
  BY <1>2, <1>8 DEF AcceptStep, ReplanStep, RejectStep, ConcludeStep, FinalizePhases
<1>9. CASE FinalVerification \/ IntegrationTests
  BY <1>2, <1>9 DEF FinalVerification, IntegrationTests, FinalizePhases
<1>10. CASE BuildFinalReport
  BY <1>10 DEF BuildFinalReport, FinalInv, FinalizePhases
<1>11. CASE FinalizeWinner \/ DeleteCandidateBranches
  BY <1>11, FinalFinalized
<1>12. CASE TeardownEnvironment
  BY <1>12 DEF TeardownEnvironment, FinalInv, Delivery
<1>13. CASE ActivityFails
  BY <1>13, FinalFailed
<1>14. CASE UNCHANGED vars
  BY <1>14 DEF vars, FinalInv, Delivery, HeadTree
<1> QED BY <1>3, <1>4, <1>5, <1>6, <1>7, <1>8, <1>9, <1>10, <1>11, <1>12, <1>13, <1>14
        DEF Next, WorkflowStep, Finished
-----------------------------------------------------------------------------
(* The theorems *)

DeliveryInv == IndInv /\ EarlyInv /\ SingleInv /\ CarriedInv /\ FinalInv

(* With one candidate per step the strengthening holds in every reachable  *)
(* state, whatever planner tools and test runs leave behind.               *)
THEOREM DeliveryInvariance ==
    ASSUME SingleCandidate
    PROVE  Spec => []DeliveryInv
<1>1. Init => DeliveryInv
  BY InitInd, EarlyInit, SingleInit, CarriedInit, FinalInit DEF DeliveryInv
<1>2. DeliveryInv /\ [Next]_vars => DeliveryInv'
  BY NextInd, EarlyStep, SingleStep, CarriedStep, FinalStep DEF DeliveryInv
<1> QED BY <1>1, <1>2, PTL DEF Spec

(* The base that later attempts start from is the tree the accepted        *)
(* candidate left.                                                         *)
THEOREM BaseIsAccepted ==
    ASSUME SingleCandidate
    PROVE  Spec => []BaseIsSelectedCandidate
<1>1. DeliveryInv => BaseIsSelectedCandidate
  BY DEF DeliveryInv, CarriedInv, BaseIsSelectedCandidate
<1> QED BY <1>1, DeliveryInvariance, PTL

(* The selected result is on the branch to be delivered or in the user's   *)
(* tree, in every state, wherever the run fails.                           *)
THEOREM SelectedWorkIsKept ==
    ASSUME SingleCandidate
    PROVE  Spec => []SelectedWorkSurvives
<1>1. DeliveryInv => SelectedWorkSurvives
  <2> SUFFICES ASSUME DeliveryInv, ws.branch \notin DOMAIN repo.refs
               PROVE  \A f \in Files : winner[f] # Absent => repo.work[f] = winner[f]
    BY DEF DeliveryInv, CarriedInv, SelectedWorkSurvives
  <2>1. Home \in DOMAIN repo.refs
    BY DEF DeliveryInv, IndInv, HomeUnmoved
  <2>2. phase \in {"delete_branches", "teardown"} \cup Terminal
    BY DEF DeliveryInv, IndInv, BranchesExist
  <2>3. report.verdict # "blocked"
    BY <2>1 DEF DeliveryInv, CarriedInv
  <2>4. repo.work = Delivery(winner)
    BY <2>2, <2>3 DEF DeliveryInv, FinalInv, Terminal
  <2> QED BY <2>4 DEF Delivery
<1> QED BY <1>1, DeliveryInvariance, PTL
-----------------------------------------------------------------------------
(* The refinement *)

(* Where branches are still there or gone, the tip is the selected result. *)
LEMMA TipIsWinner == DeliveryInv => AbstractTip = winner
BY DEF DeliveryInv, CarriedInv, AbstractTip

(* The commits and histories the abstract values are read off hold trees. *)
LEMMA AbstractTypes == DeliveryInv => ws.base.tree \in Trees /\ winner \in Trees
BY DEF DeliveryInv, IndInv, TypeOK, IsWorkspace, Commits

(* Before delivery and failure a run is working and nothing is delivered. *)
LEMMA WorkingOutcome ==
    ASSUME phase \notin {"failed", "delete_branches", "teardown", "done"}
    PROVE  AbstractOutcome = "working" /\ AbstractDelivered = Origin
BY DEF AbstractOutcome, AbstractDelivered

(* The initial state maps to the abstract one. *)
LEMMA RefinementInit == Init => Abstract!PatchInit
<1> SUFFICES ASSUME Init PROVE Abstract!PatchInit
  OBVIOUS
<1>1. PICK w \in Trees : repo = Repo(Home, [b \in {Home} |-> OriginCommit], Origin, w)
  BY DEF Init
<1>2. repo.refs = [b \in {Home} |-> OriginCommit] /\ OriginCommit.tree = Origin
  BY <1>1 DEF Repo, OriginCommit, Commit
<1>3. ws = WorkspaceOf(Home, OriginCommit) /\ winner = Origin /\ phase = "build_contract"
  BY DEF Init
<1>4. ws.branch = Home /\ ws.base.tree = Origin
  BY <1>2, <1>3 DEF WorkspaceOf
<1>5. AbstractTip = Origin
  BY <1>2, <1>4 DEF AbstractTip
<1> QED BY <1>3, <1>4, <1>5, WorkingOutcome DEF Abstract!PatchInit

(* A step that keeps base, selection, outcome and delivery is a stutter. *)
LEMMA Stutters ==
    ASSUME DeliveryInv, DeliveryInv', ws'.base = ws.base, winner' = winner,
           AbstractOutcome' = AbstractOutcome, AbstractDelivered' = AbstractDelivered
    PROVE  UNCHANGED Abstract!patchVars
<1>1. AbstractTip = winner
  BY TipIsWinner
<1>2. AbstractTip' = winner'
  BY DEF DeliveryInv, CarriedInv, AbstractTip
<1> QED BY <1>1, <1>2 DEF Abstract!patchVars

(* Bootstrap, planning and the candidates leave the patch alone, except for *)
(* the reproduction snapshot and the conclusion of a step.                  *)
LEMMA RefinesWhileWorking ==
    ASSUME DeliveryInv, DeliveryInv', ws' = ws, winner' = winner,
           phase \notin {"failed", "delete_branches", "teardown", "done"},
           phase' \notin {"failed", "delete_branches", "teardown", "done"}
    PROVE  UNCHANGED Abstract!patchVars
<1>1. AbstractOutcome = "working" /\ AbstractDelivered = Origin
  BY WorkingOutcome
<1>2. AbstractOutcome' = "working" /\ AbstractDelivered' = Origin
  BY DEF AbstractOutcome, AbstractDelivered
<1> QED BY <1>1, <1>2, Stutters

(* A step that ends in failure aborts the patch. *)
LEMMA RefinesFailure ==
    ASSUME DeliveryInv, DeliveryInv', ws' = ws, winner' = winner,
           phase # "failed", phase' = "failed"
    PROVE  Abstract!Abort
<1>1. AbstractTip = winner
  BY TipIsWinner
<1>2. AbstractTip' = winner'
  BY DEF DeliveryInv, CarriedInv, AbstractTip
<1>3. AbstractOutcome # "aborted"
  BY DEF AbstractOutcome
<1>4. AbstractOutcome' = "aborted" /\ AbstractDelivered' = Origin
  BY DEF AbstractOutcome, AbstractDelivered
<1> QED BY <1>1, <1>2, <1>3, <1>4 DEF Abstract!Abort

(* The reproduction joins the base. *)
LEMMA RefinesReproduction ==
    ASSUME DeliveryInv, DeliveryInv', SnapshotReproduction
    PROVE  Abstract!Reproduced
<1>1. /\ phase = "snapshot_reproduction" /\ phase' = "replan" /\ winner' = winner
  BY DEF SnapshotReproduction
<1>2. AbstractTip = winner /\ winner = Origin /\ ws.base.tree = Origin
  BY <1>1, TipIsWinner DEF DeliveryInv, CarriedInv, Early
<1>3. AbstractTip' = winner' /\ ws'.base.tree \in Trees
  BY DEF DeliveryInv, CarriedInv, AbstractTip, IndInv, TypeOK, IsWorkspace, Commits
<1>4. /\ AbstractOutcome = "working" /\ AbstractOutcome' = "working"
      /\ AbstractDelivered = Origin /\ AbstractDelivered' = Origin
  BY <1>1 DEF AbstractOutcome, AbstractDelivered
<1> QED BY <1>1, <1>2, <1>3, <1>4
        DEF Abstract!Reproduced, Abstract!PatchTrees, Trees

(* An accepted step is both base and tip, partial work is the tip, and a   *)
(* rejected step is invisible.                                             *)
LEMMA RefinesStep ==
    ASSUME DeliveryInv, DeliveryInv', AcceptStep \/ ReplanStep \/ RejectStep
    PROVE  \/ Abstract!StepAccepted
           \/ Abstract!PartialKept
           \/ UNCHANGED Abstract!patchVars
<1>1. phase = "conclude_step" /\ phase' = "refresh_evidence"
  BY DEF AcceptStep, ReplanStep, RejectStep, ConcludeStep
<1>2. AbstractTip = winner
  BY TipIsWinner
<1>3. /\ AbstractTip' = winner' /\ winner' \in Trees /\ ws'.base.tree \in Trees
      /\ ws'.base.tree = accepted'
  BY DEF DeliveryInv, CarriedInv, AbstractTip, IndInv, TypeOK, IsWorkspace, Commits
<1>4. /\ AbstractOutcome = "working" /\ AbstractOutcome' = "working"
      /\ AbstractDelivered = Origin /\ AbstractDelivered' = Origin
  BY <1>1 DEF AbstractOutcome, AbstractDelivered
<1>5. CASE AcceptStep
  <2>1. accepted' = winner'
    BY <1>5 DEF AcceptStep
  <2> QED BY <1>3, <1>4, <2>1 DEF Abstract!StepAccepted, Abstract!PatchTrees, Trees
<1>6. CASE ReplanStep
  <2>1. ws'.base = ws.base
    BY <1>6 DEF ReplanStep, WorkspaceOf
  <2> QED BY <1>3, <1>4, <2>1 DEF Abstract!PartialKept, Abstract!PatchTrees, Trees
<1>7. CASE RejectStep
  <2>1. ws' = ws /\ winner' = winner
    BY <1>7 DEF RejectStep, histVars
  <2> QED BY <1>1, <2>1, RefinesWhileWorking
<1> QED BY <1>5, <1>6, <1>7

(* The step of finalization that unstages delivers, the ones before it and *)
(* the deletion of branches are invisible.                                 *)
LEMMA RefinesFinalization ==
    ASSUME DeliveryInv, DeliveryInv',
           FinalizeWinner \/ DeleteCandidateBranches
    PROVE  Abstract!Deliver \/ UNCHANGED Abstract!patchVars
<1>1. /\ ws' = ws /\ winner' = winner /\ report' = report
      /\ phase \notin {"teardown", "done", "failed"}
  BY DEF FinalizeWinner, DeleteCandidateBranches, FinalizeStep, histVars, endVars
<1>2. report.verdict # "blocked"
  BY <1>1 DEF DeliveryInv, EarlyInv
<1>3. CASE phase \in {"discard", "return_home", "apply_winner"}
  <2>1. phase' \in {"return_home", "apply_winner", "unstage"}
    BY <1>3 DEF FinalizeWinner, DeleteCandidateBranches, FinalizeStep
  <2> QED BY <1>1, <1>3, <2>1, RefinesWhileWorking
<1>4. CASE phase = "unstage"
  <2>1. phase' \in {"delete_branches", "teardown"}
    BY <1>4 DEF FinalizeWinner, DeleteCandidateBranches, FinalizeStep
  <2>2. AbstractTip = winner
    BY TipIsWinner
  <2>3. AbstractTip' = winner' /\ repo'.work = Delivery(winner')
    BY <1>1, <1>2, <2>1 DEF DeliveryInv, CarriedInv, AbstractTip, FinalInv, Delivery
  <2>4. AbstractOutcome = "working"
    BY <1>4, WorkingOutcome
  <2>5. AbstractOutcome' = "delivered" /\ AbstractDelivered' = repo'.work
    BY <1>1, <1>2, <2>1 DEF AbstractOutcome, AbstractDelivered
  <2> QED BY <1>1, <2>2, <2>3, <2>4, <2>5
          DEF Abstract!Deliver, Abstract!Overlay, Delivery
<1>5. CASE phase = "delete_branches"
  <2>1. phase' \in {"delete_branches", "teardown"}
    BY <1>5 DEF FinalizeWinner, DeleteCandidateBranches, FinalizeStep
  <2>2. repo.work = Delivery(winner) /\ repo'.work = Delivery(winner')
    BY <1>1, <1>2, <1>5, <2>1 DEF DeliveryInv, FinalInv, Delivery
  <2>3. AbstractOutcome = "delivered" /\ AbstractOutcome' = "delivered"
    BY <1>1, <1>2, <1>5, <2>1 DEF AbstractOutcome
  <2>4. AbstractDelivered = repo.work /\ AbstractDelivered' = repo'.work
    BY <2>3 DEF AbstractDelivered
  <2> QED BY <1>1, <2>2, <2>3, <2>4, Stutters DEF Delivery
<1> QED BY <1>3, <1>4, <1>5 DEF FinalizeWinner, DeleteCandidateBranches, FinalizeStep

(* A blocked run reaches its end without ever having delivered. *)
LEMMA RefinesEnd ==
    ASSUME DeliveryInv, DeliveryInv', ws' = ws, winner' = winner, repo' = repo,
           report'.verdict = "blocked" <=> report.verdict = "blocked",
           phase = "teardown", phase' = "done"
    PROVE  UNCHANGED Abstract!patchVars
<1>1. AbstractOutcome' = AbstractOutcome
  BY DEF AbstractOutcome
<1>2. AbstractDelivered' = AbstractDelivered
  BY <1>1 DEF AbstractDelivered
<1> QED BY <1>1, <1>2, Stutters

(* Every step maps to a step of the rolling patch or to a stutter. *)
LEMMA RefinementStep ==
    ASSUME DeliveryInv, DeliveryInv', [Next]_vars
    PROVE  [Abstract!PatchNext]_(Abstract!patchVars)
<1> USE DEF bootVars, stepVars, loopVars, endVars, histVars
<1>1. CASE SnapshotReproduction
  BY <1>1, RefinesReproduction DEF Abstract!PatchNext
<1>2. CASE AcceptStep \/ ReplanStep \/ RejectStep
  BY <1>2, RefinesStep DEF Abstract!PatchNext
<1>3. CASE FinalizeWinner \/ DeleteCandidateBranches
  BY <1>3, RefinesFinalization DEF Abstract!PatchNext
<1>4. CASE BuildContract \/ BuildRepoIndex \/ PlanReproduction \/ PlannerTurnCap
           \/ Implement \/ RefreshPlanningEvidence
           \/ FinalVerification \/ IntegrationTests \/ BuildFinalReport
  BY <1>4, RefinesWhileWorking DEF BuildContract, BuildRepoIndex, PlanReproduction,
     PlannerTurnCap, Implement, RefreshPlanningEvidence, FinalVerification,
     IntegrationTests, BuildFinalReport
<1>5. CASE SnapshotCandidateResult \/ ResetBetweenCandidates
  BY <1>5, RefinesWhileWorking DEF SnapshotCandidateResult, ResetBetweenCandidates
<1>6. CASE SetupEnvironment \/ Replan \/ BeginStepCandidate
  <2>1. /\ ws' = ws /\ winner' = winner
        /\ phase \in {"setup_environment", "replan", "begin_candidate"}
        /\ phase' \in {"build_repo_index", "failed", "replan", "begin_candidate",
                       "final_verification", "implement"}
    BY <1>6 DEF SetupEnvironment, Replan, BeginStepCandidate
  <2> QED BY <2>1, RefinesWhileWorking, RefinesFailure DEF Abstract!PatchNext
<1>7. CASE Reproduce
  <2>1. /\ ws' = ws /\ winner' = winner /\ phase = "reproduce"
        /\ \/ phase' = "snapshot_reproduction"
           \/ phase' = "teardown" /\ report'.verdict = "blocked"
    BY <1>7 DEF Reproduce
  <2>2. CASE phase' = "snapshot_reproduction"
    BY <2>1, <2>2, RefinesWhileWorking
  <2>3. CASE phase' = "teardown" /\ report'.verdict = "blocked"
    <3>1. AbstractOutcome = "working" /\ AbstractDelivered = Origin
      BY <2>1, WorkingOutcome
    <3>2. AbstractOutcome' = "working" /\ AbstractDelivered' = Origin
      BY <2>3 DEF AbstractOutcome, AbstractDelivered
    <3> QED BY <2>1, <3>1, <3>2, Stutters
  <2> QED BY <2>1, <2>2, <2>3
<1>8. CASE TeardownEnvironment
  BY <1>8, RefinesEnd DEF TeardownEnvironment
<1>9. CASE ActivityFails
  BY <1>9, RefinesFailure DEF ActivityFails, Terminal, Abstract!PatchNext
<1>10. CASE UNCHANGED vars
  BY <1>10 DEF vars, Abstract!patchVars, AbstractTip, AbstractOutcome, AbstractDelivered
<1> QED BY <1>1, <1>2, <1>3, <1>4, <1>5, <1>6, <1>7, <1>8, <1>9, <1>10
        DEF Next, WorkflowStep, Finished

(* With one candidate per step the orchestration over git branches is a    *)
(* rolling patch: attempts start from the accepted tree, what is delivered *)
(* is the selected result over the user's own tree, and a run that fails   *)
(* delivers nothing.                                                       *)
THEOREM ImplementsRollingPatch ==
    ASSUME SingleCandidate
    PROVE  Spec => RollingPatchSpec
<1>1. DeliveryInv /\ DeliveryInv' /\ [Next]_vars
      => [Abstract!PatchNext]_(Abstract!patchVars)
  BY RefinementStep
<1> QED BY <1>1, RefinementInit, DeliveryInvariance, PTL
        DEF Spec, RollingPatchSpec, Abstract!PatchSpec
=============================================================================
