------------------------------ MODULE StepProofs ------------------------------
(***************************************************************************)
(* Theorems about one implementation step, for any files, contents, rounds *)
(* and calls, and any number of test results run or claimed.               *)
(***************************************************************************)
EXTENDS ImplementationStep, WellFoundedInduction, FiniteSetTheorems,
        SequenceTheorems, TLAPS

(* The test runs that a number of rounds have room for. *)
Room(n) == n * MaxCalls

(* Tests run fit into the rounds there were, with the calls still to run.  *)
Rounds ==
    /\ pc = "llm" => Len(ran) <= Room(round)
    /\ pc \in {"tools", "protect"} =>
         round < MaxToolRounds /\ Len(ran) + calls <= Room(round + 1)

(* What is reported shows the last run, and one pass at most. *)
Reports ==
    /\ pc \in {"review", "anchor", "verdict"} => result.status = "success"
    /\ LastRunReported
    /\ AtMostOnePassReported

(* The reviewer is shown the diff; only what the anchor tests touch after  *)
(* that can differ from it.                                                *)
Reviews ==
    /\ pc = "anchor" => reviewed = DiffTree(repo)
    /\ pc = "verdict" \/ (pc = "returned" /\ result.status = "success") =>
         \A f \in Files \ late : reviewed[f] = DiffTree(repo)[f]

(* Where no protection pass is due, every protected test that is changed   *)
(* has escaped in one of the known ways.                                   *)
EscapesOnly ==
    Guarded /\ pc \in {"llm", "tools", "review", "anchor", "verdict", "returned"} =>
        \A f \in Tests \ {ReproFile} : repo.work[f] # Base[f] => Escaped(f)

IndInv == TypeOK /\ Rounds /\ Reports /\ Reviews /\ EscapesOnly

-----------------------------------------------------------------------------
(* The git operators of a step keep a repository a repository.             *)

(* Changing index and working tree only. *)
LEMMA KeepRefs ==
    ASSUME NEW r, IsRepo(r), NEW i \in Trees, NEW w \in Trees
    PROVE  LET s == Repo(r.head, r.refs, i, w)
           IN  IsRepo(s) /\ s.head = r.head /\ s.refs = r.refs
BY DEF IsRepo, Repo

(* Pointing a branch at a commit keeps a ref map well-formed. *)
LEMMA SetRefType ==
    ASSUME NEW refs, DOMAIN refs \subseteq Branches,
           \A x \in DOMAIN refs : refs[x] \in Commits,
           NEW b \in Branches, NEW c \in Commits
    PROVE  /\ DOMAIN SetRef(refs, b, c) \subseteq Branches
           /\ \A x \in DOMAIN SetRef(refs, b, c) : SetRef(refs, b, c)[x] \in Commits
BY DEF SetRef

(* A commit of a tree holds that tree. *)
LEMMA CommitType ==
    ASSUME NEW kind \in Kinds, NEW t \in Trees
    PROVE  Commit(kind, t) \in Commits /\ Commit(kind, t).tree = t
BY DEF Commit, Commits

(* git add -A copies the working tree to the index and moves no ref. *)
LEMMA AddAllFacts ==
    ASSUME NEW r, IsRepo(r)
    PROVE  /\ IsRepo(AddAll(r))
           /\ AddAll(r).head = r.head /\ AddAll(r).refs = r.refs
           /\ AddAll(r).index = r.work /\ AddAll(r).work = r.work
BY DEF AddAll, IsRepo, Repo

(* git reset --hard moves the ref of the current branch only. *)
LEMMA ResetHardFacts ==
    ASSUME NEW r, IsRepo(r), NEW c \in Commits
    PROVE  /\ IsRepo(ResetHard(r, c))
           /\ ResetHard(r, c).head = r.head
           /\ ResetHard(r, c).refs = SetRef(r.refs, r.head, c)
<1> DEFINE w == [f \in Files |-> IF r.index[f] = Absent /\ c.tree[f] = Absent
                                 THEN r.work[f] ELSE c.tree[f]]
           s == Repo(r.head, SetRef(r.refs, r.head, c), c.tree, w)
<1>1. c.tree \in Trees
  BY DEF Commits
<1>2. w \in Trees
  BY <1>1 DEF Trees, IsRepo
<1>3. /\ r.head \in DOMAIN r.refs /\ DOMAIN r.refs \subseteq Branches
      /\ \A b \in DOMAIN r.refs : r.refs[b] \in Commits
  BY DEF IsRepo
<1>4. /\ r.head \in DOMAIN SetRef(r.refs, r.head, c)
      /\ DOMAIN SetRef(r.refs, r.head, c) \subseteq Branches
      /\ \A b \in DOMAIN SetRef(r.refs, r.head, c) :
            SetRef(r.refs, r.head, c)[b] \in Commits
  <2>1. r.head \in Branches
    BY <1>3
  <2>2. r.head \in DOMAIN SetRef(r.refs, r.head, c)
    BY DEF SetRef
  <2> QED BY <1>3, <2>1, <2>2, SetRefType
<1>5. s.head = r.head /\ s.refs = SetRef(r.refs, r.head, c)
      /\ s.index = c.tree /\ s.work = w
  BY DEF Repo
<1>6. IsRepo(s)
  <2> HIDE DEF s, w
  <2> QED BY <1>1, <1>2, <1>4, <1>5 DEF IsRepo
<1>7. ResetHard(r, c) = s
  BY DEF ResetHard
<1> QED BY <1>5, <1>6, <1>7

(* A diff shows a tree. *)
LEMMA DiffTreeType ==
    ASSUME NEW r, IsRepo(r)
    PROVE  DiffTree(r) \in Trees
BY DEF DiffTree, IsRepo, Trees

-----------------------------------------------------------------------------
(* The reported test results                                               *)

(* The least-number principle, for a set. *)
Below == OpToRel(<, Nat)

LEMMA BelowWellFounded == IsWellFoundedOn(Below, Nat)
BY NatLessThanWellFounded DEF Below

LEMMA BelowMeans == \A x, y \in Nat : y < x => <<y, x>> \in Below
BY DEF Below, OpToRel

(* A set of positions has a last one. *)
LEMMA LastMember ==
    ASSUME NEW n \in Nat, NEW S \in SUBSET (1 .. n), S # {}
    PROVE  \E i \in S : \A j \in S : j <= i
<1> DEFINE T == {n - i : i \in S}
<1>1. T \subseteq Nat
  OBVIOUS
<1>2. T # {}
  <2>1. PICK i \in S : TRUE
    OBVIOUS
  <2>2. n - i \in T
    BY <2>1
  <2> QED BY <2>2
<1>3. PICK x \in T : \A y \in T : ~ (<<y, x>> \in Below)
  <2> HIDE DEF T
  <2> QED BY <1>1, <1>2, BelowWellFounded, WFMin
<1>4. PICK i \in S : x = n - i
  BY <1>3
<1>5. \A j \in S : ~ (n - j < n - i)
  BY <1>1, <1>3, <1>4, BelowMeans
<1> QED BY <1>4, <1>5

(* The reported results are a suffix with at most one pass, its first.     *)
LEMMA ReportedFacts ==
    ASSUME NEW s \in Seq(BOOLEAN)
    PROVE  /\ ReportedTests(s) \in Seq(BOOLEAN)
           /\ PassCount(ReportedTests(s)) \in 0 .. 1
           /\ s = <<>> => PassCount(ReportedTests(s)) = 0
           /\ s # <<>> => /\ ReportedTests(s) # <<>>
                          /\ ReportedTests(s)[Len(ReportedTests(s))] = s[Len(s)]
<1> DEFINE passes == {i \in DOMAIN s : s[i]}
<1>1. DOMAIN s = 1 .. Len(s) /\ Len(s) \in Nat /\ \A i \in 1 .. Len(s) : s[i] \in BOOLEAN
  OBVIOUS
<1>2. CASE passes = {}
  <2>1. ReportedTests(s) = s
    BY <1>2 DEF ReportedTests
  <2>2. PassCount(s) = 0
    BY <1>2, FS_EmptySet DEF PassCount
  <2> QED BY <2>1, <2>2
<1>3. CASE passes # {}
  <2> DEFINE m == CHOOSE i \in passes : \A j \in passes : j <= i
             t == SubSeq(s, m, Len(s))
  <2>1. \E i \in passes : \A j \in passes : j <= i
    BY <1>1, <1>3, LastMember
  <2>2. m \in passes /\ \A j \in passes : j <= m
    BY <2>1
  <2>3. ReportedTests(s) = t
    BY <1>3 DEF ReportedTests
  <2> HIDE DEF m
  <2>4. m \in 1 .. Len(s) /\ s[m]
    BY <1>1, <2>2
  <2>5. t \in Seq(BOOLEAN) /\ Len(t) = Len(s) - m + 1
        /\ \A i \in 1 .. Len(s) - m + 1 : t[i] = s[m + i - 1]
    BY <1>1, <2>4, SubSeqProperties
  <2>6. DOMAIN t = 1 .. Len(s) - m + 1
    BY <2>5
  <2> HIDE DEF t
  <2>7. t[1]
    BY <2>4, <2>5
  <2>8. \A i \in DOMAIN t : t[i] => i = 1
    <3> SUFFICES ASSUME NEW i \in DOMAIN t, t[i] PROVE i = 1
      OBVIOUS
    <3>1. i \in 1 .. Len(s) - m + 1
      BY <2>6
    <3>2. t[i] = s[m + i - 1]
      BY <2>5, <3>1
    <3>3. m + i - 1 \in DOMAIN s
      BY <1>1, <2>4, <3>1
    <3>4. m + i - 1 \in passes
      BY <3>2, <3>3, Zenon
    <3> HIDE DEF passes
    <3> QED BY <1>1, <2>2, <2>4, <3>1, <3>4
  <2>9. {i \in DOMAIN t : t[i]} = {1}
    BY <2>4, <2>6, <2>7, <2>8
  <2>10. PassCount(t) = 1
    BY <2>9, FS_Singleton DEF PassCount
  <2>11. t # <<>> /\ t[Len(t)] = s[Len(s)] /\ s # <<>>
    <3>1. Len(s) - m + 1 \in 1 .. Len(s) - m + 1 /\ m + (Len(s) - m + 1) - 1 = Len(s)
      BY <1>1, <2>4
    <3>2. t[Len(t)] = s[Len(s)]
      BY <2>5, <3>1
    <3>3. Len(t) > 0 /\ Len(s) > 0
      BY <1>1, <2>4, <2>5
    <3> QED BY <3>2, <3>3
  <2> QED BY <2>3, <2>5, <2>10, <2>11
<1> QED BY <1>2, <1>3

LEMMA ClaimFacts ==
    ASSUME NEW claimed \in Claims
    PROVE  claimed \in Seq(BOOLEAN) /\ Len(claimed) <= MaxClaims
<1>1. PICK n \in 0 .. MaxClaims : claimed \in [1 .. n -> BOOLEAN]
  BY DEF Claims
<1>2. n \in Nat /\ n <= MaxClaims
  BY <1>1, StepAssumption
<1> QED BY <1>1, <1>2

-----------------------------------------------------------------------------
(* Bounds and types                                                        *)

LEMMA RoomFacts ==
    /\ \A n \in Nat : Room(n) \in Nat /\ Room(n + 1) = Room(n) + MaxCalls
    /\ Room(0) = 0
BY StepAssumption DEF Room

LEMMA RoomGrows ==
    ASSUME NEW m \in Nat, NEW n \in Nat, m <= n
    PROVE  Room(m) <= Room(n)
<1>1. n - m \in Nat /\ n = m + (n - m) /\ MaxCalls \in Nat
  BY StepAssumption
<1>2. (n - m) * MaxCalls >= 0
  BY <1>1
<1>3. n * MaxCalls = m * MaxCalls + (n - m) * MaxCalls
  BY <1>1
<1>4. m * MaxCalls \in Int /\ (n - m) * MaxCalls \in Int
  BY <1>1
<1> QED BY <1>2, <1>3, <1>4 DEF Room

LEMMA Bounds ==
    /\ MaxToolRounds \in Nat /\ MaxCalls \in Nat /\ MaxClaims \in Nat
    /\ Room(MaxToolRounds) = MaxToolRounds * MaxCalls
    /\ MaxClaims + MaxToolRounds * MaxCalls \in Nat
<1>1. MaxToolRounds \in Nat /\ MaxCalls \in Nat /\ MaxClaims \in Nat
  BY StepAssumption
<1>2. MaxToolRounds * MaxCalls \in Nat /\ Room(MaxToolRounds) = MaxToolRounds * MaxCalls
  BY <1>1, RoomFacts DEF Room
<1> QED BY <1>1, <1>2

LEMMA ResultTypes ==
    /\ Results(0) \subseteq Results(MaxClaims + MaxToolRounds * MaxCalls)
    /\ \A issues \in BOOLEAN :
         NoSuccess("needs_replan", issues) \in Results(MaxClaims + MaxToolRounds * MaxCalls)
    /\ \A status \in {"failed", "blocked"} :
         NoSuccess(status, FALSE) \in Results(MaxClaims + MaxToolRounds * MaxCalls)
    /\ \A confidence \in Confidences, n \in 0 .. MaxClaims + MaxToolRounds * MaxCalls :
         Success(confidence, n) \in Results(MaxClaims + MaxToolRounds * MaxCalls)
<1> DEFINE N == MaxClaims + MaxToolRounds * MaxCalls
<1>1. N \in Nat
  BY Bounds
<1> HIDE DEF N
<1>2. 0 \in 0 .. N /\ 0 .. 0 \subseteq 0 .. N
  BY <1>1
<1>3. /\ Results(0) \subseteq Results(N)
      /\ \A issues \in BOOLEAN : NoSuccess("needs_replan", issues) \in Results(N)
      /\ \A status \in {"failed", "blocked"} : NoSuccess(status, FALSE) \in Results(N)
      /\ \A confidence \in Confidences, n \in 0 .. N : Success(confidence, n) \in Results(N)
  BY <1>2 DEF Results, NoSuccess, Success
<1> QED BY <1>3 DEF N

(* Another working tree is all that an edit makes. *)
LEMMA EditType ==
    ASSUME NEW r, IsRepo(r), NEW e \in Edits(r)
    PROVE  IsRepo(e) /\ e.head = r.head /\ e.refs = r.refs /\ e.index = r.index
<1>1. r.work \in Trees /\ r.index \in Trees
  BY DEF IsRepo
<1>2. PICK w \in Near[r.work] : e = Repo(r.head, r.refs, r.index, w)
  BY DEF Edits
<1>3. w \in Trees
  BY <1>1, <1>2 DEF Near
<1> QED BY <1>1, <1>2, <1>3, KeepRefs DEF Repo

LEMMA ShellType ==
    ASSUME NEW r, IsRepo(r), NEW s \in ShellOutcomes(r)
    PROVE  IsRepo(s)
<1>1. CASE s \in Edits(r)
  BY <1>1, EditType
<1>2. CASE \E e \in Edits(r) : s = AddAll(e)
  BY <1>2, EditType, AddAllFacts
<1>3. CASE \E e \in Edits(r) : s = ResetHard(AddAll(e), Commit("result", e.work))
  <2>1. PICK e \in Edits(r) : s = ResetHard(AddAll(e), Commit("result", e.work))
    BY <1>3
  <2>2. IsRepo(AddAll(e)) /\ e.work \in Trees
    BY EditType, AddAllFacts DEF IsRepo
  <2>3. Commit("result", e.work) \in Commits
    BY <2>2, CommitType DEF Kinds
  <2> QED BY <2>1, <2>2, <2>3, ResetHardFacts
<1> QED BY <1>1, <1>2, <1>3 DEF ShellOutcomes, CommandOutcomes

LEMMA UnguardedType ==
    ASSUME IsRepo(repo), exposed \subseteq Files, NEW loophole, Unguarded(loophole)
    PROVE  IsRepo(repo)' /\ exposed' \subseteq Files
BY ShellType DEF Unguarded, Touched

(* What a command does not touch, and the index entries of its folder,     *)
(* stay: so it is shown in a diff as before, and escapes as before.        *)
LEMMA UntouchedStays ==
    ASSUME NEW f \in Files, f \notin Touched(repo, repo')
    PROVE  /\ repo'.work[f] = repo.work[f] /\ repo'.index[f] = repo.index[f]
           /\ DiffTree(repo')[f] = DiffTree(repo)[f]
           /\ Overlooked(repo', f) = Overlooked(repo, f)
<1>1. repo'.work[f] = repo.work[f]
  BY DEF Touched
<1>2. \A g \in Files : Folder[g] = Folder[f] => repo'.index[g] = repo.index[g]
  BY DEF Touched
<1>3. repo'.index[f] = repo.index[f]
  BY <1>2
<1>4. Collapsed(repo', f) = Collapsed(repo, f)
  BY <1>2 DEF Collapsed
<1>5. DiffTree(repo')[f] = DiffTree(repo)[f]
  BY <1>1, <1>3 DEF DiffTree
<1>6. Overlooked(repo', f) = Overlooked(repo, f)
  BY <1>3, <1>4 DEF Overlooked
<1> QED BY <1>1, <1>3, <1>5, <1>6

(* The protection changes the working tree only. *)
LEMMA RevertType ==
    ASSUME IsRepo(repo), NEW l, NEW allowed, NEW new
    PROVE  LET r == RevertTestEdits(repo, l, allowed, new)
           IN  /\ IsRepo(r)
               /\ r.head = repo.head /\ r.refs = repo.refs /\ r.index = repo.index
<1> DEFINE s == IF CheckoutRefused(repo, l, allowed) THEN repo
                ELSE RestoreFromIndex(repo, ModifiedTests(repo, l, allowed))
           r == IF new THEN RemoveUntracked(s, NewTests(repo, l, allowed)) ELSE s
<1>1. IsRepo(s) /\ s.head = repo.head /\ s.refs = repo.refs /\ s.index = repo.index
  BY DEF RestoreFromIndex, IsRepo, Repo, Trees
<1>2. IsRepo(r) /\ r.head = s.head /\ r.refs = s.refs /\ r.index = s.index
  <2> HIDE DEF s
  <2> QED BY <1>1 DEF RemoveUntracked, IsRepo, Repo, Trees
<1>3. RevertTestEdits(repo, l, allowed, new) = r
  BY DEF RevertTestEdits
<1> HIDE DEF s, r
<1> QED BY <1>1, <1>2, <1>3

(* A pass that covers a test file which is not overlooked and is in the    *)
(* index as in the base leaves the file as in the base.                    *)
LEMMA RevertRestores ==
    ASSUME IsRepo(repo), NEW l, NEW f \in Tests \ {ReproFile},
           f \notin Missed(repo, l, {ReproFile}), ~Overlooked(repo, f)
    PROVE  RevertTestEdits(repo, l, {ReproFile}, TRUE).work[f] = repo.index[f]
<1> DEFINE modified == ModifiedTests(repo, l, {ReproFile})
           new == NewTests(repo, l, {ReproFile})
           s == RestoreFromIndex(repo, modified)
           r == RemoveUntracked(s, new)
<1>1. f \in Files
  BY ProtectionAssumption
<1>2. ~CheckoutRefused(repo, l, {ReproFile}) /\ (f \in ChangedFiles(repo) => f \in l.files)
  BY <1>1 DEF Missed
<1>3. f \notin Quoted \cup Garbled
  BY DEF Overlooked
<1>4. \A g \in modified : repo.index[g] # Absent
  BY <1>2 DEF CheckoutRefused
<1>5. /\ s.index = repo.index
      /\ s.work[f] = IF f \in modified THEN repo.index[f] ELSE repo.work[f]
  <2> HIDE DEF modified
  <2> QED BY <1>1 DEF RestoreFromIndex, Repo
<1>6. r.work[f] = IF f \in new /\ s.index[f] = Absent THEN Absent ELSE s.work[f]
  <2> HIDE DEF s, new
  <2> QED BY <1>1 DEF RemoveUntracked, Repo
<1>7. RevertTestEdits(repo, l, {ReproFile}, TRUE) = r
  BY <1>2 DEF RevertTestEdits
<1>8. CASE repo.index[f] = Absent
  <2>1. f \notin modified
    BY <1>4, <1>8
  <2>2. ASSUME repo.work[f] # Absent PROVE f \in new
    <3>1. f \in UntrackedFiles(repo) /\ f \in l.files
      BY <1>1, <1>2, <1>8, <2>2 DEF UntrackedFiles, ChangedFiles
    <3>2. Collapsed(repo, f) => Folder[f] \in TestFolders
      BY <1>8 DEF Overlooked
    <3>3. f \in Tests \ ({ReproFile} \cup Quoted \cup Garbled)
      BY <1>3
    <3> QED BY <3>1, <3>2, <3>3 DEF NewTests
  <2> HIDE DEF modified, new, s, r
  <2> QED BY <1>5, <1>6, <1>7, <1>8, <2>1, <2>2
<1>9. CASE repo.index[f] # Absent
  <2>1. ASSUME repo.work[f] # repo.index[f] PROVE f \in modified
    <3>1. f \in ModifiedFiles(repo) /\ f \in l.files
      BY <1>1, <1>2, <1>9, <2>1 DEF ModifiedFiles, ChangedFiles
    <3> QED BY <1>3, <3>1 DEF ModifiedTests
  <2> HIDE DEF modified, new, s, r
  <2> QED BY <1>5, <1>6, <1>7, <1>9, <2>1
<1> QED BY <1>8, <1>9

-----------------------------------------------------------------------------
LEMMA InitInd == Init => IndInv
<1> SUFFICES ASSUME Init PROVE IndInv
  OBVIOUS
<1> DEFINE home == SetRef(<<>>, Home, Commit("origin", Base))
           refs == SetRef(home, 0, Commit("base", Base))
<1>1. Base \in Trees
  BY StepAssumption
<1>2. Commit("origin", Base) \in Commits /\ Commit("base", Base) \in Commits
      /\ Commit("base", Base).tree = Base
  BY <1>1, CommitType DEF Kinds
<1>3. DOMAIN home = {Home} /\ home[Home] = Commit("origin", Base)
  BY DEF SetRef
<1>4. /\ DOMAIN refs = {Home, 0} /\ refs[0] = Commit("base", Base)
      /\ \A b \in DOMAIN refs : refs[b] \in Commits
  <2> HIDE DEF home
  <2> QED BY <1>2, <1>3 DEF SetRef
<1>5. repo.head = 0 /\ repo.refs = refs /\ repo.index = Base /\ repo.work = Base
  BY DEF Init, Repo
<1>6. IsRepo(repo)
  <2> HIDE DEF refs
  <2> QED BY <1>1, <1>2, <1>4, <1>5 DEF IsRepo, HeadTree, Branches
<1>7. TypeOK
  <2>1. 0 \in 0 .. MaxToolRounds /\ 0 \in 0 .. MaxCalls
    BY Bounds
  <2>2. <<>> \in Seq(BOOLEAN) /\ Len(<<>>) <= MaxToolRounds * MaxCalls
    BY Bounds, RoomFacts
  <2>3. NoResult \in Results(MaxClaims + MaxToolRounds * MaxCalls)
    BY ResultTypes DEF NoResult
  <2> QED BY <1>1, <1>6, <2>1, <2>2, <2>3 DEF Init, TypeOK
<1>8. Rounds
  BY RoomFacts DEF Init, Rounds
<1>9. Reports /\ Reviews
  BY DEF Init, Reports, Reviews, LastRunReported, AtMostOnePassReported, NoResult, NoSuccess
<1>10. EscapesOnly
  BY <1>5 DEF EscapesOnly
<1> QED BY <1>7, <1>8, <1>9, <1>10 DEF IndInv

(* A step that leaves repository and history alone, and either was not     *)
(* waiting for a protection pass or fails.                                 *)
LEMMA EscapesStay ==
    ASSUME EscapesOnly, UNCHANGED <<repo, exposed>>,
           \/ pc \in {"llm", "tools", "review", "anchor", "verdict"}
           \/ pc' = "failed"
    PROVE  EscapesOnly'
BY DEF EscapesOnly, Escaped

(* A command that no pass follows exposes what it touches. *)
LEMMA EscapesExposed ==
    ASSUME EscapesOnly, NEW loophole, Unguarded(loophole), pc \in {"tools", "anchor"}
    PROVE  EscapesOnly'
<1> SUFFICES ASSUME Guarded, NEW f \in Tests \ {ReproFile}, repo'.work[f] # Base[f]
             PROVE  Escaped(f)'
  BY DEF EscapesOnly
<1>1. f \in Files /\ exposed' = exposed \cup Touched(repo, repo')
  BY ProtectionAssumption DEF Unguarded
<1>2. CASE f \in Touched(repo, repo')
  BY <1>1, <1>2 DEF Escaped
<1>3. CASE f \notin Touched(repo, repo')
  <2>1. /\ repo'.work[f] = repo.work[f] /\ repo'.index[f] = repo.index[f]
        /\ Overlooked(repo', f) = Overlooked(repo, f)
    BY <1>1, <1>3, UntouchedStays
  <2>2. Escaped(f)
    BY <2>1 DEF EscapesOnly
  <2> QED BY <1>1, <2>1, <2>2 DEF Escaped
<1> QED BY <1>2, <1>3

(* A turn that returns or goes on to the review. *)
LEMMA SuccessInd == IndInv /\ ReportSuccess => IndInv'
<1> SUFFICES ASSUME IndInv, ReportSuccess PROVE IndInv'
  OBVIOUS
<1>1. PICK claimed \in Claims, confidence \in Confidences :
         LET tests == ReportedTests(claimed \o ran)
         IN  IF ~sawDiff /\ tests = <<>>
             THEN Return(NoSuccess("failed", FALSE)) /\ UNCHANGED reported
             ELSE /\ pc' = "review"
                  /\ reported' = tests
                  /\ result' = Success(confidence, PassCount(tests))
  BY DEF ReportSuccess
<1> DEFINE s == claimed \o ran
           tests == ReportedTests(s)
<1>2. pc = "llm" /\ UNCHANGED <<repo, round, calls, sawDiff, ran, reviewed, exposed, late>>
  BY DEF ReportSuccess, loop, hist
<1>9. EscapesOnly'
  BY <1>2, EscapesStay DEF IndInv
<1>3. claimed \in Seq(BOOLEAN) /\ Len(claimed) <= MaxClaims
      /\ ran \in Seq(BOOLEAN) /\ Len(ran) <= MaxToolRounds * MaxCalls
  BY ClaimFacts DEF IndInv, TypeOK
<1>4. /\ s \in Seq(BOOLEAN) /\ Len(s) = Len(claimed) + Len(ran)
      /\ ran # <<>> => s # <<>> /\ s[Len(s)] = ran[Len(ran)]
  BY <1>3, ConcatProperties
<1>5. PassCount(tests) \in 0 .. MaxClaims + MaxToolRounds * MaxCalls
  <2>1. PassCount(tests) \in 0 .. 1 /\ (s = <<>> => PassCount(tests) = 0)
    BY <1>4, ReportedFacts
  <2>2. s # <<>> => Len(s) >= 1
    BY <1>4
  <2>3. Len(s) <= MaxClaims + MaxToolRounds * MaxCalls /\ Len(s) \in Nat
    <3>1. MaxToolRounds * MaxCalls \in Nat
      BY Bounds, RoomFacts
    <3> QED BY <1>3, <1>4, <3>1, Bounds
  <2> QED BY <2>1, <2>2, <2>3, Bounds
<1>6. /\ tests \in Seq(BOOLEAN) /\ PassCount(tests) \in 0 .. 1
      /\ ran # <<>> => tests # <<>> /\ tests[Len(tests)] = ran[Len(ran)]
  BY <1>4, ReportedFacts
<1>7. CASE /\ pc' = "review" /\ reported' = tests
           /\ result' = Success(confidence, PassCount(tests))
  <2> HIDE DEF tests
  <2>1. TypeOK'
    BY <1>1, <1>2, <1>5, <1>6, <1>7, ResultTypes DEF IndInv, TypeOK
  <2>2. Rounds' /\ Reviews'
    BY <1>7 DEF Rounds, Reviews
  <2>3. Reports'
    BY <1>2, <1>6, <1>7 DEF Reports, LastRunReported, AtMostOnePassReported, Success
  <2> QED BY <1>9, <2>1, <2>2, <2>3 DEF IndInv
<1>8. CASE Return(NoSuccess("failed", FALSE)) /\ UNCHANGED reported
  <2>1. TypeOK'
    BY <1>2, <1>8, ResultTypes DEF IndInv, TypeOK, Return
  <2> QED BY <1>8, <1>9, <2>1 DEF IndInv, Rounds, Reports, Reviews, Return,
       LastRunReported, AtMostOnePassReported, NoSuccess
<1> QED BY <1>1, <1>7, <1>8

(* A step that returns without success. *)
LEMMA NoSuccessInd ==
    ASSUME IndInv, pc = "llm", UNCHANGED <<repo, loop, reported, reviewed, hist>>,
           NEW r \in Results(MaxClaims + MaxToolRounds * MaxCalls),
           r.status # "success", Return(r)
    PROVE  IndInv'
<1>1. r.passed = 0
  BY DEF Results
<1>2. TypeOK'
  BY DEF IndInv, TypeOK, Return, loop, hist
<1>3. EscapesOnly'
  BY EscapesStay DEF IndInv, hist
<1> QED BY <1>1, <1>2, <1>3 DEF IndInv, Rounds, Reports, Reviews, Return, LastRunReported,
     AtMostOnePassReported

LEMMA RequestInd == IndInv /\ RequestTools => IndInv'
<1> SUFFICES ASSUME IndInv, RequestTools PROVE IndInv'
  OBVIOUS
<1>1. /\ pc = "llm" /\ round < MaxToolRounds /\ calls' \in 0 .. MaxCalls /\ pc' = "tools"
      /\ UNCHANGED <<repo, round, sawDiff, ran, reported, reviewed, result, exposed, late>>
  BY DEF RequestTools, hist
<1>2. TypeOK'
  BY <1>1 DEF IndInv, TypeOK
<1>3. Rounds'
  <2>1. Len(ran) <= Room(round) /\ round \in Nat /\ Len(ran) \in Nat
    BY <1>1, Bounds DEF IndInv, TypeOK, Rounds
  <2>2. Room(round) \in Nat /\ Room(round + 1) = Room(round) + MaxCalls
    BY <2>1, RoomFacts
  <2> QED BY <1>1, <2>1, <2>2, Bounds DEF Rounds
<1>4. EscapesOnly'
  BY <1>1, EscapesStay DEF IndInv
<1> QED BY <1>1, <1>2, <1>3, <1>4 DEF IndInv, Reports, Reviews, LastRunReported,
     AtMostOnePassReported

(* A tool call, given what it does to repository and test results. *)
LEMMA ToolInd ==
    ASSUME IndInv, NEW mutates \in BOOLEAN, Tool(mutates), IsRepo(repo)',
           sawDiff' \in BOOLEAN, exposed' \subseteq Files, EscapesOnly',
           \/ ran' = ran
           \/ \E passed \in BOOLEAN : ran' = Append(ran, passed)
    PROVE  IndInv'
<1>1. /\ pc = "tools" /\ calls > 0 /\ calls' = calls - 1 /\ pc' \in {"tools", "protect"}
      /\ UNCHANGED <<round, reported, reviewed, result, late>>
  BY DEF Tool
<1>2. /\ calls \in 0 .. MaxCalls /\ ran \in Seq(BOOLEAN) /\ round \in Nat
      /\ round < MaxToolRounds /\ Len(ran) + calls <= Room(round + 1)
  BY <1>1, Bounds DEF IndInv, TypeOK, Rounds
<1>3. ran' \in Seq(BOOLEAN) /\ Len(ran') <= Len(ran) + 1
  BY <1>2
<1>4. calls' \in 0 .. MaxCalls /\ Len(ran') + calls' <= Room(round + 1)
  <2>1. Room(round + 1) \in Nat /\ MaxCalls \in Nat
    BY <1>2, RoomFacts, Bounds
  <2>2. Len(ran) \in Nat /\ Len(ran') \in Nat
    BY <1>2, <1>3
  <2> QED BY <1>1, <1>2, <1>3, <2>1, <2>2
<1>5. Len(ran') <= MaxToolRounds * MaxCalls
  <2>1. Room(round + 1) <= Room(MaxToolRounds)
    BY <1>2, RoomGrows, Bounds
  <2>2. Room(round + 1) \in Nat /\ Room(MaxToolRounds) \in Nat
    BY <1>2, RoomFacts, Bounds
  <2>3. Room(MaxToolRounds) = MaxToolRounds * MaxCalls
    BY Bounds
  <2>4. Len(ran') \in Nat /\ calls' \in Nat
    BY <1>3, <1>4
  <2>5. Len(ran') <= Room(MaxToolRounds)
    BY <1>4, <2>1, <2>2, <2>4
  <2> QED BY <2>3, <2>5
<1>6. TypeOK'
  BY <1>1, <1>3, <1>4, <1>5 DEF IndInv, TypeOK
<1>7. Rounds'
  BY <1>1, <1>2, <1>4 DEF Rounds
<1> QED BY <1>1, <1>6, <1>7 DEF IndInv, Reports, Reviews, LastRunReported,
     AtMostOnePassReported

(* A tool that edits is followed by a protection pass, or there is none. *)
LEMMA MutatingInd ==
    ASSUME IndInv, Tool(TRUE), IsRepo(repo)', sawDiff' \in BOOLEAN,
           UNCHANGED <<ran, exposed>>
    PROVE  IndInv'
<1>1. Guarded => pc' = "protect"
  BY DEF Tool
<1>2. EscapesOnly'
  BY <1>1 DEF EscapesOnly
<1>3. exposed' \subseteq Files
  BY DEF IndInv, TypeOK
<1> QED BY <1>2, <1>3, ToolInd

(* A tool that is not followed by one changes what it exposes only. *)
LEMMA ExposingInd ==
    ASSUME IndInv, Tool(FALSE), NEW loophole, Unguarded(loophole), UNCHANGED sawDiff,
           \/ ran' = ran
           \/ \E passed \in BOOLEAN : ran' = Append(ran, passed)
    PROVE  IndInv'
<1>1. IsRepo(repo) /\ exposed \subseteq Files /\ sawDiff \in BOOLEAN
  BY DEF IndInv, TypeOK
<1>2. IsRepo(repo)' /\ exposed' \subseteq Files
  BY <1>1, UnguardedType
<1>3. pc = "tools"
  BY DEF Tool
<1>4. EscapesOnly'
  BY <1>3, EscapesExposed DEF IndInv
<1> QED BY <1>1, <1>2, <1>4, ToolInd

LEMMA ToolsInd ==
    IndInv /\ (\/ WriteFile \/ WriteRegression \/ ApplyPatch \/ RunShell \/ RunTests
               \/ Inspect \/ GatherContext) => IndInv'
<1> SUFFICES ASSUME IndInv,
                    \/ WriteFile \/ WriteRegression \/ ApplyPatch \/ RunShell
                    \/ RunTests \/ Inspect \/ GatherContext
             PROVE  IndInv'
  OBVIOUS
<1>1. IsRepo(repo) /\ sawDiff \in BOOLEAN /\ repo.work \in Trees
  BY DEF IndInv, TypeOK, IsRepo
<1>2. \A w \in Trees : IsRepo(Repo(repo.head, repo.refs, repo.index, w))
  BY <1>1, KeepRefs DEF IsRepo
<1>3. \A f \in Files, c \in Contents : [repo.work EXCEPT ![f] = c] \in Trees
  BY <1>1 DEF Trees
<1>4. CASE WriteFile
  <2>1. IsRepo(repo)' /\ sawDiff' \in BOOLEAN /\ UNCHANGED <<ran, exposed>> /\ Tool(TRUE)
    BY <1>2, <1>3, <1>4 DEF WriteFile
  <2> QED BY <2>1, MutatingInd
<1>5. CASE WriteRegression
  <2>1. PICK f \in Files, c \in Contents :
         IF repo.work[f] = Absent
         THEN /\ repo' = Repo(repo.head, repo.refs, repo.index,
                              [repo.work EXCEPT ![f] = c])
              /\ sawDiff' = TRUE
         ELSE UNCHANGED <<repo, sawDiff>>
    BY <1>5 DEF WriteRegression
  <2>2. IsRepo(repo)' /\ sawDiff' \in BOOLEAN
    BY <1>1, <1>2, <1>3, <2>1
  <2>3. UNCHANGED <<ran, exposed>> /\ Tool(TRUE)
    BY <1>5 DEF WriteRegression
  <2> QED BY <2>2, <2>3, MutatingInd
<1>6. CASE ApplyPatch
  <2>1. IsRepo(repo)' /\ sawDiff' \in BOOLEAN
    BY <1>1, <1>6, EditType DEF ApplyPatch
  <2>2. UNCHANGED <<ran, exposed>> /\ Tool(TRUE)
    BY <1>6 DEF ApplyPatch
  <2> QED BY <2>1, <2>2, MutatingInd
<1>7. CASE RunShell
  <2>1. IsRepo(repo)' /\ sawDiff' \in BOOLEAN /\ UNCHANGED <<ran, exposed>> /\ Tool(TRUE)
    BY <1>1, <1>7, ShellType DEF RunShell
  <2> QED BY <2>1, MutatingInd
<1>8. CASE RunTests
  BY <1>8, ExposingInd DEF RunTests
<1>9. CASE Inspect
  <2>1. /\ IsRepo(repo)' /\ sawDiff' \in BOOLEAN /\ UNCHANGED <<repo, ran, exposed>>
        /\ Tool(FALSE) /\ exposed' \subseteq Files
    BY <1>1, <1>9 DEF Inspect, IndInv, TypeOK
  <2>2. EscapesOnly'
    BY <2>1, EscapesStay DEF IndInv, Tool
  <2> QED BY <2>1, <2>2, ToolInd
<1>10. CASE GatherContext
  BY <1>10, ExposingInd DEF GatherContext
<1> QED BY <1>4, <1>5, <1>6, <1>7, <1>8, <1>9, <1>10

LEMMA ProtectInd == IndInv /\ ProtectTests => IndInv'
<1> SUFFICES ASSUME IndInv, ProtectTests PROVE IndInv'
  OBVIOUS
<1>1. PICK l : /\ repo' = RevertTestEdits(repo, l, {ReproFile}, TRUE)
               /\ exposed' = Missed(repo, l, {ReproFile})
  BY DEF ProtectTests
<1>2. IsRepo(repo)
  BY DEF IndInv, TypeOK
<1>3. IsRepo(repo)' /\ repo'.index = repo.index
  BY <1>1, <1>2, RevertType
<1>4. /\ pc = "protect" /\ pc' = "tools"
      /\ UNCHANGED <<round, calls, sawDiff, ran, reported, reviewed, result, late>>
  BY DEF ProtectTests, loop
<1>5. exposed' \subseteq Files
  BY <1>1 DEF Missed, ChangedFiles, UntrackedFiles, ModifiedFiles
<1>6. TypeOK'
  BY <1>3, <1>4, <1>5 DEF IndInv, TypeOK
<1>7. EscapesOnly'
  <2> SUFFICES ASSUME NEW f \in Tests \ {ReproFile}, repo'.work[f] # Base[f],
                      f \notin exposed', repo'.index[f] = Base[f]
               PROVE  Overlooked(repo', f)
    BY DEF EscapesOnly, Escaped
  <2>1. Overlooked(repo', f) = Overlooked(repo, f)
    BY <1>3 DEF Overlooked, Collapsed
  <2>2. ~Overlooked(repo, f) => repo'.work[f] = repo.index[f]
    BY <1>1, <1>2, RevertRestores
  <2> QED BY <1>3, <2>1, <2>2
<1> QED BY <1>4, <1>6, <1>7 DEF IndInv, Rounds, Reports, Reviews, LastRunReported,
     AtMostOnePassReported

LEMMA EndRoundInd == IndInv /\ EndToolRound => IndInv'
<1> SUFFICES ASSUME IndInv, EndToolRound PROVE IndInv'
  OBVIOUS
<1>1. /\ pc = "tools" /\ calls = 0 /\ round' = round + 1 /\ pc' = "llm"
      /\ UNCHANGED <<repo, calls, sawDiff, ran, reported, reviewed, result, exposed, late>>
  BY DEF EndToolRound, hist
<1>2. round \in Nat /\ round < MaxToolRounds /\ Len(ran) + calls <= Room(round + 1)
  BY <1>1, Bounds DEF IndInv, TypeOK, Rounds
<1>3. round' \in 0 .. MaxToolRounds
  BY <1>1, <1>2, Bounds
<1>4. TypeOK'
  BY <1>1, <1>3 DEF IndInv, TypeOK
<1>5. Len(ran) \in Nat
  BY DEF IndInv, TypeOK
<1>6. Rounds'
  BY <1>1, <1>2, <1>5 DEF Rounds
<1>7. EscapesOnly'
  BY <1>1, EscapesStay DEF IndInv
<1> QED BY <1>1, <1>4, <1>6, <1>7 DEF IndInv, Reports, Reviews, LastRunReported,
     AtMostOnePassReported

(* The diff is taken of the tree as it is. *)
LEMMA DiffInd == IndInv /\ TakeDiff => IndInv'
<1> SUFFICES ASSUME IndInv, TakeDiff PROVE IndInv'
  OBVIOUS
<1>1. /\ pc = "review" /\ pc' \in {"anchor", "verdict"} /\ reviewed' = DiffTree(repo)
      /\ UNCHANGED <<repo, round, calls, sawDiff, ran, reported, result, exposed, late>>
  BY DEF TakeDiff, loop, hist
<1>2. reviewed' \in Trees
  BY <1>1, DiffTreeType DEF IndInv, TypeOK
<1>3. TypeOK'
  BY <1>1, <1>2 DEF IndInv, TypeOK
<1>4. EscapesOnly'
  BY <1>1, EscapesStay DEF IndInv
<1>5. Rounds' /\ Reports' /\ Reviews'
  BY <1>1 DEF IndInv, Rounds, Reports, Reviews, LastRunReported, AtMostOnePassReported
<1> QED BY <1>3, <1>4, <1>5 DEF IndInv

(* The anchor tests come after it. *)
LEMMA AnchorInd == IndInv /\ RunAnchorTests => IndInv'
<1> SUFFICES ASSUME IndInv, RunAnchorTests PROVE IndInv'
  OBVIOUS
<1>1. /\ pc = "anchor" /\ pc' = "verdict" /\ late' = Touched(repo, repo')
      /\ UNCHANGED <<round, calls, sawDiff, ran, reported, reviewed, result>>
      /\ Unguarded("tests")
  BY DEF RunAnchorTests, loop
<1>2. IsRepo(repo)' /\ exposed' \subseteq Files
  BY <1>1, UnguardedType DEF IndInv, TypeOK
<1>3. late' \subseteq Files
  BY <1>1 DEF Touched
<1>4. TypeOK'
  BY <1>1, <1>2, <1>3 DEF IndInv, TypeOK
<1>5. EscapesOnly'
  BY <1>1, EscapesExposed DEF IndInv
<1>6. \A f \in Files \ late' : reviewed'[f] = DiffTree(repo')[f]
  <2>1. reviewed' = DiffTree(repo)
    BY <1>1 DEF IndInv, Reviews
  <2> QED BY <1>1, <2>1, UntouchedStays
<1>7. Reviews'
  BY <1>1, <1>6 DEF Reviews
<1>8. Rounds' /\ Reports'
  BY <1>1 DEF IndInv, Rounds, Reports, LastRunReported, AtMostOnePassReported
<1> QED BY <1>4, <1>5, <1>7, <1>8 DEF IndInv

LEMMA ReviewInd == IndInv /\ ReviewSuccessfulStep => IndInv'
<1> SUFFICES ASSUME IndInv, ReviewSuccessfulStep PROVE IndInv'
  OBVIOUS
<1>1. PICK r : /\ pc = "verdict"
               /\ UNCHANGED <<repo, round, calls, sawDiff, ran, reported, reviewed,
                              exposed, late>>
               /\ r \in {result, NoSuccess("needs_replan", TRUE), NoSuccess("failed", FALSE)}
               /\ Return(r)
  BY DEF ReviewSuccessfulStep, loop, hist
<1>2. EscapesOnly'
  BY <1>1, EscapesStay DEF IndInv
<1>3. r \in Results(MaxClaims + MaxToolRounds * MaxCalls) /\ r.passed <= 1
  <2>1. CASE r = result
    BY <2>1 DEF IndInv, TypeOK, Reports, AtMostOnePassReported
  <2>2. CASE r = NoSuccess("needs_replan", TRUE)
    <3>1. NoSuccess("needs_replan", TRUE) \in Results(MaxClaims + MaxToolRounds * MaxCalls)
      BY ResultTypes
    <3>2. r.passed <= 1
      BY <2>2 DEF NoSuccess
    <3> QED BY <2>2, <3>1, <3>2
  <2>3. CASE r = NoSuccess("failed", FALSE)
    <3>1. NoSuccess("failed", FALSE) \in Results(MaxClaims + MaxToolRounds * MaxCalls)
      BY ResultTypes
    <3>2. r.passed <= 1
      BY <2>3 DEF NoSuccess
    <3> QED BY <2>3, <3>1, <3>2
  <2> QED BY <1>1, <2>1, <2>2, <2>3
<1>4. TypeOK'
  BY <1>1, <1>3 DEF IndInv, TypeOK, Return
<1>5. Reviews'
  BY <1>1 DEF IndInv, Reviews, Return
<1>6. Rounds' /\ Reports'
  BY <1>1, <1>3 DEF Rounds, Reports, Return, LastRunReported, AtMostOnePassReported
<1> QED BY <1>2, <1>4, <1>5, <1>6 DEF IndInv

LEMMA NextInd == IndInv /\ [Next]_vars => IndInv'
<1> SUFFICES ASSUME IndInv, [Next]_vars PROVE IndInv'
  OBVIOUS
<1>1. CASE ReportNoSuccess
  <2>1. PICK r \in Results(0) : r.status # "success" /\ Return(r)
    BY <1>1 DEF ReportNoSuccess
  <2>2. pc = "llm" /\ UNCHANGED <<repo, loop, reported, reviewed, hist>>
    BY <1>1 DEF ReportNoSuccess
  <2> QED BY <2>1, <2>2, ResultTypes, NoSuccessInd
<1>2. CASE StopOnContextBudget \/ ToolRoundsExhausted
  <2>1. /\ NoSuccess("blocked", FALSE).status # "success"
        /\ NoSuccess("needs_replan", TRUE).status # "success"
    BY DEF NoSuccess
  <2>2. pc = "llm" /\ UNCHANGED <<repo, loop, reported, reviewed, hist>>
        /\ (Return(NoSuccess("blocked", FALSE)) \/ Return(NoSuccess("needs_replan", TRUE)))
    BY <1>2 DEF StopOnContextBudget, ToolRoundsExhausted
  <2> QED BY <2>1, <2>2, ResultTypes, NoSuccessInd
<1>3. CASE StepFails
  <2>1. /\ pc # "failed" /\ pc' = "failed"
        /\ UNCHANGED <<repo, round, calls, sawDiff, ran, reported, reviewed, result,
                       exposed, late>>
    BY <1>3 DEF StepFails, loop, hist
  <2>2. EscapesOnly'
    BY <2>1, EscapesStay DEF IndInv
  <2> QED BY <2>1, <2>2 DEF IndInv, TypeOK, Rounds, Reports, Reviews, LastRunReported,
       AtMostOnePassReported
<1>4. CASE UNCHANGED vars
  <2>1. UNCHANGED <<pc, repo, round, calls, sawDiff, ran, reported, reviewed, result,
                    exposed, late>>
    BY <1>4 DEF vars, loop, hist
  <2>2. EscapesOnly'
    BY <2>1 DEF IndInv, EscapesOnly, Escaped
  <2> QED BY <2>1, <2>2 DEF IndInv, TypeOK, Rounds, Reports, Reviews, LastRunReported,
     AtMostOnePassReported
<1> QED
  BY <1>1, <1>2, <1>3, <1>4, SuccessInd, RequestInd, ToolsInd, ProtectInd, EndRoundInd,
     DiffInd, AnchorInd, ReviewInd
  DEF Next, Finished

LEMMA Invariance == Spec => []IndInv
<1>1. Init => IndInv
  BY InitInd
<1> QED BY <1>1, NextInd, PTL DEF Spec

(* Every reachable state of a step is well typed, and the rounds bound the *)
(* tests that can have run.                                                *)
THEOREM StepTypeCorrect == Spec => []TypeOK
<1>1. IndInv => TypeOK
  BY DEF IndInv
<1> QED BY <1>1, Invariance, PTL

(* Whatever the model claims beside what ran, a failing last run is seen. *)
THEOREM LastRunIsReported == Spec => []LastRunReported
<1>1. IndInv => LastRunReported
  BY DEF IndInv, Reports
<1> QED BY <1>1, Invariance, PTL

(* The passing-test count candidates are ranked by is 0 or 1, for any      *)
(* number of tests run and claimed.                                        *)
THEOREM OnePassReported == Spec => []AtMostOnePassReported
<1>1. IndInv => AtMostOnePassReported
  BY DEF IndInv, Reports
<1> QED BY <1>1, Invariance, PTL

(* With a reproduction, and whatever commands stage, write or hide, a test *)
(* file other than the reproduction's differs from the candidate base only *)
(* if it escaped in a way Escaped names.                                   *)
THEOREM ProtectionHolds == Spec => []ProtectedTestsIntact
<1>1. IndInv => ProtectedTestsIntact
  BY DEF IndInv, EscapesOnly, ProtectedTestsIntact
<1> QED BY <1>1, Invariance, PTL

(* A reviewer misses what the anchor tests touch after the diff, and new,  *)
(* unstaged files, of which no protected test is one unless it escaped.    *)
THEOREM OnlyNewFilesUnreviewed == Spec => []UnreviewedIsNewAndNoTest
<1>1. IndInv => UnreviewedIsNewAndNoTest
  <2> SUFFICES ASSUME IndInv, pc = "returned", result.status = "success",
                      NEW f \in Files \ late, reviewed[f] # repo.work[f]
               PROVE  /\ repo.index[f] = Absent
                      /\ Guarded /\ f \in Tests \ {ReproFile} => Escaped(f)
    BY DEF UnreviewedIsNewAndNoTest
  <2>1. reviewed[f] = DiffTree(repo)[f]
    BY DEF IndInv, Reviews
  <2>2. reviewed[f] = IF repo.index[f] = Absent THEN Absent ELSE repo.work[f]
    BY <2>1 DEF DiffTree
  <2>3. repo.index[f] = Absent /\ repo.work[f] # Absent
    BY <2>2
  <2>4. ASSUME Guarded, f \in Tests \ {ReproFile} PROVE Escaped(f)
    <3>1. CASE repo.work[f] # Base[f]
      BY <2>4, <3>1 DEF IndInv, EscapesOnly
    <3>2. CASE repo.work[f] = Base[f]
      BY <2>3, <3>2 DEF Escaped
    <3> QED BY <3>1, <3>2
  <2> QED BY <2>3, <2>4
<1> QED BY <1>1, Invariance, PTL
-----------------------------------------------------------------------------
(* Why a step ends *)

(* How far a step with a given number of rounds is from its end. *)
Stage == [llm |-> 5, tools |-> 4, protect |-> 4, review |-> 3, anchor |-> 2,
          verdict |-> 1, returned |-> 0, failed |-> 0][pc]

(* The calls, twice, still to be run; protection follows a call that edits. *)
Pending == 2 * calls + (IF pc = "protect" THEN 1 ELSE 0)

(* A further round, a later stage of it, or less that is pending. *)
Advances ==
    \/ round' > round
    \/ round' = round /\ Stage' < Stage
    \/ round' = round /\ Stage' = Stage /\ Pending' < Pending

LEMMA LaterStage ==
    ASSUME IndInv,
           \/ ReportNoSuccess \/ ReportSuccess \/ StopOnContextBudget \/ RequestTools
           \/ ToolRoundsExhausted \/ TakeDiff \/ RunAnchorTests \/ ReviewSuccessfulStep
           \/ StepFails
    PROVE  Advances
<1>1. round' = round
  BY DEF ReportNoSuccess, ReportSuccess, StopOnContextBudget, RequestTools,
     ToolRoundsExhausted, TakeDiff, RunAnchorTests, ReviewSuccessfulStep, StepFails, loop
<1>2. \/ pc = "llm" /\ pc' \in {"tools", "review", "returned", "failed"}
      \/ pc = "review" /\ pc' \in {"anchor", "verdict", "failed"}
      \/ pc = "anchor" /\ pc' \in {"verdict", "failed"}
      \/ pc = "verdict" /\ pc' \in {"returned", "failed"}
      \/ pc \in {"tools", "protect"} /\ pc' = "failed"
  BY DEF ReportNoSuccess, ReportSuccess, StopOnContextBudget, RequestTools,
     ToolRoundsExhausted, TakeDiff, RunAnchorTests, ReviewSuccessfulStep, StepFails, Return
<1>3. Stage' < Stage
  BY <1>2 DEF Stage
<1> QED BY <1>1, <1>3 DEF Advances

LEMMA ToolAdvances == ASSUME IndInv, NEW m \in BOOLEAN, Tool(m) PROVE Advances
<1>1. /\ pc = "tools" /\ pc' \in {"tools", "protect"} /\ round' = round
      /\ calls' = calls - 1 /\ calls \in Int
  BY DEF Tool, IndInv, TypeOK
<1>2. Stage' = Stage /\ Pending' < Pending
  BY <1>1 DEF Stage, Pending
<1> QED BY <1>1, <1>2 DEF Advances

LEMMA ProtectAdvances == IndInv /\ ProtectTests => Advances
<1> SUFFICES ASSUME IndInv, ProtectTests PROVE Advances
  OBVIOUS
<1>1. /\ pc = "protect" /\ pc' = "tools" /\ round' = round
      /\ calls' = calls /\ calls \in Int
  BY DEF ProtectTests, loop, IndInv, TypeOK
<1> QED BY <1>1 DEF Advances, Stage, Pending

(* Every step of the agent loop ends a round, goes to a later stage of it, *)
(* or runs one of the calls the model listed and the protection after it.  *)
(* As the rounds are limited, every run is finite whatever the model does. *)
THEOREM EveryStepAdvances == Spec => [][Advances]_vars
<1>1. IndInv /\ [Next]_vars => [Advances]_vars
  <2> SUFFICES ASSUME IndInv, [Next]_vars, ~UNCHANGED vars PROVE Advances
    OBVIOUS
  <2>1. CASE EndToolRound
    BY <2>1 DEF EndToolRound, Advances, IndInv, TypeOK
  <2>2. CASE \E m \in BOOLEAN : Tool(m)
    BY <2>2, ToolAdvances
  <2>3. CASE \/ ReportNoSuccess \/ ReportSuccess \/ StopOnContextBudget \/ RequestTools
             \/ ToolRoundsExhausted \/ TakeDiff \/ RunAnchorTests
             \/ ReviewSuccessfulStep \/ StepFails
    BY <2>3, LaterStage
  <2>4. WriteFile \/ WriteRegression \/ ApplyPatch \/ RunShell => Tool(TRUE)
    BY DEF WriteFile, WriteRegression, ApplyPatch, RunShell
  <2>5. RunTests \/ Inspect \/ GatherContext => Tool(FALSE)
    BY DEF RunTests, Inspect, GatherContext
  <2> QED BY <2>1, <2>2, <2>3, <2>4, <2>5, ProtectAdvances DEF Next, Finished
<1> QED BY <1>1, Invariance, PTL DEF Spec
=============================================================================
