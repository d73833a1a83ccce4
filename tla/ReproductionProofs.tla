-------------------------- MODULE ReproductionProofs --------------------------
(***************************************************************************)
(* Theorems about the reproduction child, for any files, contents, rounds  *)
(* and calls.                                                              *)
(***************************************************************************)
EXTENDS Reproduction, TLAPS

(* No production file holds a test, and no test production code. *)
WellWritten == repo.index \in WrittenTrees /\ repo.work \in WrittenTrees

(* While the child works a round is left and there is no result; at the    *)
(* end the result is true of the tree.                                     *)
Claimed ==
    /\ pc \in {"tools", "protect"} => round < MaxToolRounds
    /\ pc # "returned" => result = NotReproduced
    /\ AnchorFailsOnBase

(* Where no protection pass is due, a committed test that is changed has   *)
(* escaped in one of the known ways.                                       *)
Escapes(f) == f \in exposed \/ repo.index[f] # Base[f] \/ f \in Quoted \cup Garbled
EscapesOnly ==
    pc \in {"llm", "tools", "returned"} =>
        \A f \in Tests : Base[f] # Absent /\ repo.work[f] # Base[f] => Escapes(f)

IndInv == TypeOK /\ WellWritten /\ Claimed /\ EscapesOnly

-----------------------------------------------------------------------------
(* Another working tree is all that an edit makes. *)
LEMMA KeepRefs ==
    ASSUME NEW r, IsRepo(r), NEW i \in WrittenTrees, NEW w \in WrittenTrees
    PROVE  IsRepo(Repo(r.head, r.refs, i, w))
BY DEF IsRepo, Repo, WrittenTrees

LEMMA EditType ==
    ASSUME NEW r, IsRepo(r), r.index \in WrittenTrees, NEW e \in Edits(r)
    PROVE  IsRepo(e) /\ e.index \in WrittenTrees /\ e.work \in WrittenTrees
<1>1. r.work \in Trees
  BY DEF IsRepo
<1>2. PICK w \in Near[r.work] : e = Repo(r.head, r.refs, r.index, w)
  BY DEF Edits
<1>3. w \in WrittenTrees
  BY <1>1, <1>2 DEF Near
<1> QED BY <1>2, <1>3, KeepRefs DEF Repo

(* Committing what is staged moves the current branch there. *)
LEMMA CommitStaged ==
    ASSUME NEW e, IsRepo(e), e.work \in WrittenTrees
    PROVE  LET r == ResetHard(AddAll(e), Commit("result", e.work))
           IN  IsRepo(r) /\ r.index \in WrittenTrees /\ r.work \in WrittenTrees
<1> DEFINE t == e.work
           c == Commit("result", t)
           refs == SetRef(e.refs, e.head, c)
           w == [f \in Files |-> IF t[f] = Absent /\ t[f] = Absent THEN t[f] ELSE t[f]]
           r == Repo(e.head, refs, t, w)
<1>1. ResetHard(AddAll(e), c) = r
  BY DEF ResetHard, AddAll, Repo, Commit
<1>2. t \in Trees /\ c \in Commits
  BY DEF WrittenTrees, Commit, Commits, Kinds
<1>3. w = t
  BY <1>2 DEF Trees
<1>4. /\ e.head \in DOMAIN e.refs /\ DOMAIN e.refs \subseteq Branches
      /\ \A b \in DOMAIN e.refs : e.refs[b] \in Commits
  BY DEF IsRepo
<1>5. DOMAIN refs = DOMAIN e.refs /\ \A b \in DOMAIN refs : refs[b] \in Commits
  <2> HIDE DEF c
  <2> QED BY <1>2, <1>4 DEF SetRef
<1>6. IsRepo(r) /\ r.index = t /\ r.work = t
  <2> HIDE DEF refs, w
  <2> QED BY <1>2, <1>3, <1>4, <1>5 DEF IsRepo, Repo
<1> QED BY <1>1, <1>6

LEMMA ShellType ==
    ASSUME NEW r, IsRepo(r), r.index \in WrittenTrees, NEW s \in ShellOutcomes(r)
    PROVE  IsRepo(s) /\ s.index \in WrittenTrees /\ s.work \in WrittenTrees
<1>1. CASE s \in Edits(r)
  BY <1>1, EditType
<1>2. CASE \E e \in Edits(r) : s = AddAll(e)
  <2>1. PICK e \in Edits(r) : s = AddAll(e)
    BY <1>2
  <2>2. IsRepo(e) /\ e.work \in WrittenTrees
    BY EditType
  <2> QED BY <2>1, <2>2, KeepRefs DEF AddAll, Repo
<1>3. CASE \E e \in Edits(r) : s = ResetHard(AddAll(e), Commit("result", e.work))
  BY <1>3, EditType, CommitStaged
<1> QED BY <1>1, <1>2, <1>3 DEF ShellOutcomes, CommandOutcomes

LEMMA UnguardedType ==
    ASSUME IsRepo(repo), WellWritten, exposed \subseteq Files, NEW loophole,
           Unguarded(loophole)
    PROVE  IsRepo(repo)' /\ WellWritten' /\ exposed' \subseteq Files
BY ShellType DEF Unguarded, Touched, WellWritten

LEMMA WrittenTree ==
    ASSUME NEW w \in WrittenTrees, NEW f \in Files, NEW c \in Written(f)
    PROVE  [w EXCEPT ![f] = c] \in WrittenTrees
<1>1. c \in Contents
  BY ReproductionAssumption DEF Written
<1> QED BY <1>1 DEF WrittenTrees, Trees

(* What a command does not touch escapes as before. *)
LEMMA EscapesExposed ==
    ASSUME EscapesOnly, pc = "tools", exposed \cup Touched(repo, repo') \subseteq exposed'
    PROVE  EscapesOnly'
<1> SUFFICES ASSUME NEW f \in Tests, Base[f] # Absent, repo'.work[f] # Base[f]
             PROVE  Escapes(f)'
  BY DEF EscapesOnly
<1>1. CASE f \in Touched(repo, repo')
  BY <1>1 DEF Escapes
<1>2. CASE f \notin Touched(repo, repo')
  <2>1. repo'.work[f] = repo.work[f] /\ repo'.index[f] = repo.index[f]
    BY <1>2, ProtectionAssumption DEF Touched
  <2>2. Escapes(f)
    BY <2>1 DEF EscapesOnly
  <2> QED BY <2>1, <2>2 DEF Escapes
<1> QED BY <1>1, <1>2

(* Nothing that keeps the tree changes what escaped, unless a protection   *)
(* pass is due.                                                            *)
LEMMA EscapesStay ==
    ASSUME EscapesOnly, UNCHANGED <<repo, exposed>>,
           pc \in {"llm", "tools"} \/ pc' = "failed"
    PROVE  EscapesOnly'
BY DEF EscapesOnly, Escapes

(* The protection puts back files of the index, and these as the index has *)
(* them if the pass covers them.                                           *)
LEMMA RevertFacts ==
    ASSUME IsRepo(repo), WellWritten, NEW l
    PROVE  LET r == RevertTestEdits(repo, l, {}, FALSE)
           IN  /\ IsRepo(r) /\ r.index = repo.index /\ r.work \in WrittenTrees
               /\ \A f \in Tests \ (Missed(repo, l, {}) \cup Quoted \cup Garbled) :
                    repo.index[f] # Absent => r.work[f] = repo.index[f]
<1> DEFINE paths == ModifiedTests(repo, l, {})
           v == [f \in Files |-> IF f \in paths THEN repo.index[f] ELSE repo.work[f]]
           r == RevertTestEdits(repo, l, {}, FALSE)
<1>1. repo.index \in WrittenTrees /\ repo.work \in WrittenTrees
  BY DEF WellWritten
<1>2. v \in WrittenTrees
  <2> HIDE DEF paths
  <2> QED BY <1>1 DEF WrittenTrees, Trees
<1>3. CASE CheckoutRefused(repo, l, {})
  <2>1. r = repo
    BY <1>3 DEF RevertTestEdits
  <2>2. Missed(repo, l, {}) = Files
    BY <1>3 DEF Missed
  <2> HIDE DEF r
  <2> QED BY <1>1, <2>1, <2>2, ProtectionAssumption DEF r
<1>4. CASE ~CheckoutRefused(repo, l, {})
  <2>1. r = Repo(repo.head, repo.refs, repo.index, v)
    BY <1>4 DEF RevertTestEdits, RestoreFromIndex
  <2>2. IsRepo(r) /\ r.index = repo.index /\ r.work = v
    <3> HIDE DEF v, r
    <3> QED BY <1>1, <1>2, <2>1, KeepRefs DEF Repo
  <2>3. ASSUME NEW f \in Tests \ (Missed(repo, l, {}) \cup Quoted \cup Garbled),
               repo.index[f] # Absent
        PROVE  v[f] = repo.index[f]
    <3>1. f \in Files
      BY ProtectionAssumption
    <3>2. f \in ChangedFiles(repo) => f \in l.files
      BY <1>4, <2>3, <3>1 DEF Missed
    <3>3. f \notin paths => repo.work[f] = repo.index[f]
      BY <2>3, <3>1, <3>2 DEF ModifiedTests, ModifiedFiles, ChangedFiles
    <3> HIDE DEF paths
    <3> QED BY <3>1, <3>3
  <2> HIDE DEF v, r
  <2> QED BY <1>2, <2>2, <2>3 DEF r
<1> QED BY <1>3, <1>4

(* A claim that passes the verification is about a test that fails now. *)
LEMMA VerifiedFails ==
    ASSUME NEW tree \in WrittenTrees, NEW left \in WrittenTrees, NEW claim \in Claims,
           NEW unclear \in BOOLEAN
    PROVE  LET r == Verified(tree, left, claim, unclear)
           IN  /\ r \in Claims
               /\ r.status = "reproduced" =>
                    /\ r.target \in Files
                    /\ HasAssertion(left, r.target)
                    /\ Outcome(tree, r.target) \in {"assertion", "error"}
<1> DEFINE r == Verified(tree, left, claim, unclear)
<1>1. CASE r = NotReproduced
  BY <1>1 DEF NotReproduced, Claims
<1>2. CASE r # NotReproduced
  <2>1. /\ r = claim /\ claim.status = "reproduced"
        /\ IsAssertionFailure(Outcome(tree, claim.target))
        /\ HasAssertion(left, claim.target)
    BY <1>2 DEF Verified
  <2>2. Outcome(tree, claim.target) \in {"assertion", "error"}
    BY <2>1 DEF IsAssertionFailure
  <2>3. claim.target \in Files
    BY <2>1 DEF Claims, NotReproduced
  <2> QED BY <2>1, <2>2, <2>3
<1> QED BY <1>1, <1>2

(* A test that fails and holds an assert reaches it or raises before. *)
LEMMA FailingAnchor ==
    ASSUME NEW tree \in WrittenTrees, NEW f \in Files,
           Outcome(tree, f) \in {"assertion", "error"}, HasAssertion(tree, f)
    PROVE  tree[f] \in {Asserting, Raising}
<1>1. f \in Tests /\ tree[f] \notin {Absent, Broken}
  BY DEF Outcome
<1>2. tree[f] \in TestContents
  BY <1>1 DEF WrittenTrees, Written
<1> QED BY <1>1, <1>2, ReproductionAssumption DEF HasAssertion, CodeContents

(* How a test runs depends on itself and on the production files. *)
LEMMA SameOutcome ==
    ASSUME NEW s, NEW t, NEW f \in Files,
           \A g \in {f} \cup (Files \ Tests) : s[g] = t[g]
    PROVE  Outcome(s, f) = Outcome(t, f)
BY DEF Outcome

-----------------------------------------------------------------------------
LEMMA InitInd == Init => IndInv
<1> SUFFICES ASSUME Init PROVE IndInv
  OBVIOUS
<1> DEFINE refs == SetRef(<<>>, Home, Commit("origin", Base))
<1>1. DOMAIN refs = {Home} /\ refs[Home] = Commit("origin", Base)
  BY DEF SetRef
<1>2. Base \in Trees /\ Base \in WrittenTrees
  BY ReproductionAssumption DEF WrittenTrees
<1>3. Commit("origin", Base) \in Commits /\ Commit("origin", Base).tree = Base
  BY <1>2 DEF Commit, Commits, Kinds
<1>4. /\ repo.head = Home /\ repo.refs = refs /\ repo.index = Base /\ repo.work = Base
  BY DEF Init, Repo
<1>5. IsRepo(repo) /\ WellWritten
  <2> HIDE DEF refs
  <2> QED BY <1>1, <1>2, <1>3, <1>4 DEF IsRepo, WellWritten, Branches
<1>6. TypeOK
  <2>1. 0 \in 0 .. MaxToolRounds /\ 0 \in 0 .. MaxCalls
    BY ReproductionAssumption
  <2>2. NoTurn \in ReproTurns /\ NotReproduced \in Claims
    BY DEF NoTurn, ReproTurns, Claims
  <2>3. pc \in {"llm", "returned"} /\ (pc = "llm" => 0 < MaxToolRounds)
    BY DEF Init
  <2> QED BY <1>5, <2>1, <2>2, <2>3 DEF Init, TypeOK
<1>7. Claimed
  BY DEF Init, Claimed, AnchorFailsOnBase, NotReproduced
<1>8. EscapesOnly
  BY <1>4 DEF EscapesOnly
<1> QED BY <1>5, <1>6, <1>7, <1>8 DEF IndInv

LEMMA ToolInd ==
    ASSUME IndInv, NEW mutates \in BOOLEAN, Tool(mutates), IsRepo(repo)', WellWritten',
           created' \subseteq Files, exposed' \subseteq Files, EscapesOnly'
    PROVE  IndInv'
<1>1. /\ pc = "tools" /\ calls \in 0 .. MaxCalls /\ calls > 0 /\ calls' = calls - 1
      /\ pc' \in {"tools", "protect"}
      /\ UNCHANGED <<round, turn, result, disturbed>>
  BY DEF Tool, IndInv, TypeOK
<1>2. calls' \in 0 .. MaxCalls
  BY <1>1, ReproductionAssumption
<1>3. TypeOK'
  BY <1>1, <1>2 DEF IndInv, TypeOK
<1>4. Claimed'
  BY <1>1 DEF IndInv, Claimed, AnchorFailsOnBase
<1> QED BY <1>3, <1>4 DEF IndInv

(* The tools that edit are followed by a protection pass. *)
LEMMA MutatingInd == IndInv /\ (WriteRegression \/ RunShell) => IndInv'
<1> SUFFICES ASSUME IndInv, WriteRegression \/ RunShell PROVE IndInv'
  OBVIOUS
<1>1. IsRepo(repo) /\ WellWritten /\ created \subseteq Files /\ exposed \subseteq Files
  BY DEF IndInv, TypeOK
<1>2. Tool(TRUE) /\ exposed' = exposed
  BY DEF WriteRegression, RunShell
<1>3. EscapesOnly'
  BY <1>2 DEF EscapesOnly, Tool
<1>4. CASE WriteRegression
  <2>1. PICK f \in Files : \E c \in Written(f) :
           IF repo.work[f] = Absent
           THEN /\ repo' = Repo(repo.head, repo.refs, repo.index, [repo.work EXCEPT ![f] = c])
                /\ created' = created \cup {f}
           ELSE UNCHANGED <<repo, created>>
    BY <1>4 DEF WriteRegression
  <2>2. PICK c \in Written(f) :
           IF repo.work[f] = Absent
           THEN /\ repo' = Repo(repo.head, repo.refs, repo.index, [repo.work EXCEPT ![f] = c])
                /\ created' = created \cup {f}
           ELSE UNCHANGED <<repo, created>>
    BY <2>1
  <2>3. [repo.work EXCEPT ![f] = c] \in WrittenTrees
    BY <1>1, WrittenTree DEF WellWritten
  <2>4. IsRepo(repo)' /\ WellWritten' /\ created' \subseteq Files
    <3>1. CASE repo.work[f] = Absent
      BY <1>1, <2>2, <2>3, <3>1, KeepRefs DEF WellWritten, Repo
    <3>2. CASE repo.work[f] # Absent
      BY <1>1, <2>2, <3>2 DEF WellWritten
    <3> QED BY <3>1, <3>2
  <2> QED BY <1>1, <1>2, <1>3, <2>4, ToolInd
<1>5. CASE RunShell
  <2>1. IsRepo(repo)' /\ WellWritten' /\ created' \subseteq Files
    BY <1>1, <1>5, ShellType DEF RunShell, WellWritten
  <2> QED BY <1>1, <1>2, <1>3, <2>1, ToolInd
<1> QED BY <1>4, <1>5

(* What the other tools do counts as exposed. *)
LEMMA ExposingInd == IndInv /\ (RunTests \/ Inspect \/ GatherContext) => IndInv'
<1> SUFFICES ASSUME IndInv, RunTests \/ Inspect \/ GatherContext PROVE IndInv'
  OBVIOUS
<1>1. IsRepo(repo) /\ WellWritten /\ created \subseteq Files /\ exposed \subseteq Files
  BY DEF IndInv, TypeOK
<1>2. Tool(FALSE) /\ created' = created /\ pc = "tools"
  BY DEF RunTests, Inspect, GatherContext, Tool
<1>3. CASE Inspect
  <2>1. UNCHANGED <<repo, exposed>>
    BY <1>3 DEF Inspect
  <2>2. EscapesOnly'
    BY <1>2, <2>1, EscapesStay DEF IndInv
  <2> QED BY <1>1, <1>2, <2>1, <2>2, ToolInd DEF WellWritten
<1>4. CASE \E loophole : Unguarded(loophole)
  <2>1. IsRepo(repo)' /\ WellWritten' /\ exposed' \subseteq Files
    BY <1>1, <1>4, UnguardedType
  <2>2. exposed' = exposed \cup Touched(repo, repo')
    BY <1>4 DEF Unguarded
  <2>3. EscapesOnly'
    BY <1>2, <2>2, EscapesExposed DEF IndInv
  <2> QED BY <1>1, <1>2, <2>1, <2>3, ToolInd
<1> QED BY <1>3, <1>4 DEF RunTests, GatherContext

LEMMA ProtectInd == IndInv /\ ProtectTests => IndInv'
<1> SUFFICES ASSUME IndInv, ProtectTests PROVE IndInv'
  OBVIOUS
<1>1. PICK l : repo' = RevertTestEdits(repo, l, {}, FALSE) /\ exposed' = Missed(repo, l, {})
  BY DEF ProtectTests
<1>2. IsRepo(repo) /\ WellWritten
  BY DEF IndInv, TypeOK
<1>3. /\ IsRepo(repo)' /\ repo'.index = repo.index /\ WellWritten'
      /\ \A f \in Tests \ (exposed' \cup Quoted \cup Garbled) :
           repo.index[f] # Absent => repo'.work[f] = repo.index[f]
  BY <1>1, <1>2, RevertFacts DEF WellWritten
<1>4. /\ pc = "protect" /\ pc' = "tools"
      /\ UNCHANGED <<round, calls, turn, result, created, disturbed>>
  BY DEF ProtectTests
<1>5. exposed' \subseteq Files
  BY <1>1 DEF Missed, ChangedFiles, UntrackedFiles, ModifiedFiles
<1>6. TypeOK'
  BY <1>3, <1>4, <1>5 DEF IndInv, TypeOK
<1>7. Claimed'
  BY <1>4 DEF IndInv, Claimed, AnchorFailsOnBase
<1>8. EscapesOnly'
  BY <1>3 DEF EscapesOnly, Escapes
<1> QED BY <1>3, <1>6, <1>7, <1>8 DEF IndInv

(* The claim that is returned is true of the tree the check ran on, and of *)
(* the tree it left as far as the check did not change it.                 *)
LEMMA VerifyInd == IndInv /\ VerifyClaim => IndInv'
<1> SUFFICES ASSUME IndInv, VerifyClaim PROVE IndInv'
  OBVIOUS
<1>1. PICK unclear \in BOOLEAN :
        result' = Verified(repo.work, repo'.work, turn.claim, unclear)
  BY DEF VerifyClaim
<1>2. /\ pc = "tools" /\ pc' = "returned" /\ UNCHANGED <<round, calls, turn, created>>
      /\ disturbed' = Touched(repo, repo')
      /\ Unguarded("tests") \/ UNCHANGED <<repo, exposed>>
  BY DEF VerifyClaim
<1>3. /\ IsRepo(repo) /\ WellWritten /\ exposed \subseteq Files
      /\ turn.claim \in Claims
  <2>1. turn \in ReproTurns
    BY DEF IndInv, TypeOK
  <2>2. NotReproduced \in Claims
    BY DEF Claims
  <2>3. turn.claim \in Claims
    BY <2>1, <2>2 DEF ReproTurns
  <2> QED BY <2>3 DEF IndInv, TypeOK
<1>4. IsRepo(repo)' /\ WellWritten' /\ exposed' \subseteq Files
  BY <1>2, <1>3, UnguardedType DEF WellWritten
<1>5. /\ result' \in Claims
      /\ result'.status = "reproduced" =>
           /\ result'.target \in Files
           /\ HasAssertion(repo'.work, result'.target)
           /\ Outcome(repo.work, result'.target) \in {"assertion", "error"}
  BY <1>1, <1>3, <1>4, VerifiedFails DEF WellWritten
<1>6. disturbed' \subseteq Files
  BY <1>2 DEF Touched
<1>7. TypeOK'
  BY <1>2, <1>4, <1>5, <1>6 DEF IndInv, TypeOK
<1>8. EscapesOnly'
  <2>1. CASE Unguarded("tests")
    BY <1>2, <2>1, EscapesExposed DEF IndInv, Unguarded
  <2>2. CASE UNCHANGED <<repo, exposed>>
    BY <1>2, <2>2, EscapesStay DEF IndInv
  <2> QED BY <1>2, <2>1, <2>2
<1>9. AnchorFailsOnBase'
  <2> SUFFICES ASSUME result'.status = "reproduced",
                      disturbed' \cap ({result'.target} \cup (Files \ Tests)) = {}
               PROVE  /\ Outcome(repo'.work, result'.target) \in {"assertion", "error"}
                      /\ repo'.work[result'.target] \in {Asserting, Raising}
    BY <1>5 DEF AnchorFailsOnBase
  <2> DEFINE target == result'.target
  <2>1. target \in Files /\ HasAssertion(repo'.work, target)
    BY <1>5
  <2>2. \A g \in {target} \cup (Files \ Tests) : repo'.work[g] = repo.work[g]
    BY <1>2, <2>1 DEF Touched
  <2>3. Outcome(repo'.work, target) = Outcome(repo.work, target)
    <3> HIDE DEF target
    <3> QED BY <2>1, <2>2, SameOutcome
  <2>4. Outcome(repo'.work, target) \in {"assertion", "error"}
    BY <1>5, <2>3
  <2> QED BY <1>4, <2>1, <2>4, FailingAnchor DEF WellWritten
<1>10. Claimed'
  BY <1>2, <1>9 DEF Claimed
<1> QED BY <1>4, <1>7, <1>8, <1>10 DEF IndInv

LEMMA EndRoundInd == IndInv /\ EndRound => IndInv'
<1> SUFFICES ASSUME IndInv, EndRound PROVE IndInv'
  OBVIOUS
<1>1. /\ pc = "tools" /\ round' = round + 1
      /\ pc' = IF round' = MaxToolRounds THEN "returned" ELSE "llm"
      /\ UNCHANGED <<repo, calls, turn, result, created, exposed, disturbed>>
  BY DEF EndRound, hist
<1>2. result = NotReproduced /\ result.status # "reproduced"
  BY <1>1 DEF IndInv, Claimed, NotReproduced
<1>3. round \in 0 .. MaxToolRounds /\ MaxToolRounds \in Nat /\ round < MaxToolRounds
  BY <1>1, ReproductionAssumption DEF IndInv, TypeOK, Claimed
<1>4. round' \in 0 .. MaxToolRounds /\ (pc' = "llm" => round' < MaxToolRounds)
  BY <1>1, <1>3
<1>5. TypeOK' /\ WellWritten'
  BY <1>1, <1>4 DEF IndInv, TypeOK, WellWritten
<1>6. Claimed'
  BY <1>1, <1>2 DEF Claimed, AnchorFailsOnBase
<1>7. EscapesOnly'
  BY <1>1, EscapesStay DEF IndInv
<1> QED BY <1>5, <1>6, <1>7 DEF IndInv

LEMMA NextInd == IndInv /\ [Next]_vars => IndInv'
<1> SUFFICES ASSUME IndInv, [Next]_vars PROVE IndInv'
  OBVIOUS
<1> USE DEF hist
<1>1. CASE Ask
  <2>1. TypeOK' /\ WellWritten'
    BY <1>1 DEF Ask, IndInv, TypeOK, WellWritten
  <2>2. Claimed'
    BY <1>1 DEF Ask, IndInv, TypeOK, Claimed, AnchorFailsOnBase
  <2>3. EscapesOnly'
    BY <1>1, EscapesStay DEF Ask, IndInv
  <2> QED BY <2>1, <2>2, <2>3 DEF IndInv
<1>2. CASE StopOnContextBudget
  <2>1. result = NotReproduced /\ result.status # "reproduced"
    BY <1>2 DEF StopOnContextBudget, IndInv, Claimed, NotReproduced
  <2>2. EscapesOnly'
    BY <1>2, EscapesStay DEF StopOnContextBudget, IndInv
  <2> QED BY <1>2, <2>1, <2>2 DEF StopOnContextBudget, IndInv, TypeOK, WellWritten,
       Claimed, AnchorFailsOnBase
<1>3. CASE ReproductionFails
  <2>1. pc # "returned"
    BY <1>3 DEF ReproductionFails
  <2>2. EscapesOnly'
    BY <1>3, EscapesStay DEF ReproductionFails, IndInv
  <2> QED BY <1>3, <2>1, <2>2 DEF ReproductionFails, IndInv, TypeOK, WellWritten, Claimed,
       AnchorFailsOnBase
<1>4. CASE UNCHANGED vars
  <2>1. TypeOK' /\ WellWritten' /\ Claimed'
    BY <1>4 DEF vars, IndInv, TypeOK, WellWritten, Claimed, AnchorFailsOnBase
  <2>2. EscapesOnly'
    BY <1>4 DEF vars, IndInv, EscapesOnly, Escapes
  <2> QED BY <2>1, <2>2 DEF IndInv
<1> QED
  BY <1>1, <1>2, <1>3, <1>4, MutatingInd, ExposingInd, ProtectInd, VerifyInd, EndRoundInd
  DEF Next, Finished

LEMMA Invariance == Spec => []IndInv
BY InitInd, NextInd, PTL DEF Spec

(* Every reachable state of the child is well typed. *)
THEOREM ReproducerTypeCorrect == Spec => []TypeOK
<1>1. IndInv => TypeOK
  BY DEF IndInv
<1> QED BY <1>1, Invariance, PTL

(* A reproduction is returned with the tree on which its test was seen to  *)
(* fail, up to what that very run changed, whatever the tools of any turn  *)
(* did to the tree before.                                                 *)
THEOREM AnchorIsReal == Spec => []AnchorFailsOnBase
<1>1. IndInv => AnchorFailsOnBase
  BY DEF IndInv, Claimed
<1> QED BY <1>1, Invariance, PTL

(* At every turn and in what is returned, a test the user committed is as  *)
(* it was unless it was staged, touched where no protection pass followed, *)
(* not covered by the last pass, or has a path that git quotes.            *)
THEOREM CommittedTestsKept == Spec => []CommittedTestsIntact
<1>1. IndInv => CommittedTestsIntact
  BY DEF IndInv, EscapesOnly, Escapes, CommittedTestsIntact
<1> QED BY <1>1, Invariance, PTL
-----------------------------------------------------------------------------
(* Why a reproduction ends *)

(* How far a reproducer with a given number of rounds is from its end. *)
Stage == [llm |-> 2, tools |-> 1, protect |-> 1, returned |-> 0, failed |-> 0][pc]

(* The calls, twice, still to be run; protection follows a call that edits. *)
Pending == 2 * calls + (IF pc = "protect" THEN 1 ELSE 0)

(* A further round, a later stage of it, or less that is pending. *)
Advances ==
    \/ round' > round
    \/ round' = round /\ Stage' < Stage
    \/ round' = round /\ Stage' = Stage /\ Pending' < Pending

LEMMA LaterStage ==
    ASSUME IndInv, Ask \/ VerifyClaim \/ StopOnContextBudget \/ ReproductionFails
    PROVE  Advances
<1>1. round' = round
  BY DEF Ask, VerifyClaim, StopOnContextBudget, ReproductionFails
<1>2. \/ pc = "llm" /\ pc' \in {"tools", "failed"}
      \/ pc \in {"tools", "protect"} /\ pc' \in {"returned", "failed"}
  BY DEF Ask, VerifyClaim, StopOnContextBudget, ReproductionFails
<1>3. Stage' < Stage
  BY <1>2 DEF Stage
<1> QED BY <1>1, <1>3 DEF Advances

LEMMA LessIsPending ==
    ASSUME IndInv, ProtectTests \/ \E m \in BOOLEAN : Tool(m)
    PROVE  Advances
<1>1. calls \in Int
  BY DEF IndInv, TypeOK
<1>2. CASE ProtectTests
  <2>1. pc = "protect" /\ pc' = "tools" /\ calls' = calls /\ round' = round
    BY <1>2 DEF ProtectTests
  <2> QED BY <1>1, <2>1 DEF Advances, Stage, Pending
<1>3. CASE \E m \in BOOLEAN : Tool(m)
  <2>1. /\ pc = "tools" /\ pc' \in {"tools", "protect"}
        /\ calls' = calls - 1 /\ round' = round
    BY <1>3 DEF Tool
  <2>2. Stage' = Stage /\ Pending' < Pending
    BY <1>1, <2>1 DEF Stage, Pending
  <2> QED BY <2>1, <2>2 DEF Advances
<1> QED BY <1>2, <1>3

(* Every step of the reproducer ends a round, goes to a later stage of it, *)
(* or runs one of the calls the model listed and the protection after it.  *)
(* As the rounds are limited, every run is finite whatever the model does. *)
THEOREM EveryStepAdvances == Spec => [][Advances]_vars
<1>1. IndInv /\ [Next]_vars => [Advances]_vars
  <2> SUFFICES ASSUME IndInv, [Next]_vars, ~UNCHANGED vars PROVE Advances
    OBVIOUS
  <2>1. CASE EndRound
    BY <2>1 DEF EndRound, Advances, IndInv, TypeOK
  <2>2. WriteRegression \/ RunShell => Tool(TRUE)
    BY DEF WriteRegression, RunShell
  <2>3. RunTests \/ Inspect \/ GatherContext => Tool(FALSE)
    BY DEF RunTests, Inspect, GatherContext
  <2> QED BY <2>1, <2>2, <2>3, LaterStage, LessIsPending DEF Next, Finished
<1> QED BY <1>1, Invariance, PTL DEF Spec
=============================================================================
