-------------------------- MODULE ReplanningProofs --------------------------
(***************************************************************************)
(* Theorems about the planning child, for any turn budget, any number of   *)
(* context requests and any number of tool calls.                          *)
(***************************************************************************)
EXTENDS Replanning, SequenceTheorems, TLAPS

(* A turn is under way only within the budget, and ends it or goes on. *)
Budgeted ==
    /\ at = "plan" => turnCount < MaxPlannerTurns
    /\ at \in {"gather", "tools"} => turnCount \in 1 .. MaxPlannerTurns
    /\ ReplanContract

(* The notes taken answer the first requests; what is missing is what this *)
(* turn has not gathered yet, and what is not yet known is what it has.    *)
Noted ==
    /\ \A i \in DOMAIN notes : notes[i] = i
    /\ at \in {"plan", "returned"} => Len(notes) = asked /\ known = notes
    /\ at \in {"gather", "tools"} =>
         /\ Len(notes) = asked - turn.requests + gathered
         /\ known = SubSeq(notes, 1, asked - turn.requests)
         /\ turn.requests <= asked
    /\ at = "tools" => gathered = turn.requests

IndInv == TypeOK /\ Budgeted /\ Noted

LEMMA TurnTypes ==
    ASSUME NEW t \in Turns
    PROVE  t.requests \in Nat /\ t.tools \in Nat
BY ReplanningAssumption DEF Turns

LEMMA InitInd == Init => IndInv
<1> SUFFICES ASSUME Init PROVE IndInv
  OBVIOUS
<1>1. EmptyTurn \in Turns
  BY ReplanningAssumption DEF EmptyTurn, Turns
<1>2. TypeOK
  BY <1>1 DEF Init, TypeOK, EmptyTurn
<1>3. Budgeted
  BY ReplanningAssumption DEF Init, Budgeted, ReplanContract
<1>4. Noted
  BY DEF Init, Noted
<1> QED BY <1>2, <1>3, <1>4 DEF IndInv

LEMMA PlanTurnInd == IndInv /\ PlanTurn => IndInv'
<1> SUFFICES ASSUME IndInv, PlanTurn PROVE IndInv'
  OBVIOUS
<1>1. turn' \in Turns /\ turn'.requests \in Nat /\ turn'.tools \in Nat
  BY TurnTypes DEF PlanTurn
<1>2. TypeOK'
  BY <1>1 DEF IndInv, TypeOK, PlanTurn
<1>3. Budgeted'
  BY <1>1, ReplanningAssumption DEF IndInv, TypeOK, Budgeted, ReplanContract, PlanTurn
<1>4. Noted'
  <2>1. Len(notes) = asked /\ known = notes /\ asked \in Nat /\ notes \in Seq(Nat)
    BY DEF IndInv, TypeOK, Noted, PlanTurn
  <2>2. SubSeq(notes, 1, asked) = notes
    BY <2>1
  <2>3. asked' - turn'.requests = asked /\ turn'.requests <= asked'
    BY <1>1, <2>1 DEF PlanTurn
  <2> QED BY <1>1, <2>1, <2>2, <2>3 DEF IndInv, Noted, PlanTurn
<1> QED BY <1>2, <1>3, <1>4 DEF IndInv

LEMMA GatherInd == IndInv /\ GatherContext => IndInv'
<1> SUFFICES ASSUME IndInv, GatherContext PROVE IndInv'
  OBVIOUS
<1> DEFINE n == asked - turn.requests + gathered + 1
<1>1. /\ turn.requests \in Nat /\ gathered \in Nat /\ gathered < turn.requests
      /\ asked \in Nat /\ turn.requests <= asked /\ notes \in Seq(Nat)
      /\ Len(notes) = asked - turn.requests + gathered
      /\ known = SubSeq(notes, 1, asked - turn.requests)
  BY TurnTypes DEF IndInv, TypeOK, Noted, GatherContext
<1>2. n \in Nat /\ n = Len(notes) + 1
  BY <1>1
<1>3. /\ notes' = Append(notes, n) /\ gathered' = gathered + 1
      /\ UNCHANGED <<at, turnCount, turn, executed, asked, known>> /\ at = "gather"
  BY DEF GatherContext
<1>4. TypeOK'
  <2>1. notes' \in Seq(Nat)
    BY <1>1, <1>2, <1>3
  <2>2. gathered' \in 0 .. turn.requests
    BY <1>1, <1>3
  <2> HIDE DEF n
  <2> QED BY <1>3, <2>1, <2>2 DEF IndInv, TypeOK
<1>5. Budgeted'
  BY <1>3 DEF IndInv, Budgeted, ReplanContract
<1>6. /\ Len(notes') = Len(notes) + 1
      /\ \A i \in 1 .. Len(notes) : notes'[i] = notes[i]
      /\ notes'[n] = n
  BY <1>1, <1>2, <1>3
<1>7. ASSUME NEW i \in DOMAIN notes' PROVE notes'[i] = i
  <2>1. i \in 1 .. Len(notes) + 1
    BY <1>1, <1>2, <1>3
  <2>2. CASE i = n
    BY <2>2, <1>6
  <2>3. CASE i # n
    <3>1. i \in 1 .. Len(notes)
      BY <1>1, <1>2, <2>1, <2>3
    <3>2. notes[i] = i
      BY <3>1, <1>1 DEF IndInv, Noted
    <3> QED BY <1>6, <3>1, <3>2
  <2> QED BY <2>2, <2>3
<1>8. SubSeq(notes', 1, asked - turn.requests) = SubSeq(notes, 1, asked - turn.requests)
  BY <1>1, <1>2, <1>3
<1>9. Len(notes') = asked' - turn'.requests + gathered'
  BY <1>1, <1>2, <1>3, <1>6
<1>10. Noted'
  BY <1>1, <1>3, <1>7, <1>8, <1>9 DEF Noted
<1> QED BY <1>4, <1>5, <1>10 DEF IndInv

LEMMA EndTurnInd == IndInv /\ EndTurn => IndInv'
<1> SUFFICES ASSUME IndInv, EndTurn PROVE IndInv'
  OBVIOUS
<1>0. at = "tools" /\ turn \in Turns
  BY DEF IndInv, TypeOK, EndTurn
<1>1. /\ turn.requests \in Nat /\ turn.tools \in Nat /\ gathered = turn.requests
      /\ asked \in Nat /\ turn.requests <= asked /\ notes \in Seq(Nat)
      /\ known = SubSeq(notes, 1, asked - turn.requests)
      /\ turnCount \in 1 .. MaxPlannerTurns
  BY <1>0, TurnTypes DEF IndInv, TypeOK, Noted, Budgeted
<1>2. Len(notes) = asked
  <2>1. Len(notes) = asked - turn.requests + gathered
    BY <1>0 DEF IndInv, Noted
  <2> QED BY <1>1, <2>1
<1>3. known' = notes
  <2> DEFINE k == asked - turn.requests
  <2>1. known' = SubSeq(notes, 1, k) \o SubSeq(notes, k + 1, asked)
    <3>1. known' = known \o SubSeq(notes, Len(notes) - gathered + 1, Len(notes))
      BY DEF EndTurn
    <3> QED BY <3>1, <1>1, <1>2
  <2>2. k \in 0 .. asked
    BY <1>1
  <2>3. SubSeq(notes, 1, k) \o SubSeq(notes, k + 1, asked) = SubSeq(notes, 1, asked)
    <3>1. 1 \in 1 .. Len(notes) + 1 /\ k \in 1 - 1 .. Len(notes) /\ asked \in k .. Len(notes)
      BY <1>1, <1>2, <2>2
    <3> HIDE DEF k
    <3> QED BY <1>1, <3>1, ConcatAdjacentSubSeq
  <2>4. SubSeq(notes, 1, asked) = notes
    BY <1>1, <1>2, SubSeqFull
  <2> QED BY <2>1, <2>3, <2>4
<1>4. UNCHANGED <<turnCount, turn, gathered, executed, asked, notes>>
  BY DEF EndTurn
<1>5. /\ at' \in {"plan", "returned"}
      /\ at' = "plan" => turnCount # MaxPlannerTurns
      /\ at' = "returned" /\ turn.requests + turn.tools > 0 => turnCount = MaxPlannerTurns
  BY <1>1 DEF EndTurn
<1>6. TypeOK'
  BY <1>3, <1>4, <1>5 DEF IndInv, TypeOK
<1>7. Budgeted'
  BY <1>1, <1>4, <1>5, ReplanningAssumption DEF Budgeted, ReplanContract
<1>8. Noted'
  <2>1. \A i \in DOMAIN notes : notes[i] = i
    BY DEF IndInv, Noted
  <2> QED BY <1>2, <1>3, <1>4, <1>5, <2>1 DEF Noted
<1> QED BY <1>6, <1>7, <1>8 DEF IndInv

LEMMA NextInd == IndInv /\ [Next]_vars => IndInv'
<1> SUFFICES ASSUME IndInv, [Next]_vars PROVE IndInv'
  OBVIOUS
<1>1. CASE StartTools
  BY <1>1 DEF StartTools, IndInv, TypeOK, Budgeted, ReplanContract, Noted
<1>2. CASE RunPlannerTool
  <2>1. executed' \in 0 .. turn.tools
    BY <1>2, TurnTypes, ReplanningAssumption DEF RunPlannerTool, Smaller, IndInv, TypeOK
  <2> QED BY <1>2, <2>1 DEF RunPlannerTool, IndInv, TypeOK, Budgeted, ReplanContract, Noted
<1>3. CASE ReplanningFails
  BY <1>3 DEF ReplanningFails, IndInv, TypeOK, Budgeted, ReplanContract, Noted
<1>4. CASE UNCHANGED vars
  BY <1>4 DEF vars, IndInv, TypeOK, Budgeted, ReplanContract, Noted
<1> QED
  BY <1>1, <1>2, <1>3, <1>4, PlanTurnInd, GatherInd, EndTurnInd DEF Next, Finished

LEMMA Invariance == Spec => []IndInv
BY InitInd, NextInd, PTL DEF Spec

(* Every reachable state of the planning child is well typed: no more      *)
(* requests are gathered than were made, nor more tools run than listed.   *)
THEOREM PlannerTypeCorrect == Spec => []TypeOK
<1>1. IndInv => TypeOK
  BY DEF IndInv
<1> QED BY <1>1, Invariance, PTL

(* A child with a budget spends one turn at least, never more than it has, *)
(* and comes back with requests or tools pending when all are spent only.  *)
THEOREM ContractHolds == Spec => []ReplanContract
<1>1. IndInv => ReplanContract
  BY DEF IndInv, Budgeted
<1> QED BY <1>1, Invariance, PTL

(* All requests of all turns are answered, once each and in order, before  *)
(* the planner is asked again.                                             *)
THEOREM RequestsAnswered == Spec => []NotesAnswerRequests
<1>1. IndInv => NotesAnswerRequests
  BY DEF IndInv, Noted, NotesAnswerRequests
<1> QED BY <1>1, Invariance, PTL
-----------------------------------------------------------------------------
(* Why planning ends *)

(* How far a child with a given number of turns made is from its end. *)
Stage == [gather |-> 3, tools |-> 2, plan |-> 1, returned |-> 0, failed |-> 0][at]

(* The requests, or the tool calls, of the turn that are not dealt with. *)
Pending == IF at = "gather" THEN turn.requests - gathered ELSE turn.tools - executed

(* A further turn, a later stage of it, or less that is pending. *)
Advances ==
    \/ turnCount' > turnCount
    \/ turnCount' = turnCount /\ Stage' < Stage
    \/ turnCount' = turnCount /\ Stage' = Stage /\ Pending' < Pending

LEMMA TurnAdvances == IndInv /\ PlanTurn => Advances
BY DEF IndInv, TypeOK, PlanTurn, Advances

LEMMA LaterStage ==
    ASSUME IndInv, StartTools \/ EndTurn \/ ReplanningFails
    PROVE  Advances
<1>1. turnCount' = turnCount
  BY DEF StartTools, EndTurn, ReplanningFails
<1>2. \/ at = "gather" /\ at' \in {"tools", "failed"}
      \/ at = "tools" /\ at' \in {"plan", "returned", "failed"}
      \/ at = "plan" /\ at' = "failed"
  BY DEF StartTools, EndTurn, ReplanningFails
<1>3. Stage' < Stage
  BY <1>2 DEF Stage
<1> QED BY <1>1, <1>3 DEF Advances

LEMMA LessIsPending ==
    ASSUME IndInv, GatherContext \/ RunPlannerTool
    PROVE  Advances
<1>1. turn.requests \in Nat /\ turn.tools \in Nat /\ gathered \in Int /\ executed \in Int
  BY TurnTypes DEF IndInv, TypeOK
<1>2. turnCount' = turnCount /\ turn' = turn /\ at' = at
  BY DEF GatherContext, RunPlannerTool
<1>3. \/ at = "gather" /\ gathered' = gathered + 1
      \/ at = "tools" /\ executed' = executed + 1
  BY DEF GatherContext, RunPlannerTool
<1>4. Pending' < Pending
  BY <1>1, <1>2, <1>3 DEF Pending
<1> QED BY <1>2, <1>4 DEF Advances, Stage

(* Every step of the planning child makes a further turn, goes to a later  *)
(* stage of the turn, or deals with one of its requests or tool calls.     *)
(* With the turn budget (ContractHolds) that makes every run finite.       *)
THEOREM EveryStepAdvances == Spec => [][Advances]_vars
<1>1. IndInv /\ [Next]_vars => [Advances]_vars
  BY TurnAdvances, LaterStage, LessIsPending DEF Next, Finished
<1> QED BY <1>1, Invariance, PTL DEF Spec
=============================================================================
