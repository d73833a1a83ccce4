---------------------------- MODULE GathererProofs ----------------------------
(***************************************************************************)
(* Theorems about the context gatherer for every tool budget, context      *)
(* limit, pair of thresholds, pack budget and bound on what a turn lists.  *)
(***************************************************************************)
EXTENDS ContextGatherer, SequenceTheorems, TLAPS

(* The observations of the first n tool calls, in the order of the calls. *)
Numbered(n) == [i \in 1 .. n |-> i]

(* The loop goes on only below the stop threshold; what leaves it for one  *)
(* more completion is below the hard one.                                  *)
BelowThresholds ==
    /\ at \in {"ask", "tools"} => used <= StopAt
    /\ at = "finalize" => used < HardStopAt

(* The conversation holds all observations but those of a turn under way,  *)
(* and these are the latest.                                               *)
Observed ==
    /\ at \in {"ask", "tools", "finalize"} => shown = all
    /\ at \in {"ask", "finalize"} => all = Numbered(count)
    /\ at = "tools" => all \o fresh = Numbered(count)

(* A conversation cut off at the hard threshold left all it had observed.  *)
Spilled ==
    at \in {"pack", "returned"} /\ used >= HardStopAt => pack.overflow = Numbered(count)

IndInv == TypeOK /\ BelowThresholds /\ Observed /\ Spilled
-----------------------------------------------------------------------------
(* The numbered observations *)

LEMMA NumberedType ==
    ASSUME NEW n \in Nat
    PROVE  Numbered(n) \in Seq(Nat) /\ Len(Numbered(n)) = n
BY DEF Numbered

LEMMA AppendToLast ==
    ASSUME NEW s \in Seq(Nat), NEW t \in Seq(Nat), NEW x \in Nat
    PROVE  s \o Append(t, x) = Append(s \o t, x)
<1> DEFINE last == <<x>>
<1>1. last \in Seq(Nat)
  OBVIOUS
<1>2. s \o t \in Seq(Nat)
  BY ConcatProperties
<1>3. Append(t, x) = t \o last /\ Append(s \o t, x) = (s \o t) \o last
  BY <1>2, AppendIsConcat
<1> HIDE DEF last
<1>4. (s \o t) \o last = s \o (t \o last)
  <2>1. \A a, b, c \in Seq(Nat) : (a \o b) \o c = a \o (b \o c)
    BY ConcatAssociative, SMTT(60)
  <2> QED BY <1>1, <2>1, Zenon
<1> QED BY <1>3, <1>4

(* One more call is one more observation. *)
LEMMA NumberedAppend ==
    ASSUME NEW n \in Nat, NEW s \in Seq(Nat), NEW t \in Seq(Nat), s \o t = Numbered(n)
    PROVE  s \o Append(t, n + 1) = Numbered(n + 1)
<1>1. n + 1 \in Nat
  OBVIOUS
<1>2. s \o Append(t, n + 1) = Append(s \o t, n + 1)
  BY <1>1, AppendToLast
<1>3. Append(Numbered(n), n + 1) = Numbered(n + 1)
  BY NumberedType DEF Numbered
<1> QED BY <1>2, <1>3

(* What a model curates is a sequence of snippets, each of some size or    *)
(* missing.                                                                *)
LEMMA CuratedType == Curated \subseteq Seq(Nat \cup {Missing})
<1> SUFFICES ASSUME NEW s \in Curated
             PROVE  s \in Seq(Nat \cup {Missing})
  OBVIOUS
<1>1. PICK n \in 0 .. MaxSnippets : s \in [1 .. n -> (0 .. MaxSize) \cup {Missing}]
  BY DEF Curated
<1>2. (0 .. MaxSize) \cup {Missing} \subseteq Nat \cup {Missing}
  BY GathererAssumption
<1> QED BY <1>1, <1>2, GathererAssumption
-----------------------------------------------------------------------------
(* The inductive invariant *)

LEMMA InitInd == Init => IndInv
<1> SUFFICES ASSUME Init PROVE IndInv
  OBVIOUS
<1> USE GathererAssumption DEF Init
<1>1. TypeOK
  <2>1. /\ used \in 0 .. ContextLimit /\ count \in 0 .. MaxToolCalls
        /\ listed \in 0 .. MaxCallsPerTurn
    OBVIOUS
  <2>2. pack \in [snippets : Seq(Nat), spilled : Nat, overflow : Seq(Nat)]
    BY DEF EmptyPack
  <2>3. fresh \in Seq(Nat) /\ shown \in Seq(Nat) /\ all \in Seq(Nat)
    OBVIOUS
  <2>4. snippets \in Seq(Nat \cup {Missing})
    OBVIOUS
  <2>5. at \in {"ask", "finalize"}
    OBVIOUS
  <2> QED BY <2>1, <2>2, <2>3, <2>4, <2>5 DEF TypeOK
<1>2. BelowThresholds
  BY DEF BelowThresholds
<1>3. Numbered(0) = <<>>
  BY DEF Numbered
<1>4. Observed
  BY <1>3 DEF Observed
<1>5. Spilled
  BY DEF Spilled
<1> QED BY <1>1, <1>2, <1>4, <1>5 DEF IndInv

(* A completion keeps the conversation's length within the limit. *)
LEMMA Completed ==
    ASSUME TypeOK, Complete
    PROVE  used' \in 0 .. ContextLimit /\ used' > used /\ used \in Nat
BY GathererAssumption DEF TypeOK, Complete

LEMMA BudgetInd == IndInv /\ BudgetExceeded => IndInv'
<1> SUFFICES ASSUME IndInv, BudgetExceeded PROVE IndInv'
  OBVIOUS
<1> USE DEF IndInv
<1>1. used' \in 0 .. ContextLimit /\ used' \in Nat /\ used' > StopAt /\ at = "ask"
  BY Completed, GathererAssumption DEF BudgetExceeded, Complete
<1>2. TypeOK'
  BY <1>1 DEF TypeOK, BudgetExceeded, turnVars
<1>3. BelowThresholds'
  BY <1>1, GathererAssumption DEF BelowThresholds, BudgetExceeded
<1>4. Observed'
  BY <1>1 DEF Observed, BudgetExceeded, turnVars
<1>5. Spilled'
  <2> SUFFICES ASSUME at' = "pack", used' >= HardStopAt
               PROVE  pack'.overflow = Numbered(count)
    BY <1>1, GathererAssumption DEF Spilled, BudgetExceeded, turnVars
  <2> QED BY <1>1 DEF Observed, BudgetExceeded, TypeOK
<1> QED BY <1>2, <1>3, <1>4, <1>5

LEMMA DoneInd == IndInv /\ Done => IndInv'
<1> SUFFICES ASSUME IndInv, Done PROVE IndInv'
  OBVIOUS
<1> USE DEF IndInv
<1>1. used' \in 0 .. ContextLimit /\ used' <= StopAt /\ used' < HardStopAt
  BY Completed, GathererAssumption DEF Done
<1>2. TypeOK'
  BY <1>1, CuratedType DEF TypeOK, Done, turnVars
<1>3. BelowThresholds' /\ Observed' /\ Spilled'
  BY <1>1, GathererAssumption DEF BelowThresholds, Observed, Spilled, Done, turnVars
<1> QED BY <1>2, <1>3

LEMMA RequestInd == IndInv /\ RequestTools => IndInv'
<1> SUFFICES ASSUME IndInv, RequestTools PROVE IndInv'
  OBVIOUS
<1> USE DEF IndInv
<1>1. used' \in 0 .. ContextLimit /\ used' <= StopAt /\ at = "ask"
  BY Completed DEF RequestTools, Complete
<1>2. TypeOK'
  BY <1>1, GathererAssumption DEF TypeOK, RequestTools
<1>3. BelowThresholds' /\ Spilled'
  BY <1>1 DEF BelowThresholds, Spilled, RequestTools
<1>4. Observed'
  BY <1>1 DEF Observed, RequestTools, TypeOK
<1> QED BY <1>2, <1>3, <1>4

LEMMA ToolInd == IndInv /\ RunTool => IndInv'
<1> SUFFICES ASSUME IndInv, RunTool PROVE IndInv'
  OBVIOUS
<1> USE DEF IndInv
<1>1. /\ count \in Nat /\ count + 1 \in 0 .. MaxToolCalls
      /\ listed - 1 \in 0 .. MaxCallsPerTurn
  <2>1. count \in 0 .. MaxToolCalls /\ listed \in 0 .. MaxCallsPerTurn
    BY DEF TypeOK
  <2>2. listed > 0 /\ count < MaxToolCalls
    BY DEF RunTool
  <2>3. MaxToolCalls \in Nat /\ MaxCallsPerTurn \in Nat
    BY GathererAssumption
  <2> HIDE DEF IndInv
  <2> QED BY <2>1, <2>2, <2>3
<1>2. TypeOK'
  BY <1>1 DEF TypeOK, RunTool
<1>3. BelowThresholds' /\ Spilled'
  BY DEF BelowThresholds, Spilled, RunTool
<1>4. Observed'
  <2>1. all \o fresh = Numbered(count) /\ all \in Seq(Nat) /\ fresh \in Seq(Nat)
    BY DEF Observed, RunTool, TypeOK
  <2>2. all \o Append(fresh, count + 1) = Numbered(count + 1)
    BY <1>1, <2>1, NumberedAppend
  <2> QED BY <2>2 DEF Observed, RunTool
<1> QED BY <1>2, <1>3, <1>4

LEMMA EndTurnInd == IndInv /\ EndTurn => IndInv'
<1> SUFFICES ASSUME IndInv, EndTurn PROVE IndInv'
  OBVIOUS
<1> USE DEF IndInv
<1>1. TypeOK'
  <2>1. all' \in Seq(Nat) /\ shown' \in Seq(Nat)
    BY ConcatProperties DEF TypeOK, EndTurn
  <2> QED BY <2>1 DEF TypeOK, EndTurn
<1>2. BelowThresholds' /\ Spilled'
  <2>1. {used, StopAt, HardStopAt} \subseteq Int /\ StopAt < HardStopAt
    BY GathererAssumption DEF TypeOK
  <2> QED BY <2>1 DEF BelowThresholds, Spilled, EndTurn
<1>3. Observed'
  BY DEF Observed, EndTurn
<1> QED BY <1>1, <1>2, <1>3

LEMMA FinalizeInd == IndInv /\ Finalize => IndInv'
<1> SUFFICES ASSUME IndInv, Finalize PROVE IndInv'
  OBVIOUS
<1> USE DEF IndInv
<1>1. TypeOK'
  BY CuratedType DEF TypeOK, Finalize, turnVars
<1>2. BelowThresholds' /\ Spilled'
  <2>1. used \in Int /\ HardStopAt \in Int
    BY GathererAssumption DEF TypeOK
  <2> QED BY <2>1 DEF BelowThresholds, Spilled, Finalize, turnVars
<1>3. Observed'
  BY DEF Observed, Finalize, turnVars
<1> QED BY <1>1, <1>2, <1>3

(* Packing a snippet leaves what overflowed alone. *)
LEMMA PackInd == IndInv /\ PackSnippet => IndInv'
<1> SUFFICES ASSUME IndInv, PackSnippet PROVE IndInv'
  OBVIOUS
<1> USE DEF IndInv
<1> DEFINE content == Content(Head(snippets))
           packed == [pack EXCEPT !.snippets = Append(@, content)]
           spilled == [pack EXCEPT !.spilled = @ + 1]
<1>1. snippets' \in Seq(Nat \cup {Missing}) /\ content \in Nat \cup {Missing}
  BY DEF TypeOK, PackSnippet, Content
<1>2. pack' = spilled \/ (pack' = packed /\ content \in Nat)
  <2> HIDE DEF content
  <2>1. pack' = IF content # Missing /\ Fits(pack, content) THEN packed ELSE spilled
    BY DEF PackSnippet, content
  <2> QED BY <1>1, <2>1
<1>3. /\ pack' \in [snippets : Seq(Nat), spilled : Nat, overflow : Seq(Nat)]
      /\ pack'.overflow = pack.overflow
  <2>1. pack \in [snippets : Seq(Nat), spilled : Nat, overflow : Seq(Nat)]
    BY DEF TypeOK
  <2>2. CASE pack' = spilled
    <3>1. pack.spilled + 1 \in Nat
      BY <2>1
    <3> HIDE DEF content
    <3> QED BY <2>1, <2>2, <3>1
  <2>3. CASE pack' = packed /\ content \in Nat
    <3> HIDE DEF content
    <3>1. Append(pack.snippets, content) \in Seq(Nat)
      BY <2>1, <2>3
    <3> QED BY <2>1, <2>3, <3>1
  <2> QED
    <3> HIDE DEF content, packed, spilled
    <3> QED BY <1>2, <2>2, <2>3
<1>4. TypeOK'
  BY <1>1, <1>3 DEF TypeOK, PackSnippet, turnVars
<1>5. BelowThresholds' /\ Observed' /\ Spilled'
  BY <1>3 DEF BelowThresholds, Observed, Spilled, PackSnippet, turnVars
<1> QED BY <1>4, <1>5

LEMMA NextInd == IndInv /\ [Next]_vars => IndInv'
<1> SUFFICES ASSUME IndInv, [Next]_vars PROVE IndInv'
  OBVIOUS
<1>1. CASE ReturnPack \/ GatheringFails
  BY <1>1 DEF IndInv, TypeOK, BelowThresholds, Observed, Spilled, ReturnPack,
     GatheringFails, turnVars
<1>2. CASE Finished \/ UNCHANGED vars
  BY <1>2 DEF IndInv, TypeOK, BelowThresholds, Observed, Spilled, Finished, vars, turnVars
<1> QED BY <1>1, <1>2, BudgetInd, DoneInd, RequestInd, ToolInd, EndTurnInd, FinalizeInd,
           PackInd DEF Next
-----------------------------------------------------------------------------
(* Theorems *)

LEMMA Invariance == Spec => []IndInv
BY InitInd, NextInd, PTL DEF Spec

(* Every reachable state of the gatherer has the declared types: never more *)
(* tool calls than the budget, nor a longer conversation than the limit.    *)
THEOREM GathererTypeCorrect == Spec => []TypeOK
<1>1. IndInv => TypeOK
  BY DEF IndInv
<1> QED BY <1>1, Invariance, PTL

(* Once a completion was measured at the hard threshold, gather_context    *)
(* asks for no other: neither the loop's nor the finalizing one.           *)
THEOREM HardStopIsFinal == Spec => []NoCompletionAboveHardStop
<1>1. IndInv => NoCompletionAboveHardStop
  <2> SUFFICES ASSUME IndInv PROVE NoCompletionAboveHardStop
    OBVIOUS
  <2>1. used \in Int /\ StopAt \in Int /\ HardStopAt \in Int /\ StopAt < HardStopAt
    BY GathererAssumption DEF IndInv, TypeOK
  <2> QED BY <2>1 DEF IndInv, BelowThresholds, NoCompletionAboveHardStop
<1> QED BY <1>1, Invariance, PTL

(* No observation of any turn is lost: the model that asks or curates was  *)
(* shown each one, once and in order, and a pack without curation carries  *)
(* them all, also after its snippets were packed.                          *)
THEOREM NoObservationLost == Spec => []ObservationsAccounted
<1>1. IndInv => ObservationsAccounted
  BY DEF IndInv, Observed, Spilled, Numbered, ObservationsAccounted
<1> QED BY <1>1, Invariance, PTL
-----------------------------------------------------------------------------
(* Why gathering ends *)

(* How far a gatherer with a conversation of a given length is from its end. *)
Stage == [tools |-> 5, ask |-> 4, finalize |-> 3, pack |-> 2, returned |-> 1,
          failed |-> 1][at]

(* The tool calls, or the snippets, still to be dealt with. *)
Pending == IF at = "tools" THEN listed ELSE Len(snippets)

(* A longer conversation, a later stage, or less that is pending. *)
Advances ==
    \/ used' > used
    \/ used' = used /\ Stage' < Stage
    \/ used' = used /\ Stage' = Stage /\ Pending' < Pending

LEMMA CompletionAdvances ==
    IndInv /\ (BudgetExceeded \/ Done \/ RequestTools) => Advances
BY Completed DEF IndInv, BudgetExceeded, Done, RequestTools, Advances

LEMMA LaterStage ==
    ASSUME IndInv, EndTurn \/ Finalize \/ ReturnPack \/ GatheringFails
    PROVE  Advances
<1>1. used' = used
  BY DEF EndTurn, Finalize, ReturnPack, GatheringFails, turnVars
<1>2. \/ at = "tools" /\ at' \in {"ask", "finalize", "failed"}
      \/ at = "finalize" /\ at' \in {"pack", "failed"}
      \/ at = "pack" /\ at' \in {"returned", "failed"}
      \/ at = "ask" /\ at' = "failed"
  BY DEF EndTurn, Finalize, ReturnPack, GatheringFails
<1>3. Stage' < Stage
  BY <1>2 DEF Stage
<1> QED BY <1>1, <1>3 DEF Advances

LEMMA LessIsPending == IndInv /\ (RunTool \/ PackSnippet) => Advances
<1>1. ASSUME IndInv, RunTool PROVE Advances
  <2>1. at = "tools" /\ at' = "tools" /\ listed' = listed - 1 /\ used' = used
    BY <1>1 DEF RunTool
  <2>2. listed \in Int
    BY <1>1 DEF IndInv, TypeOK
  <2> QED BY <2>1, <2>2 DEF Advances, Stage, Pending
<1>2. ASSUME IndInv, PackSnippet PROVE Advances
  <2>1. Len(snippets') < Len(snippets)
    BY <1>2 DEF IndInv, TypeOK, PackSnippet
  <2> QED BY <1>2, <2>1 DEF PackSnippet, Advances, Stage, Pending
<1> QED BY <1>1, <1>2

(* Every step of the gatherer makes the conversation longer, goes to a     *)
(* later stage with the same conversation, or leaves less to be dealt with *)
(* in the stage it is in.  With the context limit that makes every run     *)
(* finite, also when the model keeps asking without listing a tool call.   *)
THEOREM EveryStepAdvances == Spec => [][Advances]_vars
<1>1. IndInv /\ [Next]_vars => [Advances]_vars
  BY CompletionAdvances, LaterStage, LessIsPending DEF Next, Finished
<1> QED BY <1>1, Invariance, PTL DEF Spec
=============================================================================
