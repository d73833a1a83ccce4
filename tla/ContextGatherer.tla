-------------------------- MODULE ContextGatherer --------------------------
(***************************************************************************)
(* gather_context: the read-only context gatherer asks a model for tool    *)
(* calls until it says done, its tool budget is spent, or its conversation *)
(* nears the context limit; pack_context then packs what it curated.       *)
(*                                                                         *)
(* The conversation is measured in units of input tokens.  A tool call is  *)
(* known by its number, so an observation is the number of its call.  A    *)
(* snippet is its size in characters, or Missing when its file is.         *)
(***************************************************************************)
EXTENDS Integers, SequencesExt

CONSTANTS
    MaxToolCalls,    (* CONFIG.context_gatherer_max_tool_calls               *)
    ContextLimit,    (* context_limit_tokens of the model, in units          *)
    StopAt,          (* the utilization threshold above which it stops       *)
    HardStopAt,      (* the one from which no further completion is asked    *)
    PackBudget,      (* CONFIG.context_pack_max_characters                   *)
    Missing,         (* a snippet of a file that does not exist              *)
    MaxCallsPerTurn, (* bound: tool calls one turn lists                     *)
    MaxSnippets,     (* bound: snippets one turn curates                     *)
    MaxSize          (* bound: characters of a snippet                       *)

ASSUME GathererAssumption ==
    /\ {MaxToolCalls, ContextLimit, PackBudget} \subseteq Nat
    /\ {MaxCallsPerTurn, MaxSnippets, MaxSize} \subseteq Nat
    /\ Missing \notin Int
    /\ {StopAt, HardStopAt} \subseteq Nat
    /\ StopAt < HardStopAt      (* as in the default configuration *)

VARIABLES
    docker,     (* the workspace is a container                              *)
    at,         (* ask, tools, finalize, pack, returned or failed            *)
    used,       (* input tokens of the latest completion                     *)
    count,      (* tool_call_count                                           *)
    listed,     (* tool calls of this turn still to run                      *)
    fresh,      (* turn_observations                                         *)
    shown,      (* the observations the conversation holds                   *)
    all,        (* all_observations                                          *)
    over,       (* budget_exceeded                                           *)
    snippets,   (* what is left of the snippets to pack                      *)
    pack        (* the context pack                                          *)

turnVars == <<count, listed, fresh, shown, all>>
vars == <<docker, at, used, turnVars, over, snippets, pack>>

Curated == UNION {[1 .. n -> (0 .. MaxSize) \cup {Missing}] : n \in 0 .. MaxSnippets}
EmptyPack == [snippets |-> <<>>, spilled |-> 0, overflow |-> <<>>]

Init ==
    /\ docker \in BOOLEAN
    /\ at = IF MaxToolCalls > 0 THEN "ask" ELSE "finalize"
    /\ used = 0
    /\ count = 0
    /\ listed = 0
    /\ fresh = <<>>
    /\ shown = <<>>
    /\ all = <<>>
    /\ over = FALSE
    /\ snippets = <<>>
    /\ pack = EmptyPack
-----------------------------------------------------------------------------
(* A completion on a longer conversation than the last one was given. *)
Complete == at = "ask" /\ used' \in used + 1 .. ContextLimit

(* Mutant: only the observations of the last turn are spilled. *)
SpillLastTurn ==
    /\ Complete
    /\ used' > StopAt
    /\ over' = TRUE
    /\ at' = IF used' >= HardStopAt THEN "pack" ELSE "finalize"
    /\ pack' = IF used' >= HardStopAt THEN [pack EXCEPT !.overflow = fresh] ELSE pack
    /\ UNCHANGED <<docker, turnVars, snippets>>
(* Mutant: the conversation is always finalized by one more completion. *)
AlwaysFinalize ==
    /\ Complete
    /\ used' > StopAt
    /\ over' = TRUE
    /\ at' = "finalize"
    /\ UNCHANGED <<docker, turnVars, snippets, pack>>

(* Above the stop threshold the turn is dropped, done or not. *)
BudgetExceeded ==
    /\ Complete
    /\ used' > StopAt
    /\ over' = TRUE
    /\ at' = IF used' >= HardStopAt THEN "pack" ELSE "finalize"
    /\ pack' = IF used' >= HardStopAt THEN [pack EXCEPT !.overflow = all] ELSE pack
    /\ UNCHANGED <<docker, turnVars, snippets>>

(* done with a summary and curated snippets. *)
Done ==
    /\ Complete
    /\ used' <= StopAt
    /\ snippets' \in Curated
    /\ at' = "pack"
    /\ UNCHANGED <<docker, turnVars, over, pack>>

(* A turn that is not done; it may list no tool call at all. *)
RequestTools ==
    /\ Complete
    /\ used' <= StopAt
    /\ listed' \in 0 .. MaxCallsPerTurn
    /\ fresh' = <<>>
    /\ at' = "tools"
    /\ UNCHANGED <<docker, count, shown, all, over, snippets, pack>>

(* run_tool, while the tool budget lasts. *)
RunTool ==
    /\ at = "tools" /\ listed > 0 /\ count < MaxToolCalls
    /\ listed' = listed - 1
    /\ count' = count + 1
    /\ fresh' = Append(fresh, count + 1)
    /\ UNCHANGED <<docker, at, used, shown, all, over, snippets, pack>>

(* Mutant: a turn without tool calls adds no message. *)
EndTurnSilently ==
    /\ at = "tools" /\ (listed = 0 \/ count >= MaxToolCalls)
    /\ all' = all \o fresh
    /\ shown' = shown \o fresh
    /\ used' = IF fresh = <<>> THEN used - 1 ELSE used
    /\ at' = IF count < MaxToolCalls THEN "ask" ELSE "finalize"
    /\ UNCHANGED <<docker, count, listed, fresh, over, snippets, pack>>

(* Both messages of the turn join the conversation, empty or not. *)
EndTurn ==
    /\ at = "tools" /\ (listed = 0 \/ count >= MaxToolCalls)
    /\ all' = all \o fresh
    /\ shown' = shown \o fresh
    /\ at' = IF count < MaxToolCalls THEN "ask" ELSE "finalize"
    /\ UNCHANGED <<docker, used, count, listed, fresh, over, snippets, pack>>

(* _finalize_emit_snippets: one more completion, whatever its length. *)
Finalize ==
    /\ at = "finalize"
    /\ snippets' \in Curated
    /\ at' = "pack"
    /\ UNCHANGED <<docker, used, turnVars, over, pack>>
-----------------------------------------------------------------------------
(* pack_context *)

UsedCharacters(p) == FoldSeq(LAMBDA size, sum : size + sum, 0, p.snippets)

Fits(p, size) == UsedCharacters(p) + size <= PackBudget

(* _read_snippet_lines: in a container sed prints nothing for a missing    *)
(* file and its exit code is not looked at, so the snippet is empty; on    *)
(* the host the file is not found.                                         *)
Content(snippet) == IF snippet = Missing /\ docker THEN 0 ELSE snippet

(* A snippet that fits is packed, any other becomes an artifact; a file    *)
(* that is not found leaves an artifact that says so.                      *)
PackSnippet ==
    /\ at = "pack" /\ snippets # <<>>
    /\ snippets' = Tail(snippets)
    /\ LET content == Content(Head(snippets))
       IN  pack' = IF content # Missing /\ Fits(pack, content)
                   THEN [pack EXCEPT !.snippets = Append(@, content)]
                   ELSE [pack EXCEPT !.spilled = @ + 1]
    /\ UNCHANGED <<docker, at, used, turnVars, over>>

ReturnPack ==
    /\ at = "pack" /\ snippets = <<>>
    /\ at' = "returned"
    /\ UNCHANGED <<docker, used, turnVars, over, snippets, pack>>

(* A completion or a tool raises (a completion that does not fit at the    *)
(* latest), or a final turn has no summary.                                *)
GatheringFails ==
    /\ \/ at \in {"ask", "finalize", "pack"}
       \/ at = "tools" /\ listed > 0 /\ count < MaxToolCalls
    /\ at' = "failed"
    /\ UNCHANGED <<docker, used, turnVars, over, snippets, pack>>

Finished == at \in {"returned", "failed"} /\ UNCHANGED vars

Next ==
    \/ BudgetExceeded \/ Done \/ RequestTools \/ RunTool \/ EndTurn
    \/ Finalize \/ PackSnippet \/ ReturnPack
    \/ GatheringFails \/ Finished

Spec == Init /\ [][Next]_vars

(* The engine keeps driving the child; completions and tools return. *)
FairSpec == Spec /\ WF_vars(Next)
-----------------------------------------------------------------------------
TypeOK ==
    /\ docker \in BOOLEAN
    /\ at \in {"ask", "tools", "finalize", "pack", "returned", "failed"}
    /\ used \in 0 .. ContextLimit
    /\ count \in 0 .. MaxToolCalls
    /\ listed \in 0 .. MaxCallsPerTurn
    /\ fresh \in Seq(Nat) /\ shown \in Seq(Nat) /\ all \in Seq(Nat)
    /\ over \in BOOLEAN
    /\ snippets \in Seq(Nat \cup {Missing})
    /\ pack \in [snippets : Seq(Nat), spilled : Nat, overflow : Seq(Nat)]

(* Once a completion was measured at the hard threshold no other is made.  *)
(* What a turn's tool outputs add is not measured before it is sent: the   *)
(* completion after a turn below the threshold may still not fit.          *)
NoCompletionAboveHardStop == used >= HardStopAt => at \notin {"ask", "finalize"}

(* Nothing that was observed is lost: a pack without curation carries all  *)
(* observations of all turns, and a curating model was shown all of them.  *)
ObservationsAccounted ==
    /\ at \in {"ask", "finalize"} => shown = [i \in 1 .. count |-> i]
    /\ at = "returned" /\ used >= HardStopAt => pack.overflow = [i \in 1 .. count |-> i]

(* Gathering always ends.  The tool budget alone would not see to that: a  *)
(* turn may list no tool.  It ends since the conversation keeps growing.   *)
GatheringTerminates == <>(at \in {"returned", "failed"})
=============================================================================
