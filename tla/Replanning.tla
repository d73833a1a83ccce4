----------------------------- MODULE Replanning -----------------------------
(***************************************************************************)
(* replanning_workflow: planner turns with context gathering and read-only *)
(* tools, until a turn asks for nothing more or the budget is spent.       *)
(*                                                                         *)
(* A planner turn is the number of its context requests and tool calls,    *)
(* whether it names a next step, and whether it says done.  Requests are   *)
(* numbered over the whole run, in the order they are made.                *)
(***************************************************************************)
EXTENDS Integers, Sequences

CONSTANTS
    MaxPlannerTurns,   (* max_planner_turns, what the parent has left        *)
    ToolCallsPerTurn,  (* _MAX_PLANNER_TOOL_CALLS_PER_TURN                   *)
    MaxRequests,       (* bound: context requests of one turn                *)
    MaxToolCalls       (* bound: tool calls one turn lists                   *)

ASSUME ReplanningAssumption ==
    /\ MaxPlannerTurns \in Int
    /\ {ToolCallsPerTurn, MaxRequests, MaxToolCalls} \subseteq Nat

VARIABLES
    at,            (* plan, gather, tools, returned or failed                *)
    turnCount,     (* planner_turn_count                                     *)
    turn,          (* planner_turn                                           *)
    gathered,      (* requests of this turn answered so far                  *)
    executed,      (* tool calls of this turn run so far                     *)
    asked,         (* history: requests made in all turns                    *)
    notes,         (* context_notes: the requests answered, in order         *)
    known          (* state.context_notes: what the next turn is shown       *)

vars == <<at, turnCount, turn, gathered, executed, asked, notes, known>>

Turns == [requests : 0 .. MaxRequests, tools : 0 .. MaxToolCalls,
          hasStep : BOOLEAN, done : BOOLEAN]
EmptyTurn == [requests |-> 0, tools |-> 0, hasStep |-> FALSE, done |-> FALSE]

Smaller(m, n) == IF m < n THEN m ELSE n

Init ==
    /\ at = IF MaxPlannerTurns > 0 THEN "plan" ELSE "returned"
    /\ turnCount = 0
    /\ turn = EmptyTurn
    /\ gathered = 0
    /\ executed = 0
    /\ asked = 0
    /\ notes = <<>>
    /\ known = <<>>

(* plan_next_turn or plan_reproduction_turn, on the state known so far. *)
PlanTurn ==
    /\ at = "plan"
    /\ turn' \in Turns
    /\ turnCount' = turnCount + 1
    /\ asked' = asked + turn'.requests
    /\ gathered' = 0
    /\ executed' = 0
    /\ at' = "gather"
    /\ UNCHANGED <<notes, known>>

(* One context_gathering_workflow child per request, in order. *)
GatherContext ==
    /\ at = "gather" /\ gathered < turn.requests
    /\ gathered' = gathered + 1
    /\ notes' = Append(notes, asked - turn.requests + gathered + 1)
    /\ UNCHANGED <<at, turnCount, turn, executed, asked, known>>

StartTools ==
    /\ at = "gather" /\ gathered = turn.requests
    /\ at' = "tools"
    /\ UNCHANGED <<turnCount, turn, gathered, executed, asked, notes, known>>

(* Only the first calls of the list are run. *)
RunPlannerTool ==
    /\ at = "tools" /\ executed < Smaller(turn.tools, ToolCallsPerTurn)
    /\ executed' = executed + 1
    /\ UNCHANGED <<at, turnCount, turn, gathered, asked, notes, known>>

(* Mutant: a turn with tool calls pending returns early. *)
EndTurnOnNoRequests ==
    /\ at = "tools" /\ executed = Smaller(turn.tools, ToolCallsPerTurn)
    /\ known' = known \o SubSeq(notes, Len(notes) - gathered + 1, Len(notes))
    /\ at' = IF turn.requests = 0 \/ turnCount = MaxPlannerTurns THEN "returned" ELSE "plan"
    /\ UNCHANGED <<turnCount, turn, gathered, executed, asked, notes>>

(* Mutant: all notes of the run join the state again. *)
EndTurnWithAllNotes ==
    /\ at = "tools" /\ executed = Smaller(turn.tools, ToolCallsPerTurn)
    /\ known' = known \o notes
    /\ at' = IF turn.requests + turn.tools = 0 \/ turnCount = MaxPlannerTurns
             THEN "returned" ELSE "plan"
    /\ UNCHANGED <<turnCount, turn, gathered, executed, asked, notes>>

(* The new notes join the state; a quiet turn or a spent budget returns. *)
EndTurn ==
    /\ at = "tools" /\ executed = Smaller(turn.tools, ToolCallsPerTurn)
    /\ known' = known \o SubSeq(notes, Len(notes) - gathered + 1, Len(notes))
    /\ at' = IF turn.requests + turn.tools = 0 \/ turnCount = MaxPlannerTurns
             THEN "returned" ELSE "plan"
    /\ UNCHANGED <<turnCount, turn, gathered, executed, asked, notes>>

(* The planner, a gathering child or a tool raises. *)
ReplanningFails ==
    /\ \/ at = "plan"
       \/ at = "gather" /\ gathered < turn.requests
       \/ at = "tools" /\ executed < Smaller(turn.tools, ToolCallsPerTurn)
    /\ at' = "failed"
    /\ UNCHANGED <<turnCount, turn, gathered, executed, asked, notes, known>>

Finished == at \in {"returned", "failed"} /\ UNCHANGED vars

Next ==
    \/ PlanTurn \/ GatherContext \/ StartTools \/ RunPlannerTool \/ EndTurn
    \/ ReplanningFails \/ Finished

Spec == Init /\ [][Next]_vars
-----------------------------------------------------------------------------
TypeOK ==
    /\ at \in {"plan", "gather", "tools", "returned", "failed"}
    /\ turnCount \in Nat
    /\ turn \in Turns
    /\ gathered \in 0 .. turn.requests
    /\ executed \in 0 .. turn.tools
    /\ asked \in Nat
    /\ notes \in Seq(Nat)
    /\ known \in Seq(Nat)

(* What main_workflow's planner loop relies on: a child given turns spends *)
(* at least one and at most all of them, and a turn that still asks for    *)
(* context or tools comes back only when all are spent.                    *)
ReplanContract ==
    at = "returned" /\ MaxPlannerTurns > 0 =>
        /\ turnCount \in 1 .. MaxPlannerTurns
        /\ turn.requests + turn.tools > 0 => turnCount = MaxPlannerTurns

(* Every context request of every turn is answered exactly once and in the *)
(* order it was made, and the planner is asked again only with all notes.  *)
NotesAnswerRequests ==
    /\ \A i \in DOMAIN notes : notes[i] = i
    /\ at \in {"plan", "returned"} => Len(notes) = asked /\ known = notes
=============================================================================
