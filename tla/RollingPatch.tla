---------------------------- MODULE RollingPatch ----------------------------
(***************************************************************************)
(* What main_workflow promises, without branches, index, candidates or     *)
(* planner turns: a patch that grows by accepted steps and is delivered    *)
(* once.                                                                   *)
(*                                                                         *)
(*   base       the tree the next attempt starts from                      *)
(*   tip        the tree delivery will apply                               *)
(*   outcome    working, delivered or aborted                              *)
(*   delivered  the user's tree after delivery, Start until then           *)
(***************************************************************************)
CONSTANTS Files, Contents, Absent, Start

VARIABLES base, tip, outcome, delivered

patchVars == <<base, tip, outcome, delivered>>

PatchTrees == [Files -> Contents \cup {Absent}]

(* Files the patch adds or changes are written, deletions are not made. *)
Overlay(tree) ==
    [f \in Files |-> IF tree[f] # Absent THEN tree[f] ELSE Start[f]]

PatchInit ==
    /\ base = Start
    /\ tip = Start
    /\ outcome = "working"
    /\ delivered = Start

(* A reproduction joins the base of all attempts but is no patch yet. *)
Reproduced ==
    /\ outcome = "working" /\ tip = Start /\ base = Start
    /\ base' \in PatchTrees
    /\ UNCHANGED <<tip, outcome, delivered>>

(* An accepted step is both what later attempts build on and what is *)
(* delivered if nothing follows.                                      *)
StepAccepted ==
    /\ outcome = "working"
    /\ \E t \in PatchTrees : base' = t /\ tip' = t
    /\ UNCHANGED <<outcome, delivered>>

(* Partial work is delivered if nothing follows, but not built on. *)
PartialKept ==
    /\ outcome = "working"
    /\ tip' \in PatchTrees
    /\ UNCHANGED <<base, outcome, delivered>>

Deliver ==
    /\ outcome = "working"
    /\ outcome' = "delivered"
    /\ delivered' = Overlay(tip)
    /\ UNCHANGED <<base, tip>>

Abort ==
    /\ outcome # "aborted"
    /\ outcome' = "aborted"
    /\ delivered' = Start
    /\ UNCHANGED <<base, tip>>

PatchNext == Reproduced \/ StepAccepted \/ PartialKept \/ Deliver \/ Abort

PatchSpec == PatchInit /\ [][PatchNext]_patchVars
=============================================================================
