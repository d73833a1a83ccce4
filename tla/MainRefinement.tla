--------------------------- MODULE MainRefinement ---------------------------
(***************************************************************************)
(* MainWorkflow implements RollingPatch when every step runs a single      *)
(* candidate.  The abstract state is read off the repository: the base is  *)
(* what the carried workspace value points at, the tip is the tree of its  *)
(* branch (the history variable stands in once cleanup deleted it).        *)
(***************************************************************************)
EXTENDS MainWorkflow

AbstractTip ==
    IF ws.branch \in DOMAIN repo.refs THEN repo.refs[ws.branch].tree ELSE winner

AbstractOutcome ==
    IF phase = "failed" THEN "aborted"
    ELSE IF /\ phase \in {"delete_branches", "teardown", "done"}
            /\ report.verdict # "blocked"
         THEN "delivered"
         ELSE "working"

AbstractDelivered == IF AbstractOutcome = "delivered" THEN repo.work ELSE Origin

Abstract == INSTANCE RollingPatch WITH
    Start     <- Origin,
    base      <- ws.base.tree,
    tip       <- AbstractTip,
    outcome   <- AbstractOutcome,
    delivered <- AbstractDelivered

(* With one candidate per step the orchestration over git branches is a    *)
(* rolling patch: attempts start from the accepted tree, what is delivered *)
(* is the selected result laid over the user's tree, and branch resets,    *)
(* rejected attempts and evidence runs are invisible.                      *)
RollingPatchSpec == Abstract!PatchSpec
=============================================================================
