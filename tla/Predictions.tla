---------------------------- MODULE Predictions ----------------------------
(***************************************************************************)
(* The SWE-bench driver: invocations of swe_bench.py that share, on disk,  *)
(* one record per instance, the official predictions file and the reports  *)
(* of the evaluation harness.                                              *)
(*                                                                         *)
(* An invocation may fail at any step, or be killed; the next one starts   *)
(* from what it left.  A prediction is known by the invocation that made   *)
(* it and by whether it has a patch; a report by the invocation whose      *)
(* patch it scores.  Run id and model name stay the same throughout.       *)
(***************************************************************************)
EXTENDS Naturals, Sequences, FiniteSets

CONSTANTS
    Count,    (* Python instances of the data set                          *)
    MaxRuns,  (* bound: invocations                                        *)
    MaxKills  (* bound: invocations that are killed                        *)

ASSUME PredictionsAssumption ==
    /\ Count \in Nat \ {0}
    /\ {MaxRuns, MaxKills} \subseteq Nat

VARIABLES
    at,          (* where the invocation is, or how the last one ended     *)
    options,     (* its command line                                       *)
    current,     (* the instance the loop has reached                      *)
    prediction,  (* prediction: what the agent returned for it             *)
    collected,   (* prediction_records                                     *)
    worker,      (* the worker process it started is running               *)
    record,      (* disk: <instance>.json, run 0 if there is none          *)
    torn,        (* disk: instances whose file is incomplete               *)
    official,    (* disk: all_preds.jsonl                                  *)
    report,      (* disk: the run a report scores, 0 if there is none      *)
    runs,        (* invocations so far                                     *)
    kills,       (* invocations killed so far                              *)
    followed     (* history: every record written was followed by the      *)
                 (* removal of its report, and every evaluation by the     *)
                 (* invocation that wrote the predictions                  *)

invocationVars == <<at, options, current, prediction, collected, worker>>
diskVars == <<record, torn, official, report>>
vars == <<at, options, current, prediction, collected, worker,
          record, torn, official, report, runs, kills, followed>>

Instances == 1 .. Count
Prediction == [run : 0 .. MaxRuns, patch : BOOLEAN]
NoPrediction == [run |-> 0, patch |-> FALSE]
Options == [mode : {"prepare_only", "generate_only", "evaluate_only", "both"},
            force : BOOLEAN, startWorker : BOOLEAN, subset : Instances]

Resting == {"idle", "ok", "failed", "killed"}
Generating == {"load", "instance", "agent", "compare", "write",
               "invalidate", "official"}

(* _prediction_path(...).exists() *)
Exists(i) == record[i].run > 0 \/ i \in torn

(* _official_prediction: a line of all_preds.jsonl. *)
Line(i, p) == [instance |-> i, run |-> p.run, patch |-> p.patch]
Lines == [instance : Instances, run : 0 .. MaxRuns, patch : BOOLEAN]

TypeOK ==
    /\ at \in Resting \cup Generating \cup {"prepare", "stopping", "unwinding", "evaluate"}
    /\ options \in Options
    /\ current \in 1 .. Count + 1
    /\ prediction \in Prediction
    /\ collected \in Seq(Lines)
    /\ worker \in BOOLEAN
    /\ record \in [Instances -> Prediction]
    /\ torn \in SUBSET Instances
    /\ official \in Seq(Lines)
    /\ report \in [Instances -> 0 .. MaxRuns]
    /\ runs \in 0 .. MaxRuns
    /\ kills \in 0 .. MaxKills
    /\ followed \in BOOLEAN

Init ==
    /\ at = "idle"
    /\ options = [mode |-> "prepare_only", force |-> FALSE,
                  startWorker |-> FALSE, subset |-> 1]
    /\ current = 1
    /\ prediction = NoPrediction
    /\ collected = <<>>
    /\ worker = FALSE
    /\ record = [i \in Instances |-> NoPrediction]
    /\ torn = {}
    /\ official = <<>>
    /\ report = [i \in Instances |-> 0]
    /\ runs = 0
    /\ kills = 0
    /\ followed = TRUE

-----------------------------------------------------------------------------
(* The harness scores the listed patches that have no report and leaves    *)
(* the reports it finds, the reason why the driver removes stale ones.     *)

Unscored == {n \in DOMAIN official : report[official[n].instance] = 0}

ReportsAfter(scored) ==
    [i \in Instances |->
        IF \E n \in scored : official[n].instance = i
        THEN official[CHOOSE n \in scored : official[n].instance = i].run
        ELSE report[i]]

-----------------------------------------------------------------------------
(* What a failure or a kill leaves on disk in the middle of a step.        *)

(* path.write_text truncates the file first; shutil.rmtree may have removed *)
(* the report already; the official file holds the lines written so far;    *)
(* the harness has written some of its reports.                             *)
Interrupted ==
    \/ UNCHANGED diskVars
    \/ /\ at = "write"
       /\ record' = [record EXCEPT ![current] = NoPrediction]
       /\ torn' = torn \cup {current}
       /\ UNCHANGED <<official, report>>
    \/ /\ at = "invalidate"
       /\ report' = [report EXCEPT ![current] = 0]
       /\ UNCHANGED <<record, torn, official>>
    \/ /\ at = "official"
       /\ \E n \in 0 .. Len(collected) : official' = SubSeq(collected, 1, n)
       /\ UNCHANGED <<record, torn, report>>
    \/ /\ at = "evaluate"
       /\ \E scored \in SUBSET Unscored : report' = ReportsAfter(scored)
       /\ UNCHANGED <<record, torn, official>>

(* A fresh record leaves an old report behind it in the first case; in the  *)
(* second, what is scored is not what the records hold.                     *)
Follows ==
    /\ at = "invalidate" => report'[current] = 0
    /\ at = "evaluate" => \A n \in DOMAIN official :
           official[n] = Line(official[n].instance, record[official[n].instance])

(* Anything in generate_predictions may raise; the finally clause stops    *)
(* the worker, and nothing is evaluated.                                   *)
GenerationFails ==
    /\ at \in Generating
    /\ Interrupted
    /\ followed' = (followed /\ Follows)
    /\ at' = "unwinding"
    /\ UNCHANGED <<options, current, prediction, collected, worker, runs, kills>>

(* No finally clause runs: the worker of a killed invocation is orphaned. *)
Killed ==
    /\ at \notin Resting /\ kills < MaxKills
    /\ Interrupted
    /\ followed' = (followed /\ Follows)
    /\ kills' = kills + 1
    /\ at' = "killed"
    /\ worker' = FALSE
    /\ UNCHANGED <<options, current, prediction, collected, runs>>

-----------------------------------------------------------------------------
(* _main_async.                                                            *)

Invoke ==
    /\ at \in Resting /\ runs < MaxRuns
    /\ options' \in Options
    /\ runs' = runs + 1
    /\ at' = IF options'.mode = "evaluate_only" THEN "evaluate" ELSE "prepare"
    /\ current' = 1
    /\ prediction' = NoPrediction
    /\ collected' = <<>>
    /\ UNCHANGED <<worker, record, torn, official, report, kills, followed>>

(* load_swe_bench_instances and, with --prepare-images, the harness's image *)
(* builder, both of which may raise; then the worker is started.            *)
Prepare ==
    /\ at = "prepare"
    /\ \/ /\ options.mode = "prepare_only"
          /\ at' = "ok"
          /\ worker' = worker
       \/ /\ options.mode # "prepare_only"
          /\ at' = "load"
          /\ worker' = options.startWorker
       \/ /\ at' = "failed"
          /\ worker' = worker
    /\ UNCHANGED <<options, current, prediction, collected, record, torn,
                   official, report, runs, kills, followed>>

(* Mutant: the worker is stopped when the generation succeeds only. *)
StopWorkerOnSuccess ==
    /\ at \in {"stopping", "unwinding"}
    /\ worker' = IF at = "stopping" THEN FALSE ELSE worker
    /\ at' = IF at = "unwinding" THEN "failed"
             ELSE IF options.mode = "both" THEN "evaluate" ELSE "ok"
    /\ UNCHANGED <<options, current, prediction, collected, record, torn,
                   official, report, runs, kills, followed>>

(* The finally clause, and where the invocation goes from it. *)
StopWorker ==
    /\ at \in {"stopping", "unwinding"}
    /\ worker' = FALSE
    /\ at' = IF at = "unwinding" THEN "failed"
             ELSE IF options.mode = "both" THEN "evaluate" ELSE "ok"
    /\ UNCHANGED <<options, current, prediction, collected, record, torn,
                   official, report, runs, kills, followed>>

-----------------------------------------------------------------------------
(* generate_predictions.                                                   *)

(* The instances are loaded and the images of those without a record are   *)
(* present; GenerationFails is the image that is not.                      *)
Load ==
    /\ at = "load"
    /\ at' = "instance"
    /\ UNCHANGED <<options, current, prediction, collected, worker, record,
                   torn, official, report, runs, kills, followed>>

(* Mutant: an instance that has a record is passed over. *)
SkipUncollected ==
    /\ at = "instance" /\ current <= options.subset
    /\ Exists(current) /\ ~options.force
    /\ current \notin torn
    /\ current' = current + 1
    /\ UNCHANGED <<at, options, prediction, collected, worker, record, torn,
                   official, report, runs, kills, followed>>

(* _read_prediction of a record that exists. *)
ReuseRecord ==
    /\ at = "instance" /\ current <= options.subset
    /\ Exists(current) /\ ~options.force
    /\ current \notin torn
    /\ collected' = Append(collected, Line(current, record[current]))
    /\ current' = current + 1
    /\ UNCHANGED <<at, options, prediction, worker, record, torn, official,
                   report, runs, kills, followed>>

(* _read_prediction of an incomplete record raises. *)
ReadTornRecord ==
    /\ at = "instance" /\ current <= options.subset
    /\ current \in torn /\ ~options.force
    /\ at' = "unwinding"
    /\ UNCHANGED <<options, current, prediction, collected, worker, record,
                   torn, official, report, runs, kills, followed>>

(* Mutant: an existing record does not stop the agent. *)
StartAgentAnyway ==
    /\ at = "instance" /\ current <= options.subset
    /\ at' = "agent"
    /\ UNCHANGED <<options, current, prediction, collected, worker, record,
                   torn, official, report, runs, kills, followed>>

StartAgent ==
    /\ at = "instance" /\ current <= options.subset
    /\ Exists(current) => options.force
    /\ at' = "agent"
    /\ UNCHANGED <<options, current, prediction, collected, worker, record,
                   torn, official, report, runs, kills, followed>>

(* Mutant: handle.result() without a timeout waits for a worker. *)
RunAgentUntimed ==
    /\ at = "agent" /\ worker
    /\ \E patch \in BOOLEAN : prediction' = [run |-> runs, patch |-> patch]
    /\ at' = "compare"
    /\ UNCHANGED <<options, current, collected, worker, record, torn, official,
                   report, runs, kills, followed>>

(* _run_agent_prediction: a timeout or a failed workflow is a prediction   *)
(* without a patch.                                                        *)
RunAgent ==
    /\ at = "agent"
    /\ \E patch \in BOOLEAN : prediction' = [run |-> runs, patch |-> patch]
    /\ at' = "compare"
    /\ UNCHANGED <<options, current, collected, worker, record, torn, official,
                   report, runs, kills, followed>>

(* compare_patch_to_gold, which GenerationFails lets raise, takes place    *)
(* before the record is written.                                           *)
Compare ==
    /\ at = "compare"
    /\ at' = "write"
    /\ UNCHANGED <<options, current, prediction, collected, worker, record,
                   torn, official, report, runs, kills, followed>>

WriteRecord ==
    /\ at = "write"
    /\ record' = [record EXCEPT ![current] = prediction]
    /\ torn' = torn \ {current}
    /\ at' = "invalidate"
    /\ UNCHANGED <<options, current, prediction, collected, worker, official,
                   report, runs, kills, followed>>

(* Mutant: the report of a fresh prediction is kept. *)
KeepReport ==
    /\ at = "invalidate"
    /\ collected' = Append(collected, Line(current, prediction))
    /\ current' = current + 1
    /\ at' = "instance"
    /\ followed' = (followed /\ (options.mode = "generate_only" => report[current] = 0))
    /\ UNCHANGED <<options, prediction, worker, record, torn, official, report,
                   runs, kills>>

(* _invalidate_stale_evaluation_report, which --generate-only leaves out. *)
InvalidateReport ==
    /\ at = "invalidate"
    /\ report' = IF options.mode = "generate_only" THEN report
                 ELSE [report EXCEPT ![current] = 0]
    /\ followed' = (followed /\ Follows)
    /\ collected' = Append(collected, Line(current, prediction))
    /\ current' = current + 1
    /\ at' = "instance"
    /\ UNCHANGED <<options, prediction, worker, record, torn, official, runs,
                   kills>>

EndLoop ==
    /\ at = "instance" /\ current > options.subset
    /\ at' = "official"
    /\ UNCHANGED <<options, current, prediction, collected, worker, record,
                   torn, official, report, runs, kills, followed>>

(* write_predictions_jsonl *)
WriteOfficial ==
    /\ at = "official"
    /\ official' = collected
    /\ at' = "stopping"
    /\ UNCHANGED <<options, current, prediction, collected, worker, record,
                   torn, report, runs, kills, followed>>

-----------------------------------------------------------------------------
(* run_official_evaluation: check=True turns a failed harness into one of  *)
(* the invocation.                                                         *)
Evaluate ==
    /\ at = "evaluate"
    /\ \E scored \in SUBSET Unscored :
        /\ report' = ReportsAfter(scored)
        /\ \/ at' = "failed"
           \/ /\ \A n \in Unscored \ scored : ~official[n].patch
              /\ at' = "ok"
    /\ followed' = (followed /\ Follows)
    /\ UNCHANGED <<options, current, prediction, collected, worker, record,
                   torn, official, runs, kills>>

Finished == at \in Resting /\ runs = MaxRuns /\ UNCHANGED vars

Steps ==
    \/ Prepare \/ Load \/ ReuseRecord \/ ReadTornRecord \/ StartAgent \/ RunAgent
    \/ Compare \/ WriteRecord \/ InvalidateReport \/ EndLoop \/ WriteOfficial
    \/ StopWorker \/ Evaluate

Next == Invoke \/ Steps \/ GenerationFails \/ Killed \/ Finished

Spec == Init /\ [][Next]_vars

(* The process runs on: the agent is waited for with a timeout, and the    *)
(* comparison and the harness end.                                         *)
FairSpec == Spec /\ WF_vars(Steps)

-----------------------------------------------------------------------------
(* Properties.                                                             *)

(* Generation that went through to the end wrote, for the instances of its *)
(* subset and in their order, exactly what the records on disk say: the    *)
(* reused, the regenerated and those of an earlier killed invocation.      *)
OfficialListsRecords ==
    \/ at \in {"stopping", "evaluate"} /\ options.mode = "both"
    \/ at \in {"stopping", "ok"} /\ options.mode = "generate_only"
    => /\ Len(official) = options.subset
       /\ \A i \in 1 .. options.subset :
              i \notin torn /\ official[i] = Line(i, record[i])

(* What an invocation generated anew is scored by the evaluation it ends   *)
(* with, whatever reports earlier invocations left.                        *)
FreshPredictionScored ==
    at = "ok" /\ options.mode = "both" =>
        \A i \in 1 .. options.subset :
            record[i].run = runs /\ record[i].patch => report[i] = runs

(* After an evaluation every patch of the subset has a report of its own,  *)
(* unless some record was once written without its old report going away   *)
(* (--generate-only, or an end between swe_bench.py's lines 253 and 255)   *)
(* or predictions were evaluated that are not what the records hold.  All  *)
(* other failures and kills, in any number and order, are harmless.        *)
StaleOnlyThroughWindow ==
    at = "ok" /\ options.mode = "both" /\ followed =>
        \A i \in 1 .. options.subset :
            record[i].patch => report[i] = record[i].run

(* A record that is complete is only replaced, or lost, under --force.     *)
RecordsKept ==
    [][\A i \in Instances :
        record[i].run > 0 /\ record'[i] # record[i] => options.force]_vars

(* However generation ends, short of a kill, its worker is stopped, and    *)
(* none runs beside the harness.                                           *)
NoWorkerLeft == at \in {"ok", "failed", "evaluate"} => ~worker

(* An invocation ends, also if no worker ever takes up its workflows.      *)
InvocationEnds == at \notin Resting ~> at \in Resting
=============================================================================
