-------------------------- MODULE PredictionsProofs --------------------------
(***************************************************************************)
(* Theorems about the SWE-bench driver for any number of instances,        *)
(* invocations and kills.                                                  *)
(***************************************************************************)
EXTENDS Predictions, SequenceTheorems, TLAPS

Busy == {"agent", "compare", "write", "invalidate"}
Looping == {"prepare", "load", "instance", "official"} \cup Busy

(* Where the loop stands, and which invocations get to the harness. *)
Position ==
    /\ at \in Looping => current <= options.subset + 1
    /\ at \in Busy => current <= options.subset
    /\ at = "official" => current > options.subset
    /\ at = "evaluate" => options.mode \in {"both", "evaluate_only"}

(* What has been collected is what the records passed so far hold. *)
Collection ==
    at \in Looping =>
        /\ Len(collected) = current - 1
        /\ \A i \in 1 .. current - 1 :
               i \notin torn /\ collected[i] = Line(i, record[i])
        /\ at = "invalidate" => current \notin torn /\ record[current] = prediction

(* A prediction of this invocation is behind the loop, and has no report. *)
Behind(i) == i < current \/ (at = "invalidate" /\ i = current)
Freshness ==
    /\ prediction.run <= runs
    /\ \A i \in Instances : record[i].run <= runs
    /\ at \in Looping =>
           \A i \in Instances : ~Behind(i) => record[i].run < runs
    /\ at \in Looping /\ options.mode = "both" =>
           \A i \in Instances : i < current /\ record[i].run = runs => report[i] = 0
    /\ at \in {"stopping", "evaluate"} /\ options.mode = "both" =>
           \A i \in 1 .. options.subset : record[i].run = runs => report[i] = 0

(* A report scores the record, outside the window between the two.        *)
Faithful ==
    followed => \A i \in Instances :
        \/ i \in torn
        \/ at = "invalidate" /\ i = current
        \/ report[i] \in {0, record[i].run}

(* An agent that is not forced works on an instance without a record. *)
Unforced ==
    at \in {"agent", "compare", "write"} /\ ~options.force => ~Exists(current)

(* A worker runs only where the finally clause is still to come. *)
WorkerGuarded == worker => at \in Generating \cup {"stopping", "unwinding"}

Controlled == TypeOK /\ Position

-----------------------------------------------------------------------------
(* Types                                                                   *)

LEMMA InstanceFacts ==
    /\ Instances \subseteq Nat \ {0}
    /\ \A i \in Instances : i <= Count
    /\ NoPrediction \in Prediction
    /\ \A i \in Instances, p \in Prediction : Line(i, p) \in Lines
BY PredictionsAssumption DEF Instances, NoPrediction, Prediction, Line, Lines

(* The loop is at an instance while it works on one. *)
LEMMA AtInstance ==
    ASSUME Controlled, at \in Busy
    PROVE  current \in Instances /\ current \in Nat /\ options.subset \in Instances
<1>1. options.subset \in 1 .. Count /\ current \in 1 .. Count + 1
  BY DEF Controlled, TypeOK, Options, Instances
<1>2. current <= options.subset
  BY DEF Controlled, Position
<1> QED BY <1>1, <1>2, PredictionsAssumption DEF Instances

(* The harness writes reports of listed predictions. *)
LEMMA ReportsTyped ==
    ASSUME TypeOK, NEW scored \in SUBSET Unscored
    PROVE  ReportsAfter(scored) \in [Instances -> 0 .. MaxRuns]
<1> SUFFICES ASSUME NEW i \in Instances,
                    \E n \in scored : official[n].instance = i
             PROVE  official[CHOOSE n \in scored : official[n].instance = i].run
                        \in 0 .. MaxRuns
  BY DEF ReportsAfter, TypeOK
<1> DEFINE m == CHOOSE n \in scored : official[n].instance = i
<1>1. m \in scored
  OBVIOUS
<1>2. m \in DOMAIN official
  BY <1>1 DEF Unscored
<1>3. official[m] \in Lines
  BY <1>2 DEF TypeOK
<1> QED BY <1>3 DEF Lines

(* What the harness makes of a report it finds, and of one it writes. *)
LEMMA ReportsMeaning ==
    ASSUME TypeOK, NEW scored \in SUBSET Unscored, NEW i \in Instances
    PROVE  \/ /\ ReportsAfter(scored)[i] = report[i]
              /\ \A n \in scored : official[n].instance # i
           \/ /\ report[i] = 0
              /\ \E n \in scored : /\ n \in DOMAIN official
                                   /\ official[n].instance = i
                                   /\ ReportsAfter(scored)[i] = official[n].run
<1>1. CASE \A n \in scored : official[n].instance # i
  BY <1>1 DEF ReportsAfter
<1>2. CASE \E n \in scored : official[n].instance = i
  <2> DEFINE m == CHOOSE n \in scored : official[n].instance = i
  <2>1. m \in scored /\ official[m].instance = i
    BY <1>2
  <2>2. m \in DOMAIN official /\ report[i] = 0
    BY <2>1 DEF Unscored
  <2>3. ReportsAfter(scored)[i] = official[m].run
    BY <1>2 DEF ReportsAfter
  <2> QED BY <2>1, <2>2, <2>3
<1> QED BY <1>1, <1>2

LEMMA InterruptedTyped ==
    ASSUME Controlled, Interrupted
    PROVE  /\ record' \in [Instances -> Prediction]
           /\ torn' \in SUBSET Instances
           /\ official' \in Seq(Lines)
           /\ report' \in [Instances -> 0 .. MaxRuns]
<1> USE DEF Controlled
<1>1. CASE UNCHANGED diskVars
  BY <1>1 DEF diskVars, TypeOK
<1>2. CASE at = "write" /\ record' = [record EXCEPT ![current] = NoPrediction]
           /\ torn' = torn \cup {current} /\ UNCHANGED <<official, report>>
  <2>1. current \in Instances
    BY <1>2, AtInstance DEF Busy
  <2> QED BY <1>2, <2>1, InstanceFacts DEF TypeOK
<1>3. CASE at = "invalidate" /\ report' = [report EXCEPT ![current] = 0]
           /\ UNCHANGED <<record, torn, official>>
  <2>1. 0 \in 0 .. MaxRuns
    BY PredictionsAssumption
  <2> QED BY <1>3, <2>1 DEF TypeOK
<1>4. CASE at = "official" /\ UNCHANGED <<record, torn, report>>
           /\ \E n \in 0 .. Len(collected) : official' = SubSeq(collected, 1, n)
  <2>1. PICK n \in 0 .. Len(collected) : official' = SubSeq(collected, 1, n)
    BY <1>4
  <2>2. n \in Int /\ 1 \in Int
    BY <1>4 DEF TypeOK
  <2>3. \A i \in 1 .. n : collected[i] \in Lines
    BY DEF TypeOK
  <2>4. SubSeq(collected, 1, n) \in Seq(Lines)
    BY <2>2, <2>3, SubSeqProperties, Zenon
  <2> QED BY <1>4, <2>1, <2>4 DEF TypeOK
<1>5. CASE at = "evaluate" /\ UNCHANGED <<record, torn, official>>
           /\ \E scored \in SUBSET Unscored : report' = ReportsAfter(scored)
  BY <1>5, ReportsTyped DEF TypeOK
<1> QED BY <1>1, <1>2, <1>3, <1>4, <1>5 DEF Interrupted
-----------------------------------------------------------------------------
(* Where the driver stands                                                 *)

LEMMA ControlledInit == Init => Controlled
<1> SUFFICES ASSUME Init PROVE Controlled
  OBVIOUS
<1>1. 1 \in Instances /\ 0 \in 0 .. MaxRuns /\ 0 \in 0 .. MaxKills
  BY PredictionsAssumption DEF Instances
<1>2. options \in Options /\ current \in 1 .. Count + 1
  BY <1>1, PredictionsAssumption DEF Init, Options, Instances
<1>3. record \in [Instances -> Prediction] /\ prediction \in Prediction
  BY InstanceFacts DEF Init
<1>4. official \in Seq(Lines) /\ collected \in Seq(Lines)
  BY DEF Init
<1>5. report \in [Instances -> 0 .. MaxRuns]
  BY <1>1 DEF Init
<1>6. TypeOK
  BY <1>1, <1>2, <1>3, <1>4, <1>5 DEF Init, TypeOK, Resting
<1> QED
  BY <1>6 DEF Init, Controlled, Position, Looping, Busy

(* A failure or a kill. *)
LEMMA ControlledEnd ==
    ASSUME Controlled, GenerationFails \/ Killed
    PROVE  Controlled'
<1>1. Interrupted /\ followed' = (followed /\ Follows)
  BY DEF GenerationFails, Killed
<1>2. at' \in {"unwinding", "killed"} /\ UNCHANGED <<options, current, prediction, collected, runs>>
  BY DEF GenerationFails, Killed
<1>3. worker' \in BOOLEAN /\ kills' \in 0 .. MaxKills
  <2>1. MaxKills \in Nat /\ kills \in 0 .. MaxKills /\ worker \in BOOLEAN
    BY PredictionsAssumption DEF Controlled, TypeOK
  <2>2. CASE GenerationFails
    BY <2>1, <2>2 DEF GenerationFails
  <2>3. CASE Killed
    <3>1. kills < MaxKills /\ kills' = kills + 1 /\ worker' = FALSE
      BY <2>3, Zenon DEF Killed
    <3>2. kills' \in 0 .. MaxKills
      BY <2>1, <3>1, SMT
    <3> QED BY <3>1, <3>2, Zenon
  <2> QED BY <2>2, <2>3
<1>4. followed' \in BOOLEAN
  BY <1>1 DEF Follows, Controlled, TypeOK
<1>5. TypeOK'
  BY <1>2, <1>3, <1>4, <1>1, InterruptedTyped DEF Controlled, TypeOK, Resting
<1> QED BY <1>2, <1>5 DEF Controlled, Position, Looping, Busy

(* A new invocation. *)
LEMMA ControlledInvoke ==
    ASSUME Controlled, Invoke
    PROVE  Controlled'
<1>1. runs' \in 0 .. MaxRuns
  BY PredictionsAssumption DEF Invoke, Controlled, TypeOK
<1>2. current' \in 1 .. Count + 1 /\ options'.subset \in 1 .. Count
  BY PredictionsAssumption DEF Invoke, Options, Instances
<1>3. prediction' \in Prediction /\ collected' \in Seq(Lines)
  BY InstanceFacts DEF Invoke
<1>4. TypeOK'
  BY <1>1, <1>2, <1>3 DEF Invoke, Controlled, TypeOK, Resting, Generating
<1>5. at' = "prepare" \/ (at' = "evaluate" /\ options'.mode = "evaluate_only")
  BY DEF Invoke
<1>6. current' = 1
  BY DEF Invoke
<1> QED BY <1>2, <1>4, <1>5, <1>6 DEF Controlled, Position, Looping, Busy

(* An instance is passed: a record is re-used or a fresh one is done. *)
LEMMA ControlledPassed ==
    ASSUME Controlled, ReuseRecord \/ InvalidateReport
    PROVE  /\ Controlled'
           /\ current \in Instances
           /\ current' = current + 1
           /\ at' = "instance"
<1>1. current <= options.subset /\ options.subset \in 1 .. Count /\ current \in 1 .. Count + 1
  BY DEF ReuseRecord, InvalidateReport, Controlled, Position, Busy, TypeOK,
     Options, Instances
<1>2. current \in Instances /\ current' \in 1 .. Count + 1
  BY <1>1, PredictionsAssumption DEF ReuseRecord, InvalidateReport, Instances
<1>3. at' = "instance" /\ current' = current + 1 /\ UNCHANGED <<options, prediction, worker, record, torn,
                  official, runs, kills>>
  BY DEF ReuseRecord, InvalidateReport
<1>4. collected' \in Seq(Lines)
  <2>1. CASE ReuseRecord
    <3>1. Line(current, record[current]) \in Lines
      BY <1>2, InstanceFacts DEF Controlled, TypeOK
    <3> QED BY <2>1, <3>1 DEF ReuseRecord, Controlled, TypeOK
  <2>2. CASE InvalidateReport
    <3>1. Line(current, prediction) \in Lines
      BY <1>2, InstanceFacts DEF Controlled, TypeOK
    <3> QED BY <2>2, <3>1 DEF InvalidateReport, Controlled, TypeOK
  <2> QED BY <2>1, <2>2
<1>5. report' \in [Instances -> 0 .. MaxRuns]
  <2>1. 0 \in 0 .. MaxRuns
    BY PredictionsAssumption
  <2> QED BY <2>1 DEF ReuseRecord, InvalidateReport, Controlled, TypeOK
<1>6. followed' \in BOOLEAN
  <2>1. CASE ReuseRecord
    BY <2>1 DEF ReuseRecord, Controlled, TypeOK
  <2>2. CASE InvalidateReport
    BY <2>2, Zenon DEF InvalidateReport, Controlled, TypeOK
  <2> QED BY <2>1, <2>2
<1>7. TypeOK'
  BY <1>2, <1>3, <1>4, <1>5, <1>6 DEF Controlled, TypeOK, Generating
<1>8. Position'
  BY <1>1, <1>3 DEF Position, Looping, Busy
<1> QED BY <1>2, <1>3, <1>7, <1>8 DEF Controlled

(* The steps that touch at most the loop's own variables. *)
Inner ==
    \/ Prepare \/ Load \/ ReadTornRecord \/ StartAgent \/ RunAgent \/ Compare
    \/ EndLoop \/ StopWorker

LEMMA ControlledInner ==
    ASSUME Controlled, Inner
    PROVE  Controlled'
<1>1. prediction' \in Prediction
  <2>1. CASE RunAgent
    BY <2>1 DEF RunAgent, Prediction, Controlled, TypeOK
  <2> QED
    BY <2>1 DEF Inner, Prepare, Load, ReadTornRecord, StartAgent, Compare,
       EndLoop, StopWorker, Controlled, TypeOK
<1>2. worker' \in BOOLEAN
  BY DEF Inner, Prepare, Load, ReadTornRecord, StartAgent, RunAgent, Compare,
     EndLoop, StopWorker, Controlled, TypeOK, Options
<1>3. UNCHANGED <<options, current, collected, record, torn, official, report,
                  runs, kills, followed>>
  BY DEF Inner, Prepare, Load, ReadTornRecord, StartAgent, RunAgent, Compare,
     EndLoop, StopWorker
<1>4. at' \in {"ok", "failed", "load", "instance", "unwinding", "agent", "compare",
                "write", "official", "evaluate"}
  BY DEF Inner, Prepare, Load, ReadTornRecord, StartAgent, RunAgent, Compare,
     EndLoop, StopWorker
<1>5. TypeOK'
  BY <1>1, <1>2, <1>3, <1>4 DEF Controlled, TypeOK, Resting, Generating
<1>6. Position'
  BY <1>3 DEF Inner, Prepare, Load, ReadTornRecord, StartAgent, RunAgent, Compare,
     EndLoop, StopWorker, Controlled, Position, Looping, Busy
<1> QED BY <1>5, <1>6 DEF Controlled

LEMMA ControlledStep == Controlled /\ [Next]_vars => Controlled'
<1> SUFFICES ASSUME Controlled, [Next]_vars PROVE Controlled'
  OBVIOUS
<1>1. CASE WriteRecord
  <2>1. record' \in [Instances -> Prediction] /\ torn' \in SUBSET Instances
    BY <1>1 DEF WriteRecord, Controlled, TypeOK
  <2>2. TypeOK'
    BY <1>1, <2>1 DEF WriteRecord, Controlled, TypeOK, Generating
  <2> QED BY <1>1, <2>2 DEF WriteRecord, Controlled, Position, Looping, Busy
<1>2. CASE WriteOfficial
  BY <1>2 DEF WriteOfficial, Controlled, TypeOK, Position, Looping, Busy
<1>3. CASE Evaluate
  <2>1. report' \in [Instances -> 0 .. MaxRuns]
    BY <1>3, ReportsTyped DEF Evaluate, Controlled
  <2>2. followed' \in BOOLEAN
    BY <1>3, Zenon DEF Evaluate, Controlled, TypeOK
  <2>3. TypeOK'
    BY <1>3, <2>1, <2>2 DEF Evaluate, Controlled, TypeOK, Resting
  <2> QED BY <1>3, <2>3 DEF Evaluate, Controlled, Position, Looping, Busy
<1>4. CASE UNCHANGED vars
  BY <1>4 DEF vars, Controlled, TypeOK, Position
<1> QED
  BY <1>1, <1>2, <1>3, <1>4, ControlledEnd, ControlledInvoke, ControlledPassed,
     ControlledInner DEF Next, Steps, Inner, Finished

(* Every reachable state of the driver is well typed. *)
THEOREM DriverTypeCorrect == Spec => []TypeOK
<1>1. Controlled => TypeOK
  BY DEF Controlled
<1> QED BY <1>1, ControlledInit, ControlledStep, PTL DEF Spec

-----------------------------------------------------------------------------
(* The worker                                                              *)

LEMMA WorkerStep ==
    ASSUME Controlled, WorkerGuarded, [Next]_vars
    PROVE  WorkerGuarded'
<1>1. CASE Invoke
  <2>1. ~worker
    BY <1>1 DEF Invoke, WorkerGuarded, Generating, Resting
  <2> QED BY <1>1, <2>1 DEF Invoke, WorkerGuarded
<1>2. CASE GenerationFails \/ Killed
  BY <1>2 DEF GenerationFails, Killed, WorkerGuarded
<1>3. CASE Prepare
  <2>1. ~worker
    BY <1>3 DEF Prepare, WorkerGuarded, Generating
  <2> QED BY <1>3, <2>1 DEF Prepare, WorkerGuarded, Generating
<1>4. CASE Load \/ ReuseRecord \/ ReadTornRecord \/ StartAgent \/ RunAgent \/ Compare
           \/ WriteRecord \/ InvalidateReport \/ EndLoop \/ WriteOfficial
  BY <1>4 DEF Load, ReuseRecord, ReadTornRecord, StartAgent, RunAgent, Compare,
     WriteRecord, InvalidateReport, EndLoop, WriteOfficial, WorkerGuarded, Generating
<1>5. CASE StopWorker \/ Evaluate
  BY <1>5 DEF StopWorker, Evaluate, WorkerGuarded, Generating
<1>6. CASE UNCHANGED vars
  BY <1>6 DEF vars, WorkerGuarded
<1> QED BY <1>1, <1>2, <1>3, <1>4, <1>5, <1>6 DEF Next, Steps, Finished

(* However generation ends, its worker is stopped. *)
THEOREM WorkerStopped == Spec => []NoWorkerLeft
<1>1. Init => WorkerGuarded
  BY DEF Init, WorkerGuarded
<1>2. WorkerGuarded => NoWorkerLeft
  BY DEF WorkerGuarded, NoWorkerLeft, Generating
<1> QED BY <1>1, <1>2, ControlledInit, ControlledStep, WorkerStep, PTL DEF Spec

-----------------------------------------------------------------------------
(* The records                                                             *)

LEMMA UnforcedStep ==
    ASSUME Controlled, Unforced, [Next]_vars
    PROVE  Unforced'
<1>1. CASE StartAgent
  BY <1>1 DEF StartAgent, Unforced, Exists
<1>2. CASE RunAgent \/ Compare
  BY <1>2 DEF RunAgent, Compare, Unforced, Exists
<1>3. CASE UNCHANGED vars
  BY <1>3 DEF vars, Unforced, Exists
<1>4. CASE \/ Invoke \/ GenerationFails \/ Killed \/ Prepare \/ Load \/ ReuseRecord
           \/ ReadTornRecord \/ WriteRecord \/ InvalidateReport \/ EndLoop
           \/ WriteOfficial \/ StopWorker \/ Evaluate
  BY <1>4 DEF Invoke, GenerationFails, Killed, Prepare, Load, ReuseRecord,
     ReadTornRecord, WriteRecord, InvalidateReport, EndLoop, WriteOfficial,
     StopWorker, Evaluate, Unforced
<1> QED BY <1>1, <1>2, <1>3, <1>4 DEF Next, Steps, Finished

LEMMA RecordsStep ==
    ASSUME Controlled, Unforced, [Next]_vars,
           NEW i \in Instances, record[i].run > 0, record'[i] # record[i]
    PROVE  options.force
<1>1. at = "write" /\ i = current
  <2>1. CASE WriteRecord
    BY <2>1 DEF WriteRecord, Controlled, TypeOK
  <2>2. CASE GenerationFails \/ Killed
    <3>1. Interrupted
      BY <2>2 DEF GenerationFails, Killed
    <3> QED BY <3>1 DEF Interrupted, diskVars, Controlled, TypeOK
  <2> QED
    BY <2>1, <2>2 DEF Next, Steps, Finished, vars, Invoke, Prepare, Load,
       ReuseRecord, ReadTornRecord, StartAgent, RunAgent, Compare,
       InvalidateReport, EndLoop, WriteOfficial, StopWorker, Evaluate
<1> QED BY <1>1 DEF Unforced, Exists

(* A complete record is replaced, or lost, under --force only. *)
THEOREM CompleteRecordsKept == Spec => RecordsKept
<1>1. Init => Unforced
  BY DEF Init, Unforced
<1>2. Controlled /\ Unforced /\ [Next]_vars =>
          [\A i \in Instances :
              record[i].run > 0 /\ record'[i] # record[i] => options.force]_vars
  BY RecordsStep
<1> QED
  BY <1>1, <1>2, ControlledInit, ControlledStep, UnforcedStep, PTL
  DEF Spec, RecordsKept

-----------------------------------------------------------------------------
(* The official predictions                                                *)

Listed == Collection /\ OfficialListsRecords

(* The steps that write neither records nor predictions. *)
Reading ==
    \/ Prepare \/ Load \/ ReadTornRecord \/ StartAgent \/ RunAgent \/ Compare
    \/ EndLoop \/ StopWorker \/ Evaluate

LEMMA CollectionRead ==
    ASSUME Controlled, Collection, Reading
    PROVE  Collection'
<1>1. UNCHANGED <<current, collected, record, torn>>
  BY DEF Reading, Prepare, Load, ReadTornRecord, StartAgent, RunAgent, Compare,
     EndLoop, StopWorker, Evaluate
<1>2. at' \in Looping => at \in Looping /\ at' # "invalidate"
  BY DEF Reading, Prepare, Load, ReadTornRecord, StartAgent, RunAgent, Compare,
     EndLoop, StopWorker, Evaluate, Looping, Busy
<1> QED BY <1>1, <1>2 DEF Collection

LEMMA CollectionPassed ==
    ASSUME Controlled, Collection, ReuseRecord \/ InvalidateReport
    PROVE  Collection'
<1>1. current \in Nat /\ current' = current + 1 /\ at' = "instance" /\ at \in Looping
  BY ControlledPassed, InstanceFacts DEF ReuseRecord, InvalidateReport, Looping, Busy
<1>2. UNCHANGED <<record, torn>>
  BY DEF ReuseRecord, InvalidateReport
<1>3. /\ collected' = Append(collected, Line(current, record[current]))
      /\ current \notin torn
  <2>1. CASE ReuseRecord
    BY <2>1 DEF ReuseRecord
  <2>2. CASE InvalidateReport
    BY <1>1, <2>2 DEF InvalidateReport, Collection, Line
  <2> QED BY <2>1, <2>2
<1>4. collected \in Seq(Lines) /\ Len(collected) = current - 1
  BY <1>1 DEF Controlled, TypeOK, Collection
<1>5. Line(current, record[current]) \in Lines
  BY ControlledPassed, InstanceFacts DEF Controlled, TypeOK
<1>6. /\ Len(collected') = current' - 1
      /\ collected'[current] = Line(current, record[current])
      /\ \A i \in 1 .. current - 1 : collected'[i] = collected[i]
  BY <1>1, <1>3, <1>4, <1>5
<1>7. ASSUME NEW i \in 1 .. current' - 1
      PROVE  i \notin torn' /\ collected'[i] = Line(i, record'[i])
  <2>1. i = current \/ i \in 1 .. current - 1
    BY <1>1
  <2>2. CASE i = current
    BY <2>2, <1>2, <1>3, <1>6 DEF Line
  <2>3. CASE i \in 1 .. current - 1
    BY <2>3, <1>1, <1>2, <1>6 DEF Collection, Line
  <2> QED BY <2>1, <2>2, <2>3
<1> QED BY <1>1, <1>6, <1>7 DEF Collection

LEMMA CollectionStep ==
    ASSUME Controlled, Collection, [Next]_vars
    PROVE  Collection'
<1>1. CASE Invoke
  BY <1>1 DEF Invoke, Collection
<1>2. CASE GenerationFails \/ Killed
  BY <1>2 DEF GenerationFails, Killed, Collection, Looping, Busy
<1>3. CASE WriteRecord
  <2>1. current \in Instances /\ current \in Nat
    BY <1>3, AtInstance DEF WriteRecord, Busy
  <2>2. /\ record'[current] = prediction /\ current \notin torn' /\ torn' \subseteq torn
        /\ \A i \in Instances : i # current => record'[i] = record[i]
    BY <1>3, <2>1 DEF WriteRecord, Controlled, TypeOK
  <2>3. ASSUME NEW i \in 1 .. current - 1
        PROVE  i \notin torn' /\ collected'[i] = Line(i, record'[i])
    <3>1. i \in Instances /\ i # current
      BY <2>1, PredictionsAssumption DEF Instances
    <3> QED BY <1>3, <2>2, <3>1 DEF WriteRecord, Collection, Looping, Busy, Line
  <2> QED
    BY <1>3, <2>2, <2>3 DEF WriteRecord, Collection, Looping, Busy
<1>4. CASE WriteOfficial
  BY <1>4 DEF WriteOfficial, Collection, Looping, Busy
<1>5. CASE UNCHANGED vars
  BY <1>5 DEF vars, Collection
<1> QED
  BY <1>1, <1>2, <1>3, <1>4, <1>5, CollectionRead, CollectionPassed
  DEF Next, Steps, Finished, Reading

LEMMA OfficialStep ==
    ASSUME Controlled, Collection, OfficialListsRecords, [Next]_vars
    PROVE  OfficialListsRecords'
<1>1. CASE WriteOfficial
  <2>1. current \in Int /\ options.subset \in Int
    BY PredictionsAssumption DEF Controlled, TypeOK, Options, Instances
  <2>2. current = options.subset + 1
    BY <1>1, <2>1 DEF WriteOfficial, Controlled, Position, Looping
  <2>3. /\ Len(collected) = options.subset
        /\ \A i \in 1 .. options.subset : i \notin torn /\ collected[i] = Line(i, record[i])
    BY <1>1, <2>1, <2>2 DEF WriteOfficial, Collection, Looping
  <2> QED BY <1>1, <2>3 DEF WriteOfficial, OfficialListsRecords, Line
<1>2. CASE StopWorker
  BY <1>2 DEF StopWorker, OfficialListsRecords, Line
<1>3. CASE Invoke
  BY <1>3 DEF Invoke, OfficialListsRecords, Options
<1>4. CASE UNCHANGED vars
  BY <1>4 DEF vars, OfficialListsRecords, Line
<1>5. CASE Evaluate
  BY <1>5 DEF Evaluate, OfficialListsRecords, Controlled, Position
<1>6. CASE Prepare
  BY <1>6 DEF Prepare, OfficialListsRecords
<1>7. CASE \/ GenerationFails \/ Killed \/ Load \/ ReuseRecord \/ ReadTornRecord
           \/ StartAgent \/ RunAgent \/ Compare \/ WriteRecord \/ InvalidateReport
           \/ EndLoop
  BY <1>7 DEF GenerationFails, Killed, Load, ReuseRecord, ReadTornRecord, StartAgent,
     RunAgent, Compare, WriteRecord, InvalidateReport, EndLoop, OfficialListsRecords
<1> QED BY <1>1, <1>2, <1>3, <1>4, <1>5, <1>6, <1>7 DEF Next, Steps, Finished

LEMMA ListedInit == Init => Listed
BY DEF Init, Listed, Collection, OfficialListsRecords, Looping, Busy

(* A generation that ends wrote what the records hold, in their order. *)
THEOREM OfficialIsRecords == Spec => []OfficialListsRecords
<1>1. Controlled /\ Listed /\ [Next]_vars => Listed'
  BY CollectionStep, OfficialStep DEF Listed
<1>2. Listed => OfficialListsRecords
  BY DEF Listed
<1> QED BY <1>1, <1>2, ControlledInit, ControlledStep, ListedInit, PTL DEF Spec

-----------------------------------------------------------------------------
(* The reports                                                             *)

(* A patch the harness came to is scored by the record it was listed for.  *)
LEMMA ListedPatchScored ==
    ASSUME Controlled, OfficialListsRecords, at = "evaluate", options.mode = "both",
           NEW scored \in SUBSET Unscored,
           \A n \in Unscored \ scored : ~official[n].patch,
           NEW i \in 1 .. options.subset, record[i].patch
    PROVE  \/ report[i] # 0 /\ ReportsAfter(scored)[i] = report[i]
           \/ \E n \in DOMAIN official : /\ official[n].instance = i
                                         /\ ReportsAfter(scored)[i] = official[n].run
<1>1. i \in Instances /\ i \in Nat
  BY PredictionsAssumption DEF Controlled, TypeOK, Options, Instances
<1>2. Len(official) = options.subset /\ official[i] = Line(i, record[i])
  BY DEF OfficialListsRecords
<1>3. i \in DOMAIN official /\ official[i].instance = i /\ official[i].patch
  BY <1>2 DEF Line, Controlled, TypeOK
<1>4. CASE report[i] # 0
  BY <1>1, <1>4, ReportsMeaning DEF Controlled
<1>5. CASE report[i] = 0
  <2>1. i \in scored
    BY <1>3, <1>5 DEF Unscored
  <2> QED BY <1>1, <1>3, <2>1, ReportsMeaning DEF Controlled
<1> QED BY <1>4, <1>5

(* What the lines of a finished generation name is what the records hold.  *)
LEMMA LineIsRecord ==
    ASSUME Controlled, OfficialListsRecords, at = "evaluate", options.mode = "both",
           NEW n \in DOMAIN official, NEW i \in Instances, official[n].instance = i
    PROVE  official[n].run = record[i].run
<1>1. n \in 1 .. options.subset
  BY DEF OfficialListsRecords, Controlled, TypeOK
<1>2. official[n] = Line(n, record[n])
  BY <1>1 DEF OfficialListsRecords
<1>3. official[n].instance = n /\ official[n].run = record[n].run
  BY <1>2 DEF Line
<1> QED BY <1>3

LEMMA FreshnessInterrupted ==
    ASSUME Controlled, Freshness, GenerationFails \/ Killed
    PROVE  Freshness'
<1>1. Interrupted /\ UNCHANGED <<prediction, runs>> /\ at' \in {"unwinding", "killed"}
  BY DEF GenerationFails, Killed
<1>2. prediction.run <= runs /\ runs \in Nat
  BY PredictionsAssumption DEF Freshness, Controlled, TypeOK
<1>3. \A i \in Instances : record'[i].run <= runs
  <2>1. CASE record' = record
    BY <2>1 DEF Freshness
  <2>2. CASE record' = [record EXCEPT ![current] = NoPrediction]
    BY <2>2, <1>2 DEF Freshness, NoPrediction, Controlled, TypeOK
  <2> QED BY <1>1, <2>1, <2>2 DEF Interrupted, diskVars
<1> QED BY <1>1, <1>2, <1>3 DEF Freshness, Looping, Busy

LEMMA FreshnessPassed ==
    ASSUME Controlled, Freshness, ReuseRecord \/ InvalidateReport
    PROVE  Freshness'
<1>1. current \in Instances /\ current \in Nat /\ current' = current + 1 /\ at' = "instance"
  BY ControlledPassed, InstanceFacts
<1>2. UNCHANGED <<options, prediction, record, runs>> /\ at \in Looping
  BY DEF ReuseRecord, InvalidateReport, Looping, Busy
<1>3. runs \in Nat /\ \A i \in Instances : i \in Nat /\ record[i].run \in Nat
  BY PredictionsAssumption DEF Controlled, TypeOK, Instances, Prediction
<1>4. ASSUME NEW i \in Instances, ~(i < current')
      PROVE  record[i].run < runs
  BY <1>1, <1>2, <1>3, <1>4 DEF Freshness, Behind
<1>5. ASSUME NEW i \in Instances, i < current', options.mode = "both",
             record[i].run = runs
      PROVE  report'[i] = 0
  <2>1. CASE ReuseRecord
    <3>1. ~Behind(current)
      BY <2>1, <1>1 DEF ReuseRecord, Behind
    <3>2. record[current].run < runs
      BY <3>1, <1>1, <1>2 DEF Freshness
    <3>3. i < current
      BY <1>1, <1>3, <1>5, <3>2
    <3> QED BY <2>1, <3>3, <1>2, <1>5 DEF ReuseRecord, Freshness
  <2>2. CASE InvalidateReport
    <3>1. report' = [report EXCEPT ![current] = 0]
      BY <2>2, <1>5 DEF InvalidateReport
    <3>2. i < current \/ i = current
      BY <1>1, <1>3, <1>5
    <3> QED BY <3>1, <3>2, <1>2, <1>5 DEF Freshness, Controlled, TypeOK
  <2> QED BY <2>1, <2>2
<1> QED BY <1>1, <1>2, <1>4, <1>5 DEF Freshness, Behind

LEMMA FreshnessStep ==
    ASSUME Controlled, Freshness, [Next]_vars
    PROVE  Freshness'
<1>0. runs \in Nat /\ \A i \in Instances : i \in Nat /\ record[i].run \in Nat
  BY PredictionsAssumption DEF Controlled, TypeOK, Instances, Prediction
<1>1. CASE Invoke
  <2>1. /\ runs' = runs + 1 /\ record' = record /\ prediction'.run = 0 /\ current' = 1
        /\ at' = "prepare" \/ (at' = "evaluate" /\ options'.mode = "evaluate_only")
    BY <1>1 DEF Invoke, NoPrediction
  <2>2. \A i \in Instances : i >= 1 /\ record'[i].run < runs'
    BY <1>0, <2>1, InstanceFacts DEF Freshness
  <2> QED BY <1>0, <2>1, <2>2 DEF Freshness, Looping, Busy
<1>2. CASE WriteRecord
  <2>1. current \in Instances /\ current \in Nat
    BY <1>2, AtInstance DEF WriteRecord, Busy
  <2>2. /\ record'[current] = prediction
        /\ \A i \in Instances : i # current => record'[i] = record[i]
    BY <1>2, <2>1 DEF WriteRecord, Controlled, TypeOK
  <2>3. /\ at = "write" /\ at' = "invalidate"
        /\ UNCHANGED <<current, prediction, options, report, runs>>
    BY <1>2 DEF WriteRecord
  <2> QED BY <1>0, <2>1, <2>2, <2>3 DEF Freshness, Behind, Looping, Busy
<1>3. CASE RunAgent
  <2>1. prediction'.run = runs /\ at = "agent" /\ at' = "compare"
        /\ UNCHANGED <<current, options, record, report, runs>>
    BY <1>3 DEF RunAgent
  <2> QED BY <1>0, <2>1 DEF Freshness, Behind, Looping, Busy
<1>4. CASE Prepare \/ Load \/ ReadTornRecord \/ StartAgent \/ Compare \/ EndLoop
  <2>1. /\ UNCHANGED <<prediction, current, options, record, report, runs>>
        /\ at' \in Looping \/ at' \in {"ok", "failed", "unwinding"}
        /\ at \in Looping /\ at # "invalidate" /\ at' # "invalidate"
    BY <1>4 DEF Prepare, Load, ReadTornRecord, StartAgent, Compare, EndLoop,
       Looping, Busy
  <2> QED BY <2>1 DEF Freshness, Behind, Looping, Busy
<1>5. CASE WriteOfficial
  <2>1. current \in Int /\ options.subset \in 1 .. Count /\ Count \in Nat
    BY PredictionsAssumption DEF Controlled, TypeOK, Options, Instances
  <2>2. current > options.subset /\ at = "official" /\ at' = "stopping"
        /\ UNCHANGED <<prediction, current, options, record, report, runs>>
    BY <1>5 DEF WriteOfficial, Controlled, Position
  <2>3. \A i \in 1 .. options.subset : i \in Instances /\ i < current
    BY <2>1, <2>2 DEF Instances
  <2> QED BY <2>2, <2>3 DEF Freshness, Looping, Busy
<1>6. CASE StopWorker
  BY <1>6 DEF StopWorker, Freshness, Looping, Busy
<1>7. CASE Evaluate
  BY <1>7 DEF Evaluate, Freshness, Looping, Busy
<1>8. CASE UNCHANGED vars
  BY <1>8 DEF vars, Freshness, Behind
<1> QED
  BY <1>1, <1>2, <1>3, <1>4, <1>5, <1>6, <1>7, <1>8, FreshnessInterrupted,
     FreshnessPassed DEF Next, Steps, Finished

LEMMA FreshScoredStep ==
    ASSUME Controlled, Freshness, Listed, FreshPredictionScored, [Next]_vars
    PROVE  FreshPredictionScored'
<1>1. CASE Evaluate
  <2>1. SUFFICES ASSUME at' = "ok", options.mode = "both",
                        NEW i \in 1 .. options.subset,
                        record[i].run = runs, record[i].patch
                 PROVE  report'[i] = runs
    BY <1>1 DEF Evaluate, FreshPredictionScored
  <2>2. i \in Instances
    BY PredictionsAssumption DEF Controlled, TypeOK, Options, Instances
  <2>3. PICK scored \in SUBSET Unscored :
            /\ report' = ReportsAfter(scored)
            /\ \A n \in Unscored \ scored : ~official[n].patch
    BY <1>1, <2>1 DEF Evaluate
  <2>4. report[i] = 0 /\ at = "evaluate" /\ OfficialListsRecords
    BY <1>1, <2>1 DEF Evaluate, Freshness, Listed
  <2>5. PICK n \in DOMAIN official : official[n].instance = i /\ report'[i] = official[n].run
    BY <2>1, <2>3, <2>4, ListedPatchScored
  <2> QED BY <2>1, <2>2, <2>4, <2>5, LineIsRecord
<1>2. CASE UNCHANGED vars
  BY <1>2 DEF vars, FreshPredictionScored
<1>3. CASE Next /\ ~Evaluate
  <2>1. at' = "ok" => options'.mode # "both" \/ UNCHANGED vars
    BY <1>3 DEF Next, Steps, Finished, Invoke, GenerationFails, Killed, Prepare, Load,
       ReuseRecord, ReadTornRecord, StartAgent, RunAgent, Compare, WriteRecord,
       InvalidateReport, EndLoop, WriteOfficial, StopWorker
  <2> QED BY <2>1, <1>2 DEF FreshPredictionScored
<1> QED BY <1>1, <1>2, <1>3

LEMMA FreshInit == Init => Freshness /\ FreshPredictionScored
BY DEF Init, Freshness, FreshPredictionScored, Looping, Busy, NoPrediction

(* What an invocation generated anew is scored by the evaluation it ends   *)
(* with, for any failures and kills before it.                             *)
THEOREM FreshIsScored == Spec => []FreshPredictionScored
<1>1. Controlled /\ Listed /\ [Next]_vars => Listed'
  BY CollectionStep, OfficialStep DEF Listed
<1> QED
  BY <1>1, ControlledInit, ControlledStep, ListedInit, FreshInit, FreshnessStep,
     FreshScoredStep, PTL DEF Spec

LEMMA FaithfulInterrupted ==
    ASSUME Controlled, Faithful, GenerationFails \/ Killed
    PROVE  Faithful'
<1> SUFFICES ASSUME followed', NEW i \in Instances
             PROVE  i \in torn' \/ report'[i] \in {0, record'[i].run}
  BY DEF Faithful
<1>1. Interrupted /\ followed /\ Follows
  BY DEF GenerationFails, Killed, Controlled, TypeOK
<1>2. \/ i \in torn
      \/ at = "invalidate" /\ i = current
      \/ report[i] \in {0, record[i].run}
  BY <1>1 DEF Faithful
<1>3. at = "invalidate" => report'[current] = 0
  BY <1>1 DEF Follows
<1>4. CASE UNCHANGED diskVars
  BY <1>2, <1>3, <1>4 DEF diskVars
<1>5. CASE at = "write" /\ record' = [record EXCEPT ![current] = NoPrediction]
           /\ torn' = torn \cup {current} /\ UNCHANGED <<official, report>>
  <2>1. i = current \/ record'[i] = record[i]
    BY <1>5 DEF Controlled, TypeOK
  <2> QED BY <1>2, <1>5, <2>1
<1>6. CASE at = "invalidate" /\ report' = [report EXCEPT ![current] = 0]
           /\ UNCHANGED <<record, torn, official>>
  BY <1>2, <1>6 DEF Controlled, TypeOK
<1>7. CASE at = "official" /\ UNCHANGED <<record, torn, report>>
  BY <1>2, <1>7
<1>8. CASE at = "evaluate" /\ UNCHANGED <<record, torn, official>>
           /\ \E scored \in SUBSET Unscored : report' = ReportsAfter(scored)
  <2>1. PICK scored \in SUBSET Unscored : report' = ReportsAfter(scored)
    BY <1>8
  <2>2. \A n \in DOMAIN official : official[n].instance = i => official[n].run = record[i].run
    BY <1>1, <1>8 DEF Follows, Line
  <2>3. \/ report'[i] = report[i]
        \/ \E n \in DOMAIN official : official[n].instance = i /\ report'[i] = official[n].run
    BY <2>1, ReportsMeaning DEF Controlled
  <2> QED BY <1>2, <1>8, <2>2, <2>3
<1> QED BY <1>1, <1>4, <1>5, <1>6, <1>7, <1>8 DEF Interrupted

LEMMA FaithfulEvaluate ==
    ASSUME Controlled, Faithful, Evaluate
    PROVE  Faithful'
<1> SUFFICES ASSUME followed', NEW i \in Instances
             PROVE  i \in torn' \/ report'[i] \in {0, record'[i].run}
  BY DEF Faithful
<1>1. followed /\ Follows /\ at = "evaluate" /\ UNCHANGED <<record, torn>>
  BY DEF Evaluate, Controlled, TypeOK
<1>2. i \in torn \/ report[i] \in {0, record[i].run}
  BY <1>1 DEF Faithful
<1>3. PICK scored \in SUBSET Unscored : report' = ReportsAfter(scored)
  BY DEF Evaluate
<1>4. \A n \in DOMAIN official : official[n].instance = i => official[n].run = record[i].run
  BY <1>1 DEF Follows, Line
<1>5. \/ report'[i] = report[i]
      \/ \E n \in DOMAIN official : official[n].instance = i /\ report'[i] = official[n].run
  BY <1>3, ReportsMeaning DEF Controlled
<1> QED BY <1>1, <1>2, <1>4, <1>5

LEMMA FaithfulStep ==
    ASSUME Controlled, Faithful, [Next]_vars
    PROVE  Faithful'
<1>1. CASE WriteRecord
  <2>1. \A i \in Instances : i # current =>
            record'[i] = record[i] /\ (i \in torn => i \in torn')
    BY <1>1 DEF WriteRecord, Controlled, TypeOK
  <2> QED BY <1>1, <2>1 DEF WriteRecord, Faithful
<1>2. CASE InvalidateReport
  <2> SUFFICES ASSUME followed', NEW i \in Instances
               PROVE  i \in torn \/ report'[i] \in {0, record[i].run}
    BY <1>2 DEF InvalidateReport, Faithful
  <2>1. followed /\ report'[current] = 0
    BY <1>2 DEF InvalidateReport, Follows, Controlled, TypeOK
  <2>2. i # current => report'[i] = report[i]
    BY <1>2 DEF InvalidateReport, Controlled, TypeOK
  <2> QED BY <2>1, <2>2 DEF Faithful
<1>3. CASE UNCHANGED vars
  BY <1>3 DEF vars, Faithful
<1>4. CASE \/ Invoke \/ Prepare \/ Load \/ ReuseRecord \/ ReadTornRecord \/ StartAgent
           \/ RunAgent \/ Compare \/ EndLoop \/ WriteOfficial \/ StopWorker
  <2>1. UNCHANGED <<record, torn, report, followed>> /\ at # "invalidate"
    BY <1>4 DEF Invoke, Prepare, Load, ReuseRecord, ReadTornRecord, StartAgent,
       RunAgent, Compare, EndLoop, WriteOfficial, StopWorker, Resting
  <2> QED BY <2>1 DEF Faithful
<1> QED
  BY <1>1, <1>2, <1>3, <1>4, FaithfulInterrupted, FaithfulEvaluate
  DEF Next, Steps, Finished

LEMMA StaleStep ==
    ASSUME Controlled, Listed, Faithful, StaleOnlyThroughWindow, [Next]_vars
    PROVE  StaleOnlyThroughWindow'
<1>1. CASE Evaluate
  <2>1. SUFFICES ASSUME at' = "ok", options.mode = "both", followed',
                        NEW i \in 1 .. options.subset, record[i].patch
                 PROVE  report'[i] = record[i].run
    BY <1>1 DEF Evaluate, StaleOnlyThroughWindow
  <2>2. i \in Instances
    BY PredictionsAssumption DEF Controlled, TypeOK, Options, Instances
  <2>3. PICK scored \in SUBSET Unscored :
            /\ report' = ReportsAfter(scored)
            /\ \A n \in Unscored \ scored : ~official[n].patch
    BY <1>1, <2>1 DEF Evaluate
  <2>4. at = "evaluate" /\ OfficialListsRecords /\ followed
    BY <1>1, <2>1 DEF Evaluate, Listed, Controlled, TypeOK
  <2>5. i \notin torn
    BY <2>1, <2>4 DEF OfficialListsRecords
  <2>6. report[i] \in {0, record[i].run}
    BY <2>2, <2>4, <2>5 DEF Faithful
  <2>7. CASE report[i] # 0 /\ report'[i] = report[i]
    BY <2>6, <2>7
  <2>8. CASE \E n \in DOMAIN official :
                 official[n].instance = i /\ report'[i] = official[n].run
    BY <2>1, <2>2, <2>4, <2>8, LineIsRecord
  <2> QED BY <2>1, <2>3, <2>4, <2>7, <2>8, ListedPatchScored
<1>2. CASE UNCHANGED vars
  BY <1>2 DEF vars, StaleOnlyThroughWindow
<1>3. CASE Next /\ ~Evaluate
  <2>1. at' = "ok" => options'.mode # "both" \/ UNCHANGED vars
    BY <1>3 DEF Next, Steps, Finished, Invoke, GenerationFails, Killed, Prepare, Load,
       ReuseRecord, ReadTornRecord, StartAgent, RunAgent, Compare, WriteRecord,
       InvalidateReport, EndLoop, WriteOfficial, StopWorker
  <2> QED BY <2>1, <1>2 DEF StaleOnlyThroughWindow
<1> QED BY <1>1, <1>2, <1>3

(* After an evaluation every patch has a report of its own, unless an      *)
(* earlier invocation opened one of the two windows `followed` records.    *)
THEOREM StaleThroughWindow == Spec => []StaleOnlyThroughWindow
<1>1. Controlled /\ Listed /\ [Next]_vars => Listed'
  BY CollectionStep, OfficialStep DEF Listed
<1>2. Init => Faithful /\ StaleOnlyThroughWindow
  BY DEF Init, Faithful, StaleOnlyThroughWindow
<1> QED
  BY <1>1, <1>2, ControlledInit, ControlledStep, ListedInit, FaithfulStep, StaleStep,
     PTL DEF Spec
=============================================================================
