------------------------------- MODULE Learning -------------------------------
(***************************************************************************)
(* From labels to the model that the worker decides with: the end of the   *)
(* worker's day (rac/worker/loop.py), training (rac/ml/trainer.py,         *)
(* rac/ml/dataset.py), the model file that both containers share, its      *)
(* loading (rac/ml/confidence.py), and scripts/load_history.py, which      *)
(* drives the API through history, labels and a training of its own.       *)
(*                                                                         *)
(* A model is known by the signals whose labels it was fitted on.  The     *)
(* file is written in two halves, in place.                                *)
(***************************************************************************)
EXTENDS Labeling

CONSTANTS
  RetrainAt,   \* labels of one run from which the worker trains
  MinSamples,  \* samples that a training needs
  Rounds       \* LABEL_ROUNDS of the script

Trainers == {"worker", "api"}

ASSUME LearningConstants ==
  /\ Runners = Trainers /\ Daily = {"worker"}
  /\ {RetrainAt, MinSamples, Rounds} \subseteq Nat \ {0}

VARIABLES
  file,      \* the model file, by halves
  stage,     \* stage[p]: the next call of p's training
  fitted,    \* fitted[p]: the model that p is saving
  loaded,    \* the model in the worker's memory, by halves
  loader,    \* the script's next request
  round,     \* labelings that the script has asked for
  due,       \* samples at the last labeling after which the worker trains
  overlaps   \* what has happened while a file was being written

modelVars == <<file, stage, fitted, loaded>>
scriptVars == <<loader, round>>
history == <<due, overlaps>>
vars == <<labelVars, modelVars, scriptVars, history>>
-----------------------------------------------------------------------------
Empty == {0}
Absent == <<Empty, Empty>>
Models == SUBSET (1 .. MaxSignals)
File == (Models \cup {Empty}) \X (Models \cup {Empty})

TypeOK ==
  /\ LabelTypeOK
  /\ file \in File /\ loaded \in File
  /\ stage \in [Trainers -> {"idle", "train", "save", "finish", "load"}]
  /\ fitted \in [Trainers -> Models \cup {Empty}]
  /\ loader \in {"fetch", "signals", "label", "wait", "train", "done"}
  /\ round \in 0 .. Rounds
  /\ due \subseteq Ids
  /\ overlaps \subseteq {"saves", "load"}

Init ==
  /\ LabelInit
  /\ file = Absent
  /\ stage = [p \in Trainers |-> "idle"]
  /\ fitted = [p \in Trainers |-> Empty]
  /\ loaded = Absent
  /\ loader = "fetch"
  /\ round = 0
  /\ due = {}
  /\ overlaps = {}
-----------------------------------------------------------------------------
(* Training and the file.                                                  *)

Idle(p) == stage[p] = "idle" /\ p \notin running
Saving(p) == stage[p] \in {"save", "finish"}

\* TrainingDatasetBuilder.build, below its limit: timeouts are samples too, two symbols
\* are left out.
Dataset == {i \in DOMAIN labels : signals[i].symbol # "left_out"}

\* After its training the worker loads the file, whatever became of it.
Trained(p) == IF p = "worker" THEN "load" ELSE "idle"

Goto(p, s) ==
  /\ stage' = [stage EXCEPT ![p] = s]
  /\ fitted' = [fitted EXCEPT ![p] = IF s = "finish" THEN @ ELSE Empty]

Overlapping(what) == overlaps' = overlaps \cup what

\* ModelTrainer.train up to the file: with too few samples there is an error to
\* return, and no new model.
Train(p) ==
  /\ stage[p] = "train"
  /\ IF Cardinality(Dataset) < MinSamples
       THEN Goto(p, Trained(p)) /\ UNCHANGED overlaps
       ELSE /\ stage' = [stage EXCEPT ![p] = "save"]
            /\ fitted' = [fitted EXCEPT ![p] = Dataset]
            /\ Overlapping({"saves" : q \in {q \in Trainers \ {p} : Saving(q)}}
                           \cup {"load" : q \in {q \in Trainers : stage[q] = "load"}})
  /\ UNCHANGED <<labelVars, file, loaded, scriptVars, due>>

\* mutant: the file is not truncated
OpenInPlace(p) ==
  /\ stage[p] = "save"
  /\ file' = [file EXCEPT ![1] = fitted[p]]
  /\ Goto(p, "finish")
  /\ UNCHANGED <<labelVars, loaded, scriptVars, history>>

\* open("wb") and the first half: what was in the file is gone.
Open(p) ==
  /\ stage[p] = "save"
  /\ file' = <<fitted[p], Empty>>
  /\ Goto(p, "finish")
  /\ UNCHANGED <<labelVars, loaded, scriptVars, history>>

\* The second half, where the first one ended.
Dump(p) ==
  /\ stage[p] = "finish"
  /\ file' = [file EXCEPT ![2] = fitted[p]]
  /\ Goto(p, Trained(p))
  /\ UNCHANGED <<labelVars, loaded, scriptVars, history>>

\* model_save_error: it is logged, and the training counts as done.
SaveFails(p) ==
  /\ Saving(p)
  /\ faults < MaxFaults
  /\ faults' = faults + 1
  /\ Goto(p, Trained(p))
  /\ UNCHANGED <<world, labels, runVars, file, loaded, scriptVars, history>>

\* mutant: a file that cannot be read leaves no model
LoadResets ==
  /\ stage["worker"] = "load"
  /\ IF Empty \notin {file[1], file[2]}
       THEN loaded' = file \/ (file[1] # file[2] /\ UNCHANGED loaded)
       ELSE loaded' = Absent
  /\ Goto("worker", "idle")
  /\ Overlapping(IF Saving("api") THEN {"load"} ELSE {})
  /\ UNCHANGED <<labelVars, file, scriptVars, due>>

LoadOnce ==  \* mutant: a model that is there is kept
  /\ stage["worker"] = "load"
  /\ \/ loaded = Absent /\ Empty \notin {file[1], file[2]} /\ loaded' = file
     \/ (loaded # Absent \/ Empty \in {file[1], file[2]}) /\ UNCHANGED loaded
  /\ Goto("worker", "idle")
  /\ Overlapping(IF Saving("api") THEN {"load"} ELSE {})
  /\ UNCHANGED <<labelVars, file, scriptVars, due>>

\* MLConfidenceService.load: half a file cannot be read, halves of two models perhaps;
\* a file that cannot be read leaves the model that there is.
Load ==
  /\ stage["worker"] = "load"
  /\ \/ Empty \notin {file[1], file[2]} /\ loaded' = file
     \/ (Empty \in {file[1], file[2]} \/ file[1] # file[2]) /\ UNCHANGED loaded
  /\ Goto("worker", "idle")
  /\ Overlapping(IF Saving("api") THEN {"load"} ELSE {})
  /\ UNCHANGED <<labelVars, file, scriptVars, due>>
-----------------------------------------------------------------------------
(* The worker.                                                             *)

WorkerLabels ==
  /\ stage["worker"] = "idle"
  /\ Start("worker") \/ LabelNext("worker")
  /\ UNCHANGED <<modelVars, scriptVars, history>>

\* The labels of this run decide whether there is a training.
WorkerCommits ==
  /\ stage["worker"] = "idle"
  /\ Commit("worker")
  /\ IF counted["worker"] >= RetrainAt
       THEN Goto("worker", "train") /\ due' = Dataset'
       ELSE UNCHANGED <<stage, fitted, due>>
  /\ UNCHANGED <<file, loaded, scriptVars, overlaps>>

\* auto_ml_error, in labeling or in training: the rest is left out.
WorkerFails ==
  \/ Fail("worker") /\ UNCHANGED <<modelVars, scriptVars, history>>
  \/ /\ stage["worker"] = "train"
     /\ faults < MaxFaults
     /\ faults' = faults + 1
     /\ Goto("worker", "idle")
     /\ UNCHANGED <<world, labels, runVars, file, loaded, scriptVars, history>>

\* The container starts again, without a model, and loads the file.
WorkerRestarts ==
  /\ faults < MaxFaults
  /\ faults' = faults + 1
  /\ running' = running \ {"worker"}
  /\ todo' = [todo EXCEPT !["worker"] = {}]
  /\ mine' = [mine EXCEPT !["worker"] = <<>>]
  /\ counted' = [counted EXCEPT !["worker"] = 0]
  /\ loaded' = Absent
  /\ Goto("worker", "load")
  /\ UNCHANGED <<world, labels, file, scriptVars, history>>
-----------------------------------------------------------------------------
(* The script and the API, which does one request at a time.               *)

\* A request that fails is logged, and the next is made.
LoaderFetches ==
  /\ loader = "fetch"
  /\ \/ \E t \in Missed : FetchHistorical(t)
     \/ UNCHANGED labelVars
  /\ loader' = "signals"
  /\ UNCHANGED <<modelVars, round, history>>

LoaderGenerates ==
  /\ loader = "signals"
  /\ \/ \E t \in 0 .. Len(bars) : NewSignal(t)
     \/ UNCHANGED labelVars
  /\ loader' = "label"
  /\ UNCHANGED <<modelVars, round, history>>

LoaderLabels ==
  /\ loader = "label" /\ Idle("api")
  /\ IF Unlabeled = {} \/ round = Rounds
       THEN loader' = "train" /\ UNCHANGED <<labelVars, round>>
       ELSE /\ Start("api")
            /\ loader' = "wait"
            /\ round' = round + 1
  /\ UNCHANGED <<modelVars, history>>

ApiLabels ==
  /\ LabelNext("api")
  /\ UNCHANGED <<modelVars, scriptVars, history>>

\* "All signals labeled", if none was in this round.
ApiCommits ==
  /\ Commit("api")
  /\ loader' = CASE loader # "wait" -> loader
                 [] loader = "wait" /\ counted["api"] = 0 -> "train"
                 [] loader = "wait" /\ counted["api"] # 0 -> "label"
  /\ UNCHANGED <<modelVars, round, history>>

\* An error counts as a round without labels.
ApiFails ==
  /\ Fail("api")
  /\ loader' = IF loader = "wait" THEN "train" ELSE loader
  /\ UNCHANGED <<modelVars, round, history>>

\* So does an answer that takes too long, while the API goes on.
LoaderGivesUp ==
  /\ loader = "wait"
  /\ faults < MaxFaults
  /\ faults' = faults + 1
  /\ loader' = "train"
  /\ UNCHANGED <<world, labels, runVars, modelVars, round, history>>

\* POST /ml/train, for the script
LoaderTrains ==
  /\ loader = "train" /\ Idle("api")
  /\ Goto("api", "train")
  /\ loader' = "done"
  /\ UNCHANGED <<labelVars, file, loaded, round, history>>

\* The API's container starts again in the middle of a training.
ApiRestarts ==
  /\ stage["api"] # "idle"
  /\ faults < MaxFaults
  /\ faults' = faults + 1
  /\ Goto("api", "idle")
  /\ UNCHANGED <<world, labels, runVars, file, loaded, scriptVars, history>>
-----------------------------------------------------------------------------
World ==
  /\ NewBar \/ MissBar \/ NewSignal(Len(bars))
  /\ UNCHANGED <<modelVars, scriptVars, history>>

Training(p) == Train(p) \/ Open(p) \/ Dump(p)
Worker == WorkerLabels \/ WorkerCommits \/ Training("worker") \/ Load
Api == ApiLabels \/ ApiCommits \/ Training("api")
Script ==
  LoaderFetches \/ LoaderGenerates \/ LoaderLabels \/ LoaderGivesUp \/ LoaderTrains

Next ==
  \/ World \/ Worker \/ Api \/ Script
  \/ WorkerFails \/ WorkerRestarts \/ ApiFails \/ ApiRestarts
  \/ \E p \in Trainers : SaveFails(p)

Spec == Init /\ [][Next]_vars

\* What has begun goes on, in the worker and in the API; the worker labels at the end
\* of every day.  Whether the script is run is up to the operator.
FairSpec == Spec /\ WF_vars(Worker) /\ WF_vars(Api)
-----------------------------------------------------------------------------
(* Properties                                                              *)

\* The model that decides is one that was fitted, whole: half a file, left by a failing
\* save, by a restart, or by a reload while the API writes, is never loaded.  Only two
\* trainings that write at the same time can leave a mixture.
LoadedIsOneModel == "saves" \in overlaps \/ loaded[1] = loaded[2]

\* While it runs the worker loses neither its model nor what it was fitted on, though
\* saves fail and the API trains too: each model in the file knows more labels than the
\* one before, unless trainings overlap.
NothingForgotten ==
  [][loaded[1] = Empty \/ "saves" \in overlaps' \/ WorkerRestarts
       \/ \A h \in {1, 2} : loaded'[h] # Empty /\ loaded[h] \subseteq loaded'[h]]_vars

\* "Retrains a RandomForest classifier" (README.md:247): after a labeling that is followed
\* by a training, the worker decides with a model that knows all labels there were,
\* unless something has failed, or one container wrote the file while the other wrote
\* or read it.
RetrainReaches ==
  \/ stage["worker"] # "idle" \/ Cardinality(due) < MinSamples
  \/ faults > 0 \/ overlaps # {}
  \/ due \subseteq loaded[1] \cap loaded[2]

\* "Label all unlabeled actionable signals" (labeler.py:71): once bars and signals have
\* come, every signal for which there are bars has its label, in one run or a later one,
\* though runs fail and wait for each other, if the signals that get no bars are fewer
\* than a batch: they stay in the list, oldest first, and a batch of them would hide
\* all others.
AllAreLabeled ==
  Cardinality({i \in DOMAIN Symbols : "ended" \in Symbols[i]}) < BatchSize
    => <>[](\A i \in Ids : Forward(i) # <<>> => i \in DOMAIN labels)
=============================================================================
