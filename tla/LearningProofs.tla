---------------------------- MODULE LearningProofs ----------------------------
(***************************************************************************)
(* Theorems about Learning, for any number of signals, bars, rounds and    *)
(* failures: labels are final, the model that decides is one model, a      *)
(* running worker never goes back to a model that knows fewer labels, and  *)
(* a training of its own reaches what it decides with.  A label that a bar *)
(* decided is that of the first bar which reaches a level.                 *)
(***************************************************************************)
EXTENDS Learning, SumTheorems, SequenceTheorems

-----------------------------------------------------------------------------
(* Labels.                                                                 *)

\* No signal is labeled twice: neither in two transactions nor in one after a commit.
Disjoint ==
  /\ \A r \in Runners : \A i \in DOMAIN mine[r] : i \notin DOMAIN labels
  /\ \A r, o \in Runners : r # o => \A i \in DOMAIN mine[r] : i \notin DOMAIN mine[o]

LabelInv == mine = [r \in Runners |-> mine[r]] /\ Disjoint

\* What a step may do to the labels: nothing, give up a transaction, insert a label
\* that nobody has, or commit.
Same == UNCHANGED <<labels, mine>>
GivesUp(r) == UNCHANGED labels /\ mine' = [mine EXCEPT ![r] = <<>>]
Inserts(r) ==
  /\ UNCHANGED labels
  /\ UNCHANGED <<bars, late, signals>>
  /\ \E i, l : /\ i \notin DOMAIN labels
               /\ Forward(i) # <<>> /\ l = LabelSignal(Directions[i], Forward(i))
               /\ \A o \in Runners \ {r} : i \notin DOMAIN mine[o]
               /\ mine' = [mine EXCEPT ![r] = Inserted(@, i, l)]
Commits(r) ==
  /\ labels' = [i \in DOMAIN labels \cup DOMAIN mine[r] |->
                  IF i \in DOMAIN mine[r] THEN mine[r][i] ELSE labels[i]]
  /\ mine' = [mine EXCEPT ![r] = <<>>]

Effect == Same \/ \E r \in Runners : GivesUp(r) \/ Inserts(r) \/ Commits(r)

LEMMA Members == "worker" \in Runners /\ "api" \in Runners
BY LearningConstants DEF Trainers

\* The steps of SignalLabelerService.run, one by one.
LEMMA StartEffect == ASSUME NEW r \in Runners, Start(r) PROVE Same
BY DEF Start, Same

LEMMA LabelNextEffect == ASSUME NEW r \in Runners, LabelNext(r) PROVE Effect
<1>1. PICK i \in First(r) :
        Skip(i) \/ Conflict(r, i) \/ (i \notin DOMAIN labels /\ Insert(r, i))
  BY DEF LabelNext
<1>2. UNCHANGED labels
  BY DEF LabelNext, world
<1>3. CASE Skip(i) \/ Conflict(r, i)
  BY <1>2, <1>3 DEF Skip, Conflict, Effect, Same
<1>4. CASE i \notin DOMAIN labels /\ Insert(r, i)
  <2>1. Inserts(r)
    BY <1>2, <1>4 DEF LabelNext, world, Insert, Inserts
  <2>2. QED
    BY <2>1 DEF Effect
<1>5. QED
  BY <1>1, <1>3, <1>4

LEMMA CommitEffect == ASSUME NEW r \in Runners, Commit(r) PROVE Effect
BY DEF Commit, Finish, Commits, Effect

LEMMA FailEffect == ASSUME NEW r \in Runners, Fail(r) PROVE Effect
BY DEF Fail, Finish, GivesUp, Effect

\* Every step of the system is one of these effects.
LEMMA StepEffect == ASSUME [Next]_vars PROVE Effect
<1> USE Members
<1>1. CASE UNCHANGED vars
  BY <1>1 DEF vars, labelVars, runVars, Effect, Same
<1>2. CASE World
  BY <1>2 DEF World, NewBar, MissBar, NewSignal, runVars, Effect, Same
<1>3. CASE WorkerLabels
  BY <1>3, StartEffect, LabelNextEffect DEF WorkerLabels, Effect
<1>4. CASE WorkerCommits
  BY <1>4, CommitEffect DEF WorkerCommits
<1>5. CASE \E p \in Trainers : Training(p)
  BY <1>5 DEF Training, Train, Open, Dump, labelVars, runVars, Effect, Same
<1>6. CASE Load
  BY <1>6 DEF Load, labelVars, runVars, Effect, Same
<1>7. CASE ApiLabels
  BY <1>7, LabelNextEffect DEF ApiLabels
<1>8. CASE ApiCommits
  BY <1>8, CommitEffect DEF ApiCommits
<1>9. CASE LoaderFetches
  BY <1>9 DEF LoaderFetches, FetchHistorical, labelVars, runVars, Effect, Same
<1>10. CASE LoaderGenerates
  BY <1>10 DEF LoaderGenerates, NewSignal, labelVars, runVars, Effect, Same
<1>11. CASE LoaderLabels
  BY <1>11, StartEffect DEF LoaderLabels, labelVars, runVars, Effect, Same
<1>12. CASE LoaderGivesUp
  BY <1>12 DEF LoaderGivesUp, runVars, Effect, Same
<1>13. CASE LoaderTrains
  BY <1>13 DEF LoaderTrains, labelVars, runVars, Effect, Same
<1>14. CASE WorkerFails
  BY <1>14, FailEffect DEF WorkerFails, runVars, Effect, Same
<1>15. CASE WorkerRestarts
  BY <1>15 DEF WorkerRestarts, Effect, GivesUp
<1>16. CASE ApiFails
  BY <1>16, FailEffect DEF ApiFails
<1>17. CASE ApiRestarts
  BY <1>17 DEF ApiRestarts, runVars, Effect, Same
<1>18. CASE \E p \in Trainers : SaveFails(p)
  BY <1>18 DEF SaveFails, runVars, Effect, Same
<1>19. QED
  BY <1>1, <1>2, <1>3, <1>4, <1>5, <1>6, <1>7, <1>8, <1>9, <1>10, <1>11, <1>12, <1>13,
     <1>14, <1>15, <1>16, <1>17, <1>18
     DEF Next, Worker, Api, Script, Trainers

LEMMA LabelInvInit == ASSUME Init PROVE LabelInv
BY DEF Init, LabelInit, LabelInv, Disjoint

\* Nothing that is inserted or committed is in two places.
LEMMA LabelInvStep == ASSUME LabelInv, Effect PROVE LabelInv'
<1>1. CASE Same
  BY <1>1 DEF Same, LabelInv, Disjoint
<1>2. ASSUME NEW r \in Runners, GivesUp(r) PROVE LabelInv'
  BY <1>2 DEF GivesUp, LabelInv, Disjoint
<1>3. ASSUME NEW r \in Runners, Inserts(r) PROVE LabelInv'
  BY <1>3 DEF Inserts, Inserted, LabelInv, Disjoint
<1>4. ASSUME NEW r \in Runners, Commits(r) PROVE LabelInv'
  BY <1>4 DEF Commits, LabelInv, Disjoint
<1>5. QED
  BY <1>1, <1>2, <1>3, <1>4 DEF Effect

\* A commit adds labels and changes none.
LEMMA LabelsStay ==
  ASSUME LabelInv, Effect, NEW i \in DOMAIN labels
  PROVE  i \in DOMAIN labels' /\ labels'[i] = labels[i]
BY DEF Effect, Same, GivesUp, Inserts, Commits, LabelInv, Disjoint

\* LabelsAreFinal holds in every behaviour: a label that is committed is never changed
\* or lost (ON CONFLICT DO NOTHING, labeler.py:128).
THEOREM LabelsAreFinalHolds == Spec => LabelsAreFinal
<1>1. LabelInv /\ [Next]_vars => LabelInv'
  BY StepEffect, LabelInvStep
<1>2. LabelInv /\ [Next]_vars =>
        [\A i \in DOMAIN labels : i \in DOMAIN labels' /\ labels'[i] = labels[i]]_labelVars
  BY StepEffect, LabelsStay
<1>3. QED
  BY LabelInvInit, <1>1, <1>2, PTL DEF Spec, LabelsAreFinal
-----------------------------------------------------------------------------
(* The model.                                                              *)

\* Unless two trainings have written at the same time, a file that is being written has
\* no second half, and one that is not has none or is one model.
Whole == file[2] = Empty \/ file[1] = file[2]
Writing(p) == stage[p] = "finish"

FileInv ==
  \/ "saves" \in overlaps
  \/ /\ loaded[1] = loaded[2]
     /\ ~(Saving("worker") /\ Saving("api"))
     /\ Whole
     /\ \A p \in Trainers : Writing(p) => file[1] = fitted[p] /\ file[2] = Empty

Pair(f) == f = <<f[1], f[2]>>

ModelInv ==
  /\ stage = [p \in Trainers |-> stage[p]]
  /\ fitted = [p \in Trainers |-> fitted[p]]
  /\ Pair(file)
  /\ FileInv

LEMMA ModelInvInit == ASSUME Init PROVE ModelInv
BY DEF Init, ModelInv, Pair, FileInv, Whole, Writing, Saving, Absent, Trainers

\* A training that begins to save while the other saves is an overlap; nothing else is
\* written before the first half is.
LEMMA TrainStep == ASSUME ModelInv, NEW p \in Trainers, Train(p) PROVE ModelInv'
<1>1. CASE Cardinality(Dataset) < MinSamples
  BY <1>1 DEF Train, Goto, Trained, ModelInv, Pair, FileInv, Whole, Writing, Saving, Trainers
<1>2. CASE ~(Cardinality(Dataset) < MinSamples)
  <2>1. "saves" \in overlaps => "saves" \in overlaps'
    BY <1>2 DEF Train, Overlapping
  <2>2. ASSUME NEW q \in Trainers \ {p}, Saving(q) PROVE "saves" \in overlaps'
    BY <1>2, <2>2 DEF Train, Overlapping
  <2>3. QED
    BY <1>2, <2>1, <2>2 DEF Train, ModelInv, Pair, FileInv, Whole, Writing, Saving, Trainers
<1>3. QED
  BY <1>1, <1>2

LEMMA OpenStep == ASSUME ModelInv, NEW p \in Trainers, Open(p) PROVE ModelInv'
BY DEF Open, Goto, history, ModelInv, Pair, FileInv, Whole, Writing, Saving, Trainers

\* The second half makes one model of the file.
LEMMA DumpStep == ASSUME ModelInv, NEW p \in Trainers, Dump(p) PROVE ModelInv'
<1>1. file' = <<file[1], fitted[p]>>
  BY DEF Dump, ModelInv, Pair
<1>2. Pair(file)' /\ file'[1] = file[1] /\ file'[2] = fitted[p]
  BY <1>1 DEF Pair
<1>3. CASE "saves" \in overlaps
  BY <1>2, <1>3 DEF Dump, Goto, history, ModelInv, FileInv
<1>4. CASE "saves" \notin overlaps
  <2>1. Whole'
    BY <1>2, <1>4 DEF Dump, ModelInv, FileInv, Whole, Writing
  <2>2. stage' = [stage EXCEPT ![p] = Trained(p)] /\ Trained(p) \notin {"save", "finish"}
    BY DEF Dump, Goto, Trained
  <2>3. \A q \in Trainers : ~Saving(q)'
    BY <1>4, <2>2 DEF Dump, ModelInv, FileInv, Saving, Trainers
  <2>4. QED
    BY <1>2, <1>4, <2>1, <2>3
       DEF Dump, Goto, history, ModelInv, FileInv, Writing, Saving, Trainers
<1>5. QED
  BY <1>3, <1>4

\* A save that fails leaves the file as it is: without its second half, if it was begun.
LEMMA SaveFailsStep == ASSUME ModelInv, NEW p \in Trainers, SaveFails(p) PROVE ModelInv'
BY DEF SaveFails, Goto, Trained, history, ModelInv, Pair, FileInv, Whole, Writing, Saving, Trainers

LEMMA LoadStep == ASSUME ModelInv, Load PROVE ModelInv'
BY DEF Load, Goto, Overlapping, scriptVars, ModelInv, Pair, FileInv, Whole, Writing, Saving, Trainers

\* The stage of one training changes to one in which it does not save, or not at all.
LEMMA LeaveStep ==
  ASSUME ModelInv, NEW p \in Trainers, NEW s \in {"idle", "train", "load"},
         Goto(p, s) \/ UNCHANGED <<stage, fitted>>,
         UNCHANGED <<file, overlaps>>, loaded' \in {loaded, Absent}
  PROVE  ModelInv'
BY DEF Goto, Absent, ModelInv, Pair, FileInv, Whole, Writing, Saving, Trainers

LEMMA ModelInvStep == ASSUME ModelInv, [Next]_vars PROVE ModelInv'
<1> USE DEF modelVars, history
<1> DEFINE Still == UNCHANGED <<stage, fitted, file, overlaps, loaded>>
<1>1. ASSUME Still PROVE ModelInv'
  BY <1>1 DEF ModelInv, Pair, FileInv, Whole, Writing, Saving
<1>2. CASE UNCHANGED vars
  BY <1>1, <1>2 DEF vars
<1>3. CASE World \/ WorkerLabels \/ ApiLabels \/ ApiCommits \/ ApiFails
  BY <1>1, <1>3 DEF World, WorkerLabels, ApiLabels, ApiCommits, ApiFails
<1>4. CASE LoaderFetches \/ LoaderGenerates \/ LoaderLabels \/ LoaderGivesUp
  BY <1>1, <1>4 DEF LoaderFetches, LoaderGenerates, LoaderLabels, LoaderGivesUp
<1>5. CASE WorkerCommits
  BY <1>5, LeaveStep DEF WorkerCommits, Trainers
<1>6. CASE \E p \in Trainers : Training(p)
  BY <1>6, TrainStep, OpenStep, DumpStep DEF Training
<1>7. CASE Load
  BY <1>7, LoadStep
<1>8. CASE WorkerFails \/ WorkerRestarts
  BY <1>1, <1>8, LeaveStep DEF WorkerFails, WorkerRestarts, Trainers
<1>9. CASE LoaderTrains \/ ApiRestarts
  BY <1>9, LeaveStep DEF LoaderTrains, ApiRestarts, Trainers
<1>10. CASE \E p \in Trainers : SaveFails(p)
  BY <1>10, SaveFailsStep
<1>11. QED
  BY <1>2, <1>3, <1>4, <1>5, <1>6, <1>7, <1>8, <1>9, <1>10
     DEF Next, Worker, Api, Script, Trainers

\* LoadedIsOneModel holds in every behaviour: whatever fails, restarts or is reloaded
\* while the file is written in place (trainer.py:78), a model that is loaded is one
\* that was fitted, but for trainings that write at the same time.
THEOREM LoadedIsOneModelHolds == Spec => []LoadedIsOneModel
<1>1. ModelInv => LoadedIsOneModel
  BY DEF ModelInv, FileInv, LoadedIsOneModel
<1>2. QED
  BY ModelInvInit, ModelInvStep, <1>1, PTL DEF Spec
-----------------------------------------------------------------------------
(* What the models know.                                                   *)

\* Lists, insertions and labels are of signals that exist.
KnownInv ==
  /\ bars \in Seq(BarKinds \cup {Missing})
  /\ signals \in Seq([time : Nat, symbol : {"traded", "left_out", "ended"}])
  /\ todo = [r \in Runners |-> todo[r]]
  /\ mine = [r \in Runners |-> mine[r]]
  /\ DOMAIN labels \subseteq Ids
  /\ \A r \in Runners : todo[r] \subseteq Ids /\ DOMAIN mine[r] \subseteq Ids

LEMMA KnownInvInit == ASSUME Init PROVE KnownInv
BY DEF Init, LabelInit, KnownInv, Ids

\* A signal stays what it is; signals and bars are appended.
LEMMA WorldKnown ==
  ASSUME KnownInv, UNCHANGED <<labels, runVars>>,
         \/ NewBar \/ MissBar
         \/ \E t \in Missed : FetchHistorical(t)
         \/ \E t \in 0 .. Len(bars) : NewSignal(t)
  PROVE  KnownInv' /\ \A i \in Ids : signals'[i] = signals[i]
<1>1. CASE \E t \in 0 .. Len(bars) : NewSignal(t)
  <2>1. PICK t \in 0 .. Len(bars) : NewSignal(t)
    BY <1>1
  <2>2. PICK s \in Symbols[Len(signals) + 1] :
          signals' = Append(signals, [time |-> t, symbol |-> s])
    BY <2>1 DEF NewSignal
  <2>3. t \in Nat /\ Len(signals) \in Nat
    BY DEF KnownInv
  <2>4. Len(signals) + 1 \in 1 .. MaxSignals
    BY <2>1, <2>3, LabelingConstants DEF NewSignal
  <2>5. s \in {"traded", "left_out", "ended"}
    <3>1. Symbols[Len(signals) + 1] \in SUBSET {"traded", "left_out", "ended"}
      BY <2>4, LabelingConstants
    <3>. QED BY <2>2, <3>1
  <2>6. /\ signals' \in Seq([time : Nat, symbol : {"traded", "left_out", "ended"}])
        /\ Len(signals') = Len(signals) + 1
        /\ \A i \in 1 .. Len(signals) : signals'[i] = signals[i]
    <3>1. signals \in Seq([time : Nat, symbol : {"traded", "left_out", "ended"}])
      BY DEF KnownInv
    <3>2. [time |-> t, symbol |-> s] \in [time : Nat, symbol : {"traded", "left_out", "ended"}]
      BY <2>3, <2>5
    <3>. QED BY <2>2, <3>1, <3>2, AppendProperties
  <2>7. QED
    BY <2>1, <2>3, <2>6 DEF NewSignal, runVars, KnownInv, Ids
<1>2. CASE NewBar \/ MissBar
  <2>1. PICK b \in BarKinds \cup {Missing} : bars' = Append(bars, b)
    BY <1>2 DEF NewBar, MissBar
  <2>2. bars' \in Seq(BarKinds \cup {Missing})
    BY <2>1, AppendProperties DEF KnownInv
  <2>3. signals' = signals
    BY <1>2 DEF NewBar, MissBar
  <2>4. QED
    BY <2>2, <2>3 DEF runVars, KnownInv, Ids
<1>3. CASE \E t \in Missed : FetchHistorical(t)
  <2>1. PICK t \in Missed, b \in BarKinds : bars' = [bars EXCEPT ![t] = b]
    BY <1>3 DEF FetchHistorical
  <2>2. bars' \in Seq(BarKinds \cup {Missing})
    <3>1. b \in BarKinds \cup {Missing} /\ t \in 1 .. Len(bars)
      BY <2>1 DEF KnownInv, Missed
    <3>2. QED
      BY <2>1, <3>1, ExceptSeq DEF KnownInv
  <2>3. QED
    BY <1>3, <2>2 DEF FetchHistorical, runVars, KnownInv, Ids
<1>4. QED
  BY <1>1, <1>2, <1>3

\* A run lists, inserts and commits signals that exist.
LEMMA StartKnown ==
  ASSUME KnownInv, NEW r \in Runners, Start(r) PROVE KnownInv' /\ UNCHANGED signals
<1>1. Batch \subseteq Ids
  BY DEF Batch, Unlabeled
<1>2. QED
  BY <1>1 DEF Start, world, KnownInv, Ids

LEMMA LabelNextKnown ==
  ASSUME KnownInv, NEW r \in Runners, LabelNext(r) PROVE KnownInv' /\ UNCHANGED signals
<1>1. PICK i \in First(r) :
        /\ Skip(i) \/ Conflict(r, i) \/ (i \notin DOMAIN labels /\ Insert(r, i))
        /\ todo' = [todo EXCEPT ![r] = @ \ {i}]
  BY DEF LabelNext
<1>2. i \in Ids
  BY DEF First, KnownInv
<1>3. UNCHANGED <<bars, signals, labels>>
  BY DEF LabelNext, world
<1>4. CASE UNCHANGED mine
  BY <1>1, <1>3, <1>4 DEF KnownInv, Ids
<1>5. CASE Insert(r, i)
  <2>1. DOMAIN Inserted(mine[r], i, LabelSignal(Directions[i], Forward(i)))
          = DOMAIN mine[r] \cup {i}
    BY DEF Inserted
  <2>2. QED
    BY <1>1, <1>2, <1>3, <1>5, <2>1 DEF Insert, KnownInv, Ids
<1>6. QED
  BY <1>1, <1>4, <1>5 DEF Skip, Conflict

LEMMA FinishKnown ==
  ASSUME KnownInv, NEW r \in Runners, UNCHANGED world,
         todo' = [todo EXCEPT ![r] = {}], mine' = [mine EXCEPT ![r] = <<>>],
         DOMAIN labels' \subseteq DOMAIN labels \cup DOMAIN mine[r]
  PROVE  KnownInv' /\ UNCHANGED signals
<1>1. UNCHANGED <<bars, signals>>
  BY DEF world
<1>2. DOMAIN labels' \subseteq Ids
  BY DEF KnownInv
<1>3. DOMAIN <<>> = {}
  OBVIOUS
<1>4. \A q \in Runners : todo'[q] \subseteq Ids /\ DOMAIN mine'[q] \subseteq Ids
  BY <1>3 DEF KnownInv
<1>5. todo' = [q \in Runners |-> todo'[q]] /\ mine' = [q \in Runners |-> mine'[q]]
  BY DEF KnownInv
<1>6. QED
  BY <1>1, <1>2, <1>4, <1>5 DEF KnownInv, Ids

LEMMA CommitKnown ==
  ASSUME KnownInv, NEW r \in Runners, Commit(r) PROVE KnownInv' /\ UNCHANGED signals
BY FinishKnown DEF Commit, Finish

LEMMA FailKnown ==
  ASSUME KnownInv, NEW r \in Runners, Fail(r) PROVE KnownInv' /\ UNCHANGED signals
BY FinishKnown DEF Fail, Finish

LEMMA KnownStep ==
  ASSUME KnownInv, [Next]_vars PROVE KnownInv' /\ \A i \in Ids : signals'[i] = signals[i]
<1> USE Members
<1>1. ASSUME UNCHANGED <<world, labels, runVars>>
      PROVE  KnownInv' /\ \A i \in Ids : signals'[i] = signals[i]
  BY <1>1 DEF world, runVars, KnownInv, Ids
<1>2. ASSUME UNCHANGED labelVars PROVE UNCHANGED <<world, labels, runVars>>
  BY <1>2 DEF labelVars
<1>3. CASE UNCHANGED vars
  BY <1>1, <1>2, <1>3 DEF vars
<1>4. CASE World
  <2>1. UNCHANGED <<labels, runVars>>
    BY <1>4 DEF World, NewBar, MissBar, NewSignal
  <2>2. Len(bars) \in 0 .. Len(bars)
    BY DEF KnownInv
  <2>3. QED
    BY <1>4, <2>1, <2>2, WorldKnown DEF World
<1>5. CASE LoaderFetches \/ LoaderGenerates
  <2>1. CASE UNCHANGED labelVars
    BY <1>1, <1>2, <2>1
  <2>2. CASE \E t \in Missed : FetchHistorical(t)
    BY <2>2, WorldKnown DEF FetchHistorical
  <2>3. CASE \E t \in 0 .. Len(bars) : NewSignal(t)
    BY <2>3, WorldKnown DEF NewSignal
  <2>4. QED
    BY <1>5, <2>1, <2>2, <2>3 DEF LoaderFetches, LoaderGenerates
<1>6. CASE WorkerLabels \/ ApiLabels
  BY <1>6, StartKnown, LabelNextKnown DEF WorkerLabels, ApiLabels
<1>7. CASE WorkerCommits \/ ApiCommits
  BY <1>7, CommitKnown DEF WorkerCommits, ApiCommits
<1>8. CASE \E p \in Trainers : Training(p)
  BY <1>1, <1>2, <1>8 DEF Training, Train, Open, Dump
<1>9. CASE Load \/ LoaderTrains
  BY <1>1, <1>2, <1>9 DEF Load, LoaderTrains
<1>10. CASE LoaderLabels
  BY <1>1, <1>2, <1>10, StartKnown DEF LoaderLabels
<1>11. CASE LoaderGivesUp \/ ApiRestarts \/ \E p \in Trainers : SaveFails(p)
  BY <1>1, <1>11 DEF LoaderGivesUp, ApiRestarts, SaveFails
<1>12. CASE WorkerFails \/ ApiFails
  BY <1>1, <1>12, FailKnown DEF WorkerFails, ApiFails
<1>13. CASE WorkerRestarts
  BY <1>13, FinishKnown DEF WorkerRestarts
<1>14. QED
  BY <1>3, <1>4, <1>5, <1>6, <1>7, <1>8, <1>9, <1>10, <1>11, <1>12, <1>13
     DEF Next, Worker, Api, Script, Trainers

\* What can be learned only grows: labels stay, and their signals are what they were.
LEMMA DatasetGrows ==
  ASSUME LabelInv, KnownInv, [Next]_vars PROVE Dataset \subseteq Dataset'
<1>1. \A i \in DOMAIN labels : i \in DOMAIN labels'
  BY StepEffect, LabelsStay
<1>2. \A i \in DOMAIN labels : signals'[i] = signals[i]
  BY KnownStep DEF KnownInv
<1>3. QED
  BY <1>1, <1>2 DEF Dataset
-----------------------------------------------------------------------------
(* Nothing is forgotten: what is in memory is in the file, what is in the  *)
(* file is in what is being saved, and that is among the labels.           *)

Halves == {1, 2}
Remembers(m) == loaded[1] # Empty => \A h \in Halves : loaded[h] \subseteq m

LearnedInv ==
  \/ "saves" \in overlaps
  \/ /\ Remembers(Dataset)
     /\ \A h \in Halves : file[h] # Empty =>
          /\ file[h] \subseteq Dataset
          /\ loaded[1] # Empty => loaded[h] \subseteq file[h]
     /\ \A p \in Trainers : Saving(p) =>
          /\ fitted[p] \subseteq Dataset
          /\ \A h \in Halves : file[h] # Empty => file[h] \subseteq fitted[p]
          /\ Remembers(fitted[p])

LEMMA LearnedInvInit == ASSUME Init PROVE LearnedInv
BY DEF Init, LearnedInv, Remembers, Halves, Saving, Absent, Trainers

LEMMA TrainLearned ==
  ASSUME ModelInv, LearnedInv, NEW p \in Trainers, Train(p), Dataset \subseteq Dataset'
  PROVE  LearnedInv'
<1>1. UNCHANGED <<file, loaded>>
  BY DEF Train
<1>2. CASE Cardinality(Dataset) < MinSamples
  BY <1>1, <1>2
     DEF Train, Goto, Trained, ModelInv, LearnedInv, Remembers, Saving, Trainers
<1>3. CASE ~(Cardinality(Dataset) < MinSamples)
  <2>1. "saves" \in overlaps => "saves" \in overlaps'
    BY <1>3 DEF Train, Overlapping
  <2>2. ASSUME NEW q \in Trainers \ {p}, Saving(q) PROVE "saves" \in overlaps'
    BY <1>3, <2>2 DEF Train, Overlapping
  <2>3. /\ stage' = [stage EXCEPT ![p] = "save"]
        /\ fitted' = [fitted EXCEPT ![p] = Dataset]
    BY <1>3 DEF Train
  <2>4. ASSUME "saves" \notin overlaps', NEW q \in Trainers, Saving(q)'
        PROVE  q = p /\ fitted'[q] = Dataset
    BY <2>2, <2>3, <2>4 DEF ModelInv, Saving
  <2>5. QED
    BY <1>1, <2>1, <2>4 DEF LearnedInv, Remembers, Halves
<1>4. QED
  BY <1>2, <1>3

LEMMA OpenLearned ==
  ASSUME ModelInv, LearnedInv, NEW p \in Trainers, Open(p), Dataset \subseteq Dataset'
  PROVE  LearnedInv'
<1>1. /\ file' = <<fitted[p], Empty>>
      /\ stage' = [stage EXCEPT ![p] = "finish"]
      /\ UNCHANGED <<loaded, overlaps>>
      /\ Saving(p)
  BY DEF Open, Goto, history, Saving
<1>2. fitted' = fitted
  BY DEF Open, Goto, ModelInv
<1>3. ASSUME "saves" \notin overlaps, NEW q \in Trainers, Saving(q)' PROVE q = p
  BY <1>1, <1>3 DEF ModelInv, FileInv, Saving, Trainers
<1>4. QED
  BY <1>1, <1>2, <1>3 DEF LearnedInv, Remembers, Halves

LEMMA DumpLearned ==
  ASSUME ModelInv, LearnedInv, NEW p \in Trainers, Dump(p), Dataset \subseteq Dataset'
  PROVE  LearnedInv'
<1>1. /\ file' = <<file[1], fitted[p]>>
      /\ UNCHANGED <<loaded, overlaps>>
      /\ Saving(p)
  BY DEF Dump, history, Saving, ModelInv, Pair
<1>2. stage' = [stage EXCEPT ![p] = Trained(p)] /\ Trained(p) \notin {"save", "finish"}
  BY DEF Dump, Goto, Trained
<1>3. ASSUME "saves" \notin overlaps, NEW q \in Trainers PROVE ~Saving(q)'
  BY <1>1, <1>2, <1>3 DEF ModelInv, FileInv, Saving, Trainers
<1>4. QED
  BY <1>1, <1>3 DEF LearnedInv, Remembers, Halves

LEMMA LoadLearned ==
  ASSUME ModelInv, LearnedInv, Load, Dataset \subseteq Dataset' PROVE LearnedInv'
<1>1. /\ UNCHANGED file
      /\ \/ Empty \notin {file[1], file[2]} /\ loaded' = file
         \/ UNCHANGED loaded
      /\ "saves" \in overlaps => "saves" \in overlaps'
      /\ "saves" \in overlaps' => "saves" \in overlaps
  BY DEF Load, Overlapping
<1>2. \A p \in Trainers : Saving(p)' => Saving(p) /\ fitted'[p] = fitted[p]
  BY DEF Load, Goto, ModelInv, Saving, Trainers
<1>3. CASE UNCHANGED loaded
  BY <1>1, <1>2, <1>3 DEF LearnedInv, Remembers, Halves
<1>4. CASE Empty \notin {file[1], file[2]} /\ loaded' = file
  BY <1>1, <1>2, <1>4 DEF LearnedInv, Remembers, Halves
<1>5. QED
  BY <1>1, <1>3, <1>4

\* Steps that leave the file, and save nothing that was not being saved.
LEMMA OtherLearned ==
  ASSUME LearnedInv, UNCHANGED <<file, overlaps>>, loaded' \in {loaded, Absent},
         \A p \in Trainers : Saving(p)' => Saving(p) /\ fitted'[p] = fitted[p],
         Dataset \subseteq Dataset'
  PROVE  LearnedInv'
<1>1. CASE UNCHANGED loaded
  BY <1>1 DEF LearnedInv, Remembers, Halves
<1>2. CASE loaded' = Absent
  <2>1. loaded'[1] = Empty
    BY <1>2 DEF Absent
  <2>2. QED
    BY <2>1 DEF LearnedInv, Remembers, Halves
<1>3. QED
  BY <1>1, <1>2

LEMMA LearnedInvStep ==
  ASSUME ModelInv, LearnedInv, [Next]_vars, Dataset \subseteq Dataset' PROVE LearnedInv'
<1> USE DEF modelVars, history
<1>1. CASE \E p \in Trainers : Training(p)
  BY <1>1, TrainLearned, OpenLearned, DumpLearned DEF Training
<1>2. CASE Load
  BY <1>2, LoadLearned
<1>3. ASSUME UNCHANGED modelVars, UNCHANGED overlaps PROVE LearnedInv'
  BY <1>3, OtherLearned DEF Saving
<1>4. ASSUME NEW p \in Trainers, NEW s \in {"idle", "train", "load"}, Goto(p, s),
             UNCHANGED <<file, overlaps>>, loaded' \in {loaded, Absent}
      PROVE  LearnedInv'
  <2>1. \A q \in Trainers : Saving(q)' => Saving(q) /\ fitted'[q] = fitted[q]
    BY <1>4 DEF Goto, ModelInv, Saving
  <2>2. QED
    BY <1>4, <2>1, OtherLearned
<1>5. CASE UNCHANGED vars
  BY <1>3, <1>5 DEF vars
<1>6. CASE World \/ WorkerLabels \/ ApiLabels \/ ApiCommits \/ ApiFails
  BY <1>3, <1>6 DEF World, WorkerLabels, ApiLabels, ApiCommits, ApiFails
<1>7. CASE LoaderFetches \/ LoaderGenerates \/ LoaderLabels \/ LoaderGivesUp
  BY <1>3, <1>7 DEF LoaderFetches, LoaderGenerates, LoaderLabels, LoaderGivesUp
<1>8. CASE WorkerCommits \/ WorkerFails \/ WorkerRestarts
  BY <1>3, <1>4, <1>8 DEF WorkerCommits, WorkerFails, WorkerRestarts, Trainers
<1>9. CASE LoaderTrains \/ ApiRestarts
  BY <1>4, <1>9 DEF LoaderTrains, ApiRestarts, Trainers
<1>10. CASE \E p \in Trainers : SaveFails(p)
  BY <1>4, <1>10 DEF SaveFails, Trained
<1>11. QED
  BY <1>1, <1>2, <1>5, <1>6, <1>7, <1>8, <1>9, <1>10
     DEF Next, Worker, Api, Script, Trainers

Forgets ==
  ~(loaded[1] = Empty \/ "saves" \in overlaps' \/ WorkerRestarts
      \/ \A h \in {1, 2} : loaded'[h] # Empty /\ loaded[h] \subseteq loaded'[h])

\* Only a load changes the model, to what is in the file; a restart is excepted.
LEMMA NothingIsForgotten ==
  ASSUME ModelInv, LearnedInv, [Next]_vars PROVE ~Forgets
<1> USE DEF modelVars, history
<1>1. CASE UNCHANGED loaded /\ UNCHANGED overlaps
  BY <1>1 DEF Forgets, ModelInv, FileInv
<1>2. CASE \E p \in Trainers : Training(p)
  BY <1>1, <1>2 DEF Training, Train, Open, Dump, Overlapping, Forgets, ModelInv, FileInv
<1>3. CASE Load
  BY <1>1, <1>3 DEF Load, Overlapping, Forgets, LearnedInv, ModelInv, FileInv, Halves
<1>4. CASE UNCHANGED vars
  BY <1>1, <1>4 DEF vars
<1>5. CASE World \/ WorkerLabels \/ ApiLabels \/ ApiCommits \/ ApiFails
  BY <1>1, <1>5 DEF World, WorkerLabels, ApiLabels, ApiCommits, ApiFails
<1>6. CASE LoaderFetches \/ LoaderGenerates \/ LoaderLabels \/ LoaderGivesUp
  BY <1>1, <1>6 DEF LoaderFetches, LoaderGenerates, LoaderLabels, LoaderGivesUp
<1>7. CASE WorkerCommits \/ WorkerFails
  BY <1>1, <1>7 DEF WorkerCommits, WorkerFails
<1>8. CASE LoaderTrains \/ ApiRestarts \/ \E p \in Trainers : SaveFails(p)
  BY <1>1, <1>8 DEF LoaderTrains, ApiRestarts, SaveFails
<1>9. CASE WorkerRestarts
  BY <1>9 DEF Forgets
<1>10. QED
  BY <1>2, <1>3, <1>4, <1>5, <1>6, <1>7, <1>8, <1>9
     DEF Next, Worker, Api, Script, Trainers

\* NothingForgotten holds in every behaviour: a reload (loop.py:194) never replaces the
\* model by one that knows less, and a file that cannot be read never takes it away.
THEOREM NothingForgottenHolds == Spec => NothingForgotten
<1> DEFINE All == LabelInv /\ KnownInv /\ ModelInv /\ LearnedInv
<1>1. Init => All
  BY LabelInvInit, KnownInvInit, ModelInvInit, LearnedInvInit
<1>2. All /\ [Next]_vars => All'
  BY StepEffect, LabelInvStep, KnownStep, DatasetGrows, ModelInvStep, LearnedInvStep
<1>3. All /\ [Next]_vars =>
        [loaded[1] = Empty \/ "saves" \in overlaps' \/ WorkerRestarts
           \/ \A h \in {1, 2} : loaded'[h] # Empty /\ loaded[h] \subseteq loaded'[h]]_vars
  BY NothingIsForgotten DEF Forgets
<1>4. QED
  BY <1>1, <1>2, <1>3, PTL DEF Spec, NothingForgotten
-----------------------------------------------------------------------------
(* A training reaches the decisions.                                       *)

\* Where the samples of the last labeling are: among those to train on, in the model that
\* is saved, in the file that nobody writes, in the memory.
Progressed ==
  /\ stage["worker"] = "train" => due \subseteq Dataset
  /\ Saving("worker") => due \subseteq fitted["worker"] /\ fitted["worker"] # Empty
  /\ stage["worker"] = "load" => /\ ~Saving("api") /\ file[1] = file[2] /\ file[1] # Empty
                                 /\ due \subseteq file[1]
  /\ stage["worker"] = "idle" => due \subseteq loaded[1] \cap loaded[2]

Excused == faults > 0 \/ overlaps # {} \/ Cardinality(due) < MinSamples

ReachInv ==
  /\ faults \in Nat
  /\ stage["worker"] \in {"idle", "train", "save", "finish", "load"}
  /\ Excused \/ Progressed

LEMMA ReachInit == ASSUME Init PROVE ReachInv
<1>1. Cardinality(due) < MinSamples
  BY LearningConstants, FS_EmptySet DEF Init
<1>. QED BY <1>1 DEF Init, LabelInit, ReachInv, Excused, Trainers

LEMMA DatasetFinite ==
  ASSUME KnownInv PROVE IsFiniteSet(Dataset) /\ Dataset # Empty
<1>1. Dataset \in SUBSET Ids /\ Len(signals) \in Nat
  BY DEF Dataset, KnownInv
<1>2. IsFiniteSet(Ids)
  BY <1>1, FS_Interval DEF Ids
<1>3. 0 \notin Dataset
  BY <1>1 DEF Ids
<1>. QED BY <1>1, <1>2, <1>3, FS_Subset DEF Empty

LEMMA FaultsGrow == ASSUME [Next]_vars PROVE faults' = faults \/ faults' = faults + 1
<1> USE DEF labelVars, world, runVars
<1>1. ASSUME NEW r, Start(r) \/ LabelNext(r) \/ Commit(r) PROVE faults' = faults
  BY <1>1 DEF Start, LabelNext, Commit, Skip, Conflict, Insert
<1>2. CASE World \/ LoaderFetches \/ LoaderGenerates
  BY <1>2 DEF World, NewBar, MissBar, NewSignal, LoaderFetches, FetchHistorical, LoaderGenerates
<1>3. CASE WorkerLabels \/ WorkerCommits \/ ApiLabels \/ ApiCommits \/ LoaderLabels
  BY <1>1, <1>3 DEF WorkerLabels, WorkerCommits, ApiLabels, ApiCommits, LoaderLabels
<1>4. CASE (\E p \in Trainers : Training(p)) \/ Load \/ LoaderTrains
  BY <1>4 DEF Training, Train, Open, Dump, Load, LoaderTrains
<1>5. CASE WorkerFails \/ WorkerRestarts \/ ApiFails \/ ApiRestarts \/ LoaderGivesUp
             \/ \E p \in Trainers : SaveFails(p)
  BY <1>5 DEF WorkerFails, WorkerRestarts, ApiFails, ApiRestarts, LoaderGivesUp, SaveFails, Fail
<1>6. CASE UNCHANGED vars
  BY <1>6 DEF vars
<1>. QED
  BY <1>2, <1>3, <1>4, <1>5, <1>6 DEF Next, Worker, Api, Script, Trainers

\* The stage of the worker, and what excuses it.
LEMMA StagesKnown ==
  ASSUME ModelInv, ReachInv, [Next]_vars
  PROVE  /\ stage'["worker"] \in {"idle", "train", "save", "finish", "load"}
         /\ overlaps # {} => overlaps' # {}
<1> USE DEF modelVars, history
<1>1. CASE UNCHANGED <<stage, overlaps>>
  BY <1>1 DEF ReachInv
<1>2. CASE \E p \in Trainers : Training(p)
  BY <1>2 DEF Training, Train, Open, Dump, Goto, Trained, Overlapping, ReachInv, ModelInv,
              Trainers
<1>3. CASE Load
  BY <1>3 DEF Load, Goto, Overlapping, ReachInv, ModelInv, Trainers
<1>4. CASE WorkerCommits \/ WorkerFails \/ WorkerRestarts \/ ApiRestarts \/ LoaderTrains
             \/ \E p \in Trainers : SaveFails(p)
  BY <1>4 DEF WorkerCommits, WorkerFails, WorkerRestarts, ApiRestarts, LoaderTrains,
              SaveFails, Goto, Trained, ReachInv, ModelInv, Trainers
<1>. QED
  BY <1>1, <1>2, <1>3, <1>4
     DEF Next, vars, World, Worker, WorkerLabels, Api, ApiLabels, ApiCommits, ApiFails,
         Script, LoaderFetches, LoaderGenerates, LoaderLabels, LoaderGivesUp, Trainers

LEMMA TrainProgress ==
  ASSUME ModelInv, KnownInv, Progressed, NEW p \in Trainers, Train(p),
         Dataset \subseteq Dataset', overlaps' = {}
  PROVE  Cardinality(due)' < MinSamples \/ Progressed'
<1>1. UNCHANGED <<file, loaded, due>> /\ stage[p] = "train"
  BY DEF Train
<1>2. CASE p = "worker"
  <2>1. due \subseteq Dataset
    BY <1>1, <1>2 DEF Progressed
  <2>2. CASE Cardinality(Dataset) < MinSamples
    <3>1. /\ due \in SUBSET Dataset /\ IsFiniteSet(Dataset) /\ IsFiniteSet(due)
          /\ Cardinality(due) <= Cardinality(Dataset)
      BY <2>1, DatasetFinite, FS_Subset
    <3>2. Cardinality(due) < MinSamples
      BY <2>2, <3>1, FS_CardinalityType, LearningConstants
    <3>. QED BY <1>1, <3>2
  <2>3. CASE ~(Cardinality(Dataset) < MinSamples)
    <3>1. /\ stage' = [stage EXCEPT !["worker"] = "save"]
          /\ fitted' = [fitted EXCEPT !["worker"] = Dataset]
      BY <1>2, <2>3 DEF Train
    <3>2. stage'["worker"] = "save" /\ fitted'["worker"] = Dataset
      BY <3>1 DEF ModelInv, Trainers
    <3>. QED BY <1>1, <2>1, <3>2, DatasetFinite DEF Progressed, Saving
  <2>. QED BY <2>2, <2>3
<1>3. CASE p = "api"
  <2>1. /\ stage'["worker"] = stage["worker"] /\ fitted'["worker"] = fitted["worker"]
        /\ stage["worker"] = "load" => ~Saving("api")'
    <3>1. CASE Cardinality(Dataset) < MinSamples
      BY <1>3, <3>1 DEF Train, Goto, Trained, ModelInv, Saving, Trainers
    <3>2. CASE ~(Cardinality(Dataset) < MinSamples)
      <4>1. ASSUME stage["worker"] = "load" PROVE FALSE
        <5>1. "load" \in overlaps'
          BY <1>3, <3>2, <4>1 DEF Train, Overlapping, Trainers
        <5>. QED BY <5>1
      <4>. QED BY <1>3, <3>2, <4>1 DEF Train, ModelInv, Trainers
    <3>. QED BY <3>1, <3>2
  <2>. QED BY <1>1, <2>1 DEF Progressed, Saving
<1>. QED BY <1>2, <1>3 DEF Trainers

LEMMA WriteProgress ==
  ASSUME ModelInv, Progressed, NEW p \in Trainers, Open(p) \/ Dump(p),
         Dataset \subseteq Dataset', overlaps = {}
  PROVE  Progressed'
<1>1. UNCHANGED <<loaded, due>> /\ Saving(p)
  BY DEF Open, Dump, history, Saving
<1>2. CASE p = "worker" /\ Open(p)
  <2>1. stage'["worker"] = "finish" /\ fitted'["worker"] = fitted["worker"]
    BY <1>2 DEF Open, Goto, ModelInv, Trainers
  <2>. QED BY <1>1, <1>2, <2>1 DEF Progressed, Saving
<1>3. CASE p = "worker" /\ Dump(p)
  <2>1. stage'["worker"] = "load" /\ stage'["api"] = stage["api"]
    BY <1>3 DEF Dump, Goto, Trained, ModelInv, Trainers
  <2>2. file' = <<file[1], fitted["worker"]>> /\ file[1] = fitted["worker"] /\ ~Saving("api")
    BY <1>1, <1>3 DEF Dump, ModelInv, Pair, FileInv, Writing, Trainers
  <2>. QED BY <1>1, <1>3, <2>1, <2>2 DEF Progressed, Saving
<1>4. CASE p = "api"
  <2>1. /\ stage'["worker"] = stage["worker"] /\ stage["worker"] # "load"
        /\ ~Saving("worker")
    BY <1>1, <1>4 DEF Open, Dump, Goto, Trained, ModelInv, FileInv, Progressed, Trainers
  <2>. QED BY <1>1, <2>1 DEF Progressed, Saving
<1>. QED BY <1>2, <1>3, <1>4 DEF Trainers

LEMMA LoadProgress == ASSUME ModelInv, Progressed, Load PROVE Progressed'
<1>1. /\ stage["worker"] = "load" /\ stage'["worker"] = "idle"
      /\ loaded' = file /\ UNCHANGED due
  BY DEF Load, Goto, ModelInv, Trainers, Progressed
<1>. QED BY <1>1 DEF Progressed, Saving

\* What leaves the worker's training, the file and the memory alone, and saves nothing.
LEMMA OtherProgress ==
  ASSUME Progressed, Dataset \subseteq Dataset', UNCHANGED <<file, loaded, due>>,
         stage'["worker"] = stage["worker"], fitted'["worker"] = fitted["worker"],
         Saving("api")' => Saving("api")
  PROVE  Progressed'
BY DEF Progressed, Saving

LEMMA ReachStep ==
  ASSUME ModelInv, KnownInv, ReachInv, [Next]_vars, Dataset \subseteq Dataset'
  PROVE  ReachInv'
<1> USE DEF modelVars, history
<1>1. /\ faults' \in Nat /\ (faults > 0 => faults' > 0)
      /\ overlaps # {} => overlaps' # {}
      /\ stage'["worker"] \in {"idle", "train", "save", "finish", "load"}
      /\ faults' = 0 => faults' = faults
  BY FaultsGrow, StagesKnown DEF ReachInv
<1>2. SUFFICES ASSUME faults' = 0, faults = 0, overlaps = {}, overlaps' = {},
                      ~(Cardinality(due)' < MinSamples)
               PROVE  Progressed'
  BY <1>1 DEF ReachInv, Excused
<1>3. CASE WorkerCommits
  <2>1. CASE stage' = [stage EXCEPT !["worker"] = "train"] /\ due' = Dataset'
    <3>1. stage'["worker"] = "train"
      BY <2>1 DEF ModelInv, Trainers
    <3>. QED BY <2>1, <3>1 DEF Progressed, Saving
  <2>2. CASE UNCHANGED <<stage, fitted, due>>
    <3>1. Progressed
      BY <1>2, <2>2 DEF ReachInv, Excused
    <3>. QED BY <1>3, <2>2, <3>1, OtherProgress DEF WorkerCommits, Saving
  <2>. QED BY <1>3, <2>1, <2>2 DEF WorkerCommits, Goto
<1>4. CASE UNCHANGED due
  <2>1. Progressed
    BY <1>2, <1>4 DEF ReachInv, Excused
  <2>2. CASE \E p \in Trainers : Training(p)
    BY <1>2, <2>1, <2>2, TrainProgress, WriteProgress DEF Training
  <2>3. CASE Load
    BY <2>1, <2>3, LoadProgress
  <2>4. CASE UNCHANGED modelVars
    BY <1>4, <2>1, <2>4, OtherProgress DEF Saving
  <2>5. CASE LoaderTrains
    <3>1. /\ stage'["worker"] = stage["worker"] /\ fitted'["worker"] = fitted["worker"]
          /\ ~Saving("api")' /\ UNCHANGED <<file, loaded>>
      BY <2>5 DEF LoaderTrains, Goto, ModelInv, Saving, Trainers
    <3>. QED BY <1>4, <2>1, <3>1, OtherProgress
  <2>6. CASE WorkerFails \/ WorkerRestarts \/ ApiRestarts \/ \E p \in Trainers : SaveFails(p)
    <3>1. faults' = faults + 1
      BY <2>6 DEF WorkerFails, Fail, WorkerRestarts, ApiRestarts, SaveFails
    <3>. QED BY <1>2, <3>1
  <2>7. CASE WorkerCommits
    BY <1>3, <2>7
  <2>. QED
    BY <2>2, <2>3, <2>4, <2>5, <2>6, <2>7
       DEF Next, vars, World, Worker, WorkerLabels, Api, ApiLabels, ApiCommits, ApiFails,
           Script, LoaderFetches, LoaderGenerates, LoaderLabels, LoaderGivesUp, Trainers
<1>5. UNCHANGED due \/ WorkerCommits
  BY DEF Next, vars, World, Worker, WorkerLabels, Training, Train, Open, Dump, Load, Api,
         ApiLabels, ApiCommits, ApiFails, Script, LoaderFetches, LoaderGenerates,
         LoaderLabels, LoaderGivesUp, LoaderTrains, WorkerFails, WorkerRestarts,
         ApiRestarts, SaveFails, Trainers
<1>. QED BY <1>3, <1>4, <1>5

\* RetrainReaches holds in every behaviour: unless something fails or the other container
\* uses the file at the same time, a training that the worker starts ends with a model
\* that knows all labels there were (loop.py:194).
THEOREM RetrainReachesHolds == Spec => []RetrainReaches
<1> DEFINE All == LabelInv /\ KnownInv /\ ModelInv /\ ReachInv
<1>1. Init => All
  BY LabelInvInit, KnownInvInit, ModelInvInit, ReachInit
<1>2. All /\ [Next]_vars => All'
  BY StepEffect, LabelInvStep, KnownStep, DatasetGrows, ModelInvStep, ReachStep
<1>3. All => RetrainReaches
  BY DEF ReachInv, Excused, Progressed, RetrainReaches
<1>4. QED
  BY <1>1, <1>2, <1>3, PTL DEF Spec
-----------------------------------------------------------------------------
(* The bars after a signal.                                                *)

Place(S, k) == CHOOSE u \in Ranked(S, k) : TRUE

\* Each rank is taken.
LEMMA PlaceIn ==
  ASSUME NEW N \in Nat, NEW S \in SUBSET (1 .. N), NEW k \in 1 .. Cardinality(S)
  PROVE  Place(S, k) \in S
<1> DEFINE T(n) == {v \in S : v <= n}
           Good == {n \in Nat : \A j \in 1 .. Cardinality(T(n)) :
                                  \E u \in S : Cardinality(T(u)) = j}
<1>1. \A n \in Nat : IsFiniteSet(T(n)) /\ Cardinality(T(n)) \in Nat
  <2>1. IsFiniteSet(1 .. N)
    BY FS_Interval
  <2>2. \A n \in Nat : T(n) \subseteq 1 .. N
    OBVIOUS
  <2>. HIDE DEF T
  <2>. QED BY <2>1, <2>2, FS_Subset, FS_CardinalityType
<1>0. \A v \in S : v \in Nat /\ 1 <= v /\ v <= N
  BY PartOfInterval
<1>2. 0 \in Good
  <2>1. T(0) = {} /\ Cardinality({}) = 0
    <3>1. \A v \in S : ~(v <= 0)
      BY <1>0
    <3>. QED BY <3>1, FS_EmptySet
  <2>2. 1 .. Cardinality(T(0)) = {}
    BY <2>1
  <2>. QED BY <2>2
<1>3. ASSUME NEW n \in Nat, n \in Good PROVE n + 1 \in Good
  <2>1. CASE n + 1 \in S
    <3>1. T(n + 1) = T(n) \cup {n + 1} /\ n + 1 \notin T(n)
      <4>1. \A v \in S : v <= n + 1 <=> v <= n \/ v = n + 1
        BY <1>0
      <4>2. ~(n + 1 <= n)
        OBVIOUS
      <4>. QED BY <2>1, <4>1, <4>2
    <3>2. Cardinality(T(n + 1)) = Cardinality(T(n)) + 1
      <4>. HIDE DEF T
      <4>. QED BY <1>1, <3>1, FS_AddElement
    <3>3. ASSUME NEW j \in 1 .. Cardinality(T(n + 1)) PROVE \E u \in S : Cardinality(T(u)) = j
      <4>. HIDE DEF T
      <4>1. j \in 1 .. Cardinality(T(n)) \/ j = Cardinality(T(n + 1))
        BY <1>1, <3>2
      <4>. QED BY <1>3, <2>1, <4>1
    <3>. QED BY <3>3
  <2>2. CASE n + 1 \notin S
    <3>1. T(n + 1) = T(n)
      <4>1. \A v \in S : v <= n + 1 <=> v <= n
        BY <1>0, <2>2
      <4>. QED BY <4>1
    <3>. QED BY <1>3, <3>1
  <2>. QED BY <2>1, <2>2
<1>4. N \in Good
  <2>. HIDE DEF Good
  <2>. QED BY <1>2, <1>3, NatInduced
<1>5. T(N) = S
  BY <1>0
<1>6. \E u \in S : Cardinality(T(u)) = k
  BY <1>4, <1>5
<1>7. Ranked(S, k) # {} /\ Ranked(S, k) \subseteq S
  BY <1>6 DEF Ranked
<1>. QED BY <1>7 DEF Place

\* A later time changes no place before it.
LEMMA PlaceStays ==
  ASSUME NEW n \in Nat, NEW S \in SUBSET (1 .. n), NEW k \in 1 .. Cardinality(S)
  PROVE  /\ Cardinality(S) \in Nat /\ Cardinality(S \cup {n + 1}) = Cardinality(S) + 1
         /\ Place(S \cup {n + 1}, k) = Place(S, k)
<1> DEFINE R == S \cup {n + 1}
<1>1. /\ IsFiniteSet(S) /\ Cardinality(S) \in Nat /\ n + 1 \notin S
      /\ \A v \in S : v \in Nat /\ v <= n
  BY PartOfInterval
<1>2. Cardinality(R) = Cardinality(S) + 1
  BY <1>1, FS_AddElement
<1>3. \A u \in S : {v \in R : v <= u} = {v \in S : v <= u}
  OBVIOUS
<1>4. {v \in R : v <= n + 1} = R
  <2>1. \A v \in R : v <= n + 1
    BY <1>1
  <2>. QED BY <2>1
<1>5. Cardinality({v \in R : v <= n + 1}) # k
  <2>. HIDE DEF R
  <2>. QED BY <1>1, <1>2, <1>4
<1>6. Ranked(R, k) = Ranked(S, k)
  <2>1. \A u \in R : Cardinality({v \in R : v <= u}) = k <=>
                       u \in S /\ Cardinality({v \in S : v <= u}) = k
    BY <1>3, <1>5
  <2>2. S \subseteq R
    OBVIOUS
  <2>. HIDE DEF R
  <2>. QED BY <2>1, <2>2 DEF Ranked
<1>. QED BY <1>1, <1>2, <1>6 DEF Place

Won(i) == IF Directions[i] = "buy" THEN "up" ELSE "down"

\* What DecidedHold says of a label, and that the bar which decided is stored.
Right(i, l) ==
  (l.outcome # "timeout" /\ \A t \in late : t <= signals[i].time) =>
    LET S == Stored(signals[i].time)
    IN  /\ l.exit \in 1 .. Cardinality(S)
        /\ \A k \in 1 .. l.exit - 1 : bars[Place(S, k)] = {}
        /\ bars[Place(S, l.exit)]
             \cap (IF l.outcome = "win" THEN {Won(i)} ELSE {"up", "down"} \ {Won(i)}) # {}

RightInv ==
  /\ \A i \in DOMAIN labels : Right(i, labels[i])
  /\ \A r \in Runners : \A i \in DOMAIN mine[r] : Right(i, mine[r][i])

\* The bars after a signal have numbers, and are stored.
LEMMA StoredIn ==
  ASSUME KnownInv, NEW t \in Nat
  PROVE  /\ Len(bars) \in Nat /\ Stored(t) \in SUBSET (1 .. Len(bars))
         /\ Cardinality(Stored(t)) \in Nat
<1>1. Len(bars) \in Nat /\ Stored(t) \in SUBSET (1 .. Len(bars))
  BY LenProperties DEF KnownInv, Stored
<1>. QED BY <1>1, PartOfInterval

\* A simulation that decides is right when it is made.
LEMMA SimulationRight ==
  ASSUME KnownInv, NEW i \in Ids, Forward(i) # <<>>
  PROVE  Right(i, LabelSignal(Directions[i], Forward(i)))
<1> DEFINE t == signals[i].time
           S == Stored(t)
           f == Forward(i)
           n == Len(f)
           hit == {k \in 1 .. n : f[k] # {}}
           l == LabelSignal(Directions[i], f)
<1>1. t \in Nat
  <2>1. signals[i] \in [time : Nat, symbol : {"traded", "left_out", "ended"}]
    BY ElementOfSeq DEF KnownInv, Ids
  <2>. QED BY <2>1
<1>2. Len(bars) \in Nat /\ S \in SUBSET (1 .. Len(bars)) /\ Cardinality(S) \in Nat
  BY <1>1, StoredIn
<1>. HIDE DEF t, S
<1>3. Len(Since(t)) = Cardinality(S) /\ \A k \in 1 .. Cardinality(S) : Since(t)[k] = Place(S, k)
  BY <1>2 DEF Since, Place, S
<1> DEFINE m == Min({Len(Since(t)), MaxBars})
<1>4. m \in 0 .. Cardinality(S)
  <2>1. MaxBars \in Nat
    BY LabelingConstants
  <2>2. \E z \in {Cardinality(S), MaxBars} : \A y \in {Cardinality(S), MaxBars} : z <= y
    BY <1>2, <2>1
  <2>3. /\ Min({Cardinality(S), MaxBars}) \in {Cardinality(S), MaxBars}
        /\ \A y \in {Cardinality(S), MaxBars} : Min({Cardinality(S), MaxBars}) <= y
    BY <2>2 DEF Min
  <2>. QED BY <1>2, <1>3, <2>1, <2>3
<1>5. f = [k \in 1 .. m |-> bars[Since(t)[k]]]
  BY DEF Forward, t
<1>. HIDE DEF m, f
<1>6. n = m /\ \A k \in 1 .. n : f[k] = bars[Place(S, k)]
  BY <1>2, <1>3, <1>4, <1>5
<1>7. CASE hit = {}
  <2>1. l.outcome = "timeout"
    BY <1>7 DEF LabelSignal
  <2>. QED BY <2>1 DEF Right, f
<1>8. CASE hit # {}
  <2> DEFINE e == Min(hit)
  <2>1. e \in hit /\ \A k \in hit : e <= k
    <3>1. hit \in SUBSET (1 .. n) /\ n \in Nat
      BY <1>4, <1>6
    <3>. HIDE DEF hit
    <3>. QED BY <1>8, <3>1, MinIs
  <2>2. l = [outcome |-> IF Won(i) \in f[e] THEN "win" ELSE "loss", exit |-> e]
    BY <1>8 DEF LabelSignal, Won
  <2>. HIDE DEF e, l
  <2>3. e \in 1 .. n /\ e \in 1 .. Cardinality(S) /\ f[e] # {}
    BY <1>2, <1>4, <1>6, <2>1
  <2>4. ASSUME NEW k \in 1 .. e - 1 PROVE bars[Place(S, k)] = {}
    <3>1. k \in 1 .. n /\ ~(e <= k)
      BY <2>3, <1>6, <1>4
    <3>. QED BY <1>6, <2>1, <3>1
  <2>5. f[e] \subseteq {"up", "down"}
    <3>1. Place(S, e) \in S
      BY <1>2, <2>3, PlaceIn
    <3>2. bars[Place(S, e)] \in BarKinds
      <4>1. bars[Place(S, e)] \in BarKinds \cup {Missing}
        BY <1>2, <3>1, ElementOfSeq DEF KnownInv
      <4>2. bars[Place(S, e)] # Missing
        BY <3>1 DEF S, Stored
      <4>. QED BY <4>1, <4>2
    <3>. QED BY <1>6, <2>3, <3>2, LabelingConstants
  <2>6. f[e] \cap (IF l.outcome = "win" THEN {Won(i)} ELSE {"up", "down"} \ {Won(i)}) # {}
    BY <2>2, <2>3, <2>5
  <2>7. l.exit = e /\ f[e] = bars[Place(S, e)]
    BY <1>6, <2>2, <2>3
  <2>8. Right(i, l)
    BY <2>3, <2>4, <2>6, <2>7 DEF Right, S, t
  <2>. QED BY <2>8 DEF l, f
<1>. QED BY <1>7, <1>8
-----------------------------------------------------------------------------
\* What a step may do to the stored bars.
Arrives == UNCHANGED late /\ \E b \in BarKinds \cup {Missing} : bars' = Append(bars, b)
Comes(u) == late' = late \cup {u} /\ \E b \in BarKinds : bars' = [bars EXCEPT ![u] = b]

LEMMA BarsChange ==
  ASSUME [Next]_vars
  PROVE  UNCHANGED <<bars, late>> \/ Arrives \/ \E u \in Missed : Comes(u)
<1>1. ASSUME NewBar \/ MissBar PROVE Arrives
  BY <1>1 DEF NewBar, MissBar, Arrives
<1>2. ASSUME NEW u \in Missed, FetchHistorical(u) PROVE Comes(u)
  BY <1>2 DEF FetchHistorical, Comes
<1>3. ASSUME NEW t, NewSignal(t) PROVE UNCHANGED <<bars, late>>
  BY <1>3 DEF NewSignal
<1>4. ASSUME UNCHANGED labelVars \/ UNCHANGED world PROVE UNCHANGED <<bars, late>>
  BY <1>4 DEF labelVars, world
<1>5. ASSUME NEW r \in Runners, Run(r) \/ Fail(r) PROVE UNCHANGED <<bars, late>>
  BY <1>4, <1>5 DEF Run, Start, LabelNext, Commit, Fail
<1>6. CASE World
  BY <1>1, <1>3, <1>6 DEF World
<1>7. CASE LoaderFetches \/ LoaderGenerates
  BY <1>2, <1>3, <1>4, <1>7 DEF LoaderFetches, LoaderGenerates
<1>8. CASE UNCHANGED vars
  BY <1>4, <1>8 DEF vars
<1>9. CASE WorkerLabels \/ WorkerCommits \/ ApiLabels \/ ApiCommits \/ ApiFails
  BY <1>5, <1>9, Members DEF WorkerLabels, WorkerCommits, ApiLabels, ApiCommits, ApiFails, Run
<1>10. CASE WorkerFails
  BY <1>4, <1>5, <1>10, Members DEF WorkerFails
<1>11. CASE LoaderLabels
  BY <1>4, <1>5, <1>11, Members DEF LoaderLabels, Run
<1>12. CASE \E p \in Trainers : Training(p) \/ SaveFails(p)
  BY <1>4, <1>12 DEF Training, Train, Open, Dump, SaveFails
<1>13. CASE Load \/ LoaderTrains \/ LoaderGivesUp \/ WorkerRestarts \/ ApiRestarts
  BY <1>4, <1>13 DEF Load, LoaderTrains, LoaderGivesUp, WorkerRestarts, ApiRestarts
<1>. QED BY <1>6, <1>7, <1>8, <1>9, <1>10, <1>11, <1>12, <1>13
            DEF Next, Worker, Api, Script, Trainers

\* The places of the bars that a label rests on, and what is there, stay.
LEMMA PlacesStay ==
  ASSUME KnownInv, NEW t \in Nat, \A u \in late' : u <= t,
         UNCHANGED <<bars, late>> \/ Arrives \/ \E u \in Missed : Comes(u)
  PROVE  /\ \A u \in late : u <= t
         /\ Cardinality(Stored(t)') \in Nat /\ Cardinality(Stored(t)) <= Cardinality(Stored(t)')
         /\ \A k \in 1 .. Cardinality(Stored(t)) :
              bars'[Place(Stored(t)', k)] = bars[Place(Stored(t), k)]
<1> DEFINE S == Stored(t)
           Q == Stored(t)'
           n == Len(bars)
<1>1. n \in Nat /\ S \in SUBSET (1 .. n) /\ Cardinality(S) \in Nat
  BY StoredIn
<1>2. \A k \in 1 .. Cardinality(S) : Place(S, k) \in S
  BY <1>1, PlaceIn
<1>3. ASSUME UNCHANGED late, Q = S, \A v \in S : bars'[v] = bars[v]
      PROVE  /\ \A u \in late : u <= t
             /\ Cardinality(Q) \in Nat /\ Cardinality(S) <= Cardinality(Q)
             /\ \A k \in 1 .. Cardinality(S) : bars'[Place(Q, k)] = bars[Place(S, k)]
  <2>1. \A u \in late : u <= t
    BY <1>3
  <2>. HIDE DEF S, Q
  <2>2. Cardinality(S) <= Cardinality(S)
    BY <1>1
  <2>3. \A k \in 1 .. Cardinality(S) : bars'[Place(S, k)] = bars[Place(S, k)]
    BY <1>2, <1>3
  <2>. QED BY <1>1, <1>3, <2>1, <2>2, <2>3
<1>4. CASE UNCHANGED <<bars, late>>
  <2>1. Q = S
    BY <1>4 DEF Stored
  <2>. HIDE DEF S, Q
  <2>. QED BY <1>3, <1>4, <2>1 DEF S, Q
<1>5. CASE Arrives
  <2>1. PICK b \in BarKinds \cup {Missing} : bars' = Append(bars, b)
    BY <1>5 DEF Arrives
  <2>2. Len(bars') = n + 1 /\ bars'[n + 1] = b /\ \A v \in 1 .. n : bars'[v] = bars[v]
    BY <2>1, AppendProperties DEF KnownInv
  <2>3. CASE n + 1 \in Q
    <3>1. Q = S \cup {n + 1}
      <4>1. \A v \in t + 1 .. n + 1 : v \in t + 1 .. n \/ v = n + 1
        BY <1>1
      <4>2. \A v \in t + 1 .. n : v \in t + 1 .. n + 1 /\ v \in 1 .. n
        BY <1>1
      <4>. QED BY <2>2, <2>3, <4>1, <4>2 DEF Stored
    <3>. HIDE DEF S, Q, n
    <3>2. ASSUME NEW k \in 1 .. Cardinality(S) PROVE Place(Q, k) = Place(S, k)
      BY <1>1, <3>1, PlaceStays
    <3>3. Cardinality(Q) \in Nat /\ Cardinality(S) <= Cardinality(Q)
      <4>1. IsFiniteSet(S)
        BY <1>1, PartOfInterval
      <4>. QED BY <1>1, <3>1, <4>1, FS_AddElement
    <3>. QED BY <1>1, <1>2, <1>5, <2>2, <3>2, <3>3 DEF Arrives, S, Q
  <2>4. CASE n + 1 \notin Q
    <3>1. Q = S
      <4>1. \A v \in t + 1 .. n + 1 : v \in t + 1 .. n \/ v = n + 1
        BY <1>1
      <4>2. \A v \in t + 1 .. n : v \in t + 1 .. n + 1 /\ v \in 1 .. n
        BY <1>1
      <4>. QED BY <2>2, <2>4, <4>1, <4>2 DEF Stored
    <3>2. \A v \in S : bars'[v] = bars[v]
      BY <1>1, <2>2
    <3>. HIDE DEF S, Q
    <3>. QED BY <1>3, <1>5, <3>1, <3>2 DEF Arrives, S, Q
  <2>. QED BY <2>3, <2>4
<1>6. CASE \E u \in Missed : Comes(u)
  <2>1. PICK u \in Missed : Comes(u)
    BY <1>6
  <2>2. PICK b \in BarKinds : bars' = [bars EXCEPT ![u] = b]
    BY <2>1 DEF Comes
  <2>3. u <= t /\ late \subseteq late' /\ u \in 1 .. n /\ bars[u] = Missing
    BY <2>1 DEF Comes, Missed, KnownInv
  <2>4. Len(bars') = n /\ \A v \in 1 .. n : v # u => bars'[v] = bars[v]
    BY <2>2, <2>3, ExceptSeq DEF KnownInv
  <2>5. \A v \in t + 1 .. n : v \in 1 .. n /\ v # u
    BY <1>1, <2>3
  <2>6. Q = S
    BY <2>4, <2>5 DEF Stored
  <2>7. \A v \in S : bars'[v] = bars[v]
    BY <2>4, <2>5 DEF Stored
  <2>. HIDE DEF S, Q
  <2>. QED BY <1>1, <1>2, <2>3, <2>6, <2>7 DEF S, Q
<1>. QED BY <1>4, <1>5, <1>6

LEMMA StaysRight ==
  ASSUME KnownInv, [Next]_vars, NEW i \in Ids, NEW l, Right(i, l) PROVE Right(i, l)'
<1> DEFINE t == signals[i].time
<1>1. signals'[i] = signals[i] /\ t \in Nat
  <2>1. signals[i] \in [time : Nat, symbol : {"traded", "left_out", "ended"}]
    BY ElementOfSeq DEF KnownInv, Ids
  <2>. QED BY <2>1, KnownStep
<1>2. PICK w \in Nat : w = t
  BY <1>1
<1>. HIDE DEF t
<1>. SUFFICES ASSUME l.outcome # "timeout", \A u \in late' : u <= w
              PROVE  /\ l.exit \in 1 .. Cardinality(Stored(w)')
                     /\ \A k \in 1 .. l.exit - 1 : bars'[Place(Stored(w)', k)] = {}
                     /\ bars'[Place(Stored(w)', l.exit)]
                          \cap (IF l.outcome = "win" THEN {Won(i)} ELSE {"up", "down"} \ {Won(i)})
                          # {}
  BY <1>1, <1>2 DEF Right, t
<1>3. /\ \A u \in late : u <= w
      /\ Cardinality(Stored(w)') \in Nat /\ Cardinality(Stored(w)) <= Cardinality(Stored(w)')
      /\ \A k \in 1 .. Cardinality(Stored(w)) :
           bars'[Place(Stored(w)', k)] = bars[Place(Stored(w), k)]
  BY BarsChange, PlacesStay
<1>4. /\ l.exit \in 1 .. Cardinality(Stored(w))
      /\ \A k \in 1 .. l.exit - 1 : bars[Place(Stored(w), k)] = {}
      /\ bars[Place(Stored(w), l.exit)]
           \cap (IF l.outcome = "win" THEN {Won(i)} ELSE {"up", "down"} \ {Won(i)}) # {}
  BY <1>2, <1>3 DEF Right, t
<1>5. Cardinality(Stored(w)) \in Nat
  BY StoredIn
<1>6. \A k \in 1 .. l.exit - 1 : k \in 1 .. Cardinality(Stored(w))
  BY <1>4, <1>5
<1>. QED BY <1>3, <1>4, <1>5, <1>6

LEMMA RightInvStep ==
  ASSUME LabelInv, KnownInv, RightInv, [Next]_vars PROVE RightInv'
<1>1. ASSUME NEW i \in Ids, NEW l, Right(i, l) PROVE Right(i, l)'
  BY <1>1, StaysRight
<1>2. /\ \A i \in DOMAIN labels : i \in Ids /\ Right(i, labels[i])
      /\ \A r \in Runners : \A i \in DOMAIN mine[r] : i \in Ids /\ Right(i, mine[r][i])
  BY DEF RightInv, KnownInv
\* a label was there, or in a transaction
<1>3. ASSUME NEW i \in DOMAIN labels', NEW l, l = labels'[i] PROVE Right(i, l)'
  <2>1. \/ i \in DOMAIN labels /\ l = labels[i]
        \/ \E r \in Runners : i \in DOMAIN mine[r] /\ l = mine[r][i]
    BY <1>3, StepEffect DEF Effect, Same, GivesUp, Inserts, Commits
  <2>. QED BY <1>1, <1>2, <2>1
\* what is in a transaction was there, or is made in this step
<1>4. ASSUME NEW r \in Runners, NEW i \in DOMAIN mine'[r], NEW l, l = mine'[r][i]
      PROVE  Right(i, l)'
  <2>1. CASE i \in DOMAIN mine[r] /\ l = mine[r][i]
    BY <1>1, <1>2, <2>1
  <2>2. CASE /\ UNCHANGED <<bars, late, signals>> /\ Forward(i) # <<>>
             /\ l = LabelSignal(Directions[i], Forward(i))
    <3>1. i \in Ids
      BY <2>2, KnownStep DEF KnownInv, Ids
    <3>2. Right(i, l)
      BY <2>2, <3>1, SimulationRight
    <3>. QED BY <1>1, <3>1, <3>2
  <2>3. ASSUME NEW q \in Runners, Inserts(q)
        PROVE  \/ i \in DOMAIN mine[r] /\ l = mine[r][i]
               \/ /\ UNCHANGED <<bars, late, signals>> /\ Forward(i) # <<>>
                  /\ l = LabelSignal(Directions[i], Forward(i))
    <3>1. PICK j, m : /\ Forward(j) # <<>> /\ m = LabelSignal(Directions[j], Forward(j))
                      /\ mine' = [mine EXCEPT ![q] = Inserted(@, j, m)]
      BY <2>3 DEF Inserts
    <3>2. mine'[r] = IF r = q THEN Inserted(mine[q], j, m) ELSE mine[r]
      BY <3>1 DEF LabelInv
    <3>3. DOMAIN Inserted(mine[q], j, m) = DOMAIN mine[q] \cup {j}
          /\ \A k \in DOMAIN mine[q] \cup {j} :
               Inserted(mine[q], j, m)[k] = IF k = j THEN m ELSE mine[q][k]
      BY DEF Inserted
    <3>. QED BY <1>4, <2>3, <3>1, <3>2, <3>3 DEF Inserts
  <2>4. ASSUME NEW q \in Runners, GivesUp(q) \/ Commits(q)
        PROVE  i \in DOMAIN mine[r] /\ l = mine[r][i]
    <3>1. mine'[r] = IF r = q THEN <<>> ELSE mine[r]
      BY <2>4 DEF GivesUp, Commits, LabelInv
    <3>2. DOMAIN <<>> = {}
      OBVIOUS
    <3>. QED BY <1>4, <3>1, <3>2
  <2>5. CASE Same
    BY <1>4, <2>1, <2>5 DEF Same
  <2>. QED BY <2>1, <2>2, <2>3, <2>4, <2>5, StepEffect DEF Effect
<1>. QED BY <1>3, <1>4 DEF RightInv, Right

\* DecidedHold: a win or a loss that was right when it was made stays right while bars come.
THEOREM DecidedHoldHolds == Spec => []DecidedHold
<1>1. Init => LabelInv /\ KnownInv /\ RightInv
  <2>1. Init => RightInv
    BY DEF Init, LabelInit, RightInv
  <2>. QED BY <2>1, LabelInvInit, KnownInvInit
<1>2. LabelInv /\ KnownInv /\ RightInv /\ [Next]_vars => (LabelInv /\ KnownInv /\ RightInv)'
  BY StepEffect, LabelInvStep, KnownStep, RightInvStep
<1>3. ASSUME KnownInv, RightInv PROVE DecidedHold
  <2>. SUFFICES ASSUME NEW i \in DOMAIN labels, labels[i].outcome # "timeout",
                       \A u \in late : u <= signals[i].time
                PROVE  LET l == labels[i]
                           forward == Since(signals[i].time)
                       IN  /\ \A k \in 1 .. l.exit - 1 : bars[forward[k]] = {}
                           /\ bars[forward[l.exit]]
                                \cap (IF l.outcome = "win" THEN {Won(i)}
                                      ELSE {"up", "down"} \ {Won(i)}) # {}
    BY DEF DecidedHold, Won
  <2> DEFINE l == labels[i]
             S == Stored(signals[i].time)
             forward == Since(signals[i].time)
  <2>1. /\ l.exit \in 1 .. Cardinality(S)
        /\ \A k \in 1 .. l.exit - 1 : bars[Place(S, k)] = {}
        /\ bars[Place(S, l.exit)]
             \cap (IF l.outcome = "win" THEN {Won(i)} ELSE {"up", "down"} \ {Won(i)}) # {}
    BY <1>3 DEF RightInv, Right
  <2>2. \A k \in 1 .. Cardinality(S) : forward[k] = Place(S, k)
    BY DEF Since, Place
  <2>3. \A k \in 1 .. l.exit - 1 : k \in 1 .. Cardinality(S)
    <3>1. Cardinality(S) \in Nat
      <4>1. signals[i] \in [time : Nat, symbol : {"traded", "left_out", "ended"}]
        BY <1>3, ElementOfSeq DEF KnownInv, Ids
      <4>2. signals[i].time \in Nat
        BY <4>1
      <4>. QED BY <1>3, <4>2, StoredIn
    <3>. HIDE DEF S
    <3>. QED BY <2>1, <3>1
  <2>. HIDE DEF S, forward
  <2>. QED BY <2>1, <2>2, <2>3 DEF forward
<1>. QED BY <1>1, <1>2, <1>3, PTL DEF Spec
=============================================================================
