------------------------------ MODULE Labeling ------------------------------
(***************************************************************************)
(* The labels that the model is trained on: SignalLabelerService           *)
(* (rac/ml/labeler.py), as the worker runs it at the end of a day          *)
(* (rac/worker/loop.py) and the API on demand (rac/api/main.py).           *)
(*                                                                         *)
(* A run is one transaction: it lists the oldest signals without a label,  *)
(* then simulates each against the bars that are stored by then.  Bars and *)
(* signals go on arriving: bars may be missed while nothing fetches them,  *)
(* and filled in later by the historical loader, as signals for old bars   *)
(* are by the API.  All signals have one entry price, so a bar is known by *)
(* the levels it reaches.  Symbols share their bars, but for those that    *)
(* have ended, are no longer watched: their signals get no more bars.      *)
(***************************************************************************)
EXTENDS Integers, Sequences, FiniteSets, SequencesExt, FiniteSetsExt

CONSTANTS
  Runners,     \* who runs the service
  Daily,       \* those of them that run it every day: the worker
  BatchSize,
  MaxBars,     \* bars that a simulation looks at
  BarKinds,    \* the bars that arrive, as the sets of levels they reach
  MaxTime,     \* bound on the bars
  MaxGaps,     \* bound on the bars that are missed
  MaxSignals,  \* bound on the signals
  Directions,  \* Directions[i]: the direction of the i-th signal
  Symbols,     \* Symbols[i]: what the i-th signal's symbol may be
  MaxFaults    \* bound on failing runs

ASSUME LabelingConstants ==
  /\ IsFiniteSet(Runners) /\ Daily \subseteq Runners
  /\ {BatchSize, MaxBars} \subseteq Nat \ {0}
  /\ BarKinds \subseteq SUBSET {"up", "down"}
  /\ {MaxTime, MaxGaps, MaxSignals, MaxFaults} \subseteq Nat
  /\ Directions \in [1 .. MaxSignals -> {"buy", "sell"}]
  /\ Symbols \in [1 .. MaxSignals -> SUBSET {"traded", "left_out", "ended"}]

VARIABLES
  bars,     \* market_data_ohlcv by time, with the bars that are missing
  late,     \* times of bars that were stored after later ones
  signals,  \* the signals that are not a hold; an id is a place
  labels,   \* signal_labels, by signal
  running,  \* the runners in a transaction
  todo,     \* todo[r]: what is left of the list of r's run
  mine,     \* mine[r]: labels that r has inserted and not committed
  counted,  \* counted[r]: counts["labeled"] of r's run
  faults

world == <<bars, late, signals>>
runVars == <<running, todo, mine, counted>>
labelVars == <<world, labels, runVars, faults>>
-----------------------------------------------------------------------------
Ids == 1 .. Len(signals)
Missing == {"missing"}
Missed == {t \in DOMAIN bars : bars[t] = Missing}
Label == [outcome : {"win", "loss", "timeout"}, exit : 1 .. MaxBars]

LabelTypeOK ==
  /\ bars \in Seq(BarKinds \cup {Missing}) /\ Len(bars) <= MaxTime
  /\ late \subseteq DOMAIN bars \ Missed
  /\ signals \in Seq([time : 0 .. MaxTime, symbol : {"traded", "left_out", "ended"}])
  /\ DOMAIN labels \subseteq Ids
  /\ \A i \in DOMAIN labels : labels[i] \in Label
  /\ running \subseteq Runners
  /\ todo \in [Runners -> SUBSET Ids]
  /\ \A r \in Runners : /\ DOMAIN mine[r] \subseteq Ids
                        /\ \A i \in DOMAIN mine[r] : mine[r][i] \in Label
                        /\ r \notin running => todo[r] = {} /\ mine[r] = <<>>
  /\ counted \in [Runners -> 0 .. BatchSize]
  /\ faults \in 0 .. MaxFaults

LabelInit ==
  /\ bars = <<>>
  /\ late = {}
  /\ signals = <<>>
  /\ labels = <<>>
  /\ running = {}
  /\ todo = [r \in Runners |-> {}]
  /\ mine = [r \in Runners |-> <<>>]
  /\ counted = [r \in Runners |-> 0]
  /\ faults = 0
-----------------------------------------------------------------------------
(* The simulation.                                                         *)

\* label_signal: the first bar that reaches a level decides; in one that reaches both
\* the target is looked at first.
LabelSignal(direction, forward) ==
  LET target == IF direction = "buy" THEN "up" ELSE "down"
      hit == {i \in 1 .. Len(forward) : forward[i] # {}}
  IN  IF hit = {}
        THEN [outcome |-> "timeout", exit |-> Len(forward)]
        ELSE [outcome |-> IF target \in forward[Min(hit)] THEN "win" ELSE "loss",
              exit |-> Min(hit)]

\* The stored bars after a time, by time: the k-th has k of them up to it.
Stored(t) == {u \in t + 1 .. Len(bars) : bars[u] # Missing}
Ranked(S, k) == {u \in S : Cardinality({v \in S : v <= u}) = k}
Since(t) ==
  LET S == Stored(t)
  IN  [k \in 1 .. Cardinality(S) |-> CHOOSE u \in Ranked(S, k) : TRUE]

\* mutant: ORDER BY time DESC
NewestForward(i) ==
  LET all == Reverse(Since(signals[i].time))
  IN  IF signals[i].symbol = "ended" THEN <<>>
      ELSE [k \in 1 .. Min({Len(all), MaxBars}) |-> bars[all[k]]]

\* ORDER BY time ASC LIMIT max_bars
Forward(i) ==
  LET all == Since(signals[i].time)
  IN  IF signals[i].symbol = "ended" THEN <<>>
      ELSE [k \in 1 .. Min({Len(all), MaxBars}) |-> bars[all[k]]]
-----------------------------------------------------------------------------
(* The world.                                                              *)

NewBar ==
  /\ Len(bars) < MaxTime
  /\ \E b \in BarKinds : bars' = Append(bars, b)
  /\ UNCHANGED <<late, signals, labels, runVars, faults>>

\* The worker is down, or its fetch fails, for longer than its next fetch goes back.
MissBar ==
  /\ Len(bars) < MaxTime
  /\ Cardinality(Missed) + Cardinality(late) < MaxGaps
  /\ bars' = Append(bars, Missing)
  /\ UNCHANGED <<late, signals, labels, runVars, faults>>

\* fetch_and_store: a bar of the range that was missing is stored.
FetchHistorical(t) ==
  /\ t \in Missed
  /\ \E b \in BarKinds : bars' = [bars EXCEPT ![t] = b]
  /\ late' = late \cup {t}
  /\ UNCHANGED <<signals, labels, runVars, faults>>

\* A signal for the bar of a time, the newest or one that was stored before.
NewSignal(t) ==
  /\ Len(signals) < MaxSignals
  /\ \E s \in Symbols[Len(signals) + 1] :
       signals' = Append(signals, [time |-> t, symbol |-> s])
  /\ UNCHANGED <<bars, late, labels, runVars, faults>>
-----------------------------------------------------------------------------
(* SignalLabelerService.run                                                *)

Unlabeled == {i \in Ids : i \notin DOMAIN labels}

\* WHERE NOT EXISTS ... ORDER BY time LIMIT batch_size
Before(i, j) ==
  \/ signals[i].time < signals[j].time
  \/ signals[i].time = signals[j].time /\ i < j
Batch == {i \in Unlabeled : Cardinality({j \in Unlabeled : Before(j, i)}) < BatchSize}

Start(r) ==
  /\ r \notin running
  /\ Unlabeled # {}
  /\ running' = running \cup {r}
  /\ todo' = [todo EXCEPT ![r] = Batch]
  /\ UNCHANGED <<world, labels, mine, counted, faults>>

Inserted(f, i, l) == [j \in DOMAIN f \cup {i} |-> IF j = i THEN l ELSE f[j]]

\* The signals of the list are taken by time.
First(r) == {i \in todo[r] : \A j \in todo[r] \ {i} : Before(i, j)}

Skip(i) == Forward(i) = <<>> /\ UNCHANGED <<mine, counted>>

\* The insertion waits for a transaction that has inserted the same signal; it is
\* counted also when it does nothing.
Insert(r, i) ==
  /\ Forward(i) # <<>>
  /\ \A o \in Runners \ {r} : i \notin DOMAIN mine[o]
  /\ mine' = [mine EXCEPT ![r] =
                Inserted(@, i, LabelSignal(Directions[i], Forward(i)))]
  /\ counted' = [counted EXCEPT ![r] = @ + 1]

Conflict(r, i) ==
  /\ i \in DOMAIN labels /\ Forward(i) # <<>>
  /\ counted' = [counted EXCEPT ![r] = @ + 1]
  /\ UNCHANGED mine

\* mutants: a signal without bars ends the run; ON CONFLICT DO UPDATE
LabelStops(r) ==
  /\ \E i \in First(r) :
       \/ Skip(i) /\ todo' = [todo EXCEPT ![r] = {}]
       \/ /\ Conflict(r, i) \/ (i \notin DOMAIN labels /\ Insert(r, i))
          /\ todo' = [todo EXCEPT ![r] = @ \ {i}]
  /\ UNCHANGED <<world, labels, running, faults>>
LabelAgain(r) ==
  /\ \E i \in First(r) :
       /\ Skip(i) \/ Insert(r, i)
       /\ todo' = [todo EXCEPT ![r] = @ \ {i}]
  /\ UNCHANGED <<world, labels, running, faults>>

\* One signal: nothing for one without bars, or one that has got its label since.
LabelNext(r) ==
  /\ \E i \in First(r) :
       /\ \/ Skip(i)
          \/ Conflict(r, i)
          \/ i \notin DOMAIN labels /\ Insert(r, i)
       /\ todo' = [todo EXCEPT ![r] = @ \ {i}]
  /\ UNCHANGED <<world, labels, running, faults>>

Finish(r) ==
  /\ running' = running \ {r}
  /\ todo' = [todo EXCEPT ![r] = {}]
  /\ mine' = [mine EXCEPT ![r] = <<>>]
  /\ counted' = [counted EXCEPT ![r] = 0]

Commit(r) ==
  /\ r \in running /\ todo[r] = {}
  /\ labels' = [i \in DOMAIN labels \cup DOMAIN mine[r] |->
                  IF i \in DOMAIN mine[r] THEN mine[r][i] ELSE labels[i]]
  /\ Finish(r)
  /\ UNCHANGED <<world, faults>>

\* An exception or a crash: nothing is committed.
Fail(r) ==
  /\ r \in running
  /\ faults < MaxFaults
  /\ faults' = faults + 1
  /\ Finish(r)
  /\ UNCHANGED <<world, labels>>
-----------------------------------------------------------------------------
Run(r) == Start(r) \/ LabelNext(r) \/ Commit(r)

LabelStep ==
  \/ NewBar \/ MissBar
  \/ \E t \in Missed : FetchHistorical(t)
  \/ \E t \in 0 .. Len(bars) : NewSignal(t)
  \/ \E r \in Runners : Run(r) \/ Fail(r)

LabelSpec == LabelInit /\ [][LabelStep]_labelVars
-----------------------------------------------------------------------------
(* Properties                                                              *)

\* A label that is committed is never changed or lost, whichever runs list the same
\* signals at the same time.
LabelsAreFinal ==
  [][\A i \in DOMAIN labels : i \in DOMAIN labels' /\ labels'[i] = labels[i]]_labelVars

\* A win or a loss stays right while bars come, and with gaps that stay: no bar between
\* the signal and the one that decided reached a level, and that one reached the level
\* of the outcome.  Only a bar stored late, after the signal, may say otherwise.
DecidedHold ==
  \A i \in DOMAIN labels :
    (labels[i].outcome # "timeout" /\ \A t \in late : t <= signals[i].time) =>
      LET l == labels[i]
          forward == Since(signals[i].time)
          won == IF Directions[i] = "buy" THEN "up" ELSE "down"
      IN  /\ \A k \in 1 .. l.exit - 1 : bars[forward[k]] = {}
          /\ bars[forward[l.exit]]
               \cap (IF l.outcome = "win" THEN {won} ELSE {"up", "down"} \ {won}) # {}
=============================================================================
