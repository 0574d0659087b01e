------------------------------- MODULE Signals -------------------------------
(***************************************************************************)
(* From bars to an order, for one watched symbol: ingestion, features,     *)
(* strategies and the choice of a signal, as _process_symbol               *)
(* (rac/worker/loop.py) calls them, beside an API that fetches bars,       *)
(* computes features and generates signals of the same symbol on demand,   *)
(* each alone or all in a pipeline (rac/pipeline/service.py).              *)
(*                                                                         *)
(* The values of features are left out; what is kept is how many bars they *)
(* were computed from, which decides whether a strategy can use them (see  *)
(* CountDecides in Indicators) unless the bands are flat.  The orders' own *)
(* ways are in TradingCycle: here one is live, then filled or over.        *)
(***************************************************************************)
EXTENDS Integers, Sequences, FiniteSets, FiniteSetsExt

CONSTANTS
  Settings,    \* what watched_strategies may be: sequences of names
  Strategies,  \* the strategies that _load_strategy knows
  Need,        \* Need[s]: min_feature_points of a strategy
  Verdicts,    \* Verdicts[s]: what a strategy may say of a bar; see Verdict
  FetchLimit,  \* bars that a cycle fetches
  WindowSize,  \* bars that features are computed from, and rows a strategy sees
  MaxAge,      \* signal_max_age_seconds, in bars
  ApiWindows,  \* windows that users of the API ask for; {}: it is not used
  Settling,    \* TRUE: orders are over before the next cycle begins
  MaxBars,     \* bound on the bars
  MaxCycles    \* bound on the cycles, and on the API's requests

Directions == {"buy", "sell", "hold"}
\* flat: no direction, the bar has no bb_pct_b.
Verdict == Directions \cup {"flat"}

ASSUME SignalsConstants ==
  /\ Settings \subseteq Seq(STRING)
  /\ IsFiniteSet(Strategies)
  /\ Verdicts \in [Strategies -> SUBSET Verdict]
  /\ Need \in [Strategies -> Nat \ {0}]
  /\ {FetchLimit, WindowSize} \subseteq Nat \ {0}
  /\ \A s \in Strategies : Need[s] <= WindowSize
  /\ ApiWindows \subseteq Nat \ {0}
  /\ Settling \in BOOLEAN
  /\ {MaxAge, MaxBars, MaxCycles} \subseteq Nat

VARIABLES
  watched,   \* watched_strategies, read once when the worker starts
  verdicts,  \* verdicts[b]: what each strategy will say of bar b
  stored,    \* market_data_ohlcv: the bars that were accepted
  counts,    \* features: source_bar_count of a bar's row; 0 if none
  copies,    \* signals: copies[s][b] rows of strategy s for bar b
  orders,    \* orders sent: the signal, and whether it is live
  position,  \* the broker has a position
  pc,        \* the cycle's next call
  turn,      \* the strategy whose turn it is, a place in watched
  held,      \* the position, as the cycle read it
  chosen,    \* the signal under review
  pipeline,  \* the API's pipeline: its next call, and the limit it was asked for
  cycles     \* cycles and requests so far

tables == <<stored, counts, copies>>
cycleVars == <<pc, turn, held, chosen>>
vars == <<watched, verdicts, tables, orders, position, cycleVars, pipeline, cycles>>
-----------------------------------------------------------------------------
Bars == 1 .. MaxBars
Now == Len(verdicts)

\* A signal's id: the c-th row of a strategy for a bar.
Signal == [strategy : Strategies, bar : Bars, copy : Nat]
NoSignal == [strategy |-> "none", bar |-> 0, copy |-> 0]
NoPipeline == [stage |-> "idle", limit |-> 0]

TypeOK ==
  /\ Now <= MaxBars
  /\ \A b \in 1 .. Now : \A s \in Strategies : verdicts[b][s] \in Verdicts[s]
  /\ stored \subseteq 1 .. Now
  /\ counts \in [Bars -> 0 .. WindowSize]
  /\ copies \in [Strategies -> [Bars -> Nat]]
  /\ \A o \in orders : o.signal \in Signal /\ o.live \in BOOLEAN
  /\ position \in BOOLEAN /\ held \in BOOLEAN
  /\ pc \in {"idle", "ingest", "features", "generate", "select", "review"}
  /\ watched \in Settings
  /\ turn \in 1 .. Len(watched) + 1
  /\ chosen \in Signal \cup {NoSignal}
  /\ pipeline \in {NoPipeline} \cup [stage : {"compute", "generate"}, limit : ApiWindows]
  /\ cycles \in 0 .. MaxCycles

Init ==
  /\ watched \in Settings
  /\ verdicts = <<>>
  /\ stored = {}
  /\ counts = [b \in Bars |-> 0]
  /\ copies = [s \in Strategies |-> [b \in Bars |-> 0]]
  /\ orders = {}
  /\ position = FALSE
  /\ pc = "idle"
  /\ turn = 1
  /\ held = FALSE
  /\ chosen = NoSignal
  /\ pipeline = NoPipeline
  /\ cycles = 0
-----------------------------------------------------------------------------
(* The market and the broker.                                              *)

NewBar ==
  /\ Now < MaxBars
  /\ \E v \in [Strategies -> Verdict] :
       /\ \A s \in Strategies : v[s] \in Verdicts[s]
       /\ verdicts' = Append(verdicts, v)
  /\ UNCHANGED <<watched, tables, orders, position, cycleVars, pipeline, cycles>>

DirectionOf(id) == verdicts[id.bar][id.strategy]

\* A live order is filled, or ends without execution.
Settle ==
  \E o \in orders :
    /\ o.live
    /\ orders' = (orders \ {o}) \cup {[o EXCEPT !.live = FALSE]}
    /\ \/ position' = (DirectionOf(o.signal) = "buy")
       \/ UNCHANGED position
    /\ UNCHANGED <<watched, verdicts, tables, cycleVars, pipeline, cycles>>

\* A stop loss or take profit is executed.
Stopped ==
  /\ position
  /\ pc = "idle"
  /\ position' = FALSE
  /\ UNCHANGED <<watched, verdicts, tables, orders, cycleVars, pipeline, cycles>>
-----------------------------------------------------------------------------
(* The tables.                                                             *)

\* The n newest of a set of bars.
Newest(n, B) == {b \in B : Cardinality({c \in B : c > b}) < n}

\* mutant: bars are counted from the newest, as they are read
CountsUnsorted(n) ==
  [b \in Bars |-> IF b \in Newest(n, stored)
                    THEN Cardinality({c \in Newest(n, stored) : c >= b})
                    ELSE counts[b]]

\* FeatureService.compute: every bar of the window gets new features, from the bars
\* of the window up to it, in place of those it had.
Counts(n) ==
  [b \in Bars |-> IF b \in Newest(n, stored)
                    THEN Cardinality({c \in Newest(n, stored) : c <= b})
                    ELSE counts[b]]

\* The rows that a strategy is given, and those with all features that it needs.
Rows(n) == Newest(n, {b \in Bars : counts[b] > 0})
Usable(s, n) ==
  IF Cardinality(Rows(n)) < Need[s] THEN {}
  ELSE {b \in Rows(n) :
          counts[b] >= Need[s] /\ DirectionOf([bar |-> b, strategy |-> s]) # "flat"}

\* StrategyEngine.generate: a row for every usable bar, each time.
Generated(s, n) ==
  [copies EXCEPT ![s] = [b \in Bars |-> IF b \in Usable(s, n) THEN @[b] + 1 ELSE @[b]]]

\* latest_signals: ORDER BY time DESC, created_at DESC LIMIT 1
Latest(s) ==
  LET bars == {b \in Bars : copies[s][b] > 0}
  IN  IF bars = {} THEN {}
      ELSE {[strategy |-> s, bar |-> Max(bars), copy |-> copies[s][Max(bars)]]}
-----------------------------------------------------------------------------
(* The cycle.                                                              *)

StartCycle ==
  /\ pc = "idle"
  /\ Settling => \A o \in orders : ~o.live
  /\ cycles < MaxCycles
  /\ cycles' = cycles + 1
  /\ held' = position
  /\ pc' = "ingest"
  /\ UNCHANGED <<watched, verdicts, tables, orders, position, turn, chosen, pipeline>>

\* The validator may reject the newest bar.
Store(bars) ==
  \E rejected \in SUBSET {Now} : stored' = stored \cup (bars \ rejected)

Ingest ==
  /\ pc = "ingest"
  /\ IF Now = 0
       THEN pc' = "idle" /\ UNCHANGED stored
       ELSE Store(Newest(FetchLimit, 1 .. Now)) /\ pc' = "features"
  /\ UNCHANGED <<watched, verdicts, counts, copies, orders, position, turn, held, chosen, pipeline, cycles>>

ComputeFeatures ==
  /\ pc = "features"
  /\ counts' = Counts(WindowSize)
  /\ turn' = 1
  /\ pc' = "generate"
  /\ UNCHANGED <<watched, verdicts, stored, copies, orders, position, held, chosen, pipeline, cycles>>

EndCycle ==
  /\ pc = "generate" /\ turn > Len(watched)
  /\ pc' = "idle"
  /\ turn' = 1
  /\ UNCHANGED <<watched, verdicts, tables, orders, position, held, chosen, pipeline, cycles>>

Generate ==
  /\ pc = "generate" /\ turn <= Len(watched) /\ watched[turn] \in Strategies
  /\ copies' = Generated(watched[turn], WindowSize)
  /\ pc' = "select"
  /\ UNCHANGED <<watched, verdicts, stored, counts, orders, position, turn, held, chosen, pipeline, cycles>>

\* unsupported_strategy: the exception ends the cycle for the symbol.
GenerateFails ==
  /\ pc = "generate" /\ turn <= Len(watched) /\ watched[turn] \notin Strategies
  /\ pc' = "idle"
  /\ turn' = 1
  /\ UNCHANGED <<watched, verdicts, tables, orders, position, held, chosen, pipeline, cycles>>

\* mutant: a buy is not skipped while there is a position
HoldOrStale(id) ==
  \/ DirectionOf(id) = "hold"
  \/ Now - id.bar > MaxAge
  \/ DirectionOf(id) = "sell" /\ ~held

\* A hold, stale, or at odds with the position
Skipped(id) ==
  \/ DirectionOf(id) = "hold"
  \/ Now - id.bar > MaxAge
  \/ DirectionOf(id) = "buy" /\ held
  \/ DirectionOf(id) = "sell" /\ ~held

\* mutant: only orders that are live count
HasLiveOrder(id) == \E o \in orders : o.signal = id /\ o.live

\* has_order_for_signal
HasOrder(id) == \E o \in orders : o.signal = id

NextStrategy ==
  /\ pc' = "generate"
  /\ turn' = turn + 1
  /\ UNCHANGED chosen

\* The strategy's latest signal goes to the review, or it is the next one's turn;
\* its confidence may always be too low.
Select ==
  /\ pc = "select"
  /\ \/ NextStrategy
     \/ \E id \in Latest(watched[turn]) :
          /\ ~Skipped(id) /\ ~HasOrder(id)
          /\ chosen' = id
          /\ pc' = "review"
          /\ UNCHANGED turn
  /\ UNCHANGED <<watched, verdicts, tables, orders, position, held, pipeline, cycles>>

\* A model is found and its answer can be read, and is no.  Nothing is stored of it.
Veto ==
  /\ pc = "review"
  /\ NextStrategy
  /\ UNCHANGED <<watched, verdicts, tables, orders, position, held, pipeline, cycles>>

\* The model says yes, there is none, or it fails.  Sent or refused, the cycle is over
\* for the symbol.
Execute ==
  /\ pc = "review"
  /\ \/ orders' = orders \cup {[signal |-> chosen, live |-> TRUE]}
     \/ UNCHANGED orders
  /\ pc' = "idle"
  /\ turn' = 1
  /\ chosen' = NoSignal
  /\ UNCHANGED <<watched, verdicts, tables, position, held, pipeline, cycles>>
-----------------------------------------------------------------------------
(* The API, which does one request at a time.                              *)

workerVars == <<watched, verdicts, orders, position, cycleVars>>

ApiRequest ==
  /\ pipeline = NoPipeline
  /\ cycles < MaxCycles
  /\ cycles' = cycles + 1
  /\ UNCHANGED workerVars

\* fetch_and_store, of a range of the past
FetchHistorical ==
  \E first \in 1 .. Now : \E last \in first .. Now : Store(first .. last)

ApiFetch ==
  /\ ApiWindows # {}
  /\ ApiRequest
  /\ FetchHistorical
  /\ UNCHANGED <<counts, copies, pipeline>>

ApiCompute ==
  /\ ApiRequest
  /\ \E n \in ApiWindows : counts' = Counts(n)
  /\ UNCHANGED <<stored, copies, pipeline>>

ApiGenerate ==
  /\ ApiRequest
  /\ \E n \in ApiWindows : \E s \in Strategies : copies' = Generated(s, n)
  /\ UNCHANGED <<stored, counts, pipeline>>

\* PaperAnalysisPipeline.run: each call commits what it does.
PipelineFetch ==
  /\ ApiRequest
  /\ FetchHistorical
  /\ \E n \in ApiWindows : pipeline' = [stage |-> "compute", limit |-> n]
  /\ UNCHANGED <<counts, copies>>

PipelineCompute ==
  /\ pipeline.stage = "compute"
  /\ counts' = Counts(pipeline.limit)
  /\ pipeline' = [pipeline EXCEPT !.stage = "generate"]
  /\ UNCHANGED <<workerVars, stored, copies, cycles>>

PipelineGenerate ==
  /\ pipeline.stage = "generate"
  /\ \E s \in Strategies : copies' = Generated(s, pipeline.limit)
  /\ pipeline' = NoPipeline
  /\ UNCHANGED <<workerVars, stored, counts, cycles>>

\* A call fails, or its strategy is not known: what was stored before stays.
PipelineFails ==
  /\ pipeline # NoPipeline
  /\ pipeline' = NoPipeline
  /\ UNCHANGED <<workerVars, tables, cycles>>
-----------------------------------------------------------------------------
Worker ==
  \/ StartCycle \/ Ingest \/ ComputeFeatures \/ EndCycle
  \/ Generate \/ GenerateFails \/ Select \/ Veto \/ Execute

Pipeline == PipelineFetch \/ PipelineCompute \/ PipelineGenerate \/ PipelineFails

Next ==
  \/ NewBar \/ Settle \/ Stopped \/ Worker
  \/ ApiFetch \/ ApiCompute \/ ApiGenerate \/ Pipeline

Spec == Init /\ [][Next]_vars
-----------------------------------------------------------------------------
(* Properties                                                              *)

\* The cycle's features of the newest bar can be used by every strategy for which
\* enough bars are stored, however many were rejected and whatever windows the API
\* has computed before, unless its bands are flat.
NewestIsUsable ==
  [][pc = "features" /\ pc' = "generate" =>
       \A s \in Strategies :
         /\ Cardinality(stored) >= Need[s]
         /\ verdicts[Max(stored)][s] # "flat"
         => Max(stored) \in Usable(s, WindowSize)']_vars

\* "First actionable signal wins" (docs/strategies.md:5): when every order is over
\* before the next cycle, at most one is live, however many strategies agree, and
\* a symbol that has a position gets none that would open another.
NoSecondEntry ==
  \A o \in orders : o.live =>
    /\ \A p \in orders : p.live => p = o
    /\ position => DirectionOf(o.signal) = "sell"

\* "All orders use a SHA-256 key" (docs/architecture.md:120): a row of the signals
\* leads to one order, also when the API has computed the newest bar's features from
\* too few bars, so that the next cycle writes no newer row and reads the same again.
OneOrderPerRow ==
  \A o, p \in orders : o.signal = p.signal => o = p

\* "The worker runs all configured strategies per symbol every cycle"
\* (docs/strategies.md:5): strategies are left out for an order, and for nothing else.
AllStrategiesRun ==
  [][pc = "generate" /\ pc' = "idle" => turn > Len(watched)]_vars
=============================================================================
