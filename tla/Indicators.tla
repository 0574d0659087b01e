----------------------------- MODULE Indicators -----------------------------
(***************************************************************************)
(* The features of bars (rac/features/engine.py), computed again and again *)
(* from the newest bars of the history (rac/features/service.py).          *)
(*                                                                         *)
(* Prices are small integers, and every feature is kept exact:             *)
(*   sma            the sum of its window                                  *)
(*   return_1       in parts of Unit                                       *)
(*   volatility_5   the variance of the returns, times the square of their *)
(*                  number                                                 *)
(*   rsi_14         the fraction of 100, numerator and denominator         *)
(*   bb             sum and variance of the window (upper, lower)          *)
(*   bb_pct_b       the distance from the middle, and the variance         *)
(*   macd           in parts of Scale; macd_signal and macd_hist in parts  *)
(*                  of Smooth * Scale                                      *)
(* A feature that cannot be computed is None.  No price is zero.           *)
(***************************************************************************)
EXTENDS Strategies, Sequences, FiniteSets, FiniteSetsExt, SequencesExt

CONSTANTS
  Closes,    \* the prices
  Unit,      \* a multiple of all of them
  Short,     \* window of sma_3
  Long,      \* window of sma_5, and of volatility_5
  RsiPeriod, \* 14
  BbPeriod,  \* window of sma_20 and of the bands
  Fast, Slow, Smooth,  \* 12, 26, 9
  Limits,    \* numbers of bars that are asked for
  MaxBars    \* bound on the history

ASSUME IndicatorsConstants ==
  /\ IsFiniteSet(Closes) /\ Closes # {} /\ Closes \subseteq Nat \ {0}
  /\ \A c \in Closes : Unit % c = 0
  /\ Short \in Nat /\ Short > 1 /\ Long \in Nat /\ Long > Short /\ Long > 2
  /\ RsiPeriod \in Nat /\ RsiPeriod > 1 /\ BbPeriod \in Nat /\ BbPeriod > RsiPeriod
  /\ Fast \in Nat \ {0} /\ Slow \in Nat /\ Slow > Fast /\ Smooth \in Nat \ {0}
  /\ Limits \subseteq Nat \ {0} /\ MaxBars \in Nat /\ MaxBars > Fast

VARIABLES
  closes,  \* market_data_ohlcv: the closes, oldest first
  table    \* features: the row of each bar

vars == <<closes, table>>
-----------------------------------------------------------------------------
None == <<>>
Total(w) == FoldLeft(LAMBDA sum, x : sum + x, 0, w)
Squares(w) == Total([j \in DOMAIN w |-> w[j] * w[j]])
Spread(w) == Len(w) * Squares(w) - Total(w) * Total(w)
Steps(w) == [j \in 1 .. Len(w) - 1 |-> w[j + 1] - w[j]]

\* The n closes up to bar i of w
Window(w, i, n) == SubSeq(w, i - n + 1, i)

Sma(w, i, n) == IF i < n THEN None ELSE <<Total(Window(w, i, n))>>

Return(w, i) == IF i = 1 THEN None ELSE <<(Unit * w[i]) \div w[i - 1] - Unit>>

\* mutant: the returns since the first bar
VolatilitySinceStart(w, i) ==
  IF i < Long THEN None ELSE <<Spread([j \in 1 .. i - 1 |-> Return(w, j + 1)[1]])>>

Volatility(w, i) ==
  IF i < Long THEN None
  ELSE LET v == Window(w, i, Long)
       IN  <<Spread([j \in 1 .. Long - 1 |-> Return(v, j + 1)[1]])>>

Gain(w) == Total([j \in DOMAIN Steps(w) |-> AtLeast(Steps(w)[j], 0)])
Loss(w) == Total([j \in DOMAIN Steps(w) |-> AtLeast(-Steps(w)[j], 0)])

RsiOf(gain, loss) == IF loss = 0 THEN <<1, 1>> ELSE <<gain, gain + loss>>

\* The window has RsiPeriod closes, which is one change less.
Rsi(w, i) ==
  IF i <= RsiPeriod THEN None
  ELSE LET v == Window(w, i, RsiPeriod) IN RsiOf(Gain(v), Loss(v))

Bands(w, i) ==
  IF i < BbPeriod THEN None
  ELSE LET v == Window(w, i, BbPeriod) IN <<Total(v), Spread(v)>>

\* The bands of a flat window fall together, and there is no position in them.
PercentB(w, i) ==
  IF i < BbPeriod THEN None
  ELSE LET v == Window(w, i, BbPeriod)
       IN  IF Spread(v) = 0 THEN None ELSE <<BbPeriod * w[i] - Total(v), Spread(v)>>

Times(n, x) == n * x
Power(x, n) == FoldLeft(Times, 1, [j \in 1 .. n |-> x])

\* A multiple of everything that averages of at most MaxBars closes divide by
Scale == Fast * Slow * Power(Fast + 1, MaxBars - Fast) * Power(Slow + 1, MaxBars - Fast)

\* mutant: half the weight for the new price
EmaSlow(w, i, period) ==
  IF i < period THEN None
  ELSE <<FoldLeft(LAMBDA ema, close : (close * Scale + period * ema) \div (period + 1),
                  (Scale * Total(SubSeq(w, 1, period))) \div period,
                  SubSeq(w, period + 1, i))>>

\* From the mean of the first closes of the window, wherever it begins
Ema(w, i, period) ==
  IF i < period THEN None
  ELSE <<FoldLeft(LAMBDA ema, close : (2 * close * Scale + (period - 1) * ema) \div (period + 1),
                  (Scale * Total(SubSeq(w, 1, period))) \div period,
                  SubSeq(w, period + 1, i))>>

Macd(w, i) ==
  IF i < Slow THEN None ELSE <<Ema(w, i, Fast)[1] - Ema(w, i, Slow)[1]>>

MacdSignalEarly(w, i) ==  \* mutant: as soon as there are values for the mean
  IF i < Slow + Smooth - 1 THEN None
  ELSE <<Total([j \in 1 .. Smooth |-> Macd(w, i - Smooth + j)[1]])>>

\* The mean of the last Smooth values: nothing is left of them to smooth.
MacdSignal(w, i) ==
  IF i < Slow + Smooth THEN None
  ELSE <<Total([j \in 1 .. Smooth |-> Macd(w, i - Smooth + j)[1]])>>

MacdHist(w, i) ==
  IF MacdSignal(w, i) = None THEN None
  ELSE <<Smooth * Macd(w, i)[1] - MacdSignal(w, i)[1]>>

\* The features of bar i, when they are computed from the bars w
Features(w, i) ==
  [source_bar_count |-> i,
   return_1 |-> Return(w, i),
   sma_3 |-> Sma(w, i, Short),
   sma_5 |-> Sma(w, i, Long),
   sma_20 |-> Sma(w, i, BbPeriod),
   volatility_5 |-> Volatility(w, i),
   rsi_14 |-> Rsi(w, i),
   bb |-> Bands(w, i),
   bb_pct_b |-> PercentB(w, i),
   macd |-> Macd(w, i),
   macd_signal |-> MacdSignal(w, i),
   macd_hist |-> MacdHist(w, i)]
-----------------------------------------------------------------------------
NoRow == [Features(<<1>>, 1) EXCEPT !.source_bar_count = 0]
Bars == 1 .. MaxBars

Init ==
  /\ closes = <<>>
  /\ table = [b \in Bars |-> NoRow]

NewBar ==
  /\ Len(closes) < MaxBars
  /\ \E c \in Closes : closes' = Append(closes, c)
  /\ UNCHANGED table

\* The bars of a request for the newest n, as the engine orders them
Latest(n) == SubSeq(closes, AtLeast(Len(closes) - n + 1, 1), Len(closes))

\* Every bar of the request gets a row, in place of the one it has.
Compute ==
  \E n \in Limits :
    LET w == Latest(n)
        before == Len(closes) - Len(w)
    IN  /\ table' = [b \in Bars |-> IF b - before \in DOMAIN w THEN Features(w, b - before)
                                    ELSE table[b]]
        /\ UNCHANGED closes

Next == NewBar \/ Compute

Spec == Init /\ [][Next]_vars
-----------------------------------------------------------------------------
(* Properties                                                              *)

\* min_feature_points of the strategies' manifests, for these periods
Needed == [EQ_TREND_001 |-> Long, EQ_REVERSION_001 |-> BbPeriod,
           EQ_MOMENTUM_001 |-> AtLeast(Slow + Smooth, RsiPeriod + 1)]

\* The features of a row, as a strategy is given them
Given(row) == [f \in {"close"} \cup {n \in Names \ {"close"} : row[n] # None} |-> 0]
Flat(row) == row.bb[2] = 0

\* Manifests ask for a number of bars and validate_features asks for features: a
\* strategy judges a row from that number on and not before, whatever window the
\* row was computed from, flat bands excepted.
CountDecides ==
  \A b \in Bars : \A s \in Strategy :
    s \in Judges(Given(table[b])) <=>
      /\ table[b].source_bar_count >= Needed[s]
      /\ s = "EQ_REVERSION_001" => ~Flat(table[b])

\* A row that is computed again, from more bars or from fewer, keeps each value that
\* comes from a window of its own, or loses it: the upsert never changes one.
Windowed == {"return_1", "sma_3", "sma_5", "sma_20", "volatility_5", "rsi_14", "bb", "bb_pct_b"}
ValuesStand ==
  [][\A b \in Bars : \A f \in Windowed :
       table[b][f] # None => table'[b][f] \in {table[b][f], None}]_vars

\* The averages of the MACD are not of that kind, their seed is where the window begins;
\* but what two beginnings differ by shrinks with every bar after the seed.
SeedFades ==
  \A period \in {Fast, Slow} : \A n \in period .. Len(closes) :
    LET i == Len(closes)
        far == Ema(closes, i, period)[1]
        near == Ema(Latest(n), n, period)[1]
        widest == Max(Closes) - Min(Closes)
    IN  Abs(far - near) * Power(period + 1, n - period)
          <= Scale * widest * Power(period - 1, n - period)
=============================================================================
