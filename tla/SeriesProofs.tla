----------------------------- MODULE SeriesProofs -----------------------------
(***************************************************************************)
(* What the formulas of the strategies promise for every row of integers,  *)
(* and what the table of features promises them, for any history of bars,  *)
(* any periods and any windows it is computed from.  Then the backtest,    *)
(* which walks over such a history: its stops, its cash and its drawdown,  *)
(* whatever the strategy says, for any prices, sizes and fees.             *)
(***************************************************************************)
EXTENDS Indicators, Backtest, SumTheorems, SequenceTheorems

\* The rows that features of any strategy may make up
Row == UNION {[A -> Int] : A \in SUBSET Names}

LEMMA ClampedRange ==
  ASSUME NEW s \in Strategy, NEW n \in Int
  PROVE  Clamped(s, n) \in 0 .. One[s]
BY DEF Clamped, AtMost, AtLeast, One, Strategy

\* A row that a strategy judges has an integer for each feature it needs.
LEMMA RequiredAreIntegers ==
  ASSUME NEW v \in Row, NEW s \in Judges(v), NEW f \in Required[s]
  PROVE  f \in DOMAIN v /\ v[f] \in Int
<1>1. PICK A \in SUBSET Names : v \in [A -> Int]
  BY DEF Row
<1>2. f \in DOMAIN v
  BY DEF Judges
<1> QED BY <1>1, <1>2

LEMMA JudgesAreStrategies ==
  ASSUME NEW v \in Row
  PROVE  Judges(v) \subseteq Strategy
BY DEF Judges

LEMMA DirectionAndConfidence ==
  ASSUME NEW v \in Row, NEW s \in Judges(v)
  PROVE  /\ Direction(s, v) \in Directions
         /\ Confidence(s, v) \in 0 .. One[s]
<1>1. s \in Strategy
  BY JudgesAreStrategies
<1>2. CASE s = "EQ_TREND_001"
  <2>1. /\ v["close"] \in Int /\ v["sma_3"] \in Int /\ v["sma_5"] \in Int
        /\ v["return_1"] \in Int /\ v["volatility_5"] \in Int
    BY <1>2, RequiredAreIntegers DEF Required
  <2>2. Direction(s, v) = TrendDirection(v) /\ Confidence(s, v) = TrendConfidence(v)
    BY <1>2 DEF Direction, Confidence
  <2>3. TrendDirection(v) \in Directions
    BY <2>1 DEF TrendDirection, Directions
  <2>4. 300 + 70 * AtMost(Abs(v["close"] - v["sma_5"]), 3)
            + 75 * AtMost(Abs(v["sma_3"] - v["sma_5"]), 2)
            - 30 * AtMost(v["volatility_5"], 6) \in Int
    BY <2>1 DEF AtMost, Abs
  <2>5. TrendConfidence(v) \in 0 .. One[s]
    BY <1>1, <1>2, <2>4, ClampedRange DEF TrendConfidence
  <2> QED BY <2>2, <2>3, <2>5
<1>3. CASE s = "EQ_REVERSION_001"
  <2>1. /\ v["close"] \in Int /\ v["sma_20"] \in Int
        /\ v["rsi_14"] \in Int /\ v["bb_pct_b"] \in Int
    BY <1>3, RequiredAreIntegers DEF Required
  <2>2. /\ Direction(s, v) = ReversionDirection(v)
        /\ Confidence(s, v) = ReversionConfidence(v, ReversionDirection(v))
    BY <1>3 DEF Direction, Confidence
  <2>3. ReversionDirection(v) \in Directions
    BY <2>1 DEF ReversionDirection, Directions
  <2>4. /\ 280 + 4 * AtLeast(RsiOversold - v["rsi_14"], 0)
               + 7 * AtLeast(BbLower - v["bb_pct_b"], 0) \in Int
        /\ 280 + 4 * AtLeast(v["rsi_14"] - RsiOverbought, 0)
               + 7 * AtLeast(v["bb_pct_b"] - BbUpper, 0) \in Int
    BY <2>1 DEF AtLeast, RsiOversold, RsiOverbought, BbLower, BbUpper
  <2>5. 280 \in 0 .. One[s]
    BY <1>3 DEF One
  <2>6. ASSUME NEW d \in Directions PROVE ReversionConfidence(v, d) \in 0 .. One[s]
    BY <1>1, <1>3, <2>4, <2>5, ClampedRange DEF ReversionConfidence, Directions
  <2> QED BY <2>2, <2>3, <2>6
<1>4. CASE s = "EQ_MOMENTUM_001"
  <2>1. /\ v["macd"] \in Int /\ v["macd_hist"] \in Int
        /\ v["rsi_14"] \in Int /\ v["return_1"] \in Int
    BY <1>4, RequiredAreIntegers DEF Required
  <2>2. /\ Direction(s, v) = MomentumDirection(v)
        /\ Confidence(s, v) = MomentumConfidence(v, MomentumDirection(v))
    BY <1>4 DEF Direction, Confidence
  <2>3. MomentumDirection(v) \in Directions
    BY <2>1 DEF MomentumDirection, Directions
  <2>4. ASSUME NEW d \in Directions
        PROVE  550 + 33 * AtMost(Abs(v["macd_hist"]), 10)
                   + 10 * AtLeast(IF d = "buy" THEN v["rsi_14"] - 50 ELSE 50 - v["rsi_14"], 0)
                 \in Int
    BY <2>1 DEF AtMost, AtLeast, Abs
  <2>5. 550 \in 0 .. One[s]
    BY <1>4 DEF One
  <2>6. ASSUME NEW d \in Directions PROVE MomentumConfidence(v, d) \in 0 .. One[s]
    BY <1>1, <1>4, <2>4, <2>5, ClampedRange DEF MomentumConfidence
  <2> QED BY <2>2, <2>3, <2>6
<1> QED BY <1>1, <1>2, <1>3, <1>4 DEF Strategy
\* Whatever scores and penalty add up to, what a strategy says of a row that it
\* judges is a direction and a confidence between 0 and 1 (docs/strategies.md:11;
\* the max and min at the end of every _confidence).
THEOREM ConfidenceIsAProbability ==
  ASSUME NEW v \in Row, NEW s \in Judges(v)
  PROVE  Generate(v)[s] \in [direction : Directions, confidence : 0 .. One[s]]
BY DirectionAndConfidence DEF Generate
-----------------------------------------------------------------------------
\* The mirrored row has the same features, each of them turned around.
LEMMA MirrorOfFeature ==
  ASSUME NEW v \in Row, NEW f \in DOMAIN v
  PROVE  /\ DOMAIN Mirror(v) = DOMAIN v
         /\ Mirror(v)[f] = IF f \in {"rsi_14", "bb_pct_b"} THEN 100 - v[f]
                           ELSE IF f = "volatility_5" THEN v[f] ELSE -v[f]
BY DEF Mirror

LEMMA MirrorOfStrategy ==
  ASSUME NEW v \in Row, NEW s \in Judges(v)
  PROVE  /\ Direction(s, Mirror(v)) = Opposite[Direction(s, v)]
         /\ Confidence(s, Mirror(v)) = Confidence(s, v)
<1> DEFINE w == Mirror(v)
<1>1. s \in Strategy
  BY JudgesAreStrategies
<1>2. CASE s = "EQ_TREND_001"
  <2>1. /\ v["close"] \in Int /\ v["sma_3"] \in Int /\ v["sma_5"] \in Int
        /\ v["return_1"] \in Int /\ v["volatility_5"] \in Int
    BY <1>2, RequiredAreIntegers DEF Required
  <2>2. /\ w["close"] = -v["close"] /\ w["sma_3"] = -v["sma_3"] /\ w["sma_5"] = -v["sma_5"]
        /\ w["return_1"] = -v["return_1"] /\ w["volatility_5"] = v["volatility_5"]
    BY <1>2, RequiredAreIntegers, MirrorOfFeature DEF Required
  <2> HIDE DEF w
  <2>3. TrendDirection(w) = Opposite[TrendDirection(v)]
    BY <2>1, <2>2 DEF TrendDirection, Opposite
  <2>4. /\ Abs(w["close"] - w["sma_5"]) = Abs(v["close"] - v["sma_5"])
        /\ Abs(w["sma_3"] - w["sma_5"]) = Abs(v["sma_3"] - v["sma_5"])
    BY <2>1, <2>2 DEF Abs
  <2>5. TrendConfidence(w) = TrendConfidence(v)
    BY <2>2, <2>4 DEF TrendConfidence
  <2> QED BY <1>2, <2>3, <2>5 DEF Direction, Confidence, w
<1>3. CASE s = "EQ_REVERSION_001"
  <2>1. /\ v["close"] \in Int /\ v["sma_20"] \in Int
        /\ v["rsi_14"] \in Int /\ v["bb_pct_b"] \in Int
    BY <1>3, RequiredAreIntegers DEF Required
  <2>2. /\ w["close"] = -v["close"] /\ w["sma_20"] = -v["sma_20"]
        /\ w["rsi_14"] = 100 - v["rsi_14"] /\ w["bb_pct_b"] = 100 - v["bb_pct_b"]
    BY <1>3, RequiredAreIntegers, MirrorOfFeature DEF Required
  <2> HIDE DEF w
  <2>3. ReversionDirection(w) = Opposite[ReversionDirection(v)]
    BY <2>1, <2>2 DEF ReversionDirection, Opposite, RsiOversold, RsiOverbought, BbLower, BbUpper
  <2>4. /\ RsiOversold - w["rsi_14"] = v["rsi_14"] - RsiOverbought
        /\ w["rsi_14"] - RsiOverbought = RsiOversold - v["rsi_14"]
        /\ BbLower - w["bb_pct_b"] = v["bb_pct_b"] - BbUpper
        /\ w["bb_pct_b"] - BbUpper = BbLower - v["bb_pct_b"]
    BY <2>1, <2>2 DEF RsiOversold, RsiOverbought, BbLower, BbUpper
  <2>5. ReversionDirection(v) \in Directions
    BY DEF ReversionDirection, Directions
  <2>6. ASSUME NEW d \in Directions
        PROVE  ReversionConfidence(w, Opposite[d]) = ReversionConfidence(v, d)
    BY <2>4 DEF ReversionConfidence, Opposite, Directions
  <2> QED BY <1>3, <2>3, <2>5, <2>6 DEF Direction, Confidence, w
<1>4. CASE s = "EQ_MOMENTUM_001"
  <2>1. /\ v["macd"] \in Int /\ v["macd_hist"] \in Int
        /\ v["rsi_14"] \in Int /\ v["return_1"] \in Int
    BY <1>4, RequiredAreIntegers DEF Required
  <2>2. /\ w["macd"] = -v["macd"] /\ w["macd_hist"] = -v["macd_hist"]
        /\ w["rsi_14"] = 100 - v["rsi_14"] /\ w["return_1"] = -v["return_1"]
    BY <1>4, RequiredAreIntegers, MirrorOfFeature DEF Required
  <2> HIDE DEF w
  <2>3. MomentumDirection(w) = Opposite[MomentumDirection(v)]
    BY <2>1, <2>2 DEF MomentumDirection, Opposite, RsiBuy, RsiSell
  <2>4. /\ Abs(w["macd_hist"]) = Abs(v["macd_hist"])
        /\ w["rsi_14"] - 50 = 50 - v["rsi_14"] /\ 50 - w["rsi_14"] = v["rsi_14"] - 50
    BY <2>1, <2>2 DEF Abs
  <2>5. MomentumDirection(v) \in Directions
    BY DEF MomentumDirection, Directions
  <2>6. ASSUME NEW d \in Directions
        PROVE  MomentumConfidence(w, Opposite[d]) = MomentumConfidence(v, d)
    BY <2>4 DEF MomentumConfidence, Opposite, Directions
  <2> QED BY <1>4, <2>3, <2>5, <2>6 DEF Direction, Confidence, w
<1> QED BY <1>1, <1>2, <1>3, <1>4 DEF Strategy

\* "SELL: mirror formula" (docs/strategies.md:67), of all strategies: the mirrored
\* row is judged by the same, to the opposite and with the same confidence.  The
\* constants of buys and of sells are written apart in the code; none has slipped.
THEOREM SellsMirrorBuys ==
  ASSUME NEW v \in Row
  PROVE  Generate(Mirror(v)) =
           [s \in Judges(v) |-> [direction |-> Opposite[Generate(v)[s].direction],
                                 confidence |-> Generate(v)[s].confidence]]
<1>1. Judges(Mirror(v)) = Judges(v)
  BY DEF Judges, Mirror
<1>2. \A s \in Judges(v) :
        /\ Generate(v)[s].direction = Direction(s, v)
        /\ Generate(v)[s].confidence = Confidence(s, v)
  BY DEF Generate
<1>3. \A s \in Judges(v) :
        /\ Direction(s, Mirror(v)) = Opposite[Generate(v)[s].direction]
        /\ Confidence(s, Mirror(v)) = Generate(v)[s].confidence
  BY <1>2, MirrorOfStrategy
<1> QED BY <1>1, <1>3 DEF Generate

\* "deeper oversold = higher confidence" (docs/strategies.md:66): of two rows on
\* which the reversion strategy decides alike, the one further beyond both
\* thresholds is not less sure.
THEOREM DeeperIsSurer ==
  ASSUME NEW v \in Row, NEW w \in Row,
         "EQ_REVERSION_001" \in Judges(v) \cap Judges(w),
         ReversionDirection(w) = ReversionDirection(v),
         ReversionDirection(v) # "hold",
         Deeper(v, w, ReversionDirection(v))
  PROVE  Confidence("EQ_REVERSION_001", w) >= Confidence("EQ_REVERSION_001", v)
<1>1. /\ v["rsi_14"] \in Int /\ v["bb_pct_b"] \in Int
      /\ w["rsi_14"] \in Int /\ w["bb_pct_b"] \in Int
  BY RequiredAreIntegers DEF Required
<1>2. CASE ReversionDirection(v) = "buy"
  BY <1>1, <1>2 DEF Confidence, ReversionConfidence, Deeper, Clamped, AtMost, AtLeast, One,
     RsiOversold, BbLower
<1>3. CASE ReversionDirection(v) = "sell"
  BY <1>1, <1>3 DEF Confidence, ReversionConfidence, Deeper, Clamped, AtMost, AtLeast, One,
     RsiOverbought, BbUpper
<1>4. ReversionDirection(v) \in {"buy", "sell", "hold"}
  BY DEF ReversionDirection
<1> QED BY <1>2, <1>3, <1>4
-----------------------------------------------------------------------------
(* The table of features.                                                  *)

\* A row is computed from a window of closes that stand in the history.
FromWindow(b, w, before) ==
  /\ b - before \in 1 .. Len(w) /\ before + Len(w) <= Len(closes)
  /\ \A j \in 1 .. Len(w) : w[j] = closes[before + j]
  /\ table[b] = Features(w, b - before)

Computed ==
  /\ closes \in Seq(Closes)
  /\ \A b \in Bars : table[b] = NoRow \/ \E w \in Seq(Closes), before \in Nat : FromWindow(b, w, before)

LEMMA Periods ==
  /\ Short \in Nat /\ Short > 1 /\ Long \in Nat /\ Long > Short /\ Long > 2
  /\ RsiPeriod \in Nat /\ RsiPeriod > 1 /\ BbPeriod \in Nat /\ BbPeriod > RsiPeriod
  /\ Fast \in Nat \ {0} /\ Slow \in Nat /\ Slow > Fast /\ Smooth \in Nat \ {0}
  /\ Limits \subseteq Nat \ {0} /\ MaxBars \in Nat
BY IndicatorsConstants DEF IndicatorsConstants

\* The newest closes that are asked for, and where they begin.
LEMMA LatestIs ==
  ASSUME closes \in Seq(Closes), NEW n \in Nat \ {0}
  PROVE  /\ Latest(n) \in Seq(Closes)
         /\ Len(closes) - Len(Latest(n)) \in Nat
         /\ n <= Len(closes) => Len(Latest(n)) = n
         /\ \A j \in 1 .. Len(Latest(n)) :
              Latest(n)[j] = closes[Len(closes) - Len(Latest(n)) + j]
<1> DEFINE first == AtLeast(Len(closes) - n + 1, 1)
<1>1. /\ n \in Nat \ {0} /\ Len(closes) \in Nat /\ first \in Nat \ {0}
      /\ first <= Len(closes) + 1
  BY DEF AtLeast
<1>2. /\ SubSeq(closes, first, Len(closes)) \in Seq(Closes)
      /\ Len(SubSeq(closes, first, Len(closes))) = Len(closes) - first + 1
      /\ \A j \in 1 .. Len(closes) - first + 1 :
           SubSeq(closes, first, Len(closes))[j] = closes[first + j - 1]
  BY <1>1, SubSeqProperties
<1>3. Latest(n) = SubSeq(closes, first, Len(closes))
  BY DEF Latest
<1>. HIDE DEF first
<1>4. /\ Len(Latest(n)) = Len(closes) - first + 1
      /\ \A j \in 1 .. Len(closes) - first + 1 : Latest(n)[j] = closes[first + j - 1]
  BY <1>2, <1>3
<1>5. Len(closes) - Len(Latest(n)) = first - 1
  BY <1>1, <1>4
<1>6. ASSUME NEW j \in 1 .. Len(Latest(n))
      PROVE  Latest(n)[j] = closes[Len(closes) - Len(Latest(n)) + j]
  <2>1. j \in 1 .. Len(closes) - first + 1 /\ j \in Nat
    BY <1>1, <1>4
  <2>2. first + j - 1 = Len(closes) - Len(Latest(n)) + j
    BY <1>1, <1>5, <2>1
  <2>. QED BY <1>4, <2>1, <2>2
<1>7. Latest(n) \in Seq(Closes) /\ Len(closes) - Len(Latest(n)) \in Nat
  <2>1. first - 1 \in Nat
    BY <1>1
  <2>. QED BY <1>2, <1>3, <1>5, <2>1
<1>8. n <= Len(closes) => Len(Latest(n)) = n
  <2>1. n <= Len(closes) => first = Len(closes) - n + 1
    BY <1>1 DEF AtLeast, first
  <2>. QED BY <1>1, <1>4, <2>1
<1>. QED BY <1>6, <1>7, <1>8

LEMMA ComputedPreserved == ASSUME Computed, [Next]_vars PROVE Computed'
<1>0. closes \in Seq(Closes) /\ Len(closes) \in Nat
  BY DEF Computed
<1>1. CASE NewBar
  <2>1. PICK c \in Closes : closes' = Append(closes, c)
    BY <1>1 DEF NewBar
  <2>2. /\ closes' \in Seq(Closes) /\ Len(closes') = Len(closes) + 1
        /\ \A j \in 1 .. Len(closes) : closes'[j] = closes[j]
    BY <1>0, <2>1, AppendProperties
  <2>3. table' = table
    BY <1>1 DEF NewBar
  <2>4. ASSUME NEW b \in Bars, NEW w \in Seq(Closes), NEW before \in Nat,
               FromWindow(b, w, before)
        PROVE  FromWindow(b, w, before)'
    <3>1. Len(w) \in Nat
      OBVIOUS
    <3>. QED BY <1>0, <2>2, <2>3, <2>4, <3>1 DEF FromWindow
  <2>. QED BY <2>2, <2>3, <2>4 DEF Computed
<1>2. CASE Compute
  <2>1. PICK n \in Limits :
          LET before == Len(closes) - Len(Latest(n))
          IN  /\ table' = [b \in Bars |-> IF b - before \in DOMAIN Latest(n)
                                          THEN Features(Latest(n), b - before) ELSE table[b]]
              /\ UNCHANGED closes
    BY <1>2 DEF Compute
  <2>2. PICK w \in Seq(Closes), before \in Nat :
          /\ w = Latest(n) /\ before = Len(closes) - Len(w)
          /\ \A j \in 1 .. Len(w) : w[j] = closes[before + j]
    <3>1. n \in Nat \ {0}
      BY Periods
    <3>. QED BY <1>0, <3>1, LatestIs
  <2>3. /\ \A b \in Bars : table'[b] = IF b - before \in 1 .. Len(w)
                                         THEN Features(w, b - before) ELSE table[b]
        /\ closes' = closes /\ Len(w) \in Nat
    BY <2>1, <2>2
  <2>4. ASSUME NEW b \in Bars
        PROVE  table'[b] = NoRow
                 \/ \E v \in Seq(Closes), c \in Nat : FromWindow(b, v, c)'
    <3>1. CASE b - before \in 1 .. Len(w)
      <4>1. before + Len(w) = Len(closes)
        BY <1>0, <2>2, <2>3
      <4>2. table'[b] = Features(w, b - before)
        BY <2>3, <3>1
      <4>3. \A j \in 1 .. Len(w) : w[j] = closes'[before + j]
        BY <2>2, <2>3
      <4>4. before + Len(w) <= Len(closes')
        BY <1>0, <2>3, <4>1
      <4>5. FromWindow(b, w, before)'
        BY <3>1, <4>2, <4>3, <4>4 DEF FromWindow
      <4>. QED BY <4>5
    <3>2. CASE b - before \notin 1 .. Len(w)
      <4>1. table'[b] = table[b]
        BY <2>3, <3>2
      <4>. QED BY <2>3, <4>1 DEF Computed, FromWindow
    <3>. QED BY <3>1, <3>2
  <2>. QED BY <1>0, <2>3, <2>4 DEF Computed
<1>3. CASE UNCHANGED vars
  BY <1>3 DEF vars, Computed, FromWindow
<1>. QED BY <1>1, <1>2, <1>3 DEF Next

LEMMA ComputedAlways == Spec => []Computed
<1>1. Init => Computed
  BY DEF Init, Computed, Bars
<1>2. Computed /\ [Next]_vars => Computed'
  BY ComputedPreserved
<1>. QED BY <1>1, <1>2, PTL DEF Spec
-----------------------------------------------------------------------------
(* Which features a row has.                                               *)

LEMMA SomeIsNotNone == \A a, b : <<a>> # None /\ <<a, b>> # None
BY DEF None

\* From how many bars on each feature can be computed.
LEMMA FeaturesBegin ==
  ASSUME NEW w, NEW i \in Nat
  PROVE  /\ Features(w, i).source_bar_count = i
         /\ Features(w, i).return_1 # None <=> i # 1
         /\ Features(w, i).sma_3 # None <=> i >= Short
         /\ Features(w, i).sma_5 # None <=> i >= Long
         /\ Features(w, i).sma_20 # None <=> i >= BbPeriod
         /\ Features(w, i).volatility_5 # None <=> i >= Long
         /\ Features(w, i).rsi_14 # None <=> i > RsiPeriod
         /\ i >= BbPeriod => (Features(w, i).bb_pct_b # None <=> Features(w, i).bb[2] # 0)
         /\ Features(w, i).bb_pct_b # None => i >= BbPeriod
         /\ Features(w, i).macd # None <=> i >= Slow
         /\ Features(w, i).macd_signal # None <=> i >= Slow + Smooth
         /\ Features(w, i).macd_hist # None <=> i >= Slow + Smooth
<1>1. Return(w, i) # None <=> i # 1
  BY SomeIsNotNone DEF Return
<1>2. /\ Sma(w, i, Short) # None <=> i >= Short
      /\ Sma(w, i, Long) # None <=> i >= Long
      /\ Sma(w, i, BbPeriod) # None <=> i >= BbPeriod
  BY Periods, SomeIsNotNone DEF Sma
<1>3. Volatility(w, i) # None <=> i >= Long
  BY Periods, SomeIsNotNone DEF Volatility
<1>4. Rsi(w, i) # None <=> i > RsiPeriod
  <2>1. \A g, l : RsiOf(g, l) # None
    BY SomeIsNotNone DEF RsiOf
  <2>. QED BY <2>1, Periods DEF Rsi
<1>5. /\ i >= BbPeriod => (PercentB(w, i) # None <=> Bands(w, i)[2] # 0)
      /\ PercentB(w, i) # None => i >= BbPeriod
  BY Periods, SomeIsNotNone DEF PercentB, Bands
<1>6. Macd(w, i) # None <=> i >= Slow
  BY Periods, SomeIsNotNone DEF Macd
<1>7. MacdSignal(w, i) # None <=> i >= Slow + Smooth
  BY Periods, SomeIsNotNone DEF MacdSignal
<1>8. MacdHist(w, i) # None <=> i >= Slow + Smooth
  BY <1>7, SomeIsNotNone DEF MacdHist
<1>. QED BY <1>1, <1>2, <1>3, <1>4, <1>5, <1>6, <1>7, <1>8 DEF Features

LEMMA EmptyRow ==
  /\ NoRow.source_bar_count = 0
  /\ \A f \in Windowed \cup {"macd", "macd_signal", "macd_hist"} : NoRow[f] = None
<1>1. \A f \in Windowed \cup {"macd", "macd_signal", "macd_hist"} : Features(<<1>>, 1)[f] = None
  BY Periods DEF Windowed, Features, Return, Sma, Volatility, Rsi, Bands, PercentB, Macd,
                 MacdSignal, MacdHist
<1>. QED BY <1>1 DEF NoRow, Features, Windowed

\* What a strategy is given of a row
LEMMA JudgesOf ==
  ASSUME NEW row, NEW s \in Strategy
  PROVE  s \in Judges(Given(row)) <=> \A f \in Required[s] \ {"close"} : row[f] # None
<1>1. DOMAIN Given(row) = {"close"} \cup {n \in Names \ {"close"} : row[n] # None}
  BY DEF Given
<1>2. Required[s] \subseteq Names
  BY DEF Strategy, Required, Names
<1>. QED BY <1>1, <1>2 DEF Judges

\* A strategy judges a row from the number of bars of its manifest on, whatever window
\* the row was computed from (validation.py; min_feature_points of the manifests).
THEOREM CountDecidesAlways == Spec => []CountDecides
<1>1. ASSUME Computed, NEW b \in Bars, NEW s \in Strategy
      PROVE  s \in Judges(Given(table[b])) <=>
               /\ table[b].source_bar_count >= Needed[s]
               /\ s = "EQ_REVERSION_001" => ~Flat(table[b])
  <2> DEFINE Judged == \A f \in Required[s] \ {"close"} : table[b][f] # None
             Enough == table[b].source_bar_count >= Needed[s]
                         /\ (s = "EQ_REVERSION_001" => ~Flat(table[b]))
  <2>1. SUFFICES Judged <=> Enough
    BY JudgesOf
  <2>2. CASE table[b] = NoRow
    <3>1. \E f \in Required[s] \ {"close"} : NoRow[f] = None
      BY EmptyRow DEF Required, Strategy, Windowed
    <3>2. ~ (0 >= Needed[s])
      BY Periods DEF Needed, Strategy, AtLeast
    <3>. QED BY <2>2, <3>1, <3>2, EmptyRow
  <2>3. ASSUME NEW w \in Seq(Closes), NEW before \in Nat, FromWindow(b, w, before)
        PROVE  Judged <=> Enough
    <3> DEFINE i == b - before
               row == Features(w, i)
    <3>1. i \in Nat /\ i >= 1 /\ table[b] = row
      BY <2>3 DEF FromWindow
    <3>. HIDE DEF i
    <3>2. CASE s = "EQ_TREND_001"
      <4>1. Judged <=> /\ row.sma_3 # None /\ row.sma_5 # None
                       /\ row.return_1 # None /\ row.volatility_5 # None
        BY <3>1, <3>2 DEF Required
      <4>2. Enough <=> i >= Long
        BY <3>1, <3>2, FeaturesBegin DEF Needed
      <4>. QED BY <3>1, <4>1, <4>2, FeaturesBegin, Periods
    <3>3. CASE s = "EQ_REVERSION_001"
      <4>1. Judged <=> row.sma_20 # None /\ row.rsi_14 # None /\ row.bb_pct_b # None
        BY <3>1, <3>3 DEF Required
      <4>2. Enough <=> i >= BbPeriod /\ row.bb[2] # 0
        BY <3>1, <3>3, FeaturesBegin DEF Needed, Flat
      <4>. QED BY <3>1, <4>1, <4>2, FeaturesBegin, Periods
    <3>4. CASE s = "EQ_MOMENTUM_001"
      <4>1. Judged <=> /\ row.return_1 # None /\ row.macd # None /\ row.macd_signal # None
                       /\ row.macd_hist # None /\ row.rsi_14 # None
        BY <3>1, <3>4 DEF Required
      <4>2. Enough <=> i >= Slow + Smooth /\ i >= RsiPeriod + 1
        BY <3>1, <3>4, FeaturesBegin, Periods DEF Needed, AtLeast
      <4>. QED BY <3>1, <4>1, <4>2, FeaturesBegin, Periods
    <3>. QED BY <3>2, <3>3, <3>4 DEF Strategy
  <2>. QED BY <1>1, <2>2, <2>3 DEF Computed
<1>2. Computed => CountDecides
  BY <1>1 DEF CountDecides
<1>. QED BY <1>2, ComputedAlways, PTL
-----------------------------------------------------------------------------
(* Rows that are computed again.                                           *)

\* Two windows that look at the same bars of a history see the same closes.
LEMMA SameWindow ==
  ASSUME NEW w \in Seq(Closes), NEW v \in Seq(Closes), NEW n \in Nat \ {0},
         NEW i \in n .. Len(w), NEW k \in n .. Len(v),
         \A m \in 0 .. n - 1 : w[i - m] = v[k - m]
  PROVE  Window(w, i, n) = Window(v, k, n)
<1>1. /\ Window(w, i, n) \in Seq(Closes) /\ Len(Window(w, i, n)) = n
      /\ \A j \in 1 .. n : Window(w, i, n)[j] = w[i - (n - j)]
  BY SubSeqProperties DEF Window
<1>2. /\ Window(v, k, n) \in Seq(Closes) /\ Len(Window(v, k, n)) = n
      /\ \A j \in 1 .. n : Window(v, k, n)[j] = v[k - (n - j)]
  BY SubSeqProperties DEF Window
<1>3. ASSUME NEW j \in 1 .. n PROVE Window(w, i, n)[j] = Window(v, k, n)[j]
  <2>1. n - j \in 0 .. n - 1
    OBVIOUS
  <2>. QED BY <1>1, <1>2, <2>1
<1>. QED BY <1>1, <1>2, <1>3, SeqEqual

\* A feature of a window is that of any other window that ends with the same bars, if it
\* can be computed there.
LEMMA SameValue ==
  ASSUME NEW w \in Seq(Closes), NEW v \in Seq(Closes),
         NEW i \in 1 .. Len(w), NEW k \in 1 .. Len(v),
         \A m \in Nat : m < i /\ m < k => w[i - m] = v[k - m],
         NEW f \in Windowed, Features(w, i)[f] # None
  PROVE  Features(v, k)[f] \in {Features(w, i)[f], None}
<1>0. i \in Nat \ {0} /\ k \in Nat \ {0} /\ i <= Len(w) /\ k <= Len(v)
  OBVIOUS
<1>2. ASSUME NEW n \in Nat \ {0}, i >= n, k >= n PROVE Window(w, i, n) = Window(v, k, n)
  <2>1. \A m \in 0 .. n - 1 : w[i - m] = v[k - m]
    <3>1. \A m \in 0 .. n - 1 : m \in Nat /\ m < i /\ m < k
      BY <1>0, <1>2
    <3>. QED BY <3>1
  <2>2. i \in n .. Len(w) /\ k \in n .. Len(v)
    BY <1>0, <1>2
  <2>. QED BY <2>1, <2>2, SameWindow
<1>3. w[i] = v[k]
  <2>1. w[i - 0] = v[k - 0]
    BY <1>0
  <2>. QED BY <1>0, <2>1
<1>4. CASE f = "return_1"
  <2>1. i # 1 /\ Features(v, k)[f] = Return(v, k) /\ Features(w, i)[f] = Return(w, i)
    BY <1>0, <1>4, FeaturesBegin DEF Features
  <2>2. CASE k # 1
    <3>1. w[i - 1] = v[k - 1]
      BY <1>0, <2>1, <2>2
    <3>. QED BY <1>3, <2>1, <2>2, <3>1 DEF Return
  <2>. QED BY <2>1, <2>2 DEF Return
<1>5. ASSUME NEW n \in Nat \ {0}, Sma(w, i, n) # None
      PROVE  Sma(v, k, n) \in {Sma(w, i, n), None}
  <2>1. i >= n
    BY <1>0, <1>5 DEF Sma
  <2>2. k >= n => Window(w, i, n) = Window(v, k, n)
    BY <1>2, <2>1
  <2>. QED BY <1>0, <2>1, <2>2 DEF Sma
<1>6. CASE f \in {"sma_3", "sma_5", "sma_20"}
  <2>1. /\ Short \in Nat \ {0} /\ Long \in Nat \ {0} /\ BbPeriod \in Nat \ {0}
    BY Periods
  <2>2. PICK n \in {Short, Long, BbPeriod} :
          Features(w, i)[f] = Sma(w, i, n) /\ Features(v, k)[f] = Sma(v, k, n)
    BY <1>6 DEF Features
  <2>. QED BY <1>5, <2>1, <2>2
<1>7. CASE f = "volatility_5"
  <2>1. Features(w, i)[f] = Volatility(w, i) /\ Features(v, k)[f] = Volatility(v, k)
    BY <1>7 DEF Features
  <2>2. i >= Long /\ Long \in Nat \ {0}
    BY <1>0, <2>1, Periods DEF Volatility
  <2>3. k >= Long => Window(w, i, Long) = Window(v, k, Long)
    BY <1>2, <2>2
  <2> DEFINE Of(x) == <<Spread([j \in 1 .. Long - 1 |-> Return(x, j + 1)[1]])>>
  <2>4. /\ Volatility(w, i) = IF i < Long THEN None ELSE Of(Window(w, i, Long))
        /\ Volatility(v, k) = IF k < Long THEN None ELSE Of(Window(v, k, Long))
    BY DEF Volatility
  <2>. HIDE DEF Of
  <2>. QED BY <1>0, <2>1, <2>2, <2>3, <2>4
<1>8. CASE f = "rsi_14"
  <2>1. Features(w, i)[f] = Rsi(w, i) /\ Features(v, k)[f] = Rsi(v, k)
    BY <1>8 DEF Features
  <2>2. i > RsiPeriod /\ RsiPeriod \in Nat \ {0}
    BY <1>0, <2>1, Periods DEF Rsi
  <2>3. k > RsiPeriod => Window(w, i, RsiPeriod) = Window(v, k, RsiPeriod)
    BY <1>0, <1>2, <2>2
  <2>. QED BY <1>0, <2>1, <2>2, <2>3 DEF Rsi
<1>9. CASE f \in {"bb", "bb_pct_b"}
  <2>1. IF f = "bb" THEN Features(w, i)[f] = Bands(w, i) /\ Features(v, k)[f] = Bands(v, k)
        ELSE Features(w, i)[f] = PercentB(w, i) /\ Features(v, k)[f] = PercentB(v, k)
    BY <1>9 DEF Features
  <2>2. i >= BbPeriod /\ BbPeriod \in Nat \ {0}
    BY <1>0, <1>9, <2>1, Periods DEF Bands, PercentB
  <2>3. k >= BbPeriod => Window(w, i, BbPeriod) = Window(v, k, BbPeriod)
    BY <1>2, <2>2
  <2>4. Bands(v, k) \in {Bands(w, i), None}
    BY <1>0, <2>2, <2>3 DEF Bands
  <2>5. PercentB(v, k) \in {PercentB(w, i), None}
    BY <1>0, <1>3, <2>2, <2>3 DEF PercentB
  <2>. QED BY <2>1, <2>4, <2>5
<1>. QED BY <1>4, <1>6, <1>7, <1>8, <1>9 DEF Windowed

\* Rows are upserted again and again from other windows (features/service.py), and the
\* values that windows of their own decide are never changed by that, only left out.
THEOREM ValuesStandAlways == Spec => ValuesStand
<1>1. ASSUME Computed, Computed', [Next]_vars, NEW b \in Bars, NEW f \in Windowed,
             table[b][f] # None
      PROVE  table'[b][f] \in {table[b][f], None}
  <2>1. CASE table' = table
    BY <2>1
  <2>2. CASE Compute
    <3>1. closes' = closes
      BY <2>2 DEF Compute
    <3>2. PICK w \in Seq(Closes), p \in Nat : FromWindow(b, w, p)
      BY <1>1, EmptyRow DEF Computed
    <3>3. CASE table'[b] = NoRow
      BY <3>3, EmptyRow
    <3>4. ASSUME NEW v \in Seq(Closes), NEW q \in Nat, FromWindow(b, v, q)'
          PROVE  table'[b][f] \in {table[b][f], None}
      <4>1. /\ b - p \in 1 .. Len(w) /\ b - q \in 1 .. Len(v)
            /\ \A j \in 1 .. Len(w) : w[j] = closes[p + j]
            /\ \A j \in 1 .. Len(v) : v[j] = closes[q + j]
            /\ table[b] = Features(w, b - p) /\ table'[b] = Features(v, b - q)
        BY <3>1, <3>2, <3>4 DEF FromWindow
      <4>2. \A m \in Nat : m < b - p /\ m < b - q => w[(b - p) - m] = v[(b - q) - m]
        <5>1. SUFFICES ASSUME NEW m \in Nat, m < b - p, m < b - q
                       PROVE  w[(b - p) - m] = v[(b - q) - m]
          OBVIOUS
        <5>2. /\ (b - p) - m \in 1 .. Len(w) /\ (b - q) - m \in 1 .. Len(v)
              /\ p + ((b - p) - m) = b - m /\ q + ((b - q) - m) = b - m
          BY <4>1, <5>1, Periods DEF Bars
        <5>. QED BY <4>1, <5>2
      <4>3. Features(w, b - p)[f] # None
        BY <1>1, <4>1
      <4>4. Features(v, b - q)[f] \in {Features(w, b - p)[f], None}
        BY <4>1, <4>2, <4>3, SameValue
      <4>. QED BY <4>1, <4>4
    <3>. QED BY <1>1, <3>3, <3>4 DEF Computed, Bars
  <2>. QED BY <1>1, <2>1, <2>2 DEF Next, NewBar, vars
<1>2. Computed /\ Computed' /\ [Next]_vars =>
        [\A b \in Bars : \A f \in Windowed :
           table[b][f] # None => table'[b][f] \in {table[b][f], None}]_vars
  BY <1>1
<1>. QED BY <1>2, ComputedAlways, PTL DEF Spec, ValuesStand
-----------------------------------------------------------------------------
(* Powers.                                                                 *)

\* A power is a fold that multiplies.
LEMMA PowerRuns ==
  ASSUME NEW x \in Nat, NEW n \in Nat
  PROVE  \E r : /\ r[0] = 1
                /\ \A k \in 1 .. n : r[k] = r[k - 1] * x
                /\ Power(x, n) = r[n]
<1> DEFINE G == [k \in 1 .. n |-> [a \in Nat |-> a * x]]
           q == [j \in 1 .. n |-> x]
           Is(h) == h = [s \in SUBSET (1 .. n) |->
                           IF s = {} THEN 1 ELSE h[s \ {Max(s)}] * q[Max(s)]]
           c == CHOOSE h : Is(h)
<1>2. StepsIn(G, Nat, n) /\ 1 \in Nat
  <2>1. \A a \in Nat : a * x \in Nat
    OBVIOUS
  <2>. QED BY <2>1 DEF StepsIn
<1>3. PICK h \in [SUBSET (1 .. n) -> Nat] : Folds(G, 1, 1 .. n, h)
  <2>. HIDE DEF G
  <2>1. HasFold(G, 1, Nat, n)
    BY <1>2, FoldExists
  <2>. QED BY <2>1 DEF HasFold
<1>4. Is(h)
  <2>1. ASSUME NEW s \in SUBSET (1 .. n), s # {}
        PROVE  G[Max(s)][h[s \ {Max(s)}]] = h[s \ {Max(s)}] * q[Max(s)]
    <3>1. Max(s) \in 1 .. n
      BY <2>1, MaxIs
    <3>2. h[s \ {Max(s)}] \in Nat
      OBVIOUS
    <3>. QED BY <3>1, <3>2
  <2>. HIDE DEF G, q
  <2>. QED BY <1>3, <2>1 DEF Folds
<1>5. Is(c)
  <2>. HIDE DEF Is
  <2>. QED BY <1>4
<1>6. Power(x, n) = c[1 .. n]
  <2>1. Power(x, n) = FoldLeft(Times, 1, q)
    BY DEF Power
  <2>2. DOMAIN q = 1 .. n
    OBVIOUS
  <2>. HIDE DEF q
  <2>. QED BY <2>1, <2>2, Zenon DEF Times, FoldLeft, MapThenFoldSet
<1> DEFINE r == [k \in 0 .. n |-> c[1 .. k]]
<1>7. r[0] = 1
  <2>1. 1 .. 0 = {}
    OBVIOUS
  <2>2. r[0] = c[{}]
    BY <2>1
  <2>. HIDE DEF c, r
  <2>. QED BY <1>5, <2>2
<1>8. ASSUME NEW k \in 1 .. n PROVE r[k] = r[k - 1] * x
  <2>1. 1 .. k \in SUBSET (1 .. n) /\ 1 .. k # {} /\ Max(1 .. k) = k /\ (1 .. k) \ {k} = 1 .. k - 1
    BY MaxOfInterval
  <2>2. c[1 .. k] = c[1 .. k - 1] * x
    <3>1. q[k] = x
      OBVIOUS
    <3>. HIDE DEF c, q
    <3>. QED BY <1>5, <2>1, <3>1
  <2>3. k \in 0 .. n /\ k - 1 \in 0 .. n
    OBVIOUS
  <2>. HIDE DEF c
  <2>. QED BY <2>2, <2>3
<1>10. r[n] = c[1 .. n]
  OBVIOUS
<1>. HIDE DEF c, r
<1>. QED BY <1>6, <1>7, <1>8, <1>10

LEMMA PowerNext ==
  ASSUME NEW x \in Nat, NEW n \in Nat
  PROVE  Power(x, n) \in Nat /\ Power(x, n + 1) = Power(x, n) * x
<1> DEFINE G == [k \in 1 .. n |-> [a \in Nat |-> a * x]]
<1>1. PICK r : r[0] = 1 /\ (\A k \in 1 .. n : r[k] = r[k - 1] * x) /\ Power(x, n) = r[n]
  BY PowerRuns
<1>2. PICK p : /\ p[0] = 1 /\ (\A k \in 1 .. n + 1 : p[k] = p[k - 1] * x)
               /\ Power(x, n + 1) = p[n + 1]
  <2>1. n + 1 \in Nat
    OBVIOUS
  <2>. HIDE DEF G
  <2>. QED BY <2>1, PowerRuns
<1>3. StepsIn(G, Nat, n) /\ 1 \in Nat
  <2>1. \A a \in Nat : a * x \in Nat
    OBVIOUS
  <2>. QED BY <2>1 DEF StepsIn
<1>4. Runs(G, Nat, n, r)
  <2>1. ASSUME NEW k \in 1 .. n, r[k - 1] \in Nat PROVE r[k] = G[k][r[k - 1]]
    BY <1>1, <2>1
  <2>. HIDE DEF G
  <2>. QED BY <1>1, <2>1 DEF Runs
<1>5. Runs(G, Nat, n, p)
  <2>1. ASSUME NEW k \in 1 .. n, p[k - 1] \in Nat PROVE p[k] = G[k][p[k - 1]]
    <3>1. k \in 1 .. n + 1
      OBVIOUS
    <3>2. G[k][p[k - 1]] = p[k - 1] * x
      BY <2>1
    <3>. QED BY <1>2, <3>1, <3>2
  <2>. HIDE DEF G
  <2>. QED BY <1>2, <2>1 DEF Runs
<1>. HIDE DEF G
<1>6. r[n] \in Nat /\ r[n] = p[n]
  <2>1. \A k \in 0 .. n : r[k] \in Nat /\ r[k] = p[k]
    BY <1>1, <1>2, <1>3, <1>4, <1>5, RunsAgree
  <2>. QED BY <2>1
<1>7. p[n + 1] = p[n] * x
  <2>1. n + 1 \in 1 .. n + 1 /\ (n + 1) - 1 = n
    OBVIOUS
  <2>. QED BY <1>2, <2>1
<1>. QED BY <1>1, <1>2, <1>6, <1>7

LEMMA PowerFirst == ASSUME NEW x \in Nat PROVE Power(x, 0) = 1
BY PowerRuns

\* The sum of a sequence of numbers between two bounds.
LEMMA TotalBounded ==
  ASSUME NEW low \in Nat, NEW high \in Nat, NEW n \in Nat, NEW w,
         DOMAIN w = 1 .. n, \A j \in 1 .. n : w[j] \in Nat /\ low <= w[j] /\ w[j] <= high
  PROVE  Total(w) \in Nat /\ low * n <= Total(w) /\ Total(w) <= high * n
<1> DEFINE G == [k \in 1 .. n |-> [a \in Nat |-> a + w[k]]]
           Is(h) == h = [s \in SUBSET (1 .. n) |->
                           IF s = {} THEN 0 ELSE h[s \ {Max(s)}] + w[Max(s)]]
           c == CHOOSE h : Is(h)
<1>2. StepsIn(G, Nat, n) /\ 0 \in Nat
  BY DEF StepsIn
<1>3. PICK h \in [SUBSET (1 .. n) -> Nat] : Folds(G, 0, 1 .. n, h)
  <2>. HIDE DEF G
  <2>1. HasFold(G, 0, Nat, n)
    BY <1>2, FoldExists
  <2>. QED BY <2>1 DEF HasFold
<1>4. Is(h)
  <2>1. ASSUME NEW s \in SUBSET (1 .. n), s # {}
        PROVE  G[Max(s)][h[s \ {Max(s)}]] = h[s \ {Max(s)}] + w[Max(s)]
    <3>1. Max(s) \in 1 .. n
      BY <2>1, MaxIs
    <3>2. h[s \ {Max(s)}] \in Nat
      OBVIOUS
    <3>. QED BY <3>1, <3>2
  <2>. HIDE DEF G
  <2>. QED BY <1>3, <2>1 DEF Folds
<1>5. Is(c)
  <2>. HIDE DEF Is
  <2>. QED BY <1>4
<1>6. Total(w) = c[1 .. n]
  BY Zenon DEF Total, FoldLeft, MapThenFoldSet
<1>. HIDE DEF c
<1> DEFINE Good == {k \in Nat : k <= n => /\ c[1 .. k] \in Nat
                                          /\ low * k <= c[1 .. k] /\ c[1 .. k] <= high * k}
<1>7. 0 \in Good
  <2>1. 1 .. 0 = {} /\ c[{}] = 0 /\ low * 0 = 0 /\ high * 0 = 0
    BY <1>5
  <2>. QED BY <2>1
<1>8. ASSUME NEW k \in Nat, k \in Good PROVE k + 1 \in Good
  <2>. SUFFICES ASSUME k + 1 <= n
                PROVE  /\ c[1 .. k + 1] \in Nat
                       /\ low * (k + 1) <= c[1 .. k + 1] /\ c[1 .. k + 1] <= high * (k + 1)
    OBVIOUS
  <2>1. /\ 1 .. k + 1 \in SUBSET (1 .. n) /\ 1 .. k + 1 # {} /\ Max(1 .. k + 1) = k + 1
        /\ (1 .. k + 1) \ {k + 1} = 1 .. k
    <3>1. k + 1 \in Nat /\ k + 1 # 0 /\ (k + 1) - 1 = k
      OBVIOUS
    <3>2. Max(1 .. k + 1) = k + 1 /\ (1 .. k + 1) \ {k + 1} = 1 .. k
      BY <3>1, MaxOfInterval
    <3>. QED BY <3>2
  <2>2. c[1 .. k + 1] = c[1 .. k] + w[k + 1]
    BY <1>5, <2>1
  <2>3. c[1 .. k] \in Nat /\ low * k <= c[1 .. k] /\ c[1 .. k] <= high * k
    BY <1>8
  <2>4. low * (k + 1) = low * k + low /\ high * (k + 1) = high * k + high
    OBVIOUS
  <2>5. low * k \in Nat /\ high * k \in Nat
    OBVIOUS
  <2>6. w[k + 1] \in Nat /\ low <= w[k + 1] /\ w[k + 1] <= high
    OBVIOUS
  <2>. QED BY <2>2, <2>3, <2>4, <2>5, <2>6
<1>9. n \in Good
  <2>. HIDE DEF Good
  <2>. QED BY <1>7, <1>8, NatInduced
<1>. QED BY <1>6, <1>9

-----------------------------------------------------------------------------
(* The averages: what they pass through.                                   *)

\* What an average begins with, and what a close makes of it
Seed(w, p) == (Scale * Total(SubSeq(w, 1, p))) \div p
Moved(p, ema, close) == (2 * close * Scale + (p - 1) * ema) \div (p + 1)

LEMMA DividedTyped ==
  ASSUME NEW a \in Int, NEW b \in Nat \ {0} PROVE a \div b \in Int
OBVIOUS

LEMMA MovedTyped ==
  ASSUME Scale \in Nat, NEW p \in Nat \ {0}, NEW ema \in Int, NEW close \in Nat
  PROVE  Moved(p, ema, close) \in Int
<1>1. 2 * close * Scale \in Int
  <2>1. 2 * close \in Int
    OBVIOUS
  <2>. QED BY <2>1
<1>2. (p - 1) * ema \in Int
  <2>1. p - 1 \in Int
    OBVIOUS
  <2>. QED BY <2>1
<1>3. 2 * close * Scale + (p - 1) * ema \in Int /\ p + 1 \in Nat \ {0}
  BY <1>1, <1>2
<1>. QED BY <1>3, DividedTyped DEF Moved

\* An average is a fold that moves.
LEMMA EmaRuns ==
  ASSUME Scale \in Nat, NEW p \in Nat \ {0}, NEW i \in Nat, p <= i,
         NEW w \in Seq(Closes), i <= Len(w), \A x \in Closes : x \in Nat,
         Seed(w, p) \in Int
  PROVE  \E r : /\ r[0] = Seed(w, p)
                /\ \A k \in 1 .. i - p : r[k] = Moved(p, r[k - 1], w[p + k])
                /\ Ema(w, i, p) = <<r[i - p]>>
<1> DEFINE n == i - p
           q == SubSeq(w, p + 1, i)
           base == Seed(w, p)
           G == [k \in 1 .. n |-> [a \in Int |-> Moved(p, a, q[k])]]
           Is(h) == h = [s \in SUBSET (1 .. n) |->
                           IF s = {} THEN base ELSE Moved(p, h[s \ {Max(s)}], q[Max(s)])]
           c == CHOOSE h : Is(h)
<1>1. /\ n \in Nat /\ DOMAIN q = 1 .. n
      /\ \A k \in 1 .. n : q[k] = w[p + k] /\ q[k] \in Nat
  <2>1. /\ q \in Seq(Closes) /\ Len(q) = n
        /\ \A k \in 1 .. n : q[k] = w[p + 1 + k - 1]
    BY SubSeqProperties
  <2>2. DOMAIN q = 1 .. n
    BY <2>1
  <2>3. ASSUME NEW k \in 1 .. n PROVE q[k] = w[p + k] /\ q[k] \in Nat
    <3>1. q[k] = w[p + k]
      <4>1. p + 1 + k - 1 = p + k
        OBVIOUS
      <4>. QED BY <2>1, <4>1
    <3>2. p + k \in 1 .. Len(w)
      OBVIOUS
    <3>3. w[p + k] \in Closes
      BY <3>2
    <3>. QED BY <3>1, <3>3
  <2>4. n \in Nat
    OBVIOUS
  <2>. HIDE DEF n, q
  <2>. QED BY <2>2, <2>3, <2>4
<1>. HIDE DEF n, q
<1>2. StepsIn(G, Int, n)
  <2>1. \A k \in 1 .. n : \A a \in Int : Moved(p, a, q[k]) \in Int
    BY <1>1, MovedTyped
  <2>. QED BY <2>1 DEF StepsIn
<1>3. PICK h \in [SUBSET (1 .. n) -> Int] : Folds(G, base, 1 .. n, h)
  <2>. HIDE DEF G
  <2>1. HasFold(G, base, Int, n)
    <3>1. base \in Int
      OBVIOUS
    <3>. HIDE DEF base
    <3>. QED BY <1>1, <1>2, <3>1, FoldExists
  <2>. QED BY <2>1 DEF HasFold
<1>4. Is(h)
  <2>1. ASSUME NEW s \in SUBSET (1 .. n), s # {}
        PROVE  G[Max(s)][h[s \ {Max(s)}]] = Moved(p, h[s \ {Max(s)}], q[Max(s)])
    <3>1. Max(s) \in 1 .. n
      BY <1>1, <2>1, MaxIs
    <3>2. h[s \ {Max(s)}] \in Int
      OBVIOUS
    <3>. QED BY <3>1, <3>2
  <2>. HIDE DEF G, base
  <2>. QED BY <1>3, <2>1 DEF Folds
<1>5. Is(c)
  <2>. HIDE DEF Is
  <2>. QED BY <1>4
<1>6. Ema(w, i, p) = <<c[1 .. n]>>
  <2> DEFINE fold == FoldLeft(LAMBDA ema, close :
                                (2 * close * Scale + (p - 1) * ema) \div (p + 1), base, q)
  <2>1. Ema(w, i, p) = <<fold>>
    <3>1. ~(i < p)
      OBVIOUS
    <3>. QED BY <3>1, Zenon DEF Ema, Seed, q
  <2>2. fold = c[1 .. n]
    <3>. HIDE DEF base
    <3>. QED BY <1>1, Zenon DEF Moved, FoldLeft, MapThenFoldSet
  <2>. HIDE DEF fold, c
  <2>. QED BY <2>1, <2>2
<1> DEFINE r == [k \in 0 .. n |-> c[1 .. k]]
<1>. HIDE DEF c, base
<1>7. r[0] = base
  <2>1. 1 .. 0 = {}
    OBVIOUS
  <2>2. r[0] = c[{}]
    BY <1>1, <2>1
  <2>. HIDE DEF r
  <2>. QED BY <1>5, <2>2
<1>8. ASSUME NEW k \in 1 .. n PROVE r[k] = Moved(p, r[k - 1], w[p + k])
  <2>1. 1 .. k \in SUBSET (1 .. n) /\ 1 .. k # {} /\ Max(1 .. k) = k /\ (1 .. k) \ {k} = 1 .. k - 1
    <3>1. k \in Nat /\ k # 0 /\ 1 .. k \in SUBSET (1 .. n) /\ 1 .. k # {}
      <4>1. n \in Nat /\ k \in 1 .. n
        BY <1>1
      <4>2. k \in Nat /\ k # 0 /\ 1 \in 1 .. k
        BY <4>1
      <4>3. \A x \in 1 .. k : x \in 1 .. n
        BY <4>1
      <4>. QED BY <4>2, <4>3
    <3>. QED BY <3>1, MaxOfInterval
  <2>2. c[1 .. k] = Moved(p, c[1 .. k - 1], q[k])
    BY <1>5, <2>1
  <2>3. k \in 0 .. n /\ k - 1 \in 0 .. n
    BY <1>1
  <2>4. r[k] = c[1 .. k] /\ r[k - 1] = c[1 .. k - 1] /\ q[k] = w[p + k]
    BY <1>1, <2>3
  <2>. HIDE DEF r
  <2>. QED BY <2>2, <2>4
<1>10. r[n] = c[1 .. n]
  BY <1>1
<1>. HIDE DEF r
<1>. QED BY <1>6, <1>7, <1>8, <1>10 DEF n, base

-----------------------------------------------------------------------------
(* The divisions leave no rest, and averages stay between the prices.      *)

\* Products keep their order.
LEMMA Scaled ==
  ASSUME NEW x \in Int, NEW y \in Int, NEW z \in Nat, x <= y PROVE x * z <= y * z
OBVIOUS

LEMMA Cancelled ==
  ASSUME NEW x \in Int, NEW y \in Int, NEW z \in Nat \ {0}, x * z <= y * z PROVE x <= y
OBVIOUS

LEMMA Product == ASSUME NEW a \in Nat, NEW b \in Nat PROVE a * b \in Nat
OBVIOUS

\* Scale is a multiple of the period, and of as many factors as there can be bars.
LEMMA ScaleIs ==
  ASSUME NEW p \in {Fast, Slow}
  PROVE  /\ p \in Nat \ {0} /\ Scale \in Nat /\ MaxBars - Fast \in Nat
         /\ \E q \in Nat : Scale = (p * Power(p + 1, MaxBars - Fast)) * q
<1> DEFINE K == MaxBars - Fast
           f == Power(Fast + 1, K)
           s == Power(Slow + 1, K)
<1>1. Fast \in Nat \ {0} /\ Slow \in Nat \ {0} /\ K \in Nat
  BY IndicatorsConstants DEF IndicatorsConstants
<1>2. f \in Nat /\ s \in Nat
  <2>1. Fast + 1 \in Nat /\ Slow + 1 \in Nat
    BY <1>1
  <2>. HIDE DEF K
  <2>. QED BY <1>1, <2>1, PowerNext
<1>3. Scale = ((Fast * Slow) * f) * s
  BY DEF Scale
<1>. HIDE DEF f, s
<1>4. Scale = (Fast * f) * (Slow * s) /\ Scale = (Slow * s) * (Fast * f)
  BY <1>1, <1>2, <1>3
<1>5. Fast * f \in Nat /\ Slow * s \in Nat
  BY <1>1, <1>2, Product
<1>6. Scale \in Nat
  <2> DEFINE a == Fast * f
             b == Slow * s
  <2>1. a \in Nat /\ b \in Nat /\ Scale = a * b
    BY <1>4, <1>5
  <2>. HIDE DEF a, b
  <2>. QED BY <2>1
<1>. QED BY <1>1, <1>4, <1>5, <1>6 DEF f, s

\* After k closes there are enough factors left.
LEMMA ScaleDivides ==
  ASSUME NEW p \in {Fast, Slow}, NEW k \in Nat, k <= MaxBars - Fast
  PROVE  \E q \in Nat : Scale = Power(p + 1, MaxBars - Fast - k) * q
<1> DEFINE K == MaxBars - Fast
           u(j) == Power(p + 1, K - j)
           Good == {j \in Nat : j <= K => \E q \in Nat : Scale = u(j) * q}
<1>1. /\ p \in Nat \ {0} /\ p + 1 \in Nat /\ K \in Nat
      /\ \E q \in Nat : Scale = (p * u(0)) * q
  BY ScaleIs
<1>2. ASSUME NEW j \in Nat, j <= K PROVE u(j) \in Nat
  <2>1. K - j \in Nat
    BY <1>1, <1>2
  <2>. HIDE DEF K
  <2>. QED BY <1>1, <2>1, PowerNext
<1>. HIDE DEF K
<1>3. 0 \in Good
  <2>1. PICK q \in Nat : Scale = (p * u(0)) * q
    BY <1>1
  <2>2. u(0) \in Nat
    BY <1>1, <1>2
  <2>. HIDE DEF u
  <2>3. (p * u(0)) * q = u(0) * (p * q) /\ p * q \in Nat
    BY <1>1, <2>2
  <2>. QED BY <2>1, <2>3
<1>4. ASSUME NEW j \in Nat, j \in Good PROVE j + 1 \in Good
  <2>. SUFFICES ASSUME j + 1 <= K PROVE \E q \in Nat : Scale = u(j + 1) * q
    OBVIOUS
  <2>1. j <= K
    BY <1>1
  <2>2. PICK q \in Nat : Scale = u(j) * q
    BY <1>4, <2>1
  <2>3. u(j) = u(j + 1) * (p + 1) /\ u(j + 1) \in Nat
    <3>1. K - (j + 1) \in Nat /\ (K - (j + 1)) + 1 = K - j
      BY <1>1
    <3>2. Power(p + 1, (K - (j + 1)) + 1) = Power(p + 1, K - (j + 1)) * (p + 1)
      BY <1>1, <3>1, PowerNext
    <3>3. u(j + 1) \in Nat
      BY <1>2
    <3>. QED BY <3>1, <3>2, <3>3
  <2>. HIDE DEF u
  <2>4. (u(j + 1) * (p + 1)) * q = u(j + 1) * ((p + 1) * q) /\ (p + 1) * q \in Nat
    BY <1>1, <2>3
  <2>. QED BY <2>2, <2>3, <2>4
<1>5. k \in Good
  <2>. HIDE DEF Good
  <2>. QED BY <1>3, <1>4, NatInduced
<1>. QED BY <1>5 DEF K

\* The least and the largest price
Low == Min(Closes)
High == Max(Closes)

LEMMA BoundsOfCloses ==
  /\ Low \in Nat /\ High \in Nat /\ Low <= High
  /\ \A x \in Closes : x \in Nat /\ Low <= x /\ x <= High
<1>1. IsFiniteSet(Closes) /\ Closes # {} /\ Closes \subseteq Nat \ {0}
  BY IndicatorsConstants DEF IndicatorsConstants
<1>2. PICK n \in Nat : ExistsBijection(1 .. n, Closes)
  BY <1>1, FS_NatBijection
<1>3. PICK f \in Bijection(1 .. n, Closes) : TRUE
  BY <1>2 DEF ExistsBijection
<1>4. f \in [1 .. n -> Nat] /\ Closes = {f[k] : k \in 1 .. n}
  BY <1>1, <1>3 DEF Bijection, Injection, Surjection
<1>5. High \in Closes /\ \A y \in Closes : y <= High
  <2> DEFINE T == {0} \cup {f[k] : k \in 1 .. n}
  <2>1. \A k \in 1 .. n : f[k] \in Int
    BY <1>4
  <2>2. Max(T) \in T /\ \A k \in 1 .. n : f[k] <= Max(T)
    BY <2>1, MaxOfValues
  <2>3. PICK k \in 1 .. n : TRUE
    BY <1>1, <1>4
  <2>4. f[k] \in Nat \ {0}
    BY <1>1, <1>4
  <2>5. Max(T) \in Closes /\ \A y \in Closes : y <= Max(T)
    <3>1. Max(T) # 0
      BY <2>2, <2>4
    <3>. QED BY <1>4, <2>2, <3>1
  <2>. HIDE DEF T
  <2>6. Max(Closes) = Max(T)
    <3>1. Closes \subseteq Int
      BY <1>1
    <3>. QED BY <2>5, <3>1, MaxEquals
  <2>. QED BY <2>5, <2>6 DEF High
<1>6. Closes \in SUBSET (1 .. High) /\ High \in Nat
  BY <1>1, <1>5
<1>7. Low \in Closes /\ \A y \in Closes : Low <= y
  BY <1>1, <1>6, MinIs DEF Low
<1>. QED BY <1>1, <1>5, <1>6, <1>7

\* A division without a rest.
LEMMA DivExact ==
  ASSUME NEW a \in Nat, NEW b \in Nat \ {0} PROVE (a * b) \div b = a
OBVIOUS

\* The mean of a seed is exact, and between the prices.
LEMMA SeedIs ==
  ASSUME NEW p \in {Fast, Slow}, NEW w \in Seq(Closes), p <= Len(w)
  PROVE  /\ \E m \in Nat : Seed(w, p) = Power(p + 1, MaxBars - Fast) * m
         /\ Seed(w, p) \in Nat
         /\ Low * Scale <= Seed(w, p) /\ Seed(w, p) <= High * Scale
<1> DEFINE u == Power(p + 1, MaxBars - Fast)
           t == Total(SubSeq(w, 1, p))
<1>1. PICK q \in Nat : /\ p \in Nat \ {0} /\ Scale \in Nat /\ MaxBars - Fast \in Nat
                       /\ Scale = (p * u) * q
  BY ScaleIs
<1>2. u \in Nat
  <2>1. p + 1 \in Nat
    BY <1>1
  <2>. QED BY <1>1, <2>1, PowerNext
<1>3. t \in Nat /\ Low * p <= t /\ t <= High * p
  <2> DEFINE v == SubSeq(w, 1, p)
  <2>1. /\ v \in Seq(Closes) /\ Len(v) = p
        /\ \A j \in 1 .. p : v[j] = w[j]
    BY <1>1, SubSeqProperties
  <2>2. DOMAIN v = 1 .. p
    BY <2>1
  <2>3. \A j \in 1 .. p : v[j] \in Nat /\ Low <= v[j] /\ v[j] <= High
    <3>1. \A j \in 1 .. p : v[j] \in Closes
      BY <2>1, <2>2
    <3>. QED BY <3>1, BoundsOfCloses
  <2>. HIDE DEF v
  <2>4. Total(v) \in Nat /\ Low * p <= Total(v) /\ Total(v) <= High * p
    BY <1>1, <2>2, <2>3, BoundsOfCloses, TotalBounded
  <2>. QED BY <2>4 DEF v
<1>4. Seed(w, p) = (Scale * t) \div p
  BY DEF Seed
<1>. HIDE DEF u, t
<1> DEFINE m == q * t
<1>5. m \in Nat
  BY <1>1, <1>3, Product
<1>6. Scale * t = (u * m) * p
  <2>1. Scale * t = ((p * u) * q) * t
    BY <1>1
  <2>2. ((p * u) * q) * t = (u * (q * t)) * p
    BY <1>1, <1>2, <1>3
  <2>. QED BY <2>1, <2>2
<1>. HIDE DEF m
<1>7. u * m \in Nat
  BY <1>2, <1>5, Product
<1>8. Seed(w, p) = u * m
  <2> DEFINE a == u * m
  <2>1. a \in Nat /\ Seed(w, p) = (a * p) \div p
    BY <1>4, <1>6, <1>7
  <2>. HIDE DEF a
  <2>2. Seed(w, p) = a
    BY <1>1, <2>1, DivExact
  <2>. QED BY <2>2 DEF a
<1> DEFINE s == Seed(w, p)
<1>9. s \in Nat /\ s * p = Scale * t
  BY <1>6, <1>7, <1>8
<1>. HIDE DEF s
<1>10. Low * Scale <= s
  <2>1. (Low * p) * Scale <= t * Scale
    <3>1. Low * p \in Nat
      BY <1>1, BoundsOfCloses, Product
    <3>. QED BY <1>1, <1>3, <3>1, Scaled
  <2>2. (Low * p) * Scale = (Low * Scale) * p /\ t * Scale = s * p
    <3>1. (Low * p) * Scale = (Low * Scale) * p
      BY <1>1, BoundsOfCloses
    <3>2. t * Scale = Scale * t
      BY <1>1, <1>3
    <3>. QED BY <1>9, <3>1, <3>2
  <2>3. Low * Scale \in Nat
    BY <1>1, BoundsOfCloses, Product
  <2> DEFINE l == Low * Scale
  <2>4. l \in Nat /\ l * p <= s * p
    BY <2>1, <2>2, <2>3
  <2>. HIDE DEF l
  <2>5. l <= s
    BY <1>1, <1>9, <2>4, Cancelled
  <2>. QED BY <2>5 DEF l
<1>11. s <= High * Scale
  <2>1. t * Scale <= (High * p) * Scale
    <3>1. High * p \in Nat
      BY <1>1, BoundsOfCloses, Product
    <3>. QED BY <1>1, <1>3, <3>1, Scaled
  <2>2. (High * p) * Scale = (High * Scale) * p /\ t * Scale = s * p
    <3>1. (High * p) * Scale = (High * Scale) * p
      BY <1>1, BoundsOfCloses
    <3>2. t * Scale = Scale * t
      BY <1>1, <1>3
    <3>. QED BY <1>9, <3>1, <3>2
  <2>3. High * Scale \in Nat
    BY <1>1, BoundsOfCloses, Product
  <2> DEFINE l == High * Scale
  <2>4. l \in Nat /\ s * p <= l * p
    BY <2>1, <2>2, <2>3
  <2>. HIDE DEF l
  <2>5. s <= l
    BY <1>1, <1>9, <2>4, Cancelled
  <2>. QED BY <2>5 DEF l
<1>. QED BY <1>5, <1>8, <1>9, <1>10, <1>11 DEF u, s

\* What is kept of an average, and how it follows the one before
Multiple(a, u) == \E m \in Nat : a = u * m
Between(ema) == ema \in Nat /\ Low * Scale <= ema /\ ema <= High * Scale
Follows(p, next, ema, c) == next * (p + 1) = 2 * c * Scale + (p - 1) * ema

\* One step is exact, if there is another factor to divide by, and stays between the prices.
LEMMA MovedIs ==
  ASSUME NEW p \in Nat \ {0}, NEW u \in Nat, NEW v, v = u * (p + 1), Multiple(Scale, v),
         NEW ema, Between(ema), Multiple(ema, v), NEW c \in Closes
  PROVE  /\ Between(Moved(p, ema, c)) /\ Multiple(Moved(p, ema, c), u)
         /\ Follows(p, Moved(p, ema, c), ema, c)
<1>a. PICK q \in Nat, m \in Nat : Scale = (u * (p + 1)) * q /\ ema = (u * (p + 1)) * m
  BY DEF Multiple
<1>b. ema \in Nat /\ Low * Scale <= ema /\ ema <= High * Scale
  BY DEF Between
<1> DEFINE d == p + 1
           e == p - 1
           n == 2 * c * q + e * m
           next == u * n
           sum == 2 * c * Scale + e * ema
<1>1. /\ d \in Nat \ {0} /\ e \in Nat /\ 2 + e = d
      /\ c \in Nat /\ Low <= c /\ c <= High /\ Low \in Nat /\ High \in Nat
      /\ Scale = (u * d) * q /\ ema = (u * d) * m
  BY <1>a, BoundsOfCloses
<1>2. Scale \in Nat /\ Moved(p, ema, c) = sum \div d
  <2>1. u * d \in Nat
    BY <1>1, Product
  <2>2. Moved(p, ema, c) = sum \div d
    BY DEF Moved
  <2> DEFINE a == u * d
  <2>3. a \in Nat /\ Scale = a * q
    BY <1>1, <2>1
  <2>. HIDE DEF a
  <2>. QED BY <2>2, <2>3, Product
<1>. HIDE DEF d, e
<1>3. n \in Nat
  <2>1. 2 * c \in Nat
    BY <1>1
  <2>2. (2 * c) * q \in Nat /\ e * m \in Nat
    BY <1>1, <2>1, Product
  <2>. QED BY <2>2
<1>4. sum = (u * n) * d
  <2>1. 2 * c * ((u * d) * q) = (u * (2 * c * q)) * d
    BY <1>1
  <2>2. e * ((u * d) * m) = (u * (e * m)) * d
    BY <1>1
  <2> DEFINE x == 2 * c * q
             y == e * m
  <2>3. x \in Nat /\ y \in Nat
    <3>1. 2 * c \in Nat
      BY <1>1
    <3>. QED BY <1>1, <3>1, Product
  <2>4. sum = (u * x) * d + (u * y) * d /\ n = x + y
    BY <1>1, <2>1, <2>2
  <2>. HIDE DEF x, y, n, sum
  <2>5. (u * (x + y)) * d = (u * x) * d + (u * y) * d
    BY <1>1, <2>3
  <2>. QED BY <2>4, <2>5
<1>. HIDE DEF n
<1>5. next \in Nat
  BY <1>3, Product
<1>. HIDE DEF next
<1>6. Moved(p, ema, c) = next /\ sum = next * d
  <2>1. (next * d) \div d = next
    BY <1>1, <1>5, DivExact
  <2>2. sum = next * d
    BY <1>4 DEF next
  <2>. HIDE DEF sum
  <2>. QED BY <1>2, <2>1, <2>2
<1>7. ASSUME NEW b \in Nat PROVE (b * Scale) * d = (2 * b) * Scale + e * (b * Scale)
  <2>1. b * Scale \in Nat
    BY <1>2, Product
  <2> DEFINE z == b * Scale
  <2>2. (2 * b) * Scale = 2 * z
    BY <1>2
  <2>3. z \in Nat
    BY <2>1
  <2>. HIDE DEF z
  <2>4. z * d = 2 * z + e * z
    BY <1>1, <2>3
  <2>. QED BY <2>2, <2>4 DEF z
<1>8. ASSUME NEW b \in Nat PROVE /\ (2 * b) * Scale \in Nat /\ b * Scale \in Nat
                                 /\ e * (b * Scale) \in Nat
  <2>1. 2 * b \in Nat
    OBVIOUS
  <2>2. (2 * b) * Scale \in Nat /\ b * Scale \in Nat
    BY <1>2, <2>1, Product
  <2>. QED BY <1>1, <2>2, Product
<1>9. e * ema \in Nat /\ (2 * c) * Scale \in Nat /\ sum = (2 * c) * Scale + e * ema
  BY <1>1, <1>8, <1>b, Product
<1>10. Low * Scale <= next
  <2> DEFINE l == Low * Scale
  <2>1. (2 * Low) * Scale <= (2 * c) * Scale
    <3>1. 2 * Low <= 2 * c /\ 2 * Low \in Int /\ 2 * c \in Int
      BY <1>1
    <3>. QED BY <1>2, <3>1, Scaled
  <2>2. l * e <= ema * e /\ l \in Nat
    <3>1. l \in Nat /\ l <= ema
      BY <1>1, <1>8, <1>b
    <3>. HIDE DEF l
    <3>. QED BY <1>1, <1>b, <3>1, Scaled
  <2>3. l * d = (2 * Low) * Scale + e * l /\ e * l \in Nat /\ (2 * Low) * Scale \in Nat
    BY <1>1, <1>7, <1>8
  <2> DEFINE a == (2 * Low) * Scale
             b == (2 * c) * Scale
  <2>. HIDE DEF l
  <2>4. e * l = l * e /\ e * ema = ema * e
    BY <1>1, <1>b, <2>2
  <2>5. a <= b /\ l * d = a + e * l /\ next * d = b + e * ema /\ a \in Nat /\ b \in Nat
    BY <1>6, <1>9, <2>1, <2>3
  <2>. HIDE DEF a, b, sum
  <2>6. l * d <= next * d
    BY <1>9, <2>2, <2>3, <2>4, <2>5
  <2>7. l <= next
    BY <1>1, <1>5, <2>2, <2>6, Cancelled
  <2>. QED BY <2>7 DEF l
<1>11. next <= High * Scale
  <2> DEFINE l == High * Scale
  <2>1. (2 * c) * Scale <= (2 * High) * Scale
    <3>1. 2 * c <= 2 * High /\ 2 * High \in Int /\ 2 * c \in Int
      BY <1>1
    <3>. QED BY <1>2, <3>1, Scaled
  <2>2. ema * e <= l * e /\ l \in Nat
    <3>1. l \in Nat /\ ema <= l
      BY <1>1, <1>8, <1>b
    <3>. HIDE DEF l
    <3>. QED BY <1>1, <1>b, <3>1, Scaled
  <2>3. l * d = (2 * High) * Scale + e * l /\ e * l \in Nat /\ (2 * High) * Scale \in Nat
    BY <1>1, <1>7, <1>8
  <2> DEFINE a == (2 * High) * Scale
             b == (2 * c) * Scale
  <2>. HIDE DEF l
  <2>4. e * l = l * e /\ e * ema = ema * e
    BY <1>1, <1>b, <2>2
  <2>5. b <= a /\ l * d = a + e * l /\ next * d = b + e * ema /\ a \in Nat /\ b \in Nat
    BY <1>6, <1>9, <2>1, <2>3
  <2>. HIDE DEF a, b, sum
  <2>6. next * d <= l * d
    BY <1>9, <2>2, <2>3, <2>4, <2>5
  <2>7. next <= l
    BY <1>1, <1>5, <2>2, <2>6, Cancelled
  <2>. QED BY <2>7 DEF l
<1>12. next = u * n
  BY DEF next
<1>13. sum = 2 * c * Scale + (p - 1) * ema /\ d = p + 1
  BY DEF e, d
<1>. HIDE DEF sum
<1>14. Multiple(Moved(p, ema, c), u)
  BY <1>3, <1>6, <1>12 DEF Multiple
<1>15. Between(Moved(p, ema, c))
  BY <1>5, <1>6, <1>10, <1>11 DEF Between
<1>16. Follows(p, Moved(p, ema, c), ema, c)
  BY <1>6, <1>13 DEF Follows
<1>. QED BY <1>14, <1>15, <1>16

\* An average, and what it has passed through.
LEMMA EmaIs ==
  ASSUME NEW p \in {Fast, Slow}, NEW i \in Nat, p <= i,
         NEW w \in Seq(Closes), i <= Len(w), i <= MaxBars
  PROVE  \E r : /\ Ema(w, i, p) = <<r[i - p]>>
                /\ \A k \in 0 .. i - p : Between(r[k])
                /\ \A k \in 1 .. i - p : Follows(p, r[k], r[k - 1], w[p + k])
<1> DEFINE K == MaxBars - Fast
           u(j) == Power(p + 1, K - j)
           n == i - p
<1>1. p \in Nat \ {0} /\ Scale \in Nat /\ K \in Nat /\ n \in Nat /\ n <= K /\ p <= Len(w)
  <2>1. p \in Nat \ {0} /\ Scale \in Nat /\ K \in Nat
    BY ScaleIs
  <2>2. Fast \in Nat /\ Fast <= p /\ MaxBars \in Nat
    BY IndicatorsConstants DEF IndicatorsConstants
  <2>. QED BY <2>1, <2>2
<1>2. PICK r : /\ r[0] = Seed(w, p)
               /\ \A k \in 1 .. n : r[k] = Moved(p, r[k - 1], w[p + k])
               /\ Ema(w, i, p) = <<r[n]>>
  <2>1. Seed(w, p) \in Int
    BY <1>1, SeedIs
  <2>2. \A x \in Closes : x \in Nat
    BY BoundsOfCloses
  <2>. QED BY <1>1, <2>1, <2>2, EmaRuns
<1>3. \A k \in 1 .. n : w[p + k] \in Closes
  <2>1. \A k \in 1 .. n : p + k \in 1 .. Len(w)
    BY <1>1
  <2>. QED BY <2>1, ElementOfSeq
<1>4. ASSUME NEW j \in Nat, j <= K PROVE u(j) \in Nat /\ Multiple(Scale, u(j))
  <2>1. K - j \in Nat /\ p + 1 \in Nat
    BY <1>1, <1>4
  <2>2. Multiple(Scale, u(j))
    BY <1>4, ScaleDivides DEF Multiple
  <2>. HIDE DEF K
  <2>. QED BY <2>1, <2>2, PowerNext
<1>5. ASSUME NEW j \in Nat, j + 1 <= K PROVE u(j) = u(j + 1) * (p + 1)
  <2>1. K - (j + 1) \in Nat /\ (K - (j + 1)) + 1 = K - j /\ p + 1 \in Nat
    BY <1>1, <1>5
  <2>. HIDE DEF K
  <2>. QED BY <2>1, PowerNext
<1> DEFINE Kept(k) == Between(r[k]) /\ Multiple(r[k], u(k))
           Good == {k \in Nat : k <= n => Kept(k)}
<1>6. 0 \in Good
  <2>1. u(0) = Power(p + 1, MaxBars - Fast)
    BY <1>1
  <2>. HIDE DEF u
  <2>. QED BY <1>1, <1>2, <2>1, SeedIs DEF Between, Multiple
<1>. HIDE DEF n, K
<1>7. ASSUME NEW k \in Nat, k + 1 <= n, Kept(k)
      PROVE  Kept(k + 1) /\ Follows(p, r[k + 1], r[k], w[p + (k + 1)])
  <2>1. k + 1 \in 1 .. n /\ (k + 1) - 1 = k /\ k <= K /\ k + 1 <= K /\ k + 1 \in Nat
    BY <1>1, <1>7
  <2>2. w[p + (k + 1)] \in Closes /\ r[k + 1] = Moved(p, r[k], w[p + (k + 1)])
    BY <1>2, <1>3, <2>1
  <2>3. u(k) = u(k + 1) * (p + 1) /\ u(k + 1) \in Nat /\ Multiple(Scale, u(k))
    BY <1>4, <1>5, <2>1
  <2>. HIDE DEF u
  <2>. QED BY <1>1, <1>7, <2>2, <2>3, MovedIs
<1>8. ASSUME NEW k \in Nat, k \in Good PROVE k + 1 \in Good
  <2>. SUFFICES ASSUME k + 1 <= n PROVE Kept(k + 1)
    OBVIOUS
  <2>1. k <= n
    BY <1>1
  <2>. HIDE DEF Kept
  <2>. QED BY <1>7, <1>8, <2>1
<1>9. \A k \in Nat : k \in Good
  <2>. HIDE DEF Good
  <2>. QED BY <1>6, <1>8, NatInduced
<1>10. \A k \in 0 .. n : Kept(k)
  <2>1. \A k \in 0 .. n : k \in Nat /\ k <= n
    BY <1>1
  <2>. HIDE DEF Kept
  <2>. QED BY <1>9, <2>1
<1>11. ASSUME NEW k \in 1 .. n
       PROVE  Follows(p, r[k], r[k - 1], w[p + k])
  <2>1. k - 1 \in Nat /\ (k - 1) + 1 = k /\ k - 1 \in 0 .. n
    BY <1>1
  <2>2. Kept(k - 1)
    BY <1>10, <2>1
  <2>. HIDE DEF Kept
  <2>. QED BY <1>7, <2>1, <2>2
<1>. QED BY <1>2, <1>10, <1>11 DEF n

-----------------------------------------------------------------------------
(* Two beginnings.                                                         *)

\* Equations keep their magnitudes.
LEMMA AbsScaled ==
  ASSUME NEW a \in Int, NEW b \in Int, NEW u \in Nat \ {0}, NEW v \in Nat, a * u = v * b
  PROVE  Abs(a) * u = v * Abs(b) /\ Abs(a) \in Nat /\ Abs(b) \in Nat
<1>1. CASE a >= 0 /\ b >= 0
  BY <1>1 DEF Abs
<1>2. CASE a < 0 /\ b < 0
  <2>1. Abs(a) = -a /\ Abs(b) = -b
    BY <1>2 DEF Abs
  <2>2. (-a) * u = -(a * u) /\ v * (-b) = -(v * b)
    OBVIOUS
  <2>. QED BY <1>2, <2>1, <2>2
<1>3. CASE a < 0 /\ b >= 0
  <2>1. a * u < 0
    BY <1>3
  <2>2. v * b >= 0
    BY <1>3
  <2>. QED BY <2>1, <2>2
<1>4. CASE a >= 0 /\ b < 0
  <2>1. a * u >= 0
    BY <1>4
  <2>2. v * b <= 0
    BY <1>4
  <2>3. a * u = 0 /\ v * b = 0
    BY <2>1, <2>2
  <2>4. a = 0 /\ v = 0
    BY <1>4, <2>3
  <2>. QED BY <1>4, <2>4 DEF Abs
<1>. QED BY <1>1, <1>2, <1>3, <1>4

\* What shrinks by (p - 1) / (p + 1) at each step.
LEMMA Shrinks ==
  ASSUME NEW p \in Nat \ {0}, NEW n \in Nat, NEW b \in Nat, NEW d,
         \A k \in 0 .. n : d[k] \in Int, Abs(d[0]) <= b,
         \A k \in 1 .. n : d[k] * (p + 1) = (p - 1) * d[k - 1]
  PROVE  Abs(d[n]) * Power(p + 1, n) <= b * Power(p - 1, n)
<1> DEFINE u == p + 1
           v == p - 1
           Good == {k \in Nat : k <= n => Abs(d[k]) * Power(u, k) <= b * Power(v, k)}
<1>1. u \in Nat \ {0} /\ v \in Nat
  OBVIOUS
<1>2. \A k \in 1 .. n : d[k] * u = v * d[k - 1]
  OBVIOUS
<1>. HIDE DEF u, v
<1>3. 0 \in Good
  <2>1. Power(u, 0) = 1 /\ Power(v, 0) = 1
    BY <1>1, PowerFirst
  <2>2. Abs(d[0]) \in Int
    BY DEF Abs
  <2>. QED BY <2>1, <2>2
<1>4. ASSUME NEW k \in Nat, k \in Good PROVE k + 1 \in Good
  <2>. SUFFICES ASSUME k + 1 <= n
                PROVE  Abs(d[k + 1]) * Power(u, k + 1) <= b * Power(v, k + 1)
    OBVIOUS
  <2> DEFINE x == Power(u, k)
             y == Power(v, k)
             a == Abs(d[k])
             c == Abs(d[k + 1])
  <2>1. /\ x \in Nat /\ y \in Nat
        /\ Power(u, k + 1) = x * u /\ Power(v, k + 1) = y * v
    BY <1>1, PowerNext
  <2>2. a * x <= b * y
    <3>1. k <= n
      OBVIOUS
    <3>. QED BY <1>4, <3>1
  <2>3. c * u = v * a /\ c \in Nat /\ a \in Nat
    <3> DEFINE e == d[k]
               f == d[k + 1]
    <3>1. e \in Int /\ f \in Int /\ f * u = v * e
      <4>1. k + 1 \in 1 .. n /\ (k + 1) - 1 = k /\ k \in 0 .. n /\ k + 1 \in 0 .. n
        OBVIOUS
      <4>. QED BY <1>2, <4>1
    <3>. HIDE DEF e, f
    <3>2. Abs(f) * u = v * Abs(e) /\ Abs(f) \in Nat /\ Abs(e) \in Nat
      BY <1>1, <3>1, AbsScaled
    <3>. QED BY <3>2 DEF e, f
  <2>. HIDE DEF x, y, a, c, Good
  <2>4. (a * x) * v <= (b * y) * v
    <3>1. a * x \in Nat /\ b * y \in Nat
      BY <2>1, <2>3, Product
    <3>. QED BY <1>1, <2>2, <3>1, Scaled
  <2>5. c * (x * u) = (a * x) * v
    <3>1. c * (x * u) = (c * u) * x
      BY <1>1, <2>1, <2>3
    <3>2. (v * a) * x = (a * x) * v
      BY <1>1, <2>1, <2>3
    <3>. QED BY <2>3, <3>1, <3>2
  <2>6. b * (y * v) = (b * y) * v
    BY <1>1, <2>1
  <2>. QED BY <2>1, <2>4, <2>5, <2>6 DEF c
<1>5. n \in Good
  <2>. HIDE DEF Good
  <2>. QED BY <1>3, <1>4, NatInduced
<1>. QED BY <1>5 DEF u, v

\* The difference of two averages that follow the same closes.
LEMMA DifferenceShrinks ==
  ASSUME NEW p \in Nat \ {0}, Scale \in Nat, NEW c \in Nat,
         NEW far, NEW near, NEW farther, NEW nearer,
         Between(far), Between(near), Between(farther), Between(nearer),
         Follows(p, farther, far, c), Follows(p, nearer, near, c)
  PROVE  (farther - nearer) * (p + 1) = (p - 1) * (far - near)
<1> DEFINE z == 2 * c * Scale
<1>1. far \in Nat /\ near \in Nat /\ farther \in Nat /\ nearer \in Nat
  BY DEF Between
<1>2. /\ farther * (p + 1) = z + (p - 1) * far
      /\ nearer * (p + 1) = z + (p - 1) * near
  BY DEF Follows
<1>3. z \in Nat
  <2>1. 2 * c \in Nat
    OBVIOUS
  <2>. QED BY <2>1, Product
<1>. HIDE DEF z
<1>4. (farther - nearer) * (p + 1) = farther * (p + 1) - nearer * (p + 1)
  BY <1>1
<1>5. (p - 1) * (far - near) = (p - 1) * far - (p - 1) * near
  BY <1>1
<1> DEFINE x == (p - 1) * far
           y == (p - 1) * near
<1>6. x \in Nat /\ y \in Nat
  <2>1. p - 1 \in Nat
    OBVIOUS
  <2>. QED BY <1>1, <2>1, Product
<1>7. farther * (p + 1) = z + x /\ nearer * (p + 1) = z + y
  BY <1>2
<1>8. (p - 1) * (far - near) = x - y
  BY <1>5
<1>. HIDE DEF x, y
<1>. QED BY <1>3, <1>4, <1>6, <1>7, <1>8

\* Two averages are no further apart than the prices.
LEMMA Apart ==
  ASSUME Scale \in Nat, NEW far, NEW near, Between(far), Between(near)
  PROVE  far - near \in Int /\ Abs(far - near) <= Scale * (High - Low) /\ Scale * (High - Low) \in Nat
<1> DEFINE l == Low * Scale
           h == High * Scale
<1>1. Low \in Nat /\ High \in Nat /\ Low <= High
  BY BoundsOfCloses
<1>2. far \in Nat /\ l <= far /\ far <= h /\ near \in Nat /\ l <= near /\ near <= h
  BY DEF Between
<1>3. l \in Nat /\ h \in Nat /\ Scale * (High - Low) = h - l
  BY <1>1, Product
<1>. HIDE DEF l, h
<1>4. Abs(far - near) <= h - l
  BY <1>2, <1>3 DEF Abs
<1>. QED BY <1>2, <1>3, <1>4

\* Bars are bounded.
LEMMA BarsBounded == Spec => [](Len(closes) <= MaxBars)
<1>1. Init => Len(closes) <= MaxBars
  BY IndicatorsConstants DEF Init, IndicatorsConstants
<1>2. Computed /\ Len(closes) <= MaxBars /\ [Next]_vars => (Len(closes) <= MaxBars)'
  <2>. SUFFICES ASSUME Computed, Len(closes) <= MaxBars, [Next]_vars
                PROVE  Len(closes') <= MaxBars
    OBVIOUS
  <2>1. CASE NewBar
    <3>1. PICK c \in Closes : closes' = Append(closes, c)
      BY <2>1 DEF NewBar
    <3>2. Len(closes) < MaxBars /\ closes \in Seq(Closes) /\ MaxBars \in Nat
      BY <2>1, IndicatorsConstants DEF NewBar, Computed, IndicatorsConstants
    <3>3. Len(closes') = Len(closes) + 1 /\ Len(closes) \in Nat
      BY <3>1, <3>2, AppendProperties
    <3>. QED BY <3>2, <3>3
  <2>2. CASE Compute
    BY <2>2 DEF Compute
  <2>3. CASE UNCHANGED vars
    BY <2>3 DEF vars
  <2>. QED BY <2>1, <2>2, <2>3 DEF Next
<1>. QED BY <1>1, <1>2, ComputedAlways, PTL DEF Spec

\* From n of the bars and from all: after the seed of the first, both follow the same closes.
LEMMA Fades ==
  ASSUME Computed, Len(closes) <= MaxBars, NEW p \in {Fast, Slow}, NEW n \in p .. Len(closes)
  PROVE  Abs(Ema(closes, Len(closes), p)[1] - Ema(Latest(n), n, p)[1]) * Power(p + 1, n - p)
           <= Scale * (High - Low) * Power(p - 1, n - p)
<1> DEFINE i == Len(closes)
           w == Latest(n)
           o == i - n
           m == n - p
<1>1. /\ p \in Nat \ {0} /\ Scale \in Nat /\ MaxBars \in Nat
      /\ closes \in Seq(Closes) /\ i \in Nat /\ n \in Nat \ {0} /\ p <= n /\ n <= i /\ i <= MaxBars
      /\ o \in Nat /\ m \in Nat /\ i - p = o + m
  <2>1. p \in Nat \ {0} /\ Scale \in Nat /\ MaxBars \in Nat
    BY ScaleIs, IndicatorsConstants DEF IndicatorsConstants
  <2>2. closes \in Seq(Closes) /\ i \in Nat
    BY DEF Computed
  <2>. QED BY <2>1, <2>2
<1>2. w \in Seq(Closes) /\ Len(w) = n /\ \A j \in 1 .. n : w[j] = closes[o + j]
  BY <1>1, LatestIs
<1>. HIDE DEF i, w
<1>3. PICK f : /\ Ema(closes, i, p) = <<f[i - p]>>
               /\ \A k \in 0 .. i - p : Between(f[k])
               /\ \A k \in 1 .. i - p : Follows(p, f[k], f[k - 1], closes[p + k])
  <2>1. i <= Len(closes) /\ p <= i
    <3>1. i <= Len(closes)
      BY <1>1 DEF i
    <3>. QED BY <1>1, <3>1
  <2>. HIDE DEF o, m
  <2>. QED BY <1>1, <2>1, EmaIs
<1>4. PICK g : /\ Ema(w, n, p) = <<g[m]>>
               /\ \A k \in 0 .. m : Between(g[k])
               /\ \A k \in 1 .. m : Follows(p, g[k], g[k - 1], w[p + k])
  <2>1. n <= Len(w) /\ n <= MaxBars /\ n \in Nat
    BY <1>1, <1>2
  <2>. QED BY <1>1, <1>2, <2>1, EmaIs
<1>. HIDE DEF o, m
<1> DEFINE d == [k \in 0 .. m |-> f[o + k] - g[k]]
<1>5. ASSUME NEW k \in 0 .. m PROVE Between(f[o + k]) /\ Between(g[k])
  <2>1. o + k \in 0 .. i - p
    BY <1>1
  <2>. QED BY <1>3, <1>4, <2>1
<1>6. ASSUME NEW k \in 1 .. m PROVE d[k] * (p + 1) = (p - 1) * d[k - 1]
  <2>1. /\ k \in 0 .. m /\ k - 1 \in 0 .. m /\ o + k \in 1 .. i - p /\ (o + k) - 1 = o + (k - 1)
        /\ p + k \in 1 .. n /\ o + (p + k) = p + (o + k)
    BY <1>1 DEF m
  <2> DEFINE c == w[p + k]
  <2>2. c = closes[p + (o + k)] /\ c \in Closes
    BY <1>2, <2>1
  <2>3. Follows(p, f[o + k], f[o + (k - 1)], c)
    BY <1>3, <2>1, <2>2
  <2>4. Follows(p, g[k], g[k - 1], c)
    BY <1>4
  <2>5. c \in Nat
    BY <2>2, BoundsOfCloses
  <2>. HIDE DEF c
  <2>6. (f[o + k] - g[k]) * (p + 1) = (p - 1) * (f[o + (k - 1)] - g[k - 1])
    BY <1>1, <1>5, <2>1, <2>3, <2>4, <2>5, DifferenceShrinks
  <2>. QED BY <2>1, <2>6
<1>7. \A k \in 0 .. m : d[k] \in Int
  <2>1. \A k \in 0 .. m : f[o + k] \in Nat /\ g[k] \in Nat
    BY <1>5 DEF Between
  <2>. QED BY <2>1
<1>8. Abs(d[0]) <= Scale * (High - Low) /\ Scale * (High - Low) \in Nat
  <2>1. 0 \in 0 .. m
    BY <1>1
  <2>2. d[0] = f[o + 0] - g[0]
    BY <2>1
  <2>. HIDE DEF d
  <2>. QED BY <1>1, <1>5, <2>1, <2>2, Apart
<1>9. Abs(d[m]) * Power(p + 1, m) <= Scale * (High - Low) * Power(p - 1, m)
  <2> DEFINE b == Scale * (High - Low)
  <2>1. b \in Nat /\ Abs(d[0]) <= b
    BY <1>8
  <2>. HIDE DEF b, d
  <2>2. Abs(d[m]) * Power(p + 1, m) <= b * Power(p - 1, m)
    BY <1>1, <1>6, <1>7, <2>1, Shrinks
  <2>. QED BY <2>2 DEF b
<1>10. d[m] = Ema(closes, i, p)[1] - Ema(w, n, p)[1]
  <2>1. m \in 0 .. m
    BY <1>1
  <2>2. d[m] = f[i - p] - g[m]
    BY <1>1, <2>1
  <2>. HIDE DEF d
  <2>. QED BY <1>3, <1>4, <2>2
<1>. HIDE DEF d
<1>. QED BY <1>9, <1>10 DEF i, w, m

\* A moving average begins with a mean, at the bar where the request happens to begin
\* (features/engine.py, _ema): what two requests make of that shrinks with every bar.
THEOREM SeedFadesAlways == Spec => []SeedFades
<1>1. Computed /\ Len(closes) <= MaxBars => SeedFades
  BY Fades DEF SeedFades, Low, High
<1>. QED BY <1>1, ComputedAlways, BarsBounded, PTL
-----------------------------------------------------------------------------
(* The backtest: types.                                                    *)

LEMMA BacktestConsts ==
  /\ Prices \subseteq Nat \ {0} /\ NBars \in Nat \ {0} /\ Shares \in Nat \ {0}
  /\ InitialCash \in Nat /\ Slippage \in Nat /\ Commission \in Nat
  /\ StopLoss \in Nat /\ TakeProfit \in Nat
BY BacktestConstants

Portfolio == [cash : Int, position : Position, trades : Seq(Trade)]
Series == [1 .. NBars -> Prices]

\* What the operations of a portfolio give.
LEMMA PositionTyped ==
  ASSUME NEW q \in Position
  PROVE  /\ q.entry \in Nat /\ q.stop \in Int /\ q.target \in Nat /\ q.bar \in Nat
         /\ q # NoPosition => q.bar \in 1 .. NBars
BY DEF Position, NoPosition

LEMMA EnteredTyped ==
  ASSUME series \in Series, NEW i \in 1 .. NBars
  PROVE  Entered(i) \in Position /\ Entered(i) # NoPosition /\ Entered(i).bar = i
<1>1. series[i] \in Nat \ {0}
  BY BacktestConsts DEF Series
<1>3. Entered(i) \in [entry : Nat, stop : Int, target : Nat, bar : 1 .. NBars]
  <2> DEFINE fill == series[i] + Slippage
             low == fill - StopLoss
             high == fill + TakeProfit
  <2>1. fill \in Nat /\ low \in Int /\ high \in Nat
    BY <1>1, BacktestConsts
  <2>2. Entered(i) = [entry |-> fill, stop |-> low, target |-> high, bar |-> i]
    BY DEF Entered
  <2>. HIDE DEF fill, low, high
  <2>. QED BY <2>1, <2>2
<1>4. Entered(i).bar = i /\ NoPosition.bar = 0 /\ i # 0
  BY DEF Entered, NoPosition
<1>. QED BY <1>3, <1>4 DEF Position

LEMMA ReceivedTyped ==
  ASSUME series \in Series, NEW i \in 1 .. NBars PROVE Received(i) \in Int
<1>1. series[i] \in Nat \ {0}
  BY BacktestConsts DEF Series
<1>. QED BY <1>1, BacktestConsts DEF Received

LEMMA OpenTyped ==
  ASSUME series \in Series, NEW i \in 1 .. NBars, NEW p \in Portfolio
  PROVE  /\ OpenPosition(p, i) \in Portfolio
         /\ OpenPosition(p, i) = p \/
              /\ ~HasPosition(p)
              /\ Shares * Entered(i).entry + Commission <= p.cash
              /\ OpenPosition(p, i) = [cash |-> p.cash - (Shares * Entered(i).entry + Commission),
                                       position |-> Entered(i), trades |-> p.trades]
<1>1. Entered(i) \in Position /\ Entered(i).entry \in Nat
  BY EnteredTyped, PositionTyped
<1> DEFINE cost == Shares * Entered(i).entry + Commission
<1>2. cost \in Nat /\ p.cash \in Int
  BY <1>1, BacktestConsts DEF Portfolio
<1>4. [cash |-> p.cash - cost, position |-> Entered(i), trades |-> p.trades] \in Portfolio
  <2>1. p.cash - cost \in Int
    BY <1>2
  <2>. HIDE DEF cost
  <2>. QED BY <1>1, <2>1 DEF Portfolio
<1>5. cost > p.cash \/ cost <= p.cash
  BY <1>2
<1>. QED BY <1>4, <1>5 DEF OpenPosition

LEMMA CloseTyped ==
  ASSUME series \in Series, NEW i \in 1 .. NBars, NEW p \in Portfolio, NEW why \in Reasons
  PROVE  /\ ClosePosition(p, i, why) \in Portfolio
         /\ ~HasPosition(p) => ClosePosition(p, i, why) = p
         /\ HasPosition(p) =>
              ClosePosition(p, i, why) =
                [cash |-> p.cash + Received(i), position |-> NoPosition,
                 trades |-> Append(p.trades,
                   [from |-> p.position.bar, to |-> i, reason |-> why,
                    pnl |-> Received(i) - Shares * p.position.entry])]
<1>1. p.cash \in Int /\ p.position \in Position /\ p.trades \in Seq(Trade)
  BY DEF Portfolio
<1>2. p.position.entry \in Nat /\ (HasPosition(p) => p.position.bar \in 1 .. NBars)
  BY <1>1, PositionTyped DEF HasPosition
<1>3. Received(i) \in Int /\ Received(i) - Shares * p.position.entry \in Int
  BY <1>2, ReceivedTyped, BacktestConsts
<1>4. ASSUME HasPosition(p) PROVE Exit(p, i, why, Received(i)) \in Portfolio
  <2>1. [from |-> p.position.bar, to |-> i, reason |-> why,
         pnl |-> Received(i) - Shares * p.position.entry] \in Trade
    BY <1>2, <1>3, <1>4 DEF Trade
  <2>2. NoPosition \in Position /\ p.cash + Received(i) \in Int
    BY <1>1, <1>3 DEF Position
  <2>. QED BY <1>1, <2>1, <2>2, AppendProperties DEF Exit, Portfolio
<1>. QED BY <1>4 DEF ClosePosition, Exit

LEMMA Closed ==
  ASSUME NEW p, NEW i, NEW why
  PROVE  /\ ClosePosition(p, i, why).position = NoPosition
         /\ ClosePosition(p, i, why).cash = IF HasPosition(p) THEN p.cash + Received(i) ELSE p.cash
BY DEF ClosePosition, Exit, HasPosition

LEMMA SeriesTyped ==
  ASSUME series \in Series, NEW i \in 1 .. NBars PROVE series[i] \in Nat \ {0}
BY BacktestConsts DEF Series

LEMMA StoppedTyped ==
  ASSUME series \in Series, NEW i \in 1 .. NBars, NEW p \in Portfolio
  PROVE  /\ Stopped(p, i) \in Portfolio
         /\ \/ CheckSlTp(p, i) = "none" /\ Stopped(p, i) = p
            \/ \E why \in Reasons : Stopped(p, i) = ClosePosition(p, i, why)
<1>1. CheckSlTp(p, i) \in {"none"} \cup Reasons
  BY DEF CheckSlTp, Reasons
<1>. QED BY <1>1, CloseTyped DEF Stopped

\* A bar opens or closes at most once each, after the stops.
LEMMA BarTyped ==
  ASSUME series \in Series, NEW i \in 1 .. NBars, portfolio \in Portfolio,
         NEW q \in AfterBar(i)
  PROVE  q \in Portfolio
<1> DEFINE p == Stopped(portfolio, i)
<1>1. p \in Portfolio
  BY StoppedTyped
<1>2. OpenPosition(p, i) \in Portfolio
  BY <1>1, OpenTyped
<1>3. ClosePosition(p, i, "sell_signal") \in Portfolio
  BY <1>1, CloseTyped DEF Reasons
<1>. QED BY <1>1, <1>2, <1>3 DEF AfterBar

LEMMA EquityTyped ==
  ASSUME series \in Series, NEW i \in 1 .. NBars, NEW p \in Portfolio
  PROVE  Equity(p, i) \in Int
<1>1. series[i] \in Nat /\ p.cash \in Int
  BY BacktestConsts DEF Series, Portfolio
<1>. QED BY <1>1, BacktestConsts DEF Equity

\* The curve has a point for every bar, the last of which is the equity there.
Curve ==
  /\ Len(curve) = visited
  /\ final # Running => visited = NBars
  /\ visited > 0 /\ final = Running => curve[visited] = Equity(portfolio, visited)

LEMMA BacktestTyped == BacktestSpec => [](BacktestTypeOK /\ Curve)
<1>1. BacktestInit => BacktestTypeOK /\ Curve
  BY BacktestConsts DEF BacktestInit, BacktestTypeOK, Curve, Running, Position
<1>2. ASSUME BacktestTypeOK, Curve, [BacktestNext]_backtestVars
      PROVE  BacktestTypeOK' /\ Curve'
  <2>1. series \in Series /\ portfolio \in Portfolio /\ visited \in 0 .. NBars /\ curve \in Seq(Int)
    BY <1>2 DEF BacktestTypeOK, Series, Portfolio
  <2>2. CASE NextBar
    <3>1. visited' \in 1 .. NBars /\ visited' = visited + 1
      BY <2>1, <2>2, BacktestConsts DEF NextBar
    <3>2. portfolio' \in Portfolio
      BY <2>1, <2>2, <3>1, BarTyped DEF NextBar
    <3>3. Equity(portfolio', visited') \in Int
      BY <2>1, <3>1, <3>2, EquityTyped
    <3>4. Equity(portfolio', visited') = Equity(portfolio, visited)'
      BY <2>2 DEF NextBar, Equity, HasPosition
    <3>5. /\ curve' \in Seq(Int) /\ Len(curve') = Len(curve) + 1
          /\ curve'[Len(curve) + 1] = Equity(portfolio', visited')
      BY <2>1, <2>2, <3>3, AppendProperties DEF NextBar
    <3>6. Curve'
      <4>1. final' = Running
        BY <1>2, <2>1, <2>2, BacktestConsts DEF NextBar, Curve
      <4>. QED BY <1>2, <2>1, <3>1, <3>4, <3>5, <4>1 DEF Curve
    <3>7. BacktestTypeOK'
      BY <1>2, <2>2, <3>1, <3>2, <3>5 DEF BacktestTypeOK, NextBar, Portfolio
    <3>. QED BY <3>6, <3>7
  <2>3. CASE Finish
    <3>1. portfolio' \in Portfolio
      <4>1. ClosePosition(portfolio, NBars, "end_of_backtest") \in Portfolio
        <5>1. NBars \in 1 .. NBars
          BY BacktestConsts
        <5>. QED BY <2>1, <5>1, CloseTyped DEF Reasons
      <4>. QED BY <2>3, <4>1 DEF Finish
    <3>2. Last(curve) \in Int
      BY <1>2, <2>1, <2>3, BacktestConsts DEF Finish, Last, Curve
    <3>3. final' # Running /\ final' \in Seq(Int) /\ Len(final') <= 1
      BY <2>3, <3>2 DEF Finish, Running
    <3>. QED BY <1>2, <2>3, <3>1, <3>3 DEF BacktestTypeOK, Curve, Finish, Portfolio
  <2>4. CASE UNCHANGED backtestVars
    BY <1>2, <2>4 DEF backtestVars, BacktestTypeOK, Curve, Equity, HasPosition
  <2>. QED BY <1>2, <2>2, <2>3, <2>4 DEF BacktestNext, Done
<1>. QED BY <1>1, <1>2, PTL DEF BacktestSpec

\* A position that a bar leaves open and did not open has passed the check of its stops.
LEMMA KeptIsBetween ==
  ASSUME series \in Series, NEW i \in 1 .. NBars, portfolio \in Portfolio,
         NEW q \in AfterBar(i), q.position # NoPosition, q.position.bar < i
  PROVE  q.position.stop < series[i] /\ series[i] < q.position.target
<1> DEFINE p == Stopped(portfolio, i)
<1>1. p \in Portfolio
  BY StoppedTyped
<1>2. \A r, why : ClosePosition(r, i, why).position = NoPosition
  BY Closed
<1>3. ASSUME q = OpenPosition(p, i), q # p PROVE FALSE
  <2>1. q.position = Entered(i)
    BY <1>1, <1>3, OpenTyped
  <2>. QED BY <2>1, EnteredTyped
<1>4. q # ClosePosition(p, i, "sell_signal")
  BY <1>2
<1>5. q = p
  BY <1>3, <1>4 DEF AfterBar
<1>6. CheckSlTp(portfolio, i) = "none" /\ q = portfolio
  BY <1>2, <1>5, StoppedTyped
<1>7. /\ series[i] \in Int
      /\ q.position.stop \in Int /\ q.position.target \in Int
  <2>1. q.position \in Position
    BY <1>6 DEF Portfolio
  <2>. QED BY <2>1, SeriesTyped, PositionTyped
<1>. QED BY <1>6, <1>7 DEF CheckSlTp, HasPosition

\* StopsHold: a position that a bar finds open and leaves open is between its stops.
THEOREM StopsAreKept == BacktestSpec => []StopsHold
<1>1. BacktestInit => StopsHold
  BY DEF BacktestInit, StopsHold
<1>2. ASSUME BacktestTypeOK, StopsHold, [BacktestNext]_backtestVars PROVE StopsHold'
  <2>1. series \in Series /\ portfolio \in Portfolio /\ visited \in 0 .. NBars
    BY <1>2 DEF BacktestTypeOK, Series, Portfolio
  <2>2. CASE NextBar
    <3>1. visited' \in 1 .. NBars /\ portfolio' \in AfterBar(visited') /\ series' = series
      BY <2>1, <2>2, BacktestConsts DEF NextBar
    <3>. QED BY <2>1, <3>1, KeptIsBetween DEF StopsHold
  <2>3. CASE Finish
    <3>1. ClosePosition(portfolio, NBars, "end_of_backtest").position = NoPosition
      BY Closed
    <3>. QED BY <2>3, <3>1 DEF Finish, StopsHold
  <2>. QED BY <1>2, <2>2, <2>3 DEF BacktestNext, Done, backtestVars, StopsHold
<1>. QED BY <1>1, <1>2, BacktestTyped, PTL DEF BacktestSpec

\* FinalWithinExit: what is reported is the last mark, before the forced close.
THEOREM FinalIsClose == BacktestSpec => []FinalWithinExit
<1>1. BacktestInit => FinalWithinExit
  BY DEF BacktestInit, FinalWithinExit
<1>2. ASSUME BacktestTypeOK, Curve, FinalWithinExit, [BacktestNext]_backtestVars
      PROVE  FinalWithinExit'
  <2>1. series \in Series /\ portfolio \in Portfolio /\ visited \in 0 .. NBars
    BY <1>2 DEF BacktestTypeOK, Series, Portfolio
  <2>2. CASE NextBar
    BY <1>2, <2>1, <2>2, BacktestConsts DEF NextBar, FinalWithinExit, Curve
  <2>3. CASE Finish
    <3>1. NBars \in 1 .. NBars /\ final'[1] = Equity(portfolio, NBars) /\ Slippage \in Nat
          /\ Commission \in Nat /\ Shares \in Nat
      BY <1>2, <2>1, <2>3, BacktestConsts DEF Finish, Curve, Last
    <3>2. portfolio.cash \in Int /\ series[NBars] \in Int
      BY <2>1, <3>1, SeriesTyped DEF Portfolio
    <3>3. portfolio' = ClosePosition(portfolio, NBars, "end_of_backtest")
      BY <2>3 DEF Finish
    <3>4. CASE HasPosition(portfolio)
      <4>1. portfolio'.cash = portfolio.cash + Received(NBars)
        BY <3>3, <3>4, Closed
      <4>2. final'[1] = portfolio.cash + Shares * series[NBars]
        BY <3>1, <3>4 DEF Equity
      <4>3. Received(NBars) = Shares * series[NBars] - (Shares * Slippage + Commission)
        BY <3>1, <3>2 DEF Received
      <4>. QED BY <3>1, <3>2, <4>1, <4>2, <4>3 DEF FinalWithinExit
    <3>5. CASE ~HasPosition(portfolio)
      <4>1. portfolio'.cash = portfolio.cash
        BY <3>3, <3>5, Closed
      <4>2. final'[1] = portfolio.cash
        BY <3>1, <3>2, <3>5 DEF Equity
      <4>. QED BY <3>1, <3>2, <4>1, <4>2 DEF FinalWithinExit
    <3>. QED BY <3>4, <3>5
  <2>. QED BY <1>2, <2>2, <2>3 DEF BacktestNext, Done, backtestVars, FinalWithinExit
<1>. QED BY <1>1, <1>2, BacktestTyped, PTL DEF BacktestSpec

\* What trades are said to have earned is a fold of their results.
LEMMA EarnedRuns ==
  ASSUME NEW q \in Seq(Trade)
  PROVE  \E r : /\ r[0] = 0
                /\ \A k \in 1 .. Len(q) : r[k] = r[k - 1] + q[k].pnl
                /\ Earned(q) = r[Len(q)]
<1> DEFINE n == Len(q)
           G == [k \in 1 .. n |-> [a \in Int |-> a + q[k].pnl]]
           Is(h) == h = [s \in SUBSET (1 .. n) |->
                           IF s = {} THEN 0 ELSE h[s \ {Max(s)}] + q[Max(s)].pnl]
           c == CHOOSE h : Is(h)
<1>1. n \in Nat /\ DOMAIN q = 1 .. n /\ \A k \in 1 .. n : q[k].pnl \in Int
  <2>1. \A k \in 1 .. n : q[k] \in Trade
    BY ElementOfSeq
  <2>. QED BY <2>1, LenProperties DEF Trade
<1>2. StepsIn(G, Int, n) /\ 0 \in Int
  BY <1>1 DEF StepsIn
<1>3. PICK h \in [SUBSET (1 .. n) -> Int] : Folds(G, 0, 1 .. n, h)
  <2>. HIDE DEF G, n
  <2>1. HasFold(G, 0, Int, n)
    BY <1>1, <1>2, FoldExists
  <2>. QED BY <2>1 DEF HasFold
<1>4. Is(h)
  <2>1. ASSUME NEW s \in SUBSET (1 .. n), s # {}
        PROVE  G[Max(s)][h[s \ {Max(s)}]] = h[s \ {Max(s)}] + q[Max(s)].pnl
    <3>1. Max(s) \in 1 .. n
      BY <1>1, <2>1, MaxIs
    <3>2. h[s \ {Max(s)}] \in Int
      OBVIOUS
    <3>. QED BY <3>1, <3>2
  <2>. HIDE DEF G, n
  <2>. QED BY <1>3, <2>1 DEF Folds
<1>5. Is(c)
  <2>. HIDE DEF Is
  <2>. QED BY <1>4
<1>6. Earned(q) = c[1 .. n]
  <2>. HIDE DEF n
  <2>. QED BY <1>1, Zenon DEF Earned, Plus, FoldLeft, MapThenFoldSet
<1> DEFINE r == [k \in 0 .. n |-> c[1 .. k]]
<1>7. r[0] = 0
  <2>1. 1 .. 0 = {}
    OBVIOUS
  <2>2. r[0] = c[{}]
    BY <1>1, <2>1
  <2>. HIDE DEF c, n, r
  <2>. QED BY <1>5, <2>2
<1>8. ASSUME NEW k \in 1 .. n PROVE r[k] = r[k - 1] + q[k].pnl
  <2>1. 1 .. k \in SUBSET (1 .. n) /\ 1 .. k # {} /\ Max(1 .. k) = k /\ (1 .. k) \ {k} = 1 .. k - 1
    BY <1>1, MaxOfInterval
  <2>2. c[1 .. k] = c[1 .. k - 1] + q[k].pnl
    <3>. HIDE DEF c, n
    <3>. QED BY <1>5, <2>1
  <2>3. k \in 0 .. n /\ k - 1 \in 0 .. n
    BY <1>1
  <2>. HIDE DEF c, n
  <2>. QED BY <2>2, <2>3
<1>9. n \in 0 .. n
  BY <1>1
<1>10. r[n] = c[1 .. n]
  BY <1>9
<1>. HIDE DEF c, r
<1>. QED BY <1>6, <1>7, <1>8, <1>10

LEMMA EarnedAppend ==
  ASSUME NEW q \in Seq(Trade), NEW t \in Trade
  PROVE  Earned(q) \in Int /\ Earned(Append(q, t)) = Earned(q) + t.pnl
<1> DEFINE n == Len(q)
           w == Append(q, t)
           G == [k \in 1 .. n |-> [a \in Int |-> a + q[k].pnl]]
<1>1. /\ n \in Nat /\ w \in Seq(Trade) /\ Len(w) = n + 1 /\ w[n + 1] = t
      /\ \A k \in 1 .. n : w[k] = q[k] /\ q[k].pnl \in Int
  <2>1. \A k \in 1 .. n : q[k] \in Trade
    BY ElementOfSeq
  <2>. QED BY <2>1, AppendProperties, LenProperties DEF Trade
<1>2. PICK r : /\ r[0] = 0
               /\ \A k \in 1 .. n : r[k] = r[k - 1] + q[k].pnl
               /\ Earned(q) = r[n]
  BY EarnedRuns
<1>3. PICK p : /\ p[0] = 0
               /\ \A k \in 1 .. n + 1 : p[k] = p[k - 1] + w[k].pnl
               /\ Earned(w) = p[n + 1]
  <2>. HIDE DEF n, w
  <2>. QED BY <1>1, EarnedRuns
<1>. HIDE DEF n, w
<1>4. StepsIn(G, Int, n) /\ 0 \in Int
  BY <1>1 DEF StepsIn
<1>5. Runs(G, Int, n, r)
  <2>1. ASSUME NEW k \in 1 .. n, r[k - 1] \in Int PROVE r[k] = G[k][r[k - 1]]
    <3>1. G[k][r[k - 1]] = r[k - 1] + q[k].pnl
      BY <2>1
    <3>. QED BY <1>2, <3>1
  <2>. HIDE DEF G
  <2>. QED BY <1>2, <2>1 DEF Runs
<1>6. Runs(G, Int, n, p)
  <2>1. ASSUME NEW k \in 1 .. n, p[k - 1] \in Int PROVE p[k] = G[k][p[k - 1]]
    <3>1. k \in 1 .. n + 1 /\ w[k] = q[k]
      BY <1>1
    <3>2. G[k][p[k - 1]] = p[k - 1] + q[k].pnl
      BY <2>1
    <3>. QED BY <1>3, <3>1, <3>2
  <2>. HIDE DEF G
  <2>. QED BY <1>3, <2>1 DEF Runs
<1>. HIDE DEF G
<1>7. r[n] \in Int /\ r[n] = p[n]
  <2>1. \A k \in 0 .. n : r[k] \in Int /\ r[k] = p[k]
    BY <1>1, <1>2, <1>3, <1>4, <1>5, <1>6, RunsAgree
  <2>. QED BY <1>1, <2>1
<1>8. p[n + 1] = p[n] + t.pnl
  BY <1>1, <1>3
<1>. QED BY <1>2, <1>3, <1>7, <1>8 DEF n, w

LEMMA EarnedTyped == ASSUME NEW q \in Seq(Trade) PROVE Earned(q) \in Int
<1> DEFINE t == [from |-> 1, to |-> 1, reason |-> "stop_loss", pnl |-> 0]
<1>1. t \in Trade
  BY BacktestConsts DEF Trade, Reasons
<1>. QED BY <1>1, EarnedAppend

LEMMA EarnedOfNone == Earned(<<>>) = 0
<1>1. <<>> \in Seq(Trade) /\ Len(<<>>) = 0
  OBVIOUS
<1>. QED BY <1>1, EarnedRuns

\* The account of a portfolio, as CashExplained has it.
Entries(p) == Len(p.trades) + (IF HasPosition(p) THEN 1 ELSE 0)
Explained(p) ==
  p.cash = InitialCash + Earned(p.trades) - Entries(p) * Commission - Shares * p.position.entry

LEMMA OpenExplained ==
  ASSUME series \in Series, NEW i \in 1 .. NBars, NEW p \in Portfolio, Explained(p)
  PROVE  Explained(OpenPosition(p, i))
<1>1. CASE OpenPosition(p, i) = p
  BY <1>1
<1>2. CASE OpenPosition(p, i) # p
  <2> DEFINE q == OpenPosition(p, i)
  <2>1. /\ ~HasPosition(p) /\ q.trades = p.trades /\ q.position = Entered(i)
        /\ q.cash = p.cash - (Shares * Entered(i).entry + Commission)
    BY <1>2, OpenTyped
  <2>2. HasPosition(q) /\ Entered(i).entry \in Nat
    BY <2>1, EnteredTyped, PositionTyped DEF HasPosition
  <2>3. p.position.entry = 0
    BY <2>1 DEF HasPosition, NoPosition
  <2>4. Entries(p) = Len(p.trades) /\ Entries(q) = Len(p.trades) + 1 /\ Len(p.trades) \in Nat
    <3>1. p.trades \in Seq(Trade)
      BY DEF Portfolio
    <3>. HIDE DEF q
    <3>. QED BY <2>1, <2>2, <3>1 DEF Entries
  <2>5. Earned(p.trades) \in Int /\ p.cash \in Int
    <3>1. p.trades \in Seq(Trade) /\ p.cash \in Int
      BY DEF Portfolio
    <3>. QED BY <3>1, EarnedTyped
  <2> DEFINE n == Len(p.trades)
             paid == Shares * Entered(i).entry
             fees == n * Commission
             more == (n + 1) * Commission
  <2>6. p.cash - (paid + Commission) = InitialCash + Earned(p.trades) - more - paid
    <3>1. n \in Int /\ InitialCash \in Int /\ Commission \in Int /\ Shares \in Int
      BY <2>4, BacktestConsts
    <3>2. p.cash = InitialCash + Earned(p.trades) - fees - Shares * 0
      BY <2>3, <2>4 DEF Explained
    <3>3. more = fees + Commission /\ fees \in Int /\ paid \in Int /\ Shares * 0 = 0
      BY <2>2, <3>1
    <3>. HIDE DEF n, paid, fees, more
    <3>. QED BY <2>5, <3>1, <3>2, <3>3
  <2>7. Explained(q)
    <3>. HIDE DEF q
    <3>. QED BY <2>1, <2>2, <2>3, <2>4, <2>5, <2>6 DEF Explained
  <2>. QED BY <2>7
<1>. QED BY <1>1, <1>2

LEMMA CloseExplained ==
  ASSUME series \in Series, NEW i \in 1 .. NBars, NEW p \in Portfolio, Explained(p),
         NEW why \in Reasons
  PROVE  Explained(ClosePosition(p, i, why))
<1>1. CASE ~HasPosition(p)
  BY <1>1, CloseTyped
<1>2. CASE HasPosition(p)
  <2> DEFINE q == ClosePosition(p, i, why)
             t == [from |-> p.position.bar, to |-> i, reason |-> why,
                   pnl |-> Received(i) - Shares * p.position.entry]
  <2>1. /\ q.cash = p.cash + Received(i) /\ q.position = NoPosition
        /\ q.trades = Append(p.trades, t)
    BY <1>2, CloseTyped
  <2>2. p.trades \in Seq(Trade) /\ p.cash \in Int /\ p.position \in Position
    BY DEF Portfolio
  <2>3. /\ p.position.entry \in Nat /\ p.position.bar \in 1 .. NBars
        /\ Received(i) \in Int /\ Received(i) - Shares * p.position.entry \in Int
    BY <1>2, <2>2, PositionTyped, ReceivedTyped, BacktestConsts DEF HasPosition
  <2>4. t \in Trade
    BY <2>3 DEF Trade
  <2>5. /\ Earned(q.trades) = Earned(p.trades) + (Received(i) - Shares * p.position.entry)
        /\ Earned(p.trades) \in Int
    BY <2>1, <2>2, <2>4, EarnedAppend
  <2>6. Entries(q) = Entries(p) /\ Entries(p) \in Nat
    <3>1. ~HasPosition(q) /\ Len(q.trades) = Len(p.trades) + 1 /\ Len(p.trades) \in Nat
      BY <2>1, <2>2, <2>4, AppendProperties, LenProperties DEF HasPosition
    <3>. HIDE DEF q
    <3>. QED BY <1>2, <3>1 DEF Entries
  <2>7. q.position.entry = 0
    BY <2>1 DEF NoPosition
  <2> DEFINE paid == Shares * p.position.entry
             fees == Entries(p) * Commission
  <2>8. p.cash + Received(i)
          = InitialCash + (Earned(p.trades) + (Received(i) - paid)) - fees - Shares * 0
    <3>1. InitialCash \in Int /\ paid \in Int /\ fees \in Int /\ Shares * 0 = 0
      BY <2>3, <2>6, BacktestConsts
    <3>2. p.cash = InitialCash + Earned(p.trades) - fees - paid
      BY DEF Explained
    <3>. HIDE DEF paid, fees
    <3>. QED BY <2>2, <2>3, <2>5, <3>1, <3>2
  <2>9. Explained(q)
    <3>. HIDE DEF q, t
    <3>. QED BY <2>1, <2>2, <2>3, <2>5, <2>6, <2>7, <2>8 DEF Explained
  <2>. QED BY <2>9
<1>. QED BY <1>1, <1>2

LEMMA BarExplained ==
  ASSUME series \in Series, NEW i \in 1 .. NBars, portfolio \in Portfolio,
         Explained(portfolio), NEW q \in AfterBar(i)
  PROVE  Explained(q)
<1> DEFINE p == Stopped(portfolio, i)
<1>1. p \in Portfolio /\ Explained(p)
  BY StoppedTyped, CloseExplained
<1>2. Explained(OpenPosition(p, i))
  BY <1>1, OpenExplained
<1>3. Explained(ClosePosition(p, i, "sell_signal"))
  BY <1>1, CloseExplained DEF Reasons
<1>. QED BY <1>1, <1>2, <1>3 DEF AfterBar

\* CashExplained: what trades have earned, commissions and an open position make up the cash.
THEOREM CashIsExplained == BacktestSpec => []CashExplained
<1>1. BacktestInit => CashExplained
  <2>1. NoPosition.entry = 0 /\ Len(<<>>) = 0
    BY DEF NoPosition
  <2>. QED BY <2>1, EarnedOfNone, BacktestConsts DEF BacktestInit, CashExplained, HasPosition
<1>2. ASSUME BacktestTypeOK, CashExplained, [BacktestNext]_backtestVars
      PROVE  CashExplained'
  <2>1. series \in Series /\ portfolio \in Portfolio /\ visited \in 0 .. NBars
    BY <1>2 DEF BacktestTypeOK, Series, Portfolio
  <2>2. Explained(portfolio)
    BY <1>2 DEF Explained, CashExplained, Entries
  <2>3. CASE NextBar
    <3>1. visited' \in 1 .. NBars /\ portfolio' \in AfterBar(visited')
      BY <2>1, <2>3, BacktestConsts DEF NextBar
    <3>2. Explained(portfolio')
      BY <2>1, <2>2, <3>1, BarExplained
    <3>. QED BY <3>2 DEF Explained, CashExplained, Entries
  <2>4. CASE Finish
    <3>1. NBars \in 1 .. NBars /\ "end_of_backtest" \in Reasons
      BY BacktestConsts DEF Reasons
    <3>2. Explained(portfolio')
      BY <2>1, <2>2, <2>4, <3>1, CloseExplained DEF Finish
    <3>. QED BY <3>2 DEF Explained, CashExplained, Entries
  <2>5. CASE UNCHANGED backtestVars
    BY <1>2, <2>5 DEF backtestVars, CashExplained, HasPosition, Earned
  <2>. QED BY <1>2, <2>3, <2>4, <2>5 DEF BacktestNext, Done
<1>. QED BY <1>1, <1>2, BacktestTyped, PTL DEF BacktestSpec

\* Fractions, as pairs, are compared by products.
LEMMA FractionsOrdered ==
  ASSUME NEW a \in Int, NEW c \in Int, NEW e \in Int,
         NEW b \in Nat \ {0}, NEW d \in Nat \ {0}, NEW f \in Nat \ {0},
         a * d <= c * b, c * f <= e * d
  PROVE  a * f <= e * b
<1>1. (a * d) * f <= (c * b) * f
  BY Scaled
<1>2. (c * f) * b <= (e * d) * b
  BY Scaled
<1>3. (a * f) * d <= (e * b) * d
  BY <1>1, <1>2
<1>. QED BY <1>3, Cancelled

Pass == [peak : Nat, worst : Nat \X (Nat \ {0})]

LEMMA PassedTyped ==
  ASSUME NEW acc \in Pass, NEW e \in Nat
  PROVE  Passed(acc, e) \in Pass
<1> DEFINE peak == Max2(acc.peak, e)
           d == acc.worst
<1>1. peak \in Nat /\ peak - e \in Nat
  BY DEF Pass, Max2
<1>2. d \in Nat \X (Nat \ {0})
  BY DEF Pass
<1>3. peak > 0 => <<peak - e, peak>> \in Nat \X (Nat \ {0})
  BY <1>1
<1>4. (IF peak > 0 THEN DeeperFall(d, <<peak - e, peak>>) ELSE d) \in Nat \X (Nat \ {0})
  BY <1>2, <1>3 DEF DeeperFall
<1>. QED BY <1>1, <1>4 DEF Passed, Pass

LEMMA PassRuns ==
  ASSUME NEW c \in Seq(Nat), c # <<>>
  PROVE  \E r : /\ r[0] = [peak |-> c[1], worst |-> <<0, 1>>]
                /\ \A k \in 1 .. Len(c) : r[k - 1] \in Pass /\ r[k] = Passed(r[k - 1], c[k])
                /\ MaxDrawdown(c) = r[Len(c)].worst
<1> DEFINE n == Len(c)
           base == [peak |-> c[1], worst |-> <<0, 1>>]
           G == [k \in 1 .. n |-> [a \in Pass |-> Passed(a, c[k])]]
           Is(h) == h = [s \in SUBSET (1 .. n) |->
                           IF s = {} THEN base ELSE Passed(h[s \ {Max(s)}], c[Max(s)])]
           q == CHOOSE h : Is(h)
<1>1. n \in Nat \ {0} /\ DOMAIN c = 1 .. n /\ \A k \in 1 .. n : c[k] \in Nat
  BY LenProperties, EmptySeq
<1>2. StepsIn(G, Pass, n)
  BY <1>1, PassedTyped DEF StepsIn
<1>3. base \in Pass
  BY <1>1 DEF Pass
<1>4. PICK h \in [SUBSET (1 .. n) -> Pass] : Folds(G, base, 1 .. n, h)
  <2>. HIDE DEF G, n, base
  <2>1. HasFold(G, base, Pass, n)
    BY <1>1, <1>2, <1>3, FoldExists
  <2>. QED BY <2>1 DEF HasFold
<1>5. Is(h)
  <2>1. ASSUME NEW s \in SUBSET (1 .. n), s # {}
        PROVE  G[Max(s)][h[s \ {Max(s)}]] = Passed(h[s \ {Max(s)}], c[Max(s)])
    <3>1. Max(s) \in 1 .. n
      BY <1>1, <2>1, MaxIs
    <3>2. h[s \ {Max(s)}] \in Pass
      OBVIOUS
    <3>. QED BY <3>1, <3>2
  <2>. HIDE DEF G, n, base
  <2>. QED BY <1>4, <2>1 DEF Folds
<1>6. Is(q)
  <2>. HIDE DEF Is
  <2>. QED BY <1>5
<1>7. MaxDrawdown(c) = q[1 .. n].worst
  <2>. HIDE DEF n
  <2>. QED BY <1>1, Zenon DEF MaxDrawdown, FoldLeft, MapThenFoldSet
<1> DEFINE r == [k \in 0 .. n |-> q[1 .. k]]
<1>8. r[0] = base
  <2>1. 1 .. 0 = {}
    OBVIOUS
  <2>2. r[0] = q[{}]
    BY <1>1, <2>1
  <2>. HIDE DEF q, n, r, base
  <2>. QED BY <1>6, <2>2
<1>9. ASSUME NEW k \in 1 .. n PROVE r[k] = Passed(r[k - 1], c[k])
  <2>1. 1 .. k \in SUBSET (1 .. n) /\ 1 .. k # {} /\ Max(1 .. k) = k /\ (1 .. k) \ {k} = 1 .. k - 1
    BY <1>1, MaxOfInterval
  <2>2. q[1 .. k] = Passed(q[1 .. k - 1], c[k])
    <3>. HIDE DEF q, n, base
    <3>. QED BY <1>6, <2>1
  <2>3. k \in 0 .. n /\ k - 1 \in 0 .. n
    BY <1>1
  <2>. HIDE DEF q, n
  <2>. QED BY <2>2, <2>3
<1>10. Runs(G, Pass, n, r)
  <2>1. ASSUME NEW k \in 1 .. n, r[k - 1] \in Pass PROVE r[k] = G[k][r[k - 1]]
    <3>1. G[k][r[k - 1]] = Passed(r[k - 1], c[k])
      BY <2>1
    <3>. HIDE DEF G, r
    <3>. QED BY <1>9, <3>1
  <2>. HIDE DEF G, r, n
  <2>. QED BY <1>3, <1>8, <2>1 DEF Runs
<1>11. \A k \in 0 .. n : r[k] \in Pass
  <2>. HIDE DEF G, r, n
  <2>. QED BY <1>1, <1>2, <1>10, RunsAgree
<1>12. n \in 0 .. n /\ r[n] = q[1 .. n] /\ \A k \in 1 .. n : k - 1 \in 0 .. n
  BY <1>1
<1>. HIDE DEF q, r, n
<1>13. \A k \in 1 .. n : r[k - 1] \in Pass /\ r[k] = Passed(r[k - 1], c[k])
  BY <1>9, <1>11, <1>12
<1>. QED BY <1>7, <1>8, <1>12, <1>13 DEF n

\* One point more: acc is the pass over the points before it.
FallsOf(c, k) == UNION {{<<c[i] - c[j], c[i]>> : j \in i .. k} : i \in 1 .. k}
Found(c, k, acc) ==
  /\ acc \in Pass
  /\ \A i \in 1 .. k : c[i] <= acc.peak
  /\ \E i \in 1 .. Len(c) : (i <= k \/ i = 1) /\ acc.peak = c[i]
  /\ acc.worst[1] = 0 \/ acc.worst \in FallsOf(c, k)
  /\ \A i \in 1 .. k : \A j \in i .. k :
       c[i] > 0 => (c[i] - c[j]) * acc.worst[2] <= acc.worst[1] * c[i]

LEMMA FallsGrow ==
  ASSUME NEW c, NEW k \in Nat PROVE FallsOf(c, k) \subseteq FallsOf(c, k + 1)
<1>1. SUFFICES ASSUME NEW f \in FallsOf(c, k) PROVE f \in FallsOf(c, k + 1)
  OBVIOUS
<1>2. PICK i \in 1 .. k : f \in {<<c[i] - c[j], c[i]>> : j \in i .. k}
  BY <1>1 DEF FallsOf
<1>3. PICK j \in i .. k : f = <<c[i] - c[j], c[i]>>
  BY <1>2
<1>4. i \in 1 .. k + 1 /\ j \in i .. k + 1
  OBVIOUS
<1>5. f \in {<<c[i] - c[l], c[i]>> : l \in i .. k + 1}
  BY <1>3, <1>4
<1>. QED BY <1>4, <1>5 DEF FallsOf

\* The deeper of two falls is one of them and as deep as both.
LEMMA DeeperIsDeepest ==
  ASSUME NEW d \in Nat \X (Nat \ {0}), NEW f \in Nat \X (Nat \ {0}), NEW w, w = DeeperFall(d, f)
  PROVE  w \in {d, f} /\ d[1] * w[2] <= w[1] * d[2] /\ f[1] * w[2] <= w[1] * f[2]
<1>1. d[1] \in Nat /\ d[2] \in Nat /\ f[1] \in Nat /\ f[2] \in Nat
  OBVIOUS
<1>2. d[1] * f[2] \in Int /\ f[1] * d[2] \in Int /\ d[1] * d[2] \in Int /\ f[1] * f[2] \in Int
  BY <1>1
<1>3. CASE d[1] * f[2] >= f[1] * d[2]
  <2>1. w = d
    BY <1>3 DEF DeeperFall
  <2>. QED BY <1>2, <1>3, <2>1
<1>4. CASE ~(d[1] * f[2] >= f[1] * d[2])
  <2>1. w = f
    BY <1>4 DEF DeeperFall
  <2>2. d[1] * f[2] <= f[1] * d[2]
    BY <1>2, <1>4
  <2>. QED BY <1>2, <2>1, <2>2
<1>. QED BY <1>3, <1>4

\* A fall from a peak is at least, in proportion, the fall to the same point from below it.
LEMMA PeakFalls ==
  ASSUME NEW x \in Nat, NEW peak \in Nat, NEW e \in Nat, x <= peak
  PROVE  (x - e) * peak <= (peak - e) * x
<1>1. x * e <= peak * e
  BY Scaled
<1>. QED BY <1>1

LEMMA FoundNext ==
  ASSUME NEW c \in Seq(Nat), NEW k \in Nat, k < Len(c), NEW acc, Found(c, k, acc)
  PROVE  Found(c, k + 1, Passed(acc, c[k + 1]))
<1> DEFINE e == c[k + 1]
           peak == Max2(acc.peak, e)
           d == acc.worst
           new == <<peak - e, peak>>
           next == Passed(acc, e)
<1>1. Len(c) \in Nat /\ k + 1 \in 1 .. Len(c) /\ \A i \in 1 .. Len(c) : c[i] \in Nat
  BY LenProperties, ElementOfSeq
<1>2. e \in Nat /\ acc \in Pass /\ acc.peak \in Nat /\ d \in Nat \X (Nat \ {0})
  BY <1>1 DEF Found, Pass
<1>3. d = <<d[1], d[2]>> /\ d[1] \in Nat /\ d[2] \in Nat \ {0}
  BY <1>2
<1>4. peak \in Nat /\ e <= peak /\ acc.peak <= peak /\ peak \in {acc.peak, e}
  BY <1>2 DEF Max2
<1>5. next.peak = peak /\ next.worst = IF peak > 0 THEN DeeperFall(d, new) ELSE d
  BY DEF Passed
<1>6. next \in Pass
  BY <1>2, PassedTyped
<1>. HIDE DEF e, peak, d, next
<1>7. \A i \in 1 .. k + 1 : c[i] \in Nat /\ c[i] <= peak
  <2>1. \A i \in 1 .. k : c[i] <= acc.peak /\ c[i] \in Nat
    BY <1>1 DEF Found
  <2>2. ASSUME NEW i \in 1 .. k + 1 PROVE c[i] \in Nat /\ c[i] <= peak
    <3>1. CASE i \in 1 .. k
      BY <1>2, <1>4, <2>1, <3>1
    <3>2. CASE i = k + 1
      BY <1>2, <1>4, <3>2 DEF e
    <3>. QED BY <3>1, <3>2
  <2>. QED BY <2>2
<1>8. PICK m \in 1 .. Len(c) : (m <= k + 1 \/ m = 1) /\ peak = c[m]
  <2>1. CASE peak = e
    BY <1>1, <2>1 DEF e
  <2>2. CASE peak = acc.peak
    BY <1>1, <2>2 DEF Found
  <2>. QED BY <1>4, <2>1, <2>2
<1>9. m \in 1 .. k + 1
  BY <1>1, <1>8
<1>10. new \in FallsOf(c, k + 1)
  BY <1>8, <1>9, <1>1 DEF FallsOf, e
<1>11. next.worst[1] = 0 \/ next.worst \in FallsOf(c, k + 1)
  <2>1. d[1] = 0 \/ d \in FallsOf(c, k + 1)
    BY FallsGrow DEF Found, d
  <2>. QED BY <1>5, <1>10, <2>1 DEF DeeperFall
\* the fall kept is as deep as both
<1>12. CASE peak > 0
  <2> DEFINE w == next.worst
  <2>1. new \in Nat \X (Nat \ {0}) /\ new[1] = peak - e /\ new[2] = peak /\ peak - e \in Nat
    BY <1>2, <1>4, <1>12
  <2>2. /\ w[1] \in Nat /\ w[2] \in Nat \ {0}
        /\ d[1] * w[2] <= w[1] * d[2] /\ (peak - e) * w[2] <= w[1] * peak
    <3>1. w = DeeperFall(d, new)
      BY <1>5, <1>12
    <3>. HIDE DEF w, new
    <3>2. w \in {d, new} /\ d[1] * w[2] <= w[1] * d[2] /\ new[1] * w[2] <= w[1] * new[2]
      BY <1>2, <2>1, <3>1, DeeperIsDeepest
    <3>3. w[1] \in Nat /\ w[2] \in Nat \ {0}
      BY <1>3, <1>4, <1>12, <2>1, <3>2
    <3>. QED BY <2>1, <3>2, <3>3
  <2>3. ASSUME NEW i \in 1 .. k + 1, NEW j \in i .. k + 1, c[i] > 0
        PROVE  (c[i] - c[j]) * w[2] <= w[1] * c[i]
    <3>1. c[i] \in Nat \ {0} /\ c[j] \in Nat /\ c[i] <= peak
      <4>1. j \in 1 .. k + 1
        OBVIOUS
      <4>. QED BY <1>7, <2>3, <4>1
    <3> DEFINE x == c[i]
               y == c[j]
               a == w[1]
               b == w[2]
               a0 == d[1]
               b0 == d[2]
    <3>0. /\ x \in Nat \ {0} /\ y \in Nat /\ x - y \in Int /\ x <= peak
          /\ a \in Int /\ b \in Nat \ {0} /\ a0 \in Int /\ b0 \in Nat \ {0}
          /\ a0 * b <= a * b0 /\ (peak - e) * b <= a * peak
      <4>1. x - y \in Int
        BY <3>1
      <4>2. a \in Int /\ b \in Nat \ {0}
        BY <2>2
      <4>3. a0 * b <= a * b0 /\ (peak - e) * b <= a * peak
        BY <2>2
      <4>4. a0 \in Int /\ b0 \in Nat \ {0}
        BY <1>3
      <4>. QED BY <3>1, <4>1, <4>2, <4>3, <4>4
    <3>2. CASE j <= k
      <4>1. (x - y) * b0 <= a0 * x
        <5>1. i \in 1 .. k /\ j \in i .. k
          BY <3>2
        <5>. QED BY <2>3, <5>1 DEF Found, d
      <4>2. (x - y) * b <= a * x
        <5>. HIDE DEF a, b, a0, b0, x, y
        <5>. QED BY <3>0, <4>1, FractionsOrdered
      <4>. QED BY <4>2
    <3>3. CASE j = k + 1
      <4>1. y = e
        BY <3>3 DEF e
      <4>. HIDE DEF a, b, x, y
      <4>2. (x - e) * peak <= (peak - e) * x
        BY <1>2, <1>4, <3>0, PeakFalls
      <4>3. x - e \in Int /\ peak - e \in Int /\ peak \in Nat \ {0}
        BY <1>2, <1>4, <1>12, <3>0
      <4>4. (x - e) * b <= a * x
        BY <3>0, <4>2, <4>3, FractionsOrdered
      <4>5. (x - y) * b <= a * x
        BY <4>1, <4>4
      <4>. QED BY <4>5 DEF x, y, a, b
    <3>4. j <= k \/ j = k + 1
      OBVIOUS
    <3>. QED BY <3>2, <3>3, <3>4
  <2>. QED BY <1>5, <1>6, <1>7, <1>8, <1>11, <2>3 DEF Found, next, e
<1>13. CASE ~(peak > 0)
  <2>1. \A i \in 1 .. k + 1 : ~(c[i] > 0)
    BY <1>4, <1>7, <1>13
  <2>. QED BY <1>5, <1>6, <1>7, <1>8, <1>11, <2>1 DEF Found, next, e
<1>. QED BY <1>12, <1>13

\* The pass finds the largest fall of any curve that does not go below zero.
LEMMA LargestFall ==
  ASSUME NEW c \in Seq(Nat), c # <<>>
  PROVE  LET d == MaxDrawdown(c)
         IN  /\ d[1] = 0 \/ d \in FallsOf(c, Len(c))
             /\ \A i \in 1 .. Len(c) : \A j \in i .. Len(c) :
                  c[i] > 0 => (c[i] - c[j]) * d[2] <= d[1] * c[i]
<1> DEFINE n == Len(c)
<1>1. n \in Nat \ {0} /\ c[1] \in Nat
  BY LenProperties, EmptySeq, ElementOfSeq
<1>2. PICK r : /\ r[0] = [peak |-> c[1], worst |-> <<0, 1>>]
               /\ \A k \in 1 .. n : r[k - 1] \in Pass /\ r[k] = Passed(r[k - 1], c[k])
               /\ MaxDrawdown(c) = r[n].worst
  BY PassRuns
<1> DEFINE Good == {k \in Nat : k <= n => Found(c, k, r[k])}
<1>3. 0 \in Good
  <2>1. r[0] \in Pass /\ r[0].peak = c[1] /\ r[0].worst[1] = 0
    BY <1>1, <1>2 DEF Pass
  <2>2. Found(c, 0, r[0])
    BY <1>1, <2>1 DEF Found
  <2>. QED BY <2>2
<1>4. ASSUME NEW k \in Nat, k \in Good PROVE k + 1 \in Good
  <2>. SUFFICES ASSUME k + 1 <= n PROVE Found(c, k + 1, r[k + 1])
    OBVIOUS
  <2>1. k + 1 \in 1 .. n /\ (k + 1) - 1 = k /\ Found(c, k, r[k])
    BY <1>1, <1>4
  <2>2. r[k + 1] = Passed(r[k], c[k + 1])
    BY <1>2, <2>1
  <2>. QED BY <2>1, <2>2, FoundNext
<1>5. n \in Good
  <2>. HIDE DEF Good, n
  <2>. QED BY <1>1, <1>3, <1>4, NatInduced
<1>6. Found(c, n, r[n])
  BY <1>1, <1>5
<1>. QED BY <1>2, <1>6 DEF Found

\* An exit brings at least its commission: else an account can go below zero.
ExitsPay == \A p \in Prices : Shares * (p - Slippage) >= Commission

Solvent == portfolio.cash >= 0 /\ curve \in Seq(Nat)

LEMMA CloseSolvent ==
  ASSUME ExitsPay, series \in Series, NEW i \in 1 .. NBars, NEW p \in Portfolio, p.cash >= 0,
         NEW why \in Reasons
  PROVE  ClosePosition(p, i, why).cash >= 0
<1>1. series[i] \in Prices
  BY DEF Series
<1>2. Received(i) >= 0
  <2> DEFINE got == Shares * (series[i] - Slippage)
  <2>1. got \in Int /\ Commission \in Int
    BY SeriesTyped, BacktestConsts
  <2>3. got >= Commission
    BY <1>1 DEF ExitsPay
  <2>. HIDE DEF got
  <2>2. Received(i) = got - Commission
    BY DEF Received, got
  <2>. QED BY <2>1, <2>2, <2>3
<1>3. p.cash \in Int /\ Received(i) \in Int
  BY ReceivedTyped DEF Portfolio
<1>. QED BY <1>2, <1>3, Closed

LEMMA OpenSolvent ==
  ASSUME series \in Series, NEW i \in 1 .. NBars, NEW p \in Portfolio, p.cash >= 0
  PROVE  OpenPosition(p, i).cash >= 0
<1>1. CASE OpenPosition(p, i) = p
  BY <1>1
<1>2. CASE OpenPosition(p, i) # p
  <2> DEFINE cost == Shares * Entered(i).entry + Commission
  <2>1. cost \in Int /\ p.cash \in Int
    BY EnteredTyped, PositionTyped, BacktestConsts DEF Portfolio
  <2>2. cost <= p.cash /\ OpenPosition(p, i).cash = p.cash - cost
    BY <1>2, OpenTyped
  <2>. HIDE DEF cost
  <2>. QED BY <2>1, <2>2
<1>. QED BY <1>1, <1>2

LEMMA BarSolvent ==
  ASSUME ExitsPay, series \in Series, NEW i \in 1 .. NBars, portfolio \in Portfolio,
         portfolio.cash >= 0, NEW q \in AfterBar(i)
  PROVE  q.cash >= 0 /\ Equity(q, i) \in Nat
<1> DEFINE p == Stopped(portfolio, i)
<1>1. p \in Portfolio /\ p.cash >= 0
  BY StoppedTyped, CloseSolvent
<1>2. q.cash >= 0
  BY <1>1, OpenSolvent, CloseSolvent DEF AfterBar, Reasons
<1>3. q.cash \in Int /\ series[i] \in Nat
  BY BarTyped, SeriesTyped DEF Portfolio
<1>. QED BY <1>2, <1>3, BacktestConsts DEF Equity

LEMMA StaysSolvent == ASSUME ExitsPay PROVE BacktestSpec => []Solvent
<1>1. BacktestInit => Solvent
  BY BacktestConsts DEF BacktestInit, Solvent
<1>2. ASSUME BacktestTypeOK, Solvent, [BacktestNext]_backtestVars PROVE Solvent'
  <2>1. series \in Series /\ portfolio \in Portfolio /\ visited \in 0 .. NBars
    BY <1>2 DEF BacktestTypeOK, Series, Portfolio
  <2>2. CASE NextBar
    <3>1. visited' \in 1 .. NBars /\ portfolio' \in AfterBar(visited')
      BY <2>1, <2>2, BacktestConsts DEF NextBar
    <3>2. portfolio'.cash >= 0 /\ Equity(portfolio', visited') \in Nat
      <4>1. Equity(portfolio', visited') \in Nat /\ portfolio'.cash >= 0
        BY <1>2, <2>1, <3>1, BarSolvent DEF Solvent
      <4>. QED BY <4>1
    <3>3. curve' \in Seq(Nat)
      BY <1>2, <2>2, <3>2, AppendProperties DEF NextBar, Solvent
    <3>. QED BY <3>2, <3>3 DEF Solvent
  <2>3. CASE Finish
    <3>1. NBars \in 1 .. NBars /\ "end_of_backtest" \in Reasons
      BY BacktestConsts DEF Reasons
    <3>2. portfolio'.cash >= 0
      BY <1>2, <2>1, <2>3, <3>1, CloseSolvent DEF Finish, Solvent
    <3>. QED BY <1>2, <2>3, <3>2 DEF Solvent, Finish
  <2>. QED BY <1>2, <2>2, <2>3 DEF BacktestNext, Done, backtestVars, Solvent
<1>. QED BY <1>1, <1>2, BacktestTyped, PTL DEF BacktestSpec

\* DrawdownIsLargestFall: the one pass of _max_drawdown finds the largest fall, in
\* proportion, of the equity curve from any of its points to a later one.
THEOREM DrawdownFound == ASSUME ExitsPay PROVE BacktestSpec => []DrawdownIsLargestFall
<1>1. Solvent => DrawdownIsLargestFall
  <2>. SUFFICES ASSUME Solvent, curve # <<>> PROVE DrawdownIsLargestFall
    BY DEF DrawdownIsLargestFall
  <2> DEFINE d == MaxDrawdown(curve)
  <2>1. /\ d[1] = 0 \/ d \in FallsOf(curve, Len(curve))
        /\ \A i \in 1 .. Len(curve) : \A j \in i .. Len(curve) :
             curve[i] > 0 => (curve[i] - curve[j]) * d[2] <= d[1] * curve[i]
    BY LargestFall DEF Solvent
  <2>. HIDE DEF d
  <2>2. ASSUME NEW f \in FallsOf(curve, Len(curve)), f[2] > 0 PROVE f[1] * d[2] <= d[1] * f[2]
    <3>1. PICK i \in 1 .. Len(curve) :
            f \in {<<curve[i] - curve[j], curve[i]>> : j \in i .. Len(curve)}
      BY DEF FallsOf
    <3>2. PICK j \in i .. Len(curve) : f = <<curve[i] - curve[j], curve[i]>>
      BY <3>1
    <3>. QED BY <2>1, <2>2, <3>2
  <2>. QED BY <2>1, <2>2 DEF DrawdownIsLargestFall, FallsOf, d
<1>. QED BY <1>1, StaysSolvent, PTL
=============================================================================
