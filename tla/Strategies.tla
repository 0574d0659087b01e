----------------------------- MODULE Strategies -----------------------------
(***************************************************************************)
(* What the three strategies say of a row of features, and how confident   *)
(* they are (rac/strategies/trend_following.py, mean_reversion.py,         *)
(* momentum.py, validation.py).                                            *)
(*                                                                         *)
(* A row maps the features it has to integers, in units in which the       *)
(* thresholds are whole and the formulas exact:                            *)
(*   close, sma_3, sma_5, sma_20   tenths of a percent over sma_5          *)
(*   return_1, volatility_5        tenths of a percent                     *)
(*   rsi_14, bb_pct_b              points, percent of the bands' width     *)
(*   macd, macd_hist               tenths of 0.1% of the close             *)
(* There is no row in which a price is zero.                               *)
(***************************************************************************)
EXTENDS Integers

Names == {"close", "sma_3", "sma_5", "sma_20", "return_1", "volatility_5",
          "rsi_14", "bb_pct_b", "macd", "macd_signal", "macd_hist"}

Strategy == {"EQ_TREND_001", "EQ_REVERSION_001", "EQ_MOMENTUM_001"}
Directions == {"buy", "sell", "hold"}

\* One, in the units of each strategy's confidence
One == [EQ_TREND_001 |-> 600, EQ_REVERSION_001 |-> 560, EQ_MOMENTUM_001 |-> 1100]

Required ==
  [EQ_TREND_001 |-> {"close", "sma_3", "sma_5", "return_1", "volatility_5"},
   EQ_REVERSION_001 |-> {"close", "sma_20", "rsi_14", "bb_pct_b"},
   EQ_MOMENTUM_001 |-> {"close", "return_1", "macd", "macd_signal", "macd_hist", "rsi_14"}]

Abs(n) == IF n >= 0 THEN n ELSE -n
AtMost(n, bound) == IF n <= bound THEN n ELSE bound
AtLeast(n, bound) == IF n >= bound THEN n ELSE bound

Clamped(s, n) == AtLeast(AtMost(n, One[s]), 0)
-----------------------------------------------------------------------------
RsiOversold == 35
RsiOverbought == 65
BbLower == 20
BbUpper == 80
RsiBuy == 45 .. 72
RsiSell == 28 .. 55

TrendDirection(v) ==
  IF v["close"] > v["sma_3"] /\ v["sma_3"] > v["sma_5"] /\ v["return_1"] > 0 THEN "buy"
  ELSE IF v["close"] < v["sma_3"] /\ v["sma_3"] < v["sma_5"] /\ v["return_1"] < 0 THEN "sell"
  ELSE "hold"

\* Full scores at 0.3% and 0.2%; volatility costs 0.05 per tenth, 0.3 at most.
TrendConfidence(v) ==
  Clamped("EQ_TREND_001",
    300 + 70 * AtMost(Abs(v["close"] - v["sma_5"]), 3)
        + 75 * AtMost(Abs(v["sma_3"] - v["sma_5"]), 2)
        - 30 * AtMost(v["volatility_5"], 6))

ReversionDirection(v) ==
  IF v["rsi_14"] < RsiOversold /\ v["bb_pct_b"] < BbLower /\ v["close"] < v["sma_20"] THEN "buy"
  ELSE IF v["rsi_14"] > RsiOverbought /\ v["bb_pct_b"] > BbUpper /\ v["close"] > v["sma_20"] THEN "sell"
  ELSE "hold"

\* 0.5 and a quarter of either score, which is 1 at 35 points and at 20 percent
ReversionConfidence(v, direction) ==
  LET rsi == IF direction = "buy" THEN RsiOversold - v["rsi_14"] ELSE v["rsi_14"] - RsiOverbought
      bb == IF direction = "buy" THEN BbLower - v["bb_pct_b"] ELSE v["bb_pct_b"] - BbUpper
  IN  IF direction = "hold" THEN 280
      ELSE Clamped("EQ_REVERSION_001", 280 + 4 * AtLeast(rsi, 0) + 7 * AtLeast(bb, 0))

MomentumDirection(v) ==
  IF v["macd_hist"] > 0 /\ v["macd"] > 0 /\ v["rsi_14"] \in RsiBuy /\ v["return_1"] > 0 THEN "buy"
  ELSE IF v["macd_hist"] < 0 /\ v["macd"] < 0 /\ v["rsi_14"] \in RsiSell /\ v["return_1"] < 0 THEN "sell"
  ELSE "hold"

\* 0.3 at a histogram of 0.1%, 0.2 at 22 points from the middle
MomentumConfidence(v, direction) ==
  IF direction = "hold" THEN 550
  ELSE Clamped("EQ_MOMENTUM_001",
         550 + 33 * AtMost(Abs(v["macd_hist"]), 10)
             + 10 * AtLeast(IF direction = "buy" THEN v["rsi_14"] - 50 ELSE 50 - v["rsi_14"], 0))
-----------------------------------------------------------------------------
Direction(s, v) ==
  IF s = "EQ_TREND_001" THEN TrendDirection(v)
  ELSE IF s = "EQ_REVERSION_001" THEN ReversionDirection(v)
  ELSE MomentumDirection(v)

Confidence(s, v) ==
  IF s = "EQ_TREND_001" THEN TrendConfidence(v)
  ELSE IF s = "EQ_REVERSION_001" THEN ReversionConfidence(v, ReversionDirection(v))
  ELSE MomentumConfidence(v, MomentumDirection(v))

\* validate_features: the strategies that judge the row
Judges(v) == {s \in Strategy : Required[s] \subseteq DOMAIN v}

\* generate, of one row
Generate(v) ==
  [s \in Judges(v) |-> [direction |-> Direction(s, v), confidence |-> Confidence(s, v)]]
-----------------------------------------------------------------------------
\* The row of the market seen upside down
Mirror(v) ==
  [f \in DOMAIN v |->
     IF f \in {"rsi_14", "bb_pct_b"} THEN 100 - v[f]
     ELSE IF f = "volatility_5" THEN v[f] ELSE -v[f]]
Opposite == [buy |-> "sell", sell |-> "buy", hold |-> "hold"]

\* w lies beyond v on the side from which the price is expected to return.
Deeper(v, w, side) ==
  IF side = "buy" THEN w["rsi_14"] <= v["rsi_14"] /\ w["bb_pct_b"] <= v["bb_pct_b"]
                  ELSE w["rsi_14"] >= v["rsi_14"] /\ w["bb_pct_b"] >= v["bb_pct_b"]
=============================================================================
