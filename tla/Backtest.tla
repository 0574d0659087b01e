------------------------------ MODULE Backtest ------------------------------
(***************************************************************************)
(* The backtest: BacktestEngine.run (rac/backtest/engine.py) over the      *)
(* BacktestPortfolio (rac/backtest/portfolio.py), and the drawdown over    *)
(* the equity curve (rac/backtest/metrics.py).                             *)
(*                                                                         *)
(* One step is one bar.  What a strategy says of a bar is open; a position *)
(* is of Shares shares, slippage and stops are distances in price: the     *)
(* percentages of the code only scale them.                                *)
(* Names of the specification begin with the module's, so that one module  *)
(* can extend it and Indicators.                                           *)
(***************************************************************************)
EXTENDS Integers, Sequences, FiniteSets, FiniteSetsExt, SequencesExt

CONSTANTS
  Prices,       \* what a bar can close at
  NBars,        \* length of the series
  InitialCash,
  Shares,
  Slippage,     \* per share and side
  Commission,   \* per order
  StopLoss,     \* below the entry
  TakeProfit    \* above it

ASSUME BacktestConstants ==
  /\ Prices \subseteq Nat \ {0}
  /\ {NBars, Shares} \subseteq Nat \ {0}
  /\ {InitialCash, Slippage, Commission, StopLoss, TakeProfit} \subseteq Nat

VARIABLES
  series,    \* series[t]: the close of the t-th bar of the series, by time
  visited,   \* bars processed: the loop's i
  portfolio, \* the BacktestPortfolio: its cash, position and trades
  curve,     \* equity_curve
  final      \* final_equity of the result, as <<e>>; Running before

backtestVars == <<series, visited, portfolio, curve, final>>
-----------------------------------------------------------------------------
\* A position is what was paid, where the stops are, and the bar of its entry.
NoPosition == [entry |-> 0, stop |-> 0, target |-> 0, bar |-> 0]
Running == <<>>
Reasons == {"stop_loss", "take_profit", "sell_signal", "end_of_backtest"}

Position == {NoPosition} \cup [entry : Nat, stop : Int, target : Nat, bar : 1 .. NBars]
Trade == [from : 1 .. NBars, to : 1 .. NBars, pnl : Int, reason : Reasons]

Max2(a, b) == IF a >= b THEN a ELSE b

BacktestTypeOK ==
  /\ series \in [1 .. NBars -> Prices]
  /\ visited \in 0 .. NBars
  /\ portfolio \in [cash : Int, position : Position, trades : Seq(Trade)]
  /\ curve \in Seq(Int)
  /\ final \in Seq(Int) /\ Len(final) <= 1

BacktestInit ==
  /\ series \in [1 .. NBars -> Prices]
  /\ visited = 0
  /\ portfolio = [cash |-> InitialCash, position |-> NoPosition, trades |-> <<>>]
  /\ curve = <<>>
  /\ final = Running
-----------------------------------------------------------------------------
(* BacktestPortfolio: p is one, i the bar.                                 *)

HasPosition(p) == p.position # NoPosition

Entered(i) ==
  LET fill == series[i] + Slippage
  IN  [entry |-> fill, stop |-> fill - StopLoss, target |-> fill + TakeProfit, bar |-> i]

\* open_position: one that cannot be paid is not opened.
OpenPosition(p, i) ==
  LET cost == Shares * Entered(i).entry + Commission
  IN  IF HasPosition(p) \/ cost > p.cash
        THEN p
        ELSE [cash |-> p.cash - cost, position |-> Entered(i), trades |-> p.trades]

Received(i) == Shares * (series[i] - Slippage) - Commission

Exit(p, i, reason, cash) ==
  [cash |-> p.cash + cash, position |-> NoPosition,
   trades |-> Append(p.trades,
     [from |-> p.position.bar, to |-> i, reason |-> reason,
      pnl |-> Received(i) - Shares * p.position.entry])]

\* mutants: the cash has no commission, or slips the other way
CloseFree(p, i, reason) ==
  IF HasPosition(p) THEN Exit(p, i, reason, Received(i) + Commission) ELSE p
CloseAbove(p, i, reason) ==
  IF HasPosition(p) THEN Exit(p, i, reason, Received(i) + 2 * Shares * Slippage) ELSE p

\* close_position
ClosePosition(p, i, reason) ==
  IF HasPosition(p) THEN Exit(p, i, reason, Received(i)) ELSE p

CheckLossOnly(p, i) ==  \* mutant: the target is not looked at
  IF HasPosition(p) /\ series[i] <= p.position.stop THEN "stop_loss" ELSE "none"

\* check_sl_tp: the stop is looked at first.
CheckSlTp(p, i) ==
  CASE HasPosition(p) /\ series[i] <= p.position.stop   -> "stop_loss"
    [] HasPosition(p) /\ series[i] >= p.position.target -> "take_profit"
    [] OTHER                                           -> "none"

\* mark_to_market
Equity(p, i) == p.cash + (IF HasPosition(p) THEN Shares * series[i] ELSE 0)
-----------------------------------------------------------------------------
(* BacktestEngine.run                                                      *)

Stopped(p, i) ==
  LET trigger == CheckSlTp(p, i)
  IN  IF trigger = "none" THEN p ELSE ClosePosition(p, i, trigger)

\* The stops of the bar come first; then the newest bar of the window that has all
\* its features says buy, sell, or nothing.
AfterBar(i) ==
  LET p == Stopped(portfolio, i)
  IN  {p, OpenPosition(p, i), ClosePosition(p, i, "sell_signal")}

NextBar ==
  /\ visited < NBars
  /\ visited' = visited + 1
  /\ portfolio' \in AfterBar(visited')
  /\ curve' = Append(curve, Equity(portfolio', visited'))
  /\ UNCHANGED <<series, final>>

\* The forced close comes after the last mark; the result's final equity is that mark.
Finish ==
  /\ visited = NBars /\ final = Running
  /\ portfolio' = ClosePosition(portfolio, NBars, "end_of_backtest")
  /\ final' = <<Last(curve)>>
  /\ UNCHANGED <<series, visited, curve>>

Done == final # Running /\ UNCHANGED backtestVars

BacktestNext == NextBar \/ Finish \/ Done

BacktestSpec == BacktestInit /\ [][BacktestNext]_backtestVars
-----------------------------------------------------------------------------
(* metrics.py: fractions are pairs, compared by products.                  *)

DeeperFall(d, e) == IF d[1] * e[2] >= e[1] * d[2] THEN d ELSE e

\* mutant: the peak is the first equity
MaxDrawdownOfFirst(c) ==
  FoldLeft(LAMBDA acc, e : [acc EXCEPT !.worst = DeeperFall(@, <<acc.peak - e, acc.peak>>)],
           [peak |-> c[1], worst |-> <<0, 1>>], c).worst

Passed(acc, e) ==
  LET peak == Max2(acc.peak, e)
  IN  [peak |-> peak,
       worst |-> IF peak > 0 THEN DeeperFall(acc.worst, <<peak - e, peak>>) ELSE acc.worst]

\* _max_drawdown: one pass with a running peak
MaxDrawdown(c) == FoldLeft(Passed, [peak |-> c[1], worst |-> <<0, 1>>], c).worst
-----------------------------------------------------------------------------
(* Properties                                                              *)

Plus(earned, trade) == earned + trade.pnl
Earned(trades) == FoldLeft(Plus, 0, trades)

\* The account of the run: what the trades are said to have earned, the commission
\* of each entry, which no trade shows, and an open position make up the cash.
CashExplained ==
  LET p == portfolio
      entries == Len(p.trades) + (IF HasPosition(p) THEN 1 ELSE 0)
  IN  p.cash = InitialCash + Earned(p.trades) - entries * Commission
                 - Shares * p.position.entry

\* A position that a bar finds open and leaves open is between its stops there.
StopsHold ==
  LET open == portfolio.position
  IN  open # NoPosition /\ open.bar < visited =>
        open.stop < series[visited] /\ series[visited] < open.target

\* The final equity that is reported is the cash that is left, or more by no more
\* than what it costs to leave one position.
FinalWithinExit ==
  final # Running =>
    /\ portfolio.cash <= final[1]
    /\ final[1] - portfolio.cash <= Shares * Slippage + Commission

\* The pass with a running peak finds the largest fall, in proportion, of an equity
\* from any earlier one: no fall is deeper, and it is one of them.
DrawdownIsLargestFall ==
  LET d == MaxDrawdown(curve)
      falls == UNION {{<<curve[i] - curve[j], curve[i]>> : j \in i .. Len(curve)} :
                        i \in 1 .. Len(curve)}
  IN  curve # <<>> =>
        /\ d[1] = 0 \/ d \in falls
        /\ \A f \in falls : f[2] > 0 => f[1] * d[2] <= d[1] * f[2]
=============================================================================
