----------------------------- MODULE Valuation -----------------------------
(***************************************************************************)
(* The books of the portfolio: what a fill and a mark-to-market write      *)
(* (rac/portfolio/repository.py, rac/portfolio/service.py), what a closed  *)
(* trade is said to have earned (rac/orders/outcome.py), and the two views *)
(* of a day's result.                                                      *)
(*                                                                         *)
(* A snapshot after a fill values positions at what they cost, and one     *)
(* after a mark-to-market at what they are worth; both feed one peak.      *)
(* One process writes here; Reconciliation has several.  quantity *        *)
(* average_price is one variable, basis, so that it stays whole.           *)
(* Names of the specification begin with the module's, so that one module  *)
(* can extend it and Alerts.                                               *)
(***************************************************************************)
EXTENDS Integers, Sequences, FiniteSets, FiniteSetsExt

CONSTANTS
  Symbols,
  Prices,      \* what a share can cost
  Sizes,       \* shares that an order buys or sells
  StartCash,
  MaxSnaps,    \* bound on the snapshots
  MaxDays,     \* bound on the days that pass
  MaxMoves     \* bound on the moves of prices

ASSUME ValuationConstants ==
  /\ IsFiniteSet(Symbols)
  /\ Prices \subseteq Nat \ {0} /\ Prices # {}
  /\ Sizes \subseteq Nat \ {0}
  /\ StartCash \in Nat
  /\ {MaxSnaps, MaxDays, MaxMoves} \subseteq Nat

VARIABLES
  price,      \* price[s]: the market's price, the close of the latest bar
  traded,     \* the symbols with a row in positions
  qty,        \* quantity of a row
  basis,      \* quantity * average_price of a row
  cash,       \* the cash of the latest snapshot
  snaps,      \* portfolio_snapshots
  entry,      \* entry[s]: what the last filled buy of s paid; 0 if none
  realized,   \* the sum of realized_pnl over trade_outcomes
  day,
  moves,
  pyramided,  \* history: a symbol was bought while it was held
  unpriced    \* history: a position was left out of a snapshot

books == <<traded, qty, basis, cash, snaps, entry, realized>>
lapses == <<pyramided, unpriced>>
valuationVars == <<books, price, day, moves, lapses>>
-----------------------------------------------------------------------------
Total(w, S) == MapThenSumSet(LAMBDA s : w[s], S)
Larger(a, b) == IF a >= b THEN a ELSE b

Worth == [s \in Symbols |-> qty[s] * price[s]]

Snap == [day : 0 .. MaxDays, nav : Int, pnl : Int, drop : Nat]

ValuationTypeOK ==
  /\ price \in [Symbols -> Prices]
  /\ traded \subseteq Symbols
  /\ qty \in [Symbols -> Nat]
  /\ basis \in [Symbols -> Int]
  /\ cash \in Int
  /\ snaps \in Seq(Snap) /\ Len(snaps) <= MaxSnaps
  /\ entry \in [Symbols -> Prices \cup {0}]
  /\ realized \in Int
  /\ day \in 0 .. MaxDays
  /\ moves \in 0 .. MaxMoves
  /\ pyramided \in BOOLEAN /\ unpriced \in BOOLEAN

ValuationInit ==
  /\ price \in [Symbols -> Prices]
  /\ traded = {}
  /\ qty = [s \in Symbols |-> 0]
  /\ basis = [s \in Symbols |-> 0]
  /\ cash = StartCash
  /\ snaps = <<>>
  /\ entry = [s \in Symbols |-> 0]
  /\ realized = 0
  /\ day = 0
  /\ moves = 0
  /\ pyramided = FALSE
  /\ unpriced = FALSE
-----------------------------------------------------------------------------
(* Snapshots.                                                              *)

Before(d) == {i \in 1 .. Len(snaps) : snaps[i].day < d}

\* mutant: against the last snapshot of any day
DailyPnlOfLast(nav) == IF snaps = <<>> THEN 0 ELSE nav - snaps[Len(snaps)].nav

\* _daily_pnl: against the last snapshot before today
DailyPnl(nav) == IF Before(day) = {} THEN 0 ELSE nav - snaps[Max(Before(day))].nav

\* _drawdown_pct, as an amount: below the highest nav recorded
Drawdown(nav) ==
  LET peak == Max({0} \cup {snaps[i].nav : i \in 1 .. Len(snaps)})
  IN  IF peak <= 0 THEN 0 ELSE Larger(0, peak - nav)

Record(nav) ==
  /\ Len(snaps) < MaxSnaps
  /\ snaps' = Append(snaps, [day |-> day, nav |-> nav, pnl |-> DailyPnl(nav),
                             drop |-> Drawdown(nav)])
-----------------------------------------------------------------------------
(* Fills.                                                                  *)

\* mutant: |n| instead of n
BasisUnsigned(s, n) == basis[s] + Larger(n, -n) * price[s]

\* The row after n more shares: nothing has no cost, whatever was earned with it.
Basis(s, n) == IF qty[s] + n = 0 THEN 0 ELSE basis[s] + n * price[s]

\* apply_paper_fill: n is signed.  The snapshot values positions at their cost.
ApplyPaperFill(s, n) ==
  /\ traded' = traded \cup {s}
  /\ qty' = [qty EXCEPT ![s] = @ + n]
  /\ basis' = [basis EXCEPT ![s] = Basis(s, n)]
  /\ cash' = cash - n * price[s]
  /\ Record(cash' + Total(basis', Symbols))

BuyFirst(s, n) ==  \* mutant: the first filled buy is kept
  /\ ApplyPaperFill(s, n)
  /\ entry' = [entry EXCEPT ![s] = IF @ = 0 THEN price[s] ELSE @]
  /\ pyramided' = (pyramided \/ qty[s] # 0)
  /\ UNCHANGED <<realized, price, day, moves, unpriced>>

Buy(s, n) ==
  /\ ApplyPaperFill(s, n)
  /\ entry' = [entry EXCEPT ![s] = price[s]]
  /\ pyramided' = (pyramided \/ qty[s] # 0)
  /\ UNCHANGED <<realized, price, day, moves, unpriced>>

\* A sale, of shares that are held, and its outcome: the open price is that of the
\* latest filled buy.
Sell(s, n) ==
  /\ n <= qty[s]
  /\ ApplyPaperFill(s, -n)
  /\ realized' = realized + n * (price[s] - entry[s])
  /\ UNCHANGED <<entry, price, day, moves, lapses>>
-----------------------------------------------------------------------------
(* PortfolioMarkToMarketService.run                                        *)

\* A snapshot of what can be priced: there is none if that is nothing while there
\* are rows.
MarkToMarketRun ==
  /\ \E priced \in SUBSET traded :
       /\ priced = {} => traded = {}
       /\ Record(cash + Total(Worth, priced))
       /\ unpriced' = (unpriced \/ \E s \in traded \ priced : qty[s] # 0)
  /\ UNCHANGED <<traded, qty, basis, cash, entry, realized, price, day, moves, pyramided>>
-----------------------------------------------------------------------------
NextDay ==
  /\ day < MaxDays
  /\ day' = day + 1
  /\ UNCHANGED <<books, price, moves, lapses>>

MovePrice(s) ==
  /\ moves < MaxMoves
  /\ moves' = moves + 1
  /\ \E p \in Prices \ {price[s]} : price' = [price EXCEPT ![s] = p]
  /\ UNCHANGED <<books, day, lapses>>

Trade == \E s \in Symbols, n \in Sizes : Buy(s, n) \/ Sell(s, n)

ValuationNext == Trade \/ MarkToMarketRun \/ NextDay \/ \E s \in Symbols : MovePrice(s)

ValuationSpec == ValuationInit /\ [][ValuationNext]_valuationVars
-----------------------------------------------------------------------------
(* The endpoint's view of days: one row per day with snapshots.            *)

Days == {snaps[i].day : i \in 1 .. Len(snaps)}
LastOf(d) == snaps[Max({i \in 1 .. Len(snaps) : snaps[i].day = d})]

\* daily_pnl: against the close of the row before; the first row has none.
PnlOfDay(d) == LastOf(d).nav - LastOf(Max({e \in Days : e < d})).nav
-----------------------------------------------------------------------------
(* Properties                                                              *)

\* The result that a day's last snapshot shows is the one that the endpoint
\* computes for the day, though one looks back by days and the other by rows.
DailyViewsAgree ==
  \A d \in Days : (\E e \in Days : e < d) => LastOf(d).pnl = PnlOfDay(d)

\* "Closed trade P&L" (docs/architecture.md:108): once every trade is closed, the
\* outcomes add up to what the cash has gained, if no symbol was bought while it
\* was held: an outcome prices all of a sale from one buy.
OutcomesExplainCash ==
  ~pyramided /\ (\A s \in Symbols : qty[s] = 0) => cash = StartCash + realized

\* While no price moves and none is missing, whatever is bought, sold in parts,
\* marked and closed in whatever order leaves every snapshot at the starting cash,
\* without result or drawdown.
FlatMarket ==
  moves = 0 /\ ~unpriced =>
    \A i \in 1 .. Len(snaps) : /\ snaps[i].nav = StartCash
                               /\ snaps[i].pnl = 0 /\ snaps[i].drop = 0
=============================================================================
