------------------------------ MODULE Exposure ------------------------------
(***************************************************************************)
(* How much is bought and sold of one symbol: the sizes of orders          *)
(* (rac/orders/executor.py), the limits of the risk manager                *)
(* (rac/risk/manager.py) and the closing of positions at their stop        *)
(* (rac/worker/loop.py), between an account that moves with the market and *)
(* the copies of it that the worker and the API's users decide on.         *)
(*                                                                         *)
(* Shares and amounts are whole, sizes rounded down.  Whether an order may *)
(* be sent at all (kill switch, consistency, signals) is in TradingCycle.  *)
(***************************************************************************)
EXTENDS Integers, Sequences

CONSTANTS
  Prices,          \* prices of the symbol
  Start,           \* cash to begin with
  PositionPct,     \* max_position_pct of the strategies: the size of an order
  MaxPositionPct,  \* RAC_MAX_POSITION_PCT
  MaxExposurePct,  \* RAC_MAX_ASSET_EXPOSURE_PCT
  MaxDrawdownPct,  \* RAC_MAX_DRAWDOWN_PCT
  StopPct,         \* stop_loss_pct
  TargetPct,       \* take_profit_pct
  WorkerSignals,   \* directions that the worker's strategies may ask for
  ApiSignals,      \* directions that users of the API execute
  Settling,        \* TRUE: orders are over before the next cycle or request
  InEnv,           \* RAC_SYMBOLS has the symbol
  MaxConfigs,      \* bound on the changes of the configuration
  MaxMoves,        \* bound on the moves of the price
  MaxCancels,      \* bound on orders that end without execution
  MaxOrders        \* bound on the orders of signals

ASSUME ExposureConstants ==
  /\ Prices \subseteq Nat \ {0}
  /\ Start \in Nat \ {0}
  /\ {PositionPct, MaxPositionPct, MaxExposurePct, MaxDrawdownPct} \subseteq 1 .. 100
  /\ {StopPct, TargetPct} \subseteq Nat \ {0}
  /\ WorkerSignals \cup ApiSignals \subseteq {"buy", "sell"}
  /\ {Settling, InEnv} \subseteq BOOLEAN
  /\ {MaxConfigs, MaxMoves, MaxCancels, MaxOrders} \subseteq Nat

VARIABLES
  price,    \* the price now
  cash,     \* the account's cash at the broker
  qty,      \* the account's shares; negative if it is short
  orders,   \* the orders table, oldest first, with what the broker did
  peak,     \* the highest worth at a cycle's valuation
  pc,       \* the cycle's next call
  view,     \* the account, as the cycle read it
  listed,   \* worker_config: watched_symbols has the symbol
  moves, cancels, configs

accountVars == <<cash, qty>>
bounds == <<moves, cancels, configs>>
vars == <<price, accountVars, orders, peak, pc, view, listed, bounds>>
-----------------------------------------------------------------------------
Worth == cash + qty * price
Account == [equity |-> Worth, qty |-> qty, value |-> qty * price]
Triggers == {"stop_loss", "take_profit"}

\* Of a close, the buy it closes and why.
Order == [side : {"buy", "sell"}, qty : Nat, at : Prices,
          of : Nat, trigger : Triggers \cup {"signal"},
          status : {"live", "executed", "filled", "over"}]

TypeOK ==
  /\ price \in Prices
  /\ cash \in Int /\ qty \in Int
  /\ orders \in Seq(Order)
  /\ \A k \in DOMAIN orders :
       orders[k].trigger # "signal" =>
         orders[k].of \in 1 .. k - 1 /\ orders[orders[k].of].side = "buy"
  /\ peak \in Nat
  /\ pc \in {"idle", "account", "close", "signal"}
  /\ view \in [equity : Int, qty : Int, value : Int]
  /\ listed \in BOOLEAN
  /\ moves \in 0 .. MaxMoves /\ cancels \in 0 .. MaxCancels
  /\ configs \in 0 .. MaxConfigs

Init ==
  /\ price \in Prices
  /\ cash = Start
  /\ qty = 0
  /\ orders = <<>>
  /\ peak = Start
  /\ pc = "idle"
  /\ view = Account
  /\ listed = TRUE
  /\ moves = 0
  /\ cancels = 0
  /\ configs = 0
-----------------------------------------------------------------------------
(* The market and the broker.                                              *)

MovePrice ==
  /\ moves < MaxMoves
  /\ moves' = moves + 1
  /\ price' \in Prices \ {price}
  /\ UNCHANGED <<accountVars, orders, peak, pc, view, listed, cancels, configs>>

Live == {k \in DOMAIN orders : orders[k].status = "live"}

Fill ==
  \E k \in Live :
    LET bought == IF orders[k].side = "buy" THEN orders[k].qty ELSE -orders[k].qty
    IN  /\ qty' = qty + bought
        /\ cash' = cash - bought * price
        /\ orders' = [orders EXCEPT ![k].status = "executed"]
        /\ UNCHANGED <<price, peak, pc, view, listed, bounds>>

Cancel ==
  /\ cancels < MaxCancels
  /\ cancels' = cancels + 1
  /\ \E k \in Live : orders' = [orders EXCEPT ![k].status = "over"]
  /\ UNCHANGED <<price, accountVars, peak, pc, view, listed, moves, configs>>

Quiet == Settling => Live = {}
-----------------------------------------------------------------------------
(* The executor and the risk manager.                                      *)

\* _build_order_intent: the size of a sell, too, comes from the equity.
Size(equity) == (equity * PositionPct) \div (100 * price)

ApprovedAnyExposure(quantity, account, drawdown) ==  \* mutant: no exposure limit
  /\ quantity * price * 100 <= account.equity * MaxPositionPct
  /\ drawdown < MaxDrawdownPct * peak

\* RiskManager.evaluate, of both sides alike
Approved(quantity, account, drawdown) ==
  /\ drawdown < MaxDrawdownPct * peak
  /\ quantity * price * 100 <= account.equity * MaxPositionPct
  /\ account.value * 100 < account.equity * MaxExposurePct

Send(side, quantity, of, trigger) ==
  orders' = Append(orders, [side |-> side, qty |-> quantity, at |-> price, of |-> of,
                            trigger |-> trigger, status |-> "live"])

\* execute_signal, of an account and a drawdown as the caller gives them
ExecuteSignal(side, account, drawdown) ==
  /\ Len(orders) < MaxOrders
  /\ Size(account.equity) > 0
  /\ Approved(Size(account.equity), account, drawdown)
  /\ Send(side, Size(account.equity), 0, "signal")
-----------------------------------------------------------------------------
(* The worker.                                                             *)

\* PUT /admin/worker-config/watched_symbols
SetWorkerConfig ==
  /\ configs < MaxConfigs
  /\ configs' = configs + 1
  /\ listed' = ~listed
  /\ UNCHANGED <<price, accountVars, orders, peak, pc, view, moves, cancels>>

\* Reconciliation and valuation; of the symbols, only those of the list are gone on
\* with, that of the environment if the configuration cannot be read.
StartCycle ==
  /\ pc = "idle" /\ Quiet
  /\ orders' = [k \in DOMAIN orders |->
                  IF orders[k].status = "executed" THEN [orders[k] EXCEPT !.status = "filled"]
                  ELSE orders[k]]
  /\ peak' = IF Worth > peak THEN Worth ELSE peak
  /\ \E watched \in {listed, InEnv} : pc' = IF watched THEN "account" ELSE "idle"
  /\ UNCHANGED <<price, accountVars, view, listed, bounds>>

ReadAccount ==
  /\ pc = "account"
  /\ view' = Account
  /\ pc' = "close"
  /\ UNCHANGED <<price, accountVars, orders, peak, listed, bounds>>

\* latest_filled_buy, the newest of which counts
FilledBuys == {k \in DOMAIN orders : orders[k].side = "buy" /\ orders[k].status = "filled"}

\* _sl_tp_trigger, of the latest filled buy b
Triggered(b) ==
  IF price * 100 <= orders[b].at * (100 - StopPct) THEN {"stop_loss"}
  ELSE IF price * 100 >= orders[b].at * (100 + TargetPct) THEN {"take_profit"}
  ELSE {}

\* mutant: the key of a close is that of its trigger alone
CloseOfTriggerExists(b, t) == \E k \in DOMAIN orders : orders[k].trigger = t

\* has_order_with_idempotency(close_key)
CloseExists(b, t) == \E k \in DOMAIN orders : orders[k].of = b /\ orders[k].trigger = t

\* mutant: a close is as large as an entry
SizeOfEntry(account) == Size(account.equity)

\* A close sells the position that the cycle has read.
SizeOfClose(account) == account.qty

\* The closes that are due: the latest filled buy, and its trigger, unless that was
\* sent before.
Due == {d \in FilledBuys \X Triggers : /\ \A c \in FilledBuys : c <= d[1]
                                       /\ d[2] \in Triggered(d[1])
                                       /\ ~CloseExists(d[1], d[2])}

\* A quantity below zero, of an account that is short, is refused by the broker.
MaybeClosePosition ==
  /\ pc = "close"
  /\ pc' = "signal"
  /\ IF SizeOfClose(view) > 0 /\ Due # {}
       THEN \E d \in Due : Send("sell", SizeOfClose(view), d[1], d[2])
       ELSE UNCHANGED orders
  /\ UNCHANGED <<price, accountVars, peak, view, listed, bounds>>

\* The strategies' signal, or none, with the limits that the worker does not give a
\* value left at zero
ExecuteSignals ==
  /\ pc = "signal"
  /\ pc' = "idle"
  /\ \/ UNCHANGED orders
     \/ \E side \in WorkerSignals :
          /\ side = "buy" => view.qty = 0
          /\ side = "sell" => view.qty # 0
          /\ ExecuteSignal(side, view, 0)
  /\ UNCHANGED <<price, accountVars, peak, view, listed, bounds>>

Worker == StartCycle \/ ReadAccount \/ MaybeClosePosition \/ ExecuteSignals
-----------------------------------------------------------------------------
(* The API, whose users give the account as it is.                         *)

ApiExecuteSignal ==
  /\ Quiet
  /\ \E side \in ApiSignals : ExecuteSignal(side, Account, (peak - Worth) * 100)
  /\ UNCHANGED <<price, accountVars, peak, pc, view, listed, bounds>>
-----------------------------------------------------------------------------
Next ==
  MovePrice \/ Fill \/ Cancel \/ SetWorkerConfig \/ Worker \/ ApiExecuteSignal

Spec == Init /\ [][Next]_vars

\* The loop of the worker goes on, and market orders are executed.
FairSpec == Spec /\ WF_vars(Worker) /\ WF_vars(Fill)
-----------------------------------------------------------------------------
(* Properties                                                              *)

\* "no_position_to_sell" (docs/architecture.md:20): when orders are over before the
\* next cycle, no close sells more than is held, whatever the price and the API's
\* orders did between the reading of the position, the order and its execution, and
\* after partial sales too.  Only a sell signal, whose size is not that of the position,
\* makes the account short.
NeverShort ==
  qty >= 0 \/ \E k \in DOMAIN orders : orders[k].side = "sell" /\ orders[k].trigger = "signal"

\* With limits of position and exposure that leave room for the moves of the price,
\* no sequence of the API's and the worker's buys spends more cash than there is,
\* though no step looks at the cash.
NeverBorrows == cash >= 0

\* "SL/TP auto-close" (README.md:22), "levels set at entry, monitored each cycle"
\* (docs/strategies.md:12): a position that stays at or under the stop of its
\* latest buy is sold, the second of the symbol as well, and what a sell signal has
\* left of it, unless an order has ended without execution, as its close is
\* not sent again, or the symbol is taken from the list.
AtStop ==
  /\ qty > 0
  /\ \E b \in FilledBuys : /\ \A c \in FilledBuys : c <= b
                           /\ "stop_loss" \in Triggered(b)
StopCloses == AtStop ~> ~AtStop \/ cancels > 0 \/ ~listed
=============================================================================
