---------------------------- MODULE TradingCycle ----------------------------
(***************************************************************************)
(* Who sends orders, and what stops them: the worker's cycle               *)
(* (rac/worker/loop.py), the API's execute-signal request (rac/api/main.py)*)
(* and the executor both use (rac/orders/executor.py), around the kill     *)
(* switch, the consistency gate and the broker.                            *)
(*                                                                         *)
(* The worker and the API are two processes.  The API's handlers never     *)
(* interleave with each other: the switch is set by the process that       *)
(* executes requests, between two requests.  Reconciliation is one step    *)
(* here; the module of that name has its steps.                            *)
(***************************************************************************)
EXTENDS Integers, Sequences, FiniteSets, FiniteSetsExt

CONSTANTS
  Symbols,      \* the watched symbols
  MaxSignals,   \* bound on the signals ever generated
  MaxOrders,    \* bound on the orders the broker accepts
  Equities,     \* account equities, as the shares an order of a signal asks for
  ApiSignals,   \* signals that users of the API execute
  Ageing,       \* TRUE: an order may stay pending for more than 48 hours
  MaxFaults     \* bound on exceptions and crashes of the worker

ASSUME CycleConstants ==
  /\ MaxSignals \in Nat /\ MaxOrders \in Nat
  /\ Equities \subseteq Nat \ {0}
  /\ IsFiniteSet(Equities) /\ IsFiniteSet(Symbols)
  /\ ApiSignals \subseteq 1 .. MaxSignals
  /\ Ageing \in BOOLEAN
  /\ MaxFaults \in Nat

VARIABLES
  signals,    \* the signals table: a signal's id is its place
  broker,     \* Alpaca's orders, by client_order_id
  rows,       \* the orders table, by idempotency_key
  switch,     \* the last kill switch event is an activation
  alerted,    \* the AlertService has announced the switch, and no reset since
  late,       \* orders the worker has sent since the last activation
  wpc,        \* the worker's next call
  todo,       \* symbols left in the worker's cycle
  pending,    \* orders left in its list of cancellations
  equity,     \* the account's equity, as the cycle read it
  held,       \* held[s]: the position of s, as the cycle read it; 0 if none
  sym,        \* the symbol being processed
  key,        \* the order being sent
  apc,        \* the API's next call
  request,    \* the order the API is asked for
  faults

marketVars == <<signals, broker>>
workerVars == <<wpc, todo, pending, equity, held, sym, key>>
apiVars == <<apc, request>>
vars == <<marketVars, rows, switch, alerted, late, workerVars, apiVars, faults>>
-----------------------------------------------------------------------------
Triggers == {"stop_loss", "take_profit"}
Live == {"open", "pending_cancel"}

\* An idempotency key: signal, quantity (equity) and, for the order that closes
\* the position of a buy, the trigger.
Keys == [signal : 1 .. MaxSignals, equity : Equities, trigger : Triggers \cup {"none"}]

NoKey == [signal |-> 0, equity |-> 0, trigger |-> "none"]
NoSymbol == "no symbol"

SymbolOf(k) == signals[k.signal].symbol
SideOf(k) == IF k.trigger = "none" THEN signals[k.signal].direction ELSE "sell"
Buys(s) == {k \in DOMAIN broker : SymbolOf(k) = s /\ SideOf(k) = "buy"}

\* The shares that a set of orders moves.
Moved(K) ==
  MapThenSumSet(LAMBDA k : IF SideOf(k) = "buy" THEN broker[k].quantity
                                                ELSE -broker[k].quantity, K)

\* What get_positions answers: no position is 0.
Position(s) == Moved({k \in DOMAIN broker : SymbolOf(k) = s /\ broker[k].status = "filled"})

\* The positions table: a row is made by the first fill and never deleted.
Booked(s) == {k \in DOMAIN rows : SymbolOf(k) = s /\ rows[k].status = "filled"}
RacPosition(s) == Moved(Booked(s))

TypeOK ==
  /\ signals \in Seq([symbol : Symbols, direction : {"buy", "sell"}])
  /\ Len(signals) <= MaxSignals
  /\ DOMAIN broker \subseteq Keys
  /\ \A k \in DOMAIN broker : /\ broker[k].status \in Live \cup {"filled", "cancelled"}
                              /\ broker[k].quantity \in Nat \ {0}
  /\ DOMAIN rows \subseteq Keys
  /\ \A k \in DOMAIN rows : /\ rows[k].status \in {"submitted", "filled", "cancelled"}
                            /\ rows[k].at \in Nat
  /\ switch \in BOOLEAN /\ alerted \in BOOLEAN
  /\ late \in Nat
  /\ wpc \in {"idle", "switch", "cancel", "account", "symbol", "close", "insert_close",
              "strategy", "review", "execute", "insert"}
  /\ todo \subseteq Symbols
  /\ pending \subseteq Keys
  /\ equity \in Equities \cup {0}
  /\ held \in [Symbols -> Int]
  /\ sym \in Symbols \cup {NoSymbol}
  /\ key \in Keys \cup {NoKey}
  /\ apc \in {"idle", "switch", "submit", "insert"}
  /\ request \in Keys \cup {NoKey}
  /\ faults \in 0 .. MaxFaults

Init ==
  /\ signals = <<>>
  /\ broker = <<>>
  /\ rows = <<>>
  /\ switch = FALSE
  /\ alerted = FALSE
  /\ late = 0
  /\ wpc = "idle"
  /\ todo = {}
  /\ pending = {}
  /\ equity = 0
  /\ held = [s \in Symbols |-> 0]
  /\ sym = NoSymbol
  /\ key = NoKey
  /\ apc = "idle"
  /\ request = NoKey
  /\ faults = 0
-----------------------------------------------------------------------------
(* The broker.                                                             *)

BrokerFill(k) ==
  /\ broker[k].status \in Live
  /\ broker' = [broker EXCEPT ![k].status = "filled"]
  /\ UNCHANGED <<signals, rows, switch, alerted, late, workerVars, apiVars, faults>>

\* The order expires, is refused, or a requested cancellation is done.
BrokerCancel(k) ==
  /\ broker[k].status \in Live
  /\ broker' = [broker EXCEPT ![k].status = "cancelled"]
  /\ UNCHANGED <<signals, rows, switch, alerted, late, workerVars, apiVars, faults>>

\* The function f with k mapped to v.
Put(f, k, v) == [x \in DOMAIN f \cup {k} |-> IF x = k THEN v ELSE f[x]]

\* POST /orders: Alpaca refuses an order whose client_order_id was used.
Accept(k, quantity) ==
  /\ k \notin DOMAIN broker
  /\ quantity > 0
  /\ Cardinality(DOMAIN broker) < MaxOrders
  /\ broker' = Put(broker, k, [status |-> "open", quantity |-> quantity])

\* INSERT ... ON CONFLICT (idempotency_key): a row that exists is kept.
InsertRow(k) ==
  rows' = IF k \in DOMAIN rows
            THEN rows
            ELSE Put(rows, k, [status |-> "submitted", at |-> Cardinality(DOMAIN rows) + 1])
-----------------------------------------------------------------------------
(* What the worker and the API both do.                                    *)

Submitted == {k \in DOMAIN rows : rows[k].status = "submitted"}

\* mutant: whatever is over counts as filled
ReconcileAllFilled ==
  rows' = [k \in DOMAIN rows |-> [rows[k] EXCEPT !.status =
             IF k \in Submitted /\ broker[k].status \notin Live THEN "filled" ELSE @]]

\* reconcile_pending: every submitted row whose order is over, and those that
\* have been pending for more than 48 hours, though the broker still has them.
Reconcile ==
  \E old \in SUBSET {k \in Submitted : broker[k].status \in Live} :
    /\ old # {} => Ageing
    /\ rows' = [k \in DOMAIN rows |->
         IF k \notin Submitted THEN rows[k]
         ELSE IF k \in old THEN [rows[k] EXCEPT !.status = "cancelled"]
         ELSE IF broker[k].status \in Live THEN rows[k]
         ELSE [rows[k] EXCEPT !.status = broker[k].status]]
-----------------------------------------------------------------------------
(* The worker: run_cycle.                                                  *)

\* Steps 1 to 3; what valuations, reports and models do is in other modules.  The
\* cycle goes on when the reconciliation raises.
StartCycle ==
  /\ wpc = "idle"
  /\ \/ Reconcile /\ UNCHANGED faults
     \/ faults < MaxFaults /\ faults' = faults + 1 /\ UNCHANGED rows
  /\ wpc' = "switch"
  /\ UNCHANGED <<marketVars, switch, alerted, late, todo, pending, equity, held, sym, key,
                 apiVars>>

\* mutants: the switch does not stop the cycle; it stops it without cancelling
CheckKillSwitchGoesOn ==
  /\ wpc = "switch"
  /\ alerted' = switch
  /\ wpc' = "account"
  /\ UNCHANGED <<marketVars, rows, switch, late, todo, pending, equity, held, sym, key,
                 apiVars, faults>>
CheckKillSwitchOnlyBlocks ==
  /\ wpc = "switch"
  /\ alerted' = switch
  /\ wpc' = IF switch THEN "idle" ELSE "account"
  /\ UNCHANGED <<marketVars, rows, switch, late, todo, pending, equity, held, sym, key,
                 apiVars, faults>>

\* Step 4
CheckKillSwitch ==
  /\ wpc = "switch"
  /\ alerted' = switch
  /\ IF switch
       THEN /\ wpc' = "cancel"
            /\ pending' = Submitted
       ELSE /\ wpc' = "account"
            /\ UNCHANGED pending
  /\ UNCHANGED <<marketVars, rows, switch, late, todo, equity, held, sym, key,
                 apiVars, faults>>

\* _cancel_pending_orders: one DELETE; the broker refuses it for an order that
\* is over.  The cycle ends after the last.
CancelOrder ==
  /\ wpc = "cancel"
  /\ IF pending = {}
       THEN wpc' = "idle" /\ UNCHANGED <<broker, pending>>
       ELSE \E k \in pending :
              /\ pending' = pending \ {k}
              /\ broker' = IF broker[k].status = "open"
                             THEN [broker EXCEPT ![k].status = "pending_cancel"]
                             ELSE broker
              /\ UNCHANGED wpc
  /\ UNCHANGED <<signals, rows, switch, alerted, late, todo, equity, held, sym, key, apiVars, faults>>

CancelOrderFails ==
  /\ wpc = "cancel"
  /\ faults < MaxFaults
  /\ faults' = faults + 1
  /\ \E k \in pending : pending' = pending \ {k}
  /\ UNCHANGED <<marketVars, rows, switch, alerted, late, wpc, todo, equity, held, sym, key, apiVars>>

\* Step 5: without an account the cycle ends, without positions it goes on.
GetAccount ==
  /\ wpc = "account"
  /\ \E e \in Equities : equity' = e
  /\ todo' = Symbols
  /\ wpc' = "symbol"
  /\ \/ /\ held' = [s \in Symbols |-> Position(s)]
        /\ UNCHANGED faults
     \/ /\ faults < MaxFaults
        /\ faults' = faults + 1
        /\ held' = [s \in Symbols |-> 0]
  /\ UNCHANGED <<marketVars, rows, switch, alerted, late, pending, sym, key, apiVars>>

GetAccountFails ==
  /\ wpc = "account"
  /\ faults < MaxFaults
  /\ faults' = faults + 1
  /\ wpc' = "idle"
  /\ UNCHANGED <<marketVars, rows, switch, alerted, late, todo, pending, equity, held, sym, key,
                 apiVars>>

\* The locals of a cycle are dead once it returns.
EndCycle ==
  /\ wpc = "symbol"
  /\ todo = {}
  /\ wpc' = "idle"
  /\ equity' = 0
  /\ held' = [s \in Symbols |-> 0]
  /\ sym' = NoSymbol
  /\ key' = NoKey
  /\ UNCHANGED <<marketVars, rows, switch, alerted, late, todo, pending, apiVars, faults>>

\* Step 6: a symbol without bars, or whose bars cannot be read, is skipped.
NextSymbol ==
  /\ wpc = "symbol"
  /\ \E s \in todo :
       /\ todo' = todo \ {s}
       /\ sym' = s
       /\ \/ wpc' = "symbol"
          \/ wpc' = IF held[s] # 0 THEN "close" ELSE "strategy"
  /\ key' = NoKey
  /\ UNCHANGED <<marketVars, rows, switch, alerted, late, pending, equity, held, apiVars, faults>>

LatestBuy(s) ==  \* mutant: without status = 'filled'
  LET bought == {k \in DOMAIN rows : SymbolOf(k) = s /\ SideOf(k) = "buy"}
  IN  {b \in bought : \A c \in bought : rows[c].at <= rows[b].at}

\* latest_filled_buy
LatestFilledBuy(s) ==
  {b \in Booked(s) :
     /\ SideOf(b) = "buy"
     /\ \A c \in Booked(s) : SideOf(c) = "buy" => rows[c].at <= rows[b].at}

\* An order the worker sends while the switch is on.
CountLate == late' = IF switch THEN late + 1 ELSE late

\* _maybe_close_position: the price is at the stop loss, at the take profit, or
\* between them.  A failing submission is only logged.
MaybeClosePosition ==
  /\ wpc = "close"
  /\ \/ /\ wpc' = "strategy"
        /\ UNCHANGED <<broker, late, key>>
     \/ \E b \in LatestFilledBuy(sym), t \in Triggers :
          LET close == [b EXCEPT !.trigger = t]
          IN  /\ close \notin DOMAIN rows
              /\ Accept(close, held[sym])
              /\ key' = close
              /\ CountLate
              /\ wpc' = "insert_close"
  /\ UNCHANGED <<signals, rows, switch, alerted, todo, pending, equity, held, sym, apiVars, faults>>

InsertCloseOrder ==
  /\ wpc = "insert_close"
  /\ InsertRow(key)
  /\ key' = NoKey
  /\ wpc' = "strategy"
  /\ UNCHANGED <<marketVars, switch, alerted, late, todo, pending, equity, held, sym, apiVars, faults>>

\* The latest signal of a symbol.
Latest(s) ==
  {i \in 1 .. Len(signals) : /\ signals[i].symbol = s
                             /\ \A j \in i + 1 .. Len(signals) : signals[j].symbol # s}

HasOrderForSignal(i) == \E k \in DOMAIN rows : k.signal = i /\ k.trigger = "none"

\* _skip_reason, by position
Skipped(direction, position) ==
  \/ direction = "buy" /\ position # 0
  \/ direction = "sell" /\ position = 0

\* The strategy has run: it has stored a signal of its own, or nothing newer.
Generate ==
  /\ wpc = "strategy"
  /\ \/ UNCHANGED signals
     \/ /\ Len(signals) < MaxSignals
        /\ \E d \in {"buy", "sell"} :
             signals' = Append(signals, [symbol |-> sym, direction |-> d])
  /\ wpc' = "review"
  /\ UNCHANGED <<broker, rows, switch, alerted, late, todo, pending, equity, held, sym, key,
                 apiVars, faults>>

\* The latest signal is a hold, stale, of low confidence or vetoed: no order.
NoAction ==
  /\ wpc = "review"
  /\ wpc' = "symbol"
  /\ UNCHANGED <<marketVars, rows, switch, alerted, late, todo, pending, equity, held, sym, key,
                 apiVars, faults>>

Review ==
  /\ wpc = "review"
  /\ \E i \in Latest(sym) :
       /\ ~Skipped(signals[i].direction, held[sym])
       /\ ~HasOrderForSignal(i)
       /\ key' = [signal |-> i, equity |-> equity, trigger |-> "none"]
  /\ wpc' = "execute"
  /\ UNCHANGED <<marketVars, rows, switch, alerted, late, todo, pending, equity, held, sym,
                 apiVars, faults>>

\* execute_signal: a risk decision or the broker may refuse.
Execute ==
  /\ wpc = "execute"
  /\ \/ /\ Accept(key, key.equity)
        /\ CountLate
        /\ wpc' = "insert"
        /\ UNCHANGED key
     \/ /\ UNCHANGED broker
        /\ key' = NoKey
        /\ wpc' = "symbol"
        /\ UNCHANGED late
  /\ UNCHANGED <<signals, rows, switch, alerted, todo, pending, equity, held, sym, apiVars, faults>>

InsertPaperOrder ==
  /\ wpc = "insert"
  /\ InsertRow(key)
  /\ key' = NoKey
  /\ wpc' = "symbol"
  /\ UNCHANGED <<marketVars, switch, alerted, late, todo, pending, equity, held, sym, apiVars, faults>>

\* The order is sent and its row cannot be written: the error is logged.
InsertFails ==
  /\ wpc \in {"insert", "insert_close"}
  /\ faults < MaxFaults
  /\ faults' = faults + 1
  /\ key' = NoKey
  /\ wpc' = IF wpc = "insert" THEN "symbol" ELSE "strategy"
  /\ UNCHANGED <<marketVars, rows, switch, alerted, late, todo, pending, equity, held, sym, apiVars>>

\* The worker dies between two calls and is restarted, with new alert flags.
Crash ==
  /\ wpc # "idle"
  /\ faults < MaxFaults
  /\ faults' = faults + 1
  /\ wpc' = "idle"
  /\ alerted' = FALSE
  /\ todo' = {}
  /\ pending' = {}
  /\ equity' = 0
  /\ held' = [s \in Symbols |-> 0]
  /\ sym' = NoSymbol
  /\ key' = NoKey
  /\ UNCHANGED <<marketVars, rows, switch, late, apiVars>>
-----------------------------------------------------------------------------
(* The API, one request at a time.                                         *)

\* PortfolioConsistencyService.check: for every symbol a row in positions and a
\* position at the broker, with one quantity, or neither.
Consistent(s) ==
  /\ Booked(s) # {} <=> Position(s) # 0
  /\ RacPosition(s) = Position(s)
BooksAgree == \A s \in Symbols : Consistent(s)

ApiExecuteSignal ==
  /\ apc = "idle"
  /\ \E i \in ApiSignals \cap 1 .. Len(signals), e \in Equities :
       request' = [signal |-> i, equity |-> e, trigger |-> "none"]
  /\ BooksAgree
  /\ apc' = "switch"
  /\ UNCHANGED <<marketVars, rows, switch, alerted, late, workerVars, faults>>

ApiCheckSwitchIgnored ==  \* mutant: the request keeps its kill_switch_active
  /\ apc = "switch"
  /\ apc' = "submit"
  /\ UNCHANGED <<marketVars, rows, switch, alerted, late, workerVars, request, faults>>

\* The switch goes into the request; the risk manager refuses it if active.
ApiCheckSwitch ==
  /\ apc = "switch"
  /\ IF switch THEN apc' = "idle" /\ request' = NoKey
               ELSE apc' = "submit" /\ UNCHANGED request
  /\ UNCHANGED <<marketVars, rows, switch, alerted, late, workerVars, faults>>

ApiSubmit ==
  /\ apc = "submit"
  /\ \/ /\ Accept(request, request.equity)
        /\ apc' = "insert"
        /\ UNCHANGED request
     \/ /\ UNCHANGED broker
        /\ apc' = "idle"
        /\ request' = NoKey
  /\ UNCHANGED <<signals, rows, switch, alerted, late, workerVars, faults>>

ApiInsert ==
  /\ apc = "insert"
  /\ InsertRow(request)
  /\ apc' = "idle"
  /\ request' = NoKey
  /\ UNCHANGED <<marketVars, switch, alerted, late, workerVars, faults>>

\* The request ends with an error, or the API dies.
ApiFails ==
  /\ apc # "idle"
  /\ faults < MaxFaults
  /\ faults' = faults + 1
  /\ apc' = "idle"
  /\ request' = NoKey
  /\ UNCHANGED <<marketVars, rows, switch, alerted, late, workerVars>>

ApiReconcile ==
  /\ apc = "idle"
  /\ Reconcile
  /\ UNCHANGED <<marketVars, switch, alerted, late, workerVars, apiVars, faults>>

ActivateKillSwitch ==
  /\ apc = "idle"
  /\ switch' = TRUE
  /\ late' = IF switch THEN late ELSE 0
  /\ UNCHANGED <<marketVars, rows, alerted, workerVars, apiVars, faults>>

DeactivateKillSwitch ==
  /\ apc = "idle"
  /\ switch' = FALSE
  /\ UNCHANGED <<marketVars, rows, alerted, late, workerVars, apiVars, faults>>
-----------------------------------------------------------------------------
BrokerStep == \E k \in DOMAIN broker : BrokerFill(k) \/ BrokerCancel(k)

WorkerStep ==
  \/ StartCycle \/ CheckKillSwitch \/ CancelOrder \/ GetAccount \/ EndCycle
  \/ NextSymbol \/ MaybeClosePosition \/ InsertCloseOrder \/ Generate \/ NoAction
  \/ Review \/ Execute \/ InsertPaperOrder

Failure == CancelOrderFails \/ GetAccountFails \/ InsertFails \/ Crash \/ ApiFails

ApiContinue == ApiCheckSwitch \/ ApiSubmit \/ ApiInsert
ApiRequest ==
  ApiExecuteSignal \/ ApiReconcile \/ ActivateKillSwitch \/ DeactivateKillSwitch

Next == BrokerStep \/ WorkerStep \/ Failure \/ ApiContinue \/ ApiRequest

Spec == Init /\ [][Next]_vars

\* The worker's loop and a request that started go on; a cancellation that the
\* broker has taken is done, unless the order is filled first.
Cancelling == \E k \in DOMAIN broker : /\ broker[k].status = "pending_cancel"
                                       /\ BrokerFill(k) \/ BrokerCancel(k)
FairSpec ==
  /\ Spec
  /\ WF_vars(WorkerStep)
  /\ WF_vars(ApiContinue)
  /\ WF_vars(Cancelling)
-----------------------------------------------------------------------------
(* Properties                                                              *)

NewOrders == DOMAIN broker' \ DOMAIN broker

\* A row says of its order what the broker said of it: only orders the broker
\* has get a row, and a row is filled only if the order is, so that the booked
\* quantities are executed ones.
RowsFollowBroker ==
  \A k \in DOMAIN rows : /\ k \in DOMAIN broker
                         /\ rows[k].status = "filled" => broker[k].status = "filled"

\* Once it is announced that execution is blocked until the reset, nobody sends
\* an order before the reset, whatever the worker and the API were doing.
AnnouncedBlock == [][alerted /\ switch => NewOrders = {}]_vars

\* What the worker still sends after an activation is what is left of the cycle
\* that had passed the check: at most a close and an entry for each symbol.
LateOrdersBounded == late <= 2 * Cardinality(Symbols)

\* "Duplicate signals never produce duplicate orders" (docs/architecture.md:120):
\* a signal has one order at most, though it is looked at again in every cycle.
OneOrderPerSignal ==
  \A k, l \in DOMAIN broker :
    k.signal = l.signal /\ k.trigger = "none" /\ l.trigger = "none" => k = l

\* A close ends the position of a buy that was booked as filled, in whatever order
\* fills, reconciliations and cycles come: never that of an entry still pending.
ClosesFollowBuys ==
  \A k \in DOMAIN broker :
    k.trigger # "none" =>
      LET b == [k EXCEPT !.trigger = "none"]
      IN  b \in DOMAIN rows /\ SideOf(b) = "buy" /\ rows[b].status = "filled"

\* "Cancels all pending Alpaca orders when activated" (docs/architecture.md:118):
\* if the switch stays on, the broker ends up with no live order whose row is
\* submitted, the orders sent around the activation included.  Those that have
\* no row, or one cancelled for its age, are out of the switch's reach.
PendingAreCancelled ==
  <>[]switch => <>[](\A k \in Submitted : broker[k].status \notin Live)
=============================================================================
