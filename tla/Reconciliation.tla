--------------------------- MODULE Reconciliation ---------------------------
(***************************************************************************)
(* Orders from their submission to their booking: the broker (Alpaca), the *)
(* rows in Postgres, and the processes that submit orders and reconcile    *)
(* them (rac/orders/reconciliation.py, called by the worker's cycle, by    *)
(* its fill stream and by the API).                                        *)
(*                                                                         *)
(* A process runs one handler at a time: nothing in it suspends between    *)
(* two calls.  Each repository method is one transaction, so the worker    *)
(* and the API interleave between any two of them, and a process can die   *)
(* there.                                                                  *)
(***************************************************************************)
EXTENDS Integers, Sequences, FiniteSetsExt

CONSTANTS
  Orders,       \* identities of orders, numbered in the order of created_at
  Symbols,
  SymbolOf,     \* SymbolOf[o]
  SideOf,       \* SideOf[o]: "buy" or "sell"
  ParentOf,     \* the buy that a stop-loss/take-profit close ends, or NoOrder
  Price,        \* Price[o]: the price at which the broker fills o
  Quantity,     \* shares asked for by each order
  StartCash,    \* cash while there is no snapshot (100 000 in the code)
  Processes,    \* processes that submit and reconcile: the worker, the API
  Recorders,    \* those given an AlertService and a TradeOutcomeRepository
  Ageing,       \* orders that may stay pending for more than 48 hours
  MaxFaults     \* bound on exceptions and crashes

NoOrder == 0

ASSUME ConstantsTyped ==
  /\ Orders \subseteq Nat \ {NoOrder}
  /\ SymbolOf \in [Orders -> Symbols]
  /\ SideOf \in [Orders -> {"buy", "sell"}]
  /\ ParentOf \in [Orders -> Orders \cup {NoOrder}]
  /\ \A o \in Orders : ParentOf[o] # NoOrder =>
       /\ SideOf[o] = "sell" /\ SideOf[ParentOf[o]] = "buy"
       /\ SymbolOf[ParentOf[o]] = SymbolOf[o]
  /\ Price \in [Orders -> Nat]
  /\ Quantity \in Nat \ {0}
  /\ StartCash \in Int
  /\ Recorders \subseteq Processes
  /\ Ageing \subseteq Orders
  /\ MaxFaults \in Nat

\* Only the worker is given alerts and outcomes (rac/worker/loop.py).
ASSUME OneRecorder == \A r, s \in Recorders : r = s

VARIABLES
  broker,     \* broker[o]: what Alpaca answers for o
  clock,      \* number of executions at the broker: the source of filled_at
  orders,     \* orders[o]: the row of o
  fills,      \* fills[o]: quantity of the row of o in fills, 0 if none
  positions,  \* positions[s]: quantity of the row of s
  cash,       \* cash of the latest portfolio snapshot
  outcomes,   \* outcomes[o]: opening orders of the trade_outcomes closed by o
  alerts,     \* alerts[o]: fill notifications sent for o
  aged,       \* orders created more than 48 hours ago
  pc,         \* pc[r]: the next call of process r
  todo,       \* todo[r]: orders left in the list r is reconciling
  cur,        \* cur[r]: the order r works on
  seen,       \* seen[r]: the broker's answer for cur[r]
  cashRead,   \* cashRead[r]: current_cash as r read it
  faults

brokerVars == <<broker, clock, aged>>
rowVars == <<orders, fills, positions, cash>>
reportVars == <<outcomes, alerts>>
localVars == <<pc, todo, cur, seen, cashRead>>
vars == <<brokerVars, rowVars, reportVars, localVars, faults>>

-----------------------------------------------------------------------------
FilledStatuses == {"filled", "partially_filled"}
TerminalStatuses == {"canceled"}
KnownPendingStatuses == {"new"}
UnknownStatuses == {"suspended"}

BrokerOrder ==
  [status : {"absent"} \cup FilledStatuses \cup TerminalStatuses
              \cup KnownPendingStatuses \cup UnknownStatuses,
   filled : 0 .. Quantity,   \* filled_qty
   at : Nat]                 \* filled_at, 0 when the field is missing

Row ==
  [status : {"none", "submitted", "filled", "cancelled"},
   filled_qty : 0 .. Quantity,
   filled_at : Nat]

Calls == {"idle", "insert", "get", "mark", "cash", "apply", "report", "cancel",
          "mtm"}

Submitted == {o \in Orders : orders[o].status = "submitted"}

Signed(o, q) == IF SideOf[o] = "buy" THEN q ELSE -q
CashDelta(o, q) == -(Signed(o, q) * Price[o])

TypeOK ==
  /\ broker \in [Orders -> BrokerOrder]
  /\ clock \in Nat
  /\ orders \in [Orders -> Row]
  /\ fills \in [Orders -> 0 .. Quantity]
  /\ positions \in [Symbols -> Int]
  /\ cash \in Int
  /\ outcomes \in [Orders -> Seq(Orders)]
  /\ alerts \in [Orders -> Nat]
  /\ aged \subseteq Orders
  /\ pc \in [Processes -> Calls]
  /\ todo \in [Processes -> SUBSET Orders]
  /\ cur \in [Processes -> Orders \cup {NoOrder}]
  /\ seen \in [Processes -> BrokerOrder]
  /\ cashRead \in [Processes -> Int]
  /\ faults \in 0 .. MaxFaults

NotSeen == [status |-> "absent", filled |-> 0, at |-> 0]

Init ==
  /\ broker = [o \in Orders |-> NotSeen]
  /\ clock = 0
  /\ orders = [o \in Orders |-> [status |-> "none", filled_qty |-> 0, filled_at |-> 0]]
  /\ fills = [o \in Orders |-> 0]
  /\ positions = [s \in Symbols |-> 0]
  /\ cash = StartCash
  /\ outcomes = [o \in Orders |-> <<>>]
  /\ alerts = [o \in Orders |-> 0]
  /\ aged = {}
  /\ pc = [r \in Processes |-> "idle"]
  /\ todo = [r \in Processes |-> {}]
  /\ cur = [r \in Processes |-> NoOrder]
  /\ seen = [r \in Processes |-> NotSeen]
  /\ cashRead = [r \in Processes |-> 0]
  /\ faults = 0
-----------------------------------------------------------------------------
(* The broker, and the passing of time.                                    *)

\* An execution of all or part of what is left of the order.  A partial one
\* may be reported without filled_at.
BrokerFill(o) ==
  /\ broker[o].status \in {"new", "suspended", "partially_filled"}
  /\ \E q \in broker[o].filled + 1 .. Quantity, stamped \in BOOLEAN :
       /\ q = Quantity => stamped
       /\ broker' = [broker EXCEPT ![o] =
            [status |-> IF q = Quantity THEN "filled" ELSE "partially_filled",
             filled |-> q,
             at |-> IF stamped THEN clock + 1 ELSE @.at]]
  /\ clock' = clock + 1
  /\ UNCHANGED <<aged, rowVars, reportVars, localVars, faults>>

BrokerCancel(o) ==
  /\ broker[o].status \in {"new", "suspended", "partially_filled"}
  /\ broker' = [broker EXCEPT ![o].status = "canceled"]
  /\ UNCHANGED <<clock, aged, rowVars, reportVars, localVars, faults>>

BrokerSuspend(o) ==
  /\ broker[o].status = "new"
  /\ broker' = [broker EXCEPT ![o].status = "suspended"]
  /\ UNCHANGED <<clock, aged, rowVars, reportVars, localVars, faults>>

Age(o) ==
  /\ o \in (Ageing \cap Submitted) \ aged
  /\ aged' = aged \cup {o}
  /\ UNCHANGED <<broker, clock, rowVars, reportVars, localVars, faults>>
-----------------------------------------------------------------------------
(* Submission: the broker first, the row after.                            *)

\* The locals of a handler are dead once it returns.
Forget(r) ==
  /\ cur' = [cur EXCEPT ![r] = NoOrder]
  /\ seen' = [seen EXCEPT ![r] = NotSeen]
  /\ cashRead' = [cashRead EXCEPT ![r] = 0]

\* A sell needs something bought; a close is made for a buy whose row is filled.
MaySubmit(o) ==
  /\ SideOf[o] = "sell" =>
       \E b \in Orders : /\ SideOf[b] = "buy" /\ SymbolOf[b] = SymbolOf[o]
                         /\ broker[b].filled > 0
  /\ ParentOf[o] # NoOrder => orders[ParentOf[o]].status = "filled"

SubmitOrder(r, o) ==
  /\ pc[r] = "idle"
  /\ broker[o].status = "absent"
  /\ \A p \in Orders : p < o => broker[p].status # "absent"
  /\ MaySubmit(o)
  /\ broker' = [broker EXCEPT ![o].status = "new"]
  /\ cur' = [cur EXCEPT ![r] = o]
  /\ pc' = [pc EXCEPT ![r] = "insert"]
  /\ UNCHANGED <<clock, aged, rowVars, reportVars, todo, seen, cashRead, faults>>

InsertOrder(r) ==
  /\ pc[r] = "insert"
  /\ orders' = [orders EXCEPT ![cur[r]].status = "submitted"]
  /\ pc' = [pc EXCEPT ![r] = "idle"]
  /\ Forget(r)
  /\ UNCHANGED <<brokerVars, fills, positions, cash, reportVars, todo, faults>>
-----------------------------------------------------------------------------
(* reconcile_pending                                                       *)

\* The list is read once; what is added later waits for the next call.
ListPending(r) ==
  /\ pc[r] = "idle"
  /\ Submitted # {}
  /\ todo' = [todo EXCEPT ![r] = Submitted]
  /\ pc' = [pc EXCEPT ![r] = "get"]
  /\ UNCHANGED <<brokerVars, rowVars, reportVars, cur, seen, cashRead, faults>>

\* The next order of the list, or the end of the call.
Advance(r, o) ==
  /\ todo' = [todo EXCEPT ![r] = @ \ {o}]
  /\ pc' = [pc EXCEPT ![r] = IF todo[r] \ {o} = {} THEN "idle" ELSE "get"]
  /\ Forget(r)

\* The next call on the same order.
Then(r, call) ==
  /\ pc' = [pc EXCEPT ![r] = call]
  /\ UNCHANGED <<todo, cur, seen>>

First(S, o) == o \in S /\ \A p \in S : o <= p

\* The answer is kept in memory while the row is written.
Take(r, o, call) ==
  /\ pc' = [pc EXCEPT ![r] = call]
  /\ cur' = [cur EXCEPT ![r] = o]
  /\ seen' = [seen EXCEPT ![r] = broker[o]]
  /\ UNCHANGED <<todo, cashRead>>

\* Still pending at the broker more than 48 hours after created_at.
ExpiredWhenTerminal(o) ==  \* mutant: the age is looked at in the wrong branch
  broker[o].status \in TerminalStatuses /\ o \in aged
Expired(o) == broker[o].status \in KnownPendingStatuses /\ o \in aged

\* Where the answer leads: a fill is marked, a terminal or stale order is
\* cancelled, anything else is left for the next call.
GetOrder(r) ==
  /\ pc[r] = "get"
  /\ \E o \in todo[r] :
       /\ First(todo[r], o)
       /\ \/ /\ broker[o].status \in FilledStatuses
             /\ Take(r, o, "mark")
          \/ /\ broker[o].status \in TerminalStatuses \/ Expired(o)
             /\ Take(r, o, "cancel")
          \/ /\ broker[o].status \in KnownPendingStatuses \cup UnknownStatuses
             /\ ~Expired(o)
             /\ Advance(r, o)
  /\ UNCHANGED <<brokerVars, rowVars, reportVars, faults>>

SettleAnyStatus(o, row) ==  \* mutant: UPDATE ... WHERE id = o
  orders' = [orders EXCEPT ![o] = row]

\* UPDATE ... WHERE id = o AND status = 'submitted'
Settle(o, row) ==
  orders' = IF orders[o].status = "submitted"
              THEN [orders EXCEPT ![o] = row]
              ELSE orders

MarkFilledUnbooked(r, call) ==
  /\ pc[r] = "mark"
  /\ seen[r].at # 0
  /\ Settle(cur[r], [status |-> "filled", filled_qty |-> seen[r].filled,
                     filled_at |-> seen[r].at])
  /\ IF call = "none" THEN Advance(r, cur[r]) ELSE Then(r, call) /\ UNCHANGED cashRead
  /\ UNCHANGED <<brokerVars, fills, positions, cash, reportVars, faults>>

\* mutants: the fill is reported without being booked, or neither
MarkFilledReported(r) == MarkFilledUnbooked(r, "report")
MarkFilledOnly(r) == MarkFilledUnbooked(r, "none")

\* An empty filled_at is no timestamp: the statement raises and the order is
\* left as it is.
MarkFilled(r) ==
  /\ pc[r] = "mark"
  /\ \/ /\ seen[r].at # 0
        /\ Settle(cur[r], [status |-> "filled", filled_qty |-> seen[r].filled,
                           filled_at |-> seen[r].at])
        /\ Then(r, "cash")
        /\ UNCHANGED cashRead
     \/ /\ seen[r].at = 0
        /\ Advance(r, cur[r])
        /\ UNCHANGED orders
  /\ UNCHANGED <<brokerVars, fills, positions, cash, reportVars, faults>>

MarkCancelled(r) ==
  /\ pc[r] = "cancel"
  /\ Settle(cur[r], [orders[cur[r]] EXCEPT !.status = "cancelled"])
  /\ Advance(r, cur[r])
  /\ UNCHANGED <<brokerVars, fills, positions, cash, reportVars, faults>>

CurrentCashDefault(r) ==  \* mutant: the snapshots are not read
  /\ pc[r] = "cash"
  /\ cashRead' = [cashRead EXCEPT ![r] = StartCash]
  /\ Then(r, "apply")
  /\ UNCHANGED <<brokerVars, rowVars, reportVars, faults>>

CurrentCash(r) ==
  /\ pc[r] = "cash"
  /\ cashRead' = [cashRead EXCEPT ![r] = cash]
  /\ Then(r, "apply")
  /\ UNCHANGED <<brokerVars, rowVars, reportVars, faults>>

\* mutants: a conflicting fill is added up; the order's quantity is booked whatever
\* was filled.
ApplyPaperFillUpsert(o, q, starting_cash) ==
  /\ fills' = [fills EXCEPT ![o] = @ + q]
  /\ positions' = [positions EXCEPT ![SymbolOf[o]] = @ + Signed(o, q)]
  /\ cash' = starting_cash + CashDelta(o, q)
ApplyPaperFillOrdered(o, q, starting_cash) ==
  IF fills[o] # 0
    THEN UNCHANGED <<fills, positions, cash>>
    ELSE /\ fills' = [fills EXCEPT ![o] = Quantity]
         /\ positions' = [positions EXCEPT ![SymbolOf[o]] = @ + Signed(o, Quantity)]
         /\ cash' = starting_cash + CashDelta(o, Quantity)

\* One transaction: the fill if there is none for this order, the position it
\* moves, and a snapshot whose cash starts from the cash read before.
ApplyPaperFill(o, q, starting_cash) ==
  IF fills[o] # 0
    THEN UNCHANGED <<fills, positions, cash>>
    ELSE /\ fills' = [fills EXCEPT ![o] = q]
         /\ positions' = [positions EXCEPT ![SymbolOf[o]] = @ + Signed(o, q)]
         /\ cash' = starting_cash + CashDelta(o, q)

ApplyFillAlwaysReported(r) ==  \* mutant: every process has an AlertService
  /\ pc[r] = "apply"
  /\ ApplyPaperFill(cur[r], seen[r].filled, cashRead[r])
  /\ Then(r, "report") /\ UNCHANGED cashRead
  /\ UNCHANGED <<brokerVars, orders, reportVars, faults>>

ApplyFill(r) ==
  /\ pc[r] = "apply"
  /\ ApplyPaperFill(cur[r], seen[r].filled, cashRead[r])
  /\ IF r \in Recorders
       THEN Then(r, "report") /\ UNCHANGED cashRead
       ELSE Advance(r, cur[r])
  /\ UNCHANGED <<brokerVars, orders, reportVars, faults>>

OpeningBuysLatest(o) ==  \* mutant: the row's parent is not looked at
  LET buys == {b \in Orders : /\ SideOf[b] = "buy" /\ SymbolOf[b] = SymbolOf[o]
                              /\ orders[b].status = "filled"}
  IN  {b \in buys : \A c \in buys : orders[c].filled_at <= orders[b].filled_at}

\* The buy that the sell o closes: its parent if the row names one, else the
\* filled buy of the symbol with the latest filled_at.
OpeningBuys(o) ==
  IF ParentOf[o] # NoOrder
    THEN {ParentOf[o]}
    ELSE LET buys == {b \in Orders : /\ SideOf[b] = "buy"
                                     /\ SymbolOf[b] = SymbolOf[o]
                                     /\ orders[b].status = "filled"}
         IN  {b \in buys : \A c \in buys : orders[c].filled_at <= orders[b].filled_at}

\* The notification, then the outcome of a sell; an exception while the
\* outcome is written is only logged.
Report(r) ==
  /\ pc[r] = "report"
  /\ alerts' = [alerts EXCEPT ![cur[r]] = @ + 1]
  /\ \/ /\ SideOf[cur[r]] = "sell"
        /\ \E b \in OpeningBuys(cur[r]) :
             outcomes' = [outcomes EXCEPT ![cur[r]] = Append(@, b)]
        /\ UNCHANGED faults
     \/ /\ SideOf[cur[r]] = "buy" \/ OpeningBuys(cur[r]) = {}
        /\ UNCHANGED <<outcomes, faults>>
     \/ /\ SideOf[cur[r]] = "sell"
        /\ faults < MaxFaults
        /\ faults' = faults + 1
        /\ UNCHANGED outcomes
  /\ Advance(r, cur[r])
  /\ UNCHANGED <<brokerVars, rowVars>>

\* A call of the loop's body raises: the error is collected, the list goes on.
OrderError(r) ==
  /\ faults < MaxFaults
  /\ faults' = faults + 1
  /\ \/ /\ pc[r] \in {"mark", "cancel", "cash", "apply"}
        /\ Advance(r, cur[r])
     \/ /\ pc[r] = "get"
        /\ \E o \in todo[r] : First(todo[r], o) /\ Advance(r, o)
  /\ UNCHANGED <<brokerVars, rowVars, reportVars>>

\* The process dies; the container restarts it with nothing in memory.
Crash(r) ==
  /\ faults < MaxFaults
  /\ faults' = faults + 1
  /\ pc[r] # "idle"
  /\ pc' = [pc EXCEPT ![r] = "idle"]
  /\ todo' = [todo EXCEPT ![r] = {}]
  /\ Forget(r)
  /\ UNCHANGED <<brokerVars, rowVars, reportVars>>
-----------------------------------------------------------------------------
(* Mark-to-market: a snapshot that carries over the cash it has read.  It   *)
(* is not recorded when there are positions and none can be priced.        *)

MarkToMarketRead(r) ==
  /\ pc[r] = "idle"
  /\ cashRead' = [cashRead EXCEPT ![r] = cash]
  /\ pc' = [pc EXCEPT ![r] = "mtm"]
  /\ UNCHANGED <<brokerVars, rowVars, reportVars, todo, cur, seen, faults>>

MarkToMarketRecord(r) ==
  /\ pc[r] = "mtm"
  /\ \/ cash' = cashRead[r]
     \/ (\E o \in Orders : fills[o] # 0) /\ UNCHANGED cash
  /\ pc' = [pc EXCEPT ![r] = "idle"]
  /\ Forget(r)
  /\ UNCHANGED <<brokerVars, orders, fills, positions, reportVars, todo, faults>>
-----------------------------------------------------------------------------
BrokerStep == \E o \in Orders : \/ BrokerFill(o) \/ BrokerCancel(o)
                                \/ BrokerSuspend(o) \/ Age(o)

\* What a running handler does next without failing.
Continue(r) ==
  \/ InsertOrder(r) \/ GetOrder(r) \/ MarkFilled(r) \/ MarkCancelled(r)
  \/ CurrentCash(r) \/ ApplyFill(r) \/ Report(r) \/ MarkToMarketRecord(r)

ProcessStep(r) ==
  \/ \E o \in Orders : SubmitOrder(r, o)
  \/ ListPending(r) \/ MarkToMarketRead(r)
  \/ Continue(r)
  \/ OrderError(r) \/ Crash(r)

Next == BrokerStep \/ \E r \in Processes : ProcessStep(r)

Spec == Init /\ [][Next]_vars

\* A handler that started goes on; the worker's cycle begins with a
\* reconciliation, so it comes back to it whatever else the cycle does.  The
\* API reconciles when it is asked to, or never.
FairSpec ==
  /\ Spec
  /\ \A r \in Processes : WF_vars(Continue(r))
  /\ \A r \in Recorders : SF_vars(ListPending(r))
(* Properties                                                              *)

\* What was booked was executed: no fill row holds more than the broker has
\* executed, however stale the answer it was booked from.
BookedWithinBroker == \A o \in Orders : fills[o] <= broker[o].filled

\* A fill is announced once and a sell closes one trade, though an order can be
\* in the lists of several processes and be retried after errors and crashes.
ReportedOnce == \A o \in Orders : alerts[o] <= 1 /\ Len(outcomes[o]) <= 1

\* An announced fill is in the books, and a trade outcome joins a booked sell
\* to a buy of the same symbol whose row is filled.
ReportsAreBooked ==
  \A o \in Orders :
    /\ alerts[o] > 0 => fills[o] > 0
    /\ \A i \in 1 .. Len(outcomes[o]) :
         LET b == outcomes[o][i]
         IN  /\ SideOf[o] = "sell" /\ SideOf[b] = "buy" /\ SymbolOf[b] = SymbolOf[o]
             /\ alerts[o] > 0 /\ orders[b].status = "filled"

\* The latest snapshot's cash is the starting cash moved by every fill.
CashMatchesFills ==
  cash = StartCash + MapThenSumSet(LAMBDA o : CashDelta(o, fills[o]), Orders)

\* A settled row is settled for good: no later answer, retry or other process
\* changes its status, quantity or time, nor a booked fill.
SettledForever ==
  [][\A o \in Orders :
       /\ orders[o].status \in {"filled", "cancelled"} => orders'[o] = orders[o]
       /\ fills[o] # 0 => fills'[o] = fills[o]]_vars

\* The order book as its abstract specification sees it.
OrderStatus == [o \in Orders |-> orders[o].status]
SettledQuantity == [o \in Orders |-> orders[o].filled_qty]

Ledger == INSTANCE OrderLedger WITH
  Exact <- FALSE, status <- OrderStatus, settled <- SettledQuantity, booked <- fills

ExactLedger == INSTANCE OrderLedger WITH
  Exact <- TRUE, status <- OrderStatus, settled <- SettledQuantity, booked <- fills

\* Whoever reconciles, and whatever fails, rows are settled once and booked once.
ImplementsLedger == Ledger!Spec

\* A single process books exactly the quantity it recorded, and only filled rows.
ImplementsExactLedger == ExactLedger!Spec

\* Without a fault, an order that the broker has filled while its row is pending
\* is booked in the end, whichever process marks the row and whichever finds
\* it settled already.  A row more than 48 hours old may instead be cancelled
\* on an answer older than the fill.
FilledIsBooked ==
  \A o \in Orders :
    (orders[o].status = "submitted" /\ broker[o].status = "filled")
      ~> (fills[o] > 0 \/ o \in aged \/ faults > 0)

\* No row stays pending for ever once it is 48 hours old, whatever fails, except
\* while the broker answers with a status the code does not know or a fill
\* without a time.
StaleIsSettled ==
  \A o \in Orders :
    (o \in aged) ~> \/ orders[o].status # "submitted"
                    \/ broker[o].status \in UnknownStatuses
                    \/ broker[o].status = "partially_filled" /\ broker[o].at = 0

\* "Every closed trade linked to its opening signal" (README.md:24): where the
\* recorder is alone and nothing fails, a booked stop-loss or take-profit close
\* has one outcome, with the buy it was made for and not a later one.
ClosedTradeHasOutcome ==
  faults = 0 /\ (\A r \in Processes : pc[r] = "idle") =>
    \A o \in Orders :
      fills[o] > 0 /\ ParentOf[o] # NoOrder => outcomes[o] = <<ParentOf[o]>>
=============================================================================
