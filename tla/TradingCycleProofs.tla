------------------------- MODULE TradingCycleProofs -------------------------
(***************************************************************************)
(* Theorems about TradingCycle, for any symbols, signals, orders and       *)
(* failures: rows never run ahead of the broker, a close ends a buy that   *)
(* was booked, and the kill switch bounds and then blocks new orders.      *)
(***************************************************************************)
EXTENDS TradingCycle, SumTheorems, SequenceTheorems

Order == [status : Live \cup {"filled", "cancelled"}, quantity : Nat \ {0}]
Row == [status : {"submitted", "filled", "cancelled"}, at : Nat]

\* The tables are functions of known keys: the signal of an order was stored before it.
Tables ==
  /\ broker \in [DOMAIN broker -> Order] /\ IsFiniteSet(DOMAIN broker)
  /\ rows \in [DOMAIN rows -> Row] /\ IsFiniteSet(DOMAIN rows)
  /\ \A k \in DOMAIN broker : k \in Keys /\ k.signal \in 1 .. Len(signals)
  /\ \A k \in DOMAIN rows : k \in DOMAIN broker

\* The calls of a cycle that has passed the kill switch and read the account.
Trading == {"symbol", "close", "insert_close", "strategy", "review", "execute", "insert"}

\* What the worker and the API hold: the order that they send is new and entries only are
\* sent by execute_signal; the order that they insert is at the broker.
Held ==
  /\ wpc \in Trading => equity \in Equities
  /\ wpc \in Trading \ {"symbol"} => sym \in Symbols \ todo
  /\ wpc = "execute" => /\ key \in Keys /\ key.signal \in 1 .. Len(signals)
                        /\ key.trigger = "none"
  /\ wpc \in {"insert", "insert_close"} => key \in DOMAIN broker
  /\ apc # "idle" => /\ request \in Keys /\ request.signal \in 1 .. Len(signals)
                     /\ request.trigger = "none"
  /\ apc = "insert" => request \in DOMAIN broker
  /\ pending \subseteq DOMAIN broker

\* What is announced is true of the worker, and no request is between its check of the
\* switch and its submission while the switch is on.
Blocked ==
  /\ alerted => wpc \in {"idle", "switch", "cancel"}
  /\ switch => apc # "submit"

\* The orders that the worker may still send before it looks at the switch again.
Budget ==
  CASE wpc \in {"idle", "switch", "cancel"} -> 0
    [] wpc = "account" -> 2 * Cardinality(Symbols)
    [] wpc \in {"symbol", "insert"} -> 2 * Cardinality(todo)
    [] wpc = "close" -> 2 * Cardinality(todo) + 2
    [] wpc \in {"insert_close", "strategy", "review", "execute"} -> 2 * Cardinality(todo) + 1

WithinBudget ==
  /\ LateOrdersBounded
  /\ switch => late + Budget <= 2 * Cardinality(Symbols)

IInv == TypeOK /\ Tables /\ Held /\ RowsFollowBroker /\ ClosesFollowBuys
-----------------------------------------------------------------------------
(* Sums of shares.                                                         *)

\* The shares of an order, with the sign of its side.
Shares(K) ==
  [k \in K |-> IF SideOf(k) = "buy" THEN broker[k].quantity ELSE -broker[k].quantity]

LEMMA MovedTyped ==
  ASSUME Tables, NEW K, K \subseteq DOMAIN broker PROVE Moved(K) \in Int
<1>1. Moved(K) = SumOver(Shares(K), K)
  BY Zenon DEF Moved, SumOver, Shares, MapThenSumSet, MapThenFoldSet
<1>2. \A k \in K : Shares(K)[k] \in Int
  BY DEF Tables, Order, Shares
<1>3. IsFiniteSet(K)
  BY FS_Subset DEF Tables
<1>. QED BY <1>1, <1>2, <1>3, SumType

LEMMA PositionTyped == ASSUME Tables, NEW s PROVE Position(s) \in Int
BY MovedTyped DEF Position
-----------------------------------------------------------------------------
(* What a step does to the tables.                                         *)

SignalGrows ==
  \/ UNCHANGED signals
  \/ /\ wpc = "strategy" /\ Len(signals) < MaxSignals
     /\ \E d \in {"buy", "sell"} :
          signals' = Append(signals, [symbol |-> sym, direction |-> d])

\* A live order is ended or asked to be cancelled, or a new one is accepted: an entry, or
\* the close of a buy whose row is filled.
Moves(k) ==
  /\ k \in DOMAIN broker /\ broker[k].status \in Live
  /\ \E st \in {"filled", "cancelled", "pending_cancel"} :
       broker' = [broker EXCEPT ![k].status = st]
Closing(k) ==
  \E b \in DOMAIN rows, t \in Triggers :
    /\ k = [b EXCEPT !.trigger = t]
    /\ SideOf(b) = "buy" /\ rows[b].status = "filled"
Accepts(k) ==
  /\ k \in Keys /\ k.signal \in 1 .. Len(signals)
  /\ k.trigger = "none" \/ Closing(k)
  /\ \E q \in Nat \ {0} : Accept(k, q)

BrokerGrows == UNCHANGED broker \/ \E k : Moves(k) \/ Accepts(k)

RowsGrow == UNCHANGED rows \/ Reconcile \/ \E k \in DOMAIN broker : InsertRow(k)

LEMMA SignalEffect == ASSUME [Next]_vars PROVE SignalGrows
<1>1. CASE Generate
  BY <1>1 DEF Generate, SignalGrows
<1>2. CASE UNCHANGED signals
  BY <1>2 DEF SignalGrows
<1>. QED
  BY <1>1, <1>2
     DEF Next, vars, marketVars, BrokerStep, BrokerFill, BrokerCancel, WorkerStep, StartCycle,
         CheckKillSwitch, CancelOrder, GetAccount, EndCycle, NextSymbol, MaybeClosePosition,
         InsertCloseOrder, NoAction, Review, Execute, InsertPaperOrder, Failure,
         CancelOrderFails, GetAccountFails, InsertFails, Crash, ApiFails, ApiContinue,
         ApiCheckSwitch, ApiSubmit, ApiInsert, ApiRequest, ApiExecuteSignal, ApiReconcile,
         ActivateKillSwitch, DeactivateKillSwitch

LEMMA RowsEffect == ASSUME Held, [Next]_vars PROVE RowsGrow
<1>1. CASE InsertCloseOrder \/ InsertPaperOrder
  BY <1>1 DEF InsertCloseOrder, InsertPaperOrder, Held, RowsGrow
<1>2. CASE ApiInsert
  BY <1>2 DEF ApiInsert, Held, RowsGrow
<1>3. CASE StartCycle \/ ApiReconcile
  BY <1>3 DEF StartCycle, ApiReconcile, RowsGrow
<1>4. CASE UNCHANGED rows
  BY <1>4 DEF RowsGrow
<1>. QED
  BY <1>1, <1>2, <1>3, <1>4
     DEF Next, vars, BrokerStep, BrokerFill, BrokerCancel, WorkerStep,
         CheckKillSwitch, CancelOrder, GetAccount, EndCycle, NextSymbol, MaybeClosePosition,
         Generate, NoAction, Review, Execute, Failure,
         CancelOrderFails, GetAccountFails, InsertFails, Crash, ApiFails, ApiContinue,
         ApiCheckSwitch, ApiSubmit, ApiRequest, ApiExecuteSignal,
         ActivateKillSwitch, DeactivateKillSwitch

LEMMA CloseEffect ==
  ASSUME TypeOK, Tables, Held, RowsFollowBroker, MaybeClosePosition PROVE BrokerGrows
<1>1. CASE UNCHANGED broker
  BY <1>1 DEF BrokerGrows
<1>2. ASSUME NEW b \in LatestFilledBuy(sym), NEW t \in Triggers,
             Accept([b EXCEPT !.trigger = t], held[sym])
      PROVE  BrokerGrows
  <2> DEFINE k == [b EXCEPT !.trigger = t]
  <2>1. /\ b \in DOMAIN rows /\ rows[b].status = "filled" /\ SideOf(b) = "buy"
        /\ b \in Keys /\ b.signal \in 1 .. Len(signals)
    BY <1>2 DEF LatestFilledBuy, Booked, Tables
  <2>2. k \in Keys /\ k.signal = b.signal
    BY <2>1 DEF Keys
  <2>3. held[sym] \in Nat \ {0}
    <3>1. sym \in Symbols /\ held \in [Symbols -> Int]
      BY DEF MaybeClosePosition, Held, TypeOK, Trading
    <3>. QED BY <3>1, <1>2 DEF Accept
  <2>4. Closing(k)
    BY <2>1 DEF Closing
  <2>5. Accepts(k)
    BY <1>2, <2>1, <2>2, <2>3, <2>4 DEF Accepts
  <2>. QED BY <2>5 DEF BrokerGrows
<1>. QED BY <1>1, <1>2 DEF MaybeClosePosition

LEMMA EntryEffect ==
  ASSUME NEW k \in Keys, k.signal \in 1 .. Len(signals), k.trigger = "none",
         Accept(k, k.equity)
  PROVE  BrokerGrows
<1>1. k.equity \in Nat \ {0}
  BY CycleConstants DEF Keys
<1>2. Accepts(k)
  BY <1>1 DEF Accepts
<1>. QED BY <1>2 DEF BrokerGrows

LEMMA BrokerEffect ==
  ASSUME TypeOK, Tables, Held, RowsFollowBroker, [Next]_vars PROVE BrokerGrows
<1>1. CASE BrokerStep
  BY <1>1 DEF BrokerStep, BrokerFill, BrokerCancel, BrokerGrows, Moves
<1>2. CASE CancelOrder
  BY <1>2 DEF CancelOrder, Held, BrokerGrows, Moves, Live
<1>3. CASE MaybeClosePosition
  BY <1>3, CloseEffect
<1>4. CASE Execute
  BY <1>4, EntryEffect DEF Execute, Held, BrokerGrows
<1>5. CASE ApiSubmit
  BY <1>5, EntryEffect DEF ApiSubmit, Held, BrokerGrows
<1>6. CASE UNCHANGED broker
  BY <1>6 DEF BrokerGrows
<1>. QED
  BY <1>1, <1>2, <1>3, <1>4, <1>5, <1>6
     DEF Next, vars, marketVars, WorkerStep, StartCycle,
         CheckKillSwitch, GetAccount, EndCycle, NextSymbol, 
         InsertCloseOrder, Generate, NoAction, Review, InsertPaperOrder, Failure,
         CancelOrderFails, GetAccountFails, InsertFails, Crash, ApiFails, ApiContinue,
         ApiCheckSwitch, ApiInsert, ApiRequest, ApiExecuteSignal, ApiReconcile,
         ActivateKillSwitch, DeactivateKillSwitch
-----------------------------------------------------------------------------
(* The tables keep what they hold.                                         *)

LEMMA SignalsKept ==
  ASSUME TypeOK, Held, SignalGrows
  PROVE  /\ signals' \in Seq([symbol : Symbols, direction : {"buy", "sell"}])
         /\ Len(signals') <= MaxSignals
         /\ 1 .. Len(signals) \subseteq 1 .. Len(signals')
         /\ \A i \in 1 .. Len(signals) : signals'[i] = signals[i]
<1> DEFINE Signal == [symbol : Symbols, direction : {"buy", "sell"}]
<1>0. signals \in Seq(Signal) /\ Len(signals) \in Nat /\ Len(signals) <= MaxSignals
  BY DEF TypeOK
<1>1. CASE UNCHANGED signals
  BY <1>0, <1>1
<1>2. ASSUME wpc = "strategy", Len(signals) < MaxSignals, NEW d \in {"buy", "sell"},
             signals' = Append(signals, [symbol |-> sym, direction |-> d])
      PROVE  /\ signals' \in Seq(Signal) /\ Len(signals') = Len(signals) + 1
             /\ \A i \in 1 .. Len(signals) : signals'[i] = signals[i]
  <2>1. [symbol |-> sym, direction |-> d] \in Signal
    BY <1>2 DEF Held, Trading
  <2>. HIDE DEF Signal
  <2>. QED BY <1>0, <1>2, <2>1, AppendProperties
<1>3. Len(signals) + 1 <= MaxSignals \/ ~(Len(signals) < MaxSignals)
  BY <1>0, CycleConstants DEF CycleConstants
<1>. HIDE DEF Signal
<1>4. CASE /\ wpc = "strategy" /\ Len(signals) < MaxSignals
           /\ \E d \in {"buy", "sell"} :
                signals' = Append(signals, [symbol |-> sym, direction |-> d])
  <2>1. PICK d \in {"buy", "sell"} :
          signals' = Append(signals, [symbol |-> sym, direction |-> d])
    BY <1>4
  <2>2. /\ signals' \in Seq(Signal) /\ Len(signals') = Len(signals) + 1
        /\ \A i \in 1 .. Len(signals) : signals'[i] = signals[i]
    BY <1>2, <1>4, <2>1
  <2>. QED BY <1>0, <1>3, <1>4, <2>2 DEF Signal
<1>. QED BY <1>1, <1>4 DEF SignalGrows, Signal

\* The sides of known keys never change.
LEMMA SidesKept ==
  ASSUME TypeOK, Held, SignalGrows, NEW k, k.signal \in 1 .. Len(signals)
  PROVE  SideOf(k)' = SideOf(k) /\ k.signal \in 1 .. Len(signals')
BY SignalsKept DEF SideOf

\* Orders stay at the broker, and a filled one stays filled.
LEMMA BrokerKept ==
  ASSUME Tables, BrokerGrows
  PROVE  /\ broker' \in [DOMAIN broker' -> Order] /\ IsFiniteSet(DOMAIN broker')
         /\ \A k \in DOMAIN broker :
              /\ k \in DOMAIN broker'
              /\ broker[k].status = "filled" => broker'[k].status = "filled"
         /\ \A k \in DOMAIN broker' :
              k \in DOMAIN broker \/ (Accepts(k) /\ DOMAIN broker' = DOMAIN broker \cup {k})
<1>1. CASE UNCHANGED broker
  BY <1>1 DEF Tables
<1>2. ASSUME NEW k, Moves(k)
      PROVE  /\ DOMAIN broker' = DOMAIN broker
             /\ \A l \in DOMAIN broker :
                  /\ broker'[l] \in Order
                  /\ broker[l].status = "filled" => broker'[l].status = "filled"
  <2>1. PICK st \in {"filled", "cancelled", "pending_cancel"} :
          broker' = [broker EXCEPT ![k].status = st]
    BY <1>2 DEF Moves
  <2>2. [broker[k] EXCEPT !.status = st] \in Order
    BY <1>2, <2>1 DEF Moves, Tables, Order, Live
  <2>3. k \in DOMAIN broker /\ broker[k].status # "filled"
    BY <1>2 DEF Moves, Live
  <2>4. broker'[k] = [broker[k] EXCEPT !.status = st]
    BY <2>1, <2>3 DEF Tables
  <2>5. \A l \in DOMAIN broker : l # k => broker'[l] = broker[l]
    BY <2>1 DEF Tables
  <2>. QED BY <2>1, <2>2, <2>3, <2>4, <2>5 DEF Tables
<1>3. ASSUME NEW k, Accepts(k)
      PROVE  /\ DOMAIN broker' = DOMAIN broker \cup {k} /\ k \notin DOMAIN broker
             /\ broker'[k] \in Order
             /\ \A l \in DOMAIN broker : broker'[l] = broker[l]
             /\ broker' = [l \in DOMAIN broker' |-> broker'[l]]
             /\ IsFiniteSet(DOMAIN broker')
  BY <1>3, FS_AddElement DEF Accepts, Accept, Put, Order, Live, Tables
<1>4. CASE \E k : Moves(k)
  <2>1. broker' = [l \in DOMAIN broker' |-> broker'[l]]
    BY <1>4 DEF Moves
  <2>. QED BY <1>2, <1>4, <2>1 DEF Tables
<1>5. CASE \E k : Accepts(k)
  BY <1>3, <1>5 DEF Tables
<1>. QED BY <1>1, <1>4, <1>5 DEF BrokerGrows

\* Rows stay, a filled one does not change, and one is made for an order at the broker.
LEMMA RowsKept ==
  ASSUME Tables, RowsFollowBroker, RowsGrow
  PROVE  /\ rows' \in [DOMAIN rows' -> Row] /\ IsFiniteSet(DOMAIN rows')
         /\ \A k \in DOMAIN rows' : k \in DOMAIN rows \/ k \in DOMAIN broker
         /\ \A k \in DOMAIN rows : 
              /\ k \in DOMAIN rows'
              /\ rows[k].status = "filled" => rows'[k] = rows[k]
         /\ \A k \in DOMAIN rows' : rows'[k].status = "filled" => broker[k].status = "filled"
<1>1. CASE UNCHANGED rows
  BY <1>1 DEF Tables, RowsFollowBroker
<1>2. CASE Reconcile
  <2>1. PICK old \in SUBSET {k \in Submitted : broker[k].status \in Live} :
          rows' = [k \in DOMAIN rows |->
             IF k \notin Submitted THEN rows[k]
             ELSE IF k \in old THEN [rows[k] EXCEPT !.status = "cancelled"]
             ELSE IF broker[k].status \in Live THEN rows[k]
             ELSE [rows[k] EXCEPT !.status = broker[k].status]]
    BY <1>2 DEF Reconcile
  <2>2. DOMAIN rows' = DOMAIN rows
    BY <2>1
  <2>3. ASSUME NEW k \in DOMAIN rows
        PROVE  /\ rows'[k] \in Row
               /\ rows[k].status = "filled" => rows'[k] = rows[k]
               /\ rows'[k].status = "filled" => broker[k].status = "filled"
    <3>1. rows[k] \in Row /\ broker[k] \in Order
      BY DEF Tables
    <3>2. CASE k \notin Submitted
      BY <2>1, <3>1, <3>2 DEF RowsFollowBroker
    <3>3. CASE k \in Submitted
      <4>1. rows[k].status = "submitted"
        BY <3>3 DEF Submitted
      <4>2. CASE k \in old
        BY <2>1, <3>1, <3>3, <4>1, <4>2 DEF Row
      <4>3. CASE k \notin old /\ broker[k].status \in Live
        BY <2>1, <3>1, <3>3, <4>1, <4>3
      <4>4. CASE k \notin old /\ broker[k].status \notin Live
        <5>1. broker[k].status \in {"filled", "cancelled"}
          BY <3>1, <4>4 DEF Order
        <5>2. rows'[k] = [rows[k] EXCEPT !.status = broker[k].status]
          BY <2>1, <3>3, <4>4
        <5>. QED BY <3>1, <4>1, <5>1, <5>2 DEF Row
      <4>. QED BY <4>2, <4>3, <4>4
    <3>. QED BY <3>2, <3>3
  <2>4. rows' = [k \in DOMAIN rows' |-> rows'[k]]
    BY <2>1
  <2>. QED BY <2>2, <2>3, <2>4 DEF Tables
<1>3. ASSUME NEW k \in DOMAIN broker, InsertRow(k), k \notin DOMAIN rows
      PROVE  /\ DOMAIN rows' = DOMAIN rows \cup {k}
             /\ rows'[k] \in Row /\ rows'[k].status = "submitted"
             /\ \A l \in DOMAIN rows : rows'[l] = rows[l]
             /\ rows' = [l \in DOMAIN rows' |-> rows'[l]]
             /\ IsFiniteSet(DOMAIN rows')
  <2>1. Cardinality(DOMAIN rows) + 1 \in Nat
    BY FS_CardinalityType DEF Tables
  <2>. QED BY <1>3, <2>1, FS_AddElement DEF InsertRow, Put, Row, Tables
<1>4. CASE \E k \in DOMAIN broker : InsertRow(k)
  BY <1>1, <1>3, <1>4 DEF InsertRow, Tables, RowsFollowBroker
<1>. QED BY <1>1, <1>2, <1>4 DEF RowsGrow
-----------------------------------------------------------------------------
(* What the worker and the API hold.                                       *)

\* What a step keeps of the tables, for those who hold their keys.
Kept ==
  /\ \A k : k.signal \in 1 .. Len(signals) => k.signal \in 1 .. Len(signals')
  /\ DOMAIN broker \subseteq DOMAIN broker'

LEMMA TablesKept ==
  ASSUME TypeOK, Tables, Held, RowsFollowBroker, [Next]_vars PROVE Kept
BY SignalEffect, BrokerEffect, SignalsKept, BrokerKept DEF Kept

\* The worker's locals, action by action.
LEMMA WorkerHeld ==
  ASSUME TypeOK, Tables, Held, RowsFollowBroker, Kept, WorkerStep PROVE Held'
<1> USE DEF Held, Trading, Kept
<1>1. CASE StartCycle
  BY <1>1 DEF StartCycle, marketVars, apiVars
<1>2. CASE CheckKillSwitch
  <2>1. Submitted \subseteq DOMAIN broker
    BY DEF Submitted, Tables
  <2>. QED BY <1>2, <2>1 DEF CheckKillSwitch, marketVars, apiVars
<1>3. CASE CancelOrder
  BY <1>3 DEF CancelOrder, apiVars
<1>4. CASE GetAccount
  BY <1>4 DEF GetAccount, marketVars, apiVars
<1>5. CASE EndCycle
  BY <1>5 DEF EndCycle, marketVars, apiVars
<1>6. CASE NextSymbol
  BY <1>6 DEF NextSymbol, marketVars, apiVars, TypeOK
<1>7. CASE MaybeClosePosition
  BY <1>7 DEF MaybeClosePosition, Accept, Put, apiVars
<1>8. CASE InsertCloseOrder \/ InsertPaperOrder
  BY <1>8 DEF InsertCloseOrder, InsertPaperOrder, marketVars, apiVars
<1>9. CASE Generate
  BY <1>9 DEF Generate, apiVars
<1>10. CASE NoAction
  BY <1>10 DEF NoAction, marketVars, apiVars
<1>11. CASE Review
  <2>1. PICK i \in Latest(sym) :
          key' = [signal |-> i, equity |-> equity, trigger |-> "none"]
    BY <1>11 DEF Review
  <2>2. i \in 1 .. Len(signals) /\ i \in 1 .. MaxSignals /\ equity \in Equities
    BY <1>11, <2>1, CycleConstants DEF Review, Latest, TypeOK, CycleConstants
  <2>3. key' \in Keys /\ key'.signal = i /\ key'.trigger = "none"
    BY <2>1, <2>2 DEF Keys
  <2>. QED BY <1>11, <2>2, <2>3 DEF Review, marketVars, apiVars
<1>12. CASE Execute
  BY <1>12 DEF Execute, Accept, Put, apiVars
<1>. QED
  BY <1>1, <1>2, <1>3, <1>4, <1>5, <1>6, <1>7, <1>8, <1>9, <1>10, <1>11, <1>12 DEF WorkerStep

LEMMA OthersHeld ==
  ASSUME TypeOK, Tables, Held, RowsFollowBroker, Kept,
         BrokerStep \/ Failure \/ ApiContinue \/ ApiRequest \/ UNCHANGED vars
  PROVE  Held'
<1> USE DEF Held, Trading, Kept
<1>1. CASE BrokerStep
  BY <1>1 DEF BrokerStep, BrokerFill, BrokerCancel, workerVars, apiVars
<1>2. CASE CancelOrderFails \/ GetAccountFails
  BY <1>2 DEF CancelOrderFails, GetAccountFails, marketVars, apiVars
<1>3. CASE InsertFails
  BY <1>3 DEF InsertFails, marketVars, apiVars
<1>4. CASE Crash
  BY <1>4 DEF Crash, marketVars, apiVars
<1>5. CASE ApiFails \/ ApiCheckSwitch \/ ApiInsert
  BY <1>5 DEF ApiFails, ApiCheckSwitch, ApiInsert, marketVars, workerVars
<1>6. CASE ApiSubmit
  BY <1>6 DEF ApiSubmit, Accept, Put, workerVars
<1>7. CASE ApiExecuteSignal
  <2>1. PICK i \in ApiSignals \cap 1 .. Len(signals), e \in Equities :
          request' = [signal |-> i, equity |-> e, trigger |-> "none"]
    BY <1>7 DEF ApiExecuteSignal
  <2>2. i \in 1 .. MaxSignals
    BY <2>1, CycleConstants DEF CycleConstants
  <2>3. request' \in Keys /\ request'.signal = i /\ request'.trigger = "none"
    BY <2>1, <2>2 DEF Keys
  <2>. QED BY <1>7, <2>1, <2>3 DEF ApiExecuteSignal, marketVars, workerVars
<1>8. CASE ApiReconcile \/ ActivateKillSwitch \/ DeactivateKillSwitch
  BY <1>8 DEF ApiReconcile, ActivateKillSwitch, DeactivateKillSwitch, marketVars, workerVars,
              apiVars
<1>9. CASE UNCHANGED vars
  BY <1>9 DEF vars, marketVars, workerVars, apiVars
<1>. QED
  BY <1>1, <1>2, <1>3, <1>4, <1>5, <1>6, <1>7, <1>8, <1>9
     DEF Failure, ApiContinue, ApiRequest

LEMMA HeldKept ==
  ASSUME TypeOK, Tables, Held, RowsFollowBroker, [Next]_vars PROVE Held'
BY TablesKept, WorkerHeld, OthersHeld DEF Next
-----------------------------------------------------------------------------
(* Types of the locals.                                                    *)

Calls == {"idle", "switch", "cancel", "account"} \cup Trading

LocalsTyped ==
  /\ switch \in BOOLEAN /\ alerted \in BOOLEAN
  /\ late \in Nat
  /\ wpc \in Calls
  /\ todo \subseteq Symbols
  /\ pending \subseteq Keys
  /\ equity \in Equities \cup {0}
  /\ held \in [Symbols -> Int]
  /\ sym \in Symbols \cup {NoSymbol}
  /\ key \in Keys \cup {NoKey}
  /\ apc \in {"idle", "switch", "submit", "insert"}
  /\ request \in Keys \cup {NoKey}
  /\ faults \in 0 .. MaxFaults

LEMMA TypeParts ==
  TypeOK <=> /\ signals \in Seq([symbol : Symbols, direction : {"buy", "sell"}])
             /\ Len(signals) <= MaxSignals
             /\ DOMAIN broker \subseteq Keys
             /\ \A k \in DOMAIN broker : /\ broker[k].status \in Live \cup {"filled", "cancelled"}
                                         /\ broker[k].quantity \in Nat \ {0}
             /\ DOMAIN rows \subseteq Keys
             /\ \A k \in DOMAIN rows : /\ rows[k].status \in {"submitted", "filled", "cancelled"}
                                       /\ rows[k].at \in Nat
             /\ LocalsTyped
BY DEF TypeOK, LocalsTyped, Calls, Trading

LEMMA WorkerTyped ==
  ASSUME TypeOK, Tables, Held, WorkerStep PROVE LocalsTyped'
<1>0. LocalsTyped
  BY TypeParts
<1> USE CycleConstants DEF LocalsTyped, Calls, Trading
<1>1. CASE StartCycle
  BY <1>0, <1>1 DEF StartCycle, apiVars, CycleConstants
<1>2. CASE CheckKillSwitch
  <2>1. Submitted \subseteq Keys
    BY DEF Submitted, TypeOK
  <2>. QED BY <1>0, <1>2, <2>1 DEF CheckKillSwitch, apiVars
<1>3. CASE CancelOrder
  BY <1>0, <1>3 DEF CancelOrder, apiVars
<1>4. CASE GetAccount
  <2>1. held' \in [Symbols -> Int]
    BY <1>4, PositionTyped DEF GetAccount
  <2>2. faults' \in 0 .. MaxFaults
    BY <1>0, <1>4 DEF GetAccount, CycleConstants
  <2>. QED BY <1>0, <1>4, <2>1, <2>2 DEF GetAccount, apiVars
<1>5. CASE EndCycle
  BY <1>0, <1>5 DEF EndCycle, apiVars
<1>6. CASE NextSymbol
  BY <1>0, <1>6 DEF NextSymbol, apiVars
<1>7. CASE MaybeClosePosition
  <2>1. key' \in Keys \cup {NoKey}
    <3>1. ASSUME NEW b \in LatestFilledBuy(sym), NEW t \in Triggers
          PROVE  [b EXCEPT !.trigger = t] \in Keys
      BY DEF LatestFilledBuy, Booked, TypeOK, Keys
    <3>. QED BY <1>0, <1>7, <3>1 DEF MaybeClosePosition
  <2>2. late' \in Nat
    <3>1. UNCHANGED late \/ CountLate
      BY <1>7 DEF MaybeClosePosition
    <3>2. late \in Nat
      BY <1>0
    <3>. QED BY <3>1, <3>2 DEF CountLate
  <2>. QED BY <1>0, <1>7, <2>1, <2>2 DEF MaybeClosePosition, apiVars
<1>8. CASE InsertCloseOrder \/ InsertPaperOrder
  BY <1>0, <1>8 DEF InsertCloseOrder, InsertPaperOrder, apiVars
<1>9. CASE Generate \/ NoAction
  BY <1>0, <1>9 DEF Generate, NoAction, apiVars
<1>10. CASE Review
  <2>1. PICK i \in Latest(sym) :
          key' = [signal |-> i, equity |-> equity, trigger |-> "none"]
    BY <1>10 DEF Review
  <2>2. i \in 1 .. MaxSignals /\ equity \in Equities
    BY <1>10, <2>1 DEF Review, Latest, TypeOK, CycleConstants, Held
  <2>3. key' \in Keys
    BY <2>1, <2>2 DEF Keys
  <2>. QED BY <1>0, <1>10, <2>3 DEF Review, apiVars
<1>11. CASE Execute
  BY <1>0, <1>11 DEF Execute, CountLate, apiVars
<1>. QED
  BY <1>1, <1>2, <1>3, <1>4, <1>5, <1>6, <1>7, <1>8, <1>9, <1>10, <1>11 DEF WorkerStep

LEMMA OthersTyped ==
  ASSUME TypeOK, BrokerStep \/ Failure \/ ApiContinue \/ ApiRequest \/ UNCHANGED vars
  PROVE  LocalsTyped'
<1>0. LocalsTyped
  BY TypeParts
<1> USE CycleConstants DEF LocalsTyped, Calls, Trading
<1>1. CASE BrokerStep
  BY <1>0, <1>1 DEF BrokerStep, BrokerFill, BrokerCancel, workerVars, apiVars
<1>2. CASE CancelOrderFails \/ GetAccountFails \/ InsertFails
  BY <1>0, <1>2 DEF CancelOrderFails, GetAccountFails, InsertFails, apiVars, CycleConstants
<1>3. CASE Crash
  <2>1. held' \in [Symbols -> Int] /\ faults' \in 0 .. MaxFaults
    BY <1>0, <1>3 DEF Crash, CycleConstants
  <2>. QED BY <1>0, <1>3, <2>1 DEF Crash, apiVars
<1>4. CASE ApiFails \/ ApiCheckSwitch \/ ApiInsert \/ ApiSubmit
  BY <1>0, <1>4 DEF ApiFails, ApiCheckSwitch, ApiInsert, ApiSubmit, workerVars, CycleConstants
<1>5. CASE ApiExecuteSignal
  <2>1. PICK i \in ApiSignals \cap 1 .. Len(signals), e \in Equities :
          request' = [signal |-> i, equity |-> e, trigger |-> "none"]
    BY <1>5 DEF ApiExecuteSignal
  <2>2. request' \in Keys
    BY <2>1 DEF CycleConstants, Keys
  <2>. QED BY <1>0, <1>5, <2>2 DEF ApiExecuteSignal, workerVars
<1>6. CASE ApiReconcile \/ DeactivateKillSwitch
  BY <1>0, <1>6 DEF ApiReconcile, DeactivateKillSwitch, workerVars, apiVars
<1>7. CASE ActivateKillSwitch
  <2>1. late' \in Nat /\ switch' \in BOOLEAN
    BY <1>0, <1>7 DEF ActivateKillSwitch
  <2>. QED BY <1>0, <1>7, <2>1 DEF ActivateKillSwitch, workerVars, apiVars
<1>8. CASE UNCHANGED vars
  BY <1>0, <1>8 DEF vars, workerVars, apiVars
<1>. QED
  BY <1>1, <1>2, <1>3, <1>4, <1>5, <1>6, <1>7, <1>8 DEF Failure, ApiContinue, ApiRequest
-----------------------------------------------------------------------------
(* The inductive invariant.                                                *)

LEMMA InvInit == ASSUME Init PROVE IInv
<1>1. IsFiniteSet({}) /\ <<>> \in Seq([symbol : Symbols, direction : {"buy", "sell"}])
      /\ Len(<<>>) = 0 /\ DOMAIN broker = {} /\ DOMAIN rows = {}
  BY FS_EmptySet DEF Init
<1>2. LocalsTyped
  <2>1. held \in [Symbols -> Int] /\ faults \in 0 .. MaxFaults
    BY CycleConstants DEF Init, CycleConstants
  <2>. QED BY <2>1 DEF Init, LocalsTyped, Calls
<1>3. TypeOK
  BY <1>1, <1>2, TypeParts, CycleConstants DEF Init, CycleConstants
<1>4. Tables
  BY <1>1 DEF Init, Tables
<1>5. Held /\ RowsFollowBroker /\ ClosesFollowBuys
  BY <1>1 DEF Init, Held, Trading, RowsFollowBroker, ClosesFollowBuys
<1>. QED BY <1>3, <1>4, <1>5 DEF IInv

LEMMA Preserved == ASSUME IInv, [Next]_vars PROVE IInv'
<1> USE DEF IInv
<1>1. SignalGrows /\ BrokerGrows /\ RowsGrow
  BY SignalEffect, BrokerEffect, RowsEffect
<1>2. LocalsTyped'
  BY WorkerTyped, OthersTyped DEF Next
<1>3. Tables'
  <2>1. ASSUME NEW k \in DOMAIN broker' PROVE k \in Keys /\ k.signal \in 1 .. Len(signals')
    BY <1>1, SignalsKept, BrokerKept DEF Tables, Accepts
  <2>. QED BY <1>1, <2>1, BrokerKept, RowsKept DEF Tables
<1>4. TypeOK'
  <2>1. \A k \in DOMAIN broker' : /\ broker'[k].status \in Live \cup {"filled", "cancelled"}
                                  /\ broker'[k].quantity \in Nat \ {0}
    BY <1>3 DEF Tables, Order
  <2>2. \A k \in DOMAIN rows' : /\ rows'[k].status \in {"submitted", "filled", "cancelled"}
                                /\ rows'[k].at \in Nat
    BY <1>3 DEF Tables, Row
  <2>3. DOMAIN broker' \subseteq Keys /\ DOMAIN rows' \subseteq Keys
    BY <1>3 DEF Tables
  <2>. QED BY <1>1, <1>2, <2>1, <2>2, <2>3, SignalsKept DEF TypeOK, LocalsTyped, Calls, Trading
<1>5. Held'
  BY HeldKept
<1>6. RowsFollowBroker'
  BY <1>1, <1>3, BrokerKept, RowsKept DEF RowsFollowBroker, Tables
<1>7. ClosesFollowBuys'
  <2>1. SUFFICES ASSUME NEW k \in DOMAIN broker', k.trigger # "none",
                        NEW b, b = [k EXCEPT !.trigger = "none"]
                 PROVE  b \in DOMAIN rows' /\ SideOf(b)' = "buy" /\ rows'[b].status = "filled"
    BY DEF ClosesFollowBuys
  <2>2. b \in DOMAIN rows /\ SideOf(b) = "buy" /\ rows[b].status = "filled"
    <3>1. CASE k \in DOMAIN broker
      BY <2>1, <3>1 DEF ClosesFollowBuys
    <3>2. CASE k \notin DOMAIN broker
      <4>1. PICK c \in DOMAIN rows, t \in Triggers :
              /\ k = [c EXCEPT !.trigger = t]
              /\ SideOf(c) = "buy" /\ rows[c].status = "filled"
        BY <1>1, <2>1, <3>2, BrokerKept DEF Accepts, Closing
      <4>2. c \in Keys /\ c.trigger = "none"
        BY <4>1 DEF Tables, SideOf
      <4>3. b = c
        BY <2>1, <4>1, <4>2 DEF Keys
      <4>. QED BY <4>1, <4>3
    <3>. QED BY <3>1, <3>2
  <2>3. SideOf(b)' = SideOf(b)
    BY <1>1, <2>2, SidesKept DEF Tables
  <2>. QED BY <1>1, <2>2, <2>3, RowsKept
<1>. QED BY <1>3, <1>4, <1>5, <1>6, <1>7

LEMMA Invariance == Spec => []IInv
BY InvInit, Preserved, PTL DEF Spec
-----------------------------------------------------------------------------
(* The tables.                                                             *)

\* Every reachable state is typed: quantities are positive, whatever the broker holds.
THEOREM TypeCorrect == Spec => []TypeOK
BY Invariance, PTL DEF IInv

\* Only orders the broker has get a row, and only filled ones a filled row, whatever the
\* worker, the API and the broker do between a submission and its row (executor.py:60).
THEOREM RowsFollow == Spec => []RowsFollowBroker
BY Invariance, PTL DEF IInv

\* A stop-loss or take-profit close ends the position of a buy booked as filled.
THEOREM ClosesFollow == Spec => []ClosesFollowBuys
BY Invariance, PTL DEF IInv
-----------------------------------------------------------------------------
(* The kill switch.                                                        *)

LEMMA BlockedInit == ASSUME Init PROVE Blocked
BY DEF Init, Blocked

LEMMA BlockedPreserved == ASSUME Blocked, [Next]_vars PROVE Blocked'
<1> USE DEF Blocked
<1>1. CASE WorkerStep
  BY <1>1
     DEF WorkerStep, StartCycle, CheckKillSwitch, CancelOrder, GetAccount, EndCycle,
         NextSymbol, MaybeClosePosition, InsertCloseOrder, Generate, NoAction, Review,
         Execute, InsertPaperOrder, apiVars
<1>2. CASE Failure
  BY <1>2 DEF Failure, CancelOrderFails, GetAccountFails, InsertFails, Crash, ApiFails,
              apiVars, workerVars
<1>3. CASE ApiContinue
  BY <1>3 DEF ApiContinue, ApiCheckSwitch, ApiSubmit, ApiInsert, workerVars
<1>4. CASE ApiRequest
  BY <1>4 DEF ApiRequest, ApiExecuteSignal, ApiReconcile, ActivateKillSwitch,
              DeactivateKillSwitch, workerVars, apiVars
<1>5. CASE BrokerStep \/ UNCHANGED vars
  BY <1>5 DEF BrokerStep, BrokerFill, BrokerCancel, vars, workerVars, apiVars
<1>. QED BY <1>1, <1>2, <1>3, <1>4, <1>5 DEF Next

\* Orders are sent by three calls only.
LEMMA Senders ==
  ASSUME [Next]_vars, NewOrders # {}
  PROVE  wpc \in {"close", "execute"} \/ apc = "submit"
<1>1. CASE DOMAIN broker' = DOMAIN broker
  BY <1>1 DEF NewOrders
<1>2. CASE MaybeClosePosition \/ Execute \/ ApiSubmit
  BY <1>2 DEF MaybeClosePosition, Execute, ApiSubmit
<1>3. CASE BrokerStep \/ CancelOrder
  BY <1>1, <1>3 DEF BrokerStep, BrokerFill, BrokerCancel, CancelOrder
<1>. QED
  BY <1>1, <1>2, <1>3
     DEF Next, vars, marketVars, WorkerStep, StartCycle, CheckKillSwitch, GetAccount,
         EndCycle, NextSymbol, InsertCloseOrder, Generate, NoAction, Review,
         InsertPaperOrder, Failure, CancelOrderFails, GetAccountFails, InsertFails, Crash,
         ApiFails, ApiContinue, ApiCheckSwitch, ApiInsert, ApiRequest, ApiExecuteSignal,
         ApiReconcile, ActivateKillSwitch, DeactivateKillSwitch

\* Between the announcement that execution is blocked and the reset nobody sends an order,
\* wherever the worker and the API were (loop.py, _check_kill_switch).
THEOREM BlockIsAnnounced == Spec => AnnouncedBlock
<1>1. Blocked /\ [Next]_vars => [alerted /\ switch => NewOrders = {}]_vars
  BY Senders DEF Blocked
<1>. QED BY <1>1, BlockedInit, BlockedPreserved, PTL DEF Spec, AnnouncedBlock

LEMMA TodoCounted ==
  ASSUME TypeOK
  PROVE  /\ Cardinality(Symbols) \in Nat /\ Cardinality(todo) \in Nat
         /\ Cardinality(todo) <= Cardinality(Symbols)
         /\ \A s \in Symbols \ todo : Cardinality(todo) + 1 <= Cardinality(Symbols)
         /\ \A s \in todo : Cardinality(todo \ {s}) = Cardinality(todo) - 1
<1>1. IsFiniteSet(Symbols) /\ todo \in SUBSET Symbols /\ IsFiniteSet(todo)
  BY CycleConstants, FS_Subset DEF TypeOK, CycleConstants
<1>2. ASSUME NEW s \in Symbols \ todo PROVE Cardinality(todo) + 1 <= Cardinality(Symbols)
  <2>1. Cardinality(todo \cup {s}) = Cardinality(todo) + 1
    BY <1>1, FS_AddElement
  <2>2. todo \cup {s} \in SUBSET Symbols
    BY <1>1
  <2>3. Cardinality(todo \cup {s}) <= Cardinality(Symbols)
    BY <1>1, <2>2, FS_Subset
  <2>. QED BY <2>1, <2>3
<1>. QED BY <1>1, <1>2, FS_Subset, FS_CardinalityType, FS_RemoveElement

\* However the worker stands when the switch is activated, its budget is within the bound.
LEMMA BudgetBounded ==
  ASSUME TypeOK, Held
  PROVE  Budget \in Nat /\ Budget <= 2 * Cardinality(Symbols)
BY TodoCounted DEF Budget, TypeOK, Held, Trading

LEMMA BudgetInit == ASSUME Init PROVE WithinBudget
BY CycleConstants, FS_CardinalityType
   DEF Init, WithinBudget, LateOrdersBounded, Budget, CycleConstants

LEMMA BudgetWorker == ASSUME IInv, WithinBudget, WorkerStep PROVE WithinBudget'
<1> DEFINE cap == Cardinality(Symbols)
           left == Cardinality(todo)
<1>1. /\ cap \in Nat /\ left \in Nat /\ left <= cap /\ late \in Nat
      /\ \A s \in Symbols \ todo : left + 1 <= cap
      /\ \A s \in todo : Cardinality(todo \ {s}) = left - 1
  BY TodoCounted DEF IInv, TypeOK
<1>2. late <= 2 * cap /\ (switch => late + Budget <= 2 * cap)
  BY DEF WithinBudget, LateOrdersBounded
<1>3. SUFFICES late' <= 2 * cap /\ (switch' => late' + Budget' <= 2 * cap)
  BY DEF WithinBudget, LateOrdersBounded
<1>. HIDE DEF cap
<1>4. CASE StartCycle \/ CheckKillSwitch \/ CancelOrder \/ EndCycle
  BY <1>1, <1>2, <1>4
     DEF StartCycle, CheckKillSwitch, CancelOrder, EndCycle, Budget, cap
<1>5. CASE GetAccount
  BY <1>1, <1>2, <1>5 DEF GetAccount, Budget, cap
<1>6. CASE NextSymbol
  <2>1. PICK s \in todo : todo' = todo \ {s}
    BY <1>6 DEF NextSymbol
  <2>2. Cardinality(todo') = left - 1
    BY <1>1, <2>1
  <2>. QED BY <1>1, <1>2, <1>6, <2>2 DEF NextSymbol, Budget
<1>7. CASE MaybeClosePosition
  <2>1. \/ wpc' = "strategy" /\ late' = late
        \/ wpc' = "insert_close" /\ CountLate
    BY <1>7 DEF MaybeClosePosition
  <2>2. wpc = "close" /\ todo' = todo /\ switch' = switch
    BY <1>7 DEF MaybeClosePosition
  <2>. QED BY <1>1, <1>2, <2>1, <2>2 DEF Budget, CountLate
<1>8. CASE Execute
  <2>1. \/ wpc' = "symbol" /\ late' = late
        \/ wpc' = "insert" /\ CountLate
    BY <1>8 DEF Execute
  <2>2. wpc = "execute" /\ todo' = todo /\ switch' = switch
    BY <1>8 DEF Execute
  <2>. QED BY <1>1, <1>2, <2>1, <2>2 DEF Budget, CountLate
<1>9. CASE InsertCloseOrder \/ Generate \/ NoAction \/ Review \/ InsertPaperOrder
  BY <1>1, <1>2, <1>9
     DEF InsertCloseOrder, Generate, NoAction, Review, InsertPaperOrder, Budget
<1>. QED BY <1>4, <1>5, <1>6, <1>7, <1>8, <1>9 DEF WorkerStep

LEMMA BudgetPreserved == ASSUME IInv, WithinBudget, [Next]_vars PROVE WithinBudget'
<1> DEFINE cap == Cardinality(Symbols)
           left == Cardinality(todo)
<1>1. cap \in Nat /\ left \in Nat /\ late \in Nat /\ Budget \in Nat /\ Budget <= 2 * cap
  BY TodoCounted, BudgetBounded DEF IInv, TypeOK
<1>2. late <= 2 * cap /\ (switch => late + Budget <= 2 * cap)
  BY DEF WithinBudget, LateOrdersBounded
<1>. HIDE DEF cap
<1>3. CASE WorkerStep
  BY <1>3, BudgetWorker
<1>4. CASE ActivateKillSwitch
  <2>1. Budget' = Budget /\ late' = IF switch THEN late ELSE 0
    BY <1>4 DEF ActivateKillSwitch, workerVars, Budget
  <2>. QED BY <1>1, <1>2, <2>1 DEF WithinBudget, LateOrdersBounded, cap
<1>5. CASE DeactivateKillSwitch
  BY <1>2, <1>5 DEF DeactivateKillSwitch, WithinBudget, LateOrdersBounded, cap
<1>6. CASE UNCHANGED <<switch, late, wpc, todo>>
  <2>1. Budget' = Budget
    BY <1>6 DEF Budget
  <2>. QED BY <1>6, <2>1 DEF WithinBudget, LateOrdersBounded
<1>7. CASE GetAccountFails \/ InsertFails \/ Crash
  <2>1. Budget' \in Nat /\ Budget' <= Budget /\ UNCHANGED <<switch, late>>
    <3>1. CASE GetAccountFails \/ Crash
      <4>1. Budget' = 0
        BY <3>1 DEF GetAccountFails, Crash, Budget
      <4>. QED BY <1>1, <3>1, <4>1 DEF GetAccountFails, Crash
    <3>2. CASE InsertFails
      BY <1>1, <3>2 DEF InsertFails, Budget
    <3>. QED BY <1>7, <3>1, <3>2
  <2>. QED BY <1>1, <1>2, <2>1 DEF WithinBudget, LateOrdersBounded, cap
<1>. QED
  BY <1>3, <1>4, <1>5, <1>6, <1>7
     DEF Next, vars, workerVars, BrokerStep, BrokerFill, BrokerCancel, Failure,
         CancelOrderFails, ApiFails, ApiContinue, ApiCheckSwitch, ApiSubmit, ApiInsert,
         ApiRequest, ApiExecuteSignal, ApiReconcile

\* The worker looks at the switch once per cycle (loop.py, step 4), yet after an activation
\* it sends at most a close and an entry for each symbol, crashes and failures included.
THEOREM LateBounded == Spec => []LateOrdersBounded
<1>1. IInv /\ WithinBudget /\ IInv' /\ [Next]_vars => WithinBudget'
  BY BudgetPreserved
<1>. QED BY <1>1, Invariance, BudgetInit, PTL DEF Spec, WithinBudget
=============================================================================
