---------------------------- MODULE ExposureProofs ----------------------------
(***************************************************************************)
(* Theorems about Exposure, for any prices, percentages and bounds: the    *)
(* tables are typed, closes alone never make the account short, and buys   *)
(* never spend more than the cash.                                         *)
(***************************************************************************)
EXTENDS Exposure, SumTheorems, SequenceTheorems

SellSignals == {k \in DOMAIN orders : orders[k].side = "sell" /\ orders[k].trigger = "signal"}
LiveSells == {k \in Live : orders[k].side = "sell"}

\* Without sell signals: one close at most is live, it sells no more than is held, and none
\* is live between the reading of the position and the close that is due.
Covered ==
  /\ qty >= 0
  /\ \A k, l \in LiveSells : k = l
  /\ \A k \in LiveSells : orders[k].qty <= qty
  /\ pc \in {"account", "close"} => LiveSells = {}
  /\ pc = "close" => view.qty <= qty

CoveredUnlessSold == SellSignals = {} => Covered
-----------------------------------------------------------------------------
(* Types.                                                                  *)

LEMMA Consts ==
  /\ Prices \subseteq Nat \ {0} /\ Start \in Nat
  /\ PositionPct \in 1 .. 100
  /\ WorkerSignals \cup ApiSignals \subseteq {"buy", "sell"}
  /\ MaxConfigs \in Nat /\ MaxMoves \in Nat /\ MaxCancels \in Nat /\ MaxOrders \in Nat
BY ExposureConstants DEF ExposureConstants

\* The size of an order is a number of shares, and the account's state is whole.
LEMMA Sized ==
  ASSUME TypeOK
  PROVE  /\ Worth \in Int /\ Account \in [equity : Int, qty : Int, value : Int]
         /\ \A e \in Int : Size(e) \in Int
<1>1. price \in Int /\ price > 0 /\ cash \in Int /\ qty \in Int /\ PositionPct \in Int
  BY Consts DEF TypeOK
<1>2. qty * price \in Int /\ Worth \in Int
  BY <1>1 DEF Worth
<1>3. Account \in [equity : Int, qty : Int, value : Int]
  BY <1>1, <1>2 DEF Account
<1>4. ASSUME NEW e \in Int PROVE Size(e) \in Int
  <2>1. e * PositionPct \in Int /\ 100 * price \in Int /\ 100 * price > 0
    BY <1>1
  <2>2. \A a, b \in Int : b > 0 => a \div b \in Int
    OBVIOUS
  <2>. QED BY <2>1, <2>2 DEF Size
<1>. QED BY <1>2, <1>3, <1>4

\* What a close refers to.
Refers(os, k) ==
  os[k].trigger # "signal" => os[k].of \in 1 .. k - 1 /\ os[os[k].of].side = "buy"

Statuses == {"live", "executed", "filled", "over"}

\* Orders change by a status of some of them, or by one that is sent.
Restated ==
  /\ orders' \in Seq(Order) /\ Len(orders') = Len(orders)
  /\ \A k \in DOMAIN orders : \E s \in Statuses :
       orders'[k] = [orders[k] EXCEPT !.status = s]
Sent(side, quantity, of, trigger) ==
  /\ Send(side, quantity, of, trigger)
  /\ side \in {"buy", "sell"} /\ quantity \in Nat \ {0}
  /\ \/ trigger = "signal" /\ of = 0
     \/ /\ trigger \in Triggers /\ side = "sell"
        /\ of \in DOMAIN orders /\ orders[of].side = "buy"

\* The order that is sent, and those before it.
LEMMA SentIs ==
  ASSUME TypeOK, NEW side, NEW quantity, NEW of, NEW trigger,
         Sent(side, quantity, of, trigger)
  PROVE  /\ orders' \in Seq(Order) /\ Len(orders') = Len(orders) + 1
         /\ \A k \in DOMAIN orders : orders'[k] = orders[k]
         /\ orders'[Len(orders) + 1].side = side
         /\ orders'[Len(orders) + 1].qty = quantity
         /\ orders'[Len(orders) + 1].of = of
         /\ orders'[Len(orders) + 1].trigger = trigger
         /\ orders'[Len(orders) + 1].status = "live"
<1> DEFINE new == [side |-> side, qty |-> quantity, at |-> price, of |-> of,
                   trigger |-> trigger, status |-> "live"]
<1>1. orders \in Seq(Order) /\ Len(orders) \in Nat /\ DOMAIN orders = 1 .. Len(orders)
  BY DEF TypeOK
<1>2. of \in Nat
  BY <1>1 DEF Sent
<1>3. new \in Order
  BY <1>2 DEF Sent, Order, TypeOK
<1>4. orders' = Append(orders, new)
  BY DEF Sent, Send
<1>5. /\ new.side = side /\ new.qty = quantity /\ new.of = of /\ new.trigger = trigger
      /\ new.status = "live"
  OBVIOUS
<1>. HIDE DEF new
<1>. QED BY <1>1, <1>3, <1>4, <1>5, AppendProperties

\* A status does not change what a close refers to, and a new order is typed.
LEMMA OrdersTyped ==
  ASSUME TypeOK, UNCHANGED orders \/ Restated \/ \E s, q, o, t : Sent(s, q, o, t)
  PROVE  orders' \in Seq(Order) /\ \A k \in DOMAIN orders' : Refers(orders', k)
<1>0. /\ orders \in Seq(Order) /\ Len(orders) \in Nat /\ DOMAIN orders = 1 .. Len(orders)
      /\ \A k \in DOMAIN orders : Refers(orders, k)
  BY DEF TypeOK, Refers
<1>1. CASE UNCHANGED orders
  BY <1>0, <1>1
<1>2. CASE Restated
  <2>1. /\ orders' \in Seq(Order) /\ DOMAIN orders' = DOMAIN orders
    BY <1>0, <1>2 DEF Restated
  <2>2. ASSUME NEW k \in DOMAIN orders
        PROVE  /\ orders'[k].trigger = orders[k].trigger /\ orders'[k].of = orders[k].of
               /\ orders'[k].side = orders[k].side
    <3>1. orders[k] \in Order
      BY <1>0
    <3>. QED BY <1>2, <3>1 DEF Restated, Order
  <2>3. \A k \in DOMAIN orders : orders[k].of \in 1 .. k - 1 => orders[k].of \in DOMAIN orders
    BY <1>0
  <2>. QED BY <1>0, <2>1, <2>2, <2>3 DEF Refers
<1>3. ASSUME NEW s, NEW q, NEW o, NEW t, Sent(s, q, o, t)
      PROVE  orders' \in Seq(Order) /\ \A k \in DOMAIN orders' : Refers(orders', k)
  <2> DEFINE n == Len(orders) + 1
  <2>1. /\ orders' \in Seq(Order) /\ DOMAIN orders' = DOMAIN orders \cup {n}
        /\ \A k \in DOMAIN orders : orders'[k] = orders[k]
        /\ orders'[n].of = o /\ orders'[n].trigger = t
    <3>1. /\ orders' \in Seq(Order) /\ Len(orders') = n
          /\ \A k \in DOMAIN orders : orders'[k] = orders[k]
          /\ orders'[n].of = o /\ orders'[n].trigger = t
      BY <1>3, SentIs
    <3>2. DOMAIN orders' = 1 .. n
      BY <3>1
    <3>. QED BY <1>0, <3>1, <3>2
  <2>2. ASSUME NEW k \in DOMAIN orders PROVE Refers(orders', k)
    BY <1>0, <2>1 DEF Refers
  <2>3. Refers(orders', n)
    <3>1. CASE t = "signal"
      BY <2>1, <3>1 DEF Refers
    <3>2. CASE o \in DOMAIN orders /\ orders[o].side = "buy"
      <4>1. o \in 1 .. n - 1 /\ orders'[o].side = "buy"
        BY <1>0, <2>1, <3>2
      <4>. QED BY <2>1, <4>1 DEF Refers
    <3>. QED BY <1>3, <3>1, <3>2 DEF Sent
  <2>. QED BY <2>1, <2>2, <2>3
<1>. QED BY <1>1, <1>2, <1>3
-----------------------------------------------------------------------------
(* What a step does to the orders.                                         *)

\* Of the live orders, one ends.
LEMMA OneEnds ==
  ASSUME TypeOK, NEW k \in Live, NEW s \in Statuses,
         orders' = [orders EXCEPT ![k].status = s]
  PROVE  Restated /\ DOMAIN orders' = DOMAIN orders
         /\ orders'[k].status = s /\ \A j \in DOMAIN orders : j # k => orders'[j] = orders[j]
<1>0. orders \in Seq(Order) /\ Len(orders) \in Nat /\ DOMAIN orders = 1 .. Len(orders)
  BY DEF TypeOK
<1>1. k \in DOMAIN orders /\ orders[k] \in Order
  BY <1>0 DEF Live
<1>2. [orders[k] EXCEPT !.status = s] \in Order /\ [orders[k] EXCEPT !.status = s].status = s
  BY <1>1 DEF Order, Statuses
<1>3. orders' = [orders EXCEPT ![k] = [orders[k] EXCEPT !.status = s]]
  OBVIOUS
<1>4. /\ orders' \in Seq(Order) /\ Len(orders') = Len(orders) /\ DOMAIN orders' = DOMAIN orders
      /\ orders'[k] = [orders[k] EXCEPT !.status = s]
      /\ \A j \in DOMAIN orders : j # k => orders'[j] = orders[j]
  BY <1>0, <1>1, <1>2, <1>3, ExceptSeq
<1>5. \A j \in DOMAIN orders : orders[j] = [orders[j] EXCEPT !.status = orders[j].status]
                               /\ orders[j].status \in Statuses
  <2>1. SUFFICES ASSUME NEW j \in DOMAIN orders
                 PROVE  orders[j] = [orders[j] EXCEPT !.status = orders[j].status]
                        /\ orders[j].status \in Statuses
    OBVIOUS
  <2>2. orders[j] \in Order
    BY <1>0
  <2>. QED BY <2>2 DEF Order, Statuses
<1>. QED BY <1>2, <1>4, <1>5 DEF Restated

\* What has been executed is booked by the reconciliation.
LEMMA Booked ==
  ASSUME TypeOK, StartCycle
  PROVE  Restated /\ \A k \in DOMAIN orders : orders'[k].status = "live" <=> k \in Live
<1>0. orders \in Seq(Order) /\ Len(orders) \in Nat /\ DOMAIN orders = 1 .. Len(orders)
  BY DEF TypeOK
<1>1. orders' = [k \in 1 .. Len(orders) |->
                  IF orders[k].status = "executed" THEN [orders[k] EXCEPT !.status = "filled"]
                  ELSE orders[k]]
  BY <1>0 DEF StartCycle
<1>2. ASSUME NEW k \in DOMAIN orders
      PROVE  /\ orders'[k] \in Order
             /\ \E s \in Statuses : orders'[k] = [orders[k] EXCEPT !.status = s]
             /\ orders'[k].status = "live" <=> k \in Live
  <2>1. orders[k] \in Order
    BY <1>0
  <2>2. CASE orders[k].status = "executed"
    BY <1>0, <1>1, <2>1, <2>2 DEF Order, Statuses, Live
  <2>3. CASE orders[k].status # "executed"
    <3>1. orders'[k] = orders[k]
      BY <1>0, <1>1, <2>3
    <3>2. orders[k] = [orders[k] EXCEPT !.status = orders[k].status]
          /\ orders[k].status \in Statuses
      BY <2>1 DEF Order, Statuses
    <3>. QED BY <2>1, <3>1, <3>2 DEF Live
  <2>. QED BY <2>2, <2>3
<1>3. orders' \in Seq(Order) /\ Len(orders') = Len(orders)
  BY <1>0, <1>1, <1>2, SeqDef
<1>. QED BY <1>2, <1>3 DEF Restated

\* A signal that the executor sends is one of the given side, of at least a share.
LEMMA SignalSent ==
  ASSUME TypeOK, NEW side \in {"buy", "sell"}, NEW account, NEW drawdown,
         account.equity \in Int, ExecuteSignal(side, account, drawdown)
  PROVE  \E q : Sent(side, q, 0, "signal")
<1>1. Size(account.equity) \in Nat \ {0}
  <2>1. Size(account.equity) \in Int
    BY Sized
  <2>. QED BY <2>1 DEF ExecuteSignal
<1>2. Sent(side, Size(account.equity), 0, "signal")
  BY <1>1 DEF ExecuteSignal, Sent
<1>. QED BY <1>2

\* A close sells what the cycle has read, of a buy that is filled.
LEMMA CloseSent ==
  ASSUME TypeOK, MaybeClosePosition
  PROVE  \/ UNCHANGED orders
         \/ \E o, t : Sent("sell", view.qty, o, t) /\ t # "signal"
<1>1. CASE UNCHANGED orders
  BY <1>1
<1>2. ASSUME SizeOfClose(view) > 0, NEW d \in Due, Send("sell", SizeOfClose(view), d[1], d[2])
      PROVE  Sent("sell", view.qty, d[1], d[2]) /\ d[2] # "signal"
  <2>1. view.qty \in Nat \ {0} /\ SizeOfClose(view) = view.qty
    BY <1>2 DEF SizeOfClose, TypeOK
  <2>2. d[1] \in FilledBuys /\ d[2] \in Triggers
    BY DEF Due
  <2>. QED BY <1>2, <2>1, <2>2 DEF Sent, FilledBuys, Triggers
<1>. QED BY <1>1, <1>2 DEF MaybeClosePosition

LEMMA OrdersEffect ==
  ASSUME TypeOK, [Next]_vars
  PROVE  UNCHANGED orders \/ Restated \/ \E s, q, o, t : Sent(s, q, o, t)
<1>1. CASE Fill
  BY <1>1, OneEnds DEF Fill, Statuses
<1>2. CASE Cancel
  BY <1>2, OneEnds DEF Cancel, Statuses
<1>3. CASE StartCycle
  BY <1>3, Booked
<1>4. CASE MaybeClosePosition
  BY <1>4, CloseSent
<1>5. CASE ExecuteSignals
  <2>1. view.equity \in Int /\ WorkerSignals \subseteq {"buy", "sell"}
    BY Consts DEF TypeOK
  <2>. QED BY <1>5, <2>1, SignalSent DEF ExecuteSignals
<1>6. CASE ApiExecuteSignal
  <2>1. Account.equity \in Int /\ ApiSignals \subseteq {"buy", "sell"}
    BY Consts, Sized
  <2>. QED BY <1>6, <2>1, SignalSent DEF ApiExecuteSignal
<1>. QED
  BY <1>1, <1>2, <1>3, <1>4, <1>5, <1>6
     DEF Next, vars, MovePrice, SetWorkerConfig, Worker, ReadAccount

LEMMA TypePreserved == ASSUME TypeOK, [Next]_vars PROVE TypeOK'
<1>1. orders' \in Seq(Order) /\ \A k \in DOMAIN orders' : Refers(orders', k)
  BY OrdersEffect, OrdersTyped
<1>2. /\ price' \in Prices /\ cash' \in Int /\ qty' \in Int /\ peak' \in Nat
      /\ pc' \in {"idle", "account", "close", "signal"}
      /\ view' \in [equity : Int, qty : Int, value : Int]
      /\ listed' \in BOOLEAN
      /\ moves' \in 0 .. MaxMoves /\ cancels' \in 0 .. MaxCancels /\ configs' \in 0 .. MaxConfigs
  <2>0. /\ price \in Prices /\ cash \in Int /\ qty \in Int /\ peak \in Nat
        /\ pc \in {"idle", "account", "close", "signal"}
        /\ view \in [equity : Int, qty : Int, value : Int]
        /\ listed \in BOOLEAN
        /\ moves \in 0 .. MaxMoves /\ cancels \in 0 .. MaxCancels
        /\ configs \in 0 .. MaxConfigs
    BY DEF TypeOK
  <2> USE <2>0
  <2>1. CASE MovePrice \/ Cancel \/ SetWorkerConfig
    <3>1. MaxMoves \in Nat /\ MaxCancels \in Nat /\ MaxConfigs \in Nat
      BY Consts
    <3>2. CASE MovePrice
      BY <3>1, <3>2 DEF MovePrice, accountVars
    <3>3. CASE Cancel
      BY <3>1, <3>3 DEF Cancel, accountVars
    <3>4. CASE SetWorkerConfig
      BY <3>1, <3>4 DEF SetWorkerConfig, accountVars
    <3>. QED BY <2>1, <3>2, <3>3, <3>4
  <2>2. CASE Fill
    <3>1. PICK k \in Live :
            LET bought == IF orders[k].side = "buy" THEN orders[k].qty ELSE -orders[k].qty
            IN  qty' = qty + bought /\ cash' = cash - bought * price
      BY <2>2 DEF Fill
    <3>2. orders[k].qty \in Int /\ price \in Int
      <4>1. orders[k] \in Order
        BY DEF TypeOK, Live
      <4>. QED BY <4>1, Consts DEF Order
    <3>4. \A b \in Int : qty + b \in Int /\ cash - b * price \in Int
      BY <3>2
    <3>5. (IF orders[k].side = "buy" THEN orders[k].qty ELSE -orders[k].qty) \in Int
      BY <3>2
    <3>3. cash' \in Int /\ qty' \in Int
      BY <3>1, <3>4, <3>5
    <3>. QED BY <2>2, <3>3 DEF Fill, bounds
  <2>3. CASE StartCycle
    <3>1. peak' \in Nat
      <4>1. Worth \in Int /\ peak' = IF Worth > peak THEN Worth ELSE peak
        BY <2>3, Sized DEF StartCycle
      <4>. QED BY <4>1
    <3>. QED BY <2>3, <3>1 DEF StartCycle, accountVars, bounds
  <2>4. CASE ReadAccount
    BY <2>4, Sized DEF ReadAccount, accountVars, bounds
  <2>5. CASE MaybeClosePosition \/ ExecuteSignals \/ ApiExecuteSignal
    BY <2>5 DEF MaybeClosePosition, ExecuteSignals, ApiExecuteSignal, accountVars, bounds
  <2>6. CASE UNCHANGED vars
    BY <2>6 DEF vars, accountVars, bounds
  <2>. QED BY <2>1, <2>2, <2>3, <2>4, <2>5, <2>6 DEF Next, Worker
<1>. QED BY <1>1, <1>2 DEF TypeOK, Refers

LEMMA TypeInit == ASSUME Init PROVE TypeOK
<1>1. qty * price = 0 /\ Account \in [equity : Int, qty : Int, value : Int]
  BY Consts DEF Init, Account, Worth
<1>. QED BY <1>1, Consts DEF Init, TypeOK

\* Quantities and amounts are whole, and a close refers to an earlier buy.
THEOREM TypeCorrect == Spec => []TypeOK
BY TypeInit, TypePreserved, PTL DEF Spec
-----------------------------------------------------------------------------
(* Short positions.                                                        *)

\* A new order is the only one that may be live and was not, or sells for a signal.
LEMMA SentSells ==
  ASSUME TypeOK, NEW s, NEW q, NEW o, NEW t, Sent(s, q, o, t)
  PROVE  /\ SellSignals \subseteq SellSignals'
         /\ s = "sell" /\ t = "signal" => SellSignals' # {}
         /\ s = "buy" => LiveSells' = LiveSells
         /\ LiveSells' \subseteq LiveSells \cup {Len(orders) + 1}
         /\ \A k \in LiveSells : orders'[k] = orders[k]
         /\ orders'[Len(orders) + 1].qty = q
<1> DEFINE n == Len(orders) + 1
<1>1. /\ orders \in Seq(Order) /\ Len(orders) \in Nat /\ DOMAIN orders = 1 .. Len(orders)
      /\ orders' \in Seq(Order) /\ Len(orders') = n
      /\ \A k \in DOMAIN orders : orders'[k] = orders[k]
      /\ orders'[n].side = s /\ orders'[n].trigger = t /\ orders'[n].qty = q
  BY SentIs DEF TypeOK
<1>2. DOMAIN orders' = DOMAIN orders \cup {n} /\ n \notin DOMAIN orders
  <2>1. DOMAIN orders' = 1 .. n
    BY <1>1
  <2>. QED BY <1>1, <2>1
<1>. HIDE DEF n
<1>. QED BY <1>1, <1>2 DEF SellSignals, LiveSells, Live, n

\* A status changes neither what is sold nor for what, and no order gets live again.
LEMMA RestatedSells ==
  ASSUME TypeOK, Restated, \A k \in DOMAIN orders : orders'[k].status = "live" => k \in Live
  PROVE  /\ SellSignals' = SellSignals
         /\ LiveSells' \subseteq LiveSells
         /\ \A k \in DOMAIN orders : orders'[k].qty = orders[k].qty
<1>1. DOMAIN orders' = DOMAIN orders
  BY DEF TypeOK, Restated
<1>2. ASSUME NEW k \in DOMAIN orders
      PROVE  /\ orders'[k].trigger = orders[k].trigger /\ orders'[k].side = orders[k].side
             /\ orders'[k].qty = orders[k].qty
  <2>1. orders[k] \in Order
    BY DEF TypeOK
  <2>. QED BY <2>1 DEF Restated, Order
<1>. QED BY <1>1, <1>2 DEF SellSignals, LiveSells, Live

LEMMA CoveredPreserved ==
  ASSUME Settling, TypeOK, CoveredUnlessSold, [Next]_vars PROVE CoveredUnlessSold'
<1>1. SUFFICES ASSUME SellSignals' = {} PROVE Covered'
  BY DEF CoveredUnlessSold
<1>2. SellSignals \subseteq SellSignals' => Covered
  BY <1>1 DEF CoveredUnlessSold
<1>3. CASE Fill
  <2>1. PICK k \in Live :
          /\ qty' = qty + IF orders[k].side = "buy" THEN orders[k].qty ELSE -orders[k].qty
          /\ orders' = [orders EXCEPT ![k].status = "executed"]
          /\ UNCHANGED <<pc, view>>
    BY <1>3 DEF Fill
  <2>2. /\ Restated /\ DOMAIN orders' = DOMAIN orders /\ orders'[k].status = "executed"
        /\ \A j \in DOMAIN orders : j # k => orders'[j] = orders[j]
    BY <2>1, OneEnds DEF Statuses
  <2>3. /\ SellSignals' = SellSignals /\ LiveSells' \subseteq LiveSells \ {k}
        /\ \A j \in DOMAIN orders : orders'[j].qty = orders[j].qty
    BY <2>2, RestatedSells DEF Live, LiveSells
  <2>4. Covered
    BY <1>2, <2>3
  <2>5. orders[k] \in Order /\ qty \in Int /\ view.qty \in Int
    BY DEF TypeOK, Live
  <2>6. orders[k].qty \in Nat /\ orders[k].side \in {"buy", "sell"}
    BY <2>5 DEF Order
  <2>7. \A j \in LiveSells : orders[j].qty \in Nat /\ j \in DOMAIN orders
    <3>1. \A j \in LiveSells : j \in DOMAIN orders /\ orders[j] \in Order
      BY DEF TypeOK, LiveSells, Live
    <3>. QED BY <3>1 DEF Order
  <2>8. CASE orders[k].side = "buy"
    <3>1. qty' = qty + orders[k].qty
      BY <2>1, <2>8
    <3>. QED BY <2>1, <2>3, <2>4, <2>5, <2>6, <2>7, <3>1 DEF Covered
  <2>9. CASE orders[k].side = "sell"
    <3>1. qty' = qty - orders[k].qty /\ k \in LiveSells
      BY <2>1, <2>5, <2>6, <2>9 DEF LiveSells
    <3>2. LiveSells' = {} /\ pc' \notin {"account", "close"}
      BY <2>1, <2>3, <2>4, <3>1 DEF Covered
    <3>. QED BY <2>4, <2>5, <2>6, <3>1, <3>2 DEF Covered
  <2>. QED BY <2>6, <2>8, <2>9
<1>4. CASE Cancel
  <2>1. PICK k \in Live : orders' = [orders EXCEPT ![k].status = "over"]
    BY <1>4 DEF Cancel
  <2>2. /\ Restated /\ orders'[k].status = "over"
        /\ \A j \in DOMAIN orders : j # k => orders'[j] = orders[j]
    BY <2>1, OneEnds DEF Statuses
  <2>3. /\ SellSignals' = SellSignals /\ LiveSells' \subseteq LiveSells
        /\ \A j \in DOMAIN orders : orders'[j].qty = orders[j].qty
    BY <2>2, RestatedSells DEF Live
  <2>. QED BY <1>2, <1>4, <2>3 DEF Cancel, accountVars, Covered, LiveSells, Live
<1>5. CASE StartCycle
  <2>1. /\ SellSignals' = SellSignals /\ LiveSells' \subseteq LiveSells
    BY <1>5, Booked, RestatedSells
  <2>2. LiveSells = {}
    BY <1>5 DEF StartCycle, Quiet, LiveSells
  <2>. QED BY <1>2, <1>5, <2>1, <2>2 DEF StartCycle, accountVars, Covered
<1>6. CASE ReadAccount
  <2>1. UNCHANGED <<orders, qty>> /\ view' = Account /\ pc = "account" /\ pc' = "close"
    BY <1>6 DEF ReadAccount, accountVars
  <2>2. Account.qty = qty
    BY DEF Account
  <2>. QED BY <1>2, <2>1, <2>2 DEF Covered, SellSignals, LiveSells, Live, TypeOK
<1>7. CASE MaybeClosePosition
  <2>1. UNCHANGED <<qty, view>> /\ pc = "close" /\ pc' = "signal"
    BY <1>7 DEF MaybeClosePosition, accountVars
  <2>2. CASE UNCHANGED orders
    BY <1>2, <2>1, <2>2 DEF Covered, SellSignals, LiveSells, Live
  <2>3. ASSUME NEW o, NEW t, Sent("sell", view.qty, o, t)
        PROVE  Covered'
    <3>1. /\ SellSignals \subseteq SellSignals'
          /\ LiveSells' \subseteq LiveSells \cup {Len(orders) + 1}
          /\ orders'[Len(orders) + 1].qty = view.qty
      BY <2>3, SentSells
    <3>2. LiveSells = {} /\ view.qty <= qty /\ qty >= 0
      BY <1>2, <2>1, <3>1 DEF Covered
    <3>. QED BY <2>1, <3>1, <3>2 DEF Covered
  <2>. QED BY <1>7, <2>2, <2>3, CloseSent
<1>8. CASE ExecuteSignals \/ ApiExecuteSignal
  <2>1. UNCHANGED <<qty, view>> /\ (UNCHANGED pc \/ pc' = "idle")
    BY <1>8 DEF ExecuteSignals, ApiExecuteSignal, accountVars
  <2>2. CASE UNCHANGED orders
    BY <1>2, <2>1, <2>2 DEF Covered, SellSignals, LiveSells, Live
  <2>3. ASSUME NEW s \in {"buy", "sell"}, NEW q, Sent(s, q, 0, "signal") PROVE Covered'
    <3>1. /\ SellSignals \subseteq SellSignals' /\ s = "buy" /\ LiveSells' = LiveSells
          /\ \A k \in LiveSells : orders'[k] = orders[k]
      BY <1>1, <2>3, SentSells
    <3>. QED BY <1>2, <2>1, <3>1 DEF Covered
  <2>4. \/ UNCHANGED orders
        \/ \E s \in {"buy", "sell"} : \E q : Sent(s, q, 0, "signal")
    <3>1. CASE ExecuteSignals
      <4>1. view.equity \in Int /\ WorkerSignals \subseteq {"buy", "sell"}
        BY Consts DEF TypeOK
      <4>. QED BY <3>1, <4>1, SignalSent DEF ExecuteSignals
    <3>2. CASE ApiExecuteSignal
      <4>1. Account.equity \in Int /\ ApiSignals \subseteq {"buy", "sell"}
        BY Consts, Sized
      <4>. QED BY <3>2, <4>1, SignalSent DEF ApiExecuteSignal
    <3>. QED BY <1>8, <3>1, <3>2
  <2>. QED BY <2>2, <2>3, <2>4
<1>9. CASE UNCHANGED <<orders, qty, pc, view>>
  BY <1>2, <1>9 DEF Covered, SellSignals, LiveSells, Live
<1>. QED
  BY <1>3, <1>4, <1>5, <1>6, <1>7, <1>8, <1>9
     DEF Next, vars, accountVars, Worker, MovePrice, SetWorkerConfig

\* A close sells the position as the cycle read it (executor.py, build_close_intent), yet
\* never more than is held, if orders are over before the next cycle or request.
THEOREM NotShort == ASSUME Settling PROVE Spec => []NeverShort
<1>1. Init => CoveredUnlessSold
  BY DEF Init, CoveredUnlessSold, Covered, LiveSells, Live
<1>2. TypeOK /\ CoveredUnlessSold /\ [Next]_vars => CoveredUnlessSold'
  BY CoveredPreserved
<1>3. CoveredUnlessSold => NeverShort
  BY DEF CoveredUnlessSold, Covered, SellSignals, NeverShort
<1>. QED BY <1>1, <1>2, <1>3, TypeCorrect, PTL DEF Spec
-----------------------------------------------------------------------------
(* The cash.                                                               *)

\* Prices lie between two bounds, and the limits of position and exposure leave room for
\* what may happen to the price between them.
Room(low, high) ==
  /\ \A p \in Prices : low <= p /\ p <= high
  /\ high * MaxPositionPct * (200 * low + MaxExposurePct * (high - low))
       <= 100 * low * low * (100 - MaxExposurePct)
LeavesRoom == \E low, high \in Nat \ {0} : Room(low, high)

\* The shares that live buys may still bring.
Bought == [k \in DOMAIN orders |->
             IF k \in Live /\ orders[k].side = "buy" THEN orders[k].qty ELSE 0]
Pending == SumOver(Bought, DOMAIN orders)

LEMMA BoughtTyped ==
  ASSUME TypeOK
  PROVE  /\ orders \in Seq(Order) /\ Len(orders) \in Nat /\ DOMAIN orders = 1 .. Len(orders)
         /\ IsFiniteSet(DOMAIN orders)
         /\ \A k \in DOMAIN orders : /\ orders[k] \in Order /\ orders[k].qty \in Nat
                                     /\ orders[k].side \in {"buy", "sell"} /\ Bought[k] \in Nat
         /\ Pending \in Nat
         /\ Live = {} => Pending = 0
<1>1. orders \in Seq(Order) /\ Len(orders) \in Nat /\ DOMAIN orders = 1 .. Len(orders)
  BY DEF TypeOK
<1>2. IsFiniteSet(DOMAIN orders)
  BY <1>1, FS_Interval
<1>3. ASSUME NEW k \in DOMAIN orders
      PROVE  /\ orders[k] \in Order /\ orders[k].qty \in Nat
             /\ orders[k].side \in {"buy", "sell"} /\ Bought[k] \in Nat
             /\ Live = {} => Bought[k] = 0
  <2>1. orders[k] \in Order
    BY <1>1
  <2>2. orders[k].qty \in Nat /\ orders[k].side \in {"buy", "sell"}
    BY <2>1 DEF Order
  <2>. QED BY <2>1, <2>2 DEF Bought
<1>4. Pending \in Nat
  BY <1>2, <1>3, SumNotNegative DEF Pending
<1>5. Live = {} => Pending = 0
  BY <1>2, <1>3, SumOfZeros DEF Pending
<1>. QED BY <1>1, <1>2, <1>3, <1>4, <1>5

\* A live order that ends takes its shares away.
LEMMA PendingEnds ==
  ASSUME TypeOK, TypeOK', NEW k \in Live, NEW s \in Statuses \ {"live"},
         orders' = [orders EXCEPT ![k].status = s]
  PROVE  /\ Live' = Live \ {k}
         /\ \A j \in Live' : orders'[j] = orders[j]
         /\ Pending' = Pending - IF orders[k].side = "buy" THEN orders[k].qty ELSE 0
<1>1. /\ DOMAIN orders' = DOMAIN orders /\ orders'[k].status = s
      /\ \A j \in DOMAIN orders : j # k => orders'[j] = orders[j]
  BY OneEnds
<1>2. Live' = Live \ {k}
  BY <1>1 DEF Live
<1>3. k \in DOMAIN orders /\ k \notin Live'
  BY <1>2 DEF Live
<1>4. Bought'[k] = 0
  BY <1>1, <1>3 DEF Bought
<1>5. \A j \in DOMAIN orders : j # k => Bought'[j] = Bought[j]
  BY <1>1, <1>2 DEF Bought
<1>6. Bought[k] = IF orders[k].side = "buy" THEN orders[k].qty ELSE 0
  BY <1>3 DEF Bought
<1>7. IsFiniteSet(DOMAIN orders) /\ \A j \in DOMAIN orders : Bought[j] \in Int
  BY BoughtTyped
<1> DEFINE v == Bought'
<1>8. v[k] = 0 /\ \A j \in DOMAIN orders : j # k => v[j] = Bought[j]
  BY <1>4, <1>5
<1>9. Pending' = SumOver(v, DOMAIN orders)
  BY <1>1 DEF Pending
<1>. HIDE DEF v
<1>10. SumOver(v, DOMAIN orders) = Pending + (v[k] - Bought[k])
  BY <1>3, <1>7, <1>8, SumChange DEF Pending
<1>11. Pending \in Int /\ Bought[k] \in Int
  BY <1>3, BoughtTyped
<1>12. Pending' = Pending - Bought[k]
  BY <1>8, <1>9, <1>10, <1>11
<1>13. \A j \in Live' : orders'[j] = orders[j]
  BY <1>1, <1>2 DEF Live
<1>. QED BY <1>2, <1>6, <1>12, <1>13

\* An order that is sent adds its shares.
LEMMA PendingSent ==
  ASSUME TypeOK, TypeOK', NEW s, NEW q, NEW o, NEW t, Sent(s, q, o, t)
  PROVE  /\ Live' = Live \cup {Len(orders) + 1} /\ Len(orders) + 1 \notin Live
         /\ \A j \in Live : orders'[j] = orders[j]
         /\ orders'[Len(orders) + 1].side = s
         /\ Pending' = Pending + IF s = "buy" THEN q ELSE 0
<1> DEFINE n == Len(orders) + 1
<1>1. /\ \A k \in DOMAIN orders : orders'[k] = orders[k]
      /\ orders'[n].side = s /\ orders'[n].qty = q /\ orders'[n].status = "live"
      /\ Len(orders') = n
  BY SentIs
<1>2. DOMAIN orders' = DOMAIN orders \cup {n} /\ n \notin DOMAIN orders
  <2>1. DOMAIN orders' = 1 .. n /\ DOMAIN orders = 1 .. Len(orders) /\ Len(orders) \in Nat
    BY <1>1, BoughtTyped DEF TypeOK
  <2>. QED BY <2>1
<1>. HIDE DEF n
<1>3. Live' = Live \cup {n} /\ n \notin Live
  BY <1>1, <1>2 DEF Live
<1>4. \A k \in DOMAIN orders : Bought'[k] = Bought[k]
  BY <1>1, <1>2, <1>3 DEF Bought
<1>5. Bought'[n] = IF s = "buy" THEN q ELSE 0
  BY <1>1, <1>2, <1>3 DEF Bought
<1> DEFINE v == Bought'
<1>6. /\ v[n] = IF s = "buy" THEN q ELSE 0
      /\ \A k \in DOMAIN orders : v[k] = Bought[k] /\ Bought[k] \in Int
      /\ q \in Int /\ IsFiniteSet(DOMAIN orders)
  BY <1>4, <1>5, BoughtTyped DEF Sent
<1>7. Pending' = SumOver(v, DOMAIN orders \cup {n})
  BY <1>2 DEF Pending
<1>. HIDE DEF v
<1>8. SumOver(v, DOMAIN orders \cup {n}) = SumOver(v, DOMAIN orders) + v[n]
  <2>1. \A k \in DOMAIN orders \cup {n} : v[k] \in Int
    BY <1>6
  <2>. QED BY <1>2, <1>6, <2>1, SumAdd
<1>9. SumOver(v, DOMAIN orders) = Pending
  BY <1>6, SumSame DEF Pending
<1>10. Pending' = Pending + IF s = "buy" THEN q ELSE 0
  BY <1>6, <1>7, <1>8, <1>9
<1>11. \A j \in Live : orders'[j] = orders[j]
  BY <1>1 DEF Live
<1>. QED BY <1>1, <1>3, <1>10, <1>11 DEF n

\* Products of numbers keep their order, and can be divided by what is not zero.
LEMMA Multiplied ==
  ASSUME NEW a \in Int, NEW b \in Int, a <= b, NEW c \in Nat PROVE a * c <= b * c
OBVIOUS

LEMMA Divided ==
  ASSUME NEW a \in Int, NEW b \in Int, NEW c \in Nat \ {0}, a * c <= b * c PROVE a <= b
OBVIOUS

LEMMA Bounded ==
  ASSUME NEW low \in Nat \ {0}, NEW high \in Nat \ {0}, Room(low, high), TypeOK
  PROVE  /\ low <= price /\ price <= high /\ price \in Nat \ {0} /\ low <= high
         /\ MaxPositionPct \in Nat \ {0} /\ MaxExposurePct \in Nat /\ MaxExposurePct < 100
         /\ high * MaxPositionPct * (200 * low + MaxExposurePct * (high - low))
              <= 100 * low * low * (100 - MaxExposurePct)
         /\ 2 * (high * MaxPositionPct) <= 100 * low
<1> DEFINE a == high * MaxPositionPct
           d == MaxExposurePct * (high - low)
           x == 100 - MaxExposurePct
<1>1. price \in Nat \ {0} /\ low <= price /\ price <= high /\ low <= high
  BY Consts DEF TypeOK, Room
<1>2. /\ MaxPositionPct \in 1 .. 100 /\ MaxExposurePct \in 1 .. 100
  BY ExposureConstants DEF ExposureConstants
<1>3. a \in Nat \ {0} /\ d \in Nat /\ x \in Nat /\ x < 100
  BY <1>1, <1>2
<1>4. a * (200 * low + d) <= 100 * low * low * x
  BY DEF Room
<1>. HIDE DEF a, d, x
<1> DEFINE l == 100 * low * low
<1>5. l \in Nat /\ l * x <= l * 100
  <2>1. l \in Nat
    OBVIOUS
  <2>. HIDE DEF l
  <2>2. x * l <= 100 * l
    BY <1>3, <2>1
  <2>. QED BY <1>3, <2>1, <2>2
<1>6. a * (200 * low) <= a * (200 * low + d)
  <2>1. 200 * low \in Int /\ 200 * low + d \in Int /\ 200 * low <= 200 * low + d
    BY <1>3
  <2>. QED BY <1>3, <2>1
<1>7. (2 * a) * (100 * low) <= (100 * low) * (100 * low)
  <2>1. a * (200 * low) = (2 * a) * (100 * low) /\ l * 100 = (100 * low) * (100 * low)
    BY <1>3
  <2>. QED BY <1>3, <1>4, <1>5, <1>6, <2>1
<1>8. 2 * a <= 100 * low
  <2>1. 2 * a \in Int /\ 100 * low \in Nat \ {0}
    BY <1>3
  <2>. QED BY <1>7, <2>1, Divided
<1>9. MaxExposurePct < 100
  <2>1. CASE x = 0
    <3>1. l * x = 0
      BY <1>5, <2>1
    <3>2. a * (200 * low + d) > 0
      <4>1. 200 * low + d \in Nat \ {0}
        BY <1>3
      <4>. QED BY <1>3, <4>1
    <3>3. ~(a * (200 * low + d) <= 0)
      <4>1. \A z \in Int : z > 0 => ~(z <= 0)
        OBVIOUS
      <4>2. a * (200 * low + d) \in Int
        BY <1>3
      <4>. QED BY <3>2, <4>1, <4>2
    <3>4. a * (200 * low + d) <= l * x
      BY <1>4
    <3>. HIDE DEF l
    <3>. QED BY <3>1, <3>3, <3>4
  <2>. QED BY <1>2, <1>3, <2>1 DEF x
<1>. QED BY <1>1, <1>2, <1>4, <1>8, <1>9 DEF a, d, x

\* Two orders, each within the position limit of an account that is all cash.
LEMMA TwoFromCash ==
  ASSUME NEW low \in Nat \ {0}, NEW high \in Nat \ {0}, NEW m \in Nat, NEW c \in Nat,
         2 * (high * m) <= 100 * low,
         NEW a \in Nat, NEW b \in Nat, a * low * 100 <= c * m, b * low * 100 <= c * m
  PROVE  (a + b) * high <= c
<1>1. (a + b) * low * 100 <= 2 * (c * m)
  OBVIOUS
<1>2. ((a + b) * low * 100) * high <= (2 * (c * m)) * high
  <2> DEFINE u == (a + b) * low * 100
             w == 2 * (c * m)
  <2>1. u \in Int /\ w \in Int /\ u <= w
    BY <1>1
  <2>. HIDE DEF u, w
  <2>2. u * high <= w * high
    BY <2>1, Multiplied
  <2>. QED BY <2>2 DEF u, w
<1>3. (2 * (high * m)) * c <= (100 * low) * c
  <2>1. 2 * (high * m) \in Int /\ 100 * low \in Int
    OBVIOUS
  <2>. QED BY <2>1, Multiplied
<1>4. ((a + b) * high) * (100 * low) <= c * (100 * low)
  BY <1>2, <1>3
<1>5. (a + b) * high \in Int /\ 100 * low \in Nat \ {0}
  OBVIOUS
<1>. QED BY <1>4, <1>5, Divided

\* An order within the limits, beside one within those of an account that was all cash
\* and has lost no more than the price may fall.
LEMMA SecondFromRest ==
  ASSUME NEW low \in Nat \ {0}, NEW high \in Nat \ {0}, low <= high,
         NEW m \in Nat \ {0}, NEW x \in Nat, x < 100,
         high * m * (200 * low + x * (high - low)) <= 100 * low * low * (100 - x),
         NEW c \in Nat, NEW q \in Nat, NEW p \in Nat, low <= p,
         (q * p) * 100 < (c + q * p) * x,
         NEW s \in Nat, s * low * 100 <= (c + q * p) * m,
         NEW e \in Int, e <= c + q * high,
         NEW n \in Nat, n * low * 100 <= e * m
  PROVE  (s + n) * high <= c
<1> DEFINE v == q * p
           y == 100 - x
           a == high * m
           k == low + high
<1>1. v \in Nat /\ y \in Nat \ {0} /\ a \in Nat \ {0} /\ k \in Nat
  OBVIOUS
<1>2. v * y <= c * x
  <2>1. v * 100 < c * x + v * x
    OBVIOUS
  <2>2. v * y = v * 100 - v * x
    BY <1>1
  <2>. QED BY <1>1, <2>1, <2>2
<1>3. q * low <= v
  BY Multiplied
<1>4. e * low <= c * low + v * high
  <2>1. e * low <= (c + q * high) * low
    BY Multiplied
  <2>2. (c + q * high) * low = c * low + (q * low) * high
    OBVIOUS
  <2>3. (q * low) * high <= v * high
    <3>1. q * low \in Int
      OBVIOUS
    <3>. HIDE DEF v
    <3>. QED BY <1>1, <1>3, <3>1, Multiplied
  <2>. QED BY <1>1, <2>1, <2>2, <2>3
<1>5. (s + n) * low * 100 <= (c + v + e) * m
  OBVIOUS
<1>6. (s + n) * low * 100 * low <= (c + v + e) * m * low
  <2>1. (s + n) * low * 100 \in Int /\ (c + v + e) * m \in Int
    OBVIOUS
  <2>. QED BY <1>5, <2>1, Multiplied
<1>. HIDE DEF v, y, a, k
<1>7. (c + v + e) * low <= 2 * (c * low) + v * k
  <2>1. (c + v + e) * low = c * low + v * low + e * low
    BY <1>1
  <2>2. v * k = v * low + v * high
    BY <1>1 DEF k
  <2>. QED BY <1>1, <1>4, <2>1, <2>2
<1> DEFINE g == 2 * (c * low) + v * k
<1>8. (s + n) * low * 100 * low <= g * m
  <2>1. ((c + v + e) * low) * m <= g * m
    <3>1. (c + v + e) * low \in Int /\ g \in Int
      BY <1>1
    <3>. QED BY <1>7, <3>1, Multiplied
  <2>2. ((c + v + e) * low) * m = (c + v + e) * m * low
    BY <1>1
  <2>. QED BY <1>1, <1>6, <2>1, <2>2
<1>9. g * y <= c * (2 * low * y + x * k)
  <2>1. g * y = 2 * (c * low) * y + (v * y) * k
    BY <1>1
  <2>2. (v * y) * k <= (c * x) * k
    <3>1. v * y \in Int /\ c * x \in Int
      BY <1>1
    <3>. QED BY <1>1, <1>2, <3>1, Multiplied
  <2>3. c * (2 * low * y + x * k) = 2 * (c * low) * y + (c * x) * k
    BY <1>1
  <2>. QED BY <1>1, <2>1, <2>2, <2>3
<1>10. 2 * low * y + x * k = 200 * low + x * (high - low)
  <2>1. 2 * low * y = 200 * low - 2 * (low * x)
    BY <1>1 DEF y
  <2>2. x * k = x * low + x * high
    BY <1>1 DEF k
  <2>3. x * (high - low) = x * high - x * low
    OBVIOUS
  <2>. QED BY <2>1, <2>2, <2>3
<1> DEFINE h == 200 * low + x * (high - low)
           l == 100 * low * low
<1>11. a * h <= l * y /\ h \in Nat /\ l \in Nat \ {0} /\ g \in Nat
  <2>1. x * (high - low) \in Nat
    OBVIOUS
  <2>. QED BY <1>1, <2>1 DEF a, y
<1>12. g * y <= c * h
  BY <1>9, <1>10
<1>13. ((s + n) * l) <= g * m
  <2>1. (s + n) * l = (s + n) * low * 100 * low
    OBVIOUS
  <2>. QED BY <1>8, <2>1
<1>. HIDE DEF g, h, l
<1>14. ((s + n) * l) * (high * y) <= (g * m) * (high * y)
  <2>1. (s + n) * l \in Int /\ g * m \in Int /\ high * y \in Nat
    BY <1>1, <1>11
  <2>. QED BY <1>13, <2>1, Multiplied
<1>15. (g * m) * (high * y) = (g * y) * a
  BY <1>1, <1>11 DEF a
<1>16. (g * y) * a <= (c * h) * a
  <2>1. g * y \in Int /\ c * h \in Int
    BY <1>1, <1>11
  <2>. QED BY <1>1, <1>12, <2>1, Multiplied
<1>17. (a * h) * c <= (l * y) * c
  <2>1. a * h \in Int /\ l * y \in Int
    BY <1>1, <1>11
  <2>. QED BY <1>11, <2>1, Multiplied
<1>18. ((s + n) * high) * (l * y) <= c * (l * y)
  <2>1. ((s + n) * high) * (l * y) = ((s + n) * l) * (high * y)
    BY <1>1, <1>11
  <2>2. (c * h) * a = (a * h) * c /\ (l * y) * c = c * (l * y)
    BY <1>1, <1>11
  <2>3. /\ ((s + n) * high) * (l * y) \in Int /\ (g * m) * (high * y) \in Int
        /\ (c * h) * a \in Int /\ c * (l * y) \in Int
    BY <1>1, <1>11
  <2>. QED BY <1>14, <1>15, <1>16, <1>17, <2>1, <2>2, <2>3
<1>19. (s + n) * high \in Int /\ l * y \in Nat \ {0}
  BY <1>1, <1>11
<1> DEFINE z == (s + n) * high
           r == l * y
<1>20. z * r <= c * r /\ z \in Int /\ r \in Nat \ {0}
  BY <1>18, <1>19
<1>. HIDE DEF z, r
<1>21. z <= c
  BY <1>20, Divided
<1>. QED BY <1>21 DEF z

\* A cycle that has read an empty position may still send a buy of what it has read.
Awaited == pc \in {"close", "signal"} /\ view.qty = 0

\* Live buys can be paid at the highest price.
Covers(high) == Pending * high <= cash

\* Beside a cycle that is about to read the account, one buy is live at most.
Lone(low) ==
  pc = "account" => /\ \A k, l \in Live : k = l
                    /\ \A k \in Live : orders[k].side = "buy"
                    /\ qty = 0 => Pending * low * 100 <= cash * MaxPositionPct

\* The buy that is awaited can be paid as well, and the account has lost no more of what was
\* read than what it has bought since may fall.
Reserved(low, high) ==
  Awaited => /\ qty >= 0 /\ view.equity <= cash + qty * high
             /\ \A k \in Live : orders[k].side = "buy"
             /\ \A n \in Nat : n * low * 100 <= view.equity * MaxPositionPct =>
                                 (Pending + n) * high <= cash

Funded(low, high) == Covers(high) /\ Lone(low) /\ Reserved(low, high)

LEMMA PendingSame ==
  ASSUME UNCHANGED orders PROVE Pending' = Pending /\ Live' = Live
<1>1. Live' = Live
  BY DEF Live
<1>2. Bought' = Bought
  BY <1>1 DEF Bought
<1>. QED BY <1>1, <1>2 DEF Pending

PendingCounted == Pending \in Nat /\ (Live = {} => Pending = 0)
LEMMA PendingTyped == TypeOK => PendingCounted
BY BoughtTyped DEF PendingCounted

LEMMA NothingCovered ==
  ASSUME NEW a \in Nat, NEW b \in Nat, NEW c \in Nat PROVE 0 * a * 100 <= b * c
<1>1. b * c \in Nat
  OBVIOUS
<1>. QED BY <1>1

LEMMA FundedSame ==
  ASSUME NEW low \in Nat \ {0}, NEW high \in Nat \ {0}, Funded(low, high),
         UNCHANGED <<orders, cash, qty, pc, view>>
  PROVE  Funded(low, high)'
BY PendingSame DEF Funded, Covers, Lone, Reserved, Awaited

\* What is left of the cash when s of P shares, and n that are awaited, are bought at p.
LEMMA PaidFromCash ==
  ASSUME NEW high \in Nat \ {0}, NEW p \in Nat, p <= high, NEW c \in Int,
         NEW P \in Nat, NEW s \in Nat, NEW n \in Nat, (P + n) * high <= c
  PROVE  (P - s + n) * high <= c - s * p
<1>1. s * p <= s * high
  <2>1. p * s <= high * s
    BY Multiplied
  <2>. QED BY <2>1
<1>2. (P - s + n) * high = (P + n) * high - s * high
  OBVIOUS
<1>. QED BY <1>1, <1>2

LEMMA FillFunded ==
  ASSUME NEW low \in Nat \ {0}, NEW high \in Nat \ {0}, Room(low, high),
         TypeOK, TypeOK', Funded(low, high), Fill
  PROVE  Funded(low, high)'
<1>1. PICK k \in Live :
        LET bought == IF orders[k].side = "buy" THEN orders[k].qty ELSE -orders[k].qty
        IN  /\ qty' = qty + bought
            /\ cash' = cash - bought * price
            /\ orders' = [orders EXCEPT ![k].status = "executed"]
            /\ UNCHANGED <<pc, view>>
  BY DEF Fill
<1> DEFINE s == orders[k].qty
<1>2. /\ k \in DOMAIN orders /\ s \in Nat /\ orders[k].side \in {"buy", "sell"}
      /\ price \in Nat /\ price <= high /\ cash \in Int /\ qty \in Int /\ view.equity \in Int
      /\ Pending \in Nat /\ MaxPositionPct \in Nat
  BY BoughtTyped, Bounded DEF Live, TypeOK
<1>3. /\ Live' = Live \ {k} /\ \A j \in Live' : orders'[j] = orders[j]
      /\ Pending' = Pending - IF orders[k].side = "buy" THEN s ELSE 0
  BY <1>1, PendingEnds DEF Statuses
<1>4. /\ Pending' \in Nat /\ (Live' = {} => Pending' = 0) /\ cash' \in Int /\ qty' \in Int
  <2>1. PendingCounted'
    BY PendingTyped, PTL
  <2>. QED BY <2>1 DEF TypeOK, PendingCounted
<1>5. CASE orders[k].side = "buy"
  <2>1. qty' = qty + s /\ cash' = cash - s * price /\ Pending' = Pending - s
    BY <1>1, <1>3, <1>5
  <2>2. ASSUME NEW n \in Nat, (Pending + n) * high <= cash PROVE (Pending' + n) * high <= cash'
    BY <1>2, <2>1, <2>2, PaidFromCash
  <2>3. Covers(high)'
    <3>1. Pending * high <= cash
      BY DEF Funded, Covers
    <3>2. (Pending + 0) * high <= cash
      BY <1>2, <3>1
    <3>3. (Pending' + 0) * high <= cash'
      BY <2>2, <3>2
    <3> DEFINE P == Pending'
    <3>4. P \in Nat /\ (P + 0) * high <= cash'
      BY <1>4, <3>3
    <3>. HIDE DEF P
    <3>5. P * high <= cash'
      BY <3>4
    <3>. QED BY <3>5 DEF Covers, P
  <2>4. ASSUME pc' = "account" PROVE Live' = {} /\ 0 * low * 100 <= cash' * MaxPositionPct
    <3>1. Live' = {}
      BY <1>1, <1>3, <2>4 DEF Funded, Lone
    <3>2. cash' \in Nat
      BY <1>4, <2>3, <3>1 DEF Covers
    <3>. QED BY <1>2, <3>1, <3>2, NothingCovered
  <2>5. Lone(low)'
    BY <1>4, <2>4 DEF Lone
  <2>6. ASSUME Awaited' PROVE qty' >= 0 /\ view'.equity <= cash' + qty' * high
    <3>1. qty >= 0 /\ view.equity <= cash + qty * high /\ view' = view
      BY <1>1, <2>6 DEF Funded, Reserved, Awaited
    <3>2. s * price <= s * high
      <4>1. price * s <= high * s
        BY <1>2, Multiplied
      <4>. QED BY <1>2, <4>1
    <3>3. (qty + s) * high = qty * high + s * high
      BY <1>2
    <3>. QED BY <1>2, <2>1, <3>1, <3>2, <3>3
  <2>7. Reserved(low, high)'
    BY <1>1, <1>3, <2>2, <2>6 DEF Funded, Reserved, Awaited
  <2>. QED BY <2>3, <2>5, <2>7 DEF Funded
<1>6. CASE orders[k].side = "sell"
  <2>1. cash' = cash - (-s) * price /\ Pending' = Pending
    BY <1>1, <1>2, <1>3, <1>6
  <2>2. cash' >= cash
    <3>1. (-s) * price <= 0
      BY <1>2
    <3>. QED BY <1>2, <1>4, <2>1, <3>1
  <2>3. Covers(high)'
    BY <1>2, <1>4, <2>1, <2>2 DEF Funded, Covers
  <2>4. pc' # "account" /\ ~Awaited'
    BY <1>1, <1>6 DEF Funded, Lone, Reserved, Awaited
  <2>. QED BY <2>3, <2>4 DEF Funded, Lone, Reserved
<1>. QED BY <1>2, <1>5, <1>6

LEMMA CancelFunded ==
  ASSUME NEW low \in Nat \ {0}, NEW high \in Nat \ {0}, Room(low, high),
         TypeOK, TypeOK', Funded(low, high), Cancel
  PROVE  Funded(low, high)'
<1>1. PICK k \in Live : orders' = [orders EXCEPT ![k].status = "over"]
  BY DEF Cancel
<1>2. UNCHANGED <<cash, qty, pc, view>>
  BY DEF Cancel, accountVars
<1>3. /\ k \in DOMAIN orders /\ orders[k].qty \in Nat
      /\ cash \in Int /\ Pending \in Nat /\ MaxPositionPct \in Nat
  BY BoughtTyped, Bounded DEF Live, TypeOK
<1>4. /\ Live' = Live \ {k} /\ \A j \in Live' : orders'[j] = orders[j]
      /\ Pending' <= Pending
  <2>1. /\ Live' = Live \ {k} /\ \A j \in Live' : orders'[j] = orders[j]
        /\ Pending' = Pending - IF orders[k].side = "buy" THEN orders[k].qty ELSE 0
    BY <1>1, PendingEnds DEF Statuses
  <2>. QED BY <1>3, <2>1
<1>5. Pending' \in Nat /\ (Live' = {} => Pending' = 0)
  <2>1. PendingCounted'
    BY PendingTyped, PTL
  <2>. QED BY <2>1 DEF PendingCounted
<1>6. ASSUME NEW n \in Nat, (Pending + n) * high <= cash PROVE (Pending' + n) * high <= cash'
  <2> DEFINE P == Pending'
  <2>1. P \in Nat /\ P <= Pending
    BY <1>4, <1>5
  <2>. HIDE DEF P
  <2>2. P + n \in Int /\ Pending + n \in Int /\ P + n <= Pending + n
    BY <1>3, <2>1
  <2>3. (P + n) * high <= (Pending + n) * high
    BY <2>2, Multiplied
  <2>4. (P + n) * high \in Int /\ (Pending + n) * high \in Int
    BY <2>2
  <2>5. (P + n) * high <= cash
    BY <1>3, <1>6, <2>3, <2>4
  <2>. QED BY <1>2, <2>5 DEF P
<1>7. Covers(high)'
  <2>1. (Pending + 0) * high <= cash
    BY <1>3 DEF Funded, Covers
  <2>2. (Pending' + 0) * high <= cash'
    BY <1>6, <2>1
  <2> DEFINE P == Pending'
  <2>3. P \in Nat /\ (P + 0) * high <= cash'
    BY <1>5, <2>2
  <2>. HIDE DEF P
  <2>4. P * high <= cash'
    BY <2>3
  <2>. QED BY <2>4 DEF Covers, P
<1>8. Lone(low)'
  <2>1. ASSUME pc' = "account" PROVE Live' = {} /\ 0 * low * 100 <= cash' * MaxPositionPct
    <3>1. Live' = {}
      BY <1>2, <1>4, <2>1 DEF Funded, Lone
    <3>2. cash' \in Nat
      BY <1>2, <1>3, <1>5, <1>7, <3>1 DEF Covers
    <3>. QED BY <1>3, <3>1, <3>2, NothingCovered
  <2>. QED BY <1>5, <2>1 DEF Lone
<1>9. Reserved(low, high)'
  BY <1>2, <1>4, <1>6 DEF Funded, Reserved, Awaited
<1>. QED BY <1>7, <1>8, <1>9 DEF Funded

\* The cash is not negative, and is covered when nothing is pending.
LEMMA CashCovers ==
  ASSUME NEW high \in Nat \ {0}, TypeOK, Covers(high)
  PROVE  cash \in Nat
<1>1. Pending \in Nat /\ cash \in Int
  BY BoughtTyped DEF TypeOK
<1>2. Pending * high \in Nat
  BY <1>1
<1>. QED BY <1>1, <1>2 DEF Covers

LEMMA StartFunded ==
  ASSUME Settling, NEW low \in Nat \ {0}, NEW high \in Nat \ {0}, Room(low, high),
         TypeOK, TypeOK', Funded(low, high), StartCycle
  PROVE  Funded(low, high)'
<1>1. Live = {} /\ cash' = cash /\ pc' \in {"account", "idle"}
  BY DEF StartCycle, Quiet, accountVars
<1>2. Live' = {}
  <2>1. DOMAIN orders' = DOMAIN orders
    BY Booked DEF Restated, TypeOK
  <2>2. \A k \in DOMAIN orders : orders'[k].status = "live" <=> k \in Live
    BY Booked
  <2>. QED BY <1>1, <2>1, <2>2 DEF Live
<1>3. Pending' = 0
  <2>1. PendingCounted'
    BY PendingTyped, PTL
  <2>. QED BY <1>2, <2>1 DEF PendingCounted
<1>4. cash' \in Nat /\ MaxPositionPct \in Nat
  BY <1>1, CashCovers, Bounded DEF Funded
<1>5. Covers(high)'
  BY <1>3, <1>4 DEF Covers
<1>6. Lone(low)'
  <2>1. 0 * low * 100 <= cash' * MaxPositionPct
    BY <1>4, NothingCovered
  <2>. QED BY <1>2, <1>3, <2>1 DEF Lone
<1>7. ~Awaited'
  BY <1>1 DEF Awaited
<1>. QED BY <1>5, <1>6, <1>7 DEF Funded, Reserved

LEMMA ReadFunded ==
  ASSUME NEW low \in Nat \ {0}, NEW high \in Nat \ {0}, Room(low, high),
         TypeOK, Funded(low, high), ReadAccount
  PROVE  Funded(low, high)'
<1>1. /\ UNCHANGED <<orders, cash, qty>> /\ pc = "account" /\ pc' = "close"
      /\ view'.qty = qty /\ view'.equity = Worth
  BY DEF ReadAccount, accountVars, Account
<1>2. Pending' = Pending /\ Live' = Live
  BY <1>1, PendingSame
<1>3. Covers(high)'
  BY <1>1, <1>2 DEF Funded, Covers
<1>4. Lone(low)'
  BY <1>1 DEF Lone
<1>5. Reserved(low, high)'
  <2>. SUFFICES ASSUME qty = 0
                PROVE  /\ qty' >= 0 /\ view'.equity <= cash' + qty' * high
                       /\ \A k \in Live' : orders'[k].side = "buy"
                       /\ \A n \in Nat : n * low * 100 <= view'.equity * MaxPositionPct =>
                                           (Pending' + n) * high <= cash'
    BY <1>1 DEF Reserved, Awaited
  <2>1. /\ price \in Nat /\ cash \in Nat /\ Pending \in Nat /\ MaxPositionPct \in Nat
        /\ 2 * (high * MaxPositionPct) <= 100 * low
    BY Bounded, CashCovers, BoughtTyped DEF Funded
  <2>2. Worth = cash /\ cash + qty * high = cash
    BY <2>1 DEF Worth
  <2>3. Pending * low * 100 <= cash * MaxPositionPct /\ \A k \in Live : orders[k].side = "buy"
    BY <1>1 DEF Funded, Lone
  <2>4. ASSUME NEW n \in Nat, n * low * 100 <= cash * MaxPositionPct
        PROVE  (Pending + n) * high <= cash
    BY <2>1, <2>3, <2>4, TwoFromCash
  <2>. QED BY <1>1, <1>2, <2>1, <2>2, <2>3, <2>4
<1>. QED BY <1>3, <1>4, <1>5 DEF Funded

LEMMA CloseFunded ==
  ASSUME NEW low \in Nat \ {0}, NEW high \in Nat \ {0},
         TypeOK, TypeOK', Funded(low, high), MaybeClosePosition
  PROVE  Funded(low, high)'
<1>1. UNCHANGED <<cash, qty, view>> /\ pc = "close" /\ pc' = "signal"
  BY DEF MaybeClosePosition, accountVars
<1>2. CASE UNCHANGED orders
  BY <1>1, <1>2, PendingSame DEF Funded, Covers, Lone, Reserved, Awaited
<1>3. ASSUME NEW o, NEW t, Sent("sell", view.qty, o, t) PROVE Funded(low, high)'
  <2>1. Pending' = Pending
    <3>1. Pending' = Pending + 0 /\ Pending \in Nat
      BY <1>3, PendingSent, BoughtTyped
    <3>. QED BY <3>1
  <2>2. ~Awaited'
    BY <1>1, <1>3 DEF Sent, Awaited
  <2>. QED BY <1>1, <2>1, <2>2 DEF Funded, Covers, Lone, Reserved
<1>. QED BY <1>2, <1>3, CloseSent

\* What the executor sends is within the limits.
LEMMA SignalLimits ==
  ASSUME NEW low \in Nat \ {0}, NEW high \in Nat \ {0}, Room(low, high), TypeOK,
         NEW side \in {"buy", "sell"}, NEW account \in [equity : Int, qty : Int, value : Int],
         NEW drawdown, ExecuteSignal(side, account, drawdown)
  PROVE  /\ Sent(side, Size(account.equity), 0, "signal")
         /\ Size(account.equity) \in Nat \ {0}
         /\ Size(account.equity) * low * 100 <= account.equity * MaxPositionPct
         /\ account.value * 100 < account.equity * MaxExposurePct
<1> DEFINE s == Size(account.equity)
<1>1. s \in Nat \ {0} /\ account.equity \in Int
  <2>1. account.equity \in Int
    OBVIOUS
  <2>2. s \in Int /\ s > 0
    BY <2>1, Sized DEF ExecuteSignal
  <2>. QED BY <2>1, <2>2
<1>2. Sent(side, s, 0, "signal")
  BY <1>1 DEF ExecuteSignal, Sent
<1>3. /\ s * price * 100 <= account.equity * MaxPositionPct
      /\ account.value * 100 < account.equity * MaxExposurePct
  BY DEF ExecuteSignal, Approved
<1>4. low <= price /\ price \in Nat /\ MaxPositionPct \in Nat
  BY Bounded
<1>. HIDE DEF s
<1>5. low * s <= price * s
  BY <1>1, <1>4, Multiplied
<1>6. s * low * 100 <= s * price * 100
  BY <1>1, <1>4, <1>5
<1>7. s * low * 100 <= account.equity * MaxPositionPct
  <2>1. s * low * 100 \in Int /\ s * price * 100 \in Int /\ account.equity * MaxPositionPct \in Int
    BY <1>1, <1>4
  <2>. QED BY <1>3, <1>6, <2>1
<1>. QED BY <1>1, <1>2, <1>3, <1>7 DEF s

LEMMA ExecuteFunded ==
  ASSUME NEW low \in Nat \ {0}, NEW high \in Nat \ {0}, Room(low, high),
         TypeOK, TypeOK', Funded(low, high), ExecuteSignals
  PROVE  Funded(low, high)'
<1>1. UNCHANGED <<cash, qty, view>> /\ pc = "signal" /\ pc' = "idle"
  BY DEF ExecuteSignals, accountVars
<1>2. Lone(low)' /\ Reserved(low, high)'
  BY <1>1 DEF Lone, Reserved, Awaited
<1>3. Covers(high)'
  <2>1. CASE UNCHANGED orders
    BY <1>1, <2>1, PendingSame DEF Funded, Covers
  <2>2. ASSUME NEW side \in WorkerSignals, side = "buy" => view.qty = 0,
               ExecuteSignal(side, view, 0)
        PROVE  Covers(high)'
    <3> DEFINE s == Size(view.equity)
    <3>1. side \in {"buy", "sell"} /\ view \in [equity : Int, qty : Int, value : Int]
      BY Consts DEF TypeOK
    <3>2. /\ Sent(side, s, 0, "signal") /\ s \in Nat
          /\ s * low * 100 <= view.equity * MaxPositionPct
      BY <2>2, <3>1, SignalLimits
    <3>. HIDE DEF s
    <3>3. Pending' = Pending + IF side = "buy" THEN s ELSE 0
      BY <3>2, PendingSent
    <3>4. CASE side = "buy"
      <4>1. Awaited
        BY <1>1, <2>2, <3>4 DEF Awaited
      <4>2. (Pending + s) * high <= cash
        BY <3>2, <4>1 DEF Funded, Reserved
      <4>3. Pending' = Pending + s
        BY <3>3, <3>4
      <4>. QED BY <1>1, <4>2, <4>3 DEF Covers
    <3>5. CASE side = "sell"
      <4>1. Pending' = Pending + 0 /\ Pending \in Nat
        BY <3>3, <3>5, BoughtTyped
      <4>2. Pending' = Pending
        BY <4>1
      <4>. QED BY <1>1, <4>2 DEF Funded, Covers
    <3>. QED BY <3>1, <3>4, <3>5
  <2>. QED BY <2>1, <2>2 DEF ExecuteSignals
<1>. QED BY <1>2, <1>3 DEF Funded

LEMMA ApiFunded ==
  ASSUME Settling, ApiSignals \subseteq {"buy"},
         NEW low \in Nat \ {0}, NEW high \in Nat \ {0}, Room(low, high),
         TypeOK, TypeOK', Funded(low, high), ApiExecuteSignal
  PROVE  Funded(low, high)'
<1> DEFINE s == Size(Worth)
           v == qty * price
<1>1. UNCHANGED <<cash, qty, view, pc>> /\ Live = {}
  BY DEF ApiExecuteSignal, Quiet, accountVars
<1>2. /\ Sent("buy", s, 0, "signal") /\ s \in Nat
      /\ s * low * 100 <= Worth * MaxPositionPct
      /\ v * 100 < Worth * MaxExposurePct
  <2>1. PICK side \in ApiSignals : ExecuteSignal(side, Account, (peak - Worth) * 100)
    BY DEF ApiExecuteSignal
  <2>2. side = "buy" /\ Account \in [equity : Int, qty : Int, value : Int]
        /\ Account.equity = Worth /\ Account.value = v
    BY Sized DEF Account
  <2>3. side \in {"buy", "sell"}
    BY <2>2
  <2>. QED BY <2>1, <2>2, <2>3, SignalLimits
<1>3. /\ Worth = cash + v /\ cash \in Nat /\ qty \in Int /\ price \in Nat \ {0}
      /\ low <= price /\ low <= high /\ view.equity \in Int
      /\ MaxPositionPct \in Nat \ {0} /\ MaxExposurePct \in Nat /\ MaxExposurePct < 100
      /\ high * MaxPositionPct * (200 * low + MaxExposurePct * (high - low))
           <= 100 * low * low * (100 - MaxExposurePct)
      /\ 2 * (high * MaxPositionPct) <= 100 * low
  BY Bounded, CashCovers DEF Worth, Funded, TypeOK
<1>4. /\ Live' = {Len(orders) + 1} /\ orders'[Len(orders) + 1].side = "buy"
      /\ Pending' = s
  <2>1. Pending = 0
    BY <1>1, BoughtTyped
  <2>. HIDE DEF s
  <2>2. /\ Live' = Live \cup {Len(orders) + 1} /\ orders'[Len(orders) + 1].side = "buy"
        /\ Pending' = Pending + s
    BY <1>2, PendingSent
  <2>. QED BY <1>1, <1>2, <2>1, <2>2
<1>. HIDE DEF s
<1>5. ASSUME NEW n \in Nat, NEW e \in Int, qty >= 0, e <= cash + qty * high,
             n * low * 100 <= e * MaxPositionPct
      PROVE  (s + n) * high <= cash
  <2>1. qty \in Nat
    BY <1>3, <1>5
  <2>. QED BY <1>2, <1>3, <1>5, <2>1, SecondFromRest
<1>6. s * high <= cash
  <2>1. CASE qty >= 0
    <3>1. qty * high \in Nat
      BY <1>3, <2>1
    <3>2. 0 \in Int /\ 0 <= cash + qty * high /\ 0 * low * 100 <= 0 * MaxPositionPct
      BY <1>3, <3>1
    <3>3. (s + 0) * high <= cash
      BY <1>5, <2>1, <3>2
    <3>. QED BY <1>2, <3>3
  <2>2. CASE ~(qty >= 0)
    <3>1. v \in Int /\ v <= 0
      BY <1>3, <2>2
    <3>. HIDE DEF v
    <3>2. Worth \in Int /\ Worth <= cash
      BY <1>3, <3>1
    <3>3. Worth * MaxPositionPct <= cash * MaxPositionPct
      BY <1>3, <3>2, Multiplied
    <3>4. s * low * 100 <= cash * MaxPositionPct
      <4>1. /\ s * low * 100 \in Int /\ Worth * MaxPositionPct \in Int
            /\ cash * MaxPositionPct \in Int
        BY <1>2, <1>3, <3>2
      <4>. QED BY <1>2, <3>3, <4>1
    <3>5. 0 * low * 100 <= cash * MaxPositionPct
      BY <1>3, NothingCovered
    <3>6. (s + 0) * high <= cash
      BY <1>2, <1>3, <3>4, <3>5, TwoFromCash
    <3>. QED BY <1>2, <3>6
  <2>. QED BY <2>1, <2>2
<1>7. Covers(high)'
  BY <1>1, <1>4, <1>6 DEF Covers
<1>8. Lone(low)'
  <2>1. ASSUME qty = 0 PROVE s * low * 100 <= cash * MaxPositionPct
    <3>1. Worth = cash
      BY <1>3, <2>1
    <3>. QED BY <1>2, <3>1
  <2>. QED BY <1>1, <1>4, <2>1 DEF Lone
<1>9. Reserved(low, high)'
  <2>1. ASSUME Awaited PROVE qty >= 0 /\ view.equity <= cash + qty * high
    BY <2>1 DEF Funded, Reserved
  <2>2. ASSUME Awaited, NEW n \in Nat, n * low * 100 <= view.equity * MaxPositionPct
        PROVE  (s + n) * high <= cash
    BY <1>3, <1>5, <2>1, <2>2
  <2>. QED BY <1>1, <1>4, <2>1, <2>2 DEF Reserved, Awaited
<1>. QED BY <1>7, <1>8, <1>9 DEF Funded

LEMMA FundedPreserved ==
  ASSUME Settling, ApiSignals \subseteq {"buy"},
         NEW low \in Nat \ {0}, NEW high \in Nat \ {0}, Room(low, high),
         TypeOK, Funded(low, high), [Next]_vars
  PROVE  Funded(low, high)'
<1>1. TypeOK'
  BY TypePreserved
<1>2. CASE Fill
  BY <1>1, <1>2, FillFunded
<1>3. CASE Cancel
  BY <1>1, <1>3, CancelFunded
<1>4. CASE StartCycle
  BY <1>1, <1>4, StartFunded
<1>5. CASE ReadAccount
  BY <1>5, ReadFunded
<1>6. CASE MaybeClosePosition
  BY <1>1, <1>6, CloseFunded
<1>7. CASE ExecuteSignals
  BY <1>1, <1>7, ExecuteFunded
<1>8. CASE ApiExecuteSignal
  BY <1>1, <1>8, ApiFunded
<1>9. CASE MovePrice \/ SetWorkerConfig \/ UNCHANGED vars
  <2>1. UNCHANGED <<orders, cash, qty, pc, view>>
    BY <1>9 DEF MovePrice, SetWorkerConfig, vars, accountVars
  <2>. QED BY <2>1, FundedSame
<1>. QED BY <1>2, <1>3, <1>4, <1>5, <1>6, <1>7, <1>8, <1>9 DEF Next, Worker

\* No step looks at the cash, and each limit only at what is held: still, with the limits of
\* position and exposure within Room, no sequence of the API's and the worker's buys spends
\* more than there is, if orders are over before the next cycle or request (risk/manager.py).
THEOREM WithinCash ==
  ASSUME Settling, ApiSignals \subseteq {"buy"}, LeavesRoom
  PROVE  Spec => []NeverBorrows
<1>1. PICK low \in Nat \ {0}, high \in Nat \ {0} : Room(low, high)
  BY DEF LeavesRoom
<1>2. Init => Funded(low, high)
  <2>. SUFFICES ASSUME Init PROVE Funded(low, high)
    OBVIOUS
  <2>1. TypeOK /\ Live = {} /\ cash = Start /\ Start \in Nat /\ pc = "idle"
    BY TypeInit, Consts DEF Init, Live
  <2>2. Pending = 0
    BY <2>1, BoughtTyped
  <2>3. 0 * high <= cash
    BY <2>1
  <2>. QED BY <2>1, <2>2, <2>3 DEF Funded, Covers, Lone, Reserved, Awaited
<1>3. TypeOK /\ Funded(low, high) /\ [Next]_vars => Funded(low, high)'
  BY <1>1, FundedPreserved
<1>4. TypeOK /\ Funded(low, high) => NeverBorrows
  <2>. SUFFICES ASSUME TypeOK, Funded(low, high) PROVE NeverBorrows
    OBVIOUS
  <2>1. cash \in Nat
    BY CashCovers DEF Funded
  <2>. QED BY <2>1 DEF NeverBorrows
<1>. QED BY <1>2, <1>3, <1>4, TypeCorrect, PTL DEF Spec
=============================================================================
