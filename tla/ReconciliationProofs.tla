------------------------ MODULE ReconciliationProofs ------------------------
(***************************************************************************)
(* Theorems about Reconciliation for any orders, processes and bounds.     *)
(*                                                                         *)
(* The properties are not inductive: whether a fill is booked twice, or a  *)
(* trade recorded twice, depends on what the processes hold in memory.     *)
(* IInv says what they may hold.                                           *)
(***************************************************************************)
EXTENDS TLAPS, Reconciliation, SumTheorems

Settled == {"filled", "cancelled"}

\* An order has a row only after the broker has it; the buy that a close ends
\* is filled before the close exists.
RowsFollowBroker ==
  \A o \in Orders :
    /\ orders[o].status # "none" => broker[o].status # "absent"
    /\ broker[o].status # "absent" /\ ParentOf[o] # NoOrder =>
         orders[ParentOf[o]].status = "filled"
    /\ broker[o].status \in FilledStatuses => broker[o].filled >= 1

\* What a handler in progress holds.
Holds(r) ==
  /\ \A o \in todo[r] : orders[o].status # "none"
  /\ pc[r] \in {"mark", "cancel", "cash", "apply", "report"} => cur[r] \in todo[r]
  /\ pc[r] \in {"mark", "cash", "apply"} => seen[r].filled \in 1 .. broker[cur[r]].filled
  /\ pc[r] \in {"cash", "apply", "report"} => orders[cur[r]].status \in Settled
  /\ pc[r] = "report" => fills[cur[r]] # 0 /\ r \in Recorders
  /\ pc[r] \in {"idle", "insert", "mtm"} => todo[r] = {}
  /\ pc[r] = "insert" => /\ cur[r] \in Orders
                         /\ orders[cur[r]].status = "none"
                         /\ broker[cur[r]].status # "absent"

Holding == \A r \in Processes : Holds(r)

\* Two processes never insert the same order.
InsertsDiffer ==
  \A r, s \in Processes :
    pc[r] = "insert" /\ pc[s] = "insert" /\ cur[r] = cur[s] => r = s

\* What may still be reported has not been, and only settled rows are booked.
NotYetReported ==
  \A o \in Orders :
    /\ orders[o].status \notin Settled => alerts[o] = 0 /\ fills[o] = 0
    /\ \A r \in Recorders : o \in todo[r] => alerts[o] = 0
    /\ Len(outcomes[o]) <= alerts[o]
    /\ alerts[o] <= 1

IInv == /\ TypeOK
        /\ RowsFollowBroker
        /\ Holding
        /\ InsertsDiffer
        /\ NotYetReported
        /\ BookedWithinBroker
        /\ ReportsAreBooked
-----------------------------------------------------------------------------
(* Type correctness.                                                       *)

LEMMA RecordsTyped ==
  /\ NotSeen \in BrokerOrder
  /\ [status |-> "none", filled_qty |-> 0, filled_at |-> 0] \in Row
BY ConstantsTyped DEF NotSeen, BrokerOrder, Row, ConstantsTyped

LEMMA StatusTyped ==
  /\ \A b \in BrokerOrder : \A st \in {"new", "suspended", "canceled"} :
       [b EXCEPT !.status = st] \in BrokerOrder
  /\ \A row \in Row : \A st \in {"submitted", "cancelled"} :
       [row EXCEPT !.status = st] \in Row
BY DEF BrokerOrder, Row, KnownPendingStatuses, UnknownStatuses, TerminalStatuses

\* Writing a row keeps the table a table.
LEMMA SettleTyped ==
  ASSUME NEW o \in Orders, NEW row \in Row, orders \in [Orders -> Row],
         Settle(o, row)
  PROVE  orders' \in [Orders -> Row]
BY DEF Settle

\* Leaving the loop's body keeps the locals typed.
LEMMA AdvanceTyped ==
  ASSUME TypeOK, NEW r \in Processes, NEW o, Advance(r, o)
  PROVE  /\ pc' \in [Processes -> Calls] /\ todo' \in [Processes -> SUBSET Orders]
         /\ cur' \in [Processes -> Orders \cup {NoOrder}]
         /\ seen' \in [Processes -> BrokerOrder]
         /\ cashRead' \in [Processes -> Int]
BY RecordsTyped DEF TypeOK, Advance, Forget, Calls

LEMMA OpeningBuysTyped ==
  ASSUME NEW o \in Orders PROVE OpeningBuys(o) \subseteq Orders
BY ConstantsTyped DEF OpeningBuys, ConstantsTyped

LEMMA TypeInit == Init => TypeOK
BY ConstantsTyped, RecordsTyped DEF Init, TypeOK, ConstantsTyped, Calls

LEMMA BrokerTyped ==
  ASSUME TypeOK, BrokerStep PROVE TypeOK'
<1> USE DEF TypeOK, rowVars, reportVars, localVars
<1>1. ASSUME NEW o \in Orders, BrokerFill(o) PROVE TypeOK'
  <2>1. PICK q \in broker[o].filled + 1 .. Quantity, stamped \in BOOLEAN :
          broker' = [broker EXCEPT ![o] =
            [status |-> IF q = Quantity THEN "filled" ELSE "partially_filled",
             filled |-> q,
             at |-> IF stamped THEN clock + 1 ELSE @.at]]
    BY <1>1 DEF BrokerFill
  <2>2. broker' \in [Orders -> BrokerOrder]
    BY <2>1, ConstantsTyped DEF BrokerOrder, FilledStatuses, ConstantsTyped
  <2> QED BY <1>1, <2>2 DEF BrokerFill
<1>2. ASSUME NEW o \in Orders, BrokerCancel(o) PROVE TypeOK'
  <2>1. broker' \in [Orders -> BrokerOrder]
    BY <1>2, StatusTyped DEF BrokerCancel
  <2> QED BY <1>2, <2>1 DEF BrokerCancel
<1>3. ASSUME NEW o \in Orders, BrokerSuspend(o) PROVE TypeOK'
  <2>1. broker' \in [Orders -> BrokerOrder]
    BY <1>3, StatusTyped DEF BrokerSuspend
  <2> QED BY <1>3, <2>1 DEF BrokerSuspend
<1>4. ASSUME NEW o \in Orders, Age(o) PROVE TypeOK'
  BY <1>4 DEF Age, Submitted
<1> QED BY <1>1, <1>2, <1>3, <1>4 DEF BrokerStep

LEMMA ProcessTyped ==
  ASSUME TypeOK, Holding, NEW r \in Processes, ProcessStep(r) PROVE TypeOK'
<1> USE ConstantsTyped, RecordsTyped
    DEF TypeOK, brokerVars, rowVars, reportVars, localVars, Calls, Forget, Then, Take
<1>a. pc[r] \in {"mark", "cancel", "cash", "apply", "report"} => cur[r] \in Orders
  BY DEF Holding, Holds
<1>1. ASSUME NEW o \in Orders, SubmitOrder(r, o) PROVE TypeOK'
  <2>1. broker' \in [Orders -> BrokerOrder]
    BY <1>1, StatusTyped DEF SubmitOrder
  <2> QED BY <1>1, <2>1 DEF SubmitOrder
<1>2. CASE InsertOrder(r)
  <2>1. cur[r] \in Orders
    BY <1>2 DEF InsertOrder, Holding, Holds
  <2>2. orders' \in [Orders -> Row]
    BY <1>2, <2>1, StatusTyped DEF InsertOrder
  <2> QED BY <1>2, <2>2 DEF InsertOrder
<1>3. CASE ListPending(r)
  BY <1>3 DEF ListPending, Submitted
<1>4. CASE GetOrder(r)
  <2>1. PICK o \in todo[r] :
          Take(r, o, "mark") \/ Take(r, o, "cancel") \/ Advance(r, o)
    BY <1>4 DEF GetOrder
  <2>2. o \in Orders OBVIOUS
  <2>3. CASE Take(r, o, "mark") \/ Take(r, o, "cancel")
    <3>0. /\ seen' = [seen EXCEPT ![r] = broker[o]]
          /\ cur' = [cur EXCEPT ![r] = o]
      BY <2>3
    <3>1. /\ seen' \in [Processes -> BrokerOrder]
          /\ cur' \in [Processes -> Orders \cup {NoOrder}]
      BY <2>2, <3>0
    <3>2. pc' \in [Processes -> Calls]
      BY <2>3
    <3> QED BY <1>4, <2>3, <3>1, <3>2 DEF GetOrder
  <2>4. CASE Advance(r, o)
    BY <1>4, <2>4, AdvanceTyped DEF GetOrder
  <2> QED BY <2>1, <2>3, <2>4
<1>5. CASE MarkFilled(r)
  <2>1. [status |-> "filled", filled_qty |-> seen[r].filled,
         filled_at |-> seen[r].at] \in Row
    BY DEF Row, BrokerOrder
  <2>2. CASE seen[r].at # 0
    <3>1. orders' \in [Orders -> Row]
      BY <1>a, <1>5, <2>1, <2>2, SettleTyped DEF MarkFilled
    <3> QED BY <1>5, <2>2, <3>1 DEF MarkFilled
  <2>3. CASE seen[r].at = 0
    BY <1>5, <2>3, AdvanceTyped DEF MarkFilled
  <2> QED BY <2>2, <2>3
<1>6. CASE MarkCancelled(r)
  <2>1. [orders[cur[r]] EXCEPT !.status = "cancelled"] \in Row
    BY <1>a, <1>6, StatusTyped DEF MarkCancelled
  <2>2. orders' \in [Orders -> Row]
    BY <1>a, <1>6, <2>1, SettleTyped DEF MarkCancelled
  <2> QED BY <1>6, <2>2, AdvanceTyped DEF MarkCancelled
<1>7. CASE CurrentCash(r)
  BY <1>7 DEF CurrentCash
<1>8. CASE ApplyFill(r)
  <2>1. seen[r].filled \in 0 .. Quantity
    BY DEF BrokerOrder
  <2>0. cur[r] \in Orders
    BY <1>a, <1>8 DEF ApplyFill
  <2>2. /\ SymbolOf[cur[r]] \in Symbols
        /\ Signed(cur[r], seen[r].filled) \in Int
    <3>1. seen[r].filled \in Int
      BY <2>1 DEF ConstantsTyped
    <3>2. Signed(cur[r], seen[r].filled) \in Int
      BY <3>1 DEF Signed
    <3> QED BY <2>0, <3>2 DEF ConstantsTyped
  <2>3. CashDelta(cur[r], seen[r].filled) \in Int
    <3>1. Price[cur[r]] \in Nat
      BY <1>a, <1>8 DEF ApplyFill, ConstantsTyped
    <3> QED BY <2>2, <3>1 DEF CashDelta
  <2>4. /\ fills' \in [Orders -> 0 .. Quantity]
        /\ positions' \in [Symbols -> Int]
        /\ cash' \in Int
    <3>1. CASE fills[cur[r]] # 0
      BY <1>8, <3>1 DEF ApplyFill, ApplyPaperFill
    <3>2. CASE fills[cur[r]] = 0
      <4>1. /\ fills' = [fills EXCEPT ![cur[r]] = seen[r].filled]
            /\ positions' = [positions EXCEPT ![SymbolOf[cur[r]]] =
                                @ + Signed(cur[r], seen[r].filled)]
            /\ cash' = cashRead[r] + CashDelta(cur[r], seen[r].filled)
        BY <1>8, <3>2 DEF ApplyFill, ApplyPaperFill
      <4>2. fills' \in [Orders -> 0 .. Quantity]
        BY <2>0, <2>1, <4>1
      <4>3. positions' \in [Symbols -> Int]
        BY <2>2, <4>1
      <4>4. cash' \in Int
        BY <2>3, <4>1
      <4> QED BY <4>2, <4>3, <4>4
    <3> QED BY <3>1, <3>2
  <2>5. CASE r \in Recorders
    <3>0. pc' = [pc EXCEPT ![r] = "report"]
      BY <1>8, <2>5 DEF ApplyFill
    <3>1. pc' \in [Processes -> Calls]
      BY <3>0
    <3> QED BY <1>8, <2>4, <2>5, <3>1 DEF ApplyFill
  <2>6. CASE r \notin Recorders
    BY <1>8, <2>4, <2>6, AdvanceTyped DEF ApplyFill
  <2> QED BY <2>5, <2>6
<1>9. CASE Report(r)
  <2>0. cur[r] \in Orders
    BY <1>a, <1>9 DEF Report
  <2>1. alerts' \in [Orders -> Nat]
    <3>1. alerts' = [alerts EXCEPT ![cur[r]] = @ + 1]
      BY <1>9 DEF Report
    <3>2. alerts[cur[r]] \in Nat
      BY <2>0
    <3>3. alerts[cur[r]] + 1 \in Nat
      BY <3>2
    <3> QED BY <2>0, <3>1, <3>3
  <2>2. OpeningBuys(cur[r]) \subseteq Orders
    BY <2>0, OpeningBuysTyped
  <2>3. outcomes' \in [Orders -> Seq(Orders)]
    <3>1. ASSUME NEW b \in Orders,
                 outcomes' = [outcomes EXCEPT ![cur[r]] = Append(@, b)]
          PROVE  outcomes' \in [Orders -> Seq(Orders)]
      <4>1. outcomes[cur[r]] \in Seq(Orders)
        BY <2>0
      <4>2. Append(outcomes[cur[r]], b) \in Seq(Orders)
        BY <4>1
      <4> QED BY <3>1, <4>2
    <3> QED BY <1>9, <2>2, <3>1 DEF Report
  <2>4. faults' \in 0 .. MaxFaults
    BY <1>9 DEF Report, ConstantsTyped
  <2> QED BY <1>9, <2>1, <2>3, <2>4, AdvanceTyped DEF Report
<1>10. CASE MarkToMarketRead(r)
  BY <1>10 DEF MarkToMarketRead
<1>11. CASE MarkToMarketRecord(r)
  BY <1>11 DEF MarkToMarketRecord
<1>12. CASE OrderError(r)
  <2>1. \E o : Advance(r, o)
    BY <1>12 DEF OrderError
  <2> QED BY <1>12, <2>1, AdvanceTyped DEF OrderError, ConstantsTyped
<1>13. CASE Crash(r)
  BY <1>13 DEF Crash, ConstantsTyped
<1> QED BY <1>1, <1>2, <1>3, <1>4, <1>5, <1>6, <1>7, <1>8, <1>9, <1>10, <1>11,
           <1>12, <1>13 DEF ProcessStep, Continue
-----------------------------------------------------------------------------
(* The strengthened invariant.                                             *)

LEMMA InvInit == Init => IInv
<1> SUFFICES ASSUME Init PROVE IInv
  OBVIOUS
<1>1. TypeOK
  BY TypeInit
<1>2. RowsFollowBroker
  BY DEF Init, RowsFollowBroker, NotSeen, FilledStatuses
<1>3. Holding
  BY DEF Init, Holding, Holds
<1>4. InsertsDiffer
  BY DEF Init, InsertsDiffer
<1>a. \A o \in Orders : /\ alerts[o] = 0 /\ fills[o] = 0 /\ Len(outcomes[o]) = 0
                         /\ broker[o].filled = 0
  BY DEF Init, NotSeen
<1>5. NotYetReported
  <2>1. \A r \in Recorders : todo[r] = {}
    BY ConstantsTyped DEF Init, ConstantsTyped
  <2> QED BY <1>a, <2>1 DEF NotYetReported
<1>6. BookedWithinBroker
  BY <1>a DEF BookedWithinBroker
<1>7. ReportsAreBooked
  BY <1>a DEF ReportsAreBooked
<1> QED BY <1>1, <1>2, <1>3, <1>4, <1>5, <1>6, <1>7 DEF IInv

\* The broker executes more, never less.
LEMMA BrokerGrows ==
  ASSUME TypeOK, RowsFollowBroker, BrokerStep, NEW p \in Orders
  PROVE  /\ broker[p].filled <= broker'[p].filled
         /\ broker'[p].status # "absent" <=> broker[p].status # "absent"
         /\ broker'[p].status \in FilledStatuses => broker'[p].filled >= 1
<1>1. broker \in [Orders -> BrokerOrder] /\ broker[p].filled \in Nat
  BY ConstantsTyped DEF TypeOK, BrokerOrder, ConstantsTyped
<1>2. broker[p].status \in FilledStatuses => broker[p].filled >= 1
  BY DEF RowsFollowBroker
<1>3. ASSUME NEW o \in Orders, BrokerFill(o)
      PROVE  broker'[p] = broker[p] \/
             /\ broker'[p].filled \in Nat /\ broker'[p].filled > broker[p].filled
             /\ broker[p].status # "absent" /\ broker'[p].status # "absent"
  <2>1. PICK q \in broker[o].filled + 1 .. Quantity, stamped \in BOOLEAN :
          broker' = [broker EXCEPT ![o] =
            [status |-> IF q = Quantity THEN "filled" ELSE "partially_filled",
             filled |-> q,
             at |-> IF stamped THEN clock + 1 ELSE @.at]]
    BY <1>3 DEF BrokerFill
  <2>2. CASE o = p
    <3>1. broker'[p].filled = q /\ broker'[p].status # "absent"
      BY <1>1, <2>1, <2>2
    <3>2. q \in Nat /\ q > broker[p].filled
      BY <1>1, <2>2, ConstantsTyped DEF ConstantsTyped
    <3> QED BY <1>3, <2>2, <3>1, <3>2 DEF BrokerFill
  <2>3. CASE o # p
    BY <1>1, <2>1, <2>3
  <2> QED BY <2>2, <2>3
<1> DEFINE NothingExecuted ==
      /\ broker'[p].filled = broker[p].filled
      /\ broker'[p].status # "absent" <=> broker[p].status # "absent"
      /\ broker'[p].status \in FilledStatuses => broker[p].status \in FilledStatuses
<1>4. ASSUME NEW o \in Orders, BrokerCancel(o) \/ BrokerSuspend(o) \/ Age(o)
      PROVE  NothingExecuted
  <2>1. CASE broker' = broker
    BY <2>1
  <2>2. ASSUME NEW st \in {"canceled", "suspended"},
               broker[o].status # "absent", broker' = [broker EXCEPT ![o].status = st]
        PROVE  NothingExecuted
    <3>1. CASE o = p
      <4>1. broker'[p] = [broker[p] EXCEPT !.status = st]
        BY <1>1, <2>2, <3>1
      <4>2. broker'[p].filled = broker[p].filled /\ broker'[p].status = st
        BY <1>1, <4>1 DEF BrokerOrder
      <4> QED BY <2>2, <3>1, <4>2 DEF FilledStatuses
    <3>2. CASE o # p
      BY <1>1, <2>2, <3>2
    <3> QED BY <3>1, <3>2
  <2> QED BY <1>4, <2>1, <2>2 DEF BrokerCancel, BrokerSuspend, Age
<1> QED BY <1>1, <1>2, <1>3, <1>4 DEF BrokerStep

LEMMA BrokerPreserves ==
  ASSUME IInv, BrokerStep PROVE IInv'
<1> USE DEF IInv
<1>1. TypeOK'
  BY BrokerTyped
<1>2. UNCHANGED <<orders, fills, outcomes, alerts, pc, todo, cur, seen>>
  BY DEF BrokerStep, BrokerFill, BrokerCancel, BrokerSuspend, Age,
         rowVars, reportVars, localVars
<1>3. \A o \in Orders :
        /\ broker[o].filled <= broker'[o].filled
        /\ broker'[o].status # "absent" <=> broker[o].status # "absent"
        /\ broker'[o].status \in FilledStatuses => broker'[o].filled >= 1
        /\ broker[o].filled \in Int /\ broker'[o].filled \in Int
  <2>1. \A b \in BrokerOrder : b.filled \in Int
    BY ConstantsTyped DEF BrokerOrder, ConstantsTyped
  <2> QED BY <1>1, <2>1, BrokerGrows DEF TypeOK
<1>4. RowsFollowBroker'
  BY <1>2, <1>3 DEF RowsFollowBroker
<1>5. Holding'
  <2>1. ASSUME NEW s \in Processes, pc[s] \in {"mark", "cash", "apply"}
        PROVE  seen[s].filled \in 1 .. broker'[cur[s]].filled
    <3>1. cur[s] \in Orders /\ seen[s].filled \in 1 .. broker[cur[s]].filled
      BY <2>1 DEF Holding, Holds, TypeOK
    <3> QED BY <1>3, <3>1
  <2>2. \A s \in Processes : cur[s] \in todo[s] => cur[s] \in Orders
    BY DEF TypeOK
  <2> QED BY <1>2, <1>3, <2>1, <2>2 DEF Holding, Holds
<1>6. InsertsDiffer'
  BY <1>2 DEF InsertsDiffer
<1>7. NotYetReported'
  BY <1>2 DEF NotYetReported
<1>8. BookedWithinBroker'
  <2>1. \A o \in Orders : fills[o] \in Int
    BY ConstantsTyped DEF TypeOK, ConstantsTyped
  <2> QED BY <1>2, <1>3, <2>1 DEF BookedWithinBroker
<1>9. ReportsAreBooked'
  BY <1>2 DEF ReportsAreBooked
<1> QED BY <1>1, <1>4, <1>5, <1>6, <1>7, <1>8, <1>9

-----------------------------------------------------------------------------
(* What a step of a process leaves alone.                                  *)

LEMMA OthersKeep ==
  ASSUME TypeOK, NEW r \in Processes, ProcessStep(r),
         NEW s \in Processes, s # r
  PROVE  /\ pc'[s] = pc[s] /\ todo'[s] = todo[s]
         /\ cur'[s] = cur[s] /\ seen'[s] = seen[s]
<1> USE DEF TypeOK, Forget, Advance, Then, Take
<1>1. CASE Continue(r)
  <2>1. CASE InsertOrder(r) \/ MarkToMarketRecord(r)
    BY <2>1 DEF InsertOrder, MarkToMarketRecord
  <2>2. CASE GetOrder(r)
    BY <2>2 DEF GetOrder
  <2>3. CASE MarkFilled(r) \/ MarkCancelled(r) \/ CurrentCash(r)
    BY <2>3 DEF MarkFilled, MarkCancelled, CurrentCash
  <2>4. CASE ApplyFill(r) \/ Report(r)
    BY <2>4 DEF ApplyFill, Report
  <2> QED BY <1>1, <2>1, <2>2, <2>3, <2>4 DEF Continue
<1>2. CASE ListPending(r) \/ MarkToMarketRead(r) \/ \E o \in Orders : SubmitOrder(r, o)
  BY <1>2 DEF ListPending, MarkToMarketRead, SubmitOrder
<1>3. CASE OrderError(r) \/ Crash(r)
  BY <1>3 DEF OrderError, Crash
<1> QED BY <1>1, <1>2, <1>3 DEF ProcessStep

\* Rows are opened by the process that inserts them and settled once.
LEMMA RowsStep ==
  ASSUME TypeOK, Holding, NEW r \in Processes, ProcessStep(r), NEW o \in Orders
  PROVE  \/ orders'[o] = orders[o]
         \/ /\ pc[r] = "insert" /\ o = cur[r]
            /\ orders[o].status = "none" /\ orders'[o].status = "submitted"
            /\ orders'[o].filled_qty = orders[o].filled_qty
         \/ /\ pc[r] = "mark" /\ o = cur[r]
            /\ orders[o].status = "submitted" /\ orders'[o].status = "filled"
            /\ orders'[o].filled_qty = seen[r].filled
         \/ /\ pc[r] = "cancel" /\ o = cur[r]
            /\ orders[o].status = "submitted" /\ orders'[o].status = "cancelled"
            /\ orders'[o].filled_qty = orders[o].filled_qty
<1>0. orders[o] \in Row /\ orders \in [Orders -> Row]
  BY DEF TypeOK
<1>1. CASE InsertOrder(r)
  <2>1. orders' = [orders EXCEPT ![cur[r]].status = "submitted"] /\ pc[r] = "insert"
    BY <1>1 DEF InsertOrder
  <2>2. CASE o = cur[r]
    <3>1. orders'[o] = [orders[o] EXCEPT !.status = "submitted"]
      BY <1>0, <2>1, <2>2
    <3>2. orders'[o].status = "submitted" /\ orders'[o].filled_qty = orders[o].filled_qty
      BY <1>0, <3>1 DEF Row
    <3> QED BY <2>1, <2>2, <3>2 DEF Holding, Holds
  <2>3. CASE o # cur[r]
    BY <1>0, <2>1, <2>3
  <2> QED BY <2>2, <2>3
<1>2. CASE MarkFilled(r)
  BY <1>0, <1>2 DEF MarkFilled, Settle
<1>3. CASE MarkCancelled(r)
  <2>1. pc[r] = "cancel" /\ Settle(cur[r], [orders[cur[r]] EXCEPT !.status = "cancelled"])
    BY <1>3 DEF MarkCancelled
  <2>2. CASE o = cur[r] /\ orders[o].status = "submitted"
    <3>1. orders'[o] = [orders[o] EXCEPT !.status = "cancelled"]
      BY <1>0, <2>1, <2>2 DEF Settle
    <3>2. orders'[o].status = "cancelled" /\ orders'[o].filled_qty = orders[o].filled_qty
      BY <1>0, <3>1 DEF Row
    <3> QED BY <2>1, <2>2, <3>2
  <2>3. CASE ~(o = cur[r] /\ orders[o].status = "submitted")
    BY <1>0, <2>1, <2>3 DEF Settle
  <2> QED BY <2>2, <2>3
<1>4. CASE UNCHANGED orders
  BY <1>4
<1> QED
  BY <1>1, <1>2, <1>3, <1>4
     DEF ProcessStep, Continue, SubmitOrder, ListPending, MarkToMarketRead, GetOrder,
         CurrentCash, ApplyFill, Report, MarkToMarketRecord, OrderError, Crash, rowVars

\* Fills are added by a process that applies one; reports by the one reporting.
LEMMA BooksStep ==
  ASSUME TypeOK, Holding, NEW r \in Processes, ProcessStep(r), NEW o \in Orders
  PROVE  /\ \/ fills'[o] = fills[o]
            \/ /\ pc[r] = "apply" /\ o = cur[r]
               /\ fills[o] = 0 /\ fills'[o] = seen[r].filled
         /\ \/ UNCHANGED <<alerts[o], outcomes[o]>>
            \/ Report(r) /\ o = cur[r]
<1>1. CASE ApplyFill(r)
  BY <1>1 DEF ApplyFill, ApplyPaperFill, TypeOK, reportVars
<1>2. CASE Report(r)
  BY <1>2 DEF Report, TypeOK, rowVars
<1>3. CASE UNCHANGED <<fills, alerts, outcomes>>
  BY <1>3
<1> QED
  BY <1>1, <1>2, <1>3
     DEF ProcessStep, Continue, SubmitOrder, ListPending, MarkToMarketRead, GetOrder,
         CurrentCash, InsertOrder, MarkFilled, MarkCancelled, MarkToMarketRecord,
         OrderError, Crash, rowVars, reportVars

\* Only a submission changes what the broker holds.
LEMMA BrokerStepOfProcess ==
  ASSUME TypeOK, NEW r \in Processes, ProcessStep(r), NEW o \in Orders
  PROVE  /\ broker'[o].filled = broker[o].filled
         /\ \/ broker'[o] = broker[o]
            \/ /\ SubmitOrder(r, o) /\ broker[o].status = "absent"
               /\ broker'[o].status = "new"
<1>0. broker \in [Orders -> BrokerOrder] /\ broker[o] \in BrokerOrder
  BY DEF TypeOK
<1>1. ASSUME NEW p \in Orders, SubmitOrder(r, p)
      PROVE  broker'[o] = broker[o] \/
             /\ SubmitOrder(r, o) /\ broker[o].status = "absent"
             /\ broker'[o].status = "new" /\ broker'[o].filled = broker[o].filled
  <2>1. broker' = [broker EXCEPT ![p].status = "new"] /\ broker[p].status = "absent"
    BY <1>1 DEF SubmitOrder
  <2>2. CASE o = p
    <3>1. broker'[o] = [broker[o] EXCEPT !.status = "new"]
      BY <1>0, <2>1, <2>2
    <3> QED BY <1>0, <1>1, <2>1, <2>2, <3>1 DEF BrokerOrder
  <2>3. CASE o # p
    BY <1>0, <2>1, <2>3
  <2> QED BY <2>2, <2>3
<1>2. CASE UNCHANGED broker
  BY <1>2
<1> QED
  BY <1>1, <1>2
     DEF ProcessStep, Continue, ListPending, MarkToMarketRead, GetOrder, InsertOrder,
         MarkFilled, MarkCancelled, CurrentCash, ApplyFill, Report,
         MarkToMarketRecord, OrderError, Crash, brokerVars

\* What the stepping process holds afterwards.
HeldNext(r) ==
  /\ todo'[r] \subseteq todo[r] \/ todo'[r] = Submitted
  /\ pc'[r] \in {"mark", "cancel", "cash", "apply", "report"} => cur'[r] \in todo'[r]
  /\ pc'[r] \in {"mark", "cash", "apply"} =>
       seen'[r].filled \in 1 .. broker[cur'[r]].filled
  /\ pc'[r] \in {"cash", "apply", "report"} => orders'[cur'[r]].status \in Settled
  /\ pc'[r] = "report" => fills'[cur'[r]] # 0 /\ r \in Recorders
  /\ pc'[r] \in {"idle", "insert", "mtm"} => todo'[r] = {}
  /\ pc'[r] = "insert" => \E o \in Orders : SubmitOrder(r, o) /\ cur'[r] = o

LEMMA AdvanceHolds ==
  ASSUME TypeOK, NEW r \in Processes, NEW o, Advance(r, o) PROVE HeldNext(r)
BY DEF TypeOK, Advance, HeldNext

LEMMA StepperHolds ==
  ASSUME TypeOK, RowsFollowBroker, Holding, NEW r \in Processes, ProcessStep(r)
  PROVE  HeldNext(r)
<1>1. ASSUME NEW o \in Orders, SubmitOrder(r, o) PROVE HeldNext(r)
  BY <1>1 DEF SubmitOrder, HeldNext, TypeOK, Holding, Holds
<1>2. CASE InsertOrder(r) \/ MarkToMarketRecord(r) \/ Crash(r)
  BY <1>2 DEF InsertOrder, MarkToMarketRecord, Crash, HeldNext, TypeOK, Holding, Holds
<1>3. CASE ListPending(r) \/ MarkToMarketRead(r)
  BY <1>3 DEF ListPending, MarkToMarketRead, HeldNext, TypeOK, Holding, Holds
<1>4. CASE GetOrder(r)
  <2>1. PICK o \in todo[r] :
          \/ broker[o].status \in FilledStatuses /\ Take(r, o, "mark")
          \/ Take(r, o, "cancel")
          \/ Advance(r, o)
    BY <1>4 DEF GetOrder
  <2>2. CASE broker[o].status \in FilledStatuses /\ Take(r, o, "mark")
    <3>1. o \in Orders /\ broker[o] \in BrokerOrder /\ broker[o].filled >= 1
      BY <2>2 DEF TypeOK, RowsFollowBroker
    <3>2. broker[o].filled \in 1 .. broker[o].filled
      BY <3>1, ConstantsTyped DEF BrokerOrder, ConstantsTyped
    <3>3. pc'[r] = "mark" /\ cur'[r] = o /\ seen'[r] = broker[o] /\ todo' = todo
      BY <2>2 DEF Take, TypeOK
    <3> QED BY <3>2, <3>3 DEF HeldNext, TypeOK
  <2>3. CASE Take(r, o, "cancel")
    BY <2>3 DEF Take, TypeOK, HeldNext
  <2> QED BY <2>1, <2>2, <2>3, AdvanceHolds
<1>5. CASE MarkFilled(r)
  <2>1. CASE seen[r].at # 0
    <3>1. pc[r] = "mark" /\ cur[r] \in Orders /\ orders[cur[r]].status # "none"
      BY <1>5 DEF MarkFilled, Holding, Holds, TypeOK
    <3>2. orders'[cur[r]].status \in Settled
      <4>1. orders[cur[r]].status \in {"submitted", "filled", "cancelled"}
        BY <3>1 DEF TypeOK, Row
      <4> QED BY <1>5, <2>1, <3>1, <4>1 DEF MarkFilled, Settle, Settled, TypeOK
    <3>3. Then(r, "cash")
      BY <1>5, <2>1 DEF MarkFilled
    <3> QED BY <3>1, <3>2, <3>3 DEF Then, HeldNext, TypeOK, Holding, Holds
  <2>2. CASE seen[r].at = 0
    BY <1>5, <2>2, AdvanceHolds DEF MarkFilled
  <2> QED BY <2>1, <2>2
<1>6. CASE MarkCancelled(r)
  BY <1>6, AdvanceHolds DEF MarkCancelled
<1>7. CASE CurrentCash(r)
  BY <1>7 DEF CurrentCash, Then, HeldNext, TypeOK, Holding, Holds, rowVars
<1>8. CASE ApplyFill(r)
  <2>1. CASE r \in Recorders
    <3>1. pc[r] = "apply" /\ cur[r] \in Orders /\ seen[r].filled # 0 /\ orders' = orders
      BY <1>8 DEF ApplyFill, Holding, Holds, TypeOK
    <3>2. fills'[cur[r]] # 0
      BY <1>8, <3>1 DEF ApplyFill, ApplyPaperFill, TypeOK
    <3>3. Then(r, "report")
      BY <1>8, <2>1 DEF ApplyFill
    <3> QED BY <2>1, <3>1, <3>2, <3>3 DEF Then, HeldNext, TypeOK, Holding, Holds
  <2>2. CASE r \notin Recorders
    BY <1>8, <2>2, AdvanceHolds DEF ApplyFill
  <2> QED BY <2>1, <2>2
<1>9. CASE Report(r)
  BY <1>9, AdvanceHolds DEF Report
<1>10. CASE OrderError(r)
  BY <1>10, AdvanceHolds DEF OrderError
<1> QED BY <1>1, <1>2, <1>3, <1>4, <1>5, <1>6, <1>7, <1>8, <1>9, <1>10
        DEF ProcessStep, Continue

LEMMA ProcessPreserves ==
  ASSUME IInv, NEW r \in Processes, ProcessStep(r) PROVE IInv'
<1> USE DEF IInv
<1>1. TypeOK'
  BY ProcessTyped
<1>2. \A o \in Orders : /\ broker[o].filled \in Int
                        /\ fills[o] \in Int /\ alerts[o] \in Int
                        /\ Len(outcomes[o]) \in Nat
  BY ConstantsTyped DEF TypeOK, BrokerOrder, ConstantsTyped
<1>3. \A s \in Processes : todo[s] \subseteq Orders
  BY DEF TypeOK
<1>4. RowsFollowBroker'
  <2> SUFFICES ASSUME NEW o \in Orders
               PROVE  /\ orders'[o].status # "none" => broker'[o].status # "absent"
                      /\ broker'[o].status # "absent" /\ ParentOf[o] # NoOrder =>
                           orders'[ParentOf[o]].status = "filled"
                      /\ broker'[o].status \in FilledStatuses => broker'[o].filled >= 1
    BY DEF RowsFollowBroker
  <2>1. orders'[o].status # "none" => broker'[o].status # "absent"
    BY <1>3, RowsStep, BrokerStepOfProcess DEF RowsFollowBroker, Holding, Holds
  <2>2. ASSUME broker'[o].status # "absent", ParentOf[o] # NoOrder
        PROVE  orders'[ParentOf[o]].status = "filled"
    <3>1. ParentOf[o] \in Orders
      BY <2>2, ConstantsTyped DEF ConstantsTyped
    <3>2. orders[ParentOf[o]].status = "filled"
      BY <2>2, BrokerStepOfProcess DEF RowsFollowBroker, SubmitOrder, MaySubmit
    <3> QED BY <3>1, <3>2, RowsStep
  <2>3. broker'[o].status \in FilledStatuses => broker'[o].filled >= 1
    BY BrokerStepOfProcess DEF RowsFollowBroker, FilledStatuses
  <2> QED BY <2>1, <2>2, <2>3
<1>5. InsertsDiffer'
  <2> SUFFICES ASSUME NEW s \in Processes, s # r, pc'[s] = "insert", pc'[r] = "insert",
                      cur'[s] = cur'[r]
               PROVE  FALSE
    BY OthersKeep DEF InsertsDiffer
  <2>1. PICK o \in Orders : SubmitOrder(r, o) /\ cur'[r] = o
    BY StepperHolds DEF HeldNext
  <2>2. broker[cur[s]].status # "absent" /\ cur'[s] = cur[s]
    BY OthersKeep DEF Holding, Holds
  <2> QED BY <2>1, <2>2 DEF SubmitOrder
<1>6. Holding'
  <2>1. \A o \in Orders : orders[o].status # "none" => orders'[o].status # "none"
    BY RowsStep
  <2>2. \A o \in Orders : orders[o].status \in Settled => orders'[o].status \in Settled
    BY RowsStep DEF Settled
  <2>3. ASSUME NEW s \in Processes, s # r
        PROVE  /\ pc[s] = "insert" => orders'[cur[s]].status = "none"
               /\ pc[s] = "report" => fills'[cur[s]] # 0
    <3>1. pc[s] = "insert" => orders'[cur[s]].status = "none"
      BY <1>3, <2>3, RowsStep DEF Holding, Holds, InsertsDiffer
    <3>2. pc[s] = "report" => fills'[cur[s]] # 0
      BY <1>3, <2>3, BooksStep DEF Holding, Holds
    <3> QED BY <3>1, <3>2
  <2>4. \A o \in Orders : broker'[o].filled = broker[o].filled
                          /\ (broker[o].status # "absent" => broker'[o].status # "absent")
    BY BrokerStepOfProcess
  <2>5. ASSUME NEW s \in Processes, s # r PROVE Holds(s)'
    <3>1. /\ pc'[s] = pc[s] /\ todo'[s] = todo[s]
          /\ cur'[s] = cur[s] /\ seen'[s] = seen[s]
      BY <2>5, OthersKeep
    <3>2. cur[s] \in todo[s] => cur[s] \in Orders
      BY <1>3
    <3> QED BY <1>3, <2>1, <2>2, <2>3, <2>4, <2>5, <3>1, <3>2 DEF Holding, Holds
  <2>6. Holds(r)'
    <3>1. HeldNext(r)
      BY StepperHolds
    <3>2. \A o \in todo'[r] : orders[o].status # "none" /\ o \in Orders
      BY <1>3, <3>1 DEF HeldNext, Holding, Holds, Submitted
    <3>3. pc'[r] = "insert" => /\ cur'[r] \in Orders
                               /\ orders'[cur'[r]].status = "none"
                               /\ broker'[cur'[r]].status # "absent"
      <4> SUFFICES ASSUME NEW o \in Orders, SubmitOrder(r, o)
                   PROVE  orders'[o].status = "none" /\ broker'[o].status # "absent"
        BY <3>1 DEF HeldNext
      <4>1. broker[o].status = "absent" /\ orders' = orders
        BY DEF SubmitOrder, rowVars
      <4>2. orders[o].status = "none"
        BY <4>1 DEF RowsFollowBroker
      <4>3. broker'[o].status = "new"
        BY DEF SubmitOrder, TypeOK, BrokerOrder
      <4> QED BY <4>1, <4>2, <4>3
    <3> QED BY <2>1, <2>4, <3>1, <3>2, <3>3 DEF HeldNext, Holds
  <2> QED BY <2>5, <2>6 DEF Holding
<1>7. BookedWithinBroker'
  <2> SUFFICES ASSUME NEW o \in Orders PROVE fills'[o] <= broker'[o].filled
    BY DEF BookedWithinBroker
  <2>1. broker'[o].filled = broker[o].filled /\ fills[o] <= broker[o].filled
    BY BrokerStepOfProcess DEF BookedWithinBroker
  <2>2. fills'[o] = fills[o] \/ fills'[o] \in 1 .. broker[o].filled
    BY BooksStep DEF Holding, Holds
  <2> QED BY <1>2, <2>1, <2>2
<1>8. ASSUME Report(r)
      PROVE  /\ pc[r] = "report" /\ r \in Recorders /\ cur[r] \in Orders
             /\ cur[r] \in todo[r] /\ cur[r] \notin todo'[r]
             /\ fills[cur[r]] # 0 /\ orders[cur[r]].status \in Settled
             /\ alerts[cur[r]] = 0 /\ outcomes[cur[r]] = <<>>
             /\ alerts'[cur[r]] = 1
             /\ \/ outcomes'[cur[r]] = <<>>
                \/ /\ SideOf[cur[r]] = "sell"
                   /\ \E b \in OpeningBuys(cur[r]) : outcomes'[cur[r]] = <<b>>
  <2>1. pc[r] = "report" /\ Advance(r, cur[r])
        /\ alerts' = [alerts EXCEPT ![cur[r]] = @ + 1]
    BY <1>8 DEF Report
  <2>2. /\ r \in Recorders /\ cur[r] \in Orders /\ cur[r] \in todo[r]
        /\ fills[cur[r]] # 0 /\ orders[cur[r]].status \in Settled
    BY <1>3, <2>1 DEF Holding, Holds
  <2>3. alerts[cur[r]] = 0 /\ Len(outcomes[cur[r]]) <= 0
    BY <2>2 DEF NotYetReported
  <2>4. outcomes[cur[r]] = <<>>
    <3>1. outcomes[cur[r]] \in Seq(Orders) /\ Len(outcomes[cur[r]]) = 0
      BY <1>2, <2>2, <2>3 DEF TypeOK
    <3> QED BY <3>1
  <2>5. cur[r] \notin todo'[r]
    BY <2>1 DEF Advance, TypeOK
  <2>6. alerts'[cur[r]] = 1
    BY <2>1, <2>2, <2>3 DEF TypeOK
  <2>7. \/ outcomes'[cur[r]] = <<>>
        \/ /\ SideOf[cur[r]] = "sell"
           /\ \E b \in OpeningBuys(cur[r]) : outcomes'[cur[r]] = <<b>>
    <3>1. CASE outcomes' = outcomes
      BY <2>4, <3>1
    <3>2. ASSUME SideOf[cur[r]] = "sell", NEW b \in OpeningBuys(cur[r]),
                 outcomes' = [outcomes EXCEPT ![cur[r]] = Append(@, b)]
          PROVE  outcomes'[cur[r]] = <<b>>
      BY <2>2, <2>4, <3>2 DEF TypeOK
    <3> QED BY <1>8, <3>1, <3>2 DEF Report
  <2> QED BY <2>1, <2>2, <2>3, <2>4, <2>5, <2>6, <2>7
<1>9. NotYetReported'
  <2> SUFFICES ASSUME NEW o \in Orders
               PROVE  /\ orders'[o].status \notin Settled => alerts'[o] = 0 /\ fills'[o] = 0
                      /\ \A s \in Recorders : o \in todo'[s] => alerts'[o] = 0
                      /\ Len(outcomes'[o]) <= alerts'[o] /\ alerts'[o] <= 1
    BY DEF NotYetReported
  <2>1. ASSUME orders'[o].status \notin Settled
        PROVE  alerts'[o] = 0 /\ fills'[o] = 0
    <3>1. orders[o].status \notin Settled
      BY <2>1, RowsStep DEF Settled
    <3>2. alerts[o] = 0 /\ fills[o] = 0
      BY <3>1 DEF NotYetReported
    <3>3. fills'[o] = fills[o]
      BY <3>1, BooksStep DEF Holding, Holds
    <3>4. alerts'[o] = alerts[o]
      BY <1>8, <3>1, BooksStep
    <3> QED BY <3>2, <3>3, <3>4
  <2>2. ASSUME NEW s \in Recorders, o \in todo'[s]
        PROVE  alerts'[o] = 0
    <3>1. s \in Processes
      BY ConstantsTyped DEF ConstantsTyped
    <3>2. o \in todo[s] \/ o \in Submitted
      BY <2>2, <3>1, OthersKeep, StepperHolds DEF HeldNext
    <3>3. alerts[o] = 0
      BY <3>2 DEF NotYetReported, Submitted, Settled
    <3>4. ~(Report(r) /\ o = cur[r])
      BY <1>8, <2>2, OneRecorder
    <3> QED BY <3>3, <3>4, BooksStep
  <2>3. Len(outcomes'[o]) <= alerts'[o] /\ alerts'[o] <= 1
    <3>1. CASE Report(r) /\ o = cur[r]
      <4>1. alerts'[o] = 1
        BY <1>8, <3>1
      <4>2. outcomes'[o] = <<>> \/ \E b : outcomes'[o] = <<b>>
        BY <1>8, <3>1
      <4>3. Len(outcomes'[o]) <= 1
        <5>1. CASE outcomes'[o] = <<>>
          <6>1. Len(outcomes'[o]) = 0
            BY <5>1
          <6> QED BY <6>1
        <5>2. ASSUME NEW b, outcomes'[o] = <<b>> PROVE Len(outcomes'[o]) <= 1
          <6>1. Len(outcomes'[o]) = 1
            BY <5>2
          <6> QED BY <6>1
        <5> QED BY <4>2, <5>1, <5>2
      <4> QED BY <4>1, <4>3
    <3>2. CASE UNCHANGED <<alerts[o], outcomes[o]>>
      BY <3>2 DEF NotYetReported
    <3> QED BY <3>1, <3>2, BooksStep
  <2> QED BY <2>1, <2>2, <2>3
<1>10. ReportsAreBooked'
  <2> DEFINE Linked(o, b) ==
        /\ SideOf[o] = "sell" /\ SideOf[b] = "buy" /\ SymbolOf[b] = SymbolOf[o]
        /\ alerts'[o] > 0 /\ orders'[b].status = "filled"
  <2> SUFFICES ASSUME NEW o \in Orders
               PROVE  /\ alerts'[o] > 0 => fills'[o] > 0
                      /\ \A i \in 1 .. Len(outcomes'[o]) : Linked(o, outcomes'[o][i])
    BY DEF ReportsAreBooked
  <2>0. \A b \in Orders : orders[b].status = "filled" => orders'[b].status = "filled"
    BY RowsStep
  <2>1. CASE Report(r) /\ o = cur[r]
    <3>1. fills'[o] > 0
      <4>1. fills'[o] \in 0 .. Quantity
        BY <1>1 DEF TypeOK
      <4>2. fills'[o] # 0
        BY <1>8, <2>1, BooksStep
      <4> QED BY <4>1, <4>2, ConstantsTyped DEF ConstantsTyped
    <3>2. ASSUME NEW b \in OpeningBuys(o), SideOf[o] = "sell" PROVE Linked(o, b)
      <4>1. CASE ParentOf[o] # NoOrder
        <5>1. b = ParentOf[o] /\ b \in Orders /\ SideOf[b] = "buy" /\ SymbolOf[b] = SymbolOf[o]
          BY <3>2, <4>1, ConstantsTyped DEF OpeningBuys, ConstantsTyped
        <5>2. broker[o].status # "absent"
          BY <1>8, <2>1 DEF Holding, Holds, RowsFollowBroker
        <5>3. orders[b].status = "filled"
          BY <4>1, <5>1, <5>2 DEF RowsFollowBroker
        <5> QED BY <1>8, <2>0, <2>1, <3>2, <5>1, <5>3
      <4>2. CASE ParentOf[o] = NoOrder
        BY <1>8, <2>0, <2>1, <3>2, <4>2 DEF OpeningBuys
      <4> QED BY <4>1, <4>2
    <3>3. ASSUME NEW i \in 1 .. Len(outcomes'[o]) PROVE Linked(o, outcomes'[o][i])
      <4>1. PICK b \in OpeningBuys(o) : SideOf[o] = "sell" /\ outcomes'[o] = <<b>>
        BY <1>8, <2>1, <3>3
      <4>2. outcomes'[o][i] = b
        BY <3>3, <4>1
      <4>3. Linked(o, b)
        BY <3>2, <4>1
      <4> QED BY <4>2, <4>3
    <3> QED BY <3>1, <3>3
  <2>2. CASE UNCHANGED <<alerts[o], outcomes[o]>>
    <3>1. alerts'[o] > 0 => fills'[o] > 0
      BY <1>2, <2>2, BooksStep DEF ReportsAreBooked
    <3>2. ASSUME NEW i \in 1 .. Len(outcomes'[o]) PROVE Linked(o, outcomes'[o][i])
      <4>1. outcomes[o][i] \in Orders /\ i \in 1 .. Len(outcomes[o])
        BY <2>2, <3>2 DEF TypeOK
      <4> QED BY <2>0, <2>2, <4>1 DEF ReportsAreBooked
    <3> QED BY <3>1, <3>2
  <2> QED BY <2>1, <2>2, BooksStep
<1> QED BY <1>1, <1>4, <1>5, <1>6, <1>7, <1>9, <1>10

LEMMA Preserved == IInv /\ [Next]_vars => IInv'
<1> SUFFICES ASSUME IInv, [Next]_vars PROVE IInv'
  OBVIOUS
<1>1. CASE Next
  BY <1>1, BrokerPreserves, ProcessPreserves DEF Next
<1>2. CASE UNCHANGED vars
  BY <1>2 DEF vars, brokerVars, rowVars, reportVars, localVars, IInv, TypeOK,
              RowsFollowBroker, Holding, Holds, InsertsDiffer, NotYetReported,
              BookedWithinBroker, ReportsAreBooked
<1> QED BY <1>1, <1>2

LEMMA Invariance == Spec => []IInv
BY InvInit, Preserved, PTL DEF Spec
-----------------------------------------------------------------------------
(* The safety properties.                                                  *)

\* Every reachable state is typed.
THEOREM TypeCorrect == Spec => []TypeOK
BY Invariance, PTL DEF IInv

\* Whatever processes reconcile, and whatever fails, no fill row holds more
\* than the broker has executed.
THEOREM BookedWithin == Spec => []BookedWithinBroker
BY Invariance, PTL DEF IInv

\* Whatever is retried, a fill is announced and a trade recorded at most once.
THEOREM Reported == Spec => []ReportedOnce
<1>1. IInv => ReportedOnce
  <2> SUFFICES ASSUME IInv, NEW o \in Orders
               PROVE  alerts[o] <= 1 /\ Len(outcomes[o]) <= 1
    BY DEF ReportedOnce
  <2>1. Len(outcomes[o]) <= alerts[o] /\ alerts[o] <= 1
    BY DEF IInv, NotYetReported
  <2>2. alerts[o] \in Nat /\ outcomes[o] \in Seq(Orders)
    BY DEF IInv, TypeOK
  <2> QED BY <2>1, <2>2
<1> QED BY <1>1, Invariance, PTL

\* What was announced is booked, and an outcome joins a booked sell to a filled
\* buy of its symbol.
THEOREM ReportsBooked == Spec => []ReportsAreBooked
BY Invariance, PTL DEF IInv
-----------------------------------------------------------------------------
(* The action properties.                                                  *)

\* The broker and the clock never touch the rows.
LEMMA BrokerLeavesRows ==
  ASSUME BrokerStep PROVE UNCHANGED <<orders, fills>>
BY DEF BrokerStep, BrokerFill, BrokerCancel, BrokerSuspend, Age, rowVars

\* A settled row and a booked fill never change again, for any number of
\* processes, orders and faults.
THEOREM SettledForeverHolds == Spec => SettledForever
<1> DEFINE Kept == \A o \in Orders :
       /\ orders[o].status \in {"filled", "cancelled"} => orders'[o] = orders[o]
       /\ fills[o] # 0 => fills'[o] = fills[o]
<1>1. IInv /\ [Next]_vars => [Kept]_vars
  <2> SUFFICES ASSUME IInv, Next, NEW o \in Orders
               PROVE  /\ orders[o].status \in {"filled", "cancelled"} => orders'[o] = orders[o]
                      /\ fills[o] # 0 => fills'[o] = fills[o]
    OBVIOUS
  <2>1. CASE BrokerStep
    BY <2>1, BrokerLeavesRows
  <2>2. ASSUME NEW r \in Processes, ProcessStep(r)
        PROVE  /\ orders[o].status \in {"filled", "cancelled"} => orders'[o] = orders[o]
               /\ fills[o] # 0 => fills'[o] = fills[o]
    BY <2>2, RowsStep, BooksStep DEF IInv
  <2> QED BY <2>1, <2>2 DEF Next
<1> QED BY <1>1, Invariance, PTL DEF Spec, SettledForever

\* What a change of one row changes in the ledger.
LEMMA OneRow ==
  ASSUME orders \in [Orders -> Row], orders' \in [Orders -> Row], NEW o \in Orders,
         \A p \in Orders : p # o => orders'[p] = orders[p]
  PROVE  /\ OrderStatus[o] = orders[o].status
         /\ OrderStatus' = [OrderStatus EXCEPT ![o] = orders'[o].status]
         /\ SettledQuantity[o] = orders[o].filled_qty
         /\ SettledQuantity' = [SettledQuantity EXCEPT ![o] = orders'[o].filled_qty]
BY DEF OrderStatus, SettledQuantity

\* What a process does to the order book: a row is opened or settled, or a settled row
\* is booked with the quantity that the process has seen.
SettlesRow(o) == Ledger!Open(o) \/ Ledger!Fill(o) \/ Ledger!Cancel(o)

Books(r) ==
  /\ pc[r] = "apply" /\ cur[r] \in Orders
  /\ orders[cur[r]].status \in Settled /\ fills[cur[r]] = 0
  /\ seen[r].filled \in 1 .. Quantity
  /\ fills' = [fills EXCEPT ![cur[r]] = seen[r].filled]
  /\ UNCHANGED orders

LEMMA LedgerEffect ==
  ASSUME IInv, NEW r \in Processes, ProcessStep(r)
  PROVE  UNCHANGED <<orders, fills>> \/ (\E p \in Orders : SettlesRow(p)) \/ Books(r)
<1> DEFINE o == cur[r]
<1>1. TypeOK /\ TypeOK' /\ Holding
  BY ProcessTyped DEF IInv
<1>2. /\ orders \in [Orders -> Row] /\ orders' \in [Orders -> Row]
      /\ fills \in [Orders -> 0 .. Quantity] /\ fills' \in [Orders -> 0 .. Quantity]
  BY <1>1 DEF TypeOK
<1>0. pc[r] \in {"mark", "apply"} => seen[r].filled \in 1 .. Quantity
  <2>1. seen[r].filled \in 0 .. Quantity
    BY <1>1 DEF TypeOK, BrokerOrder
  <2>2. ASSUME pc[r] \in {"mark", "apply"} PROVE seen[r].filled # 0
    BY <1>1, <2>2 DEF Holding, Holds
  <2> QED BY <2>1, <2>2, ConstantsTyped DEF ConstantsTyped
<1>3. CASE UNCHANGED <<orders, fills>>
  BY <1>3
<1>4. ASSUME NEW p \in Orders, orders'[p] # orders[p]
      PROVE  SettlesRow(p)
  <2>1. p = o /\ fills' = fills
    <3>1. p = o /\ pc[r] # "apply"
      BY <1>1, <1>4, RowsStep
    <3>2. \A q \in Orders : fills'[q] = fills[q]
      BY <1>1, <3>1, BooksStep
    <3> QED BY <1>2, <3>1, <3>2
  <2>2. \A q \in Orders : q # p => orders'[q] = orders[q]
    BY <1>1, <2>1, RowsStep
  <2>3. /\ OrderStatus[p] = orders[p].status
        /\ OrderStatus' = [OrderStatus EXCEPT ![p] = orders'[p].status]
        /\ SettledQuantity[p] = orders[p].filled_qty
        /\ SettledQuantity' = [SettledQuantity EXCEPT ![p] = orders'[p].filled_qty]
    BY <1>2, <2>2, OneRow
  <2>4. CASE /\ pc[r] = "mark" /\ orders[p].status = "submitted"
             /\ orders'[p].status = "filled" /\ orders'[p].filled_qty = seen[r].filled
    <3>1. seen[r].filled \in 1 .. Quantity
      BY <1>0, <2>4
    <3>2. Ledger!Fill(p)
      BY <2>1, <2>3, <2>4, <3>1 DEF Ledger!Fill
    <3> QED BY <3>2 DEF SettlesRow
  <2>5. CASE orders'[p].filled_qty = orders[p].filled_qty
    <3>1. SettledQuantity' = SettledQuantity
      BY <2>3, <2>5 DEF SettledQuantity
    <3>2. CASE orders[p].status = "none" /\ orders'[p].status = "submitted"
      <4>1. Ledger!Open(p)
        BY <2>1, <2>3, <3>1, <3>2 DEF Ledger!Open
      <4> QED BY <4>1 DEF SettlesRow
    <3>3. CASE orders[p].status = "submitted" /\ orders'[p].status = "cancelled"
      <4>1. Ledger!Cancel(p)
        BY <2>1, <2>3, <3>1, <3>3 DEF Ledger!Cancel
      <4> QED BY <4>1 DEF SettlesRow
    <3> QED BY <1>1, <1>4, <2>4, <3>2, <3>3, RowsStep
  <2> QED BY <1>1, <1>4, <2>4, <2>5, RowsStep
<1>5. ASSUME NEW p \in Orders, fills'[p] # fills[p], orders' = orders
      PROVE  Books(r)
  <2>1. pc[r] = "apply" /\ p = o /\ fills[p] = 0 /\ fills'[p] = seen[r].filled
    BY <1>1, <1>5, BooksStep
  <2>2. \A q \in Orders : q # p => fills'[q] = fills[q]
    BY <1>1, <2>1, BooksStep
  <2>3. fills' = [fills EXCEPT ![p] = seen[r].filled]
    BY <1>2, <2>1, <2>2
  <2>4. seen[r].filled \in 1 .. Quantity
    BY <1>0, <2>1
  <2>5. orders[p].status \in Settled
    BY <1>1, <2>1 DEF Holding, Holds
  <2> QED BY <1>5, <2>1, <2>3, <2>4, <2>5 DEF Books
<1>6. CASE orders' # orders
  <2>1. PICK p \in Orders : orders'[p] # orders[p]
    BY <1>2, <1>6
  <2> QED BY <1>4, <2>1
<1>7. CASE orders' = orders /\ fills' # fills
  <2>1. PICK p \in Orders : fills'[p] # fills[p]
    BY <1>2, <1>7
  <2> QED BY <1>5, <1>7, <2>1
<1> QED BY <1>3, <1>6, <1>7

\* Every step of the processes on the order book is a step of the ledger, or none.
THEOREM LedgerRefinement == Spec => ImplementsLedger
<1>1. Init => Ledger!Init
  BY DEF Init, Ledger!Init, OrderStatus, SettledQuantity
<1>2. IInv /\ [Next]_vars => [Ledger!Next]_Ledger!vars
  <2> SUFFICES ASSUME IInv, Next
               PROVE  Ledger!Next \/ UNCHANGED Ledger!vars
    BY DEF vars, rowVars, Ledger!vars, OrderStatus, SettledQuantity
  <2>1. CASE UNCHANGED <<orders, fills>>
    BY <2>1 DEF Ledger!vars, OrderStatus, SettledQuantity
  <2>2. CASE \E p \in Orders : SettlesRow(p)
    BY <2>2 DEF SettlesRow, Ledger!Next
  <2>3. ASSUME NEW r \in Processes, Books(r) PROVE Ledger!Next
    <3>1. Ledger!Book(cur[r])
      BY <2>3 DEF Books, Ledger!Book, OrderStatus, SettledQuantity, Settled
    <3> QED BY <2>3, <3>1 DEF Books, Ledger!Next
  <2> QED BY <2>1, <2>2, <2>3, BrokerLeavesRows, LedgerEffect DEF Next
<1> QED BY <1>1, <1>2, Invariance, PTL DEF Spec, ImplementsLedger, Ledger!Spec
-----------------------------------------------------------------------------
(* One reconciling process.                                                *)

\* Its list holds pending rows only, what it has read is still what is there, and
\* a row that it is about to book is filled with the quantity it has seen.
SoleHolds(r) ==
  /\ \A o \in todo[r] : \/ orders[o].status = "submitted"
                        \/ o = cur[r] /\ pc[r] \in {"cash", "apply", "report"}
  /\ pc[r] \in {"cash", "apply"} => /\ orders[cur[r]].status = "filled"
                                    /\ orders[cur[r]].filled_qty = seen[r].filled
  /\ pc[r] \in {"apply", "mtm"} => cashRead[r] = cash

SoleInv == \A r \in Processes : SoleHolds(r)

\* The rest of the list stays pending while the process goes to the next order.
LEMMA AdvanceSole ==
  ASSUME TypeOK, SoleInv, NEW r \in Processes, NEW o, Advance(r, o),
         \A p \in todo[r] \ {o} : orders[p].status = "submitted" /\ orders'[p] = orders[p]
  PROVE  SoleHolds(r)'
BY DEF TypeOK, Advance, SoleHolds

\* What the only process does keeps SoleInv.
LEMMA SoleStep ==
  ASSUME IInv, SoleInv, NEW r \in Processes, ProcessStep(r)
  PROVE  SoleHolds(r)'
<1> USE DEF IInv
<1>a. /\ pc \in [Processes -> Calls] /\ todo \in [Processes -> SUBSET Orders]
      /\ cur \in [Processes -> Orders \cup {NoOrder}] /\ seen \in [Processes -> BrokerOrder]
      /\ cashRead \in [Processes -> Int] /\ orders \in [Orders -> Row]
  BY DEF TypeOK
<1>b. pc[r] \in {"mark", "cancel", "cash", "apply", "report"} => cur[r] \in todo[r]
  BY DEF Holding, Holds
<1>c. pc[r] \in {"idle", "insert", "mtm"} => todo[r] = {}
  BY DEF Holding, Holds
<1>d. SoleHolds(r)
  BY DEF SoleInv
<1>1. CASE (\E o \in Orders : SubmitOrder(r, o)) \/ MarkToMarketRead(r)
  BY <1>1, <1>a, <1>c DEF SubmitOrder, MarkToMarketRead, SoleHolds, rowVars
<1>2. CASE InsertOrder(r) \/ MarkToMarketRecord(r) \/ Crash(r)
  BY <1>2, <1>a, <1>c DEF InsertOrder, MarkToMarketRecord, Crash, SoleHolds
<1>3. CASE ListPending(r)
  BY <1>3, <1>a DEF ListPending, Submitted, SoleHolds, rowVars
<1>4. CASE GetOrder(r)
  <2>1. PICK o \in todo[r] :
          \/ \E call \in {"mark", "cancel"} : Take(r, o, call)
          \/ Advance(r, o)
    BY <1>4 DEF GetOrder
  <2>2. pc[r] = "get" /\ UNCHANGED <<orders, cash>>
    BY <1>4 DEF GetOrder, rowVars
  <2>3. CASE Advance(r, o)
    BY <2>2, <2>3, <1>d, AdvanceSole DEF SoleHolds
  <2>4. CASE \E call \in {"mark", "cancel"} : Take(r, o, call)
    BY <2>2, <2>4, <1>a, <1>d DEF Take, SoleHolds
  <2> QED BY <2>1, <2>3, <2>4
<1>5. CASE MarkFilled(r)
  <2>1. pc[r] = "mark" /\ cur[r] \in Orders /\ orders[cur[r]].status = "submitted"
    BY <1>5, <1>a, <1>b, <1>d DEF MarkFilled, SoleHolds
  <2>2. CASE seen[r].at # 0
    <3>1. /\ orders' = [orders EXCEPT ![cur[r]] = [status |-> "filled",
                          filled_qty |-> seen[r].filled, filled_at |-> seen[r].at]]
          /\ Then(r, "cash")
      BY <1>5, <2>1, <2>2 DEF MarkFilled, Settle
    <3>2. \A p \in Orders : p # cur[r] => orders'[p] = orders[p]
      BY <1>a, <3>1
    <3>3. orders'[cur[r]].status = "filled" /\ orders'[cur[r]].filled_qty = seen[r].filled
      BY <1>a, <2>1, <3>1
    <3>4. pc'[r] = "cash" /\ cur'[r] = cur[r] /\ seen'[r] = seen[r] /\ todo'[r] = todo[r]
      BY <1>a, <3>1 DEF Then
    <3> QED BY <1>a, <1>d, <2>1, <3>2, <3>3, <3>4 DEF SoleHolds
  <2>3. CASE seen[r].at = 0
    <3>1. Advance(r, cur[r]) /\ UNCHANGED orders
      BY <1>5, <2>3 DEF MarkFilled
    <3> QED BY <2>1, <3>1, <1>d, AdvanceSole DEF SoleHolds
  <2> QED BY <2>2, <2>3
<1>6. CASE MarkCancelled(r)
  <2>1. /\ Settle(cur[r], [orders[cur[r]] EXCEPT !.status = "cancelled"])
        /\ Advance(r, cur[r]) /\ pc[r] = "cancel"
    BY <1>6 DEF MarkCancelled
  <2>2. \A p \in Orders : p # cur[r] => orders'[p] = orders[p]
    BY <1>a, <2>1 DEF Settle
  <2> QED BY <1>a, <1>d, <2>1, <2>2, AdvanceSole DEF SoleHolds
<1>7. CASE CurrentCash(r)
  BY <1>7, <1>a, <1>d DEF CurrentCash, Then, SoleHolds, rowVars
<1>8. CASE ApplyFill(r)
  <2>1. pc[r] = "apply" /\ UNCHANGED orders
    BY <1>8 DEF ApplyFill
  <2>2. CASE r \in Recorders
    <3>1. Then(r, "report")
      BY <1>8, <2>2 DEF ApplyFill
    <3> QED BY <1>a, <1>d, <2>1, <3>1 DEF Then, SoleHolds
  <2>3. CASE r \notin Recorders
    <3>1. Advance(r, cur[r])
      BY <1>8, <2>3 DEF ApplyFill
    <3> QED BY <1>d, <2>1, <3>1, AdvanceSole DEF SoleHolds
  <2> QED BY <2>2, <2>3
<1>9. CASE Report(r)
  BY <1>9, <1>d, AdvanceSole DEF Report, SoleHolds, rowVars
<1>10. CASE OrderError(r)
  <2>1. UNCHANGED orders
    BY <1>10 DEF OrderError, rowVars
  <2>2. PICK o : /\ Advance(r, o)
                 /\ o = cur[r] \/ pc[r] = "get"
    BY <1>10 DEF OrderError
  <2> QED BY <1>d, <2>1, <2>2, AdvanceSole DEF SoleHolds
<1> QED BY <1>1, <1>2, <1>3, <1>4, <1>5, <1>6, <1>7, <1>8, <1>9, <1>10
        DEF ProcessStep, Continue

LEMMA SoleInit == ASSUME Init PROVE SoleInv
BY DEF Init, SoleInv, SoleHolds

LEMMA SolePreserved ==
  ASSUME \A r, s \in Processes : r = s, IInv, SoleInv, [Next]_vars
  PROVE  SoleInv'
<1>1. CASE BrokerStep
  BY <1>1 DEF BrokerStep, BrokerFill, BrokerCancel, BrokerSuspend, Age, rowVars, localVars,
              SoleInv, SoleHolds
<1>2. ASSUME NEW r \in Processes, ProcessStep(r) PROVE SoleInv'
  <2>1. SoleHolds(r)'
    BY <1>2, SoleStep
  <2>2. ASSUME NEW s \in Processes PROVE SoleHolds(s)'
    <3>1. s = r
      OBVIOUS
    <3> QED BY <2>1, <3>1
  <2> QED BY <2>2 DEF SoleInv
<1>3. CASE UNCHANGED vars
  BY <1>3 DEF vars, rowVars, localVars, SoleInv, SoleHolds
<1> QED BY <1>1, <1>2, <1>3 DEF Next

\* In every reachable state of a single process.
LEMMA SoleInvariance ==
  ASSUME \A r, s \in Processes : r = s
  PROVE  Spec => [](IInv /\ SoleInv)
<1>1. Init => IInv /\ SoleInv
  BY InvInit, SoleInit
<1>2. IInv /\ SoleInv /\ [Next]_vars => (IInv /\ SoleInv)'
  BY Preserved, SolePreserved
<1> QED BY <1>1, <1>2, PTL DEF Spec

\* What the fills have moved, order by order.
Deltas == [o \in Orders |-> CashDelta(o, fills[o])]

LEMMA CashIsDeltas ==
  MapThenSumSet(LAMBDA o : CashDelta(o, fills[o]), Orders) = SumOver(Deltas, Orders)
BY Zenon DEF SumOver, Deltas, MapThenSumSet, MapThenFoldSet

CashInv == cash = StartCash + SumOver(Deltas, Orders)

LEMMA CashDeltaTyped ==
  ASSUME NEW o \in Orders, NEW q \in 0 .. Quantity PROVE CashDelta(o, q) \in Int
<1>1. q \in Int /\ Price[o] \in Int
  BY ConstantsTyped DEF ConstantsTyped
<1>2. Signed(o, q) \in Int
  BY <1>1 DEF Signed
<1> QED BY <1>1, <1>2 DEF CashDelta

LEMMA DeltasTyped == ASSUME TypeOK PROVE \A o \in Orders : Deltas[o] \in Int
BY CashDeltaTyped DEF TypeOK, Deltas

\* An order without a fill has moved nothing.
LEMMA NothingMoved ==
  ASSUME NEW o \in Orders PROVE CashDelta(o, 0) = 0
<1>1. Price[o] \in Int
  BY ConstantsTyped DEF ConstantsTyped
<1>2. \A i \in Int : Signed(o, i) = IF SideOf[o] = "buy" THEN i ELSE -i
  BY DEF Signed
<1>3. Signed(o, 0) = 0
  BY <1>2
<1>4. \A i \in Int : CashDelta(o, i) = -(Signed(o, i) * Price[o])
  BY DEF CashDelta
<1>5. \A i \in Int : i * Price[o] = 0 => -(i * Price[o]) = i * Price[o]
  BY <1>1
<1>6. 0 * Price[o] = 0
  BY <1>1
<1> QED BY <1>3, <1>4, <1>5, <1>6

LEMMA CashInit == ASSUME Init, IsFiniteSet(Orders) PROVE CashInv
<1>1. \A o \in Orders : Deltas[o] = 0
  BY NothingMoved DEF Init, Deltas
<1>2. SumOver(Deltas, Orders) = 0
  BY <1>1, SumOfZeros
<1> QED BY <1>2, ConstantsTyped DEF Init, CashInv, ConstantsTyped

\* The cash that a booking starts from is the cash of all the other bookings.
LEMMA CashPreserved ==
  ASSUME IsFiniteSet(Orders), IInv, SoleInv, CashInv, [Next]_vars
  PROVE  CashInv'
<1> USE DEF IInv
<1>a. SumOver(Deltas, Orders) \in Int
  BY DeltasTyped, SumType
<1>1. CASE UNCHANGED <<fills, cash>>
  BY <1>1 DEF CashInv, Deltas
<1>2. ASSUME NEW r \in Processes, MarkToMarketRecord(r) PROVE CashInv'
  BY <1>2 DEF MarkToMarketRecord, SoleInv, SoleHolds, CashInv, Deltas
<1>3. ASSUME NEW r \in Processes, ApplyFill(r), fills[cur[r]] = 0 PROVE CashInv'
  <2> DEFINE o == cur[r]
             q == seen[r].filled
  <2>1. o \in Orders /\ cashRead[r] = cash
    BY <1>3 DEF ApplyFill, Holding, Holds, TypeOK, SoleInv, SoleHolds
  <2>2. fills' = [fills EXCEPT ![o] = q] /\ cash' = cash + CashDelta(o, q)
    BY <1>3, <2>1 DEF ApplyFill, ApplyPaperFill
  <2>3. fills \in [Orders -> 0 .. Quantity]
    BY DEF TypeOK
  <2>4. /\ Deltas[o] = 0 /\ (Deltas')[o] = CashDelta(o, q)
        /\ \A p \in Orders : p # o => (Deltas')[p] = Deltas[p]
    BY <1>3, <2>1, <2>2, <2>3, NothingMoved DEF Deltas
  <2>5. (Deltas')[o] \in Int /\ \A p \in Orders : Deltas[p] \in Int
    <3>1. q \in 0 .. Quantity
      BY <1>3 DEF TypeOK, BrokerOrder
    <3>2. CashDelta(o, q) \in Int
      BY <2>1, <3>1, CashDeltaTyped
    <3> QED BY <2>4, <3>2, DeltasTyped
  <2>6. SumOver(Deltas', Orders) = SumOver(Deltas, Orders) + ((Deltas')[o] - Deltas[o])
    BY <2>1, <2>4, <2>5, SumChange
  <2> HIDE DEF o, q
  <2> QED BY <1>a, <2>2, <2>4, <2>5, <2>6, ConstantsTyped DEF CashInv, ConstantsTyped
<1>4. ASSUME NEW r \in Processes, ApplyFill(r), fills[cur[r]] # 0 PROVE CashInv'
  BY <1>1, <1>4 DEF ApplyFill, ApplyPaperFill
<1> QED
  BY <1>1, <1>2, <1>3, <1>4
     DEF Next, vars, rowVars, BrokerStep, BrokerFill, BrokerCancel, BrokerSuspend, Age,
         ProcessStep, Continue, SubmitOrder, InsertOrder, ListPending, MarkToMarketRead,
         GetOrder, MarkFilled, MarkCancelled, CurrentCash, Report, OrderError, Crash

\* While one process reconciles, the cash of the latest snapshot is the starting cash
\* moved by every fill, whatever it retries and whenever it dies (service.py).
THEOREM CashMatches ==
  ASSUME IsFiniteSet(Orders), \A r, s \in Processes : r = s
  PROVE  Spec => []CashMatchesFills
<1>1. Init => CashInv
  BY CashInit
<1>2. (IInv /\ SoleInv) /\ CashInv /\ [Next]_vars => CashInv'
  BY CashPreserved
<1>3. CashInv => CashMatchesFills
  BY CashIsDeltas DEF CashInv, CashMatchesFills
<1> QED BY <1>1, <1>2, <1>3, SoleInvariance, PTL DEF Spec

\* A single process books a filled row, with the quantity recorded in it, so that its
\* order book implements the exact ledger as well.
THEOREM ExactLedgerRefinement ==
  ASSUME \A r, s \in Processes : r = s
  PROVE  Spec => ImplementsExactLedger
<1>1. Init => ExactLedger!Init
  BY DEF Init, ExactLedger!Init, OrderStatus, SettledQuantity
<1>2. (IInv /\ SoleInv) /\ [Next]_vars => [ExactLedger!Next]_ExactLedger!vars
  <2> SUFFICES ASSUME IInv, SoleInv, Next
               PROVE  ExactLedger!Next \/ UNCHANGED ExactLedger!vars
    BY DEF vars, rowVars, ExactLedger!vars, OrderStatus, SettledQuantity
  <2>1. CASE UNCHANGED <<orders, fills>>
    BY <2>1 DEF ExactLedger!vars, OrderStatus, SettledQuantity
  <2>2. ASSUME NEW p \in Orders, SettlesRow(p) PROVE ExactLedger!Next
    <3>1. ExactLedger!Open(p) \/ ExactLedger!Fill(p) \/ ExactLedger!Cancel(p)
      BY <2>2 DEF SettlesRow, Ledger!Open, Ledger!Fill, Ledger!Cancel,
                  ExactLedger!Open, ExactLedger!Fill, ExactLedger!Cancel
    <3> QED BY <3>1 DEF ExactLedger!Next
  <2>3. ASSUME NEW r \in Processes, Books(r) PROVE ExactLedger!Next
    <3>1. orders[cur[r]].status = "filled" /\ orders[cur[r]].filled_qty = seen[r].filled
      BY <2>3 DEF Books, SoleInv, SoleHolds
    <3>2. ExactLedger!Book(cur[r])
      BY <2>3, <3>1 DEF Books, ExactLedger!Book, OrderStatus, SettledQuantity
    <3> QED BY <2>3, <3>2 DEF Books, ExactLedger!Next
  <2> QED BY <2>1, <2>2, <2>3, BrokerLeavesRows, LedgerEffect DEF Next
<1> QED BY <1>1, <1>2, SoleInvariance, PTL DEF Spec, ImplementsExactLedger, ExactLedger!Spec
-----------------------------------------------------------------------------
(* Closed trades, where the recorder is alone.                             *)

\* A booked close has its outcome, or the process is about to report it.
TradeInv ==
  faults = 0 =>
    \A o \in Orders :
      fills[o] > 0 /\ ParentOf[o] # NoOrder =>
        outcomes[o] = <<ParentOf[o]>> \/ \E r \in Processes : pc[r] = "report" /\ cur[r] = o

\* The report of a close joins it to its parent, or costs a fault.
LEMMA ReportOfClose ==
  ASSUME IInv, NEW r \in Processes, Report(r), faults' = 0, ParentOf[cur[r]] # NoOrder
  PROVE  outcomes'[cur[r]] = <<ParentOf[cur[r]]>>
<1> DEFINE o == cur[r]
           b == ParentOf[o]
<1>1. o \in Orders /\ o \in todo[r] /\ r \in Recorders /\ pc[r] = "report"
  BY DEF IInv, Report, Holding, Holds, TypeOK
<1>2. SideOf[o] = "sell" /\ OpeningBuys(o) = {b}
  BY <1>1, ConstantsTyped DEF OpeningBuys, ConstantsTyped
<1>3. outcomes[o] = <<>>
  <2>1. outcomes[o] \in Seq(Orders) /\ Len(outcomes[o]) <= 0
    BY <1>1 DEF IInv, NotYetReported, TypeOK
  <2> QED BY <2>1
<1>4. ~(faults' = faults + 1)
  BY ConstantsTyped DEF IInv, TypeOK, ConstantsTyped
<1>5. outcomes' = [outcomes EXCEPT ![o] = Append(@, b)]
  BY <1>2, <1>4 DEF Report
<1>6. outcomes'[o] = Append(<<>>, b)
  BY <1>1, <1>3, <1>5 DEF IInv, TypeOK
<1> QED BY <1>6

LEMMA TradePreserved ==
  ASSUME Recorders = Processes, IInv, TradeInv, [Next]_vars
  PROVE  TradeInv'
<1> USE DEF IInv
<1>1. CASE UNCHANGED vars
  BY <1>1 DEF vars, rowVars, reportVars, localVars, TradeInv
<1>2. CASE BrokerStep
  BY <1>2 DEF BrokerStep, BrokerFill, BrokerCancel, BrokerSuspend, Age, rowVars, reportVars,
              localVars, TradeInv
<1>3. ASSUME NEW r \in Processes, ProcessStep(r) PROVE TradeInv'
  <2> SUFFICES ASSUME faults' = 0, NEW o \in Orders, fills'[o] > 0, ParentOf[o] # NoOrder
               PROVE  \/ outcomes'[o] = <<ParentOf[o]>>
                      \/ \E s \in Processes : pc'[s] = "report" /\ cur'[s] = o
    BY DEF TradeInv
  <2>1. faults = 0 /\ ~(faults' = faults + 1)
    <3>1. faults' \in {faults, faults + 1}
      BY <1>3 DEF ProcessStep, Continue, SubmitOrder, InsertOrder, ListPending,
                  MarkToMarketRead, MarkToMarketRecord, GetOrder, MarkFilled, MarkCancelled,
                  CurrentCash, ApplyFill, Report, OrderError, Crash
    <3>2. faults \in Nat
      BY ConstantsTyped DEF TypeOK, ConstantsTyped
    <3> QED BY <3>1, <3>2
  <2>2. CASE Report(r) /\ cur[r] = o
    BY <2>2, ReportOfClose
  <2>3. CASE ApplyFill(r) /\ cur[r] = o
    <3>1. Then(r, "report")
      BY <1>3, <2>3 DEF ApplyFill
    <3>2. pc'[r] = "report" /\ cur'[r] = o
      BY <2>3, <3>1 DEF Then, TypeOK
    <3> QED BY <3>2
  <2>4. CASE ~(Report(r) /\ cur[r] = o) /\ ~(ApplyFill(r) /\ cur[r] = o)
    <3>1. outcomes'[o] = outcomes[o]
      BY <1>3, <2>4, BooksStep
    <3>2. fills'[o] = fills[o]
      BY <1>3, <2>4 DEF ProcessStep, Continue, SubmitOrder, InsertOrder, ListPending,
                  MarkToMarketRead, MarkToMarketRecord, GetOrder, MarkFilled, MarkCancelled,
                  CurrentCash, ApplyFill, ApplyPaperFill, Report, OrderError, Crash, rowVars,
                  TypeOK
    <3>3. ASSUME NEW s \in Processes, pc[s] = "report", cur[s] = o
          PROVE  pc'[s] = "report" /\ cur'[s] = o
      <4>1. CASE s # r
        BY <1>3, <3>3, <4>1, OthersKeep
      <4>2. CASE s = r
        BY <1>3, <2>1, <2>4, <3>3, <4>2
           DEF ProcessStep, Continue, SubmitOrder, InsertOrder, ListPending,
               MarkToMarketRead, MarkToMarketRecord, GetOrder, MarkFilled, MarkCancelled,
               CurrentCash, ApplyFill, OrderError, Crash
      <4> QED BY <4>1, <4>2
    <3> QED BY <2>1, <3>1, <3>2, <3>3 DEF TradeInv
  <2> QED BY <2>2, <2>3, <2>4
<1> QED BY <1>1, <1>2, <1>3 DEF Next

\* Where the recorder is the only process and nothing has failed, every booked close
\* has one outcome, with the buy that it was made for (_record_trade_outcome).
THEOREM ClosedTrades ==
  ASSUME Recorders = Processes
  PROVE  Spec => []ClosedTradeHasOutcome
<1>1. Init => TradeInv
  BY DEF Init, TradeInv
<1>2. IInv /\ TradeInv /\ [Next]_vars => TradeInv'
  BY TradePreserved
<1>3. TradeInv => ClosedTradeHasOutcome
  BY DEF TradeInv, ClosedTradeHasOutcome
<1> QED BY <1>1, <1>2, <1>3, Invariance, PTL DEF Spec
=============================================================================
