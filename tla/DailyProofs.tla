----------------------------- MODULE DailyProofs ------------------------------
(***************************************************************************)
(* What the operator is told of an account, and the account's books.  Of   *)
(* Alerts, for any threshold, drawdowns, times and faults: a breach is     *)
(* told, and only faults repeat the report of a day.  Of Valuation, for    *)
(* any symbols, prices, sizes and days: both views of a day's result       *)
(* agree, outcomes add up to the cash, and a flat market moves nothing.    *)
(***************************************************************************)
EXTENDS Alerts, Valuation, SumTheorems, SequenceTheorems

\* Without faults the service's memory is what it has told.
Told ==
  faults = 0 /\ Threshold >= EscalationStep =>
    /\ lastDrawdown = level
    /\ reading >= Threshold => level > 0 /\ reading < level + EscalationStep

ReportsOf(d) == {i \in 1 .. Len(reports) : Day(reports[i]) = d}

\* The report that is being built is the first of its day, however long that takes, and a
\* day after the last report that is remembered has had none but for faults.
Dated ==
  /\ lastReport <= Day(time)
  /\ pc = "report" => lastReport < Day(time)
  /\ \A d \in Nat : /\ Cardinality(ReportsOf(d)) <= 1 + faults
                    /\ d > lastReport => Cardinality(ReportsOf(d)) <= faults

IInv == TypeOK /\ Told /\ Dated
-----------------------------------------------------------------------------
LEMMA Consts ==
  /\ Threshold \in Nat \ {0} /\ Drawdowns \subseteq Nat /\ MaxTime \in Nat /\ MaxFaults \in Nat
BY AlertsConstants DEF AlertsConstants

LEMMA DaysAdvance ==
  ASSUME NEW t \in Nat
  PROVE  /\ Day(t) \in Nat
         /\ \A u \in Nat : t <= u => Day(t) <= Day(u)
<1>1. ASSUME NEW u \in Nat, t <= u PROVE t \div 2 <= u \div 2
  BY <1>1
<1>2. t \div 2 \in Nat
  OBVIOUS
<1>. QED BY <1>1, <1>2 DEF Day

\* The types of what a step of the cycle changes.
LEMMA TypePreserved == ASSUME TypeOK, [Next]_vars PROVE TypeOK'
<1>0. /\ time \in Nat /\ time \in 0 .. MaxTime /\ MaxFaults \in Nat
      /\ Day(time) \in 0 .. Day(MaxTime)
  <2>1. time \in Nat /\ time <= MaxTime /\ MaxTime \in Nat
    BY Consts DEF TypeOK
  <2>. QED BY <2>1, DaysAdvance, Consts
<1>1. CASE World
  <2>1. time' \in 0 .. MaxTime
    BY <1>0, <1>1, Consts DEF World, Tick, ToggleSwitch, Move
  <2>2. switch' \in BOOLEAN
    BY <1>1 DEF World, Tick, ToggleSwitch, Move, TypeOK
  <2>. QED BY <1>1, <2>1, <2>2 DEF World, Tick, ToggleSwitch, Move, memory, history, TypeOK
<1>2. CASE MarkToMarket
  <2>1. faults' \in 0 .. MaxFaults
    BY <1>0, <1>2 DEF MarkToMarket, OnDrawdown, Send, TypeOK
  <2>. QED BY <1>2, <2>1 DEF MarkToMarket, OnDrawdown, Send, world, TypeOK
<1>3. CASE CheckDailyReport
  BY <1>3 DEF CheckDailyReport, world, history, TypeOK
<1>4. CASE SendDailyReport
  <2>1. faults' \in 0 .. MaxFaults
    BY <1>0, <1>4 DEF SendDailyReport, OnDailyReport, Send, TypeOK
  <2>2. reports' \in Seq(0 .. MaxTime)
    <3>1. reports \in Seq(0 .. MaxTime) /\ Append(reports, time) \in Seq(0 .. MaxTime)
      BY <1>0, AppendProperties DEF TypeOK
    <3>2. reports' \in {reports, Append(reports, time)}
      BY <1>4 DEF SendDailyReport, OnDailyReport, Send
    <3>. QED BY <3>1, <3>2
  <2>3. lastReport' \in {NoDate} \cup 0 .. Day(MaxTime)
    BY <1>0, <1>4 DEF SendDailyReport, OnDailyReport, TypeOK
  <2>. QED BY <1>4, <2>1, <2>2, <2>3 DEF SendDailyReport, world, TypeOK
<1>5. CASE CheckKillSwitch
  <2>1. faults' \in 0 .. MaxFaults
    BY <1>0, <1>5 DEF CheckKillSwitch, OnKillSwitchActive, OnKillSwitchReset, Send, TypeOK
  <2>. QED BY <1>5, <2>1
           DEF CheckKillSwitch, OnKillSwitchActive, OnKillSwitchReset, Send, world, TypeOK
<1>6. CASE Restart
  <2>1. faults' \in 0 .. MaxFaults
    BY <1>0, <1>6 DEF Restart, TypeOK
  <2>. QED BY <1>6, <2>1 DEF Restart, world, history, TypeOK
<1>7. CASE UNCHANGED vars
  BY <1>7 DEF vars, world, memory, history, TypeOK
<1>. QED BY <1>1, <1>2, <1>3, <1>4, <1>5, <1>6, <1>7 DEF Next, Cycle

\* Only a valuation changes the drawdowns, and it compares with what was told last.
LEMMA ToldPreserved == ASSUME TypeOK, Told, [Next]_vars PROVE Told'
<1>1. /\ Threshold \in Nat /\ drawdown \in Nat /\ lastDrawdown \in Nat /\ level \in Nat
      /\ reading \in Nat /\ faults \in Nat
  BY Consts DEF TypeOK
<1>2. CASE MarkToMarket
  <2>1. CASE OnDrawdown /\ reading' = drawdown
    BY <1>1, <2>1 DEF OnDrawdown, Send, Told, EscalationStep
  <2>2. CASE faults' = faults + 1
    BY <1>1, <2>2 DEF Told
  <2>. QED BY <1>2, <2>1, <2>2 DEF MarkToMarket
<1>3. CASE UNCHANGED <<lastDrawdown, level, reading>> /\ faults' \in {faults, faults + 1}
  BY <1>1, <1>3 DEF Told
<1>4. CASE Restart
  BY <1>1, <1>4 DEF Restart, Told
<1>5. CASE World \/ CheckDailyReport \/ UNCHANGED vars
  BY <1>3, <1>5 DEF World, Tick, ToggleSwitch, Move, CheckDailyReport, vars, memory, history
<1>6. CASE SendDailyReport
  BY <1>3, <1>6 DEF SendDailyReport, OnDailyReport, Send
<1>7. CASE CheckKillSwitch
  BY <1>3, <1>7 DEF CheckKillSwitch, OnKillSwitchActive, OnKillSwitchReset, Send
<1>. QED BY <1>2, <1>4, <1>5, <1>6, <1>7 DEF Next, Cycle

\* A report that is sent is one more of its day.
LEMMA OneMore ==
  ASSUME TypeOK, reports' = Append(reports, time), NEW d \in Nat
  PROVE  /\ Cardinality(ReportsOf(d)) \in Nat
         /\ Cardinality(ReportsOf(d)') =
              Cardinality(ReportsOf(d)) + IF Day(time) = d THEN 1 ELSE 0
<1> DEFINE n == Len(reports) + 1
<1>1. reports \in Seq(0 .. MaxTime) /\ Len(reports) \in Nat /\ time \in 0 .. MaxTime
  BY DEF TypeOK
<1>2. /\ Len(reports') = n /\ reports'[n] = time
      /\ \A i \in 1 .. Len(reports) : reports'[i] = reports[i]
  BY <1>1, AppendProperties
<1>3. IsFiniteSet(ReportsOf(d)) /\ n \notin ReportsOf(d)
  <2>1. IsFiniteSet(1 .. Len(reports))
    BY <1>1, FS_Interval
  <2>2. ReportsOf(d) \in SUBSET (1 .. Len(reports))
    BY DEF ReportsOf
  <2>. QED BY <1>1, <2>1, <2>2, FS_Subset
<1>4. ReportsOf(d)' = IF Day(time) = d THEN ReportsOf(d) \cup {n} ELSE ReportsOf(d)
  BY <1>1, <1>2 DEF ReportsOf
<1>5. Cardinality(ReportsOf(d)) \in Nat
  BY <1>3, FS_CardinalityType
<1>6. Cardinality(ReportsOf(d) \cup {n}) = Cardinality(ReportsOf(d)) + 1
  BY <1>3, FS_AddElement
<1>. HIDE DEF n
<1>. QED BY <1>4, <1>5, <1>6

LEMMA DatedPreserved == ASSUME TypeOK, Dated, [Next]_vars PROVE Dated'
<1>1. /\ time \in Nat /\ faults \in Nat /\ lastReport \in Int /\ Day(time) \in Nat
  BY DaysAdvance, Consts DEF TypeOK, NoDate, Day
<1>2. ASSUME UNCHANGED reports, NEW d PROVE ReportsOf(d)' = ReportsOf(d)
  BY <1>2 DEF ReportsOf
<1>3. \A d \in Nat : Cardinality(ReportsOf(d)) \in Nat
  <2>1. SUFFICES ASSUME NEW d \in Nat PROVE Cardinality(ReportsOf(d)) \in Nat
    OBVIOUS
  <2>2. IsFiniteSet(1 .. Len(reports)) /\ ReportsOf(d) \in SUBSET (1 .. Len(reports))
    BY FS_Interval DEF ReportsOf, TypeOK
  <2>. QED BY <2>2, FS_Subset, FS_CardinalityType
<1>4. CASE SendDailyReport
  <2>1. /\ pc = "report" /\ pc' = "switch" /\ time' = time /\ lastReport < Day(time)
        /\ Day(time)' = Day(time)
    BY <1>4 DEF SendDailyReport, world, Dated, Day
  <2>2. CASE lastReport' = Day(time) /\ reports' = Append(reports, time) /\ faults' = faults
    <3>1. \A d \in Nat : Cardinality(ReportsOf(d)') =
            Cardinality(ReportsOf(d)) + IF Day(time) = d THEN 1 ELSE 0
      BY <2>2, OneMore
    <3>2. \A d \in Nat : /\ Cardinality(ReportsOf(d)') <= 1 + faults
                         /\ d > Day(time) => Cardinality(ReportsOf(d)') <= faults
      <4>1. SUFFICES ASSUME NEW d \in Nat
                     PROVE  /\ Cardinality(ReportsOf(d)') <= 1 + faults
                            /\ d > Day(time) => Cardinality(ReportsOf(d)') <= faults
        OBVIOUS
      <4>2. /\ Cardinality(ReportsOf(d)) \in Nat /\ Cardinality(ReportsOf(d)) <= 1 + faults
            /\ d > lastReport => Cardinality(ReportsOf(d)) <= faults
        BY <1>3 DEF Dated
      <4>3. Cardinality(ReportsOf(d)') = Cardinality(ReportsOf(d)) + IF Day(time) = d THEN 1 ELSE 0
        BY <3>1
      <4>. QED BY <1>1, <2>1, <4>2, <4>3
    <3>3. \A d \in Nat : /\ Cardinality(ReportsOf(d)') <= 1 + faults'
                         /\ d > lastReport' => Cardinality(ReportsOf(d)') <= faults'
      BY <2>2, <3>2
    <3>4. lastReport' <= Day(time)' /\ (pc' = "report" => lastReport' < Day(time)')
      BY <1>1, <2>1, <2>2
    <3>. QED BY <3>3, <3>4 DEF Dated
  <2>3. CASE /\ lastReport' \in {lastReport, Day(time)} /\ UNCHANGED reports
             /\ faults' = faults + 1
    <3>1. \A d \in Nat : Cardinality(ReportsOf(d)') = Cardinality(ReportsOf(d))
      BY <1>2, <2>3
    <3>. QED BY <1>1, <1>3, <2>1, <2>3, <3>1 DEF Dated
  <2>. QED BY <1>4, <2>2, <2>3 DEF SendDailyReport, OnDailyReport, Send
<1>5. CASE /\ UNCHANGED <<reports, lastReport>> /\ faults' \in {faults, faults + 1}
           /\ time' \in {time, time + 1}
           /\ pc' = "report" => pc = "report" \/ (lastReport # Day(time) /\ time' = time)
  <2>1. \A d \in Nat : Cardinality(ReportsOf(d)') = Cardinality(ReportsOf(d))
    BY <1>2, <1>5
  <2>2. Day(time)' \in Nat /\ Day(time) <= Day(time)' /\ (time' = time => Day(time)' = Day(time))
    <3>1. time' \in Nat /\ time <= time'
      BY <1>1, <1>5
    <3>2. Day(time') \in Nat /\ Day(time) <= Day(time')
      BY <1>1, <3>1, DaysAdvance
    <3>. QED BY <3>2 DEF Day
  <2>. QED BY <1>1, <1>3, <1>5, <2>1, <2>2 DEF Dated
<1>6. CASE Restart
  <2>1. \A d \in Nat : Cardinality(ReportsOf(d)') = Cardinality(ReportsOf(d))
    BY <1>2, <1>6 DEF Restart, history
  <2>2. lastReport' = -1 /\ pc' # "report" /\ faults' = faults + 1 /\ Day(time)' = Day(time)
    BY <1>6 DEF Restart, NoDate, world, Day
  <2>. QED BY <1>1, <1>3, <2>1, <2>2 DEF Dated
<1>7. CASE World \/ CheckDailyReport \/ UNCHANGED vars
  BY <1>5, <1>7 DEF World, Tick, ToggleSwitch, Move, CheckDailyReport, ShouldSendDailyReport,
                    vars, world, memory, history
<1>8. CASE MarkToMarket
  BY <1>5, <1>8 DEF MarkToMarket, OnDrawdown, Send, world
<1>9. CASE CheckKillSwitch
  BY <1>5, <1>9 DEF CheckKillSwitch, OnKillSwitchActive, OnKillSwitchReset, Send, world
<1>. QED BY <1>4, <1>6, <1>7, <1>8, <1>9 DEF Next, Cycle

LEMMA InvInit == ASSUME Init PROVE IInv
<1>1. Day(time) = 0 /\ 0 \in 0 .. MaxTime /\ 0 \in 0 .. MaxFaults
  BY Consts DEF Init, Day
<1>2. \A d \in Nat : ReportsOf(d) = {}
  BY DEF Init, ReportsOf
<1>3. TypeOK
  <2>1. reports \in Seq(0 .. MaxTime)
    BY DEF Init
  <2>. QED BY <1>1, <2>1 DEF Init, TypeOK
<1>4. Dated
  BY <1>1, <1>2, FS_EmptySet DEF Init, Dated, NoDate
<1>5. Told
  BY Consts DEF Init, Told
<1>. QED BY <1>3, <1>4, <1>5 DEF IInv

LEMMA Invariance == Spec => []IInv
<1>1. IInv /\ [Next]_vars => IInv'
  BY TypePreserved, ToldPreserved, DatedPreserved DEF IInv
<1>. QED BY <1>1, InvInit, PTL DEF Spec

\* Without faults, and with a threshold of at least one step, a breach has been told and
\* told again when it has grown by a step (service.py, on_drawdown).
THEOREM BreachTold == Spec => []BreachIsTold
<1>1. IInv => BreachIsTold
  BY DEF IInv, Told, BreachIsTold
<1>. QED BY <1>1, Invariance, PTL

\* A day has at most one report more than there were faults, though the date is read twice
\* and midnight may pass between (service.py, should_send_daily_report, on_daily_report).
THEOREM RepeatsAreFaults == Spec => []RepeatsNeedFaults
<1>1. IInv => RepeatsNeedFaults
  <2>1. SUFFICES ASSUME IInv, NEW d \in 0 .. Day(time)
                 PROVE  Cardinality(ReportsOf(d)) <= 1 + faults
    BY DEF RepeatsNeedFaults, ReportsOf
  <2>. QED BY <2>1 DEF IInv, Dated
<1>. QED BY <1>1, Invariance, PTL
-----------------------------------------------------------------------------
(* Valuation: types.                                                       *)

LEMMA TotalIs == ASSUME NEW w, NEW S PROVE Total(w, S) = SumOver(w, S)
BY DEF Total, SumOver

LEMMA ValuationConsts ==
  /\ IsFiniteSet(Symbols) /\ Prices \subseteq Nat \ {0} /\ Sizes \subseteq Nat \ {0}
  /\ StartCash \in Nat /\ MaxSnaps \in Nat /\ MaxDays \in Nat /\ MaxMoves \in Nat
BY ValuationConstants

\* What a snapshot is given: its result and its drawdown.
LEMMA SnapTyped ==
  ASSUME snaps \in Seq(Snap), NEW nav \in Int
  PROVE  /\ Len(snaps) \in Nat
         /\ \A i \in 1 .. Len(snaps) : snaps[i].nav \in Int /\ snaps[i].day \in 0 .. MaxDays
                                         /\ snaps[i].pnl \in Int
         /\ Before(day) # {} => Max(Before(day)) \in Before(day)
         /\ DailyPnl(nav) \in Int
         /\ Drawdown(nav) \in Nat
<1>1. Len(snaps) \in Nat /\ \A i \in 1 .. Len(snaps) : snaps[i] \in Snap
  BY LenProperties, ElementOfSeq
<1>2. \A i \in 1 .. Len(snaps) : /\ snaps[i].nav \in Int /\ snaps[i].day \in 0 .. MaxDays
                                 /\ snaps[i].pnl \in Int
  BY <1>1 DEF Snap
<1>3. Before(day) # {} => Max(Before(day)) \in Before(day)
  BY <1>1, MaxIs DEF Before
<1>4. DailyPnl(nav) \in Int
  BY <1>2, <1>3 DEF DailyPnl, Before
<1>5. Drawdown(nav) \in Nat
  <2> DEFINE f == [i \in 1 .. Len(snaps) |-> snaps[i].nav]
             all == {0} \cup {snaps[i].nav : i \in 1 .. Len(snaps)}
  <2>1. \A i \in 1 .. Len(snaps) : f[i] = snaps[i].nav /\ f[i] \in Int
    BY <1>2
  <2>2. {0} \cup {f[i] : i \in 1 .. Len(snaps)} = all
    BY <2>1
  <2>. HIDE DEF f
  <2>3. Max(all) \in all
    BY <1>1, <2>1, <2>2, MaxOfValues
  <2>4. Max(all) \in Int
    BY <1>2, <2>3
  <2>. QED BY <2>4 DEF Drawdown, Larger
<1>. QED BY <1>1, <1>2, <1>3, <1>4, <1>5

\* A snapshot is added at the end.
Recorded(nav) == [day |-> day, nav |-> nav, pnl |-> DailyPnl(nav), drop |-> Drawdown(nav)]

LEMMA Recording ==
  ASSUME snaps \in Seq(Snap), day \in 0 .. MaxDays, NEW nav \in Int, Record(nav)
  PROVE  /\ snaps' \in Seq(Snap) /\ Len(snaps') = Len(snaps) + 1 /\ Len(snaps') <= MaxSnaps
         /\ \A i \in 1 .. Len(snaps) : snaps'[i] = snaps[i]
         /\ snaps'[Len(snaps) + 1] = Recorded(nav)
<1>1. Recorded(nav) \in Snap
  BY SnapTyped DEF Recorded, Snap
<1>2. snaps' = Append(snaps, Recorded(nav)) /\ Len(snaps) < MaxSnaps /\ Len(snaps) \in Nat
  BY LenProperties DEF Record, Recorded
<1>. QED BY <1>1, <1>2, AppendProperties, ValuationConsts

LEMMA WorthTyped ==
  ASSUME ValuationTypeOK
  PROVE  /\ \A s \in Symbols : Worth[s] = qty[s] * price[s] /\ Worth[s] \in Int
                                /\ price[s] \in Nat /\ qty[s] \in Nat /\ entry[s] \in Nat
         /\ \A S \in SUBSET Symbols : Total(Worth, S) \in Int
         /\ Total(basis, Symbols) \in Int
<1>1. \A s \in Symbols : price[s] \in Nat /\ qty[s] \in Nat /\ basis[s] \in Int /\ entry[s] \in Nat
  <2>1. \A s \in Symbols : /\ price[s] \in Prices /\ entry[s] \in Prices \cup {0}
                           /\ qty[s] \in Nat /\ basis[s] \in Int
    BY DEF ValuationTypeOK
  <2>2. \A p \in Prices : p \in Nat
    BY ValuationConsts
  <2>. QED BY <2>1, <2>2
<1>2. \A s \in Symbols : Worth[s] = qty[s] * price[s] /\ Worth[s] \in Int
  BY <1>1 DEF Worth
<1>3. \A S \in SUBSET Symbols : IsFiniteSet(S)
  BY ValuationConsts, FS_Subset
<1>4. ASSUME NEW S \in SUBSET Symbols PROVE Total(Worth, S) \in Int
  <2>1. \A s \in S : Worth[s] \in Int
    BY <1>2
  <2>2. SumOver(Worth, S) \in Int
    BY <1>3, <2>1, SumType
  <2>. QED BY <2>2, TotalIs
<1>5. Total(basis, Symbols) \in Int
  <2>1. SumOver(basis, Symbols) \in Int
    BY <1>1, ValuationConsts, SumType
  <2>. QED BY <2>1, TotalIs
<1>. QED BY <1>1, <1>2, <1>4, <1>5

\* What a fill of n shares does to the books.
LEMMA Filled ==
  ASSUME ValuationTypeOK, NEW s \in Symbols, NEW n \in Int, qty[s] + n \in Nat,
         ApplyPaperFill(s, n)
  PROVE  /\ traded' = traded \cup {s}
         /\ qty' \in [Symbols -> Nat] /\ qty'[s] = qty[s] + n
         /\ \A t \in Symbols : t # s => qty'[t] = qty[t] /\ basis'[t] = basis[t]
         /\ basis' \in [Symbols -> Int] /\ basis'[s] = Basis(s, n)
         /\ cash' = cash - n * price[s] /\ cash' \in Int
         /\ cash' + Total(basis', Symbols) \in Int
         /\ Record(cash' + Total(basis', Symbols))
<1>1. price[s] \in Nat /\ basis[s] \in Int /\ cash \in Int /\ n * price[s] \in Int
  BY WorthTyped DEF ValuationTypeOK
<1>2. Basis(s, n) \in Int
  BY <1>1 DEF Basis
<1>3. basis' \in [Symbols -> Int] /\ basis'[s] = Basis(s, n)
      /\ \A t \in Symbols : t # s => basis'[t] = basis[t]
  BY <1>2 DEF ApplyPaperFill, ValuationTypeOK
<1>4. qty' \in [Symbols -> Nat] /\ qty'[s] = qty[s] + n
      /\ \A t \in Symbols : t # s => qty'[t] = qty[t]
  BY DEF ApplyPaperFill, ValuationTypeOK
<1>5. cash' = cash - n * price[s] /\ cash' \in Int
  BY <1>1 DEF ApplyPaperFill
<1>6. Total(basis', Symbols) \in Int
  <2>1. \A t \in Symbols : basis'[t] \in Int
    BY <1>3
  <2>2. SumOver(basis', Symbols) \in Int
    BY <2>1, ValuationConsts, SumType
  <2>. QED BY <2>2, TotalIs
<1>. QED BY <1>3, <1>4, <1>5, <1>6 DEF ApplyPaperFill

\* A trade is a fill of n shares or of -n, that are held.
LEMMA TradeFills ==
  ASSUME ValuationTypeOK, Trade
  PROVE  \E s \in Symbols, n \in Int :
           /\ qty[s] + n \in Nat /\ ApplyPaperFill(s, n) /\ UNCHANGED <<price, day, moves, unpriced>>
           /\ \/ /\ n >= 0 /\ entry' = [entry EXCEPT ![s] = price[s]] /\ realized' = realized
                 /\ pyramided' = (pyramided \/ qty[s] # 0)
              \/ /\ entry' = entry /\ pyramided' = pyramided
                 /\ realized' = realized + (-n) * (price[s] - entry[s])
<1>1. PICK s \in Symbols, n \in Sizes : Buy(s, n) \/ Sell(s, n)
  BY DEF Trade
<1>2. n \in Nat /\ -n \in Int /\ qty[s] \in Nat
  BY ValuationConsts DEF ValuationTypeOK
<1>3. CASE Buy(s, n)
  <2>1. qty[s] + n \in Nat /\ n \in Int /\ n >= 0
    BY <1>2
  <2>. QED BY <1>3, <2>1 DEF Buy
<1>4. CASE Sell(s, n)
  <2>1. qty[s] + (-n) \in Nat /\ -(-n) = n
    BY <1>2, <1>4 DEF Sell
  <2>2. /\ ApplyPaperFill(s, -n) /\ UNCHANGED <<price, day, moves, unpriced>>
        /\ entry' = entry /\ pyramided' = pyramided
        /\ realized' = realized + (-(-n)) * (price[s] - entry[s])
    BY <1>4, <2>1 DEF Sell, lapses
  <2>. QED BY <1>2, <2>1, <2>2
<1>. QED BY <1>1, <1>3, <1>4

LEMMA ValuationTyped == ValuationSpec => []ValuationTypeOK
<1>1. ValuationInit => ValuationTypeOK
  <2>1. Len(<<>>) = 0 /\ <<>> \in Seq(Snap)
    OBVIOUS
  <2>2. 0 \in 0 .. MaxDays /\ 0 \in 0 .. MaxMoves /\ 0 <= MaxSnaps /\ StartCash \in Int
    BY ValuationConsts
  <2>. SUFFICES ASSUME ValuationInit PROVE ValuationTypeOK
    OBVIOUS
  <2>3. /\ qty \in [Symbols -> Nat] /\ basis \in [Symbols -> Int]
        /\ entry \in [Symbols -> Prices \cup {0}] /\ price \in [Symbols -> Prices]
    BY DEF ValuationInit
  <2>4. snaps \in Seq(Snap) /\ Len(snaps) <= MaxSnaps
    BY <2>1, <2>2 DEF ValuationInit
  <2>5. traded \subseteq Symbols /\ pyramided \in BOOLEAN /\ unpriced \in BOOLEAN
    BY DEF ValuationInit
  <2>6. cash \in Int /\ realized \in Int /\ day \in 0 .. MaxDays /\ moves \in 0 .. MaxMoves
    BY <2>2 DEF ValuationInit
  <2>. QED BY <2>3, <2>4, <2>5, <2>6 DEF ValuationTypeOK
<1>2. ASSUME ValuationTypeOK, [ValuationNext]_valuationVars PROVE ValuationTypeOK'
  <2>1. CASE Trade
    <3>1. PICK s \in Symbols, n \in Int :
           /\ qty[s] + n \in Nat /\ ApplyPaperFill(s, n) /\ UNCHANGED <<price, day, moves, unpriced>>
           /\ \/ /\ n >= 0 /\ entry' = [entry EXCEPT ![s] = price[s]] /\ realized' = realized
                 /\ pyramided' = (pyramided \/ qty[s] # 0)
              \/ /\ entry' = entry /\ pyramided' = pyramided
                 /\ realized' = realized + (-n) * (price[s] - entry[s])
      BY <1>2, <2>1, TradeFills
    <3>2. /\ qty' \in [Symbols -> Nat] /\ basis' \in [Symbols -> Int] /\ cash' \in Int
          /\ traded' = traded \cup {s}
          /\ cash' + Total(basis', Symbols) \in Int
          /\ Record(cash' + Total(basis', Symbols))
      BY <1>2, <3>1, Filled
    <3>3. snaps \in Seq(Snap) /\ day \in 0 .. MaxDays
      BY <1>2 DEF ValuationTypeOK
    <3>4. snaps' \in Seq(Snap) /\ Len(snaps') <= MaxSnaps
      BY <3>2, <3>3, Recording
    <3>5. (-n) * (price[s] - entry[s]) \in Int
      BY <1>2, WorthTyped
    <3>6. realized' \in Int /\ pyramided' \in BOOLEAN /\ entry' \in [Symbols -> Prices \cup {0}]
      <4>1. /\ realized \in Int /\ price[s] \in Prices /\ entry \in [Symbols -> Prices \cup {0}]
            /\ pyramided \in BOOLEAN
        BY <1>2 DEF ValuationTypeOK
      <4> DEFINE gain == (-n) * (price[s] - entry[s])
      <4>2. /\ realized' = realized \/ realized' = realized + gain
            /\ entry' = entry \/ entry' = [entry EXCEPT ![s] = price[s]]
            /\ pyramided' \in BOOLEAN
        BY <3>1, <4>1
      <4>. HIDE DEF gain
      <4>3. realized' \in Int
        BY <3>5, <4>1, <4>2 DEF gain
      <4>4. entry' \in [Symbols -> Prices \cup {0}]
        BY <4>1, <4>2
      <4>. QED BY <4>2, <4>3, <4>4
    <3>. QED BY <1>2, <3>1, <3>2, <3>4, <3>6 DEF ValuationTypeOK
  <2>2. CASE MarkToMarketRun
    <3>1. PICK priced \in SUBSET traded :
            /\ Record(cash + Total(Worth, priced))
            /\ unpriced' = (unpriced \/ \E s \in traded \ priced : qty[s] # 0)
      BY <2>2 DEF MarkToMarketRun
    <3>2. cash + Total(Worth, priced) \in Int
      <4>1. priced \in SUBSET Symbols /\ cash \in Int
        BY <1>2 DEF ValuationTypeOK
      <4>. QED BY <1>2, <4>1, WorthTyped
    <3>3. snaps \in Seq(Snap) /\ day \in 0 .. MaxDays
      BY <1>2 DEF ValuationTypeOK
    <3>4. snaps' \in Seq(Snap) /\ Len(snaps') <= MaxSnaps
      BY <3>1, <3>2, <3>3, Recording
    <3>. QED BY <1>2, <2>2, <3>1, <3>4 DEF ValuationTypeOK, MarkToMarketRun
  <2>3. CASE NextDay
    BY <1>2, <2>3, ValuationConsts DEF NextDay, ValuationTypeOK, books, lapses
  <2>4. CASE \E s \in Symbols : MovePrice(s)
    BY <1>2, <2>4, ValuationConsts DEF MovePrice, ValuationTypeOK, books, lapses
  <2>5. CASE UNCHANGED valuationVars
    BY <1>2, <2>5 DEF valuationVars, ValuationTypeOK, books, lapses
  <2>. QED BY <1>2, <2>1, <2>2, <2>3, <2>4, <2>5 DEF ValuationNext
<1>. QED BY <1>1, <1>2, PTL DEF ValuationSpec

\* Whatever is done, a snapshot is added or there is none.
LEMMA SnapsGrow ==
  ASSUME ValuationTypeOK, [ValuationNext]_valuationVars
  PROVE  \/ snaps' = snaps /\ day' \in Nat /\ day <= day'
         \/ day' = day /\ \E nav \in Int : Record(nav)
<1>1. CASE Trade
  <2>1. PICK s \in Symbols, n \in Int :
          qty[s] + n \in Nat /\ ApplyPaperFill(s, n) /\ day' = day
    BY <1>1, TradeFills
  <2>. QED BY <2>1, Filled
<1>2. CASE MarkToMarketRun
  <2>1. PICK priced \in SUBSET traded : Record(cash + Total(Worth, priced)) /\ day' = day
    BY <1>2 DEF MarkToMarketRun
  <2>2. priced \in SUBSET Symbols /\ cash \in Int
    BY DEF ValuationTypeOK
  <2>. QED BY <2>1, <2>2, WorthTyped
<1>3. CASE NextDay \/ (\E s \in Symbols : MovePrice(s)) \/ UNCHANGED valuationVars
  BY <1>3, ValuationConsts DEF NextDay, MovePrice, valuationVars, books, ValuationTypeOK
<1>. QED BY <1>1, <1>2, <1>3 DEF ValuationNext
-----------------------------------------------------------------------------
(* Days.                                                                   *)

Earlier(i) == {j \in 1 .. Len(snaps) : snaps[j].day < snaps[i].day}

\* Days do not go back, and the result of a snapshot is against the last one before its day.
DaysOrdered ==
  /\ \A i \in 1 .. Len(snaps) : snaps[i].day <= day
  /\ \A i \in 1 .. Len(snaps), j \in 1 .. Len(snaps) : i <= j => snaps[i].day <= snaps[j].day
ResultsOfDays ==
  \A i \in 1 .. Len(snaps) :
    Earlier(i) # {} => snaps[i].pnl = snaps[i].nav - snaps[Max(Earlier(i))].nav

LEMMA SnapDays ==
  ASSUME ValuationTypeOK
  PROVE  /\ snaps \in Seq(Snap) /\ Len(snaps) \in Nat /\ day \in 0 .. MaxDays /\ day \in Int
         /\ \A i \in 1 .. Len(snaps) : snaps[i].day \in Int /\ i \in Int
<1>1. snaps \in Seq(Snap) /\ day \in 0 .. MaxDays /\ MaxDays \in Nat
  BY ValuationConsts DEF ValuationTypeOK
<1>2. Len(snaps) \in Nat /\ \A i \in 1 .. Len(snaps) : snaps[i].day \in 0 .. MaxDays
  <2>1. 0 \in Int
    OBVIOUS
  <2>. QED BY <1>1, <2>1, SnapTyped
<1>. QED BY <1>1, <1>2

LEMMA DaysKept ==
  ASSUME ValuationTypeOK, DaysOrdered, ResultsOfDays, [ValuationNext]_valuationVars
  PROVE  DaysOrdered' /\ ResultsOfDays'
<1>1. /\ snaps \in Seq(Snap) /\ Len(snaps) \in Nat /\ day \in 0 .. MaxDays /\ day \in Int
      /\ \A i \in 1 .. Len(snaps) : snaps[i].day \in Int /\ i \in Int
  BY SnapDays
<1>2. CASE snaps' = snaps /\ day' \in Nat /\ day <= day'
  <2>1. \A i \in 1 .. Len(snaps) : snaps[i].day <= day'
    BY <1>1, <1>2 DEF DaysOrdered
  <2>. QED BY <1>2, <2>1 DEF DaysOrdered, ResultsOfDays, Earlier
<1>3. CASE day' = day /\ \E nav \in Int : Record(nav)
  <2>1. PICK nav \in Int : Record(nav)
    BY <1>3
  <2>0. PICK n \in Nat : n = Len(snaps)
    BY <1>1
  <2> DEFINE last == snaps'[n + 1]
  <2>2. /\ Len(snaps') = n + 1 /\ \A i \in 1 .. n : snaps'[i] = snaps[i]
        /\ last.day = day /\ last.nav = nav /\ last.pnl = DailyPnl(nav)
    <3>1. /\ Len(snaps') = n + 1 /\ \A i \in 1 .. n : snaps'[i] = snaps[i]
          /\ last = Recorded(nav)
      BY <2>0, <1>1, <2>1, Recording
    <3>. QED BY <2>0, <3>1 DEF Recorded
  <2>. HIDE DEF last
  <2>3. \A i \in 1 .. n + 1 : i = n + 1 \/ i \in 1 .. n
    BY <1>1
  <2>4. DaysOrdered'
    <3>1. \A i \in 1 .. n + 1 : snaps'[i].day <= day
      BY <2>0, <1>1, <2>2, <2>3 DEF DaysOrdered, last
    <3>2. ASSUME NEW i \in 1 .. n + 1, NEW j \in 1 .. n + 1, i <= j
          PROVE  snaps'[i].day <= snaps'[j].day
      <4>1. CASE j = n + 1
        BY <2>0, <2>2, <3>1, <4>1 DEF last
      <4>2. CASE j \in 1 .. n
        <5>1. i \in 1 .. n
          BY <2>0, <1>1, <3>2, <4>2
        <5>. QED BY <2>0, <2>2, <3>2, <4>2, <5>1 DEF DaysOrdered
      <4>. QED BY <2>0, <2>3, <4>1, <4>2
    <3>. QED BY <2>0, <1>3, <2>2, <3>1, <3>2 DEF DaysOrdered
  <2>5. ASSUME NEW i \in 1 .. n PROVE Earlier(i)' = Earlier(i)
    <3>1. i \in 1 .. n + 1 /\ snaps'[i] = snaps[i] /\ ~(last.day < snaps[i].day)
      BY <2>0, <1>1, <2>2 DEF DaysOrdered
    <3>2. \A j \in 1 .. n + 1 : snaps'[j].day < snaps'[i].day <=> j \in 1 .. n /\ snaps[j].day < snaps[i].day
      BY <2>0, <2>2, <2>3, <3>1 DEF last
    <3>3. \A j \in 1 .. n : j \in 1 .. n + 1
      BY <2>0, <1>1
    <3>. QED BY <2>0, <2>2, <3>2, <3>3 DEF Earlier
  <2>6. Earlier(n + 1)' = Before(day)
    <3>1. \A j \in 1 .. n + 1 : snaps'[j].day < day <=> j \in 1 .. n /\ snaps[j].day < day
      BY <2>0, <1>1, <2>2, <2>3 DEF last
    <3>2. \A j \in 1 .. n : j \in 1 .. n + 1
      BY <2>0, <1>1
    <3>3. Earlier(n + 1)' = {j \in 1 .. n + 1 : snaps'[j].day < day}
      BY <2>0, <2>2 DEF Earlier, last
    <3>. QED BY <2>0, <3>1, <3>2, <3>3 DEF Before
  <2>7. ASSUME NEW i \in 1 .. n + 1, Earlier(i)' # {}
        PROVE  snaps'[i].pnl = snaps'[i].nav - snaps'[Max(Earlier(i)')].nav
    <3>1. CASE i \in 1 .. n
      <4>1. Earlier(i) # {} /\ Max(Earlier(i)) \in 1 .. n
        <5>1. Earlier(i) \in SUBSET (1 .. n) /\ Earlier(i) # {}
          BY <2>0, <2>5, <2>7, <3>1 DEF Earlier
        <5>. QED BY <2>0, <1>1, <5>1, MaxIs
      <4>. QED BY <2>0, <2>2, <2>5, <3>1, <4>1 DEF ResultsOfDays
    <3>2. CASE i = n + 1
      <4>1. Before(day) # {} /\ Max(Before(day)) \in 1 .. n
        <5>1. Before(day) \in SUBSET (1 .. n) /\ Before(day) # {}
          <6>1. Earlier(i)' = Before(day)
            BY <2>0, <2>6, <3>2
          <6>. QED BY <2>0, <2>7, <6>1 DEF Before
        <5>. QED BY <2>0, <1>1, <5>1, MaxIs
      <4>2. DailyPnl(nav) = nav - snaps[Max(Before(day))].nav
        BY <2>0, <4>1 DEF DailyPnl
      <4>3. Earlier(i)' = Before(day) /\ snaps'[i] = last
        BY <2>0, <2>6, <3>2 DEF last
      <4>. QED BY <2>0, <2>2, <4>1, <4>2, <4>3
    <3>. QED BY <2>0, <2>3, <3>1, <3>2
  <2>8. ResultsOfDays'
    BY <2>0, <2>2, <2>7 DEF ResultsOfDays
  <2>. QED BY <2>0, <2>4, <2>8
<1>. QED BY <1>2, <1>3, SnapsGrow

LEMMA DaysFollow == ValuationSpec => [](DaysOrdered /\ ResultsOfDays)
<1>1. ValuationInit => DaysOrdered /\ ResultsOfDays
  BY DEF ValuationInit, DaysOrdered, ResultsOfDays
<1>. QED BY <1>1, DaysKept, ValuationTyped, PTL DEF ValuationSpec

\* DailyViewsAgree: the result stored with the last snapshot of a day, against the last
\* snapshot of an earlier day, is the one between the rows that the endpoint reads per day.
THEOREM ViewsAgree == ValuationSpec => []DailyViewsAgree
<1>1. ASSUME ValuationTypeOK, DaysOrdered, ResultsOfDays PROVE DailyViewsAgree
  <2> DEFINE n == Len(snaps)
  <2>0. /\ n \in Nat /\ snaps \in Seq(Snap)
        /\ \A i \in 1 .. n : snaps[i].day \in Int /\ i \in Int
    BY <1>1, SnapDays
  <2>. SUFFICES ASSUME NEW d \in Days, NEW e0 \in Days, e0 < d
                PROVE  LastOf(d).pnl = PnlOfDay(d)
    BY DEF DailyViewsAgree
  <2> DEFINE On(e) == {i \in 1 .. n : snaps[i].day = e}
  <2>1. ASSUME NEW e \in Days
        PROVE  Max(On(e)) \in On(e) /\ LastOf(e) = snaps[Max(On(e))]
    <3>1. On(e) # {} /\ On(e) \in SUBSET (1 .. n)
      BY DEF Days
    <3>2. Max(On(e)) \in On(e)
      <4>. HIDE DEF On
      <4>. QED BY <2>0, <3>1, MaxIs
    <3>. QED BY <3>2 DEF LastOf
  <2> DEFINE i == Max(On(d))
             m == Max(Earlier(i))
             e == snaps[m].day
  <2>2. i \in 1 .. n /\ snaps[i].day = d /\ LastOf(d) = snaps[i]
    BY <2>1
  <2>. HIDE DEF i
  <2>3. Earlier(i) # {} /\ Earlier(i) \in SUBSET (1 .. n)
    BY <2>2 DEF Earlier, Days
  <2>4. m \in Earlier(i) /\ \A j \in Earlier(i) : j <= m
    <3>. HIDE DEF n
    <3>. QED BY <2>0, <2>3, MaxIs
  <2>5. m \in 1 .. n /\ e < d /\ e \in Days
    BY <2>2, <2>4 DEF Earlier, Days
  <2>. HIDE DEF m
  <2>6. Max({f \in Days : f < d}) = e
    <3>1. \A f \in {f \in Days : f < d} : f <= e
      <4>1. ASSUME NEW f \in Days, f < d PROVE f <= e
        <5>1. PICK j \in 1 .. n : snaps[j].day = f
          BY DEF Days
        <5>2. j \in Earlier(i)
          BY <2>2, <4>1, <5>1 DEF Earlier
        <5>. QED BY <1>1, <2>4, <2>5, <5>1, <5>2 DEF DaysOrdered
      <4>. QED BY <4>1
    <3>2. {f \in Days : f < d} \subseteq Int /\ e \in {f \in Days : f < d}
      BY <2>0, <2>5 DEF Days
    <3>. HIDE DEF e
    <3>. QED BY <3>1, <3>2, MaxEquals
  <2>7. Max(On(e)) = m
    <3>1. \A j \in On(e) : j <= m
      BY <2>2, <2>4, <2>5 DEF Earlier
    <3>2. On(e) \subseteq Int /\ m \in On(e)
      BY <2>0, <2>5
    <3>. HIDE DEF On
    <3>. QED BY <3>1, <3>2, MaxEquals
  <2>8. LastOf(e) = snaps[m]
    BY <2>1, <2>5, <2>7
  <2>9. snaps[i].pnl = snaps[i].nav - snaps[m].nav
    BY <1>1, <2>2, <2>3 DEF ResultsOfDays, m
  <2>. QED BY <2>2, <2>6, <2>8, <2>9 DEF PnlOfDay
<1>. QED BY <1>1, ValuationTyped, DaysFollow, PTL

(* Outcomes.                                                               *)

Paid == [s \in Symbols |-> qty[s] * entry[s]]

\* What the buys of the open positions have paid is the cash that is missing.
PaidExplains == ~pyramided => cash = StartCash + realized - SumOver(Paid, Symbols)

LEMMA PaidTyped ==
  ASSUME ValuationTypeOK
  PROVE  /\ \A s \in Symbols : Paid[s] = qty[s] * entry[s] /\ Paid[s] \in Int
         /\ SumOver(Paid, Symbols) \in Int
<1>1. \A s \in Symbols : Paid[s] = qty[s] * entry[s] /\ Paid[s] \in Int
  BY WorthTyped DEF Paid
<1>. QED BY <1>1, ValuationConsts, SumType

LEMMA TradePaid ==
  ASSUME ValuationTypeOK, ValuationTypeOK', PaidExplains, Trade
  PROVE  PaidExplains'
<1>1. PICK s \in Symbols, n \in Int :
           /\ qty[s] + n \in Nat /\ ApplyPaperFill(s, n) /\ UNCHANGED <<price, day, moves, unpriced>>
           /\ \/ /\ n >= 0 /\ entry' = [entry EXCEPT ![s] = price[s]] /\ realized' = realized
                 /\ pyramided' = (pyramided \/ qty[s] # 0)
              \/ /\ entry' = entry /\ pyramided' = pyramided
                 /\ realized' = realized + (-n) * (price[s] - entry[s])
  BY TradeFills
<1>2. /\ qty'[s] = qty[s] + n /\ \A t \in Symbols : t # s => qty'[t] = qty[t]
      /\ cash' = cash - n * price[s]
  BY <1>1, Filled
<1>3. \A t \in Symbols : t # s => entry'[t] = entry[t]
  BY <1>1 DEF ValuationTypeOK
<1>. SUFFICES ASSUME ~pyramided'
              PROVE  cash' = StartCash + realized' - SumOver(Paid', Symbols)
  BY DEF PaidExplains
<1>4. /\ cash = StartCash + realized - SumOver(Paid, Symbols)
      /\ cash \in Int /\ realized \in Int /\ StartCash \in Int /\ SumOver(Paid, Symbols) \in Int
  BY <1>1, ValuationConsts, PaidTyped DEF PaidExplains, ValuationTypeOK
<1>5. SumOver(Paid', Symbols) = SumOver(Paid, Symbols) + (Paid'[s] - Paid[s])
  <2>1. \A t \in Symbols : Paid[t] \in Int /\ (t # s => Paid'[t] = Paid[t])
    BY <1>2, <1>3, PaidTyped DEF Paid
  <2>2. Paid'[s] \in Int
    <3>1. Paid'[s] = qty'[s] * entry'[s] /\ qty'[s] \in Int
      BY <1>2, WorthTyped DEF Paid
    <3>2. entry'[s] \in Int
      <4>1. entry'[s] = entry[s] \/ entry'[s] = price[s]
        BY <1>1 DEF ValuationTypeOK
      <4>. QED BY <4>1, WorthTyped
    <3>. QED BY <3>1, <3>2
  <2>. QED BY <2>1, <2>2, ValuationConsts, SumChange
<1>6. /\ Paid'[s] = qty'[s] * entry'[s] /\ Paid[s] = qty[s] * entry[s]
      /\ qty[s] \in Int /\ entry[s] \in Int /\ price[s] \in Int
  BY WorthTyped DEF Paid
<1>7. CASE entry' = [entry EXCEPT ![s] = price[s]] /\ realized' = realized /\ qty[s] = 0
  <2>1. entry'[s] = price[s] /\ qty'[s] = n
    BY <1>2, <1>7 DEF ValuationTypeOK
  <2>2. Paid'[s] - Paid[s] = n * price[s] /\ n * price[s] \in Int
    BY <1>6, <1>7, <2>1
  <2>. QED BY <1>2, <1>4, <1>5, <1>7, <2>2
<1>8. CASE entry' = entry /\ realized' = realized + (-n) * (price[s] - entry[s])
  <2>1. Paid'[s] - Paid[s] = n * entry[s]
    BY <1>2, <1>6, <1>8
  <2>2. realized' = realized + n * entry[s] - n * price[s]
        /\ n * entry[s] \in Int /\ n * price[s] \in Int
    BY <1>4, <1>6, <1>8
  <2>. QED BY <1>2, <1>4, <1>5, <2>1, <2>2
<1>9. (entry' = [entry EXCEPT ![s] = price[s]] /\ realized' = realized /\ qty[s] = 0) \/
      (entry' = entry /\ realized' = realized + (-n) * (price[s] - entry[s]))
  BY <1>1
<1>. QED BY <1>7, <1>8, <1>9

\* OutcomesExplainCash: with every trade closed, the outcomes add up to the gain of cash.
THEOREM OutcomesAddUp == ValuationSpec => []OutcomesExplainCash
<1>1. ValuationInit => PaidExplains
  <2>. SUFFICES ASSUME ValuationInit PROVE PaidExplains
    OBVIOUS
  <2>1. \A s \in Symbols : Paid[s] = 0
    BY DEF ValuationInit, Paid
  <2>2. SumOver(Paid, Symbols) = 0
    BY <2>1, ValuationConsts, SumOfZeros
  <2>. QED BY <2>2, ValuationConsts DEF ValuationInit, PaidExplains
<1>2. ASSUME ValuationTypeOK, ValuationTypeOK', PaidExplains, [ValuationNext]_valuationVars
      PROVE  PaidExplains'
  <2>1. CASE Trade
    BY <1>2, <2>1, TradePaid
  <2>2. CASE UNCHANGED <<qty, entry, cash, realized, pyramided>>
    BY <1>2, <2>2 DEF PaidExplains, Paid
  <2>3. CASE MarkToMarketRun
    BY <2>2, <2>3 DEF MarkToMarketRun
  <2>4. CASE NextDay \/ (\E s \in Symbols : MovePrice(s)) \/ UNCHANGED valuationVars
    BY <2>2, <2>4 DEF NextDay, MovePrice, valuationVars, books, lapses
  <2>. QED BY <1>2, <2>1, <2>3, <2>4 DEF ValuationNext
<1>3. ASSUME ValuationTypeOK, PaidExplains PROVE OutcomesExplainCash
  <2>. SUFFICES ASSUME ~pyramided, \A s \in Symbols : qty[s] = 0 PROVE cash = StartCash + realized
    BY DEF OutcomesExplainCash
  <2>1. \A s \in Symbols : Paid[s] = 0
    BY <1>3, PaidTyped, WorthTyped
  <2>2. SumOver(Paid, Symbols) = 0
    BY <2>1, ValuationConsts, SumOfZeros
  <2>. QED BY <1>3, <2>2, ValuationConsts DEF PaidExplains, ValuationTypeOK
<1>. QED BY <1>1, <1>2, <1>3, ValuationTyped, PTL DEF ValuationSpec
-----------------------------------------------------------------------------
(* A market that does not move.                                            *)

\* The cost of a position is its worth, and the books add up to the starting cash.
Level ==
  /\ \A s \in Symbols : qty[s] # 0 => s \in traded
  /\ moves = 0 => /\ basis = Worth
                  /\ cash + SumOver(Worth, Symbols) = StartCash

LEMMA TradeLevel ==
  ASSUME ValuationTypeOK, ValuationTypeOK', Level, Trade
  PROVE  Level' /\ (moves = 0 => Record(StartCash))
         /\ moves' = moves /\ unpriced' = unpriced
<1>1. PICK s \in Symbols, n \in Int :
        /\ qty[s] + n \in Nat /\ ApplyPaperFill(s, n) /\ UNCHANGED <<price, day, moves, unpriced>>
  BY TradeFills
<1>2. /\ qty'[s] = qty[s] + n /\ \A t \in Symbols : t # s => qty'[t] = qty[t] /\ basis'[t] = basis[t]
      /\ basis'[s] = Basis(s, n) /\ basis' \in [Symbols -> Int]
      /\ cash' = cash - n * price[s] /\ traded' = traded \cup {s}
      /\ Record(cash' + Total(basis', Symbols))
  BY <1>1, Filled
<1>3. \A t \in Symbols : qty'[t] # 0 => t \in traded'
  BY <1>2 DEF Level
<1>4. ASSUME moves = 0
      PROVE  basis' = Worth' /\ cash' + SumOver(Worth', Symbols) = StartCash
  <2>1. /\ basis = Worth /\ cash + SumOver(Worth, Symbols) = StartCash
        /\ cash \in Int /\ StartCash \in Int /\ SumOver(Worth, Symbols) \in Int
    <3>1. Total(Worth, Symbols) = SumOver(Worth, Symbols) /\ Total(Worth, Symbols) \in Int
      BY TotalIs, WorthTyped
    <3>. QED BY <1>4, <3>1, ValuationConsts DEF Level, ValuationTypeOK
  <2>2. \A t \in Symbols : Worth'[t] = qty'[t] * price[t]
    BY <1>1 DEF Worth
  <2>3. \A t \in Symbols : /\ Worth[t] = qty[t] * price[t] /\ Worth[t] \in Int
                           /\ price[t] \in Int /\ qty[t] \in Int
    BY WorthTyped
  <2>4. Worth'[s] = Worth[s] + n * price[s] /\ n * price[s] \in Int
    BY <1>2, <2>2, <2>3
  <2>5. \A t \in Symbols : t # s => Worth'[t] = Worth[t]
    BY <1>2, <2>2, <2>3
  <2>6. basis'[s] = Worth'[s]
    <3>1. CASE qty[s] + n = 0
      BY <1>2, <2>2, <2>3, <3>1 DEF Basis
    <3>2. CASE qty[s] + n # 0
      BY <1>2, <2>1, <2>4, <3>2 DEF Basis
    <3>. QED BY <3>1, <3>2
  <2>7. basis' = Worth'
    <3>1. \A t \in Symbols : basis'[t] = Worth'[t]
      BY <1>2, <2>1, <2>5, <2>6
    <3>2. Worth' = [t \in Symbols |-> Worth'[t]]
      BY DEF Worth
    <3>. QED BY <1>2, <3>1, <3>2
  <2>8. SumOver(Worth', Symbols) = SumOver(Worth, Symbols) + (Worth'[s] - Worth[s])
    <3>1. Worth'[s] \in Int
      BY <2>3, <2>4
    <3>. QED BY <2>3, <2>5, <3>1, ValuationConsts, SumChange
  <2>. QED BY <1>2, <2>1, <2>3, <2>4, <2>7, <2>8
<1>5. ASSUME moves = 0 PROVE Record(StartCash)
  <2>1. Total(basis', Symbols) = SumOver(Worth', Symbols)
    BY <1>4, <1>5, TotalIs
  <2>2. cash' + Total(basis', Symbols) = StartCash
    BY <1>4, <1>5, <2>1
  <2>. QED BY <1>2, <2>2
<1>6. moves' = moves /\ unpriced' = unpriced
  BY <1>1
<1>7. Level'
  BY <1>3, <1>4, <1>6 DEF Level
<1>. QED BY <1>5, <1>6, <1>7

LEMMA MarkLevel ==
  ASSUME ValuationTypeOK, Level, MarkToMarketRun, moves = 0, ~unpriced'
  PROVE  Record(StartCash) /\ ~unpriced
<1>1. PICK priced \in SUBSET traded :
        /\ Record(cash + Total(Worth, priced))
        /\ unpriced' = (unpriced \/ \E s \in traded \ priced : qty[s] # 0)
  BY DEF MarkToMarketRun
<1>2. ~unpriced /\ \A s \in traded \ priced : qty[s] = 0
  BY <1>1
<1>3. priced \in SUBSET Symbols
  BY DEF ValuationTypeOK
<1>4. \A s \in Symbols : Worth[s] \in Int /\ (s \notin priced => Worth[s] = 0)
  BY <1>2, WorthTyped DEF Level
<1>5. SumOver(Worth, priced) = SumOver(Worth, Symbols)
  BY <1>3, <1>4, ValuationConsts, SumOfPart
<1>6. cash + Total(Worth, priced) = StartCash
  BY <1>5, TotalIs DEF Level
<1>. QED BY <1>1, <1>2, <1>6

\* A snapshot like all before it has no result and no drawdown.
LEMMA LevelSnap ==
  ASSUME ValuationTypeOK, Record(StartCash),
         \A i \in 1 .. Len(snaps) : snaps[i].nav = StartCash
  PROVE  DailyPnl(StartCash) = 0 /\ Drawdown(StartCash) = 0
<1>1. snaps \in Seq(Snap) /\ StartCash \in Int /\ StartCash \in Nat
  BY ValuationConsts DEF ValuationTypeOK
<1>2. DailyPnl(StartCash) = 0
  <2>1. Before(day) # {} => Max(Before(day)) \in Before(day)
    BY <1>1, SnapTyped
  <2>2. \A m \in Before(day) : snaps[m].nav = StartCash
    BY DEF Before
  <2>. QED BY <1>1, <2>1, <2>2 DEF DailyPnl
<1>3. Drawdown(StartCash) = 0
  <2> DEFINE navs == {snaps[i].nav : i \in 1 .. Len(snaps)}
             all == {0} \cup navs
  <2>1. navs \subseteq {StartCash}
    OBVIOUS
  <2>. HIDE DEF navs
  <2>2. Max(all) \in {0, StartCash}
    <3>1. CASE navs = {}
      <4>1. all = {0} /\ Max({0}) = 0
        BY <3>1, MaxEquals
      <4>. QED BY <4>1
    <3>2. CASE navs # {}
      <4>1. StartCash \in navs
        BY <2>1, <3>2
      <4>2. all \subseteq Int /\ StartCash \in all /\ \A y \in all : y <= StartCash
        BY <1>1, <2>1, <4>1
      <4>. HIDE DEF all
      <4>. QED BY <4>2, MaxEquals
    <3>. QED BY <3>1, <3>2
  <2>. HIDE DEF all
  <2>. QED BY <1>1, <2>2 DEF Drawdown, Larger, all, navs
<1>. QED BY <1>2, <1>3

\* FlatMarket: books without a move of prices show the starting cash in each snapshot.
THEOREM FlatMarketIsFlat == ValuationSpec => []FlatMarket
<1>1. ValuationInit => Level /\ FlatMarket
  <2>. SUFFICES ASSUME ValuationInit PROVE Level /\ FlatMarket
    OBVIOUS
  <2>1. \A s \in Symbols : price[s] \in Int
    <3>1. \A s \in Symbols : price[s] \in Prices
      BY DEF ValuationInit
    <3>2. \A p \in Prices : p \in Int
      BY ValuationConsts
    <3>. QED BY <3>1, <3>2
  <2>2. \A s \in Symbols : Worth[s] = 0
    BY <2>1 DEF ValuationInit, Worth
  <2>3. basis = Worth
    BY <2>2 DEF ValuationInit, Worth
  <2>4. SumOver(Worth, Symbols) = 0
    BY <2>2, ValuationConsts, SumOfZeros
  <2>. QED BY <2>3, <2>4, ValuationConsts DEF ValuationInit, Level, FlatMarket
<1>2. ASSUME ValuationTypeOK, ValuationTypeOK', Level, FlatMarket, [ValuationNext]_valuationVars
      PROVE  Level' /\ FlatMarket'
  <2>1. ASSUME Record(StartCash), moves = 0, ~unpriced PROVE FlatMarket'
    <3> DEFINE n == Len(snaps)
    <3>1. /\ n \in Nat /\ \A i \in 1 .. n : /\ snaps[i].nav = StartCash
                                            /\ snaps[i].pnl = 0 /\ snaps[i].drop = 0
      BY <1>2, <2>1, SnapDays DEF FlatMarket
    <3>2. DailyPnl(StartCash) = 0 /\ Drawdown(StartCash) = 0
      BY <1>2, <2>1, <3>1, LevelSnap
    <3>3. /\ Len(snaps') = n + 1 /\ \A i \in 1 .. n : snaps'[i] = snaps[i]
          /\ snaps'[n + 1] = Recorded(StartCash)
      <4>1. snaps \in Seq(Snap) /\ day \in 0 .. MaxDays /\ StartCash \in Int
        BY <1>2, ValuationConsts DEF ValuationTypeOK
      <4>. QED BY <2>1, <4>1, Recording
    <3>. HIDE DEF n
    <3>4. ASSUME NEW i \in 1 .. n + 1
          PROVE  snaps'[i].nav = StartCash /\ snaps'[i].pnl = 0 /\ snaps'[i].drop = 0
      <4>1. CASE i \in 1 .. n
        BY <3>1, <3>3, <4>1
      <4>2. CASE i = n + 1
        BY <3>2, <3>3, <4>2 DEF Recorded
      <4>. QED BY <3>1, <4>1, <4>2
    <3>. QED BY <3>3, <3>4 DEF FlatMarket
  <2>2. CASE Trade
    <3>1. /\ Level' /\ (moves = 0 => Record(StartCash))
          /\ moves' = moves /\ unpriced' = unpriced
      BY <1>2, <2>2, TradeLevel
    <3>2. FlatMarket'
      <4>1. CASE moves = 0 /\ ~unpriced
        BY <2>1, <3>1, <4>1
      <4>2. CASE ~(moves = 0 /\ ~unpriced)
        BY <3>1, <4>2 DEF FlatMarket
      <4>. QED BY <4>1, <4>2
    <3>. QED BY <3>1, <3>2
  <2>3. CASE MarkToMarketRun
    <3>1. Level' /\ moves' = moves
      BY <1>2, <2>3 DEF MarkToMarketRun, Level, Worth
    <3>2. FlatMarket'
      BY <1>2, <2>1, <2>3, <3>1, MarkLevel DEF FlatMarket
    <3>. QED BY <3>1, <3>2
  <2>4. CASE NextDay \/ UNCHANGED valuationVars
    BY <1>2, <2>4 DEF NextDay, valuationVars, books, lapses, Level, Worth, FlatMarket
  <2>5. CASE \E s \in Symbols : MovePrice(s)
    <3>1. moves' # 0 /\ UNCHANGED books
      BY <1>2, <2>5 DEF MovePrice, ValuationTypeOK
    <3>. QED BY <1>2, <3>1 DEF Level, FlatMarket, books
  <2>. QED BY <1>2, <2>2, <2>3, <2>4, <2>5 DEF ValuationNext
<1>. QED BY <1>1, <1>2, ValuationTyped, PTL DEF ValuationSpec
=============================================================================
