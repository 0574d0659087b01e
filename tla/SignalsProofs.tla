---------------------------- MODULE SignalsProofs ----------------------------
(***************************************************************************)
(* Theorems about Signals, for any strategies, windows and rejected bars:  *)
(* a row leads to one order, a settled symbol gets no second entry, and    *)
(* the features of the newest bar can be used by every strategy.           *)
(***************************************************************************)
EXTENDS Signals, SumTheorems, SequenceTheorems

Order == [signal : Signal, live : BOOLEAN]

\* A row's verdict is known, and has a direction.
Known(id) == id.bar \in 1 .. Now /\ DirectionOf(id) # "flat"

\* What the tables hold: features of stored bars, rows with a direction, orders for rows.
Tables ==
  /\ verdicts \in Seq([Strategies -> Verdict]) /\ Now <= MaxBars
  /\ stored \subseteq 1 .. Now
  /\ counts \in [Bars -> Nat]
  /\ \A b \in Bars : counts[b] > 0 => b \in stored
  /\ copies \in [Strategies -> [Bars -> Nat]]
  /\ \A s \in Strategies : \A b \in Bars :
       copies[s][b] > 0 => Known([strategy |-> s, bar |-> b, copy |-> 0])
  /\ orders \subseteq Order
  /\ \A o \in orders : Known(o.signal)

\* Where the cycle is: a strategy is known when it has run, and the signal under review
\* is an actionable row that has no order.
Turns ==
  /\ pc \in {"idle", "ingest", "features", "generate", "select", "review"}
  /\ held \in BOOLEAN /\ position \in BOOLEAN
  /\ pc = "select" => watched[turn] \in Strategies
  /\ pc = "review" => /\ chosen \in Signal /\ Known(chosen)
                      /\ DirectionOf(chosen) = "buy" => ~held
                      /\ DirectionOf(chosen) # "hold"
                      /\ ~HasOrder(chosen)

\* When every order is over before the next cycle, a cycle has no live order beside it and
\* the position is what it has read; between the cycles one order at most is live.
Settled ==
  /\ pc # "idle" => /\ \A o \in orders : ~o.live
                    /\ held = position
  /\ NoSecondEntry

IInv == Tables /\ Turns /\ OneOrderPerRow
-----------------------------------------------------------------------------
(* The newest bars.                                                        *)

\* All the bars are newest ones, unless as many are as were asked for.
LEMMA NewestCount ==
  ASSUME NEW N \in Nat, NEW B \in SUBSET (1 .. N), NEW n \in Nat
  PROVE  /\ IsFiniteSet(Newest(n, B)) /\ IsFiniteSet(B)
         /\ Newest(n, B) = B \/ Cardinality(Newest(n, B)) >= n
<1> DEFINE Rest == B \ Newest(n, B)
<1>1. IsFiniteSet(B) /\ IsFiniteSet(Newest(n, B))
  <2>1. IsFiniteSet(1 .. N)
    BY FS_Interval
  <2>2. IsFiniteSet(B)
    BY <2>1, FS_Subset
  <2>3. Newest(n, B) \in SUBSET B
    BY DEF Newest
  <2>. QED BY <2>2, <2>3, FS_Subset
<1>2. SUFFICES ASSUME Rest # {}, Cardinality(Newest(n, B)) < n PROVE FALSE
  BY <1>1, FS_CardinalityType DEF Newest
<1>3. PICK m \in Rest : \A y \in Rest : y <= m
  <2>1. Rest \in SUBSET (1 .. N)
    OBVIOUS
  <2>. HIDE DEF Rest
  <2>. QED BY <1>2, <2>1, MaxIs
<1>4. {c \in B : c > m} \in SUBSET Newest(n, B)
  <2>1. \A c \in B : c > m => c \notin Rest
    BY <1>3
  <2>. QED BY <2>1
<1>5. Cardinality({c \in B : c > m}) < n
  BY <1>1, <1>2, <1>4, FS_Subset, FS_CardinalityType
<1>. QED BY <1>3, <1>5 DEF Newest

\* The newest bar is among them.
LEMMA NewestHasMax ==
  ASSUME NEW N \in Nat, NEW B \in SUBSET (1 .. N), B # {}, NEW n \in Nat \ {0}
  PROVE  Max(B) \in Newest(n, B)
<1>1. Max(B) \in B /\ \A y \in B : y <= Max(B)
  BY MaxIs
<1>2. \A m \in B : (\A y \in B : y <= m) => {c \in B : c > m} = {}
  <2>1. \A m, c \in B : c <= m => ~(c > m)
    OBVIOUS
  <2>. QED BY <2>1
<1>3. {c \in B : c > Max(B)} = {}
  BY <1>1, <1>2
<1>. QED BY <1>1, <1>3, FS_EmptySet DEF Newest
-----------------------------------------------------------------------------
(* What a step does to the tables.                                         *)

BarCloses ==
  \/ UNCHANGED verdicts
  \/ Now < MaxBars /\ \E v \in [Strategies -> Verdict] : verdicts' = Append(verdicts, v)
BarsStored ==
  \/ UNCHANGED stored
  \/ Now > 0 /\ \E bars \in SUBSET (1 .. Now) : Store(bars)
FeaturesComputed == UNCHANGED counts \/ \E n : counts' = Counts(n)
RowsGenerated == UNCHANGED copies \/ \E s \in Strategies : \E n : copies' = Generated(s, n)
OrdersChange ==
  \/ UNCHANGED orders
  \/ \E o \in orders : o.live /\ orders' = (orders \ {o}) \cup {[o EXCEPT !.live = FALSE]}
  \/ pc = "review" /\ pc' = "idle" /\ orders' = orders \cup {[signal |-> chosen, live |-> TRUE]}

LEMMA Effects ==
  ASSUME Tables, Turns, [Next]_vars
  PROVE  BarCloses /\ BarsStored /\ FeaturesComputed /\ RowsGenerated /\ OrdersChange
<1> USE DEF BarCloses, BarsStored, FeaturesComputed, RowsGenerated, OrdersChange
<1>1. CASE NewBar
  BY <1>1 DEF NewBar, tables
<1>2. CASE Settle
  BY <1>2 DEF Settle, tables
<1>3. CASE Ingest
  <2>1. Now \in Nat
    BY DEF Now, Tables
  <2>2. Newest(FetchLimit, 1 .. Now) \in SUBSET (1 .. Now)
    BY DEF Newest
  <2>. QED BY <1>3, <2>1, <2>2 DEF Ingest
<1>4. CASE StartCycle \/ EndCycle \/ GenerateFails \/ Select \/ Veto \/ Stopped
  BY <1>4 DEF StartCycle, EndCycle, GenerateFails, Select, Veto, Stopped, tables
<1>5. CASE ComputeFeatures \/ Generate
  BY <1>5 DEF ComputeFeatures, Generate
<1>6. CASE Execute
  BY <1>6 DEF Execute, tables
<1>7. CASE ApiFetch \/ PipelineFetch
  <2>1. FetchHistorical /\ UNCHANGED <<verdicts, counts, copies, orders>>
    BY <1>7 DEF ApiFetch, PipelineFetch, ApiRequest, workerVars
  <2>2. Now \in Nat
    BY DEF Now, Tables
  <2>. QED BY <2>1, <2>2 DEF FetchHistorical
<1>8. CASE ApiCompute \/ ApiGenerate \/ PipelineCompute \/ PipelineGenerate \/ PipelineFails
  BY <1>8 DEF ApiCompute, ApiGenerate, PipelineCompute, PipelineGenerate, PipelineFails,
              ApiRequest, workerVars, tables
<1>9. CASE UNCHANGED vars
  BY <1>9 DEF vars, tables
<1>. QED
  BY <1>1, <1>2, <1>3, <1>4, <1>5, <1>6, <1>7, <1>8, <1>9 DEF Next, Worker, Pipeline

\* A verdict that is known does not change.
LEMMA VerdictsKept ==
  ASSUME Tables, BarCloses
  PROVE  /\ verdicts' \in Seq([Strategies -> Verdict]) /\ Now' <= MaxBars
         /\ Now \in Nat /\ Now' \in Nat /\ Now <= Now'
         /\ \A id : id.bar \in 1 .. Now =>
              /\ id.bar \in 1 .. Now'
              /\ DirectionOf(id)' = DirectionOf(id)
<1>0. Now \in Nat /\ MaxBars \in Nat
  BY SignalsConstants DEF Tables, Now, SignalsConstants
<1>1. CASE UNCHANGED verdicts
  BY <1>0, <1>1 DEF Tables, Now, DirectionOf
<1>2. CASE Now < MaxBars /\ \E v \in [Strategies -> Verdict] : verdicts' = Append(verdicts, v)
  <2>1. /\ verdicts' \in Seq([Strategies -> Verdict]) /\ Len(verdicts') = Len(verdicts) + 1
        /\ \A i \in 1 .. Len(verdicts) : verdicts'[i] = verdicts[i]
    BY <1>2, AppendProperties DEF Tables
  <2>. QED BY <1>0, <1>2, <2>1 DEF Now, DirectionOf
<1>. QED BY <1>1, <1>2 DEF BarCloses

LEMMA CountsKept ==
  ASSUME Tables, FeaturesComputed
  PROVE  /\ counts' \in [Bars -> Nat]
         /\ \A b \in Bars : counts'[b] > 0 => b \in stored
<1>1. CASE UNCHANGED counts
  BY <1>1 DEF Tables
<1>2. ASSUME NEW n, counts' = Counts(n)
      PROVE  /\ counts' \in [Bars -> Nat]
             /\ \A b \in Bars : counts'[b] > 0 => b \in stored
  <2>1. ASSUME NEW b PROVE Cardinality({c \in Newest(n, stored) : c <= b}) \in Nat
    <3>1. {c \in Newest(n, stored) : c <= b} \in SUBSET (1 .. Now)
      BY DEF Newest, Tables
    <3>2. IsFiniteSet(1 .. Now)
      BY FS_Interval DEF Tables, Now
    <3>3. IsFiniteSet({c \in Newest(n, stored) : c <= b})
      BY <3>1, <3>2, FS_Subset
    <3>. QED BY <3>3, FS_CardinalityType
  <2>. QED BY <1>2, <2>1 DEF Counts, Tables, Newest
<1>. QED BY <1>1, <1>2 DEF FeaturesComputed

LEMMA CopiesKept ==
  ASSUME Tables, RowsGenerated
  PROVE  /\ copies' \in [Strategies -> [Bars -> Nat]]
         /\ \A s \in Strategies : \A b \in Bars :
              copies'[s][b] > 0 => Known([strategy |-> s, bar |-> b, copy |-> 0])
<1>1. CASE UNCHANGED copies
  BY <1>1 DEF Tables
<1>2. ASSUME NEW s \in Strategies, NEW n, copies' = Generated(s, n)
      PROVE  /\ copies' \in [Strategies -> [Bars -> Nat]]
             /\ \A r \in Strategies : \A b \in Bars :
                  copies'[r][b] > 0 => Known([strategy |-> r, bar |-> b, copy |-> 0])
  <2>1. copies' = [copies EXCEPT ![s] = [b \in Bars |-> IF b \in Usable(s, n)
                                          THEN copies[s][b] + 1 ELSE copies[s][b]]]
    BY <1>2 DEF Generated
  <2>2. copies' \in [Strategies -> [Bars -> Nat]]
    BY <2>1 DEF Tables
  <2>3. ASSUME NEW b \in Usable(s, n) PROVE Known([strategy |-> s, bar |-> b, copy |-> 0])
    <3>1. b \in Bars /\ counts[b] > 0 /\ DirectionOf([bar |-> b, strategy |-> s]) # "flat"
      BY DEF Usable, Rows, Newest
    <3>. QED BY <3>1 DEF Tables, Known, DirectionOf
  <2>. QED BY <2>1, <2>2, <2>3 DEF Tables
<1>. QED BY <1>1, <1>2 DEF RowsGenerated

\* The signal under review is a row that has a direction.
LEMMA LatestIs ==
  ASSUME Tables, NEW s \in Strategies, NEW id \in Latest(s)
  PROVE  id \in Signal /\ Known(id)
<1> DEFINE bars == {b \in Bars : copies[s][b] > 0}
<1>1. bars # {} /\ id = [strategy |-> s, bar |-> Max(bars), copy |-> copies[s][Max(bars)]]
  BY DEF Latest
<1>2. Max(bars) \in bars
  <2>1. bars \in SUBSET (1 .. MaxBars) /\ MaxBars \in Nat
    BY SignalsConstants DEF Bars, SignalsConstants
  <2>. HIDE DEF bars
  <2>. QED BY <1>1, <2>1, MaxIs
<1>. QED BY <1>1, <1>2 DEF Tables, Signal, Known, DirectionOf
-----------------------------------------------------------------------------
(* The inductive invariant.                                                *)

LEMMA TablesInit == ASSUME Init PROVE IInv
<1>1. Now = 0 /\ verdicts \in Seq([Strategies -> Verdict])
  BY DEF Init, Now
<1>2. counts \in [Bars -> Nat] /\ copies \in [Strategies -> [Bars -> Nat]]
  BY DEF Init
<1>3. \A b \in Bars : counts[b] = 0 /\ \A s \in Strategies : copies[s][b] = 0
  BY DEF Init
<1>4. Tables
  BY <1>1, <1>2, <1>3, SignalsConstants DEF Init, Tables, SignalsConstants
<1>. QED BY <1>4 DEF Init, IInv, Turns, OneOrderPerRow

LEMMA TablesPreserved == ASSUME Tables, Turns, [Next]_vars PROVE Tables'
<1>1. BarCloses /\ BarsStored /\ FeaturesComputed /\ RowsGenerated /\ OrdersChange
  BY Effects
<1>2. stored' \subseteq 1 .. Now' /\ stored \subseteq stored'
  <2>1. stored' \subseteq 1 .. Now /\ stored \subseteq stored'
    BY <1>1 DEF BarsStored, Store, Tables
  <2>2. Now \in Nat /\ Now' \in Nat /\ Now <= Now'
    BY <1>1, VerdictsKept
  <2>. QED BY <2>1, <2>2
<1>3. ASSUME NEW id, Known(id) PROVE Known(id)'
  BY <1>1, <1>3, VerdictsKept DEF Known
<1>4. orders' \subseteq Order /\ \A o \in orders' : Known(o.signal)
  <2>1. CASE UNCHANGED orders
    BY <2>1 DEF Tables
  <2>2. ASSUME NEW o \in orders, orders' = (orders \ {o}) \cup {[o EXCEPT !.live = FALSE]}
        PROVE  orders' \subseteq Order /\ \A p \in orders' : Known(p.signal)
    <3>1. o \in Order /\ Known(o.signal)
      BY DEF Tables
    <3>2. [o EXCEPT !.live = FALSE] \in Order
          /\ [o EXCEPT !.live = FALSE].signal = o.signal
      BY <3>1 DEF Order
    <3>. QED BY <2>2, <3>1, <3>2 DEF Tables
  <2>3. CASE pc = "review" /\ orders' = orders \cup {[signal |-> chosen, live |-> TRUE]}
    <3>1. PICK new : new = [signal |-> chosen, live |-> TRUE]
      OBVIOUS
    <3>5. new \in Order /\ new.signal = chosen
      BY <2>3, <3>1 DEF Turns, Order
    <3>2. orders \subseteq Order /\ \A o \in orders : Known(o.signal)
      BY DEF Tables
    <3>3. Known(chosen)
      BY <2>3 DEF Turns
    <3>4. orders' = orders \cup {new}
      BY <2>3, <3>1
    <3>. QED BY <3>2, <3>3, <3>4, <3>5
  <2>. QED BY <1>1, <2>1, <2>2, <2>3 DEF OrdersChange
<1>5. \A o \in orders' : Known(o.signal)'
  BY <1>3, <1>4
<1>6. \A s \in Strategies : \A b \in Bars :
        copies'[s][b] > 0 => Known([strategy |-> s, bar |-> b, copy |-> 0])'
  BY <1>1, <1>3, CopiesKept
<1>. QED BY <1>1, <1>2, <1>4, <1>5, <1>6, VerdictsKept, CountsKept, CopiesKept DEF Tables

\* What an order's row is does not depend on the order's ways.
LEMMA OrdersOfRows ==
  ASSUME Tables, OrdersChange, pc # "review" \/ UNCHANGED pc, NEW id, ~HasOrder(id)
  PROVE  ~HasOrder(id)'
<1>1. ASSUME NEW o \in orders PROVE [o EXCEPT !.live = FALSE].signal = o.signal
  BY DEF Tables, Order
<1>. QED BY <1>1 DEF OrdersChange, HasOrder

LEMMA TurnsPreserved == ASSUME Tables, Turns, [Next]_vars PROVE Turns'
<1>1. BarCloses /\ OrdersChange
  BY Effects
<1>2. CASE StartCycle \/ Ingest \/ ComputeFeatures \/ EndCycle \/ Generate \/ GenerateFails
  BY <1>2 DEF Turns, StartCycle, Ingest, ComputeFeatures, EndCycle, Generate, GenerateFails
<1>3. CASE Select
  <2>1. CASE NextStrategy
    BY <1>3, <2>1 DEF Select, NextStrategy, Turns
  <2>2. ASSUME NEW id \in Latest(watched[turn]), ~Skipped(id), ~HasOrder(id), chosen' = id
        PROVE  /\ id \in Signal /\ Known(id)'
               /\ DirectionOf(id)' = "buy" => ~held
               /\ DirectionOf(id)' # "hold"
               /\ ~HasOrder(id)'
    <3>1. id \in Signal /\ Known(id)
      BY <1>3, <2>2, LatestIs DEF Select, Turns
    <3>2. Known(id)' /\ DirectionOf(id)' = DirectionOf(id)
      BY <1>1, <3>1, VerdictsKept DEF Known
    <3>3. ~HasOrder(id)'
      BY <1>3, <2>2 DEF Select, HasOrder
    <3>. QED BY <2>2, <3>1, <3>2, <3>3 DEF Skipped
  <2>. QED BY <1>3, <2>1, <2>2 DEF Select, Turns
<1>4. CASE Veto \/ Execute
  BY <1>4 DEF Turns, Veto, NextStrategy, Execute
<1>5. CASE UNCHANGED cycleVars /\ UNCHANGED watched /\ position' \in BOOLEAN
  <2>1. UNCHANGED <<pc, turn, held, chosen>>
    BY <1>5 DEF cycleVars
  <2>2. pc = "review" => ~HasOrder(chosen)'
    BY <1>1, <2>1, OrdersOfRows DEF Turns
  <2>3. pc = "review" => Known(chosen)' /\ DirectionOf(chosen)' = DirectionOf(chosen)
    BY <1>1, <2>1, VerdictsKept DEF Turns, Known
  <2>. QED BY <1>5, <2>1, <2>2, <2>3 DEF Turns
<1>6. position' \in BOOLEAN
  BY DEF Turns, Next, vars, tables, NewBar, Settle, Stopped, Worker, StartCycle, Ingest,
         ComputeFeatures, EndCycle, Generate, GenerateFails, Select, Veto, Execute,
         ApiFetch, ApiCompute, ApiGenerate, ApiRequest, workerVars, Pipeline,
         PipelineFetch, PipelineCompute, PipelineGenerate, PipelineFails
<1>. QED
  BY <1>2, <1>3, <1>4, <1>5, <1>6
     DEF Next, vars, tables, NewBar, Settle, Stopped, Worker,
         ApiFetch, ApiCompute, ApiGenerate, ApiRequest, workerVars, Pipeline,
         PipelineFetch, PipelineCompute, PipelineGenerate, PipelineFails

LEMMA OnePreserved == ASSUME IInv, [Next]_vars PROVE OneOrderPerRow'
<1>1. OrdersChange
  BY Effects DEF IInv
<1>2. CASE UNCHANGED orders
  BY <1>2 DEF IInv, OneOrderPerRow
<1>3. ASSUME NEW o \in orders, orders' = (orders \ {o}) \cup {[o EXCEPT !.live = FALSE]}
      PROVE  OneOrderPerRow'
  <2>1. [o EXCEPT !.live = FALSE].signal = o.signal
    BY DEF IInv, Tables, Order
  <2>. QED BY <1>3, <2>1 DEF IInv, OneOrderPerRow
<1>4. CASE pc = "review" /\ orders' = orders \cup {[signal |-> chosen, live |-> TRUE]}
  <2>1. \A o \in orders : o.signal # chosen
    BY <1>4 DEF IInv, Turns, HasOrder
  <2>2. \A o, p \in orders : o.signal = p.signal => o = p
    BY DEF IInv, OneOrderPerRow
  <2>3. PICK new : new = [signal |-> chosen, live |-> TRUE]
    OBVIOUS
  <2>5. orders' = orders \cup {new} /\ new.signal = chosen
    BY <1>4, <2>3
  <2>4. \A o, p \in orders' : o.signal = p.signal => o = p
    BY <2>1, <2>2, <2>5
  <2>. QED BY <2>4 DEF OneOrderPerRow
<1>. QED BY <1>1, <1>2, <1>3, <1>4 DEF OrdersChange

LEMMA Invariance == Spec => []IInv
<1>1. IInv /\ [Next]_vars => IInv'
  BY TablesPreserved, TurnsPreserved, OnePreserved DEF IInv
<1>. QED BY <1>1, TablesInit, PTL DEF Spec

\* A row leads to one order (executor.py, has_order_for_signal), though it is read again
\* in every cycle that writes no newer one.
THEOREM OneOrder == Spec => []OneOrderPerRow
BY Invariance, PTL DEF IInv
-----------------------------------------------------------------------------
(* No second entry.                                                        *)

LEMMA SettledPreserved ==
  ASSUME Settling, Tables, Turns, Settled, [Next]_vars PROVE Settled'
<1>1. BarCloses /\ OrdersChange
  BY Effects
<1>2. ASSUME NEW o \in orders PROVE DirectionOf(o.signal)' = DirectionOf(o.signal)
  BY <1>1, <1>2, VerdictsKept DEF Tables, Known
<1>3. NoSecondEntry
  BY DEF Settled
<1>4. CASE StartCycle
  BY <1>2, <1>4 DEF StartCycle, tables, Settled, NoSecondEntry
<1>5. CASE Execute
  <2>1. (\A o \in orders : ~o.live) /\ held = position
    BY <1>5 DEF Execute, Settled
  <2>2. CASE UNCHANGED orders
    BY <1>5, <2>1, <2>2 DEF Execute, Settled, NoSecondEntry
  <2>3. CASE orders' = orders \cup {[signal |-> chosen, live |-> TRUE]}
    <3>1. DirectionOf(chosen) \in {"buy", "sell"} /\ (DirectionOf(chosen) = "buy" => ~held)
      <4>1. chosen.strategy \in Strategies /\ chosen.bar \in 1 .. Now
        BY <1>5 DEF Execute, Turns, Known, Signal
      <4>2. verdicts[chosen.bar] \in [Strategies -> Verdict]
        BY <4>1 DEF Tables, Now
      <4>3. DirectionOf(chosen) \in Verdict
        BY <4>1, <4>2 DEF DirectionOf
      <4>. QED BY <1>5, <4>3 DEF Execute, Turns, Known, Verdict, Directions
    <3>7. PICK new : new = [signal |-> chosen, live |-> TRUE]
      OBVIOUS
    <3>2. orders' = orders \cup {new} /\ new.signal = chosen
      BY <2>3, <3>7
    <3>3. \A o \in orders' : o.live => o = new
      BY <2>1, <3>2
    <3>4. UNCHANGED <<verdicts, position>> /\ pc' = "idle"
      BY <1>5 DEF Execute
    <3>5. DirectionOf(new.signal)' = DirectionOf(new.signal)
      BY <3>4 DEF DirectionOf
    <3>6. position => DirectionOf(new.signal) = "sell"
      BY <2>1, <3>1, <3>2
    <3>. QED BY <3>3, <3>4, <3>5, <3>6 DEF Settled, NoSecondEntry
  <2>. QED BY <1>5, <2>2, <2>3 DEF Execute
<1>6. CASE Settle
  <2>1. PICK o \in orders :
          o.live /\ orders' = (orders \ {o}) \cup {[o EXCEPT !.live = FALSE]}
    BY <1>6 DEF Settle
  <2>2. [o EXCEPT !.live = FALSE].live = FALSE
    BY DEF Tables, Order
  <2>3. \A p \in orders' : ~p.live
    BY <1>3, <2>1, <2>2 DEF NoSecondEntry
  <2>4. pc = "idle" /\ pc' = pc
    BY <1>6, <2>1 DEF Settle, Settled, cycleVars
  <2>. QED BY <2>3, <2>4 DEF Settled, NoSecondEntry
<1>7. CASE Stopped
  BY <1>2, <1>3, <1>7 DEF Stopped, cycleVars, Settled, NoSecondEntry
<1>8. CASE UNCHANGED <<orders, position, held>> /\ (pc # "idle" \/ UNCHANGED pc)
  BY <1>2, <1>8 DEF Settled, NoSecondEntry
<1>. QED
  BY <1>4, <1>5, <1>6, <1>7, <1>8
     DEF Next, vars, tables, cycleVars, NewBar, Worker, Ingest, ComputeFeatures, EndCycle,
         Generate, GenerateFails, Select, Veto, ApiFetch, ApiCompute, ApiGenerate,
         ApiRequest, workerVars, Pipeline, PipelineFetch, PipelineCompute,
         PipelineGenerate, PipelineFails

\* When orders are over before the next cycle begins, one order at most is live, and none
\* that would open a second position (loop.py, _skip_reason), whatever strategies agree.
THEOREM NoSecond == ASSUME Settling PROVE Spec => []NoSecondEntry
<1>1. Init => Settled
  BY DEF Init, Settled, NoSecondEntry
<1>2. IInv /\ Settled /\ [Next]_vars => Settled'
  BY SettledPreserved DEF IInv
<1>. QED BY <1>1, <1>2, Invariance, PTL DEF Spec, Settled
-----------------------------------------------------------------------------
(* The newest bar.                                                         *)

\* The cycle computes features from as many bars as a strategy needs, if so many are stored,
\* and no other row is newer than those it computed.
LEMMA NewestUsable ==
  ASSUME Tables, ComputeFeatures, NEW s \in Strategies,
         Cardinality(stored) >= Need[s], verdicts[Max(stored)][s] # "flat"
  PROVE  Max(stored) \in Usable(s, WindowSize)'
<1> DEFINE m == Max(stored)
           Fresh == Newest(WindowSize, stored)
           Kept == {b \in Bars : counts'[b] > 0}
<1>1. /\ Now \in Nat /\ MaxBars \in Nat /\ WindowSize \in Nat \ {0}
      /\ Need[s] \in Nat \ {0} /\ Need[s] <= WindowSize
  BY SignalsConstants DEF SignalsConstants, Tables, Now
<1>2. stored \in SUBSET (1 .. Now) /\ stored \in SUBSET Bars /\ stored # {}
  <2>1. stored \in SUBSET (1 .. Now) /\ stored \in SUBSET Bars
    BY <1>1 DEF Tables, Bars
  <2>2. stored # {}
    BY <1>1, FS_EmptySet
  <2>. QED BY <2>1, <2>2
<1>3. m \in stored /\ m \in Fresh /\ \A y \in stored : y <= m
  <2>. HIDE DEF Fresh
  <2>1. m \in stored /\ \A y \in stored : y <= m
    BY <1>1, <1>2, MaxIs
  <2>2. m \in Fresh
    BY <1>1, <1>2, NewestHasMax DEF Fresh
  <2>. QED BY <2>1, <2>2
<1>4. IsFiniteSet(Fresh) /\ Cardinality(Fresh) \in Nat /\ Cardinality(Fresh) >= Need[s]
  <2>1. IsFiniteSet(Fresh) /\ (Fresh = stored \/ Cardinality(Fresh) >= WindowSize)
    BY <1>1, <1>2, NewestCount
  <2>2. Cardinality(Fresh) \in Nat
    BY <2>1, FS_CardinalityType
  <2>. HIDE DEF Fresh
  <2>. QED BY <1>1, <2>1, <2>2
<1>5. counts' = Counts(WindowSize) /\ UNCHANGED <<verdicts, stored>>
  BY DEF ComputeFeatures
<1>6. counts'[m] = Cardinality(Fresh)
  <2>1. {c \in Fresh : c <= m} = Fresh
    BY <1>3 DEF Newest
  <2>. QED BY <1>2, <1>3, <1>5, <2>1 DEF Counts
<1>7. Fresh \in SUBSET Kept
  <2>1. SUFFICES ASSUME NEW b \in Fresh PROVE b \in Bars /\ counts'[b] > 0
    OBVIOUS
  <2>2. b \in stored /\ b \in Bars /\ b \in Int
    BY <1>2 DEF Newest, Bars
  <2>3. b \in {c \in Fresh : c <= b}
    BY <2>2
  <2>4. IsFiniteSet({c \in Fresh : c <= b})
    <3>1. {c \in Fresh : c <= b} \in SUBSET Fresh
      OBVIOUS
    <3>. QED BY <1>4, <3>1, FS_Subset
  <2>5. Cardinality({c \in Fresh : c <= b}) \in Nat \ {0}
    BY <2>3, <2>4, FS_EmptySet, FS_CardinalityType
  <2>. QED BY <1>5, <2>1, <2>2, <2>5 DEF Counts
<1>8. Kept \in SUBSET stored /\ Kept \in SUBSET (1 .. Now) /\ m \in Kept
  <2>1. FeaturesComputed
    BY <1>5 DEF FeaturesComputed
  <2>2. \A b \in Bars : counts'[b] > 0 => b \in stored
    BY <2>1, CountsKept
  <2>3. Kept \in SUBSET stored
    BY <2>2
  <2>. HIDE DEF Kept, m, Fresh
  <2>. QED BY <1>2, <1>3, <1>7, <2>3
<1>9. Max(Kept) = m
  <2>. HIDE DEF Kept, m
  <2>1. Max(Kept) \in Kept /\ \A y \in Kept : y <= Max(Kept)
    BY <1>1, <1>8, MaxIs
  <2>2. Max(Kept) \in 1 .. Now /\ m \in 1 .. Now /\ m <= Max(Kept) /\ Max(Kept) <= m
    BY <1>2, <1>3, <1>8, <2>1
  <2>. QED BY <2>2
<1>10. /\ m \in Newest(WindowSize, Kept)
       /\ Cardinality(Newest(WindowSize, Kept)) >= Need[s]
  <2>. HIDE DEF Kept, m, Fresh
  <2>1. Kept # {}
    BY <1>8
  <2>2. m \in Newest(WindowSize, Kept)
    BY <1>1, <1>8, <1>9, <2>1, NewestHasMax
  <2>3. /\ IsFiniteSet(Newest(WindowSize, Kept)) /\ IsFiniteSet(Kept)
        /\ \/ Newest(WindowSize, Kept) = Kept
           \/ Cardinality(Newest(WindowSize, Kept)) >= WindowSize
    BY <1>1, <1>8, NewestCount
  <2>4. Cardinality(Kept) >= Cardinality(Fresh) /\ Cardinality(Kept) \in Nat
        /\ Cardinality(Newest(WindowSize, Kept)) \in Nat
    BY <1>7, <2>3, FS_Subset, FS_CardinalityType
  <2>. QED BY <1>1, <1>4, <2>2, <2>3, <2>4
<1>11. Rows(WindowSize)' = Newest(WindowSize, Kept)
  BY DEF Rows, Newest
<1>12. verdicts'[m][s] # "flat"
  BY <1>5
<1>13. ~(Cardinality(Newest(WindowSize, Kept)) < Need[s])
  <2>1. Cardinality(Newest(WindowSize, Kept)) \in Nat
    <3>. HIDE DEF Kept
    <3>. QED BY <1>1, <1>8, NewestCount, FS_CardinalityType
  <2>. HIDE DEF Kept
  <2>. QED BY <1>1, <1>10, <2>1
<1>14. counts'[m] >= Need[s]
  BY <1>4, <1>6
<1>15. PICK x : x = m
  OBVIOUS
<1>16. x \in Usable(s, WindowSize)'
  <2>. HIDE DEF Kept, m, Fresh
  <2>. QED BY <1>10, <1>11, <1>12, <1>13, <1>14, <1>15 DEF Usable, DirectionOf
<1>. QED BY <1>15, <1>16

\* The cycle's features of the newest bar can be used by every strategy for which enough
\* bars are stored, though the validator rejects bars and the API computes the features of
\* other windows in between (features/service.py:40).
THEOREM NewestUsed == Spec => NewestIsUsable
<1> DEFINE Used == \A s \in Strategies :
                     /\ Cardinality(stored) >= Need[s]
                     /\ verdicts[Max(stored)][s] # "flat"
                     => Max(stored) \in Usable(s, WindowSize)'
<1>1. IInv /\ [Next]_vars => [pc = "features" /\ pc' = "generate" => Used]_vars
  <2>1. SUFFICES ASSUME IInv, [Next]_vars, pc = "features", pc' = "generate" PROVE Used
    OBVIOUS
  <2>2. ComputeFeatures
    BY <2>1
       DEF Next, vars, tables, cycleVars, NewBar, Settle, Stopped, Worker, StartCycle,
           Ingest, EndCycle, Generate, GenerateFails, Select, NextStrategy, Veto, Execute,
           ApiFetch, ApiCompute, ApiGenerate, ApiRequest, workerVars, Pipeline,
           PipelineFetch, PipelineCompute, PipelineGenerate, PipelineFails
  <2>. QED BY <2>1, <2>2, NewestUsable DEF IInv
<1>. QED BY <1>1, Invariance, PTL DEF Spec, NewestIsUsable
=============================================================================
