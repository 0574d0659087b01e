------------------------------- MODULE Alerts -------------------------------
(***************************************************************************)
(* What the operator is told: AlertService (rac/notifications/service.py)  *)
(* as the worker's cycle calls it (rac/worker/loop.py).                    *)
(*                                                                         *)
(* The service deduplicates with three fields that live in the worker's    *)
(* memory.  Telegram may lose a message, the worker may be restarted, and  *)
(* midnight may pass between two calls of a cycle.                         *)
(***************************************************************************)
EXTENDS Integers, Sequences, FiniteSets

CONSTANTS
  Threshold,   \* max_drawdown_pct
  Drawdowns,   \* the drawdowns that a valuation may find, in percent
  MaxTime,     \* bound on the half days that pass
  MaxFaults    \* bound on restarts, exceptions and lost messages

ASSUME AlertsConstants ==
  /\ Threshold \in Nat \ {0}
  /\ Drawdowns \subseteq Nat
  /\ MaxTime \in Nat
  /\ MaxFaults \in Nat

VARIABLES
  time,         \* half days: an odd one begins at 21:00 UTC and ends the day
  switch,       \* the kill switch is active
  drawdown,     \* what the next valuation will find
  killAlerted,  \* _kill_switch_alerted
  lastDrawdown, \* _last_drawdown_alerted
  lastReport,   \* _last_report_date
  pc,           \* the cycle's next call
  reading,      \* the drawdown that the last valuation found
  level,        \* history: the last drawdown told since one below the threshold
  told,         \* history: the last message on the kill switch
  reports,      \* history: when reports were sent
  faults

memory == <<killAlerted, lastDrawdown, lastReport, pc>>
history == <<reading, level, told, reports>>
world == <<time, switch, drawdown>>
vars == <<world, memory, history, faults>>
-----------------------------------------------------------------------------
EscalationStep == 5
NoDate == -1

Day(t) == t \div 2
Evening(t) == t % 2 = 1

TypeOK ==
  /\ time \in 0 .. MaxTime
  /\ switch \in BOOLEAN /\ killAlerted \in BOOLEAN
  /\ drawdown \in Drawdowns
  /\ lastDrawdown \in Drawdowns \cup {0}
  /\ lastReport \in {NoDate} \cup 0 .. Day(MaxTime)
  /\ pc \in {"value", "due", "report", "switch"}
  /\ reading \in Drawdowns \cup {0}
  /\ level \in Drawdowns \cup {0}
  /\ told \in {"none", "active", "reset"}
  /\ reports \in Seq(0 .. MaxTime)
  /\ faults \in 0 .. MaxFaults

Init ==
  /\ time = 0
  /\ switch = FALSE
  /\ drawdown \in Drawdowns
  /\ killAlerted = FALSE
  /\ lastDrawdown = 0
  /\ lastReport = NoDate
  /\ pc = "value"
  /\ reading = 0
  /\ level = 0
  /\ told = "none"
  /\ reports = <<>>
  /\ faults = 0
-----------------------------------------------------------------------------
(* The world.                                                              *)

Tick ==
  /\ time < MaxTime
  /\ time' = time + 1
  /\ UNCHANGED <<switch, drawdown, memory, history, faults>>

ToggleSwitch ==
  /\ switch' = ~switch
  /\ UNCHANGED <<time, drawdown, memory, history, faults>>

Move ==
  /\ \E d \in Drawdowns : drawdown' = d
  /\ UNCHANGED <<time, switch, memory, history, faults>>
-----------------------------------------------------------------------------
(* The service.  A message that Telegram does not take is only logged.     *)

Send(old, new, x) ==
  \/ x' = new /\ UNCHANGED faults
  \/ faults < MaxFaults /\ faults' = faults + 1 /\ x' = old

OnDrawdownKeepsLevel ==  \* mutant: a recovery does not end the escalation
  IF drawdown < Threshold
    THEN /\ level' = 0
         /\ UNCHANGED <<lastDrawdown, faults>>
    ELSE IF drawdown < lastDrawdown + EscalationStep
      THEN UNCHANGED <<lastDrawdown, level, faults>>
      ELSE /\ lastDrawdown' = drawdown
           /\ Send(level, drawdown, level)

OnDrawdown ==
  IF drawdown < Threshold
    THEN /\ lastDrawdown' = 0
         /\ level' = 0
         /\ UNCHANGED faults
    ELSE IF drawdown < lastDrawdown + EscalationStep
      THEN UNCHANGED <<lastDrawdown, level, faults>>
      ELSE /\ lastDrawdown' = drawdown
           /\ Send(level, drawdown, level)

ShouldSendDailyReport == Evening(time) /\ lastReport # Day(time)

OnDailyReportUndated ==  \* mutant: the date is not stored
  /\ lastReport' = 0
  /\ Send(reports, Append(reports, time), reports)

OnDailyReport ==
  /\ lastReport' = Day(time)
  /\ Send(reports, Append(reports, time), reports)

OnKillSwitchResetQuiet ==  \* mutant: the flag is cleared without a message
  /\ killAlerted' = FALSE
  /\ UNCHANGED <<told, faults>>

OnKillSwitchReset ==
  IF killAlerted
    THEN killAlerted' = FALSE /\ Send(told, "reset", told)
    ELSE UNCHANGED <<killAlerted, told, faults>>

OnKillSwitchActive ==
  IF killAlerted
    THEN UNCHANGED <<killAlerted, told, faults>>
    ELSE killAlerted' = TRUE /\ Send(told, "active", told)
-----------------------------------------------------------------------------
(* The cycle.                                                              *)

\* Step 2: a valuation that fails is logged, and tells nothing.
MarkToMarket ==
  /\ pc = "value"
  /\ pc' = "due"
  /\ \/ /\ OnDrawdown
        /\ reading' = drawdown
     \/ /\ faults < MaxFaults
        /\ faults' = faults + 1
        /\ UNCHANGED <<lastDrawdown, reading, level>>
  /\ UNCHANGED <<world, killAlerted, lastReport, told, reports>>

\* Step 3 begins: the clock is read once for the question ...
CheckDailyReport ==
  /\ pc = "due"
  /\ pc' = IF ShouldSendDailyReport THEN "report" ELSE "switch"
  /\ UNCHANGED <<world, killAlerted, lastDrawdown, lastReport, history, faults>>

\* ... and again after the report is built, or building it has failed.
SendDailyReport ==
  /\ pc = "report"
  /\ pc' = "switch"
  /\ \/ OnDailyReport
     \/ /\ faults < MaxFaults
        /\ faults' = faults + 1
        /\ UNCHANGED <<lastReport, reports>>
  /\ UNCHANGED <<world, killAlerted, lastDrawdown, reading, level, told>>

\* Step 4; an exception ends the cycle.
CheckKillSwitch ==
  /\ pc = "switch"
  /\ pc' = "value"
  /\ \/ IF switch THEN OnKillSwitchActive ELSE OnKillSwitchReset
     \/ /\ faults < MaxFaults
        /\ faults' = faults + 1
        /\ UNCHANGED <<killAlerted, told>>
  /\ UNCHANGED <<world, lastDrawdown, lastReport, reading, level, reports>>

\* The worker is restarted with a new AlertService.
Restart ==
  /\ faults < MaxFaults
  /\ faults' = faults + 1
  /\ killAlerted' = FALSE
  /\ lastDrawdown' = 0
  /\ lastReport' = NoDate
  /\ pc' = "value"
  /\ UNCHANGED <<world, history>>

Cycle == MarkToMarket \/ CheckDailyReport \/ SendDailyReport \/ CheckKillSwitch
World == Tick \/ ToggleSwitch \/ Move

Next == World \/ Cycle \/ Restart

Spec == Init /\ [][Next]_vars

\* The main loop catches every exception and starts the next cycle.
FairSpec == Spec /\ WF_vars(Cycle)
-----------------------------------------------------------------------------
(* Properties                                                              *)

\* "Drawdown breach: When drawdown >= RAC_MAX_DRAWDOWN_PCT (escalates +5%)"
\* (README.md:234): without faults and with a threshold of five percent or more, a
\* breach has been told since the drawdown was last seen below the threshold, and
\* told again if it has grown by five points.
BreachIsTold ==
  faults = 0 /\ Threshold >= EscalationStep /\ reading >= Threshold =>
    level > 0 /\ reading < level + EscalationStep

\* "Once per day" (README.md:235): a date has at most one report more than there
\* were restarts and other faults, even when midnight passes while one is built.
RepeatsNeedFaults ==
  \A d \in 0 .. Day(time) :
    Cardinality({i \in 1 .. Len(reports) : Day(reports[i]) = d}) <= 1 + faults

\* "Kill switch ON/OFF: State change" (README.md:233): once the switch stays as it
\* is, the last message says so, whatever it did between the cycles, unless a
\* message was lost or the worker restarted.
SwitchIsTold ==
  /\ <>[]switch => <>[](told = "active" \/ faults > 0)
  /\ <>[]~switch => <>[](told # "active" \/ faults > 0)
=============================================================================
