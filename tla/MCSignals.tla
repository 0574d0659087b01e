------------------------------ MODULE MCSignals ------------------------------
(* Small instances of Signals: strategies and the histories they need.     *)
EXTENDS Signals

MCStrategies == {"trend", "reversion"}

\* Both, or one before a name that is not known: its turn ends the cycle.
MCSettings == {<<"trend", "reversion">>, <<"reversion", "trend_v1">>}
MCNeed == [trend |-> 1, reversion |-> 2]
MCVerdicts == [trend |-> {"buy", "hold"}, reversion |-> {"buy", "sell", "flat"}]

\* A name that is no longer known, before one that is.
MCOldStrategies == {"trend"}
MCOldSettings == {<<"trend_v1", "trend">>}
MCOldNeed == [trend |-> 1]
MCOldVerdicts == [trend |-> {"buy", "sell", "hold"}]
=============================================================================
