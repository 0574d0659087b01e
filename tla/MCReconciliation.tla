-------------------------- MODULE MCReconciliation --------------------------
(* Small instances of Reconciliation.                                      *)
EXTENDS Reconciliation

TwoOrders == {1, 2}
ThreeOrders == {1, 2, 3}

MCSymbolOf == [o \in Orders |-> "A"]
MCPrice == [o \in Orders |-> o]

\* The last order sells A, on a signal or to close the first order.
MCSideOf == [o \in Orders |-> IF o + 1 \in Orders THEN "buy" ELSE "sell"]
NoParents == [o \in Orders |-> NoOrder]
LastClosesFirst == [o \in Orders |-> IF o + 1 \in Orders THEN NoOrder ELSE 1]
=============================================================================
