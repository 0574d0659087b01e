---------------------------- MODULE OrderLedger ----------------------------
(***************************************************************************)
(* What the order book kept in Postgres promises to the rest of the        *)
(* system, whoever writes it: an order row is opened once, is settled once *)
(* as filled or cancelled and never changes again, and the portfolio books *)
(* it at most once.  Reconciliation implements this specification.         *)
(*                                                                         *)
(* Exact adds what holds only while one process reconciles: the booked     *)
(* quantity is the one recorded in the row, and only a filled order is     *)
(* booked.                                                                 *)
(***************************************************************************)
EXTENDS Integers

CONSTANTS
  Orders,    \* identities of orders
  Quantity,  \* shares asked for by an order
  Exact      \* TRUE: one reconciling process

VARIABLES
  status,    \* status[o]: the row's life
  settled,   \* settled[o]: the quantity recorded when the row was filled
  booked     \* booked[o]: the quantity the portfolio booked, 0 before

vars == <<status, settled, booked>>

Init ==
  /\ status = [o \in Orders |-> "none"]
  /\ settled = [o \in Orders |-> 0]
  /\ booked = [o \in Orders |-> 0]

Open(o) ==
  /\ status[o] = "none"
  /\ status' = [status EXCEPT ![o] = "submitted"]
  /\ UNCHANGED <<settled, booked>>

Fill(o) ==
  /\ status[o] = "submitted"
  /\ status' = [status EXCEPT ![o] = "filled"]
  /\ \E q \in 1 .. Quantity : settled' = [settled EXCEPT ![o] = q]
  /\ UNCHANGED booked

Cancel(o) ==
  /\ status[o] = "submitted"
  /\ status' = [status EXCEPT ![o] = "cancelled"]
  /\ UNCHANGED <<settled, booked>>

Book(o) ==
  /\ status[o] \in {"filled", "cancelled"}
  /\ booked[o] = 0
  /\ \E q \in 1 .. Quantity :
       /\ booked' = [booked EXCEPT ![o] = q]
       /\ Exact => status[o] = "filled" /\ q = settled[o]
  /\ UNCHANGED <<status, settled>>

Next == \E o \in Orders : Open(o) \/ Fill(o) \/ Cancel(o) \/ Book(o)

Spec == Init /\ [][Next]_vars
=============================================================================
