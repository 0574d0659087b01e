------------------------------ MODULE MCLearning ------------------------------
(* A small instance of Learning: a buy and a sell, and their symbols.      *)
EXTENDS Learning

MCDirections == <<"buy", "sell">>
MCSymbols == <<{"traded", "ended"}, {"traded", "left_out"}>>
=============================================================================
