----------------------------- MODULE MCFraming ------------------------------
(* Framing for TLC: a short and a longer message.                          *)
EXTENDS Framing

Messages == {"short", "long"}
Sizes == [m \in Messages |-> IF m = "short" THEN 1 ELSE 3]
=============================================================================
