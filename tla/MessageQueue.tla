---------------------------- MODULE MessageQueue ----------------------------
(***************************************************************************)
(* What one direction of a connection between portal and plugin promises:  *)
(* the receiver gets the sender's messages, whole, each once, in order.    *)
(* It may get fewer, as a connection can end at any time.                  *)
(***************************************************************************)
EXTENDS Naturals, Sequences

CONSTANT Message

VARIABLES
    sent,      \* the messages sent so far
    received   \* those received so far

Init == sent = <<>> /\ received = <<>>

Send(m) == sent' = Append(sent, m) /\ UNCHANGED received

Receive ==
    /\ Len(received) < Len(sent)
    /\ received' = Append(received, sent[Len(received) + 1])
    /\ UNCHANGED sent

Next == Receive \/ \E m \in Message : Send(m)

Spec == Init /\ [][Next]_<<sent, received>>
=============================================================================
