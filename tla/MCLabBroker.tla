----------------------------- MODULE MCLabBroker -----------------------------
(* Two intents of one run for TLC: the first is one a human is asked about, the second
   declares outputs, and the budget has room for one of them. *)
EXTENDS LabBroker

FirstAsks == {1}
SecondDeclares == {2}
=============================================================================
