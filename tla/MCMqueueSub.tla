---------------------------- MODULE MCMqueueSub ----------------------------
(* A ring of fourteen units and reports of one and three: it wraps, at its *)
(* edge and with a unit or two left over, and it fills up.                 *)
EXTENDS MqueueSub, TLC

Users == Permutations(User)
=============================================================================
