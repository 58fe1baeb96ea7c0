---------------------------- MODULE MCMqueueRmd ----------------------------
(* Three slots for four processes, or two for three, and a buffer of eleven *)
(* units for replies of one and two: it is cleared, and the table fills up. *)
EXTENDS MqueueRmd, TLC

Users == Permutations(User)
=============================================================================
