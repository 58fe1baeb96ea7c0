------------------------------ MODULE MCLight ------------------------------
(***************************************************************************)
(* The limits and the filter of the driver itself; samples on both sides   *)
(* of each limit, the extremes, and three sensitivities.                   *)
(***************************************************************************)
EXTENDS Light

MCSample    == {0, 30, 60, 100, 102, 1023}
MCSensitive == {<<0, 5>>, <<50, 10>>, <<100, 0>>}
=============================================================================
