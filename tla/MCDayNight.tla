----------------------------- MODULE MCDayNight -----------------------------
(***************************************************************************)
(* Two processes, and the values the boards' own light sensors yield, with *)
(* one between the limits.                                                 *)
(***************************************************************************)
EXTENDS DayNight

MCValue == {20, 60, 120}
=============================================================================
