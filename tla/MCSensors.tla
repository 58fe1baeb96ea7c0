----------------------------- MODULE MCSensors -----------------------------
(***************************************************************************)
(* Two buttons; a PIR sensor; one button and a PIR sensor in one group.    *)
(***************************************************************************)
EXTENDS Sensors

MCButton == {1, 2}
=============================================================================
