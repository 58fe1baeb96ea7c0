----------------------------- MODULE MCStateLi -----------------------------
(***************************************************************************)
(* Two lights; times of none and of two calls of the handler.              *)
(***************************************************************************)
EXTENDS StateLi

MCTime == {0, 2}
=============================================================================
