----------------------------- MODULE MCCruise -----------------------------
(***************************************************************************)
(* Axes of two steps.  The second place to stand at is the end of an axis, *)
(* from which the self-test has no way back.  The second preset of the     *)
(* list that is brought in lies behind the range.                          *)
(***************************************************************************)
EXTENDS Cruise

HV(h, v) == [a \in {"h", "v"} |-> IF a = "h" THEN h ELSE v]
MCHome   == {HV(0, 1), HV(1, 2)}
MCDead   == {{}, {<<"h", "origin">>}, {<<"v", "tail">>}}
MCWay    == {StepsBy(2, 0, TRUE, FALSE), StepsBy(2, 1, FALSE, TRUE), StepsBy(1, 3, FALSE, FALSE)}
MCConfig == {[n \in {1, 2} |->
                [set |-> FALSE, x |-> IF n = 1 THEN 0 ELSE 9, y |-> 1, stay |-> n - 1]]}
=============================================================================
