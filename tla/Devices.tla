------------------------------ MODULE Devices ------------------------------
(***************************************************************************)
(* A board with its small devices, from the requests of its processes to   *)
(* the pins: 3518C_D11, whose kernel timer drives a fan besides, and       *)
(* 3518E_G05 with its bell, lock and emergency switch.                     *)
(***************************************************************************)
EXTENDS MsgCenter

vars == <<centreVars, fanVars>>

Init == CentreInit /\ FanInit

HasFan == board = "D11"

Call == \/ \E m \in Message[board] : Receive(m)
        \/ Serve

SetModulator == LampStep /\ UNCHANGED centreVars

\* The handlers the kernel timer calls, and the interrupts.
CheckLight == HasFan /\ Check(Light) /\ UNCHANGED centreVars
CheckHeat  == HasFan /\ Check(Heat) /\ UNCHANGED centreVars
GoOn       == CheckStep /\ UNCHANGED centreVars
Converter  == HasFan /\ ConverterInterrupt /\ UNCHANGED centreVars
Outside    == HasFan /\ Heating /\ UNCHANGED centreVars

Next ==
    \/ Call \/ SetModulator \/ ReportError \/ BellTime \/ Alarm
    \/ CheckLight \/ CheckHeat \/ GoOn \/ Converter \/ Outside

\* A handler runs to its end, and the converter interrupts; the scan reaches every
\* handler again and again (EventsFire of PeriodEvent); a request that the kernel timer
\* preempts goes on in the end.
Fairness ==
    /\ WF_vars(GoOn) /\ WF_vars(Converter)
    /\ SF_vars(CheckHeat) /\ SF_vars(BellTime)
    /\ SF_vars(SetModulator) /\ SF_vars(Serve)

Spec     == Init /\ [][Next]_vars
FairSpec == Spec /\ Fairness

-----------------------------------------------------------------------------
TypeOK ==
    /\ code \in Sample /\ upsets \in 0 .. MaxUpsets
    /\ busy \in BOOLEAN /\ blocks \in 0 .. Blocks - 1 /\ converts \in Channel \cup {None}
    /\ temp \in Int
    /\ check \in [at : {"idle", "flag", "drive"}, of : Channel]
    /\ export \in 0 .. MaxExport
    /\ info \in [num : Channel, width : 0 .. 300]
    /\ pwm \in [Channel -> [on : BOOLEAN, width : 0 .. 300]]
    /\ lamp.stage \in Stages /\ mixed \in BOOLEAN
    /\ events \in Bags /\ Size(events) <= Cap
    /\ requests \in 0 .. MaxRequests[board]

\* The fan's channel always has the fan's width and runs, but for the moment in which a
\* request that was preempted turns it off and on again; and the lamp's channel has what
\* was last asked of the lamp, unless the fan was driven half way through that request
\* (the two share pInfo: CoolFan.c:96-100, 3518C_D11.c:264-273).
WidthsAreAsked ==
    /\ pwm[Fan].width = export
    /\ ~pwm[Fan].on /\ export > 0 => lamp.stage \in {"load", "write", "on"}
    /\ lamp.stage = "idle" /\ ~mixed => pwm[Lamp] = [on |-> TRUE, width |-> Width(lamp.level)]

\* An answer about a device is what was last asked of it; that a lock is closed is not
\* always said, since the driver leaves this answer uninitialised (MsgCenter.c:1775-1779).
AnswersAreTrue ==
    [][LET a == answer'
       IN  answer' \notin {answer, NoAnswer} /\ a.sub = "get" /\ a.type \in {"lens", "plug", "lamp", "lock"}
           => a.is = asked[a.type] \/ asked[a.type].status \in {Unasked, "closed"}]_vars

\* A bell that is tapped is released, unless a full table has refused the event that
\* would do it (DoorBell.c:121-127).
BellIsReleased == ~bell ~> bell \/ refused

\* What the thermistor's temperature asks of the fan: to run when it is hot or cannot be
\* measured, and to stop, or to stay at the least it was on at, when it is not.  The
\* readings may be two degrees too high.
IsHot(v)  == ~IsMeasured(v) \/ Meant(v) >= OH
IsCool(v) == IsAboveZero(v) /\ Meant(v) < OH - 20

\* However often its converter blocks the fan runs at its most in the end when it stays
\* hot, and does not when it stays cool.  That it stops is not said: at MinExport exactly
\* it goes on (CoolFan.c:85).
FanSettles ==
    /\ <>[](HasFan /\ IsHot(code)) => <>[](pwm[Fan].width = MaxExport)
    /\ <>[](HasFan /\ IsCool(code)) => <>[](pwm[Fan].width \in {0, MinExport})
=============================================================================
