------------------------------- MODULE Light -------------------------------
(***************************************************************************)
(* The light sensor of NV_Driver_G3/CTA/LDR.c with its filter: once a      *)
(* second the kernel timer takes the sample converted since the last call, *)
(* averages it with the last five averages, and judges the result.  A      *)
(* request changes the limits, and may be preempted between the two.       *)
(***************************************************************************)
EXTENDS LDR

CONSTANTS
    Sample,         \* the light there may be
    Start,          \* the light when the driver starts
    Sensitive,      \* the sensitivities requested, <<aSPoint, aDomain>>
    BreakLimit,     \* DC_LDR_FilterBreakLimit
    BreakTimes,     \* DC_LDR_FilterBreakTimes
    Steps,          \* DC_LDR_FilterOrder1Steps; the weights are those of 5
    MaxChanges      \* bound: changes of the light

ASSUME LightAssumption ==
    /\ Start \in Sample /\ Sample \subseteq 0 .. MaxSam
    /\ Sensitive \subseteq (0 .. 255) \X (0 .. 255)
    /\ {BreakLimit, MaxChanges} \subseteq Nat /\ BreakTimes \in Nat \ {0} /\ Steps = 5

VARIABLES
    light,          \* the sample the ADC would take now
    converted,      \* the sample it took, after the last call started it
    buf,            \* saFltOrder1
    ori, count,     \* tOri, tCount of sfLDR_Filter
    halfSet,        \* the SetSensitive that has set the day limit only, or <<>>
    sensitive,      \* history: the last sensitivity set, or <<>>
    changes         \* changes of the light left

lightVars == <<ldrVars, light, converted, buf, ori, count, halfSet, sensitive, changes>>

LightTypeOK ==
    /\ LdrTypeOK
    /\ {light, converted} \subseteq Sample
    /\ buf \in [1 .. Steps -> 0 .. MaxSam] /\ ori \in 0 .. MaxSam
    /\ count \in 0 .. BreakTimes - 1
    /\ halfSet \in Sensitive \cup {<<>>} /\ sensitive \in Sensitive \cup {<<>>}
    /\ changes \in 0 .. MaxChanges

\* sfLDR_FilterBuf_Assimilate.
Assimilated(v) == [i \in 1 .. Steps |-> v]

\* sfdefLDR_Init.
LightInit ==
    /\ light = Start /\ converted = Start
    /\ LdrInit(Start)
    /\ buf = Assimilated(Start)
    /\ ori = 0 /\ count = 0
    /\ halfSet = <<>> /\ sensitive = <<>> /\ changes = MaxChanges

-----------------------------------------------------------------------------
Distance(a, b) == IF a > b THEN a - b ELSE b - a
IsFar(v)       == Distance(v, ori) >= BreakLimit
IsBreak(v)     == IsFar(v) /\ count + 1 = BreakTimes

\* tCount after a sample; the buffer it is averaged with.
CountAfter(v) == IF IsFar(v) /\ ~IsBreak(v) THEN count + 1 ELSE 0
Averaged(v)   == IF IsBreak(v) THEN Assimilated(v) ELSE buf

\* A mutant, which breaks RecognisesTheLight: the weights are short of 16.
FilteredShort(v) ==
    LET b == Averaged(v) IN (8 * v + b[1] + b[2] + b[3] + b[4] + 2 * b[5]) \div 16

\* A mutant, which breaks ChangesWithTheLight: the weights are more than 16.
FilteredLong(v) ==
    LET b == Averaged(v) IN (8 * v + b[1] + b[2] + b[3] + b[4] + 8 * b[5]) \div 16

\* The weighted sum.
Filtered(v) ==
    LET b == Averaged(v) IN (8 * v + b[1] + b[2] + b[3] + b[4] + 4 * b[5]) \div 16

\* The oldest average is dropped.
Shifted(b, f) == [i \in 1 .. Steps |-> IF i < Steps THEN b[i + 1] ELSE f]

\* sfLDR_MotorCheck, when the conversion it has started last time is done, and sfLDR_Filter.
MotorCheck ==
    LET v == converted  f == Filtered(v)
    IN  /\ converted' = light
        /\ count'  = CountAfter(v)
        /\ buf'    = Shifted(Averaged(v), f)
        /\ ori'    = IF CountAfter(v) = 0 THEN f ELSE ori
        /\ status' = Judged(f)
        /\ UNCHANGED <<dLimit, nLimit, light, halfSet, sensitive, changes>>

LightChanges ==
    /\ changes > 0 /\ changes' = changes - 1
    /\ light' \in Sample \ {light}
    /\ UNCHANGED <<ldrVars, converted, buf, ori, count, halfSet, sensitive>>

SetDayLimit ==
    /\ halfSet = <<>>
    /\ \E s \in Sensitive : halfSet' = s /\ dLimit' = DayLimit(s[1], s[2])
    /\ UNCHANGED <<nLimit, status, light, converted, buf, ori, count, sensitive, changes>>

SetNightLimit ==
    /\ halfSet # <<>> /\ halfSet' = <<>>
    /\ nLimit' = NightLimit(halfSet[1], halfSet[2])
    /\ sensitive' = halfSet
    /\ UNCHANGED <<dLimit, status, light, converted, buf, ori, count, changes>>

LightNext == MotorCheck \/ LightChanges \/ SetDayLimit \/ SetNightLimit

LightSpec     == LightInit /\ [][LightNext]_lightVars
\* The kernel timer calls its events again and again (EventsFire of PeriodEvent).
LightFairSpec == LightSpec /\ WF_lightVars(MotorCheck)

-----------------------------------------------------------------------------
\* A light that stays two steps above the day's limit is found to be day in the end, one that
\* stays below both limits is found to be night.  One step above is not enough: the average is
\* rounded down, and may rest one below the sample (LDR.c:151).
IsBright == light >= dLimit + 2
IsDark == light < nLimit /\ light <= dLimit
RecognisesTheLight ==
    /\ IsBright ~> status = {"day"} \/ ~IsBright
    /\ IsDark ~> status = {"night"} \/ ~IsDark

\* The status follows the light: it turns to day only where the sample, or one of those the
\* filter remembers, is day, and to night likewise.
Remembered == {converted} \cup {buf[i] : i \in 1 .. Steps}
ChangesWithTheLight ==
    [][status' # status => \/ status' = {"day"}   /\ \E v \in Remembered : v > dLimit
                           \/ status' = {"night"} /\ \E v \in Remembered : v < nLimit]_lightVars

\* With a point of 0 there is no night, with a point of 100 there is no day, whatever the
\* domain and the light (CommunicateProtocol.md:574-575).
ExtremesAreSilent ==
    [][status' # status /\ sensitive # <<>> /\ halfSet = <<>>
       => (sensitive[1] = 0 => status' # {"night"}) /\ (sensitive[1] >= 100 => status' # {"day"})]_lightVars
=============================================================================
