-------------------------------- MODULE LDR --------------------------------
(***************************************************************************)
(* The judgement of NV_Driver_G3/CTA/LDR.c: whether it is day or night,    *)
(* from a value of the light sensor and two limits, which a request sets.  *)
(***************************************************************************)
EXTENDS Integers

CONSTANTS
    DLim, NLim,     \* DC_LDR_DLim, DC_LDR_NLim
    MaxSam,         \* DC_LDR_DEF_MAXSAM, the largest sample
    Unit            \* aAdjUnit

ASSUME LdrAssumption ==
    /\ MaxSam \in Nat /\ DLim \in 0 .. MaxSam /\ NLim \in 0 .. MaxSam
    /\ Unit = MaxSam \div 100 + 1

VARIABLES
    dLimit,         \* aDLimit: more than this is day
    nLimit,         \* aNLimit: less than this is night
    status          \* aStatus, a set of flags: both are set before the first judgement

ldrVars == <<dLimit, nLimit, status>>

Phase == {"day", "night"}

LdrTypeOK ==
    /\ dLimit \in 0 .. MaxSam /\ nLimit \in 0 .. 255 * Unit
    /\ status \in (SUBSET Phase) \ {{}}

\* sfLDR_Judge.
Judged(v) ==
    CASE v > dLimit /\ "night" \in status                -> {"day"}
      [] v <= dLimit /\ v < nLimit /\ "day" \in status   -> {"night"}
      [] OTHER                                           -> status

\* sfdefLDR_Init calls sfLDR_Judge, with both flags set, for its first value.
LdrInit(v) ==
    /\ dLimit = DLim
    /\ nLimit = NLim
    /\ status = CASE v > DLim -> {"day"} [] v <= DLim /\ v < NLim -> {"night"} [] OTHER -> Phase

-----------------------------------------------------------------------------
\* A mutant, which breaks ExtremesAreSilent: the unit is rounded down.
DayLimitShort(point, domain) ==
    LET t == (Unit - 1) * (point + domain) IN IF t > MaxSam THEN MaxSam ELSE t

\* sfdefLDR_SetSensitive, its two assignments.
DayLimit(point, domain)   == LET t == Unit * (point + domain) IN IF t > MaxSam THEN MaxSam ELSE t
NightLimit(point, domain) == LET t == Unit * (point - domain) IN IF t < 0 THEN 0 ELSE t
=============================================================================
