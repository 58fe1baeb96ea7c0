-------------------------------- MODULE PIR --------------------------------
(***************************************************************************)
(* The PIR motion sensor of NV_Driver_G3/CTA/PIR.c.  Its pin falls when it *)
(* is triggered and rises when that is over; a trigger that was long       *)
(* enough disables the interrupt and registers a report in the kernel      *)
(* timer's table; the report enables the interrupt again, at once or by    *)
(* another event after the dead time.                                      *)
(***************************************************************************)
EXTENDS EventTable

CONSTANTS
    Report,         \* sfdefPIR_ResponTimerToReport
    Release         \* sfdefPIR_ResponTimerToReleasePIRInt

ASSUME PirAssumption == {Report, Release} \subseteq Handler

VARIABLES
    pirLevel,       \* the pin, TRUE is high: no trigger
    pirAwaits,      \* the level it interrupts at
    enabled,        \* its interrupt is enabled
    trigger,        \* stTriggerTimeout against jiffies: "none" (0), "short", "long"
    hasDeadTime,    \* aDeadTime is not 0
    following,      \* the report has run and not yet registered the release
    pirRefused      \* history: a full table refused the report or the release

pirVars == <<pirLevel, pirAwaits, enabled, trigger, hasDeadTime, following, pirRefused>>

PirInit ==
    /\ pirLevel    = TRUE
    /\ pirAwaits   = FALSE
    /\ enabled     = TRUE
    /\ trigger     = "none"
    /\ hasDeadTime = TRUE       \* DC_defPIR_DeadTimeInterval
    /\ following   = FALSE
    /\ pirRefused  = FALSE

\* sfPin_IsIntExist reads the raw state, which a disabled interrupt has too.
PirRaised == pirLevel = pirAwaits

\* Somebody moves, or stops, never faster than an enabled interrupt is taken; and the
\* time of a trigger passes (DC_defPIR_TriggerTimeVal).
PirChange ==
    /\ PirRaised => ~enabled
    /\ pirLevel' = ~pirLevel
    /\ UNCHANGED <<events, pirAwaits, enabled, trigger, hasDeadTime, following, pirRefused>>

PirTime ==
    /\ trigger = "short" /\ trigger' = "long"
    /\ UNCHANGED <<events, pirLevel, pirAwaits, enabled, hasDeadTime, following, pirRefused>>

\* sfdefPIR_SetDeadTime, a request.
SetDeadTime ==
    /\ hasDeadTime' = ~hasDeadTime
    /\ UNCHANGED <<events, pirLevel, pirAwaits, enabled, trigger, following, pirRefused>>

-----------------------------------------------------------------------------
(* sfdefPIR_ImportInt, called for any interrupt of the pin's group.        *)

\* A mutant, which breaks DeadTimeIsKept: the interrupt stays enabled.
TriggerEnabled ==
    /\ enabled'    = enabled
    /\ events'     = With(events, Report)
    /\ pirRefused' = (pirRefused \/ ~HasRoom(events))

\* sfdefPIR_ImportIntTrigger.
Trigger ==
    /\ enabled'    = FALSE
    /\ events'     = With(events, Report)
    /\ pirRefused' = (pirRefused \/ ~HasRoom(events))

Ignore == UNCHANGED <<events, enabled, pirRefused>>

\* The trigger is over.  Without a start its limit is 0, and jiffies, which wrap, may be
\* before or after 0.
TriggerOver ==
    /\ pirAwaits' = FALSE
    /\ trigger'   = "none"
    /\ \/ trigger \in {"long", "none"}  /\ Trigger
       \/ trigger \in {"short", "none"} /\ Ignore

TriggerStart ==
    /\ pirAwaits' = TRUE
    /\ trigger'   = "short"
    /\ Ignore

PirIsr ==
    \/ ~PirRaised /\ UNCHANGED <<events, pirVars>>
    \/ /\ PirRaised
       /\ IF pirLevel THEN TriggerOver ELSE TriggerStart
       /\ UNCHANGED <<pirLevel, hasDeadTime, following>>

PirInterrupt == PirRaised /\ enabled /\ PirIsr

-----------------------------------------------------------------------------
(* The two events, in the kernel timer.                                    *)

\* sfdefPIR_ResponTimerToReport, to line 308, and its rest: an interrupt may come between.
PirReport ==
    /\ ~following /\ events[Report] > 0
    /\ events' = Without(events, Report)
    /\ following' = TRUE
    /\ UNCHANGED <<pirLevel, pirAwaits, enabled, trigger, hasDeadTime, pirRefused>>

\* A mutant, which breaks PirComesBack: without a dead time nothing is enabled.
PirFollowOnlyRelease ==
    /\ following /\ following' = FALSE
    /\ \/ ~hasDeadTime /\ UNCHANGED <<events, enabled, pirRefused>>
       \/ /\ hasDeadTime
          /\ events' = With(events, Release)
          /\ pirRefused' = (pirRefused \/ ~HasRoom(events))
          /\ UNCHANGED enabled
    /\ UNCHANGED <<pirLevel, pirAwaits, trigger, hasDeadTime>>

PirFollow ==
    /\ following /\ following' = FALSE
    /\ \/ ~hasDeadTime /\ enabled' = TRUE /\ UNCHANGED <<events, pirRefused>>
       \/ /\ hasDeadTime
          /\ events' = With(events, Release)
          /\ pirRefused' = (pirRefused \/ ~HasRoom(events))
          /\ UNCHANGED enabled
    /\ UNCHANGED <<pirLevel, pirAwaits, trigger, hasDeadTime>>

PirRelease ==
    /\ ~following /\ events[Release] > 0
    /\ events'  = Without(events, Release)
    /\ enabled' = TRUE
    /\ UNCHANGED <<pirLevel, pirAwaits, trigger, hasDeadTime, following, pirRefused>>

PirNext == \/ PirChange \/ PirTime \/ SetDeadTime
           \/ PirInterrupt \/ PirReport \/ PirFollow \/ PirRelease
=============================================================================
