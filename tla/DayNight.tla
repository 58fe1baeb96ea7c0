------------------------------ MODULE DayNight ------------------------------
(***************************************************************************)
(* What makes a camera see by night, and who decides: the light sensor     *)
(* (CTA/LDR.c) and the requests of the processes (Tool/MsgCenter.c) both   *)
(* switch the infrared filter (CTA/IfrFilter.c) and the infrared lamp      *)
(* (CTA/InfraredLi.c).  The events that turn the filter's motor off share  *)
(* the kernel timer's table with the error reports of requests that are    *)
(* not understood.                                                         *)
(***************************************************************************)
EXTENDS IfrFilter, LDR

CONSTANTS
    Value,          \* what the light sensor's filter may yield
    Code,           \* the errors of sfMsgCent_Process
    Nap,            \* ssleep(1), in scans of the table
    MaxCuts,        \* the constant of the test CutCount < 2
    MaxRequests     \* bound: requests of all the processes

ASSUME DayNightAssumption ==
    Value \subseteq 0 .. MaxSam /\ {Nap, MaxCuts, MaxRequests} \subseteq Nat \ {0} /\ "none" \notin Code

VARIABLES
    mode,           \* aStatusChgType
    cuts,           \* CutCount, which matters up to MaxCuts
    lamp,           \* the infrared lamp is on
    request,        \* per process, the request it makes
    requests,       \* requests left
    err,            \* sMsgCent_Err
    switched,       \* history: the light sensor has switched the filter and the lamp
    lampAsked,      \* history: a request has switched the lamp
    last,           \* history: what the last finished request asked of the filter
    unreported,     \* history: the errors no report has told of yet
    lost            \* history: those that were overwritten, or refused by a full table

dayNightVars == <<mode, cuts, lamp, request, requests, err, switched, lampAsked, last, unreported, lost>>
vars == <<filterVars, ldrVars, dayNightVars>>

\* The phases of a request: "asking" has ended the automatic mode; "flip" sets Pass first, sleeps, and sets Block; "only" sets what
\* was asked; "failing" has stored its error and not yet registered the report.
Phases == {"idle", "asking", "flip", "asleep", "only", "failing"}
NoRequest == [phase |-> "idle", want |-> "block", nap |-> 0]

TypeOK ==
    /\ FilterTypeOK /\ LdrTypeOK
    /\ mode \in {"auto", "manual"} /\ cuts \in 0 .. MaxCuts
    /\ request \in [Process -> [phase : Phases, want : Way, nap : 0 .. Nap]]
    /\ requests \in 0 .. MaxRequests
    /\ err \in Code \cup {"none"} /\ last \in Way \cup {"none"}
    /\ {lamp, switched, lampAsked} \subseteq BOOLEAN
    /\ unreported \subseteq Code /\ lost \subseteq Code

\* The board's Init: the light sensor judges before it may switch anything, then the lamp
\* is turned off and the filter blocks.
Init ==
    /\ FilterInit
    /\ \E v \in Value : LdrInit(v)
    /\ mode = "auto" /\ cuts = 0 /\ lamp = FALSE
    /\ request = [p \in Process |-> NoRequest] /\ requests = MaxRequests
    /\ err = "none" /\ last = "none"
    /\ switched = FALSE /\ lampAsked = FALSE
    /\ unreported = {} /\ lost = {}

-----------------------------------------------------------------------------
(* The kernel timer.                                                       *)

Woken == [p \in Process |-> IF request[p].nap > 0 THEN [request[p] EXCEPT !.nap = @ - 1] ELSE request[p]]

Tick ==
    /\ Due = {}
    /\ slot' = Counted /\ blade' = Moved /\ request' = Woken
    /\ UNCHANGED <<type, pin, setting, refused, muddled, ldrVars>>
    /\ UNCHANGED <<mode, cuts, lamp, err, switched, lampAsked, last, unreported, lost, requests>>

MotorOff == ShutDown /\ UNCHANGED <<ldrVars, dayNightVars>>

\* sfMsgCent_SendREPORTErr.
ReportError ==
    \E k \in Due :
        /\ k = First(Due) /\ slot[k].handler = "error"
        /\ slot' = Fired(k)
        /\ unreported' = unreported \ {err} /\ lost' = lost \ {err}
        /\ UNCHANGED <<type, pin, blade, setting, refused, muddled, ldrVars>>
        /\ UNCHANGED <<mode, cuts, lamp, request, err, switched, lampAsked, last, requests>>

\* A mutant, which breaks AutoAgrees: the lamp is switched the other way.
SwitchReversed(w) == lamp' = (w = "block") /\ SetInTimer(w) /\ switched' = TRUE

Switch(w) == lamp' = (w = "pass") /\ SetInTimer(w) /\ switched' = TRUE

\* A mutant, which breaks FilterIsWhereAsked: a request does not end the automatic mode.
MayJudgeAlways == status' # status

MayJudge == status' # status /\ mode = "auto"

\* sfLDR_Judge, where it may switch something: the boards of the other types have sensors
\* of their own that never set u32LDRInitFlag.
Judge ==
    /\ type = "B"
    /\ \E v \in Value : status' = Judged(v)
    /\ IF MayJudge THEN Switch(IF status' = {"night"} THEN "pass" ELSE "block")
       ELSE UNCHANGED <<pin, blade, lamp, switched>>
    /\ UNCHANGED <<dLimit, nLimit, type, slot, setting, refused, muddled>>
    /\ UNCHANGED <<mode, cuts, request, err, lampAsked, last, unreported, lost, requests>>

-----------------------------------------------------------------------------
(* The requests.                                                           *)

IsIn(p, x) == request[p].phase = x
Others(p)    == Process \ {p}
Alone(p)     == ~Powered /\ Holders("shutdown") = {} /\ \A q \in Others(p) : IsIn(q, "idle")

Begins(p) == IsIn(p, "idle") /\ requests > 0 /\ requests' = requests - 1

StartsSet(p, w) == setting' = [setting EXCEPT ![p] = [stage |-> "begin", way |-> w]]

\* sfMsgCent_OptIfrFilter: it ends the automatic mode ...
SetFilter(p) ==
    \E w \in Way :
        /\ MayRun /\ Begins(p)
        /\ mode' = "manual"
        /\ request' = [request EXCEPT ![p] = [phase |-> "asking", want |-> w, nap |-> 0]]
        /\ muddled' = ~Alone(p)
        /\ UNCHANGED <<type, pin, blade, slot, setting, refused, ldrVars>>
        /\ UNCHANGED <<cuts, lamp, err, switched, lampAsked, last, unreported, lost>>

\* ... and then looks where the filter is, and comes to its first SetStatus.
Choose(p) ==
    LET w     == request[p].want
        flips == w = "block" /\ GetFilter = "block" /\ cuts < MaxCuts
    IN  /\ MayRun /\ IsIn(p, "asking")
        /\ request' = [request EXCEPT ![p].phase = IF flips THEN "flip" ELSE "only"]
        /\ StartsSet(p, IF flips THEN "pass" ELSE w)
        /\ UNCHANGED <<type, pin, blade, slot, refused, muddled, ldrVars>>
        /\ UNCHANGED <<mode, cuts, lamp, err, switched, lampAsked, last, unreported, lost, requests>>

SetPins(p) == MayRun /\ SetStep(p) /\ UNCHANGED <<ldrVars, dayNightVars>>

Sleep(p) ==
    /\ MayRun /\ IsIn(p, "flip") /\ At(p, "none")
    /\ request' = [request EXCEPT ![p].phase = "asleep", ![p].nap = Nap]
    /\ UNCHANGED <<filterVars, ldrVars>>
    /\ UNCHANGED <<mode, cuts, lamp, err, switched, lampAsked, last, unreported, lost, requests>>

Wake(p) ==
    /\ MayRun /\ IsIn(p, "asleep") /\ request[p].nap = 0
    /\ request' = [request EXCEPT ![p].phase = "only"]
    /\ StartsSet(p, "block")
    /\ UNCHANGED <<type, pin, blade, slot, refused, muddled, ldrVars>>
    /\ UNCHANGED <<mode, cuts, lamp, err, switched, lampAsked, last, unreported, lost, requests>>

Finish(p) ==
    /\ MayRun /\ IsIn(p, "only") /\ At(p, "none")
    /\ cuts' = IF cuts < MaxCuts THEN cuts + 1 ELSE cuts
    /\ last' = request[p].want
    /\ request' = [request EXCEPT ![p] = NoRequest]
    /\ UNCHANGED <<filterVars, ldrVars>>
    /\ UNCHANGED <<mode, lamp, err, switched, lampAsked, unreported, lost, requests>>

\* sfMsgCent_OptIfrLight, on the boards that have the lamp.
SetLamp(p) ==
    /\ MayRun /\ Begins(p) /\ type # "D"
    /\ lamp' \in BOOLEAN /\ lampAsked' = TRUE
    /\ UNCHANGED <<filterVars, ldrVars>>
    /\ UNCHANGED <<mode, cuts, request, err, switched, last, unreported, lost>>

\* sfMsgCent_Report_Err, its two statements.
Fail(p) ==
    \E c \in Code :
        /\ MayRun /\ Begins(p)
        /\ err' = c
        /\ unreported' = unreported \cup {c}
        /\ lost' = (lost \cup unreported) \ {c}
        /\ request' = [request EXCEPT ![p].phase = "failing"]
        /\ UNCHANGED <<filterVars, ldrVars>>
        /\ UNCHANGED <<mode, cuts, lamp, switched, lampAsked, last>>

RegisterError(p) ==
    /\ MayRun /\ IsIn(p, "failing")
    /\ slot' = Registered("error")
    /\ lost' = IF IsFull THEN lost \cup unreported ELSE lost
    /\ request' = [request EXCEPT ![p] = NoRequest]
    /\ UNCHANGED <<type, pin, blade, setting, refused, muddled, ldrVars>>
    /\ UNCHANGED <<mode, cuts, lamp, err, switched, lampAsked, last, unreported, requests>>

Request(p) ==
    \/ SetFilter(p) \/ Choose(p) \/ SetPins(p) \/ Sleep(p) \/ Wake(p) \/ Finish(p)
    \/ SetLamp(p) \/ Fail(p) \/ RegisterError(p)

Timer == Tick \/ MotorOff \/ ReportError

Next == Timer \/ Judge \/ \E p \in Process : Request(p)

\* The scan goes on for ever, and a process that is preempted runs again; that a process
\* makes a request is not asked for.
Fairness == WF_vars(Timer) /\ \A p \in Process : SF_vars(SetPins(p))

Spec     == Init /\ [][Next]_vars
FairSpec == Spec /\ Fairness

-----------------------------------------------------------------------------
Quiet == ~Powered /\ \A p \in Process : IsIn(p, "idle")

\* With no request under way and the motor at rest the filter is where the last finished
\* request asked, whatever the light sensor has judged since and however often it was cut
\* over; unless that request met another one, or a shutdown of an earlier one.
FilterIsWhereAsked == last # "none" /\ Quiet /\ ~muddled => blade = last

\* The two coils are not driven against each other, unless requests met (IfrFilter.c:313-319
\* leaves the other coil of type D on).  What an earlier meeting left of type C is powered
\* only until the request has turned the other coil off (236-243).
CoilsAreNotOpposed == Powered /\ pin[0] /\ pin[1] => muddled \/ \E p \in Process : At(p, "coil")

\* Until a request takes over, the lamp and the filter are those of the light sensor's
\* status, once it has switched them: a driver that starts in the dark has not (LDR.c:221).
AutoAgrees ==
    mode = "auto" /\ switched /\ ~lampAsked
    => /\ lamp = (status = {"night"})
       /\ blade = IF status = {"night"} THEN "pass" ELSE "block"

\* An error that waits for its report has the event registered, or is about to; unless a
\* later error took its place, or a full table refused (MsgCenter.c:134-139).
ErrorsArePending ==
    \A c \in unreported \ lost :
        c = err /\ (Holders("error") # {} \/ \E p \in Process : IsIn(p, "failing"))

\* The motor does not stay powered, unless a full table has refused the event that turns
\* it off (IfrFilter.c:247, 320).
MotorRests == Powered ~> ~Powered \/ refused
=============================================================================
