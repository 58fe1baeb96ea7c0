----------------------------- MODULE MsgCenter -----------------------------
(***************************************************************************)
(* The message centre of NV_Driver_G3/Tool/MsgCenter.c: what becomes of a  *)
(* request, from its header to the answer or the error report, on boards   *)
(* with the small devices: the double lens, the audio plug, the night lamp *)
(* (3518C_D11), the door bell, the door lock and the emergency switch      *)
(* (3518E_G05).  Requests are system calls: one runs at a time, and the    *)
(* kernel timer preempts it between any two accesses.                      *)
(***************************************************************************)
EXTENDS EventTable, Fan

CONSTANTS
    Message,        \* per board, the messages that are written
    SendErr,        \* sfMsgCent_SendREPORTErr
    ReleaseBell,    \* sf_defDoorBell_ReleaseTiming
    MaxRequests     \* bound: requests, per board

ASSUME MsgCenterAssumption ==
    /\ {SendErr, ReleaseBell} \subseteq Handler
    /\ MaxRequests \in [{"D11", "G05"} -> Nat]
    /\ \A b \in {"D11", "G05"} : \A m \in Message[b] : m.arg.level \in 0 .. 255

VARIABLES
    board,          \* which board it is, which does not change
    requests,       \* requests left
    call,           \* the request that is being served
    answer,         \* the reply that was queued since the last request
    err,            \* sMsgCent_Err
    plug, lens, lock, bell, eas,    \* the devices' pins, TRUE is high
    asked,          \* history: per device, the status that was last asked for
    refused         \* history: a full table has refused the release of the bell

devicePins == <<plug, lens, lock, bell, eas>>
centreVars == <<events, board, requests, call, answer, err, devicePins, asked, refused>>

\* The modules sfMsgConf_StartConfig loads for a board's capabilities, and their requests.
\* Those of the other devices are in the modules of these devices.
Modules == [D11 |-> {"device", "lens", "plug", "lamp"},
            G05 |-> {"device", "plug", "bell", "lock", "eas"}]

Requests == [device |-> {"get"}, lens |-> {"get", "set"}, plug |-> {"get", "set", "get mic", "set mic"},
             lamp |-> {"get", "set"}, bell |-> {"set"}, lock |-> {"get", "set"}, eas |-> {"get"}]

NoCall   == [at |-> "none"]
NoAnswer == [type |-> "none"]
Unasked  == "unasked"

Plain(x) == [status |-> x, level |-> 0]

\* The board's Init, long ago: the lens is the day's, the speaker is off, the lamp is on,
\* the bell's pin is high; the lock's pin has only got its direction.
CentreInit ==
    /\ TableInit
    /\ board \in DOMAIN Modules
    /\ requests = MaxRequests[board]
    /\ call = NoCall /\ answer = NoAnswer /\ err = "none"
    /\ plug = TRUE /\ bell = TRUE
    /\ lens = [day |-> TRUE, night |-> FALSE]
    /\ lock \in BOOLEAN /\ eas = FALSE
    /\ asked = [d \in DOMAIN Requests |->
                  CASE d = "lens" -> Plain("day")
                    [] d = "plug" -> Plain("off")
                    [] d = "lamp" -> [status |-> "on", level |-> 100]
                    [] OTHER      -> Plain(Unasked)]
    /\ refused = FALSE

\* The kernel timer's handlers run to their end before a request goes on.
TaskRuns == check.at = "idle"
Serves(s) == call.at = s /\ TaskRuns

-----------------------------------------------------------------------------
(* The dispatch.                                                           *)

\* sfMsgCent_Process to the module's processing, or the first statement of
\* sfMsgCent_Report_Err.
Receive(m) ==
    LET fails(c) == err' = c /\ call' = [at |-> "failing"]
    IN  /\ call = NoCall /\ TaskRuns
        /\ requests > 0 /\ requests' = requests - 1
        /\ answer' = NoAnswer
        /\ CASE ~m.magic                        -> fails("magic word")
             [] m.magic /\ m.type \notin Modules[board] -> fails("main type")
             [] OTHER ->
                  IF m.sub \in Requests[m.type]
                  THEN call' = [at |-> "serving", msg |-> m] /\ UNCHANGED err
                  ELSE fails("sub type")
        /\ UNCHANGED <<events, board, devicePins, asked, refused, fanVars>>

\* Its second statement.
Fail ==
    /\ Serves("failing") /\ call' = NoCall
    /\ events' = With(events, SendErr)
    /\ UNCHANGED <<board, requests, answer, err, devicePins, asked, refused, fanVars>>

\* sfMsgCent_SendREPORTErr.
ReportError ==
    /\ check.at = "idle" /\ events[SendErr] > 0
    /\ events' = Without(events, SendErr)
    /\ UNCHANGED <<board, requests, call, answer, err, devicePins, asked, refused, fanVars>>

\* sfMsgCent_Union and sfMsgCent_Send.
Answers(e, s) ==
    answer' = [type |-> call.msg.type, sub |-> call.msg.sub, err |-> e, is |-> s]

Is(type, sub) == Serves("serving") /\ call.msg.type = type /\ call.msg.sub = sub

Asks(type, s) == asked' = [asked EXCEPT ![type] = s]

-----------------------------------------------------------------------------
(* The devices.                                                            *)

Info ==
    /\ Is("device", "get")
    /\ Answers("none", Plain("info"))
    /\ UNCHANGED <<devicePins, asked>>

\* sfdefDoubLens_SetStatus: whatever is not the night's lens is the day's.
SetLens ==
    LET s == IF call.msg.arg.status = "night" THEN "night" ELSE "day"
    IN  /\ Is("lens", "set")
        /\ lens' = [day |-> s = "day", night |-> s = "night"]
        /\ Answers("none", Plain("done")) /\ Asks("lens", Plain(s))
        /\ UNCHANGED <<plug, lock, bell, eas>>

\* The answer is not initialised where both pins are alike.
GetLens ==
    /\ Is("lens", "get")
    /\ \E s \in {"day", "night"} :
          /\ lens.day # lens.night => s = IF lens.day THEN "day" ELSE "night"
          /\ Answers("none", Plain(s))
    /\ UNCHANGED <<devicePins, asked>>

\* A mutant, which breaks AnswersAreTrue: the speaker's pin is set the other way.
SpeakerPinHigh(s) == s = "on"

\* OnStatus is 0 on these boards: a low pin turns the speaker on.
SpeakerPin(s) == s # "on"

SetSpeaker ==
    LET s == IF call.msg.arg.status = "on" THEN "on" ELSE "off"
    IN  /\ Is("plug", "set")
        /\ plug' = SpeakerPin(s)
        /\ Answers("none", Plain("done")) /\ Asks("plug", Plain(s))
        /\ UNCHANGED <<lens, lock, bell, eas>>

GetSpeaker ==
    /\ Is("plug", "get")
    /\ Answers("none", Plain(IF plug THEN "off" ELSE "on"))
    /\ UNCHANGED <<devicePins, asked>>

\* These boards have no microphone: afSetStatus and afGetStatus return -2.
Microphone ==
    /\ Is("plug", "get mic") \/ Is("plug", "set mic")
    /\ Answers("no support", Plain(IF call.msg.sub = "get mic" THEN "no support" ELSE "done"))
    /\ UNCHANGED <<devicePins, asked>>

SetLock ==
    LET s == IF call.msg.arg.status = "open" THEN "open" ELSE "closed"
    IN  /\ Is("lock", "set")
        /\ lock' = (s = "open")
        /\ Answers("none", Plain("done")) /\ Asks("lock", Plain(s))
        /\ UNCHANGED <<plug, lens, bell, eas>>

\* The answer is not initialised for a closed lock (MsgCenter.c:1777 tests the complement).
GetLock ==
    /\ Is("lock", "get")
    /\ \E s \in {"open", "closed"} : (lock => s = "open") /\ Answers("none", Plain(s))
    /\ UNCHANGED <<devicePins, asked>>

\* sfdefEAS_GetStatus, where aDefSta is 0.
GetEas ==
    /\ Is("eas", "get")
    /\ Answers("none", Plain(IF eas THEN "emergency" ELSE "safe"))
    /\ UNCHANGED <<devicePins, asked>>

\* sfD11_NiLi_GetStatus does nothing: the answer is what was stored.
GetLamp ==
    /\ Is("lamp", "get")
    /\ Answers("none", [status |-> IF lamp.on THEN "on" ELSE "off", level |-> lamp.level])
    /\ UNCHANGED <<devicePins, asked>>

\* What is answered in one step, since nothing else touches these pins.
ServeAtOnce ==
    /\ \/ Info \/ SetLens \/ GetLens \/ SetSpeaker \/ GetSpeaker \/ Microphone
       \/ SetLock \/ GetLock \/ GetEas \/ GetLamp
    /\ call' = NoCall
    /\ UNCHANGED <<events, board, requests, err, refused, fanVars>>

\* sfdefDoorBell_SetStatus: the pin, and then the event that releases it.
TapBell ==
    /\ Is("bell", "set")
    /\ IF call.msg.arg.status = "tap"
       THEN bell' = FALSE /\ call' = [call EXCEPT !.at = "tapped"] /\ UNCHANGED answer
       ELSE call' = NoCall /\ Answers("none", Plain("done")) /\ UNCHANGED bell
    /\ UNCHANGED <<events, board, requests, err, plug, lens, lock, eas, asked, refused, fanVars>>

AnswerBell ==
    /\ Serves("tapped") /\ call' = NoCall
    /\ events' = With(events, ReleaseBell) /\ refused' = ~HasRoom(events)
    /\ Answers("none", Plain("done"))
    /\ UNCHANGED <<board, requests, err, devicePins, asked, fanVars>>

\* A mutant, which breaks BellIsReleased: it releases only the last of several taps.
ReleaseLast == bell' = (events[ReleaseBell] > 1)

Release == bell' = TRUE

\* sf_defDoorBell_ReleaseTiming.
BellTime ==
    /\ check.at = "idle" /\ events[ReleaseBell] > 0
    /\ Release
    /\ events' = Without(events, ReleaseBell)
    /\ UNCHANGED <<board, requests, call, answer, err, plug, lens, lock, eas, asked, refused, fanVars>>

Alarm ==
    /\ "eas" \in Modules[board] /\ eas' = ~eas
    /\ UNCHANGED <<events, board, requests, call, answer, err, plug, lens, lock, bell, asked, refused, fanVars>>

\* sfMsgCent_OptNightLight, and its answer when the modulator has been set.
BeginLamp ==
    LET a == call.msg.arg
    IN  /\ Is("lamp", "set")
        /\ SetLamp(a.status = "on", a.level)
        /\ call' = [call EXCEPT !.at = "lamp"]
        /\ Asks("lamp", [status |-> IF a.status = "on" THEN "on" ELSE "off", level |-> a.level])
        /\ UNCHANGED <<events, board, requests, answer, err, devicePins, refused>>

AnswerLamp ==
    /\ Serves("lamp") /\ lamp.stage = "idle" /\ call' = NoCall
    /\ Answers("none", Plain("done"))
    /\ UNCHANGED <<events, board, requests, err, devicePins, asked, refused, fanVars>>

Serve == Fail \/ ServeAtOnce \/ TapBell \/ AnswerBell \/ BeginLamp \/ AnswerLamp
=============================================================================
