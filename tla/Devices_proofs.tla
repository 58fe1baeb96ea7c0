--------------------------- MODULE Devices_proofs ---------------------------
(***************************************************************************)
(* The small devices for any messages, thermistor codes and bounds.        *)
(*                                                                         *)
(* The widths (WidthsInv): the fan's handler and the lamp's request share  *)
(* one structure.  Once the fan was driven half way through a request, the *)
(* structure is the fan's until that request ends, so what it still does   *)
(* to the channel it finds there is what the fan was given anyhow.  That   *)
(* takes the order in which the compiler loads the channel and the width.  *)
(*                                                                         *)
(* The answers (AnswersInv): each device's pins, or what is stored of it,  *)
(* say what was last asked of it, whatever request is half way.            *)
(***************************************************************************)
EXTENDS Devices, TLAPS

\* What is asked of the lamp, in the structure as far as the request has got with it.
LampIsAsked ==
    LET w == Width(lamp.level)
    IN  CASE lamp.stage = "num"            -> info.width = w
          [] lamp.stage \in {"off", "load"} -> info = [num |-> Lamp, width |-> w]
          [] lamp.stage = "write"          -> info = [num |-> Lamp, width |-> w] /\ lamp.held = Lamp
          [] lamp.stage = "on"             -> info.num = Lamp /\ pwm[Lamp].width = w
          [] lamp.stage = "idle"           -> pwm[Lamp] = [on |-> TRUE, width |-> w]

\* The structure is the fan's: what it holds for the fan's channel is the fan's width.
FanIsKept ==
    /\ pwm[Fan].width = export
    /\ lamp.stage \in {"off", "load", "write", "on"} /\ info.num = Fan => info.width = export
    /\ lamp.stage = "write" /\ lamp.held = Fan => info.width = export
    /\ ~pwm[Fan].on /\ export > 0 => lamp.stage \in {"load", "write", "on"} /\ info.num = Fan

\* A request is one of the messages, or has failed.
CallInv ==
    /\ board \in {"D11", "G05"}
    /\ \/ call = NoCall
       \/ call = [at |-> "failing"]
       \/ \E s \in {"serving", "tapped", "lamp"}, m \in Message[board] : 
             call = [at |-> s, msg |-> m] /\ (s # "serving" => m.sub = "set")

Modulator == [Channel -> [on : BOOLEAN, width : Int]]
LampState == [stage : Stages, on : BOOLEAN, level : 0 .. 255, held : Int]

Shapes ==
    /\ info \in [num : Channel, width : Int]
    /\ pwm \in Modulator /\ lamp \in LampState
    /\ lamp.stage = "write" => lamp.held \in Channel
    /\ export \in Int /\ mixed \in BOOLEAN

WidthsInv == Shapes /\ FanIsKept /\ (~mixed => LampIsAsked)

LEMMA ChannelsDiffer == Channel = {Fan, Lamp} /\ Fan # Lamp
  BY DEF Channel, Fan, Lamp

LEMMA InitIsKept == Init => WidthsInv
<1> SUFFICES ASSUME Init PROVE WidthsInv
  OBVIOUS
<1>1. Width(100) = 0
  BY DEF Width
<1>2. pwm[Fan] = [on |-> FALSE, width |-> 0] /\ pwm[Lamp] = [on |-> TRUE, width |-> 0]
  BY ChannelsDiffer DEF Init, FanInit
<1>3. info = [num |-> Lamp, width |-> 0] /\ export = 0 /\ lamp = [stage |-> "idle", on |-> TRUE, level |-> 100, held |-> 0]
  BY <1>1 DEF Init, FanInit
<1>4. pwm \in Modulator /\ lamp \in LampState
  <2>1. pwm = [c \in Channel |-> pwm[c]]
    BY DEF Init, FanInit
  <2>2. pwm \in Modulator
    <3>1. \A c \in Channel : pwm[c] \in [on : BOOLEAN, width : Int]
      <4>1. /\ [on |-> FALSE, width |-> 0] \in [on : BOOLEAN, width : Int]
            /\ [on |-> TRUE, width |-> 0] \in [on : BOOLEAN, width : Int]
        OBVIOUS
      <4> QED BY <1>2, <4>1, ChannelsDiffer, Zenon
    <3> QED BY <2>1, <3>1 DEF Modulator
  <2>3. lamp \in LampState
    BY <1>3 DEF LampState, Stages
  <2> QED BY <2>2, <2>3
<1>5. Shapes
  <2>1. Lamp \in Channel /\ mixed = FALSE
    BY ChannelsDiffer DEF Init, FanInit
  <2>2. info \in [num : Channel, width : Int]
    BY <1>3, <2>1
  <2> QED BY <1>3, <1>4, <2>1, <2>2 DEF Shapes
<1>6. FanIsKept
  BY <1>2, <1>3, ChannelsDiffer DEF FanIsKept
<1>7. LampIsAsked
  BY <1>1, <1>2, <1>3 DEF LampIsAsked
<1> QED BY <1>5, <1>6, <1>7 DEF WidthsInv

-----------------------------------------------------------------------------
\* The fan is driven: it takes the structure.
LEMMA DriveIsKept == ASSUME WidthsInv, Drive PROVE WidthsInv'
<1>1. export' \in Int
  BY FanAssumption DEF WidthsInv, Shapes, Drive, Exported
<1>2. /\ info' = [num |-> Fan, width |-> export'] /\ lamp' = lamp
      /\ pwm' = [pwm EXCEPT ![Fan] = [on |-> TRUE, width |-> export']]
      /\ mixed' = (mixed \/ lamp.stage # "idle")
  BY DEF Drive
<1>3. /\ pwm'[Fan] = [on |-> TRUE, width |-> export'] /\ pwm'[Lamp] = pwm[Lamp]
        /\ pwm' \in Modulator
  BY <1>1, <1>2, ChannelsDiffer DEF WidthsInv, Shapes, Modulator
<1>4. Shapes'
  BY <1>1, <1>2, <1>3, ChannelsDiffer DEF WidthsInv, Shapes
<1>5. FanIsKept'
  BY <1>2, <1>3 DEF FanIsKept
<1>6. ~mixed' => LampIsAsked'
  BY <1>2, <1>3 DEF WidthsInv, LampIsAsked
<1> QED BY <1>4, <1>5, <1>6 DEF WidthsInv

\* The steps of the request, in the order in which the structure is loaded.
LEMMA LampStepIsKept == ASSUME NumFirst, WidthsInv, LampStep PROVE WidthsInv'
<1> USE ChannelsDiffer DEF WidthsInv
<1>1. export' = export /\ mixed' = mixed
  BY DEF LampStep
<1>2. CASE SetInfo /\ lamp.stage = "num"
  <2>1. info' = [info EXCEPT !.num = Lamp] /\ lamp' = [lamp EXCEPT !.stage = "off"] /\ pwm' = pwm
    BY <1>2 DEF SetInfo
  <2>2. info' = [num |-> Lamp, width |-> info.width] /\ lamp'.stage = "off" /\ lamp'.level = lamp.level
        /\ lamp'.on = lamp.on /\ lamp'.held = lamp.held
    BY <2>1 DEF Shapes, Modulator, LampState
  <2>3. Shapes'
    <3>1. pwm' \in Modulator
      BY <2>1 DEF Shapes, Modulator
    <3>2. lamp' \in LampState
      BY <2>1 DEF Shapes, LampState, Stages, Channel
    <3> QED BY <1>1, <2>1, <2>2, <3>1, <3>2 DEF Shapes
  <2> QED BY <1>1, <1>2, <2>1, <2>2, <2>3 DEF FanIsKept, LampIsAsked
<1>3. CASE SetInfo /\ lamp.stage = "off"
  <2>1. pwm' = [pwm EXCEPT ![info.num].on = FALSE] /\ lamp' = [lamp EXCEPT !.stage = "load"] /\ info' = info
    BY <1>3 DEF SetInfo
  <2>2. /\ lamp'.stage = "load" /\ lamp'.level = lamp.level /\ lamp'.on = lamp.on /\ lamp'.held = lamp.held
        /\ pwm'[info.num] = [on |-> FALSE, width |-> pwm[info.num].width]
        /\ \A c \in Channel : c # info.num => pwm'[c] = pwm[c]
    BY <2>1 DEF Shapes, Modulator, LampState
  <2>3. Shapes'
    <3>1. pwm' \in Modulator
      BY <2>1 DEF Shapes, Modulator
    <3>2. lamp' \in LampState
      BY <2>1 DEF Shapes, LampState, Stages, Channel
    <3> QED BY <1>1, <2>1, <2>2, <3>1, <3>2 DEF Shapes
  <2>4. FanIsKept'
    BY <1>1, <1>3, <2>1, <2>2 DEF FanIsKept, Shapes
  <2> QED BY <1>1, <1>3, <2>1, <2>2, <2>3, <2>4 DEF LampIsAsked
<1>4. CASE Load
  <2>1. /\ lamp.stage = "load" /\ info' = info /\ pwm' = pwm
        /\ lamp' = [lamp EXCEPT !.stage = "write", !.held = info.num]
    BY <1>4 DEF Load
  <2>2. lamp' = [stage |-> "write", on |-> lamp.on, level |-> lamp.level, held |-> info.num]
    BY <2>1 DEF Shapes, Modulator, LampState
  <2>3. Shapes'
    <3>1. pwm' \in Modulator
      BY <2>1 DEF Shapes, Modulator
    <3>2. lamp' \in LampState
      BY <2>2 DEF Shapes, LampState, Stages, Channel
    <3> QED BY <1>1, <2>1, <2>2, <3>1, <3>2 DEF Shapes
  <2> QED BY <1>1, <2>1, <2>2, <2>3 DEF FanIsKept, LampIsAsked
<1>5. CASE Write
  <2>1. /\ lamp.stage = "write" /\ info' = info
        /\ pwm' = [pwm EXCEPT ![lamp.held].width = info.width]
        /\ lamp' = [lamp EXCEPT !.stage = "on", !.held = 0]
    BY <1>5 DEF Write
  <2>2. /\ lamp' = [stage |-> "on", on |-> lamp.on, level |-> lamp.level, held |-> 0]
        /\ pwm'[lamp.held] = [on |-> pwm[lamp.held].on, width |-> info.width]
        /\ \A c \in Channel : c # lamp.held => pwm'[c] = pwm[c]
    BY <2>1, ZenonT(40) DEF Shapes, Modulator, LampState
  <2>3. Shapes'
    <3>1. pwm' \in Modulator
      BY <2>1 DEF Shapes, Modulator
    <3>2. lamp' \in LampState
      BY <2>2 DEF Shapes, LampState, Stages, Channel
    <3> QED BY <1>1, <2>1, <2>2, <3>1, <3>2 DEF Shapes
  <2>4. FanIsKept'
    BY <1>1, <2>1, <2>2 DEF FanIsKept, Shapes
  <2> QED BY <1>1, <2>1, <2>2, <2>3, <2>4 DEF LampIsAsked
<1>6. CASE TurnOn
  <2>1. /\ lamp.stage = "on" /\ info' = info
        /\ pwm' = [pwm EXCEPT ![info.num].on = TRUE]
        /\ lamp' = [lamp EXCEPT !.stage = "idle"]
    BY <1>6 DEF TurnOn
  <2>2. /\ lamp' = [stage |-> "idle", on |-> lamp.on, level |-> lamp.level, held |-> lamp.held]
        /\ pwm'[info.num] = [on |-> TRUE, width |-> pwm[info.num].width]
        /\ \A c \in Channel : c # info.num => pwm'[c] = pwm[c]
    BY <2>1, ZenonT(40) DEF Shapes, Modulator, LampState
  <2>3. Shapes'
    <3>1. pwm' \in Modulator
      BY <2>1 DEF Shapes, Modulator
    <3>2. lamp' \in LampState
      BY <2>1 DEF Shapes, LampState, Stages, Channel
    <3> QED BY <1>1, <2>1, <2>2, <3>1, <3>2 DEF Shapes
  <2>4. FanIsKept'
    BY <1>1, <2>1, <2>2 DEF FanIsKept, Shapes
  <2> QED BY <1>1, <2>1, <2>2, <2>3, <2>4 DEF LampIsAsked
<1> QED BY <1>2, <1>3, <1>4, <1>5, <1>6 DEF LampStep, SetInfo

\* A request to the lamp begins.
LEMMA BeginLampIsKept == ASSUME CallInv, WidthsInv, BeginLamp PROVE WidthsInv'
<1> PICK on \in BOOLEAN, l \in 0 .. 255 : SetLamp(on, l)
  <2>1. call.msg \in Message[board]
    BY DEF BeginLamp, Is, Serves, CallInv, NoCall
  <2> QED BY <2>1, MsgCenterAssumption DEF BeginLamp, CallInv
<1>1. /\ lamp.stage = "idle"
      /\ lamp' = [stage |-> "num", on |-> on, level |-> l, held |-> 0]
      /\ info' = [info EXCEPT !.width = Width(l)]
      /\ mixed' = FALSE /\ export' = export /\ pwm' = pwm
  BY DEF SetLamp, pwmVars
<1>2. info' = [num |-> info.num, width |-> Width(l)] /\ Width(l) \in Int
  BY <1>1 DEF WidthsInv, Shapes, Width
<1>3. lamp' \in LampState
  BY <1>1 DEF LampState, Stages
<1>4. Shapes'
  BY <1>1, <1>2, <1>3 DEF WidthsInv, Shapes
<1>5. FanIsKept'
  BY <1>1 DEF WidthsInv, FanIsKept
<1>6. LampIsAsked'
  BY <1>1, <1>2 DEF LampIsAsked, Width
<1> QED BY <1>4, <1>5, <1>6 DEF WidthsInv

\* Everything else leaves the structure and the modulator alone.
LEMMA OthersAreKept ==
  ASSUME WidthsInv, UNCHANGED <<pwmVars, lamp, mixed>>
  PROVE  WidthsInv'
  BY DEF WidthsInv, Shapes, FanIsKept, LampIsAsked, pwmVars, Width

\* Requests come from the messages, and go on to their answers.
LEMMA CallStep == ASSUME CallInv, [Next]_vars PROVE CallInv'
<1>1. board' = board
  BY DEF Next, Call, Receive, Serve, Fail, ServeAtOnce, TapBell, AnswerBell, BeginLamp, AnswerLamp,
         SetModulator, ReportError, BellTime, Alarm, CheckLight, CheckHeat, GoOn, Converter, Outside,
         vars, centreVars
<1>2. CASE call' \in {call, NoCall, [at |-> "failing"]}
  BY <1>1, <1>2 DEF CallInv
<1>3. ASSUME NEW m \in Message[board], Receive(m) PROVE CallInv'
  BY <1>1, <1>2, <1>3 DEF Receive, CallInv
<1>4. ASSUME Serve, call' # NoCall PROVE CallInv'
  <2>1. /\ call.at = "serving" /\ call.msg.sub = "set"
        /\ \E s \in {"tapped", "lamp"} : call' = [call EXCEPT !.at = s]
    BY <1>4 DEF Serve, Fail, ServeAtOnce, TapBell, AnswerBell, BeginLamp, AnswerLamp, Is, Serves
  <2>2. PICK m \in Message[board] : call = [at |-> "serving", msg |-> m]
    BY <2>1 DEF CallInv, NoCall
  <2> QED BY <1>1, <2>1, <2>2 DEF CallInv
<1>5. Serve \/ (\E m \in Message[board] : Receive(m)) \/ call' = call
  BY DEF Next, Call, SetModulator, ReportError, BellTime, Alarm, CheckLight, CheckHeat, GoOn, Converter,
         Outside, vars, centreVars
<1> QED BY <1>2, <1>3, <1>4, <1>5

LEMMA WidthsStep == ASSUME NumFirst, CallInv, WidthsInv, [Next]_vars PROVE WidthsInv'
<1>1. ASSUME NEW m \in Message[board], Receive(m) PROVE UNCHANGED <<pwmVars, lamp, mixed>>
  BY <1>1 DEF Receive, fanVars
<1>2. CASE Serve
  <2>1. BeginLamp \/ UNCHANGED <<pwmVars, lamp, mixed>>
    BY <1>2 DEF Serve, Fail, ServeAtOnce, TapBell, AnswerBell, AnswerLamp, fanVars
  <2> QED BY <2>1, BeginLampIsKept, OthersAreKept
<1>3. CASE ReportError \/ BellTime \/ Alarm
  BY <1>3, OthersAreKept DEF ReportError, BellTime, Alarm, fanVars
<1>4. CASE SetModulator
  BY <1>4, LampStepIsKept DEF SetModulator
<1>5. CASE CheckLight \/ CheckHeat \/ Converter \/ Outside
  BY <1>5, OthersAreKept DEF CheckLight, CheckHeat, Converter, Outside, Check, ConverterInterrupt, Heating
<1>6. CASE GoOn
  BY <1>6, OthersAreKept, DriveIsKept DEF GoOn, CheckStep, SetBusy
<1>7. CASE UNCHANGED vars
  BY <1>7, OthersAreKept DEF vars, fanVars
<1> QED BY <1>1, <1>2, <1>3, <1>4, <1>5, <1>6, <1>7, OthersAreKept DEF Next, Call

\* The fan's channel has the fan's width and runs, and the lamp's has what was last asked of
\* the lamp, whenever the kernel timer preempts the request: for the order of loads in the
\* driver that is shipped, which loads the channel before the width (PWM.c:221).
THEOREM ModulatorFollows == ASSUME NumFirst PROVE Spec => []WidthsAreAsked
<1>1. Init => CallInv /\ WidthsInv
  BY InitIsKept DEF Init, CentreInit, CallInv, Modules
<1>2. CallInv /\ WidthsInv /\ [Next]_vars => (CallInv /\ WidthsInv)'
  BY WidthsStep, CallStep
<1>3. WidthsInv => WidthsAreAsked
  BY DEF WidthsInv, Shapes, FanIsKept, LampIsAsked, WidthsAreAsked
<1> QED BY <1>1, <1>2, <1>3, PTL DEF Spec

-----------------------------------------------------------------------------
\* What the pins and the structure of the lamp say is what was last asked.
AskedInv ==
    /\ DOMAIN asked = DOMAIN Requests
    /\ lens.night = ~lens.day /\ asked["lens"] = Plain(IF lens.day THEN "day" ELSE "night")
    /\ asked["plug"] = Plain(IF plug THEN "off" ELSE "on")
    /\ asked["lock"].status # Unasked => asked["lock"] = Plain(IF lock THEN "open" ELSE "closed")
    /\ asked["lamp"] = [status |-> IF lamp.on THEN "on" ELSE "off", level |-> lamp.level]
    /\ {"on", "level"} \subseteq DOMAIN lamp

LEMMA DevicesHaveRequests == {"lens", "plug", "lock", "lamp"} \subseteq DOMAIN Requests
  BY DEF Requests

LEMMA InitIsAsked == Init => AskedInv
<1> SUFFICES ASSUME Init PROVE AskedInv
  OBVIOUS
<1>1. /\ DOMAIN asked = DOMAIN Requests
      /\ asked["lens"] = Plain("day") /\ asked["plug"] = Plain("off") /\ asked["lock"] = Plain(Unasked)
      /\ asked["lamp"] = [status |-> "on", level |-> 100]
  BY DevicesHaveRequests DEF Init, CentreInit
<1>2. /\ plug = TRUE /\ lens = [day |-> TRUE, night |-> FALSE]
      /\ lamp = [stage |-> "idle", on |-> TRUE, level |-> 100, held |-> 0]
  BY DEF Init, CentreInit, FanInit
<1>3. asked["lock"].status = Unasked
  BY <1>1 DEF Plain
<1>4. lens.day /\ ~lens.night /\ plug /\ lamp.on /\ lamp.level = 100 /\ {"on", "level"} \subseteq DOMAIN lamp
  BY <1>2
<1>5. lens.night = ~lens.day
  BY <1>2
<1> QED BY <1>1, <1>3, <1>4, <1>5 DEF AskedInv

\* A device is asked for something: it is stored, and what the others were asked stays.
LEMMA AsksOne ==
  ASSUME DOMAIN asked = DOMAIN Requests, NEW d \in {"lens", "plug", "lock", "lamp"}, NEW s, Asks(d, s)
  PROVE  /\ DOMAIN asked' = DOMAIN Requests
         /\ asked'[d] = s /\ \A e \in {"lens", "plug", "lock", "lamp"} \ {d} : asked'[e] = asked[e]
  BY DevicesHaveRequests DEF Asks

LEMMA SetLensIsAsked == ASSUME AskedInv, SetLens, lamp' = lamp PROVE AskedInv'
<1> DEFINE s == IF call.msg.arg.status = "night" THEN "night" ELSE "day"
<1>1. /\ lens' = [day |-> s = "day", night |-> s = "night"]
      /\ Asks("lens", Plain(s)) /\ plug' = plug /\ lock' = lock
  BY DEF SetLens
<1>2. s = "day" \/ s = "night"
  OBVIOUS
<1> HIDE DEF s
<1>3. /\ DOMAIN asked' = DOMAIN Requests /\ asked'["lens"] = Plain(s)
      /\ \A e \in {"plug", "lock", "lamp"} : asked'[e] = asked[e]
  BY <1>1, AsksOne DEF AskedInv
<1>4. lens'.night = ~lens'.day /\ s = IF lens'.day THEN "day" ELSE "night"
  BY <1>1, <1>2
<1> QED BY <1>1, <1>3, <1>4 DEF AskedInv

LEMMA SetSpeakerIsAsked == ASSUME AskedInv, SetSpeaker, lamp' = lamp PROVE AskedInv'
<1> DEFINE s == IF call.msg.arg.status = "on" THEN "on" ELSE "off"
<1>1. /\ plug' = (s # "on") /\ Asks("plug", Plain(s)) /\ lens' = lens /\ lock' = lock
  BY DEF SetSpeaker, SpeakerPin
<1>2. s = "on" \/ s = "off"
  OBVIOUS
<1> HIDE DEF s
<1>3. /\ DOMAIN asked' = DOMAIN Requests /\ asked'["plug"] = Plain(s)
      /\ \A e \in {"lens", "lock", "lamp"} : asked'[e] = asked[e]
  BY <1>1, AsksOne DEF AskedInv
<1>4. s = IF plug' THEN "off" ELSE "on"
  BY <1>1, <1>2
<1> QED BY <1>1, <1>3, <1>4 DEF AskedInv

LEMMA SetLockIsAsked == ASSUME AskedInv, SetLock, lamp' = lamp PROVE AskedInv'
<1> DEFINE s == IF call.msg.arg.status = "open" THEN "open" ELSE "closed"
<1>1. /\ lock' = (s = "open") /\ Asks("lock", Plain(s)) /\ lens' = lens /\ plug' = plug
  BY DEF SetLock
<1>2. s = "open" \/ s = "closed"
  OBVIOUS
<1> HIDE DEF s
<1>3. /\ DOMAIN asked' = DOMAIN Requests /\ asked'["lock"] = Plain(s)
      /\ \A e \in {"lens", "plug", "lamp"} : asked'[e] = asked[e]
  BY <1>1, AsksOne DEF AskedInv
<1>4. s = IF lock' THEN "open" ELSE "closed"
  BY <1>1, <1>2
<1> QED BY <1>1, <1>3, <1>4 DEF AskedInv

LEMMA BeginLampIsAsked == ASSUME AskedInv, BeginLamp PROVE AskedInv'
<1> DEFINE a == call.msg.arg
           s == [status |-> IF a.status = "on" THEN "on" ELSE "off", level |-> a.level]
<1>1. /\ lamp' = [stage |-> "num", on |-> a.status = "on", level |-> a.level, held |-> 0]
      /\ Asks("lamp", s) /\ lens' = lens /\ plug' = plug /\ lock' = lock
  BY DEF BeginLamp, SetLamp, devicePins
<1>2. /\ DOMAIN asked' = DOMAIN Requests /\ asked'["lamp"] = s
      /\ \A e \in {"lens", "plug", "lock"} : asked'[e] = asked[e]
  BY <1>1, AsksOne DEF AskedInv
<1>3. s = [status |-> IF lamp'.on THEN "on" ELSE "off", level |-> lamp'.level]
  BY <1>1
<1> QED BY <1>1, <1>2, <1>3 DEF AskedInv

\* The other steps leave what the answers are made of alone.
LEMMA UnaskedStays ==
  ASSUME AskedInv, UNCHANGED <<asked, lens, plug, lock>>,
         lamp'.on = lamp.on, lamp'.level = lamp.level, DOMAIN lamp' = DOMAIN lamp
  PROVE  AskedInv'
  BY DEF AskedInv, Plain

LEMMA AskedStep == ASSUME AskedInv, [Next]_vars PROVE AskedInv'
<1>1. ASSUME NEW m \in Message[board], Receive(m) PROVE AskedInv'
  BY <1>1, UnaskedStays DEF Receive, devicePins, fanVars
<1>2. CASE Serve
  <2>1. CASE Fail \/ TapBell \/ AnswerBell \/ AnswerLamp
    BY <2>1, UnaskedStays DEF Fail, TapBell, AnswerBell, AnswerLamp, devicePins, fanVars
  <2>2. CASE ServeAtOnce
    <3>1. lamp' = lamp
      BY <2>2 DEF ServeAtOnce, fanVars
    <3>2. CASE Info \/ GetLens \/ GetSpeaker \/ Microphone \/ GetLock \/ GetEas \/ GetLamp
      BY <3>1, <3>2, UnaskedStays
         DEF Info, GetLens, GetSpeaker, Microphone, GetLock, GetEas, GetLamp, devicePins
    <3> QED BY <2>2, <3>1, <3>2, SetLensIsAsked, SetSpeakerIsAsked, SetLockIsAsked DEF ServeAtOnce
  <2> QED BY <1>2, <2>1, <2>2, BeginLampIsAsked DEF Serve
<1>3. CASE ReportError \/ BellTime \/ Alarm
  BY <1>3, UnaskedStays DEF ReportError, BellTime, Alarm, devicePins, fanVars
<1>4. CASE SetModulator
  <2>1. lamp'.on = lamp.on /\ lamp'.level = lamp.level /\ DOMAIN lamp' = DOMAIN lamp
    BY <1>4 DEF SetModulator, LampStep, SetInfo, Load, Write, TurnOn, AskedInv
  <2> QED BY <1>4, <2>1, UnaskedStays DEF SetModulator, centreVars, devicePins
<1>5. CASE CheckLight \/ CheckHeat \/ GoOn \/ Converter \/ Outside
  BY <1>5, UnaskedStays DEF CheckLight, CheckHeat, Converter, Outside, Check, ConverterInterrupt, Heating,
     GoOn, CheckStep, SetBusy, Drive, centreVars, devicePins
<1>6. CASE UNCHANGED vars
  BY <1>6, UnaskedStays DEF vars, centreVars, devicePins, fanVars
<1> QED BY <1>1, <1>2, <1>3, <1>4, <1>5, <1>6 DEF Next, Call

\* Only a request to get a status answers with one.
LEMMA GetsAnswer ==
  ASSUME CallInv, AskedInv, [Next]_vars, answer' \notin {answer, NoAnswer},
         answer'.sub = "get", answer'.type \in {"lens", "plug", "lamp", "lock"}
  PROVE  answer'.is = asked[answer'.type] \/ asked[answer'.type].status \in {Unasked, "closed"}
<1>1. Serve
  BY DEF Next, Call, Receive, SetModulator, ReportError, BellTime, Alarm, CheckLight, CheckHeat, GoOn,
         Converter, Outside, vars, centreVars
<1>2. ASSUME NEW e, NEW s, Answers(e, s)
      PROVE  answer'.type = call.msg.type /\ answer'.sub = call.msg.sub /\ answer'.is = s
  BY <1>2 DEF Answers
<1>3. call.msg.sub = "get" /\ answer'.type = call.msg.type /\ ServeAtOnce
  <2>1. \E e, s : Answers(e, s)
    BY <1>1 DEF Serve, Fail, ServeAtOnce, TapBell, AnswerBell, BeginLamp, AnswerLamp, Info, SetLens, GetLens,
                SetSpeaker, GetSpeaker, Microphone, SetLock, GetLock, GetEas, GetLamp
  <2>2. call.msg.sub = "get" /\ answer'.type = call.msg.type
    BY <1>2, <2>1
  <2>3. ~TapBell /\ ~AnswerBell /\ ~AnswerLamp /\ ~BeginLamp /\ ~Fail
    BY <2>2 DEF CallInv, NoCall, TapBell, AnswerBell, AnswerLamp, BeginLamp, Fail, Is, Serves
  <2> QED BY <1>1, <2>2, <2>3 DEF Serve
<1>4. \/ GetLens /\ call.msg.type = "lens"
      \/ GetSpeaker /\ call.msg.type = "plug"
      \/ GetLock /\ call.msg.type = "lock"
      \/ GetLamp /\ call.msg.type = "lamp"
  BY <1>3 DEF ServeAtOnce, Info, SetLens, GetLens, SetSpeaker, GetSpeaker, Microphone, SetLock, GetLock, GetEas,
              GetLamp, Is
<1>5. CASE GetLens /\ call.msg.type = "lens"
  <2>1. PICK s \in {"day", "night"} :
           (lens.day # lens.night => s = IF lens.day THEN "day" ELSE "night") /\ Answers("none", Plain(s))
    BY <1>5 DEF GetLens
  <2>2. Plain(s) = asked["lens"]
    BY <2>1 DEF AskedInv
  <2> QED BY <1>2, <1>3, <1>5, <2>1, <2>2
<1>6. CASE GetSpeaker /\ call.msg.type = "plug"
  BY <1>2, <1>3, <1>6 DEF GetSpeaker, AskedInv
<1>7. CASE GetLock /\ call.msg.type = "lock"
  <2>1. PICK s \in {"open", "closed"} : (lock => s = "open") /\ Answers("none", Plain(s))
    BY <1>7 DEF GetLock
  <2>2. asked["lock"].status \in {Unasked, "closed"} \/ Plain(s) = asked["lock"]
    BY <2>1 DEF AskedInv, Plain
  <2> QED BY <1>2, <1>3, <1>7, <2>1, <2>2
<1>8. CASE GetLamp /\ call.msg.type = "lamp"
  BY <1>2, <1>3, <1>8 DEF GetLamp, AskedInv
<1> QED BY <1>4, <1>5, <1>6, <1>7, <1>8

\* An answer about a lens, a plug, the lamp or a lock is what was last asked of it, for any
\* messages; of a lock only that it is open, since the driver leaves the other answer
\* uninitialised (MsgCenter.c:1775-1779).
THEOREM AnswersStayTrue == Spec => AnswersAreTrue
<1>1. Init => CallInv /\ AskedInv
  BY InitIsAsked DEF Init, CentreInit, CallInv, Modules
<1>2. CallInv /\ AskedInv /\ [Next]_vars => (CallInv /\ AskedInv)'
  BY CallStep, AskedStep
<1>3. CallInv /\ AskedInv /\ [Next]_vars
      => [answer' \notin {answer, NoAnswer} /\ answer'.sub = "get" /\ answer'.type \in {"lens", "plug", "lamp", "lock"}
          => answer'.is = asked[answer'.type] \/ asked[answer'.type].status \in {Unasked, "closed"}]_vars
  BY GetsAnswer
<1> QED BY <1>1, <1>2, <1>3, PTL DEF Spec, AnswersAreTrue
=============================================================================
