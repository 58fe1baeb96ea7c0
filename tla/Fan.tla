-------------------------------- MODULE Fan --------------------------------
(***************************************************************************)
(* The cooling fan and the night lamp of the board 3518C_D11, which share  *)
(* one structure for what they ask of the pulse width modulator            *)
(* (NV_Driver_G3/HAL/HI3518/PWM.c, pInfo).  The fan is driven in the       *)
(* kernel timer from the temperature the converter's interrupt has stored  *)
(* (CTA/TempMonitor.c, CTA/CoolFan.c, HAL/HI3518/ADC.c); the lamp is set   *)
(* by requests, which the kernel timer preempts between any two accesses   *)
(* (Pro/3518C_D11.c).  The converter's interrupt preempts both, and its    *)
(* other channel is the light sensor's.                                    *)
(***************************************************************************)
EXTENDS NTC

CONSTANTS
    Sample,         \* the codes the thermistor may show
    MaxUpsets,      \* bound: changes of that code, and conversions that end at once
    Blocks,         \* DC_HAL_ADC_Blocked: refusals after which the converter is reset
    Step,           \* what the export of the fan grows by
    MaxExport,      \* DC_CoolFan_MAX_EXPORT
    MinExport,      \* DC_CoolFan_MIN_EXPORT
    NumFirst        \* sfPWM_Start loads the channel before the width (PWM.c:221)

ASSUME FanAssumption ==
    /\ Sample \subseteq 0 .. MaxCode
    /\ {MaxUpsets, Blocks, Step, MaxExport, MinExport} \subseteq Nat
    /\ Blocks > 0 /\ Step > 0 /\ (MaxExport - MinExport) % Step = 0
    /\ NumFirst \in BOOLEAN

VARIABLES
    code,           \* what the thermistor's channel shows
    upsets,         \* how many of these upsets are left
    busy,           \* DC_HAL_ADC_Busy of aStatus
    blocks,         \* the refusals counted in aStatus
    converts,       \* the channel the converter works on, or None
    temp,           \* sTempBuf
    check,          \* where a call of the kernel timer's handler is, and its channel
    export,         \* sExportValue
    info,           \* pInfo: the channel and the width asked for
    pwm,            \* the modulator's channels: 0 is the fan's, 1 the lamp's
    lamp,           \* aIfo of the night lamp, and how far a call of its SetStatus is
    mixed           \* history: the fan was driven while the last such call was under way

adcVars == <<code, upsets, busy, blocks, converts, temp>>
pwmVars == <<export, info, pwm>>
fanVars == <<adcVars, pwmVars, check, lamp, mixed>>

None    == -1
Channel == 0 .. 1
Fan     == 0
Lamp    == 1
Light   == 0            \* the channels of the converter
Heat    == 1

OH      == 500          \* DC_COFAN_OH_Temp, DC_COFAN_OOH_Temp, DC_COFAN_LBreak, and
OOH     == 650          \* DC_TEMPERATURE_iAbsoluteZero, though the readings are tenths
LBreak  == -300
AbsZero == -273

\* (100 - aLevel) * DC_D11_StaLi_IncUnit, or DC_D11_StaLi_defWidth.
Width(l) == IF l <= 100 THEN (100 - l) * 3 ELSE 0

Stages == {"idle", "num", "off", "load", "write", "on"}

\* The board has set the lamp and begun a conversion; no temperature was stored yet.
FanInit ==
    /\ code \in Sample /\ upsets = MaxUpsets
    /\ busy = TRUE /\ blocks = 0 /\ converts = Heat
    /\ temp = 0
    /\ check = [at |-> "idle", of |-> Heat]
    /\ export = 0
    /\ info = [num |-> Lamp, width |-> Width(100)]
    /\ pwm = [c \in Channel |-> [on |-> c = Lamp, width |-> 0]]
    /\ lamp = [stage |-> "idle", on |-> TRUE, level |-> 100, held |-> 0]
    /\ mixed = FALSE

Heating ==
    /\ upsets > 0 /\ upsets' = upsets - 1
    /\ code' \in Sample \ {code}
    /\ UNCHANGED <<busy, blocks, converts, temp, pwmVars, check, lamp, mixed>>

-----------------------------------------------------------------------------
(* The converter.                                                          *)

\* ADC_int_Handler, with sfTempMonitor_CallbackFromADC.  That it comes between the start
\* and the busy flag takes another interrupt there, so it is bounded.
ConverterInterrupt ==
    /\ converts # None
    /\ IF check.at = "flag" THEN upsets > 0 /\ upsets' = upsets - 1 ELSE UNCHANGED upsets
    /\ temp' = IF converts = Heat THEN Converted(code) ELSE temp
    /\ busy' = FALSE /\ converts' = None
    /\ UNCHANGED <<code, blocks, pwmVars, check, lamp, mixed>>

Goes(s, c) == check' = [at |-> s, of |-> IF s = "idle" THEN Heat ELSE c]

\* After a conversion was begun, or refused, the temperature's handler drives the fan.
Ends(c) == Goes(IF c = Heat THEN "drive" ELSE "idle", c)

\* gfADC_StartConvert to the start of the conversion.
StartTransform(c) == converts' = c /\ Goes("flag", c)

\* A mutant, which breaks FanSettles: a blocked converter is not reset.
BlockedOn(c) ==
    /\ blocks' = IF blocks + 1 < Blocks THEN blocks + 1 ELSE blocks
    /\ Ends(c) /\ UNCHANGED <<busy, converts>>

\* A converter that is busy for the whole wait: refused, or reset (sfADC_Reset).
Blocked(c) ==
    IF blocks + 1 < Blocks
    THEN blocks' = blocks + 1 /\ Ends(c) /\ UNCHANGED <<busy, converts>>
    ELSE blocks' = 0 /\ busy' = FALSE /\ StartTransform(c)

\* sfTempMonitor_LoopCheck and the light sensor's handler, each called by the scan.  A
\* conversion that goes on ends long before the wait for it does.
Check(c) ==
    /\ check.at = "idle"
    /\ \/ ~busy /\ blocks' = 0 /\ StartTransform(c) /\ UNCHANGED busy
       \/ busy /\ converts = None /\ Blocked(c)
    /\ UNCHANGED <<code, upsets, temp, pwmVars, lamp, mixed>>

\* The busy flag is set after the start: the interrupt may have come before (line 261).
SetBusy ==
    /\ check.at = "flag" /\ Ends(check.of)
    /\ busy' = TRUE
    /\ UNCHANGED <<code, upsets, blocks, converts, temp, pwmVars, lamp, mixed>>

-----------------------------------------------------------------------------
(* The fan.                                                                *)

\* gfCOOLFAN_DriveTheFan.
Exported(t) ==
    CASE t < AbsZero \/ t >= OOH            -> MaxExport
      [] t >= OH /\ t < OOH                 -> IF export < MinExport THEN MinExport
                                               ELSE IF export < MaxExport THEN export + Step
                                               ELSE export
      [] t < LBreak                         -> MaxExport
      [] OTHER                              -> IF export > MinExport THEN 0 ELSE export

Drive ==
    /\ check.at = "drive" /\ Goes("idle", Heat)
    /\ export' = Exported(temp)
    /\ info' = [num |-> Fan, width |-> export']
    /\ pwm' = [pwm EXCEPT ![Fan] = [on |-> TRUE, width |-> export']]
    /\ mixed' = (mixed \/ lamp.stage # "idle")
    /\ UNCHANGED <<adcVars, lamp>>

-----------------------------------------------------------------------------
(* The lamp.                                                               *)

\* A mutant, which breaks WidthsAreAsked: the channel is set before the width.
SetInfoNumFirst ==
    \/ /\ lamp.stage = "num" /\ info' = [info EXCEPT !.num = Lamp]
       /\ lamp' = [lamp EXCEPT !.stage = "off"] /\ UNCHANGED pwm
    \/ /\ lamp.stage = "off" /\ info' = [info EXCEPT !.width = Width(lamp.level)]
       /\ pwm' = [pwm EXCEPT ![info.num].on = FALSE] /\ lamp' = [lamp EXCEPT !.stage = "load"]

\* sfD11_NiLi_SetStatus, from the pin to the width, and the channel; and sfPWM_Start to
\* where it turns that channel off.
SetInfo ==
    \/ /\ lamp.stage = "num" /\ info' = [info EXCEPT !.num = Lamp]
       /\ lamp' = [lamp EXCEPT !.stage = "off"] /\ UNCHANGED pwm
    \/ /\ lamp.stage = "off" /\ pwm' = [pwm EXCEPT ![info.num].on = FALSE]
       /\ lamp' = [lamp EXCEPT !.stage = "load"] /\ UNCHANGED info

SetLamp(on, l) ==
    /\ lamp.stage = "idle"
    /\ lamp' = [stage |-> "num", on |-> on, level |-> l, held |-> 0]
    /\ info' = [info EXCEPT !.width = Width(l)]
    /\ mixed' = FALSE
    /\ UNCHANGED <<adcVars, export, pwm, check>>

\* The write of line 221 loads two members of the structure, one of them first.
Load ==
    /\ lamp.stage = "load"
    /\ lamp' = [lamp EXCEPT !.stage = "write", !.held = IF NumFirst THEN info.num ELSE info.width]
    /\ UNCHANGED <<info, pwm>>

Write ==
    /\ lamp.stage = "write"
    /\ pwm' = IF NumFirst THEN [pwm EXCEPT ![lamp.held].width = info.width]
                          ELSE [pwm EXCEPT ![info.num].width = lamp.held]
    /\ lamp' = [lamp EXCEPT !.stage = "on", !.held = 0]
    /\ UNCHANGED info

TurnOn ==
    /\ lamp.stage = "on"
    /\ pwm' = [pwm EXCEPT ![info.num].on = TRUE]
    /\ lamp' = [lamp EXCEPT !.stage = "idle"]
    /\ UNCHANGED info

\* A request does not run while the kernel timer does.
LampStep ==
    /\ check.at = "idle"
    /\ SetInfo \/ Load \/ Write \/ TurnOn
    /\ UNCHANGED <<adcVars, export, check, mixed>>

\* What the kernel timer does, once it has called the handler.
CheckStep == SetBusy \/ Drive
=============================================================================
