----------------------------- MODULE IfrFilter -----------------------------
(***************************************************************************)
(* The infrared filter of NV_Driver_G3/CTA/IfrFilter.c, for its drivers of *)
(* type B (a direction and an enable pin, driven with busy waits), type C  *)
(* (two coil pins and a power pin) and type D (two coil pins).  Types C    *)
(* and D leave the coil on and register an event in the kernel timer's     *)
(* table that turns it off.  SetStatus is called by requests, which        *)
(* preempt each other between any two pins, and, on boards of type B, by   *)
(* the light sensor in the kernel timer, which no request preempts.        *)
(***************************************************************************)
EXTENDS Naturals

CONSTANTS
    Process,        \* the processes that make requests
    Cap,            \* slots of the kernel timer's table, less those taken for good
    Shutdown        \* DC_IfrFilt_TypeC_ShutdownPowerTime, in scans of the table

ASSUME FilterAssumption == {Cap, Shutdown} \subseteq Nat \ {0}

VARIABLES
    type,           \* aType, which does not change
    pin,            \* the pins 0, 1 and 2 of the array, TRUE is high
    blade,          \* where the filter is, which the driver cannot see
    slot,           \* the table: a handler and the scans left until it is called
    setting,        \* per process, how far its SetStatus is
    refused,        \* history: the table was full when the shutdown was registered
    muddled         \* history: this SetStatus met another, or a coil still driven

filterVars == <<type, pin, blade, slot, setting, refused, muddled>>

Way     == {"pass", "block"}
Type    == {"B", "C", "D"}
Handler == {"shutdown", "error"}
Slot    == 1 .. Cap
Stage   == {"none", "begin", "coil", "move", "end"}
Free    == [handler |-> "none", left |-> 0]
NotSet  == [stage |-> "none", way |-> "block"]

FilterTypeOK ==
    /\ type \in Type /\ pin \in [0 .. 2 -> BOOLEAN] /\ blade \in Way
    /\ slot \in [Slot -> [handler : Handler \cup {"none"}, left : 0 .. Shutdown]]
    /\ setting \in [Process -> [stage : Stage, way : Way]]
    /\ {refused, muddled} \subseteq BOOLEAN

\* The coil of a way, and of the other one.
Coil(w)  == IF w = "pass" THEN 0 ELSE 1
Other(w) == 1 - Coil(w)

Powered == CASE type = "C" -> ~pin[2] [] type = "D" -> pin[0] \/ pin[1] [] OTHER -> FALSE

\* sfdefIfrFilt_Init and the SetStatus(Block) of the board that follows it, long ago; type B
\* found its direction pin low, and did nothing.
FilterInit ==
    /\ type \in Type
    /\ pin = [i \in 0 .. 2 |-> type = "C" /\ i > 0]
    /\ blade = "block"
    /\ slot = [k \in Slot |-> Free]
    /\ setting = [p \in Process |-> NotSet]
    /\ refused = FALSE /\ muddled = FALSE

-----------------------------------------------------------------------------
(* The table, as PeriodEvent has it.                                       *)

Period(h)  == IF h = "error" THEN 1 ELSE Shutdown
Holders(h) == {k \in Slot : slot[k].handler = h}
IsFull     == Holders("none") = {}
First(S)   == CHOOSE k \in S : \A j \in S : k <= j

\* A mutant, which breaks ErrorsArePending: in a full table the first slot is taken.
RegisteredOver(h) ==
    [slot EXCEPT ![IF IsFull THEN 1 ELSE First(Holders("none"))] = [handler |-> h, left |-> Period(h)]]

\* sfPE_RegisterEvent: a full table refuses.
Registered(h) ==
    IF IsFull THEN slot
    ELSE [slot EXCEPT ![First(Holders("none"))] = [handler |-> h, left |-> Period(h)]]

\* What is left when the handler of a due slot has cancelled itself: the first slot that
\* holds it is the one that is cleared, and a slot that keeps it counts anew.
Fired(k) ==
    LET h == slot[k].handler
        t == [slot EXCEPT ![First(Holders(h))] = Free]
    IN  IF t[k].handler = h THEN [t EXCEPT ![k].left = Period(h)] ELSE t

Due == {k \in Slot : slot[k].handler # "none" /\ slot[k].left = 0}

\* No request runs while the kernel timer scans its table.
MayRun == Due = {}

\* A scan, and what 100 ms do to a filter whose coil is driven one way.
Counted == [k \in Slot |-> IF slot[k].handler = "none" THEN Free ELSE [slot[k] EXCEPT !.left = @ - 1]]
Moved   == IF Powered /\ pin[0] # pin[1] THEN (IF pin[0] THEN "pass" ELSE "block") ELSE blade

\* A mutant, which breaks MotorRests: the power stays on.
OffCoils ==
    CASE type = "C" -> [pin EXCEPT ![0] = FALSE, ![1] = FALSE]
      [] type = "D" -> [pin EXCEPT ![0] = FALSE]

\* sfdefIfrFilt_TypeC_DisableModule, sfdefIfrFilt_TypeD_DisableModule.
Off ==
    CASE type = "C" -> [pin EXCEPT ![2] = TRUE]
      [] type = "D" -> [pin EXCEPT ![0] = FALSE, ![1] = FALSE]

ShutDown ==
    \E k \in Due :
        /\ k = First(Due) /\ slot[k].handler = "shutdown"
        /\ pin'  = Off
        /\ slot' = Fired(k)
        /\ UNCHANGED <<type, blade, setting, refused, muddled>>

-----------------------------------------------------------------------------
(* SetStatus, by a process.                                                *)

At(p, s)   == setting[p].stage = s
Goes(p, s) == setting' = [setting EXCEPT ![p].stage = s]
Meets(p)   == Powered \/ Holders("shutdown") # {} \/ \E q \in Process \ {p} : ~At(q, "none")

\* Type B disables the motor first; type C turns the power on; type D turns its coil on and
\* leaves the other as it is.
FirstPin(w) ==
    CASE type = "B" -> [pin EXCEPT ![1] = FALSE]
      [] type = "C" -> [pin EXCEPT ![2] = FALSE]
      [] type = "D" -> [pin EXCEPT ![Coil(w)] = TRUE]

AfterFirst == CASE type = "B" -> "move" [] type = "C" -> "coil" [] type = "D" -> "end"

\* Type B has nothing to do where the direction is right.
IsThere(w) == type = "B" /\ pin[0] = (w = "pass")

SetBegin(p) ==
    LET w == setting[p].way
    IN  /\ At(p, "begin")
        /\ Goes(p, IF IsThere(w) THEN "none" ELSE AfterFirst)
        /\ pin' = IF IsThere(w) THEN pin ELSE FirstPin(w)
        /\ muddled' = (muddled \/ Meets(p))
        /\ UNCHANGED <<type, blade, slot, refused>>

\* A mutant, which breaks CoilsAreNotOpposed: type C leaves the other coil on, too.
OtherLeft(w) == pin

OtherOff(w) == [pin EXCEPT ![Other(w)] = FALSE]

\* Type C turns the other coil off.
SetOther(p) ==
    /\ type = "C" /\ At(p, "coil") /\ Goes(p, "move")
    /\ pin' = OtherOff(setting[p].way)
    /\ UNCHANGED <<type, blade, slot, refused, muddled>>

\* After 200 ms type B changes the direction; type C turns its coil on.
SetMove(p) ==
    LET w == setting[p].way
    IN  /\ At(p, "move") /\ Goes(p, "end")
        /\ \/ type = "B" /\ pin' = [pin EXCEPT ![0] = (w = "pass")] /\ blade' = w
           \/ type = "C" /\ pin' = [pin EXCEPT ![Coil(w)] = TRUE] /\ UNCHANGED blade
        /\ UNCHANGED <<type, slot, refused, muddled>>

\* Type B enables the motor again after 700 ms; the others register the shutdown.
SetEnd(p) ==
    /\ At(p, "end") /\ Goes(p, "none")
    /\ \/ type = "B" /\ pin' = [pin EXCEPT ![1] = TRUE] /\ UNCHANGED <<slot, refused>>
       \/ /\ type # "B"
          /\ slot' = Registered("shutdown") /\ refused' = (refused \/ IsFull)
          /\ UNCHANGED pin
    /\ UNCHANGED <<type, blade, muddled>>

SetStep(p) == SetBegin(p) \/ SetOther(p) \/ SetMove(p) \/ SetEnd(p)

\* The same in the kernel timer, on boards of type B, to its end.
SetInTimer(w) ==
    IF IsThere(w) THEN UNCHANGED <<pin, blade>>
    ELSE pin' = [pin EXCEPT ![0] = (w = "pass"), ![1] = TRUE] /\ blade' = w

\* afGetStatus: type D, or two coils alike, is neither.
GetFilter ==
    CASE type = "B"                     -> IF pin[0] THEN "pass" ELSE "block"
      [] type = "C" /\ pin[0] # pin[1]  -> IF pin[0] THEN "pass" ELSE "block"
      [] OTHER                          -> "neither"
=============================================================================
