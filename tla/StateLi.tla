------------------------------ MODULE StateLi ------------------------------
(***************************************************************************)
(* The state lights of NV_Driver_G3/CTA/StateLi.c.  A request makes a      *)
(* light blink, with a lit and a dark time, or turns it off; a handler of  *)
(* the hardware timer's interrupt counts the times of all the lights that  *)
(* are in a list.  The interrupt may come between any two steps of a       *)
(* request; the request stops the timer while it closes a gap in the list. *)
(***************************************************************************)
EXTENDS Integers, Sequences, FiniteSets, SequencesExt

CONSTANTS
    Light,      \* the lights, sStaLi units 0 .. aNum - 1
    Time        \* the lit and dark times requests ask for, in calls of the handler

ASSUME LightAssumption == IsFiniteSet(Light) /\ Time \subseteq Nat /\ 0 \in Time

VARIABLES
    info,       \* the first sStaLi_Num entries of spStaLi_Info
    lit,        \* what each light's pin shows, whatever its polarity (OnStatus)
    paused,     \* the hardware timer is stopped
    call,       \* the request under way: its parameters and the steps it has left
    asked       \* history: the parameters of the last request finished for each light

vars == <<info, lit, paused, call, asked>>

Times  == [p : Time, n : Time]              \* aPTime, aNTime
Entry  == [pin : Light, p : Time, n : Time, count : Nat, on : BOOLEAN]
Step   == {"p", "n", "append", "pause", "shift", "drop", "resume", "pin"}
NoTime == [p |-> -1, n |-> -1]
Off    == [p |-> 0, n |-> 0]

\* No request is under way for light l.
Quiet(l) == call.todo = <<>> \/ call.pin # l

\* The list has no more entries than its array, one for each light: also while the last
\* entry is there twice, and however often a light is turned off and on (StateLi.c:109-112).
EntriesFit == Len(info) <= Cardinality(Light)

TypeOK ==
    /\ info \in Seq(Entry) /\ EntriesFit
    /\ lit \in [Light -> BOOLEAN]
    /\ paused \in BOOLEAN
    /\ call.pin \in Light /\ call.times \in Times /\ call.todo \in Seq(Step)
    /\ asked \in [Light -> Times \cup {NoTime}]

\* sfdefStaLi_Init clears the list and registers the handler; the pins keep what they showed.
Init ==
    /\ info = <<>>
    /\ lit \in [Light -> BOOLEAN]
    /\ paused = FALSE
    /\ call = [pin |-> CHOOSE l \in Light : TRUE, times |-> Off, todo |-> <<>>]
    /\ asked = [l \in Light |-> NoTime]

-----------------------------------------------------------------------------
(* sfdefStaLi_SetStatus, called by the message centre.                     *)

Listed(l) == \E i \in DOMAIN info : info[i].pin = l
Place(l)  == CHOOSE i \in DOMAIN info : info[i].pin = l

\* A mutant, which breaks OffIsDark: the pin is darkened before the light is off the list.
OffStepsPinFirst(l) == <<"pin">> \o IF Listed(l) THEN <<"pause", "shift", "drop", "resume">> ELSE <<>>

\* What a request to turn light l off does.
OffSteps(l) ==
    IF Listed(l) THEN <<"pause", "shift", "drop", "resume", "pin">> ELSE <<"pin">>

\* What a request to make light l blink does: a listed light keeps its count and state.
OnSteps(l) == IF Listed(l) THEN <<"p", "n">> ELSE <<"append">>

SetStatus(l, t) ==
    /\ call.todo = <<>>
    /\ call' = [pin |-> l, times |-> t, todo |-> IF t = Off THEN OffSteps(l) ELSE OnSteps(l)]
    /\ UNCHANGED <<info, lit, paused, asked>>

NewEntry == [pin |-> call.pin, p |-> call.times.p, n |-> call.times.n, count |-> 0, on |-> FALSE]

\* The entries that follow the one at i are copied down; the last one is there twice.
ShiftFrom(i) == [k \in DOMAIN info |-> IF k >= i /\ k < Len(info) THEN info[k + 1] ELSE info[k]]

Do(step) ==
    /\ info' = CASE step = "p"      -> [info EXCEPT ![Place(call.pin)].p = call.times.p]
                 [] step = "n"      -> [info EXCEPT ![Place(call.pin)].n = call.times.n]
                 [] step = "append" -> Append(info, NewEntry)
                 [] step = "shift"  -> ShiftFrom(Place(call.pin))
                 [] step = "drop"   -> Front(info)
                 [] OTHER           -> info
    /\ lit' = IF step = "pin" THEN [lit EXCEPT ![call.pin] = FALSE] ELSE lit
    /\ paused' = CASE step = "pause" -> TRUE [] step = "resume" -> FALSE [] OTHER -> paused

SetStatusStep ==
    /\ call.todo # <<>>
    /\ Do(Head(call.todo))
    /\ call' = [call EXCEPT !.todo = Tail(@)]
    /\ asked' = IF Len(call.todo) = 1 THEN [asked EXCEPT ![call.pin] = call.times] ELSE asked

-----------------------------------------------------------------------------
(* sfStaLi_LoopProcessing, the handler.                                    *)

\* An entry whose count is over changes state; a state of no time leaves the pin alone.
Turned(e) ==
    LET t == IF e.on THEN e.n ELSE e.p
    IN  [e EXCEPT !.on = ~@, !.count = IF t > 0 THEN t - 1 ELSE 0]

Ticked(e) == IF e.count = 0 THEN Turned(e) ELSE [e EXCEPT !.count = @ - 1]

\* A mutant, which breaks ShowsWhatIsAsked: a state of no time is shown all the same.
ShowsAlways(e) == e.count = 0

\* The call of the handler writes the pin of entry e.
Shows(e) == e.count = 0 /\ (IF e.on THEN e.n ELSE e.p) > 0

LoopProcessing ==
    /\ ~paused
    /\ info' = [i \in DOMAIN info |-> Ticked(info[i])]
    /\ lit' = [l \in Light |->
                 IF \E i \in DOMAIN info : info[i].pin = l /\ Shows(info[i])
                 THEN ~info[Place(l)].on ELSE lit[l]]
    /\ UNCHANGED <<paused, call, asked>>

-----------------------------------------------------------------------------
Next ==
    \/ \E l \in Light, t \in Times : SetStatus(l, t)
    \/ SetStatusStep
    \/ LoopProcessing

\* The interrupt comes between the pauses of its timer, which last some instructions, and a
\* request that has started goes on.
Fairness == SF_vars(LoopProcessing) /\ WF_vars(SetStatusStep)

Spec     == Init /\ [][Next]_vars
FairSpec == Spec /\ Fairness

-----------------------------------------------------------------------------
\* A light that was turned off is dark and stays it: the interrupt cannot light it between
\* the steps that take it out of the list and the one that darkens its pin (StateLi.c:205-232).
OffIsDark == \A l \in Light : asked[l] = Off /\ Quiet(l) => ~lit[l]

\* A light shows what the requests left it to show: lit again and again when it has a lit
\* time, dark when it has a dark time, for good when it has no other; whatever its state and
\* count were when its times were changed in place (StateLi.c:189-191, 252-286).
ShowsWhatIsAsked ==
    \A l \in Light :
        /\ <>[](asked[l].p > 0) => []<>lit[l]
        /\ <>[](asked[l].n > 0) => []<>~lit[l]
        /\ <>[](asked[l].p > 0 /\ asked[l].n = 0) => <>[]lit[l]
        /\ <>[](asked[l].p = 0) => <>[]~lit[l]
=============================================================================
