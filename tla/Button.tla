------------------------------ MODULE Button ------------------------------
(***************************************************************************)
(* The buttons of NV_Driver_G3/CTA/Button.c.  The pin interrupt notes the  *)
(* first edge and starts a debounce handler in the table of the hardware   *)
(* timer; when the pin has been quiet for JitterDelay calls of it and is   *)
(* still where the first edge led, the reporter is registered in the table *)
(* of the kernel timer.  The interrupts preempt the reporter anywhere.     *)
(*                                                                         *)
(* Pins interrupt while they are at the level their configuration awaits   *)
(* (HAL/HI3518/PIN.c sets the level-sensitive mode, GPIO_IS, for "edges"). *)
(***************************************************************************)
EXTENDS EventTable

CONSTANTS
    Button,         \* the buttons, 1 .. aNum
    JitterDelay,    \* DC_Button_JitterDelay: quiet calls before an edge counts (5)
    Reporter        \* sfBut_Reporter, a handler of the kernel timer's table

ASSUME ButtonAssumption ==
    /\ IsFiniteSet(Button)
    /\ Button = 1 .. Cardinality(Button)
    /\ JitterDelay \in Nat \ {0}
    /\ Reporter \in Handler

VARIABLES
    level,          \* the level of each button's pin, TRUE is high: not pressed
    awaits,         \* the level each pin interrupts at
    status,         \* sdefButton_Status
    debouncing,     \* sfBut_JittersElimination is in the INT table, and in tJitters
    at,             \* the button the reporter has reached, Idle when it does not run
    seen,           \* the status word the reporter has loaded and is about to store
    reported,       \* history: the level last reported of each button
    flaws           \* history: what went wrong for each button (see Flaw)

buttonVars == <<level, awaits, status, debouncing, at, seen, reported, flaws>>

Idle == 0

\* The bits that matter: DC_ButtonSTA_TarDetect is CurLevel while Update is set, and is
\* not read otherwise; RpotSta is read with Report only, the count with Update only.
Word == [update : BOOLEAN,                    \* DC_ButtonSTA_Update
         cur    : BOOLEAN,                    \* DC_ButtonSTA_CurLevel
         report : {"none", "fall", "raise"},  \* DC_ButtonSTA_Report, DC_ButtonSTA_RpotSta
         count  : 0 .. JitterDelay]           \* the top byte: quiet calls of the debounce handler

NoWord  == [update |-> FALSE, cur |-> TRUE, report |-> "none", count |-> 0]
Edge(v) == IF v THEN "raise" ELSE "fall"

\* A write between the reporter's load and store was undone; an edge was judged while the
\* interrupt of the next one was pending.  Until the next report: an unreported edge was
\* replaced; a full table refused the reporter.  Until the next edge: one was taken back.
Flaw == {"undone", "early", "replaced", "refused", "bounced"}

ButtonInit ==
    /\ level      = [b \in Button |-> TRUE]
    /\ awaits     = [b \in Button |-> FALSE]
    /\ status     = [b \in Button |-> NoWord]
    /\ debouncing = FALSE
    /\ at         = Idle
    /\ seen       = NoWord
    /\ reported   = [b \in Button |-> TRUE]
    /\ flaws      = [b \in Button |-> {}]

Raised(b) == level[b] = awaits[b]

-----------------------------------------------------------------------------
(* Somebody presses or releases a button, or its contact bounces.  A       *)
(* contact takes longer to move than the interrupt it raised to be taken.  *)
PinChange(b) ==
    /\ ~Raised(b)
    /\ level' = [level EXCEPT ![b] = ~@]
    /\ UNCHANGED <<events, awaits, status, debouncing, at, seen, reported, flaws>>

\* A mutant, which breaks StatusIsLevel: the button's release is not noted.
NotedFalling(w, v) ==
    IF w.update \/ v THEN [w EXCEPT !.count = 0]
    ELSE [w EXCEPT !.count = 0, !.update = TRUE, !.cur = v]

\* A status word once an edge to level v is noted: the first one counts, those that
\* follow before it is judged only start the delay again.
Noted(w, v) ==
    IF w.update THEN [w EXCEPT !.count = 0]
    ELSE [w EXCEPT !.count = 0, !.update = TRUE, !.cur = v]

\* sintf_GPIO_Grp1Function, and those of the other groups: every pin whose interrupt is
\* raised is configured for the other level.  The first edge starts the debounce handler,
\* for which the INT table has room.
PinIsr ==
    LET raised == {b \in Button : Raised(b)}
        first  == {b \in raised : ~status[b].update}
    IN  /\ awaits' = [b \in Button |-> IF b \in raised THEN ~level[b] ELSE awaits[b]]
        /\ status' = [b \in Button |-> IF b \in raised THEN Noted(status[b], level[b]) ELSE status[b]]
        /\ debouncing' = (debouncing \/ first # {})
        /\ flaws' = [b \in Button |-> IF b \in first THEN flaws[b] \ {"bounced"} ELSE flaws[b]]
        /\ UNCHANGED <<level, at, seen, reported>>

ButtonInterrupt == (\E b \in Button : Raised(b)) /\ PinIsr /\ UNCHANGED events

-----------------------------------------------------------------------------
(* sfBut_JittersElimination, in the hardware timer's interrupt.            *)

IsDue(w) == w.update /\ w.count >= JitterDelay

\* A mutant, which breaks RestIsReported: the pin is not asked whether it stayed.
JudgedUnseen(w, v) ==
    IF ~w.update THEN w
    ELSE IF ~IsDue(w) THEN [w EXCEPT !.count = @ + 1]
    ELSE [w EXCEPT !.update = FALSE, !.count = 0, !.report = Edge(w.cur)]

\* A status word after a call of the debounce handler that finds the pin at level v.
Judged(w, v) ==
    IF ~w.update THEN w
    ELSE IF ~IsDue(w) THEN [w EXCEPT !.count = @ + 1]
    ELSE [w EXCEPT !.update = FALSE, !.count = 0, !.report = IF w.cur = v THEN Edge(v) ELSE @]

\* A mutant, which breaks ReportIsPending: a reporter in the table, which may be running
\* and past the button, is thought to be enough.
ReportersOnce(e, n) == IF n > 0 /\ e[Reporter] = 0 THEN With(e, Reporter) ELSE e

\* The events once n reporters more were registered, as far as there was room.
Reporters(e, n) == [e EXCEPT ![Reporter] = @ + Min({n, Cap - Size(e)})]

\* A mutant, which breaks DebounceIsArmed: the handler leaves when a button is judged.
StopsEarly(due) == due # {}

\* The handler leaves its table once it has judged a button and none waits.
Stops(due) == due # {} /\ \A b \in Button : status[b].update => b \in due

Debounce ==
    LET due    == {b \in Button : IsDue(status[b])}
        edges  == {b \in due : status[b].cur = level[b]}
        refused == Size(events) + Cardinality(edges) > Cap
    IN  /\ debouncing
        /\ status' = [b \in Button |-> Judged(status[b], level[b])]
        /\ events' = Reporters(events, Cardinality(edges))
        /\ debouncing' = ~Stops(due)
        /\ flaws'  = [b \in Button |-> flaws[b]
                        \cup {f \in {"refused"}  : b \in edges /\ refused}
                        \cup {f \in {"replaced"} : b \in edges /\ status[b].report = Edge(~level[b])}
                        \cup {f \in {"bounced"}  : b \in due \ edges}
                        \cup {f \in {"early"}    : b \in due /\ Raised(b)}]
        /\ UNCHANGED <<level, awaits, at, seen, reported>>

-----------------------------------------------------------------------------
(* sfBut_Reporter, in the kernel timer.  Clearing the report bit is a load *)
(* and a store, and an interrupt may write the word in between.            *)

ReporterBegin ==
    /\ at = Idle /\ events[Reporter] > 0
    /\ at' = 1
    /\ UNCHANGED <<events, level, awaits, status, debouncing, seen, reported, flaws>>

\* The loaded word has no report bit: on to the next button.
ReporterSkip ==
    /\ at \in Button /\ seen = NoWord
    /\ status[at].report = "none"
    /\ at' = at + 1
    /\ UNCHANGED <<events, level, awaits, status, debouncing, seen, reported, flaws>>

ReporterLoad ==
    /\ at \in Button /\ seen = NoWord
    /\ status[at].report # "none"
    /\ seen' = status[at]
    /\ UNCHANGED <<events, level, awaits, status, debouncing, at, reported, flaws>>

\* A mutant, which breaks ReportsAlternate: the report bit stays.
Stored(w) == w

Cleared(w) == [w EXCEPT !.report = "none"]

ReporterStore ==
    /\ at \in Button /\ seen # NoWord
    /\ status'   = [status EXCEPT ![at] = Cleared(seen)]
    /\ reported' = [reported EXCEPT ![at] = (seen.report = "raise")]
    /\ flaws'    = [flaws EXCEPT ![at] = (@ \ {"replaced", "refused"})
                                            \cup {f \in {"undone"} : status[at] # seen}]
    /\ seen' = NoWord
    /\ at' = at + 1
    /\ UNCHANGED <<events, level, awaits, debouncing>>

ReporterEnd ==
    /\ at = Cardinality(Button) + 1
    /\ events' = Without(events, Reporter)
    /\ at' = Idle
    /\ UNCHANGED <<level, awaits, status, debouncing, seen, reported, flaws>>

ReporterStep == ReporterBegin \/ ReporterSkip \/ ReporterLoad \/ ReporterStore \/ ReporterEnd

ButtonNext ==
    \/ \E b \in Button : PinChange(b)
    \/ ButtonInterrupt
    \/ Debounce
    \/ ReporterStep
=============================================================================
