------------------------------ MODULE Sensors ------------------------------
(***************************************************************************)
(* The buttons and the PIR sensor together.  They share the table of the   *)
(* kernel timer, with the error reports of Tool/MsgCenter.c, and, on the   *)
(* boards whose pins are all in group 0, they share one interrupt: each    *)
(* interrupt of the group calls the handlers of both                       *)
(* (HAL/HI3518/PIN.c, intf_GPIO_Grp1Function).                             *)
(***************************************************************************)
EXTENDS Button, PIR

CONSTANTS
    SendErr,        \* sfMsgCent_SendREPORTErr
    MaxMoves        \* bound: moves of all the buttons' contacts

ASSUME SensorsAssumption ==
    /\ SendErr \in Handler /\ MaxMoves \in Nat
    /\ IsFiniteSet(Handler) /\ Cap \in Nat

\* They are four functions.
ASSUME HandlersDiffer ==
    /\ Reporter \notin {Report, Release, SendErr}
    /\ Report \notin {Release, SendErr} /\ Release # SendErr

VARIABLES
    board,          \* what the board has wired, which does not change
    moves           \* moves the contacts have left

vars == <<events, buttonVars, pirVars, board, moves>>

Boards == {"buttons", "pir", "both"}

\* The boards with a PIR sensor have one button at most here.
Wired == CASE board = "buttons" -> Button [] board = "both" -> Button \cap {1} [] OTHER -> {}

HasPir == board \in {"pir", "both"}

TypeOK ==
    /\ events \in Bags /\ Size(events) <= Cap
    /\ {level, awaits, reported} \subseteq [Button -> BOOLEAN]
    /\ status \in [Button -> Word] /\ seen \in Word
    /\ debouncing \in BOOLEAN
    /\ at \in Idle .. Cardinality(Button) + 1
    /\ flaws \in [Button -> SUBSET Flaw]
    /\ {pirLevel, pirAwaits, enabled, hasDeadTime, following, pirRefused} \subseteq BOOLEAN
    /\ trigger \in {"none", "short", "long"}
    /\ board \in Boards /\ moves \in 0 .. MaxMoves

Init == TableInit /\ ButtonInit /\ PirInit /\ board \in Boards /\ moves = MaxMoves

\* The kernel timer is a softirq: its handlers do not preempt each other.
SoftirqIsFree == at = Idle /\ ~following

-----------------------------------------------------------------------------

Buttons(A) == A /\ UNCHANGED <<pirVars, board, moves>>
Pir(A)     == A /\ UNCHANGED <<buttonVars, board, moves>>

Contact ==
    \/ /\ moves > 0 /\ moves' = moves - 1
       /\ \E b \in Wired : PinChange(b)
       /\ UNCHANGED <<pirVars, board>>
    \/ HasPir /\ Pir(PirChange \/ PirTime \/ SetDeadTime)

\* intf_GPIO_Grp1Function calls every handler of the group, whichever pin it was.
GroupInterrupt ==
    \/ board = "buttons" /\ Buttons(ButtonInterrupt)
    \/ board = "pir" /\ Pir(PirInterrupt)
    \/ /\ board = "both"
       /\ (\E b \in Wired : Raised(b)) \/ (PirRaised /\ enabled)
       /\ PinIsr /\ PirIsr /\ UNCHANGED <<board, moves>>

HardTimer == Buttons(Debounce)

ReportButtons == (at = Idle => SoftirqIsFree) /\ Buttons(ReporterStep)
ReportPir     == at = Idle /\ Pir(PirReport)
FollowPir     == Pir(PirFollow)
ReleasePir    == at = Idle /\ Pir(PirRelease)

\* sfMsgCent_Report_Err, for a request that is not understood, and the report it makes.
BadRequest  == events' = With(events, SendErr) /\ UNCHANGED <<buttonVars, pirVars, board, moves>>
ReportError ==
    /\ SoftirqIsFree /\ events[SendErr] > 0
    /\ events' = Without(events, SendErr)
    /\ UNCHANGED <<buttonVars, pirVars, board, moves>>

SoftTimer == ReportButtons \/ ReportPir \/ FollowPir \/ ReleasePir \/ ReportError

Next == Contact \/ GroupInterrupt \/ HardTimer \/ SoftTimer \/ BadRequest

\* The scan of the kernel timer reaches every handler of its table again and again
\* (EventsFire of PeriodEvent): strong fairness for those that another one keeps from
\* being called, weak fairness for those that run.  Only what PirComesBack needs is asked.
Fairness ==
    /\ WF_vars(ReportButtons) /\ WF_vars(FollowPir)
    /\ SF_vars(ReportPir) /\ SF_vars(ReleasePir)

Spec     == Init /\ [][Next]_vars
FairSpec == Spec /\ Fairness

-----------------------------------------------------------------------------
\* While an edge waits to be judged, the debounce handler is in its table: otherwise the
\* button is dead, since its next edges start no handler (Button.c:345-371).  A reporter
\* that was preempted between its load and its store may have undone this.
DebounceIsArmed ==
    \A b \in Button : status[b].update => debouncing \/ "undone" \in flaws[b]

\* A status request finds a button that has settled where it is (sfdefBut_GetStatus),
\* unless an edge was taken back: then it answers with the level of that edge.
StatusIsLevel ==
    \A b \in Button : ~status[b].update /\ ~Raised(b) /\ status[b].cur # level[b]
                      => flaws[b] \cap {"bounced", "undone"} # {}

\* An edge that was judged waits for a reporter that has not passed its button: the one
\* that runs may have (Button.c:579, 627-651).  Unless the table was full or the word undone.
ReportIsPending ==
    \A b \in Button :
        status[b].report # "none" /\ (at = b => seen = NoWord)
        => events[Reporter] > (IF at > b THEN 1 ELSE 0) \/ flaws[b] \cap {"refused", "undone"} # {}

\* A button at rest, with nothing of it under way, was last reported where it rests, unless
\* its word was undone or an edge judged too early: the one noted first then is the wrong
\* one of a pair, and the press is lost.
RestIsReported ==
    \A b \in Button :
        ~Raised(b) /\ ~status[b].update /\ status[b].report = "none"
        => reported[b] = level[b] \/ flaws[b] \cap {"undone", "early"} # {}

\* The reports of a button alternate: none is repeated, unless an edge between the two was
\* replaced before its report, judged too early, or undone.
ReportsAlternate ==
    [][\A b \in Button :
          at = b /\ seen # NoWord /\ at' # b
          => reported'[b] # reported[b] \/ flaws[b] \cap {"undone", "early", "replaced"} # {}]_vars

\* A PIR sensor that has a group of pins to itself does not trigger again before its last
\* report and its dead time are over (PIR.c:272-341).
DeadTimeIsKept ==
    board = "pir" /\ (events[Report] + events[Release] > 0 \/ following)
    => ~enabled /\ events[Report] + events[Release] + (IF following THEN 1 ELSE 0) = 1

\* Once it was disabled the interrupt of the PIR sensor is enabled again, unless a full
\* table has refused the event that would do it (PIR.c:280, 315).
PirComesBack == ~enabled ~> enabled \/ pirRefused
=============================================================================
