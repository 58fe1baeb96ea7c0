------------------------------- MODULE Cruise -------------------------------
(***************************************************************************)
(* Requests to the pan and tilt, and its cruise along the presets          *)
(* (NV_Driver_G3/CTA/PanTilt.c): a handler of the kernel timer's table     *)
(* moves the motors from preset to preset of the path.  It preempts the    *)
(* requests, and the beat preempts both.                                   *)
(***************************************************************************)
EXTENDS PanTilt

CONSTANTS
    PathLen,        \* entries of aMvPath (16)
    Config,         \* the lists of presets that are brought in
    MaxMoves,       \* bound: requests in a behaviour that is about moves
    MaxCruise,      \* bound: requests in one that is about cruises
    MaxTimer        \* bound: seconds a cruise counts

ASSUME CruiseAssumption ==
    /\ PathLen \in Nat \ {0} /\ {MaxMoves, MaxCruise, MaxTimer} \subseteq Nat
    /\ Config \subseteq [Point -> Preset]

VARIABLES
    plan,           \* bound: what the requests are about, moves or cruises
    path,           \* aMvPath, 0 where it ends
    ready,          \* DC_PTS_CRUISE_READY
    order,          \* sPTZCuriseOrder: twice the place on the path, odd while it stays there
    timer,          \* sPTZCuriseTimer
    cruising,       \* times sfdefPTZ_CruiseAutoRunning is in the table
    meddled,        \* history: a request changed what the cruise under way follows
    calls           \* bound: requests that are left

cruiseVars == <<path, ready, order, timer, cruising, meddled>>
vars       == <<ptVars, plan, cruiseVars, calls>>

Entries == Point \cup {0}

TypeOKCruise ==
    /\ TypeOK
    /\ plan \in {"moves", "cruise"} /\ calls \in 0 .. MaxMoves + MaxCruise
    /\ path \in [1 .. PathLen -> Entries]
    /\ {ready, meddled} \subseteq BOOLEAN
    /\ order \in 0 .. 2 * PathLen /\ timer \in 0 .. MaxTimer
    /\ cruising \in 0 .. MaxCruise

\* Cruises are followed on the board whose directions suit its switches.
Init ==
    /\ PanTiltInit
    /\ plan \in {"moves", "cruise"}
    /\ plan = "cruise" => board = "F05" /\ dead = {}
    /\ path = [i \in 1 .. PathLen |-> 0] /\ ready = FALSE
    /\ order = 0 /\ timer = 0 /\ cruising = 0 /\ meddled = FALSE
    /\ calls = IF plan = "moves" THEN MaxMoves ELSE MaxCruise

-----------------------------------------------------------------------------
(* Requests about the path, when no other is under way.                    *)

Meddles == meddled' = (meddled \/ cruising > 0)

\* sfdefPTZ_InportPresetConfigInfo takes every preset of the list for set.
InportPreset(c) ==
    /\ SetPoints([n \in Point |-> [c[n] EXCEPT !.set = TRUE]])
    /\ Meddles /\ UNCHANGED <<path, ready, order, timer, cruising>>

\* sfdefPTZ_SetCruisePath copies the path until it ends, or names a preset that is not set:
\* then the request fails, and what was copied stays.
SetCruisePath(s) ==
    LET bad   == {i \in 1 .. PathLen : s[i] = 0 \/ ~points[s[i]].set}
        first == CHOOSE i \in bad \cup {PathLen + 1} : \A j \in bad : i <= j
        ends  == first <= PathLen /\ s[first] = 0
    IN  /\ HasLimits
        /\ path' = [i \in 1 .. PathLen |-> IF i < first \/ (i = first /\ ends) THEN s[i] ELSE path[i]]
        /\ ready' = (ready \/ (first > 1 /\ (ends \/ first > PathLen)))
        /\ Meddles /\ UNCHANGED <<ptVars, order, timer, cruising>>

\* A mutant, which breaks CruiseStaysOnPath: the presets of the path are not looked up again.
PathIsGoodUnseen == path[1] # 0
\* The path begins with a preset, and those up to its end are set.
PathIsGood ==
    /\ path[1] # 0
    /\ \A i \in 1 .. PathLen : (\A j \in 1 .. i : path[j] # 0) => points[path[i]].set

\* sfdefPTZ_StartCruise: the handler is registered once more if it is there already.
StartCruise ==
    /\ HasLimits /\ ready /\ PathIsGood
    /\ order' = 0 /\ cruising' = cruising + 1
    /\ Meddles /\ UNCHANGED <<ptVars, path, ready, timer>>

\* A cleared preset is still on the path.
Request ==
    /\ calls > 0 /\ calls' = calls - 1
    /\ plan = "cruise" => m.beat = "run" /\ ~m.sta["h"].initing /\ ~m.sta["v"].initing
    /\ stop = "idle"
    /\ \/ plan = "moves" /\ (\E act \in Actions : Start(act)) /\ UNCHANGED cruiseVars
       \/ plan = "cruise" /\ (\E w \in Way : Start([kind |-> "steps", by |-> w])) /\ UNCHANGED cruiseVars
       \/ StopBegin /\ UNCHANGED cruiseVars
       \/ (\E n \in Point, s \in Stay : SetPresetPoint(n, s)) /\ Meddles
          /\ UNCHANGED <<path, ready, order, timer, cruising>>
       \/ (\E n \in Point : ClrPresetPoint(n)) /\ Meddles
          /\ UNCHANGED <<path, ready, order, timer, cruising>>
       \/ plan = "cruise" /\ ((\E c \in Config : InportPreset(c)) \/ StartCruise)
       \/ plan = "cruise" /\ \E s \in [1 .. PathLen -> Entries] : SetCruisePath(s)
    /\ UNCHANGED plan

-----------------------------------------------------------------------------
(* sfdefPTZ_CruiseAutoRunning, called in the softirq every second.         *)

Place == order \div 2 + 1

\* Behind the end of the path it would move to preset 0, and read far from the presets:
\* such a cruise is not followed.
OnPath == Place <= PathLen /\ path[Place] # 0

\* The time it stays is read from the entry of the next preset; behind the last of them
\* lie the coordinates of the first.
StayAt(n) == IF n + 1 \in Point THEN points[n + 1].stay ELSE points[1].y

\* A mutant, which breaks CruiseArrives: the next move does not wait for the last.
MayMoveOn == TRUE
\* The motors have ended the last move.
MayMove == ~Busy(m)

\* It goes to the next preset, unless the motors run.
CruiseMove ==
    /\ cruising > 0 /\ order % 2 = 0 /\ OnPath /\ MayMove
    /\ m' = Started([kind |-> "preset", point |-> path[Place]], m)
    /\ timer' = 0 /\ order' = order + 1
    /\ UNCHANGED <<board, dead, home, phys, stop, loaded, undone, disturbed, points,
                   plan, path, ready, cruising, meddled, calls>>

\* A mutant, which breaks ComesToRest: the cruise is not cancelled where it ends.
EndsPathNever(p) == FALSE
\* The path ends before place p.
EndsPath(p) == p > PathLen \/ path[p] = 0

\* It counts the time it stays, the way there included, and ends with the path.
CruiseStay ==
    /\ cruising > 0 /\ order % 2 = 1 /\ Place <= PathLen
    /\ IF timer = StayAt(path[Place])
       THEN /\ order' = order + 1 /\ timer' = timer
            /\ cruising' = IF EndsPath(Place + 1) THEN cruising - 1 ELSE cruising
       ELSE /\ timer < MaxTimer /\ timer' = timer + 1
            /\ UNCHANGED <<order, cruising>>
    /\ UNCHANGED <<ptVars, plan, path, ready, meddled, calls>>

CruiseAutoRunning == CruiseMove \/ CruiseStay

Others(A) == A /\ UNCHANGED <<plan, cruiseVars, calls>>
StopGoesOn == Others(StopStep)
BeatComes  == Others(Beat)

Next == Request \/ StopGoesOn \/ BeatComes \/ CruiseAutoRunning

\* Timer 3 interrupts while it is on, the kernel timer calls the handler, and a request to
\* stop that was preempted goes on.
Fairness == WF_vars(BeatComes) /\ WF_vars(StopGoesOn) /\ WF_vars(CruiseAutoRunning)

Spec     == Init /\ [][Next]_vars
FairSpec == Spec /\ Fairness

-----------------------------------------------------------------------------
\* A motor that runs is driven by the beat, so that its move will end.  A request to stop
\* that was preempted between its load and its store may have put the bits of a motor back
\* that had ended: then it runs for ever, and every move is left in the buffer (PanTilt.c:1133).
BusyIsDriven == Busy(m) => m.on \/ undone

AtRest(a) == m.beat = "run" /\ ~m.sta[a].running

\* The driver knows where the motors are: when an axis rests, the coordinate counted through
\* the self-test, limited moves, stops and closed switches is that of its motor, or one more.
PositionIsTrue ==
    HasLimits /\ dead = {} /\ ~undone
    => \A a \in Axis : AtRest(a) => /\ phys[a] % Phases = 0
                                    /\ m.rod[a].cur - phys[a] \div Phases \in {0, 1}
                                    /\ m.rod[a].cur <= m.rod[a].range

\* The self-test leaves the motors where they were, on the board that is lifted by clockwise
\* turns (PanTilt.c:1448-1483).  On F16 the way down is taken for the way back.
ReturnsToStart ==
    board = "F05" /\ dead = {} /\ ~disturbed /\ ~ready
    => \A a \in Axis : AtRest(a) => phys[a] = home[a]

\* A cruise nobody meddles with goes to presets that are set, and only along its path: it is
\* in the table once, and leaves it where the path ends (PanTilt.c:663-757).
CruiseStaysOnPath ==
    cruising > 0 /\ ~meddled
    => /\ cruising = 1
       /\ order % 2 = 0 => OnPath /\ points[path[Place]].set

\* Where a move to preset n takes axis a: to its coordinate, or to the end of the range.
Target(a, n) ==
    LET to == IF a = "h" THEN points[n].x ELSE points[n].y
    IN  IF to < m.rod[a].range THEN to ELSE m.rod[a].range

\* When a cruise that is left alone moves on, the motors have arrived at its last preset, or
\* where the range ends if that preset lies behind it.
CruiseArrives ==
    [][order % 2 = 0 /\ order' = order + 1 /\ order > 0 /\ ~disturbed /\ ~meddled
       => \A a \in Axis : m.rod[a].cur = Target(a, path[Place - 1])]_vars

\* Once requests stop coming, all comes to rest: the self-test ends, with a limit switch
\* that never closes as well (PanTilt.c:1304, 1386); moves end, slowed or limited as they
\* are; a cruise gets to the end of its path, unless a request has changed what it follows.
ComesToRest == <>[](undone \/ (~Busy(m) /\ (cruising = 0 \/ meddled)))
=============================================================================
