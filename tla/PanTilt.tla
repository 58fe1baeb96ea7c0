------------------------------ MODULE PanTilt ------------------------------
(***************************************************************************)
(* The motors of the pan and tilt, NV_Driver_G3/CTA/PanTilt.c.  A request  *)
(* fills a pool of steps for each axis and starts the interrupt of timer 3 *)
(* (the beat), which drives the motors until the pools are empty.  On      *)
(* boards with limit switches the beat first looks for the origin, then    *)
(* for the range, and returns to where it was.  A request to stop is       *)
(* preempted by the beat anywhere.                                         *)
(***************************************************************************)
EXTENDS Integers, Sequences, FiniteSets

CONSTANTS
    Phases,         \* beats a step takes, the area of DC_PTS_HRhythmArea (4)
    Full,           \* steps between the limit switches of an axis
    LimitSteps,     \* aHLimitSteps, aVLimitSteps: the search for a switch is given up
    StepsPerFull,   \* aHStepsPerFull, aVStepsPerFull: taken for the range then
    Loitor,         \* DC_PTGlobal_Loitor: beats the motors rest before they turn back (100)
    Width,          \* the components and coordinates are unsigned, of 16 bits: 2^16
    Way,            \* the steps, and the coordinates, requests ask for
    Point,          \* the numbers of the presets, 1 .. DC_PTPRESET_POINT_NUM (16)
    Stay,           \* the times a cruise stays at a preset
    Home,           \* where the axes may stand, in steps, when the driver is loaded
    Dead            \* the sets of limit switches that may never close

ASSUME PanTiltAssumption ==
    /\ Phases \in Nat \ {0}
    /\ {Full, LimitSteps, StepsPerFull, Loitor} \subseteq Nat
    /\ Width \in Nat \ {0}
    /\ Way \subseteq [h : 0 .. Width - 1, v : 0 .. Width - 1, right : BOOLEAN, up : BOOLEAN, loitor : {FALSE}]
    /\ Point \subseteq Nat \ {0} /\ Stay \subseteq Nat
    /\ Home \subseteq [{"h", "v"} -> 0 .. Full] /\ {} \in Dead

VARIABLES
    board,          \* F05 and F16 have limit switches, D11 has none; F16 lifts the other way
    dead,           \* the limit switches that never close
    home,           \* where each axis stood when the driver was loaded
    phys,           \* where each axis stands, in phases: Phases of them make a step
    m,              \* the machine, sPTStatus, sPTPosition and the beat (see Machine)
    stop,           \* the statement a request to stop has reached
    loaded,         \* the status word it has loaded and is about to store
    undone,         \* history: that store undid what a beat had written
    disturbed,      \* history: a request was taken, or a stop, since the driver was loaded
    points          \* sPTPSCof_mem: the presets

ptVars == <<board, dead, home, phys, m, stop, loaded, undone, disturbed, points>>

Axis   == {"h", "v"}
Other(a) == IF a = "h" THEN "v" ELSE "h"
Unit   == 128                   \* 1 << 7, of the reducing ratio
End    == Phases * Full
Switch == Axis \X {"origin", "tail"}
Preset == [set : BOOLEAN, x : 0 .. Width - 1, y : 0 .. Width - 1, stay : Stay \cup {0}]

\* The bits of an axis in sPTStatus.  DC_PTS_BuffFull is set nowhere: what a request leaves
\* in sPTZActBuf while the motors run is never read, and that branch of the beat is dead.
Flags   == [rhythm : 0 .. Phases - 1,           \* DC_PTS_HRhythmUnit: carries into due
            due : BOOLEAN,                      \* DC_PTS_HPeriodDone
            initing : BOOLEAN, running : BOOLEAN, anti : BOOLEAN, reducing : BOOLEAN]
Rod     == [pool : Nat, cur : Nat, range : Nat] \* of mPT_Position
Handler == {"zero", "range", "run"}             \* FindZeroPoint, FigureOutTheRange, PanTiltRuning
Machine == [sta : [Axis -> Flags], rod : [Axis -> Rod], loitor : Nat,
            ratio : Nat, count : Nat, beat : Handler, on : BOOLEAN]

HasLimits == board # "D11"      \* DC_PTSP_Locate, the four limit switches and Supp_HLim, Supp_VLim

TypeOK ==
    /\ board \in {"F05", "F16", "D11"} /\ dead \subseteq Switch
    /\ {home, phys} \subseteq [Axis -> 0 .. End]
    /\ m \in Machine /\ loaded \in [Axis -> Flags]
    /\ stop \in {"idle", "v", "load", "store"}
    /\ {undone, disturbed} \subseteq BOOLEAN
    /\ points \in [Point -> Preset]

\* sfdefPanTilt_Init: a board that can locate itself starts its self-test.
PanTiltInit ==
    /\ board \in {"F05", "F16", "D11"}
    /\ dead \in IF board = "F05" THEN Dead ELSE {{}}
    /\ home \in {[a \in Axis |-> Phases * s[a]] : s \in Home} /\ phys = home
    /\ LET flags == [rhythm |-> 0, due |-> HasLimits, initing |-> HasLimits,
                     running |-> HasLimits, anti |-> FALSE, reducing |-> FALSE]
       IN  /\ loaded = [a \in Axis |-> flags]
           /\ m = [sta |-> [a \in Axis |-> flags],
                   rod |-> [a \in Axis |-> [pool |-> 0, cur |-> 0, range |-> 0]],
                   loitor |-> 0, ratio |-> 0, count |-> 0,
                   beat |-> IF HasLimits THEN "zero" ELSE "run", on |-> HasLimits]
    /\ stop = "idle" /\ undone = FALSE /\ disturbed = FALSE
    /\ points = [n \in Point |-> [set |-> FALSE, x |-> 0, y |-> 0, stay |-> 0]]

Closed(a, end) == <<a, end>> \notin dead /\ phys[a] = IF end = "origin" THEN 0 ELSE End

Busy(n) == n.sta["h"].running \/ n.sta["v"].running

-----------------------------------------------------------------------------
(* sfdefPTZ_Start.  An action is a number of steps for each axis, a target *)
(* coordinate or a preset; angles are steps by then.                       *)

\* The direction turns axis a anticlockwise.  LeftIsA on all boards; UpIsA on F16.
Anti(act, a) == IF a = "h" THEN ~act.right ELSE act.up = (board = "F16")

StepsBy(h, v, right, up) == [h |-> h, v |-> v, right |-> right, up |-> up, loitor |-> FALSE]

\* DC_PTZCmd_Crd: the way from where the motors are to a coordinate.
WayTo(h, v, n) ==
    LET least(i, j) == IF i < j THEN i ELSE j
        to  == [a \in Axis |-> least(IF a = "h" THEN h ELSE v, n.rod[a].range)]
        far == [a \in Axis |-> to[a] >= n.rod[a].cur]
        by  == [a \in Axis |-> IF far[a] THEN to[a] - n.rod[a].cur ELSE n.rod[a].cur - to[a]]
    IN  StepsBy(by["h"], by["v"], far["h"], far["v"])

\* sfdefPTZ_MoveUnitConversion.  A preset that is not set is taken for so many steps to the
\* left: its number and the horizontal component are one union, and the error is not stored.
Converted(act, n) ==
    CASE act.kind = "steps"  -> act.by
      [] act.kind = "coord"  -> WayTo(act.by.h, act.by.v, n)
      [] act.kind = "preset" -> IF ~points[act.point].set THEN StepsBy(act.point, 0, FALSE, FALSE)
                                ELSE WayTo(points[act.point].x, points[act.point].y, n)

\* sfdefPTZ_FillUpTheActPowder, for one axis that turns by some steps.
Pool(by, anti, r) ==
    CASE ~HasLimits                  -> by
      [] HasLimits /\ anti           -> IF by > r.cur THEN r.cur ELSE by
      [] HasLimits /\ ~anti          -> IF by + r.cur > r.range THEN (r.range - r.cur) % Width ELSE by

\* The machine n once it has begun to turn by the steps of w.
Begun(w, n) ==
    LET by   == [a \in Axis |-> IF a = "h" THEN w.h ELSE w.v]
        pool == [a \in Axis |-> IF by[a] = 0 THEN 0 ELSE Pool(by[a], Anti(w, a), n.rod[a])]
        both == \A a \in Axis : pool[a] > 0
        slow == IF by["h"] > by["v"] THEN "v" ELSE "h"
        flags(a) == [n.sta[a] EXCEPT
                       !.anti = IF by[a] = 0 THEN @ ELSE Anti(w, a),
                       !.running = @ \/ pool[a] > 0, !.due = @ \/ pool[a] > 0,
                       !.reducing = IF both THEN a = slow ELSE @]
    IN  [n EXCEPT !.sta = [a \in Axis |-> flags(a)],
                  !.rod = [a \in Axis |-> [n.rod[a] EXCEPT !.pool = pool[a]]],
                  !.ratio = IF both THEN (by[Other(slow)] * Unit) \div by[slow] ELSE @,
                  !.count = IF both THEN 0 ELSE @,
                  !.loitor = IF w.loitor THEN Loitor ELSE @,
                  !.beat = "run", !.on = TRUE]

\* While a motor runs the action is left in a buffer nobody reads; a coordinate is refused
\* where there is no origin.
Started(act, n) ==
    IF Busy(n) \/ (act.kind = "coord" /\ ~HasLimits) THEN n ELSE Begun(Converted(act, n), n)

Actions ==
    [kind : {"steps", "coord"}, by : Way]
    \cup IF HasLimits THEN [kind : {"preset"}, point : Point] ELSE {}

Start(act) ==
    /\ stop = "idle"
    /\ m' = Started(act, m)
    /\ disturbed' = (disturbed \/ m' # m)
    /\ UNCHANGED <<board, dead, home, phys, stop, loaded, undone, points>>

SetPoints(p) ==
    /\ HasLimits /\ points' = p
    /\ UNCHANGED <<board, dead, home, phys, m, stop, loaded, undone, disturbed>>

\* sfdefPTZ_SetPresetPoint: where the motors are, while they run as well.
SetPresetPoint(n, s) ==
    SetPoints([points EXCEPT ![n] = [set |-> TRUE, x |-> m.rod["h"].cur, y |-> m.rod["v"].cur, stay |-> s]])

\* sfdefPTZ_ClrPresetPoint
ClrPresetPoint(n) == SetPoints([points EXCEPT ![n].set = FALSE])

-----------------------------------------------------------------------------
(* sfdefPTZ_Stop: empties the pools, and clears a bit of the status word   *)
(* with a load and a store.                                                *)

StopBegin ==
    /\ stop = "idle" /\ stop' = "v" /\ disturbed' = TRUE
    /\ m' = [m EXCEPT !.rod["h"].pool = 0]
    /\ UNCHANGED <<board, dead, home, phys, loaded, undone, points>>
StopOther ==
    /\ stop = "v" /\ stop' = "load"
    /\ m' = [m EXCEPT !.rod["v"].pool = 0]
    /\ UNCHANGED <<board, dead, home, phys, loaded, undone, disturbed, points>>
StopLoad ==
    /\ stop = "load" /\ stop' = "store" /\ loaded' = m.sta
    /\ UNCHANGED <<board, dead, home, phys, m, undone, disturbed, points>>
StopStore ==
    /\ stop = "store" /\ stop' = "idle"
    /\ m' = [m EXCEPT !.sta = loaded]
    /\ undone' = (undone \/ m.sta # loaded)
    /\ UNCHANGED <<board, dead, home, phys, loaded, disturbed, points>>

StopStep == StopOther \/ StopLoad \/ StopStore

-----------------------------------------------------------------------------
(* The beat.  A turn of an axis gives the machine, the way the motor turns *)
(* by one phase, and whether the axis has ended.                           *)

Rests(n) == [n |-> n, move |-> 0, ended |-> FALSE]

\* A phase is put out to the motor of axis a.
Turns(n, a, anti) ==
    [n |-> [n EXCEPT !.sta[a].rhythm = (@ + 1) % Phases,
                     !.sta[a].due = (n.sta[a].rhythm = Phases - 1)],
     move |-> IF anti THEN -1 ELSE 1, ended |-> FALSE]

Ends(n, a) == [n |-> [n EXCEPT !.sta[a].running = FALSE], move |-> 0, ended |-> TRUE]

\* A mutant, which breaks PositionIsTrue: the coordinate is counted with each phase.
SteppedPhases(r, anti, due) ==
    [r EXCEPT !.pool = IF due THEN @ - 1 ELSE @, !.cur = (IF anti THEN @ - 1 ELSE @ + 1) % Width]
\* The step that begins, counted once in Phases turns.
Stepped(r, anti, due) ==
    IF due THEN [r EXCEPT !.pool = @ - 1, !.cur = (IF anti THEN @ - 1 ELSE @ + 1) % Width] ELSE r

\* A limit switch that is closed ends the move, and tells where the axis is.
Limited(r, a, anti) ==
    IF HasLimits /\ Closed(a, IF anti THEN "origin" ELSE "tail")
    THEN [r EXCEPT !.pool = 0, !.cur = IF anti THEN 0 ELSE r.range] ELSE r

\* sfdefPTZ_PanTiltRuning, for one axis: the slower one misses beats.
RunTurn(n, a) ==
    LET f     == n.sta[a]
        late  == f.reducing /\ n.count + Unit < n.ratio
        k     == IF f.reducing THEN [n EXCEPT !.count = @ + Unit - (IF late THEN 0 ELSE n.ratio)] ELSE n
        moved == Limited(Stepped(n.rod[a], f.anti, f.due), a, f.anti)
    IN  CASE ~f.running -> Rests(n)
          [] f.running /\ late -> Rests(k)
          [] f.running /\ ~late /\ f.due /\ n.rod[a].pool = 0 ->
                Ends([k EXCEPT !.sta[a].initing = FALSE, !.sta[a].due = FALSE], a)
          [] OTHER -> Turns([k EXCEPT !.rod[a] = moved], a, f.anti)

\* The switch was not found within the steps the axis can make.
GivesUp(steps) == steps > LimitSteps

\* sfdefPTZ_FindZeroPoint, for one axis: counts the steps back to the origin in the pool.
ZeroTurn(n, a) ==
    LET f == n.sta[a]
        k == [n EXCEPT !.sta[a].due = FALSE, !.rod[a].pool = @ + 1]
    IN  CASE ~f.running -> Rests(n)
          [] f.running /\ ~f.due -> Turns(n, a, TRUE)
          [] f.running /\ f.due  ->
                IF Closed(a, "origin") \/ GivesUp(k.rod[a].pool) THEN Ends(k, a) ELSE Turns(k, a, TRUE)

\* sfdefPTZ_FigureOutTheRange, for one axis: counts the steps to the tail in the range.
RangeTurn(n, a) ==
    LET f == n.sta[a]
        k == [n EXCEPT !.sta[a].due = FALSE, !.rod[a].range = @ + 1]
        full == [pool |-> StepsPerFull, cur |-> StepsPerFull, range |-> StepsPerFull]
    IN  CASE ~f.running -> Rests(n)
          [] f.running /\ ~f.due -> Turns(n, a, FALSE)
          [] f.running /\ f.due  ->
                CASE GivesUp(k.rod[a].range) -> Ends([k EXCEPT !.rod[a] = full], a)
                  [] ~GivesUp(k.rod[a].range) /\ Closed(a, "tail") -> Ends(k, a)
                  [] OTHER -> Turns(k, a, FALSE)

Turn(n, a) == CASE n.beat = "run" -> RunTurn(n, a)
                [] n.beat = "zero" -> ZeroTurn(n, a)
                [] n.beat = "range" -> RangeTurn(n, a)

\* Once the origin is found, the range is looked for.
ThenRange(n) ==
    [n EXCEPT !.sta = [a \in Axis |-> [@[a] EXCEPT !.running = TRUE, !.due = TRUE]],
              !.beat = "range", !.on = TRUE]

\* A mutant, which breaks ReturnsToStart: the motors do not go back.
WayBackForgotten(r) == [r EXCEPT !.cur = r.range]

\* The pool held the way from the start to the origin; the way back to it remains.
WayBack(r) == [r EXCEPT !.pool = IF r.range >= @ THEN r.range - @ ELSE 0, !.cur = r.range]

\* Once the range is known the motors return: downwards and to the left, on every board.
ThenReturn(n) ==
    LET k  == [n EXCEPT !.rod = [a \in Axis |-> WayBack(@[a])]]
        by == [StepsBy(k.rod["h"].pool, k.rod["v"].pool, FALSE, FALSE) EXCEPT !.loitor = TRUE]
    IN  Started([kind |-> "steps", by |-> by], k)

\* A mutant, which breaks BusyIsDriven: the beat stops with the first axis that ends.
AllEndFirst(n, ended) == ended
\* The last axis that ran has ended.
AllEnd(n, ended) == ended /\ ~Busy(n)

Then(n) == CASE n.beat = "zero"  -> ThenRange(n)
             [] n.beat = "range" -> ThenReturn(n)
             [] n.beat = "run"   -> [n EXCEPT !.on = FALSE]

\* Where a motor stands that was turned; at its ends it stalls.
Stalled(p) == IF p < 0 THEN 0 ELSE IF p > End THEN End ELSE p

Beat ==
    /\ m.on
    /\ IF m.beat = "run" /\ m.loitor > 0 THEN m' = [m EXCEPT !.loitor = @ - 1] /\ UNCHANGED phys
       ELSE LET h == Turn(m, "h")
                v == Turn(h.n, "v")
            IN  /\ m' = IF AllEnd(v.n, h.ended \/ v.ended) THEN Then(v.n) ELSE v.n
                /\ phys' = [h |-> Stalled(phys["h"] + h.move), v |-> Stalled(phys["v"] + v.move)]
    /\ UNCHANGED <<board, dead, home, stop, loaded, undone, disturbed, points>>
=============================================================================
