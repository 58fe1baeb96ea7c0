---------------------------- MODULE Cruise_proofs ----------------------------
(***************************************************************************)
(* The pan and tilt and its cruise, for axes of any length, any phases of  *)
(* a step, any presets, paths, requests and start.                         *)
(*                                                                         *)
(* For any constants (BaseInv): the self-test keeps a motor running until  *)
(* it has ended, a motor that runs is driven, and a cruise nobody meddles  *)
(* with has a path that is good as far as it has come.                     *)
(*                                                                         *)
(* Where the motors are (PlaceInv), if the switches close and the search   *)
(* for them is longer than the axis: what a coordinate counts lags behind  *)
(* the motor by the phases of the step under way.  While the origin is     *)
(* looked for the pool and the way that is left make up the start; while   *)
(* the range is looked for it counts the steps from the origin; on the way *)
(* back the coordinate and the pool give the start again.  At a switch the *)
(* coordinate is put right, and the motor has stopped.                     *)
(*                                                                         *)
(* Where a cruise goes (TargetInv): the pool is what the coordinate lacks  *)
(* of the last preset, whatever the beat has done of it.                   *)
(***************************************************************************)
EXTENDS Cruise, TLAPS

\* A place, in phases.
Steps(s) == Phases * s

\* Nobody has asked for a move since the driver was loaded, on the board that turns back.
Undisturbed == ~disturbed /\ ~ready /\ board = "F05"

\* Where the motor stands s steps behind, if the phase has begun to turn it down or up.
Down(f, s) == IF f.rhythm = 0 THEN Steps(s) ELSE Steps(s) + Phases - f.rhythm
Up(f, s)   == IF f.rhythm = 0 THEN Steps(s) ELSE Steps(s) - Phases + f.rhythm

\* An axis with flags f and rod r that stands at p, while the origin is looked for, while the
\* range is, and when it moves; u says that it is still about its start, hm.
ZeroAxis(f, r, p, u, hm) ==
    /\ r.cur = 0 /\ r.range = 0
    /\ f.due <=> f.running /\ f.rhythm = 0
    /\ IF f.running
       THEN \E s \in 0 .. Full : /\ p = Down(f, s) /\ p <= End /\ r.pool + s <= Full
                                 /\ u => hm = Steps(s + r.pool)
       ELSE /\ p = 0 /\ f.rhythm = 0 /\ r.pool <= Full + 1
            /\ u => r.pool > 0 /\ hm = Steps(r.pool - 1)

RangeAxis(f, r, p, u, hm) ==
    /\ r.cur = 0 /\ r.pool <= Full + 1
    /\ f.due <=> f.running /\ f.rhythm = 0
    /\ u => r.pool > 0 /\ hm = Steps(r.pool - 1)
    /\ IF f.running
       THEN r.range \in 0 .. Full /\ p = Up(f, r.range) /\ p >= 0
       ELSE r.range = Full + 1 /\ p = End /\ f.rhythm = 0

RunAxis(f, r, p, u, hm) ==
    /\ r.range = Full + 1 /\ r.cur <= r.range
    /\ f.due <=> f.running /\ f.rhythm = 0
    /\ IF f.running
       THEN /\ IF f.anti THEN r.pool <= r.cur ELSE r.pool + r.cur <= r.range
            /\ \/ \E s \in 0 .. Full : /\ p = IF f.anti THEN Down(f, s) ELSE Up(f, s)
                                       /\ p \in 0 .. End
                                       /\ r.cur \in {s, s + 1}
                                       /\ u => f.anti /\ r.pool <= s /\ hm = Steps(s - r.pool)
               \/ f.anti /\ p = 0 /\ r.cur = 0 /\ ~f.due /\ ~u
               \/ ~f.anti /\ p = End /\ r.cur = r.range /\ ~f.due /\ ~u
       ELSE /\ f.rhythm = 0 /\ \E s \in 0 .. Full : p = Steps(s) /\ r.cur \in {s, s + 1}
            /\ u => p = hm

\* What holds of an axis that stands at p, by the handler of the beat.
AxisIs(n, a, p, u, hm) ==
    /\ n.beat = "zero"  => ZeroAxis(n.sta[a], n.rod[a], p, u, hm)
    /\ n.beat = "range" => RangeAxis(n.sta[a], n.rod[a], p, u, hm)
    /\ n.beat = "run"   => RunAxis(n.sta[a], n.rod[a], p, u, hm)

\* The axis is on its way to coordinate t, or there.
Towards(f, r, t) ==
    IF f.running THEN IF f.anti THEN t + r.pool = r.cur ELSE r.cur + r.pool = t
    ELSE r.cur = t

\* Places are counted in phases.
LEMMA StepsAre ==
  /\ End = Steps(Full) /\ Steps(0) = 0
  /\ \A s \in Nat : /\ Steps(s) \in Nat /\ Steps(s + 1) = Steps(s) + Phases
                    /\ Steps(s) % Phases = 0 /\ Steps(s) \div Phases = s
  /\ \A s, t \in Nat : s < t => Steps(s) + Phases <= Steps(t)
<1> USE PanTiltAssumption
<1>1. End = Steps(Full) /\ Steps(0) = 0
  BY DEF End, Steps
<1>2. ASSUME NEW s \in Nat
      PROVE  /\ Steps(s) \in Nat /\ Steps(s + 1) = Steps(s) + Phases
             /\ Steps(s) % Phases = 0 /\ Steps(s) \div Phases = s
  <2>1. Steps(s) \in Nat /\ Steps(s + 1) = Steps(s) + Phases
    BY DEF Steps
  <2>2. Steps(s) % Phases = 0
    BY DEF Steps
  <2>3. Steps(s) \div Phases = s
    BY DEF Steps
  <2> QED BY <2>1, <2>2, <2>3
<1>3. ASSUME NEW s \in Nat, NEW t \in Nat, s < t
      PROVE  Steps(s) + Phases <= Steps(t)
  <2>1. PICK d \in Nat : t = s + 1 + d
    <3>1. t = s + 1 + (t - s - 1) /\ t - s - 1 \in Nat
      BY <1>3
    <3> QED BY <3>1
  <2>2. Phases * (s + 1 + d) = Phases * s + Phases + Phases * d
    OBVIOUS
  <2>3. Phases * d \in Nat
    OBVIOUS
  <2> QED BY <2>1, <2>2, <2>3 DEF Steps
<1> QED BY <1>1, <1>2, <1>3

\* An axis whose phase is put out, and one that ends.
Turned(f) == [f EXCEPT !.rhythm = (@ + 1) % Phases, !.due = (f.rhythm = Phases - 1)]
Ended(f)  == [f EXCEPT !.running = FALSE, !.due = FALSE]

\* The search for a switch is longer than the axis, whose coordinates do not wrap.
LongEnough == LimitSteps > Full /\ Width > Full + 1

\* What the assumptions say of the numbers the proofs add and compare.
LEMMA ConstantsAre ==
  /\ Phases \in Nat /\ Phases > 0 /\ Width \in Nat /\ Width > 0
  /\ Full \in Nat /\ LimitSteps \in Nat /\ StepsPerFull \in Nat /\ Loitor \in Nat
  BY PanTiltAssumption

\* The places an axis may stand at.
LEMMA PlacesAre ==
  ASSUME NEW s \in 0 .. Full
  PROVE  /\ Steps(s) \in Nat /\ 0 <= Steps(s) /\ Steps(s) <= End /\ End \in Nat
         /\ s # 0 => s - 1 \in 0 .. Full /\ Steps(s) = Steps(s - 1) + Phases
         /\ s # Full => s + 1 \in 0 .. Full /\ Steps(s + 1) = Steps(s) + Phases /\ Steps(s + 1) <= End
         /\ Steps(s) = 0 <=> s = 0
         /\ Steps(s) = End <=> s = Full
<1>0. s \in Nat /\ Full \in Nat /\ Phases \in Nat /\ Phases > 0 /\ s <= Full
  BY ConstantsAre
<1>1. Steps(s) \in Nat /\ End = Steps(Full) /\ End \in Nat /\ Steps(0) = 0
  BY <1>0, StepsAre
<1>2. s # 0 => s - 1 \in Nat /\ Steps((s - 1) + 1) = Steps(s - 1) + Phases /\ (s - 1) + 1 = s /\ Steps(s - 1) \in Nat
  BY <1>0 DEF Steps
<1>5. Steps(s + 1) = Steps(s) + Phases
  BY <1>0 DEF Steps
<1>3. s # Full => s + 1 \in 0 .. Full /\ Steps(s + 1) = Steps(s) + Phases
  BY <1>0, <1>5
<1>4. s # Full => Steps(s) + Phases <= Steps(Full)
  BY <1>0, StepsAre
<1> QED BY <1>0, <1>1, <1>2, <1>3, <1>4

\* The rhythm comes round to 0 from its last phase, and from no other.
LEMMA RhythmGoesRound ==
  ASSUME NEW j \in 0 .. Phases - 1
  PROVE  (j + 1) % Phases = IF j = Phases - 1 THEN 0 ELSE j + 1
<1> USE PanTiltAssumption
<1>1. CASE j = Phases - 1
  <2>1. Phases % Phases = 0 OBVIOUS
  <2> QED BY <1>1, <2>1
<1>2. CASE j # Phases - 1
  BY <1>2
<1> QED BY <1>1, <1>2

\* A phase that is put out changes the rhythm and the due bit alone.
LEMMA TurnedIs ==
  ASSUME NEW f \in Flags
  PROVE  /\ Turned(f) \in Flags
         /\ Turned(f).rhythm = IF f.rhythm = Phases - 1 THEN 0 ELSE f.rhythm + 1
         /\ Turned(f).due <=> f.rhythm = Phases - 1
         /\ Turned(f).running = f.running /\ Turned(f).anti = f.anti
         /\ Turned(f).initing = f.initing /\ Turned(f).reducing = f.reducing
         /\ Ended(f) \in Flags /\ Ended(f).running = FALSE /\ Ended(f).due = FALSE
         /\ Ended(f).rhythm = f.rhythm
<1>1. f.rhythm \in 0 .. Phases - 1 BY DEF Flags
<1>2. (f.rhythm + 1) % Phases = IF f.rhythm = Phases - 1 THEN 0 ELSE f.rhythm + 1
  BY <1>1, RhythmGoesRound
<1>3. (f.rhythm + 1) % Phases \in 0 .. Phases - 1
  BY <1>1, <1>2, PanTiltAssumption
<1> QED BY <1>1, <1>2, <1>3 DEF Flags, Turned, Ended

\* A phase towards the origin: the motor ends where the switch closes, or is a phase lower.
LEMMA ZeroTurns ==
  ASSUME LongEnough, NEW f \in Flags, NEW r \in Rod, NEW p \in 0 .. End, NEW u \in BOOLEAN, NEW hm,
         ZeroAxis(f, r, p, u, hm), f.running
  PROVE  /\ f.due => ~GivesUp(r.pool + 1)
         /\ ~f.due => ZeroAxis(Turned(f), r, Stalled(p - 1), u, hm)
         /\ f.due /\ p # 0 => ZeroAxis(Turned(f), [r EXCEPT !.pool = @ + 1], Stalled(p - 1), u, hm)
         /\ f.due /\ p = 0 => ZeroAxis(Ended(f), [r EXCEPT !.pool = @ + 1], p, u, hm)
<1>0. PICK s \in 0 .. Full : /\ p = Down(f, s) /\ p <= End /\ r.pool + s <= Full
                             /\ u => hm = Steps(s + r.pool)
  BY DEF ZeroAxis
<1>1. /\ f.rhythm \in 0 .. Phases - 1 /\ (f.due <=> f.rhythm = 0)
      /\ r.cur = 0 /\ r.range = 0 /\ r.pool \in Nat
  BY DEF ZeroAxis, Flags, Rod
<1>2. s \in Nat /\ s <= Full /\ Full \in Nat /\ LimitSteps \in Nat /\ Phases \in Nat /\ Phases > 0 /\ End \in Nat
  BY ConstantsAre, PlacesAre
<1>3. f.due => ~GivesUp(r.pool + 1)
  BY <1>0, <1>1, <1>2 DEF GivesUp, LongEnough
<1> DEFINE g == Turned(f)  c == [r EXCEPT !.pool = @ + 1]
<1>a. g.rhythm = (IF f.rhythm = Phases - 1 THEN 0 ELSE f.rhythm + 1) /\ (g.due <=> f.rhythm = Phases - 1)
  BY TurnedIs
<1>b. g.running
  BY TurnedIs
<1>c. g.rhythm = 0 <=> f.rhythm = Phases - 1
  BY <1>a, <1>1, <1>2
<1>4. g.rhythm = (IF f.rhythm = Phases - 1 THEN 0 ELSE f.rhythm + 1) /\ g.running /\ (g.due <=> g.running /\ g.rhythm = 0)
  BY <1>a, <1>b, <1>c
<1>5. c.pool = r.pool + 1 /\ c.cur = r.cur /\ c.range = r.range
  BY DEF Rod
<1>6. Ended(f).running = FALSE /\ Ended(f).due = FALSE /\ Ended(f).rhythm = f.rhythm
  BY TurnedIs
<1>7. Steps(s) \in Nat /\ Steps(s) <= End /\ (s # 0 => s - 1 \in 0 .. Full /\ Steps(s) = Steps(s - 1) + Phases)
      /\ (Steps(s) = 0 <=> s = 0)
  BY PlacesAre
<1> HIDE DEF g, c
<1>8. ASSUME ~f.due PROVE ZeroAxis(g, r, Stalled(p - 1), u, hm)
  <2>1. Stalled(p - 1) = Down(g, s) /\ Down(g, s) <= End
    BY <1>0, <1>1, <1>2, <1>4, <1>7, <1>8 DEF Down, Stalled
  <2> QED BY <1>0, <1>1, <1>4, <2>1 DEF ZeroAxis
<1>9. ASSUME f.due, p # 0 PROVE ZeroAxis(g, c, Stalled(p - 1), u, hm)
  <2>0. p = Steps(s) /\ s # 0 /\ s - 1 \in 0 .. Full /\ Steps(s) = Steps(s - 1) + Phases
    BY <1>0, <1>1, <1>7, <1>9 DEF Down
  <2>4. Steps(s - 1) \in Nat
    BY PlacesAre, <2>0
  <2>1. Stalled(p - 1) = Down(g, s - 1) /\ Down(g, s - 1) <= End
    BY <1>0, <1>1, <1>2, <1>4, <1>7, <1>9, <2>0, <2>4 DEF Down, Stalled
  <2>3. (s - 1) + c.pool = s + r.pool
    BY <1>1, <1>2, <1>5
  <2>5. (s - 1) + c.pool = c.pool + (s - 1) /\ c.pool + (s - 1) <= Full
    BY <1>0, <1>1, <1>2, <1>5
  <2>6. \E t \in 0 .. Full : /\ Stalled(p - 1) = Down(g, t) /\ Stalled(p - 1) <= End /\ c.pool + t <= Full
                             /\ u => hm = Steps(t + c.pool)
    <3>1. s - 1 \in 0 .. Full BY <2>0
    <3> WITNESS s - 1 \in 0 .. Full
    <3> QED BY <1>0, <2>1, <2>3, <2>5
  <2> QED BY <1>1, <1>4, <1>5, <2>6 DEF ZeroAxis
<1>10. ASSUME f.due, p = 0 PROVE ZeroAxis(Ended(f), c, p, u, hm)
  <2>0. s = 0
    BY <1>0, <1>1, <1>7, <1>10 DEF Down
  <2>3. c.pool - 1 = s + r.pool /\ c.pool > 0 /\ c.pool <= Full + 1
    BY <1>0, <1>1, <1>2, <1>5, <2>0
  <2>4. u => hm = Steps(c.pool - 1)
    BY <1>0, <2>3
  <2> QED BY <1>1, <1>5, <1>6, <1>10, <2>3, <2>4 DEF ZeroAxis
<1> QED BY <1>3, <1>8, <1>9, <1>10 DEF g, c

\* A phase towards the tail.
LEMMA RangeTurns ==
  ASSUME LongEnough, NEW f \in Flags, NEW r \in Rod, NEW p \in 0 .. End, NEW u \in BOOLEAN, NEW hm,
         RangeAxis(f, r, p, u, hm), f.running
  PROVE  /\ f.due => ~GivesUp(r.range + 1)
         /\ ~f.due => RangeAxis(Turned(f), r, Stalled(p + 1), u, hm)
         /\ f.due /\ p # End => RangeAxis(Turned(f), [r EXCEPT !.range = @ + 1], Stalled(p + 1), u, hm)
         /\ f.due /\ p = End => RangeAxis(Ended(f), [r EXCEPT !.range = @ + 1], p, u, hm)
<1>1. /\ f.rhythm \in 0 .. Phases - 1 /\ (f.due <=> f.rhythm = 0)
      /\ r.cur = 0 /\ r.range \in 0 .. Full /\ r.pool \in Nat /\ r.pool <= Full + 1
      /\ p = Up(f, r.range) /\ p >= 0
  BY DEF RangeAxis, Flags, Rod
<1>0. u => r.pool > 0 /\ hm = Steps(r.pool - 1)
  BY DEF RangeAxis
<1>2. r.range \in Nat /\ r.range <= Full /\ Full \in Nat /\ LimitSteps \in Nat /\ Phases \in Nat /\ Phases > 0 /\ End \in Nat
  BY <1>1, ConstantsAre, PlacesAre
<1>3. f.due => ~GivesUp(r.range + 1)
  BY <1>1, <1>2 DEF GivesUp, LongEnough
<1> DEFINE g == Turned(f)  c == [r EXCEPT !.range = @ + 1]
<1>a. g.rhythm = (IF f.rhythm = Phases - 1 THEN 0 ELSE f.rhythm + 1) /\ (g.due <=> f.rhythm = Phases - 1)
  BY TurnedIs
<1>b. g.running
  BY TurnedIs
<1>c. g.rhythm = 0 <=> f.rhythm = Phases - 1
  BY <1>a, <1>1, <1>2
<1>4. g.rhythm = (IF f.rhythm = Phases - 1 THEN 0 ELSE f.rhythm + 1) /\ g.running /\ (g.due <=> g.running /\ g.rhythm = 0)
  BY <1>a, <1>b, <1>c
<1>5. c.pool = r.pool /\ c.cur = r.cur /\ c.range = r.range + 1
  BY DEF Rod
<1>6. Ended(f).running = FALSE /\ Ended(f).due = FALSE /\ Ended(f).rhythm = f.rhythm
  BY TurnedIs
<1>7. /\ Steps(r.range) \in Nat /\ Steps(r.range) <= End
      /\ r.range # Full => r.range + 1 \in 0 .. Full /\ Steps(r.range + 1) = Steps(r.range) + Phases /\ Steps(r.range + 1) <= End
      /\ (Steps(r.range) = End <=> r.range = Full)
  BY PlacesAre, <1>1
<1> HIDE DEF g, c
<1>8. ASSUME ~f.due PROVE RangeAxis(g, r, Stalled(p + 1), u, hm)
  <2>1. Stalled(p + 1) = Up(g, r.range) /\ Up(g, r.range) >= 0
    BY <1>1, <1>2, <1>4, <1>7, <1>8 DEF Up, Stalled
  <2> QED BY <1>0, <1>1, <1>4, <2>1 DEF RangeAxis
<1>9. ASSUME f.due, p # End PROVE RangeAxis(g, c, Stalled(p + 1), u, hm)
  <2>0. p = Steps(r.range) /\ r.range # Full /\ r.range + 1 \in 0 .. Full
    BY <1>1, <1>7, <1>9 DEF Up
  <2>1. Stalled(p + 1) = Up(g, r.range + 1) /\ Up(g, r.range + 1) >= 0
    BY <1>1, <1>2, <1>4, <1>7, <1>9, <2>0 DEF Up, Stalled
  <2> QED BY <1>0, <1>1, <1>4, <1>5, <2>0, <2>1 DEF RangeAxis
<1>10. ASSUME f.due, p = End PROVE RangeAxis(Ended(f), c, p, u, hm)
  <2>0. r.range = Full
    BY <1>1, <1>7, <1>10 DEF Up
  <2> QED BY <1>0, <1>1, <1>5, <1>6, <1>10, <2>0 DEF RangeAxis
<1> QED BY <1>3, <1>8, <1>9, <1>10 DEF g, c

\* What a beat of sfdefPTZ_PanTiltRuning does to an axis that turns.
Moved(f, r, a, p) == Limited(Stepped(r, f.anti, f.due), a, f.anti)
Drift(f, p) == Stalled(IF f.anti THEN p - 1 ELSE p + 1)

\* What a phase of a move does to the rod, with and without a step that begins.
LEMMA MovedIs ==
  ASSUME LongEnough, NEW f \in Flags, NEW r \in Rod, NEW a \in Axis, dead = {}, HasLimits,
         NEW u \in BOOLEAN, NEW hm, phys[a] \in 0 .. End,
         RunAxis(f, r, phys[a], u, hm), f.running, ~(f.due /\ r.pool = 0)
  PROVE  LET n == Moved(f, r, a, phys[a])
             shut == phys[a] = IF f.anti THEN 0 ELSE End
         IN  /\ n \in Rod /\ n.range = r.range
             /\ shut => n.pool = 0 /\ n.cur = IF f.anti THEN 0 ELSE r.range
             /\ ~shut /\ f.due => n.pool = r.pool - 1 /\ n.cur = IF f.anti THEN r.cur - 1 ELSE r.cur + 1
             /\ ~shut /\ ~f.due => n = r
<1> DEFINE q == Stepped(r, f.anti, f.due)
<1>1. /\ r.pool \in Nat /\ r.cur \in Nat /\ r.range \in Nat /\ r.range = Full + 1 /\ r.cur <= r.range
      /\ (IF f.anti THEN r.pool <= r.cur ELSE r.pool + r.cur <= r.range)
  BY DEF RunAxis, Rod
<1>2. Full \in Nat /\ Width \in Nat /\ Full + 1 < Width
  BY ConstantsAre DEF LongEnough
<1>3. ASSUME f.due
      PROVE q = [pool |-> r.pool - 1, cur |-> IF f.anti THEN r.cur - 1 ELSE r.cur + 1, range |-> r.range]
  <2>1. q = [pool |-> r.pool - 1, cur |-> (IF f.anti THEN r.cur - 1 ELSE r.cur + 1) % Width, range |-> r.range]
    BY <1>3 DEF Stepped, Rod
  <2>2. (IF f.anti THEN r.cur - 1 ELSE r.cur + 1) \in 0 .. Width - 1
    BY <1>1, <1>2, <1>3
  <2>3. \A x \in 0 .. Width - 1 : x % Width = x
    BY <1>2
  <2> QED BY <2>1, <2>2, <2>3
<1>4. ~f.due => q = r
  BY DEF Stepped
<1>5. q \in Rod /\ q.range = r.range
  BY <1>1, <1>3, <1>4 DEF Rod
<1> HIDE DEF q
<1> DEFINE shut == phys[a] = IF f.anti THEN 0 ELSE End
<1>6. Closed(a, IF f.anti THEN "origin" ELSE "tail") <=> shut
  BY DEF Closed
<1>7. Moved(f, r, a, phys[a]) = Limited(q, a, f.anti)
  BY DEF Moved, q
<1>8. Moved(f, r, a, phys[a]) = IF shut THEN [q EXCEPT !.pool = 0, !.cur = IF f.anti THEN 0 ELSE q.range] ELSE q
  BY <1>6, <1>7 DEF Limited
<1>9. CASE shut
  <2>1. Moved(f, r, a, phys[a]) = [pool |-> 0, cur |-> IF f.anti THEN 0 ELSE r.range, range |-> r.range]
    BY <1>5, <1>8, <1>9 DEF Rod
  <2> QED BY <1>1, <1>9, <2>1 DEF Rod
<1>10. CASE ~shut
  <2>1. Moved(f, r, a, phys[a]) = q
    BY <1>8, <1>10
  <2> QED BY <1>3, <1>4, <1>5, <1>10, <2>1
<1> QED BY <1>9, <1>10

\* A phase of a move, of either direction, at the ends as well.
LEMMA RunTurns ==
  ASSUME LongEnough, NEW f \in Flags, NEW r \in Rod, NEW a \in Axis, dead = {}, HasLimits,
         NEW u \in BOOLEAN, NEW hm, phys[a] \in 0 .. End,
         RunAxis(f, r, phys[a], u, hm), f.running
  PROVE  /\ f.due /\ r.pool = 0 => RunAxis([Ended(f) EXCEPT !.initing = FALSE], r, phys[a], u, hm)
         /\ ~(f.due /\ r.pool = 0) => RunAxis(Turned(f), Moved(f, r, a, phys[a]), Drift(f, phys[a]), u, hm)
<1> DEFINE p == phys[a]  n == Moved(f, r, a, phys[a])  g == Turned(f)
           Mid(s) == /\ p = IF f.anti THEN Down(f, s) ELSE Up(f, s)
                     /\ p \in 0 .. End
                     /\ r.cur \in {s, s + 1}
                     /\ u => f.anti /\ r.pool <= s /\ hm = Steps(s - r.pool)
           shut == p = IF f.anti THEN 0 ELSE End
<1>1. /\ r.pool \in Nat /\ r.cur \in Nat /\ r.range \in Nat /\ r.range = Full + 1 /\ r.cur <= r.range
      /\ (IF f.anti THEN r.pool <= r.cur ELSE r.pool + r.cur <= r.range)
  BY DEF RunAxis, Rod
<1>2. f.rhythm \in 0 .. Phases - 1 /\ (f.due <=> f.rhythm = 0)
  BY DEF RunAxis, Flags
<1>3. Full \in Nat /\ Width \in Nat /\ Full + 1 < Width /\ Phases \in Nat /\ Phases > 0 /\ End \in Nat
  BY ConstantsAre, PlacesAre DEF LongEnough
<1>4. \/ \E s \in 0 .. Full : Mid(s)
      \/ f.anti /\ p = 0 /\ r.cur = 0 /\ ~f.due /\ ~u
      \/ ~f.anti /\ p = End /\ r.cur = r.range /\ ~f.due /\ ~u
  BY DEF RunAxis
<1>5. ASSUME f.due, r.pool = 0 PROVE RunAxis([Ended(f) EXCEPT !.initing = FALSE], r, phys[a], u, hm)
  <2> DEFINE e == [Ended(f) EXCEPT !.initing = FALSE]
  <2>0. Ended(f) \in Flags /\ Ended(f).running = FALSE /\ Ended(f).due = FALSE /\ Ended(f).rhythm = f.rhythm
    BY TurnedIs
  <2>a. e.rhythm = f.rhythm
    BY <2>0 DEF Flags
  <2>b. e.running = FALSE
    BY <2>0, Zenon DEF Flags
  <2>c. e.due = FALSE
    BY <2>0, Zenon DEF Flags
  <2>1. e.running = FALSE /\ e.due = FALSE /\ e.rhythm = f.rhythm
    BY <2>a, <2>b, <2>c
  <2>2. PICK s \in 0 .. Full : Mid(s)
    BY <1>4, <1>5
  <2>3. p = Steps(s) /\ r.cur \in {s, s + 1}
    BY <1>2, <1>5, <2>2 DEF Down, Up
  <2>4. u => p = hm
    <3> HAVE u
    <3>1. s - r.pool = s BY <1>5
    <3> QED BY <2>2, <2>3, <3>1
  <2>5. e.rhythm = 0
    BY <1>2, <1>5, <2>1
  <2>6. \E t \in 0 .. Full : p = Steps(t) /\ r.cur \in {t, t + 1}
    BY <2>3
  <2> HIDE DEF e, Mid
  <2>7. ~e.running /\ ~e.due
    BY <2>1
  <2>8. (e.due <=> e.running /\ e.rhythm = 0) /\ r.range = Full + 1 /\ r.cur <= r.range
    BY <1>1, <2>7
  <2>9. RunAxis(e, r, p, u, hm)
    BY <2>4, <2>5, <2>6, <2>7, <2>8 DEF RunAxis
  <2> QED BY <2>9 DEF e
<1>6. ASSUME ~(f.due /\ r.pool = 0) PROVE RunAxis(g, n, Drift(f, p), u, hm)
  <2>1. /\ n \in Rod /\ n.range = r.range
        /\ shut => n.pool = 0 /\ n.cur = IF f.anti THEN 0 ELSE r.range
        /\ ~shut /\ f.due => n.pool = r.pool - 1 /\ n.cur = IF f.anti THEN r.cur - 1 ELSE r.cur + 1
        /\ ~shut /\ ~f.due => n = r
    BY <1>6, MovedIs
  <2>2. g.rhythm = (IF f.rhythm = Phases - 1 THEN 0 ELSE f.rhythm + 1) /\ (g.due <=> f.rhythm = Phases - 1)
        /\ g.anti = f.anti
    BY TurnedIs
  <2>3. g.running
    BY TurnedIs
  <2>4. g.due <=> g.running /\ g.rhythm = 0
    BY <1>2, <1>3, <2>2, <2>3
  <2>5. n.pool \in Nat /\ n.cur \in Nat /\ n.range = Full + 1 /\ n.cur <= n.range
        /\ (IF g.anti THEN n.pool <= n.cur ELSE n.pool + n.cur <= n.range)
    <3>1. CASE shut
      BY <1>1, <1>3, <2>1, <2>2, <3>1
    <3>2. CASE ~shut /\ f.due
      BY <1>1, <1>3, <1>6, <2>1, <2>2, <3>2
    <3>3. CASE ~shut /\ ~f.due
      BY <1>1, <1>3, <2>1, <2>2, <3>3
    <3> QED BY <3>1, <3>2, <3>3
  <2> DEFINE z == Drift(f, p)
             New(s) == /\ z = IF g.anti THEN Down(g, s) ELSE Up(g, s)
                       /\ z \in 0 .. End
                       /\ n.cur \in {s, s + 1}
                       /\ u => g.anti /\ n.pool <= s /\ hm = Steps(s - n.pool)
             Goal == \/ \E s \in 0 .. Full : New(s)
                     \/ g.anti /\ z = 0 /\ n.cur = 0 /\ ~g.due /\ ~u
                     \/ ~g.anti /\ z = End /\ n.cur = n.range /\ ~g.due /\ ~u
  <2> HIDE DEF g, n
  <2>6. z = Stalled(IF f.anti THEN p - 1 ELSE p + 1)
    BY DEF Drift
  <2>7. ASSUME shut, ~u PROVE Goal
    <3>0. 0 \in 0 .. Full /\ Full \in 0 .. Full /\ Steps(0) = 0 /\ Steps(Full) = End
      BY <1>3, StepsAre
    <3>1. CASE f.anti
      <4>1. z = 0 /\ n.cur = 0
        BY <1>3, <2>1, <2>6, <2>7, <3>1 DEF Stalled
      <4>2. g.due => New(0)
        BY <1>3, <2>2, <2>4, <2>7, <3>0, <3>1, <4>1 DEF Down
      <4> QED BY <2>2, <2>7, <3>0, <3>1, <4>1, <4>2
    <3>2. CASE ~f.anti
      <4>1. z = End /\ n.cur = n.range
        BY <1>3, <2>1, <2>6, <2>7, <3>2 DEF Stalled
      <4>2. g.due => New(Full)
        BY <1>3, <2>2, <2>4, <2>5, <2>7, <3>0, <3>2, <4>1 DEF Up
      <4> QED BY <2>2, <2>7, <3>0, <3>2, <4>1, <4>2
    <3> QED BY <3>1, <3>2
  <2>8. ASSUME ~shut \/ u PROVE Goal
    <3>1. PICK s \in 0 .. Full : Mid(s)
      BY <1>3, <1>4, <2>8
    <3>2. /\ s \in Nat /\ s <= Full /\ Steps(s) \in Nat /\ Steps(s) <= End
          /\ (s # 0 => s - 1 \in 0 .. Full /\ Steps(s) = Steps(s - 1) + Phases)
          /\ (s # Full => s + 1 \in 0 .. Full /\ Steps(s + 1) = Steps(s) + Phases /\ Steps(s + 1) <= End)
          /\ (Steps(s) = 0 <=> s = 0) /\ (Steps(s) = End <=> s = Full)
      BY PlacesAre
    <3>3. ~shut
      <4> SUFFICES ASSUME u, shut PROVE FALSE
        BY <2>8
      <4>1. f.anti /\ p = 0 /\ r.pool <= s
        BY <3>1
      <4>2. CASE f.due
        <5>1. s = 0 BY <1>2, <3>1, <3>2, <4>1, <4>2 DEF Down
        <5> QED BY <1>1, <1>6, <4>1, <4>2, <5>1
      <4>3. CASE ~f.due
        BY <1>2, <1>3, <3>1, <3>2, <4>1, <4>3 DEF Down
      <4> QED BY <4>2, <4>3
    <3>4. CASE f.due /\ f.anti
      <4>1. p = Steps(s) /\ s # 0 /\ s - 1 \in 0 .. Full /\ Steps(s) = Steps(s - 1) + Phases /\ Steps(s - 1) \in Nat
        BY <1>2, <3>1, <3>2, <3>3, <3>4, PlacesAre DEF Down
      <4>2. z = Down(g, s - 1) /\ z \in 0 .. End
        BY <1>2, <1>3, <2>2, <2>6, <3>2, <3>4, <4>1 DEF Down, Stalled
      <4>3. n.cur \in {s - 1, s - 1 + 1}
        BY <1>1, <2>1, <3>1, <3>2, <3>3, <3>4
      <4>4. u => g.anti /\ n.pool <= s - 1 /\ hm = Steps((s - 1) - n.pool)
        <5> HAVE u
        <5>1. (s - 1) - n.pool = s - r.pool /\ n.pool <= s - 1
          BY <1>1, <2>1, <3>1, <3>2, <3>3, <3>4
        <5> QED BY <2>2, <3>1, <3>4, <5>1
      <4>5. New(s - 1)
        BY <2>2, <3>4, <4>2, <4>3, <4>4
      <4> QED BY <4>1, <4>5
    <3>5. CASE f.due /\ ~f.anti
      <4>1. p = Steps(s) /\ s # Full /\ s + 1 \in 0 .. Full /\ Steps(s + 1) = Steps(s) + Phases /\ Steps(s + 1) <= End
        BY <1>2, <3>1, <3>2, <3>3, <3>5 DEF Up
      <4>2. z = Up(g, s + 1) /\ z \in 0 .. End
        BY <1>2, <1>3, <2>2, <2>6, <3>2, <3>5, <4>1 DEF Up, Stalled
      <4>3. n.cur \in {s + 1, s + 1 + 1}
        BY <1>1, <2>1, <3>1, <3>2, <3>3, <3>5
      <4>4. ~u
        BY <3>1, <3>5
      <4>5. New(s + 1)
        BY <2>2, <3>5, <4>2, <4>3, <4>4
      <4> QED BY <4>1, <4>5
    <3>6. CASE ~f.due
      <4>1. n = r
        BY <2>1, <3>3, <3>6
      <4>2. z = (IF f.anti THEN Down(g, s) ELSE Up(g, s)) /\ z \in 0 .. End
        BY <1>2, <1>3, <2>2, <2>6, <3>1, <3>2, <3>3, <3>6 DEF Down, Up, Stalled
      <4>3. New(s)
        BY <2>2, <3>1, <4>1, <4>2
      <4> QED BY <4>3
    <3> QED BY <3>4, <3>5, <3>6
  <2>9. Goal
    BY <2>7, <2>8
  <2> QED BY <2>3, <2>4, <2>5, <2>9 DEF RunAxis
<1> QED BY <1>5, <1>6

\* A phase of a move brings the axis on its way.
LEMMA TowardsTurns ==
  ASSUME LongEnough, NEW f \in Flags, NEW r \in Rod, NEW a \in Axis, dead = {}, HasLimits,
         NEW hm, NEW u \in BOOLEAN, phys[a] \in 0 .. End, NEW t \in Nat,
         RunAxis(f, r, phys[a], u, hm), f.running, Towards(f, r, t)
  PROVE  /\ f.due /\ r.pool = 0 => r.cur = t
         /\ ~(f.due /\ r.pool = 0) => Towards(Turned(f), Moved(f, r, a, phys[a]), t)
<1> DEFINE p == phys[a]  n == Moved(f, r, a, phys[a])  g == Turned(f)
           shut == p = IF f.anti THEN 0 ELSE End
<1>1. /\ r.pool \in Nat /\ r.cur \in Nat /\ r.range = Full + 1 /\ r.cur <= r.range
      /\ (IF f.anti THEN r.pool <= r.cur ELSE r.pool + r.cur <= r.range)
  BY DEF RunAxis, Rod
<1>2. f.rhythm \in 0 .. Phases - 1 /\ (f.due <=> f.rhythm = 0)
  BY DEF RunAxis, Flags
<1>3. Full \in Nat /\ Phases \in Nat /\ Phases > 0 /\ End \in Nat
  BY ConstantsAre, PlacesAre DEF LongEnough
<1>4. IF f.anti THEN t + r.pool = r.cur ELSE r.cur + r.pool = t
  BY DEF Towards
<1>5. f.due /\ r.pool = 0 => r.cur = t
  BY <1>1, <1>4
<1>6. ASSUME ~(f.due /\ r.pool = 0) PROVE Towards(g, n, t)
  <2>1. /\ shut => n.pool = 0 /\ n.cur = IF f.anti THEN 0 ELSE r.range
        /\ ~shut /\ f.due => n.pool = r.pool - 1 /\ n.cur = IF f.anti THEN r.cur - 1 ELSE r.cur + 1
        /\ ~shut /\ ~f.due => n = r
    BY <1>6, MovedIs
  <2>2. g.running /\ g.anti = f.anti
    BY TurnedIs
  <2>3. IF f.anti THEN t + n.pool = n.cur ELSE n.cur + n.pool = t
    <3>1. CASE ~shut
      BY <1>1, <1>4, <1>6, <2>1, <3>1
    <3>2. ASSUME shut, NEW s \in 0 .. Full, p = (IF f.anti THEN Down(f, s) ELSE Up(f, s)), r.cur \in {s, s + 1}
          PROVE  IF f.anti THEN t = 0 ELSE t = r.range
      <4>1. /\ s \in Nat /\ s <= Full /\ Steps(s) \in Nat /\ Steps(s) <= End
            /\ (Steps(s) = 0 <=> s = 0) /\ (Steps(s) = End <=> s = Full)
        BY PlacesAre
      <4>2. CASE f.anti
        BY <1>1, <1>2, <1>3, <1>4, <1>6, <3>2, <4>1, <4>2 DEF Down
      <4>3. CASE ~f.anti
        BY <1>1, <1>2, <1>3, <1>4, <1>6, <3>2, <4>1, <4>3 DEF Up
      <4> QED BY <4>2, <4>3
    <3>3. \/ \E s \in 0 .. Full : /\ p = (IF f.anti THEN Down(f, s) ELSE Up(f, s))
                                    /\ r.cur \in {s, s + 1}
          \/ f.anti /\ r.cur = 0
          \/ ~f.anti /\ r.cur = r.range
      BY DEF RunAxis
    <3>4. CASE shut
      <4>1. IF f.anti THEN t = 0 ELSE t = r.range
        BY <1>1, <1>4, <3>2, <3>3, <3>4
      <4> QED BY <1>1, <2>1, <3>4, <4>1
    <3> QED BY <3>1, <3>4
  <2> QED BY <2>2, <2>3 DEF Towards
<1> QED BY <1>5, <1>6

-----------------------------------------------------------------------------
(* An axis that is at rest when the beat's handler changes, or a move begins. *)

\* At the origin the search for the range begins.
LEMMA RangeBegins ==
  ASSUME NEW f \in Flags, NEW r \in Rod, NEW p \in 0 .. End, NEW u \in BOOLEAN, NEW hm,
         ZeroAxis(f, r, p, u, hm), ~f.running
  PROVE  RangeAxis([f EXCEPT !.running = TRUE, !.due = TRUE], r, p, u, hm)
<1> DEFINE g == [f EXCEPT !.running = TRUE, !.due = TRUE]
<1>1. g.rhythm = f.rhythm
  BY DEF Flags
<1>2. g.running = TRUE /\ g.due = TRUE
  BY DEF Flags
<1>3. /\ r.cur = 0 /\ r.range = 0 /\ p = 0 /\ f.rhythm = 0 /\ r.pool <= Full + 1
      /\ (u => r.pool > 0 /\ hm = Steps(r.pool - 1))
  BY DEF ZeroAxis
<1>4. Full \in Nat /\ Steps(0) = 0
  BY ConstantsAre, StepsAre
<1>5. g.running /\ g.due /\ g.rhythm = 0
  BY <1>1, <1>2, <1>3
<1> HIDE DEF g
<1>6. RangeAxis(g, r, p, u, hm)
  BY <1>3, <1>4, <1>5 DEF RangeAxis, Up
<1> QED BY <1>6 DEF g

\* At the tail the way back is what the pool leaves of the range.
LEMMA WayBackIs ==
  ASSUME NEW f \in Flags, NEW r \in Rod, NEW p \in 0 .. End, NEW u \in BOOLEAN, NEW hm,
         RangeAxis(f, r, p, u, hm), ~f.running
  PROVE  LET k == WayBack(r)
         IN  /\ k \in Rod /\ k.cur = Full + 1 /\ k.range = Full + 1 /\ p = End
             /\ RunAxis(f, k, p, FALSE, hm)
             /\ u => k.pool <= Full /\ hm = Steps(Full - k.pool)
<1> DEFINE k == WayBack(r)
<1>1. /\ r.cur = 0 /\ r.range = Full + 1 /\ p = End /\ f.rhythm = 0 /\ r.pool <= Full + 1
      /\ r.pool \in Nat
      /\ (u => r.pool > 0 /\ hm = Steps(r.pool - 1))
  BY DEF RangeAxis, Rod
<1>2. Full \in Nat /\ Steps(Full) = End
  BY ConstantsAre, StepsAre
<1>3. k = [pool |-> Full + 1 - r.pool, cur |-> Full + 1, range |-> Full + 1]
  <2>1. (IF r.range >= r.pool THEN r.range - r.pool ELSE 0) = Full + 1 - r.pool
    BY <1>1, <1>2
  <2>2. k = [r EXCEPT !.pool = Full + 1 - r.pool, !.cur = Full + 1]
    BY <1>1, <2>1 DEF WayBack
  <2> HIDE DEF k
  <2> QED BY <1>1, <2>2 DEF Rod
<1>4. k \in Rod
  BY <1>1, <1>2, <1>3 DEF Rod
<1>5. ~f.due
  BY DEF RangeAxis
<1>6. RunAxis(f, k, p, FALSE, hm)
  <2>1. \E s \in 0 .. Full : p = Steps(s) /\ k.cur \in {s, s + 1}
    <3>1. Full \in 0 .. Full BY <1>2
    <3> WITNESS Full \in 0 .. Full
    <3> QED BY <1>1, <1>2, <1>3
  <2>2. k.range = Full + 1 /\ k.cur <= k.range
    BY <1>2, <1>3
  <2> HIDE DEF k
  <2> QED BY <1>1, <1>5, <2>1, <2>2 DEF RunAxis
<1>7. u => k.pool <= Full /\ hm = Steps(Full - k.pool)
  <2> HAVE u
  <2>1. Full - k.pool = r.pool - 1
    BY <1>1, <1>2, <1>3
  <2> QED BY <1>1, <1>2, <1>3, <2>1
<1>8. k.cur = Full + 1 /\ k.range = Full + 1
  BY <1>3
<1> HIDE DEF k
<1>9. k \in Rod /\ k.cur = Full + 1 /\ k.range = Full + 1 /\ p = End /\ RunAxis(f, k, p, FALSE, hm)
  BY <1>1, <1>4, <1>6, <1>8
<1> QED BY <1>7, <1>9 DEF k

\* The flags and the rod of an axis that begins to turn by some steps.
Filled(by, an, r) == IF by = 0 THEN 0 ELSE Pool(by, an, r)
BegunFlags(f, by, an, pool, x) ==
    [f EXCEPT !.anti = IF by = 0 THEN @ ELSE an,
              !.running = @ \/ pool > 0, !.due = @ \/ pool > 0, !.reducing = x]

\* The pool never holds more than the way to the end of the range.
LEMMA FilledIs ==
  ASSUME NEW r \in Rod, NEW by \in Nat, NEW an \in BOOLEAN
  PROVE  /\ Filled(by, an, r) \in Nat
         /\ HasLimits /\ an => Filled(by, an, r) = IF by > r.cur THEN r.cur ELSE by
         /\ HasLimits /\ ~an => Filled(by, an, r) = IF by = 0 THEN 0
                                 ELSE IF by + r.cur > r.range THEN (r.range - r.cur) % Width ELSE by
<1>1. r.cur \in Nat /\ r.range \in Nat /\ Width \in Nat /\ Width > 0
  BY ConstantsAre DEF Rod
<1>2. (r.range - r.cur) % Width \in Nat
  BY <1>1
<1>3. CASE ~HasLimits
  <2>1. Pool(by, an, r) = by BY <1>3, Zenon DEF Pool
  <2> QED BY <1>3, <2>1 DEF Filled
<1>4. CASE HasLimits /\ an
  <2>1. Pool(by, an, r) = IF by > r.cur THEN r.cur ELSE by BY <1>4, Zenon DEF Pool
  <2>2. Filled(by, an, r) = IF by = 0 THEN 0 ELSE Pool(by, an, r) BY DEF Filled
  <2>3. Filled(by, an, r) = (IF by > r.cur THEN r.cur ELSE by) /\ Filled(by, an, r) \in Nat
    BY <1>1, <2>1, <2>2
  <2> QED BY <1>4, <2>3
<1>5. CASE HasLimits /\ ~an
  <2>1. Pool(by, an, r) = IF by + r.cur > r.range THEN (r.range - r.cur) % Width ELSE by BY <1>5, Zenon DEF Pool
  <2> QED BY <1>1, <1>2, <1>5, <2>1 DEF Filled
<1> QED BY <1>3, <1>4, <1>5

\* The flags of an axis that begins to turn.
LEMMA BegunFlagsAre ==
  ASSUME NEW f \in Flags, NEW by \in Nat, NEW an \in BOOLEAN, NEW pool \in Nat, NEW x \in BOOLEAN
  PROVE  LET g == BegunFlags(f, by, an, pool, x)
         IN  /\ g \in Flags /\ g.rhythm = f.rhythm
             /\ g.anti = (IF by = 0 THEN f.anti ELSE an)
             /\ g.running = (f.running \/ pool > 0)
             /\ g.due = (f.due \/ pool > 0)
             /\ g.reducing = x
<1> DEFINE g == BegunFlags(f, by, an, pool, x)
<1> DEFINE A == IF by = 0 THEN f.anti ELSE an
           R == f.running \/ pool > 0
           D == f.due \/ pool > 0
<1>1. A \in BOOLEAN /\ R \in BOOLEAN /\ D \in BOOLEAN
  BY DEF Flags
<1>2. g = [f EXCEPT !.anti = A, !.running = R, !.due = D, !.reducing = x]
  BY DEF BegunFlags, Flags
<1> HIDE DEF A, R, D, g
<1>3. g \in Flags
  BY <1>1, <1>2 DEF Flags
<1>4. g.rhythm = f.rhythm
  BY <1>2 DEF Flags
<1>5. g.anti = A /\ g.running = R /\ g.due = D /\ g.reducing = x
  BY <1>2, Zenon DEF Flags
<1> QED BY <1>3, <1>4, <1>5 DEF A, R, D, g

\* A move begins: from rest, or, if nobody has touched it, from the end where it found the range.
LEMMA MoveBegins ==
  ASSUME LongEnough, HasLimits, NEW f \in Flags, NEW r \in Rod, NEW p \in 0 .. End, NEW u \in BOOLEAN, NEW hm,
         RunAxis(f, r, p, FALSE, hm), ~f.running, NEW by \in Nat, NEW an \in BOOLEAN, NEW x \in BOOLEAN,
         u => an /\ p = End /\ r.cur = Full + 1 /\ by <= Full /\ hm = Steps(Full - by)
  PROVE  LET n == Filled(by, an, r)
         IN  RunAxis(BegunFlags(f, by, an, n, x), [r EXCEPT !.pool = n], p, u, hm)
<1> DEFINE n == Filled(by, an, r)  g == BegunFlags(f, by, an, n, x)  k == [r EXCEPT !.pool = n]
<1>1. r.cur \in Nat /\ r.range = Full + 1 /\ r.cur <= r.range /\ f.rhythm = 0
  BY DEF RunAxis, Rod
<1>a. \E s \in 0 .. Full : p = Steps(s) /\ r.cur \in {s, s + 1}
  BY DEF RunAxis
<1>0. ~f.due
  BY DEF RunAxis
<1>b. Steps(Full) = End
  BY StepsAre
<1>2. /\ Full \in Nat /\ Width \in Nat /\ Full + 1 < Width
  BY ConstantsAre DEF LongEnough
<1>3. /\ n \in Nat
      /\ an => n = IF by > r.cur THEN r.cur ELSE by
      /\ ~an => n = IF by = 0 THEN 0 ELSE IF by + r.cur > r.range THEN (r.range - r.cur) % Width ELSE by
  BY FilledIs
<1>4. ~an => n + r.cur <= r.range
  <2> SUFFICES ASSUME ~an PROVE n + r.cur <= r.range
    OBVIOUS
  <2>2. n = IF by = 0 THEN 0 ELSE IF by + r.cur > r.range THEN (r.range - r.cur) % Width ELSE by
    BY <1>3
  <2> HIDE DEF n
  <2>1. (r.range - r.cur) % Width = r.range - r.cur
    BY <1>1, <1>2
  <2> QED BY <1>1, <1>2, <2>1, <2>2
<1>5. an => n <= r.cur
  <2> SUFFICES ASSUME an PROVE n <= r.cur
    OBVIOUS
  <2>2. n = IF by > r.cur THEN r.cur ELSE by
    BY <1>3
  <2> HIDE DEF n
  <2> QED BY <1>1, <2>2
<1>c. n \in Nat
  BY <1>3
<1> HIDE DEF n
<1>6. g.rhythm = 0 /\ g.anti = (IF by = 0 THEN f.anti ELSE an)
  <2>1. g.rhythm = f.rhythm
    BY <1>c, BegunFlagsAre
  <2>2. g.anti = (IF by = 0 THEN f.anti ELSE an)
    BY <1>c, BegunFlagsAre
  <2> QED BY <1>1, <2>1, <2>2
<1>7. (g.running <=> n > 0) /\ (g.due <=> n > 0)
  BY <1>0, <1>3, BegunFlagsAre
<1>8. k.pool = n /\ k.cur = r.cur /\ k.range = r.range
  BY DEF Rod
<1>9. n > 0 => by # 0
  BY DEF n, Filled
<1> HIDE DEF g, k
<1>10. PICK s \in 0 .. Full : p = Steps(s) /\ r.cur \in {s, s + 1}
  BY <1>a
<1>11. CASE n > 0
  <2>1. g.anti = an /\ g.running /\ g.due
    BY <1>6, <1>7, <1>9, <1>11
  <2>2. IF g.anti THEN k.pool <= k.cur ELSE k.pool + k.cur <= k.range
    BY <1>4, <1>5, <1>8, <2>1
  <2>3. p \in 0 .. End /\ p = IF g.anti THEN Down(g, s) ELSE Up(g, s)
    BY <1>6, <1>10 DEF Down, Up
  <2>4. u => g.anti /\ k.pool <= s /\ hm = Steps(s - k.pool)
    <3> HAVE u
    <3>1. s = Full
      BY <1>10, <1>b, PlacesAre
    <3>2. n = by
      BY <1>2, <1>3
    <3> QED BY <1>8, <2>1, <3>1, <3>2
  <2>5. \E t \in 0 .. Full : /\ p = IF g.anti THEN Down(g, t) ELSE Up(g, t)
                             /\ p \in 0 .. End
                             /\ k.cur \in {t, t + 1}
                             /\ u => g.anti /\ k.pool <= t /\ hm = Steps(t - k.pool)
    BY <1>8, <1>10, <2>3, <2>4
  <2>6. k.range = Full + 1 /\ k.cur <= k.range
    BY <1>1, <1>8
  <2>7. RunAxis(g, k, p, u, hm)
    BY <1>6, <2>1, <2>2, <2>5, <2>6 DEF RunAxis
  <2> QED BY <2>7 DEF g, k, n
<1>12. CASE ~(n > 0)
  <2>1. ~g.running /\ ~g.due
    BY <1>7, <1>12
  <2>2. u => p = hm
    <3> HAVE u
    <3>1. n = by
      BY <1>2, <1>3
    <3>2. by = 0
      BY <1>3, <1>12, <3>1
    <3>3. Full - by = Full
      BY <1>2, <3>2
    <3> QED BY <1>2, <1>b, <3>3
  <2>3. \E t \in 0 .. Full : p = Steps(t) /\ k.cur \in {t, t + 1}
    BY <1>8, <1>10
  <2>4. k.range = Full + 1 /\ k.cur <= k.range
    BY <1>1, <1>8
  <2>5. RunAxis(g, k, p, u, hm)
    BY <1>6, <2>1, <2>2, <2>3, <2>4 DEF RunAxis
  <2> QED BY <2>5 DEF g, k, n
<1> QED BY <1>11, <1>12

\* A move towards a coordinate of the range, as WayTo makes it.
LEMMA MoveAims ==
  ASSUME LongEnough, HasLimits, NEW f \in Flags, NEW r \in Rod, NEW x \in BOOLEAN, NEW t \in Nat,
         ~f.running, r.range = Full + 1, r.cur <= r.range, t <= r.range
  PROVE  LET an == ~(t >= r.cur)
             by == IF t >= r.cur THEN t - r.cur ELSE r.cur - t
             n  == Filled(by, an, r)
         IN  Towards(BegunFlags(f, by, an, n, x), [r EXCEPT !.pool = n], t)
<1> DEFINE an == ~(t >= r.cur)
           by == IF t >= r.cur THEN t - r.cur ELSE r.cur - t
           n  == Filled(by, an, r)  g == BegunFlags(f, by, an, n, x)  k == [r EXCEPT !.pool = n]
<1>1. r.cur \in Nat /\ Full \in Nat /\ an \in BOOLEAN /\ by \in Nat
  BY ConstantsAre DEF Rod
<1>2. an <=> t < r.cur
  BY <1>1
<1>3. (an => by = r.cur - t) /\ (~an => by = t - r.cur)
  BY <1>1, <1>2
<1> HIDE DEF an, by
<1>4. /\ n \in Nat
      /\ an => n = IF by > r.cur THEN r.cur ELSE by
      /\ ~an => n = IF by = 0 THEN 0 ELSE IF by + r.cur > r.range THEN (r.range - r.cur) % Width ELSE by
  BY <1>1, FilledIs
<1>5. n = by
  BY <1>1, <1>2, <1>3, <1>4
<1> HIDE DEF n
<1>6. g.anti = (IF by = 0 THEN f.anti ELSE an) /\ g.running = (f.running \/ n > 0)
  BY <1>1, <1>4, BegunFlagsAre
<1>7. k.pool = n /\ k.cur = r.cur
  BY DEF Rod
<1> HIDE DEF g, k
<1>8. g.running <=> n > 0
  BY <1>6
<1>9. CASE n > 0
  <2>1. g.anti = an /\ g.running
    BY <1>5, <1>6, <1>8, <1>9
  <2>2. IF an THEN t + k.pool = k.cur ELSE k.cur + k.pool = t
    BY <1>1, <1>3, <1>5, <1>7
  <2>3. Towards(g, k, t)
    BY <2>1, <2>2 DEF Towards
  <2> QED BY <2>3 DEF g, k, n, by, an
<1>10. CASE ~(n > 0)
  <2>1. ~g.running
    BY <1>8, <1>10
  <2>2. k.cur = t
    BY <1>1, <1>2, <1>3, <1>4, <1>5, <1>7, <1>10
  <2>3. Towards(g, k, t)
    BY <2>1, <2>2 DEF Towards
  <2> QED BY <2>3 DEF g, k, n, by, an
<1> QED BY <1>9, <1>10

-----------------------------------------------------------------------------
(* A turn changes the flags and the rod of its axis, and the count.        *)

\* The machine n whose axis a has flags f and rod r, and whose count is c.
Put(n, a, f, r, c) ==
    [sta |-> [b \in Axis |-> IF b = a THEN f ELSE n.sta[b]],
     rod |-> [b \in Axis |-> IF b = a THEN r ELSE n.rod[b]],
     loitor |-> n.loitor, ratio |-> n.ratio, count |-> c, beat |-> n.beat, on |-> n.on]

\* A machine with one axis put.
LEMMA PutIsMachine ==
  ASSUME NEW n \in Machine, NEW a \in Axis, NEW f \in Flags, NEW r \in Rod, NEW c \in Nat
  PROVE  /\ Put(n, a, f, r, c) \in Machine
         /\ Put(n, a, f, r, c).sta[a] = f /\ Put(n, a, f, r, c).rod[a] = r
         /\ \A b \in Axis \ {a} : /\ Put(n, a, f, r, c).sta[b] = n.sta[b]
                                  /\ Put(n, a, f, r, c).rod[b] = n.rod[b]
         /\ Put(n, a, f, r, c).loitor = n.loitor /\ Put(n, a, f, r, c).ratio = n.ratio
         /\ Put(n, a, f, r, c).count = c
         /\ Put(n, a, f, r, c).beat = n.beat /\ Put(n, a, f, r, c).on = n.on
  BY DEF Put, Machine

\* A rod that was moved is a rod.
LEMMA MovedTyped ==
  ASSUME NEW f \in Flags, NEW r \in Rod, NEW a \in Axis, NEW p, f.due => r.pool # 0
  PROVE  Moved(f, r, a, p) \in Rod
<1> DEFINE q == Stepped(r, f.anti, f.due)  c == (IF f.anti THEN r.cur - 1 ELSE r.cur + 1) % Width
<1>1. r.pool \in Nat /\ r.cur \in Nat /\ r.range \in Nat /\ Width \in Nat /\ Width > 0
  BY ConstantsAre DEF Rod
<1>2. c \in Nat
  <2>1. (IF f.anti THEN r.cur - 1 ELSE r.cur + 1) \in Int
    BY <1>1
  <2> QED BY <1>1, <2>1
<1>3. CASE f.due
  <2>1. q = [r EXCEPT !.pool = r.pool - 1, !.cur = c]
    BY <1>3 DEF Stepped
  <2>2. r.pool - 1 \in Nat
    BY <1>1, <1>3
  <2> HIDE DEF c, q
  <2>3. q \in Rod
    BY <1>2, <2>1, <2>2 DEF Rod
  <2> QED BY <1>1, <2>3 DEF Moved, Limited, Rod, q
<1>4. CASE ~f.due
  <2>1. q = r
    BY <1>4 DEF Stepped
  <2> QED BY <1>1, <2>1 DEF Moved, Limited, Rod
<1> QED BY <1>3, <1>4

\* What one turn does to the axis it is about.
Rested(f, r, t, a)   == t.n.sta[a] = f /\ t.n.rod[a] = r /\ t.move = 0 /\ ~t.ended
EndedRun(f) == [Ended(f) EXCEPT !.initing = FALSE]
Kept(n, k, a) ==
    /\ k \in Machine /\ k.beat = n.beat /\ k.on = n.on
    /\ \A b \in Axis \ {a} : k.sta[b] = n.sta[b] /\ k.rod[b] = n.rod[b]

\* Putting an axis keeps the other one, the handler and the timer.
LEMMA PutKeeps ==
  ASSUME NEW n \in Machine, NEW a \in Axis, NEW f \in Flags, NEW r \in Rod, NEW c \in Nat
  PROVE  /\ Kept(n, Put(n, a, f, r, c), a)
         /\ Put(n, a, f, r, c).sta[a] = f /\ Put(n, a, f, r, c).rod[a] = r
<1> DEFINE k == Put(n, a, f, r, c)
<1>1. k \in Machine /\ k.beat = n.beat /\ k.on = n.on /\ k.sta[a] = f /\ k.rod[a] = r
      /\ \A b \in Axis \ {a} : k.sta[b] = n.sta[b] /\ k.rod[b] = n.rod[b]
  BY PutIsMachine
<1> HIDE DEF k
<1>2. Kept(n, k, a)
  BY <1>1 DEF Kept
<1> QED BY <1>1, <1>2 DEF k

\* Turns puts an axis.
LEMMA TurnsPut ==
  ASSUME NEW n \in Machine, NEW a \in Axis, NEW anti
  PROVE  /\ Turns(n, a, anti).n = Put(n, a, Turned(n.sta[a]), n.rod[a], n.count)
         /\ Turns(n, a, anti).move = (IF anti THEN -1 ELSE 1) /\ ~Turns(n, a, anti).ended
<1>1. Turns(n, a, anti).n = [n EXCEPT !.sta[a].rhythm = (@ + 1) % Phases,
                                      !.sta[a].due = (n.sta[a].rhythm = Phases - 1)]
  BY DEF Turns
<1>2. [n EXCEPT !.sta[a].rhythm = (@ + 1) % Phases, !.sta[a].due = (n.sta[a].rhythm = Phases - 1)]
      = Put(n, a, Turned(n.sta[a]), n.rod[a], n.count)
  <2>1. \A x \in 0 .. Phases - 1, y \in BOOLEAN : [n EXCEPT !.sta[a].rhythm = x, !.sta[a].due = y]
                  = Put(n, a, [n.sta[a] EXCEPT !.rhythm = x, !.due = y], n.rod[a], n.count)
    <3> SUFFICES ASSUME NEW x \in 0 .. Phases - 1, NEW y \in BOOLEAN
                 PROVE [n EXCEPT !.sta[a].rhythm = x, !.sta[a].due = y]
                       = Put(n, a, [n.sta[a] EXCEPT !.rhythm = x, !.due = y], n.rod[a], n.count)
      OBVIOUS
    <3> DEFINE f1 == [n.sta[a] EXCEPT !.rhythm = x]  k == Put(n, a, f1, n.rod[a], n.count)
    <3>1. [n EXCEPT !.sta[a].rhythm = x] = k
      BY DEF Put, Machine
    <3>4. n.sta[a] \in Flags /\ n.rod[a] \in Rod /\ n.count \in Nat
      BY DEF Machine
    <3>5. f1 \in Flags
      BY <3>4 DEF Flags
    <3>6. k \in Machine /\ k.sta[a] = f1
      BY <3>4, <3>5, PutIsMachine
    <3> HIDE DEF k
    <3>7. [k EXCEPT !.sta[a].due = y] = Put(k, a, [k.sta[a] EXCEPT !.due = y], k.rod[a], k.count)
      BY <3>6 DEF Put, Machine
    <3>8. Put(k, a, [k.sta[a] EXCEPT !.due = y], k.rod[a], k.count)
          = Put(n, a, [f1 EXCEPT !.due = y], n.rod[a], n.count)
      BY <3>6 DEF Put, k
    <3>3. [n EXCEPT !.sta[a].rhythm = x, !.sta[a].due = y] = [[n EXCEPT !.sta[a].rhythm = x] EXCEPT !.sta[a].due = y]
      BY Zenon
    <3>9. [n.sta[a] EXCEPT !.rhythm = x, !.due = y] = [f1 EXCEPT !.due = y]
      BY Zenon DEF f1
    <3> QED BY <3>1, <3>3, <3>7, <3>8, <3>9, Zenon
  <2> DEFINE X == (n.sta[a].rhythm + 1) % Phases
             Y == n.sta[a].rhythm = Phases - 1
  <2>3. [n EXCEPT !.sta[a].rhythm = (@ + 1) % Phases, !.sta[a].due = (n.sta[a].rhythm = Phases - 1)]
        = [n EXCEPT !.sta[a].rhythm = X, !.sta[a].due = Y]
    BY Zenon DEF Machine
  <2>4. Turned(n.sta[a]) = [n.sta[a] EXCEPT !.rhythm = X, !.due = Y]
    BY Zenon DEF Turned
  <2>6. X \in 0 .. Phases - 1 /\ Y \in BOOLEAN
    BY ConstantsAre DEF Machine, Flags
  <2> HIDE DEF X, Y
  <2>5. [n EXCEPT !.sta[a].rhythm = X, !.sta[a].due = Y] = Put(n, a, [n.sta[a] EXCEPT !.rhythm = X, !.due = Y], n.rod[a], n.count)
    BY <2>1, <2>6
  <2> QED BY <2>3, <2>4, <2>5, Zenon
<1> QED BY <1>1, <1>2 DEF Turns

\* Ends puts an axis.
LEMMA EndsPut ==
  ASSUME NEW n \in Machine, NEW a \in Axis
  PROVE  /\ Ends(n, a).n = Put(n, a, [n.sta[a] EXCEPT !.running = FALSE], n.rod[a], n.count)
         /\ Ends(n, a).move = 0 /\ Ends(n, a).ended
  BY DEF Ends, Put, Machine

\* Of two puts the second stays.
LEMMA PutPut ==
  ASSUME NEW n \in Machine, NEW a \in Axis, NEW f, NEW r, NEW c, NEW g, NEW q, NEW d
  PROVE  Put(Put(n, a, f, r, c), a, g, q, d) = Put(n, a, g, q, d)
  BY DEF Put

\* The writes of the handlers before a turn ends, or turns the motor.
LEMMA WritesPut ==
  ASSUME NEW n \in Machine, NEW a \in Axis
  PROVE  LET f == n.sta[a]  r == n.rod[a]
         IN  /\ [n EXCEPT !.sta[a].due = FALSE, !.rod[a].pool = @ + 1]
                = Put(n, a, [f EXCEPT !.due = FALSE], [r EXCEPT !.pool = @ + 1], n.count)
             /\ [n EXCEPT !.sta[a].due = FALSE, !.rod[a].range = @ + 1]
                = Put(n, a, [f EXCEPT !.due = FALSE], [r EXCEPT !.range = @ + 1], n.count)
             /\ [n EXCEPT !.sta[a].initing = FALSE, !.sta[a].due = FALSE]
                = Put(n, a, [[f EXCEPT !.initing = FALSE] EXCEPT !.due = FALSE], r, n.count)
             /\ n = Put(n, a, f, r, n.count)
<1> DEFINE f == n.sta[a]  r == n.rod[a]
<1>0. f \in Flags /\ r \in Rod /\ n.count \in Nat
  BY DEF Machine
<1>1. ASSUME NEW x \in BOOLEAN, NEW q
      PROVE  /\ [n EXCEPT !.sta[a].due = x, !.rod[a].pool = q]
                = Put(n, a, [f EXCEPT !.due = x], [r EXCEPT !.pool = q], n.count)
             /\ [n EXCEPT !.sta[a].due = x, !.rod[a].range = q]
                = Put(n, a, [f EXCEPT !.due = x], [r EXCEPT !.range = q], n.count)
  <2> DEFINE f1 == [f EXCEPT !.due = x]  k == Put(n, a, f1, r, n.count)
  <2>a. [n EXCEPT !.sta[a].due = x] = k
    BY DEF Put, Machine
  <2>b. f1 \in Flags
    BY <1>0 DEF Flags
  <2>c. k \in Machine /\ k.sta[a] = f1 /\ k.rod[a] = r /\ k.count = n.count
    BY <1>0, <2>b, PutIsMachine
  <2> HIDE DEF k
  <2>1. [n EXCEPT !.sta[a].due = x, !.rod[a].pool = q]
        = Put(n, a, [f EXCEPT !.due = x], [r EXCEPT !.pool = q], n.count)
    <3>1. [k EXCEPT !.rod[a].pool = q] = Put(k, a, k.sta[a], [k.rod[a] EXCEPT !.pool = q], k.count)
      BY <2>c DEF Put, Machine
    <3>2. Put(k, a, k.sta[a], [k.rod[a] EXCEPT !.pool = q], k.count)
          = Put(n, a, f1, [r EXCEPT !.pool = q], n.count)
      BY <2>c DEF Put, k
    <3>3. [n EXCEPT !.sta[a].due = x, !.rod[a].pool = q] = [[n EXCEPT !.sta[a].due = x] EXCEPT !.rod[a].pool = q]
      BY Zenon
    <3> QED BY <2>a, <3>1, <3>2, <3>3, Zenon
  <2>2. [n EXCEPT !.sta[a].due = x, !.rod[a].range = q]
        = Put(n, a, [f EXCEPT !.due = x], [r EXCEPT !.range = q], n.count)
    <3>1. [k EXCEPT !.rod[a].range = q] = Put(k, a, k.sta[a], [k.rod[a] EXCEPT !.range = q], k.count)
      BY <2>c DEF Put, Machine
    <3>2. Put(k, a, k.sta[a], [k.rod[a] EXCEPT !.range = q], k.count)
          = Put(n, a, f1, [r EXCEPT !.range = q], n.count)
      BY <2>c DEF Put, k
    <3>3. [n EXCEPT !.sta[a].due = x, !.rod[a].range = q] = [[n EXCEPT !.sta[a].due = x] EXCEPT !.rod[a].range = q]
      BY Zenon
    <3> QED BY <2>a, <3>1, <3>2, <3>3, Zenon
  <2> QED BY <2>1, <2>2
<1>2. [n EXCEPT !.sta[a].due = FALSE, !.rod[a].pool = @ + 1]
      = Put(n, a, [f EXCEPT !.due = FALSE], [r EXCEPT !.pool = @ + 1], n.count)
  <2>1. [n EXCEPT !.sta[a].due = FALSE, !.rod[a].pool = n.rod[a].pool + 1]
        = Put(n, a, [f EXCEPT !.due = FALSE], [r EXCEPT !.pool = n.rod[a].pool + 1], n.count)
    BY <1>1, Zenon
  <2>2. [n EXCEPT !.sta[a].due = FALSE, !.rod[a].pool = @ + 1]
        = [n EXCEPT !.sta[a].due = FALSE, !.rod[a].pool = n.rod[a].pool + 1]
    BY DEF Machine
  <2> QED BY <2>1, <2>2, Zenon
<1>3. [n EXCEPT !.sta[a].due = FALSE, !.rod[a].range = @ + 1]
      = Put(n, a, [f EXCEPT !.due = FALSE], [r EXCEPT !.range = @ + 1], n.count)
  <2>1. [n EXCEPT !.sta[a].due = FALSE, !.rod[a].range = n.rod[a].range + 1]
        = Put(n, a, [f EXCEPT !.due = FALSE], [r EXCEPT !.range = n.rod[a].range + 1], n.count)
    BY <1>1, Zenon
  <2>2. [n EXCEPT !.sta[a].due = FALSE, !.rod[a].range = @ + 1]
        = [n EXCEPT !.sta[a].due = FALSE, !.rod[a].range = n.rod[a].range + 1]
    BY DEF Machine
  <2> QED BY <2>1, <2>2, Zenon
<1>4. [n EXCEPT !.sta[a].initing = FALSE, !.sta[a].due = FALSE]
      = Put(n, a, [[f EXCEPT !.initing = FALSE] EXCEPT !.due = FALSE], r, n.count)
  <2>0. ASSUME NEW x \in BOOLEAN
        PROVE  [n EXCEPT !.sta[a].initing = x, !.sta[a].due = x] = Put(n, a, [[f EXCEPT !.initing = x] EXCEPT !.due = x], r, n.count)
    <3> DEFINE f1 == [f EXCEPT !.initing = x]  k == Put(n, a, f1, r, n.count)
    <3>1. [n EXCEPT !.sta[a].initing = x] = k
      BY DEF Put, Machine
    <3>2. f1 \in Flags
      BY <1>0 DEF Flags
    <3>3. k \in Machine /\ k.sta[a] = f1
      BY <1>0, <3>2, PutIsMachine
    <3> HIDE DEF k
    <3>4. [k EXCEPT !.sta[a].due = x] = Put(k, a, [k.sta[a] EXCEPT !.due = x], k.rod[a], k.count)
      BY <3>3 DEF Put, Machine
    <3>5. Put(k, a, [k.sta[a] EXCEPT !.due = x], k.rod[a], k.count)
          = Put(n, a, [f1 EXCEPT !.due = x], r, n.count)
      BY <3>3 DEF Put, k
    <3>6. [n EXCEPT !.sta[a].initing = x, !.sta[a].due = x]
          = [[n EXCEPT !.sta[a].initing = x] EXCEPT !.sta[a].due = x]
      BY Zenon
    <3> QED BY <3>1, <3>4, <3>5, <3>6, Zenon
  <2> QED BY <2>0, Zenon
<1>7. n = Put(n, a, f, r, n.count)
  BY DEF Put, Machine
<1> QED BY <1>2, <1>3, <1>4, <1>7

\* A count that is written is a put.
LEMMA CountPut ==
  ASSUME NEW n \in Machine, NEW a \in Axis, NEW c \in Nat
  PROVE  [n EXCEPT !.count = c] = Put(n, a, n.sta[a], n.rod[a], c)
  BY DEF Put, Machine

\* A rod that is written is a put.
LEMMA RodPut ==
  ASSUME NEW n \in Machine, NEW a \in Axis, NEW q \in Rod
  PROVE  [n EXCEPT !.rod[a] = q] = Put(n, a, n.sta[a], q, n.count)
  BY DEF Put, Machine

\* Flags that end are flags.
LEMMA FlagsWritten ==
  ASSUME NEW f \in Flags
  PROVE  /\ [f EXCEPT !.due = FALSE] \in Flags
         /\ [[f EXCEPT !.due = FALSE] EXCEPT !.running = FALSE] = Ended(f)
         /\ Turned([f EXCEPT !.due = FALSE]) = Turned(f)
         /\ [[f EXCEPT !.initing = FALSE] EXCEPT !.due = FALSE] \in Flags
         /\ [[[f EXCEPT !.initing = FALSE] EXCEPT !.due = FALSE] EXCEPT !.running = FALSE] = EndedRun(f)
         /\ EndedRun(f) \in Flags /\ EndedRun(f).running = FALSE
<1>1. [f EXCEPT !.due = FALSE] \in Flags /\ [[f EXCEPT !.initing = FALSE] EXCEPT !.due = FALSE] \in Flags
  BY DEF Flags
<1>2. [[f EXCEPT !.due = FALSE] EXCEPT !.running = FALSE] = Ended(f)
  BY DEF Flags, Ended
<1>3. Turned([f EXCEPT !.due = FALSE]) = Turned(f)
  <2>1. [f EXCEPT !.due = FALSE].rhythm = f.rhythm
    BY DEF Flags
  <2>2. \A x, y : [[f EXCEPT !.due = FALSE] EXCEPT !.rhythm = x, !.due = y] = [f EXCEPT !.rhythm = x, !.due = y]
    BY DEF Flags
  <2>3. [[f EXCEPT !.due = FALSE] EXCEPT !.rhythm = (@ + 1) % Phases, !.due = ([f EXCEPT !.due = FALSE].rhythm = Phases - 1)]
        = [[f EXCEPT !.due = FALSE] EXCEPT !.rhythm = ([f EXCEPT !.due = FALSE].rhythm + 1) % Phases, !.due = ([f EXCEPT !.due = FALSE].rhythm = Phases - 1)]
    BY Zenon
  <2>4. [f EXCEPT !.rhythm = (@ + 1) % Phases, !.due = (f.rhythm = Phases - 1)]
        = [f EXCEPT !.rhythm = (f.rhythm + 1) % Phases, !.due = (f.rhythm = Phases - 1)]
    BY Zenon
  <2> QED BY <2>1, <2>2, <2>3, <2>4, Zenon DEF Turned
<1>4. [[[f EXCEPT !.initing = FALSE] EXCEPT !.due = FALSE] EXCEPT !.running = FALSE] = EndedRun(f)
  BY DEF Flags, Ended, EndedRun
<1>5. EndedRun(f) \in Flags
  BY DEF Flags, Ended, EndedRun
<1>6. EndedRun(f).running = FALSE
  BY DEF Flags, Ended, EndedRun
<1> QED BY <1>1, <1>2, <1>3, <1>4, <1>5, <1>6

\* A turn gives axis a the flags g and the rod q, moves its motor by d, and ends it or not.
Gives(n, t, a, g, q, d, ended) ==
    Kept(n, t.n, a) /\ t.n.sta[a] = g /\ t.n.rod[a] = q /\ t.move = d /\ t.ended = ended

\* A turn that rests.
LEMMA RestsGive ==
  ASSUME NEW n \in Machine, NEW a \in Axis, NEW c \in Nat
  PROVE  /\ Gives(n, Rests(n), a, n.sta[a], n.rod[a], 0, FALSE)
         /\ Gives(n, Rests([n EXCEPT !.count = c]), a, n.sta[a], n.rod[a], 0, FALSE)
<1>0. n.sta[a] \in Flags /\ n.rod[a] \in Rod /\ n.count \in Nat
  BY DEF Machine
<1>1. n = Put(n, a, n.sta[a], n.rod[a], n.count)
  BY WritesPut
<1>2. [n EXCEPT !.count = c] = Put(n, a, n.sta[a], n.rod[a], c)
  BY CountPut
<1>3. \A e \in Nat : Gives(n, Rests(Put(n, a, n.sta[a], n.rod[a], e)), a, n.sta[a], n.rod[a], 0, FALSE)
  BY <1>0, PutKeeps DEF Gives, Rests
<1>4. Gives(n, Rests(n), a, n.sta[a], n.rod[a], 0, FALSE)
  BY <1>0, <1>1, <1>3
<1> QED BY <1>2, <1>3, <1>4

\* A turn that puts out a phase.
LEMMA TurnsGive ==
  ASSUME NEW n \in Machine, NEW a \in Axis, NEW f \in Flags, NEW r \in Rod, NEW c \in Nat, NEW anti \in BOOLEAN
  PROVE  Gives(n, Turns(Put(n, a, f, r, c), a, anti), a, Turned(f), r, IF anti THEN -1 ELSE 1, FALSE)
<1> DEFINE k == Put(n, a, f, r, c)  t == Turns(k, a, anti)
<1>1. k \in Machine /\ k.sta[a] = f /\ k.rod[a] = r /\ k.count = c
  BY PutIsMachine
<1>2. t.n = Put(k, a, Turned(f), r, c) /\ t.move = (IF anti THEN -1 ELSE 1) /\ ~t.ended
  BY <1>1, TurnsPut
<1>3. t.n = Put(n, a, Turned(f), r, c)
  BY <1>2, PutPut
<1>4. t.ended = FALSE
  BY DEF Turns
<1>5. Turned(f) \in Flags
  BY TurnedIs
<1>6. Kept(n, t.n, a) /\ t.n.sta[a] = Turned(f) /\ t.n.rod[a] = r
  BY <1>3, <1>5, PutKeeps
<1> HIDE DEF t
<1>7. Gives(n, t, a, Turned(f), r, IF anti THEN -1 ELSE 1, FALSE)
  BY <1>2, <1>4, <1>6 DEF Gives
<1> QED BY <1>7 DEF t

\* A turn that ends its axis.
LEMMA EndsGive ==
  ASSUME NEW n \in Machine, NEW a \in Axis, NEW f \in Flags, NEW r \in Rod, NEW c \in Nat
  PROVE  Gives(n, Ends(Put(n, a, f, r, c), a), a, [f EXCEPT !.running = FALSE], r, 0, TRUE)
<1> DEFINE k == Put(n, a, f, r, c)  t == Ends(k, a)  g == [f EXCEPT !.running = FALSE]
<1>1. k \in Machine /\ k.sta[a] = f /\ k.rod[a] = r /\ k.count = c
  BY PutIsMachine
<1>2. t.n = Put(k, a, g, r, c) /\ t.move = 0
  BY <1>1, EndsPut
<1>3. t.n = Put(n, a, g, r, c)
  BY <1>2, PutPut
<1>4. t.ended = TRUE
  BY DEF Ends
<1>5. g \in Flags
  BY DEF Flags
<1>6. Kept(n, t.n, a) /\ t.n.sta[a] = g /\ t.n.rod[a] = r
  BY <1>3, <1>5, PutKeeps
<1> HIDE DEF t, g
<1>7. Gives(n, t, a, g, r, 0, TRUE)
  BY <1>2, <1>4, <1>6 DEF Gives
<1> QED BY <1>7 DEF t, g

\* The three outcomes of a turn of FindZeroPoint.
LEMMA ZeroTurnGives ==
  ASSUME NEW n \in Machine, NEW a \in Axis
  PROVE  LET f == n.sta[a]  r == n.rod[a]  t == ZeroTurn(n, a)  q == [r EXCEPT !.pool = @ + 1]
             ends == Closed(a, "origin") \/ GivesUp(r.pool + 1)
         IN  /\ ~f.running => Gives(n, t, a, f, r, 0, FALSE)
             /\ f.running /\ ~f.due => Gives(n, t, a, Turned(f), r, -1, FALSE)
             /\ f.running /\ f.due /\ ends => Gives(n, t, a, Ended(f), q, 0, TRUE)
             /\ f.running /\ f.due /\ ~ends => Gives(n, t, a, Turned(f), q, -1, FALSE)
<1> DEFINE f == n.sta[a]  r == n.rod[a]  t == ZeroTurn(n, a)  q == [r EXCEPT !.pool = @ + 1]
           ends == Closed(a, "origin") \/ GivesUp(r.pool + 1)
           f0 == [f EXCEPT !.due = FALSE]
           k == [n EXCEPT !.sta[a].due = FALSE, !.rod[a].pool = @ + 1]
<1>0. f \in Flags /\ r \in Rod /\ n.count \in Nat
  BY DEF Machine
<1>1. k = Put(n, a, f0, q, n.count)
  BY WritesPut, Zenon
<1>2. f0 \in Flags /\ q \in Rod /\ q.pool = r.pool + 1
  <2>1. f0 \in Flags
    BY <1>0, FlagsWritten, Zenon
  <2>2. q \in Rod /\ q.pool = r.pool + 1
    BY <1>0 DEF Rod
  <2> QED BY <2>1, <2>2
<1>3. k.rod[a].pool = r.pool + 1
  <2> HIDE DEF f0, q, k, r
  <2>1. k.rod[a] = q
    BY <1>0, <1>1, <1>2, PutKeeps
  <2> QED BY <1>2, <2>1
<1>4. n = Put(n, a, f, r, n.count)
  BY WritesPut, Zenon
<1>5. [f0 EXCEPT !.running = FALSE] = Ended(f) /\ Turned(f0) = Turned(f)
  BY <1>0, FlagsWritten
<1>6. /\ ~f.running => t = Rests(n)
      /\ f.running /\ ~f.due => t = Turns(n, a, TRUE)
      /\ f.running /\ f.due /\ (Closed(a, "origin") \/ GivesUp(k.rod[a].pool)) => t = Ends(k, a)
      /\ f.running /\ f.due /\ ~(Closed(a, "origin") \/ GivesUp(k.rod[a].pool)) => t = Turns(k, a, TRUE)
  BY Zenon DEF ZeroTurn
<1>7. (Closed(a, "origin") \/ GivesUp(k.rod[a].pool)) <=> ends
  BY <1>3
<1> HIDE DEF f, r, t, q, ends, f0, k
<1>8. ~f.running => Gives(n, t, a, f, r, 0, FALSE)
  BY <1>0, <1>6, RestsGive DEF f, r
<1>9. f.running /\ ~f.due => Gives(n, t, a, Turned(f), r, -1, FALSE)
  <2>1. Gives(n, Turns(Put(n, a, f, r, n.count), a, TRUE), a, Turned(f), r, -1, FALSE)
    BY <1>0, TurnsGive
  <2> QED BY <1>4, <1>6, <2>1, Zenon
<1>10. f.running /\ f.due /\ ends => Gives(n, t, a, Ended(f), q, 0, TRUE)
  <2>1. Gives(n, Ends(Put(n, a, f0, q, n.count), a), a, [f0 EXCEPT !.running = FALSE], q, 0, TRUE)
    BY <1>0, <1>2, EndsGive
  <2> QED BY <1>1, <1>5, <1>6, <1>7, <2>1, Zenon
<1>11. f.running /\ f.due /\ ~ends => Gives(n, t, a, Turned(f), q, -1, FALSE)
  <2>1. Gives(n, Turns(Put(n, a, f0, q, n.count), a, TRUE), a, Turned(f0), q, -1, FALSE)
    BY <1>0, <1>2, TurnsGive
  <2> QED BY <1>1, <1>5, <1>6, <1>7, <2>1, Zenon
<1> QED BY <1>8, <1>9, <1>10, <1>11, Zenon DEF f, r, t, q, ends

\* The outcomes of a turn of FigureOutTheRange.
LEMMA RangeTurnGives ==
  ASSUME NEW n \in Machine, NEW a \in Axis
  PROVE  LET f == n.sta[a]  r == n.rod[a]  t == RangeTurn(n, a)  q == [r EXCEPT !.range = @ + 1]
             full == [pool |-> StepsPerFull, cur |-> StepsPerFull, range |-> StepsPerFull]
         IN  /\ ~f.running => Gives(n, t, a, f, r, 0, FALSE)
             /\ f.running /\ ~f.due => Gives(n, t, a, Turned(f), r, 1, FALSE)
             /\ f.running /\ f.due /\ GivesUp(r.range + 1) => Gives(n, t, a, Ended(f), full, 0, TRUE)
             /\ f.running /\ f.due /\ ~GivesUp(r.range + 1) /\ Closed(a, "tail") => Gives(n, t, a, Ended(f), q, 0, TRUE)
             /\ f.running /\ f.due /\ ~GivesUp(r.range + 1) /\ ~Closed(a, "tail") => Gives(n, t, a, Turned(f), q, 1, FALSE)
<1> DEFINE f == n.sta[a]  r == n.rod[a]  t == RangeTurn(n, a)  q == [r EXCEPT !.range = @ + 1]
           full == [pool |-> StepsPerFull, cur |-> StepsPerFull, range |-> StepsPerFull]
           f0 == [f EXCEPT !.due = FALSE]
           k == [n EXCEPT !.sta[a].due = FALSE, !.rod[a].range = @ + 1]
<1>0. f \in Flags /\ r \in Rod /\ n.count \in Nat
  BY DEF Machine
<1>1. k = Put(n, a, f0, q, n.count)
  BY WritesPut, Zenon
<1>2. f0 \in Flags /\ q \in Rod /\ q.range = r.range + 1 /\ full \in Rod
  <2>1. f0 \in Flags
    BY <1>0, FlagsWritten, Zenon
  <2>2. q \in Rod /\ q.range = r.range + 1
    BY <1>0 DEF Rod
  <2>3. full \in Rod
    BY ConstantsAre DEF Rod
  <2> QED BY <2>1, <2>2, <2>3
<1>3. k.rod[a].range = r.range + 1
  <2> HIDE DEF f0, q, k, r
  <2>1. k.rod[a] = q
    BY <1>0, <1>1, <1>2, PutKeeps
  <2> QED BY <1>2, <2>1
<1>4. n = Put(n, a, f, r, n.count)
  BY WritesPut, Zenon
<1>5. [f0 EXCEPT !.running = FALSE] = Ended(f) /\ Turned(f0) = Turned(f)
  BY <1>0, FlagsWritten
<1>a. k \in Machine /\ k.sta[a] = f0 /\ k.count = n.count
  <2> HIDE DEF f0, q, k, f, r
  <2> QED BY <1>0, <1>1, <1>2, PutIsMachine
<1>b. [k EXCEPT !.rod[a] = full] = Put(n, a, f0, full, n.count)
  <2>1. [k EXCEPT !.rod[a] = full] = Put(k, a, k.sta[a], full, k.count)
    BY <1>2, <1>a, RodPut
  <2> HIDE DEF full, f0, q, k
  <2> QED BY <1>1, <1>a, <2>1, PutPut
<1>6. /\ ~f.running => t = Rests(n)
      /\ f.running /\ ~f.due => t = Turns(n, a, FALSE)
      /\ f.running /\ f.due /\ GivesUp(k.rod[a].range) => t = Ends([k EXCEPT !.rod[a] = full], a)
      /\ f.running /\ f.due /\ ~GivesUp(k.rod[a].range) /\ Closed(a, "tail") => t = Ends(k, a)
      /\ f.running /\ f.due /\ ~GivesUp(k.rod[a].range) /\ ~Closed(a, "tail") => t = Turns(k, a, FALSE)
  BY Zenon DEF RangeTurn
<1>7. GivesUp(k.rod[a].range) <=> GivesUp(r.range + 1)
  BY <1>3
<1> HIDE DEF f, r, t, q, full, f0, k
<1>8. ~f.running => Gives(n, t, a, f, r, 0, FALSE)
  BY <1>0, <1>6, RestsGive DEF f, r
<1>9. f.running /\ ~f.due => Gives(n, t, a, Turned(f), r, 1, FALSE)
  <2>1. Gives(n, Turns(Put(n, a, f, r, n.count), a, FALSE), a, Turned(f), r, 1, FALSE)
    BY <1>0, TurnsGive
  <2> QED BY <1>4, <1>6, <2>1, Zenon
<1>10. f.running /\ f.due /\ ~GivesUp(r.range + 1) /\ Closed(a, "tail") => Gives(n, t, a, Ended(f), q, 0, TRUE)
  <2>1. Gives(n, Ends(Put(n, a, f0, q, n.count), a), a, [f0 EXCEPT !.running = FALSE], q, 0, TRUE)
    BY <1>0, <1>2, EndsGive
  <2> QED BY <1>1, <1>5, <1>6, <1>7, <2>1, Zenon
<1>11. f.running /\ f.due /\ ~GivesUp(r.range + 1) /\ ~Closed(a, "tail") => Gives(n, t, a, Turned(f), q, 1, FALSE)
  <2>1. Gives(n, Turns(Put(n, a, f0, q, n.count), a, FALSE), a, Turned(f0), q, 1, FALSE)
    BY <1>0, <1>2, TurnsGive
  <2> QED BY <1>1, <1>5, <1>6, <1>7, <2>1, Zenon
<1>12. f.running /\ f.due /\ GivesUp(r.range + 1) => Gives(n, t, a, Ended(f), full, 0, TRUE)
  <2>1. Gives(n, Ends(Put(n, a, f0, full, n.count), a), a, [f0 EXCEPT !.running = FALSE], full, 0, TRUE)
    BY <1>0, <1>2, EndsGive
  <2> QED BY <1>b, <1>5, <1>6, <1>7, <2>1, Zenon
<1> QED BY <1>8, <1>9, <1>10, <1>11, <1>12, Zenon DEF f, r, t, q, full

\* The outcomes of a turn of PanTiltRuning.
LEMMA RunTurnGives ==
  ASSUME NEW n \in Machine, NEW a \in Axis
  PROVE  LET f == n.sta[a]  r == n.rod[a]  t == RunTurn(n, a)
         IN  \/ Gives(n, t, a, f, r, 0, FALSE)
             \/ f.running /\ f.due /\ r.pool = 0 /\ Gives(n, t, a, EndedRun(f), r, 0, TRUE)
             \/ /\ f.running /\ ~(f.due /\ r.pool = 0)
                /\ Gives(n, t, a, Turned(f), Moved(f, r, a, phys[a]), IF f.anti THEN -1 ELSE 1, FALSE)
<1> DEFINE f == n.sta[a]  r == n.rod[a]  t == RunTurn(n, a)
           late == f.reducing /\ n.count + Unit < n.ratio
           c == IF f.reducing THEN n.count + Unit - (IF late THEN 0 ELSE n.ratio) ELSE n.count
           k == IF f.reducing THEN [n EXCEPT !.count = @ + Unit - (IF late THEN 0 ELSE n.ratio)] ELSE n
           f0 == [[f EXCEPT !.initing = FALSE] EXCEPT !.due = FALSE]
           q == Moved(f, r, a, phys[a])
<1>0. f \in Flags /\ r \in Rod /\ n.count \in Nat /\ n.ratio \in Nat /\ f.anti \in BOOLEAN
  BY DEF Machine, Flags
<1>1. c \in Nat
  BY <1>0 DEF Unit
<1>2. k = [n EXCEPT !.count = c]
  <2>1. CASE f.reducing
    BY <2>1 DEF Machine
  <2>2. CASE ~f.reducing
    BY <2>2 DEF Machine
  <2> QED BY <2>1, <2>2
<1>3. k = Put(n, a, f, r, c)
  <2> HIDE DEF c, k
  <2> QED BY <1>1, <1>2, CountPut
<1>a. t = CASE ~f.running -> Rests(n)
            [] f.running /\ late -> Rests(k)
            [] f.running /\ ~late /\ f.due /\ r.pool = 0 ->
                  Ends([k EXCEPT !.sta[a].initing = FALSE, !.sta[a].due = FALSE], a)
            [] OTHER -> Turns([k EXCEPT !.rod[a] = q], a, f.anti)
  BY DEF RunTurn, Moved
<1> HIDE DEF c, k, late, q
<1>4. k \in Machine /\ k.sta[a] = f /\ k.rod[a] = r /\ k.count = c
  BY <1>0, <1>1, <1>3, PutIsMachine
<1> HIDE DEF f, r
<1>5. [k EXCEPT !.sta[a].initing = FALSE, !.sta[a].due = FALSE] = Put(n, a, f0, r, c)
  <2>1. [k EXCEPT !.sta[a].initing = FALSE, !.sta[a].due = FALSE]
        = Put(k, a, [[k.sta[a] EXCEPT !.initing = FALSE] EXCEPT !.due = FALSE], k.rod[a], k.count)
    BY <1>4, WritesPut, Zenon
  <2>2. Put(k, a, [[k.sta[a] EXCEPT !.initing = FALSE] EXCEPT !.due = FALSE], k.rod[a], k.count) = Put(k, a, f0, r, c)
    BY <1>4, Zenon
  <2>3. Put(k, a, f0, r, c) = Put(n, a, f0, r, c)
    <3> HIDE DEF f0
    <3> QED BY <1>3, PutPut
  <2> QED BY <2>1, <2>2, <2>3, Zenon
<1>6. \A e \in Rod : [k EXCEPT !.rod[a] = e] = Put(n, a, f, e, c)
  <2>1. \A e \in Rod : [k EXCEPT !.rod[a] = e] = Put(k, a, f, e, c)
    BY <1>4, RodPut
  <2>2. \A e : Put(k, a, f, e, c) = Put(n, a, f, e, c)
    BY <1>3, PutPut
  <2> QED BY <2>1, <2>2
<1>7. CASE ~f.running
  <2>1. t = Rests(n)
    BY <1>a, <1>7, Zenon
  <2> HIDE DEF t
  <2>2. Gives(n, t, a, f, r, 0, FALSE)
    BY <1>0, <2>1, RestsGive DEF f, r
  <2> QED BY <2>2 DEF f, r, t
<1>8. CASE f.running /\ late
  <2>1. t = Rests(k)
    BY <1>a, <1>8, Zenon
  <2> HIDE DEF t
  <2>2. Gives(n, t, a, f, r, 0, FALSE)
    BY <1>1, <1>2, <2>1, RestsGive DEF f, r
  <2> QED BY <2>2 DEF f, r, t
<1>9. CASE f.running /\ ~late /\ f.due /\ r.pool = 0
  <2>1. t = Ends([k EXCEPT !.sta[a].initing = FALSE, !.sta[a].due = FALSE], a)
    BY <1>a, <1>9, Zenon
  <2>2. Gives(n, Ends(Put(n, a, f0, r, c), a), a, [f0 EXCEPT !.running = FALSE], r, 0, TRUE)
    <3>1. f0 \in Flags BY <1>0, FlagsWritten
    <3> HIDE DEF f0
    <3> QED BY <1>0, <1>1, <3>1, EndsGive
  <2>3. [f0 EXCEPT !.running = FALSE] = EndedRun(f)
    BY <1>0, FlagsWritten
  <2>4. Gives(n, t, a, EndedRun(f), r, 0, TRUE)
    <3> HIDE DEF t, f0
    <3> QED BY <1>5, <2>1, <2>2, <2>3
  <2> QED BY <1>9, <2>4 DEF f, r, t
<1>10. CASE f.running /\ ~late /\ ~(f.due /\ r.pool = 0)
  <2>1. t = Turns([k EXCEPT !.rod[a] = q], a, f.anti)
    BY <1>a, <1>10, Zenon
  <2>2. q \in Rod
    BY <1>0, <1>10, MovedTyped DEF q
  <2>3. [k EXCEPT !.rod[a] = q] = Put(n, a, f, q, c)
    BY <1>6, <2>2
  <2>4. Gives(n, Turns(Put(n, a, f, q, c), a, f.anti), a, Turned(f), q, IF f.anti THEN -1 ELSE 1, FALSE)
    BY <1>0, <1>1, <2>2, TurnsGive
  <2> HIDE DEF t
  <2>5. Gives(n, t, a, Turned(f), q, IF f.anti THEN -1 ELSE 1, FALSE)
    BY <2>1, <2>3, <2>4
  <2> QED BY <1>10, <2>5 DEF f, r, t, q
<1> QED BY <1>7, <1>8, <1>9, <1>10

-----------------------------------------------------------------------------
(* A move that begins.                                                     *)

\* The moves, and the steps and the pool of an axis.
Moves == [h : Nat, v : Nat, right : BOOLEAN, up : BOOLEAN, loitor : BOOLEAN]
By(w, a) == IF a = "h" THEN w.h ELSE w.v
PoolOf(w, n, a) == Filled(By(w, a), Anti(w, a), n.rod[a])

\* The direction and the steps of an axis.
LEMMA AntiIs ==
  ASSUME NEW w \in Moves, NEW a \in Axis
  PROVE  Anti(w, a) \in BOOLEAN /\ By(w, a) \in Nat
  BY DEF Anti, By, Moves

\* Beginning a move fills each axis by itself.
LEMMA BegunIs ==
  ASSUME NEW w \in Moves, NEW n \in Machine
  PROVE  LET k == Begun(w, n)
         IN  /\ k \in Machine /\ k.beat = "run" /\ k.on = TRUE
             /\ \A a \in Axis : /\ k.rod[a] = [n.rod[a] EXCEPT !.pool = PoolOf(w, n, a)]
                               /\ \E x \in BOOLEAN : k.sta[a] = BegunFlags(n.sta[a], By(w, a), Anti(w, a), PoolOf(w, n, a), x)
<1> DEFINE by == [a \in Axis |-> IF a = "h" THEN w.h ELSE w.v]
           pool == [a \in Axis |-> IF by[a] = 0 THEN 0 ELSE Pool(by[a], Anti(w, a), n.rod[a])]
           both == \A a \in Axis : pool[a] > 0
           slow == IF by["h"] > by["v"] THEN "v" ELSE "h"
           flags(a) == [n.sta[a] EXCEPT
                          !.anti = IF by[a] = 0 THEN @ ELSE Anti(w, a),
                          !.running = @ \/ pool[a] > 0, !.due = @ \/ pool[a] > 0,
                          !.reducing = IF both THEN a = slow ELSE @]
           sta == [a \in Axis |-> flags(a)]
           rod == [a \in Axis |-> [n.rod[a] EXCEPT !.pool = pool[a]]]
           ratio == IF both THEN (by[Other(slow)] * Unit) \div by[slow] ELSE n.ratio
           count == IF both THEN 0 ELSE n.count
           loitor == IF w.loitor THEN Loitor ELSE n.loitor
           k == Begun(w, n)
<1>0. \A a \in Axis : by[a] = By(w, a) /\ By(w, a) \in Nat /\ Anti(w, a) \in BOOLEAN /\ n.sta[a] \in Flags /\ n.rod[a] \in Rod
  BY AntiIs DEF By, Machine
<1>1. \A a \in Axis : pool[a] = PoolOf(w, n, a) /\ PoolOf(w, n, a) \in Nat
  <2> TAKE a \in Axis
  <2>1. pool[a] = PoolOf(w, n, a)
    BY <1>0 DEF PoolOf, Filled
  <2>2. PoolOf(w, n, a) \in Nat
    BY <1>0, FilledIs DEF PoolOf
  <2> QED BY <2>1, <2>2
<1>2. \A a \in Axis : pool[a] > 0 => by[a] # 0
  <2> TAKE a \in Axis
  <2>1. by[a] = 0 => pool[a] = 0 OBVIOUS
  <2> QED BY <2>1
<1>3. \A a \in Axis : \E x \in BOOLEAN : flags(a) = BegunFlags(n.sta[a], By(w, a), Anti(w, a), PoolOf(w, n, a), x)
  <2> TAKE a \in Axis
  <2> DEFINE X == IF both THEN a = slow ELSE n.sta[a].reducing
  <2>1. X \in BOOLEAN
    BY <1>0 DEF Flags
  <2>4. by[a] = By(w, a) /\ pool[a] = PoolOf(w, n, a)
    BY <1>0, <1>1
  <2> HIDE DEF X, by, pool, flags
  <2>6. flags(a) = BegunFlags(n.sta[a], by[a], Anti(w, a), pool[a], X)
    BY Zenon DEF flags, BegunFlags, X
  <2>5. flags(a) = BegunFlags(n.sta[a], By(w, a), Anti(w, a), PoolOf(w, n, a), X)
    BY <2>4, <2>6, Zenon
  <2> QED BY <2>1, <2>5
<1>4. \A a \in Axis : flags(a) \in Flags
  <2> TAKE a \in Axis
  <2>1. PICK x \in BOOLEAN : flags(a) = BegunFlags(n.sta[a], By(w, a), Anti(w, a), PoolOf(w, n, a), x)
    BY <1>3
  <2>2. BegunFlags(n.sta[a], By(w, a), Anti(w, a), PoolOf(w, n, a), x) \in Flags
    BY <1>0, <1>1, BegunFlagsAre
  <2> QED BY <2>1, <2>2, Zenon
<1>5. sta \in [Axis -> Flags]
  BY <1>4, Zenon
<1>6. rod \in [Axis -> Rod] /\ \A a \in Axis : rod[a] = [n.rod[a] EXCEPT !.pool = PoolOf(w, n, a)]
  <2> HIDE DEF pool
  <2>1. \A a \in Axis : [n.rod[a] EXCEPT !.pool = pool[a]] \in Rod
    BY <1>0, <1>1 DEF Rod
  <2> QED BY <1>1, <2>1
<1>7. ratio \in Nat /\ count \in Nat /\ loitor \in Nat
  <2>1. slow \in Axis /\ Other(slow) \in Axis
    BY DEF Axis, Other
  <2>2. both => by[slow] # 0 /\ by[slow] \in Nat /\ by[Other(slow)] \in Nat
    BY <1>0, <1>2, <2>1
  <2>3. \A x, y \in Nat : y # 0 => (x * Unit) \div y \in Nat
    BY DEF Unit
  <2>4. n.ratio \in Nat /\ n.count \in Nat /\ n.loitor \in Nat /\ Loitor \in Nat
    BY ConstantsAre DEF Machine
  <2> HIDE DEF slow, by
  <2> QED BY <2>2, <2>3, <2>4
<1>8. k = [n EXCEPT !.sta = sta, !.rod = rod, !.ratio = ratio, !.count = count, !.loitor = loitor, !.beat = "run", !.on = TRUE]
  BY DEF Begun, Machine
<1> HIDE DEF sta, rod, ratio, count, loitor, k
<1>9. k = [sta |-> sta, rod |-> rod, loitor |-> loitor, ratio |-> ratio, count |-> count, beat |-> "run", on |-> TRUE]
  BY <1>8, Zenon DEF Machine
<1>10. k \in Machine
  BY <1>5, <1>6, <1>7, <1>9 DEF Machine, Handler
<1>11. k.sta = sta /\ k.rod = rod /\ k.beat = "run" /\ k.on = TRUE
  BY <1>9
<1>12. \A a \in Axis : sta[a] = flags(a)
  BY Zenon DEF sta
<1>13. \A a \in Axis : k.rod[a] = [n.rod[a] EXCEPT !.pool = PoolOf(w, n, a)]
  BY <1>6, <1>11
<1> HIDE DEF flags
<1>14. \A a \in Axis : \E x \in BOOLEAN : k.sta[a] = BegunFlags(n.sta[a], By(w, a), Anti(w, a), PoolOf(w, n, a), x)
  BY <1>3, <1>11, <1>12, Zenon
<1> QED BY <1>10, <1>11, <1>13, <1>14 DEF k

\* The presets and the orders, whatever their coordinates.
Presets == [Point -> [set : BOOLEAN, x : Nat, y : Nat, stay : Nat]]
Orders  == [kind : {"steps", "coord"}, by : Moves] \cup [kind : {"preset"}, point : Point]

\* The way to a coordinate, held within the range.
LEMMA WayToIs ==
  ASSUME NEW h \in Nat, NEW v \in Nat, NEW n \in Machine
  PROVE  LET w == WayTo(h, v, n)
             to == [a \in Axis |-> IF (IF a = "h" THEN h ELSE v) < n.rod[a].range THEN (IF a = "h" THEN h ELSE v) ELSE n.rod[a].range]
         IN  /\ w \in Moves /\ ~w.loitor
             /\ \A a \in Axis : By(w, a) = IF to[a] >= n.rod[a].cur THEN to[a] - n.rod[a].cur ELSE n.rod[a].cur - to[a]
             /\ w.right = (to["h"] >= n.rod["h"].cur) /\ w.up = (to["v"] >= n.rod["v"].cur)
<1> DEFINE w == WayTo(h, v, n)
           to == [a \in Axis |-> IF (IF a = "h" THEN h ELSE v) < n.rod[a].range THEN (IF a = "h" THEN h ELSE v) ELSE n.rod[a].range]
           far == [a \in Axis |-> to[a] >= n.rod[a].cur]
           by  == [a \in Axis |-> IF far[a] THEN to[a] - n.rod[a].cur ELSE n.rod[a].cur - to[a]]
<1>1. w = StepsBy(by["h"], by["v"], far["h"], far["v"])
  BY DEF WayTo
<1>2. \A a \in Axis : n.rod[a].cur \in Nat /\ n.rod[a].range \in Nat
  BY DEF Machine, Rod
<1>3. \A a \in Axis : to[a] \in Nat
  BY <1>2
<1>4. \A a \in Axis : by[a] = (IF to[a] >= n.rod[a].cur THEN to[a] - n.rod[a].cur ELSE n.rod[a].cur - to[a]) /\ by[a] \in Nat
  <2> HIDE DEF to
  <2>1. \A a \in Axis : far[a] <=> to[a] >= n.rod[a].cur
    BY Zenon
  <2>2. \A a \in Axis : by[a] = IF far[a] THEN to[a] - n.rod[a].cur ELSE n.rod[a].cur - to[a]
    BY Zenon
  <2> HIDE DEF far, by
  <2> TAKE a \in Axis
  <2>3. CASE to[a] >= n.rod[a].cur
    BY <1>2, <1>3, <2>1, <2>2, <2>3
  <2>4. CASE ~(to[a] >= n.rod[a].cur)
    BY <1>2, <1>3, <2>1, <2>2, <2>4
  <2> QED BY <2>3, <2>4
<1>5. far["h"] = (to["h"] >= n.rod["h"].cur) /\ far["v"] = (to["v"] >= n.rod["v"].cur) /\ far["h"] \in BOOLEAN /\ far["v"] \in BOOLEAN
  <2> HIDE DEF to
  <2> QED BY DEF Axis
<1>6. "h" \in Axis /\ "v" \in Axis /\ Axis = {"h", "v"}
  BY DEF Axis
<1> HIDE DEF by, far, to, w
<1>7. w = [h |-> by["h"], v |-> by["v"], right |-> far["h"], up |-> far["v"], loitor |-> FALSE]
  BY <1>1 DEF StepsBy
<1>8. w \in Moves
  BY <1>4, <1>5, <1>6, <1>7 DEF Moves
<1>9. ~w.loitor
  BY <1>7
<1>10. \A a \in Axis : By(w, a) = by[a]
  BY <1>6, <1>7 DEF By
<1>11. w.right = far["h"] /\ w.up = far["v"]
  BY <1>7
<1> QED BY <1>4, <1>5, <1>8, <1>9, <1>10, <1>11 DEF to, w

\* Every order is a number of steps.
LEMMA ConvertedIs ==
  ASSUME NEW act \in Orders, NEW n \in Machine, points \in Presets
  PROVE  Converted(act, n) \in Moves
<1>1. CASE act.kind = "steps"
  <2>1. act.by \in Moves
    BY <1>1 DEF Orders
  <2> QED BY <1>1, <2>1, Zenon DEF Converted
<1>2. CASE act.kind = "coord"
  <2>1. act.by \in Moves
    BY <1>2 DEF Orders
  <2>2. act.by.h \in Nat /\ act.by.v \in Nat
    BY <2>1 DEF Moves
  <2>3. WayTo(act.by.h, act.by.v, n) \in Moves
    BY <2>2, WayToIs
  <2>4. Converted(act, n) = WayTo(act.by.h, act.by.v, n)
    BY <1>2 DEF Converted
  <2> QED BY <2>3, <2>4, Zenon
<1>3. CASE act.kind = "preset"
  <2>1. act.point \in Point
    BY <1>3 DEF Orders
  <2>2. points[act.point].x \in Nat /\ points[act.point].y \in Nat /\ act.point \in Nat
    BY <2>1, PanTiltAssumption DEF Presets
  <2>3. WayTo(points[act.point].x, points[act.point].y, n) \in Moves
    BY <2>2, WayToIs
  <2>4. StepsBy(act.point, 0, FALSE, FALSE) \in Moves
    BY <2>2 DEF StepsBy, Moves
  <2>5. Converted(act, n) = IF ~points[act.point].set THEN StepsBy(act.point, 0, FALSE, FALSE)
                            ELSE WayTo(points[act.point].x, points[act.point].y, n)
    BY <1>3 DEF Converted
  <2> QED BY <2>3, <2>4, <2>5, Zenon
<1> QED BY <1>1, <1>2, <1>3 DEF Orders

\* A request begins its move where no motor runs, and else does nothing.
LEMMA StartedIs ==
  ASSUME NEW act \in Orders, NEW n \in Machine, points \in Presets
  PROVE  /\ Started(act, n) \in Machine
         /\ Started(act, n) = n \/ (Started(act, n).on = TRUE /\ Started(act, n).beat = "run")
         /\ ~Busy(n) /\ (act.kind = "coord" => HasLimits) => Started(act, n) = Begun(Converted(act, n), n)
         /\ Started(act, n) # n => ~Busy(n) /\ Started(act, n) = Begun(Converted(act, n), n)
<1>1. Converted(act, n) \in Moves
  BY ConvertedIs
<1>2. LET k == Begun(Converted(act, n), n) IN k \in Machine /\ k.beat = "run" /\ k.on = TRUE
  BY <1>1, BegunIs
<1>3. Started(act, n) = IF Busy(n) \/ (act.kind = "coord" /\ ~HasLimits) THEN n ELSE Begun(Converted(act, n), n)
  BY DEF Started
<1> QED BY <1>2, <1>3, Zenon

\* Both axes look for the range.
LEMMA ThenRangeIs ==
  ASSUME NEW n \in Machine
  PROVE  LET k == ThenRange(n)
         IN  /\ k \in Machine /\ k.beat = "range" /\ k.on = TRUE /\ k.rod = n.rod
             /\ \A a \in Axis : k.sta[a] = [n.sta[a] EXCEPT !.running = TRUE, !.due = TRUE] /\ k.sta[a].running = TRUE
<1> DEFINE k == ThenRange(n)  sta == [a \in Axis |-> [n.sta[a] EXCEPT !.running = TRUE, !.due = TRUE]]
<1>1. k = [n EXCEPT !.sta = sta, !.beat = "range", !.on = TRUE]
  BY DEF ThenRange, Machine
<1>2. \A a \in Axis : n.sta[a] \in Flags
  BY DEF Machine
<1>3. \A f \in Flags : [f EXCEPT !.running = TRUE, !.due = TRUE] \in Flags
  BY DEF Flags
<1>4. \A f \in Flags : [f EXCEPT !.running = TRUE, !.due = TRUE].running = TRUE
  BY DEF Flags
<1>5. sta \in [Axis -> Flags]
  BY <1>2, <1>3
<1>6. \A a \in Axis : sta[a] = [n.sta[a] EXCEPT !.running = TRUE, !.due = TRUE] /\ sta[a].running = TRUE
  BY <1>2, <1>4, Zenon
<1> HIDE DEF k, sta
<1>7. k = [sta |-> sta, rod |-> n.rod, loitor |-> n.loitor, ratio |-> n.ratio, count |-> n.count, beat |-> "range", on |-> TRUE]
  BY <1>1 DEF Machine
<1>8. k \in Machine
  BY <1>5, <1>7 DEF Machine, Handler
<1>9. k.sta = sta /\ k.rod = n.rod /\ k.beat = "range" /\ k.on = TRUE
  BY <1>7
<1> QED BY <1>6, <1>8, <1>9 DEF k

\* The machine before the way back, and the way.
Found(n) == [n EXCEPT !.rod = [a \in Axis |-> WayBack(n.rod[a])]]
HomeWay(k) == [h |-> k.rod["h"].pool, v |-> k.rod["v"].pool, right |-> FALSE, up |-> FALSE, loitor |-> TRUE]

\* The rods before the way back.
LEMMA FoundIs ==
  ASSUME NEW n \in Machine
  PROVE  /\ Found(n) \in Machine /\ Found(n).sta = n.sta
         /\ \A a \in Axis : Found(n).rod[a] = WayBack(n.rod[a])
         /\ HomeWay(Found(n)) \in Moves
<1>1. \A r \in Rod : WayBack(r) \in Rod
  <2> TAKE r \in Rod
  <2> DEFINE X == IF r.range >= r.pool THEN r.range - r.pool ELSE 0
  <2>1. X \in Nat /\ r.range \in Nat
    BY DEF Rod
  <2>2. WayBack(r) = [r EXCEPT !.pool = X, !.cur = r.range]
    BY DEF WayBack
  <2> HIDE DEF X
  <2> QED BY <2>1, <2>2 DEF Rod
<1>2. \A a \in Axis : n.rod[a] \in Rod
  BY DEF Machine
<1>3. [a \in Axis |-> WayBack(n.rod[a])] \in [Axis -> Rod]
  BY <1>1, <1>2
<1>4. Found(n) \in Machine /\ Found(n).sta = n.sta /\ \A a \in Axis : Found(n).rod[a] = WayBack(n.rod[a])
  <2> DEFINE rod == [a \in Axis |-> WayBack(n.rod[a])]
  <2>1. \A a \in Axis : rod[a] = WayBack(n.rod[a])
    OBVIOUS
  <2>2. Found(n) = [n EXCEPT !.rod = rod]
    BY DEF Found
  <2> HIDE DEF rod
  <2>3. Found(n) \in Machine /\ Found(n).sta = n.sta /\ Found(n).rod = rod
    BY <1>3, <2>2 DEF rod, Machine
  <2> QED BY <2>1, <2>3
<1>5. HomeWay(Found(n)) \in Moves
  <2>1. Found(n).rod["h"].pool \in Nat /\ Found(n).rod["v"].pool \in Nat
    BY <1>4 DEF Machine, Rod, Axis
  <2> QED BY <2>1 DEF HomeWay, Moves
<1> QED BY <1>4, <1>5

\* The way back is a move.
LEMMA ThenReturnIs ==
  ASSUME NEW n \in Machine, ~Busy(n), points \in Presets
  PROVE  ThenReturn(n) = Begun(HomeWay(Found(n)), Found(n))
<1> DEFINE k == Found(n)
           by == [StepsBy(k.rod["h"].pool, k.rod["v"].pool, FALSE, FALSE) EXCEPT !.loitor = TRUE]
           act == [kind |-> "steps", by |-> by]
<1>1. [n EXCEPT !.rod = [a \in Axis |-> WayBack(@[a])]] = k
  BY DEF Found
<1>2. ThenReturn(n) = Started(act, k)
  BY <1>1 DEF ThenReturn
<1>3. by = HomeWay(k)
  <2> DEFINE N == FALSE  T == TRUE
  <2>1. \A h, v : [[h |-> h, v |-> v, right |-> N, up |-> N, loitor |-> N] EXCEPT !.loitor = T]
                = [h |-> h, v |-> v, right |-> N, up |-> N, loitor |-> T]
    <3> HIDE DEF N, T
    <3> QED OBVIOUS
  <2>2. \A h, v : [[h |-> h, v |-> v, right |-> FALSE, up |-> FALSE, loitor |-> FALSE] EXCEPT !.loitor = TRUE]
                = [h |-> h, v |-> v, right |-> FALSE, up |-> FALSE, loitor |-> TRUE]
    BY <2>1, Zenon
  <2> HIDE DEF k
  <2> QED BY <2>2, Zenon DEF StepsBy, HomeWay, by
<1>4. k \in Machine /\ k.sta = n.sta /\ HomeWay(k) \in Moves
  BY FoundIs
<1>5. ~Busy(k)
  BY <1>4 DEF Busy
<1> HIDE DEF by, k
<1>6. act \in Orders /\ act.kind = "steps" /\ act.by = by
  BY <1>3, <1>4 DEF Orders
<1>7. Started(act, k) = Begun(Converted(act, k), k)
  BY <1>4, <1>5, <1>6, StartedIs
<1>8. Converted(act, k) = by
  BY <1>6 DEF Converted
<1> QED BY <1>2, <1>3, <1>7, <1>8 DEF k

-----------------------------------------------------------------------------
(* A turn of either axis.                                                  *)

\* A turn keeps the other axis, and ends the motor it stops.
LEMMA TurnKeeps ==
  ASSUME NEW n \in Machine, NEW a \in Axis
  PROVE  LET t == Turn(n, a)
         IN  /\ Kept(n, t.n, a) /\ t.move \in {-1, 0, 1}
             /\ n.sta[a].running /\ ~t.n.sta[a].running => t.ended
<1> DEFINE t == Turn(n, a)  f == n.sta[a]  r == n.rod[a]
           Fine(g, q, d, e) == Gives(n, t, a, g, q, d, e) /\ d \in {-1, 0, 1} /\ (f.running => g.running \/ e)
<1>0. f \in Flags /\ n.beat \in Handler
  BY DEF Machine
<1>1. ASSUME NEW g, NEW q, NEW d, NEW e, Fine(g, q, d, e)
      PROVE  /\ Kept(n, t.n, a) /\ t.move \in {-1, 0, 1}
             /\ f.running /\ ~t.n.sta[a].running => t.ended
  <2> HIDE DEF t
  <2> QED BY <1>1 DEF Gives
<1>2. Turned(f).running = f.running
  BY <1>0, TurnedIs
<1>3. CASE n.beat = "zero"
  <2>1. t = ZeroTurn(n, a)
    BY <1>3 DEF Turn
  <2>2. \/ Fine(f, r, 0, FALSE) \/ Fine(Turned(f), r, -1, FALSE)
        \/ Fine(Ended(f), [r EXCEPT !.pool = @ + 1], 0, TRUE) \/ Fine(Turned(f), [r EXCEPT !.pool = @ + 1], -1, FALSE)
    <3> HIDE DEF t
    <3> QED BY <1>2, <2>1, ZeroTurnGives
  <2> HIDE DEF t, f, r, Fine
  <2>3. /\ Kept(n, t.n, a) /\ t.move \in {-1, 0, 1}
        /\ f.running /\ ~t.n.sta[a].running => t.ended
    BY <1>1, <2>2
  <2> QED BY <2>3 DEF t, f
<1>4. CASE n.beat = "range"
  <2>1. t = RangeTurn(n, a)
    BY <1>4 DEF Turn
  <2>2. \/ Fine(f, r, 0, FALSE) \/ Fine(Turned(f), r, 1, FALSE)
        \/ Fine(Ended(f), [pool |-> StepsPerFull, cur |-> StepsPerFull, range |-> StepsPerFull], 0, TRUE)
        \/ Fine(Ended(f), [r EXCEPT !.range = @ + 1], 0, TRUE) \/ Fine(Turned(f), [r EXCEPT !.range = @ + 1], 1, FALSE)
    <3> HIDE DEF t
    <3> QED BY <1>2, <2>1, RangeTurnGives
  <2> HIDE DEF t, f, r, Fine
  <2>3. /\ Kept(n, t.n, a) /\ t.move \in {-1, 0, 1}
        /\ f.running /\ ~t.n.sta[a].running => t.ended
    BY <1>1, <2>2
  <2> QED BY <2>3 DEF t, f
<1>5. CASE n.beat = "run"
  <2>1. t = RunTurn(n, a)
    BY <1>5 DEF Turn
  <2>2. \/ Fine(f, r, 0, FALSE) \/ Fine(EndedRun(f), r, 0, TRUE)
        \/ Fine(Turned(f), Moved(f, r, a, phys[a]), IF f.anti THEN -1 ELSE 1, FALSE)
    <3> HIDE DEF t
    <3> QED BY <1>2, <2>1, RunTurnGives
  <2> HIDE DEF t, f, r, Fine
  <2>3. /\ Kept(n, t.n, a) /\ t.move \in {-1, 0, 1}
        /\ f.running /\ ~t.n.sta[a].running => t.ended
    BY <1>1, <2>2
  <2> QED BY <2>3 DEF t, f
<1> QED BY <1>0, <1>3, <1>4, <1>5 DEF Handler

\* A turn keeps the driver in the know of its axis.
LEMMA TurnOfAxis ==
  ASSUME LongEnough, HasLimits, dead = {}, NEW n \in Machine, NEW a \in Axis, NEW u \in BOOLEAN, NEW hm,
         phys[a] \in 0 .. End, AxisIs(n, a, phys[a], u, hm)
  PROVE  LET t == Turn(n, a) IN AxisIs(t.n, a, Stalled(phys[a] + t.move), u, hm)
<1> DEFINE t == Turn(n, a)  f == n.sta[a]  r == n.rod[a]  p == phys[a]
<1>0. f \in Flags /\ r \in Rod /\ n.beat \in Handler
  BY DEF Machine
<1>1. t.n.beat = n.beat
  BY TurnKeeps DEF Kept
<1>2. p \in Int /\ End \in Nat /\ Stalled(p) = p /\ p + 0 = p /\ p + (-1) = p - 1
  BY PlacesAre, ConstantsAre DEF Stalled, End
<1>3. CASE n.beat = "zero"
  <2> DEFINE q == [r EXCEPT !.pool = @ + 1]
  <2>0. t = ZeroTurn(n, a) /\ ZeroAxis(f, r, p, u, hm)
    BY <1>3 DEF Turn, AxisIs
  <2>1. Closed(a, "origin") <=> p = 0
    BY DEF Closed
  <2> HIDE DEF t
  <2>g. /\ ~f.running => Gives(n, t, a, f, r, 0, FALSE)
        /\ f.running /\ ~f.due => Gives(n, t, a, Turned(f), r, -1, FALSE)
        /\ f.running /\ f.due /\ (Closed(a, "origin") \/ GivesUp(r.pool + 1)) => Gives(n, t, a, Ended(f), q, 0, TRUE)
        /\ f.running /\ f.due /\ ~(Closed(a, "origin") \/ GivesUp(r.pool + 1)) => Gives(n, t, a, Turned(f), q, -1, FALSE)
    BY <2>0, ZeroTurnGives, Zenon
  <2>i. f.running =>
         /\ f.due => ~GivesUp(r.pool + 1)
         /\ ~f.due => ZeroAxis(Turned(f), r, Stalled(p - 1), u, hm)
         /\ f.due /\ p # 0 => ZeroAxis(Turned(f), q, Stalled(p - 1), u, hm)
         /\ f.due /\ p = 0 => ZeroAxis(Ended(f), q, p, u, hm)
    BY <1>0, <2>0, ZeroTurns
  <2> HIDE DEF f, r, q, p
  <2>2. ZeroAxis(t.n.sta[a], t.n.rod[a], Stalled(p + t.move), u, hm)
    <3>1. CASE ~f.running
      BY <1>2, <2>0, <2>g, <3>1 DEF Gives
    <3>2. CASE f.running /\ ~f.due
      BY <1>2, <2>g, <2>i, <3>2 DEF Gives
    <3>3. CASE f.running /\ f.due /\ p = 0
      BY <1>2, <2>1, <2>g, <2>i, <3>3 DEF Gives
    <3>4. CASE f.running /\ f.due /\ p # 0
      BY <1>2, <2>1, <2>g, <2>i, <3>4 DEF Gives
    <3> QED BY <3>1, <3>2, <3>3, <3>4
  <2> QED BY <1>1, <1>3, <2>2 DEF AxisIs, p, t
<1>4. CASE n.beat = "range"
  <2> DEFINE q == [r EXCEPT !.range = @ + 1]
             full == [pool |-> StepsPerFull, cur |-> StepsPerFull, range |-> StepsPerFull]
  <2>0. t = RangeTurn(n, a) /\ RangeAxis(f, r, p, u, hm)
    BY <1>4 DEF Turn, AxisIs
  <2>1. Closed(a, "tail") <=> p = End
    BY DEF Closed
  <2> HIDE DEF t
  <2>g. /\ ~f.running => Gives(n, t, a, f, r, 0, FALSE)
        /\ f.running /\ ~f.due => Gives(n, t, a, Turned(f), r, 1, FALSE)
        /\ f.running /\ f.due /\ ~GivesUp(r.range + 1) /\ Closed(a, "tail") => Gives(n, t, a, Ended(f), q, 0, TRUE)
        /\ f.running /\ f.due /\ ~GivesUp(r.range + 1) /\ ~Closed(a, "tail") => Gives(n, t, a, Turned(f), q, 1, FALSE)
    BY <2>0, RangeTurnGives, Zenon
  <2>i. f.running =>
         /\ f.due => ~GivesUp(r.range + 1)
         /\ ~f.due => RangeAxis(Turned(f), r, Stalled(p + 1), u, hm)
         /\ f.due /\ p # End => RangeAxis(Turned(f), q, Stalled(p + 1), u, hm)
         /\ f.due /\ p = End => RangeAxis(Ended(f), q, p, u, hm)
    BY <1>0, <2>0, RangeTurns
  <2> HIDE DEF f, r, q, p
  <2>2. RangeAxis(t.n.sta[a], t.n.rod[a], Stalled(p + t.move), u, hm)
    <3>1. CASE ~f.running
      BY <1>2, <2>0, <2>g, <3>1 DEF Gives
    <3>2. CASE f.running /\ ~f.due
      BY <1>2, <2>g, <2>i, <3>2 DEF Gives
    <3>3. CASE f.running /\ f.due /\ p = End
      BY <1>2, <2>1, <2>g, <2>i, <3>3 DEF Gives
    <3>4. CASE f.running /\ f.due /\ p # End
      BY <1>2, <2>1, <2>g, <2>i, <3>4 DEF Gives
    <3> QED BY <3>1, <3>2, <3>3, <3>4
  <2> QED BY <1>1, <1>4, <2>2 DEF AxisIs, p, t
<1>5. CASE n.beat = "run"
  <2> DEFINE q == Moved(f, r, a, p)
  <2>0. t = RunTurn(n, a) /\ RunAxis(f, r, p, u, hm)
    BY <1>5 DEF Turn, AxisIs
  <2> HIDE DEF t
  <2>g. \/ Gives(n, t, a, f, r, 0, FALSE)
        \/ f.running /\ f.due /\ r.pool = 0 /\ Gives(n, t, a, EndedRun(f), r, 0, TRUE)
        \/ /\ f.running /\ ~(f.due /\ r.pool = 0)
           /\ Gives(n, t, a, Turned(f), q, IF f.anti THEN -1 ELSE 1, FALSE)
    BY <2>0, RunTurnGives, Zenon
  <2>i. f.running =>
         /\ f.due /\ r.pool = 0 => RunAxis(EndedRun(f), r, p, u, hm)
         /\ ~(f.due /\ r.pool = 0) => RunAxis(Turned(f), q, Drift(f, p), u, hm)
    BY <1>0, <2>0, RunTurns DEF EndedRun
  <2>d. Drift(f, p) = Stalled(p + (IF f.anti THEN -1 ELSE 1))
    BY <1>2 DEF Drift
  <2> HIDE DEF f, r, q, p
  <2>2. RunAxis(t.n.sta[a], t.n.rod[a], Stalled(p + t.move), u, hm)
    <3>1. CASE Gives(n, t, a, f, r, 0, FALSE)
      BY <1>2, <2>0, <3>1 DEF Gives
    <3>2. CASE f.running /\ f.due /\ r.pool = 0 /\ Gives(n, t, a, EndedRun(f), r, 0, TRUE)
      BY <1>2, <2>i, <3>2 DEF Gives
    <3>3. CASE /\ f.running /\ ~(f.due /\ r.pool = 0)
               /\ Gives(n, t, a, Turned(f), q, IF f.anti THEN -1 ELSE 1, FALSE)
      BY <2>d, <2>i, <3>3 DEF Gives
    <3> QED BY <2>g, <3>1, <3>2, <3>3
  <2> QED BY <1>1, <1>5, <2>2 DEF AxisIs, p, t
<1> QED BY <1>0, <1>3, <1>4, <1>5 DEF Handler

\* A turn keeps its axis on its way.
LEMMA TurnAims ==
  ASSUME LongEnough, HasLimits, dead = {}, NEW n \in Machine, NEW a \in Axis, NEW u \in BOOLEAN, NEW hm,
         phys[a] \in 0 .. End, AxisIs(n, a, phys[a], u, hm), n.beat = "run",
         NEW e \in Nat, Towards(n.sta[a], n.rod[a], e)
  PROVE  LET t == Turn(n, a) IN Towards(t.n.sta[a], t.n.rod[a], e)
<1> DEFINE t == Turn(n, a)  f == n.sta[a]  r == n.rod[a]  p == phys[a]  q == Moved(f, r, a, p)
<1>0. f \in Flags /\ r \in Rod
  BY DEF Machine
<1>1. t = RunTurn(n, a) /\ RunAxis(f, r, p, u, hm)
  BY DEF Turn, AxisIs
<1> HIDE DEF t
<1>g. \/ Gives(n, t, a, f, r, 0, FALSE)
      \/ f.running /\ f.due /\ r.pool = 0 /\ Gives(n, t, a, EndedRun(f), r, 0, TRUE)
      \/ /\ f.running /\ ~(f.due /\ r.pool = 0)
         /\ Gives(n, t, a, Turned(f), q, IF f.anti THEN -1 ELSE 1, FALSE)
  BY <1>1, RunTurnGives, Zenon
<1>i. f.running => /\ f.due /\ r.pool = 0 => r.cur = e
                   /\ ~(f.due /\ r.pool = 0) => Towards(Turned(f), q, e)
  BY <1>0, <1>1, TowardsTurns, SMTT(30)
<1>e. ~EndedRun(f).running
  BY <1>0, FlagsWritten
<1>t. Towards(f, r, e)
  OBVIOUS
<1> HIDE DEF f, r, q, p
<1>2. CASE Gives(n, t, a, f, r, 0, FALSE)
  BY <1>t, <1>2 DEF Gives, t
<1>3. CASE f.running /\ f.due /\ r.pool = 0 /\ Gives(n, t, a, EndedRun(f), r, 0, TRUE)
  BY <1>i, <1>e, <1>3 DEF Gives, Towards, t
<1>4. CASE /\ f.running /\ ~(f.due /\ r.pool = 0)
           /\ Gives(n, t, a, Turned(f), q, IF f.anti THEN -1 ELSE 1, FALSE)
  BY <1>i, <1>4 DEF Gives, t
<1> QED BY <1>g, <1>2, <1>3, <1>4

-----------------------------------------------------------------------------
(* The beat: both axes turn, and the handler changes when all have ended.  *)

\* The machine after both turns, and where the motors stand then.
Both == Turn(Turn(m, "h").n, "v").n
Drifted == [h |-> Stalled(phys["h"] + Turn(m, "h").move),
            v |-> Stalled(phys["v"] + Turn(Turn(m, "h").n, "v").move)]

\* There are two axes.
LEMMA AxesAre == Axis = {"h", "v"} /\ "h" \in Axis /\ "v" \in Axis /\ "h" # "v"
  BY DEF Axis

\* An axis depends on its own flags and rod.
LEMMA SameAxis ==
  ASSUME NEW n, NEW k, NEW a, NEW p, NEW u, NEW hm, AxisIs(n, a, p, u, hm),
         k.beat = n.beat, k.sta[a] = n.sta[a], k.rod[a] = n.rod[a]
  PROVE  AxisIs(k, a, p, u, hm)
  BY DEF AxisIs

\* Both turns keep the handler and the timer, and the last that ends is noticed.
LEMMA BothTurn ==
  ASSUME m \in Machine
  PROVE  /\ Both \in Machine /\ Both.beat = m.beat /\ Both.on = m.on
         /\ Busy(m) /\ ~Busy(Both) => Turn(m, "h").ended \/ Turn(Turn(m, "h").n, "v").ended
         /\ Turn(m, "h").move \in {-1, 0, 1} /\ Turn(Turn(m, "h").n, "v").move \in {-1, 0, 1}
         /\ Turn(m, "h").n \in Machine /\ Turn(m, "h").n.beat = m.beat
         /\ Turn(m, "h").n.sta["v"] = m.sta["v"] /\ Turn(m, "h").n.rod["v"] = m.rod["v"]
         /\ Both.sta["h"] = Turn(m, "h").n.sta["h"] /\ Both.rod["h"] = Turn(m, "h").n.rod["h"]
<1> DEFINE h == Turn(m, "h")  v == Turn(h.n, "v")
<1>1. /\ Kept(m, h.n, "h") /\ h.move \in {-1, 0, 1}
      /\ m.sta["h"].running /\ ~h.n.sta["h"].running => h.ended
  BY TurnKeeps, AxesAre
<1> HIDE DEF h
<1>2. h.n \in Machine /\ h.n.beat = m.beat /\ h.n.on = m.on /\ h.n.sta["v"] = m.sta["v"] /\ h.n.rod["v"] = m.rod["v"]
  BY <1>1, AxesAre DEF Kept
<1>3. /\ Kept(h.n, v.n, "v") /\ v.move \in {-1, 0, 1}
      /\ h.n.sta["v"].running /\ ~v.n.sta["v"].running => v.ended
  BY <1>2, TurnKeeps, AxesAre
<1> HIDE DEF v
<1>4. v.n \in Machine /\ v.n.beat = m.beat /\ v.n.on = m.on /\ v.n.sta["h"] = h.n.sta["h"] /\ v.n.rod["h"] = h.n.rod["h"]
  BY <1>2, <1>3, AxesAre DEF Kept
<1>5. Busy(m) /\ ~Busy(v.n) => h.ended \/ v.ended
  BY <1>1, <1>2, <1>3, <1>4 DEF Busy
<1> QED BY <1>1, <1>2, <1>3, <1>4, <1>5 DEF h, v, Both

\* A beat keeps the driver in the know of both axes.
LEMMA BothAxes ==
  ASSUME LongEnough, HasLimits, dead = {}, m \in Machine, phys \in [Axis -> 0 .. End], NEW u \in BOOLEAN,
         \A a \in Axis : AxisIs(m, a, phys[a], u, home[a])
  PROVE  \A a \in Axis : AxisIs(Both, a, Drifted[a], u, home[a])
<1> DEFINE h == Turn(m, "h")  v == Turn(h.n, "v")
<1>1. AxisIs(h.n, "h", Stalled(phys["h"] + h.move), u, home["h"])
  BY TurnOfAxis, AxesAre
<1>2. h.n \in Machine /\ h.n.beat = m.beat /\ h.n.sta["v"] = m.sta["v"] /\ h.n.rod["v"] = m.rod["v"]
      /\ v.n.beat = m.beat /\ v.n.sta["h"] = h.n.sta["h"] /\ v.n.rod["h"] = h.n.rod["h"]
  BY BothTurn DEF Both
<1> HIDE DEF h
<1>3. AxisIs(h.n, "v", phys["v"], u, home["v"])
  <2>1. AxisIs(m, "v", phys["v"], u, home["v"])
    BY AxesAre
  <2> QED BY <1>2, <2>1, SameAxis
<1>4. AxisIs(v.n, "v", Stalled(phys["v"] + v.move), u, home["v"])
  BY <1>2, <1>3, TurnOfAxis, AxesAre
<1> HIDE DEF v
<1>5. AxisIs(v.n, "h", Stalled(phys["h"] + h.move), u, home["h"])
  BY <1>1, <1>2, SameAxis
<1>6. Both = v.n /\ Drifted["h"] = Stalled(phys["h"] + h.move) /\ Drifted["v"] = Stalled(phys["v"] + v.move)
  BY DEF Both, Drifted, h, v
<1> QED BY <1>4, <1>5, <1>6, AxesAre

\* A beat keeps both axes on their way.
LEMMA BothAim ==
  ASSUME LongEnough, HasLimits, dead = {}, m \in Machine, phys \in [Axis -> 0 .. End], NEW u \in BOOLEAN,
         \A a \in Axis : AxisIs(m, a, phys[a], u, home[a]), m.beat = "run", NEW e \in [Axis -> Nat],
         \A a \in Axis : Towards(m.sta[a], m.rod[a], e[a])
  PROVE  \A a \in Axis : Towards(Both.sta[a], Both.rod[a], e[a])
<1> DEFINE h == Turn(m, "h")  v == Turn(h.n, "v")
<1>1. Towards(h.n.sta["h"], h.n.rod["h"], e["h"])
  BY TurnAims, AxesAre
<1>2. h.n \in Machine /\ h.n.beat = m.beat /\ h.n.sta["v"] = m.sta["v"] /\ h.n.rod["v"] = m.rod["v"]
      /\ v.n.beat = m.beat /\ v.n.sta["h"] = h.n.sta["h"] /\ v.n.rod["h"] = h.n.rod["h"]
  BY BothTurn DEF Both
<1> HIDE DEF h
<1>3. AxisIs(h.n, "v", phys["v"], u, home["v"]) /\ Towards(h.n.sta["v"], h.n.rod["v"], e["v"])
  <2>1. AxisIs(m, "v", phys["v"], u, home["v"]) /\ Towards(m.sta["v"], m.rod["v"], e["v"])
    BY AxesAre
  <2> QED BY <1>2, <2>1, SameAxis
<1>4. Towards(v.n.sta["v"], v.n.rod["v"], e["v"])
  BY <1>2, <1>3, TurnAims, AxesAre
<1> HIDE DEF v
<1>5. Towards(v.n.sta["h"], v.n.rod["h"], e["h"])
  BY <1>1, <1>2
<1>6. Both = v.n
  BY DEF Both, h, v
<1> QED BY <1>4, <1>5, <1>6, AxesAre

\* The handler that follows.
LEMMA ThenIs ==
  ASSUME NEW n \in Machine, ~Busy(n), points \in Presets
  PROVE  /\ Then(n) \in Machine
         /\ n.beat = "run" => Then(n).on = FALSE /\ Then(n).beat = "run" /\ Then(n).sta = n.sta /\ Then(n).rod = n.rod
         /\ n.beat # "run" => Then(n).on = TRUE
         /\ n.beat = "zero" => Then(n) = ThenRange(n) /\ Busy(Then(n))
         /\ n.beat = "range" => Then(n) = Begun(HomeWay(Found(n)), Found(n)) /\ Then(n).beat = "run"
<1>1. CASE n.beat = "zero"
  <2>1. Then(n) = ThenRange(n)
    BY <1>1 DEF Then
  <2>2. Busy(Then(n))
    BY <2>1, ThenRangeIs, AxesAre DEF Busy
  <2> QED BY <1>1, <2>1, <2>2, ThenRangeIs
<1>2. CASE n.beat = "range"
  <2>1. Then(n) = ThenReturn(n)
    BY <1>2 DEF Then
  <2>2. Then(n) = Begun(HomeWay(Found(n)), Found(n))
    BY <2>1, ThenReturnIs
  <2>3. Found(n) \in Machine /\ HomeWay(Found(n)) \in Moves
    BY FoundIs
  <2>4. LET k == Begun(HomeWay(Found(n)), Found(n)) IN k \in Machine /\ k.beat = "run" /\ k.on = TRUE
    BY <2>3, BegunIs
  <2> QED BY <1>2, <2>2, <2>4
<1>3. CASE n.beat = "run"
  <2>1. Then(n) = [n EXCEPT !.on = FALSE]
    BY <1>3 DEF Then
  <2>2. \A x \in BOOLEAN : LET k == [n EXCEPT !.on = x] IN k \in Machine /\ k.on = x /\ k.beat = n.beat /\ k.sta = n.sta /\ k.rod = n.rod
    BY DEF Machine
  <2> QED BY <1>3, <2>1, <2>2
<1> QED BY <1>1, <1>2, <1>3 DEF Machine, Handler

\* The handler that follows knows the axes as well.
LEMMA ThenAxes ==
  ASSUME LongEnough, HasLimits, NEW n \in Machine, ~Busy(n), points \in Presets,
         NEW p \in [Axis -> 0 .. End], NEW u \in BOOLEAN, u => board = "F05",
         \A a \in Axis : AxisIs(n, a, p[a], u, home[a])
  PROVE  \A a \in Axis : AxisIs(Then(n), a, p[a], u, home[a])
<1> TAKE a \in Axis
<1> DEFINE f == n.sta[a]  r == n.rod[a]  k == Then(n)
<1>0. f \in Flags /\ r \in Rod /\ ~f.running /\ n.beat \in Handler
  BY AxesAre DEF Machine, Busy
<1>1. CASE n.beat = "zero"
  <2>1. ZeroAxis(f, r, p[a], u, home[a])
    BY <1>1 DEF AxisIs
  <2>2. k.beat = "range" /\ k.rod[a] = r /\ k.sta[a] = [f EXCEPT !.running = TRUE, !.due = TRUE]
    <3>1. k = ThenRange(n)
      BY <1>1, ThenIs
    <3>2. LET z == ThenRange(n)
          IN  /\ z.beat = "range" /\ z.rod = n.rod
              /\ z.sta[a] = [n.sta[a] EXCEPT !.running = TRUE, !.due = TRUE]
      BY ThenRangeIs
    <3> HIDE DEF k
    <3> QED BY <3>1, <3>2
  <2>3. RangeAxis([f EXCEPT !.running = TRUE, !.due = TRUE], r, p[a], u, home[a])
    BY <1>0, <2>1, RangeBegins
  <2> HIDE DEF f, r, k
  <2>4. AxisIs(k, a, p[a], u, home[a])
    BY <2>2, <2>3 DEF AxisIs
  <2> QED BY <2>4 DEF k
<1>2. CASE n.beat = "range"
  <2> DEFINE w == HomeWay(Found(n))  b == WayBack(r)
  <2>1. RangeAxis(f, r, p[a], u, home[a])
    BY <1>2 DEF AxisIs
  <2>2. /\ b \in Rod /\ b.cur = Full + 1 /\ p[a] = End
        /\ RunAxis(f, b, p[a], FALSE, home[a])
        /\ u => b.pool <= Full /\ home[a] = Steps(Full - b.pool)
    <3>1. p[a] \in 0 .. End OBVIOUS
    <3> HIDE DEF f, r
    <3> QED BY <1>0, <2>1, <3>1, WayBackIs
  <2>3. Found(n) \in Machine /\ Found(n).sta[a] = f /\ Found(n).rod[a] = b /\ w \in Moves
    BY FoundIs
  <2>4. By(w, a) = b.pool /\ By(w, a) \in Nat /\ Anti(w, a) \in BOOLEAN
    <3>1. Found(n).rod["h"] = WayBack(n.rod["h"]) /\ Found(n).rod["v"] = WayBack(n.rod["v"])
      BY FoundIs, AxesAre
    <3>2. By(w, a) = b.pool
      BY <3>1, AxesAre DEF By, HomeWay
    <3> QED BY <2>3, <3>2, AntiIs
  <2>5. u => Anti(w, a)
    BY AxesAre DEF Anti, HomeWay
  <2>6. k = Begun(w, Found(n)) /\ k.beat = "run"
    BY <1>2, ThenIs
  <2> HIDE DEF w, b, f, r, k
  <2> DEFINE q == Filled(By(w, a), Anti(w, a), b)
  <2>a. PoolOf(w, Found(n), a) = q
    BY <2>3 DEF PoolOf
  <2>b. LET z == Begun(w, Found(n))
        IN  /\ z.rod[a] = [Found(n).rod[a] EXCEPT !.pool = PoolOf(w, Found(n), a)]
            /\ \E x \in BOOLEAN : z.sta[a] = BegunFlags(Found(n).sta[a], By(w, a), Anti(w, a), PoolOf(w, Found(n), a), x)
    BY <2>3, BegunIs
  <2> HIDE DEF q
  <2>7. PICK x \in BOOLEAN : k.sta[a] = BegunFlags(f, By(w, a), Anti(w, a), q, x)
    BY <2>3, <2>6, <2>a, <2>b, Zenon
  <2>8. k.rod[a] = [b EXCEPT !.pool = q]
    BY <2>3, <2>6, <2>a, <2>b, Zenon
  <2>9. RunAxis(BegunFlags(f, By(w, a), Anti(w, a), q, x), [b EXCEPT !.pool = q], p[a], u, home[a])
    <3>1. p[a] \in 0 .. End OBVIOUS
    <3>2. u => Anti(w, a) /\ p[a] = End /\ b.cur = Full + 1 /\ By(w, a) <= Full /\ home[a] = Steps(Full - By(w, a))
      BY <2>2, <2>4, <2>5
    <3>3. f \in Flags /\ ~f.running /\ b \in Rod /\ RunAxis(f, b, p[a], FALSE, home[a])
      BY <1>0, <2>2
    <3> QED BY <2>4, <3>1, <3>2, <3>3, MoveBegins DEF q
  <2>10. AxisIs(k, a, p[a], u, home[a])
    BY <2>6, <2>7, <2>8, <2>9 DEF AxisIs
  <2> QED BY <2>10 DEF k
<1>3. CASE n.beat = "run"
  <2>1. k.beat = n.beat /\ k.sta[a] = n.sta[a] /\ k.rod[a] = n.rod[a]
    BY <1>3, ThenIs
  <2> HIDE DEF k
  <2>2. AxisIs(k, a, p[a], u, home[a])
    BY <2>1, SameAxis
  <2> QED BY <2>2 DEF k
<1> QED BY <1>0, <1>1, <1>2, <1>3 DEF Handler

-----------------------------------------------------------------------------
(* What holds for any constants.                                           *)

\* The types that are kept whatever the bounds.
TypedInv ==
    /\ m \in Machine /\ phys \in [Axis -> 0 .. End] /\ loaded \in [Axis -> Flags]
    /\ points \in Presets /\ path \in [1 .. PathLen -> Entries]
    /\ order \in Nat /\ cruising \in Nat
    /\ undone \in BOOLEAN /\ disturbed \in BOOLEAN /\ ready \in BOOLEAN /\ meddled \in BOOLEAN

\* While the self-test looks for a switch, a motor runs.
DrivenInv == ~undone => (Busy(m) => m.on) /\ (m.beat # "run" => Busy(m))

\* The path of a cruise nobody meddles with is good as far as it has come.
PathInv ==
    cruising > 0 /\ ~meddled => /\ cruising = 1 /\ PathIsGood
                                /\ \A p \in 1 .. Place : p <= PathLen /\ path[p] # 0

BaseInv == TypedInv /\ DrivenInv /\ PathInv

\* What the requests that are not about the cruise leave alone.
Frame == UNCHANGED <<plan, cruiseVars>>

\* The steps of the specification.
LEMMA NextIs ==
  ASSUME [Next]_vars
  PROVE  \/ \E act \in Orders : Start(act) /\ Frame /\ (act.kind = "preset" => act.point \in Point)
         \/ StopBegin /\ Frame
         \/ \E n \in Point, s \in Stay :
               /\ SetPresetPoint(n, s) /\ Meddles /\ UNCHANGED <<plan, path, ready, order, timer, cruising>>
               /\ plan = "cruise" => m.beat = "run"
         \/ \E n \in Point : ClrPresetPoint(n) /\ Meddles /\ UNCHANGED <<plan, path, ready, order, timer, cruising>>
         \/ \E c \in Config : InportPreset(c) /\ UNCHANGED plan
         \/ StartCruise /\ UNCHANGED plan
         \/ \E s \in [1 .. PathLen -> Entries] : SetCruisePath(s) /\ plan = "cruise" /\ m.beat = "run" /\ UNCHANGED plan
         \/ StopOther /\ Frame
         \/ StopLoad /\ Frame
         \/ StopStore /\ Frame
         \/ Beat /\ Frame
         \/ CruiseMove
         \/ CruiseStay
         \/ UNCHANGED vars
<1>0. ASSUME NEW w \in Way PROVE w \in Moves
  <2>1. w \in [h : 0 .. Width - 1, v : 0 .. Width - 1, right : BOOLEAN, up : BOOLEAN, loitor : {FALSE}]
    BY PanTiltAssumption
  <2>2. \A x \in 0 .. Width - 1 : x \in Nat
    BY ConstantsAre
  <2>3. FALSE \in BOOLEAN
    OBVIOUS
  <2>4. w.h \in Nat /\ w.v \in Nat
    BY <2>1, <2>2
  <2>5. w.right \in BOOLEAN /\ w.up \in BOOLEAN /\ w.loitor \in BOOLEAN
    BY <2>1, <2>3, Zenon
  <2>6. w = [h |-> w.h, v |-> w.v, right |-> w.right, up |-> w.up, loitor |-> w.loitor]
    BY <2>1, Zenon
  <2> QED BY <2>4, <2>5, <2>6, Zenon DEF Moves
<1>1. CASE Request
  <2>1. ASSUME NEW act \in Actions, Start(act), Frame
        PROVE  \E x \in Orders : Start(x) /\ Frame /\ (x.kind = "preset" => x.point \in Point)
    <3>1. act \in Orders /\ (act.kind = "preset" => act.point \in Point)
      BY <1>0 DEF Actions, Orders
    <3> QED BY <2>1, <3>1
  <2>2. ASSUME NEW w \in Way, Start([kind |-> "steps", by |-> w]), Frame
        PROVE  \E x \in Orders : Start(x) /\ Frame /\ (x.kind = "preset" => x.point \in Point)
    <3> DEFINE act == [kind |-> "steps", by |-> w]
    <3>1. act \in Orders /\ (act.kind = "preset" => act.point \in Point)
      BY <1>0 DEF Orders
    <3> HIDE DEF act
    <3>2. Start(act) /\ Frame
      BY <2>2 DEF act
    <3> QED BY <3>1, <3>2
  <2>3. /\ UNCHANGED plan /\ (plan = "cruise" => m.beat = "run")
        /\ \/ (\E act \in Actions : Start(act)) /\ UNCHANGED cruiseVars
           \/ (\E w \in Way : Start([kind |-> "steps", by |-> w])) /\ UNCHANGED cruiseVars
           \/ StopBegin /\ UNCHANGED cruiseVars
           \/ (\E n \in Point, s \in Stay : SetPresetPoint(n, s)) /\ Meddles
              /\ UNCHANGED <<path, ready, order, timer, cruising>>
           \/ (\E n \in Point : ClrPresetPoint(n)) /\ Meddles
              /\ UNCHANGED <<path, ready, order, timer, cruising>>
           \/ (\E c \in Config : InportPreset(c))
           \/ StartCruise
           \/ plan = "cruise" /\ \E s \in [1 .. PathLen -> Entries] : SetCruisePath(s)
    BY <1>1, Zenon DEF Request
  <2>4. CASE (\E act \in Actions : Start(act)) /\ UNCHANGED cruiseVars
    <3>1. Frame BY <2>3, <2>4 DEF Frame
    <3> QED BY <2>1, <2>4, <3>1
  <2>5. CASE (\E w \in Way : Start([kind |-> "steps", by |-> w])) /\ UNCHANGED cruiseVars
    <3>1. Frame BY <2>3, <2>5 DEF Frame
    <3> QED BY <2>2, <2>5, <3>1
  <2>6. CASE StopBegin /\ UNCHANGED cruiseVars
    BY <2>3, <2>6, Zenon DEF Frame
  <2>7. CASE (\E n \in Point, s \in Stay : SetPresetPoint(n, s)) /\ Meddles /\ UNCHANGED <<path, ready, order, timer, cruising>>
    BY <2>3, <2>7, Zenon
  <2>8. CASE (\E n \in Point : ClrPresetPoint(n)) /\ Meddles /\ UNCHANGED <<path, ready, order, timer, cruising>>
    BY <2>3, <2>8, Zenon
  <2>9. CASE \E c \in Config : InportPreset(c)
    BY <2>3, <2>9, Zenon
  <2>10. CASE StartCruise
    BY <2>3, <2>10, Zenon
  <2>11. CASE plan = "cruise" /\ \E s \in [1 .. PathLen -> Entries] : SetCruisePath(s)
    BY <2>3, <2>11, Zenon
  <2> QED BY <2>3, <2>4, <2>5, <2>6, <2>7, <2>8, <2>9, <2>10, <2>11, Zenon
<1>2. CASE StopGoesOn
  BY <1>2, Zenon DEF StopGoesOn, Others, StopStep, Frame
<1>3. CASE BeatComes
  BY <1>3, Zenon DEF BeatComes, Others, Frame
<1>4. CASE CruiseAutoRunning
  BY <1>4, Zenon DEF CruiseAutoRunning
<1>5. CASE UNCHANGED vars
  BY <1>5, Zenon
<1> QED BY <1>1, <1>2, <1>3, <1>4, <1>5, Zenon DEF Next

\* A beat that rests the motors, or turns them.
LEMMA BeatIs ==
  ASSUME Beat, m \in Machine, points \in Presets
  PROVE  /\ m.on
         /\ \/ /\ m.beat = "run" /\ phys' = phys /\ m' \in Machine
               /\ m'.beat = m.beat /\ m'.on = m.on /\ m'.sta = m.sta /\ m'.rod = m.rod
            \/ phys' = Drifted /\ m' = Then(Both) /\ ~Busy(Both)
            \/ phys' = Drifted /\ m' = Both /\ (Busy(m) => Busy(Both))
<1> DEFINE h == Turn(m, "h")  v == Turn(h.n, "v")
<1>1. CASE m.beat = "run" /\ m.loitor > 0
  <2>1. m' = [m EXCEPT !.loitor = @ - 1] /\ phys' = phys /\ m.on
    BY <1>1 DEF Beat
  <2>2. m.loitor - 1 \in Nat
    BY <1>1 DEF Machine
  <2>3. m' \in Machine /\ m'.beat = m.beat /\ m'.on = m.on /\ m'.sta = m.sta /\ m'.rod = m.rod
    BY <2>1, <2>2 DEF Machine
  <2> QED BY <1>1, <2>1, <2>3
<1>2. CASE ~(m.beat = "run" /\ m.loitor > 0)
  <2>1. /\ m' = IF AllEnd(v.n, h.ended \/ v.ended) THEN Then(v.n) ELSE v.n
        /\ phys' = [h |-> Stalled(phys["h"] + h.move), v |-> Stalled(phys["v"] + v.move)]
        /\ m.on
    BY <1>2, Zenon DEF Beat
  <2>2. v.n = Both /\ phys' = Drifted
    BY <2>1 DEF Both, Drifted
  <2>3. Busy(m) /\ ~Busy(Both) => h.ended \/ v.ended
    BY BothTurn
  <2> HIDE DEF h, v
  <2>4. CASE AllEnd(v.n, h.ended \/ v.ended)
    BY <2>1, <2>2, <2>4, Zenon DEF AllEnd
  <2>5. CASE ~AllEnd(v.n, h.ended \/ v.ended)
    BY <2>1, <2>2, <2>3, <2>5, Zenon DEF AllEnd
  <2> QED BY <2>4, <2>5
<1> QED BY <1>1, <1>2

\* Motors stay between their ends.
LEMMA DriftedTyped ==
  ASSUME m \in Machine, phys \in [Axis -> 0 .. End]
  PROVE  Drifted \in [Axis -> 0 .. End]
<1>1. End \in Nat
  BY ConstantsAre DEF End
<1>2. \A p \in Int : Stalled(p) \in 0 .. End
  BY <1>1 DEF Stalled
<1>3. Turn(m, "h").move \in Int /\ Turn(Turn(m, "h").n, "v").move \in Int
  BY BothTurn
<1>4. phys["h"] \in Int /\ phys["v"] \in Int
  BY <1>1, AxesAre
<1>5. Drifted["h"] \in 0 .. End /\ Drifted["v"] \in 0 .. End
  <2>1. Drifted["h"] = Stalled(phys["h"] + Turn(m, "h").move) /\ Drifted["v"] = Stalled(phys["v"] + Turn(Turn(m, "h").n, "v").move)
    BY DEF Drifted
  <2> QED BY <1>2, <1>3, <1>4, <2>1
<1>6. Drifted = [a \in Axis |-> Drifted[a]]
  BY DEF Drifted, Axis
<1> QED BY <1>5, <1>6, AxesAre

\* The driver that is loaded.
LEMMA InitIsBase == Init => BaseInv
<1> SUFFICES ASSUME Init PROVE BaseInv
  OBVIOUS
<1> DEFINE flags == [rhythm |-> 0, due |-> HasLimits, initing |-> HasLimits,
                     running |-> HasLimits, anti |-> FALSE, reducing |-> FALSE]
           rod0 == [pool |-> 0, cur |-> 0, range |-> 0]
<1>1. HasLimits \in BOOLEAN /\ FALSE \in BOOLEAN
  BY DEF HasLimits
<1>2. flags \in Flags
  <2>1. 0 \in 0 .. Phases - 1
    BY ConstantsAre
  <2> QED BY <1>1, <2>1, Zenon DEF Flags
<1>3. rod0 \in Rod
  BY DEF Rod
<1>4. /\ loaded = [a \in Axis |-> flags]
      /\ m = [sta |-> [a \in Axis |-> flags], rod |-> [a \in Axis |-> rod0],
              loitor |-> 0, ratio |-> 0, count |-> 0,
              beat |-> IF HasLimits THEN "zero" ELSE "run", on |-> HasLimits]
  BY Zenon DEF Init, PanTiltInit
<1>5. flags.running = HasLimits
  BY Zenon
<1> HIDE DEF flags, rod0
<1>6. m \in Machine
  <2> DEFINE sta == [a \in Axis |-> flags]  rods == [a \in Axis |-> rod0]
  <2>1. sta \in [Axis -> Flags] /\ rods \in [Axis -> Rod]
    BY <1>2, <1>3
  <2>2. (IF HasLimits THEN "zero" ELSE "run") \in Handler
    BY DEF Handler
  <2>3. 0 \in Nat
    OBVIOUS
  <2>4. m = [sta |-> sta, rod |-> rods, loitor |-> 0, ratio |-> 0, count |-> 0,
             beat |-> IF HasLimits THEN "zero" ELSE "run", on |-> HasLimits]
    BY <1>4
  <2> HIDE DEF sta, rods
  <2> QED BY <1>1, <2>1, <2>2, <2>3, <2>4, Zenon DEF Machine
<1>7. loaded \in [Axis -> Flags]
  BY <1>2, <1>4
<1>8. phys \in [Axis -> 0 .. End]
  <2>1. PICK s \in Home : phys = [a \in Axis |-> Phases * s[a]]
    BY DEF Init, PanTiltInit
  <2>2. \A a \in Axis : s[a] \in 0 .. Full
    BY PanTiltAssumption DEF Axis
  <2>3. \A x \in 0 .. Full : Phases * x \in 0 .. End
    <3> TAKE x \in 0 .. Full
    <3>1. Steps(x) \in Nat /\ 0 <= Steps(x) /\ Steps(x) <= End /\ End \in Nat
      BY PlacesAre
    <3> QED BY <3>1 DEF Steps
  <2> QED BY <2>1, <2>2, <2>3
<1>9. points \in Presets
  <2>1. points = [n \in Point |-> [set |-> FALSE, x |-> 0, y |-> 0, stay |-> 0]]
    BY DEF Init, PanTiltInit
  <2>2. [set |-> FALSE, x |-> 0, y |-> 0, stay |-> 0] \in [set : BOOLEAN, x : Nat, y : Nat, stay : Nat]
    OBVIOUS
  <2> QED BY <2>1, <2>2, Zenon DEF Presets
<1>10. path \in [1 .. PathLen -> Entries]
  BY DEF Init, Entries
<1>11. /\ order \in Nat /\ cruising \in Nat /\ cruising = 0
       /\ undone \in BOOLEAN /\ disturbed \in BOOLEAN /\ ready \in BOOLEAN /\ meddled \in BOOLEAN
  BY DEF Init, PanTiltInit
<1>12. (Busy(m) => m.on) /\ (m.beat # "run" => Busy(m))
  <2>1. m.on = HasLimits /\ m.beat = (IF HasLimits THEN "zero" ELSE "run") /\ m.sta = [a \in Axis |-> flags]
    BY <1>4
  <2>2. m.sta["h"] = flags /\ m.sta["v"] = flags
    BY <2>1, AxesAre
  <2> QED BY <1>5, <2>1, <2>2 DEF Busy
<1> QED BY <1>6, <1>7, <1>8, <1>9, <1>10, <1>11, <1>12 DEF BaseInv, TypedInv, DrivenInv, PathInv

\* A step that touches neither path nor presets.
LEMMA PathStays ==
  ASSUME PathInv, UNCHANGED <<path, order, cruising, meddled, points>>
  PROVE  PathInv'
  BY DEF PathInv, PathIsGood, Place

\* A request for a move.
LEMMA StartKeepsBase ==
  ASSUME BaseInv, NEW act \in Orders, m' = Started(act, m), disturbed' \in BOOLEAN,
         UNCHANGED <<phys, loaded, undone, points>>, UNCHANGED cruiseVars
  PROVE  BaseInv'
<1>1. m \in Machine /\ points \in Presets
  BY DEF BaseInv, TypedInv
<1>2. m' \in Machine /\ (m' = m \/ (m'.on = TRUE /\ m'.beat = "run"))
  BY <1>1, StartedIs
<1>3. TypedInv'
  BY <1>2 DEF BaseInv, TypedInv, cruiseVars
<1>4. DrivenInv'
  <2>1. CASE m' = m
    BY <2>1 DEF BaseInv, DrivenInv, Busy
  <2>2. CASE m'.on = TRUE /\ m'.beat = "run"
    BY <2>2 DEF DrivenInv
  <2> QED BY <1>2, <2>1, <2>2
<1>5. PathInv'
  BY PathStays DEF BaseInv, cruiseVars
<1> QED BY <1>3, <1>4, <1>5 DEF BaseInv

\* A pool that is emptied.
LEMMA EmptiedIs ==
  ASSUME m \in Machine, NEW a \in Axis
  PROVE  LET k == [m EXCEPT !.rod[a].pool = 0]
         IN  /\ k \in Machine /\ k.sta = m.sta /\ k.on = m.on /\ k.beat = m.beat
             /\ k.rod[a] = [m.rod[a] EXCEPT !.pool = 0]
             /\ \A b \in Axis \ {a} : k.rod[b] = m.rod[b]
<1>1. \A r \in Rod : [r EXCEPT !.pool = 0] \in Rod
  BY DEF Rod
<1>2. [m EXCEPT !.rod[a].pool = 0] = [m EXCEPT !.rod[a] = [m.rod[a] EXCEPT !.pool = 0]]
  BY DEF Machine
<1>3. [m.rod[a] EXCEPT !.pool = 0] \in Rod
  BY <1>1 DEF Machine
<1>4. \A q \in Rod : LET k == [m EXCEPT !.rod[a] = q]
                      IN  /\ k \in Machine /\ k.sta = m.sta /\ k.on = m.on /\ k.beat = m.beat /\ k.rod[a] = q
                          /\ \A b \in Axis \ {a} : k.rod[b] = m.rod[b]
  BY DEF Machine
<1> QED BY <1>2, <1>3, <1>4

\* A stop that empties a pool.
LEMMA EmptiesKeepBase ==
  ASSUME BaseInv, NEW a \in Axis, m' = [m EXCEPT !.rod[a].pool = 0], disturbed' \in BOOLEAN,
         UNCHANGED <<phys, loaded, undone, points>>, UNCHANGED cruiseVars
  PROVE  BaseInv'
<1>1. m \in Machine
  BY DEF BaseInv, TypedInv
<1>2. m' \in Machine /\ m'.sta = m.sta /\ m'.on = m.on /\ m'.beat = m.beat
  BY <1>1, EmptiedIs
<1>3. TypedInv'
  BY <1>2 DEF BaseInv, TypedInv, cruiseVars
<1>4. DrivenInv'
  BY <1>2 DEF BaseInv, DrivenInv, Busy
<1>5. PathInv'
  BY PathStays DEF BaseInv, cruiseVars
<1> QED BY <1>3, <1>4, <1>5 DEF BaseInv

\* A beat.
LEMMA BeatKeepsBase ==
  ASSUME BaseInv, Beat, UNCHANGED cruiseVars
  PROVE  BaseInv'
<1>1. m \in Machine /\ points \in Presets /\ phys \in [Axis -> 0 .. End]
  BY DEF BaseInv, TypedInv
<1>2. UNCHANGED <<stop, loaded, undone, disturbed, points>>
  BY DEF Beat
<1>b. /\ m.on
      /\ \/ /\ m.beat = "run" /\ phys' = phys /\ m' \in Machine
            /\ m'.beat = m.beat /\ m'.on = m.on /\ m'.sta = m.sta /\ m'.rod = m.rod
         \/ phys' = Drifted /\ m' = Then(Both) /\ ~Busy(Both)
         \/ phys' = Drifted /\ m' = Both /\ (Busy(m) => Busy(Both))
  BY <1>1, BeatIs
<1>3. Both \in Machine /\ Both.beat = m.beat /\ Both.on = m.on
  BY <1>1, BothTurn
<1>4. Drifted \in [Axis -> 0 .. End]
  BY <1>1, DriftedTyped
<1>5. PathInv'
  BY <1>2, PathStays DEF BaseInv, cruiseVars
<1>6. CASE /\ m.beat = "run" /\ phys' = phys /\ m' \in Machine
           /\ m'.beat = m.beat /\ m'.on = m.on /\ m'.sta = m.sta /\ m'.rod = m.rod
  <2>1. TypedInv'
    BY <1>1, <1>2, <1>6 DEF BaseInv, TypedInv, cruiseVars
  <2>2. DrivenInv'
    BY <1>2, <1>6 DEF BaseInv, DrivenInv, Busy
  <2> QED BY <1>5, <2>1, <2>2 DEF BaseInv
<1>7. CASE phys' = Drifted /\ m' = Then(Both) /\ ~Busy(Both)
  <2>0. /\ m' \in Machine
        /\ Both.beat = "run" => m'.beat = "run" /\ m'.sta = Both.sta
        /\ Both.beat # "run" => m'.on = TRUE
        /\ Both.beat = "zero" => Busy(m')
        /\ Both.beat = "range" => m'.beat = "run"
    BY <1>1, <1>3, <1>7, ThenIs
  <2>1. TypedInv'
    BY <1>2, <1>4, <1>7, <2>0 DEF BaseInv, TypedInv, cruiseVars
  <2>2. Both.beat \in Handler
    BY <1>3 DEF Machine
  <2>3. Busy(m)' <=> Busy(m')
    BY DEF Busy
  <2>4. Both.beat = "run" => ~Busy(m')
    BY <1>7, <2>0 DEF Busy
  <2>5. DrivenInv'
    BY <2>0, <2>2, <2>3, <2>4 DEF DrivenInv, Handler
  <2> QED BY <1>5, <2>1, <2>5 DEF BaseInv
<1>8. CASE phys' = Drifted /\ m' = Both /\ (Busy(m) => Busy(Both))
  <2>1. TypedInv'
    BY <1>2, <1>3, <1>4, <1>8 DEF BaseInv, TypedInv, cruiseVars
  <2>3. Busy(m)' <=> Busy(Both)
    BY <1>8 DEF Busy
  <2>4. m'.on /\ m'.beat = m.beat
    BY <1>b, <1>3, <1>8
  <2>5. DrivenInv'
    BY <1>2, <1>8, <2>3, <2>4 DEF BaseInv, DrivenInv
  <2> QED BY <1>5, <2>1, <2>5 DEF BaseInv
<1> QED BY <1>b, <1>6, <1>7, <1>8
\* The order of a cruise is twice its place, or one more.
LEMMA HalvesAre ==
  ASSUME NEW i \in Nat
  PROVE  /\ i \div 2 \in Nat
         /\ i % 2 = 0 => (i + 1) \div 2 = i \div 2
         /\ i % 2 = 1 => (i + 1) \div 2 = i \div 2 + 1
         /\ i % 2 = 0 \/ i % 2 = 1
         /\ i % 2 = 0 <=> (i + 1) % 2 = 1
  OBVIOUS

\* A request about the presets or the path meddles with the cruise under way.
LEMMA MeddlingKeepsBase ==
  ASSUME BaseInv, Meddles, points' \in Presets, path' \in [1 .. PathLen -> Entries], ready' \in BOOLEAN,
         UNCHANGED <<phys, m, loaded, undone, disturbed, order, cruising>>
  PROVE  BaseInv'
<1>1. TypedInv'
  <2>1. meddled' \in BOOLEAN
    BY DEF Meddles
  <2> QED BY <2>1 DEF BaseInv, TypedInv, Entries
<1>2. DrivenInv'
  BY DEF BaseInv, DrivenInv, Busy
<1>3. PathInv'
  BY DEF BaseInv, PathInv, Meddles
<1> QED BY <1>1, <1>2, <1>3 DEF BaseInv

\* Presets that are set, cleared and brought in are presets.
LEMMA PresetsSet ==
  ASSUME m \in Machine, points \in Presets, NEW n \in Point
  PROVE  /\ \A s \in Stay : [points EXCEPT ![n] = [set |-> TRUE, x |-> m.rod["h"].cur, y |-> m.rod["v"].cur, stay |-> s]] \in Presets
         /\ [points EXCEPT ![n].set = FALSE] \in Presets
         /\ \A c \in Config : [k \in Point |-> [c[k] EXCEPT !.set = TRUE]] \in Presets
<1> DEFINE One == [set : BOOLEAN, x : Nat, y : Nat, stay : Nat]
<1>1. \A q \in One : [points EXCEPT ![n] = q] \in Presets
  BY DEF Presets
<1>2. \A q \in One, b \in BOOLEAN : [q EXCEPT !.set = b] \in One
  OBVIOUS
<1>3. m.rod["h"].cur \in Nat /\ m.rod["v"].cur \in Nat
  BY AxesAre DEF Machine, Rod
<1>4. ASSUME NEW s \in Stay PROVE [set |-> TRUE, x |-> m.rod["h"].cur, y |-> m.rod["v"].cur, stay |-> s] \in One
  <2>1. s \in Nat
    BY PanTiltAssumption
  <2> QED BY <1>3, <2>1, Zenon
<1>5. [points EXCEPT ![n].set = FALSE] = [points EXCEPT ![n] = [points[n] EXCEPT !.set = FALSE]]
  OBVIOUS
<1>6. points[n] \in One
  BY DEF Presets
<1>7. FALSE \in BOOLEAN /\ TRUE \in BOOLEAN
  OBVIOUS
<1>8. ASSUME NEW c \in Config PROVE [k \in Point |-> [c[k] EXCEPT !.set = TRUE]] \in Presets
  <2>1. ASSUME NEW k \in Point PROVE c[k] \in One
    <3>1. c[k] \in Preset
      BY CruiseAssumption
    <3>2. \A i \in 0 .. Width - 1 : i \in Nat
      BY ConstantsAre
    <3>3. \A i \in Stay \cup {0} : i \in Nat
      BY PanTiltAssumption
    <3> QED BY <3>1, <3>2, <3>3 DEF Preset
  <2>2. \A k \in Point : [c[k] EXCEPT !.set = TRUE] \in One
    BY <1>2, <1>7, <2>1, Zenon
  <2> QED BY <2>2 DEF Presets
<1> HIDE DEF One
<1> QED BY <1>1, <1>2, <1>4, <1>5, <1>6, <1>7, <1>8, Zenon

\* A cruise that is started.
LEMMA StartCruiseKeepsBase ==
  ASSUME BaseInv, StartCruise
  PROVE  BaseInv'
<1>1. TypedInv'
  <2>1. meddled' \in BOOLEAN
    BY DEF StartCruise, Meddles
  <2> QED BY <2>1 DEF BaseInv, TypedInv, StartCruise, Entries, ptVars
<1>2. DrivenInv'
  BY DEF BaseInv, DrivenInv, Busy, StartCruise, ptVars
<1>3. PathInv'
  <2>1. SUFFICES ASSUME ~meddled'
        PROVE  cruising' = 1 /\ PathIsGood' /\ \A p \in 1 .. Place' : p <= PathLen /\ path'[p] # 0
    BY DEF PathInv
  <2>2. cruising = 0 /\ cruising' = 1
    <3>1. cruising \in Nat /\ cruising' = cruising + 1 /\ meddled' = (meddled \/ cruising > 0)
      BY DEF StartCruise, Meddles, BaseInv, TypedInv
    <3>2. ~(cruising > 0)
      BY <2>1, <3>1
    <3> QED BY <3>1, <3>2
  <2>3. PathIsGood' /\ path'[1] # 0
    BY DEF StartCruise, PathIsGood, ptVars
  <2>4. Place' = 1
    BY DEF StartCruise, Place
  <2>5. 1 <= PathLen
    BY CruiseAssumption
  <2> QED BY <2>2, <2>3, <2>4, <2>5
<1> QED BY <1>1, <1>2, <1>3 DEF BaseInv

\* A stop that stores the status word.
LEMMA StopStoreKeepsBase ==
  ASSUME BaseInv, StopStore, UNCHANGED cruiseVars
  PROVE  BaseInv'
<1>1. m' \in Machine /\ m'.sta = loaded /\ m'.on = m.on /\ m'.beat = m.beat
  BY DEF BaseInv, TypedInv, StopStore, Machine
<1>2. TypedInv'
  BY <1>1 DEF BaseInv, TypedInv, StopStore, cruiseVars, Entries
<1>3. DrivenInv'
  BY <1>1 DEF BaseInv, DrivenInv, StopStore, Busy
<1>4. PathInv'
  BY PathStays DEF BaseInv, StopStore, cruiseVars
<1> QED BY <1>2, <1>3, <1>4 DEF BaseInv

\* A cruise that moves on stays at its place.
LEMMA CruiseMoveKeepsBase ==
  ASSUME BaseInv, CruiseMove
  PROVE  BaseInv' /\ Place' = Place
<1>0. order \in Nat /\ order % 2 = 0 /\ order' = order + 1
  BY DEF BaseInv, TypedInv, CruiseMove
<1>1. Place' = Place
  BY <1>0, HalvesAre DEF Place
<1>2. m \in Machine /\ points \in Presets
  BY DEF BaseInv, TypedInv
<1>3. path[Place] \in Point
  <2>1. Place \in 1 .. PathLen /\ path[Place] # 0
    BY <1>0, HalvesAre DEF CruiseMove, OnPath, Place
  <2> QED BY <2>1 DEF BaseInv, TypedInv, Entries
<1>4. m' \in Machine /\ (m' = m \/ (m'.on = TRUE /\ m'.beat = "run"))
  <2> DEFINE act == [kind |-> "preset", point |-> path[Place]]
  <2>1. act \in Orders
    BY <1>3 DEF Orders
  <2>2. m' = Started(act, m)
    BY DEF CruiseMove
  <2> HIDE DEF act
  <2> QED BY <1>2, <2>1, <2>2, StartedIs
<1>5. TypedInv'
  BY <1>0, <1>4 DEF BaseInv, TypedInv, CruiseMove, Entries
<1>6. DrivenInv'
  <2>1. CASE m' = m
    BY <2>1 DEF BaseInv, DrivenInv, Busy, CruiseMove
  <2>2. CASE m'.on = TRUE /\ m'.beat = "run"
    BY <2>2 DEF DrivenInv
  <2> QED BY <1>4, <2>1, <2>2
<1>7. PathInv'
  BY <1>1 DEF BaseInv, PathInv, PathIsGood, CruiseMove
<1> QED BY <1>1, <1>5, <1>6, <1>7 DEF BaseInv

\* A cruise that has stayed goes to the next place, or ends.
LEMMA CruiseStayKeepsBase ==
  ASSUME BaseInv, CruiseStay
  PROVE  BaseInv'
<1>0. order \in Nat /\ order % 2 = 1 /\ cruising \in Nat /\ cruising > 0 /\ Place \in Nat
  BY HalvesAre DEF BaseInv, TypedInv, CruiseStay, Place
<1>1. \/ UNCHANGED <<order, cruising>>
      \/ order' = order + 1 /\ cruising' = IF EndsPath(Place + 1) THEN cruising - 1 ELSE cruising
  BY DEF CruiseStay
<1>2. UNCHANGED <<ptVars, path, ready, meddled>>
  BY DEF CruiseStay
<1>3. TypedInv'
  <2>1. order' \in Nat /\ cruising' \in Nat
    BY <1>0, <1>1
  <2> QED BY <1>2, <2>1 DEF BaseInv, TypedInv, Entries, ptVars
<1>4. DrivenInv'
  BY <1>2 DEF BaseInv, DrivenInv, Busy, ptVars
<1>5. PathInv'
  <2>1. CASE UNCHANGED <<order, cruising>>
    BY <1>2, <2>1, PathStays DEF BaseInv, ptVars
  <2>2. CASE order' = order + 1 /\ cruising' = IF EndsPath(Place + 1) THEN cruising - 1 ELSE cruising
    <3>1. SUFFICES ASSUME cruising' > 0, ~meddled'
          PROVE  cruising' = 1 /\ PathIsGood' /\ \A p \in 1 .. Place' : p <= PathLen /\ path'[p] # 0
      BY DEF PathInv
    <3>2. cruising = 1 /\ PathIsGood /\ \A p \in 1 .. Place : p <= PathLen /\ path[p] # 0
      BY <1>0, <1>2, <3>1 DEF BaseInv, PathInv
    <3>3. ~EndsPath(Place + 1) /\ cruising' = 1
      BY <2>2, <3>1, <3>2
    <3>4. Place + 1 <= PathLen /\ path[Place + 1] # 0
      BY <1>0, <3>3, CruiseAssumption DEF EndsPath
    <3>5. Place' = Place + 1
      BY <1>0, <2>2, HalvesAre DEF Place
    <3>6. PathIsGood'
      BY <1>2, <3>2 DEF PathIsGood, ptVars
    <3>7. ASSUME NEW p \in 1 .. Place + 1 PROVE p <= PathLen /\ path[p] # 0
      <4>1. p \in 1 .. Place \/ p = Place + 1
        BY <1>0
      <4> QED BY <3>2, <3>4, <4>1
    <3> QED BY <1>2, <3>3, <3>5, <3>6, <3>7
  <2> QED BY <1>1, <2>1, <2>2
<1> QED BY <1>3, <1>4, <1>5 DEF BaseInv

\* Every step.
LEMMA StepKeepsBase == BaseInv /\ [Next]_vars => BaseInv'
<1> SUFFICES ASSUME BaseInv, [Next]_vars PROVE BaseInv'
  OBVIOUS
<1>0. m \in Machine /\ points \in Presets /\ disturbed \in BOOLEAN /\ ready \in BOOLEAN
      /\ path \in [1 .. PathLen -> Entries]
  BY DEF BaseInv, TypedInv
<1>1. CASE \E act \in Orders : Start(act) /\ Frame /\ (act.kind = "preset" => act.point \in Point)
  <2>1. PICK act \in Orders : Start(act) /\ Frame
    BY <1>1
  <2>2. disturbed' \in BOOLEAN /\ m' = Started(act, m) /\ UNCHANGED <<phys, loaded, undone, points>> /\ UNCHANGED cruiseVars
    BY <1>0, <2>1 DEF Start, Frame
  <2> QED BY <2>2, StartKeepsBase
<1>2. CASE StopBegin /\ Frame
  <2>1. /\ "h" \in Axis /\ m' = [m EXCEPT !.rod["h"].pool = 0] /\ disturbed' \in BOOLEAN
        /\ UNCHANGED <<phys, loaded, undone, points>> /\ UNCHANGED cruiseVars
    BY <1>2, AxesAre DEF StopBegin, Frame
  <2> QED BY <2>1, EmptiesKeepBase
<1>3. CASE \E n \in Point, s \in Stay :
               /\ SetPresetPoint(n, s) /\ Meddles /\ UNCHANGED <<plan, path, ready, order, timer, cruising>>
               /\ plan = "cruise" => m.beat = "run"
  <2>1. PICK n \in Point, s \in Stay : SetPresetPoint(n, s) /\ Meddles /\ UNCHANGED <<plan, path, ready, order, timer, cruising>>
    BY <1>3
  <2>2. points' \in Presets
    BY <1>0, <2>1, PresetsSet DEF SetPresetPoint, SetPoints
  <2> QED BY <1>0, <2>1, <2>2, MeddlingKeepsBase DEF SetPresetPoint, SetPoints
<1>4. CASE \E n \in Point : ClrPresetPoint(n) /\ Meddles /\ UNCHANGED <<plan, path, ready, order, timer, cruising>>
  <2>1. PICK n \in Point : ClrPresetPoint(n) /\ Meddles /\ UNCHANGED <<plan, path, ready, order, timer, cruising>>
    BY <1>4
  <2>2. points' \in Presets
    BY <1>0, <2>1, PresetsSet DEF ClrPresetPoint, SetPoints
  <2> QED BY <1>0, <2>1, <2>2, MeddlingKeepsBase DEF ClrPresetPoint, SetPoints
<1>5. CASE \E c \in Config : InportPreset(c) /\ UNCHANGED plan
  <2>1. PICK c \in Config : InportPreset(c)
    BY <1>5
  <2>2. points' \in Presets
    <3>1. points' = [k \in Point |-> [c[k] EXCEPT !.set = TRUE]]
      BY <2>1 DEF InportPreset, SetPoints
    <3>2. PICK n : n \in Point \/ Point = {}
      OBVIOUS
    <3>3. CASE n \in Point
      BY <1>0, <3>1, <3>3, PresetsSet
    <3>4. CASE Point = {}
      BY <3>1, <3>4 DEF Presets
    <3> QED BY <3>2, <3>3, <3>4
  <2> QED BY <1>0, <2>1, <2>2, MeddlingKeepsBase DEF InportPreset, SetPoints
<1>6. CASE StartCruise /\ UNCHANGED plan
  BY <1>6, StartCruiseKeepsBase
<1>7. CASE \E s \in [1 .. PathLen -> Entries] : SetCruisePath(s) /\ plan = "cruise" /\ m.beat = "run" /\ UNCHANGED plan
  <2>1. PICK s \in [1 .. PathLen -> Entries] : SetCruisePath(s)
    BY <1>7
  <2> DEFINE bad   == {i \in 1 .. PathLen : s[i] = 0 \/ ~points[s[i]].set}
             first == CHOOSE i \in bad \cup {PathLen + 1} : \A j \in bad : i <= j
             ends  == first <= PathLen /\ s[first] = 0
  <2>2. /\ path' = [i \in 1 .. PathLen |-> IF i < first \/ (i = first /\ ends) THEN s[i] ELSE path[i]]
        /\ ready' = (ready \/ (first > 1 /\ (ends \/ first > PathLen)))
        /\ Meddles /\ UNCHANGED <<ptVars, order, timer, cruising>>
    BY <2>1 DEF SetCruisePath
  <2> HIDE DEF first, ends
  <2>3. path' \in [1 .. PathLen -> Entries] /\ ready' \in BOOLEAN
    BY <1>0, <2>2
  <2> QED BY <1>0, <2>2, <2>3, MeddlingKeepsBase DEF ptVars
<1>8. CASE StopOther /\ Frame
  <2>1. /\ "v" \in Axis /\ m' = [m EXCEPT !.rod["v"].pool = 0] /\ disturbed' \in BOOLEAN
        /\ UNCHANGED <<phys, loaded, undone, points>> /\ UNCHANGED cruiseVars
    BY <1>0, <1>8, AxesAre DEF StopOther, Frame
  <2> QED BY <2>1, EmptiesKeepBase
<1>9. CASE StopLoad /\ Frame
  <2>1. TypedInv'
    <3>1. m.sta \in [Axis -> Flags]
      BY <1>0 DEF Machine
    <3> QED BY <1>9, <3>1 DEF BaseInv, TypedInv, StopLoad, Frame, cruiseVars, Entries
  <2>2. DrivenInv'
    BY <1>9 DEF BaseInv, DrivenInv, StopLoad, Busy
  <2>3. PathInv'
    BY <1>9, PathStays DEF BaseInv, StopLoad, Frame, cruiseVars
  <2> QED BY <2>1, <2>2, <2>3 DEF BaseInv
<1>10. CASE StopStore /\ Frame
  BY <1>10, StopStoreKeepsBase DEF Frame
<1>11. CASE Beat /\ Frame
  BY <1>11, BeatKeepsBase DEF Frame
<1>12. CASE CruiseMove
  BY <1>12, CruiseMoveKeepsBase
<1>13. CASE CruiseStay
  BY <1>13, CruiseStayKeepsBase
<1>14. CASE UNCHANGED vars
  BY <1>14, PathStays DEF vars, ptVars, cruiseVars, BaseInv, TypedInv, DrivenInv, Busy, Entries
<1> QED BY <1>1, <1>2, <1>3, <1>4, <1>5, <1>6, <1>7, <1>8, <1>9, <1>10, <1>11, <1>12, <1>13, <1>14, NextIs, Zenon

\* BaseInv is an invariant, for all constants.
LEMMA AlwaysBase == Spec => []BaseInv
<1>1. Init => BaseInv
  BY InitIsBase
<1>2. BaseInv /\ [Next]_vars => BaseInv'
  BY StepKeepsBase
<1> QED BY <1>1, <1>2, PTL DEF Spec

\* A motor that runs is driven by the beat, unless a stop undid what a beat had written: no
\* move, stop or end of the self-test leaves the timer off under a motor (PanTilt.c:1133).
THEOREM MovesAreDriven == Spec => []BusyIsDriven
<1>1. BaseInv => BusyIsDriven
  BY DEF BaseInv, DrivenInv, BusyIsDriven
<1> QED BY <1>1, AlwaysBase, PTL

\* A cruise nobody meddles with is in the table once, and goes only to presets of its path
\* that are set, whatever the path and the presets are (PanTilt.c:663-757).
THEOREM CruisesKeepToThePath == Spec => []CruiseStaysOnPath
<1>1. BaseInv => CruiseStaysOnPath
  <2> SUFFICES ASSUME BaseInv, cruising > 0, ~meddled
      PROVE  cruising = 1 /\ OnPath /\ points[path[Place]].set
    BY DEF CruiseStaysOnPath
  <2>1. cruising = 1 /\ PathIsGood /\ \A p \in 1 .. Place : p <= PathLen /\ path[p] # 0
    BY DEF BaseInv, PathInv
  <2>2. Place \in Nat /\ Place >= 1
    BY HalvesAre DEF Place, BaseInv, TypedInv
  <2>3. OnPath
    BY <2>1, <2>2 DEF OnPath
  <2>4. Place \in 1 .. PathLen
    BY <2>2, <2>3, CruiseAssumption DEF OnPath
  <2>5. points[path[Place]].set
    BY <2>1, <2>4 DEF PathIsGood
  <2> QED BY <2>1, <2>3, <2>5
<1> QED BY <1>1, AlwaysBase, PTL
-----------------------------------------------------------------------------
(* Where the motors are.                                                   *)

AxesInv == HasLimits /\ dead = {} /\ ~undone => \A a \in Axis : AxisIs(m, a, phys[a], Undisturbed, home[a])

\* Cruises and the histories.
HistInv ==
    /\ ~disturbed => stop = "idle" /\ ~undone
    /\ cruising > 0 => ready
    /\ ready => plan = "cruise" /\ m.beat = "run"
    /\ plan = "cruise" => board = "F05" /\ dead = {}

\* What is known of an axis about its start is known of it without.
LEMMA Weaker ==
  ASSUME NEW n, NEW a, NEW p, NEW u \in BOOLEAN, NEW v \in BOOLEAN, NEW hm, v => u, AxisIs(n, a, p, u, hm)
  PROVE  AxisIs(n, a, p, v, hm)
<1>1. ASSUME NEW f, NEW r, ZeroAxis(f, r, p, u, hm) PROVE ZeroAxis(f, r, p, v, hm)
  BY <1>1 DEF ZeroAxis
<1>2. ASSUME NEW f, NEW r, RangeAxis(f, r, p, u, hm) PROVE RangeAxis(f, r, p, v, hm)
  BY <1>2 DEF RangeAxis
<1>3. ASSUME NEW f, NEW r, RunAxis(f, r, p, u, hm) PROVE RunAxis(f, r, p, v, hm)
  BY <1>3 DEF RunAxis
<1> QED BY <1>1, <1>2, <1>3 DEF AxisIs

\* A move that begins from where the driver knows the motors to be.
LEMMA BegunAxes ==
  ASSUME LongEnough, HasLimits, NEW n \in Machine, ~Busy(n), n.beat = "run", NEW w \in Moves,
         NEW p \in [Axis -> 0 .. End], NEW u \in BOOLEAN, \A a \in Axis : AxisIs(n, a, p[a], u, home[a])
  PROVE  \A a \in Axis : AxisIs(Begun(w, n), a, p[a], FALSE, home[a])
<1>b. LET z == Begun(w, n)
      IN  /\ z \in Machine /\ z.beat = "run" /\ z.on = TRUE
          /\ \A b \in Axis : /\ z.rod[b] = [n.rod[b] EXCEPT !.pool = PoolOf(w, n, b)]
                             /\ \E x \in BOOLEAN : z.sta[b] = BegunFlags(n.sta[b], By(w, b), Anti(w, b), PoolOf(w, n, b), x)
  BY BegunIs
<1> TAKE a \in Axis
<1> DEFINE f == n.sta[a]  r == n.rod[a]  k == Begun(w, n)  q == Filled(By(w, a), Anti(w, a), r)  N == FALSE
<1>0. f \in Flags /\ r \in Rod /\ ~f.running /\ p[a] \in 0 .. End /\ N \in BOOLEAN /\ (N => u)
  BY AxesAre DEF Machine, Busy
<1>1. AxisIs(n, a, p[a], N, home[a])
  <2> HIDE DEF N
  <2> QED BY <1>0, Weaker
<1>2. RunAxis(f, r, p[a], N, home[a])
  BY <1>1 DEF AxisIs
<1>3. By(w, a) \in Nat /\ Anti(w, a) \in BOOLEAN
  BY AntiIs
<1>4. PoolOf(w, n, a) = q
  BY DEF PoolOf
<1>5. LET z == Begun(w, n)
      IN  /\ z.beat = "run" /\ z.rod[a] = [n.rod[a] EXCEPT !.pool = PoolOf(w, n, a)]
          /\ \E x \in BOOLEAN : z.sta[a] = BegunFlags(n.sta[a], By(w, a), Anti(w, a), PoolOf(w, n, a), x)
  <2> HIDE DEF f, r, k, q, N
  <2> QED BY <1>b, Zenon
<1> HIDE DEF q, k
<1>6. k.beat = "run" /\ k.rod[a] = [r EXCEPT !.pool = q]
  BY <1>4, <1>5 DEF k
<1>7. PICK x \in BOOLEAN : k.sta[a] = BegunFlags(f, By(w, a), Anti(w, a), q, x)
  BY <1>4, <1>5 DEF k
<1>8. RunAxis(BegunFlags(f, By(w, a), Anti(w, a), q, x), [r EXCEPT !.pool = q], p[a], N, home[a])
  <2> HIDE DEF f, r
  <2>1. ~N OBVIOUS
  <2>2. RunAxis(f, r, p[a], FALSE, home[a])
    BY <1>2
  <2> HIDE DEF N
  <2> QED BY <1>0, <1>3, <2>1, <2>2, MoveBegins DEF q
<1>9. AxisIs(k, a, p[a], N, home[a])
  <2> HIDE DEF N
  <2> QED BY <1>6, <1>7, <1>8 DEF AxisIs
<1> QED BY <1>9 DEF k

\* An axis whose pool is emptied is still known, though no more about its start.
LEMMA EmptiedAxis ==
  ASSUME NEW n \in Machine, NEW k, NEW a \in Axis, NEW p, NEW u \in BOOLEAN, NEW v \in BOOLEAN, ~v, NEW hm, AxisIs(n, a, p, u, hm),
         k.beat = n.beat, k.sta[a] = n.sta[a], k.rod[a] = [n.rod[a] EXCEPT !.pool = 0]
  PROVE  AxisIs(k, a, p, v, hm)
<1> DEFINE f == n.sta[a]  r == n.rod[a]  q == k.rod[a]
<1>0. r \in Rod
  BY DEF Machine
<1>1. q.pool = 0 /\ q.cur = r.cur /\ q.range = r.range /\ r.pool \in Nat /\ r.cur \in Nat /\ r.range \in Nat /\ Full \in Nat
  BY <1>0, ConstantsAre DEF Rod
<1> HIDE DEF r, q
<1>2. ZeroAxis(f, r, p, u, hm) => ZeroAxis(f, q, p, v, hm)
  BY <1>1 DEF ZeroAxis
<1>3. RangeAxis(f, r, p, u, hm) => RangeAxis(f, q, p, v, hm)
  BY <1>1 DEF RangeAxis
<1>4. RunAxis(f, r, p, u, hm) => RunAxis(f, q, p, v, hm)
  BY <1>1 DEF RunAxis
<1> QED BY <1>2, <1>3, <1>4 DEF AxisIs, r, q

\* Every step keeps the histories; what was disturbed or made ready remains so.
LEMMA StepKeepsHist ==
  ASSUME BaseInv, HistInv, [Next]_vars
  PROVE  /\ HistInv' /\ board' = board /\ dead' = dead /\ home' = home
         /\ disturbed => disturbed'
         /\ ready => ready'
<1>0. m \in Machine /\ points \in Presets /\ cruising \in Nat
  BY DEF BaseInv, TypedInv
<1>1. CASE \E act \in Orders : Start(act) /\ Frame /\ (act.kind = "preset" => act.point \in Point)
  <2>1. PICK act \in Orders : Start(act) /\ Frame
    BY <1>1
  <2>2. m'.beat = "run" \/ m' = m
    BY <1>0, <2>1, StartedIs DEF Start
  <2> QED BY <2>1, <2>2 DEF HistInv, Start, Frame, cruiseVars
<1>2. CASE StopBegin /\ Frame
  <2>1. m'.beat = m.beat
    BY <1>2, <1>0, EmptiedIs, AxesAre DEF StopBegin
  <2> QED BY <1>2, <2>1 DEF HistInv, StopBegin, Frame, cruiseVars
<1>3. CASE \E n \in Point, s \in Stay :
               /\ SetPresetPoint(n, s) /\ Meddles /\ UNCHANGED <<plan, path, ready, order, timer, cruising>>
               /\ plan = "cruise" => m.beat = "run"
  BY <1>3 DEF HistInv, SetPresetPoint, SetPoints
<1>4. CASE \E n \in Point : ClrPresetPoint(n) /\ Meddles /\ UNCHANGED <<plan, path, ready, order, timer, cruising>>
  BY <1>4 DEF HistInv, ClrPresetPoint, SetPoints
<1>5. CASE \E c \in Config : InportPreset(c) /\ UNCHANGED plan
  BY <1>5 DEF HistInv, InportPreset, SetPoints
<1>6. CASE StartCruise /\ UNCHANGED plan
  BY <1>6 DEF HistInv, StartCruise, ptVars
<1>7. CASE \E s \in [1 .. PathLen -> Entries] : SetCruisePath(s) /\ plan = "cruise" /\ m.beat = "run" /\ UNCHANGED plan
  <2>1. plan = "cruise" /\ m.beat = "run" /\ UNCHANGED plan /\ UNCHANGED <<ptVars, cruising>> /\ (ready => ready')
    BY <1>7 DEF SetCruisePath
  <2> QED BY <2>1 DEF HistInv, ptVars
<1>8. CASE StopOther /\ Frame
  <2>1. m'.beat = m.beat
    BY <1>8, <1>0, EmptiedIs, AxesAre DEF StopOther
  <2> QED BY <1>8, <2>1 DEF HistInv, StopOther, Frame, cruiseVars
<1>9. CASE StopLoad /\ Frame
  BY <1>9 DEF HistInv, StopLoad, Frame, cruiseVars
<1>10. CASE StopStore /\ Frame
  <2>1. m'.beat = m.beat
    BY <1>10, <1>0 DEF StopStore, Machine
  <2> QED BY <1>10, <2>1 DEF HistInv, StopStore, Frame, cruiseVars
<1>11. CASE Beat /\ Frame
  <2>1. m.beat = "run" => m'.beat = "run"
    <3>1. Both \in Machine /\ Both.beat = m.beat
      BY <1>0, BothTurn
    <3>2. ~Busy(Both) /\ Both.beat = "run" => Then(Both).beat = "run"
      BY <1>0, <3>1, ThenIs
    <3>3. m'.beat = m.beat \/ (m' = Then(Both) /\ ~Busy(Both)) \/ m' = Both
      BY <1>0, <1>11, BeatIs
    <3> QED BY <3>1, <3>2, <3>3
  <2> QED BY <1>11, <2>1 DEF HistInv, Beat, Frame, cruiseVars
<1>12. CASE CruiseMove
  <2>1. m'.beat = "run" \/ m' = m
    <3> DEFINE act == [kind |-> "preset", point |-> path[Place]]
    <3>1. act \in Orders
      <4>1. Place \in 1 .. PathLen /\ path[Place] # 0
        BY <1>12, HalvesAre DEF CruiseMove, OnPath, Place, BaseInv, TypedInv
      <4>2. path[Place] \in Point
        BY <4>1 DEF BaseInv, TypedInv, Entries
      <4> QED BY <4>2 DEF Orders
    <3>2. m' = Started(act, m)
      BY <1>12 DEF CruiseMove
    <3> HIDE DEF act
    <3> QED BY <1>0, <3>1, <3>2, StartedIs
  <2> QED BY <1>12, <2>1 DEF HistInv, CruiseMove
<1>13. CASE CruiseStay
  <2>1. cruising > 0 /\ UNCHANGED <<ptVars, plan, ready>>
    BY <1>13 DEF CruiseStay
  <2> QED BY <2>1 DEF HistInv, ptVars
<1>14. CASE UNCHANGED vars
  BY <1>14 DEF HistInv, vars, ptVars, cruiseVars
<1> QED BY <1>1, <1>2, <1>3, <1>4, <1>5, <1>6, <1>7, <1>8, <1>9, <1>10, <1>11, <1>12, <1>13, <1>14, NextIs, Zenon
\* The driver knows where the motors are.
PlaceInv == BaseInv /\ HistInv /\ AxesInv

\* A step that leaves the motors alone, and keeps the histories in step.
LEMMA AloneKeepsAxes ==
  ASSUME PlaceInv, [Next]_vars, UNCHANGED <<phys, undone>>, m' = m
  PROVE  AxesInv'
<1>1. /\ board' = board /\ dead' = dead /\ home' = home
      /\ disturbed => disturbed'
      /\ ready => ready'
  BY StepKeepsHist DEF PlaceInv
<1>2. SUFFICES ASSUME HasLimits', dead' = {}, ~undone', NEW a \in Axis
      PROVE  AxisIs(m', a, phys'[a], Undisturbed', home'[a])
  BY DEF AxesInv
<1>3. HasLimits
  BY <1>1, <1>2 DEF HasLimits
<1>4. AxisIs(m, a, phys[a], Undisturbed, home[a])
  BY <1>1, <1>2, <1>3 DEF PlaceInv, AxesInv
<1>5. Undisturbed \in BOOLEAN /\ Undisturbed' \in BOOLEAN /\ (Undisturbed' => Undisturbed)
  BY <1>1 DEF Undisturbed
<1>6. AxisIs(m, a, phys[a], Undisturbed', home[a])
  BY <1>4, <1>5, Weaker
<1> QED BY <1>1, <1>6

\* A move that begins, or is left in the buffer.
LEMMA MoveKeepsAxes ==
  ASSUME LongEnough, PlaceInv, [Next]_vars, NEW act \in Orders, m' = Started(act, m),
         UNCHANGED <<phys, undone>>, m' # m => ~Undisturbed'
  PROVE  AxesInv'
<1>1. CASE m' = m
  BY <1>1, AloneKeepsAxes
<1>2. CASE m' # m
  <2>1. board' = board /\ dead' = dead /\ home' = home
    BY StepKeepsHist DEF PlaceInv
  <2>2. SUFFICES ASSUME HasLimits', dead' = {}, ~undone', NEW a \in Axis
        PROVE  AxisIs(m', a, phys'[a], Undisturbed', home'[a])
    BY DEF AxesInv
  <2>3. m \in Machine /\ points \in Presets /\ phys \in [Axis -> 0 .. End]
    BY DEF PlaceInv, BaseInv, TypedInv
  <2>4. HasLimits /\ \A b \in Axis : AxisIs(m, b, phys[b], Undisturbed, home[b])
    BY <2>1, <2>2 DEF HasLimits, PlaceInv, AxesInv
  <2>5. ~Busy(m) /\ m' = Begun(Converted(act, m), m) /\ Converted(act, m) \in Moves
    BY <1>2, <2>3, StartedIs, ConvertedIs
  <2>6. m.beat = "run"
    BY <2>2, <2>5 DEF PlaceInv, BaseInv, DrivenInv
  <2>7. Undisturbed \in BOOLEAN
    BY DEF Undisturbed
  <2>8. \A b \in Axis : AxisIs(Begun(Converted(act, m), m), b, phys[b], FALSE, home[b])
    BY <2>3, <2>4, <2>5, <2>6, <2>7, BegunAxes
  <2>9. Undisturbed' = FALSE
    BY <1>2 DEF Undisturbed
  <2> QED BY <2>1, <2>5, <2>8, <2>9
<1> QED BY <1>1, <1>2

\* A stop that empties a pool.
LEMMA EmptiesKeepAxes ==
  ASSUME PlaceInv, [Next]_vars, NEW e \in Axis, m' = [m EXCEPT !.rod[e].pool = 0],
         UNCHANGED <<phys, undone>>, ~Undisturbed'
  PROVE  AxesInv'
<1>1. board' = board /\ dead' = dead /\ home' = home
  BY StepKeepsHist DEF PlaceInv
<1>2. SUFFICES ASSUME HasLimits', dead' = {}, ~undone', NEW a \in Axis
      PROVE  AxisIs(m', a, phys'[a], Undisturbed', home'[a])
  BY DEF AxesInv
<1>3. m \in Machine
  BY DEF PlaceInv, BaseInv, TypedInv
<1>4. AxisIs(m, a, phys[a], Undisturbed, home[a])
  BY <1>1, <1>2 DEF HasLimits, PlaceInv, AxesInv
<1>5. Undisturbed \in BOOLEAN /\ Undisturbed' = FALSE
  BY DEF Undisturbed
<1>6. /\ m'.sta = m.sta /\ m'.beat = m.beat
      /\ m'.rod[e] = [m.rod[e] EXCEPT !.pool = 0]
      /\ \A b \in Axis \ {e} : m'.rod[b] = m.rod[b]
  BY <1>3, EmptiedIs
<1>7. CASE a = e
  <2>1. AxisIs(m', a, phys[a], FALSE, home[a])
    <3>1. m'.sta[a] = m.sta[a] /\ m'.rod[a] = [m.rod[a] EXCEPT !.pool = 0] /\ m'.beat = m.beat
      BY <1>6, <1>7
    <3> DEFINE N == FALSE  k == m'  u == Undisturbed
    <3>2. N \in BOOLEAN /\ ~N /\ u \in BOOLEAN
      BY <1>5
    <3>3. k.beat = m.beat /\ k.sta[a] = m.sta[a] /\ k.rod[a] = [m.rod[a] EXCEPT !.pool = 0]
      BY <3>1
    <3>4. AxisIs(m, a, phys[a], u, home[a])
      BY <1>4
    <3> HIDE DEF N, k, u
    <3>5. AxisIs(k, a, phys[a], N, home[a])
      BY <1>3, <3>2, <3>3, <3>4, EmptiedAxis
    <3> QED BY <3>5 DEF k, N
  <2> QED BY <1>1, <1>5, <2>1
<1>8. CASE a # e
  <2>1. m'.sta[a] = m.sta[a] /\ m'.rod[a] = m.rod[a] /\ m'.beat = m.beat
    BY <1>6, <1>8
  <2>2. AxisIs(m', a, phys[a], Undisturbed, home[a])
    BY <1>4, <2>1, SameAxis
  <2> DEFINE N == FALSE
  <2>3. N \in BOOLEAN /\ (N => Undisturbed)
    OBVIOUS
  <2>4. AxisIs(m', a, phys[a], N, home[a])
    <3> HIDE DEF N
    <3> QED BY <1>5, <2>2, <2>3, Weaker
  <2> QED BY <1>1, <1>5, <2>4
<1> QED BY <1>7, <1>8

\* A beat.
LEMMA BeatKeepsAxes ==
  ASSUME LongEnough, PlaceInv, [Next]_vars, Beat, UNCHANGED cruiseVars
  PROVE  AxesInv'
<1>1. UNCHANGED <<board, dead, home, undone, disturbed, ready>>
  BY DEF Beat, cruiseVars
<1>2. SUFFICES ASSUME HasLimits', dead' = {}, ~undone', NEW a \in Axis
      PROVE  AxisIs(m', a, phys'[a], Undisturbed', home'[a])
  BY DEF AxesInv
<1>3. m \in Machine /\ points \in Presets /\ phys \in [Axis -> 0 .. End]
  BY DEF PlaceInv, BaseInv, TypedInv
<1>4. HasLimits /\ dead = {} /\ \A b \in Axis : AxisIs(m, b, phys[b], Undisturbed, home[b])
  BY <1>1, <1>2 DEF HasLimits, PlaceInv, AxesInv
<1>5. Undisturbed \in BOOLEAN /\ Undisturbed' = Undisturbed /\ (Undisturbed => board = "F05")
  BY <1>1 DEF Undisturbed
<1>6. Both \in Machine /\ Drifted \in [Axis -> 0 .. End]
  BY <1>3, BothTurn, DriftedTyped
<1>7. \A b \in Axis : AxisIs(Both, b, Drifted[b], Undisturbed, home[b])
  BY <1>3, <1>4, <1>5, BothAxes
<1>8. CASE phys' = phys /\ m'.beat = m.beat /\ m'.sta = m.sta /\ m'.rod = m.rod
  <2>1. AxisIs(m, a, phys[a], Undisturbed, home[a])
    BY <1>4
  <2>2. AxisIs(m', a, phys[a], Undisturbed, home[a])
    BY <1>8, <2>1, SameAxis
  <2> QED BY <1>1, <1>5, <1>8, <2>2
<1>9. CASE phys' = Drifted /\ m' = Then(Both) /\ ~Busy(Both)
  <2>1. \A b \in Axis : AxisIs(Then(Both), b, Drifted[b], Undisturbed, home[b])
    BY <1>3, <1>4, <1>5, <1>6, <1>7, <1>9, ThenAxes
  <2> QED BY <1>1, <1>5, <1>9, <2>1
<1>10. CASE phys' = Drifted /\ m' = Both
  BY <1>1, <1>5, <1>7, <1>10
<1> QED BY <1>3, <1>8, <1>9, <1>10, BeatIs

\* A cruise orders a preset.
LEMMA CruisePreset ==
  ASSUME BaseInv, CruiseMove
  PROVE  [kind |-> "preset", point |-> path[Place]] \in Orders /\ path[Place] \in Point
<1>1. Place \in 1 .. PathLen /\ path[Place] # 0
  BY HalvesAre DEF CruiseMove, OnPath, Place, BaseInv, TypedInv
<1>2. path[Place] \in Point
  BY <1>1 DEF BaseInv, TypedInv, Entries
<1> QED BY <1>2 DEF Orders

\* Every step.
LEMMA StepKeepsPlace == ASSUME LongEnough, PlaceInv, [Next]_vars PROVE PlaceInv'
<1>0. BaseInv' /\ HistInv' /\ (PlaceInv => HistInv /\ BaseInv)
  BY StepKeepsBase, StepKeepsHist DEF PlaceInv
<1> SUFFICES AxesInv'
  BY <1>0 DEF PlaceInv
<1>1. CASE \E act \in Orders : Start(act) /\ Frame /\ (act.kind = "preset" => act.point \in Point)
  <2>1. PICK act \in Orders : Start(act) /\ Frame
    BY <1>1
  <2>2. m' # m => ~Undisturbed'
    BY <2>1 DEF Start, Undisturbed
  <2> QED BY <2>1, <2>2, MoveKeepsAxes DEF Start
<1>2. CASE StopBegin /\ Frame
  <2>1. ~Undisturbed' /\ "h" \in Axis /\ m' = [m EXCEPT !.rod["h"].pool = 0] /\ UNCHANGED <<phys, undone>>
    BY <1>2, AxesAre DEF StopBegin, Undisturbed
  <2> QED BY <2>1, EmptiesKeepAxes
<1>3. CASE \E n \in Point, s \in Stay :
               /\ SetPresetPoint(n, s) /\ Meddles /\ UNCHANGED <<plan, path, ready, order, timer, cruising>>
               /\ plan = "cruise" => m.beat = "run"
  BY <1>3, AloneKeepsAxes DEF SetPresetPoint, SetPoints
<1>4. CASE \E n \in Point : ClrPresetPoint(n) /\ Meddles /\ UNCHANGED <<plan, path, ready, order, timer, cruising>>
  BY <1>4, AloneKeepsAxes DEF ClrPresetPoint, SetPoints
<1>5. CASE \E c \in Config : InportPreset(c) /\ UNCHANGED plan
  BY <1>5, AloneKeepsAxes DEF InportPreset, SetPoints
<1>6. CASE StartCruise /\ UNCHANGED plan
  BY <1>6, AloneKeepsAxes DEF StartCruise, ptVars
<1>7. CASE \E s \in [1 .. PathLen -> Entries] : SetCruisePath(s) /\ plan = "cruise" /\ m.beat = "run" /\ UNCHANGED plan
  <2>1. UNCHANGED ptVars
    BY <1>7 DEF SetCruisePath
  <2> QED BY <2>1, AloneKeepsAxes DEF ptVars
<1>8. CASE StopOther /\ Frame
  <2>1. ~Undisturbed'
    BY <1>8 DEF StopOther, Undisturbed, PlaceInv, HistInv
  <2>2. "v" \in Axis /\ m' = [m EXCEPT !.rod["v"].pool = 0] /\ UNCHANGED <<phys, undone>>
    BY <1>8, AxesAre DEF StopOther
  <2> QED BY <2>1, <2>2, EmptiesKeepAxes
<1>9. CASE StopLoad /\ Frame
  BY <1>9, AloneKeepsAxes DEF StopLoad
<1>10. CASE StopStore /\ Frame
  <2>1. CASE m.sta # loaded
    BY <1>10, <2>1 DEF StopStore, AxesInv
  <2>2. CASE m.sta = loaded
    <3>1. m' = m
      BY <1>10, <2>2 DEF StopStore, PlaceInv, BaseInv, TypedInv, Machine
    <3>2. UNCHANGED <<phys, undone>>
      BY <1>10, <2>2 DEF StopStore, PlaceInv, BaseInv, TypedInv
    <3> QED BY <3>1, <3>2, AloneKeepsAxes
  <2> QED BY <2>1, <2>2
<1>11. CASE Beat /\ Frame
  BY <1>11, BeatKeepsAxes DEF Frame
<1>12. CASE CruiseMove
  <2> DEFINE act == [kind |-> "preset", point |-> path[Place]]
  <2>1. act \in Orders
    BY <1>12, CruisePreset DEF PlaceInv
  <2>2. m' = Started(act, m) /\ UNCHANGED <<phys, undone>> /\ cruising > 0 /\ ready' = ready
    BY <1>12 DEF CruiseMove
  <2> HIDE DEF act
  <2>3. ~Undisturbed'
    BY <2>2 DEF PlaceInv, HistInv, Undisturbed
  <2> QED BY <2>1, <2>2, <2>3, MoveKeepsAxes
<1>13. CASE CruiseStay
  BY <1>13, AloneKeepsAxes DEF CruiseStay, ptVars
<1>14. CASE UNCHANGED vars
  BY <1>14, AloneKeepsAxes DEF vars, ptVars
<1> QED BY <1>1, <1>2, <1>3, <1>4, <1>5, <1>6, <1>7, <1>8, <1>9, <1>10, <1>11, <1>12, <1>13, <1>14, NextIs, Zenon

\* The driver that is loaded, wherever the motors stand.
LEMMA InitIsPlace == Init => PlaceInv
<1> SUFFICES ASSUME Init PROVE PlaceInv
  OBVIOUS
<1>1. HistInv
  BY DEF Init, PanTiltInit, HistInv
<1>2. AxesInv
  <2> SUFFICES ASSUME HasLimits, NEW a \in Axis PROVE AxisIs(m, a, phys[a], Undisturbed, home[a])
    BY DEF AxesInv
  <2> DEFINE f == [rhythm |-> 0, due |-> HasLimits, initing |-> HasLimits,
                   running |-> HasLimits, anti |-> FALSE, reducing |-> FALSE]
             r == [pool |-> 0, cur |-> 0, range |-> 0]
  <2>1. /\ m = [sta |-> [b \in Axis |-> f], rod |-> [b \in Axis |-> r],
                loitor |-> 0, ratio |-> 0, count |-> 0,
                beat |-> IF HasLimits THEN "zero" ELSE "run", on |-> HasLimits]
        /\ phys = home
    BY Zenon DEF Init, PanTiltInit
  <2>2. PICK s \in Home : home = [b \in Axis |-> Phases * s[b]]
    BY DEF Init, PanTiltInit
  <2>3. f.running /\ f.due /\ f.rhythm = 0 /\ r.cur = 0 /\ r.range = 0 /\ r.pool = 0
    BY Zenon
  <2> HIDE DEF f, r
  <2>4. m.beat = "zero" /\ m.sta[a] = f /\ m.rod[a] = r
    BY <2>1
  <2>5. s[a] \in 0 .. Full /\ home[a] = Steps(s[a])
    BY <2>2, PanTiltAssumption DEF Axis, Steps
  <2>6. Steps(s[a]) <= End /\ s[a] \in Nat /\ s[a] <= Full
    BY <2>5, PlacesAre
  <2>7. ZeroAxis(f, r, phys[a], Undisturbed, home[a])
    <3>1. phys[a] = Steps(s[a])
      BY <2>1, <2>5
    <3>2. phys[a] = Down(f, s[a]) /\ phys[a] <= End /\ r.pool + s[a] <= Full /\ (Undisturbed => home[a] = Steps(s[a] + r.pool))
      BY <2>3, <2>5, <2>6, <3>1 DEF Down
    <3> QED BY <2>3, <2>5, <3>2 DEF ZeroAxis
  <2> QED BY <2>4, <2>7 DEF AxisIs
<1> QED BY <1>1, <1>2, InitIsBase DEF PlaceInv

\* PlaceInv is an invariant.
LEMMA AlwaysPlace == ASSUME LongEnough PROVE Spec => []PlaceInv
<1>1. Init => PlaceInv
  BY InitIsPlace
<1>2. PlaceInv /\ [Next]_vars => PlaceInv'
  BY StepKeepsPlace
<1> QED BY <1>1, <1>2, PTL DEF Spec

\* The coordinate of an axis that rests is that of its motor, or one more, however moves, stops
\* and the cruise have followed one another, on axes of any length that can be searched.
THEOREM PositionsStayTrue == ASSUME LongEnough PROVE Spec => []PositionIsTrue
<1>1. PlaceInv => PositionIsTrue
  <2> SUFFICES ASSUME PlaceInv, HasLimits, dead = {}, ~undone, NEW a \in Axis, AtRest(a)
      PROVE  phys[a] % Phases = 0 /\ m.rod[a].cur - phys[a] \div Phases \in {0, 1} /\ m.rod[a].cur <= m.rod[a].range
    BY DEF PositionIsTrue
  <2>1. m.beat = "run" /\ ~m.sta[a].running /\ RunAxis(m.sta[a], m.rod[a], phys[a], Undisturbed, home[a])
    BY DEF PlaceInv, AxesInv, AxisIs, AtRest
  <2>2. m.rod[a].cur <= m.rod[a].range /\ \E s \in 0 .. Full : phys[a] = Steps(s) /\ m.rod[a].cur \in {s, s + 1}
    BY <2>1 DEF RunAxis
  <2>3. PICK s \in 0 .. Full : phys[a] = Steps(s) /\ m.rod[a].cur \in {s, s + 1}
    BY <2>2
  <2>4. s \in Nat
    BY ConstantsAre
  <2>5. phys[a] % Phases = 0 /\ phys[a] \div Phases = s
    BY <2>3, <2>4, StepsAre
  <2> QED BY <2>2, <2>3, <2>4, <2>5
<1> QED BY <1>1, AlwaysPlace, PTL

\* The self-test leaves both motors where they stood when the driver was loaded, wherever that
\* was (PanTilt.c:1304-1483).
THEOREM SelfTestReturns == ASSUME LongEnough PROVE Spec => []ReturnsToStart
<1>1. PlaceInv => ReturnsToStart
  <2> SUFFICES ASSUME PlaceInv, board = "F05", dead = {}, ~disturbed, ~ready, NEW a \in Axis, AtRest(a)
      PROVE  phys[a] = home[a]
    BY DEF ReturnsToStart
  <2>1. HasLimits /\ ~undone /\ Undisturbed
    BY DEF PlaceInv, HistInv, HasLimits, Undisturbed
  <2>2. m.beat = "run" /\ ~m.sta[a].running /\ RunAxis(m.sta[a], m.rod[a], phys[a], Undisturbed, home[a])
    BY <2>1 DEF PlaceInv, AxesInv, AxisIs, AtRest
  <2> QED BY <2>1, <2>2 DEF RunAxis
<1> QED BY <1>1, AlwaysPlace, PTL
-----------------------------------------------------------------------------
(* Where a cruise is on its way to.                                        *)

\* The place on the path the cruise was sent to last.
Last == IF order % 2 = 1 THEN Place ELSE Place - 1

\* A cruise that is left alone is on its way to its last preset, or has arrived there.
TargetInv ==
    cruising > 0 /\ ~meddled /\ ~disturbed /\ order > 0
    => \A a \in Axis : Towards(m.sta[a], m.rod[a], Target(a, path[Last]))

CruiseInv == PlaceInv /\ TargetInv

\* While a cruise is left alone the driver knows where the motors are.
LEMMA CruiseKnows ==
  ASSUME PlaceInv, cruising > 0, ~disturbed
  PROVE  /\ HasLimits /\ dead = {} /\ ready /\ m.beat = "run" /\ ~undone
         /\ \A a \in Axis : /\ AxisIs(m, a, phys[a], Undisturbed, home[a])
                            /\ m.rod[a].range = Full + 1 /\ m.rod[a].cur <= Full + 1
<1>1. ready /\ m.beat = "run" /\ ~undone /\ board = "F05" /\ dead = {}
  BY DEF PlaceInv, HistInv
<1>2. HasLimits
  BY <1>1 DEF HasLimits
<1>3. \A a \in Axis : AxisIs(m, a, phys[a], Undisturbed, home[a])
  BY <1>1, <1>2 DEF PlaceInv, AxesInv
<1>4. \A a \in Axis : m.rod[a].range = Full + 1 /\ m.rod[a].cur <= Full + 1
  BY <1>1, <1>3 DEF AxisIs, RunAxis
<1> QED BY <1>1, <1>2, <1>3, <1>4

\* A step after which cruising, and what it follows, are as they were.
LEMMA AloneKeepsTarget ==
  ASSUME CruiseInv, disturbed => disturbed', UNCHANGED <<path, order, cruising, meddled, points>>,
         m'.sta = m.sta, m'.rod = m.rod
  PROVE  TargetInv'
<1>1. Last' = Last
  BY DEF Last, Place
<1>2. \A a, n : Target(a, n)' = Target(a, n)
  BY DEF Target
<1> QED BY <1>1, <1>2 DEF CruiseInv, TargetInv, Towards

\* A move to a preset that is set is on its way there.
LEMMA MoveIsAimed ==
  ASSUME LongEnough, HasLimits, board = "F05", m \in Machine, points \in Presets, ~Busy(m), NEW n \in Point, points[n].set,
         NEW a \in Axis, m.rod[a].range = Full + 1, m.rod[a].cur <= Full + 1
  PROVE  LET k == Begun(Converted([kind |-> "preset", point |-> n], m), m)
         IN  Towards(k.sta[a], k.rod[a], Target(a, n)) /\ k.rod[a].range = m.rod[a].range
<1> DEFINE h == points[n].x  v == points[n].y  w == WayTo(h, v, m)  k == Begun(w, m)
           c == IF a = "h" THEN h ELSE v
           t == IF c < m.rod[a].range THEN c ELSE m.rod[a].range
           an == ~(t >= m.rod[a].cur)
           by == IF t >= m.rod[a].cur THEN t - m.rod[a].cur ELSE m.rod[a].cur - t
           q == Filled(by, an, m.rod[a])
<1>1. Converted([kind |-> "preset", point |-> n], m) = w
  BY DEF Converted
<1>2. h \in Nat /\ v \in Nat
  BY DEF Presets
<1>3. LET to == [b \in Axis |-> IF (IF b = "h" THEN h ELSE v) < m.rod[b].range THEN (IF b = "h" THEN h ELSE v) ELSE m.rod[b].range]
      IN  /\ w \in Moves
          /\ \A b \in Axis : By(w, b) = IF to[b] >= m.rod[b].cur THEN to[b] - m.rod[b].cur ELSE m.rod[b].cur - to[b]
          /\ w.right = (to["h"] >= m.rod["h"].cur) /\ w.up = (to["v"] >= m.rod["v"].cur)
  <2> HIDE DEF h, v
  <2> QED BY <1>2, WayToIs
<1>4. /\ w \in Moves /\ By(w, a) = by /\ t \in Nat /\ t <= m.rod[a].range
      /\ a = "h" => w.right = (t >= m.rod[a].cur)
      /\ a = "v" => w.up = (t >= m.rod[a].cur)
  <2> DEFINE to == [b \in Axis |-> IF (IF b = "h" THEN h ELSE v) < m.rod[b].range THEN (IF b = "h" THEN h ELSE v) ELSE m.rod[b].range]
  <2>1. to[a] = t
    OBVIOUS
  <2>2. m.rod[a].range \in Nat /\ m.rod[a].cur \in Nat /\ c \in Nat
    BY <1>2 DEF Machine, Rod
  <2>3. t \in Nat /\ t <= m.rod[a].range
    <3> HIDE DEF c
    <3> QED BY <2>2
  <2>4. /\ w \in Moves
        /\ By(w, a) = IF to[a] >= m.rod[a].cur THEN to[a] - m.rod[a].cur ELSE m.rod[a].cur - to[a]
        /\ w.right = (to["h"] >= m.rod["h"].cur) /\ w.up = (to["v"] >= m.rod["v"].cur)
    <3> HIDE DEF w, h, v
    <3> QED BY <1>3
  <2> HIDE DEF to, t, w
  <2>5. a = "h" => w.right = (t >= m.rod[a].cur)
    BY <2>1, <2>4, Zenon
  <2>6. a = "v" => w.up = (t >= m.rod[a].cur)
    BY <2>1, <2>4, Zenon
  <2>7. By(w, a) = by
    BY <2>1, <2>4, Zenon
  <2> QED BY <2>3, <2>4, <2>5, <2>6, <2>7, Zenon
<1> HIDE DEF w, t
<1>5. Anti(w, a) = an
  <2>1. CASE a = "h"
    <3>1. Anti(w, a) = ~w.right
      BY <2>1 DEF Anti
    <3> QED BY <1>4, <2>1, <3>1, Zenon
  <2>2. CASE a = "v"
    <3>1. Anti(w, a) = (w.up = FALSE)
      BY <2>2 DEF Anti
    <3>2. w.up \in BOOLEAN
      BY <1>4 DEF Moves
    <3>3. Anti(w, a) = ~w.up
      BY <3>1, <3>2
    <3> QED BY <1>4, <2>2, <3>3, Zenon
  <2> QED BY <2>1, <2>2, AxesAre
<1> DEFINE F == m.sta[a]  R == m.rod[a]
<1>6. F \in Flags /\ R \in Rod /\ ~F.running /\ R.range = Full + 1 /\ R.cur <= R.range
  BY AxesAre DEF Machine, Busy
<1>7. PoolOf(w, m, a) = q
  BY <1>4, <1>5 DEF PoolOf
<1>8. LET z == Begun(w, m)
      IN  /\ z.rod[a] = [m.rod[a] EXCEPT !.pool = PoolOf(w, m, a)]
          /\ \E x \in BOOLEAN : z.sta[a] = BegunFlags(m.sta[a], By(w, a), Anti(w, a), PoolOf(w, m, a), x)
  <2>1. LET z == Begun(w, m)
        IN  /\ z \in Machine /\ z.beat = "run" /\ z.on = TRUE
            /\ \A b \in Axis : /\ z.rod[b] = [m.rod[b] EXCEPT !.pool = PoolOf(w, m, b)]
                               /\ \E x \in BOOLEAN : z.sta[b] = BegunFlags(m.sta[b], By(w, b), Anti(w, b), PoolOf(w, m, b), x)
    BY <1>4, BegunIs
  <2> QED BY <2>1, Zenon
<1>9. PICK x \in BOOLEAN : k.sta[a] = BegunFlags(F, by, an, q, x)
  BY <1>4, <1>5, <1>7, <1>8, Zenon
<1>10. k.rod[a] = [R EXCEPT !.pool = q]
  BY <1>7, <1>8, Zenon
<1> HIDE DEF F, R, k
<1>11. Towards(BegunFlags(F, by, an, q, x), [R EXCEPT !.pool = q], t)
  <2>1. \A f \in Flags, r \in Rod, d \in Nat :
           ~f.running /\ r.range = Full + 1 /\ r.cur <= r.range /\ d <= r.range
           => LET an1 == ~(d >= r.cur)
                  by1 == IF d >= r.cur THEN d - r.cur ELSE r.cur - d
                  n1  == Filled(by1, an1, r)
              IN  Towards(BegunFlags(f, by1, an1, n1, x), [r EXCEPT !.pool = n1], d)
    BY MoveAims
  <2> QED BY <1>4, <1>6, <2>1, Zenon DEF R
<1>12. Target(a, n) = t
  BY DEF Target, t
<1>13. k.rod[a].range = R.range
  BY <1>6, <1>10 DEF Rod
<1>14. Towards(k.sta[a], k.rod[a], Target(a, n)) /\ k.rod[a].range = m.rod[a].range
  BY <1>9, <1>10, <1>11, <1>12, <1>13, Zenon DEF R
<1> QED BY <1>1, <1>14, Zenon DEF k
\* A beat.
LEMMA BeatKeepsTarget ==
  ASSUME LongEnough, CruiseInv, [Next]_vars, PlaceInv', Beat, UNCHANGED cruiseVars
  PROVE  TargetInv'
<1>0. m \in Machine /\ points \in Presets /\ phys \in [Axis -> 0 .. End] /\ PlaceInv
  BY DEF CruiseInv, PlaceInv, BaseInv, TypedInv
<1>1. UNCHANGED <<path, order, cruising, meddled, points, disturbed>>
  BY DEF Beat, cruiseVars
<1>2. CASE m'.sta = m.sta /\ m'.rod = m.rod
  BY <1>1, <1>2, AloneKeepsTarget
<1>3. CASE phys' = Drifted /\ m'.sta = Both.sta /\ m'.rod = Both.rod
  <2>1. SUFFICES ASSUME cruising > 0, ~meddled, ~disturbed, order > 0, NEW a \in Axis
        PROVE  Towards(m'.sta[a], m'.rod[a], Target(a, path[Last])')
    <3>1. Last' = Last
      BY <1>1 DEF Last, Place
    <3> QED BY <1>1, <3>1 DEF TargetInv
  <2>2. /\ HasLimits /\ dead = {} /\ m.beat = "run"
        /\ \A b \in Axis : AxisIs(m, b, phys[b], Undisturbed, home[b]) /\ m.rod[b].range = Full + 1
    BY <1>0, <2>1, CruiseKnows
  <2>3. \A b \in Axis : m'.rod[b].range = Full + 1
    <3>1. \A b \in Axis : AxisIs(Both, b, Drifted[b], Undisturbed, home[b])
      <4>1. Undisturbed \in BOOLEAN
        BY DEF Undisturbed
      <4> QED BY <1>0, <2>2, <4>1, BothAxes
    <3>2. Both.beat = "run"
      BY <1>0, <2>2, BothTurn
    <3> QED BY <1>3, <3>1, <3>2 DEF AxisIs, RunAxis
  <2> DEFINE e == [b \in Axis |-> Target(b, path[Last])]
  <2>4. \A b \in Axis : Target(b, path[Last]) \in Nat
    <3>1. path[Last] \in Point
      <4>1. order \in Nat /\ Place \in Nat /\ Place >= 1 /\ \A p \in 1 .. Place : p <= PathLen /\ path[p] # 0
        BY <1>0, <2>1, HalvesAre DEF PlaceInv, BaseInv, TypedInv, PathInv, Place
      <4>2. Last \in 1 .. Place
        <5>1. CASE order % 2 = 1
          BY <4>1, <5>1 DEF Last
        <5>2. CASE order % 2 = 0
          <6>1. order \div 2 >= 1
            BY <2>1, <4>1, <5>2
          <6> QED BY <4>1, <5>2, <6>1 DEF Last, Place
        <5> QED BY <4>1, <5>1, <5>2, HalvesAre
      <4>3. Last \in 1 .. PathLen /\ path[Last] # 0
        BY <4>1, <4>2, CruiseAssumption
      <4> QED BY <1>0, <4>3 DEF PlaceInv, BaseInv, TypedInv, Entries
    <3>2. points[path[Last]].x \in Nat /\ points[path[Last]].y \in Nat
      BY <1>0, <3>1 DEF Presets
    <3>3. \A b \in Axis : m.rod[b].range \in Nat
      BY <1>0 DEF Machine, Rod
    <3> QED BY <3>2, <3>3 DEF Target
  <2>5. e \in [Axis -> Nat] /\ \A b \in Axis : e[b] = Target(b, path[Last])
    BY <2>4
  <2>6. \A b \in Axis : Towards(m.sta[b], m.rod[b], Target(b, path[Last]))
    BY <2>1 DEF CruiseInv, TargetInv
  <2> HIDE DEF e
  <2>7. \A b \in Axis : Towards(m.sta[b], m.rod[b], e[b])
    BY <2>5, <2>6
  <2>8. \A b \in Axis : Towards(Both.sta[b], Both.rod[b], e[b])
    <3>1. Undisturbed \in BOOLEAN
      BY DEF Undisturbed
    <3> QED BY <1>0, <2>2, <2>5, <2>7, <3>1, BothAim
  <2>9. Target(a, path[Last])' = Target(a, path[Last])
    <3>1. Last' = Last
      BY <1>1 DEF Last, Place
    <3> QED BY <1>1, <2>2, <2>3, <3>1 DEF Target
  <2> QED BY <1>3, <2>5, <2>8, <2>9
<1>4. /\ Both \in Machine /\ Both.beat = m.beat
      /\ ~Busy(Both) /\ Both.beat = "run" => Then(Both).sta = Both.sta /\ Then(Both).rod = Both.rod
  BY <1>0, BothTurn, ThenIs
<1>5. CASE m.beat # "run" /\ m' = Then(Both)
  BY <1>0, <1>1, <1>5, CruiseKnows DEF TargetInv
<1> QED BY <1>0, <1>2, <1>3, <1>4, <1>5, BeatIs

\* A cruise that moves on is on its way to its next preset.
LEMMA CruiseMoveAims ==
  ASSUME LongEnough, CruiseInv, CruiseMove
  PROVE  TargetInv'
<1>0. m \in Machine /\ points \in Presets /\ PlaceInv /\ BaseInv /\ order \in Nat
  BY DEF CruiseInv, PlaceInv, BaseInv, TypedInv
<1>1. /\ cruising > 0 /\ order % 2 = 0 /\ OnPath /\ ~Busy(m) /\ order' = order + 1
      /\ m' = Started([kind |-> "preset", point |-> path[Place]], m)
      /\ UNCHANGED <<board, disturbed, points, path, cruising, meddled>>
  BY DEF CruiseMove, MayMove
<1>2. SUFFICES ASSUME ~meddled, ~disturbed, NEW a \in Axis
      PROVE  Towards(m'.sta[a], m'.rod[a], Target(a, path[Place])')
  <2>1. Last' = Place'
    <3>1. order' % 2 = 1
      BY <1>0, <1>1, HalvesAre
    <3> QED BY <3>1 DEF Last
  <2>2. \A a \in Axis : Target(a, path[Last])' = Target(a, path[Place])'
    BY <2>1 DEF Target
  <2> QED BY <1>1, <2>2 DEF TargetInv
<1>3. /\ HasLimits /\ board = "F05"
      /\ m.rod[a].range = Full + 1 /\ m.rod[a].cur <= Full + 1
  BY <1>0, <1>1, <1>2, CruiseKnows DEF PlaceInv, HistInv
<1>4. path[Place] \in Point /\ [kind |-> "preset", point |-> path[Place]] \in Orders
  BY <1>0, CruisePreset
<1>5. points[path[Place]].set
  <2>1. Place \in 1 .. PathLen /\ PathIsGood /\ \A p \in 1 .. Place : path[p] # 0
    BY <1>0, <1>1, <1>2, HalvesAre DEF OnPath, Place, PlaceInv, BaseInv, PathInv
  <2> QED BY <2>1 DEF PathIsGood
<1> DEFINE n == path[Place]  act == [kind |-> "preset", point |-> n]
<1>6. m' = Begun(Converted(act, m), m)
  <2>1. act.kind = "preset" /\ act \in Orders /\ m' = Started(act, m)
    BY <1>1, <1>4
  <2> HIDE DEF act
  <2> QED BY <1>0, <1>1, <2>1, StartedIs
<1>7. n \in Point /\ points[n].set
  BY <1>4, <1>5
<1> HIDE DEF n
<1>8. LET k == Begun(Converted([kind |-> "preset", point |-> n], m), m)
      IN  Towards(k.sta[a], k.rod[a], Target(a, n)) /\ k.rod[a].range = m.rod[a].range
  BY <1>0, <1>1, <1>3, <1>7, MoveIsAimed
<1>9. Towards(m'.sta[a], m'.rod[a], Target(a, n)) /\ m'.rod[a].range = m.rod[a].range
  BY <1>6, <1>8, Zenon
<1>10. Target(a, path[Place])' = Target(a, n)
  <2>1. Place' = Place
    BY <1>0, CruiseMoveKeepsBase
  <2> QED BY <1>1, <1>9, <2>1 DEF Target, n
<1> QED BY <1>9, <1>10

\* Every step.
LEMMA StepKeepsCruise == ASSUME LongEnough, CruiseInv, [Next]_vars PROVE CruiseInv'
<1>0. PlaceInv /\ BaseInv /\ HistInv /\ PlaceInv' /\ m \in Machine /\ points \in Presets /\ order \in Nat /\ cruising \in Nat
  BY StepKeepsPlace DEF CruiseInv, PlaceInv, BaseInv, TypedInv
<1>b. disturbed => disturbed'
  BY <1>0, StepKeepsHist
<1> SUFFICES TargetInv'
  BY <1>0 DEF CruiseInv
<1>1. CASE \E act \in Orders : Start(act) /\ Frame /\ (act.kind = "preset" => act.point \in Point)
  <2>1. CASE m' = m
    BY <1>1, <1>b, <2>1, AloneKeepsTarget DEF Start, Frame, cruiseVars
  <2>2. CASE m' # m
    BY <1>1, <2>2 DEF Start, TargetInv
  <2> QED BY <2>1, <2>2
<1>2. CASE StopBegin /\ Frame
  BY <1>2 DEF StopBegin, TargetInv
<1>3. CASE \E n \in Point, s \in Stay :
               /\ SetPresetPoint(n, s) /\ Meddles /\ UNCHANGED <<plan, path, ready, order, timer, cruising>>
               /\ plan = "cruise" => m.beat = "run"
  BY <1>3 DEF TargetInv, Meddles
<1>4. CASE \E n \in Point : ClrPresetPoint(n) /\ Meddles /\ UNCHANGED <<plan, path, ready, order, timer, cruising>>
  BY <1>4 DEF TargetInv, Meddles
<1>5. CASE \E c \in Config : InportPreset(c) /\ UNCHANGED plan
  BY <1>5 DEF TargetInv, Meddles, InportPreset
<1>6. CASE StartCruise /\ UNCHANGED plan
  BY <1>6 DEF TargetInv, StartCruise
<1>7. CASE \E s \in [1 .. PathLen -> Entries] : SetCruisePath(s) /\ plan = "cruise" /\ m.beat = "run" /\ UNCHANGED plan
  <2>1. Meddles /\ UNCHANGED cruising
    BY <1>7 DEF SetCruisePath
  <2> QED BY <2>1 DEF TargetInv, Meddles
<1>8. CASE StopOther /\ Frame
  <2>1. disturbed'
    BY <1>0, <1>8 DEF StopOther, HistInv
  <2> QED BY <2>1 DEF TargetInv
<1>9. CASE StopLoad /\ Frame
  BY <1>9, <1>b, AloneKeepsTarget DEF StopLoad, Frame, cruiseVars
<1>10. CASE StopStore /\ Frame
  <2>1. disturbed'
    BY <1>0, <1>10 DEF StopStore, HistInv
  <2> QED BY <2>1 DEF TargetInv
<1>11. CASE Beat /\ Frame
  BY <1>0, <1>11, BeatKeepsTarget DEF Frame
<1>12. CASE CruiseMove
  BY <1>12, CruiseMoveAims
<1>13. CASE CruiseStay
  <2>1. /\ order % 2 = 1 /\ cruising > 0 /\ UNCHANGED ptVars /\ UNCHANGED <<path, meddled>>
        /\ \/ UNCHANGED <<order, cruising>>
           \/ order' = order + 1
    BY <1>13 DEF CruiseStay
  <2>2. CASE UNCHANGED <<order, cruising>>
    BY <1>b, <2>1, <2>2, AloneKeepsTarget DEF ptVars
  <2>3. CASE order' = order + 1
    <3>1. Last = Place /\ Last' = Place
      <4>1. order' % 2 = 0 /\ order' \div 2 = order \div 2 + 1 /\ order \div 2 \in Nat
        BY <1>0, <2>1, <2>3, HalvesAre
      <4> QED BY <2>1, <4>1 DEF Last, Place
    <3>2. order > 0
      BY <1>0, <2>1
    <3>3. \A a, n : Target(a, n)' = Target(a, n)
      BY <2>1 DEF Target, ptVars
    <3> QED BY <2>1, <3>1, <3>2, <3>3 DEF CruiseInv, TargetInv, ptVars
  <2> QED BY <2>1, <2>2, <2>3
<1>14. CASE UNCHANGED vars
  BY <1>14, <1>b, AloneKeepsTarget DEF vars, ptVars, cruiseVars
<1> QED BY <1>1, <1>2, <1>3, <1>4, <1>5, <1>6, <1>7, <1>8, <1>9, <1>10, <1>11, <1>12, <1>13, <1>14, NextIs, Zenon

\* When a cruise nobody touches moves on, the motors stand at the preset it has sent them to, or
\* at the end of the range: the handler and the beat never lose a move between them.
THEOREM CruisesArrive == ASSUME LongEnough PROVE Spec => CruiseArrives
<1> DEFINE Arrives ==
      order % 2 = 0 /\ order' = order + 1 /\ order > 0 /\ ~disturbed /\ ~meddled
      => \A a \in Axis : m.rod[a].cur = Target(a, path[Place - 1])
<1>1. Init => CruiseInv
  BY InitIsPlace DEF CruiseInv, TargetInv, Init
<1>2. CruiseInv /\ [Next]_vars => CruiseInv'
  BY StepKeepsCruise
<1>3. CruiseInv /\ [Next]_vars => [Arrives]_vars
  <2> SUFFICES ASSUME CruiseInv, [Next]_vars, order % 2 = 0, order' = order + 1, order > 0, ~disturbed, ~meddled,
                      NEW a \in Axis
      PROVE  m.rod[a].cur = Target(a, path[Place - 1])
    OBVIOUS
  <2>0. order \in Nat
    BY DEF CruiseInv, PlaceInv, BaseInv, TypedInv
  <2>1. CruiseMove
    <3>1. order' # order /\ order' # 0 /\ order % 2 # 1
      BY <2>0
    <3>2. ~Frame /\ ~UNCHANGED order /\ ~CruiseStay /\ ~StartCruise /\ ~UNCHANGED vars
      BY <3>1 DEF Frame, cruiseVars, CruiseStay, StartCruise, vars
    <3>3. (\A c \in Config : ~InportPreset(c)) /\ (\A s \in [1 .. PathLen -> Entries] : ~SetCruisePath(s))
      BY <3>1 DEF InportPreset, SetCruisePath
    <3>4. ~UNCHANGED <<plan, path, ready, order, timer, cruising>>
      BY <3>1
    <3> QED BY <3>2, <3>3, <3>4, NextIs, Zenon
  <2>2. cruising > 0 /\ ~Busy(m)
    BY <2>1 DEF CruiseMove, MayMove
  <2>3. Towards(m.sta[a], m.rod[a], Target(a, path[Place - 1]))
    <3>1. Last = Place - 1
      BY DEF Last
    <3> QED BY <2>2, <3>1 DEF CruiseInv, TargetInv
  <2>4. ~m.sta[a].running
    BY <2>2, AxesAre DEF Busy
  <2> QED BY <2>3, <2>4 DEF Towards
<1>4. Spec => [][Arrives]_vars
  <2> HIDE DEF Arrives
  <2> QED BY <1>1, <1>2, <1>3, PTL DEF Spec
<1> QED BY <1>4 DEF CruiseArrives
=============================================================================
