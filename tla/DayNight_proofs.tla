-------------------------- MODULE DayNight_proofs --------------------------
(***************************************************************************)
(* The light sensor, for any samples, limits, sensitivities and any break  *)
(* of its filter.  The average of six values is one the six admit, so the  *)
(* status changes only with the light, and no average is above the largest *)
(* sample; the limits are, whenever the sensor judges between requests,    *)
(* those of the last sensitivity (LightInv).                               *)
(*                                                                         *)
(* The lamp and the filter that follow it, for any number of processes,    *)
(* any values of the light sensor and any table.                           *)
(*                                                                         *)
(* The automatic mode (IInv): a request ends it before it touches a pin,   *)
(* so in that mode no process is in the middle of a SetStatus and the      *)
(* direction pin is where the filter is.                                   *)
(*                                                                         *)
(* The filter (FilterInv): as long as no two requests have met, one        *)
(* request at most is active, the coil it drives is the only one, and no   *)
(* shutdown is in the table until it has registered its own, which is not  *)
(* called before the next scan, by which the filter has moved.             *)
(***************************************************************************)
EXTENDS Light, DayNight, WellFoundedInduction, TLAPS

-----------------------------------------------------------------------------
(* The light sensor.                                                       *)

Samples == 0 .. MaxSam

\* Between requests the limits are those of the sensitivity set; within one the day limit is.
LimitsAreSet ==
    /\ halfSet # <<>> => dLimit = DayLimit(halfSet[1], halfSet[2])
    /\ halfSet = <<>> /\ sensitive # <<>>
       => /\ dLimit = DayLimit(sensitive[1], sensitive[2])
          /\ nLimit = NightLimit(sensitive[1], sensitive[2])

LightInv == LightTypeOK /\ LimitsAreSet

LEMMA ConstantsAreInt ==
  /\ MaxSam \in Nat /\ Unit \in Nat \ {0} /\ 100 * Unit >= MaxSam
  /\ MaxSam <= 255 * Unit
  /\ Sample \subseteq Samples /\ Steps = 5 /\ BreakTimes \in Nat \ {0}
<1>1. MaxSam \in Nat /\ Unit = MaxSam \div 100 + 1
  BY LdrAssumption
<1>2. MaxSam \div 100 \in Nat /\ 100 * (MaxSam \div 100) + 100 >= MaxSam
  BY <1>1
<1> QED BY <1>1, <1>2, LightAssumption DEF Samples

\* The average of v and five others, rounded down, is not above them all, nor below them all.
LEMMA AverageIsBetween ==
  ASSUME NEW v \in Int, NEW a \in Int, NEW b \in Int, NEW c \in Int, NEW d \in Int, NEW e \in Int
  PROVE  LET f == (8 * v + a + b + c + d + 4 * e) \div 16
         IN  /\ f \in Int
             /\ \A m \in Int : v <= m /\ a <= m /\ b <= m /\ c <= m /\ d <= m /\ e <= m => f <= m
             /\ \A m \in Int : v >= m /\ a >= m /\ b >= m /\ c >= m /\ d >= m /\ e >= m => f >= m
  OBVIOUS

\* What the filter yields, and what it is an average of.
LEMMA FilteredIsRemembered ==
  ASSUME LightTypeOK
  PROVE  /\ Filtered(converted) \in Samples
         /\ \A m \in Int : m < Filtered(converted) => \E v \in Remembered : v > m
         /\ \A m \in Int : m > Filtered(converted) => \E v \in Remembered : v < m
<1> DEFINE v == converted
           t == Averaged(v)
<1>1. v \in Samples /\ v \in Remembered
  BY ConstantsAreInt DEF LightTypeOK, Remembered
<1>2. \A i \in 1 .. 5 : t[i] \in Samples /\ t[i] \in Remembered
  BY <1>1, ConstantsAreInt DEF LightTypeOK, Averaged, Assimilated, Remembered, Samples
<1>3. 1 \in 1 .. 5 /\ 2 \in 1 .. 5 /\ 3 \in 1 .. 5 /\ 4 \in 1 .. 5 /\ 5 \in 1 .. 5
  OBVIOUS
<1>4. Filtered(v) = (8 * v + t[1] + t[2] + t[3] + t[4] + 4 * t[5]) \div 16
  BY DEF Filtered
<1> HIDE DEF v, t
<1>5. v \in Int /\ v >= 0 /\ v <= MaxSam
  BY <1>1, ConstantsAreInt DEF Samples
<1>6. \A i \in 1 .. 5 : t[i] \in Int /\ t[i] >= 0 /\ t[i] <= MaxSam
  BY <1>2, ConstantsAreInt DEF Samples
<1>7. /\ t[1] \in Int /\ t[2] \in Int /\ t[3] \in Int /\ t[4] \in Int /\ t[5] \in Int
      /\ t[1] >= 0 /\ t[2] >= 0 /\ t[3] >= 0 /\ t[4] >= 0 /\ t[5] >= 0
      /\ t[1] <= MaxSam /\ t[2] <= MaxSam /\ t[3] <= MaxSam /\ t[4] <= MaxSam /\ t[5] <= MaxSam
  BY <1>3, <1>6
<1>8. t[1] \in Remembered /\ t[2] \in Remembered /\ t[3] \in Remembered /\ t[4] \in Remembered /\ t[5] \in Remembered
  BY <1>2, <1>3
<1>9. Filtered(v) \in Samples
  BY <1>4, <1>5, <1>7, ConstantsAreInt DEF Samples
<1>10. \A m \in Int : m < Filtered(v) => \E x \in Remembered : x > m
  <2> SUFFICES ASSUME NEW m \in Int, \A x \in Remembered : ~(x > m)
               PROVE  ~(m < Filtered(v))
    OBVIOUS
  <2>1. v <= m /\ t[1] <= m /\ t[2] <= m /\ t[3] <= m /\ t[4] <= m /\ t[5] <= m
    BY <1>1, <1>5, <1>7, <1>8
  <2> QED BY <1>4, <1>5, <1>7, <2>1
<1>11. \A m \in Int : m > Filtered(v) => \E x \in Remembered : x < m
  <2> SUFFICES ASSUME NEW m \in Int, \A x \in Remembered : ~(x < m)
               PROVE  ~(m > Filtered(v))
    OBVIOUS
  <2>1. v >= m /\ t[1] >= m /\ t[2] >= m /\ t[3] >= m /\ t[4] >= m /\ t[5] >= m
    BY <1>1, <1>5, <1>7, <1>8
  <2> QED BY <1>4, <1>5, <1>7, <2>1
<1> QED BY <1>9, <1>10, <1>11 DEF v

LEMMA SensitiveIsPair ==
  ASSUME NEW s \in Sensitive
  PROVE  s[1] \in 0 .. 255 /\ s[2] \in 0 .. 255 /\ s # <<>>
<1>1. s \in (0 .. 255) \X (0 .. 255)
  BY LightAssumption
<1> QED BY <1>1

LEMMA LimitsAreTyped ==
  ASSUME NEW p \in 0 .. 255, NEW d \in 0 .. 255
  PROVE  DayLimit(p, d) \in Samples /\ NightLimit(p, d) \in 0 .. 255 * Unit
<1>1. Unit * (p + d) \in Nat
  BY ConstantsAreInt
<1>2. Unit * (p - d) \in Int /\ Unit * (p - d) <= 255 * Unit
  BY ConstantsAreInt
<1> QED BY <1>1, <1>2, ConstantsAreInt DEF DayLimit, NightLimit, Samples

-----------------------------------------------------------------------------
LEMMA LightInitIsGood == LightInit => LightInv
<1> SUFFICES ASSUME LightInit PROVE LightInv
  OBVIOUS
<1> USE ConstantsAreInt DEF Samples
<1>1. Start \in Sample /\ Start \in 0 .. MaxSam
  BY LightAssumption
<1>2. LdrTypeOK
  BY <1>1, LdrAssumption DEF LightInit, LdrInit, LdrTypeOK, Phase
<1>3. LightTypeOK
  BY <1>1, <1>2, LightAssumption DEF LightInit, LightTypeOK, Assimilated
<1> QED BY <1>3 DEF LightInit, LightInv, LimitsAreSet

LEMMA JudgedIsTyped ==
  ASSUME LdrTypeOK, NEW v \in Samples
  PROVE  /\ Judged(v) \in (SUBSET Phase) \ {{}}
         /\ Judged(v) # status => \/ Judged(v) = {"day"}   /\ v > dLimit
                                  \/ Judged(v) = {"night"} /\ v < nLimit
  BY DEF LdrTypeOK, Judged, Phase

LEMMA CheckIsGood == LightInv /\ MotorCheck => LightInv'
<1> SUFFICES ASSUME LightInv, MotorCheck PROVE LightInv'
  OBVIOUS
<1> DEFINE v == converted
           f == Filtered(v)
<1>1. LightTypeOK
  BY DEF LightInv
<1>2. f \in Samples
  BY <1>1, FilteredIsRemembered
<1>3. v \in Samples
  BY <1>1, ConstantsAreInt DEF LightTypeOK
<1>4. Averaged(v) \in [1 .. Steps -> Samples]
  BY <1>1, <1>3 DEF Averaged, Assimilated, LightTypeOK, Samples
<1>5. CountAfter(v) \in 0 .. BreakTimes - 1
  BY <1>1, ConstantsAreInt DEF CountAfter, IsBreak, LightTypeOK
<1>6. Judged(f) \in (SUBSET Phase) \ {{}}
  BY <1>1, <1>2, JudgedIsTyped DEF LightTypeOK
<1>7. buf' \in [1 .. Steps -> Samples]
  <2>1. buf' = Shifted(Averaged(v), f)
    BY DEF MotorCheck
  <2> QED BY <1>2, <1>4, <2>1, ConstantsAreInt DEF Shifted
<1>8. LdrTypeOK'
  BY <1>1, <1>6 DEF MotorCheck, LightTypeOK, LdrTypeOK
<1>9. ori' \in 0 .. MaxSam
  BY <1>1, <1>2 DEF MotorCheck, LightTypeOK, Samples
<1>10. LightTypeOK'
  BY <1>1, <1>5, <1>7, <1>8, <1>9 DEF MotorCheck, LightTypeOK, Samples
<1>11. LimitsAreSet'
  BY DEF LightInv, LimitsAreSet, MotorCheck, DayLimit, NightLimit
<1> QED BY <1>10, <1>11 DEF LightInv

LEMMA LightChangesIsGood == LightInv /\ LightChanges => LightInv'
<1> SUFFICES ASSUME LightInv, LightChanges PROVE LightInv'
  OBVIOUS
<1>1. LightTypeOK'
  BY LightAssumption, SMTT(30) DEF LightInv, LightTypeOK, LdrTypeOK, ldrVars, LightChanges
<1>2. LimitsAreSet'
  BY DEF LightInv, LimitsAreSet, LightChanges, ldrVars, DayLimit, NightLimit
<1> QED BY <1>1, <1>2 DEF LightInv

LEMMA SetDayLimitIsGood == LightInv /\ SetDayLimit => LightInv'
<1> SUFFICES ASSUME LightInv, halfSet = <<>>, NEW s \in Sensitive,
                    halfSet' = s, dLimit' = DayLimit(s[1], s[2]),
                    UNCHANGED <<nLimit, status, light, converted, buf, ori, count, sensitive, changes>>
             PROVE  LightInv'
  BY DEF SetDayLimit
<1>1. s # <<>> /\ dLimit' \in 0 .. MaxSam
  BY SensitiveIsPair, LimitsAreTyped, ZenonT(40) DEF Samples
<1>2. LightTypeOK'
  BY <1>1 DEF LightInv, LightTypeOK, LdrTypeOK
<1>3. LimitsAreSet'
  BY <1>1 DEF LimitsAreSet, DayLimit
<1> QED BY <1>2, <1>3 DEF LightInv

LEMMA SetNightLimitIsGood == LightInv /\ SetNightLimit => LightInv'
<1> SUFFICES ASSUME LightInv, SetNightLimit PROVE LightInv'
  OBVIOUS
<1>1. halfSet \in Sensitive /\ dLimit = DayLimit(halfSet[1], halfSet[2])
  BY DEF LightInv, LightTypeOK, LimitsAreSet, SetNightLimit
<1>2. nLimit' \in 0 .. 255 * Unit
  BY <1>1, SensitiveIsPair, LimitsAreTyped DEF SetNightLimit
<1>3. LightTypeOK'
  BY <1>1, <1>2 DEF LightInv, LightTypeOK, LdrTypeOK, SetNightLimit
<1>4. LimitsAreSet'
  BY <1>1 DEF LimitsAreSet, SetNightLimit, DayLimit, NightLimit
<1> QED BY <1>3, <1>4 DEF LightInv

LEMMA LightStepIsGood == LightInv /\ [LightNext]_lightVars => LightInv'
<1>1. ASSUME LightInv, UNCHANGED lightVars PROVE LightInv'
  BY <1>1 DEF LightInv, LightTypeOK, LdrTypeOK, LimitsAreSet, lightVars, ldrVars, DayLimit, NightLimit
<1> QED BY <1>1, CheckIsGood, LightChangesIsGood, SetDayLimitIsGood, SetNightLimitIsGood DEF LightNext

LEMMA LightIsGood == LightSpec => []LightInv
  BY LightInitIsGood, LightStepIsGood, PTL DEF LightSpec

\* Only the sensor's own call changes the status.
LEMMA StatusChangesByCheck ==
  ASSUME [LightNext]_lightVars, status' # status
  PROVE  MotorCheck
  BY DEF LightNext, LightChanges, SetDayLimit, SetNightLimit, lightVars, ldrVars

-----------------------------------------------------------------------------
\* Type correctness, for all samples and sensitivities: no count passes the break, and no
\* average or limit its range (LDR.c:120-169, 384-403).
THEOREM LightIsTyped == LightSpec => []LightTypeOK
<1>1. LightInv => LightTypeOK
  BY DEF LightInv
<1> QED BY <1>1, LightIsGood, PTL

\* The status turns only where the sample or one the filter remembers is beyond the limit:
\* the averaging (LDR.c:145-151) cannot invent a day or a night.
THEOREM StatusFollowsTheLight == LightSpec => ChangesWithTheLight
<1>1. ASSUME LightInv, [LightNext]_lightVars, status' # status
      PROVE  \/ status' = {"day"}   /\ \E v \in Remembered : v > dLimit
             \/ status' = {"night"} /\ \E v \in Remembered : v < nLimit
  <2> DEFINE f == Filtered(converted)
  <2>1. LightTypeOK /\ LdrTypeOK /\ MotorCheck
    BY <1>1, StatusChangesByCheck DEF LightInv, LightTypeOK
  <2>2. f \in Samples /\ status' = Judged(f)
    BY <2>1, FilteredIsRemembered DEF MotorCheck
  <2>3. \/ status' = {"day"} /\ f > dLimit
        \/ status' = {"night"} /\ f < nLimit
    BY <1>1, <2>1, <2>2, JudgedIsTyped
  <2>4. dLimit \in Int /\ nLimit \in Int
    BY <2>1, ConstantsAreInt DEF LdrTypeOK
  <2> QED BY <2>1, <2>3, <2>4, FilteredIsRemembered
<1>2. LightInv /\ [LightNext]_lightVars
      => [status' # status => \/ status' = {"day"}   /\ \E v \in Remembered : v > dLimit
                              \/ status' = {"night"} /\ \E v \in Remembered : v < nLimit]_lightVars
  BY <1>1
<1> QED BY <1>2, LightIsGood, PTL DEF LightSpec, ChangesWithTheLight

\* With a sensitivity of 0 the sensor never turns to night, with one of 100 or more never
\* to day (CommunicateProtocol.md:574-575), whatever the domain is.
THEOREM ExtremesAreSilentAlways == LightSpec => ExtremesAreSilent
<1>1. ASSUME LightInv, [LightNext]_lightVars, status' # status, sensitive # <<>>, halfSet = <<>>
      PROVE  (sensitive[1] = 0 => status' # {"night"}) /\ (sensitive[1] >= 100 => status' # {"day"})
  <2> DEFINE f == Filtered(converted)
             p == sensitive[1]
             d == sensitive[2]
  <2>1. LightTypeOK /\ LdrTypeOK /\ MotorCheck
    BY <1>1, StatusChangesByCheck DEF LightInv, LightTypeOK
  <2>2. f \in Samples /\ status' = Judged(f)
    BY <2>1, FilteredIsRemembered DEF MotorCheck
  <2>3. \/ status' = {"day"} /\ f > dLimit
        \/ status' = {"night"} /\ f < nLimit
    BY <1>1, <2>1, <2>2, JudgedIsTyped
  <2>4. dLimit = DayLimit(p, d) /\ nLimit = NightLimit(p, d)
    BY <1>1 DEF LightInv, LimitsAreSet
  <2>5. p \in 0 .. 255 /\ d \in 0 .. 255
    BY <1>1, <2>1, SensitiveIsPair DEF LightTypeOK
  <2> HIDE DEF f, p, d
  <2>6. p = 0 => nLimit = 0
    BY <2>4, <2>5, ConstantsAreInt DEF NightLimit
  <2>7. p >= 100 => dLimit = MaxSam
    <3>1. SUFFICES ASSUME p >= 100 PROVE dLimit = MaxSam
      OBVIOUS
    <3>2. Unit * (p + d) >= 100 * Unit /\ Unit * (p + d) \in Nat
      BY <2>5, <3>1, ConstantsAreInt
    <3> QED BY <2>4, <3>2, ConstantsAreInt DEF DayLimit
  <2>8. p = 0 => status' # {"night"}
    BY <2>2, <2>3, <2>6, ConstantsAreInt DEF Samples
  <2>9. p >= 100 => status' # {"day"}
    BY <2>2, <2>3, <2>7, ConstantsAreInt DEF Samples
  <2> QED BY <2>8, <2>9 DEF p
<1>2. LightInv /\ [LightNext]_lightVars
      => [status' # status /\ sensitive # <<>> /\ halfSet = <<>>
          => (sensitive[1] = 0 => status' # {"night"}) /\ (sensitive[1] >= 100 => status' # {"day"})]_lightVars
  BY <1>1
<1> QED BY <1>2, LightIsGood, PTL DEF LightSpec, ExtremesAreSilent

-----------------------------------------------------------------------------
(* The lamp and the filter.                                                *)

\* No process is on its way to a pin.
Untouched ==
    \A p \in Process : setting[p].stage = "none" /\ request[p].phase \in {"idle", "failing"}

\* The driver of type B: its direction pin is the filter's place, and its motor is never
\* registered to be shut down.
DirectionIsBlade ==
    type = "B" => /\ blade = IF pin[0] THEN "pass" ELSE "block"
                  /\ \A k \in Slot : slot[k].handler # "shutdown"

Typed ==
    /\ type \in Type /\ pin \in [0 .. 2 -> BOOLEAN]
    /\ slot \in [Slot -> [handler : Handler \cup {"none"}, left : Int]]
    /\ setting \in [Process -> [stage : Stage, way : Way]]
    /\ request \in [Process -> [phase : Phases, want : Way, nap : Int]]
    /\ mode \in {"auto", "manual"}
    /\ status \in {{"day"}, {"night"}, Phase}

IInv ==
    /\ Typed /\ DirectionIsBlade
    /\ mode = "auto" => Untouched
    /\ switched => type = "B" /\ status # Phase
    /\ AutoAgrees

LEMMA ZeroIsPin == 0 \in 0 .. 2 /\ 1 \in 0 .. 2 /\ 2 \in 0 .. 2 /\ Slot \subseteq Int /\ Shutdown \in Int
  BY FilterAssumption DEF Slot

LEMMA PhasesDiffer == {"day"} # Phase /\ {"night"} # Phase /\ {"day"} # {"night"}
<1>1. "day" \in Phase /\ "night" \in Phase /\ "day" # "night"
  BY DEF Phase
<1>2. "night" \notin {"day"} /\ "day" \notin {"night"}
  OBVIOUS
<1> QED BY <1>1, <1>2

\* A judgement that changes the status leaves one flag.
LEMMA JudgedIsOne ==
  ASSUME status \in {{"day"}, {"night"}, Phase}, NEW v
  PROVE  Judged(v) \in {status, {"day"}, {"night"}}
  BY DEF Judged

\* The table keeps its type; only what is registered gets into it.
LEMMA RegisteredIsTyped ==
  ASSUME Typed, NEW h \in Handler
  PROVE  /\ Registered(h) \in [Slot -> [handler : Handler \cup {"none"}, left : Int]]
         /\ \A k \in Slot : Registered(h)[k].handler \in {h, slot[k].handler}
<1>1. Period(h) \in Int
  BY ZeroIsPin DEF Period
<1> DEFINE j == First(Holders("none"))
           r == [slot EXCEPT ![j] = [handler |-> h, left |-> Period(h)]]
<1>2. r \in [Slot -> [handler : Handler \cup {"none"}, left : Int]]
  BY <1>1 DEF Typed
<1>3. \A k \in Slot : r[k].handler \in {h, slot[k].handler}
  BY DEF Typed
<1> QED BY <1>2, <1>3 DEF Registered, Typed

LEMMA FiredIsTyped ==
  ASSUME Typed, NEW k \in Slot
  PROVE  /\ Fired(k) \in [Slot -> [handler : Handler \cup {"none"}, left : Int]]
         /\ \A j \in Slot : Fired(k)[j].handler \in {"none", slot[j].handler}
<1> DEFINE h == slot[k].handler
           t == [slot EXCEPT ![First(Holders(h))] = Free]
           r == [t EXCEPT ![k].left = Period(h)]
<1>1. Period(h) \in Int
  BY ZeroIsPin DEF Period
<1>2. /\ t \in [Slot -> [handler : Handler \cup {"none"}, left : Int]]
      /\ \A j \in Slot : t[j].handler \in {"none", slot[j].handler}
  <2> DEFINE f == First(Holders(h))
  <2>1. Free \in [handler : Handler \cup {"none"}, left : Int] /\ Free.handler = "none"
    BY DEF Free
  <2>2. t = [slot EXCEPT ![f] = Free]
    OBVIOUS
  <2> HIDE DEF t, f, h
  <2> QED BY <2>1, <2>2 DEF Typed
<1>3. Fired(k) \in {t, r}
  BY DEF Fired
<1> HIDE DEF t, h
<1>4. /\ r \in [Slot -> [handler : Handler \cup {"none"}, left : Int]]
      /\ \A j \in Slot : r[j].handler = t[j].handler
  BY <1>1, <1>2
<1> QED BY <1>2, <1>3, <1>4

\* Pin 0 starts low on every board.
LEMMA FirstPinsFacts == FilterInit => pin \in [0 .. 2 -> BOOLEAN] /\ ~pin[0]
<1> DEFINE b(i) == type = "C" /\ i > 0
<1>1. \A i \in 0 .. 2 : b(i) \in BOOLEAN
  OBVIOUS
<1>2. FilterInit => pin = [i \in 0 .. 2 |-> b(i)]
  BY Zenon DEF FilterInit
<1>3. ~b(0)
  OBVIOUS
<1> HIDE DEF b
<1>4. FilterInit => pin \in [0 .. 2 -> BOOLEAN]
  BY <1>1, <1>2, Zenon
<1>5. FilterInit => pin[0] = b(0)
  BY <1>2, ZeroIsPin, Zenon
<1> QED BY <1>3, <1>4, <1>5, Zenon

LEMMA InitIsGood == Init => IInv
<1> SUFFICES ASSUME Init PROVE IInv
  OBVIOUS
<1>1. pin \in [0 .. 2 -> BOOLEAN] /\ ~pin[0]
  BY FirstPinsFacts DEF Init
<1>2. status \in {{"day"}, {"night"}, Phase}
  BY DEF Init, LdrInit
<1>3. Typed
  <2>1. type \in Type /\ mode = "auto"
    BY DEF Init, FilterInit
  <2>2. slot \in [Slot -> [handler : Handler \cup {"none"}, left : Int]]
    BY DEF Init, FilterInit, Free
  <2>3. setting \in [Process -> [stage : Stage, way : Way]]
    BY DEF Init, FilterInit, NotSet, Way, Stage
  <2>4. request \in [Process -> [phase : Phases, want : Way, nap : Int]]
    BY DEF Init, NoRequest, Phases, Way
  <2> QED BY <1>1, <1>2, <2>1, <2>2, <2>3, <2>4 DEF Typed
<1>4. DirectionIsBlade
  BY <1>1 DEF Init, FilterInit, DirectionIsBlade, Free
<1>5. Untouched /\ ~switched
  BY DEF Init, FilterInit, Untouched, NotSet, NoRequest
<1> QED BY <1>3, <1>4, <1>5 DEF IInv, AutoAgrees

-----------------------------------------------------------------------------
LEMMA TickIsGood == IInv /\ Tick => IInv'
<1> SUFFICES ASSUME IInv, Tick PROVE IInv'
  OBVIOUS
<1>1. /\ Counted \in [Slot -> [handler : Handler \cup {"none"}, left : Int]]
      /\ \A k \in Slot : Counted[k].handler = slot[k].handler
  BY DEF IInv, Typed, Counted, Free
<1>2. /\ Woken \in [Process -> [phase : Phases, want : Way, nap : Int]]
      /\ \A p \in Process : Woken[p].phase = request[p].phase
  BY DEF IInv, Typed, Woken
<1>3. type = "B" => Moved = blade
  BY DEF Moved, Powered
<1>4. Typed' /\ DirectionIsBlade'
  BY <1>1, <1>2, <1>3 DEF IInv, Typed, DirectionIsBlade, Tick, ldrVars
<1>5. (mode = "auto" => Untouched)'
  BY <1>2 DEF IInv, Untouched, Tick
<1> QED BY <1>3, <1>4, <1>5 DEF IInv, AutoAgrees, Tick, ldrVars

LEMMA MotorOffIsGood == IInv /\ MotorOff => IInv'
<1> SUFFICES ASSUME IInv, MotorOff PROVE IInv'
  OBVIOUS
<1>1. PICK k \in Slot : slot[k].handler = "shutdown" /\ pin' = Off /\ slot' = Fired(k)
  BY DEF MotorOff, ShutDown, Due
<1>2. type \in {"C", "D"}
  BY <1>1 DEF IInv, Typed, DirectionIsBlade, Type
<1>3. pin' \in [0 .. 2 -> BOOLEAN]
  BY <1>1, <1>2, ZeroIsPin DEF IInv, Typed, Off
<1>4. Typed' /\ DirectionIsBlade'
  BY <1>1, <1>2, <1>3, FiredIsTyped
     DEF IInv, Typed, DirectionIsBlade, MotorOff, ShutDown, ldrVars, dayNightVars
<1> QED BY <1>2, <1>4 DEF IInv, AutoAgrees, Untouched, MotorOff, ShutDown, ldrVars, dayNightVars

LEMMA ReportErrorIsGood == IInv /\ ReportError => IInv'
<1> SUFFICES ASSUME IInv, ReportError PROVE IInv'
  OBVIOUS
<1>1. PICK k \in Slot : slot' = Fired(k)
  BY DEF ReportError, Due
<1>2. Typed' /\ DirectionIsBlade'
  BY <1>1, FiredIsTyped DEF IInv, Typed, DirectionIsBlade, ReportError, ldrVars
<1> QED BY <1>2 DEF IInv, AutoAgrees, Untouched, ReportError, ldrVars

\* The light sensor's SetStatus runs to its end.
LEMMA SetInTimerIsGood ==
  ASSUME Typed, DirectionIsBlade, type = "B", NEW w \in Way, SetInTimer(w)
  PROVE  pin' \in [0 .. 2 -> BOOLEAN] /\ pin'[0] = (w = "pass") /\ blade' = w
<1>1. pin[0] \in BOOLEAN
  BY ZeroIsPin DEF Typed
<1>2. CASE IsThere(w)
  <2>1. pin' = pin /\ blade' = blade /\ pin[0] = (w = "pass")
    BY <1>2 DEF SetInTimer, IsThere
  <2>2. blade = w
    BY <2>1 DEF DirectionIsBlade, Way
  <2> QED BY <2>1, <2>2 DEF Typed
<1>3. CASE ~IsThere(w)
  <2>1. pin' = [pin EXCEPT ![0] = (w = "pass"), ![1] = TRUE] /\ blade' = w
    BY <1>3 DEF SetInTimer
  <2>2. (w = "pass") \in BOOLEAN /\ TRUE \in BOOLEAN
    OBVIOUS
  <2> QED BY <2>1, <2>2, ZeroIsPin, 0 # 1 DEF Typed
<1> QED BY <1>2, <1>3

LEMMA JudgeIsGood == IInv /\ Judge => IInv'
<1> SUFFICES ASSUME IInv, Judge PROVE IInv'
  OBVIOUS
<1>1. type = "B" /\ type' = "B" /\ mode' = mode /\ UNCHANGED <<slot, setting, request, lampAsked>>
  BY DEF Judge
<1>2. status' \in {status, {"day"}, {"night"}}
  BY JudgedIsOne DEF Judge, IInv, Typed
<1>3. status' \in {{"day"}, {"night"}, Phase}
  BY <1>2 DEF IInv, Typed
<1>4. (mode = "auto" => Untouched)'
  BY <1>1 DEF IInv, Untouched
<1>5. CASE MayJudge
  <2> DEFINE w == IF status' = {"night"} THEN "pass" ELSE "block"
  <2>1. status' \in {{"day"}, {"night"}}
    BY <1>2, <1>5 DEF MayJudge
  <2>2. lamp' = (w = "pass") /\ SetInTimer(w) /\ switched' = TRUE
    BY <1>5 DEF Judge, Switch
  <2>3. pin' \in [0 .. 2 -> BOOLEAN] /\ pin'[0] = (w = "pass") /\ blade' = w
    <3>1. w \in Way
      BY DEF Way
    <3> HIDE DEF w
    <3> QED BY <1>1, <2>2, <3>1, SetInTimerIsGood DEF IInv
  <2>4. Typed' /\ DirectionIsBlade'
    BY <1>1, <1>3, <2>3 DEF IInv, Typed, DirectionIsBlade
  <2>5. AutoAgrees'
    BY <2>2, <2>3 DEF AutoAgrees
  <2> QED BY <1>1, <1>4, <2>1, <2>4, <2>5, PhasesDiffer DEF IInv
<1>6. CASE ~MayJudge
  <2>1. UNCHANGED <<pin, blade, lamp, switched>>
    BY <1>6 DEF Judge
  <2>2. Typed' /\ DirectionIsBlade'
    BY <1>1, <1>3, <2>1 DEF IInv, Typed, DirectionIsBlade
  <2>3. mode = "auto" => status' = status
    BY <1>6 DEF MayJudge
  <2>4. switched' => status' # Phase
    BY <1>2, <2>1, PhasesDiffer DEF IInv
  <2>5. AutoAgrees'
    BY <1>1, <2>1, <2>3 DEF IInv, AutoAgrees
  <2> QED BY <1>1, <1>4, <2>1, <2>2, <2>4, <2>5 DEF IInv
<1> QED BY <1>5, <1>6

-----------------------------------------------------------------------------
(* The steps of a request.                                                 *)

\* What a step that a request makes by hand has to keep.
LEMMA ByHandIsGood ==
  ASSUME IInv, Typed', DirectionIsBlade', mode' # "auto", UNCHANGED <<type, status, switched>>
  PROVE  IInv'
  BY DEF IInv, AutoAgrees

LEMMA SetFilterIsGood == ASSUME IInv, NEW p \in Process, SetFilter(p) PROVE IInv'
<1>1. PICK w \in Way :
         /\ mode' = "manual" /\ UNCHANGED <<type, pin, blade, slot, setting, ldrVars, switched>>
         /\ request' = [request EXCEPT ![p] = [phase |-> "asking", want |-> w, nap |-> 0]]
  BY DEF SetFilter
<1>2. Typed' /\ DirectionIsBlade'
  <2>1. request' \in [Process -> [phase : Phases, want : Way, nap : Int]]
    BY <1>1 DEF IInv, Typed, Phases
  <2> QED BY <1>1, <2>1 DEF IInv, Typed, DirectionIsBlade, ldrVars
<1> QED BY <1>1, <1>2, ByHandIsGood DEF ldrVars

LEMMA ChooseIsGood == ASSUME IInv, NEW p \in Process, Choose(p) PROVE IInv'
<1>1. PICK x \in {"flip", "only"}, v \in Way :
         /\ UNCHANGED <<type, pin, blade, slot, ldrVars, mode, switched>>
         /\ request[p].phase = "asking" /\ request' = [request EXCEPT ![p].phase = x]
         /\ setting' = [setting EXCEPT ![p] = [stage |-> "begin", way |-> v]]
  BY DEF Choose, StartsSet, IsIn, Way, IInv, Typed
<1>2. Typed' /\ DirectionIsBlade'
  <2>1. request' \in [Process -> [phase : Phases, want : Way, nap : Int]]
    BY <1>1 DEF IInv, Typed, Phases
  <2>2. setting' \in [Process -> [stage : Stage, way : Way]]
    BY <1>1 DEF IInv, Typed, Stage
  <2> QED BY <1>1, <2>1, <2>2 DEF IInv, Typed, DirectionIsBlade, ldrVars
<1>3. mode' # "auto"
  BY <1>1 DEF IInv, Untouched
<1> QED BY <1>1, <1>2, <1>3, ByHandIsGood DEF ldrVars

LEMMA SetPinsIsGood == ASSUME IInv, NEW p \in Process, SetPins(p) PROVE IInv'
<1>1. UNCHANGED <<type, status, switched, mode, request>> /\ SetStep(p)
  <2>1. UNCHANGED <<status, switched, mode, request>> /\ SetStep(p)
    BY DEF SetPins, ldrVars, dayNightVars
  <2>2. type' = type
    BY <2>1 DEF SetStep, SetBegin, SetOther, SetMove, SetEnd
  <2> QED BY <2>1, <2>2
<1>2. setting[p].stage # "none"
  BY <1>1 DEF SetStep, SetBegin, SetOther, SetMove, SetEnd, At
<1>3. mode' # "auto"
  BY <1>1, <1>2 DEF IInv, Untouched
<1>4. setting' \in [Process -> [stage : Stage, way : Way]]
  <2>1. PICK x \in Stage : Goes(p, x)
    BY <1>1 DEF SetStep, SetBegin, SetOther, SetMove, SetEnd, AfterFirst, IsThere, Stage, IInv, Typed, Type
  <2> QED BY <2>1 DEF IInv, Typed, Goes
<1> DEFINE w == setting[p].way
<1>5. w \in Way
  BY DEF IInv, Typed
<1>6. pin \in [0 .. 2 -> BOOLEAN] /\ Coil(w) \in 0 .. 2 /\ Other(w) \in 0 .. 2
  BY ZeroIsPin DEF IInv, Typed, Coil, Other
<1>7. slot' \in [Slot -> [handler : Handler \cup {"none"}, left : Int]]
      /\ (type = "B" => slot' = slot)
  <2>1. "shutdown" \in Handler
    BY DEF Handler
  <2>2. slot' = slot \/ (type # "B" /\ slot' = Registered("shutdown"))
    BY <1>1 DEF SetStep, SetBegin, SetOther, SetMove, SetEnd
  <2> QED BY <2>1, <2>2, RegisteredIsTyped DEF IInv, Typed
<1>8. /\ pin' \in [0 .. 2 -> BOOLEAN]
      /\ type = "B" => blade' = IF pin'[0] THEN "pass" ELSE "block"
  <2>1. CASE SetBegin(p)
    <3>1. pin' \in {pin, FirstPin(w)} /\ blade' = blade
      BY <2>1 DEF SetBegin
    <3>2. FirstPin(w) \in [0 .. 2 -> BOOLEAN] /\ (type = "B" => FirstPin(w)[0] = pin[0])
      <4>1. CASE type = "B"
        BY <1>6, <4>1, ZeroIsPin DEF FirstPin
      <4>2. CASE type = "C"
        BY <1>6, <4>2, ZeroIsPin DEF FirstPin
      <4>3. CASE type = "D"
        BY <1>6, <4>3, ZeroIsPin DEF FirstPin
      <4> QED BY <4>1, <4>2, <4>3 DEF IInv, Typed, Type
    <3> QED BY <1>6, <3>1, <3>2 DEF IInv, DirectionIsBlade
  <2>2. CASE SetOther(p)
    BY <1>6, <2>2 DEF SetOther, OtherOff, IInv, DirectionIsBlade
  <2>3. CASE SetMove(p)
    <3>1. (w = "pass") \in BOOLEAN
      OBVIOUS
    <3>2. CASE type = "B"
      <4>1. pin' = [pin EXCEPT ![0] = (w = "pass")] /\ blade' = w
        BY <2>3, <3>2 DEF SetMove
      <4> HIDE DEF w
      <4>2. pin' \in [0 .. 2 -> BOOLEAN] /\ pin'[0] = (w = "pass")
        BY <1>6, <3>1, <4>1, ZeroIsPin
      <4> QED BY <1>5, <4>1, <4>2 DEF Way
    <3>3. CASE type # "B"
      BY <1>6, <2>3, <3>3 DEF SetMove
    <3> QED BY <3>2, <3>3
  <2>4. CASE SetEnd(p)
    <3>1. pin' \in {pin, [pin EXCEPT ![1] = TRUE]} /\ blade' = blade
      BY <2>4 DEF SetEnd
    <3>2. pin'[0] = pin[0] /\ pin' \in [0 .. 2 -> BOOLEAN]
      <4>1. [pin EXCEPT ![1] = TRUE][0] = pin[0] /\ [pin EXCEPT ![1] = TRUE] \in [0 .. 2 -> BOOLEAN]
        BY <1>6, ZeroIsPin, 0 # 1, TRUE \in BOOLEAN, Zenon
      <4> QED BY <1>6, <3>1, <4>1, Zenon
    <3> QED BY <3>1, <3>2 DEF IInv, DirectionIsBlade
  <2> QED BY <1>1, <2>1, <2>2, <2>3, <2>4 DEF SetStep
<1>9. Typed' /\ DirectionIsBlade'
  BY <1>1, <1>4, <1>7, <1>8 DEF IInv, Typed, DirectionIsBlade
<1> QED BY <1>1, <1>3, <1>9, ByHandIsGood

LEMMA SleepIsGood == ASSUME IInv, NEW p \in Process, Sleep(p) PROVE IInv'
<1>1. request' = [request EXCEPT ![p].phase = "asleep", ![p].nap = Nap] /\ request[p].phase = "flip"
  BY DEF Sleep, IsIn
<1>2. Nap \in Int /\ "asleep" \in Phases
  BY DayNightAssumption DEF Phases
<1>3. request' \in [Process -> [phase : Phases, want : Way, nap : Int]]
  BY <1>1, <1>2 DEF IInv, Typed
<1>4. Typed' /\ DirectionIsBlade'
  BY <1>3 DEF IInv, Typed, DirectionIsBlade, Sleep, filterVars, ldrVars
<1>5. mode' # "auto"
  BY <1>1 DEF IInv, Untouched, Sleep
<1> QED BY <1>4, <1>5, ByHandIsGood DEF Sleep, filterVars, ldrVars

LEMMA WakeIsGood == ASSUME IInv, NEW p \in Process, Wake(p) PROVE IInv'
<1>1. request' = [request EXCEPT ![p].phase = "only"] /\ request[p].phase = "asleep"
  BY DEF Wake, IsIn
<1>2. request' \in [Process -> [phase : Phases, want : Way, nap : Int]]
  BY <1>1 DEF IInv, Typed, Phases
<1>3. setting' \in [Process -> [stage : Stage, way : Way]]
  BY DEF IInv, Typed, Wake, StartsSet, Way, Stage
<1>4. Typed' /\ DirectionIsBlade'
  BY <1>2, <1>3 DEF IInv, Typed, DirectionIsBlade, Wake, ldrVars
<1>5. mode' # "auto"
  BY <1>1 DEF IInv, Untouched, Wake
<1> QED BY <1>4, <1>5, ByHandIsGood DEF Wake, ldrVars

LEMMA FinishIsGood == ASSUME IInv, NEW p \in Process, Finish(p) PROVE IInv'
<1>1. request' = [request EXCEPT ![p] = NoRequest] /\ request[p].phase = "only"
  BY DEF Finish, IsIn
<1>2. request' \in [Process -> [phase : Phases, want : Way, nap : Int]]
  BY <1>1 DEF IInv, Typed, NoRequest, Phases, Way
<1>3. Typed' /\ DirectionIsBlade'
  BY <1>2 DEF IInv, Typed, DirectionIsBlade, Finish, filterVars, ldrVars
<1>4. mode' # "auto"
  BY <1>1 DEF IInv, Untouched, Finish
<1> QED BY <1>3, <1>4, ByHandIsGood DEF Finish, filterVars, ldrVars

LEMMA SetLampIsGood == ASSUME IInv, NEW p \in Process, SetLamp(p) PROVE IInv'
<1>1. Typed' /\ DirectionIsBlade' /\ (mode = "auto" => Untouched)'
  BY DEF IInv, Typed, DirectionIsBlade, Untouched, SetLamp, filterVars, ldrVars
<1> QED BY <1>1 DEF IInv, AutoAgrees, SetLamp, filterVars, ldrVars

LEMMA FailIsGood == ASSUME IInv, NEW p \in Process, Fail(p) PROVE IInv'
<1>1. request' = [request EXCEPT ![p].phase = "failing"]
  BY DEF Fail
<1>2. request' \in [Process -> [phase : Phases, want : Way, nap : Int]]
  BY <1>1 DEF IInv, Typed, Phases
<1>3. Typed' /\ DirectionIsBlade'
  BY <1>2 DEF IInv, Typed, DirectionIsBlade, Fail, filterVars, ldrVars
<1>4. (mode = "auto" => Untouched)'
  BY <1>1 DEF IInv, Typed, Untouched, Fail, filterVars
<1> QED BY <1>3, <1>4 DEF IInv, AutoAgrees, Fail, filterVars, ldrVars

LEMMA RegisterErrorIsGood == ASSUME IInv, NEW p \in Process, RegisterError(p) PROVE IInv'
<1>1. request' = [request EXCEPT ![p] = NoRequest] /\ slot' = Registered("error")
  BY DEF RegisterError
<1>2. request' \in [Process -> [phase : Phases, want : Way, nap : Int]]
  BY <1>1 DEF IInv, Typed, NoRequest, Phases, Way
<1>3. /\ slot' \in [Slot -> [handler : Handler \cup {"none"}, left : Int]]
      /\ \A k \in Slot : slot'[k].handler \in {"error", slot[k].handler}
  BY <1>1, RegisteredIsTyped, "error" \in Handler DEF IInv, Handler
<1>4. Typed' /\ DirectionIsBlade'
  BY <1>2, <1>3 DEF IInv, Typed, DirectionIsBlade, RegisterError, ldrVars
<1>5. (mode = "auto" => Untouched)'
  BY <1>1 DEF IInv, Typed, Untouched, NoRequest, RegisterError
<1> QED BY <1>4, <1>5 DEF IInv, AutoAgrees, RegisterError, ldrVars

-----------------------------------------------------------------------------
LEMMA StepIsGood == IInv /\ [Next]_vars => IInv'
<1> SUFFICES ASSUME IInv, [Next]_vars PROVE IInv'
  OBVIOUS
<1>1. CASE Timer
  BY <1>1, TickIsGood, MotorOffIsGood, ReportErrorIsGood DEF Timer
<1>2. CASE Judge
  BY <1>2, JudgeIsGood
<1>3. CASE \E p \in Process : Request(p)
  BY <1>3, SetFilterIsGood, ChooseIsGood, SetPinsIsGood, SleepIsGood, WakeIsGood, FinishIsGood, SetLampIsGood,
     FailIsGood, RegisterErrorIsGood DEF Request
<1>4. CASE UNCHANGED vars
  BY <1>4 DEF IInv, Typed, DirectionIsBlade, Untouched, AutoAgrees, vars, filterVars, ldrVars, dayNightVars
<1> QED BY <1>1, <1>2, <1>3, <1>4 DEF Next

\* Until a request takes over, the lamp and the filter are those of the light sensor's
\* status, once it has switched them (LDR.c:206-258, MsgCenter.c:560-576).
THEOREM SensorDecides == Spec => []AutoAgrees
<1>1. IInv => AutoAgrees
  BY DEF IInv
<1> QED BY InitIsGood, StepIsGood, <1>1, PTL DEF Spec

-----------------------------------------------------------------------------
(* The filter.                                                             *)

Active(p) == request[p].phase \in {"asking", "flip", "asleep", "only"}

\* What the coils of the types C and D do moves the filter to w, and nothing else ...
Aimed(w) == Powered => pin[Coil(w)] /\ ~pin[Other(w)]

\* ... and the motor is not turned off before it is there.
Arriving(w) == blade = w \/ (Powered /\ \A k \in Holders("shutdown") : slot[k].left >= 1)

Settled(w) == IF type = "B" THEN blade = w ELSE Aimed(w) /\ Arriving(w)

\* Both coils are driven.
Opposed == Powered /\ pin[0] /\ pin[1]

\* A SetStatus of p that met nothing and has written its first pin.
Working(p) == At(p, "coil") \/ At(p, "move") \/ At(p, "end")

Driven(p) ==
    LET w == setting[p].way
    IN  IF type = "B" THEN At(p, "end") => blade = w
        ELSE /\ Powered /\ Holders("shutdown") = {}
             /\ At(p, "coil") \/ ~pin[Other(w)]
             /\ At(p, "end") => pin[Coil(w)]

\* The SetStatus of a request is in its own phases.
InPhase(p) ==
    /\ request[p].phase \notin {"flip", "only"} => At(p, "none")
    /\ IsIn(p, "only") => setting[p].way = request[p].want
    /\ IsIn(p, "flip") \/ IsIn(p, "asleep") => request[p].want = "block"
    /\ type = "D" => ~At(p, "move")
    /\ type # "C" => ~At(p, "coil")

FilterInv ==
    /\ \A p \in Process : InPhase(p)
    /\ last # "none" => mode = "manual"
    /\ blade \in Way /\ last \in Way \cup {"none"}
    /\ ~muddled =>
         /\ \A p, q \in Process : Active(p) /\ Active(q) => p = q
         /\ \A p \in Process : Working(p) => Driven(p)
         /\ \A p \in Process : IsIn(p, "only") /\ At(p, "none") => Settled(request[p].want)
         /\ last # "none" /\ (\A p \in Process : ~Active(p)) => Settled(last)
         /\ Opposed => \E p \in Process : At(p, "coil")

-----------------------------------------------------------------------------
(* The table.                                                              *)

LEMMA FirstIsIn == ASSUME NEW S \in SUBSET Slot, S # {} PROVE First(S) \in S
<1>1. S \subseteq Nat
  BY FilterAssumption DEF Slot
<1>2. PICK k \in S : \A j \in S : <<j, k>> \notin OpToRel(<, Nat)
  BY <1>1, NatLessThanWellFounded, WFMin, Zenon
<1>3. \A j \in S : ~ (j < k)
  BY <1>1, <1>2 DEF OpToRel
<1>4. \A a, b \in Nat : ~ (a < b) => b <= a
  OBVIOUS
<1>5. \A j \in S : k <= j
  BY <1>1, <1>3, <1>4
<1> QED BY <1>5, Zenon DEF First

\* A registration writes one vacant slot, if there is one.
LEMMA RegisteredFacts ==
  ASSUME Typed, NEW h \in Handler
  PROVE  /\ IsFull => Registered(h) = slot
         /\ \A k \in Slot : Registered(h)[k] # slot[k]
               => slot[k].handler = "none" /\ Registered(h)[k] = [handler |-> h, left |-> Period(h)]
         /\ ~IsFull => \E k \in Slot : Registered(h)[k].handler = h
<1>1. CASE IsFull
  BY <1>1 DEF Registered
<1>2. CASE ~IsFull
  <2> DEFINE f == First(Holders("none"))
  <2>1. Holders("none") \in SUBSET Slot /\ Holders("none") # {}
    BY <1>2 DEF IsFull, Holders
  <2>2. f \in Holders("none")
    BY <2>1, FirstIsIn
  <2>3. f \in Slot /\ slot[f].handler = "none"
    BY <2>2 DEF Holders
  <2>4. Registered(h) = [slot EXCEPT ![f] = [handler |-> h, left |-> Period(h)]]
    BY <1>2 DEF Registered
  <2> HIDE DEF f
  <2>5. slot \in [Slot -> [handler : Handler \cup {"none"}, left : Int]]
    BY DEF Typed
  <2>6. Registered(h)[f].handler = h
    BY <2>3, <2>4, <2>5
  <2> QED BY <1>2, <2>3, <2>4, <2>5, <2>6
<1> QED BY <1>1, <1>2

\* A handler that has run and cancelled itself touches its own slots only.
LEMMA FiredFacts ==
  ASSUME Typed, NEW k \in Slot
  PROVE  \A j \in Slot : Fired(k)[j] = slot[j]
                         \/ /\ slot[j].handler = slot[k].handler
                            /\ Fired(k)[j].handler \in {"none", slot[k].handler}
<1> DEFINE h == slot[k].handler
           f == First(Holders(h))
           t == [slot EXCEPT ![f] = Free]
           r == [t EXCEPT ![k].left = Period(h)]
<1>1. f \in Slot /\ slot[f].handler = h
  <2>1. Holders(h) \in SUBSET Slot /\ k \in Holders(h)
    BY DEF Holders
  <2>2. f \in Holders(h)
    BY <2>1, FirstIsIn
  <2> QED BY <2>2 DEF Holders
<1>2. slot \in [Slot -> [handler : Handler \cup {"none"}, left : Int]]
  BY DEF Typed
<1>3. Fired(k) = IF t[k].handler = h THEN r ELSE t
  BY DEF Fired
<1> HIDE DEF f, h
<1>4. \A j \in Slot : t[j] = slot[j] \/ (slot[j].handler = h /\ t[j].handler = "none")
  BY <1>1, <1>2 DEF Free
<1>5. t \in [Slot -> [handler : Handler \cup {"none"}, left : Int]]
  <2>1. Free \in [handler : Handler \cup {"none"}, left : Int]
    BY DEF Free
  <2> QED BY <1>2, <2>1
<1> HIDE DEF t
<1>6. t[k].handler = h => \A j \in Slot : r[j] = t[j] \/ (j = k /\ r[j].handler = h)
  <2> SUFFICES ASSUME t[k].handler = h, NEW j \in Slot, j = k PROVE r[j].handler = h
    BY <1>5
  <2>1. r[k] = [t[k] EXCEPT !.left = Period(h)]
    BY <1>5
  <2>2. t[k] \in [handler : Handler \cup {"none"}, left : Int]
    BY <1>5
  <2> QED BY <2>1, <2>2
<1> HIDE DEF r
<1> QED BY <1>3, <1>4, <1>6 DEF h

-----------------------------------------------------------------------------
(* The error reports.                                                      *)

ErrorWaits == Holders("error") # {} \/ \E p \in Process : IsIn(p, "failing")

\* A step that loses no error and keeps what waits.
LEMMA ErrorsStay ==
  ASSUME ErrorsArePending, UNCHANGED <<unreported, lost, err>>, ErrorWaits => ErrorWaits'
  PROVE  ErrorsArePending'
  BY DEF ErrorsArePending, ErrorWaits

\* A slot that holds the error report keeps it.
LEMMA ErrorSlotsStay ==
  ASSUME \A k \in Slot : slot[k].handler = "error" => slot'[k].handler = "error",
         \A p \in Process : IsIn(p, "failing") => IsIn(p, "failing")'
  PROVE  ErrorWaits => ErrorWaits'
<1>1. Holders("error") # {} => Holders("error")' # {}
  BY DEF Holders
<1> QED BY <1>1 DEF ErrorWaits

LEMMA ErrorsAreKept ==
  ASSUME IInv, ErrorsArePending, [Next]_vars
  PROVE  ErrorsArePending'
<1> USE DEF IInv
<1>1. CASE Tick
  <2>1. /\ \A k \in Slot : Counted[k].handler = slot[k].handler
        /\ \A p \in Process : Woken[p].phase = request[p].phase
    BY DEF Typed, Counted, Free, Woken
  <2> QED BY <1>1, <2>1, ErrorSlotsStay, ErrorsStay DEF Tick, IsIn
<1>2. CASE MotorOff
  <2>1. PICK k \in Slot : slot[k].handler = "shutdown" /\ slot' = Fired(k)
    BY <1>2 DEF MotorOff, ShutDown, Due
  <2>2. \A j \in Slot : slot[j].handler = "error" => slot'[j].handler = "error"
    BY <2>1, FiredFacts, "error" # "shutdown"
  <2> QED BY <1>2, <2>2, ErrorSlotsStay, ErrorsStay DEF MotorOff, dayNightVars, IsIn
<1>3. CASE ReportError
  \* The one error that could be waiting is reported.
  BY <1>3 DEF ReportError, ErrorsArePending
<1>4. CASE Judge
  BY <1>4, ErrorSlotsStay, ErrorsStay DEF Judge, IsIn
<1>5. ASSUME NEW p \in Process, SetPins(p) PROVE ErrorsArePending'
  <2>1. slot' = slot \/ slot' = Registered("shutdown")
    BY <1>5 DEF SetPins, SetStep, SetBegin, SetOther, SetMove, SetEnd
  <2>2. \A j \in Slot : slot[j].handler = "error" => slot'[j].handler = "error"
    BY <2>1, RegisteredFacts, "error" # "none" DEF Handler
  <2> QED BY <1>5, <2>2, ErrorSlotsStay, ErrorsStay DEF SetPins, dayNightVars, IsIn
<1>6. ASSUME NEW p \in Process, Fail(p) PROVE ErrorsArePending'
  <2>1. PICK c \in Code : /\ err' = c /\ unreported' = unreported \cup {c}
                          /\ lost' = (lost \cup unreported) \ {c}
                          /\ request' = [request EXCEPT ![p].phase = "failing"]
    BY <1>6 DEF Fail
  <2>2. IsIn(p, "failing")'
    BY <2>1 DEF Typed, IsIn
  <2>3. unreported' \ lost' \subseteq {c}
    BY <2>1
  <2> QED BY <2>1, <2>2, <2>3 DEF ErrorsArePending
<1>7. ASSUME NEW p \in Process, RegisterError(p) PROVE ErrorsArePending'
  <2>1. /\ slot' = Registered("error") /\ UNCHANGED <<err, unreported>>
        /\ lost' = IF IsFull THEN lost \cup unreported ELSE lost
    BY <1>7 DEF RegisterError
  <2>2. CASE IsFull
    BY <2>1, <2>2 DEF ErrorsArePending
  <2>3. CASE ~IsFull
    <3>1. \E k \in Slot : slot'[k].handler = "error"
      BY <2>1, <2>3, RegisteredFacts DEF Handler
    <3>2. Holders("error")' # {}
      BY <3>1 DEF Holders
    <3> QED BY <2>1, <2>3, <3>2 DEF ErrorsArePending
  <2> QED BY <2>2, <2>3
<1>8. ASSUME NEW p \in Process, SetFilter(p) \/ Choose(p) \/ Sleep(p) \/ Wake(p) \/ Finish(p) \/ SetLamp(p)
      PROVE  ErrorsArePending'
  <2>1. UNCHANGED <<slot, unreported, lost, err>>
    BY <1>8 DEF SetFilter, Choose, Sleep, Wake, Finish, SetLamp, filterVars
  <2>2. ~IsIn(p, "failing") \/ request' = request
    BY <1>8 DEF SetFilter, Choose, Sleep, Wake, Finish, SetLamp, Begins, IsIn
  <2>3. \A q \in Process \ {p} : request'[q] = request[q]
    BY <1>8 DEF SetFilter, Choose, Sleep, Wake, Finish, SetLamp, Typed
  <2>4. \A q \in Process : IsIn(q, "failing") => IsIn(q, "failing")'
    BY <2>2, <2>3 DEF IsIn
  <2> QED BY <2>1, <2>4, ErrorSlotsStay, ErrorsStay
<1>9. CASE UNCHANGED vars
  BY <1>9, ErrorSlotsStay, ErrorsStay DEF vars, filterVars, dayNightVars, IsIn
<1> QED BY <1>1, <1>2, <1>3, <1>4, <1>5, <1>6, <1>7, <1>8, <1>9 DEF Next, Timer, Request

-----------------------------------------------------------------------------
(* The filter: steps that move nothing.                                    *)

\* The pins as they were, and no other shutdown in the table.
StillDriven ==
    /\ UNCHANGED <<type, pin, blade, setting>>
    /\ \A k \in Slot : slot'[k].handler = "shutdown" => slot'[k] = slot[k]

LEMMA StillSettled ==
  ASSUME StillDriven
  PROVE  /\ Powered <=> Powered'
         /\ \A w \in Way : Settled(w) => Settled(w)'
         /\ \A p \in Process : Driven(p) => Driven(p)'
<1>1. (Powered <=> Powered') /\ UNCHANGED <<type, pin, blade, setting>>
  BY DEF StillDriven, Powered
<1>2. \A k \in Holders("shutdown")' : k \in Holders("shutdown") /\ slot'[k] = slot[k]
  BY DEF StillDriven, Holders
<1>3. ASSUME NEW w \in Way, Settled(w) PROVE Settled(w)'
  BY <1>1, <1>2, <1>3 DEF Settled, Aimed, Arriving
<1>4. ASSUME NEW p \in Process, Driven(p) PROVE Driven(p)'
  BY <1>1, <1>2, <1>4 DEF Driven, At
<1> QED BY <1>1, <1>3, <1>4

\* A step of this kind that leaves the requests that are about the filter where they are.
LEMMA FilterStays ==
  ASSUME FilterInv, Typed, StillDriven, UNCHANGED <<mode, last, muddled>>,
         \A p \in Process : /\ Active(p)' <=> Active(p)
                            /\ Active(p) => /\ request'[p].phase = request[p].phase
                                            /\ request'[p].want = request[p].want
  PROVE  FilterInv'
<1>1. UNCHANGED <<type, pin, blade, setting>>
  BY DEF StillDriven
<1>2. \A p \in Process : InPhase(p)'
  BY <1>1 DEF FilterInv, InPhase, Active, IsIn, At
<1>3. \A p \in Process : IsIn(p, "only")' => IsIn(p, "only") /\ request'[p].want = request[p].want
  BY DEF Active, IsIn
<1>4. \A p \in Process : request[p].want \in Way
  BY DEF Typed
<1>5. ASSUME ~muddled
      PROVE  /\ \A p, q \in Process : Active(p)' /\ Active(q)' => p = q
             /\ \A p \in Process : Working(p)' => Driven(p)'
             /\ \A p \in Process : (IsIn(p, "only") /\ At(p, "none"))' => Settled(request[p].want)'
             /\ last # "none" /\ (\A p \in Process : ~Active(p)') => Settled(last)'
             /\ (Opposed => \E p \in Process : At(p, "coil"))'
  <2>1. \A p, q \in Process : Active(p)' /\ Active(q)' => p = q
    BY <1>5 DEF FilterInv
  <2>2. \A p \in Process : Working(p)' => Driven(p)'
    BY <1>1, <1>5, StillSettled DEF FilterInv, At, Working
  <2>3. ASSUME NEW p \in Process, (IsIn(p, "only") /\ At(p, "none"))'
        PROVE  Settled(request[p].want)'
    <3>1. Settled(request[p].want) /\ request'[p].want = request[p].want
      BY <1>1, <1>3, <1>5, <2>3 DEF FilterInv, At
    <3>2. PICK w \in Way : w = request[p].want
      BY <1>4
    <3>3. Settled(w)'
      BY <3>1, <3>2, StillSettled
    <3> QED BY <3>1, <3>2, <3>3 DEF Settled, Aimed, Arriving
  <2>4. ASSUME last # "none", \A p \in Process : ~Active(p)' PROVE Settled(last)'
    <3>1. Settled(last) /\ last \in Way
      BY <1>5, <2>4 DEF FilterInv
    <3>2. PICK w \in Way : w = last
      BY <3>1
    <3>3. Settled(w)'
      BY <3>1, <3>2, StillSettled
    <3> QED BY <3>2, <3>3 DEF Settled, Aimed, Arriving
  <2>5. (Opposed => \E p \in Process : At(p, "coil"))'
    BY <1>1, <1>5, StillSettled DEF FilterInv, Opposed, At
  <2> QED BY <2>1, <2>2, <2>3, <2>4, <2>5
<1> QED BY <1>1, <1>2, <1>5 DEF FilterInv

-----------------------------------------------------------------------------
(* The filter: the kernel timer.                                           *)

LEMMA CoilFacts ==
  /\ \A w \in Way : Coil(w) \in {0, 1} /\ Other(w) \in {0, 1} /\ Coil(w) # Other(w)
  /\ Coil("pass") = 0 /\ Other("pass") = 1 /\ Coil("block") = 1 /\ Other("block") = 0
  BY DEF Way, Coil, Other

\* A scan moves a filter whose coil is driven, and calls no shutdown before that.
LEMMA TickSettles ==
  ASSUME Typed, blade \in Way, Tick
  PROVE  /\ blade' \in Way
         /\ \A w \in Way : Settled(w) => Settled(w)'
         /\ \A p \in Process : Driven(p) => Driven(p)'
<1>1. /\ UNCHANGED <<type, pin, setting>> /\ (Powered <=> Powered') /\ blade' = Moved
      /\ slot' = Counted
  BY DEF Tick, Powered
<1>2. \A k \in Slot : slot'[k].handler = slot[k].handler
  BY <1>1 DEF Typed, Counted, Free
<1>3. Holders("shutdown")' = Holders("shutdown")
  BY <1>2 DEF Holders
<1>4. blade' \in Way /\ (~Powered => blade' = blade)
  BY <1>1 DEF Moved, Way
<1>5. ASSUME NEW w \in Way, Settled(w) PROVE Settled(w)'
  <2>1. CASE type = "B"
    <3>1. ~Powered
      BY <2>1 DEF Powered
    <3> QED BY <1>1, <1>4, <1>5, <2>1, <3>1 DEF Settled
  <2>2. CASE type # "B" /\ ~Powered
    BY <1>1, <1>4, <1>5, <2>2 DEF Settled, Aimed, Arriving
  <2>3. CASE type # "B" /\ Powered
    <3>1. pin[Coil(w)] /\ ~pin[Other(w)]
      BY <1>5, <2>3 DEF Settled, Aimed
    <3>2. CASE w = "pass"
      <4>1. pin[0] /\ ~pin[1]
        BY <3>1, <3>2, CoilFacts
      <4>2. blade' = w
        BY <1>1, <2>3, <3>2, <4>1 DEF Moved
      <4> QED BY <1>1, <2>3, <3>1, <4>2 DEF Settled, Aimed, Arriving
    <3>3. CASE w = "block"
      <4>1. ~pin[0] /\ pin[1]
        BY <3>1, <3>3, CoilFacts
      <4>2. blade' = w
        BY <1>1, <2>3, <3>3, <4>1 DEF Moved
      <4> QED BY <1>1, <2>3, <3>1, <4>2 DEF Settled, Aimed, Arriving
    <3> QED BY <3>2, <3>3 DEF Way
  <2> QED BY <2>1, <2>2, <2>3
<1>6. ASSUME NEW p \in Process, Driven(p) PROVE Driven(p)'
  <2>1. CASE type = "B"
    <3>1. ~Powered
      BY <2>1 DEF Powered
    <3> QED BY <1>1, <1>4, <1>6, <2>1, <3>1 DEF Driven, At
  <2>2. CASE type # "B"
    BY <1>1, <1>3, <1>6, <2>2 DEF Driven, At
  <2> QED BY <2>1, <2>2
<1> QED BY <1>4, <1>5, <1>6

LEMMA TickKeepsFilter == ASSUME IInv, FilterInv, Tick PROVE FilterInv'
<1>1. /\ UNCHANGED <<type, pin, setting, mode, last, muddled>>
      /\ request' = Woken
  BY DEF Tick
<1>2. /\ \A p \in Process : request'[p].phase = request[p].phase /\ request'[p].want = request[p].want
      /\ \A p \in Process : request[p].want \in Way
  BY <1>1 DEF IInv, Typed, Woken
<1>3. /\ blade' \in Way
      /\ \A w \in Way : Settled(w) => Settled(w)'
      /\ \A p \in Process : Driven(p) => Driven(p)'
      /\ Powered <=> Powered'
  BY <1>1, TickSettles DEF IInv, FilterInv, Powered
<1>4. \A p \in Process : InPhase(p)' /\ (Active(p)' <=> Active(p))
  BY <1>1, <1>2 DEF FilterInv, InPhase, IsIn, At, Active
<1>5. ASSUME ~muddled
      PROVE  /\ \A p, q \in Process : Active(p)' /\ Active(q)' => p = q
             /\ \A p \in Process : Working(p)' => Driven(p)'
             /\ \A p \in Process : (IsIn(p, "only") /\ At(p, "none"))' => Settled(request[p].want)'
             /\ last # "none" /\ (\A p \in Process : ~Active(p)') => Settled(last)'
             /\ (Opposed => \E p \in Process : At(p, "coil"))'
  <2>1. \A p, q \in Process : Active(p)' /\ Active(q)' => p = q
    BY <1>4, <1>5 DEF FilterInv
  <2>2. \A p \in Process : Working(p)' => Driven(p)'
    BY <1>1, <1>3, <1>5 DEF FilterInv, At, Working
  <2>3. ASSUME NEW p \in Process, (IsIn(p, "only") /\ At(p, "none"))'
        PROVE  Settled(request[p].want)'
    <3>1. PICK w \in Way : w = request[p].want /\ w = request'[p].want
      BY <1>2
    <3>2. Settled(w)
      BY <1>1, <1>2, <1>5, <2>3, <3>1 DEF FilterInv, At, IsIn
    <3>3. Settled(w)'
      BY <1>3, <3>2
    <3> QED BY <3>1, <3>3 DEF Settled, Aimed, Arriving
  <2>4. ASSUME last # "none", \A p \in Process : ~Active(p)' PROVE Settled(last)'
    <3>1. PICK w \in Way : w = last /\ Settled(w)
      BY <1>4, <1>5, <2>4 DEF FilterInv
    <3>2. Settled(w)'
      BY <1>3, <3>1
    <3> QED BY <1>1, <3>1, <3>2 DEF Settled, Aimed, Arriving
  <2>5. (Opposed => \E p \in Process : At(p, "coil"))'
    BY <1>1, <1>3, <1>5 DEF FilterInv, Opposed, At
  <2> QED BY <2>1, <2>2, <2>3, <2>4, <2>5
<1> QED BY <1>1, <1>3, <1>4, <1>5 DEF FilterInv

LEMMA MotorOffKeepsFilter == ASSUME IInv, FilterInv, MotorOff PROVE FilterInv'
<1>1. PICK k \in Slot : slot[k].handler = "shutdown" /\ slot[k].left = 0 /\ pin' = Off
  BY DEF MotorOff, ShutDown, Due
<1>2. UNCHANGED <<type, blade, setting, muddled, mode, last, request>>
  BY DEF MotorOff, ShutDown, dayNightVars
<1>3. type \in {"C", "D"}
  BY <1>1 DEF IInv, Typed, DirectionIsBlade, Type
<1>4. ~Powered'
  <2>1. pin \in [0 .. 2 -> BOOLEAN]
    BY DEF IInv, Typed
  <2>2. CASE type = "C"
    BY <1>1, <1>2, <2>1, <2>2, ZeroIsPin DEF Off, Powered
  <2>3. CASE type = "D"
    BY <1>1, <1>2, <2>1, <2>3, ZeroIsPin DEF Off, Powered
  <2> QED BY <1>3, <2>2, <2>3
<1>5. k \in Holders("shutdown") /\ ~(slot[k].left >= 1)
  BY <1>1 DEF Holders
<1>6. ASSUME NEW w \in Way, Settled(w) PROVE Settled(w)'
  <2>1. blade = w
    BY <1>3, <1>5, <1>6 DEF Settled, Arriving
  <2> QED BY <1>2, <1>4, <2>1 DEF Settled, Aimed, Arriving
<1>7. \A p \in Process : ~muddled => ~Working(p)
  BY <1>3, <1>5 DEF FilterInv, Driven
<1>8. \A p \in Process : InPhase(p)' /\ (Active(p)' <=> Active(p))
  BY <1>2 DEF FilterInv, InPhase, IsIn, At, Active
<1>9. ASSUME ~muddled
      PROVE  /\ \A p, q \in Process : Active(p)' /\ Active(q)' => p = q
             /\ \A p \in Process : Working(p)' => Driven(p)'
             /\ \A p \in Process : (IsIn(p, "only") /\ At(p, "none"))' => Settled(request[p].want)'
             /\ last # "none" /\ (\A p \in Process : ~Active(p)') => Settled(last)'
  <2>1. \A p, q \in Process : Active(p)' /\ Active(q)' => p = q
    BY <1>8, <1>9 DEF FilterInv
  <2>2. \A p \in Process : ~Working(p)'
    BY <1>2, <1>7, <1>9 DEF Working, At
  <2>3. ASSUME NEW p \in Process, (IsIn(p, "only") /\ At(p, "none"))'
        PROVE  Settled(request[p].want)'
    <3>1. PICK w \in Way : w = request[p].want /\ Settled(w)
      BY <1>2, <1>9, <2>3 DEF FilterInv, At, IsIn, IInv, Typed
    <3>2. Settled(w)'
      BY <1>6, <3>1
    <3> QED BY <1>2, <3>1, <3>2 DEF Settled, Aimed, Arriving
  <2>4. ASSUME last # "none", \A p \in Process : ~Active(p)' PROVE Settled(last)'
    <3>1. PICK w \in Way : w = last /\ Settled(w)
      BY <1>8, <1>9, <2>4 DEF FilterInv
    <3>2. Settled(w)'
      BY <1>6, <3>1
    <3> QED BY <1>2, <3>1, <3>2 DEF Settled, Aimed, Arriving
  <2> QED BY <2>1, <2>2, <2>3, <2>4
<1> QED BY <1>2, <1>4, <1>8, <1>9 DEF FilterInv, Opposed

LEMMA ReportErrorKeepsFilter == ASSUME IInv, FilterInv, ReportError PROVE FilterInv'
<1>1. PICK k \in Slot : slot[k].handler = "error" /\ slot' = Fired(k)
  BY DEF ReportError, Due
<1>2. UNCHANGED <<type, pin, blade, setting, muddled, mode, last, request>>
  BY DEF ReportError
<1>3. \A j \in Slot : slot'[j].handler = "shutdown" => slot'[j] = slot[j]
  BY <1>1, FiredFacts DEF IInv
<1>4. StillDriven
  BY <1>2, <1>3 DEF StillDriven
<1> QED BY <1>2, <1>4, FilterStays DEF IInv, Active

\* While the light sensor decides, there is nothing under way that the invariant is about.
LEMMA JudgeKeepsFilter == ASSUME IInv, FilterInv, Judge PROVE FilterInv'
<1>1. UNCHANGED <<type, slot, setting, muddled, mode, last, request>> /\ type = "B"
  BY DEF Judge
<1>2. CASE MayJudge
  <2>1. Untouched /\ last = "none"
    BY <1>2 DEF MayJudge, IInv, FilterInv
  <2>2. blade' \in Way
    BY <1>2 DEF Judge, Switch, SetInTimer, Way, FilterInv
  <2>3. ~Powered'
    BY <1>1 DEF Powered
  <2>4. \A p \in Process : InPhase(p)' /\ ~Active(p)' /\ At(p, "none")'
    BY <1>1, <2>1 DEF FilterInv, Untouched, InPhase, IsIn, At, Active
  <2> QED BY <1>1, <2>1, <2>2, <2>3, <2>4 DEF FilterInv, At, IsIn, Active, Working, Opposed
<1>3. CASE ~MayJudge
  <2>1. StillDriven
    BY <1>1, <1>3 DEF Judge, StillDriven
  <2> QED BY <1>1, <2>1, FilterStays DEF IInv, Active
<1> QED BY <1>2, <1>3

-----------------------------------------------------------------------------
(* The filter: requests that touch no pin.                                 *)

LEMMA SetLampKeepsFilter == ASSUME IInv, FilterInv, NEW p \in Process, SetLamp(p) PROVE FilterInv'
<1>1. UNCHANGED <<filterVars, muddled, mode, last, request>>
  BY DEF SetLamp, filterVars
<1>2. StillDriven
  BY <1>1 DEF StillDriven, filterVars
<1> QED BY <1>1, <1>2, FilterStays DEF IInv, Active

LEMMA FailKeepsFilter == ASSUME IInv, FilterInv, NEW p \in Process, Fail(p) PROVE FilterInv'
<1>1. /\ UNCHANGED <<type, pin, blade, slot, setting, muddled, mode, last>>
      /\ request[p].phase = "idle" /\ request' = [request EXCEPT ![p].phase = "failing"]
  BY DEF Fail, filterVars, Begins, IsIn
<1>2. StillDriven
  BY <1>1 DEF StillDriven
<1>3. request'[p].phase = "failing" /\ \A q \in Process \ {p} : request'[q] = request[q]
  BY <1>1 DEF IInv, Typed
<1>4. ~Active(p) /\ ~Active(p)' /\ \A q \in Process \ {p} : Active(q)' <=> Active(q)
  BY <1>1, <1>3 DEF Active
<1> QED BY <1>1, <1>2, <1>3, <1>4, FilterStays DEF IInv

LEMMA RegisterErrorKeepsFilter ==
  ASSUME IInv, FilterInv, NEW p \in Process, RegisterError(p) PROVE FilterInv'
<1>1. /\ UNCHANGED <<type, pin, blade, setting, muddled, mode, last>> /\ slot' = Registered("error")
      /\ request[p].phase = "failing" /\ request' = [request EXCEPT ![p] = NoRequest]
  BY DEF RegisterError, IsIn
<1>2. \A j \in Slot : slot'[j].handler = "shutdown" => slot'[j] = slot[j]
  BY <1>1, RegisteredFacts DEF IInv, Handler
<1>3. StillDriven
  BY <1>1, <1>2 DEF StillDriven
<1>4. request'[p].phase = "idle" /\ \A q \in Process \ {p} : request'[q] = request[q]
  BY <1>1 DEF IInv, Typed, NoRequest
<1>5. ~Active(p) /\ ~Active(p)' /\ \A q \in Process \ {p} : Active(q)' <=> Active(q)
  BY <1>1, <1>4 DEF Active
<1> QED BY <1>1, <1>3, <1>4, <1>5, FilterStays DEF IInv

-----------------------------------------------------------------------------
(* The filter: requests that are about it.                                 *)

\* A request that met nothing has the filter for itself.
LEMMA OneIsActive ==
  ASSUME FilterInv, ~muddled, NEW p \in Process, Active(p), NEW q \in Process, q # p
  PROVE  ~Active(q) /\ At(q, "none") /\ ~IsIn(q, "only")
  BY DEF FilterInv, Active, InPhase, IsIn

\* Only the request that has the filter for itself may be between the coils.
LEMMA OpposedByOne ==
  ASSUME FilterInv, ~muddled, NEW p \in Process, Active(p), ~At(p, "coil")
  PROVE  ~Opposed
  BY OneIsActive DEF FilterInv, At

LEMMA ActiveIsManual == ASSUME IInv, NEW p \in Process, Active(p) PROVE mode = "manual"
  BY DEF IInv, Typed, Untouched, Active

\* What the next steps of a request have to show, each for its own process.
LEMMA OneActs ==
  ASSUME IInv, FilterInv, NEW p \in Process, Active(p), Active(p)',
         UNCHANGED <<type, mode, last>>, blade' \in Way, InPhase(p)',
         \A q \in Process : q # p => setting'[q] = setting[q] /\ request'[q] = request[q],
         ~muddled' => /\ ~muddled
                      /\ Working(p)' => Driven(p)'
                      /\ (IsIn(p, "only") /\ At(p, "none"))' => Settled(request[p].want)'
                      /\ (Opposed => At(p, "coil"))'
  PROVE  FilterInv'
<1>1. \A q \in Process : InPhase(q)'
  BY DEF FilterInv, InPhase, IsIn, At
<1>2. last # "none" => mode = "manual"
  BY DEF FilterInv
<1>3. ASSUME ~muddled', NEW q \in Process, q # p
      PROVE  ~Active(q)' /\ At(q, "none")' /\ ~IsIn(q, "only")'
  BY <1>3, OneIsActive DEF Active, At, IsIn
<1>4. ASSUME ~muddled'
      PROVE  /\ \A q, r \in Process : Active(q)' /\ Active(r)' => q = r
             /\ \A q \in Process : Working(q)' => Driven(q)'
             /\ \A q \in Process : (IsIn(q, "only") /\ At(q, "none"))' => Settled(request[q].want)'
             /\ last # "none" /\ (\A q \in Process : ~Active(q)') => Settled(last)'
             /\ (Opposed => \E q \in Process : At(q, "coil"))'
  <2>1. \A q, r \in Process : Active(q)' /\ Active(r)' => q = r
    BY <1>3, <1>4
  <2>2. \A q \in Process : Working(q)' => Driven(q)'
    BY <1>3, <1>4 DEF At, Working
  <2>3. \A q \in Process : (IsIn(q, "only") /\ At(q, "none"))' => Settled(request[q].want)'
    BY <1>3, <1>4
  <2> QED BY <1>4, <2>1, <2>2, <2>3
<1> QED BY <1>1, <1>2, <1>4 DEF FilterInv

LEMMA SleepKeepsFilter == ASSUME IInv, FilterInv, NEW p \in Process, Sleep(p) PROVE FilterInv'
<1>1. /\ UNCHANGED <<type, pin, blade, slot, setting, muddled, mode, last>>
      /\ request[p].phase = "flip" /\ At(p, "none")
      /\ request' = [request EXCEPT ![p].phase = "asleep", ![p].nap = Nap]
  BY DEF Sleep, filterVars, IsIn
<1>2. /\ request'[p].phase = "asleep" /\ request'[p].want = request[p].want
      /\ \A q \in Process : q # p => request'[q] = request[q]
  BY <1>1 DEF IInv, Typed
<1>3. Active(p) /\ Active(p)' /\ InPhase(p)' /\ blade' \in Way
  BY <1>1, <1>2 DEF Active, FilterInv, InPhase, IsIn, At
<1>4. ~muddled => ~Opposed'
  BY <1>1, OpposedByOne DEF Opposed, Powered, At, Active
<1> QED BY <1>1, <1>2, <1>3, <1>4, OneActs DEF At, IsIn, Working

LEMMA WakeKeepsFilter == ASSUME IInv, FilterInv, NEW p \in Process, Wake(p) PROVE FilterInv'
<1>1. /\ UNCHANGED <<type, pin, blade, slot, muddled, mode, last>>
      /\ request[p].phase = "asleep" /\ request' = [request EXCEPT ![p].phase = "only"]
      /\ setting' = [setting EXCEPT ![p] = [stage |-> "begin", way |-> "block"]]
  BY DEF Wake, IsIn, StartsSet
<1>2. /\ request'[p].phase = "only" /\ request'[p].want = request[p].want
      /\ setting'[p] = [stage |-> "begin", way |-> "block"]
      /\ \A q \in Process : q # p => setting'[q] = setting[q] /\ request'[q] = request[q]
  BY <1>1 DEF IInv, Typed
<1>3. request[p].want = "block"
  BY <1>1 DEF FilterInv, InPhase, IsIn
<1>4. Active(p) /\ Active(p)' /\ InPhase(p)' /\ blade' \in Way
  BY <1>1, <1>2, <1>3 DEF Active, FilterInv, InPhase, IsIn, At
<1>5. ~At(p, "coil")
  BY <1>1 DEF FilterInv, InPhase, IsIn, At
<1>6. ~muddled => ~Opposed'
  BY <1>1, <1>5, OpposedByOne DEF Opposed, Powered, At, Active
<1>7. At(p, "begin")'
  BY <1>2 DEF At
<1> QED BY <1>1, <1>2, <1>4, <1>6, <1>7, OneActs DEF At, IsIn, Working

LEMMA FinishKeepsFilter == ASSUME IInv, FilterInv, NEW p \in Process, Finish(p) PROVE FilterInv'
<1>1. /\ UNCHANGED <<type, pin, blade, slot, setting, muddled, mode>>
      /\ IsIn(p, "only") /\ At(p, "none") /\ last' = request[p].want
      /\ request' = [request EXCEPT ![p] = NoRequest]
  BY DEF Finish, filterVars
<1>2. /\ request'[p].phase = "idle" /\ \A q \in Process : q # p => request'[q] = request[q]
      /\ request[p].want \in Way
  BY <1>1 DEF IInv, Typed, NoRequest
<1>3. Active(p) /\ mode = "manual"
  BY <1>1, ActiveIsManual DEF Active, IsIn
<1>4. \A q \in Process : InPhase(q)'
  BY <1>1, <1>2 DEF FilterInv, InPhase, IsIn, At
<1>5. ASSUME ~muddled
      PROVE  /\ \A q \in Process : ~Active(q)' /\ At(q, "none")' /\ ~IsIn(q, "only")'
             /\ Settled(last)'
             /\ ~Opposed'
  <2>1. \A q \in Process : ~Active(q)' /\ At(q, "none")' /\ ~IsIn(q, "only")'
    BY <1>1, <1>2, <1>3, <1>5, OneIsActive DEF Active, At, IsIn
  <2>2. PICK w \in Way : w = request[p].want /\ Settled(w)
    BY <1>1, <1>2, <1>5 DEF FilterInv
  <2>3. Settled(w)'
    BY <1>1, <2>2, StillSettled DEF StillDriven
  <2>4. ~Opposed'
    BY <1>1, <1>3, <1>5, OpposedByOne DEF Opposed, Powered, At
  <2> QED BY <1>1, <2>1, <2>2, <2>3, <2>4 DEF Settled, Aimed, Arriving
<1>6. blade' \in Way /\ last' \in Way \cup {"none"}
  BY <1>1, <1>2 DEF FilterInv
<1> QED BY <1>1, <1>3, <1>4, <1>5, <1>6 DEF FilterInv, At, Working

LEMMA SetFilterKeepsFilter ==
  ASSUME IInv, FilterInv, NEW p \in Process, SetFilter(p) PROVE FilterInv'
<1>1. PICK w \in Way :
         /\ UNCHANGED <<type, pin, blade, slot, setting, last>> /\ mode' = "manual"
         /\ muddled' = ~Alone(p)
         /\ request' = [request EXCEPT ![p] = [phase |-> "asking", want |-> w, nap |-> 0]]
  BY DEF SetFilter
<1>2. /\ request'[p] = [phase |-> "asking", want |-> w, nap |-> 0]
      /\ \A q \in Process : q # p => request'[q] = request[q]
  BY <1>1 DEF IInv, Typed
<1>3. request[p].phase = "idle" /\ At(p, "none")
  BY DEF SetFilter, Begins, IsIn, FilterInv, InPhase
<1>4. InPhase(p)'
  BY <1>1, <1>2, <1>3 DEF InPhase, IsIn, At
<1>5. \A q \in Process : InPhase(q)'
  BY <1>1, <1>2, <1>4 DEF FilterInv, InPhase, IsIn, At
<1>6. ASSUME ~muddled'
      PROVE  /\ \A q \in Process : q # p => ~Active(q)' /\ ~IsIn(q, "only")'
             /\ Active(p)' /\ ~IsIn(p, "only")' /\ ~Opposed'
             /\ \A q \in Process : At(q, "none")'
  <2>1. ~Powered /\ \A q \in Process : q # p => IsIn(q, "idle")
    BY <1>1, <1>6 DEF Alone, Others
  <2>2. \A q \in Process : At(q, "none")
    BY <1>3, <2>1 DEF FilterInv, InPhase, IsIn
  <2> QED BY <1>1, <1>2, <2>1, <2>2 DEF Active, At, IsIn, Opposed, Powered
<1>7. blade' \in Way /\ last' \in Way \cup {"none"}
  BY <1>1 DEF FilterInv
<1> QED BY <1>1, <1>5, <1>6, <1>7 DEF FilterInv, At, Working

LEMMA ChooseKeepsFilter == ASSUME IInv, FilterInv, NEW p \in Process, Choose(p) PROVE FilterInv'
<1>1. PICK x \in {"flip", "only"}, v \in Way :
         /\ UNCHANGED <<type, pin, blade, slot, muddled, mode, last>>
         /\ request[p].phase = "asking" /\ request' = [request EXCEPT ![p].phase = x]
         /\ setting' = [setting EXCEPT ![p] = [stage |-> "begin", way |-> v]]
         /\ x = "flip" => request[p].want = "block"
         /\ x = "only" => v = request[p].want
  BY DEF Choose, StartsSet, IsIn, Way, IInv, Typed
<1>2. /\ request'[p].phase = x /\ request'[p].want = request[p].want
      /\ setting'[p] = [stage |-> "begin", way |-> v]
      /\ \A q \in Process : q # p => setting'[q] = setting[q] /\ request'[q] = request[q]
  BY <1>1, "begin" \in Stage DEF IInv, Typed, Stage
<1>3. At(p, "none")
  BY <1>1 DEF FilterInv, InPhase
<1>4. Active(p) /\ Active(p)' /\ InPhase(p)' /\ blade' \in Way
  BY <1>1, <1>2 DEF Active, FilterInv, InPhase, IsIn, At
<1>5. ~muddled => ~Opposed'
  BY <1>1, <1>3, <1>4, OpposedByOne DEF Opposed, Powered, At
<1>6. At(p, "begin")'
  BY <1>2 DEF At
<1> QED BY <1>1, <1>2, <1>4, <1>5, <1>6, OneActs DEF At, IsIn, Working

-----------------------------------------------------------------------------
(* The filter: SetStatus.                                                  *)

LEMMA SetPinsFacts ==
  ASSUME IInv, FilterInv, NEW p \in Process, SetPins(p),
         NEW x \in Stage, Goes(p, x), x = "move" => type # "D", x = "coil" => type = "C"
  PROVE  /\ UNCHANGED <<type, mode, last, request>>
         /\ \A q \in Process : q # p => setting'[q] = setting[q] /\ request'[q] = request[q]
         /\ Active(p) /\ Active(p)' /\ InPhase(p)'
         /\ setting'[p] = [stage |-> x, way |-> setting[p].way]
         /\ setting[p].way \in Way
         /\ \A y : At(p, y)' <=> x = y
<1>1. UNCHANGED <<mode, last, request>> /\ SetStep(p)
  BY DEF SetPins, dayNightVars
<1>2. type' = type /\ setting[p].stage # "none"
  BY <1>1 DEF SetStep, SetBegin, SetOther, SetMove, SetEnd, At
<1>3. /\ setting' = [setting EXCEPT ![p].stage = x]
      /\ setting \in [Process -> [stage : Stage, way : Way]]
  BY DEF Goes, IInv, Typed
<1>4. /\ setting'[p] = [stage |-> x, way |-> setting[p].way] /\ setting[p].way \in Way
      /\ \A q \in Process : q # p => setting'[q] = setting[q]
  BY <1>3
<1>5. request[p].phase \in {"flip", "only"}
  BY <1>2 DEF FilterInv, InPhase, At
<1>6. Active(p) /\ Active(p)' /\ InPhase(p)'
  BY <1>1, <1>2, <1>4, <1>5 DEF FilterInv, InPhase, Active, IsIn, At
<1> QED BY <1>1, <1>2, <1>4, <1>6 DEF At

LEMMA SetBeginKeepsFilter ==
  ASSUME IInv, FilterInv, NEW p \in Process, SetPins(p), SetBegin(p) PROVE FilterInv'
<1> DEFINE w == setting[p].way
           x == IF IsThere(w) THEN "none" ELSE AfterFirst
<1>1. /\ Goes(p, x) /\ UNCHANGED <<blade, slot>>
      /\ pin' = IF IsThere(w) THEN pin ELSE FirstPin(w)
      /\ muddled' = (muddled \/ Meets(p))
  BY DEF SetBegin
<1>2. /\ type = "B" => x \in {"none", "move"}
      /\ type = "C" => x = "coil"
      /\ type = "D" => x = "end"
      /\ type \in Type
  BY DEF IsThere, AfterFirst, IInv, Typed
<1>2a. x \in Stage /\ (x = "move" => type # "D") /\ (x = "coil" => type = "C")
  <2> HIDE DEF x
  <2> QED BY <1>2 DEF Type, Stage
<1>3. /\ UNCHANGED <<type, mode, last, request>>
      /\ \A q \in Process : q # p => setting'[q] = setting[q] /\ request'[q] = request[q]
      /\ Active(p) /\ Active(p)' /\ InPhase(p)'
      /\ setting'[p] = [stage |-> x, way |-> w]
      /\ w \in Way
      /\ \A y : At(p, y)' <=> x = y
  <2> HIDE DEF x
  <2> QED BY <1>2a, <1>1, SetPinsFacts
<1>4. blade' \in Way /\ pin \in [0 .. 2 -> BOOLEAN] /\ Coil(w) \in 0 .. 2 /\ Other(w) \in 0 .. 2
  BY <1>1, <1>3, CoilFacts, ZeroIsPin DEF FilterInv, IInv, Typed
<1>5. ASSUME ~muddled'
      PROVE  /\ ~muddled
             /\ Working(p)' => Driven(p)'
             /\ (IsIn(p, "only") /\ At(p, "none"))' => Settled(request[p].want)'
             /\ (Opposed => At(p, "coil"))'
  <2>1. ~muddled /\ ~Powered /\ Holders("shutdown")' = {}
    BY <1>1, <1>5 DEF Meets, Holders
  <2>2. CASE type = "B"
    <3>1. ~Powered' /\ ~At(p, "end")' /\ setting'[p].way = w
      <4> HIDE DEF x
      <4> QED BY <1>2, <1>3, <2>2 DEF Powered
    <3>2. Driven(p)'
      BY <1>3, <2>2, <3>1 DEF Driven
    <3>3. ASSUME (IsIn(p, "only") /\ At(p, "none"))' PROVE Settled(request[p].want)'
      <4>1. IsThere(w) /\ request[p].want = w
        BY <1>1, <1>3, <2>2, <3>3 DEF FilterInv, InPhase, IsIn, AfterFirst
      <4>2. blade = w
        BY <1>3, <2>2, <4>1 DEF IInv, DirectionIsBlade, IsThere, Way
      <4> QED BY <1>1, <1>3, <2>2, <4>1, <4>2 DEF Settled
    <3> QED BY <2>1, <3>1, <3>2, <3>3 DEF Opposed
  <2>3. CASE type # "B"
    <3>1. ~IsThere(w) /\ pin' = FirstPin(w) /\ x # "none"
      BY <1>1, <1>2, <2>3 DEF IsThere, Type
    <3>2. CASE type = "C"
      <4>1. pin' = [pin EXCEPT ![2] = FALSE] /\ x = "coil"
        BY <1>2, <3>1, <3>2 DEF FirstPin
      <4>2. Powered' /\ At(p, "coil")' /\ ~At(p, "end")'
        <5> HIDE DEF x
        <5> QED BY <1>3, <1>4, <3>2, <4>1, ZeroIsPin DEF Powered
      <4>3. Driven(p)' /\ ~At(p, "none")'
        BY <1>3, <2>1, <3>2, <4>2 DEF Driven, At
      <4> QED BY <2>1, <4>2, <4>3
    <3>3. CASE type = "D"
      <4>1. pin' = [pin EXCEPT ![Coil(w)] = TRUE] /\ ~pin[0] /\ ~pin[1] /\ x = "end"
        BY <1>2, <2>1, <3>1, <3>3 DEF FirstPin, Powered
      <4>2. pin'[Coil(w)] /\ ~pin'[Other(w)]
        BY <1>3, <1>4, <4>1, CoilFacts, ZeroIsPin
      <4>3. Powered' /\ ~Opposed'
        BY <1>3, <3>3, <4>2, CoilFacts DEF Powered, Opposed
      <4>4. At(p, "end")'
        <5> HIDE DEF x
        <5> QED BY <1>3, <4>1
      <4>5. Driven(p)' /\ ~At(p, "none")'
        BY <1>3, <2>1, <3>3, <4>2, <4>3, <4>4 DEF Driven, At
      <4> QED BY <2>1, <4>3, <4>5
    <3> QED BY <1>2, <2>3, <3>2, <3>3 DEF Type
  <2> QED BY <2>2, <2>3
<1> QED BY <1>3, <1>4, <1>5, OneActs

LEMMA SetOtherKeepsFilter ==
  ASSUME IInv, FilterInv, NEW p \in Process, SetPins(p), SetOther(p) PROVE FilterInv'
<1> DEFINE w == setting[p].way
<1>1. /\ Goes(p, "move") /\ UNCHANGED <<blade, slot, muddled>> /\ At(p, "coil")
      /\ pin' = [pin EXCEPT ![Other(w)] = FALSE]
  BY DEF SetOther, OtherOff
<1>2. type = "C"
  BY <1>1 DEF FilterInv, InPhase
<1>3. /\ UNCHANGED <<type, mode, last, request>>
      /\ \A q \in Process : q # p => setting'[q] = setting[q] /\ request'[q] = request[q]
      /\ Active(p) /\ Active(p)' /\ InPhase(p)'
      /\ setting'[p] = [stage |-> "move", way |-> w]
      /\ w \in Way
      /\ \A y : At(p, y)' <=> "move" = y
  BY <1>1, <1>2, "move" \in Stage, SetPinsFacts DEF Stage
<1>4. blade' \in Way /\ pin \in [0 .. 2 -> BOOLEAN] /\ Other(w) \in 0 .. 2 /\ Other(w) # 2
  BY <1>1, <1>3, CoilFacts, ZeroIsPin DEF FilterInv, IInv, Typed
<1>5. ~pin'[Other(w)] /\ pin'[2] = pin[2]
  BY <1>1, <1>4, ZeroIsPin
<1>6. ~Opposed'
  BY <1>3, <1>5, CoilFacts DEF Opposed
<1>7. ASSUME ~muddled PROVE Driven(p)'
  <2>1. Powered /\ Holders("shutdown") = {}
    BY <1>1, <1>2, <1>7 DEF FilterInv, Driven, Working
  <2> QED BY <1>1, <1>2, <1>3, <1>5, <2>1 DEF Driven, Powered, Holders
<1> QED BY <1>1, <1>3, <1>4, <1>6, <1>7, OneActs

LEMMA SetMoveKeepsFilter ==
  ASSUME IInv, FilterInv, NEW p \in Process, SetPins(p), SetMove(p) PROVE FilterInv'
<1> DEFINE w == setting[p].way
<1>1. Goes(p, "end") /\ UNCHANGED <<slot, muddled>> /\ At(p, "move")
  BY DEF SetMove
<1>2. /\ UNCHANGED <<type, mode, last, request>>
      /\ \A q \in Process : q # p => setting'[q] = setting[q] /\ request'[q] = request[q]
      /\ Active(p) /\ Active(p)' /\ InPhase(p)'
      /\ setting'[p] = [stage |-> "end", way |-> w]
      /\ w \in Way
      /\ \A y : At(p, y)' <=> "end" = y
  BY <1>1, "end" \in Stage, SetPinsFacts DEF Stage
<1>3. pin \in [0 .. 2 -> BOOLEAN] /\ Coil(w) \in 0 .. 2 /\ Other(w) \in 0 .. 2
  BY <1>2, CoilFacts, ZeroIsPin DEF IInv, Typed
<1>4. blade' \in Way
  <2>1. blade' = blade \/ blade' = w
    BY DEF SetMove
  <2> QED BY <1>2, <2>1 DEF FilterInv
<1>5. ASSUME ~muddled PROVE Driven(p)' /\ ~Opposed'
  <2>1. Driven(p)
    BY <1>1, <1>5 DEF FilterInv, Working
  <2>2. CASE type = "B"
    BY <1>2, <2>2 DEF SetMove, Driven, Powered, Opposed, At
  <2>3. CASE type = "C"
    <3>1. pin' = [pin EXCEPT ![Coil(w)] = TRUE]
      BY <2>3 DEF SetMove
    <3>2. ~pin[2] /\ ~pin[Other(w)] /\ Holders("shutdown") = {}
      BY <1>1, <2>1, <2>3 DEF Driven, Powered, At
    <3>3. ~pin'[2] /\ ~pin'[Other(w)] /\ pin'[Coil(w)]
      BY <1>2, <1>3, <3>1, <3>2, CoilFacts, ZeroIsPin
    <3>4. Powered' /\ Holders("shutdown")' = {} /\ ~(pin'[0] /\ pin'[1])
      BY <1>1, <1>2, <2>3, <3>2, <3>3, CoilFacts DEF Powered, Holders
    <3> QED BY <1>2, <2>3, <3>3, <3>4 DEF Driven, Opposed
  <2> QED BY <2>2, <2>3 DEF SetMove
<1> QED BY <1>1, <1>2, <1>4, <1>5, OneActs

LEMMA SetEndKeepsFilter ==
  ASSUME IInv, FilterInv, NEW p \in Process, SetPins(p), SetEnd(p) PROVE FilterInv'
<1> DEFINE w == setting[p].way
<1>1. Goes(p, "none") /\ UNCHANGED <<blade, muddled>> /\ At(p, "end")
  BY DEF SetEnd
<1>2. /\ UNCHANGED <<type, mode, last, request>>
      /\ \A q \in Process : q # p => setting'[q] = setting[q] /\ request'[q] = request[q]
      /\ Active(p) /\ Active(p)' /\ InPhase(p)'
      /\ setting'[p] = [stage |-> "none", way |-> w]
      /\ w \in Way
      /\ \A y : At(p, y)' <=> "none" = y
  BY <1>1, "none" \in Stage, SetPinsFacts DEF Stage
<1>3. blade' \in Way
  BY <1>1 DEF FilterInv
<1>4. ASSUME ~muddled PROVE Settled(w)' /\ ~Opposed'
  <2>1. Driven(p)
    BY <1>1, <1>4 DEF FilterInv, Working
  <2>2. CASE type = "B"
    BY <1>1, <1>2, <2>1, <2>2 DEF Driven, Settled, Powered, Opposed
  <2>3. CASE type # "B"
    <3>1. pin' = pin /\ slot' = Registered("shutdown")
      BY <2>3 DEF SetEnd
    <3>2. Powered' /\ pin'[Coil(w)] /\ ~pin'[Other(w)]
      BY <1>1, <1>2, <2>1, <2>3, <3>1 DEF Driven, Powered, At
    <3>3. ASSUME NEW k \in Holders("shutdown")' PROVE slot'[k].left >= 1
      <4>1. k \in Slot /\ slot'[k].handler = "shutdown"
        BY DEF Holders
      <4>2. slot[k].handler # "shutdown"
        BY <2>1, <2>3, <4>1 DEF Driven, Holders
      <4>3. slot'[k] = [handler |-> "shutdown", left |-> Period("shutdown")]
        BY <3>1, <4>1, <4>2, RegisteredFacts DEF IInv, Handler
      <4> QED BY <4>3, FilterAssumption DEF Period
    <3>4. ~(pin'[0] /\ pin'[1])
      BY <1>2, CoilFacts, <3>1, <3>2
    <3> QED BY <1>2, <2>3, <3>2, <3>3, <3>4 DEF Settled, Opposed, Aimed, Arriving
  <2> QED BY <2>2, <2>3
<1>5. IsIn(p, "only")' => request'[p].want = w
  BY <1>2 DEF FilterInv, InPhase, IsIn
<1>6. ASSUME ~muddled', (IsIn(p, "only") /\ At(p, "none"))' PROVE Settled(request[p].want)'
  <2>1. request'[p].want = setting'[p].way
    BY <1>2, <1>5, <1>6
  <2>2. Settled(setting[p].way)'
    BY <1>1, <1>4, <1>6
  <2> QED BY <2>1, <2>2 DEF Settled, Aimed, Arriving
<1> QED BY <1>1, <1>2, <1>3, <1>4, <1>6, OneActs DEF Working

-----------------------------------------------------------------------------
LEMMA InitFilter == Init => FilterInv /\ ErrorsArePending
<1> SUFFICES ASSUME Init PROVE FilterInv /\ ErrorsArePending
  OBVIOUS
<1>1. /\ \A p \in Process : At(p, "none") /\ ~Active(p) /\ request[p].phase = "idle"
      /\ blade \in Way /\ last = "none" /\ muddled = FALSE /\ unreported = {}
  BY DEF Init, FilterInit, NotSet, NoRequest, At, Active, Way
<1>2. ~Opposed
  BY FirstPinsFacts DEF Init, Opposed
<1>3. \A p \in Process : InPhase(p)
  BY <1>1 DEF InPhase, IsIn, At
<1> QED BY <1>1, <1>2, <1>3 DEF FilterInv, ErrorsArePending, At, IsIn, Working

LEMMA FilterIsKept == ASSUME IInv, FilterInv, [Next]_vars PROVE FilterInv'
<1>1. CASE Timer
  BY <1>1, TickKeepsFilter, MotorOffKeepsFilter, ReportErrorKeepsFilter DEF Timer
<1>2. CASE Judge
  BY <1>2, JudgeKeepsFilter
<1>3. ASSUME NEW p \in Process, SetPins(p) PROVE FilterInv'
  <2>1. SetBegin(p) \/ SetOther(p) \/ SetMove(p) \/ SetEnd(p)
    BY <1>3 DEF SetPins, SetStep
  <2> QED BY <1>3, <2>1, SetBeginKeepsFilter, SetOtherKeepsFilter, SetMoveKeepsFilter, SetEndKeepsFilter
<1>4. CASE \E p \in Process : Request(p)
  BY <1>3, <1>4, SetFilterKeepsFilter, ChooseKeepsFilter, SleepKeepsFilter, WakeKeepsFilter, FinishKeepsFilter,
     SetLampKeepsFilter, FailKeepsFilter, RegisterErrorKeepsFilter DEF Request
<1>5. CASE UNCHANGED vars
  <2>1. UNCHANGED <<type, pin, blade, slot, setting, muddled, mode, last, request>>
    BY <1>5 DEF vars, filterVars, dayNightVars
  <2> QED BY <2>1, FilterStays DEF StillDriven, IInv, Active
<1> QED BY <1>1, <1>2, <1>4, <1>5 DEF Next

LEMMA AllIsKept == Spec => [](IInv /\ FilterInv /\ ErrorsArePending)
<1>1. Init => IInv /\ FilterInv /\ ErrorsArePending
  BY InitIsGood, InitFilter
<1>2. IInv /\ FilterInv /\ ErrorsArePending /\ [Next]_vars => (IInv /\ FilterInv /\ ErrorsArePending)'
  BY StepIsGood, FilterIsKept, ErrorsAreKept
<1> QED BY <1>1, <1>2, PTL DEF Spec

\* With no request under way and the motor at rest the filter is where the last request
\* asked, for every type of driver, unless requests met (IfrFilter.c:219-330).
THEOREM FilterStaysWhereAsked == Spec => []FilterIsWhereAsked
<1>1. IInv /\ FilterInv => FilterIsWhereAsked
  <2> SUFFICES ASSUME IInv, FilterInv, last # "none", Quiet, ~muddled PROVE blade = last
    BY DEF FilterIsWhereAsked
  <2>1. \A p \in Process : ~Active(p)
    BY DEF Quiet, IsIn, Active
  <2>2. Settled(last)
    BY <2>1 DEF FilterInv
  <2> QED BY <2>2 DEF Settled, Arriving, Quiet
<1> QED BY <1>1, AllIsKept, PTL

\* No power is on while both coils are, unless requests met (IfrFilter.c:313-319), or type C
\* is about to turn off the one that an earlier meeting left on (236-243).
THEOREM CoilsStayUnopposed == Spec => []CoilsAreNotOpposed
<1>1. FilterInv => CoilsAreNotOpposed
  BY DEF FilterInv, Opposed, CoilsAreNotOpposed
<1> QED BY <1>1, AllIsKept, PTL

\* An error that no report has told of has its report registered or about to be, unless it
\* was overwritten or refused (MsgCenter.c:134-139).
THEOREM ErrorsStayPending == Spec => []ErrorsArePending
  BY AllIsKept, PTL
=============================================================================
