--------------------------- MODULE Sensors_proofs ---------------------------
(***************************************************************************)
(* The invariants of Sensors hold for any number of buttons, any delay of  *)
(* the debounce handler and any number of slots of the table.              *)
(*                                                                         *)
(* The argument is in three layers.  ButtonInv needs the variables of the  *)
(* buttons only: the edges that are judged alternate (EdgesAlternate), so  *)
(* that a report that waits differs from the last one made (ReportIsNews). *)
(* TableInv relates them to the table: a reporter that runs is in it, and  *)
(* an edge that waits has one that has not passed its button.  PirInv      *)
(* counts the reports and releases of the PIR sensor.  Fits says that the  *)
(* table has a sum, which is at most Cap.                                  *)
(***************************************************************************)
EXTENDS Sensors, FiniteSetsExt, FiniteSetTheorems, TLAPS
-----------------------------------------------------------------------------
(* The sum of a function over a finite set, as MapThenSumSet computes it.  That fold picks the *)
(* elements in an order nobody knows, so what is shown is: a function that is additive on the  *)
(* subsets of a finite set gives the sum of the whole set.  The uniqueness behind it takes an  *)
(* induction, by a smallest counterexample (WFMin).                                            *)

\* g gives the sum of e over every subset of S.
IsSum(g, e, S) ==
    /\ g = [s \in SUBSET S |-> g[s]]
    /\ g[{}] = 0
    /\ \A s \in SUBSET S : \A x \in s : g[s] = e[x] + g[s \ {x}]

\* The equation of the recursive function inside the fold.
Eqn(iter, e, S) ==
    iter = [s \in SUBSET S |->
              IF s = {} THEN 0
              ELSE LET x == CHOOSE x \in s : TRUE IN e[x] + iter[s \ {x}]]

\* The fold is a function chosen among those that satisfy the equation.
LEMMA SumIsIter ==
  ASSUME NEW S, NEW e
  PROVE  MapThenSumSet(LAMBDA x : e[x], S) = (CHOOSE iter : Eqn(iter, e, S))[S]
  BY Zenon DEF MapThenSumSet, MapThenFoldSet, Eqn

\* An additive function does, whichever element is picked ...
LEMMA SumEqn ==
  ASSUME NEW S, NEW e, NEW g, IsSum(g, e, S)
  PROVE  Eqn(g, e, S)
<1>1. ASSUME NEW s \in SUBSET S
      PROVE  g[s] = IF s = {} THEN 0 ELSE LET x == CHOOSE x \in s : TRUE IN e[x] + g[s \ {x}]
  BY DEF IsSum
<1> QED BY <1>1 DEF IsSum, Eqn

\* ... and on a finite set no other function does.
LEMMA EqnIsUnique ==
  ASSUME NEW S, NEW e, NEW f, NEW g, IsFiniteSet(S), Eqn(f, e, S), Eqn(g, e, S)
  PROVE  f[S] = g[S]
<1> DEFINE bad == {s \in SUBSET S : f[s] # g[s]}
<1>1. bad = {}
  <2> SUFFICES ASSUME bad # {} PROVE FALSE
    OBVIOUS
  <2>1. bad \subseteq FiniteSubsetsOf(S)
    BY FS_FiniteSubsetsOfFinite
  <2>2. PICK s \in bad : \A t \in bad : <<t, s>> \notin StrictSubsetOrdering(S)
    BY <2>1, FS_StrictSubsetOrderingWellFounded, WFMin, Zenon
  <2>3. CASE s = {}
    BY <2>2, <2>3 DEF Eqn
  <2>4. CASE s # {}
    <3> DEFINE x == CHOOSE x \in s : TRUE
    <3>1. x \in s
      BY <2>4
    <3>2. f[s] = e[x] + f[s \ {x}] /\ g[s] = e[x] + g[s \ {x}]
      BY <2>4 DEF Eqn
    <3>3. s \ {x} \notin bad
      <4> DEFINE t == s \ {x}
      <4>1. t \in SUBSET S /\ s \in SUBSET S /\ t \subseteq s /\ t # s
        BY <3>1
      <4> HIDE DEF x, t, bad
      <4>2. <<t, s>> \in StrictSubsetOrdering(S)
        BY <4>1 DEF StrictSubsetOrdering
      <4> QED BY <2>2, <4>2 DEF t
    <3> QED BY <3>2, <3>3
  <2> QED BY <2>3, <2>4
<1> QED BY <1>1

\* So an additive function gives the sum.
LEMMA SumIsValue ==
  ASSUME NEW S, NEW e, NEW g, IsFiniteSet(S), IsSum(g, e, S)
  PROVE  MapThenSumSet(LAMBDA x : e[x], S) = g[S]
<1> DEFINE f == CHOOSE iter : Eqn(iter, e, S)
<1>1. Eqn(g, e, S)
  BY SumEqn
<1>2. Eqn(f, e, S)
  BY <1>1, Zenon
<1> HIDE DEF f
<1>3. f[S] = g[S]
  BY <1>1, <1>2, EqnIsUnique
<1> QED BY <1>3, SumIsIter DEF f
-----------------------------------------------------------------------------

\* e is a bag of handlers for which there are slots enough.
Fits(e) ==
    /\ e \in [Handler -> Nat]
    /\ \E g \in [SUBSET Handler -> Nat] : IsSum(g, e, Handler) /\ g[Handler] <= Cap

LEMMA SizeIsSum ==
  ASSUME NEW e, NEW g, IsSum(g, e, Handler)
  PROVE  Size(e) = g[Handler]
<1>1. MapThenSumSet(LAMBDA x : e[x], Handler) = g[Handler]
  BY SensorsAssumption, SumIsValue
<1> QED BY <1>1 DEF Size

\* A bag that fits has no more of a handler than there are slots.
LEMMA FitsFacts ==
  ASSUME NEW e, Fits(e)
  PROVE  /\ Size(e) \in Nat /\ Size(e) <= Cap
         /\ e \in Bags
<1>1. PICK g \in [SUBSET Handler -> Nat] : IsSum(g, e, Handler) /\ g[Handler] <= Cap
  BY DEF Fits
<1>2. Size(e) = g[Handler]
  BY <1>1, SizeIsSum
<1>3. ASSUME NEW h \in Handler PROVE e[h] \in 0 .. Cap
  <2>1. g[Handler] = e[h] + g[Handler \ {h}]
    BY <1>1 DEF IsSum
  <2>2. e[h] \in Nat /\ g[Handler \ {h}] \in Nat /\ g[Handler] \in Nat /\ g[Handler] <= Cap
    BY <1>1 DEF Fits
  <2> QED BY <2>1, <2>2, SensorsAssumption
<1>4. e \in Bags
  BY <1>3 DEF Fits, Bags
<1> QED BY <1>1, <1>2, <1>4

LEMMA NoneFit == Fits([h \in Handler |-> 0])
<1> DEFINE e == [h \in Handler |-> 0]
           g == [s \in SUBSET Handler |-> 0]
<1>1. IsSum(g, e, Handler)
  BY DEF IsSum
<1>2. g \in [SUBSET Handler -> Nat] /\ g[Handler] <= Cap
  BY SensorsAssumption
<1>3. e \in [Handler -> Nat]
  OBVIOUS
<1> QED BY <1>1, <1>2, <1>3 DEF Fits

\* Registering a handler n times more, or once less, adds to the sum what it adds to the bag.
LEMMA MoreFit ==
  ASSUME NEW e, Fits(e), NEW h \in Handler, NEW n \in Int, e[h] + n \in Nat, Size(e) + n <= Cap
  PROVE  Fits([e EXCEPT ![h] = @ + n])
<1>1. PICK g \in [SUBSET Handler -> Nat] : IsSum(g, e, Handler) /\ g[Handler] <= Cap
  BY DEF Fits
<1> DEFINE f  == [e EXCEPT ![h] = @ + n]
           g2 == [s \in SUBSET Handler |-> g[s] + IF h \in s THEN n ELSE 0]
<1>2. f \in [Handler -> Nat] /\ e \in [Handler -> Nat]
  BY DEF Fits
<1>3. g2 \in [SUBSET Handler -> Nat]
  <2>1. ASSUME NEW s \in SUBSET Handler PROVE g2[s] \in Nat
    <3>1. CASE h \in s
      <4>1. g[s] = e[h] + g[s \ {h}] /\ g[s \ {h}] \in Nat /\ e[h] \in Nat
        BY <1>1, <1>2, <3>1 DEF IsSum
      <4> QED BY <3>1, <4>1
    <3>2. CASE h \notin s
      BY <3>2
    <3> QED BY <3>1, <3>2
  <2> QED BY <2>1
<1>4. IsSum(g2, f, Handler)
  <2>1. ASSUME NEW s \in SUBSET Handler, NEW x \in s
        PROVE  g2[s] = f[x] + g2[s \ {x}]
    <3>1. g[s] = e[x] + g[s \ {x}] /\ g[s] \in Nat /\ e[x] \in Nat /\ g[s \ {x}] \in Nat
      BY <1>1, <1>2 DEF IsSum
    <3>2. g2[s] = g[s] + (IF h \in s THEN n ELSE 0)
      OBVIOUS
    <3>3. g2[s \ {x}] = g[s \ {x}] + (IF h \in s \ {x} THEN n ELSE 0)
      OBVIOUS
    <3>4. f[x] = e[x] + (IF x = h THEN n ELSE 0)
      BY <1>2, <3>1
    <3> HIDE DEF g2, f
    <3> QED BY <3>1, <3>2, <3>3, <3>4
  <2>2. g2[{}] = 0
    BY <1>1 DEF IsSum
  <2> QED BY <2>1, <2>2 DEF IsSum
<1>5. g2[Handler] <= Cap
  <2>1. g2[Handler] = g[Handler] + n /\ Size(e) = g[Handler]
    BY <1>1, SizeIsSum
  <2> QED BY <2>1
<1> HIDE DEF f, g2
<1>6. Fits(f)
  BY <1>2, <1>3, <1>4, <1>5 DEF Fits
<1> QED BY <1>6 DEF f

LEMMA WithFits ==
  ASSUME NEW e, Fits(e), NEW h \in Handler
  PROVE  /\ Fits(With(e, h))
         /\ \A x \in Handler : With(e, h)[x] = e[x] + IF x = h /\ HasRoom(e) THEN 1 ELSE 0
<1>1. e \in [Handler -> Nat] /\ Size(e) \in Nat /\ Size(e) <= Cap
  BY FitsFacts DEF Fits
<1>2. CASE HasRoom(e)
  <2>1. Size(e) + 1 <= Cap /\ e[h] + 1 \in Nat
    BY <1>1, <1>2, SensorsAssumption DEF HasRoom
  <2>2. Fits([e EXCEPT ![h] = @ + 1])
    BY <2>1, MoreFit
  <2> QED BY <1>1, <1>2, <2>2 DEF With
<1>3. CASE ~HasRoom(e)
  BY <1>1, <1>3 DEF With
<1> QED BY <1>2, <1>3

LEMMA WithoutFits ==
  ASSUME NEW e, Fits(e), NEW h \in Handler, e[h] > 0
  PROVE  /\ Fits(Without(e, h))
         /\ \A x \in Handler : Without(e, h)[x] = e[x] - IF x = h THEN 1 ELSE 0
<1>1. e \in [Handler -> Nat] /\ Size(e) \in Nat /\ Size(e) <= Cap
  BY FitsFacts DEF Fits
<1>2. e[h] + (-1) \in Nat /\ Size(e) + (-1) <= Cap
  BY <1>1, SensorsAssumption
<1>3. Fits([e EXCEPT ![h] = @ + (-1)])
  BY <1>2, MoreFit
<1>4. Without(e, h) = [e EXCEPT ![h] = @ + (-1)]
  BY <1>1 DEF Without
<1> QED BY <1>1, <1>3, <1>4

\* The debounce handler registers the reporter n times, or as often as there is room.
LEMMA ReportersFit ==
  ASSUME NEW e, Fits(e), NEW n \in Nat
  PROVE  /\ Fits(Reporters(e, n))
         /\ \A x \in Handler : Reporters(e, n)[x] >= e[x]
         /\ \A x \in Handler \ {Reporter} : Reporters(e, n)[x] = e[x]
         /\ Size(e) + n <= Cap => Reporters(e, n)[Reporter] = e[Reporter] + n
<1>1. e \in [Handler -> Nat] /\ Size(e) \in Nat /\ Size(e) <= Cap /\ Reporter \in Handler
  BY FitsFacts, ButtonAssumption DEF Fits
<1> DEFINE room == Cap - Size(e)
           k    == Min({n, room})
<1>2. room \in Nat
  BY <1>1, SensorsAssumption
<1>3. k \in {n, room} /\ k <= n /\ k <= room
  <2>1. \E x \in {n, room} : \A y \in {n, room} : x <= y
    <3>1. CASE n <= room
      BY <1>2, <3>1
    <3>2. CASE room <= n
      BY <1>2, <3>2
    <3> QED BY <1>2, <3>1, <3>2
  <2> HIDE DEF room
  <2>2. Min({n, room}) \in {n, room} /\ \A y \in {n, room} : Min({n, room}) <= y
    BY <2>1, Zenon DEF Min
  <2> QED BY <2>2
<1>4. k \in Nat /\ (n <= room => k = n)
  BY <1>2, <1>3
<1> HIDE DEF k
<1>5. Size(e) + k <= Cap
  BY <1>1, <1>3, <1>4, SensorsAssumption
<1>6. e[Reporter] + k \in Nat
  BY <1>1, <1>4
<1>7. Reporters(e, n) = [e EXCEPT ![Reporter] = @ + k]
  BY DEF Reporters, k
<1>8. Fits(Reporters(e, n))
  <2>1. k \in Int
    BY <1>4
  <2>2. Fits([e EXCEPT ![Reporter] = @ + k])
    BY <1>1, <1>5, <1>6, <2>1, MoreFit
  <2> QED BY <1>7, <2>2
<1>9. Size(e) + n <= Cap => k = n
  BY <1>1, <1>4, SensorsAssumption
<1> QED BY <1>1, <1>4, <1>7, <1>8, <1>9

-----------------------------------------------------------------------------
(* The status words.                                                       *)

LEMMA WordFields ==
  /\ \A w \in Word : w.update \in BOOLEAN /\ w.cur \in BOOLEAN /\ w.report \in {"none", "fall", "raise"}
  /\ NoWord \in Word /\ NoWord.report = "none" /\ ~NoWord.update /\ NoWord.cur
<1>1. 0 \in 0 .. JitterDelay
  BY ButtonAssumption
<1> QED BY <1>1 DEF Word, NoWord

LEMMA NotedWord ==
  ASSUME NEW w \in Word, NEW v \in BOOLEAN
  PROVE  /\ Noted(w, v) \in Word
         /\ Noted(w, v).update /\ Noted(w, v).report = w.report
         /\ Noted(w, v).cur = IF w.update THEN w.cur ELSE v
<1>1. 0 \in 0 .. JitterDelay
  BY ButtonAssumption
<1>2. CASE w.update
  BY <1>1, <1>2 DEF Noted, Word
<1>3. CASE ~w.update
  <2>1. Noted(w, v) = [update |-> TRUE, cur |-> v, report |-> w.report, count |-> 0]
    BY <1>3 DEF Noted, Word
  <2>2. /\ Noted(w, v) \in Word /\ Noted(w, v).update = TRUE
        /\ Noted(w, v).cur = v /\ Noted(w, v).report = w.report
    BY <1>1, <2>1 DEF Word
  <2>3. Noted(w, v).cur = IF w.update THEN w.cur ELSE v
    BY <1>3, <2>2
  <2>4. Noted(w, v).update
    BY <2>2
  <2>5. Noted(w, v) \in Word /\ Noted(w, v).report = w.report
    BY <2>2
  <2> QED BY <2>3, <2>4, <2>5
<1> QED BY <1>2, <1>3

LEMMA JudgedWord ==
  ASSUME NEW w \in Word, NEW v \in BOOLEAN
  PROVE  /\ Judged(w, v) \in Word
         /\ Judged(w, v).cur = w.cur
         /\ Judged(w, v).update = (w.update /\ ~IsDue(w))
         /\ Judged(w, v).report = IF IsDue(w) /\ w.cur = v THEN Edge(v) ELSE w.report
<1>1. 0 \in 0 .. JitterDelay /\ JitterDelay \in Nat
  BY ButtonAssumption
<1>2. CASE ~w.update
  BY <1>2 DEF Judged, IsDue, Word
<1>3. CASE w.update /\ ~IsDue(w)
  <2>1. w.count + 1 \in 0 .. JitterDelay
    BY <1>1, <1>3 DEF IsDue, Word
  <2>2. Judged(w, v) = [update |-> w.update, cur |-> w.cur, report |-> w.report, count |-> w.count + 1]
    BY <1>3 DEF Judged, Word
  <2>3. /\ Judged(w, v) \in Word /\ Judged(w, v).cur = w.cur
        /\ Judged(w, v).update = w.update /\ Judged(w, v).report = w.report
    BY <2>1, <2>2 DEF Word
  <2>4. w.update = (w.update /\ ~IsDue(w))
    BY <1>3 DEF Word
  <2> QED BY <1>3, <2>3, <2>4
<1>4. CASE w.update /\ IsDue(w)
  <2> DEFINE r == IF w.cur = v THEN Edge(v) ELSE w.report
  <2>1. r \in {"none", "fall", "raise"}
    BY DEF Edge, Word
  <2>2. Judged(w, v) = [update |-> FALSE, cur |-> w.cur, report |-> r, count |-> 0]
    BY <1>4 DEF Judged, Word
  <2> HIDE DEF r
  <2>3. /\ Judged(w, v) \in Word /\ Judged(w, v).cur = w.cur
        /\ Judged(w, v).update = FALSE /\ Judged(w, v).report = r
    BY <1>1, <2>1, <2>2 DEF Word
  <2> QED BY <1>4, <2>3 DEF r
<1> QED BY <1>2, <1>3, <1>4

LEMMA ClearedWord ==
  ASSUME NEW w \in Word
  PROVE  /\ Cleared(w) \in Word
         /\ Cleared(w).update = w.update /\ Cleared(w).cur = w.cur /\ Cleared(w).report = "none"
  BY DEF Cleared, Word

LEMMA EdgeFacts ==
  \A v, w \in BOOLEAN : /\ Edge(v) \in {"fall", "raise"}
                        /\ Edge(v) = Edge(w) <=> v = w
                        /\ Edge(v) = "raise" <=> v
  BY DEF Edge

-----------------------------------------------------------------------------
(* The inductive invariant.                                                *)

ButtonTyped ==
    /\ level \in [Button -> BOOLEAN] /\ awaits \in [Button -> BOOLEAN]
    /\ reported \in [Button -> BOOLEAN]
    /\ status \in [Button -> Word] /\ seen \in Word
    /\ debouncing \in BOOLEAN
    /\ at \in Idle .. Cardinality(Button) + 1
    /\ flaws \in [Button -> SUBSET Flaw]

\* The level of the last edge of b that was judged to be one.
LastEdge(b) == IF status[b].report = "none" THEN reported[b] ELSE status[b].report = "raise"

\* The edge that waits to be judged, or else the one the pin waits for, is the opposite one.
EdgesAlternate ==
    \A b \in Button :
        \/ LastEdge(b) = IF status[b].update THEN ~status[b].cur ELSE ~awaits[b]
        \/ flaws[b] \cap {"undone", "early"} # {}

\* The report r of the button b is not the one made last.
IsNews(b, r) == r = Edge(~reported[b]) \/ flaws[b] \cap {"undone", "early", "replaced"} # {}

ReportIsNews ==
    /\ \A b \in Button : status[b].report # "none" => IsNews(b, status[b].report)
    /\ seen # NoWord => at \in Button /\ seen.report # "none" /\ IsNews(at, seen.report)

\* The button's variables alone keep these.
ButtonInv ==
    ButtonTyped /\ DebounceIsArmed /\ StatusIsLevel /\ EdgesAlternate /\ ReportIsNews

\* A reporter that runs is in the table.
ReporterIsListed == at # Idle => events[Reporter] > 0

TableInv == ReporterIsListed /\ ReportIsPending

\* The reports and releases that a trigger has still to make.
PirDue == events[Report] + events[Release] + (IF following THEN 1 ELSE 0)

PirTyped ==
    /\ pirLevel \in BOOLEAN /\ pirAwaits \in BOOLEAN /\ enabled \in BOOLEAN
    /\ hasDeadTime \in BOOLEAN /\ following \in BOOLEAN /\ pirRefused \in BOOLEAN
    /\ trigger \in {"none", "short", "long"}

PirInv ==
    /\ PirTyped /\ board \in Boards /\ moves \in 0 .. MaxMoves
    /\ board = "pir" => PirDue = 0 \/ (PirDue = 1 /\ ~enabled)

LEMMA ButtonAtRest == ButtonInv /\ UNCHANGED buttonVars => ButtonInv'
BY DEF ButtonInv, buttonVars, ButtonTyped, DebounceIsArmed, StatusIsLevel, Raised,
       EdgesAlternate, LastEdge, ReportIsNews, IsNews

\* A move of a contact leaves the pin raised, and its word alone.
LEMMA PinChangeKeeps == \A b \in Button : ButtonInv /\ PinChange(b) => ButtonInv'
<1> SUFFICES ASSUME NEW b \in Button, ButtonInv, PinChange(b) PROVE ButtonInv'
  OBVIOUS
<1> USE DEF ButtonInv
<1>1. /\ level' = [level EXCEPT ![b] = ~@] /\ ~Raised(b)
      /\ UNCHANGED <<awaits, status, debouncing, at, seen, reported, flaws>>
  BY DEF PinChange
<1>2. ButtonTyped'
  BY <1>1 DEF ButtonTyped
<1>3. DebounceIsArmed' /\ EdgesAlternate' /\ ReportIsNews'
  BY <1>1 DEF DebounceIsArmed, EdgesAlternate, LastEdge, ReportIsNews, IsNews
<1>4. StatusIsLevel'
  <2> SUFFICES ASSUME NEW c \in Button, ~Raised(c)' PROVE c # b
    BY <1>1 DEF StatusIsLevel, Raised, ButtonTyped
  <2> QED BY <1>1 DEF Raised, ButtonTyped
<1> QED BY <1>2, <1>3, <1>4

\* What the pin interrupt does to one button.
LEMMA PinIsrFacts ==
  ASSUME ButtonTyped, PinIsr, NEW b \in Button
  PROVE  /\ status'[b] \in Word
         /\ status'[b].report = status[b].report
         /\ ~Raised(b) => status'[b] = status[b] /\ awaits'[b] = awaits[b]
         /\ Raised(b) => /\ status'[b].update /\ awaits'[b] = ~level[b]
                         /\ status'[b].cur = IF status[b].update THEN status[b].cur ELSE level[b]
         /\ flaws'[b] \in SUBSET Flaw
         /\ \A f \in Flaw \ {"bounced"} : f \in flaws'[b] <=> f \in flaws[b]
         /\ ~Raised(b) => flaws'[b] = flaws[b]
<1> USE DEF ButtonTyped
<1>1. status[b] \in Word /\ level[b] \in BOOLEAN
  OBVIOUS
<1>2. status'[b] = IF Raised(b) THEN Noted(status[b], level[b]) ELSE status[b]
  BY DEF PinIsr
<1>3. awaits'[b] = IF Raised(b) THEN ~level[b] ELSE awaits[b]
  BY DEF PinIsr
<1>4. flaws'[b] = IF Raised(b) /\ ~status[b].update THEN flaws[b] \ {"bounced"} ELSE flaws[b]
  BY DEF PinIsr
<1>5. CASE Raised(b)
  <2>1. status'[b] = Noted(status[b], level[b])
    BY <1>2, <1>5
  <2>2. /\ status'[b] \in Word /\ status'[b].update /\ status'[b].report = status[b].report
        /\ status'[b].cur = IF status[b].update THEN status[b].cur ELSE level[b]
    BY <1>1, <2>1, NotedWord
  <2>3. flaws'[b] \in SUBSET Flaw /\ \A f \in Flaw \ {"bounced"} : f \in flaws'[b] <=> f \in flaws[b]
    BY <1>4
  <2>4. awaits'[b] = ~level[b]
    BY <1>3, <1>5
  <2> QED BY <1>5, <2>2, <2>3, <2>4
<1>6. CASE ~Raised(b)
  BY <1>1, <1>2, <1>3, <1>4, <1>6
<1> QED BY <1>5, <1>6

LEMMA PinIsrKeeps == ButtonInv /\ PinIsr => ButtonInv'
<1> SUFFICES ASSUME ButtonInv, PinIsr PROVE ButtonInv'
  OBVIOUS
<1> USE DEF ButtonInv
<1>1. /\ awaits' = [b \in Button |-> IF Raised(b) THEN ~level[b] ELSE awaits[b]]
      /\ UNCHANGED <<level, at, seen, reported>>
  BY DEF PinIsr
<1>2. ButtonTyped'
  <2>1. awaits' \in [Button -> BOOLEAN]
    BY <1>1 DEF ButtonTyped
  <2>2. status' \in [Button -> Word]
    <3>1. \A b \in Button : status'[b] \in Word
      BY PinIsrFacts
    <3>2. status' = [b \in Button |-> status'[b]]
      BY DEF PinIsr
    <3> QED BY <3>1, <3>2
  <2>3. flaws' \in [Button -> SUBSET Flaw]
    <3>1. \A b \in Button : flaws'[b] \in SUBSET Flaw
      BY PinIsrFacts
    <3>2. flaws' = [b \in Button |-> flaws'[b]]
      BY DEF PinIsr
    <3> QED BY <3>1, <3>2
  <2>4. debouncing' \in BOOLEAN
    BY DEF PinIsr, ButtonTyped
  <2> QED BY <1>1, <2>1, <2>2, <2>3, <2>4 DEF ButtonTyped
<1>3. ASSUME NEW b \in Button, status'[b].update PROVE debouncing' \/ "undone" \in flaws'[b]
  <2>1. CASE status[b].update
    <3>1. debouncing \/ "undone" \in flaws[b]
      BY <2>1 DEF DebounceIsArmed
    <3>2. "undone" \in flaws[b] => "undone" \in flaws'[b]
      BY PinIsrFacts DEF Flaw
    <3> QED BY <3>1, <3>2 DEF PinIsr
  <2>2. CASE ~status[b].update
    <3>1. Raised(b)
      BY <1>3, <2>2, PinIsrFacts
    <3> QED BY <2>2, <3>1 DEF PinIsr
  <2> QED BY <2>1, <2>2
<1>4. ASSUME NEW b \in Button, ~status'[b].update, ~Raised(b)', status'[b].cur # level'[b]
      PROVE  flaws'[b] \cap {"bounced", "undone"} # {}
  <2>1. ~Raised(b)
    BY <1>4, PinIsrFacts
  <2>2. status'[b] = status[b] /\ flaws'[b] = flaws[b]
    BY <2>1, PinIsrFacts
  <2> QED BY <1>1, <1>4, <2>1, <2>2 DEF StatusIsLevel
<1>5. ASSUME NEW b \in Button, flaws'[b] \cap {"undone", "early"} = {}
      PROVE  LastEdge(b)' = IF status'[b].update THEN ~status'[b].cur ELSE ~awaits'[b]
  <2>1. flaws[b] \cap {"undone", "early"} = {}
    BY <1>5, PinIsrFacts DEF Flaw
  <2>2. LastEdge(b) = IF status[b].update THEN ~status[b].cur ELSE ~awaits[b]
    BY <2>1 DEF EdgesAlternate
  <2>3. LastEdge(b)' = LastEdge(b)
    BY <1>1, PinIsrFacts DEF LastEdge
  <2>4. CASE Raised(b)
    <3>1. /\ status'[b].update
          /\ status'[b].cur = IF status[b].update THEN status[b].cur ELSE level[b]
      BY <2>4, PinIsrFacts
    <3>2. level[b] = awaits[b]
      BY <2>4 DEF Raised
    <3> QED BY <2>2, <2>3, <3>1, <3>2
  <2>5. CASE ~Raised(b)
    <3>1. status'[b] = status[b] /\ awaits'[b] = awaits[b]
      BY <2>5, PinIsrFacts
    <3> QED BY <2>2, <2>3, <3>1
  <2> QED BY <2>4, <2>5
<1>6. ReportIsNews'
  <2> DEFINE Excused(b) == flaws[b] \cap {"undone", "early", "replaced"} # {}
  <2>1. \A b \in Button : Excused(b) => Excused(b)'
    BY PinIsrFacts DEF Flaw
  <2>2. \A b \in Button : status'[b].report = status[b].report
    BY PinIsrFacts
  <2> HIDE DEF Excused
  <2>3. \A b \in Button : status'[b].report # "none"
                          => status'[b].report = Edge(~reported'[b]) \/ Excused(b)'
    BY <1>1, <2>1, <2>2 DEF ReportIsNews, IsNews, Excused
  <2>4. seen' # NoWord => /\ at' \in Button /\ seen'.report # "none"
                          /\ seen'.report = Edge(~reported'[at']) \/ Excused(at)'
    BY <1>1, <2>1 DEF ReportIsNews, IsNews, Excused
  <2> QED BY <2>3, <2>4 DEF ReportIsNews, IsNews, Excused
<1> QED BY <1>2, <1>3, <1>4, <1>5, <1>6 DEF DebounceIsArmed, StatusIsLevel, EdgesAlternate

\* The debounce handler takes the edge of b for one.
IsEdge(b) == IsDue(status[b]) /\ status[b].cur = level[b]

\* What the debounce handler does to one button.
LEMMA DebounceFacts ==
  ASSUME ButtonTyped, Debounce, NEW b \in Button
  PROVE  /\ status'[b] \in Word
         /\ status'[b].cur = status[b].cur
         /\ status'[b].update = (status[b].update /\ ~IsDue(status[b]))
         /\ status'[b].report = IF IsEdge(b) THEN Edge(level[b]) ELSE status[b].report
         /\ flaws'[b] \in SUBSET Flaw /\ flaws[b] \subseteq flaws'[b]
         /\ IsEdge(b) /\ status[b].report = Edge(~level[b]) => "replaced" \in flaws'[b]
         /\ IsDue(status[b]) /\ ~IsEdge(b) => "bounced" \in flaws'[b]
         /\ IsDue(status[b]) /\ Raised(b) => "early" \in flaws'[b]
<1> DEFINE due   == {x \in Button : IsDue(status[x])}
           edges == {x \in due : status[x].cur = level[x]}
           refused == Size(events) + Cardinality(edges) > Cap
<1>1. status[b] \in Word /\ level[b] \in BOOLEAN /\ flaws[b] \in SUBSET Flaw
  BY DEF ButtonTyped
<1>2. status'[b] = Judged(status[b], level[b])
  BY DEF Debounce
<1>3. flaws' = [x \in Button |-> flaws[x]
                   \cup {f \in {"refused"}  : x \in edges /\ refused}
                   \cup {f \in {"replaced"} : x \in edges /\ status[x].report = Edge(~level[x])}
                   \cup {f \in {"bounced"}  : x \in due \ edges}
                   \cup {f \in {"early"}    : x \in due /\ Raised(x)}]
  BY DEF Debounce
<1>4. (b \in due <=> IsDue(status[b])) /\ (b \in edges <=> IsEdge(b))
  BY DEF IsEdge
<1> HIDE DEF due, edges, refused
<1>5. flaws'[b] = flaws[b]
                   \cup {f \in {"refused"}  : b \in edges /\ refused}
                   \cup {f \in {"replaced"} : b \in edges /\ status[b].report = Edge(~level[b])}
                   \cup {f \in {"bounced"}  : b \in due \ edges}
                   \cup {f \in {"early"}    : b \in due /\ Raised(b)}
  BY <1>3
<1>6. flaws'[b] \in SUBSET Flaw /\ flaws[b] \subseteq flaws'[b]
  BY <1>1, <1>5 DEF Flaw
<1>7. IsEdge(b) /\ status[b].report = Edge(~level[b]) => "replaced" \in flaws'[b]
  BY <1>4, <1>5
<1>8. /\ IsDue(status[b]) /\ ~IsEdge(b) => "bounced" \in flaws'[b]
      /\ IsDue(status[b]) /\ Raised(b) => "early" \in flaws'[b]
  BY <1>4, <1>5
<1>9. /\ status'[b] \in Word
      /\ status'[b].cur = status[b].cur
      /\ status'[b].update = (status[b].update /\ ~IsDue(status[b]))
      /\ status'[b].report = IF IsEdge(b) THEN Edge(level[b]) ELSE status[b].report
  BY <1>1, <1>2, JudgedWord DEF IsEdge
<1> QED BY <1>6, <1>7, <1>8, <1>9

LEMMA DebounceKeeps == ButtonInv /\ Debounce => ButtonInv'
<1> SUFFICES ASSUME ButtonInv, Debounce PROVE ButtonInv'
  OBVIOUS
<1> USE DEF ButtonInv
<1>1. UNCHANGED <<level, awaits, at, seen, reported>>
  BY DEF Debounce
<1>2. ButtonTyped'
  <2>1. status' \in [Button -> Word]
    <3>1. \A b \in Button : status'[b] \in Word
      BY DebounceFacts
    <3>2. status' = [b \in Button |-> status'[b]]
      BY DEF Debounce
    <3> QED BY <3>1, <3>2
  <2>2. flaws' \in [Button -> SUBSET Flaw]
    <3>1. \A b \in Button : flaws'[b] \in SUBSET Flaw
      BY DebounceFacts
    <3>2. flaws' = [b \in Button |-> flaws'[b]]
      BY DEF Debounce
    <3> QED BY <3>1, <3>2
  <2>3. debouncing' \in BOOLEAN
    BY DEF Debounce
  <2> QED BY <1>1, <2>1, <2>2, <2>3 DEF ButtonTyped
<1>3. ASSUME NEW b \in Button, status'[b].update PROVE debouncing'
  <2>1. status[b].update /\ ~IsDue(status[b])
    BY <1>3, DebounceFacts
  <2> QED BY <2>1 DEF Debounce, Stops
<1>4. ASSUME NEW b \in Button, ~status'[b].update, ~Raised(b)', status'[b].cur # level'[b]
      PROVE  flaws'[b] \cap {"bounced", "undone"} # {}
  <2>1. ~Raised(b) /\ status[b].cur # level[b]
    BY <1>1, <1>4, DebounceFacts DEF Raised
  <2>2. CASE IsDue(status[b])
    BY <2>1, <2>2, DebounceFacts DEF IsEdge
  <2>3. CASE ~IsDue(status[b])
    <3>1. ~status[b].update
      BY <1>4, <2>3, DebounceFacts
    <3>2. flaws[b] \cap {"bounced", "undone"} # {}
      BY <2>1, <3>1 DEF StatusIsLevel
    <3> QED BY <3>2, DebounceFacts
  <2> QED BY <2>2, <2>3
<1>5. ASSUME NEW b \in Button, flaws'[b] \cap {"undone", "early"} = {}
      PROVE  LastEdge(b)' = IF status'[b].update THEN ~status'[b].cur ELSE ~awaits'[b]
  <2>1. flaws[b] \cap {"undone", "early"} = {} /\ ~(IsDue(status[b]) /\ Raised(b))
    BY <1>5, DebounceFacts
  <2>2. LastEdge(b) = IF status[b].update THEN ~status[b].cur ELSE ~awaits[b]
    BY <2>1 DEF EdgesAlternate
  <2>3. /\ level[b] \in BOOLEAN /\ awaits[b] \in BOOLEAN /\ status[b].cur \in BOOLEAN
        /\ status[b].update \in BOOLEAN
    BY WordFields DEF ButtonTyped
  <2>4. CASE IsDue(status[b])
    <3>1. status[b].update /\ ~status'[b].update /\ level[b] = ~awaits[b]
      BY <2>1, <2>3, <2>4, DebounceFacts DEF IsDue, Raised
    <3>2. CASE IsEdge(b)
      <4>1. status'[b].report = Edge(level[b])
        BY <3>2, DebounceFacts
      <4>2. LastEdge(b)' = level[b]
        BY <2>3, <4>1, EdgeFacts DEF LastEdge
      <4> QED BY <1>1, <3>1, <4>2
    <3>3. CASE ~IsEdge(b)
      <4>1. LastEdge(b)' = LastEdge(b)
        BY <1>1, <3>3, DebounceFacts DEF LastEdge
      <4>2. level[b] = ~status[b].cur
        BY <2>3, <2>4, <3>3 DEF IsEdge
      <4> QED BY <1>1, <2>2, <3>1, <4>1, <4>2
    <3> QED BY <3>2, <3>3
  <2>5. CASE ~IsDue(status[b])
    <3>1. /\ status'[b].update = status[b].update /\ status'[b].cur = status[b].cur
          /\ status'[b].report = status[b].report
      BY <2>3, <2>5, DebounceFacts DEF IsEdge
    <3>2. LastEdge(b)' = LastEdge(b)
      BY <1>1, <3>1 DEF LastEdge
    <3> QED BY <1>1, <2>2, <3>1, <3>2
  <2> QED BY <2>4, <2>5
<1>6. ReportIsNews'
  <2> DEFINE Excused(b) == flaws[b] \cap {"undone", "early", "replaced"} # {}
  <2>1. \A b \in Button : Excused(b) => Excused(b)'
    BY DebounceFacts
  <2>2. ASSUME NEW b \in Button, status'[b].report # "none"
        PROVE  status'[b].report = Edge(~reported'[b]) \/ Excused(b)'
    <3>1. CASE ~IsEdge(b)
      <4>1. status'[b].report = status[b].report
        BY <3>1, DebounceFacts
      <4> QED BY <1>1, <2>1, <2>2, <4>1 DEF ReportIsNews, IsNews
    <3>2. CASE IsEdge(b)
      <4>1. /\ status'[b].report = Edge(level[b]) /\ status[b].cur = level[b]
            /\ status[b].update
        BY <3>2, DebounceFacts DEF IsEdge, IsDue
      <4>2. /\ level[b] \in BOOLEAN /\ reported[b] \in BOOLEAN
            /\ status[b].report \in {"none", "fall", "raise"}
        BY WordFields DEF ButtonTyped
      <4>3. CASE Excused(b)
        BY <2>1, <4>3
      <4>4. CASE ~Excused(b)
        <5>1. LastEdge(b) = ~level[b]
          BY <4>1, <4>4 DEF EdgesAlternate
        <5>2. CASE status[b].report = "none"
          <6>1. reported[b] = ~level[b]
            BY <5>1, <5>2 DEF LastEdge
          <6>2. Edge(~reported[b]) = Edge(level[b])
            BY <4>2, <6>1
          <6> QED BY <1>1, <4>1, <6>2
        <5>3. CASE status[b].report # "none"
          <6>1. (status[b].report = "raise") = ~level[b]
            BY <5>1, <5>3 DEF LastEdge
          <6>2. status[b].report = Edge(~level[b])
            BY <4>2, <5>3, <6>1 DEF Edge
          <6> QED BY <3>2, <6>2, DebounceFacts
        <5> QED BY <5>2, <5>3
      <4> QED BY <4>3, <4>4
    <3> QED BY <3>1, <3>2
  <2>3. seen' # NoWord => /\ at' \in Button /\ seen'.report # "none"
                          /\ seen'.report = Edge(~reported'[at']) \/ Excused(at)'
    <3> HIDE DEF Excused
    <3> QED BY <1>1, <2>1 DEF ReportIsNews, IsNews, Excused
  <2> QED BY <2>2, <2>3 DEF ReportIsNews, IsNews
<1> QED BY <1>2, <1>3, <1>4, <1>5, <1>6 DEF DebounceIsArmed, StatusIsLevel, EdgesAlternate

LEMMA ReporterMoves ==
  ButtonInv /\ (ReporterBegin \/ ReporterSkip \/ ReporterLoad \/ ReporterEnd) => ButtonInv'
<1> SUFFICES ASSUME ButtonInv, ReporterBegin \/ ReporterSkip \/ ReporterLoad \/ ReporterEnd
             PROVE  ButtonInv'
  OBVIOUS
<1> USE DEF ButtonInv
<1>0. Cardinality(Button) \in Nat /\ Button = 1 .. Cardinality(Button)
  BY ButtonAssumption, FS_CardinalityType
<1>1. UNCHANGED <<level, awaits, status, debouncing, reported, flaws>>
  BY DEF ReporterBegin, ReporterSkip, ReporterLoad, ReporterEnd
<1>2. at' \in Idle .. Cardinality(Button) + 1
  BY <1>0 DEF ReporterBegin, ReporterSkip, ReporterLoad, ReporterEnd, Idle
<1>3. seen' \in Word
  BY DEF ReporterBegin, ReporterSkip, ReporterLoad, ReporterEnd, ButtonTyped
<1>4. ButtonTyped'
  BY <1>1, <1>2, <1>3 DEF ButtonTyped
<1>5. DebounceIsArmed' /\ StatusIsLevel' /\ EdgesAlternate'
  BY <1>1 DEF DebounceIsArmed, StatusIsLevel, Raised, EdgesAlternate, LastEdge
<1>6. ReportIsNews'
  <2>1. \A b \in Button : status'[b].report # "none" => IsNews(b, status[b].report)'
    BY <1>1 DEF ReportIsNews, IsNews
  <2>2. ASSUME seen' # NoWord
        PROVE  at' \in Button /\ seen'.report # "none" /\ IsNews(at, seen.report)'
    <3>1. CASE ReporterLoad
      BY <1>1, <3>1 DEF ReporterLoad, ReportIsNews, IsNews
    <3>2. CASE ReporterSkip
      BY <2>2, <3>2 DEF ReporterSkip
    <3>3. CASE ReporterBegin \/ ReporterEnd
      <4>1. at \notin Button /\ seen' = seen
        BY <1>0, <3>3 DEF ReporterBegin, ReporterEnd, Idle
      <4> QED BY <2>2, <4>1 DEF ReportIsNews
    <3> QED BY <3>1, <3>2, <3>3
  <2> QED BY <1>1, <2>1, <2>2 DEF ReportIsNews, IsNews
<1> QED BY <1>4, <1>5, <1>6

\* A store that undoes nothing clears the report, and nothing else, of the button it is at.
LEMMA StoreFacts ==
  ASSUME ButtonTyped, ReporterStore, NEW b \in Button
  PROVE  /\ status'[b] \in Word
         /\ status'[b].report = IF at = b THEN "none" ELSE status[b].report
         /\ reported'[b] = IF at = b THEN seen.report = "raise" ELSE reported[b]
         /\ flaws'[b] \in SUBSET Flaw
         /\ \A f \in Flaw \ {"replaced", "refused"} : f \in flaws[b] => f \in flaws'[b]
         /\ at # b => status'[b] = status[b] /\ flaws'[b] = flaws[b]
         /\ \/ "undone" \in flaws'[b]
            \/ /\ status'[b].update = status[b].update /\ status'[b].cur = status[b].cur
               /\ at = b => seen = status[b]
<1> USE DEF ButtonTyped
<1>1. /\ status' = [status EXCEPT ![at] = Cleared(seen)]
      /\ reported' = [reported EXCEPT ![at] = (seen.report = "raise")]
      /\ flaws' = [flaws EXCEPT ![at] = (@ \ {"replaced", "refused"})
                                          \cup {f \in {"undone"} : status[at] # seen}]
      /\ at \in Button
  BY DEF ReporterStore
<1>2. CASE at = b
  <2>1. /\ status'[b] = Cleared(seen) /\ reported'[b] = (seen.report = "raise")
        /\ flaws'[b] = (flaws[b] \ {"replaced", "refused"})
                         \cup {f \in {"undone"} : status[b] # seen}
    BY <1>1, <1>2
  <2>2. /\ Cleared(seen) \in Word /\ Cleared(seen).report = "none"
        /\ Cleared(seen).update = seen.update /\ Cleared(seen).cur = seen.cur
    BY ClearedWord
  <2>3. flaws[b] \in SUBSET Flaw
    OBVIOUS
  <2>4. /\ flaws'[b] \in SUBSET Flaw
        /\ \A f \in Flaw \ {"replaced", "refused"} : f \in flaws[b] => f \in flaws'[b]
        /\ "undone" \in flaws'[b] \/ seen = status[b]
    BY <2>1, <2>3 DEF Flaw
  <2>5. /\ status'[b] \in Word /\ status'[b].report = "none"
        /\ status'[b].update = seen.update /\ status'[b].cur = seen.cur
    BY <2>1, <2>2
  <2>6. reported'[b] = IF at = b THEN seen.report = "raise" ELSE reported[b]
    BY <1>2, <2>1
  <2> QED BY <1>2, <2>4, <2>5, <2>6
<1>3. CASE at # b
  <2>1. status'[b] = status[b] /\ flaws'[b] = flaws[b] /\ reported'[b] = reported[b]
    BY <1>1, <1>3
  <2> QED BY <1>3, <2>1
<1> QED BY <1>2, <1>3

LEMMA StoreKeeps == ButtonInv /\ ReporterStore => ButtonInv'
<1> SUFFICES ASSUME ButtonInv, ReporterStore PROVE ButtonInv'
  OBVIOUS
<1> USE DEF ButtonInv
<1>0. Cardinality(Button) \in Nat /\ Button = 1 .. Cardinality(Button)
  BY ButtonAssumption, FS_CardinalityType
<1>1. /\ UNCHANGED <<level, awaits, debouncing>>
      /\ at \in Button /\ seen # NoWord /\ at' = at + 1 /\ seen' = NoWord
  BY DEF ReporterStore
<1>2. ButtonTyped'
  <2>1. status' \in [Button -> Word] /\ flaws' \in [Button -> SUBSET Flaw]
    <3>1. \A b \in Button : status'[b] \in Word /\ flaws'[b] \in SUBSET Flaw
      BY StoreFacts
    <3>2. status' = [b \in Button |-> status'[b]] /\ flaws' = [b \in Button |-> flaws'[b]]
      BY DEF ReporterStore, ButtonTyped
    <3> QED BY <3>1, <3>2
  <2>2. reported' \in [Button -> BOOLEAN]
    BY DEF ReporterStore, ButtonTyped
  <2>3. at' \in Idle .. Cardinality(Button) + 1 /\ seen' \in Word
    BY <1>0, <1>1, WordFields DEF Idle
  <2> QED BY <1>1, <2>1, <2>2, <2>3 DEF ButtonTyped
<1>3. \A b \in Button : status'[b].update => debouncing' \/ "undone" \in flaws'[b]
  <2> SUFFICES ASSUME NEW b \in Button, status'[b].update, "undone" \notin flaws'[b]
               PROVE  debouncing'
    OBVIOUS
  <2>1. status[b].update /\ "undone" \notin flaws[b]
    BY StoreFacts DEF Flaw
  <2> QED BY <1>1, <2>1 DEF DebounceIsArmed
<1>4. ASSUME NEW b \in Button, ~status'[b].update, ~Raised(b)', status'[b].cur # level'[b]
      PROVE  flaws'[b] \cap {"bounced", "undone"} # {}
  <2>1. CASE "undone" \in flaws'[b]
    BY <2>1
  <2>2. CASE "undone" \notin flaws'[b]
    <3>1. ~status[b].update /\ status[b].cur # level[b] /\ ~Raised(b)
      BY <1>1, <1>4, <2>2, StoreFacts DEF Raised
    <3>2. flaws[b] \cap {"bounced", "undone"} # {}
      BY <3>1 DEF StatusIsLevel
    <3> QED BY <3>2, StoreFacts DEF Flaw
  <2> QED BY <2>1, <2>2
<1>5. ASSUME NEW b \in Button, flaws'[b] \cap {"undone", "early"} = {}
      PROVE  LastEdge(b)' = IF status'[b].update THEN ~status'[b].cur ELSE ~awaits'[b]
  <2>1. flaws[b] \cap {"undone", "early"} = {} /\ "undone" \notin flaws'[b]
    BY <1>5, StoreFacts DEF Flaw
  <2>2. LastEdge(b) = IF status[b].update THEN ~status[b].cur ELSE ~awaits[b]
    BY <2>1 DEF EdgesAlternate
  <2>3. status'[b].update = status[b].update /\ status'[b].cur = status[b].cur
    BY <2>1, StoreFacts
  <2>4. LastEdge(b)' = LastEdge(b)
    <3>1. CASE at = b
      <4>1. seen = status[b] /\ seen.report # "none"
        BY <1>1, <2>1, <3>1, StoreFacts DEF ReportIsNews
      <4>2. status'[b].report = "none" /\ reported'[b] = (seen.report = "raise")
        BY <3>1, StoreFacts
      <4>3. LastEdge(b)' = reported'[b] /\ LastEdge(b) = (status[b].report = "raise")
        BY <4>1, <4>2 DEF LastEdge
      <4> QED BY <4>1, <4>2, <4>3
    <3>2. CASE at # b
      BY <3>2, StoreFacts DEF LastEdge
    <3> QED BY <3>1, <3>2
  <2> QED BY <1>1, <2>2, <2>3, <2>4
<1>6. ReportIsNews'
  <2> SUFFICES ASSUME NEW b \in Button, status'[b].report # "none"
               PROVE  IsNews(b, status[b].report)'
    BY <1>1 DEF ReportIsNews
  <2>1. at # b
    BY StoreFacts
  <2>2. status'[b] = status[b] /\ flaws'[b] = flaws[b] /\ reported'[b] = reported[b]
    BY <2>1, StoreFacts
  <2> QED BY <2>2 DEF ReportIsNews, IsNews
<1> QED BY <1>2, <1>3, <1>4, <1>5, <1>6 DEF DebounceIsArmed, StatusIsLevel, EdgesAlternate

\* The steps of the PIR sensor, its part of a group's interrupt included.
PirStep == PirChange \/ PirTime \/ SetDeadTime \/ PirIsr \/ PirReport \/ PirFollow \/ PirRelease

\* The steps that are neither the debounce handler's nor the reporter's.
OtherStep == Contact \/ GroupInterrupt \/ ReportPir \/ FollowPir \/ ReleasePir \/ ReportError \/ BadRequest

LEMMA StepCases == Next => Debounce \/ ReporterStep \/ OtherStep
BY DEF Next, HardTimer, SoftTimer, ReportButtons, Buttons, OtherStep

\* What each step does to the variables of the buttons.
LEMMA OtherButtons ==
  OtherStep => UNCHANGED buttonVars \/ PinIsr \/ \E b \in Button : PinChange(b)
<1> SUFFICES ASSUME OtherStep
             PROVE  UNCHANGED buttonVars \/ PinIsr \/ \E b \in Button : PinChange(b)
  OBVIOUS
<1>1. CASE Contact
  <2>1. CASE \E b \in Wired : PinChange(b)
    <3>1. PICK b \in Wired : PinChange(b)
      BY <2>1
    <3>2. b \in Button
      BY <3>1 DEF Wired
    <3> QED BY <3>1, <3>2
  <2>2. CASE HasPir /\ Pir(PirChange \/ PirTime \/ SetDeadTime)
    BY <2>2 DEF Pir
  <2> QED BY <1>1, <2>1, <2>2 DEF Contact
<1>2. CASE GroupInterrupt
  BY <1>2 DEF GroupInterrupt, Buttons, Pir, ButtonInterrupt
<1>3. CASE ReportPir \/ FollowPir \/ ReleasePir \/ ReportError \/ BadRequest
  BY <1>3 DEF ReportPir, FollowPir, ReleasePir, ReportError, BadRequest, Pir
<1> QED BY <1>1, <1>2, <1>3 DEF OtherStep

\* Handlers are registered, and cancelled when they are in the table.
LEMMA OtherEvents ==
  ASSUME OtherStep, Fits(events)
  PROVE  Fits(events') /\ events'[Reporter] = events[Reporter]
<1> DEFINE H == {Report, Release, SendErr}
<1>1. H \subseteq Handler /\ Reporter \in Handler \ H
  BY ButtonAssumption, PirAssumption, SensorsAssumption, HandlersDiffer
<1>2. \/ events' = events
      \/ \E h \in H : events' = With(events, h)
      \/ \E h \in H : events[h] > 0 /\ events' = Without(events, h)
  <2>1. CASE Contact
    BY <2>1 DEF Contact, PinChange, Pir, PirChange, PirTime, SetDeadTime
  <2>2. CASE PirIsr
    BY <2>2 DEF PirIsr, TriggerOver, TriggerStart, Trigger, Ignore
  <2>3. CASE GroupInterrupt /\ ~PirIsr
    BY <2>3 DEF GroupInterrupt, Buttons, Pir, ButtonInterrupt, PirInterrupt
  <2>4. CASE ReportPir \/ FollowPir \/ ReleasePir
    BY <2>4 DEF ReportPir, FollowPir, ReleasePir, Pir, PirReport, PirFollow, PirRelease
  <2>5. CASE ReportError \/ BadRequest
    BY <2>5 DEF ReportError, BadRequest
  <2> QED BY <2>1, <2>2, <2>3, <2>4, <2>5 DEF OtherStep
<1>3. ASSUME NEW h \in H, events' = With(events, h)
      PROVE  Fits(events') /\ events'[Reporter] = events[Reporter]
  <2>1. h \in Handler /\ Reporter # h
    BY <1>1
  <2>2. events[Reporter] \in Nat
    BY <1>1 DEF Fits
  <2> HIDE DEF H
  <2>3. Fits(With(events, h)) /\ With(events, h)[Reporter] = events[Reporter] + 0
    BY <1>1, <2>1, WithFits
  <2> QED BY <1>3, <2>2, <2>3
<1>4. ASSUME NEW h \in H, events[h] > 0, events' = Without(events, h)
      PROVE  Fits(events') /\ events'[Reporter] = events[Reporter]
  <2>1. h \in Handler /\ Reporter # h
    BY <1>1
  <2>2. events[Reporter] \in Nat
    BY <1>1 DEF Fits
  <2> HIDE DEF H
  <2>3. Fits(Without(events, h)) /\ Without(events, h)[Reporter] = events[Reporter] - 0
    BY <1>1, <1>4, <2>1, WithoutFits
  <2> QED BY <1>4, <2>2, <2>3
<1> QED BY <1>2, <1>3, <1>4

LEMMA TypedBits == ButtonTyped => /\ \A b \in Button : flaws[b] \subseteq Flaw
                                  /\ Cardinality(Button) \in Nat
                                  /\ Button = 1 .. Cardinality(Button)
BY ButtonAssumption, FS_CardinalityType DEF ButtonTyped

LEMMA OtherTable ==
  ASSUME ButtonInv, Fits(events), TableInv, OtherStep
  PROVE  TableInv'
<1>1. UNCHANGED <<at, seen>> /\ events'[Reporter] = events[Reporter]
  BY OtherButtons, OtherEvents DEF buttonVars, PinIsr, PinChange
<1>2. ASSUME NEW b \in Button
      PROVE  /\ status'[b].report = status[b].report
             /\ flaws[b] \cap {"refused", "undone"} # {} => flaws'[b] \cap {"refused", "undone"} # {}
  <2>1. CASE PinIsr
    BY <2>1, PinIsrFacts DEF ButtonInv, Flaw
  <2>2. CASE UNCHANGED <<status, flaws>>
    BY <2>2
  <2> QED BY <2>1, <2>2, OtherButtons DEF buttonVars, PinChange
<1> QED BY <1>1, <1>2 DEF TableInv, ReporterIsListed, ReportIsPending

LEMMA DebounceTable ==
  ASSUME ButtonInv, Fits(events), TableInv, Debounce
  PROVE  /\ Fits(events') /\ TableInv'
         /\ events'[Report] = events[Report] /\ events'[Release] = events[Release]
<1> DEFINE edges == {b \in {x \in Button : IsDue(status[x])} : status[b].cur = level[b]}
           n == Cardinality(edges)
<1>1. n \in Nat /\ \A b \in Button : IsEdge(b) => n >= 1
  <2>1. IsFiniteSet(edges)
    BY ButtonAssumption, FS_Subset
  <2>2. ASSUME NEW b \in edges PROVE n >= 1
    BY <2>1, FS_EmptySet, FS_CardinalityType
  <2> QED BY <2>1, <2>2, FS_CardinalityType DEF IsEdge
<1>2. /\ events' = Reporters(events, n)
      /\ \A b \in Button : IsEdge(b) /\ Size(events) + n > Cap => "refused" \in flaws'[b]
  BY DEF Debounce, IsEdge
<1> HIDE DEF n
<1>3. /\ Fits(events') /\ events'[Reporter] >= events[Reporter]
      /\ \A x \in Handler \ {Reporter} : events'[x] = events[x]
      /\ Size(events) + n <= Cap => events'[Reporter] = events[Reporter] + n
  BY <1>1, <1>2, ReportersFit, ButtonAssumption
<1>4. events'[Reporter] \in Nat /\ events[Reporter] \in Nat /\ Size(events) \in Nat
  BY <1>3, FitsFacts, ButtonAssumption DEF Fits
<1>5. UNCHANGED <<at, seen>>
  BY DEF Debounce
<1>6. ReporterIsListed'
  BY <1>3, <1>4, <1>5 DEF TableInv, ReporterIsListed
<1>7. ReportIsPending'
  <2> SUFFICES ASSUME NEW b \in Button, status'[b].report # "none", at = b => seen = NoWord,
                      flaws'[b] \cap {"refused", "undone"} = {}
               PROVE  events'[Reporter] > IF at > b THEN 1 ELSE 0
    BY <1>5 DEF ReportIsPending
  <2>1. CASE IsEdge(b)
    <3>1. events'[Reporter] = events[Reporter] + n /\ n >= 1
      BY <1>1, <1>2, <1>3, <1>4, <2>1, SensorsAssumption
    <3>2. at > b => events[Reporter] > 0
      <4>1. b > 0
        BY TypedBits DEF ButtonInv
      <4>2. at \in Int /\ b \in Int
        BY TypedBits DEF ButtonInv, ButtonTyped, Idle
      <4> QED BY <4>1, <4>2 DEF TableInv, ReporterIsListed, Idle
    <3> QED BY <1>1, <1>4, <3>1, <3>2
  <2>2. CASE ~IsEdge(b)
    <3>1. status[b].report # "none" /\ flaws[b] \cap {"refused", "undone"} = {}
      BY <2>2, DebounceFacts DEF ButtonInv
    <3>2. events[Reporter] > IF at > b THEN 1 ELSE 0
      BY <3>1 DEF TableInv, ReportIsPending
    <3> QED BY <1>3, <1>4, <3>2
  <2> QED BY <2>1, <2>2
<1>8. Report \in Handler \ {Reporter} /\ Release \in Handler \ {Reporter}
  BY PirAssumption, HandlersDiffer
<1> QED BY <1>3, <1>6, <1>7, <1>8 DEF TableInv

LEMMA ReporterTable ==
  ASSUME ButtonInv, Fits(events), TableInv, ReporterStep
  PROVE  /\ Fits(events') /\ TableInv'
         /\ events'[Report] = events[Report] /\ events'[Release] = events[Release]
<1>0. Cardinality(Button) \in Nat /\ Button = 1 .. Cardinality(Button)
  BY ButtonAssumption, FS_CardinalityType
<1>a. at \in Int /\ at >= 0 /\ events[Reporter] \in Nat
  BY <1>0, ButtonAssumption DEF ButtonInv, ButtonTyped, Idle, Fits
<1>1. CASE ReporterBegin
  <2>1. /\ UNCHANGED <<events, status, seen, flaws>> /\ at = 0 /\ at' = 1
        /\ events[Reporter] > 0
    BY <1>1 DEF ReporterBegin, Idle
  <2>2. ReportIsPending'
    <3> SUFFICES ASSUME NEW b \in Button, status[b].report # "none",
                        flaws[b] \cap {"refused", "undone"} = {}
                 PROVE  events[Reporter] > IF 1 > b THEN 1 ELSE 0
      BY <2>1 DEF ReportIsPending
    <3> QED BY <1>0, <2>1
  <2> QED BY <2>1, <2>2 DEF TableInv, ReporterIsListed
<1>2. CASE ReporterSkip
  <2>1. /\ UNCHANGED <<events, status, seen, flaws>> /\ at \in Button /\ at' = at + 1
        /\ status[at].report = "none" /\ seen = NoWord
    BY <1>2 DEF ReporterSkip
  <2>2. ReporterIsListed'
    BY <1>0, <2>1 DEF TableInv, ReporterIsListed, Idle
  <2>3. ReportIsPending'
    <3> SUFFICES ASSUME NEW b \in Button, status[b].report # "none",
                        flaws[b] \cap {"refused", "undone"} = {}
                 PROVE  events[Reporter] > IF at + 1 > b THEN 1 ELSE 0
      BY <2>1 DEF ReportIsPending
    <3>1. events[Reporter] > IF at > b THEN 1 ELSE 0
      BY <2>1 DEF TableInv, ReportIsPending
    <3>2. at + 1 > b <=> at > b
      BY <1>0, <2>1
    <3> QED BY <3>1, <3>2
  <2> QED BY <2>1, <2>2, <2>3 DEF TableInv
<1>3. CASE ReporterLoad
  <2>1. /\ UNCHANGED <<events, status, at, flaws>> /\ seen' = status[at]
        /\ status[at].report # "none"
    BY <1>3 DEF ReporterLoad
  <2>2. seen' # NoWord
    BY <2>1, WordFields
  <2>3. ReportIsPending'
    <3> SUFFICES ASSUME NEW b \in Button, status[b].report # "none", at # b,
                        flaws[b] \cap {"refused", "undone"} = {}
                 PROVE  events[Reporter] > IF at > b THEN 1 ELSE 0
      BY <2>1, <2>2 DEF ReportIsPending
    <3> QED BY DEF TableInv, ReportIsPending
  <2> QED BY <2>1, <2>3 DEF TableInv, ReporterIsListed
<1>4. CASE ReporterStore
  <2>1. UNCHANGED events /\ at \in Button /\ at' = at + 1 /\ seen' = NoWord
    BY <1>4 DEF ReporterStore
  <2>2. ReporterIsListed'
    BY <1>0, <2>1 DEF TableInv, ReporterIsListed, Idle
  <2>3. ReportIsPending'
    <3> SUFFICES ASSUME NEW b \in Button, status'[b].report # "none",
                        flaws'[b] \cap {"refused", "undone"} = {}
                 PROVE  events[Reporter] > IF at + 1 > b THEN 1 ELSE 0
      BY <2>1 DEF ReportIsPending
    <3>1. at # b
      BY <1>4, StoreFacts DEF ButtonInv
    <3>2. status'[b] = status[b] /\ flaws'[b] = flaws[b]
      BY <1>4, <3>1, StoreFacts DEF ButtonInv
    <3>3. events[Reporter] > IF at > b THEN 1 ELSE 0
      BY <3>1, <3>2 DEF TableInv, ReportIsPending
    <3>4. at + 1 > b <=> at > b
      BY <1>0, <2>1, <3>1
    <3> QED BY <3>3, <3>4
  <2> QED BY <2>1, <2>2, <2>3 DEF TableInv
<1>5. CASE ReporterEnd
  <2>1. /\ UNCHANGED <<status, seen, flaws>>
        /\ at = Cardinality(Button) + 1 /\ at' = 0 /\ events' = Without(events, Reporter)
    BY <1>5 DEF ReporterEnd, Idle
  <2>2. events[Reporter] > 0
    BY <1>0, <2>1 DEF TableInv, ReporterIsListed, Idle
  <2>3. /\ Fits(Without(events, Reporter))
        /\ \A x \in Handler : Without(events, Reporter)[x] = events[x] - IF x = Reporter THEN 1 ELSE 0
    BY <2>2, WithoutFits, ButtonAssumption
  <2>4. /\ Fits(events') /\ events'[Reporter] = events[Reporter] - 1
        /\ \A x \in Handler \ {Reporter} : events'[x] = events[x] - 0
    BY <2>1, <2>3, ButtonAssumption
  <2>5. ReporterIsListed'
    BY <2>1 DEF ReporterIsListed, Idle
  <2>6. ReportIsPending'
    <3> SUFFICES ASSUME NEW b \in Button, status[b].report # "none",
                        flaws[b] \cap {"refused", "undone"} = {}
                 PROVE  events'[Reporter] > IF at' > b THEN 1 ELSE 0
      BY <2>1 DEF ReportIsPending
    <3>1. at # b /\ at > b /\ ~(at' > b)
      BY <1>0, <2>1
    <3>2. events[Reporter] > 1
      BY <3>1 DEF TableInv, ReportIsPending
    <3> QED BY <1>a, <2>4, <3>1, <3>2
  <2>7. /\ Report \in Handler \ {Reporter} /\ Release \in Handler \ {Reporter}
        /\ events[Report] \in Nat /\ events[Release] \in Nat
    BY PirAssumption, HandlersDiffer DEF Fits
  <2> QED BY <2>4, <2>5, <2>6, <2>7 DEF TableInv
<1> QED BY <1>1, <1>2, <1>3, <1>4, <1>5 DEF ReporterStep

-----------------------------------------------------------------------------
(* The PIR sensor.                                                         *)

\* A table with room or without: one handler more, or the same.
LEMMA PirWith ==
  ASSUME Fits(events), NEW h \in {Report, Release, SendErr}
  PROVE  LET e == With(events, h)
         IN  /\ e[Report] \in Nat /\ e[Release] \in Nat
             /\ events[Report] \in Nat /\ events[Release] \in Nat
             /\ \/ e[Report] = events[Report] /\ e[Release] = events[Release]
                \/ h = Report /\ e[Report] = events[Report] + 1 /\ e[Release] = events[Release]
                \/ h = Release /\ e[Release] = events[Release] + 1 /\ e[Report] = events[Report]
<1> DEFINE e == With(events, h)
<1>1. /\ h \in Handler /\ Report \in Handler /\ Release \in Handler
      /\ Report # Release /\ Report # SendErr /\ Release # SendErr
  BY PirAssumption, SensorsAssumption, HandlersDiffer
<1>2. Fits(e) /\ \A x \in Handler : e[x] = events[x] + IF x = h /\ HasRoom(events) THEN 1 ELSE 0
  BY <1>1, WithFits
<1>3. /\ e[Report] \in Nat /\ e[Release] \in Nat
      /\ events[Report] \in Nat /\ events[Release] \in Nat
  BY <1>1, <1>2 DEF Fits
<1> HIDE DEF e
<1>4. /\ e[Report] = events[Report] + IF Report = h /\ HasRoom(events) THEN 1 ELSE 0
      /\ e[Release] = events[Release] + IF Release = h /\ HasRoom(events) THEN 1 ELSE 0
  BY <1>1, <1>2
<1>5. \/ e[Report] = events[Report] /\ e[Release] = events[Release]
      \/ h = Report /\ e[Report] = events[Report] + 1 /\ e[Release] = events[Release]
      \/ h = Release /\ e[Release] = events[Release] + 1 /\ e[Report] = events[Report]
  BY <1>1, <1>3, <1>4
<1> QED BY <1>3, <1>5 DEF e

LEMMA PirWithout ==
  ASSUME Fits(events), NEW h \in {Report, Release, SendErr}, events[h] > 0
  PROVE  LET e == Without(events, h)
         IN  /\ e[Report] \in Nat /\ e[Release] \in Nat
             /\ events[Report] \in Nat /\ events[Release] \in Nat
             /\ e[Report] = IF h = Report THEN events[Report] - 1 ELSE events[Report]
             /\ e[Release] = IF h = Release THEN events[Release] - 1 ELSE events[Release]
<1> DEFINE e == Without(events, h)
<1>1. /\ h \in Handler /\ Report \in Handler /\ Release \in Handler
      /\ Report # Release /\ Report # SendErr /\ Release # SendErr
  BY PirAssumption, SensorsAssumption, HandlersDiffer
<1>2. Fits(e) /\ \A x \in Handler : e[x] = events[x] - IF x = h THEN 1 ELSE 0
  BY <1>1, WithoutFits
<1>3. /\ e[Report] \in Nat /\ e[Release] \in Nat
      /\ events[Report] \in Nat /\ events[Release] \in Nat
  BY <1>1, <1>2 DEF Fits
<1> HIDE DEF e
<1>4. /\ e[Report] = events[Report] - IF Report = h THEN 1 ELSE 0
      /\ e[Release] = events[Release] - IF Release = h THEN 1 ELSE 0
  BY <1>1, <1>2
<1> QED BY <1>1, <1>3, <1>4 DEF e

LEMMA PirTypes == PirInv /\ Next => PirTyped' /\ board' \in Boards /\ moves' \in 0 .. MaxMoves
<1> SUFFICES ASSUME PirInv, Next PROVE PirTyped' /\ board' \in Boards /\ moves' \in 0 .. MaxMoves
  OBVIOUS
<1>1. board' = board /\ (moves' = moves \/ (moves > 0 /\ moves' = moves - 1))
  BY DEF Next, Contact, GroupInterrupt, HardTimer, SoftTimer, BadRequest, ReportButtons, ReportPir,
         FollowPir, ReleasePir, ReportError, Buttons, Pir
<1>2. board' \in Boards /\ moves' \in 0 .. MaxMoves
  BY <1>1, SensorsAssumption DEF PirInv
<1>3. \/ UNCHANGED pirVars
      \/ PirChange \/ PirTime \/ SetDeadTime \/ PirIsr \/ PirReport \/ PirFollow \/ PirRelease
  BY DEF Next, Contact, GroupInterrupt, HardTimer, SoftTimer, BadRequest, ReportButtons, ReportPir,
         FollowPir, ReleasePir, ReportError, Buttons, Pir, PirInterrupt
<1>4. CASE UNCHANGED pirVars
  BY <1>2, <1>4 DEF PirInv, PirTyped, pirVars
<1>5. CASE PirChange \/ PirTime \/ SetDeadTime \/ PirReport \/ PirFollow \/ PirRelease
  BY <1>2, <1>5 DEF PirInv, PirTyped, PirChange, PirTime, SetDeadTime, PirReport, PirFollow, PirRelease
<1>6. CASE PirIsr
  BY <1>2, <1>6 DEF PirInv, PirTyped, PirIsr, TriggerOver, TriggerStart, Trigger, Ignore, pirVars
<1> QED BY <1>3, <1>4, <1>5, <1>6

\* Steps that leave the sensor's handlers in the table and its interrupt as they are.
LEMMA PirAtRest ==
  ASSUME PirInv, Next,
         events'[Report] = events[Report], events'[Release] = events[Release],
         following' = following, enabled' = enabled
  PROVE  PirInv'
<1>1. board' = board
  BY DEF Next, Contact, GroupInterrupt, HardTimer, SoftTimer, BadRequest, ReportButtons, ReportPir,
         FollowPir, ReleasePir, ReportError, Buttons, Pir
<1> QED BY <1>1, PirTypes DEF PirInv, PirDue

LEMMA PirKeeps ==
  ASSUME ButtonInv, Fits(events), TableInv, PirInv, Next
  PROVE  PirInv'
<1>0. /\ events[Report] \in Nat /\ events[Release] \in Nat
      /\ following \in BOOLEAN /\ following' \in BOOLEAN /\ enabled \in BOOLEAN
  BY PirAssumption, PirTypes DEF Fits, PirInv, PirTyped
<1>1. CASE HardTimer
  BY <1>1, DebounceTable, PirAtRest DEF HardTimer, Buttons, pirVars
<1>2. CASE ReportButtons
  BY <1>2, ReporterTable, PirAtRest DEF ReportButtons, Buttons, pirVars
<1>3. CASE Contact
  BY <1>3, PirAtRest DEF Contact, PinChange, Pir, PirChange, PirTime, SetDeadTime, pirVars
<1>4. CASE BadRequest
  <2>1. events' = With(events, SendErr) /\ UNCHANGED pirVars
    BY <1>4 DEF BadRequest
  <2>2. events'[Report] = events[Report] /\ events'[Release] = events[Release]
    BY <2>1, PirWith, HandlersDiffer
  <2> QED BY <2>1, <2>2, PirAtRest DEF pirVars
<1>5. CASE ReportError
  <2>1. events[SendErr] > 0 /\ events' = Without(events, SendErr) /\ UNCHANGED pirVars
    BY <1>5 DEF ReportError
  <2>2. events'[Report] = events[Report] /\ events'[Release] = events[Release]
    BY <2>1, PirWithout, HandlersDiffer
  <2> QED BY <2>1, <2>2, PirAtRest DEF pirVars
<1> DEFINE Kept == board = "pir" => PirDue = 0 \/ (PirDue = 1 /\ ~enabled)
<1>6. CASE GroupInterrupt
  <2>1. CASE board # "pir"
    <3>1. board' = board
      BY <1>6 DEF GroupInterrupt, Buttons, Pir
    <3> QED BY <2>1, <3>1, PirTypes DEF PirInv
  <2>2. CASE board = "pir"
    <3>1. PirIsr /\ enabled /\ board' = "pir"
      BY <1>6, <2>2 DEF GroupInterrupt, Pir, PirInterrupt
    <3>2. PirDue = 0 /\ following' = following
      BY <2>2, <3>1 DEF PirInv, PirIsr, pirVars
    <3>3. CASE UNCHANGED <<events, enabled>>
      BY <3>2, <3>3, PirAtRest
    <3>4. CASE Trigger
      <4>1. events' = With(events, Report) /\ enabled' = FALSE
        BY <3>4 DEF Trigger
      <4> DEFINE e == With(events, Report)
      <4>2. /\ e[Report] \in Nat /\ e[Release] \in Nat
            /\ \/ e[Report] = events[Report] /\ e[Release] = events[Release]
               \/ e[Report] = events[Report] + 1 /\ e[Release] = events[Release]
        BY PirWith, HandlersDiffer
      <4> HIDE DEF e
      <4>3. PirDue' = e[Report] + e[Release] + (IF following' THEN 1 ELSE 0)
        BY <4>1 DEF PirDue, e
      <4>4. events[Report] = 0 /\ events[Release] = 0 /\ ~following
        BY <1>0, <3>2 DEF PirDue
      <4>5. PirDue' = 0 \/ PirDue' = 1
        BY <3>2, <4>2, <4>3, <4>4
      <4> QED BY <4>1, <4>5, PirTypes DEF PirInv
    <3>5. Trigger \/ Ignore
      BY <2>2, <1>6, <3>1 DEF GroupInterrupt, Pir, PirInterrupt, PirIsr, TriggerOver, TriggerStart
    <3> QED BY <3>3, <3>4, <3>5 DEF Ignore
  <2> QED BY <2>1, <2>2
<1>7. CASE ReportPir
  <2>1. /\ ~following /\ events[Report] > 0 /\ events' = Without(events, Report)
        /\ following' = TRUE /\ enabled' = enabled /\ board' = board
    BY <1>7 DEF ReportPir, Pir, PirReport
  <2>2. events'[Report] = events[Report] - 1 /\ events'[Release] = events[Release]
    BY <2>1, PirWithout, HandlersDiffer
  <2>3. PirDue' = PirDue
    BY <1>0, <2>1, <2>2 DEF PirDue
  <2> QED BY <2>1, <2>3, PirTypes DEF PirInv
<1>8. CASE FollowPir
  <2>1. following /\ ~following' /\ board' = board
    BY <1>8 DEF FollowPir, Pir, PirFollow
  <2>2. board = "pir" => events[Report] = 0 /\ events[Release] = 0
    BY <1>0, <2>1 DEF PirInv, PirDue
  <2>3. CASE UNCHANGED events
    <3>1. board = "pir" => PirDue' = 0
      BY <2>1, <2>2, <2>3 DEF PirDue
    <3> QED BY <2>1, <3>1, PirTypes DEF PirInv
  <2>4. CASE events' = With(events, Release) /\ enabled' = enabled
    <3>1. /\ events'[Report] = events[Report]
          /\ events'[Release] = events[Release] \/ events'[Release] = events[Release] + 1
      BY <2>4, PirWith, HandlersDiffer
    <3>2. board = "pir" => PirDue' = 0 \/ PirDue' = 1
      BY <2>1, <2>2, <3>1 DEF PirDue
    <3>3. board = "pir" => ~enabled
      BY <1>0, <2>1 DEF PirInv, PirDue
    <3> QED BY <2>1, <2>4, <3>2, <3>3, PirTypes DEF PirInv
  <2> QED BY <1>8, <2>3, <2>4 DEF FollowPir, Pir, PirFollow
<1>9. CASE ReleasePir
  <2>1. /\ ~following /\ events[Release] > 0 /\ events' = Without(events, Release)
        /\ following' = following /\ board' = board
    BY <1>9 DEF ReleasePir, Pir, PirRelease
  <2>2. events'[Report] = events[Report] /\ events'[Release] = events[Release] - 1
    BY <2>1, PirWithout, HandlersDiffer
  <2>3. board = "pir" => PirDue' = 0
    BY <1>0, <2>1, <2>2 DEF PirInv, PirDue
  <2> QED BY <2>1, <2>3, PirTypes DEF PirInv
<1> QED BY <1>1, <1>2, <1>3, <1>4, <1>5, <1>6, <1>7, <1>8, <1>9 DEF Next, SoftTimer

-----------------------------------------------------------------------------
(* The theorems.                                                           *)

\* What every reachable state satisfies.
IInv == ButtonInv /\ Fits(events) /\ TableInv /\ PirInv

LEMMA InitKeeps == Init => IInv
<1> SUFFICES ASSUME Init PROVE IInv
  OBVIOUS
<1> USE DEF Init
<1>0. Cardinality(Button) \in Nat /\ Button = 1 .. Cardinality(Button)
  BY ButtonAssumption, FS_CardinalityType
<1>1. ButtonTyped
  <2>1. /\ level \in [Button -> BOOLEAN] /\ awaits \in [Button -> BOOLEAN]
        /\ reported \in [Button -> BOOLEAN] /\ debouncing \in BOOLEAN
        /\ flaws \in [Button -> SUBSET Flaw]
    BY DEF ButtonInit
  <2>2. status \in [Button -> Word] /\ seen \in Word
    BY WordFields DEF ButtonInit
  <2>3. at \in Idle .. Cardinality(Button) + 1
    BY <1>0 DEF ButtonInit, Idle
  <2> QED BY <2>1, <2>2, <2>3 DEF ButtonTyped
<1>2. DebounceIsArmed /\ StatusIsLevel /\ EdgesAlternate /\ ReportIsNews
  <2>1. \A b \in Button : /\ status[b] = NoWord /\ level[b] = TRUE /\ awaits[b] = FALSE
                          /\ reported[b] = TRUE
    BY DEF ButtonInit
  <2>2. \A b \in Button : LastEdge(b) = TRUE
    BY <2>1, WordFields DEF LastEdge
  <2>3. seen = NoWord
    BY DEF ButtonInit
  <2>4. \A b \in Button : ~status[b].update /\ status[b].report = "none"
    BY <2>1, WordFields
  <2>5. EdgesAlternate
    BY <2>1, <2>2, <2>4 DEF EdgesAlternate
  <2>6. StatusIsLevel
    BY <2>1, WordFields DEF StatusIsLevel
  <2> QED BY <2>3, <2>4, <2>5, <2>6 DEF DebounceIsArmed, ReportIsNews
<1>3. Fits(events)
  BY NoneFit DEF TableInit
<1>4. TableInv
  <2>1. at = Idle /\ \A b \in Button : status[b].report = "none"
    BY WordFields DEF ButtonInit
  <2> QED BY <2>1 DEF TableInv, ReporterIsListed, ReportIsPending
<1>5. PirInv
  <2>1. events[Report] = 0 /\ events[Release] = 0 /\ ~following
    BY PirAssumption DEF TableInit, PirInit
  <2>2. PirDue = 0
    BY <2>1 DEF PirDue
  <2>3. PirTyped
    BY DEF PirTyped, PirInit
  <2>4. board \in Boards /\ moves \in 0 .. MaxMoves
    BY SensorsAssumption
  <2> QED BY <2>2, <2>3, <2>4 DEF PirInv
<1> QED BY <1>1, <1>2, <1>3, <1>4, <1>5 DEF IInv, ButtonInv

LEMMA NextKeeps == IInv /\ [Next]_vars => IInv'
<1> SUFFICES ASSUME IInv, [Next]_vars PROVE IInv'
  OBVIOUS
<1>1. CASE UNCHANGED vars
  <2>1. ButtonInv'
    BY <1>1, ButtonAtRest DEF IInv, vars
  <2>2. Fits(events')
    BY <1>1 DEF IInv, vars
  <2>3. TableInv'
    BY <1>1 DEF IInv, vars, buttonVars, TableInv, ReporterIsListed, ReportIsPending
  <2>4. PirInv'
    BY <1>1 DEF IInv, vars, pirVars, PirInv, PirTyped, PirDue
  <2> QED BY <2>1, <2>2, <2>3, <2>4 DEF IInv
<1>2. CASE Next
  <2>1. PirInv'
    BY <1>2, PirKeeps DEF IInv
  <2>2. CASE Debounce
    BY <2>1, <2>2, DebounceKeeps, DebounceTable DEF IInv
  <2>3. CASE ReporterStep
    <3>1. ButtonInv'
      BY <2>3, ReporterMoves, StoreKeeps DEF IInv, ReporterStep
    <3> QED BY <2>1, <2>3, <3>1, ReporterTable DEF IInv
  <2>4. CASE OtherStep
    <3>1. ButtonInv'
      BY <2>4, OtherButtons, ButtonAtRest, PinIsrKeeps, PinChangeKeeps DEF IInv
    <3> QED BY <2>1, <2>4, <3>1, OtherEvents, OtherTable DEF IInv
  <2> QED BY <1>2, <2>2, <2>3, <2>4, StepCases
<1> QED BY <1>1, <1>2

LEMMA Invariance == Spec => []IInv
<1> QED BY InitKeeps, NextKeeps, PTL DEF Spec

\* Every variable of the two sensors and of the board keeps its type, and the handlers in
\* the kernel timer's table never exceed its slots (PeriodEvent.c's DC_HAL_PE_UNINTCap).
THEOREM SensorsAreTyped == Spec => []TypeOK
<1>1. IInv => TypeOK
  <2> SUFFICES ASSUME IInv PROVE TypeOK
    OBVIOUS
  <2>1. events \in Bags /\ Size(events) <= Cap
    BY FitsFacts DEF IInv
  <2>2. ButtonTyped /\ PirTyped /\ board \in Boards /\ moves \in 0 .. MaxMoves
    BY DEF IInv, ButtonInv, PirInv
  <2> QED BY <2>1, <2>2 DEF TypeOK, ButtonTyped, PirTyped
<1> QED BY <1>1, Invariance, PTL

\* While an edge waits to be judged the debounce handler is in its table, or the reporter
\* undid a write of the interrupt (Button.c:345-371, 627-651).
THEOREM DebounceStaysArmed == Spec => []DebounceIsArmed
<1>1. IInv => DebounceIsArmed
  BY DEF IInv, ButtonInv
<1> QED BY <1>1, Invariance, PTL

\* A status request finds every settled button where it is, unless an edge was taken back
\* or a write undone (sfdefBut_GetStatus).
THEOREM StatusStaysLevel == Spec => []StatusIsLevel
<1>1. IInv => StatusIsLevel
  BY DEF IInv, ButtonInv
<1> QED BY <1>1, Invariance, PTL

\* An edge that was judged has a reporter in the table that has not passed its button,
\* however the interrupts and the reporters interleave (Button.c:579, 627-651).
THEOREM ReportStaysPending == Spec => []ReportIsPending
<1>1. IInv => ReportIsPending
  BY DEF IInv, TableInv
<1> QED BY <1>1, Invariance, PTL

\* A button at rest was last reported where it rests, unless its word was undone or an edge
\* judged too early: the edges that are judged alternate as the pin's own do.
THEOREM RestStaysReported == Spec => []RestIsReported
<1>1. IInv => RestIsReported
  <2> SUFFICES ASSUME IInv, NEW b \in Button, ~Raised(b), ~status[b].update,
                      status[b].report = "none", flaws[b] \cap {"undone", "early"} = {}
               PROVE  reported[b] = level[b]
    BY DEF RestIsReported
  <2>1. LastEdge(b) = ~awaits[b]
    BY DEF IInv, ButtonInv, EdgesAlternate
  <2>2. LastEdge(b) = reported[b]
    BY DEF LastEdge
  <2>3. level[b] \in BOOLEAN /\ awaits[b] \in BOOLEAN
    BY DEF IInv, ButtonInv, ButtonTyped
  <2> QED BY <2>1, <2>2, <2>3 DEF Raised
<1> QED BY <1>1, Invariance, PTL

\* A PIR sensor with a group of pins to itself has at most one report or release under way,
\* and is disabled while it has (PIR.c:272-341).
THEOREM DeadTimeStaysKept == Spec => []DeadTimeIsKept
<1>1. IInv => DeadTimeIsKept
  <2> SUFFICES ASSUME IInv, board = "pir", events[Report] + events[Release] > 0 \/ following
               PROVE  ~enabled /\ PirDue = 1
    BY DEF DeadTimeIsKept, PirDue
  <2>1. events[Report] \in Nat /\ events[Release] \in Nat
    BY PirAssumption DEF IInv, Fits
  <2>2. PirDue # 0
    BY <2>1 DEF PirDue
  <2> QED BY <2>2 DEF IInv, PirInv
<1> QED BY <1>1, Invariance, PTL

\* No report of a button is repeated, unless an edge between two was replaced before its
\* report, judged too early, or undone (sfBut_Reporter).
THEOREM ReportsKeepAlternating == Spec => ReportsAlternate
<1> DEFINE A == \A b \in Button :
                  at = b /\ seen # NoWord /\ at' # b
                  => reported'[b] # reported[b] \/ flaws[b] \cap {"undone", "early", "replaced"} # {}
<1>1. IInv /\ [Next]_vars => [A]_vars
  <2> SUFFICES ASSUME IInv, Next, NEW b \in Button, at = b, seen # NoWord, at' # b,
                      flaws[b] \cap {"undone", "early", "replaced"} = {}
               PROVE  reported'[b] # reported[b]
    OBVIOUS
  <2>1. ReporterStore
    <3>1. ~OtherStep /\ ~Debounce
      BY OtherButtons DEF buttonVars, PinIsr, PinChange, Debounce
    <3>2. ReporterStep
      BY <3>1, StepCases
    <3>3. ~ReporterEnd
      BY ButtonAssumption, FS_CardinalityType DEF ReporterEnd
    <3> QED BY <3>2, <3>3, ButtonAssumption, FS_CardinalityType
            DEF ReporterStep, ReporterBegin, ReporterSkip, ReporterLoad, Idle
  <2>2. seen.report = Edge(~reported[b]) /\ reported[b] \in BOOLEAN
    BY DEF IInv, ButtonInv, ReportIsNews, IsNews, ButtonTyped
  <2>3. reported'[b] = (seen.report = "raise")
    BY <2>1, StoreFacts DEF IInv, ButtonInv
  <2> QED BY <2>2, <2>3 DEF Edge
<1> QED BY <1>1, Invariance, PTL DEF Spec, ReportsAlternate
=============================================================================
