------------------------- MODULE PeriodEvent_proofs -------------------------
(***************************************************************************)
(* Proofs about the event scheduler, for any handlers, table size and      *)
(* periods: its scan never calls a NULL handler; a handler that was        *)
(* registered stays in its table; and the two tables implement the bags of *)
(* handlers that the driver's other modules rely on (EventTable).          *)
(***************************************************************************)
EXTENDS PeriodEventTable, FiniteSetsExt, FiniteSetTheorems, TLAPS
-----------------------------------------------------------------------------
(* The sum of a function over a finite set, as MapThenSumSet computes it.  That fold picks the *)
(* elements in an order nobody knows, so what is shown is: a function that is additive on the  *)
(* subsets of a finite set gives the sum of the whole set.  The uniqueness behind it takes an  *)
(* induction, by a smallest counterexample (WFMin).                                            *)

\* g gives the sum of e over every subset of S.
IsSum(g, e, S) ==
    /\ g = [s \in SUBSET S |-> g[s]]
    /\ g[{}] = 0
    /\ \A s \in SUBSET S : \A x \in s : g[s] = e[x] + g[s \ {x}]

\* The equation of the recursive function inside the fold.
Eqn(iter, e, S) ==
    iter = [s \in SUBSET S |->
              IF s = {} THEN 0
              ELSE LET x == CHOOSE x \in s : TRUE IN e[x] + iter[s \ {x}]]

\* The fold is a function chosen among those that satisfy the equation.
LEMMA SumIsIter ==
  ASSUME NEW S, NEW e
  PROVE  MapThenSumSet(LAMBDA x : e[x], S) = (CHOOSE iter : Eqn(iter, e, S))[S]
  BY Zenon DEF MapThenSumSet, MapThenFoldSet, Eqn

\* An additive function does, whichever element is picked ...
LEMMA SumEqn ==
  ASSUME NEW S, NEW e, NEW g, IsSum(g, e, S)
  PROVE  Eqn(g, e, S)
<1>1. ASSUME NEW s \in SUBSET S
      PROVE  g[s] = IF s = {} THEN 0 ELSE LET x == CHOOSE x \in s : TRUE IN e[x] + g[s \ {x}]
  BY DEF IsSum
<1> QED BY <1>1 DEF IsSum, Eqn

\* ... and on a finite set no other function does.
LEMMA EqnIsUnique ==
  ASSUME NEW S, NEW e, NEW f, NEW g, IsFiniteSet(S), Eqn(f, e, S), Eqn(g, e, S)
  PROVE  f[S] = g[S]
<1> DEFINE bad == {s \in SUBSET S : f[s] # g[s]}
<1>1. bad = {}
  <2> SUFFICES ASSUME bad # {} PROVE FALSE
    OBVIOUS
  <2>1. bad \subseteq FiniteSubsetsOf(S)
    BY FS_FiniteSubsetsOfFinite
  <2>2. PICK s \in bad : \A t \in bad : <<t, s>> \notin StrictSubsetOrdering(S)
    BY <2>1, FS_StrictSubsetOrderingWellFounded, WFMin, Zenon
  <2>3. CASE s = {}
    BY <2>2, <2>3 DEF Eqn
  <2>4. CASE s # {}
    <3> DEFINE x == CHOOSE x \in s : TRUE
    <3>1. x \in s
      BY <2>4
    <3>2. f[s] = e[x] + f[s \ {x}] /\ g[s] = e[x] + g[s \ {x}]
      BY <2>4 DEF Eqn
    <3>3. s \ {x} \notin bad
      <4> DEFINE t == s \ {x}
      <4>1. t \in SUBSET S /\ s \in SUBSET S /\ t \subseteq s /\ t # s
        BY <3>1
      <4> HIDE DEF x, t, bad
      <4>2. <<t, s>> \in StrictSubsetOrdering(S)
        BY <4>1 DEF StrictSubsetOrdering
      <4> QED BY <2>2, <4>2 DEF t
    <3> QED BY <3>2, <3>3
  <2> QED BY <2>3, <2>4
<1> QED BY <1>1

\* So an additive function gives the sum.
LEMMA SumIsValue ==
  ASSUME NEW S, NEW e, NEW g, IsFiniteSet(S), IsSum(g, e, S)
  PROVE  MapThenSumSet(LAMBDA x : e[x], S) = g[S]
<1> DEFINE f == CHOOSE iter : Eqn(iter, e, S)
<1>1. Eqn(g, e, S)
  BY SumEqn
<1>2. Eqn(f, e, S)
  BY <1>1, Zenon
<1> HIDE DEF f
<1>3. f[S] = g[S]
  BY <1>1, <1>2, EqnIsUnique
<1> QED BY <1>3, SumIsIter DEF f
-----------------------------------------------------------------------------

Tables == [Mode -> [Slot -> Entry]]

\* A handler is only ever registered in its own table ...
HomeInv == \A m \in Mode, k \in Slot :
              table[m][k].handler # NoHandler => Home[table[m][k].handler] = m

\* ... and a handler the kernel timer runs is where the code of its body says.
BodyInv == /\ stage # "check" => SoftBusy
           /\ stage = "cancel" => running \in OneShot
           /\ stage = "register" => CanFollow(running)
           /\ call["soft"] # NoCall => stage \in {"register", "return"}

IInv == TypeOK /\ HomeInv /\ BodyInv /\ CallIsSafe

\* A one-shot handler that cancels itself changes its own table only, to free slots.
LEMMA CancelledFacts ==
    ASSUME NEW t \in Tables, NEW h \in Handler
    PROVE  /\ Cancelled(t, h) \in Tables
           /\ \A m \in Mode, k \in Slot :
                 /\ Cancelled(t, h)[m][k] \in {t[m][k], Free}
                 /\ m # Home[h] => Cancelled(t, h)[m][k] = t[m][k]
<1> USE HandlerAssumption
<1>1. Free \in Entry
  BY PeriodAssumption DEF Free, Entry
<1>2. Home[h] \in Mode
  OBVIOUS
<1> QED
  BY <1>1, <1>2 DEF Cancelled, Tables

\* Registering a handler changes free slots of its own table only, and makes them its.
LEMMA RegisteredFacts ==
    ASSUME NEW t \in Tables, NEW h \in Handler, NEW p \in Period
    PROVE  /\ Registered(t, h, p) \in Tables
           /\ \A m \in Mode, k \in Slot :
                 \/ Registered(t, h, p)[m][k] = t[m][k]
                 \/ /\ t[m][k].handler = NoHandler
                    /\ Registered(t, h, p)[m][k] = Written(h, p)
                    /\ m = Home[h]
<1> USE HandlerAssumption
<1>1. Written(h, p) \in Entry
  BY PeriodAssumption DEF Written, Entry, Period
<1>2. Home[h] \in Mode
  OBVIOUS
<1> QED
  BY <1>1, <1>2 DEF Registered, Tables, IsLowest, FreeSlots

\* What a handler of the INT table does to the tables: the UNINT table loses nothing.
LEMMA AfterBodyFacts ==
    ASSUME TypeOK, HomeInv, NEW h \in Handler, Home[h] = "INT",
           NEW ends \in BOOLEAN, NEW follows \in BOOLEAN, follows => CanFollow(h), NEW p \in Period
    PROVE  /\ AfterBody(h, ends, follows, p) \in Tables
           /\ \A m \in Mode, k \in Slot :
                 LET g == AfterBody(h, ends, follows, p)[m][k].handler
                 IN  /\ g # NoHandler => Home[g] = m
                     /\ m = "UNINT" /\ g = NoHandler => table[m][k].handler = NoHandler
<1> DEFINE c == AfterCancel(h, ends)
<1>1. /\ c \in Tables
      /\ \A m \in Mode, k \in Slot :
            /\ c[m][k] \in {table[m][k], Free}
            /\ m = "UNINT" => c[m][k] = table[m][k]
  BY CancelledFacts DEF AfterCancel, TypeOK, Tables, Mode
<1>2. \A m \in Mode, k \in Slot : c[m][k].handler # NoHandler => Home[c[m][k].handler] = m
  BY <1>1 DEF HomeInv, Free
<1>3. CASE ~follows
  BY <1>1, <1>2, <1>3 DEF AfterBody
<1>4. CASE follows
  <2>1. Follow[h] \in Handler
    BY <1>4, HandlerAssumption DEF CanFollow
  <2>2. AfterBody(h, ends, follows, p) = Registered(c, Follow[h], p)
    BY <1>4 DEF AfterBody
  <2> HIDE DEF c
  <2>3. /\ Registered(c, Follow[h], p) \in Tables
        /\ \A m \in Mode, k \in Slot :
              \/ Registered(c, Follow[h], p)[m][k] = c[m][k]
              \/ /\ Registered(c, Follow[h], p)[m][k] = Written(Follow[h], p)
                 /\ m = Home[Follow[h]]
    BY <1>1, <2>1, RegisteredFacts
  <2>4. Written(Follow[h], p).handler = Follow[h] /\ Follow[h] # NoHandler
    BY <2>1, HandlerAssumption DEF Written
  <2> QED
    BY <1>1, <1>2, <2>2, <2>3, <2>4
<1> QED
  BY <1>3, <1>4

LEMMA InitHolds == Init => IInv
<1> SUFFICES ASSUME Init PROVE IInv
  OBVIOUS
<1> USE CapAssumption, PeriodAssumption, HandlerAssumption
<1>1. TypeOK
  BY DEF Init, TypeOK, Entry, Free, Mode, Slot, Idle, Context, NoCall
<1>2. HomeInv
  BY DEF Init, HomeInv, Free
<1>3. BodyInv /\ CallIsSafe
  <2>1. call["soft"] = NoCall /\ stage = "check"
    BY DEF Init, Context
  <2> QED
    BY <2>1 DEF BodyInv, CallIsSafe
<1> QED
  BY <1>1, <1>2, <1>3 DEF IInv

\* The search for a slot, in whichever context, gives a well-formed call.
LEMMA FindType ==
    ASSUME TypeOK, NEW c \in Context, NEW h \in Handler
    PROVE  /\ \A p \in Period : FindFree(c, h, p) => call' \in [Context -> Calls \cup {NoCall}]
           /\ FindHolder(c, h) => call' \in [Context -> Calls \cup {NoCall}]
<1>1. ASSUME NEW p \in Period, FindFree(c, h, p)
      PROVE  call' \in [Context -> Calls \cup {NoCall}]
  <2>1. PICK k \in Slot : call' = [call EXCEPT ![c] =
              [kind |-> "register", handler |-> h, period |-> p, slot |-> k]]
    BY <1>1 DEF FindFree
  <2>2. [kind |-> "register", handler |-> h, period |-> p, slot |-> k] \in Calls
    BY DEF Calls
  <2> QED
    BY <2>1, <2>2 DEF TypeOK
<1>2. ASSUME FindHolder(c, h)
      PROVE  call' \in [Context -> Calls \cup {NoCall}]
  <2>1. PICK k \in Slot : call' = [call EXCEPT ![c] = [kind |-> "cancel", handler |-> h, slot |-> k]]
    BY <1>2 DEF FindHolder
  <2>2. [kind |-> "cancel", handler |-> h, slot |-> k] \in Calls
    BY DEF Calls
  <2> QED
    BY <2>1, <2>2 DEF TypeOK
<1> QED
  BY <1>1, <1>2

\* A store to a slot's period or count keeps the table well-formed, and every handler.
LEMMA FieldFacts ==
    ASSUME NEW t \in Tables, NEW m \in Mode, NEW k \in Slot, NEW p \in 0 .. MaxPeriod, NEW u,
           u = [t EXCEPT ![m][k].period = p] \/ u = [t EXCEPT ![m][k].count = 0]
    PROVE  /\ u \in Tables
           /\ \A n \in Mode, j \in Slot : u[n][j].handler = t[n][j].handler
<1>1. t[m][k] \in Entry
  BY DEF Tables
<1>2. /\ [t[m][k] EXCEPT !.period = p] \in Entry /\ [t[m][k] EXCEPT !.count = 0] \in Entry
      /\ [t[m][k] EXCEPT !.period = p].handler = t[m][k].handler
      /\ [t[m][k] EXCEPT !.count = 0].handler = t[m][k].handler
  BY <1>1 DEF Entry
<1>3. CASE u = [t EXCEPT ![m][k].period = p]
  BY <1>2, <1>3 DEF Tables
<1>4. CASE u = [t EXCEPT ![m][k].count = 0]
  BY <1>2, <1>4 DEF Tables
<1> QED BY <1>3, <1>4

\* What a call knows, and that its next store leaves a well-formed call.
LEMMA CallFacts ==
    ASSUME TypeOK, NEW c \in Context, call[c].kind # "none"
    PROVE  /\ call[c] \in Calls
           /\ call[c].handler \in Handler /\ call[c].slot \in Slot /\ Home[call[c].handler] \in Mode
           /\ call[c].kind \in {"register", "count", "handler"} =>
                 /\ call[c].period \in Period
                 /\ \A x \in {"count", "handler"} : [call[c] EXCEPT !.kind = x] \in Calls
           /\ call[c].kind \in {"cancel", "period", "reset"} =>
                 \A x \in {"period", "reset"} : [call[c] EXCEPT !.kind = x] \in Calls
<1>1. call[c] \in Calls
  BY DEF TypeOK, NoCall
<1>2. CASE call[c] \in [kind : {"register", "count", "handler"}, handler : Handler, period : Period, slot : Slot]
  BY <1>1, <1>2, HandlerAssumption DEF Calls
<1>3. CASE call[c] \in [kind : {"cancel", "period", "reset"}, handler : Handler, slot : Slot]
  BY <1>1, <1>3, HandlerAssumption DEF Calls
<1> QED
  BY <1>1, <1>2, <1>3 DEF Calls

LEMMA PeriodRange == 0 \in 0 .. MaxPeriod /\ Period \subseteq 0 .. MaxPeriod
  BY PeriodAssumption DEF Period

\* The stores of a register or cancel call keep the tables well-formed.
LEMMA CommitFacts ==
    ASSUME TypeOK, HomeInv, NEW c \in Context, CallStore(c)
    PROVE  /\ table' \in Tables
           /\ HomeInv'
           /\ call' \in [Context -> Calls \cup {NoCall}]
           /\ \A d \in Context \ {c} : call'[d] = call[d]
           /\ raced' \subseteq Handler
           /\ armed' \subseteq Handler
           /\ call[c] # NoCall
<1> USE HandlerAssumption
<1> DEFINE h == call[c].handler
           k == call[c].slot
           m == Home[h]
<1>1. call[c].kind # "none" /\ call[c] # NoCall
  <2>1. call[c].kind \in {"register", "count", "handler", "cancel", "period", "reset"}
    <3>1. CASE RegisterPeriod(c)
      BY <3>1 DEF RegisterPeriod
    <3>2. CASE RegisterCount(c)
      BY <3>2 DEF RegisterCount
    <3>3. CASE RegisterCommit(c)
      BY <3>3 DEF RegisterCommit
    <3>4. CASE CancelCommit(c)
      BY <3>4 DEF CancelCommit
    <3>5. CASE CancelPeriod(c)
      BY <3>5 DEF CancelPeriod
    <3>6. CASE CancelCount(c)
      BY <3>6 DEF CancelCount
    <3> QED BY <3>1, <3>2, <3>3, <3>4, <3>5, <3>6, Zenon DEF CallStore
  <2> QED BY <2>1 DEF NoCall
<1>2. h \in Handler /\ k \in Slot /\ m \in Mode /\ table \in Tables
  BY <1>1, CallFacts DEF TypeOK, Tables
<1>3. table[m][k].handler \in Handler \cup {NoHandler}
  BY <1>2 DEF Tables, Entry
<1>4. \/ RegisterPeriod(c) \/ RegisterCount(c) \/ RegisterCommit(c)
      \/ CancelCommit(c) \/ CancelPeriod(c) \/ CancelCount(c)
  BY DEF CallStore
<1>5. \/ call' = [call EXCEPT ![c] = NoCall]
      \/ \E x \in {"count", "handler", "period", "reset"} :
            call' = [call EXCEPT ![c].kind = x] /\ [call[c] EXCEPT !.kind = x] \in Calls
  <2>1. CASE RegisterPeriod(c)
    <3>1. call' = [call EXCEPT ![c].kind = "count"] /\ [call[c] EXCEPT !.kind = "count"] \in Calls
      BY <1>1, <2>1, CallFacts DEF RegisterPeriod
    <3> QED BY <3>1
  <2>2. CASE RegisterCount(c)
    <3>1. call' = [call EXCEPT ![c].kind = "handler"] /\ [call[c] EXCEPT !.kind = "handler"] \in Calls
      BY <1>1, <2>2, CallFacts DEF RegisterCount
    <3> QED BY <3>1
  <2>3. CASE CancelCommit(c)
    <3>1. call' = [call EXCEPT ![c].kind = "period"] /\ [call[c] EXCEPT !.kind = "period"] \in Calls
      BY <1>1, <2>3, CallFacts DEF CancelCommit
    <3> QED BY <3>1
  <2>4. CASE CancelPeriod(c)
    <3>1. call' = [call EXCEPT ![c].kind = "reset"] /\ [call[c] EXCEPT !.kind = "reset"] \in Calls
      BY <1>1, <2>4, CallFacts DEF CancelPeriod
    <3> QED BY <3>1
  <2> QED
    BY <1>4, <2>1, <2>2, <2>3, <2>4 DEF RegisterCommit, CancelCount
<1>6. /\ call' \in [Context -> Calls \cup {NoCall}]
      /\ \A d \in Context \ {c} : call'[d] = call[d]
  BY <1>5 DEF TypeOK
<1>7. CASE RegisterCommit(c) \/ CancelCommit(c)
  <2>1. PICK g \in {h, NoHandler} : table' = [table EXCEPT ![m][k].handler = g]
    BY <1>7 DEF RegisterCommit, CancelCommit
  <2>2. raced' \subseteq Handler /\ armed' \subseteq Handler
    BY <1>2, <1>3, <1>7 DEF RegisterCommit, CancelCommit, TypeOK
  <2> HIDE DEF h, k, m
  <2>3. /\ table' \in Tables
        /\ \A n \in Mode, j \in Slot :
              table'[n][j].handler = IF n = m /\ j = k THEN g ELSE table[n][j].handler
    <3>1. g \in Handler \cup {NoHandler}
      BY <1>2, <2>1
    <3>2. table[m][k] \in Entry
      BY <1>2 DEF Tables
    <3>3. /\ [table[m][k] EXCEPT !.handler = g] \in Entry
          /\ [table[m][k] EXCEPT !.handler = g].handler = g
      BY <3>1, <3>2 DEF Entry
    <3> QED BY <1>2, <2>1, <3>3 DEF Tables
  <2>4. HomeInv'
    BY <1>2, <2>3 DEF HomeInv, m
  <2> QED BY <1>1, <1>6, <2>2, <2>3, <2>4
<1>8. CASE RegisterPeriod(c) \/ RegisterCount(c) \/ CancelPeriod(c) \/ CancelCount(c)
  <2>1. /\ UNCHANGED <<raced, armed>>
        /\ \E p \in 0 .. MaxPeriod : \/ table' = [table EXCEPT ![m][k].period = p]
                                   \/ table' = [table EXCEPT ![m][k].count = 0]
    <3>1. 0 \in 0 .. MaxPeriod
      BY PeriodRange
    <3>2. CASE RegisterPeriod(c)
      <4>1. call[c].period \in 0 .. MaxPeriod
        BY <1>1, <3>2, CallFacts, PeriodRange DEF RegisterPeriod
      <4> QED BY <3>2, <4>1, Zenon DEF RegisterPeriod
    <3>3. CASE RegisterCount(c) \/ CancelPeriod(c) \/ CancelCount(c)
      BY <3>1, <3>3 DEF RegisterCount, CancelPeriod, CancelCount
    <3> QED BY <1>8, <3>2, <3>3
  <2> HIDE DEF h, k, m
  <2>2. table' \in Tables /\ \A n \in Mode, j \in Slot : table'[n][j].handler = table[n][j].handler
    BY <1>2, <2>1, FieldFacts
  <2>3. HomeInv'
    BY <2>2 DEF HomeInv
  <2>4. raced' \subseteq Handler /\ armed' \subseteq Handler
    BY <2>1 DEF TypeOK
  <2> QED BY <1>1, <1>6, <2>2, <2>3, <2>4
<1> QED
  BY <1>4, <1>7, <1>8

LEMMA AdvanceType ==
    ASSUME TypeOK, NEW m \in Mode, at[m] \in Slot, Advance(m)
    PROVE  /\ at' \in [Mode -> Slot \cup {Idle}]
           /\ \A n \in Mode : n # m => at'[n] = at[n]
  BY CapAssumption DEF Advance, TypeOK, Slot, Idle

LEMMA StepHolds == IInv /\ [Next]_vars => IInv'
<1> SUFFICES ASSUME IInv, [Next]_vars PROVE IInv'
  OBVIOUS
<1> USE HandlerAssumption
<1>0. TypeOK /\ HomeInv /\ BodyInv /\ CallIsSafe
  BY DEF IInv
<1>t. table \in Tables
  BY <1>0 DEF TypeOK, Tables
<1>1. ASSUME NEW h \in Handler, TaskCall(h) PROVE IInv'
  <2>1. call' \in [Context -> Calls \cup {NoCall}]
    BY <1>0, <1>1, FindType DEF TaskCall, Context
  <2>2. call'["soft"] = call["soft"]
    BY <1>0, <1>1 DEF TaskCall, FindFree, FindHolder, TypeOK, Context
  <2> QED
    BY <1>0, <1>1, <2>1, <2>2
    DEF TaskCall, IInv, TypeOK, HomeInv, BodyInv, CallIsSafe, Here, SoftBusy, CanFollow
<1>2. ASSUME TaskCommit PROVE IInv'
  <2>1. "task" \in Context
    BY DEF Context
  <2>2. /\ table' \in Tables /\ HomeInv'
        /\ call' \in [Context -> Calls \cup {NoCall}] /\ call'["soft"] = call["soft"]
        /\ raced' \subseteq Handler /\ armed' \subseteq Handler
    BY <1>0, <1>2, <2>1, CommitFacts DEF TaskCommit, Context
  <2>3. ~SoftBusy /\ UNCHANGED <<ticking, at, stage, running>>
    BY <1>2 DEF TaskCommit, MayRun
  <2> QED
    BY <1>0, <2>2, <2>3 DEF IInv, TypeOK, Tables, BodyInv, CallIsSafe, SoftBusy, CanFollow, Context
<1>3. ASSUME Control \/ Uninit PROVE IInv'
  <2>1. UNCHANGED <<table, at, stage, running, call, raced, armed>>
    BY <1>3 DEF Control, Uninit
  <2>2. ticking' \in [Mode -> BOOLEAN]
    <3>1. CASE Control
      BY <1>0, <3>1 DEF Control, TypeOK
    <3>2. CASE Uninit
      BY <3>2 DEF Uninit
    <3> QED
      BY <1>3, <3>1, <3>2
  <2>3. TypeOK'
    BY <1>0, <2>1, <2>2 DEF TypeOK
  <2>4. HomeInv'
    BY <1>0, <2>1 DEF HomeInv
  <2>5. BodyInv' /\ CallIsSafe'
    BY <1>0, <2>1 DEF BodyInv, CallIsSafe, Here, SoftBusy, CanFollow
  <2> QED
    BY <2>3, <2>4, <2>5 DEF IInv
<1>4. ASSUME NEW h \in Handler, NEW p \in Period, PinInterrupt(h, p) PROVE IInv'
  <2>1. PICK k \in Slot : /\ IsLowest(k, Holders(Home[h], NoHandler))
                          /\ table' = [table EXCEPT ![Home[h]][k] = Written(h, p)]
    BY <1>4 DEF PinInterrupt
  <2>2. Written(h, p) \in Entry /\ Written(h, p).handler = h
    BY PeriodAssumption DEF Written, Entry, Period
  <2>3. table' \in Tables
    BY <1>t, <2>1, <2>2 DEF Tables
  <2>4. \A m \in Mode, j \in Slot : table'[m][j] = table[m][j] \/ (table'[m][j].handler = h /\ m = Home[h])
    BY <1>t, <2>1, <2>2 DEF Tables
  <2>5. UNCHANGED <<ticking, at, stage, running, call, raced>> /\ armed' = armed \cup {h}
    BY <1>4 DEF PinInterrupt
  <2>6. CallIsSafe'
    BY <1>0, <2>4, <2>5 DEF CallIsSafe, Here, SoftBusy, TypeOK, Mode, Idle
  <2>7. HomeInv'
    BY <1>0, <2>4 DEF HomeInv
  <2> QED
    BY <1>0, <2>3, <2>5, <2>6, <2>7 DEF IInv, TypeOK, Tables, BodyInv, CanFollow, SoftBusy
<1>5. ASSUME IntTickBegin PROVE IInv'
  BY <1>0, <1>5, CapAssumption
  DEF IntTickBegin, IInv, TypeOK, HomeInv, BodyInv, CallIsSafe, Here, SoftBusy, CanFollow, Mode, Slot
<1>6. ASSUME IntVisit PROVE IInv'
  <2> DEFINE k == at["INT"]
             e == table["INT"][k]
  <2>1. k \in Slot /\ e \in Entry
    BY <1>0, <1>6, SMTT(30) DEF IntVisit, HardBusy, TypeOK, Mode
  <2>2. /\ at' \in [Mode -> Slot \cup {Idle}] /\ at'["UNINT"] = at["UNINT"]
        /\ UNCHANGED <<ticking, stage, running, call, raced>>
    BY <1>0, <1>6, <2>1, AdvanceType, ZenonT(40) DEF IntVisit, Mode
  <2>3. /\ table' \in Tables /\ armed' \subseteq Handler
        /\ \A m \in Mode, j \in Slot :
              LET g == table'[m][j].handler
              IN  /\ g # NoHandler => Home[g] = m
                  /\ m = "UNINT" /\ g = NoHandler => table[m][j].handler = NoHandler
    <3> DEFINE due(ta, x, f, p) ==
                 /\ f => CanFollow(e.handler)
                 /\ ta = [AfterBody(e.handler, x, f, p) EXCEPT !["INT"][k].count = 0]
    <3>0. \/ e.handler = NoHandler /\ UNCHANGED <<table, armed>>
          \/ /\ e.handler # NoHandler
             /\ table' = [table EXCEPT !["INT"][k].count = @ + 1]
             /\ UNCHANGED armed
          \/ /\ e.handler # NoHandler
             /\ \E x, f \in BOOLEAN, p \in Period : due(table', x, f, p)
             /\ armed' \subseteq Handler
      BY <1>0, <1>6 DEF IntVisit, TypeOK
    <3>1. CASE e.handler = NoHandler
      <4>1. UNCHANGED <<table, armed>>
        BY <3>0, <3>1
      <4> QED
        BY <1>0, <1>t, <4>1 DEF HomeInv, TypeOK
    <3>2. CASE e.handler # NoHandler /\ table' = [table EXCEPT !["INT"][k].count = @ + 1] /\ UNCHANGED armed
      <4>1. [table["INT"][k] EXCEPT !.count = @ + 1] \in Entry
        BY <2>1 DEF Entry
      <4>2. table' \in Tables
        BY <1>t, <2>1, <3>2, <4>1 DEF Tables, Mode
      <4>3. \A m \in Mode, j \in Slot : table'[m][j].handler = table[m][j].handler
        BY <1>t, <2>1, <3>2 DEF Tables, Mode, Entry
      <4> QED
        BY <1>0, <3>2, <4>2, <4>3 DEF HomeInv, TypeOK
    <3>3. CASE /\ e.handler # NoHandler
               /\ \E x, f \in BOOLEAN, p \in Period : due(table', x, f, p)
               /\ armed' \subseteq Handler
      <4>1. e.handler \in Handler /\ Home[e.handler] = "INT"
        BY <1>0, <2>1, <3>3, SMTT(30) DEF Entry, HomeInv, Mode
      <4>2. PICK ends \in BOOLEAN, follows \in BOOLEAN, p \in Period :
               /\ follows => CanFollow(e.handler)
               /\ table' = [AfterBody(e.handler, ends, follows, p) EXCEPT !["INT"][k].count = 0]
        BY <3>3
      <4>3. armed' \subseteq Handler
        BY <3>3
      <4> DEFINE b == AfterBody(e.handler, ends, follows, p)
      <4>4. /\ b \in Tables
            /\ \A m \in Mode, j \in Slot :
                  LET g == b[m][j].handler
                  IN  /\ g # NoHandler => Home[g] = m
                      /\ m = "UNINT" /\ g = NoHandler => table[m][j].handler = NoHandler
        <5> HIDE DEF e
        <5> QED
          BY <1>0, <4>1, <4>2, AfterBodyFacts
      <4> HIDE DEF b
      <4>5. [b["INT"][k] EXCEPT !.count = 0] \in Entry
        BY <2>1, <4>4 DEF Tables, Mode, Entry
      <4>8. table' = [b EXCEPT !["INT"][k].count = 0]
        BY <4>2 DEF b
      <4> HIDE DEF e
      <4>6. table' \in Tables
        BY <2>1, <4>4, <4>5, <4>8 DEF Tables, Mode
      <4>7. \A m \in Mode, j \in Slot : table'[m][j].handler = b[m][j].handler
        BY <2>1, <4>4, <4>8 DEF Tables, Mode, Entry
      <4> QED
        BY <4>3, <4>4, <4>6, <4>7
    <3> QED
      BY <3>0, <3>1, <3>2, <3>3, ZenonT(40)
  <2>4. CallIsSafe'
    BY <1>0, <2>2, <2>3 DEF CallIsSafe, Here, SoftBusy, TypeOK, Mode, Idle
  <2>5. HomeInv'
    BY <2>3 DEF HomeInv
  <2> QED
    BY <1>0, <2>2, <2>3, <2>4, <2>5, SMTT(30) DEF IInv, TypeOK, Tables, BodyInv, CanFollow, SoftBusy
<1>7. ASSUME SoftTickBegin PROVE IInv'
  <2>1. stage = "check" /\ stage' = "check"
    BY <1>0, <1>7 DEF SoftTickBegin, MayRun, BodyInv
  <2>2. at' \in [Mode -> Slot \cup {Idle}]
    <3>1. 1 \in Slot
      BY CapAssumption DEF Slot
    <3>2. at' = [at EXCEPT !["UNINT"] = 1]
      BY <1>7 DEF SoftTickBegin
    <3> QED
      BY <1>0, <3>1, <3>2 DEF TypeOK
  <2>3. UNCHANGED <<table, ticking, running, call, raced, armed>>
    BY <1>7 DEF SoftTickBegin
  <2>4. TypeOK' /\ HomeInv'
    BY <1>0, <2>1, <2>2, <2>3 DEF TypeOK, HomeInv
  <2> QED
    BY <1>0, <2>1, <2>3, <2>4 DEF IInv, BodyInv, CallIsSafe
<1>8. ASSUME SoftCheck PROVE IInv'
  <2>1. at["UNINT"] \in Slot /\ stage = "check" /\ UNCHANGED <<ticking, running, call, raced, armed>>
    BY <1>0, <1>8 DEF SoftCheck, SoftBusy, TypeOK, Mode
  <2>2. CASE Here.handler = NoHandler
    BY <1>0, <1>8, <2>1, <2>2, AdvanceType
    DEF SoftCheck, IInv, TypeOK, HomeInv, BodyInv, CallIsSafe, CanFollow, Mode, SoftBusy
  <2>3. CASE Here.handler # NoHandler
    <3> DEFINE k == at["UNINT"]
    <3>1. table' = [table EXCEPT !["UNINT"][k].count = @ + 1]
      BY <1>8, <2>3 DEF SoftCheck
    <3>2. [table["UNINT"][k] EXCEPT !.count = @ + 1] \in Entry
      BY <1>t, <2>1 DEF Tables, Mode, Entry
    <3>3. table' \in Tables
      BY <1>t, <2>1, <3>1, <3>2 DEF Tables, Mode
    <3>4. \A m \in Mode, j \in Slot : table'[m][j].handler = table[m][j].handler
      BY <1>t, <2>1, <3>1 DEF Tables, Mode, Entry
    <3>5. \/ stage' = "call" /\ UNCHANGED at
          \/ Advance("UNINT") /\ UNCHANGED stage
      BY <1>8, <2>3 DEF SoftCheck
    <3>6. at' \in [Mode -> Slot \cup {Idle}]
      BY <1>0, <2>1, <3>5, AdvanceType DEF TypeOK, Mode
    <3>7. CallIsSafe'
      BY <2>1, <2>3, <3>4, <3>5 DEF CallIsSafe, Here, Mode
    <3>8. HomeInv'
      BY <1>0, <3>4 DEF HomeInv
    <3> QED
      <4>1. SoftBusy
        BY <1>8 DEF SoftCheck
      <4> QED
        BY <1>0, <2>1, <3>3, <3>5, <3>6, <3>7, <3>8, <4>1
        DEF IInv, TypeOK, Tables, BodyInv, CanFollow, SoftBusy
  <2> QED
    BY <2>2, <2>3
<1>9. ASSUME SoftCallHandler PROVE IInv'
  <2>1. Here \in Entry
    BY <1>0, <1>9 DEF SoftCallHandler, SoftBusy, TypeOK, Mode, Here
  <2> QED
    BY <1>0, <1>9, <2>1
    DEF SoftCallHandler, IInv, TypeOK, HomeInv, BodyInv, CallIsSafe, CanFollow, Entry, SoftBusy
<1>10. ASSUME SoftCancel PROVE IInv'
  <2>1. running \in OneShot /\ running \in Handler
    BY <1>0, <1>10 DEF SoftCancel, BodyInv
  <2>2. call' \in [Context -> Calls \cup {NoCall}]
    BY <1>0, <1>10, <2>1, FindType DEF SoftCancel, TypeOK, Context
  <2>3. /\ stage' = "return" \/ (stage' = "register" /\ CanFollow(running))
        /\ UNCHANGED <<table, ticking, at, running, raced, armed>>
        /\ SoftBusy
    BY <1>0, <1>10 DEF SoftCancel, BodyInv
  <2> QED
    BY <1>0, <2>2, <2>3 DEF IInv, TypeOK, HomeInv, BodyInv, CallIsSafe, CanFollow, SoftBusy
<1>11. ASSUME SoftRegister PROVE IInv'
  <2>1. Follow[running] \in Handler
    BY <1>0, <1>11 DEF SoftRegister, BodyInv, CanFollow
  <2>2. call' \in [Context -> Calls \cup {NoCall}]
    BY <1>0, <1>11, <2>1, FindType DEF SoftRegister, TypeOK, Context
  <2> QED
    BY <1>0, <1>11, <2>2 DEF SoftRegister, IInv, TypeOK, HomeInv, BodyInv, CallIsSafe, CanFollow, SoftBusy
<1>12. ASSUME SoftCommit PROVE IInv'
  <2>1. "soft" \in Context
    BY DEF Context
  <2>2. /\ table' \in Tables /\ HomeInv'
        /\ call' \in [Context -> Calls \cup {NoCall}]
        /\ raced' \subseteq Handler /\ armed' \subseteq Handler
        /\ call["soft"] # NoCall
    BY <1>0, <1>12, <2>1, CommitFacts DEF SoftCommit
  <2>3. UNCHANGED <<ticking, at, stage, running>>
    BY <1>12 DEF SoftCommit
  <2>4. stage \in {"register", "return"}
    BY <1>0, <2>2 DEF BodyInv
  <2> QED
    BY <1>0, <2>2, <2>3, <2>4 DEF IInv, TypeOK, Tables, BodyInv, CallIsSafe, CanFollow, Context, SoftBusy
<1>13. ASSUME SoftReturn PROVE IInv'
  <2> DEFINE k == at["UNINT"]
  <2>1. k \in Slot
    BY <1>0, <1>13 DEF SoftReturn, SoftBusy, TypeOK, Mode
  <2>2. /\ table' = [table EXCEPT !["UNINT"][k].count = 0]
        /\ running' = NoHandler /\ stage' = "check" /\ call["soft"] = NoCall
        /\ UNCHANGED <<ticking, call, raced, armed>>
    BY <1>13 DEF SoftReturn
  <2>3. [table["UNINT"][k] EXCEPT !.count = 0] \in Entry
    BY <1>t, <2>1 DEF Tables, Mode, Entry
  <2>4. table' \in Tables
    BY <1>t, <2>1, <2>2, <2>3 DEF Tables, Mode
  <2>5. \A m \in Mode, j \in Slot : table'[m][j].handler = table[m][j].handler
    BY <1>t, <2>1, <2>2 DEF Tables, Mode, Entry
  <2>6. at' \in [Mode -> Slot \cup {Idle}]
    BY <1>0, <1>13, <2>1, AdvanceType DEF SoftReturn, Mode
  <2>7. HomeInv'
    BY <1>0, <2>5 DEF HomeInv
  <2> QED
    BY <1>0, <2>2, <2>4, <2>6, <2>7 DEF IInv, TypeOK, Tables, BodyInv, CallIsSafe
<1>14. ASSUME UNCHANGED vars PROVE IInv'
  BY <1>0, <1>14 DEF vars, IInv, TypeOK, HomeInv, BodyInv, CallIsSafe, Here, SoftBusy, CanFollow
<1> QED
  BY <1>1, <1>2, <1>3, <1>4, <1>5, <1>6, <1>7, <1>8, <1>9, <1>10, <1>11, <1>12, <1>13, <1>14
  DEF Next, SoftStep

\* In every behaviour the tables are well-formed and, whatever interrupts come between
\* the scan's test of a slot's handler and its call (PeriodEvent.c:337 and 342), the
\* handler called is not NULL.
THEOREM EventCallIsSafe == Spec => [](TypeOK /\ CallIsSafe)
<1>1. IInv => TypeOK /\ CallIsSafe
  BY DEF IInv
<1> QED
  BY <1>1, InitHolds, StepHolds, PTL DEF Spec

-----------------------------------------------------------------------------
(* How the steps change which handler each slot holds.                     *)

\* Tables u hold the handlers of tables t ...
Same(t, u) == \A n \in Mode, j \in Slot : u[n][j].handler = t[n][j].handler

\* ... but for slot k of table m, which has been given handler h.
Puts(t, u, m, k, h) ==
    \A n \in Mode, j \in Slot : u[n][j].handler = IF n = m /\ j = k THEN h ELSE t[n][j].handler

\* A set of slots that is not empty has a first one.
LEMMA LowestExists ==
    ASSUME NEW S \in SUBSET Slot, S # {}
    PROVE  \E k \in Slot : IsLowest(k, S)
<1>1. S \subseteq Nat
  BY CapAssumption DEF Slot
<1>2. PICK k \in S : \A j \in S : <<j, k>> \notin OpToRel(<, Nat)
  BY <1>1, NatLessThanWellFounded, WFMin, Zenon
<1>3. \A j \in S : ~ (j < k)
  BY <1>1, <1>2 DEF OpToRel
<1>4. \A a, b \in Nat : ~ (a < b) => b <= a
  OBVIOUS
<1>5. \A j \in S : k <= j
  BY <1>1, <1>3, <1>4
<1> QED BY <1>5 DEF IsLowest

\* There is but one.
LEMMA LowestIsOne ==
    ASSUME NEW S \in SUBSET Slot, NEW k, NEW j, IsLowest(k, S), IsLowest(j, S)
    PROVE  k = j
<1>1. k \in Nat /\ j \in Nat /\ k <= j /\ j <= k
  BY CapAssumption DEF IsLowest, Slot
<1> QED BY <1>1

\* A handler that is in its table and cancels itself leaves one slot of it.
LEMMA CancelledPuts ==
    ASSUME NEW t \in Tables, NEW h \in Handler, NEW k0 \in Slot, t[Home[h]][k0].handler = h
    PROVE  \E k \in Slot : t[Home[h]][k].handler = h /\ Puts(t, Cancelled(t, h), Home[h], k, NoHandler)
<1> DEFINE mine == {k \in Slot : t[Home[h]][k].handler = h}
           col  == [j \in Slot |-> IF IsLowest(j, mine) THEN Free ELSE t[Home[h]][j]]
<1>0. Home[h] \in Mode
  BY HandlerAssumption
<1>1. PICK k \in Slot : IsLowest(k, mine)
  BY LowestExists
<1>2. k \in mine
  BY <1>1 DEF IsLowest
<1>3. \A j \in Slot : IsLowest(j, mine) <=> j = k
  BY <1>1, LowestIsOne
<1>4. Cancelled(t, h) = [t EXCEPT ![Home[h]] = col]
  BY DEF Cancelled
<1>5. \A j \in Slot : col[j].handler = IF j = k THEN NoHandler ELSE t[Home[h]][j].handler
  BY <1>3 DEF Free
<1> HIDE DEF col
<1>6. Puts(t, Cancelled(t, h), Home[h], k, NoHandler)
  BY <1>0, <1>4, <1>5 DEF Puts, Tables
<1> QED BY <1>2, <1>6

\* Registering a handler gives it a free slot, if there is one.
LEMMA RegisteredPuts ==
    ASSUME NEW t \in Tables, NEW h \in Handler, NEW p \in Period
    PROVE  /\ FreeSlots(t, Home[h]) = {} => Same(t, Registered(t, h, p))
           /\ FreeSlots(t, Home[h]) # {} =>
                \E k \in Slot : /\ t[Home[h]][k].handler = NoHandler
                               /\ Puts(t, Registered(t, h, p), Home[h], k, h)
<1> DEFINE frees == FreeSlots(t, Home[h])
           col   == [j \in Slot |-> IF IsLowest(j, frees) THEN Written(h, p) ELSE t[Home[h]][j]]
<1>0. Home[h] \in Mode
  BY HandlerAssumption
<1>1. Registered(t, h, p) = [t EXCEPT ![Home[h]] = col]
  BY DEF Registered
<1>2. frees \in SUBSET Slot
  BY DEF FreeSlots
<1>3. CASE frees = {}
  <2>1. \A j \in Slot : col[j] = t[Home[h]][j]
    BY <1>3 DEF IsLowest
  <2> HIDE DEF col
  <2> QED BY <1>0, <1>1, <1>3, <2>1 DEF Same, Tables
<1>4. CASE frees # {}
  <2>1. PICK k \in Slot : IsLowest(k, frees)
    BY <1>2, <1>4, LowestExists
  <2>2. t[Home[h]][k].handler = NoHandler
    BY <2>1 DEF IsLowest, FreeSlots
  <2>3. \A j \in Slot : IsLowest(j, frees) <=> j = k
    BY <1>2, <2>1, LowestIsOne
  <2>4. \A j \in Slot : col[j].handler = IF j = k THEN h ELSE t[Home[h]][j].handler
    BY <2>3 DEF Written
  <2> HIDE DEF col
  <2>5. Puts(t, Registered(t, h, p), Home[h], k, h)
    BY <1>0, <1>1, <2>4 DEF Puts, Tables
  <2> QED BY <1>4, <2>2, <2>5
<1> QED BY <1>3, <1>4

\* A call gives the slot it has found its handler, or none ...
LEMMA CommitPuts ==
    ASSUME TypeOK, NEW c \in Context
    PROVE  LET h == call[c].handler  k == call[c].slot
           IN  /\ RegisterCommit(c) =>
                    /\ h \in Handler /\ k \in Slot /\ Puts(table, table', Home[h], k, h)
               /\ CancelCommit(c) =>
                    /\ h \in Handler /\ k \in Slot /\ Puts(table, table', Home[h], k, NoHandler)
<1> DEFINE h == call[c].handler
           k == call[c].slot
<1>1. ASSUME call[c].kind # "none"
      PROVE  h \in Handler /\ k \in Slot /\ Home[h] \in Mode /\ table \in Tables
  BY <1>1, CallFacts DEF TypeOK, Tables
<1>2. ASSUME RegisterCommit(c)
      PROVE  h \in Handler /\ k \in Slot /\ Puts(table, table', Home[h], k, h)
  <2>1. table' = [table EXCEPT ![Home[h]][k].handler = h] /\ call[c].kind # "none"
    BY <1>2 DEF RegisterCommit
  <2> HIDE DEF h, k
  <2>2. \A n \in Mode, j \in Slot :
           table'[n][j].handler = IF n = Home[h] /\ j = k THEN h ELSE table[n][j].handler
    <3>1. table[Home[h]][k] \in Entry
      BY <1>1, <2>1 DEF Tables
    <3>2. [table[Home[h]][k] EXCEPT !.handler = h].handler = h
      BY <3>1 DEF Entry
    <3> QED BY <1>1, <2>1, <3>2 DEF Tables
  <2> QED BY <1>1, <2>1, <2>2 DEF Puts
<1>3. ASSUME CancelCommit(c)
      PROVE  h \in Handler /\ k \in Slot /\ Puts(table, table', Home[h], k, NoHandler)
  <2>1. table' = [table EXCEPT ![Home[h]][k].handler = NoHandler] /\ call[c].kind # "none"
    BY <1>3 DEF CancelCommit
  <2> HIDE DEF h, k
  <2>2. \A n \in Mode, j \in Slot :
           table'[n][j].handler = IF n = Home[h] /\ j = k THEN NoHandler ELSE table[n][j].handler
    <3>1. table[Home[h]][k] \in Entry
      BY <1>1, <2>1 DEF Tables
    <3>2. [table[Home[h]][k] EXCEPT !.handler = NoHandler].handler = NoHandler
      BY <3>1 DEF Entry
    <3> QED BY <1>1, <2>1, <3>2 DEF Tables
  <2> QED BY <1>1, <2>1, <2>2 DEF Puts
<1> QED BY <1>2, <1>3

\* ... and its other stores change no handler.
LEMMA FieldIsSame ==
    ASSUME TypeOK, NEW c \in Context, CallStore(c), ~ (RegisterCommit(c) \/ CancelCommit(c))
    PROVE  Same(table, table') /\ UNCHANGED <<armed, raced>>
<1> DEFINE h == call[c].handler
           k == call[c].slot
           m == Home[h]
<1>1. RegisterPeriod(c) \/ RegisterCount(c) \/ CancelPeriod(c) \/ CancelCount(c)
  BY Zenon DEF CallStore
<1>2. call[c].kind # "none"
  BY <1>1 DEF RegisterPeriod, RegisterCount, CancelPeriod, CancelCount
<1>3. h \in Handler /\ k \in Slot /\ m \in Mode /\ table \in Tables
  BY <1>2, CallFacts DEF TypeOK, Tables
<1>4. /\ UNCHANGED <<raced, armed>>
      /\ \E p \in 0 .. MaxPeriod : \/ table' = [table EXCEPT ![m][k].period = p]
                                 \/ table' = [table EXCEPT ![m][k].count = 0]
  <2>1. 0 \in 0 .. MaxPeriod
    BY PeriodRange
  <2>2. CASE RegisterPeriod(c)
    <3>1. call[c].period \in 0 .. MaxPeriod
      BY <1>2, <2>2, CallFacts, PeriodRange DEF RegisterPeriod
    <3> QED BY <2>2, <3>1, Zenon DEF RegisterPeriod
  <2>3. CASE RegisterCount(c) \/ CancelPeriod(c) \/ CancelCount(c)
    BY <2>1, <2>3 DEF RegisterCount, CancelPeriod, CancelCount
  <2> QED BY <1>1, <2>2, <2>3
<1> HIDE DEF h, k, m
<1>5. Same(table, table')
  BY <1>3, <1>4, FieldFacts DEF Same
<1> QED BY <1>4, <1>5

\* A pin interrupt takes a free slot.
LEMMA PinPuts ==
    ASSUME TypeOK, NEW h \in Handler, NEW p \in Period, PinInterrupt(h, p)
    PROVE  \E k \in Slot : /\ table[Home[h]][k].handler = NoHandler
                           /\ Puts(table, table', Home[h], k, h)
<1>1. PICK k \in Slot : /\ IsLowest(k, Holders(Home[h], NoHandler))
                        /\ table' = [table EXCEPT ![Home[h]][k] = Written(h, p)]
  BY DEF PinInterrupt
<1>2. Written(h, p).handler = h /\ Home[h] \in Mode
  BY HandlerAssumption DEF Written
<1> QED BY <1>1, <1>2 DEF TypeOK, Puts, IsLowest, Holders

\* What a turn of the INT table's scan may leave of a table, and who is gone: all is as it was, or
\* a handler has cancelled itself.
Leaves(c, gone) ==
    \/ Same(table, c) /\ gone = {}
    \/ \E h \in Handler, k \in Slot :
          /\ Home[h] = "INT" /\ table["INT"][k].handler = h
          /\ Puts(table, c, "INT", k, NoHandler)
          /\ gone = {h}

\* And then, that nobody or one handler has been registered.
Takes(c, gone) ==
    \/ Same(c, table') /\ armed' = armed \ gone
    \/ \E g \in Handler, j \in Slot :
          /\ c[Home[g]][j].handler = NoHandler
          /\ Puts(c, table', Home[g], j, g)
          /\ armed' = (armed \ gone) \cup {g}

LEMMA VisitPuts ==
    ASSUME TypeOK, HomeInv, IntVisit
    PROVE  \E c \in Tables, gone \in SUBSET Handler : Leaves(c, gone) /\ Takes(c, gone)
<1> USE HandlerAssumption
<1> DEFINE k0 == at["INT"]
           h == table["INT"][k0].handler
           Gone(ends) == {x \in {h} : ends}
<1>1. k0 \in Slot /\ table \in Tables /\ "INT" \in Mode
  BY DEF IntVisit, HardBusy, TypeOK, Mode, Tables
<1>5. ASSUME Same(table, table'), armed' = armed
      PROVE  \E c \in Tables, gone \in SUBSET Handler : Leaves(c, gone) /\ Takes(c, gone)
  <2>1. Leaves(table, {}) /\ Takes(table, {})
    BY <1>5 DEF Leaves, Takes, Same
  <2> QED BY <1>1, <2>1
<1>2. ASSUME h = NoHandler PROVE Same(table, table') /\ armed' = armed
  <2>1. UNCHANGED <<table, armed>>
    BY <1>2 DEF IntVisit
  <2> QED BY <2>1 DEF Same
<1>3. ASSUME table' = [table EXCEPT !["INT"][k0].count = @ + 1], UNCHANGED armed
      PROVE  Same(table, table') /\ armed' = armed
  BY <1>1, <1>3 DEF Same, Tables, Entry
<1>4. ASSUME h # NoHandler,
             NEW ends \in BOOLEAN, NEW follows \in BOOLEAN, NEW p \in Period,
             follows => CanFollow(h),
             table' = [AfterBody(h, ends, follows, p) EXCEPT !["INT"][k0].count = 0],
             armed' = (armed \ Gone(ends)) \cup
                      {g \in Handler : /\ follows /\ g = Follow[h]
                                       /\ FreeSlots(AfterCancel(h, ends), Home[g]) # {}}
      PROVE  \E c \in Tables, gone \in SUBSET Handler : Leaves(c, gone) /\ Takes(c, gone)
  <2> DEFINE c == AfterCancel(h, ends)
             gone == Gone(ends)
  <2>1. h \in Handler /\ Home[h] = "INT"
    BY <1>1, <1>4 DEF TypeOK, Entry, HomeInv
  <2>2. AfterBody(h, ends, follows, p) \in Tables
    BY <1>4, <2>1, AfterBodyFacts
  <2>3. Same(AfterBody(h, ends, follows, p), table')
    <3> DEFINE b == AfterBody(h, ends, follows, p)
    <3>1. b \in Tables /\ table' = [b EXCEPT !["INT"][k0].count = 0]
      BY <1>4, <2>2
    <3> HIDE DEF b
    <3>2. Same(b, table')
      BY <1>1, <3>1 DEF Same, Tables, Entry
    <3> QED BY <3>2 DEF b
  <2>4. c \in Tables
    BY <1>1, <2>1, CancelledFacts DEF AfterCancel
  <2>5. gone \in SUBSET Handler /\ Leaves(c, gone)
    <3>1. CASE ~ends
      BY <3>1 DEF AfterCancel, Leaves, Same
    <3>2. CASE ends
      <4>1. c = Cancelled(table, h) /\ gone = {h}
        BY <3>2 DEF AfterCancel
      <4> HIDE DEF c, gone, h
      <4>2. PICK k \in Slot : table["INT"][k].handler = h /\ Puts(table, c, "INT", k, NoHandler)
        BY <1>1, <2>1, <4>1, CancelledPuts DEF h
      <4> QED BY <2>1, <4>1, <4>2 DEF Leaves
    <3> QED BY <3>1, <3>2
  <2>6. Takes(c, gone)
    <3>0. \A g \in Handler : FreeSlots(AfterCancel(h, ends), Home[g]) = FreeSlots(c, Home[g])
      OBVIOUS
    <3>1. AfterBody(h, ends, follows, p) = IF follows THEN Registered(c, Follow[h], p) ELSE c
      BY DEF AfterBody
    <3>2. armed' = (armed \ gone) \cup
                   {g \in Handler : follows /\ g = Follow[h] /\ FreeSlots(c, Home[g]) # {}}
      BY <1>4
    <3>3. follows => Follow[h] \in Handler
      BY <1>4 DEF CanFollow
    <3> HIDE DEF c, gone, h
    <3>4. CASE ~follows
      BY <2>3, <3>1, <3>2, <3>4 DEF Takes
    <3>5. CASE follows /\ FreeSlots(c, Home[Follow[h]]) = {}
      <4>1. Same(c, Registered(c, Follow[h], p))
        BY <2>4, <3>3, <3>5, RegisteredPuts
      <4>2. Same(c, table') /\ armed' = armed \ gone
        BY <2>3, <3>1, <3>2, <3>5, <4>1 DEF Same
      <4> QED BY <4>2 DEF Takes
    <3>6. CASE follows /\ FreeSlots(c, Home[Follow[h]]) # {}
      <4> DEFINE g == Follow[h]
      <4>1. g \in Handler /\ armed' = (armed \ gone) \cup {g}
        BY <3>2, <3>3, <3>6
      <4>2. AfterBody(h, ends, follows, p) = Registered(c, g, p)
        BY <3>1, <3>6
      <4>3. FreeSlots(c, Home[g]) # {}
        BY <3>6
      <4> HIDE DEF g
      <4>4. PICK j \in Slot : /\ c[Home[g]][j].handler = NoHandler
                              /\ Puts(c, Registered(c, g, p), Home[g], j, g)
        BY <2>4, <4>1, <4>3, RegisteredPuts
      <4>5. Puts(c, table', Home[g], j, g)
        BY <2>3, <4>2, <4>4 DEF Same, Puts
      <4> QED BY <4>1, <4>4, <4>5 DEF Takes
    <3> QED BY <3>4, <3>5, <3>6
  <2> QED BY <2>4, <2>5, <2>6
<1> QED
  <2> HIDE DEF h, k0
  <2>1. \/ h = NoHandler
        \/ table' = [table EXCEPT !["INT"][k0].count = @ + 1] /\ UNCHANGED armed
        \/ /\ h # NoHandler
           /\ \E ends, follows \in BOOLEAN, p \in Period :
                /\ follows => CanFollow(h)
                /\ table' = [AfterBody(h, ends, follows, p) EXCEPT !["INT"][k0].count = 0]
                /\ armed' = (armed \ Gone(ends)) \cup
                            {g \in Handler : /\ follows /\ g = Follow[h]
                                             /\ FreeSlots(AfterCancel(h, ends), Home[g]) # {}}
    BY DEF IntVisit, h, k0
  <2> HIDE DEF Gone
  <2> QED BY <1>2, <1>3, <1>4, <1>5, <2>1, SMTT(30)

\* The other steps change no handler, and neither does a step of no variable.
LEMMA OthersAreSame ==
    ASSUME TypeOK, BodyInv,
           \/ \E h \in Handler : TaskCall(h)
           \/ Control \/ Uninit \/ IntTickBegin \/ SoftTickBegin \/ SoftCheck \/ SoftCallHandler
           \/ SoftCancel \/ SoftRegister \/ SoftReturn \/ UNCHANGED vars
    PROVE  Same(table, table') /\ UNCHANGED <<armed, raced>>
<1>1. CASE table' = table /\ UNCHANGED <<armed, raced>>
  BY <1>1 DEF Same
<1>2. CASE SoftCheck
  <2> DEFINE k == at["UNINT"]
  <2>1. k \in Slot /\ "UNINT" \in Mode /\ UNCHANGED <<armed, raced>>
    BY <1>2 DEF SoftCheck, SoftBusy, TypeOK, Mode
  <2>2. table' \in {table, [table EXCEPT !["UNINT"][k].count = @ + 1]}
    BY <1>2 DEF SoftCheck
  <2> HIDE DEF k
  <2>3. CASE table' = table
    BY <2>1, <2>3 DEF Same
  <2>4. CASE table' = [table EXCEPT !["UNINT"][k].count = @ + 1]
    BY <2>1, <2>4 DEF TypeOK, Same, Entry
  <2> QED BY <2>2, <2>3, <2>4
<1>3. CASE SoftReturn
  <2> DEFINE k == at["UNINT"]
  <2>1. k \in Slot /\ "UNINT" \in Mode /\ UNCHANGED <<armed, raced>>
    BY <1>3 DEF SoftReturn, SoftBusy, TypeOK, Mode
  <2>2. table' = [table EXCEPT !["UNINT"][k].count = 0]
    BY <1>3 DEF SoftReturn
  <2> HIDE DEF k
  <2> QED BY <2>1, <2>2 DEF TypeOK, Same, Entry
<1> QED
  BY <1>1, <1>2, <1>3
  DEF TaskCall, Control, Uninit, IntTickBegin, SoftTickBegin, SoftCallHandler, SoftCancel, SoftRegister, vars

-----------------------------------------------------------------------------
(* Registrations that are kept.                                            *)

\* A handler that is given a slot of its table is in it ...
LEMMA PutsHas ==
    ASSUME NEW t, NEW u, NEW k \in Slot, NEW x \in Handler, Puts(t, u, Home[x], k, x)
    PROVE  u[Home[x]][k].handler = x
  BY HandlerAssumption DEF Puts

\* ... and one that is in its table stays there when another one's slot is given away.
LEMMA PutsKeeps ==
    ASSUME NEW t, NEW u, NEW m, NEW k, NEW g, Puts(t, u, m, k, g),
           NEW x \in Handler, NEW j \in Slot, t[Home[x]][j].handler = x, t[m][k].handler # x
    PROVE  \E i \in Slot : u[Home[x]][i].handler = x
<1>1. Home[x] \in Mode
  BY HandlerAssumption
<1>2. ~ (Home[x] = m /\ j = k)
  OBVIOUS
<1>3. u[Home[x]][j].handler = x
  BY <1>1, <1>2 DEF Puts
<1> QED BY <1>3

LEMMA ArmedIsStep == IInv /\ ArmedIsInTable /\ [Next]_vars => ArmedIsInTable'
<1> SUFFICES ASSUME IInv, ArmedIsInTable, [Next]_vars,
                    NEW x \in armed' \ raced'
             PROVE  \E j \in Slot : table'[Home[x]][j].handler = x
  BY DEF ArmedIsInTable, InTable, Holders
<1>0. TypeOK /\ HomeInv /\ BodyInv /\ x \in Handler /\ Home[x] \in Mode
  <2>1. TypeOK'
    BY StepHolds DEF IInv
  <2> QED BY <2>1, HandlerAssumption DEF IInv, TypeOK
<1>1. ASSUME x \in armed \ raced PROVE \E j \in Slot : table[Home[x]][j].handler = x
  BY <1>1 DEF ArmedIsInTable, InTable, Holders
<1>2. CASE Same(table, table') /\ UNCHANGED <<armed, raced>>
  BY <1>0, <1>1, <1>2 DEF Same
<1>3. ASSUME NEW c \in Context, RegisterCommit(c) \/ CancelCommit(c)
      PROVE  \E j \in Slot : table'[Home[x]][j].handler = x
  <2> DEFINE h == call[c].handler
             k == call[c].slot
  <2>1. h \in Handler /\ k \in Slot /\ Home[h] \in Mode
    BY <1>0, <1>3, CommitPuts, HandlerAssumption
  <2>2. CASE RegisterCommit(c)
    <3>1. Puts(table, table', Home[h], k, h)
      BY <1>0, <2>2, CommitPuts, SMTT(30)
    <3>2. x = h \/ (x \in armed \ raced /\ table[Home[h]][k].handler # x)
      BY <1>0, <2>2, HandlerAssumption DEF RegisterCommit
    <3> HIDE DEF h, k
    <3>3. \E j \in Slot : table'[Home[h]][j].handler = h
      BY <2>1, <3>1, PutsHas
    <3>4. CASE x \in armed \ raced /\ table[Home[h]][k].handler # x
      <4>1. PICK j \in Slot : table[Home[x]][j].handler = x
        BY <1>1, <3>4
      <4> QED BY <1>0, <3>1, <3>4, <4>1, PutsKeeps
    <3> QED BY <3>2, <3>3, <3>4
  <2>3. CASE CancelCommit(c)
    <3>1. Puts(table, table', Home[h], k, NoHandler)
      BY <1>0, <2>3, CommitPuts
    <3>2. x \in armed \ raced /\ table[Home[h]][k].handler # x
      BY <1>0, <2>3, HandlerAssumption DEF CancelCommit
    <3> HIDE DEF h, k
    <3>3. PICK j \in Slot : table[Home[x]][j].handler = x
      BY <1>1, <3>2
    <3> QED BY <1>0, <3>1, <3>2, <3>3, PutsKeeps
  <2> QED BY <1>3, <2>2, <2>3
<1>4. ASSUME NEW h \in Handler, NEW p \in Period, PinInterrupt(h, p)
      PROVE  \E j \in Slot : table'[Home[x]][j].handler = x
  <2>1. PICK k \in Slot : table[Home[h]][k].handler = NoHandler /\ Puts(table, table', Home[h], k, h)
    BY <1>0, <1>4, PinPuts
  <2>2. x = h \/ x \in armed \ raced
    BY <1>4 DEF PinInterrupt
  <2>3. \E j \in Slot : table'[Home[h]][j].handler = h
    BY <2>1, PutsHas
  <2>4. CASE x \in armed \ raced
    <3>1. PICK j \in Slot : table[Home[x]][j].handler = x
      BY <1>1, <2>4
    <3> QED BY <1>0, <2>1, <3>1, PutsKeeps, HandlerAssumption
  <2> QED BY <2>2, <2>3, <2>4
<1>5. CASE IntVisit
  <2>1. raced' = raced /\ x # NoHandler
    BY <1>0, <1>5, HandlerAssumption DEF IntVisit
  <2>2. PICK c \in Tables, gone \in SUBSET Handler : Leaves(c, gone) /\ Takes(c, gone)
    BY <1>0, <1>5, VisitPuts
  <2>3. ASSUME x \in armed \ gone PROVE \E j \in Slot : c[Home[x]][j].handler = x
    <3>1. PICK j \in Slot : table[Home[x]][j].handler = x
      BY <1>1, <2>1, <2>3
    <3>2. CASE Same(table, c)
      BY <1>0, <3>1, <3>2 DEF Same
    <3>3. ASSUME NEW h \in Handler, NEW k \in Slot, table["INT"][k].handler = h,
                 Puts(table, c, "INT", k, NoHandler), gone = {h}
          PROVE  \E i \in Slot : c[Home[x]][i].handler = x
      BY <1>0, <2>3, <3>1, <3>3, PutsKeeps
    <3> QED BY <2>2, <3>2, <3>3 DEF Leaves
  <2>4. CASE Same(c, table') /\ armed' = armed \ gone
    BY <1>0, <2>1, <2>3, <2>4 DEF Same
  <2>5. ASSUME NEW g \in Handler, NEW j \in Slot,
               c[Home[g]][j].handler = NoHandler, Puts(c, table', Home[g], j, g),
               armed' = (armed \ gone) \cup {g}
        PROVE  \E i \in Slot : table'[Home[x]][i].handler = x
    <3>1. \E i \in Slot : table'[Home[g]][i].handler = g
      BY <2>5, PutsHas, ZenonT(40)
    <3>2. CASE x \in armed \ gone
      <4>1. PICK i \in Slot : c[Home[x]][i].handler = x
        BY <2>3, <3>2
      <4> QED BY <1>0, <2>1, <2>5, <4>1, PutsKeeps
    <3> QED BY <2>5, <3>1, <3>2
  <2> QED BY <2>2, <2>4, <2>5 DEF Takes
<1> QED
  <2>1. ASSUME NEW c \in Context, CallStore(c) PROVE \E j \in Slot : table'[Home[x]][j].handler = x
    <3>1. CASE RegisterCommit(c) \/ CancelCommit(c)
      BY <1>3, <3>1
    <3>2. CASE ~ (RegisterCommit(c) \/ CancelCommit(c))
      BY <1>0, <1>2, <2>1, <3>2, FieldIsSame
    <3> QED BY <3>1, <3>2
  <2> QED BY <1>0, <1>2, <1>4, <1>5, <2>1, OthersAreSame
          DEF Next, SoftStep, TaskCommit, SoftCommit, Context

\* A handler that sfPE_RegisterEvent has acknowledged is in its table until it is cancelled,
\* through every interleaving of system calls, the kernel timer and interrupts, unless a
\* call that had searched before them wrote over its slot (PeriodEvent.c:184-199, 218-234).
THEOREM ArmedStayInTable == Spec => []ArmedIsInTable
<1>1. Init => ArmedIsInTable
  BY DEF Init, ArmedIsInTable
<1>2. IInv /\ ArmedIsInTable /\ [Next]_vars => (IInv /\ ArmedIsInTable)'
  BY StepHolds, ArmedIsStep
<1> QED BY InitHolds, <1>1, <1>2, PTL DEF Spec

-----------------------------------------------------------------------------
(* The tables as bags of handlers.                                         *)

SlotsOf(t, m, h)  == {k \in Slot : t[m][k].handler = h}
BagOf(t, m)    == [h \in HandlersOf(m) |-> Cardinality(SlotsOf(t, m, h))]
SumOf(e, m)    == MapThenSumSet(LAMBDA x : e[x], HandlersOf(m))

\* The steps of EventTable, from the bag e of table m to the bag f.
Registers(e, f, m, h) == SumOf(e, m) < Cap /\ f = [e EXCEPT ![h] = @ + 1]
Cancels(e, f, m, h)   == e[h] > 0 /\ f = [e EXCEPT ![h] = @ - 1]
BagStep(e, f, m) ==
    \/ f = e
    \/ \E h \in HandlersOf(m) : Registers(e, f, m, h) \/ Cancels(e, f, m, h)
    \/ \E h, g \in HandlersOf(m) :
          LET d == [e EXCEPT ![h] = @ - 1] IN Cancels(e, d, m, h) /\ Registers(d, f, m, g)

LEMMA SlotsAreFinite ==
    /\ IsFiniteSet(Slot) /\ Cardinality(Slot) = Cap
    /\ \A S \in SUBSET Slot : IsFiniteSet(S) /\ Cardinality(S) \in Nat
<1>1. IsFiniteSet(Slot) /\ Cardinality(Slot) = Cap
  BY CapAssumption, FS_Interval DEF Slot
<1>2. \A S \in SUBSET Slot : IsFiniteSet(S)
  BY <1>1, FS_Subset
<1> QED BY <1>1, <1>2, FS_CardinalityType

\* The bag's sum is the number of slots that are taken, so a free slot is room for one more.
LEMMA FreeIsRoom ==
    ASSUME NEW t, NEW m, NEW k0 \in Slot, t[m][k0].handler = NoHandler
    PROVE  SumOf(BagOf(t, m), m) < Cap
<1> DEFINE H == HandlersOf(m)
           e == BagOf(t, m)
           taken(s) == {k \in Slot : t[m][k].handler \in s}
           g == [s \in SUBSET H |-> Cardinality(taken(s))]
<1>1. IsFiniteSet(H)
  BY FiniteAssumption, FS_Subset DEF HandlersOf
<1>2. IsSum(g, e, H)
  <2>1. g[{}] = 0
    <3>1. taken({}) = {} /\ {} \in SUBSET H
      OBVIOUS
    <3> QED BY <3>1, FS_EmptySet
  <2>2. ASSUME NEW s \in SUBSET H, NEW x \in s
        PROVE  g[s] = e[x] + g[s \ {x}]
    <3> DEFINE A == SlotsOf(t, m, x)
               B == taken(s \ {x})
    <3>1. A \in SUBSET Slot /\ B \in SUBSET Slot /\ taken(s) = A \cup B /\ A \cap B = {}
      BY DEF SlotsOf
    <3>2. e[x] = Cardinality(A) /\ g[s] = Cardinality(A \cup B) /\ g[s \ {x}] = Cardinality(B)
      BY <3>1 DEF BagOf
    <3> HIDE DEF A, B, g, e
    <3>3. IsFiniteSet(A) /\ IsFiniteSet(B) /\ Cardinality(A) \in Nat /\ Cardinality(B) \in Nat
      BY <3>1, SlotsAreFinite
    <3>4. Cardinality(A \cup B) = Cardinality(A) + Cardinality(B) - Cardinality({})
      BY <3>1, <3>3, FS_Union
    <3>5. Cardinality({}) = 0
      BY FS_EmptySet
    <3> QED BY <3>2, <3>3, <3>4, <3>5
  <2> QED BY <2>1, <2>2 DEF IsSum
<1>3. SumOf(e, m) = Cardinality(taken(H))
  <2>1. g[H] = Cardinality(taken(H))
    OBVIOUS
  <2> HIDE DEF g, e, H
  <2>2. MapThenSumSet(LAMBDA x : e[x], H) = g[H]
    BY <1>1, <1>2, SumIsValue
  <2> QED BY <2>1, <2>2 DEF SumOf, H
<1>4. Cardinality(taken(H)) < Cap
  <2>1. taken(H) \in SUBSET Slot /\ k0 \notin taken(H)
    BY HandlerAssumption DEF HandlersOf
  <2> HIDE DEF taken
  <2>2. Cardinality(taken(H)) <= Cap /\ Cardinality(taken(H)) # Cap
    BY <2>1, SlotsAreFinite, FS_Subset
  <2> QED BY <2>1, <2>2, SlotsAreFinite, CapAssumption
<1> QED BY <1>3, <1>4

LEMMA SameBag == ASSUME NEW t, NEW u, NEW m \in Mode, Same(t, u) PROVE BagOf(u, m) = BagOf(t, m)
<1>1. \A h : SlotsOf(u, m, h) = SlotsOf(t, m, h)
  BY DEF SlotsOf, Same
<1> QED BY <1>1 DEF BagOf

\* A slot of another table is not one of this bag's.
LEMMA PutsElsewhere ==
    ASSUME NEW t, NEW u, NEW m \in Mode, NEW n \in Mode, NEW k, NEW h, Puts(t, u, n, k, h), n # m
    PROVE  BagOf(u, m) = BagOf(t, m)
<1>1. \A x : SlotsOf(u, m, x) = SlotsOf(t, m, x)
  BY DEF SlotsOf, Puts
<1> QED BY <1>1 DEF BagOf

LEMMA PutsRegisters ==
    ASSUME NEW t, NEW u, NEW m \in Mode, NEW k \in Slot, NEW h \in HandlersOf(m),
           Puts(t, u, m, k, h), t[m][k].handler = NoHandler
    PROVE  Registers(BagOf(t, m), BagOf(u, m), m, h)
<1>1. \A x \in HandlersOf(m) : SlotsOf(u, m, x) = IF x = h THEN SlotsOf(t, m, x) \cup {k} ELSE SlotsOf(t, m, x)
  BY HandlerAssumption DEF SlotsOf, Puts, HandlersOf
<1>2. SlotsOf(t, m, h) \in SUBSET Slot /\ k \notin SlotsOf(t, m, h)
  BY HandlerAssumption DEF SlotsOf, HandlersOf
<1>3. Cardinality(SlotsOf(t, m, h) \cup {k}) = Cardinality(SlotsOf(t, m, h)) + 1
  BY <1>2, SlotsAreFinite, FS_AddElement
<1>4. BagOf(u, m) = [BagOf(t, m) EXCEPT ![h] = @ + 1]
  BY <1>1, <1>3 DEF BagOf
<1> QED BY <1>4, FreeIsRoom DEF Registers

LEMMA PutsCancels ==
    ASSUME NEW t, NEW u, NEW m \in Mode, NEW k \in Slot, NEW h \in HandlersOf(m),
           Puts(t, u, m, k, NoHandler), t[m][k].handler = h
    PROVE  Cancels(BagOf(t, m), BagOf(u, m), m, h)
<1>1. \A x \in HandlersOf(m) : SlotsOf(u, m, x) = IF x = h THEN SlotsOf(t, m, x) \ {k} ELSE SlotsOf(t, m, x)
  BY HandlerAssumption DEF SlotsOf, Puts, HandlersOf
<1>2. SlotsOf(t, m, h) \in SUBSET Slot /\ k \in SlotsOf(t, m, h)
  BY DEF SlotsOf
<1>3. Cardinality(SlotsOf(t, m, h) \ {k}) = Cardinality(SlotsOf(t, m, h)) - 1
  BY <1>2, SlotsAreFinite, FS_RemoveElement
<1>4. Cardinality(SlotsOf(t, m, h)) > 0
  <2>1. SlotsOf(t, m, h) # {}
    BY <1>2
  <2>2. Cardinality(SlotsOf(t, m, h)) \in Nat /\ Cardinality(SlotsOf(t, m, h)) # 0
    BY <1>2, <2>1, SlotsAreFinite, FS_EmptySet
  <2> QED BY <2>2
<1>5. BagOf(u, m) = [BagOf(t, m) EXCEPT ![h] = @ - 1] /\ BagOf(t, m)[h] > 0
  BY <1>1, <1>3, <1>4 DEF BagOf
<1> QED BY <1>5 DEF Cancels

\* A registration, a cancellation and neither, seen from either table.
LEMMA PutsStep ==
    ASSUME NEW t, NEW u, NEW n \in Mode, NEW k \in Slot, NEW h \in Handler, Home[h] = n,
           \/ Puts(t, u, n, k, h) /\ t[n][k].handler = NoHandler
           \/ Puts(t, u, n, k, NoHandler) /\ t[n][k].handler = h,
           NEW m \in Mode
    PROVE  BagStep(BagOf(t, m), BagOf(u, m), m)
<1>1. CASE n # m
  BY <1>1, PutsElsewhere DEF BagStep
<1>2. CASE n = m
  <2>1. h \in HandlersOf(m)
    BY <1>2 DEF HandlersOf
  <2> QED BY <1>2, <2>1, PutsRegisters, PutsCancels DEF BagStep
<1> QED BY <1>1, <1>2

\* What the searches of the calls that store a handler in this step have found is still there.
FoundIsThere == \A c \in Context : StoresHandler(c) => SlotAsFound(c)

LEMMA TablesStep ==
    ASSUME IInv, [Next]_vars, FoundIsThere, NEW m \in Mode
    PROVE  BagStep(BagOf(table, m), BagOf(table', m), m)
<1>0. TypeOK /\ HomeInv /\ BodyInv
  BY DEF IInv
<1>1. CASE Same(table, table')
  BY <1>1, SameBag DEF BagStep
<1>2. ASSUME NEW c \in Context, RegisterCommit(c) \/ CancelCommit(c)
      PROVE  BagStep(BagOf(table, m), BagOf(table', m), m)
  <2> DEFINE h == call[c].handler
             k == call[c].slot
  <2>1. h \in Handler /\ k \in Slot /\ Home[h] \in Mode
    BY <1>0, <1>2, CommitPuts, HandlerAssumption
  <2>2. SlotAsFound(c)
    <3>1. call[c].kind \in {"handler", "cancel"}
      BY <1>2 DEF RegisterCommit, CancelCommit
    <3>2. call'[c] # call[c]
      <4>1. CASE RegisterCommit(c)
        BY <1>0, <4>1 DEF RegisterCommit, TypeOK, NoCall
      <4>2. CASE CancelCommit(c)
        <5>1. call[c] \in Calls /\ call[c].kind = "cancel" /\ call' = [call EXCEPT ![c].kind = "period"]
          BY <1>0, <4>2, CallFacts DEF CancelCommit
        <5>2. call'[c].kind = "period"
          BY <1>0, <5>1 DEF TypeOK, Calls
        <5> QED BY <5>1, <5>2
      <4> QED BY <1>2, <4>1, <4>2
    <3> QED BY <3>1, <3>2 DEF FoundIsThere, StoresHandler
  <2>3. CASE RegisterCommit(c)
    <3>1. Puts(table, table', Home[h], k, h)
      BY <1>0, <2>3, CommitPuts
    <3>2. table[Home[h]][k].handler = NoHandler
      BY <2>2, <2>3 DEF SlotAsFound, RegisterCommit
    <3> HIDE DEF h, k
    <3> QED BY <2>1, <3>1, <3>2, PutsStep
  <2>4. CASE CancelCommit(c)
    <3>1. Puts(table, table', Home[h], k, NoHandler)
      BY <1>0, <2>4, CommitPuts
    <3>2. table[Home[h]][k].handler = h
      BY <2>2, <2>4 DEF SlotAsFound, CancelCommit
    <3> HIDE DEF h, k
    <3> QED BY <2>1, <3>1, <3>2, PutsStep
  <2> QED BY <1>2, <2>3, <2>4
<1>3. ASSUME NEW h \in Handler, NEW p \in Period, PinInterrupt(h, p)
      PROVE  BagStep(BagOf(table, m), BagOf(table', m), m)
  <2>1. PICK k \in Slot : table[Home[h]][k].handler = NoHandler /\ Puts(table, table', Home[h], k, h)
    BY <1>0, <1>3, PinPuts
  <2>2. Home[h] \in Mode
    BY HandlerAssumption
  <2> QED BY <2>1, <2>2, PutsStep
<1>4. CASE IntVisit
  <2>1. PICK c \in Tables, gone \in SUBSET Handler : Leaves(c, gone) /\ Takes(c, gone)
    BY <1>0, <1>4, VisitPuts
  <2>2. CASE Same(table, c)
    <3>1. BagOf(c, m) = BagOf(table, m)
      BY <2>2, SameBag
    <3>2. CASE Same(c, table')
      <4>1. BagOf(table', m) = BagOf(c, m)
        BY <3>2, SameBag
      <4> QED BY <3>1, <4>1 DEF BagStep
    <3>3. ASSUME NEW g \in Handler, NEW j \in Slot,
                 c[Home[g]][j].handler = NoHandler, Puts(c, table', Home[g], j, g)
          PROVE  BagStep(BagOf(c, m), BagOf(table', m), m)
      <4>1. Home[g] \in Mode
        BY HandlerAssumption
      <4> QED BY <3>3, <4>1, PutsStep
    <3> QED BY <2>1, <3>1, <3>2, <3>3 DEF Takes
  <2>3. ASSUME NEW h \in Handler, NEW k \in Slot,
               Home[h] = "INT", table["INT"][k].handler = h,
               Puts(table, c, "INT", k, NoHandler)
        PROVE  BagStep(BagOf(table, m), BagOf(table', m), m)
    <3>0. "INT" \in Mode
      BY DEF Mode
    <3>1. CASE Same(c, table')
      <4>1. BagOf(table', m) = BagOf(c, m)
        BY <3>1, SameBag
      <4>2. BagStep(BagOf(table, m), BagOf(c, m), m)
        BY <2>3, <3>0, PutsStep
      <4> QED BY <4>1, <4>2
    <3>2. ASSUME NEW g \in Handler, NEW j \in Slot,
                 c[Home[g]][j].handler = NoHandler, Puts(c, table', Home[g], j, g)
          PROVE  BagStep(BagOf(table, m), BagOf(table', m), m)
      <4>0. Home[g] \in Mode
        BY HandlerAssumption
      <4>1. CASE m # Home[g]
        <5>1. BagOf(table', m) = BagOf(c, m)
          BY <3>2, <4>0, <4>1, PutsElsewhere
        <5>2. BagStep(BagOf(table, m), BagOf(c, m), m)
          BY <2>3, <3>0, PutsStep
        <5> QED BY <5>1, <5>2
      <4>2. CASE m = Home[g] /\ m # "INT"
        <5>1. BagOf(c, m) = BagOf(table, m)
          BY <2>3, <3>0, <4>2, PutsElsewhere
        <5>2. BagStep(BagOf(c, m), BagOf(table', m), m)
          BY <3>2, <4>0, PutsStep
        <5> QED BY <5>1, <5>2
      <4>3. CASE m = Home[g] /\ m = "INT"
        <5>1. h \in HandlersOf(m) /\ g \in HandlersOf(m)
          BY <2>3, <4>3 DEF HandlersOf
        <5>2. Cancels(BagOf(table, m), BagOf(c, m), m, h)
          BY <2>3, <4>3, <5>1, PutsCancels
        <5>3. Registers(BagOf(c, m), BagOf(table', m), m, g)
          BY <3>2, <4>3, <5>1, PutsRegisters
        <5>4. BagOf(c, m) = [BagOf(table, m) EXCEPT ![h] = @ - 1]
          BY <5>2 DEF Cancels
        <5> QED BY <5>1, <5>2, <5>3, <5>4 DEF BagStep
      <4> QED BY <4>1, <4>2, <4>3
    <3> QED BY <2>1, <3>1, <3>2 DEF Takes
  <2> QED BY <2>1, <2>2, <2>3 DEF Leaves
<1>5. ASSUME NEW c \in Context, CallStore(c)
      PROVE  BagStep(BagOf(table, m), BagOf(table', m), m)
  <2>1. CASE RegisterCommit(c) \/ CancelCommit(c)
    BY <1>2, <2>1
  <2>2. CASE ~ (RegisterCommit(c) \/ CancelCommit(c))
    BY <1>0, <1>1, <1>5, <2>2, FieldIsSame
  <2> QED BY <2>1, <2>2
<1> QED
  BY <1>0, <1>1, <1>3, <1>4, <1>5, OthersAreSame
  DEF Next, SoftStep, TaskCommit, SoftCommit, Context

\* A step of the bag is one of the abstract specification, for either table.
LEMMA UninterruptedStep ==
    ASSUME BagStep(BagOf(table, "UNINT"), BagOf(table', "UNINT"), "UNINT")
    PROVE  [Uninterrupted!TableNext]_<<[h \in HandlersOf("UNINT") |-> Cardinality(Holders("UNINT", h))]>>
<1> DEFINE e == [h \in HandlersOf("UNINT") |-> Cardinality(Holders("UNINT", h))]
<1>1. e = BagOf(table, "UNINT") /\ e' = BagOf(table', "UNINT")
  BY DEF BagOf, SlotsOf, Holders, HandlersOf
<1>2. \A f : Uninterrupted!HasRoom(f) <=> SumOf(f, "UNINT") < Cap
  BY DEF Uninterrupted!HasRoom, Uninterrupted!Size, Uninterrupted!MapThenSumSet,
         Uninterrupted!MapThenFoldSet, SumOf, MapThenSumSet, MapThenFoldSet
<1>3. CASE e' = e
  BY <1>3
<1>4. ASSUME NEW h \in HandlersOf("UNINT"), Registers(e, e', "UNINT", h)
      PROVE  Uninterrupted!Register(h)
  <2>1. Uninterrupted!HasRoom(e) /\ e' = [e EXCEPT ![h] = @ + 1]
    BY <1>2, <1>4 DEF Registers
  <2> QED BY <2>1 DEF Uninterrupted!Register, Uninterrupted!With
<1>5. ASSUME NEW h \in HandlersOf("UNINT"), Cancels(e, e', "UNINT", h)
      PROVE  Uninterrupted!Cancel(h)
  BY <1>5 DEF Cancels, Uninterrupted!Cancel, Uninterrupted!Without
<1>6. ASSUME NEW h \in HandlersOf("UNINT"), NEW g \in HandlersOf("UNINT"),
             NEW d, d = [e EXCEPT ![h] = @ - 1],
             Cancels(e, d, "UNINT", h), Registers(d, e', "UNINT", g)
      PROVE  Uninterrupted!Replace(h, g)
  <2>1. e[h] > 0 /\ Uninterrupted!HasRoom(d) /\ e' = [d EXCEPT ![g] = @ + 1]
    BY <1>2, <1>6 DEF Registers, Cancels
  <2>2. Uninterrupted!Without(e, h) = d
    BY <1>6, <2>1 DEF Uninterrupted!Without
  <2>3. Uninterrupted!With(d, g) = e'
    BY <2>1 DEF Uninterrupted!With
  <2> QED BY <2>1, <2>2, <2>3 DEF Uninterrupted!Replace
<1> QED BY <1>1, <1>3, <1>4, <1>5, <1>6 DEF BagStep, Uninterrupted!TableNext

LEMMA InterruptedStep ==
    ASSUME BagStep(BagOf(table, "INT"), BagOf(table', "INT"), "INT")
    PROVE  [Interrupted!TableNext]_<<[h \in HandlersOf("INT") |-> Cardinality(Holders("INT", h))]>>
<1> DEFINE e == [h \in HandlersOf("INT") |-> Cardinality(Holders("INT", h))]
<1>1. e = BagOf(table, "INT") /\ e' = BagOf(table', "INT")
  BY DEF BagOf, SlotsOf, Holders, HandlersOf
<1>2. \A f : Interrupted!HasRoom(f) <=> SumOf(f, "INT") < Cap
  BY DEF Interrupted!HasRoom, Interrupted!Size, Interrupted!MapThenSumSet,
         Interrupted!MapThenFoldSet, SumOf, MapThenSumSet, MapThenFoldSet
<1>3. CASE e' = e
  BY <1>3
<1>4. ASSUME NEW h \in HandlersOf("INT"), Registers(e, e', "INT", h)
      PROVE  Interrupted!Register(h)
  <2>1. Interrupted!HasRoom(e) /\ e' = [e EXCEPT ![h] = @ + 1]
    BY <1>2, <1>4 DEF Registers
  <2> QED BY <2>1 DEF Interrupted!Register, Interrupted!With
<1>5. ASSUME NEW h \in HandlersOf("INT"), Cancels(e, e', "INT", h)
      PROVE  Interrupted!Cancel(h)
  BY <1>5 DEF Cancels, Interrupted!Cancel, Interrupted!Without
<1>6. ASSUME NEW h \in HandlersOf("INT"), NEW g \in HandlersOf("INT"),
             NEW d, d = [e EXCEPT ![h] = @ - 1],
             Cancels(e, d, "INT", h), Registers(d, e', "INT", g)
      PROVE  Interrupted!Replace(h, g)
  <2>1. e[h] > 0 /\ Interrupted!HasRoom(d) /\ e' = [d EXCEPT ![g] = @ + 1]
    BY <1>2, <1>6 DEF Registers, Cancels
  <2>2. Interrupted!Without(e, h) = d
    BY <1>6, <2>1 DEF Interrupted!Without
  <2>3. Interrupted!With(d, g) = e'
    BY <2>1 DEF Interrupted!With
  <2> QED BY <2>1, <2>2, <2>3 DEF Interrupted!Replace
<1> QED BY <1>1, <1>3, <1>4, <1>5, <1>6 DEF BagStep, Interrupted!TableNext

\* Every step of the scheduler is, for each of its two tables, a step of the bag of handlers
\* that the driver's modules rely on, or changes nothing in it: whatever the interleaving,
\* as long as no interrupt takes or frees the slot a call has found before the call writes
\* to it (PeriodEvent.c:184-199, 218-234).
THEOREM TablesImplementBags == Spec => TablesAreBags
<1> DEFINE u == [h \in HandlersOf("UNINT") |-> Cardinality(Holders("UNINT", h))]
           i == [h \in HandlersOf("INT") |-> Cardinality(Holders("INT", h))]
<1>1. IInv /\ [Next]_vars => [FoundIsThere => [Uninterrupted!TableNext]_<<u>> /\ [Interrupted!TableNext]_<<i>>]_vars
  <2> SUFFICES ASSUME IInv, [Next]_vars, FoundIsThere
               PROVE  [Uninterrupted!TableNext]_<<u>> /\ [Interrupted!TableNext]_<<i>>
    OBVIOUS
  <2>1. BagStep(BagOf(table, "UNINT"), BagOf(table', "UNINT"), "UNINT")
    BY TablesStep DEF Mode
  <2>2. BagStep(BagOf(table, "INT"), BagOf(table', "INT"), "INT")
    BY TablesStep DEF Mode
  <2> QED BY <2>1, <2>2, UninterruptedStep, InterruptedStep
<1>2. Spec => []IInv
  BY InitHolds, StepHolds, PTL DEF Spec
<1> QED BY <1>1, <1>2, PTL DEF Spec, TablesAreBags, FoundIsThere
=============================================================================
