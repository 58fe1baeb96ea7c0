---------------------------- MODULE PeriodEvent ----------------------------
(***************************************************************************)
(* The event scheduler of NV_Driver_G3/HAL/PeriodEvent.c: two tables of    *)
(* periodic handlers, one scanned by a kernel timer (mode UNINT, every     *)
(* 100 ms, softirq context), one by a hardware timer (mode INT, every      *)
(* millisecond, interrupt context).  Nothing in the code takes a lock.     *)
(*                                                                         *)
(* The HI3507 and HI3518 have one core, so concurrency is preemption: a    *)
(* system call ("task") may be interrupted anywhere by the kernel timer    *)
(* ("soft"), and both by an interrupt handler, which runs to completion.   *)
(* A call made in interrupt context is therefore one step; a call made by  *)
(* a task or by the kernel timer is the search for a slot and, one by one, *)
(* the three stores to the slot found.                                     *)
(***************************************************************************)
EXTENDS Naturals

CONSTANTS
    Handler,      \* the functions that get registered
    NoHandler,    \* NULL
    Cap,          \* slots of a table (DC_HAL_PE_UNINTCap, DC_HAL_PE_INTCap: 8)
    MaxPeriod,    \* bound of the model: periods are 1..MaxPeriod
    Home,         \* the table each handler is registered in
    OneShot,      \* the handlers that cancel themselves, with the first run or a later one
    Follow,       \* the handler a one-shot handler registers, if any
    TaskUse,      \* the handlers system calls register and cancel
    IrqUse        \* the handlers the pin interrupts register

Mode == {"UNINT", "INT"}
Slot == 1 .. Cap
Idle == 0         \* the position of a table that is not being scanned

ASSUME CapAssumption    == Cap \in Nat \ {0}
ASSUME PeriodAssumption == MaxPeriod \in Nat \ {0}
ASSUME HandlerAssumption ==
    /\ NoHandler \notin Handler
    /\ Home \in [Handler -> Mode]
    /\ OneShot \subseteq Handler
    /\ Follow \in [OneShot -> Handler \cup {NoHandler}]
    /\ TaskUse \subseteq Handler
    /\ IrqUse \subseteq Handler

VARIABLES
    table,        \* sPE_RegisterIfo_UNINT, sPE_RegisterIfo_INT
    ticking,      \* the timer of each table is started
    at,           \* the slot each table's scan has reached; not Idle is sPEState's BUSY bit
    stage,        \* of the kernel timer's scan, within the slot at["UNINT"]
    running,      \* the handler the kernel timer has called
    call,         \* per context: the register or cancel call that has found its slot
    raced,        \* history: handlers whose slot another context overwrote
    armed         \* history: handlers registered with success and not yet cancelled

vars == <<table, ticking, at, stage, running, call, raced, armed>>

-----------------------------------------------------------------------------
Entry   == [handler : Handler \cup {NoHandler}, period : 0 .. MaxPeriod, count : Nat]
Free    == [handler |-> NoHandler, period |-> 0, count |-> 0]
Context == {"task", "soft"}
Period  == 1 .. MaxPeriod

NoCall  == [kind |-> "none"]
Calls   == [kind : {"register", "count", "handler"}, handler : Handler, period : Period, slot : Slot]
           \cup [kind : {"cancel", "period", "reset"}, handler : Handler, slot : Slot]

Holders(m, h)  == {k \in Slot : table[m][k].handler = h}
InTable(h)     == Holders(Home[h], h) # {}
IsLowest(k, S) == k \in S /\ \A j \in S : k <= j

\* Who may take a step: an interrupt always, the kernel timer unless an interrupt
\* is being served, a task unless either is.
HardBusy == at["INT"] # Idle
SoftBusy == at["UNINT"] # Idle
MayRun(c) == /\ ~HardBusy
             /\ c = "task" => ~SoftBusy

Init ==
    /\ table   = [m \in Mode |-> [k \in Slot |-> Free]]
    /\ ticking = [m \in Mode |-> TRUE]
    /\ at      = [m \in Mode |-> Idle]
    /\ stage   = "check"
    /\ running = NoHandler
    /\ call    = [c \in Context |-> NoCall]
    /\ raced   = {}
    /\ armed   = {}

-----------------------------------------------------------------------------
(* sfPE_RegisterEvent and sfPE_UnregisterEvent.                            *)

Written(h, p) == [handler |-> h, period |-> p, count |-> 0]

\* The search loop of sfPE_RegisterEvent: the first slot that is free; a full table
\* refuses (-1).
FindFree(c, h, p) ==
    \E k \in Slot :
        /\ IsLowest(k, Holders(Home[h], NoHandler))
        /\ call' = [call EXCEPT ![c] = [kind |-> "register", handler |-> h, period |-> p, slot |-> k]]

RefusedFull(h) == Holders(Home[h], NoHandler) = {}

\* It stores the period and a count of 0 in the slot found ...
RegisterPeriod(c) ==
    LET m == Home[call[c].handler]  k == call[c].slot
    IN  /\ call[c].kind = "register"
        /\ table' = [table EXCEPT ![m][k].period = call[c].period]
        /\ call'  = [call EXCEPT ![c].kind = "count"]
        /\ UNCHANGED <<raced, armed>>

RegisterCount(c) ==
    LET m == Home[call[c].handler]  k == call[c].slot
    IN  /\ call[c].kind = "count"
        /\ table' = [table EXCEPT ![m][k].count = 0]
        /\ call'  = [call EXCEPT ![c].kind = "handler"]
        /\ UNCHANGED <<raced, armed>>

\* ... and last the handler, which makes it an event.
RegisterCommit(c) ==
    LET h == call[c].handler  m == Home[h]  k == call[c].slot
    IN  /\ call[c].kind = "handler"
        /\ table' = [table EXCEPT ![m][k].handler = h]
        /\ raced' = raced \cup ({table[m][k].handler} \ {NoHandler, h})
        /\ armed' = armed \cup {h}
        /\ call'  = [call EXCEPT ![c] = NoCall]

\* The search loop of sfPE_UnregisterEvent: the first slot that holds the handler.
FindHolder(c, h) ==
    \E k \in Slot :
        /\ IsLowest(k, Holders(Home[h], h))
        /\ call' = [call EXCEPT ![c] = [kind |-> "cancel", handler |-> h, slot |-> k]]

\* It stores NULL for the handler ...
CancelCommit(c) ==
    LET h == call[c].handler  m == Home[h]  k == call[c].slot
    IN  /\ call[c].kind = "cancel"
        /\ table' = [table EXCEPT ![m][k].handler = NoHandler]
        /\ raced' = raced \cup ({table[m][k].handler} \ {NoHandler, h})
        /\ armed' = armed \ {h}
        /\ call'  = [call EXCEPT ![c].kind = "period"]

\* ... and 0 for the period and the count, of whatever has been registered there meanwhile.
CancelPeriod(c) ==
    LET m == Home[call[c].handler]  k == call[c].slot
    IN  /\ call[c].kind = "period"
        /\ table' = [table EXCEPT ![m][k].period = 0]
        /\ call'  = [call EXCEPT ![c].kind = "reset"]
        /\ UNCHANGED <<raced, armed>>

CancelCount(c) ==
    LET m == Home[call[c].handler]  k == call[c].slot
    IN  /\ call[c].kind = "reset"
        /\ table' = [table EXCEPT ![m][k].count = 0]
        /\ call'  = [call EXCEPT ![c] = NoCall]
        /\ UNCHANGED <<raced, armed>>

\* The next store of a call that has found its slot.
CallStore(c) ==
    \/ RegisterPeriod(c) \/ RegisterCount(c) \/ RegisterCommit(c)
    \/ CancelCommit(c) \/ CancelPeriod(c) \/ CancelCount(c)

-----------------------------------------------------------------------------
(* System calls: register, cancel, pause and resume of the INT table.      *)

TaskCall(h) ==
    /\ MayRun("task") /\ call["task"] = NoCall
    /\ h \in TaskUse
    /\ (\E p \in Period : FindFree("task", h, p)) \/ FindHolder("task", h)
    /\ UNCHANGED <<table, ticking, at, stage, running, raced, armed>>

TaskCommit ==
    /\ MayRun("task")
    /\ CallStore("task")
    /\ UNCHANGED <<ticking, at, stage, running>>

\* sfPE_Control; ticking["UNINT"] stands for a module that is still initialised.
Control ==
    /\ MayRun("task") /\ call["task"] = NoCall
    /\ ticking["UNINT"]
    /\ \E on \in BOOLEAN : ticking' = [ticking EXCEPT !["INT"] = on]
    /\ UNCHANGED <<table, at, stage, running, call, raced, armed>>

\* sfUnInitDrv_PeroidEvent: the busy-waits find both scans idle, since a task only
\* runs then.
Uninit ==
    /\ MayRun("task") /\ call["task"] = NoCall
    /\ ticking' = [m \in Mode |-> FALSE]
    /\ UNCHANGED <<table, at, stage, running, call, raced, armed>>

-----------------------------------------------------------------------------
(* Interrupts: each handler's calls are atomic, nothing preempts them.     *)

\* A pin interrupt (a button, the PIR sensor) registers a handler.
PinInterrupt(h, p) ==
    /\ ~HardBusy
    /\ h \in IrqUse
    /\ \E k \in Slot :
          /\ IsLowest(k, Holders(Home[h], NoHandler))
          /\ table' = [table EXCEPT ![Home[h]][k] = Written(h, p)]
    /\ armed' = armed \cup {h}
    /\ UNCHANGED <<ticking, at, stage, running, call, raced>>

IntTickBegin ==
    /\ ~HardBusy /\ ticking["INT"]
    /\ at' = [at EXCEPT !["INT"] = 1]
    /\ UNCHANGED <<table, ticking, stage, running, call, raced, armed>>

Advance(m) == at' = [at EXCEPT ![m] = IF @ = Cap THEN Idle ELSE @ + 1]

\* A mutant, which breaks TablesAreBags: every slot that holds the handler is freed.
CancelledAll(t, h) ==
    [t EXCEPT ![Home[h]] = [k \in Slot |-> IF @[k].handler = h THEN Free ELSE @[k]]]

\* Tables t once a handler has cancelled itself: its first slot is free again.
Cancelled(t, h) ==
    LET mine == {k \in Slot : t[Home[h]][k].handler = h}
    IN  [t EXCEPT ![Home[h]] = [k \in Slot |-> IF IsLowest(k, mine) THEN Free ELSE @[k]]]

FreeSlots(t, m) == {k \in Slot : t[m][k].handler = NoHandler}

\* A mutant, which breaks ArmedIsInTable: the first slot is taken, free or not.
RegisteredFirst(t, h, p) == [t EXCEPT ![Home[h]][1] = Written(h, p)]

\* Tables t once h is written to the first free slot, if there is one.
Registered(t, h, p) ==
    LET frees == FreeSlots(t, Home[h])
    IN  [t EXCEPT ![Home[h]] = [k \in Slot |-> IF IsLowest(k, frees) THEN Written(h, p) ELSE @[k]]]

\* What running handler h does to the tables: it may cancel itself (ends), unless it has
\* to run again, and may register Follow[h] (follows).
AfterCancel(h, ends) == IF ends THEN Cancelled(table, h) ELSE table
AfterBody(h, ends, follows, p) ==
    IF follows THEN Registered(AfterCancel(h, ends), Follow[h], p) ELSE AfterCancel(h, ends)

CanFollow(h) == h \in OneShot /\ Follow[h] # NoHandler

\* One turn of the loop of sfPeoridEventHandleINT: count, call when due, reset.
IntVisit ==
    LET k == at["INT"]  e == table["INT"][k]
    IN  /\ HardBusy
        /\ Advance("INT")
        /\ \/ /\ e.handler = NoHandler
              /\ UNCHANGED <<table, armed>>
           \/ /\ e.handler # NoHandler /\ e.count + 1 < e.period
              /\ table' = [table EXCEPT !["INT"][k].count = @ + 1]
              /\ UNCHANGED armed
           \/ /\ e.handler # NoHandler /\ e.count + 1 >= e.period
              /\ \E ends, follows \in BOOLEAN, p \in Period :
                    /\ ends => e.handler \in OneShot
                    /\ follows => CanFollow(e.handler)
                    /\ table' = [AfterBody(e.handler, ends, follows, p) EXCEPT !["INT"][k].count = 0]
                    /\ armed' = (armed \ {h \in {e.handler} : ends}) \cup
                                {g \in Handler : /\ follows /\ g = Follow[e.handler]
                                                 /\ FreeSlots(AfterCancel(e.handler, ends), Home[g]) # {}}
        /\ UNCHANGED <<ticking, stage, running, call, raced>>

-----------------------------------------------------------------------------
(* The kernel timer, sfPeoridEventHandleUNINT: within a slot it checks the *)
(* handler and counts, calls the handler, lets it cancel and register, and *)
(* resets the count.  Interrupts may come between any two of these.        *)

Here == table["UNINT"][at["UNINT"]]

SoftTickBegin ==
    /\ MayRun("task") /\ ticking["UNINT"]
    /\ at' = [at EXCEPT !["UNINT"] = 1]
    /\ stage' = "check"
    /\ UNCHANGED <<table, ticking, running, call, raced, armed>>

\* A mutant, which breaks CallIsSafe: a slot that has counted enough is called, even
\* one that is free.
SoftCheckCountOnly ==
    /\ MayRun("soft") /\ SoftBusy /\ stage = "check"
    /\ LET due == Here.count + 1 >= Here.period
       IN  /\ table' = [table EXCEPT !["UNINT"][at["UNINT"]].count = @ + 1]
           /\ IF due THEN stage' = "call" /\ UNCHANGED at
              ELSE Advance("UNINT") /\ UNCHANGED stage
    /\ UNCHANGED <<ticking, running, call, raced, armed>>

\* A mutant, which breaks EventsFire: the count starts again with every scan.
SoftCheckAnew ==
    /\ MayRun("soft") /\ SoftBusy /\ stage = "check"
    /\ IF Here.handler # NoHandler /\ Here.period <= 1
       THEN stage' = "call" /\ UNCHANGED at
       ELSE Advance("UNINT") /\ UNCHANGED stage
    /\ UNCHANGED <<table, ticking, running, call, raced, armed>>

SoftCheck ==
    /\ MayRun("soft") /\ SoftBusy /\ stage = "check"
    /\ \/ /\ Here.handler = NoHandler
          /\ Advance("UNINT")
          /\ UNCHANGED <<table, stage>>
       \/ /\ Here.handler # NoHandler
          /\ LET due == Here.count + 1 >= Here.period
             IN  /\ table' = [table EXCEPT !["UNINT"][at["UNINT"]].count = @ + 1]
                 /\ IF due THEN stage' = "call" /\ UNCHANGED at
                    ELSE Advance("UNINT") /\ UNCHANGED stage
    /\ UNCHANGED <<ticking, running, call, raced, armed>>

\* The handler field is read again for the call.
SoftCallHandler ==
    /\ MayRun("soft") /\ SoftBusy /\ stage = "call"
    /\ running' = Here.handler
    /\ stage' = IF Here.handler \in OneShot THEN "cancel" ELSE "return"
    /\ UNCHANGED <<table, ticking, at, call, raced, armed>>

\* The called handler cancels itself ...
SoftCancel ==
    /\ MayRun("soft") /\ stage = "cancel" /\ call["soft"] = NoCall
    /\ stage' \in {"return"} \cup {g \in {"register"} : CanFollow(running)}
    /\ FindHolder("soft", running) \/ (~InTable(running) /\ UNCHANGED call)
    /\ UNCHANGED <<table, ticking, at, running, raced, armed>>

\* ... and may register the one that follows it; a full table refuses.
SoftRegister ==
    /\ MayRun("soft") /\ stage = "register" /\ call["soft"] = NoCall
    /\ stage' = "return"
    /\ \/ \E p \in Period : FindFree("soft", Follow[running], p)
       \/ RefusedFull(Follow[running]) /\ UNCHANGED call
    /\ UNCHANGED <<table, ticking, at, running, raced, armed>>

SoftCommit ==
    /\ MayRun("soft")
    /\ CallStore("soft")
    /\ UNCHANGED <<ticking, at, stage, running>>

SoftReturn ==
    /\ MayRun("soft") /\ SoftBusy /\ stage = "return" /\ call["soft"] = NoCall
    /\ table' = [table EXCEPT !["UNINT"][at["UNINT"]].count = 0]
    /\ running' = NoHandler
    /\ stage' = "check"
    /\ Advance("UNINT")
    /\ UNCHANGED <<ticking, call, raced, armed>>

SoftStep == \/ SoftTickBegin \/ SoftCheck \/ SoftCallHandler
            \/ SoftCancel \/ SoftRegister \/ SoftCommit \/ SoftReturn

Next ==
    \/ \E h \in Handler : TaskCall(h)
    \/ TaskCommit
    \/ Control
    \/ Uninit
    \/ \E h \in Handler, p \in Period : PinInterrupt(h, p)
    \/ IntTickBegin
    \/ IntVisit
    \/ SoftStep

Spec == Init /\ [][Next]_vars

\* The hardware timer interrupts again and again, its scan ends, and interrupts leave
\* the kernel timer time to run: they may preempt it for ever often, not for ever.
Fairness == WF_vars(IntVisit) /\ SF_vars(SoftStep)

FairSpec == Spec /\ Fairness

-----------------------------------------------------------------------------
TypeOK ==
    /\ table   \in [Mode -> [Slot -> Entry]]
    /\ ticking \in [Mode -> BOOLEAN]
    /\ at      \in [Mode -> Slot \cup {Idle}]
    /\ stage   \in {"check", "call", "cancel", "register", "return"}
    /\ running \in Handler \cup {NoHandler}
    /\ call    \in [Context -> Calls \cup {NoCall}]
    /\ raced   \subseteq Handler
    /\ armed   \subseteq Handler

\* The scan tests a slot's handler (line 337) and reads it a second time to call it
\* (line 342): no interrupt that comes in between may leave it NULL.
CallIsSafe == stage = "call" /\ SoftBusy => Here.handler # NoHandler

\* A handler whose registration was acknowledged stays in its table until it is
\* cancelled, unless its slot was overwritten by a call that had searched before.
ArmedIsInTable == \A h \in armed \ raced : InTable(h)

\* sfPE_RegisterEvent returns 0, "registered with success": no call takes a slot that
\* another context has filled since the search.
NoRegistrationLost == raced = {}

\* Each registered event of the kernel timer's table is called in the end, or leaves
\* the table, while the timer runs.
EventsFire ==
    \A h \in Handler :
        Home[h] = "UNINT" /\ InTable(h) ~> running = h \/ ~InTable(h) \/ ~ticking["UNINT"]
=============================================================================
