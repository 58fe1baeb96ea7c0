---------------------------- MODULE EventTable ----------------------------
(***************************************************************************)
(* What NV_Driver_G3/HAL/PeriodEvent.c promises the modules that use it,   *)
(* for one of its tables: a bag of registered handlers with room for Cap   *)
(* of them.  A full table refuses; a handler registered twice is called    *)
(* twice; cancelling takes one registration away.  PeriodEventTable shows  *)
(* that the two tables of PeriodEvent implement it.                        *)
(***************************************************************************)
EXTENDS Naturals, FiniteSets, FiniteSetsExt

CONSTANTS
    Handler,      \* the handlers of the table
    Cap           \* its slots (DC_HAL_PE_UNINTCap, less those taken for good)

VARIABLE events   \* how many slots hold each handler

Bags       == [Handler -> 0 .. Cap]
Size(e)    == MapThenSumSet(LAMBDA h : e[h], Handler)
HasRoom(e) == Size(e) < Cap

\* sfPE_RegisterEvent, where there is a slot left; otherwise it returns -1.
With(e, h)    == IF HasRoom(e) THEN [e EXCEPT ![h] = @ + 1] ELSE e

\* sfPE_UnregisterEvent: one of the slots that hold h is cleared.
Without(e, h) == IF e[h] > 0 THEN [e EXCEPT ![h] = @ - 1] ELSE e

TableInit == events = [h \in Handler |-> 0]

Register(h) == HasRoom(events) /\ events' = With(events, h)
Cancel(h)   == events[h] > 0 /\ events' = Without(events, h)

\* A handler that runs may cancel itself and register the one that follows it.
Replace(h, g) == events[h] > 0 /\ events' = With(Without(events, h), g)

TableNext ==
    \/ \E h \in Handler : Register(h) \/ Cancel(h)
    \/ \E h, g \in Handler : Replace(h, g)

TableSpec == TableInit /\ [][TableNext]_events
=============================================================================
