------------------------- MODULE PeriodEventTable -------------------------
(***************************************************************************)
(* The tables of PeriodEvent as bags of handlers: the refinement of        *)
(* EventTable by PeriodEvent.                                              *)
(***************************************************************************)
EXTENDS PeriodEvent, FiniteSets

\* The driver has finitely many functions.
ASSUME FiniteAssumption == IsFiniteSet(Handler)

HandlersOf(m) == {h \in Handler : Home[h] = m}

Uninterrupted == INSTANCE EventTable WITH
    Handler <- HandlersOf("UNINT"),
    events  <- [h \in HandlersOf("UNINT") |-> Cardinality(Holders("UNINT", h))]

Interrupted == INSTANCE EventTable WITH
    Handler <- HandlersOf("INT"),
    events  <- [h \in HandlersOf("INT") |-> Cardinality(Holders("INT", h))]

\* The slot that a call has found is still what the search found: free for a register
\* call, its handler's for a cancel call.
SlotAsFound(c) ==
    LET found == IF call[c].kind = "handler" THEN NoHandler ELSE call[c].handler
    IN  table[Home[call[c].handler]][call[c].slot].handler = found

\* The call's next store is that of the handler, and this step makes it.
StoresHandler(c) == call[c].kind \in {"handler", "cancel"} /\ call'[c] # call[c]

\* Every step of the two tables is a step of the bags of handlers the driver's modules
\* rely on (EventTable), but for the calls whose slot an interrupt has taken or freed
\* between the search and the store of the handler.
TablesAreBags ==
    [][(\A c \in Context : StoresHandler(c) => SlotAsFound(c))
       => /\ [Uninterrupted!TableNext]_<<[h \in HandlersOf("UNINT") |-> Cardinality(Holders("UNINT", h))]>>
          /\ [Interrupted!TableNext]_<<[h \in HandlersOf("INT") |-> Cardinality(Holders("INT", h))]>>]_vars
=============================================================================
