----------------------------- MODULE MCDevices -----------------------------
(***************************************************************************)
(* Requests to the devices of both boards, and temperatures of 20, 54 and  *)
(* 78 degrees.                                                             *)
(***************************************************************************)
EXTENDS Devices

Ask(type, sub, status, level) ==
    [magic |-> TRUE, type |-> type, sub |-> sub, arg |-> [status |-> status, level |-> level]]

MCMaxRequests == [D11 |-> 2, G05 |-> 3]

MCMessage ==
    [D11 |-> {Ask("lens", "set", "night", 0), Ask("lens", "get", "", 0), Ask("lamp", "set", "on", 50),
              Ask("lamp", "get", "", 0)},
     G05 |-> {Ask("device", "get", "", 0), Ask("device", "put", "", 0), Ask("lamp", "get", "", 0),
              [Ask("device", "get", "", 0) EXCEPT !.magic = FALSE],
              Ask("plug", "set", "on", 0), Ask("plug", "get", "", 0),
              Ask("plug", "get mic", "", 0), Ask("plug", "set mic", "on", 0),
              Ask("bell", "set", "tap", 0), Ask("bell", "set", "", 0),
              Ask("lock", "set", "open", 0), Ask("lock", "set", "", 0), Ask("lock", "get", "", 0),
              Ask("eas", "get", "", 0)}]

\* Every code above freezing is read right to two degrees, never too low, and below it the
\* readings are those of a great heat.
ASSUME ReadingIsNear ==
    /\ \A v \in {u \in 0 .. MaxCode : IsAboveZero(u)} : Converted(v) - Meant(v) \in 0 .. 19
    /\ \A v \in {u \in 0 .. MaxCode : ~IsAboveZero(u)} : Converted(v) < AbsZero \/ Converted(v) >= OOH
=============================================================================
