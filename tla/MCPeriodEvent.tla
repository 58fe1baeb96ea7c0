--------------------------- MODULE MCPeriodEvent ---------------------------
(* Two products.  One has a button and a light sensor: the button's        *)
(* interrupt registers its debounce handler in the INT table, that one the *)
(* button's reporter in the UNINT table; system calls register and cancel  *)
(* the light sensor's sampling.  The other has a PIR sensor, whose         *)
(* interrupt registers a report that registers the release of the          *)
(* interrupt, and a state light, scanned in the INT table.                 *)
EXTENDS PeriodEventTable, TLC

CONSTANTS jitters, reporter, sampling, report, release, light

ButtonHandlers == {jitters, reporter, sampling}
ButtonHome     == (jitters :> "INT") @@ (reporter :> "UNINT") @@ (sampling :> "UNINT")
ButtonOneShot  == {jitters, reporter}
ButtonFollow   == (jitters :> reporter) @@ (reporter :> NoHandler)
ButtonTaskUse  == {sampling}
ButtonIrqUse   == {jitters}

PirHandlers == {report, release, light}
PirHome     == (report :> "UNINT") @@ (release :> "UNINT") @@ (light :> "INT")
PirOneShot  == {report, release}
PirFollow   == (report :> release) @@ (release :> NoHandler)
PirTaskUse  == {light}
PirIrqUse   == {report}
=============================================================================
