------------------------------- MODULE MCStudy -------------------------------
(* Study with two interfaces, one of which has two drivers; dicts for one     *)
(* driver, for both, for none, and with a value that cannot be called.        *)
EXTENDS Study, TLC

CONSTANTS run, simulate

MCDrivers == ("one" :> <<"d">>) @@ ("two" :> <<"d", "e">>)

MCDict == {"d" :> run, ("d" :> run) @@ ("e" :> simulate), "x" :> simulate, "d" :> Junk}
==============================================================================
