----------------------------- MODULE MCRecording -----------------------------
(* Instances of Recording: one call of run(), during which the store fails   *)
(* once or not at all, the two calls of inject-failure, and the live service,*)
(* which finishes its run a second time.                                     *)
EXTENDS Recording

Once == [horizons |-> <<2>>, live |-> FALSE, outages |-> 1]
Warmed == [horizons |-> <<1, 2>>, live |-> FALSE, outages |-> 0]
Served == [horizons |-> <<2>>, live |-> TRUE, outages |-> 0]

TwoRuns == {Warmed}
EverySession == {Once, Warmed, Served}
=============================================================================
