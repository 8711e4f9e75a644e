------------------------- MODULE MCSimulationEngine -------------------------
(* Values for the run of SimulationEngine: months of eight days that start *)
(* on different weekdays, with an event in the first and the second.       *)
EXTENDS SimulationEngine

MCEvents == <<2, 2, 4>>
MCStarts == {0, 5, 38}
=============================================================================
