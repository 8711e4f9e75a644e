------------------------ MODULE MCSimulationControl ------------------------
(* Two threads that serve requests.                                        *)
EXTENDS SimulationControl

CONSTANTS h1, h2
=============================================================================
