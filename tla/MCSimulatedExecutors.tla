------------------------ MODULE MCSimulatedExecutors ------------------------
(* A small instance of SimulatedExecutors for TLC.                          *)
EXTENDS SimulatedExecutors

CONSTANTS s1, c1, c2
=============================================================================
