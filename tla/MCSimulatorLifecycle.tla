------------------------ MODULE MCSimulatorLifecycle ------------------------
(***************************************************************************)
(* Two coroutines, two factories, a restart, and one client connection.    *)
(***************************************************************************)
EXTENDS SimulatorLifecycle

CONSTANTS p1, p2, f1, f2
=============================================================================
