--------------------------- MODULE MCClientServer ---------------------------
(***************************************************************************)
(* Two callers of one client and a coroutine that reconnects; two writes   *)
(* and a read over two connections, under transaction ids that do not      *)
(* repeat.                                                                 *)
(***************************************************************************)
EXTENDS ClientServer

CONSTANTS a, b, m
=============================================================================
