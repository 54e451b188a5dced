------------------------- MODULE MCModbusTcpClient -------------------------
(***************************************************************************)
(* One client shared by up to two callers of execute and one coroutine     *)
(* that connects and closes.  Two transaction ids, so that they wrap.      *)
(***************************************************************************)
EXTENDS ModbusTcpClient

CONSTANTS a, b, m
=============================================================================
