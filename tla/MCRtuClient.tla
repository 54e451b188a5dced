---------------------------- MODULE MCRtuClient ----------------------------
(***************************************************************************)
(* Instances of RtuClient: between them they make a call of each way a     *)
(* frame's size is found.                                                  *)
(***************************************************************************)
EXTENDS RtuClient

Call(unit, fc, content) == [unit |-> unit, fc |-> fc, data |-> content]

CONSTANTS a, b  \* the two coroutines

\* Writes whose units or echoes differ, and a frame with a byte count.
MCCalls == [p \in {a, b} |->
    IF p = a THEN {Call(1, "WRITE_SINGLE_REGISTER", 1),
                   Call(2, "READ_WRITE_MULTIPLE_REGISTERS", 1)}
             ELSE {Call(1, "WRITE_SINGLE_REGISTER", 2),
                   Call(2, "WRITE_SINGLE_REGISTER", 1)}]

\* One coroutine, for the run that reopens the port: the other fixed size, and
\* the frame of many receives.
Few == [p \in {a} |-> {Call(1, "MASK_WRITE_REGISTER", 1), Call(2, DeviceCode, 1)}]

\* Plain reads of one unit, of one and of two registers.
Reads == [p \in {a} |-> {Call(1, "READ_HOLDING_REGISTERS", n) : n \in {1, 2}}]
=============================================================================
