--------------------------- MODULE MCModbusServer ---------------------------
(***************************************************************************)
(* Instances of ModbusServer: two connections, a device with a writable    *)
(* and a read-only holding block, one or two cells in the other areas, and *)
(* one or two frames of every kind of request, good and bad.               *)
(***************************************************************************)
EXTENDS ModbusServer, TLC

CONSTANTS c1, c2, on, off, bit0, bit1, wide

MCBit == {bit0, bit1}

MCValue == [area \in Area |-> IF area \in {"holding_registers", "input_registers"}
                                THEN SUBSET MCBit ELSE {on, off}]

\* A register value above 0xFFFF: what RegisterBlock(values=[70000]) holds.
MCJunk == {{wide}}

Range(first, last, ro) == [first |-> first, last |-> last, readonly |-> ro]

MCExtents == [area \in Area |->
    CASE area = "holding_registers" -> {Range(0, 1, FALSE), Range(2, 2, TRUE)}
      [] area = "coils" -> {Range(0, 1, FALSE)}
      [] OTHER -> {Range(0, 0, FALSE)}]

Filled(value, bit) == [area \in Area |->
    [x \in Addresses(MCExtents[area]) |->
        IF area \in {"holding_registers", "input_registers"} THEN value ELSE bit]]

MCCells == Filled({}, off)

\* Register 1 was configured with a value that does not fit 16 bits.
JunkCells == [MCCells EXCEPT !["holding_registers"][1] = {wide}]

Good(tid, pdu) ==
    [header |-> [tid |-> tid, unit |-> tid, modbus |-> TRUE, length |-> 2],
     pdu |-> pdu @@ [wellformed |-> TRUE]]

Bad(tid, fc) ==
    [header |-> [tid |-> tid, unit |-> tid, modbus |-> TRUE, length |-> 2],
     pdu |-> [fc |-> fc, wellformed |-> FALSE]]

Unframed(modbus, length) ==
    [header |-> [tid |-> 1, unit |-> 1, modbus |-> modbus, length |-> length],
     pdu |-> [fc |-> "NONE"]]

Read(fc, address, count) == [fc |-> fc, address |-> address, count |-> count]
WriteOf(fc, address, values) == [fc |-> fc, address |-> address, values |-> values]
Mask(address, and_mask, or_mask) ==
    [fc |-> "MASK_WRITE_REGISTER", address |-> address,
     and_mask |-> and_mask, or_mask |-> or_mask]
ReadWrite(read_address, read_count, address, values) ==
    [fc |-> "READ_WRITE_MULTIPLE_REGISTERS", read_address |-> read_address,
     read_count |-> read_count, address |-> address, values |-> values]

RegisterFrames == {
    Good(1, Read("READ_HOLDING_REGISTERS", 0, 2)),
    Good(2, WriteOf("WRITE_SINGLE_REGISTER", 2, <<{bit0}>>)),
    Good(1, WriteOf("WRITE_MULTIPLE_REGISTERS", 0, <<{bit0}, {bit1}>>)),
    Good(2, Mask(1, {bit0}, {bit0, bit1})),
    Good(1, ReadWrite(0, 2, 1, <<{bit1}>>)),
    Good(2, ReadWrite(1, 2, 0, <<{bit0}>>))}

OtherFrames == {
    Good(2, Read("READ_COILS", 0, 3)),
    Good(1, Read("READ_DISCRETE_INPUTS", 0, 1)),
    Good(2, Read("READ_INPUT_REGISTERS", 0, 1)),
    Good(1, WriteOf("WRITE_SINGLE_COIL", 1, <<on>>)),
    Good(2, WriteOf("WRITE_MULTIPLE_COILS", 0, <<on, on>>)),
    Good(1, [fc |-> "READ_DEVICE_IDENTIFICATION", read_code |-> 4, object_id |-> 9]),
    Good(2, [fc |-> "CUSTOM"]),
    Bad(1, "WRITE_SINGLE_COIL"),
    Bad(2, "UNKNOWN"),
    Unframed(TRUE, 1), Unframed(TRUE, 0), Unframed(FALSE, 2)}

\* The second client only has frames that could disturb the first one.
DisturbingFrames == {
    Good(3, WriteOf("WRITE_SINGLE_REGISTER", 1, <<{bit0, bit1}>>)),
    Bad(3, "UNKNOWN"),
    Unframed(TRUE, 0)}

MCFrames == [c \in {c1, c2} |-> IF c = c1 THEN RegisterFrames \cup OtherFrames
                                          ELSE DisturbingFrames]

MCLocalWrites == {
    [area |-> "input_registers", address |-> 0, values |-> <<{bit0}>>]}

\* Enough to meet the register that cannot be packed.
JunkFrames == [c \in {c1, c2} |-> IF c = c1 THEN RegisterFrames ELSE {}]
=============================================================================
