------------------------------ MODULE Framing ------------------------------
(***************************************************************************)
(* Frames around a PDU: Modbus TCP with its MBAP header (protocol/mbap.py, *)
(* codec.py) and Modbus RTU with its CRC (protocol/rtu.py), and how many   *)
(* bytes of a stream ModbusTcpClient.execute and ModbusRtuClient.execute   *)
(* take for the answer to a request (client.py, rtu_client.py).            *)
(***************************************************************************)
EXTENDS Codec

-----------------------------------------------------------------------------
(***************************************************************************)
(* The CRC.                                                                *)
(***************************************************************************)
\* A table with an entry per byte, as a tuple: TLC computes a tuple once.
Table(entries) == SubSeq(entries, 1, 256)

XorTable ==
    Table([x \in 1 .. 256 |->
        Table([y \in 1 .. 256 |->
            Octet([k \in 1 .. 8 |-> (Bit(x - 1, k) + Bit(y - 1, k)) % 2])])])

\* Exclusive or of bytes and of words
XorByte(x, y) == XorTable[x + 1][y + 1]
Xor(x, y) == 256 * XorByte(x \div 256, y \div 256) + XorByte(x % 256, y % 256)

\* One bit is shifted out; 40961 is 0xA001.
Shifted(v) == IF v % 2 = 1 THEN Xor(v \div 2, 40961) ELSE v \div 2

\* Mistake: seven of the eight bits of a byte are shifted out.
TableEntrySeven(value) ==
    LET after[n \in 0 .. 7] == IF n = 0 THEN value ELSE Shifted(after[n - 1])
    IN  after[7]

\* _crc16_table_entry
TableEntry(value) ==
    LET after[n \in 0 .. 8] == IF n = 0 THEN value ELSE Shifted(after[n - 1])
    IN  after[8]

CRC16_MODBUS_TABLE == Table([i \in 1 .. 256 |-> TableEntry(i - 1)])

\* One round of the loop of crc16_modbus.
CrcAfter(crc, byte) ==
    Xor(crc \div 256, CRC16_MODBUS_TABLE[XorByte(crc % 256, byte) + 1])

crc16_modbus(data) ==
    LET crc[n \in 0 .. Len(data)] ==
            IF n = 0 THEN 65535 ELSE CrcAfter(crc[n - 1], data[n])
    IN  crc[Len(data)]

\* Two bytes, the low one first.
CrcBytes(data) == LET crc == crc16_modbus(data) IN <<crc % 256, crc \div 256>>

-----------------------------------------------------------------------------
(***************************************************************************)
(* Frames.                                                                 *)
(***************************************************************************)
\* MBAPHeader.encode
Header(transaction_id, protocol_id, length, unit_id) ==
    PackWords(<<transaction_id, protocol_id, length>>) \o <<unit_id>>

TcpFrame(transaction_id, unit_id, pdu) ==
    Header(transaction_id, 0, 1 + Len(pdu), unit_id) \o pdu

RtuFrame(unit_id, pdu) ==
    LET message == <<unit_id>> \o pdu IN message \o CrcBytes(message)

\* The PDU of a frame, or what ModbusTCPCodec.decode_response raises before it
\* looks at the PDU.
TcpPdu(data, transaction_id, unit_id) ==
    LET header == UnpackWords(SubSeq(data, 1, 6))
    IN  CASE Len(data) < 7 -> Raises("ModbusFrameError")
          [] Len(data) >= 7 /\ (header[2] # 0 \/ header[3] # Len(data) - 6) ->
               Raises("ModbusFrameError")
          [] OTHER -> IF header[1] = transaction_id /\ data[7] = unit_id
                        THEN Decoded(From(data, 8))
                        ELSE Raises("ModbusResponseMismatchError")

\* Mistake: the CRC is compared with a part of itself.
RtuPduLowCrc(data, unit_id) ==
    LET message == SubSeq(data, 1, Len(data) - 2)
    IN  CASE Len(data) < 4 -> Raises("ModbusFrameError")
          [] Len(data) >= 4 /\ data[Len(data) - 1] # CrcBytes(message)[1] ->
               Raises("ModbusCRCError")
          [] OTHER -> IF data[1] = unit_id
                        THEN Decoded(Tail(message))
                        ELSE Raises("ModbusResponseMismatchError")

\* The same for ModbusRTUCodec.decode_response.
RtuPdu(data, unit_id) ==
    LET message == SubSeq(data, 1, Len(data) - 2)
    IN  CASE Len(data) < 4 -> Raises("ModbusFrameError")
          [] Len(data) >= 4 /\ From(data, Len(data) - 1) # CrcBytes(message) ->
               Raises("ModbusCRCError")
          [] OTHER -> IF data[1] = unit_id
                        THEN Decoded(Tail(message))
                        ELSE Raises("ModbusResponseMismatchError")

-----------------------------------------------------------------------------
(***************************************************************************)
(* What a client takes from a stream.  A size beyond the end of the stream *)
(* means that some receive never has enough and times out.                 *)
(***************************************************************************)
\* ModbusTcpClient.execute: a header, and what its length says less the unit
\* id, which is in the header.
TcpTaken(stream) == 7 + (256 * At(stream, 5) + At(stream, 6)) - 1

RTU_EXCEPTION_RESPONSE_SIZE == 5
RTU_WRITE_REGISTER_RESPONSE_SIZE == 8
RTU_MASK_WRITE_REGISTER_RESPONSE_SIZE == 10

\* Mistake: 0x16 is answered like the other writes.
RtuTakenOneSize(stream, q) ==
    CASE At(stream, 2) >= 128 -> RTU_EXCEPTION_RESPONSE_SIZE
      [] At(stream, 2) < 128 /\ q.by = "standard"
           /\ q.fc \in {WriteSingleCoil, WriteSingleRegister, MaskWriteRegister,
                        WriteMultipleCoils, WriteMultipleRegisters} ->
           RTU_WRITE_REGISTER_RESPONSE_SIZE
      [] OTHER -> 2 + 1 + At(stream, 3) + 2

\* ModbusRtuClient.execute with rtu_response_size_from_prefix,
\* fixed_rtu_response_size and rtu_byte_count_response_size
RtuTaken(stream, q) ==
    LET standard == q.by = "standard"
    IN  CASE At(stream, 2) >= 128 -> RTU_EXCEPTION_RESPONSE_SIZE
          [] At(stream, 2) < 128 /\ standard
               /\ q.fc \in {WriteSingleCoil, WriteSingleRegister,
                            WriteMultipleCoils, WriteMultipleRegisters} ->
               RTU_WRITE_REGISTER_RESPONSE_SIZE
          [] At(stream, 2) < 128 /\ standard /\ q.fc = MaskWriteRegister ->
               RTU_MASK_WRITE_REGISTER_RESPONSE_SIZE
          [] At(stream, 2) < 128 /\ standard /\ q.fc = EncapsulatedInterface ->
               ObjectStart(stream, 9, At(stream, 8)) - 1 + 2
          [] OTHER -> 2 + 1 + At(stream, 3) + 2
=============================================================================
