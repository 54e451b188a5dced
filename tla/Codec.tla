------------------------------- MODULE Codec -------------------------------
(***************************************************************************)
(* The bytes of a PDU (protocol/pdu.py): how requests and responses are    *)
(* validated, encoded and decoded, and where the decoders of custom        *)
(* function codes come in (protocol/registry.py).                          *)
(*                                                                         *)
(* A request of any class is its function code, its 16-bit fields in the   *)
(* order of their bytes and its list of values; what can be computed from  *)
(* these (counts, byte counts) is not stored.  A bit is 0 or 1, and what   *)
(* is no bool is another number.  by is "standard" for a class of pdu.py;  *)
(* a request of another class has the name of that class, or of the        *)
(* decoder that made it, and its payload as values.                        *)
(***************************************************************************)
EXTENDS Integers, Sequences, FiniteSets, FiniteSetsExt, SequencesExt

MAX_REGISTER_VALUE == 65535

Byte == 0 .. 255
Word == 0 .. MAX_REGISTER_VALUE

COIL_ON == 65280
COIL_OFF == 0
READ_DEVICE_IDENTIFICATION_MEI_TYPE == 14

ReadBits == {1, 2}
ReadRegisters == {3, 4}
WriteSingleCoil == 5
WriteSingleRegister == 6
WriteMultipleCoils == 15
WriteMultipleRegisters == 16
MaskWriteRegister == 22
ReadWriteMultipleRegisters == 23
EncapsulatedInterface == 43

\* The codes whose request is answered by one class, EncapsulatedInterface not
\* among them: there the MEI type decides.
FunctionCode == ReadBits \cup ReadRegisters \cup
    {WriteSingleCoil, WriteSingleRegister, WriteMultipleCoils,
     WriteMultipleRegisters, MaskWriteRegister, ReadWriteMultipleRegisters}

Request(by, fc, fields, values) ==
    [by |-> by, fc |-> fc, fields |-> fields, values |-> values]

\* A response; that of an exception has its code as its only field.  kind is
\* "normal", "exception", or for a custom code "custom" where it is made, and
\* the name of its decoder where it is decoded.
Response(kind, fc, fields, values) ==
    [kind |-> kind, fc |-> fc, fields |-> fields, values |-> values]
Normal(fc, fields, values) == Response("normal", fc, fields, values)
CustomResponse(kind, fc, payload) == Response(kind, fc, <<>>, payload)
ExceptionResponse(fc, code) == Response("exception", fc, <<code>>, <<>>)

\* What a decoder returns or raises.
Decoded(pdu) == [outcome |-> "ok", pdu |-> pdu]
Raises(e) == [outcome |-> e, pdu |-> <<>>]

-----------------------------------------------------------------------------
(***************************************************************************)
(* Bits and words.                                                         *)
(***************************************************************************)
At(data, i) == IF i <= Len(data) THEN data[i] ELSE 0

BytesFor(count) == (count + 7) \div 8

\* What each bit of a byte counts for, the lowest first.
Weight == <<1, 2, 4, 8, 16, 32, 64, 128>>
Bit(byte, k) == (byte \div Weight[k]) % 2
Octet(bits) ==
    bits[1] + 2 * bits[2] + 4 * bits[3] + 8 * bits[4]
        + 16 * bits[5] + 32 * bits[6] + 64 * bits[7] + 128 * bits[8]

pack_bits(values) ==
    [b \in 1 .. BytesFor(Len(values)) |->
        Octet([k \in 1 .. 8 |-> At(values, 8 * (b - 1) + k)])]

unpack_bits(data, count) ==
    [i \in 1 .. count |-> Bit(data[(i - 1) \div 8 + 1], ((i - 1) % 8) + 1)]

\* struct.pack and unpack of ">H", several at a time
PackWords(words) ==
    [i \in 1 .. 2 * Len(words) |->
        IF i % 2 = 1 THEN words[(i + 1) \div 2] \div 256 ELSE words[i \div 2] % 256]
UnpackWords(data) ==
    [i \in 1 .. Len(data) \div 2 |-> 256 * data[2 * i - 1] + data[2 * i]]

From(data, i) == SubSeq(data, i, Len(data))

\* What a frame can carry: the length of a Modbus TCP frame is 16 bits.
IsPDU(pdu) == pdu \in Seq(Byte) /\ Len(pdu) <= 65534

\* The byte count that is the i-th of the payload covers the rest of it.
CountsRest(payload, i) == Len(payload) >= i /\ payload[i] = Len(payload) - i

-----------------------------------------------------------------------------
(***************************************************************************)
(* Requests.                                                               *)
(***************************************************************************)
AreWords(values) == \A i \in DOMAIN values : values[i] \in Word
AreBools(values) == \A i \in DOMAIN values : values[i] \in {0, 1}

\* MAX_READ_BITS, MAX_READ_REGISTERS
MaxRead(fc) == IF fc \in ReadBits THEN 2000 ELSE 125

\* Mistake: the bytes before the values of 0x17 are those of 0x10.
MaxWrittenAsMany(fc) == IF fc = WriteMultipleCoils THEN 1968 ELSE 123

\* MAX_WRITE_BITS, MAX_WRITE_REGISTERS, MAX_READ_WRITE_REGISTERS_WRITE
MaxWritten(fc) ==
    CASE fc = WriteMultipleCoils -> 1968
      [] fc = WriteMultipleRegisters -> 123
      [] fc = ReadWriteMultipleRegisters -> 121

\* __post_init__ of the standard classes; the fields of each are
\*   reads                  address, count
\*   writes of one or many  address (of one register: address, value)
\*   mask write             address, and_mask, or_mask
\*   read/write             read_address, read_count, write_address
\*   device identification  read_code, object_id
PostInit(q) ==
    q.by = "standard" =>
        /\ AreWords(q.fields)
        /\ q.fc \in ReadBits \cup ReadRegisters \cup {ReadWriteMultipleRegisters} =>
             q.fields[2] \in 1 .. MaxRead(q.fc)
        /\ q.fc \in {WriteMultipleCoils, WriteMultipleRegisters,
                     ReadWriteMultipleRegisters} =>
             Len(q.values) \in 1 .. MaxWritten(q.fc)
        /\ q.fc \in {WriteSingleCoil, WriteMultipleCoils} => AreBools(q.values)
        /\ AreWords(q.values)
        /\ q.fc = EncapsulatedInterface =>
             q.fields[1] \in 1 .. 4 /\ q.fields[2] \in Byte

\* What the constructors are given: integers, as many as there are fields.  A
\* class of the application is one whose requests fit a PDU.
FieldCount(fc) ==
    CASE fc \in ReadBits \cup ReadRegisters \cup
                 {WriteSingleRegister, EncapsulatedInterface} -> 2
      [] fc \in {WriteSingleCoil, WriteMultipleCoils, WriteMultipleRegisters} -> 1
      [] OTHER -> 3

IsRequest(q) ==
    /\ q = Request(q.by, q.fc, q.fields, q.values)
    /\ IF q.by = "standard"
         THEN /\ q.fc \in FunctionCode \cup {EncapsulatedInterface}
              /\ q.fields \in Seq(Int) /\ Len(q.fields) = FieldCount(q.fc)
              /\ q.values \in Seq(Int)
              /\ q.fc = WriteSingleCoil => Len(q.values) = 1
              /\ q.fc \notin {WriteSingleCoil, WriteMultipleCoils,
                              WriteMultipleRegisters, ReadWriteMultipleRegisters} =>
                   q.values = <<>>
         ELSE /\ q.fc \in 0 .. 127 /\ q.fields = <<>>
              /\ q.values \in Seq(Byte) /\ Len(q.values) <= 252

CoilWord(bit) == IF bit = 1 THEN COIL_ON ELSE COIL_OFF

\* encode of the request classes
EncodeRequest(q) ==
    LET fields == PackWords(q.fields)
        count == PackWords(<<Len(q.values)>>)
        bits == pack_bits(q.values)
        words == PackWords(q.values)
    IN  <<q.fc>> \o
        CASE q.by # "standard" -> q.values
          [] q.by = "standard" /\ q.fc = WriteSingleCoil ->
               fields \o PackWords(<<CoilWord(q.values[1])>>)
          [] q.by = "standard" /\ q.fc = WriteMultipleCoils ->
               fields \o count \o <<Len(bits)>> \o bits
          [] q.by = "standard" /\ q.fc \in {WriteMultipleRegisters,
                                            ReadWriteMultipleRegisters} ->
               fields \o count \o <<Len(words)>> \o words
          [] q.by = "standard" /\ q.fc = EncapsulatedInterface ->
               <<READ_DEVICE_IDENTIFICATION_MEI_TYPE>> \o q.fields
          [] OTHER -> fields

\* Mistake: only the bytes are counted.
CountedBytes(payload, i, count) == CountsRest(payload, i) /\ payload[i] % 2 = 0

\* The byte count that is the i-th of the payload is right, and is that of
\* so many registers.
Counted(payload, i, count) ==
    CountsRest(payload, i) /\ payload[i] % 2 = 0 /\ count = payload[i] \div 2

\* The checks of decode_request_pdu before it builds the request.
WellFormed(fc, payload) ==
    CASE fc \in ReadBits \cup ReadRegisters \cup {WriteSingleRegister} ->
           Len(payload) = 4
      [] fc = WriteSingleCoil ->
           Len(payload) = 4 /\ UnpackWords(payload)[2] \in {COIL_ON, COIL_OFF}
      [] fc = WriteMultipleCoils ->
           CountsRest(payload, 5) /\ payload[5] >= BytesFor(UnpackWords(payload)[2])
      [] fc = WriteMultipleRegisters ->
           Len(payload) >= 5 /\ Counted(payload, 5, UnpackWords(payload)[2])
      [] fc = MaskWriteRegister -> Len(payload) = 6
      [] fc = ReadWriteMultipleRegisters ->
           Len(payload) >= 9 /\ Counted(payload, 9, UnpackWords(payload)[4])
      [] OTHER -> Len(payload) = 3

\* The request it builds from a payload that passed them.
Parsed(fc, payload) ==
    LET words == UnpackWords(payload)
        values == CASE fc = WriteSingleCoil -> <<IF words[2] = COIL_ON THEN 1 ELSE 0>>
                    [] fc = WriteMultipleCoils -> unpack_bits(From(payload, 6), words[2])
                    [] fc = WriteMultipleRegisters -> UnpackWords(From(payload, 6))
                    [] fc = ReadWriteMultipleRegisters -> UnpackWords(From(payload, 10))
                    [] OTHER -> <<>>
        fields == CASE fc \in {WriteSingleCoil, WriteMultipleCoils,
                               WriteMultipleRegisters} -> <<words[1]>>
                    [] fc = ReadWriteMultipleRegisters -> SubSeq(words, 1, 3)
                    [] fc = EncapsulatedInterface -> Tail(payload)
                    [] OTHER -> words
    IN  Request("standard", fc, fields, values)

\* Whether decode_request_pdu decodes a PDU itself.
IsStandard(fc, payload) ==
    \/ fc \in FunctionCode
    \/ /\ fc = EncapsulatedInterface /\ payload # <<>>
       /\ Head(payload) = READ_DEVICE_IDENTIFICATION_MEI_TYPE

\* Mistake: the registry is asked first.
DecodeRequestCustomFirst(data, decoders) ==
    LET fc == Head(data)
        payload == Tail(data)
    IN  CASE data = <<>> -> Raises("ValueError")
          [] data # <<>> /\ fc \in DOMAIN decoders ->
               Decoded(Request(decoders[fc], fc, <<>>, payload))
          [] OTHER ->
               IF ~IsStandard(fc, payload) THEN Raises("ModbusPDUError")
               ELSE IF WellFormed(fc, payload) /\ PostInit(Parsed(fc, payload))
               THEN Decoded(Parsed(fc, payload)) ELSE Raises("ValueError")

\* decode_request_pdu and registry.decode_request.  decoders maps function
\* codes to the decoders registered for them; a decoder takes any payload.
DecodeRequest(data, decoders) ==
    LET fc == Head(data)
        payload == Tail(data)
    IN  CASE data = <<>> -> Raises("ValueError")
          [] data # <<>> /\ IsStandard(fc, payload) ->
               IF WellFormed(fc, payload) /\ PostInit(Parsed(fc, payload))
                 THEN Decoded(Parsed(fc, payload)) ELSE Raises("ValueError")
          [] OTHER ->
               IF fc \in DOMAIN decoders
                 THEN Decoded(Request(decoders[fc], fc, <<>>, payload))
                 ELSE Raises("ModbusPDUError")

-----------------------------------------------------------------------------
(***************************************************************************)
(* Responses.                                                              *)
(***************************************************************************)
EncodeObject(object) == <<object.id, Len(object.value)>> \o object.value

\* encode of the response classes; the fields of each are
\*   writes                 those of the request, with the value or the count
\*   device identification  read_code, conformity_level, more_follows (0, 1),
\*                          next_object_id
EncodeResponse(r) ==
    LET words == PackWords(r.values)
        bits == pack_bits(r.values)
    IN  CASE r.kind = "exception" ->
               <<IF r.fc < 128 THEN r.fc + 128 ELSE r.fc>> \o r.fields
          [] r.kind = "normal" /\ r.fc \in ReadBits -> <<r.fc, Len(bits)>> \o bits
          [] r.kind = "normal" /\ r.fc \in ReadRegisters \cup {ReadWriteMultipleRegisters} ->
               <<r.fc, Len(words)>> \o words
          [] r.kind = "normal" /\ r.fc = WriteSingleCoil ->
               <<r.fc>> \o PackWords(r.fields \o <<CoilWord(r.values[1])>>)
          [] r.kind = "normal" /\ r.fc = EncapsulatedInterface ->
               <<r.fc, READ_DEVICE_IDENTIFICATION_MEI_TYPE, r.fields[1], r.fields[2],
                 IF r.fields[3] = 1 THEN 255 ELSE 0, r.fields[4], Len(r.values)>>
               \o FlattenSeq([i \in DOMAIN r.values |-> EncodeObject(r.values[i])])
          [] r.kind = "custom" -> <<r.fc>> \o r.values
          [] OTHER -> <<r.fc>> \o PackWords(r.fields)

\* Where the object after n others begins, when they begin at the i-th byte; a
\* place beyond the one after the last byte when there are too few for them.
ObjectStart(data, i, n) ==
    LET after[j \in Nat] == j + 2 + At(data, j + 1)
        start[k \in 0 .. n] == IF k = 0 THEN i ELSE after[start[k - 1]]
    IN  start[n]

\* The n objects from the i-th byte on.
ObjectsFrom(payload, i, n) ==
    LET start == [k \in 1 .. n |-> ObjectStart(payload, i, k - 1)]
    IN  [k \in 1 .. n |->
            [id |-> payload[start[k]],
             value |-> SubSeq(payload, start[k] + 2, start[k] + 1 + payload[start[k] + 1])]]

\* What the decode methods of the response classes, and decode_response_pdu
\* after them, ask of the payload of an answer to q.  The number of registers
\* of a plain read is not compared with q.
Accepted(q, payload) ==
    CASE q.fc \in ReadBits ->
           CountsRest(payload, 1) /\ payload[1] >= BytesFor(q.fields[2])
      [] q.fc \in ReadRegisters -> CountsRest(payload, 1) /\ payload[1] % 2 = 0
      [] q.fc = ReadWriteMultipleRegisters ->
           Len(payload) >= 1 /\ Counted(payload, 1, q.fields[2])
      [] q.fc = EncapsulatedInterface ->
           /\ Len(payload) >= 6
           /\ payload[1] = READ_DEVICE_IDENTIFICATION_MEI_TYPE
           /\ payload[2] = q.fields[1]
           /\ payload[3] \in {1, 2, 3, 129, 130, 131}
           /\ payload[4] \in {0, 255}
           /\ ObjectStart(payload, 7, payload[6]) = Len(payload) + 1
           /\ LET objects == ObjectsFrom(payload, 7, payload[6])
              IN  \A i \in DOMAIN objects : Len(objects[i].value) <= 244
      [] q.fc = WriteSingleCoil ->
           Len(payload) = 4 /\ UnpackWords(payload)[2] \in {COIL_ON, COIL_OFF}
      [] q.fc = MaskWriteRegister -> Len(payload) = 6
      [] OTHER -> Len(payload) = 4

\* The response they make of it.
ParsedResponse(q, payload) ==
    LET words == UnpackWords(payload)
    IN  CASE q.fc \in ReadBits ->
               Normal(q.fc, <<>>, unpack_bits(Tail(payload), q.fields[2]))
          [] q.fc \in ReadRegisters \cup {ReadWriteMultipleRegisters} ->
               Normal(q.fc, <<>>, UnpackWords(Tail(payload)))
          [] q.fc = EncapsulatedInterface ->
               Normal(q.fc,
                      <<payload[2], payload[3], payload[4] \div 255, payload[5]>>,
                      ObjectsFrom(payload, 7, payload[6]))
          [] q.fc = WriteSingleCoil ->
               Normal(q.fc, <<words[1]>>, <<IF words[2] = COIL_ON THEN 1 ELSE 0>>)
          [] OTHER -> Normal(q.fc, words, <<>>)

\* Whether decode_response_pdu decodes answers to q itself.  A request of a
\* class that is not of pdu.py must have a code that no isinstance guards.
StandardAnswer(q) ==
    \/ q.by = "standard"
    \/ q.fc \in FunctionCode \ (ReadBits \cup {ReadWriteMultipleRegisters})

\* decode_response_pdu and registry.decode_response
DecodeResponse(data, q, decoders) ==
    LET fc == Head(data)
        payload == Tail(data)
    IN  CASE data = <<>> -> Raises("ValueError")
          [] data # <<>> /\ fc >= 128 ->
               IF fc - 128 = q.fc /\ Len(payload) = 1
                 THEN Decoded(ExceptionResponse(q.fc, payload[1]))
                 ELSE Raises("ValueError")
          [] data # <<>> /\ fc < 128 /\ (fc # q.fc \/ StandardAnswer(q)) ->
               IF fc = q.fc /\ Accepted(q, payload)
                 THEN Decoded(ParsedResponse(q, payload)) ELSE Raises("ValueError")
          [] OTHER ->
               IF q.fc \in DOMAIN decoders /\ q.fc \notin FunctionCode
                 THEN Decoded(CustomResponse(decoders[q.fc], q.fc, payload)) ELSE Raises("ValueError")

\* Mistake: the count of a write of several is not compared.
EchoesAddress(q, r) ==
    CASE q.fc \in {WriteSingleCoil, WriteSingleRegister, MaskWriteRegister} ->
           r.fields = q.fields /\ r.values = q.values
      [] q.fc \in {WriteMultipleCoils, WriteMultipleRegisters} ->
           r.fields[1] = q.fields[1]
      [] OTHER -> TRUE

\* The comparisons of client_helpers.py between a write and its echo.
Echoes(q, r) ==
    CASE q.fc \in {WriteSingleCoil, WriteSingleRegister, MaskWriteRegister} ->
           r.fields = q.fields /\ r.values = q.values
      [] q.fc \in {WriteMultipleCoils, WriteMultipleRegisters} ->
           r.fields = <<q.fields[1], Len(q.values)>>
      [] OTHER -> TRUE

\* A helper of client_helpers.py after execute has returned; for a request of
\* another class the caller has only execute.
HelperReturns(q, result) ==
    CASE result.outcome # "ok" \/ q.by # "standard" -> result
      [] OTHER ->
           CASE result.pdu.kind = "exception" ->
                  [result EXCEPT !.outcome = "ModbusExceptionResponseError"]
             [] result.pdu.kind = "normal" /\ ~Echoes(q, result.pdu) ->
                  Raises("ModbusResponseMismatchError")
             [] OTHER -> result
=============================================================================
