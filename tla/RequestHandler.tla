--------------------------- MODULE RequestHandler ---------------------------
(***************************************************************************)
(* ModbusTcpServer.handle_request (server.py) over the decoded PDUs of     *)
(* protocol/pdu.py: what one request does to the datastore and what it is  *)
(* answered with.  handle_request never awaits, so each operator below is  *)
(* one atomic step of the event loop.                                      *)
(*                                                                         *)
(* The datastore is the AddressSpace that MemoryDataStore implements.  A   *)
(* register holds a set of bits (the ones that are set), so that the masks *)
(* of a mask write are intersections and unions; an integer of more than   *)
(* 16 bits, which only the initial values of a block can be, is a set with *)
(* elements outside Bit.                                                   *)
(***************************************************************************)
EXTENDS AddressRanges

CONSTANTS
    Bit,         \* the bits of a 16-bit register
    Extents,     \* Extents[area]: what the datastore serves
    DeviceObject,\* object ids of the device identification
    CustomCode   \* function codes with a decoder in the registry

Word == SUBSET Bit

ASSUME WordAssumption ==
    /\ Value["holding_registers"] = Word
    /\ Value["input_registers"] = Word

ASSUME ExtentAssumption == \A area \in Area : Extents[area] \subseteq Extent

ReadCode == {"READ_COILS", "READ_DISCRETE_INPUTS",
             "READ_HOLDING_REGISTERS", "READ_INPUT_REGISTERS"}
WriteCode == {"WRITE_SINGLE_COIL", "WRITE_SINGLE_REGISTER",
              "WRITE_MULTIPLE_COILS", "WRITE_MULTIPLE_REGISTERS",
              "MASK_WRITE_REGISTER", "READ_WRITE_MULTIPLE_REGISTERS"}
StandardCode == ReadCode \cup WriteCode \cup {"READ_DEVICE_IDENTIFICATION"}

AreaOf(fc) ==
    CASE fc \in {"READ_COILS", "WRITE_SINGLE_COIL", "WRITE_MULTIPLE_COILS"}
           -> "coils"
      [] fc = "READ_DISCRETE_INPUTS" -> "discrete_inputs"
      [] fc = "READ_INPUT_REGISTERS" -> "input_registers"
      [] OTHER -> "holding_registers"

(***************************************************************************)
(* decode_request_pdu.  A PDU is its function code and its payload, which  *)
(* is malformed when its length, a byte count, the coil value or a field's *)
(* range is wrong; a PDU of no byte has fc "NONE".  A code nobody decodes  *)
(* raises before its payload is looked at.                                 *)
(***************************************************************************)
DecodeRequest(pdu) ==
    CASE pdu.fc = "NONE" -> "ValueError"
      [] pdu.fc \notin StandardCode \cup CustomCode \cup {"NONE"} -> "ModbusPDUError"
      [] OTHER -> IF pdu.wellformed THEN "ok" ELSE "ValueError"

\* The fields of each kind of request, as handle_request takes them.
HasFields(pdu) ==
    /\ pdu.fc \in ReadCode => pdu.address \in Int /\ pdu.count \in Nat
    /\ pdu.fc = "MASK_WRITE_REGISTER" =>
          pdu.address \in Int /\ pdu.and_mask \in Word /\ pdu.or_mask \in Word
    /\ pdu.fc \in WriteCode \ {"MASK_WRITE_REGISTER"} =>
          pdu.address \in Int /\ pdu.values \in Seq(Datum)
    /\ pdu.fc = "READ_WRITE_MULTIPLE_REGISTERS" =>
          pdu.read_address \in Int /\ pdu.read_count \in Nat

\* The result of a request: the response and the store it leaves.
Answered(fc, values, store) ==
    [response |-> [fc |-> fc, kind |-> "normal", values |-> values],
     store |-> store]

Refused(fc, code, store) ==
    [response |-> [fc |-> fc, kind |-> code, values |-> <<>>], store |-> store]

ExceptionCode == {"ILLEGAL_FUNCTION", "ILLEGAL_DATA_ADDRESS", "ILLEGAL_DATA_VALUE"}

CodeFor(outcome) == IF outcome = "InvalidValueError"
                      THEN "ILLEGAL_DATA_VALUE" ELSE "ILLEGAL_DATA_ADDRESS"

IsRefused(result) == result.response.kind # "normal"

HandleRead(fc, store, area, address, count) ==
    LET outcome == ReadOutcome(Extents[area], address, count)
    IN  IF outcome = "ok"
          THEN Answered(fc, Window(store[area], address, count), store)
          ELSE Refused(fc, CodeFor(outcome), store)

HandleWrite(fc, store, area, address, values) ==
    LET outcome == WriteOutcome(area, Extents[area], address, values)
    IN  IF outcome = "ok"
          THEN Answered(fc, <<>>,
                        [store EXCEPT ![area] = Overlay(@, address, values)])
          ELSE Refused(fc, CodeFor(outcome), store)

\* (value & and_mask) | (or_mask & ~and_mask & 0xFFFF)
Masked(word, and_mask, or_mask) == (word \cap and_mask) \cup (or_mask \ and_mask)

HandleMaskWrite(fc, store, address, and_mask, or_mask) ==
    LET read == HandleRead(fc, store, "holding_registers", address, 1)
    IN  IF IsRefused(read) THEN read
        ELSE HandleWrite(fc, store, "holding_registers", address,
                 <<Masked(read.response.values[1], and_mask, or_mask)>>)

\* Mistake: the read range is not looked at before the write.
HandleReadWriteUnchecked(fc, store, read_address, read_count, write_address, values) ==
    LET write == HandleWrite(fc, store, "holding_registers", write_address, values)
    IN  IF IsRefused(write) THEN write
        ELSE HandleRead(fc, write.store, "holding_registers",
                        read_address, read_count)

\* Mistake: the values read before the write are returned.
HandleReadWriteStale(fc, store, read_address, read_count, write_address, values) ==
    LET read == HandleRead(fc, store, "holding_registers", read_address, read_count)
        write == HandleWrite(fc, store, "holding_registers", write_address, values)
    IN  IF IsRefused(read) THEN read
        ELSE IF IsRefused(write) THEN write
        ELSE Answered(fc, read.response.values, write.store)

\* The read range is read once before the write, so that a bad one refuses
\* the request before anything is stored, and once more after it.
HandleReadWrite(fc, store, read_address, read_count, write_address, values) ==
    LET read == HandleRead(fc, store, "holding_registers", read_address, read_count)
        write == HandleWrite(fc, store, "holding_registers", write_address, values)
    IN  IF IsRefused(read) THEN read
        ELSE IF IsRefused(write) THEN write
        ELSE HandleRead(fc, write.store, "holding_registers",
                        read_address, read_count)

HandleRequest(pdu, store) ==
    CASE pdu.fc \in ReadCode ->
           HandleRead(pdu.fc, store, AreaOf(pdu.fc), pdu.address, pdu.count)
      [] pdu.fc = "MASK_WRITE_REGISTER" ->
           HandleMaskWrite(pdu.fc, store, pdu.address, pdu.and_mask, pdu.or_mask)
      [] pdu.fc = "READ_WRITE_MULTIPLE_REGISTERS" ->
           HandleReadWrite(pdu.fc, store, pdu.read_address, pdu.read_count,
                           pdu.address, pdu.values)
      [] pdu.fc \in WriteCode \ {"MASK_WRITE_REGISTER",
                                 "READ_WRITE_MULTIPLE_REGISTERS"} ->
           HandleWrite(pdu.fc, store, AreaOf(pdu.fc), pdu.address, pdu.values)
      [] pdu.fc = "READ_DEVICE_IDENTIFICATION" ->
           IF pdu.read_code = 4 /\ pdu.object_id \notin DeviceObject
             THEN Refused(pdu.fc, "ILLEGAL_DATA_ADDRESS", store)
             ELSE Answered(pdu.fc, <<>>, store)
      [] OTHER -> Refused(pdu.fc, "ILLEGAL_FUNCTION", store)

\* Packing a register that is wider than 16 bits raises struct.error, which
\* is no ValueError; bits are packed by their truth value and never fail.
EncodeRaises(response) ==
    /\ response.kind = "normal"
    /\ AreaOf(response.fc) \in {"holding_registers", "input_registers"}
    /\ \E i \in DOMAIN response.values : response.values[i] \notin Word

\* _encode_exception_response, from the first byte of a PDU (0 if it has none)
ExceptionTo(pdu, code) == [fc |-> pdu.fc, kind |-> code, values |-> <<>>]
=============================================================================
