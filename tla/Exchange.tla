------------------------------ MODULE Exchange ------------------------------
(***************************************************************************)
(* One exchange, byte by byte: a helper of client_helpers.py (or a caller  *)
(* of execute) makes a request, its frame reaches a device, the device's   *)
(* frame comes back, and the client makes a result of it.  A caller that   *)
(* reads the device identification asks again for as long as more_follows. *)
(*                                                                         *)
(* The device is a ModbusTcpServer, or another device, or one at the end   *)
(* of a noisy serial line; and the server may get a request of another     *)
(* client.  The application registers decoders for custom function codes   *)
(* beforehand, in the registry that client and server share.               *)
(***************************************************************************)
EXTENDS Framing, DeviceIdentification

CONSTANTS
    Session,         \* bound: who asks whom for what (see IsSession)
    Code, Decoder,   \* bound: what is registered: codes, and decoders by name
    BitPattern(_),   \* bound: the lists of so many bits a device may hold,
    WordPattern(_),  \*   ... and of words
    Near(_)          \* bound: what another peer sends for the right bytes

\* kind is
\*   "call"             a call to a server
\*   "walk"             calls to a server, while more follows
\*   "foreign_request"  a request of another client to a server
\*   "foreign_answer"   a call to another device, which answers something
\*   "device"           the same, with the right answer, on a line that may
\*                      flip some of its bits
\* For a foreign request the request is that it resembles.
IsSession(s) ==
    /\ s.kind \in {"call", "walk", "foreign_request", "foreign_answer", "device"}
    /\ s.link \in {"tcp", "rtu"}
    /\ s.link = "rtu" => s.kind \in {"foreign_answer", "device"}
    /\ s.flips # 0 => s.kind = "device" /\ s.link = "rtu"
    /\ IsRequest(s.request)
    /\ s.kind = "walk" => /\ s.request.by = "standard" /\ PostInit(s.request)
                         /\ s.request.fc = EncapsulatedInterface
    /\ IsTable(s.table)
    /\ s.registrations \in Nat /\ s.flips \in Nat

ASSUME SessionAssumption == \A s \in Session : IsSession(s)

\* The names that tell the library's own classes apart name no decoder.
ASSUME DecoderAssumption ==
    Decoder \cap {"none", "standard", "normal", "exception", "custom"} = {}

VARIABLES
    session,            \* an element of Session
    attempts,           \* the registrations the application has tried
    request_decoders,   \* CustomFunctionCodeRegistry.request_decoders
    response_decoders,  \* CustomFunctionCodeRegistry.response_decoders
    pc,                 \* what happens next
    request,            \* the request that is made
    frame,              \* the bytes on their way
    arrived,            \* what the server decoded
    answer,             \* the response the device made
    sent,               \* its frame as it was sent
    flips,              \* how many of its bits were flipped
    result,             \* what the caller gets
    received            \* ids of the objects of all responses, in their order

registry == <<attempts, request_decoders, response_decoders>>
vars == <<session, registry, pc, request, frame, arrived, answer, sent,
          flips, result, received>>

\* The ids on the frames: those of other frames are compared in ModbusTcpClient.
Tid == 1
Unit == 1

Nothing == [outcome |-> "none", pdu |-> <<>>]

Init ==
    /\ session \in Session
    /\ attempts = <<>>
    /\ request_decoders = <<>> /\ response_decoders = <<>>
    /\ pc = "start"
    /\ request = session.request
    /\ frame = <<>> /\ sent = <<>> /\ flips = 0
    /\ arrived = Nothing /\ answer = <<>> /\ result = Nothing
    /\ received = <<>>

-----------------------------------------------------------------------------
(***************************************************************************)
(* The registry.                                                           *)
(***************************************************************************)
\* Mistake: a later decoder replaces an earlier one.
RegisteredReplacing(decoders, code, decoder) ==
    IF code \in 0 .. 127
      THEN [c \in DOMAIN decoders \cup {code} |->
               IF c = code THEN decoder ELSE decoders[c]]
      ELSE decoders

\* register_request_decoder and register_response_decoder, which raise
\* ValueError and change nothing for another code, or a code that is taken.
Registered(decoders, code, decoder) ==
    IF code \in 0 .. 127 /\ code \notin DOMAIN decoders
      THEN [c \in DOMAIN decoders \cup {code} |->
               IF c = code THEN decoder ELSE decoders[c]]
      ELSE decoders

Register(of, code, decoder) ==
    /\ pc = "start" /\ Len(attempts) < session.registrations
    /\ attempts' = Append(attempts, [of |-> of, code |-> code, decoder |-> decoder])
    /\ request_decoders' = IF of = "request" THEN Registered(request_decoders, code, decoder)
                                             ELSE request_decoders
    /\ response_decoders' = IF of = "response" THEN Registered(response_decoders, code, decoder)
                                               ELSE response_decoders
    /\ UNCHANGED <<session, pc, request, frame, arrived, answer, sent, flips, result, received>>

-----------------------------------------------------------------------------
(***************************************************************************)
(* The client's request.                                                   *)
(***************************************************************************)
Framed(pdu) == IF session.link = "tcp" THEN TcpFrame(Tid, Unit, pdu) ELSE RtuFrame(Unit, pdu)

\* A helper makes its request, whose __post_init__ may raise, and execute
\* encodes and sends it.
Call ==
    /\ pc \in {"start", "again"} /\ session.kind # "foreign_request"
    /\ IF PostInit(request)
         THEN /\ frame' = Framed(EncodeRequest(request))
              /\ pc' = "requested"
              /\ UNCHANGED result
         ELSE /\ result' = Raises("ValueError")
              /\ pc' = "done"
              /\ UNCHANGED frame
    /\ UNCHANGED <<session, registry, request, arrived, answer, sent, flips, received>>

\* Another client sends a PDU that resembles that of the request, in a frame.
ForeignRequest ==
    /\ pc = "start" /\ session.kind = "foreign_request"
    /\ \E pdu \in Near(EncodeRequest(request)) :
          IsPDU(pdu) /\ frame' = TcpFrame(Tid, Unit, pdu)
    /\ pc' = "requested"
    /\ UNCHANGED <<session, registry, request, arrived, answer, sent, flips, result, received>>

-----------------------------------------------------------------------------
(***************************************************************************)
(* Devices.                                                                *)
(***************************************************************************)
Object(id, size) == [id |-> id, value |-> [i \in 1 .. size |-> id]]

\* _read_device_identification.  The CHOOSE in Fit is unique, as every object
\* takes two bytes or more.
Identification(q, table) ==
    LET read_code == q.fields[1]
        ids == Select(read_code, q.fields[2], table)
        n == Fit(ids, table)
    IN  IF read_code = 4 /\ q.fields[2] \notin DOMAIN table
          THEN ExceptionResponse(q.fc, 2)
          ELSE Normal(q.fc,
                      <<read_code, ConformityLevel(table), IF n < Len(ids) THEN 1 ELSE 0,
                        NextObjectId(ids, n)>>,
                      [i \in 1 .. n |-> Object(ids[i], table[ids[i]])])

\* Those of the lists that are n values of S.
Held(lists, n, S) == {v \in lists : v \in [1 .. n -> S]}

\* handle_request, with any datastore behind it: the requested data or the
\* echo, or what the datastore raises.  A custom request is not handled.
Responses(q) ==
    LET refusals == {ExceptionResponse(q.fc, code) : code \in {2, 3}}
    IN  CASE q.by # "standard" -> {ExceptionResponse(q.fc, 1)}
          [] q.by = "standard" /\ q.fc = EncapsulatedInterface ->
               {Identification(q, session.table)}
          [] OTHER ->
               refusals \cup
               CASE q.fc \in ReadBits ->
                      {Normal(q.fc, <<>>, v) :
                          v \in Held(BitPattern(q.fields[2]), q.fields[2], {0, 1})}
                 [] q.fc \in ReadRegisters \cup {ReadWriteMultipleRegisters} ->
                      {Normal(q.fc, <<>>, v) :
                          v \in Held(WordPattern(q.fields[2]), q.fields[2], Word)}
                 [] q.fc \in {WriteMultipleCoils, WriteMultipleRegisters} ->
                      {Normal(q.fc, <<q.fields[1], Len(q.values)>>, <<>>)}
                 [] OTHER -> {Normal(q.fc, q.fields, q.values)}

\* A device that knows custom codes answers those with their payload.
DeviceResponses(q) ==
    IF q.by = "standard" THEN Responses(q)
    ELSE {CustomResponse("custom", q.fc, q.values), ExceptionResponse(q.fc, 1)}

\* _handle_client: the exceptions of decoding are answered, with the function
\* code of the PDU, or 0 for an empty one.
Serve ==
    /\ pc = "requested" /\ session.kind \in {"call", "walk", "foreign_request"}
    /\ \E pdu \in {From(frame, 8)} : arrived' = DecodeRequest(pdu, request_decoders)
    /\ LET fc == IF Len(frame) = 7 THEN 0 ELSE frame[8]
       IN  \E r \in CASE arrived'.outcome = "ok" -> Responses(arrived'.pdu)
                      [] arrived'.outcome = "ModbusPDUError" -> {ExceptionResponse(fc, 1)}
                      [] OTHER -> {ExceptionResponse(fc, 3)} :
             /\ answer' = r
             /\ sent' = TcpFrame(Tid, Unit, EncodeResponse(r))
    /\ frame' = sent'
    /\ pc' = IF session.kind = "foreign_request" THEN "done" ELSE "answered"
    /\ UNCHANGED <<session, registry, request, flips, result, received>>

\* Another device sends something like one of the possible answers.
ForeignAnswer ==
    /\ pc = "requested" /\ session.kind = "foreign_answer"
    /\ \E r \in DeviceResponses(request) :
          /\ answer' = r
          /\ sent' = Framed(EncodeResponse(r))
          /\ \E pdu \in Near(EncodeResponse(r)) : IsPDU(pdu) /\ frame' = Framed(pdu)
    /\ pc' = "answered"
    /\ UNCHANGED <<session, registry, request, arrived, flips, result, received>>

\* Another device answers ...
Answer ==
    /\ pc = "requested" /\ session.kind = "device"
    /\ \E r \in DeviceResponses(request) :
          /\ answer' = r
          /\ sent' = Framed(EncodeResponse(r))
    /\ frame' = sent'
    /\ pc' = "answered"
    /\ UNCHANGED <<session, registry, request, arrived, flips, result, received>>

\* ... and a bit of its frame is flipped on the serial line.
Flip(byte, k) == IF Bit(byte, k) = 1 THEN byte - Weight[k] ELSE byte + Weight[k]

Noise ==
    /\ pc = "answered" /\ flips < session.flips
    /\ \E i \in DOMAIN frame, k \in 1 .. 8 : frame' = [frame EXCEPT ![i] = Flip(@, k)]
    /\ flips' = flips + 1
    /\ UNCHANGED <<session, registry, pc, request, arrived, answer, sent, result, received>>

-----------------------------------------------------------------------------
(***************************************************************************)
(* The result.                                                             *)
(***************************************************************************)
Taken == IF session.link = "tcp" THEN TcpTaken(frame) ELSE RtuTaken(frame, request)

\* execute: what it receives, the frame's checks and the PDU's.  A receive of
\* no byte raises ValueError.
Executed ==
    LET data == SubSeq(frame, 1, Taken)
        pdu == IF session.link = "tcp" THEN TcpPdu(data, Tid, Unit) ELSE RtuPdu(data, Unit)
    IN  CASE Taken > Len(frame) -> Raises("ModbusTimeoutError")
          [] Taken <= Len(frame) /\ Taken <= 7 /\ session.link = "tcp" -> Raises("ValueError")
          [] OTHER -> IF pdu.outcome = "ok"
                        THEN DecodeResponse(pdu.pdu, request, response_decoders)
                        ELSE pdu

Ids(r) == [i \in DOMAIN r.values |-> r.values[i].id]

\* execute and the helper return, or raise; a walk goes on while more follows.
Return ==
    /\ pc = "answered"
    /\ result' = HelperReturns(request, Executed)
    /\ IF session.kind = "walk" /\ result'.outcome = "ok"
         THEN /\ received' = received \o Ids(result'.pdu)
              /\ IF result'.pdu.fields[3] = 1
                   THEN /\ pc' = "again"
                        /\ request' = [request EXCEPT !.fields[2] = result'.pdu.fields[4]]
                   ELSE pc' = "done" /\ UNCHANGED request
         ELSE pc' = "done" /\ UNCHANGED <<request, received>>
    /\ UNCHANGED <<session, registry, frame, arrived, answer, sent, flips>>

Next ==
    \/ \E of \in {"request", "response"}, code \in Code, decoder \in Decoder :
          Register(of, code, decoder)
    \/ Call \/ ForeignRequest \/ Serve \/ ForeignAnswer \/ Answer \/ Noise \/ Return

\* A walk goes on: its caller asks again, and nothing waits for ever, as a
\* receive times out.
Spec ==
    /\ Init /\ [][Next]_vars
    /\ WF_vars(session.kind = "walk" /\ (Call \/ Serve \/ Return))

-----------------------------------------------------------------------------
(***************************************************************************)
(* Properties.                                                             *)
(***************************************************************************)
Outcomes == {"none", "ok", "ValueError", "ModbusTimeoutError", "ModbusFrameError",
             "ModbusCRCError", "ModbusResponseMismatchError",
             "ModbusExceptionResponseError", "ModbusPDUError"}

\* The types, and the limits of a frame: whatever client and server of this
\* library send each other, the largest requests, the largest responses and
\* every page of a device identification, is bytes and fits a PDU of 253.
TypeOK ==
    /\ pc \in {"start", "again", "requested", "answered", "done"}
    /\ \A i \in DOMAIN frame : frame[i] \in Byte
    /\ session.kind \in {"call", "walk"} => Len(frame) <= 7 + 253
    /\ session.link = "rtu" => Len(sent) <= 256
    /\ arrived.outcome \in Outcomes /\ result.outcome \in Outcomes
    /\ DOMAIN request_decoders \cup DOMAIN response_decoders \subseteq 0 .. 127

\* The decoder that was the first to be registered for a code.
FirstDecoder(of, code) ==
    LET tries == {i \in DOMAIN attempts : attempts[i].of = of /\ attempts[i].code = code}
    IN  IF tries = {} THEN "none" ELSE attempts[Min(tries)].decoder

\* Whether the code, or the MEI type, of a custom request is one of the library.
Shadows(q) ==
    \/ q.fc \in FunctionCode
    \/ q.fc = EncapsulatedInterface /\ q.values # <<>> /\ q.values[1] = 14

\* The i-th bit after the n-th byte, as Modbus counts them.
BitAfter(data, n, i) == Bit(data[n + 1 + (i - 1) \div 8], ((i - 1) % 8) + 1)

\* The request is what the bytes say: every byte is accounted for, up to coils
\* sent beyond the count.
Says(pdu, q) ==
    \/ EncodeRequest(q) = pdu
    \/ /\ q.fc = WriteMultipleCoils
       /\ SubSeq(EncodeRequest(q), 1, 5) = SubSeq(pdu, 1, 5)
       /\ pdu[6] = Len(pdu) - 6
       /\ \A i \in DOMAIN q.values : q.values[i] = BitAfter(pdu, 6, i)

\* What the server decodes is what the caller asked for, to the last bit and
\* register: the same class, fields and values, whatever decoders are
\* registered.  A custom request reaches the decoder that was the first to be
\* registered for its code, and is an unknown function where there is none.
RequestArrives ==
    session.kind \in {"call", "walk"} /\ pc = "answered" =>
        CASE request.by = "standard" -> arrived = Decoded(request)
          [] request.by # "standard" /\ Shadows(request) ->
               arrived.outcome = "ok" => Says(EncodeRequest(request), arrived.pdu)
          [] OTHER ->
               LET decoder == FirstDecoder("request", request.fc)
               IN  arrived = IF decoder = "none" THEN Raises("ModbusPDUError")
                             ELSE Decoded(Request(decoder, request.fc, <<>>, request.values))

\* A frame that arrives as a device of any kind has sent it is understood: the
\* caller gets exactly the values, the echo or the objects of the response, or
\* the device's exception.  For a custom function the first decoder registered
\* for it decides; on a serial line its answer must begin with a byte count.
AnswerArrives ==
    pc \in {"done", "again"} /\ sent # <<>> /\ frame = sent
      /\ session.kind # "foreign_request"
    =>  CASE request.by = "standard" /\ answer.kind = "normal" -> result = Decoded(answer)
          [] request.by = "standard" /\ answer.kind = "exception" ->
               result.outcome = "ModbusExceptionResponseError" /\ result.pdu = answer
          [] request.by # "standard" /\ answer.kind = "exception" ->
               result = Decoded(answer)
          [] OTHER ->
               (~Shadows(request) /\ (session.link = "rtu" => CountsRest(answer.values, 1))) =>
                   LET decoder == FirstDecoder("response", request.fc)
                   IN  result = IF decoder = "none" THEN Raises("ValueError")
                                ELSE Decoded([answer EXCEPT !.kind = decoder])

\* What the server takes from the bytes of any client is what they say: it
\* decodes no request but a valid one, and every byte of the PDU is accounted
\* for, up to coils sent beyond the count.  What it does not decode it answers
\* with an exception to the function code it got.
ForeignRequestIsExact ==
    [][session.kind = "foreign_request" /\ arrived' # arrived =>
         LET pdu == From(frame, 8)
             q == arrived'.pdu
         IN  IF arrived'.outcome = "ok"
               THEN PostInit(q) /\ Says(pdu, q)
               ELSE /\ answer'.kind = "exception"
                    /\ answer'.fc = IF pdu = <<>> THEN 0 ELSE pdu[1]]_vars

\* Whatever bytes another device sends, a result that is returned fits the
\* request: as many bits as asked for, a read/write's count of registers, a
\* write's echo, which is the beginning of the request, the read code of an
\* identification; and it says what the bytes say.
ForeignAnswerFits ==
    session.kind = "foreign_answer" /\ pc = "done" /\ request.by = "standard"
      /\ result.outcome = "ok" =>
        LET pdu == SubSeq(frame, IF session.link = "tcp" THEN 8 ELSE 2,
                          IF session.link = "tcp" THEN Taken ELSE Taken - 2)
            values == result.pdu.values
            asked == EncodeRequest(request)
        IN  /\ request.fc \in ReadBits =>
                 /\ Len(values) = request.fields[2]
                 /\ \A i \in DOMAIN values : values[i] = BitAfter(pdu, 2, i)
            /\ request.fc \notin ReadBits => EncodeResponse(result.pdu) = pdu
            /\ request.fc = ReadWriteMultipleRegisters => Len(values) = request.fields[2]
            /\ request.fc = EncapsulatedInterface =>
                 result.pdu.fields[1] = request.fields[1]
            /\ request.fc \in {WriteSingleCoil, WriteSingleRegister, MaskWriteRegister} =>
                 pdu = asked
            /\ request.fc \in {WriteMultipleCoils, WriteMultipleRegisters} =>
                 pdu = SubSeq(asked, 1, 5)

\* The client takes from the stream the frame, the whole frame and no byte of
\* the next, for the answer to every function and for exceptions.
FrameIsTakenWhole ==
    pc = "answered" /\ frame = sent /\ (session.link = "rtu" => request.by = "standard") =>
        Taken = Len(frame)

\* A frame with a few flipped bits is never taken for an answer, as long as they
\* do not change how much of it the client takes; three are few, four are not.  If they do, what it
\* takes is another message, and its CRC may fit: two bytes of data, or two
\* that follow, may happen to be the CRC of what is before them.
DamageIsDetected ==
    session.kind = "device" /\ pc = "done" /\ frame # sent /\ Taken = Len(sent) =>
        result.outcome \notin {"ok", "ModbusExceptionResponseError"}

\* Reference: what the division of the first n bits by x^16 + x^15 + x^2 + 1
\* leaves; 32773 is 0x8005, the divisor without its highest power.
Remainder(bits) ==
    LET reduced[v \in Nat] == IF v >= 65536 THEN Xor(v - 65536, 32773) ELSE v
        after[n \in 0 .. Len(bits)] ==
            IF n = 0 THEN 0 ELSE reduced[2 * after[n - 1] + bits[n]]
    IN  after[Len(bits)]

\* The CRC is the one other devices compute: the bits of a frame, each byte's
\* lowest first and the first sixteen inverted, are divisible by the generator.
CrcIsRemainder ==
    session.link = "rtu" /\ pc = "requested" =>
        Remainder([i \in 1 .. 8 * Len(frame) |->
                      IF i <= 16 THEN 1 - BitAfter(frame, 0, i)
                                 ELSE BitAfter(frame, 0, i)]) = 0

\* Over all the responses together, the caller receives every object that its
\* read code gives access to from the first one it asked for on, in the order
\* of their ids, none twice and none passed over.
EveryObjectOnce ==
    session.kind = "walk" =>
        LET code == request.fields[1]
            first == session.request.fields[2]
            wanted == {i \in DOMAIN session.table :
                          i >= first /\ i \in CASE code = 1 -> 0 .. 2
                                                [] code = 2 -> 0 .. 127
                                                [] code = 3 -> 0 .. 255
                                                [] OTHER -> {first}}
        IN  /\ \A i, j \in DOMAIN received : i < j => received[i] < received[j]
            /\ ToSet(received) \subseteq wanted
            /\ pc = "done" => ToSet(received) = wanted
            /\ pc = "again" => ToSet(received) = {i \in wanted : i < request.fields[2]}

\* Following more_follows comes to an end: every response has an object that
\* fits, as no value is longer than 244 bytes.
WalkEnds == session.kind = "walk" => <>(pc = "done")
=============================================================================
