------------------------------ MODULE RtuClient ------------------------------
(***************************************************************************)
(* ModbusRtuClient.execute (rtu_client.py) and the helpers' checks of its  *)
(* result, over SerialTransport (transport/serial.py) and the framing of   *)
(* protocol/rtu.py.                                                        *)
(*                                                                         *)
(* An RTU frame carries neither its length nor a transaction id.  The      *)
(* client reads two bytes, works out from them and from its request how    *)
(* much follows, and reads that; whatever lies in the input buffer is read *)
(* first, answers to calls that timed out included.  Every read runs in a  *)
(* thread, with the same timeout as the await for it: when the await is    *)
(* first, the thread goes on reading for a while, and what it reads is     *)
(* lost.                                                                   *)
(*                                                                         *)
(* A byte is the response it belongs to and its place there.  Bytes that   *)
(* do not line up with a frame, or were garbled on the line, may have any  *)
(* value; their CRC is taken never to be right by chance.                  *)
(***************************************************************************)
EXTENDS Naturals, Sequences, FiniteSets

CONSTANTS
    Caller,       \* coroutines that call the client
    Calls,        \* Calls[p]: what p asks for, records [unit, fc, data]
    AnyByte,      \* bound: the values of a byte that is out of place
    Pause,        \* bound: the bytes of an answer after which it may pause
    MaxRequests,  \* bound: calls made
    MaxOpens      \* bound: times the port is opened

WriteCode == {"WRITE_SINGLE_REGISTER", "MASK_WRITE_REGISTER"}
CountCode == {"READ_HOLDING_REGISTERS", "READ_WRITE_MULTIPLE_REGISTERS"}
DeviceCode == "READ_DEVICE_IDENTIFICATION"

\* data is a register count, what a write echoes, or a read code.
ASSUME RtuAssumption ==
    /\ \A p \in Caller : \A c \in Calls[p] :
          c.fc \in WriteCode \cup CountCode \cup {DeviceCode} /\ c.data \in 1 .. 255
    /\ AnyByte \subseteq 0 .. 255 /\ Pause \subseteq Nat
    /\ MaxRequests \in Nat /\ MaxOpens \in Nat

None == 0
Handle == 1 .. MaxOpens

VARIABLES
    handle,    \* self.serial_connection, or None
    live,      \* the handles whose port is open
    opened,    \* how often the port was opened
    manager,   \* what the coroutine that calls connect and close awaits
    line,      \* the bytes in the input buffer of the port
    backlog,   \* the requests that reached the devices and are unanswered
    sending,   \* the bytes of the current answer that are still to be sent
    issued,    \* how many calls were made
    pc,        \* pc[p]: what a caller awaits
    request,   \* request[p]: its request
    data,      \* data[p]: the bytes of earlier receives of this call
    stage,     \* stage[p]: which receive it is at
    objects,   \* objects[p]: identification objects still to be received
    thread,    \* thread[i]: the thread that reads for call i
    quiet,     \* quiet[p]: p began on a quiet line and shares it with nobody
    result     \* result[p]: how p's last call ended

portVars == <<handle, live, opened, manager>>
lineVars == <<line, backlog, sending>>
callVars == <<issued, pc, request, data, stage, objects, result>>
vars == <<portVars, lineVars, callVars, thread, quiet>>

NoThread == [on |-> None, left |-> 0, read |-> <<>>]
Result(outcome, q, r) == [outcome |-> outcome, request |-> q, response |-> r]
NoResult == Result("none", <<>>, <<>>)
Failure(e) == Result(e, <<>>, <<>>)

Init ==
    /\ handle = None /\ live = {} /\ opened = 0 /\ manager = "idle"
    /\ line = <<>> /\ backlog = <<>> /\ sending = <<>>
    /\ issued = 0
    /\ pc = [p \in Caller |-> "idle"]
    /\ request = [p \in Caller |-> <<>>]
    /\ data = [p \in Caller |-> <<>>]
    /\ stage = [p \in Caller |-> "none"]
    /\ objects = [p \in Caller |-> 0]
    /\ thread = [i \in 1 .. MaxRequests |-> NoThread]
    /\ quiet = [p \in Caller |-> FALSE]
    /\ result = [p \in Caller |-> NoResult]

-----------------------------------------------------------------------------
(***************************************************************************)
(* Frames.                                                                 *)
(***************************************************************************)
RTU_EXCEPTION_RESPONSE_SIZE == 5

\* Mistake: every write is answered by eight bytes.
FixedSizeOne(fc) == 8

\* RTU_WRITE_REGISTER_RESPONSE_SIZE, RTU_MASK_WRITE_REGISTER_RESPONSE_SIZE
FixedSize(fc) == IF fc = "MASK_WRITE_REGISTER" THEN 10 ELSE 8

\* The bytes a device sends: unit, function code, PDU and CRC.  A device
\* identification has one object of one byte.
FrameSize(r) ==
    CASE r.exception -> 2 + 1 + 2
      [] ~r.exception /\ r.fc = "MASK_WRITE_REGISTER" -> 2 + 6 + 2
      [] ~r.exception /\ r.fc = "WRITE_SINGLE_REGISTER" -> 2 + 4 + 2
      [] ~r.exception /\ r.fc \in CountCode -> 2 + 1 + 2 * r.data + 2
      [] OTHER -> 2 + 6 + 2 + 1 + 2

Bytes(r) == [i \in 1 .. FrameSize(r) |-> [of |-> r, at |-> i]]

\* The bytes s begin an intact frame.
InPlace(s) == \A i \in DOMAIN s : s[i].of.intact /\ s[i] = [of |-> s[1].of, at |-> i]
Intact(s) == InPlace(s) /\ s = Bytes(s[1].of)

\* The values of the last byte of s, when it has value v in an intact frame
\* of a kind in which it is a length.
Last(s, known, v) == IF InPlace(s) /\ known THEN {v} ELSE AnyByte

Receive(st, size, left) == [stage |-> st, size |-> size, objects |-> left]

\* Where a device identification goes on with n objects to come.
ObjectOrCRC(n) == IF n = 0 THEN Receive("rest", 2, 0) ELSE Receive("object", 2, n)

\* rtu_response_size_from_prefix
AfterPrefix(q, exception) ==
    CASE exception -> Receive("rest", RTU_EXCEPTION_RESPONSE_SIZE - 2, 0)
      [] ~exception /\ q.fc \in WriteCode -> Receive("rest", FixedSize(q.fc) - 2, 0)
      [] ~exception /\ q.fc \in CountCode -> Receive("byte_count", 1, 0)
      [] OTHER -> Receive("header", 6, 0)

\* Mistake: the CRC is not counted.
AfterByteCountShort(count) == Receive("rest", count, 0)

\* rtu_byte_count_response_size
AfterByteCount(count) == Receive("rest", count + 2, 0)

\* The receive that may follow when the bytes s are there, after stage st of
\* a call for q with n objects to come.
Following(q, st, s, n) ==
    LET r == s[1].of
        device == r.fc = DeviceCode /\ ~r.exception
    IN  CASE st = "prefix" ->
               {AfterPrefix(q, e) : e \in IF InPlace(s) THEN {r.exception} ELSE BOOLEAN}
          [] st = "byte_count" ->
               {AfterByteCount(c) :
                   c \in Last(s, r.fc \in CountCode /\ ~r.exception, 2 * r.data)}
          [] st = "header" -> {ObjectOrCRC(c) : c \in Last(s, device, 1)}
          [] st = "object" ->
               {IF c = 0 THEN ObjectOrCRC(n - 1) ELSE Receive("value", c, n - 1) :
                   c \in Last(s, device, 1)}
          [] st = "value" -> {ObjectOrCRC(n)}

\* Mistake: the unit id is not compared.
DecodedAnyUnit(q, r) ==
    CASE r.fc # q.fc -> "ValueError"
      [] r.fc = q.fc /\ r.exception -> "ModbusExceptionResponseError"
      [] OTHER -> IF r.data = q.data THEN "ok" ELSE "ModbusResponseMismatchError"

\* The echo checks of client_helpers.py and the checks decode_response_pdu
\* makes against the request.  Nothing compares the registers of a read with
\* the count that was asked for.
Decoded(q, r) ==
    CASE r.unit # q.unit -> "ModbusResponseMismatchError"
      [] r.unit = q.unit /\ r.fc # q.fc -> "ValueError"
      [] r.unit = q.unit /\ r.fc = q.fc /\ r.exception -> "ModbusExceptionResponseError"
      [] OTHER -> CASE q.fc = "READ_HOLDING_REGISTERS" \/ r.data = q.data -> "ok"
                    [] q.fc \in WriteCode /\ r.data # q.data ->
                         "ModbusResponseMismatchError"
                    [] OTHER -> "ValueError"

\* Mistake: the CRC is not compared.
DecodeNoCRC(q, s) ==
    LET e == Decoded(q, s[1].of)
    IN  IF e = "ok" THEN Result("ok", q, s[1].of) ELSE Failure(e)

\* ModbusRTUCodec.decode_response and the helper that called execute
Decode(q, s) ==
    LET e == IF Intact(s) THEN Decoded(q, s[1].of) ELSE "ModbusCRCError"
    IN  IF e = "ok" THEN Result("ok", q, s[1].of) ELSE Failure(e)

-----------------------------------------------------------------------------
(***************************************************************************)
(* The port, the line and the devices on it.                               *)
(***************************************************************************)
NobodyQuiet == quiet' = [p \in Caller |-> FALSE]

\* connect closes what it finds, then opens.  Input that
\* came before is discarded.
BeginConnect ==
    /\ manager = "idle" /\ opened < MaxOpens
    /\ manager' = IF handle = None THEN "opening" ELSE "reopening"
    /\ handle' = None
    /\ NobodyQuiet
    /\ UNCHANGED <<live, opened, lineVars, callVars, thread>>

\* Mistake: a closed port is still taken for the connection.
BeginCloseKeep ==
    /\ manager = "idle" /\ handle # None
    /\ manager' = "closing"
    /\ NobodyQuiet
    /\ UNCHANGED <<handle, live, opened, lineVars, callVars, thread>>

BeginClose ==
    /\ manager = "idle" /\ handle # None
    /\ manager' = "closing"
    /\ handle' = None
    /\ NobodyQuiet
    /\ UNCHANGED <<live, opened, lineVars, callVars, thread>>

PortClosed ==
    /\ manager \in {"reopening", "closing"}
    /\ live' = {}
    /\ line' = <<>>
    /\ manager' = IF manager = "closing" THEN "idle" ELSE "opening"
    /\ UNCHANGED <<handle, opened, backlog, sending, callVars, thread, quiet>>

PortOpened ==
    /\ manager = "opening" /\ opened < MaxOpens
    /\ opened' = opened + 1
    /\ live' = live \cup {opened'}
    /\ handle' = opened'
    /\ manager' = "idle"
    /\ UNCHANGED <<lineVars, callVars, thread, quiet>>

OpenFails ==
    /\ manager = "opening"
    /\ manager' = "idle"
    /\ UNCHANGED <<handle, live, opened, lineVars, callVars, thread, quiet>>

\* A device answers the next request, with the data or an exception, and what
\* it sends may be garbled on the line ...
DeviceAnswers ==
    /\ sending = <<>> /\ backlog # <<>>
    /\ \E e, i \in BOOLEAN :
          LET q == Head(backlog)
          IN  /\ e => i
              /\ sending' = Bytes([id |-> q.id, unit |-> q.unit, fc |-> q.fc,
                                   data |-> q.data, exception |-> e, intact |-> i])
    /\ backlog' = Tail(backlog)
    /\ UNCHANGED <<line, portVars, callVars, thread, quiet>>

\* ... or no device does.
DeviceIgnores ==
    /\ backlog # <<>>
    /\ backlog' = Tail(backlog)
    /\ UNCHANGED <<line, sending, portVars, callVars, thread, quiet>>

\* Serial.read takes bytes as they come, up to what it still wants; those that
\* are read for a call that gave up are gone.
Awaited(i) == \E p \in Caller : pc[p] = "receive" /\ request[p].id = i
Reading == {i \in DOMAIN thread : thread[i].on \in live /\ thread[i].left > 0}
AtMost(n, m) == IF n < m THEN n ELSE m
Without(s, n) == SubSeq(s, n + 1, Len(s))

\* The rest of the answer arrives, or what is left up to a pause: at one of the
\* threads that read, in the input buffer if none does, nowhere if the port is
\* closed.
BytesArrive ==
    /\ sending # <<>>
    /\ \E n \in {Len(sending)} \cup {n \in 1 .. Len(sending) : sending[n].at \in Pause} :
          \/ /\ Reading = {}
             /\ line' = IF live = {} THEN line ELSE line \o SubSeq(sending, 1, n)
             /\ sending' = Without(sending, n)
             /\ UNCHANGED thread
          \/ \E i \in Reading :
               LET m == AtMost(n, thread[i].left)
               IN  /\ thread' = [thread EXCEPT ![i].left = @ - m,
                         ![i].read = IF Awaited(i) THEN @ \o SubSeq(sending, 1, m) ELSE @]
                   /\ sending' = Without(sending, m)
                   /\ UNCHANGED line
    /\ UNCHANGED <<backlog, portVars, callVars, quiet>>

\* The thread of a call that gave up ends: at its timeout, when it has read
\* all it was to read, or because the port was closed.
ThreadEnds(i) ==
    /\ thread[i] # NoThread /\ ~Awaited(i)
    /\ thread' = [thread EXCEPT ![i] = NoThread]
    /\ UNCHANGED <<portVars, lineVars, callVars, quiet>>

-----------------------------------------------------------------------------
(***************************************************************************)
(* A call.                                                                 *)
(***************************************************************************)
Ended(p, r) ==
    /\ pc' = [pc EXCEPT ![p] = "idle"]
    /\ request' = [request EXCEPT ![p] = <<>>]
    /\ data' = [data EXCEPT ![p] = <<>>]
    /\ stage' = [stage EXCEPT ![p] = "none"]
    /\ objects' = [objects EXCEPT ![p] = 0]
    /\ result' = [result EXCEPT ![p] = r]

Fails(p, e) == Ended(p, Failure(e))

\* SerialTransport.receive: its thread first takes what lies in the buffer.
Receives(p, bytes, next) ==
    IF handle = None
      THEN /\ Fails(p, "ModbusConnectionError")
           /\ thread' = [thread EXCEPT ![request[p].id] = NoThread]
           /\ UNCHANGED line
      ELSE /\ pc' = [pc EXCEPT ![p] = "receive"]
           /\ data' = [data EXCEPT ![p] = bytes]
           /\ stage' = [stage EXCEPT ![p] = next.stage]
           /\ objects' = [objects EXCEPT ![p] = next.objects]
           /\ LET n == AtMost(Len(line), next.size)
              IN  /\ thread' = [thread EXCEPT ![request[p].id] =
                        [on |-> handle, left |-> next.size - n, read |-> SubSeq(line, 1, n)]]
                  /\ line' = Without(line, n)
           /\ UNCHANGED <<request, result>>

QuietLine ==
    /\ line = <<>> /\ backlog = <<>> /\ sending = <<>>
    /\ \A p \in Caller : pc[p] = "idle"
    /\ \A i \in DOMAIN thread : thread[i] = NoThread

\* execute, up to the await of send
Execute(p, c) ==
    /\ pc[p] = "idle" /\ issued < MaxRequests
    /\ issued' = issued + 1
    /\ quiet' = [x \in Caller |-> x = p /\ QuietLine]
    /\ IF handle = None
         THEN Fails(p, "ModbusConnectionError")
         ELSE /\ pc' = [pc EXCEPT ![p] = "send"]
              /\ request' = [request EXCEPT ![p] =
                    [id |-> issued', unit |-> c.unit, fc |-> c.fc, data |-> c.data]]
              /\ result' = [result EXCEPT ![p] = NoResult]
              /\ UNCHANGED <<data, stage, objects>>
    /\ UNCHANGED <<portVars, lineVars, thread>>

CallLeaves == UNCHANGED <<portVars, sending, issued, quiet>>

Written(p) ==
    /\ pc[p] = "send"
    /\ backlog' = Append(backlog, request[p])
    /\ Receives(p, <<>>, Receive("prefix", 2, 0))
    /\ CallLeaves

\* The write fails or writes a part, which no device understands, or it times
\* out, and the devices may get all of it: the writing thread is not stopped.
WriteFails(p) ==
    /\ pc[p] = "send"
    /\ \/ Fails(p, "ModbusTransportError") /\ UNCHANGED backlog
       \/ /\ Fails(p, "ModbusTimeoutError")
          /\ backlog' \in {backlog, Append(backlog, request[p])}
    /\ UNCHANGED <<line, thread>>
    /\ CallLeaves

\* receive returns all it was asked for, and execute goes on without an await.
Received(p) ==
    LET t == thread[request[p].id]
        s == data[p] \o t.read
    IN  /\ pc[p] = "receive" /\ t.left = 0
        /\ IF stage[p] = "rest"
             THEN /\ Ended(p, Decode(request[p], s))
                  /\ thread' = [thread EXCEPT ![request[p].id] = NoThread]
                  /\ UNCHANGED line
             ELSE \E next \in Following(request[p], stage[p], s, objects[p]) :
                     Receives(p, s, next)
        /\ UNCHANGED backlog
        /\ CallLeaves

\* The thread is first to time out, or its port was closed under it: what it
\* has read is dropped.
ReadFails(p) ==
    /\ pc[p] = "receive" /\ thread[request[p].id].left > 0
    /\ thread' = [thread EXCEPT ![request[p].id] = NoThread]
    /\ Fails(p, "ModbusTransportError")
    /\ UNCHANGED <<line, backlog>>
    /\ CallLeaves

\* Mistake: the first receive of a frame is not under a timeout.
ReceiveTimeoutLater(p) ==
    /\ pc[p] = "receive" /\ stage[p] # "prefix"
    /\ Fails(p, "ModbusTimeoutError")
    /\ thread' = [thread EXCEPT ![request[p].id].read = <<>>]
    /\ UNCHANGED <<line, backlog>>
    /\ CallLeaves

\* The await is first to time out, and the thread goes on.
ReceiveTimeout(p) ==
    /\ pc[p] = "receive"
    /\ Fails(p, "ModbusTimeoutError")
    /\ thread' = [thread EXCEPT ![request[p].id].read = <<>>]
    /\ UNCHANGED <<line, backlog>>
    /\ CallLeaves

Next ==
    \/ BeginConnect \/ BeginClose \/ PortClosed \/ PortOpened \/ OpenFails
    \/ DeviceAnswers \/ DeviceIgnores \/ BytesArrive
    \/ \E i \in DOMAIN thread : ThreadEnds(i)
    \/ \E p \in Caller : \/ \E c \in Calls[p] : Execute(p, c)
                         \/ Written(p) \/ WriteFails(p) \/ Received(p)
                         \/ ReadFails(p) \/ ReceiveTimeout(p)

\* Timeouts fire.  The thread's own is not needed: the await has one.
Spec ==
    /\ Init /\ [][Next]_vars
    /\ \A p \in Caller : WF_vars(WriteFails(p)) /\ WF_vars(ReceiveTimeout(p))

-----------------------------------------------------------------------------
(***************************************************************************)
(* Properties.                                                             *)
(***************************************************************************)
Outcomes == {"none", "ok", "ModbusConnectionError", "ModbusTimeoutError",
             "ModbusTransportError", "ModbusCRCError", "ModbusResponseMismatchError",
             "ModbusExceptionResponseError", "ValueError"}
RequestType == {[id |-> i, unit |-> c.unit, fc |-> c.fc, data |-> c.data] :
                  i \in 1 .. MaxRequests, c \in UNION {Calls[p] : p \in Caller}}
IsResponse(r) ==
    /\ r.exception \in BOOLEAN /\ r.intact \in BOOLEAN
    /\ [id |-> r.id, unit |-> r.unit, fc |-> r.fc, data |-> r.data] \in RequestType
AreBytes(s) == \A i \in DOMAIN s : IsResponse(s[i].of) /\ s[i].at \in 1 .. FrameSize(s[i].of)

\* The types: the handle is open or none, every byte belongs to an answer, and
\* a caller that receives has a stage and a thread that reads from a port.
TypeOK ==
    /\ handle \in live \cup {None} /\ live \subseteq 1 .. opened
    /\ opened \in 0 .. MaxOpens /\ issued \in 0 .. MaxRequests
    /\ manager \in {"idle", "opening", "reopening", "closing"}
    /\ AreBytes(line) /\ AreBytes(sending)
    /\ \A i \in DOMAIN backlog : backlog[i] \in RequestType
    /\ \A p \in Caller :
         /\ pc[p] \in {"idle", "send", "receive"}
         /\ pc[p] # "idle" => request[p] \in RequestType
         /\ stage[p] = "none" <=> pc[p] # "receive"
         /\ AreBytes(data[p])
         /\ objects[p] > 0 => stage[p] \in {"object", "value"}
         /\ result[p].outcome \in Outcomes
         /\ pc[p] = "receive" => thread[request[p].id].on \in Handle
    /\ \A i \in DOMAIN thread : AreBytes(thread[i].read)

\* However frames were torn apart, mixed up or garbled: what a call returns is
\* one whole frame the device sent, from the unit and for the function that
\* were asked for, and for all but plain register reads of the same data (a
\* write's echo, the count of a read/write, a read code).
AcceptedFits ==
    \A p \in Caller :
        result[p].outcome = "ok" =>
            LET q == result[p].request  r == result[p].response
            IN  /\ r.intact /\ ~r.exception
                /\ r.unit = q.unit /\ r.fc = q.fc
                /\ q.fc # "READ_HOLDING_REGISTERS" => r.data = q.data

\* A call that begins on a quiet line, shares it with nobody and keeps its
\* port to the end is answered: no answer of the device to it is refused, for
\* its CRC, its unit, its function or its data, unless it was garbled, and
\* what it returns is that answer.  So the sizes the client infers from the
\* first bytes are those of the frames.
QuietCallIsAnswered ==
    [][\A p \in Caller :
         quiet[p] /\ pc[p] = "receive" /\ pc'[p] = "idle" =>
            LET r == result'[p]
            IN  /\ r.outcome \notin {"ModbusResponseMismatchError", "ValueError"}
                /\ r.outcome = "ok" => r.response.id = request[p].id
                /\ r.outcome = "ModbusCRCError" => ~data[p][1].of.intact]_vars

\* Every call returns, whatever the devices and the other callers do.
ExecuteReturns == \A p \in Caller : pc[p] # "idle" ~> pc[p] = "idle"

\* doc/errors.rst: the helpers raise ModbusResponseMismatchError "when the
\* remote response is not the response expected for the operation".  A read
\* that returns has as many registers as were asked for.
ReadHasItsCount ==
    \A p \in Caller :
        result[p].outcome = "ok" => result[p].response.data = result[p].request.data
=============================================================================
