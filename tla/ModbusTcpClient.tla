-------------------------- MODULE ModbusTcpClient --------------------------
(***************************************************************************)
(* ModbusTcpClient.execute (client.py) over TCPTransport (transport/tcp.py)*)
(* when several coroutines use one client, responses come late or never,   *)
(* connections are lost, and the application closes and reconnects.        *)
(*                                                                         *)
(* There is no lock: a request is written, and then whoever awaits the     *)
(* stream reads.  asyncio.StreamReader keeps a single waiter: arriving     *)
(* data wakes it, a call that finds enough bytes buffered takes them at    *)
(* once, and a second call that would have to wait raises RuntimeError.    *)
(*                                                                         *)
(* The bytes of a response are two pieces, its header and its PDU.  A read *)
(* that does not meet the piece it expects takes other bytes, and where it *)
(* leaves the stream is not known.  Other bytes read as a PDU decode when  *)
(* their function code and length happen to fit: nothing in a PDU names    *)
(* the call it answers.  Bytes read out of alignment as a header are taken *)
(* never to carry the call's own transaction id, protocol id 0 and the unit*)
(* all at once.                                                            *)
(*                                                                         *)
(* The device at the other end answers the requests of a connection in     *)
(* order under their own transaction ids (as ModbusServer does), at any    *)
(* later time, or never.                                                   *)
(***************************************************************************)
EXTENDS Naturals, Sequences

CONSTANTS
    Caller,       \* coroutines that call execute
    Manager,      \* coroutines that call connect and close
    TidMax,       \* the last transaction id, 0xFFFF
    MaxRequests,  \* bound: calls of execute
    MaxConns      \* bound: connections opened

None == 0

ASSUME ClientAssumption ==
    /\ TidMax \in Nat \ {0} /\ MaxRequests \in Nat /\ MaxConns \in Nat
    /\ Caller \cap Manager = {} /\ None \notin Caller

Connection == 1 .. MaxConns

Request == [id : 1 .. MaxRequests, tid : 1 .. TidMax]
Piece == [kind : {"header", "pdu"}, of : Request]

VARIABLES
    current,   \* the connection of stream_reader and stream_writer, or None
    open,      \* connections whose socket is open on this side
    opened,    \* how many connections were opened
    pending,   \* pending[k]: requests the device has not answered
    halfway,   \* halfway[k]: requests whose header was sent, and no PDU yet
    stream,    \* stream[k]: pieces in the StreamReader
    torn,      \* torn[k]: the stream is out of alignment
    waiter,    \* waiter[k]: the caller StreamReader._waiter belongs to
    woken,     \* callers whose wait is over and who have not run yet
    stalled,   \* connections whose peer does not take what is written
    nextTid,   \* self._transaction_id
    issued,    \* how many times execute was called
    pc,        \* pc[p]: what a coroutine awaits
    request,   \* request[p]: what caller p sent
    on,        \* on[p]: the connection the current await of p is about
    got,       \* got[p]: the header p has when it awaits a PDU, or garbage
    result,    \* result[p]: how p's last call ended, and with what response
    crossed    \* callers who awaited a PDU while another read bytes (history)

deviceVars == <<pending, halfway>>
streamVars == <<stream, torn, waiter, woken>>
connVars == <<current, open, opened, stalled>>
callVars == <<nextTid, issued, pc, request, on, got, result>>
vars == <<connVars, deviceVars, streamVars, callVars, crossed>>

NoRequest == [id |-> None, tid |-> None]
Garbage == [id |-> None, tid |-> None]

\* A response is the header and the PDU that were put together.
Returned(outcome, header, body) == [outcome |-> outcome, header |-> header, body |-> body]
Unanswered(outcome) == Returned(outcome, NoRequest, NoRequest)

ModbusErrors == {"ModbusConnectionError", "ModbusTimeoutError", "ModbusTransportError",
                 "ModbusFrameError", "ModbusResponseMismatchError"}
Outcomes == ModbusErrors \cup {"none", "ok", "ValueError", "RuntimeError"}

Init ==
    /\ current = None /\ open = {} /\ opened = 0 /\ stalled = {}
    /\ pending = [k \in Connection |-> <<>>]
    /\ halfway = [k \in Connection |-> <<>>]
    /\ stream = [k \in Connection |-> <<>>]
    /\ torn = [k \in Connection |-> FALSE]
    /\ waiter = [k \in Connection |-> None]
    /\ woken = {}
    /\ nextTid = 1 /\ issued = 0
    /\ pc = [p \in Caller \cup Manager |-> "idle"]
    /\ request = [p \in Caller |-> NoRequest]
    /\ on = [p \in Caller \cup Manager |-> None]
    /\ got = [p \in Caller |-> Garbage]
    /\ result = [p \in Caller |-> Unanswered("none")]
    /\ crossed = {}

-----------------------------------------------------------------------------
(***************************************************************************)
(* The device and the network.                                             *)
(***************************************************************************)
\* Data, or the end of the stream, wakes the waiter if there is one.
Wake(k) ==
    /\ woken' = woken \cup ({waiter[k]} \cap Caller)
    /\ waiter' = [waiter EXCEPT ![k] = None]

Arrives(k, piece) ==
    /\ stream' = [stream EXCEPT ![k] = Append(@, piece)]
    /\ Wake(k)
    /\ UNCHANGED <<torn, connVars, callVars, crossed>>

\* A socket that is being closed reads nothing more.
Reads(k) == k \in open /\ \A m \in Manager : on[m] # k

AnswerHeader(k) ==
    /\ Reads(k) /\ pending[k] # <<>> /\ halfway[k] = <<>>
    /\ halfway' = [halfway EXCEPT ![k] = <<Head(pending[k])>>]
    /\ pending' = [pending EXCEPT ![k] = Tail(@)]
    /\ Arrives(k, [kind |-> "header", of |-> Head(pending[k])])

AnswerPDU(k) ==
    /\ Reads(k) /\ halfway[k] # <<>>
    /\ halfway' = [halfway EXCEPT ![k] = <<>>]
    /\ UNCHANGED pending
    /\ Arrives(k, [kind |-> "pdu", of |-> Head(halfway[k])])

\* The connection ends, by the peer, the network or a close of ours.
Ends(k) ==
    /\ open' = open \ {k}
    /\ stalled' = stalled \ {k}
    /\ pending' = [pending EXCEPT ![k] = <<>>]
    /\ halfway' = [halfway EXCEPT ![k] = <<>>]
    /\ Wake(k)

ConnectionLost(k) ==
    /\ k \in open
    /\ Ends(k)
    /\ UNCHANGED <<current, opened, stream, torn, callVars, crossed>>

\* The peer stops, or resumes, taking what is written to it.
PeerStalls(k) ==
    /\ k \in open
    /\ stalled' = IF k \in stalled THEN stalled \ {k} ELSE stalled \cup {k}
    /\ UNCHANGED <<current, open, opened, deviceVars, streamVars, callVars, crossed>>

-----------------------------------------------------------------------------
(***************************************************************************)
(* connect and close.                                                      *)
(***************************************************************************)
(***************************************************************************)
(* close forgets the streams before it awaits anything; wait_closed has to *)
(* flush what was written first.  connect closes what it finds.            *)
(***************************************************************************)
Forget == current' = None

\* Mistake: a reconnect leaves the previous connection open.
BeginConnectKeep(p) ==
    /\ pc[p] = "idle" /\ opened < MaxConns
    /\ pc' = [pc EXCEPT ![p] = "connecting"]
    /\ UNCHANGED <<connVars, deviceVars, streamVars, nextTid, issued, request, on,
                   got, result, crossed>>

BeginConnect(p) ==
    /\ pc[p] = "idle" /\ opened < MaxConns
    /\ pc' = [pc EXCEPT ![p] = "connecting"]
    /\ on' = [on EXCEPT ![p] = current]
    /\ Forget
    /\ UNCHANGED <<open, opened, stalled, deviceVars, streamVars, nextTid, issued,
                   request, got, result, crossed>>

\* Mistake: wait_closed is awaited and writer.close() was forgotten.
FlushedNever(p) == FALSE

\* The old socket of a close or a reconnect is gone once it is flushed.
Flushed(p) ==
    /\ pc[p] \in {"connecting", "closing"} /\ on[p] \in open \ stalled
    /\ Ends(on[p])
    /\ UNCHANGED <<current, opened, stream, torn, callVars, crossed>>

\* Opening a connection takes passes of the loop in which every caller the
\* end of the old one has woken runs first: nobody keeps the old reader.
ConnectSucceeds(p) ==
    /\ pc[p] = "connecting" /\ on[p] \notin open /\ opened < MaxConns
    /\ \A c \in Caller : pc[c] # "idle" => on[c] = current
    /\ opened' = opened + 1
    /\ open' = open \cup {opened'}
    /\ current' = opened'
    /\ pc' = [pc EXCEPT ![p] = "idle"]
    /\ on' = [on EXCEPT ![p] = None]
    /\ stream' = [k \in Connection |-> IF k = current THEN stream[k] ELSE <<>>]
    /\ torn' = [k \in Connection |-> k = current /\ torn[k]]
    /\ UNCHANGED <<stalled, deviceVars, waiter, woken, nextTid, issued, request,
                   got, result, crossed>>

\* Refused, or timed out: the client stays disconnected.
ConnectFails(p) ==
    /\ pc[p] = "connecting" /\ on[p] \notin open
    /\ pc' = [pc EXCEPT ![p] = "idle"]
    /\ on' = [on EXCEPT ![p] = None]
    /\ UNCHANGED <<connVars, deviceVars, streamVars, nextTid, issued, request, got,
                   result, crossed>>

BeginClose(p) ==
    /\ pc[p] = "idle" /\ current # None
    /\ pc' = [pc EXCEPT ![p] = "closing"]
    /\ on' = [on EXCEPT ![p] = current]
    /\ Forget
    /\ UNCHANGED <<open, opened, stalled, deviceVars, streamVars, nextTid, issued,
                   request, got, result, crossed>>

CloseReturns(p) ==
    /\ pc[p] = "closing" /\ on[p] \notin open
    /\ pc' = [pc EXCEPT ![p] = "idle"]
    /\ on' = [on EXCEPT ![p] = None]
    /\ UNCHANGED <<connVars, deviceVars, streamVars, nextTid, issued, request, got,
                   result, crossed>>

-----------------------------------------------------------------------------
(***************************************************************************)
(* execute.                                                                *)
(***************************************************************************)
CallLeaves == UNCHANGED <<current, open, opened, stalled, halfway>>

Ended(p, outcome, header, body) ==
    /\ pc' = [pc EXCEPT ![p] = "idle"]
    /\ on' = [on EXCEPT ![p] = None]
    /\ got' = [got EXCEPT ![p] = Garbage]
    /\ result' = [result EXCEPT ![p] = Returned(outcome, header, body)]

Fails(p, outcome) == Ended(p, outcome, NoRequest, NoRequest)

\* Mistake: the transaction id does not wrap.
AdvanceTidForever == nextTid' = nextTid + 1

\* _next_transaction_id
AdvanceTid == nextTid' = IF nextTid + 1 > TidMax THEN 1 ELSE nextTid + 1

\* The request is written, whatever becomes of it, and drain is awaited.
Execute(p) ==
    /\ pc[p] = "idle" /\ issued < MaxRequests
    /\ issued' = issued + 1
    /\ AdvanceTid
    /\ request' = [request EXCEPT ![p] = [id |-> issued', tid |-> nextTid]]
    /\ IF current = None
         THEN Fails(p, "ModbusConnectionError") /\ UNCHANGED pending
         ELSE /\ pc' = [pc EXCEPT ![p] = "drain"]
              /\ on' = [on EXCEPT ![p] = current]
              /\ UNCHANGED got
              /\ result' = [result EXCEPT ![p] = Unanswered("none")]
              /\ pending' = IF current \in open
                              THEN [pending EXCEPT ![current] = Append(@, request'[p])]
                              ELSE pending
    /\ crossed' = crossed \ {p}
    /\ UNCHANGED <<current, open, opened, stalled, halfway, streamVars>>

\* _wait_for_data on connection k, whose waiter is now w, for the header or
\* for the PDU that header h announces.
WaitFor(p, k, what, h, w) ==
    CASE k \notin open -> /\ \E e \in {"ModbusTransportError", "ModbusConnectionError"} :
                               Fails(p, e)
                          /\ waiter' = [waiter EXCEPT ![k] = w]
      [] k \in open /\ w # None -> /\ Fails(p, "RuntimeError")
                                   /\ waiter' = [waiter EXCEPT ![k] = w]
      [] OTHER -> /\ waiter' = [waiter EXCEPT ![k] = p]
                  /\ pc' = [pc EXCEPT ![p] = what]
                  /\ on' = [on EXCEPT ![p] = k]
                  /\ got' = [got EXCEPT ![p] = h]
                  /\ UNCHANGED result

Stay(k, w) == waiter' = [waiter EXCEPT ![k] = w]

\* Mistake: the transaction id of a response is not looked at.
DecodeUnchecked(p, header, body) == Ended(p, "ok", header, body)

\* ModbusTCPCodec.decode_response: only the header is compared with the call's
\* transaction id.  The unit id and the function code are taken to match.
Decode(p, header, body) ==
    IF header.tid # request[p].tid
      THEN Fails(p, "ModbusResponseMismatchError")
      ELSE Ended(p, "ok", header, body)

\* Bytes that are not the expected piece are taken: some of the pieces of s
\* are gone, and the rest is aligned or not.
TakeGarbage(k, s) ==
    \E n \in 1 .. Len(s), t \in BOOLEAN :
        /\ stream' = [stream EXCEPT ![k] = SubSeq(s, n + IF t THEN 0 ELSE 1, Len(s))]
        /\ torn' = [torn EXCEPT ![k] = t]

TakePDU(k, s) ==
    /\ ~torn[k] /\ s # <<>> /\ Head(s).kind = "pdu"
    /\ stream' = [stream EXCEPT ![k] = Tail(s)]
    /\ UNCHANGED torn

\* receive(header.length - 1) after header h, when s is what k has buffered:
\* the PDU of h, or a wait, or bytes that are refused or fit by chance, which
\* may be the PDU of another response.
ReceivePDU(p, k, h, s, w) ==
    IF ~torn[k] /\ s # <<>> /\ Head(s) = [kind |-> "pdu", of |-> h]
      THEN /\ TakePDU(k, s)
           /\ Stay(k, w)
           /\ Decode(p, h, h)
      ELSE \/ /\ WaitFor(p, k, "pdu", h, w)
              /\ stream' = [stream EXCEPT ![k] = s]
              /\ UNCHANGED torn
           \/ /\ TakeGarbage(k, s)
              /\ Stay(k, w)
              /\ \E e \in {"ModbusFrameError", "ModbusResponseMismatchError"} :
                    Fails(p, e)
           \/ /\ h # Garbage
              /\ Stay(k, w)
              /\ \/ TakePDU(k, s) /\ Decode(p, h, Head(s).of)
                 \/ TakeGarbage(k, s) /\ Decode(p, h, Garbage)

\* receive(7), and on to the PDU without an await when it is there already.
ReceiveHeader(p, k, w) ==
    LET s == stream[k]
    IN  IF ~torn[k] /\ s # <<>> /\ Head(s).kind = "header"
          THEN IF current = None
                 THEN /\ Fails(p, "ModbusConnectionError")
                      /\ stream' = [stream EXCEPT ![k] = Tail(s)]
                      /\ UNCHANGED torn
                      /\ Stay(k, w)
                 ELSE ReceivePDU(p, k, Head(s).of, Tail(s), w)
          ELSE \/ /\ WaitFor(p, k, "header", Garbage, w)
                  /\ UNCHANGED <<stream, torn>>
               \/ /\ TakeGarbage(k, s)
                  /\ \/ /\ current = None
                        /\ Fails(p, "ModbusConnectionError") /\ Stay(k, w)
                     \/ /\ current # None
                        /\ WaitFor(p, k, "pdu", Garbage, w)
                     \/ /\ current # None
                        /\ Stay(k, w)
                        /\ \E e \in {"ValueError", "ModbusFrameError",
                                     "ModbusResponseMismatchError"} : Fails(p, e)

\* Bytes of k that caller p takes are gone for a caller that awaits its PDU.
Crosses(p, k) ==
    crossed' = IF stream' = stream /\ torn' = torn THEN crossed
               ELSE crossed \cup {q \in Caller \ {p} : pc[q] = "pdu" /\ on[q] = k}

\* drain returns, or raises because the connection is gone.
Drained(p) ==
    /\ pc[p] = "drain" /\ on[p] \notin stalled
    /\ CASE on[p] \notin open -> /\ Fails(p, "ModbusTransportError")
                                 /\ UNCHANGED <<stream, torn, waiter>>
         [] on[p] \in open /\ current = None ->
              /\ Fails(p, "ModbusConnectionError")
              /\ UNCHANGED <<stream, torn, waiter>>
         [] OTHER -> ReceiveHeader(p, current, waiter[current])
    /\ Crosses(p, current)
    /\ CallLeaves
    /\ UNCHANGED <<pending, woken, nextTid, issued, request>>

\* A woken caller looks at the buffer again.  Its _wait_for_data clears
\* _waiter on the way out, even when another caller waits by then.
Resume(p) ==
    /\ p \in woken
    /\ woken' = woken \ {p}
    /\ IF pc[p] = "header"
         THEN ReceiveHeader(p, on[p], None)
         ELSE ReceivePDU(p, on[p], got[p], stream[on[p]], None)
    /\ Crosses(p, on[p])
    /\ CallLeaves
    /\ UNCHANGED <<pending, nextTid, issued, request>>

\* Mistake: the wait for the PDU has no timeout.
TimeoutHeaderOnly(p) ==
    /\ pc[p] \in {"drain", "header"}
    /\ Fails(p, "ModbusTimeoutError")
    /\ woken' = woken \ {p}
    /\ waiter' = IF pc[p] = "drain" THEN waiter ELSE [waiter EXCEPT ![on[p]] = None]
    /\ CallLeaves
    /\ UNCHANGED <<pending, stream, torn, nextTid, issued, request, crossed>>

\* asyncio.timeout cancels the await; nothing is taken from the stream, and
\* the connection stays as it is.
Timeout(p) ==
    /\ pc[p] \in {"drain", "header", "pdu"}
    /\ Fails(p, "ModbusTimeoutError")
    /\ woken' = woken \ {p}
    /\ waiter' = IF pc[p] = "drain" THEN waiter ELSE [waiter EXCEPT ![on[p]] = None]
    /\ CallLeaves
    /\ UNCHANGED <<pending, stream, torn, nextTid, issued, request, crossed>>

Next ==
    \/ \E p \in Caller : Execute(p) \/ Drained(p) \/ Resume(p) \/ Timeout(p)
    \/ \E m \in Manager : \/ BeginConnect(m) \/ Flushed(m) \/ ConnectSucceeds(m)
                          \/ ConnectFails(m) \/ BeginClose(m) \/ CloseReturns(m)
    \/ \E k \in Connection : \/ AnswerHeader(k) \/ AnswerPDU(k)
                             \/ ConnectionLost(k) \/ PeerStalls(k)

\* Timeouts fire, the loop runs who is woken, connecting ends one way or the
\* other, and a flush that can go on does.  The device owes nothing.
Spec ==
    /\ Init /\ [][Next]_vars
    /\ \A p \in Caller : WF_vars(Timeout(p))
    /\ \A m \in Manager : /\ WF_vars(Flushed(m))
                           /\ WF_vars(ConnectFails(m))
                           /\ WF_vars(CloseReturns(m))

-----------------------------------------------------------------------------
(***************************************************************************)
(* Properties.                                                             *)
(***************************************************************************)
Awaits == {"idle", "drain", "header", "pdu", "connecting", "closing"}
ZeroRequest == Request \cup {NoRequest}

\* The types: what is open was opened, a woken caller awaits a receive, and the
\* transaction id stays in 1 .. TidMax (_next_transaction_id wraps past 0).
TypeOK ==
    /\ current \in Connection \cup {None}
    /\ open \subseteq 1 .. opened /\ stalled \subseteq open
    /\ opened \in 0 .. MaxConns
    /\ pending \in [Connection -> Seq(Request)]
    /\ halfway \in [Connection -> Seq(Request)]
    /\ stream \in [Connection -> Seq(Piece)]
    /\ torn \in [Connection -> BOOLEAN]
    /\ waiter \in [Connection -> Caller \cup {None}]
    /\ woken \subseteq {p \in Caller : pc[p] \in {"header", "pdu"}}
    /\ nextTid \in 1 .. TidMax
    /\ issued \in 0 .. MaxRequests
    /\ pc \in [Caller \cup Manager -> Awaits]
    /\ request \in [Caller -> ZeroRequest]
    /\ on \in [Caller \cup Manager -> Connection \cup {None}]
    /\ got \in [Caller -> ZeroRequest]
    /\ result \in [Caller -> [outcome : Outcomes, header : ZeroRequest, body : ZeroRequest]]
    /\ crossed \subseteq Caller

\* A and B are the same call, or so far apart that transaction ids have
\* wrapped between them (client.py:_next_transaction_id).
Own(A, B) == A = B \/ A.id + TidMax <= B.id \/ B.id + TidMax <= A.id

\* A response execute returns came under the call's own header, whatever came
\* late, to other callers, or out of alignment (client.py:execute).  Its PDU is
\* the one that answers the call too, unless another caller read from the
\* connection between the two receives of this one.
AcceptedIsOwn ==
    \A p \in Caller :
        result[p].outcome = "ok" =>
            /\ Own(result[p].header, request[p])
            /\ p \notin crossed => result[p].body = result[p].header

\* doc/errors.rst: "ModbusResponseMismatchError when a response does not match
\* the request": a call never returns what another request was answered.
OthersAnswersAreRefused ==
    (\A p \in Caller : pc[p] = "idle") =>
        \A p \in Caller :
            result[p].outcome = "ok" /\ result[p].body # Garbage =>
                Own(result[p].body, request[p])

\* With one coroutine connecting and closing, a socket that is open is the
\* transport's current one or is being closed (connect closes what it finds).
NoLeakedConnection ==
    \A k \in open : k = current \/ \E m \in Manager : on[m] = k

\* Every execute returns, whatever the device, the network and the other
\* callers do, because each of its awaits has a timeout ...
ExecuteReturns == \A p \in Caller : pc[p] # "idle" ~> pc[p] = "idle"

\* ... but connect and close wait for wait_closed without one: they return
\* unless the peer stops taking what was written.
CloseAndConnectReturn ==
    \A m \in Manager : pc[m] # "idle" ~> pc[m] = "idle" \/ on[m] \in stalled
=============================================================================
