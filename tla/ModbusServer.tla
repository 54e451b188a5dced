---------------------------- MODULE ModbusServer ----------------------------
(***************************************************************************)
(* The client connections of ModbusTcpServer (server.py): one              *)
(* _handle_client task per connection, all of them and the device          *)
(* application sharing one datastore on one event loop.  A task gives the  *)
(* loop up at its awaits only: before a header, before the rest of a       *)
(* frame, in drain and when it closes.  Between two awaits it is atomic.   *)
(*                                                                         *)
(* Bytes are grouped in the two pieces the code reads, a header and a PDU: *)
(* a client may stall or vanish between them.  A header that lies about    *)
(* its length makes the bytes that follow another frame, which is a case   *)
(* of a client that sends another frame.                                   *)
(***************************************************************************)
EXTENDS RequestHandler

CONSTANTS
    Conn,          \* connections
    Frame,         \* Frame[c]: what client c sends, records [header, pdu]
    InitialCells,  \* what the datastore holds at first
    LocalWrite,    \* writes of the device application: [area, address, values]
    MaxFrames,     \* bound: frames sent over all connections
    Absorbed       \* responses the network takes before drain has to wait

\* A header: transaction and unit id, whether the protocol id is Modbus, and
\* the number of bytes its length field promises (2 stands for any more).
Header == [tid : Nat, unit : Nat, modbus : BOOLEAN, length : 0 .. 2]

ASSUME FrameAssumption ==
    /\ \A c \in Conn : \A f \in Frame[c] :
          f.header \in Header /\ (f.header.length = 1 => f.pdu.fc = "NONE")
    /\ MaxFrames \in Nat /\ Absorbed \in Nat

\* The fields of a request that decodes have the types its class declares.
ASSUME RequestAssumption ==
    \A c \in Conn : \A f \in Frame[c] :
        DecodeRequest(f.pdu) = "ok" => HasFields(f.pdu)

ASSUME LocalAssumption ==
    \A w \in LocalWrite : w.area \in Area /\ w.address \in Int /\ w.values \in Seq(Datum)

VARIABLES
    cells,     \* the datastore
    pc,        \* pc[c]: where the task of connection c waits
    header,    \* header[c]: the local variable of the task
    link,      \* link[c]: "up", "eof" (the client shut its side) or "reset"
    sending,   \* sending[c]: the PDUs whose header is on the way already
    inbox,     \* inbox[c]: pieces received and not read
    asked,     \* asked[c]: the requests the client completed (history)
    answered,  \* answered[c]: the responses written (history)
    unread,    \* unread[c]: how many of them the client has not read
    sent       \* frames begun by any client, for the bound MaxFrames

clientVars == <<link, sending, asked, sent>>
vars == <<cells, pc, header, link, sending, inbox, asked, answered, unread, sent>>

NoHeader == [tid |-> 0, unit |-> 0, modbus |-> FALSE, length |-> 0]

Init ==
    /\ cells = InitialCells
    /\ pc = [c \in Conn |-> "unconnected"]
    /\ header = [c \in Conn |-> NoHeader]
    /\ link = [c \in Conn |-> "up"]
    /\ sending = [c \in Conn |-> <<>>]
    /\ inbox = [c \in Conn |-> <<>>]
    /\ asked = [c \in Conn |-> <<>>]
    /\ answered = [c \in Conn |-> <<>>]
    /\ unread = [c \in Conn |-> 0]
    /\ sent = 0

-----------------------------------------------------------------------------
(***************************************************************************)
(* Clients, and the device application.                                    *)
(***************************************************************************)
Serving(c) == pc[c] \in {"header", "body", "drain"}

\* The listening server accepts a connection and starts its task.
Accept(c) ==
    /\ pc[c] = "unconnected"
    /\ pc' = [pc EXCEPT ![c] = "header"]
    /\ UNCHANGED <<cells, header, inbox, answered, unread, clientVars>>

Request(f) == [tid |-> f.header.tid, unit |-> f.header.unit, fc |-> f.pdu.fc]

\* A header arrives; with length 1 it is a complete request with no PDU.
ClientHeader(c, f) ==
    /\ Serving(c) /\ link[c] = "up" /\ sending[c] = <<>> /\ sent < MaxFrames
    /\ sent' = sent + 1
    /\ inbox' = [inbox EXCEPT ![c] = Append(@, f.header)]
    /\ sending' = [sending EXCEPT ![c] = IF f.header.length = 2 THEN <<f>> ELSE @]
    /\ asked' = [asked EXCEPT ![c] =
                   IF f.header.length = 1 THEN Append(@, Request(f)) ELSE @]
    /\ UNCHANGED <<cells, pc, header, link, answered, unread>>

ClientBody(c) ==
    /\ Serving(c) /\ link[c] = "up" /\ sending[c] # <<>>
    /\ inbox' = [inbox EXCEPT ![c] = Append(@, sending[c][1].pdu)]
    /\ asked' = [asked EXCEPT ![c] = Append(@, Request(sending[c][1]))]
    /\ sending' = [sending EXCEPT ![c] = <<>>]
    /\ UNCHANGED <<cells, pc, header, link, answered, unread, sent>>

ClientReads(c) ==
    /\ link[c] # "reset" /\ unread[c] > 0
    /\ unread' = [unread EXCEPT ![c] = @ - 1]
    /\ UNCHANGED <<cells, pc, header, inbox, answered, clientVars>>

\* The client shuts down its side, or the connection is lost.
ClientLeaves(c, how) ==
    /\ Serving(c) /\ link[c] = "up"
    /\ link' = [link EXCEPT ![c] = how]
    /\ UNCHANGED <<cells, pc, header, sending, inbox, asked, answered, unread, sent>>

\* A simulator task, or the application, writes the datastore directly.
LocalSet(w) ==
    /\ WriteOutcome(w.area, Extents[w.area], w.address, w.values) = "ok"
    /\ cells' = [cells EXCEPT ![w.area] = Overlay(@, w.address, w.values)]
    /\ UNCHANGED <<pc, header, inbox, answered, unread, clientVars>>

-----------------------------------------------------------------------------
(***************************************************************************)
(* The task of one connection.                                             *)
(***************************************************************************)
HeaderAccepted(h) == h.modbus /\ h.length >= 1

\* Mistake: the header is kept on the server object, shared by every task.
ReadHeaderShared(c) ==
    /\ pc[c] = "header" /\ link[c] # "reset" /\ inbox[c] # <<>>
    /\ inbox' = [inbox EXCEPT ![c] = Tail(@)]
    /\ header' = [d \in Conn |-> Head(inbox[c])]
    /\ pc' = [pc EXCEPT ![c] =
                IF HeaderAccepted(Head(inbox[c])) THEN "body" ELSE "closing"]
    /\ UNCHANGED <<cells, answered, unread, clientVars>>

ReadHeader(c) ==
    /\ pc[c] = "header" /\ link[c] # "reset" /\ inbox[c] # <<>>
    /\ inbox' = [inbox EXCEPT ![c] = Tail(@)]
    /\ header' = [header EXCEPT ![c] = Head(inbox[c])]
    /\ pc' = [pc EXCEPT ![c] =
                IF HeaderAccepted(Head(inbox[c])) THEN "body" ELSE "closing"]
    /\ UNCHANGED <<cells, answered, unread, clientVars>>

NoPDU == [fc |-> "NONE"]

\* The PDU that follows the header of c: none to wait for when length is 1.
BodyArrived(c) == header[c].length = 1 \/ inbox[c] # <<>>
Body(c) == IF header[c].length = 1 THEN NoPDU ELSE Head(inbox[c])

\* What the task makes of the PDU: the result of the request, or the
\* exception response for bytes that decode to no request.
Result(c) ==
    LET decoded == DecodeRequest(Body(c))
    IN  CASE decoded = "ok" -> HandleRequest(Body(c), cells)
          [] decoded = "ModbusPDUError" ->
               [response |-> ExceptionTo(Body(c), "ILLEGAL_FUNCTION"), store |-> cells]
          [] OTHER ->
               [response |-> ExceptionTo(Body(c), "ILLEGAL_DATA_VALUE"), store |-> cells]

Stamp(c, response) ==
    [tid |-> header[c].tid, unit |-> header[c].unit,
     fc |-> response.fc, kind |-> response.kind, values |-> response.values]

\* Mistake: a PDU that does not decode is skipped without an answer.
ReadBodySilent(c) ==
    /\ pc[c] = "body" /\ link[c] # "reset" /\ BodyArrived(c)
    /\ inbox' = [inbox EXCEPT ![c] = IF header[c].length = 1 THEN @ ELSE Tail(@)]
    /\ IF DecodeRequest(Body(c)) # "ok"
         THEN /\ pc' = [pc EXCEPT ![c] = "header"]
              /\ UNCHANGED <<cells, answered, unread>>
         ELSE /\ cells' = Result(c).store
              /\ answered' = [answered EXCEPT ![c] =
                                Append(@, Stamp(c, Result(c).response))]
              /\ unread' = [unread EXCEPT ![c] = @ + 1]
              /\ pc' = [pc EXCEPT ![c] = "drain"]
    /\ UNCHANGED <<header, clientVars>>

\* Mistake: the task goes on to the next frame without awaiting drain.
ReadBodyNoDrain(c) ==
    /\ pc[c] = "body" /\ link[c] # "reset" /\ BodyArrived(c)
    /\ inbox' = [inbox EXCEPT ![c] = IF header[c].length = 1 THEN @ ELSE Tail(@)]
    /\ cells' = Result(c).store
    /\ answered' = [answered EXCEPT ![c] = Append(@, Stamp(c, Result(c).response))]
    /\ unread' = [unread EXCEPT ![c] = @ + 1]
    /\ pc' = [pc EXCEPT ![c] = "header"]
    /\ UNCHANGED <<header, clientVars>>

\* The PDU is decoded, handled, answered and written without an await between.
\* A response that cannot be packed ends the task after the store has changed.
ReadBody(c) ==
    /\ pc[c] = "body" /\ link[c] # "reset" /\ BodyArrived(c)
    /\ inbox' = [inbox EXCEPT ![c] = IF header[c].length = 1 THEN @ ELSE Tail(@)]
    /\ cells' = Result(c).store
    /\ IF EncodeRaises(Result(c).response)
         THEN /\ pc' = [pc EXCEPT ![c] = "closing"]
              /\ UNCHANGED <<answered, unread>>
         ELSE /\ answered' = [answered EXCEPT ![c] =
                                Append(@, Stamp(c, Result(c).response))]
              /\ unread' = [unread EXCEPT ![c] = @ + 1]
              /\ pc' = [pc EXCEPT ![c] = "drain"]
    /\ UNCHANGED <<header, clientVars>>

\* drain returns once the client, or the network, has taken enough.
Drained(c) ==
    /\ pc[c] = "drain" /\ link[c] # "reset" /\ unread[c] <= Absorbed
    /\ pc' = [pc EXCEPT ![c] = "header"]
    /\ UNCHANGED <<cells, header, inbox, answered, unread, clientVars>>

\* readexactly meets the end of the stream, or any await a lost connection.
LinkEnds(c) ==
    /\ \/ Serving(c) /\ link[c] = "reset"
       \/ pc[c] = "header" /\ link[c] = "eof" /\ inbox[c] = <<>>
       \/ pc[c] = "body" /\ link[c] = "eof" /\ ~BodyArrived(c)
    /\ pc' = [pc EXCEPT ![c] = "closing"]
    /\ UNCHANGED <<cells, header, inbox, answered, unread, clientVars>>

\* finally: the writer is closed.
Close(c) ==
    /\ pc[c] = "closing"
    /\ pc' = [pc EXCEPT ![c] = "closed"]
    /\ inbox' = [inbox EXCEPT ![c] = <<>>]
    /\ UNCHANGED <<cells, header, answered, unread, clientVars>>

Task(c) == ReadHeader(c) \/ ReadBody(c) \/ Drained(c) \/ LinkEnds(c) \/ Close(c)

Client(c) ==
    \/ Accept(c)
    \/ \E f \in Frame[c] : ClientHeader(c, f)
    \/ ClientBody(c)
    \/ ClientReads(c)
    \/ \E how \in {"eof", "reset"} : ClientLeaves(c, how)

Next ==
    \/ \E c \in Conn : Task(c) \/ Client(c)
    \/ \E w \in LocalWrite : LocalSet(w)

\* The event loop runs every task that can go on, sooner or later; nothing
\* obliges a client to send, to read or to leave.
Spec == Init /\ [][Next]_vars /\ \A c \in Conn : WF_vars(Task(c))

-----------------------------------------------------------------------------
(***************************************************************************)
(* Properties.                                                             *)
(***************************************************************************)
Sendable == UNION {Frame[c] : c \in Conn}
Code == {f.pdu.fc : f \in Sendable} \cup {"NONE"}

\* Types, and back pressure: awaiting drain keeps a client that does not read
\* from making the server buffer more than one response for it.
TypeOK ==
    /\ \A area \in Area : cells[area] \in [Addresses(Extents[area]) -> Datum]
    /\ pc \in [Conn -> {"unconnected", "header", "body", "drain", "closing", "closed"}]
    /\ header \in [Conn -> Header]
    /\ link \in [Conn -> {"up", "eof", "reset"}]
    /\ sending \in [Conn -> {<<>>} \cup {<<f>> : f \in Sendable}]
    /\ asked \in [Conn -> Seq([tid : Nat, unit : Nat, fc : Code])]
    /\ answered \in [Conn -> Seq([tid : Nat, unit : Nat, fc : Code,
                                  kind : ExceptionCode \cup {"normal"},
                                  values : Seq(Datum)])]
    /\ unread \in [Conn -> 0 .. Absorbed + 1]
    /\ sent \in 0 .. MaxFrames

\* Pipelined requests of one client are answered in the order they were sent,
\* each at most once and under its own transaction id, unit id and function
\* code, whatever the other connections do in between (_handle_client keeps
\* the header across an await and writes one response per pass of its loop).
AnswersFollowRequests ==
    \A c \in Conn :
        /\ Len(answered[c]) <= Len(asked[c])
        /\ \A i \in DOMAIN answered[c] :
              /\ answered[c][i].tid = asked[c][i].tid
              /\ answered[c][i].unit = asked[c][i].unit
              /\ answered[c][i].fc = asked[c][i].fc

\* The step in which the task of c consumes a PDU, and the answer it gives.
Handles(c) == pc[c] = "body" /\ pc'[c] \in {"header", "drain", "closing"}
                /\ (header[c].length = 1 \/ inbox'[c] # inbox[c])
Answers(c) == Len(answered'[c]) > Len(answered[c])
NewAnswer(c) == answered'[c][Len(answered'[c])]

\* A request answered with an exception has changed nothing: no failure of a
\* later step of handle_request (the second half of 0x16 and 0x17) leaves an
\* earlier one behind, and no request changes an area it does not write.
RefusalChangesNothing ==
    [][\A c \in Conn : Handles(c) /\ cells' # cells =>
         /\ Answers(c)
         /\ NewAnswer(c).kind = "normal"
         /\ NewAnswer(c).fc \in WriteCode
         /\ \A area \in Area \ {AreaOf(NewAnswer(c).fc)} :
               cells'[area] = cells[area]]_vars

\* An answered read returns the store as the request left it: for 0x17 that
\* is the state after its own write (handle_request reads the range twice).
ReadsSeeTheStore ==
    [][\A c \in Conn : Handles(c) /\ Answers(c) =>
         LET a == NewAnswer(c)
             pdu == Body(c)
             address == IF a.fc = "READ_WRITE_MULTIPLE_REGISTERS"
                          THEN pdu.read_address ELSE pdu.address
         IN  a.kind = "normal" /\ Len(a.values) > 0 =>
               a.values = Window(cells'[AreaOf(a.fc)], address, Len(a.values))]_vars

\* Every complete request is answered, or its connection is closed, unless
\* the client lets its responses pile up: no other client's stall, no
\* malformed PDU and no local write can hold it back.
EveryRequestSettled ==
    \A c \in Conn : \A n \in 1 .. MaxFrames :
        Len(asked[c]) >= n ~> \/ Len(answered[c]) >= n
                              \/ pc[c] = "closed"
                              \/ unread[c] > Absorbed

\* doc/server.rst: "Datastore and protocol failures are mapped to Modbus
\* exception responses" and "Invalid datastore values return
\* ILLEGAL_DATA_VALUE".  So every PDU the task consumes is answered.
EveryFailureIsAnswered == [][\A c \in Conn : Handles(c) => Answers(c)]_vars
=============================================================================
