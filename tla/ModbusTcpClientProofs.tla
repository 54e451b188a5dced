----------------------- MODULE ModbusTcpClientProofs -----------------------
(***************************************************************************)
(* Proofs about ModbusTcpClient, for any callers, any number of calls and  *)
(* connections, and any TidMax.                                            *)
(***************************************************************************)
EXTENDS ModbusTcpClient, TLAPS

PieceOf(S) == [kind : {"header", "pdu"}, of : S]
Maybe(S) == S \cup {NoRequest}

(***************************************************************************)
(* What a receive of p on connection k may do to the state, when the       *)
(* pieces in the streams are about requests of S: it ends the call, with a *)
(* response only if its header is of S and has the right transaction id,   *)
(* or it waits.                                                            *)
(***************************************************************************)
EndsCall(p, k, w, S) ==
    /\ waiter' = [waiter EXCEPT ![k] = w]
    /\ \E outcome \in Outcomes, r \in Maybe(S), body \in Maybe(S) :
          /\ Ended(p, outcome, r, body)
          /\ outcome # "none"
          /\ outcome = "ok" => r \in S /\ r.tid = request[p].tid

Waits(p, k, S) ==
    /\ waiter' = [waiter EXCEPT ![k] = p]
    /\ \E what \in {"header", "pdu"} : pc' = [pc EXCEPT ![p] = what]
    /\ on' = [on EXCEPT ![p] = k]
    /\ \E h \in Maybe(S) : got' = [got EXCEPT ![p] = h]
    /\ result' = result

Received(p, k, w, S) ==
    /\ stream' \in [Connection -> Seq(PieceOf(S))]
    /\ torn' \in [Connection -> BOOLEAN]
    /\ EndsCall(p, k, w, S) \/ Waits(p, k, S)

-----------------------------------------------------------------------------
(***************************************************************************)
(* Receiving.                                                              *)
(***************************************************************************)
\* A call that fails returns no response.
LEMMA FailsEnds ==
    ASSUME NEW p, NEW k, NEW w, NEW S, NEW e \in Outcomes \ {"ok", "none"},
           waiter' = [waiter EXCEPT ![k] = w], Fails(p, e)
    PROVE  EndsCall(p, k, w, S)
BY DEF EndsCall, Fails, Maybe

\* Waiting for more bytes (_wait_for_data) fails or waits.
LEMMA WaitForFacts ==
    ASSUME NEW S, NEW p, NEW k, NEW w, NEW h \in Maybe(S),
           NEW what \in {"header", "pdu"}, WaitFor(p, k, what, h, w)
    PROVE  EndsCall(p, k, w, S) \/ Waits(p, k, S)
<1>1. CASE k \notin open
  BY <1>1, FailsEnds DEF WaitFor, Outcomes, ModbusErrors
<1>2. CASE k \in open /\ w # None
  BY <1>2, FailsEnds DEF WaitFor, Outcomes
<1>3. CASE k \in open /\ w = None
  BY <1>3 DEF WaitFor, Waits
<1> QED BY <1>1, <1>2, <1>3

\* What is left of a stream is about the same requests.
LEMMA TakeGarbageFacts ==
    ASSUME NEW S, NEW k \in Connection, NEW s \in Seq(PieceOf(S)),
           stream \in [Connection -> Seq(PieceOf(S))],
           torn \in [Connection -> BOOLEAN], TakeGarbage(k, s)
    PROVE  /\ stream' \in [Connection -> Seq(PieceOf(S))]
           /\ torn' \in [Connection -> BOOLEAN]
<1>1. PICK n \in 1 .. Len(s), t \in BOOLEAN :
         /\ stream' = [stream EXCEPT ![k] = SubSeq(s, n + IF t THEN 0 ELSE 1, Len(s))]
         /\ torn' = [torn EXCEPT ![k] = t]
  BY DEF TakeGarbage
<1>2. SubSeq(s, n + IF t THEN 0 ELSE 1, Len(s)) \in Seq(PieceOf(S))
  <2>1. \A i \in n .. Len(s) : s[i] \in PieceOf(S)
    OBVIOUS
  <2> DEFINE first == n + IF t THEN 0 ELSE 1
  <2>2. first \in Nat /\ first >= 1
    OBVIOUS
  <2> HIDE DEF first
  <2>3. SubSeq(s, first, Len(s)) \in Seq(PieceOf(S))
    BY <2>2
  <2> QED BY <2>3 DEF first
<1> QED BY <1>1, <1>2

\* Decoding refuses, or returns a response under a header of the call's id.
LEMMA DecodeFacts ==
    ASSUME NEW S, NEW p, NEW k, NEW w, NEW h \in Maybe(S), h # Garbage,
           NEW body \in Maybe(S), Stay(k, w), Decode(p, h, body)
    PROVE  EndsCall(p, k, w, S)
<1>1. CASE h.tid # request[p].tid
  BY <1>1, FailsEnds DEF Decode, Stay, Outcomes, ModbusErrors
<1>2. CASE h.tid = request[p].tid
  BY <1>2 DEF Decode, Stay, EndsCall, Outcomes, Maybe, Garbage, NoRequest
<1> QED BY <1>1, <1>2

\* What is left of a stream when its next PDU is taken.
LEMMA TakePDUFacts ==
    ASSUME NEW S, NEW k \in Connection, NEW s \in Seq(PieceOf(S)),
           stream \in [Connection -> Seq(PieceOf(S))],
           torn \in [Connection -> BOOLEAN], TakePDU(k, s)
    PROVE  /\ stream' \in [Connection -> Seq(PieceOf(S))]
           /\ torn' \in [Connection -> BOOLEAN]
           /\ Head(s).of \in S
<1>1. s # <<>> /\ stream' = [stream EXCEPT ![k] = Tail(s)] /\ torn' = torn
  BY DEF TakePDU
<1>2. Tail(s) \in Seq(PieceOf(S)) /\ Head(s) \in PieceOf(S)
  BY <1>1
<1> QED BY <1>1, <1>2 DEF PieceOf

\* Receiving the PDU that header h announces.
LEMMA ReceivePDUFacts ==
    ASSUME NEW S \in SUBSET Request, NEW p, NEW k \in Connection, NEW h \in Maybe(S),
           NEW s \in Seq(PieceOf(S)), NEW w,
           stream \in [Connection -> Seq(PieceOf(S))],
           torn \in [Connection -> BOOLEAN], ReceivePDU(p, k, h, s, w)
    PROVE  Received(p, k, w, S)
<1>g. Garbage \in Maybe(S) /\ Garbage \notin S
  BY DEF Garbage, NoRequest, Maybe, Request, None
<1>1. CASE ~torn[k] /\ s # <<>> /\ Head(s) = [kind |-> "pdu", of |-> h]
  <2>1. TakePDU(k, s) /\ Stay(k, w) /\ Decode(p, h, h)
    BY <1>1 DEF ReceivePDU
  <2>2. h # Garbage
    BY <1>1, <1>g, <2>1, TakePDUFacts
  <2> QED BY <2>1, <2>2, TakePDUFacts, DecodeFacts DEF Received
<1>2. CASE ~(~torn[k] /\ s # <<>> /\ Head(s) = [kind |-> "pdu", of |-> h])
  <2>1. CASE /\ WaitFor(p, k, "pdu", h, w)
             /\ stream' = [stream EXCEPT ![k] = s]
             /\ UNCHANGED torn
    BY <2>1, WaitForFacts DEF Received
  <2>2. ASSUME NEW e \in {"ModbusFrameError", "ModbusResponseMismatchError"},
               TakeGarbage(k, s), Stay(k, w), Fails(p, e)
        PROVE  Received(p, k, w, S)
    BY <2>2, TakeGarbageFacts, FailsEnds DEF Received, Stay, Outcomes, ModbusErrors
  <2>3. CASE h # Garbage /\ Stay(k, w) /\ TakePDU(k, s) /\ Decode(p, h, Head(s).of)
    <3>1. Head(s).of \in Maybe(S)
      BY <2>3, TakePDUFacts DEF Maybe
    <3> QED BY <2>3, <3>1, TakePDUFacts, DecodeFacts DEF Received
  <2>4. CASE h # Garbage /\ Stay(k, w) /\ TakeGarbage(k, s) /\ Decode(p, h, Garbage)
    BY <1>g, <2>4, TakeGarbageFacts, DecodeFacts DEF Received
  <2> QED BY <1>2, <2>1, <2>2, <2>3, <2>4 DEF ReceivePDU
<1> QED BY <1>1, <1>2

\* Receiving a header, and the PDU with it when it is there.
LEMMA ReceiveHeaderFacts ==
    ASSUME NEW S \in SUBSET Request, NEW p, NEW k \in Connection, NEW w,
           stream \in [Connection -> Seq(PieceOf(S))],
           torn \in [Connection -> BOOLEAN], ReceiveHeader(p, k, w)
    PROVE  Received(p, k, w, S)
<1> DEFINE s == stream[k]
<1>s. s \in Seq(PieceOf(S))
  OBVIOUS
<1>g. Garbage \in Maybe(S)
  BY DEF Garbage, NoRequest, Maybe
<1>1. CASE ~torn[k] /\ s # <<>> /\ Head(s).kind = "header"
  <2>1. Head(s).of \in Maybe(S) /\ Tail(s) \in Seq(PieceOf(S))
    <3>1. Head(s) \in PieceOf(S) /\ Tail(s) \in Seq(PieceOf(S))
      BY <1>s, <1>1
    <3> QED BY <3>1 DEF PieceOf, Maybe
  <2>2. CASE current = None
    <3>1. /\ Fails(p, "ModbusConnectionError")
          /\ stream' = [stream EXCEPT ![k] = Tail(s)]
          /\ torn' = torn
          /\ waiter' = [waiter EXCEPT ![k] = w]
      BY <1>1, <2>2 DEF ReceiveHeader, Stay
    <3> QED BY <2>1, <3>1, FailsEnds DEF Received, Outcomes, ModbusErrors
  <2>3. CASE current # None
    <3>1. ReceivePDU(p, k, Head(s).of, Tail(s), w)
      BY <1>1, <2>3 DEF ReceiveHeader
    <3> QED BY <2>1, <3>1, ReceivePDUFacts
  <2> QED BY <2>2, <2>3
<1>2. CASE ~(~torn[k] /\ s # <<>> /\ Head(s).kind = "header")
  <2>1. CASE WaitFor(p, k, "header", Garbage, w) /\ UNCHANGED <<stream, torn>>
    BY <1>g, <2>1, WaitForFacts DEF Received
  <2>2. ASSUME TakeGarbage(k, s), NEW e \in Outcomes \ {"ok", "none"}, Fails(p, e), Stay(k, w)
        PROVE  Received(p, k, w, S)
    BY <1>s, <2>2, TakeGarbageFacts, FailsEnds DEF Received, Stay
  <2>3. CASE TakeGarbage(k, s) /\ WaitFor(p, k, "pdu", Garbage, w)
    BY <1>s, <1>g, <2>3, TakeGarbageFacts, WaitForFacts DEF Received
  <2> QED BY <1>2, <2>1, <2>2, <2>3 DEF ReceiveHeader, Outcomes, ModbusErrors
<1> QED BY <1>1, <1>2

-----------------------------------------------------------------------------
(***************************************************************************)
(* The inductive invariant.                                                *)
(***************************************************************************)
\* Where the callers and the connections are.
Control ==
    /\ current \in Connection \cup {None}
    /\ opened \in 0 .. MaxConns
    /\ open \subseteq 1 .. opened /\ stalled \subseteq open
    /\ torn \in [Connection -> BOOLEAN]
    /\ waiter \in [Connection -> Caller \cup {None}]
    /\ nextTid \in 1 .. TidMax
    /\ issued \in 0 .. MaxRequests
    /\ crossed \subseteq Caller
    /\ pc \in [Caller \cup Manager -> Awaits]
    /\ on \in [Caller \cup Manager -> Connection \cup {None}]
    /\ woken \subseteq {p \in Caller : pc[p] \in {"header", "pdu"}}
    /\ \A p \in Caller : pc[p] # "idle" => on[p] \in Connection
    /\ \A k \in Connection : waiter[k] \in Caller =>
          pc[waiter[k]] \in {"header", "pdu"} /\ on[waiter[k]] = k

\* Every request that client, stream or device holds is one of S, and the
\* header of a response that was returned has the transaction id of its call.
Carries(S) ==
    /\ pending \in [Connection -> Seq(S)]
    /\ halfway \in [Connection -> Seq(S)]
    /\ stream \in [Connection -> Seq(PieceOf(S))]
    /\ request \in [Caller -> Maybe(S)]
    /\ got \in [Caller -> Maybe(S)]
    /\ result \in [Caller -> [outcome : Outcomes, header : Maybe(S), body : Maybe(S)]]
    /\ \A p \in Caller : result[p].outcome = "ok" =>
          /\ request[p] \in S /\ result[p].header \in S
          /\ result[p].header.tid = request[p].tid

\* The requests of S have been made; two with one transaction id are TidMax
\* calls apart, and so is the next one from any of S that has its id.
Spaced(S) ==
    /\ \A r \in S :
          /\ r.id <= issued
          /\ LET d == issued + 1 - r.id
             IN  d < TidMax => nextTid = r.tid + d \/ nextTid = r.tid + d - TidMax
    /\ \A r, s \in S : r.id = s.id => r = s
    /\ \A r, s \in S : r.tid = s.tid /\ r.id < s.id => r.id + TidMax <= s.id

IInv == Control /\ \E S \in SUBSET Request : Carries(S) /\ Spaced(S)

-----------------------------------------------------------------------------
(***************************************************************************)
(* The steps of a call.                                                    *)
(***************************************************************************)
\* What p's drain, wait or timeout does is a receive on some connection, after
\* which no other connection has p as its waiter.
LEMMA CallReceives ==
    ASSUME Control, NEW S \in SUBSET Request, NEW p \in Caller,
           stream \in [Connection -> Seq(PieceOf(S))], got \in [Caller -> Maybe(S)],
           Drained(p) \/ Resume(p) \/ Timeout(p)
    PROVE  /\ pc[p] \in {"drain", "header", "pdu"}
           /\ CallLeaves /\ UNCHANGED <<pending, nextTid, issued, request>>
           /\ woken' = woken \ {p} /\ crossed' \subseteq Caller
           /\ \E k \in Connection : \E w \in {None, waiter[k]} :
                 /\ Received(p, k, w, S)
                 /\ w # p
                 /\ \A other \in Connection \ {k} : waiter[other] # p
<1> DEFINE Some == \E k \in Connection : \E w \in {None, waiter[k]} :
                     /\ Received(p, k, w, S)
                     /\ w # p
                     /\ \A other \in Connection \ {k} : waiter[other] # p
<1>a. p \in Caller \cup Manager /\ p # None /\ on[p] \in Connection \cup {None}
  BY ClientAssumption DEF Control
<1>b. crossed' \subseteq Caller
  BY DEF Drained, Resume, Timeout, Crosses, Control
<1>1. CASE Drained(p)
  <2>1. pc[p] = "drain" /\ on[p] \in Connection /\ p \notin woken
    BY <1>1 DEF Drained, Control
  <2>2. \A k \in Connection : waiter[k] # p
    BY <2>1 DEF Control
  <2>3. ASSUME ~(on[p] \in open /\ current # None) PROVE Some
    <3>1. PICK e \in {"ModbusTransportError", "ModbusConnectionError"} :
             Fails(p, e) /\ UNCHANGED <<stream, torn, waiter>>
      BY <1>1, <2>3 DEF Drained
    <3>2. waiter' = [waiter EXCEPT ![on[p]] = waiter[on[p]]]
      BY <2>1, <3>1 DEF Control
    <3>3. EndsCall(p, on[p], waiter[on[p]], S)
      BY <3>1, <3>2, FailsEnds DEF Outcomes, ModbusErrors
    <3>4. Received(p, on[p], waiter[on[p]], S)
      BY <3>1, <3>3 DEF Received, Control
    <3> QED BY <2>1, <2>2, <3>4
  <2>4. ASSUME on[p] \in open, current # None PROVE Some
    <3>1. current \in Connection /\ ReceiveHeader(p, current, waiter[current])
      BY <1>1, <2>4 DEF Drained, Control
    <3>2. Received(p, current, waiter[current], S)
      BY <3>1, ReceiveHeaderFacts DEF Control
    <3> QED BY <2>2, <3>1, <3>2
  <2>5. Some
    BY <2>3, <2>4
  <2>6. CallLeaves /\ UNCHANGED <<pending, nextTid, issued, request>> /\ woken' = woken \ {p}
    BY <1>1, <2>1 DEF Drained
  <2> QED BY <1>b, <2>1, <2>5, <2>6
<1>2. CASE Resume(p)
  <2>1. p \in woken /\ pc[p] \in {"header", "pdu"} /\ on[p] \in Connection
    BY <1>2 DEF Resume, Control
  <2>2. \A other \in Connection \ {on[p]} : waiter[other] # p
    BY <2>1 DEF Control
  <2>3. Received(p, on[p], None, S)
    <3>1. CASE ReceiveHeader(p, on[p], None)
      BY <2>1, <3>1, ReceiveHeaderFacts DEF Control
    <3>2. CASE ReceivePDU(p, on[p], got[p], stream[on[p]], None)
      BY <2>1, <3>2, ReceivePDUFacts DEF Control
    <3> QED BY <1>2, <3>1, <3>2 DEF Resume
  <2>4. CallLeaves /\ UNCHANGED <<pending, nextTid, issued, request>> /\ woken' = woken \ {p}
    BY <1>2 DEF Resume
  <2>5. Some
    BY <1>a, <2>1, <2>2, <2>3
  <2>6. pc[p] \in {"drain", "header", "pdu"}
    BY <2>1
  <2> QED BY <1>b, <2>4, <2>5, <2>6
<1>3. CASE Timeout(p)
  <2>1. pc[p] \in {"drain", "header", "pdu"} /\ on[p] \in Connection
    BY <1>3 DEF Timeout, Control
  <2>2. \A other \in Connection \ {on[p]} : waiter[other] # p
    BY <2>1 DEF Control
  <2> DEFINE w == IF pc[p] = "drain" THEN waiter[on[p]] ELSE None
  <2>3. w # p /\ w \in {None, waiter[on[p]]}
    BY <1>a, <2>1 DEF Control
  <2>4. waiter' = [waiter EXCEPT ![on[p]] = w]
    BY <1>3, <2>1 DEF Timeout, Control
  <2>5. EndsCall(p, on[p], w, S)
    <3> HIDE DEF w
    <3> QED BY <1>3, <2>4, FailsEnds DEF Timeout, Outcomes, ModbusErrors
  <2>6. Received(p, on[p], w, S)
    BY <1>3, <2>5 DEF Timeout, Received, Control
  <2>7. CallLeaves /\ UNCHANGED <<pending, nextTid, issued, request>> /\ woken' = woken \ {p}
    BY <1>3 DEF Timeout
  <2>8. Some
    <3> HIDE DEF w
    <3> QED BY <2>1, <2>2, <2>3, <2>6
  <2> HIDE DEF w
  <2> QED BY <1>b, <2>1, <2>7, <2>8
<1> QED BY <1>1, <1>2, <1>3

\* Such a step keeps the control state.
LEMMA ReceiveControl ==
    ASSUME Control, NEW S, NEW p \in Caller, NEW k \in Connection,
           NEW w \in {None, waiter[k]}, Received(p, k, w, S), w # p,
           \A other \in Connection \ {k} : waiter[other] # p,
           CallLeaves, UNCHANGED <<nextTid, issued>>, woken' = woken \ {p},
           crossed' \subseteq Caller
    PROVE  Control'
<1>n. None \notin Caller
  BY ClientAssumption
<1>1. CASE EndsCall(p, k, w, S)
  <2>1. /\ waiter' = [waiter EXCEPT ![k] = w]
        /\ pc' = [pc EXCEPT ![p] = "idle"]
        /\ on' = [on EXCEPT ![p] = None]
    BY <1>1 DEF EndsCall, Ended
  <2>2. /\ pc' \in [Caller \cup Manager -> Awaits]
        /\ on' \in [Caller \cup Manager -> Connection \cup {None}]
        /\ waiter' \in [Connection -> Caller \cup {None}]
    BY <2>1 DEF Control, Awaits
  <2>3. woken' \subseteq {q \in Caller : pc'[q] \in {"header", "pdu"}}
    BY <2>1 DEF Control
  <2>4. \A q \in Caller : pc'[q] # "idle" => on'[q] \in Connection
    BY <2>1 DEF Control
  <2>5. \A o \in Connection : waiter'[o] \in Caller =>
          waiter'[o] # p /\ waiter'[o] = waiter[o]
    BY <2>1, <1>n DEF Control
  <2>6. \A o \in Connection : waiter'[o] \in Caller =>
          pc'[waiter'[o]] \in {"header", "pdu"} /\ on'[waiter'[o]] = o
    BY <2>1, <2>5 DEF Control
  <2> QED BY <2>2, <2>3, <2>4, <2>6 DEF Control, Received, CallLeaves
<1>2. CASE Waits(p, k, S)
  <2>1. PICK what \in {"header", "pdu"} :
        /\ waiter' = [waiter EXCEPT ![k] = p]
        /\ pc' = [pc EXCEPT ![p] = what]
        /\ on' = [on EXCEPT ![p] = k]
    BY <1>2 DEF Waits
  <2>2. /\ pc' \in [Caller \cup Manager -> Awaits]
        /\ on' \in [Caller \cup Manager -> Connection \cup {None}]
        /\ waiter' \in [Connection -> Caller \cup {None}]
    BY <2>1 DEF Control, Awaits
  <2>3. woken' \subseteq {q \in Caller : pc'[q] \in {"header", "pdu"}}
    BY <2>1 DEF Control
  <2>4. \A q \in Caller : pc'[q] # "idle" => on'[q] \in Connection
    BY <2>1 DEF Control
  <2>5. \A o \in Connection \ {k} : waiter'[o] \in Caller =>
          waiter'[o] # p /\ waiter'[o] = waiter[o]
    BY <2>1 DEF Control
  <2>6. \A o \in Connection : waiter'[o] \in Caller =>
          pc'[waiter'[o]] \in {"header", "pdu"} /\ on'[waiter'[o]] = o
    BY <2>1, <2>5 DEF Control
  <2> QED BY <2>2, <2>3, <2>4, <2>6 DEF Control, Received, CallLeaves
<1> QED BY <1>1, <1>2 DEF Received

\* ... and what client and stream hold; a response it returns is the call's.
LEMMA ReceiveCarries ==
    ASSUME NEW S \in SUBSET Request, Carries(S), NEW p \in Caller,
           NEW k \in Connection, NEW w, Received(p, k, w, S),
           CallLeaves, UNCHANGED <<pending, request>>
    PROVE  Carries(S)'
<1>1. CASE EndsCall(p, k, w, S)
  <2>1. PICK outcome \in Outcomes, r \in Maybe(S), body \in Maybe(S) :
          /\ Ended(p, outcome, r, body)
          /\ outcome = "ok" => r \in S /\ r.tid = request[p].tid
    BY <1>1 DEF EndsCall
  <2>2. result' = [result EXCEPT ![p] = [outcome |-> outcome, header |-> r, body |-> body]]
        /\ got' = [got EXCEPT ![p] = NoRequest]
    BY <2>1 DEF Ended, Returned, Garbage, NoRequest
  <2>3. outcome = "ok" => request[p] \in S
    <3>1. \A q \in S : q.tid # None
      BY DEF Request, None
    <3> QED BY <2>1, <3>1 DEF Carries, Maybe, NoRequest
  <2>4. result' \in [Caller -> [outcome : Outcomes, header : Maybe(S), body : Maybe(S)]]
    BY <2>2 DEF Carries
  <2>5. \A q \in Caller : result'[q].outcome = "ok" =>
          /\ request[q] \in S /\ result'[q].header \in S
          /\ result'[q].header.tid = request[q].tid
    BY <2>1, <2>2, <2>3 DEF Carries
  <2>6. got' \in [Caller -> Maybe(S)]
    BY <2>2 DEF Carries, Maybe
  <2> QED BY <2>4, <2>5, <2>6 DEF Carries, Received, CallLeaves
<1>2. CASE Waits(p, k, S)
  BY <1>2 DEF Waits, Carries, Received, CallLeaves
<1> QED BY <1>1, <1>2 DEF Received

-----------------------------------------------------------------------------
(***************************************************************************)
(* The other steps.                                                        *)
(***************************************************************************)
\* Waking the waiter of a connection keeps who waits for what.
LEMMA WakeControl ==
    ASSUME Control, NEW k \in Connection, Wake(k)
    PROVE  /\ waiter' \in [Connection -> Caller \cup {None}]
           /\ woken' \subseteq {p \in Caller : pc[p] \in {"header", "pdu"}}
           /\ \A o \in Connection : waiter'[o] \in Caller =>
                 pc[waiter'[o]] \in {"header", "pdu"} /\ on[waiter'[o]] = o
<1>1. waiter' = [waiter EXCEPT ![k] = None] /\ None \notin Caller
  BY ClientAssumption DEF Wake
<1>2. \A o \in Connection : waiter'[o] \in Caller => waiter'[o] = waiter[o]
  BY <1>1 DEF Control
<1>3. woken' \subseteq {p \in Caller : pc[p] \in {"header", "pdu"}}
  BY DEF Wake, Control
<1> QED BY <1>1, <1>2, <1>3 DEF Control

\* Steps of the device and of the network.
LEMMA DeviceStep ==
    ASSUME Control, NEW S \in SUBSET Request, Carries(S), NEW k \in Connection,
           AnswerHeader(k) \/ AnswerPDU(k) \/ ConnectionLost(k) \/ PeerStalls(k)
    PROVE  Control' /\ Carries(S)'
<1>1. CASE AnswerHeader(k)
  <2>1. Head(pending[k]) \in S /\ Tail(pending[k]) \in Seq(S)
    BY <1>1 DEF AnswerHeader, Carries
  <2>2. stream' \in [Connection -> Seq(PieceOf(S))]
    <3> DEFINE piece == [kind |-> "header", of |-> Head(pending[k])]
    <3>1. piece \in PieceOf(S)
      BY <2>1 DEF PieceOf
    <3>2. stream' = [stream EXCEPT ![k] = Append(stream[k], piece)]
      BY <1>1 DEF AnswerHeader, Arrives, Carries
    <3> HIDE DEF piece
    <3> QED BY <3>1, <3>2 DEF Carries
  <2>3. pending' \in [Connection -> Seq(S)] /\ halfway' \in [Connection -> Seq(S)]
    BY <1>1, <2>1 DEF AnswerHeader, Carries
  <2>4. Control'
    BY <1>1, WakeControl DEF AnswerHeader, Arrives, Control, connVars, callVars
  <2> QED BY <1>1, <2>2, <2>3, <2>4 DEF Carries, AnswerHeader, Arrives, callVars
<1>2. CASE AnswerPDU(k)
  <2>1. Head(halfway[k]) \in S
    BY <1>2 DEF AnswerPDU, Carries
  <2>2. stream' \in [Connection -> Seq(PieceOf(S))]
    <3> DEFINE piece == [kind |-> "pdu", of |-> Head(halfway[k])]
    <3>1. piece \in PieceOf(S)
      BY <2>1 DEF PieceOf
    <3>2. stream' = [stream EXCEPT ![k] = Append(stream[k], piece)]
      BY <1>2 DEF AnswerPDU, Arrives, Carries
    <3> HIDE DEF piece
    <3> QED BY <3>1, <3>2 DEF Carries
  <2>3. pending' \in [Connection -> Seq(S)] /\ halfway' \in [Connection -> Seq(S)]
    BY <1>2 DEF AnswerPDU, Carries
  <2>4. Control'
    BY <1>2, WakeControl DEF AnswerPDU, Arrives, Control, connVars, callVars
  <2> QED BY <1>2, <2>2, <2>3, <2>4 DEF Carries, AnswerPDU, Arrives, callVars
<1>3. CASE ConnectionLost(k)
  <2>1. Control'
    BY <1>3, WakeControl DEF ConnectionLost, Ends, Control, callVars
  <2> QED BY <1>3, <2>1 DEF ConnectionLost, Ends, Carries, callVars
<1>4. CASE PeerStalls(k)
  BY <1>4 DEF PeerStalls, Control, Carries, deviceVars, streamVars, callVars
<1> QED BY <1>1, <1>2, <1>3, <1>4

\* Steps of connect and close.
LEMMA ManagerStep ==
    ASSUME Control, NEW S \in SUBSET Request, Carries(S), NEW m \in Manager,
           \/ BeginConnect(m) \/ Flushed(m) \/ ConnectSucceeds(m)
           \/ ConnectFails(m) \/ BeginClose(m) \/ CloseReturns(m)
    PROVE  Control' /\ Carries(S)'
<1>a. m \in Caller \cup Manager /\ m \notin Caller /\ on[m] \in Connection \cup {None}
  BY ClientAssumption DEF Control
<1>1. CASE Flushed(m)
  <2>1. on[m] \in Connection
    <3>1. on[m] \in 1 .. opened
      BY <1>1 DEF Flushed, Control
    <3> QED BY <1>a, <3>1 DEF None, Control
  <2>2. Control'
    BY <1>1, <2>1, WakeControl DEF Flushed, Ends, Control, callVars
  <2> QED BY <1>1, <2>1, <2>2 DEF Flushed, Ends, Carries, callVars
<1>2. CASE ConnectSucceeds(m)
  <2>1. /\ opened' = opened + 1 /\ opened' \in Connection
        /\ open' \subseteq 1 .. opened' /\ stalled' \subseteq open'
    BY <1>2, ClientAssumption DEF ConnectSucceeds, Control, Connection
  <2>2. Control'
    BY <1>2, <1>a, <2>1 DEF ConnectSucceeds, Control, Awaits, Connection, deviceVars
  <2>3. stream' \in [Connection -> Seq(PieceOf(S))]
    <3>1. <<>> \in Seq(PieceOf(S))
      OBVIOUS
    <3> QED BY <1>2, <3>1 DEF ConnectSucceeds, Carries
  <2> QED BY <1>2, <2>2, <2>3 DEF ConnectSucceeds, Carries, deviceVars
<1>3. CASE BeginConnect(m) \/ BeginClose(m)
  <2>1. /\ pc' \in [Caller \cup Manager -> Awaits]
        /\ on' \in [Caller \cup Manager -> Connection \cup {None}]
        /\ \A p \in Caller : pc'[p] = pc[p] /\ on'[p] = on[p]
        /\ current' = None
    BY <1>3, <1>a DEF BeginConnect, BeginClose, Forget, Control, Awaits
  <2>2. /\ UNCHANGED <<open, opened, stalled, deviceVars, streamVars>>
        /\ UNCHANGED <<nextTid, issued, request, got, result, crossed>>
    BY <1>3 DEF BeginConnect, BeginClose
  <2>3. Control'
    BY <2>1, <2>2 DEF Control, streamVars
  <2> QED BY <2>2, <2>3 DEF Carries, deviceVars, streamVars
<1>4. CASE ConnectFails(m) \/ CloseReturns(m)
  <2>1. /\ pc' \in [Caller \cup Manager -> Awaits]
        /\ on' \in [Caller \cup Manager -> Connection \cup {None}]
        /\ \A p \in Caller : pc'[p] = pc[p] /\ on'[p] = on[p]
    BY <1>4, <1>a DEF ConnectFails, CloseReturns, Control, Awaits
  <2>2. /\ UNCHANGED <<connVars, deviceVars, streamVars>>
        /\ UNCHANGED <<nextTid, issued, request, got, result, crossed>>
    BY <1>4 DEF ConnectFails, CloseReturns
  <2>3. Control'
    BY <2>1, <2>2 DEF Control, connVars, streamVars
  <2> QED BY <2>2, <2>3 DEF Carries, deviceVars, streamVars
<1> QED BY <1>1, <1>2, <1>3, <1>4

\* A new request is one more of those that are about.
LEMMA ExecuteStep ==
    ASSUME Control, NEW S \in SUBSET Request, Carries(S), Spaced(S),
           NEW p \in Caller, Execute(p)
    PROVE  Control' /\ \E T \in SUBSET Request : Carries(T)' /\ Spaced(T)'
<1>n. PICK new : new = [id |-> issued + 1, tid |-> nextTid]
  OBVIOUS
<1> DEFINE T == S \cup {new}
<1>1. /\ issued' = issued + 1 /\ issued' \in 1 .. MaxRequests
      /\ nextTid' = IF nextTid + 1 > TidMax THEN 1 ELSE nextTid + 1
      /\ nextTid' \in 1 .. TidMax
      /\ request' = [request EXCEPT ![p] = new] /\ request'[p] = new
      /\ pc[p] = "idle"
      /\ crossed' = crossed \ {p}
      /\ UNCHANGED <<current, open, opened, stalled, halfway, streamVars>>
  BY <1>n, ClientAssumption DEF Execute, AdvanceTid, Control, Carries
<1>2. new \in Request /\ T \subseteq Request
  BY <1>n, <1>1 DEF Request, Control
<1>3. Spaced(T)'
  <2>1. ASSUME NEW r \in T
        PROVE  /\ r.id <= issued'
               /\ LET d == issued' + 1 - r.id
                  IN  d < TidMax => nextTid' = r.tid + d \/ nextTid' = r.tid + d - TidMax
    <3>1. r.id \in Nat /\ r.tid \in 1 .. TidMax
      BY <1>2 DEF Request
    <3>2. CASE r \in S
      <4>1. /\ r.id <= issued
            /\ issued + 1 - r.id < TidMax =>
                 \/ nextTid = r.tid + (issued + 1 - r.id)
                 \/ nextTid = r.tid + (issued + 1 - r.id) - TidMax
        BY <3>2 DEF Spaced
      <4> QED BY <1>1, <3>1, <4>1, ClientAssumption DEF Control
    <3>3. CASE r = new
      BY <1>n, <1>1, <3>3, ClientAssumption DEF Control
    <3> QED BY <3>2, <3>3
  <2>2. ASSUME NEW r \in S
        PROVE  /\ r.id # new.id
               /\ r.tid = new.tid => r.id + TidMax <= new.id
    <3>1. r.id \in Nat /\ r.tid \in 1 .. TidMax
      BY DEF Request
    <3> QED BY <1>n, <3>1, ClientAssumption DEF Spaced, Control
  <2>3. \A r, s \in T : r.id = s.id => r = s
    BY <2>2 DEF Spaced
  <2>4. \A r, s \in T : r.tid = s.tid /\ r.id < s.id => r.id + TidMax <= s.id
    <3>1. \A r \in S : r.id <= issued /\ r.id \in Nat
      BY DEF Spaced, Request
    <3>2. new.id = issued + 1 /\ issued \in Nat
      BY <1>n DEF Control
    <3> QED BY <2>2, <3>1, <3>2 DEF Spaced
  <2> HIDE DEF T
  <2> QED BY <2>1, <2>3, <2>4 DEF Spaced
<1>4. /\ S \subseteq T /\ Seq(S) \subseteq Seq(T)
      /\ Seq(PieceOf(S)) \subseteq Seq(PieceOf(T)) /\ Maybe(S) \subseteq Maybe(T)
  <2>1. S \subseteq T
    OBVIOUS
  <2> HIDE DEF T
  <2>2. PieceOf(S) \subseteq PieceOf(T) /\ Maybe(S) \subseteq Maybe(T)
    BY <2>1 DEF PieceOf, Maybe
  <2> QED BY <2>1, <2>2
<1>5. Carries(T)'
  <2>1. pending' \in [Connection -> Seq(T)]
    <3>1. pending \in [Connection -> Seq(T)]
      BY <1>4 DEF Carries
    <3>2. CASE pending' = pending
      BY <3>1, <3>2
    <3>3. CASE pending' = [pending EXCEPT ![current] = Append(@, new)] /\ current \in Connection
      <4>1. Append(pending[current], new) \in Seq(T)
        BY <3>1, <3>3
      <4> QED BY <3>1, <3>3, <4>1
    <3> QED BY <1>1, <3>2, <3>3 DEF Execute, Control
  <2>2. /\ halfway' \in [Connection -> Seq(T)]
        /\ stream' \in [Connection -> Seq(PieceOf(T))]
    BY <1>1, <1>4 DEF Carries, streamVars
  <2>3. request' \in [Caller -> Maybe(T)] /\ got' \in [Caller -> Maybe(T)]
    <3>1. got' = got \/ got' = [got EXCEPT ![p] = NoRequest]
      BY DEF Execute, Fails, Ended, Garbage, NoRequest
    <3> QED BY <1>1, <1>4, <3>1 DEF Carries, Maybe
  <2>4. PICK e \in Outcomes \ {"ok"} :
           result' = [result EXCEPT ![p] = [outcome |-> e, header |-> NoRequest,
                                                           body |-> NoRequest]]
    BY DEF Execute, Fails, Ended, Unanswered, Returned, Outcomes, ModbusErrors
  <2>5. result' \in [Caller -> [outcome : Outcomes, header : Maybe(T), body : Maybe(T)]]
    BY <1>4, <2>4 DEF Carries, Maybe
  <2>6. \A q \in Caller : result'[q].outcome = "ok" =>
          /\ request'[q] \in T /\ result'[q].header \in T
          /\ result'[q].header.tid = request'[q].tid
    BY <1>1, <2>4 DEF Carries
  <2> HIDE DEF T
  <2> QED BY <2>1, <2>2, <2>3, <2>5, <2>6 DEF Carries
<1>6. Control'
  <2>1. p \in Caller \cup Manager /\ p \notin woken
        /\ \A k \in Connection : waiter[k] # p
    BY <1>1, ClientAssumption DEF Control
  <2>2. \/ pc' = pc /\ on' = [on EXCEPT ![p] = None]
        \/ pc' = [pc EXCEPT ![p] = "drain"] /\ on' = [on EXCEPT ![p] = current]
             /\ current \in Connection
    BY <1>1 DEF Execute, Fails, Ended, Control
  <2>3. /\ pc' \in [Caller \cup Manager -> Awaits]
        /\ on' \in [Caller \cup Manager -> Connection \cup {None}]
        /\ \A q \in Caller : pc'[q] # "idle" => on'[q] \in Connection
        /\ \A q \in Caller : q # p => pc'[q] = pc[q] /\ on'[q] = on[q]
    BY <1>1, <2>1, <2>2 DEF Control, Awaits
  <2> QED BY <1>1, <2>1, <2>3 DEF Control, streamVars
<1> HIDE DEF T
<1> QED BY <1>2, <1>3, <1>5, <1>6

-----------------------------------------------------------------------------
(***************************************************************************)
(* Whole answers: as long as no other call takes bytes, the PDU that a call*)
(* awaits is the next thing in the stream.                                 *)
(***************************************************************************)
OnlyMoves(p) ==
    \A q \in (Caller \cup Manager) \ {p} :
        /\ pc'[q] = pc[q] /\ on'[q] = on[q]
        /\ q \in Caller => got'[q] = got[q] /\ result'[q] = result[q]

\* A step of a call changes that call's state only.
LEMMA CallKeeps ==
    ASSUME Control, NEW S \in SUBSET Request, Carries(S), NEW p \in Caller,
           Drained(p) \/ Resume(p) \/ Timeout(p)
    PROVE  CallLeaves /\ OnlyMoves(p)
<1>1. CallLeaves /\ \E k \in Connection : \E w : Received(p, k, w, S)
  <2>0. stream \in [Connection -> Seq(PieceOf(S))] /\ got \in [Caller -> Maybe(S)]
    BY DEF Carries
  <2>1. /\ pc[p] \in {"drain", "header", "pdu"}
        /\ CallLeaves /\ UNCHANGED <<pending, nextTid, issued, request>>
        /\ woken' = woken \ {p} /\ crossed' \subseteq Caller
        /\ \E k \in Connection : \E w \in {None, waiter[k]} :
              /\ Received(p, k, w, S)
              /\ w # p
              /\ \A other \in Connection \ {k} : waiter[other] # p
    BY <2>0, CallReceives
  <2> QED BY <2>1
<1>2. PICK k \in Connection : \E w : Received(p, k, w, S)
  BY <1>1
<1>3. OnlyMoves(p)
  BY <1>2 DEF OnlyMoves, Received, EndsCall, Waits, Ended, Control, Carries
<1> QED BY <1>1, <1>3

\* t is what is left of s.
Suffix(t, s) ==
    \E d \in Nat : Len(s) = Len(t) + d /\ \A i \in 1 .. Len(t) : t[i] = s[i + d]

\* Every header is followed by its PDU, or the device is about to send that.
Paired(k) ==
    \A i \in 1 .. Len(stream[k]) : stream[k][i].kind = "header" =>
        /\ i < Len(stream[k]) =>
              stream[k][i + 1] = [kind |-> "pdu", of |-> stream[k][i].of]
        /\ i = Len(stream[k]) /\ k \in open => halfway[k] = <<stream[k][i].of>>

\* The next bytes of s, on connection k, are the PDU of r.
Follows(k, s, r) ==
    /\ ~torn[k]
    /\ s # <<>> => Head(s) = [kind |-> "pdu", of |-> r]
    /\ s = <<>> /\ k \in open => halfway[k] = <<r>>

Whole ==
    /\ current <= opened
    /\ \A k \in Connection : halfway[k] # <<>> => halfway[k] = <<Head(halfway[k])>>
    /\ \A k \in Connection : Paired(k)
    /\ \A p \in Caller : pc[p] = "pdu" /\ p \notin crossed /\ got[p] # Garbage =>
          Follows(on[p], stream[on[p]], got[p])
    /\ \A p \in Caller : result[p].outcome = "ok" /\ p \notin crossed =>
          result[p].body = result[p].header

\* Taking pieces from the front leaves a suffix.
LEMMA SuffixFacts ==
    ASSUME NEW P
    PROVE  /\ \A s \in Seq(P) : Suffix(s, s)
           /\ \A s \in Seq(P) : s # <<>> => Suffix(Tail(s), s)
           /\ \A s \in Seq(P), n \in Nat \ {0} :
                 n <= Len(s) + 1 => Suffix(SubSeq(s, n, Len(s)), s)
           /\ \A s, t, u \in Seq(P) : Suffix(t, s) /\ Suffix(u, t) => Suffix(u, s)
<1>1. ASSUME NEW s \in Seq(P) PROVE Suffix(s, s)
  <2>1. Len(s) = Len(s) + 0 /\ \A i \in 1 .. Len(s) : s[i] = s[i + 0]
    OBVIOUS
  <2> QED BY <2>1 DEF Suffix
<1>2. ASSUME NEW s \in Seq(P), s # <<>> PROVE Suffix(Tail(s), s)
  <2>1. Len(s) = Len(Tail(s)) + 1 /\ \A i \in 1 .. Len(Tail(s)) : Tail(s)[i] = s[i + 1]
    BY <1>2
  <2> QED BY <2>1 DEF Suffix
<1>3. ASSUME NEW s \in Seq(P), NEW n \in Nat \ {0}, n <= Len(s) + 1
      PROVE  Suffix(SubSeq(s, n, Len(s)), s)
  <2> DEFINE t == SubSeq(s, n, Len(s))
  <2>1. /\ n - 1 \in Nat /\ Len(s) = Len(t) + (n - 1)
        /\ \A i \in 1 .. Len(t) : t[i] = s[i + (n - 1)]
    BY <1>3
  <2> QED BY <2>1 DEF Suffix
<1>4. ASSUME NEW s \in Seq(P), NEW t \in Seq(P), NEW u \in Seq(P),
             Suffix(t, s), Suffix(u, t)
      PROVE  Suffix(u, s)
  <2>1. PICK d \in Nat : Len(s) = Len(t) + d /\ \A i \in 1 .. Len(t) : t[i] = s[i + d]
    BY <1>4 DEF Suffix
  <2>2. PICK e \in Nat : Len(t) = Len(u) + e /\ \A i \in 1 .. Len(u) : u[i] = t[i + e]
    BY <1>4 DEF Suffix
  <2>3. d + e \in Nat /\ Len(s) = Len(u) + (d + e)
    BY <2>1, <2>2
  <2>4. \A i \in 1 .. Len(u) : u[i] = s[i + (d + e)]
    <3> TAKE i \in 1 .. Len(u)
    <3>1. i + e \in 1 .. Len(t) /\ (i + e) + d = i + (d + e)
      BY <2>2
    <3> QED BY <2>1, <2>2, <3>1
  <2> QED BY <2>3, <2>4 DEF Suffix
<1> QED BY <1>1, <1>2, <1>3, <1>4

\* The empty sequence is the one of length 0.
LEMMA EmptySequence ==
    ASSUME NEW P, NEW s \in Seq(P)
    PROVE  Len(s) = 0 <=> s = <<>>
OBVIOUS

\* The first element of a sequence, and the first of those behind it.
LEMMA HeadAndTail ==
    ASSUME NEW P, NEW s \in Seq(P), s # <<>>
    PROVE  /\ Head(s) \in P /\ Head(s) = s[1] /\ Len(s) >= 1
           /\ Tail(s) \in Seq(P)
           /\ Tail(s) # <<>> => Len(s) > 1 /\ Head(Tail(s)) = s[2]
           /\ Tail(s) = <<>> => Len(s) = 1
<1>1. Len(s) \in Nat \ {0} /\ Head(s) \in P /\ Head(s) = s[1]
  OBVIOUS
<1>2. Tail(s) \in Seq(P) /\ Len(Tail(s)) = Len(s) - 1
  OBVIOUS
<1>e. Len(Tail(s)) = 0 <=> Tail(s) = <<>>
  BY <1>2, EmptySequence
<1>3. ASSUME Tail(s) # <<>> PROVE Len(s) > 1 /\ Head(Tail(s)) = s[2]
  <2>1. Len(Tail(s)) # 0 /\ Len(s) > 1
    BY <1>1, <1>2, <1>3, <1>e
  <2>2. Head(Tail(s)) = Tail(s)[1]
    BY <1>2, <1>3
  <2>3. Tail(s)[1] = s[2]
    BY <1>1, <1>2, <2>1
  <2> QED BY <2>1, <2>2, <2>3
<1>4. Tail(s) = <<>> => Len(s) = 1
  BY <1>1, <1>2, <1>e
<1> QED BY <1>1, <1>2, <1>3, <1>4

\* A receive takes from the front of one stream.
TakesFrom(k) ==
    /\ \A o \in Connection \ {k} : stream'[o] = stream[o] /\ torn'[o] = torn[o]
    /\ Suffix(stream'[k], stream[k])

\* A call ends with a whole response or none, or goes on to await a header, or
\* a PDU that is what follows.
GetsWhole(p) ==
    \/ \E outcome, header, body : /\ Ended(p, outcome, header, body)
                                  /\ outcome = "ok" => body = header
    \/ \E k \in Connection, what \in {"header", "pdu"} : \E h :
          /\ pc' = [pc EXCEPT ![p] = what]
          /\ on' = [on EXCEPT ![p] = k]
          /\ got' = [got EXCEPT ![p] = h]
          /\ result' = result
          /\ what = "pdu" /\ h # Garbage => Follows(k, stream[k], h)'

\* Bytes out of alignment come from the front, too.
LEMMA TakeGarbageTakes ==
    ASSUME NEW P, NEW k \in Connection, NEW s \in Seq(P), stream \in [Connection -> Seq(P)],
           torn \in [Connection -> BOOLEAN], Suffix(s, stream[k]), TakeGarbage(k, s)
    PROVE  TakesFrom(k) /\ s # <<>>
<1>s. stream[k] \in Seq(P)
  OBVIOUS
<1>1. PICK n \in 1 .. Len(s), t \in BOOLEAN :
         /\ stream' = [stream EXCEPT ![k] = SubSeq(s, n + IF t THEN 0 ELSE 1, Len(s))]
         /\ torn' = [torn EXCEPT ![k] = t]
  BY DEF TakeGarbage
<1> DEFINE first == n + IF t THEN 0 ELSE 1
<1>2. first \in Nat \ {0} /\ first <= Len(s) + 1 /\ s # <<>>
  OBVIOUS
<1>3. stream' = [stream EXCEPT ![k] = SubSeq(s, first, Len(s))]
  BY <1>1
<1> HIDE DEF first
<1>4. SubSeq(s, first, Len(s)) \in Seq(P)
  <2>1. \A i \in first .. Len(s) : s[i] \in P
    BY <1>2
  <2> QED BY <1>2, <2>1
<1>5. Suffix(SubSeq(s, first, Len(s)), stream[k])
  BY <1>s, <1>2, <1>4, SuffixFacts
<1> QED BY <1>1, <1>2, <1>3, <1>5 DEF TakesFrom

\* What receiving a PDU takes from k, when s is what is left to take, and what
\* p gets if the PDU is next in s.
LEMMA ReceivePDUWhole ==
    ASSUME NEW S \in SUBSET Request, NEW p, NEW k \in Connection, NEW h \in Maybe(S),
           NEW s \in Seq(PieceOf(S)), NEW w, UNCHANGED <<open, halfway>>,
           stream \in [Connection -> Seq(PieceOf(S))],
           torn \in [Connection -> BOOLEAN], Suffix(s, stream[k]),
           ReceivePDU(p, k, h, s, w)
    PROVE  /\ TakesFrom(k)
           /\ (h # Garbage => Follows(k, s, h)) => GetsWhole(p)
<1>s. stream[k] \in Seq(PieceOf(S))
  OBVIOUS
<1>g. Garbage \notin S
  BY DEF Garbage, Request, None
<1>1. ASSUME TakePDU(k, s) PROVE TakesFrom(k) /\ Head(s).of \in S
  <2>1. /\ s # <<>> /\ stream' = [stream EXCEPT ![k] = Tail(s)] /\ torn' = torn
        /\ Tail(s) \in Seq(PieceOf(S))
    BY <1>1 DEF TakePDU
  <2>2. Suffix(Tail(s), stream[k])
    BY <1>s, <2>1, SuffixFacts
  <2> QED BY <1>1, <2>1, <2>2, TakePDUFacts DEF TakesFrom
<1>2. ASSUME TakeGarbage(k, s) PROVE TakesFrom(k) /\ s # <<>>
  BY <1>2, TakeGarbageTakes
<1>3. ASSUME NEW e, Fails(p, e) PROVE GetsWhole(p)
  BY <1>3 DEF Fails, GetsWhole
<1>4. CASE ~torn[k] /\ s # <<>> /\ Head(s) = [kind |-> "pdu", of |-> h]
  <2>1. TakePDU(k, s) /\ Decode(p, h, h)
    BY <1>4 DEF ReceivePDU
  <2>2. GetsWhole(p)
    BY <1>3, <2>1 DEF Decode, GetsWhole
  <2> QED BY <1>1, <2>1, <2>2
<1>5. CASE ~(~torn[k] /\ s # <<>> /\ Head(s) = [kind |-> "pdu", of |-> h])
  <2>0. ASSUME h # Garbage, Follows(k, s, h) PROVE s = <<>>
    BY <1>5, <2>0 DEF Follows
  <2>1. CASE /\ WaitFor(p, k, "pdu", h, w)
             /\ stream' = [stream EXCEPT ![k] = s]
             /\ UNCHANGED torn
    <3>1. TakesFrom(k)
      BY <2>1 DEF TakesFrom
    <3>2. ASSUME h # Garbage => Follows(k, s, h) PROVE GetsWhole(p)
      <4>1. CASE \E e : Fails(p, e)
        BY <1>3, <4>1
      <4>2. CASE ~ \E e : Fails(p, e)
        <5>1. /\ pc' = [pc EXCEPT ![p] = "pdu"] /\ on' = [on EXCEPT ![p] = k]
              /\ got' = [got EXCEPT ![p] = h] /\ result' = result
          BY <2>1, <4>2 DEF WaitFor
        <5>2. h # Garbage => Follows(k, stream[k], h)'
          BY <2>1, <3>2 DEF Follows
        <5> QED BY <5>1, <5>2 DEF GetsWhole
      <4> QED BY <4>1, <4>2
    <3> QED BY <3>1, <3>2
  <2>2. ASSUME NEW e, TakeGarbage(k, s), Fails(p, e)
        PROVE  TakesFrom(k) /\ GetsWhole(p)
    BY <1>2, <1>3, <2>2
  <2>3. CASE h # Garbage /\ TakePDU(k, s)
    <3>1. s # <<>>
      BY <2>3 DEF TakePDU
    <3> QED BY <1>1, <2>0, <2>3, <3>1
  <2>4. CASE h # Garbage /\ TakeGarbage(k, s)
    BY <1>2, <2>0, <2>4
  <2> QED BY <1>5, <2>1, <2>2, <2>3, <2>4 DEF ReceivePDU
<1> QED BY <1>4, <1>5

\* A header that is received in alignment is followed by its PDU.
LEMMA ReceiveHeaderWhole ==
    ASSUME NEW S \in SUBSET Request, NEW p, NEW k \in Connection, NEW w,
           UNCHANGED <<open, halfway>>, Paired(k),
           stream \in [Connection -> Seq(PieceOf(S))],
           torn \in [Connection -> BOOLEAN], ReceiveHeader(p, k, w)
    PROVE  TakesFrom(k) /\ GetsWhole(p)
<1> DEFINE s == stream[k]
<1>s. s \in Seq(PieceOf(S)) /\ Suffix(s, stream[k])
  BY SuffixFacts
<1>g. Garbage \in Maybe(S)
  BY DEF Garbage, NoRequest, Maybe
<1>3. ASSUME NEW e, Fails(p, e) PROVE GetsWhole(p)
  BY <1>3 DEF Fails, GetsWhole
<1>4. ASSUME NEW what \in {"header", "pdu"}, WaitFor(p, k, what, Garbage, w)
      PROVE  GetsWhole(p)
  <2>1. CASE \E e : Fails(p, e)
    BY <1>3, <2>1
  <2>2. CASE ~ \E e : Fails(p, e)
    BY <1>4, <2>2 DEF WaitFor, GetsWhole
  <2> QED BY <2>1, <2>2
<1>1. CASE ~torn[k] /\ s # <<>> /\ Head(s).kind = "header"
  <2> DEFINE h == Head(s).of
             rest == Tail(s)
  <2>1. /\ h \in Maybe(S) /\ rest \in Seq(PieceOf(S)) /\ Suffix(rest, stream[k])
        /\ s[1] = Head(s) /\ Len(s) >= 1
        /\ rest # <<>> => Len(s) > 1 /\ Head(rest) = s[2]
        /\ rest = <<>> => Len(s) = 1
    <3>1. Head(s) \in PieceOf(S) /\ rest \in Seq(PieceOf(S))
      BY <1>s, <1>1, HeadAndTail
    <3>2. Suffix(rest, stream[k])
      BY <1>s, <1>1, SuffixFacts
    <3>3. /\ s[1] = Head(s) /\ Len(s) >= 1
          /\ rest # <<>> => Len(s) > 1 /\ Head(rest) = s[2]
          /\ rest = <<>> => Len(s) = 1
      BY <1>s, <1>1, HeadAndTail
    <3> QED BY <3>1, <3>2, <3>3 DEF PieceOf, Maybe
  <2>2. CASE current = None
    <3>1. /\ Fails(p, "ModbusConnectionError")
          /\ stream' = [stream EXCEPT ![k] = rest] /\ torn' = torn
      BY <1>1, <2>2 DEF ReceiveHeader
    <3> HIDE DEF rest
    <3> QED BY <1>3, <2>1, <3>1 DEF TakesFrom
  <2>3. CASE current # None
    <3>1. ReceivePDU(p, k, h, rest, w)
      BY <1>1, <2>3 DEF ReceiveHeader
    <3>2. Follows(k, rest, h)
      <4> HIDE DEF rest
      <4>1. s[1].kind = "header" /\ 1 \in 1 .. Len(s)
        BY <1>1, <2>1
      <4>2. /\ 1 < Len(s) => s[2] = [kind |-> "pdu", of |-> h]
            /\ 1 = Len(s) /\ k \in open => halfway[k] = <<h>>
        BY <2>1, <4>1 DEF Paired
      <4> QED BY <1>1, <2>1, <4>2 DEF Follows
    <3> HIDE DEF rest, h
    <3> QED BY <2>1, <3>1, <3>2, ReceivePDUWhole
  <2> QED BY <2>2, <2>3
<1>2. CASE ~(~torn[k] /\ s # <<>> /\ Head(s).kind = "header")
  <2>1. CASE WaitFor(p, k, "header", Garbage, w) /\ UNCHANGED <<stream, torn>>
    BY <1>4, <1>s, <2>1 DEF TakesFrom
  <2>2. ASSUME TakeGarbage(k, s) PROVE TakesFrom(k)
    BY <1>s, <2>2, TakeGarbageTakes
  <2>3. ASSUME TakeGarbage(k, s), NEW e, Fails(p, e) PROVE TakesFrom(k) /\ GetsWhole(p)
    BY <1>3, <2>2, <2>3
  <2>4. CASE TakeGarbage(k, s) /\ WaitFor(p, k, "pdu", Garbage, w)
    BY <1>4, <2>2, <2>4
  <2> QED BY <1>2, <2>1, <2>3, <2>4 DEF ReceiveHeader
<1> QED BY <1>1, <1>2

\* A step of a call takes from the front of at most one stream; who awaits a
\* PDU there is crossed then, and the call itself gets a whole response.
LEMMA CallTakes ==
    ASSUME Control, NEW S \in SUBSET Request, Carries(S), Whole, NEW p \in Caller,
           Drained(p) \/ Resume(p) \/ Timeout(p)
    PROVE  /\ crossed \subseteq crossed'
           /\ \E k \in Connection :
                 /\ TakesFrom(k)
                 /\ \/ UNCHANGED <<stream, torn>>
                    \/ \A q \in Caller \ {p} : pc[q] = "pdu" /\ on[q] = k => q \in crossed'
           /\ p \notin crossed => GetsWhole(p)
<1>t. /\ stream \in [Connection -> Seq(PieceOf(S))]
      /\ torn \in [Connection -> BOOLEAN] /\ got \in [Caller -> Maybe(S)]
  BY DEF Carries, Control
<1>u. ASSUME NEW k \in Connection, UNCHANGED <<stream, torn>> PROVE TakesFrom(k)
  BY <1>t, <1>u, SuffixFacts DEF TakesFrom
<1>f. ASSUME NEW e, Fails(p, e) PROVE GetsWhole(p)
  BY <1>f DEF Fails, GetsWhole
<1>c. ASSUME NEW k, Crosses(p, k)
      PROVE  /\ crossed \subseteq crossed'
             /\ \/ UNCHANGED <<stream, torn>>
                \/ \A q \in Caller \ {p} : pc[q] = "pdu" /\ on[q] = k => q \in crossed'
  BY <1>c DEF Crosses
<1>1. CASE Drained(p)
  <2>1. pc[p] = "drain" /\ on[p] \in Connection /\ Crosses(p, current)
        /\ UNCHANGED <<open, halfway>>
    BY <1>1 DEF Drained, Control, CallLeaves
  <2>2. CASE ~(on[p] \in open /\ current # None)
    <3>1. UNCHANGED <<stream, torn>> /\ \E e : Fails(p, e)
      BY <1>1, <2>2 DEF Drained
    <3> QED BY <1>u, <1>f, <1>c, <2>1, <3>1
  <2>3. CASE on[p] \in open /\ current # None
    <3>1. current \in Connection /\ ReceiveHeader(p, current, waiter[current])
      BY <1>1, <2>3 DEF Drained, Control
    <3>2. TakesFrom(current) /\ GetsWhole(p)
      BY <1>t, <2>1, <3>1, ReceiveHeaderWhole DEF Whole
    <3> QED BY <1>c, <2>1, <3>1, <3>2
  <2> QED BY <2>2, <2>3
<1>2. CASE Resume(p)
  <2>1. /\ pc[p] \in {"header", "pdu"} /\ on[p] \in Connection /\ Crosses(p, on[p])
        /\ UNCHANGED <<open, halfway>>
    BY <1>2 DEF Resume, Control, CallLeaves
  <2>2. CASE pc[p] = "header"
    <3>1. ReceiveHeader(p, on[p], None)
      BY <1>2, <2>2 DEF Resume
    <3>2. TakesFrom(on[p]) /\ GetsWhole(p)
      BY <1>t, <2>1, <3>1, ReceiveHeaderWhole DEF Whole
    <3> QED BY <1>c, <2>1, <3>2
  <2>3. CASE pc[p] = "pdu"
    <3> DEFINE s == stream[on[p]]
    <3>1. ReceivePDU(p, on[p], got[p], s, None)
      BY <1>2, <2>3 DEF Resume
    <3>2. s \in Seq(PieceOf(S)) /\ Suffix(s, stream[on[p]]) /\ got[p] \in Maybe(S)
      BY <1>t, <2>1, SuffixFacts
    <3>3. p \notin crossed => (got[p] # Garbage => Follows(on[p], s, got[p]))
      BY <2>3 DEF Whole
    <3> HIDE DEF s
    <3>4. TakesFrom(on[p]) /\ (p \notin crossed => GetsWhole(p))
      BY <1>t, <2>1, <3>1, <3>2, <3>3, ReceivePDUWhole
    <3> QED BY <1>c, <2>1, <3>4
  <2> QED BY <2>1, <2>2, <2>3
<1>3. CASE Timeout(p)
  <2>1. /\ UNCHANGED <<stream, torn, crossed>> /\ on[p] \in Connection
        /\ Fails(p, "ModbusTimeoutError")
    BY <1>3 DEF Timeout, Control
  <2> QED BY <1>u, <1>f, <2>1
<1> QED BY <1>1, <1>2, <1>3

\* What is left of a stream is paired, too.
LEMMA PairedLeft ==
    ASSUME NEW S, NEW k \in Connection, stream \in [Connection -> Seq(PieceOf(S))],
           stream' \in [Connection -> Seq(PieceOf(S))],
           Paired(k), Suffix(stream'[k], stream[k]), halfway'[k] = halfway[k] \/ k \notin open',
           k \in open' => k \in open
    PROVE  Paired(k)'
<1> DEFINE s == stream[k]
           t == stream'[k]
<1>1. Len(s) \in Nat /\ Len(t) \in Nat
  <2>1. s \in Seq(PieceOf(S)) /\ t \in Seq(PieceOf(S))
    OBVIOUS
  <2> QED BY <2>1
<1>2. PICK d \in Nat : Len(s) = Len(t) + d /\ \A i \in 1 .. Len(t) : t[i] = s[i + d]
  BY DEF Suffix
<1>3. SUFFICES ASSUME NEW i \in 1 .. Len(t), t[i].kind = "header"
               PROVE  /\ i < Len(t) => t[i + 1] = [kind |-> "pdu", of |-> t[i].of]
                      /\ i = Len(t) /\ k \in open' => halfway'[k] = <<t[i].of>>
  BY DEF Paired
<1> HIDE DEF s, t
<1>4. /\ i + d \in 1 .. Len(s) /\ t[i] = s[i + d]
      /\ i < Len(t) => i + d < Len(s) /\ t[i + 1] = s[(i + d) + 1]
      /\ i = Len(t) => i + d = Len(s)
  <2>1. i + d \in 1 .. Len(s) /\ t[i] = s[i + d]
    BY <1>1, <1>2
  <2>2. ASSUME i < Len(t) PROVE i + d < Len(s) /\ t[i + 1] = s[(i + d) + 1]
    <3>1. i + 1 \in 1 .. Len(t) /\ (i + 1) + d = (i + d) + 1 /\ i + d < Len(s)
      BY <1>1, <1>2, <2>2
    <3> QED BY <1>2, <3>1
  <2> QED BY <1>1, <1>2, <2>1, <2>2
<1>5. /\ i + d < Len(s) => s[(i + d) + 1] = [kind |-> "pdu", of |-> s[i + d].of]
      /\ i + d = Len(s) /\ k \in open => halfway[k] = <<s[i + d].of>>
  BY <1>3, <1>4 DEF Paired, s
<1> QED BY <1>4, <1>5

Pieces == stream \in [Connection -> Seq(PieceOf(Request))]

\* Drain, wait and timeout keep the answers whole.
LEMMA CallWhole ==
    ASSUME Control, NEW S \in SUBSET Request, Carries(S), Pieces, Pieces', Whole,
           NEW p \in Caller, Drained(p) \/ Resume(p) \/ Timeout(p)
    PROVE  Whole'
<1>1. CallLeaves /\ OnlyMoves(p)
  BY CallKeeps
<1>2. /\ crossed \subseteq crossed'
      /\ \E k \in Connection :
            /\ TakesFrom(k)
            /\ \/ UNCHANGED <<stream, torn>>
               \/ \A q \in Caller \ {p} : pc[q] = "pdu" /\ on[q] = k => q \in crossed'
      /\ p \notin crossed => GetsWhole(p)
  BY CallTakes
<1>3. PICK k \in Connection :
         /\ TakesFrom(k)
         /\ \/ UNCHANGED <<stream, torn>>
            \/ \A q \in Caller \ {p} : pc[q] = "pdu" /\ on[q] = k => q \in crossed'
  BY <1>2
<1>4. ASSUME NEW o \in Connection PROVE Paired(o)'
  <2>1. Suffix(stream'[o], stream[o])
    BY <1>3, SuffixFacts DEF TakesFrom, Pieces
  <2> QED BY <1>1, <2>1, PairedLeft DEF Whole, CallLeaves, Pieces
<1>5. ASSUME NEW q \in Caller, q # p, pc'[q] = "pdu", q \notin crossed', got'[q] # Garbage
      PROVE  Follows(on[q], stream[on[q]], got[q])'
  <2>1. /\ pc[q] = "pdu" /\ q \notin crossed /\ got[q] # Garbage
        /\ on'[q] = on[q] /\ got'[q] = got[q] /\ on[q] \in Connection
    BY <1>1, <1>2, <1>5 DEF OnlyMoves, Control
  <2>2. Follows(on[q], stream[on[q]], got[q])
    BY <2>1 DEF Whole
  <2>3. stream'[on[q]] = stream[on[q]] /\ torn'[on[q]] = torn[on[q]]
    BY <1>3, <1>5, <2>1 DEF TakesFrom
  <2> QED BY <1>1, <2>1, <2>2, <2>3 DEF Follows, CallLeaves
<1>6. ASSUME p \notin crossed'
      PROVE  /\ pc'[p] = "pdu" /\ got'[p] # Garbage => Follows(on[p], stream[on[p]], got[p])'
             /\ result'[p].outcome = "ok" => result'[p].body = result'[p].header
  <2>1. GetsWhole(p)
    BY <1>2, <1>6
  <2>t. /\ p \in DOMAIN pc /\ p \in DOMAIN on /\ p \in DOMAIN got /\ p \in DOMAIN result
        /\ pc[p] # "idle"
    BY DEF Control, Carries, Drained, Resume, Timeout
  <2>2. CASE \E outcome, header, body : /\ Ended(p, outcome, header, body)
                                        /\ outcome = "ok" => body = header
    <3>1. PICK outcome, header, body : /\ Ended(p, outcome, header, body)
                                       /\ outcome = "ok" => body = header
      BY <2>2
    <3>2. /\ pc'[p] = "idle"
          /\ result'[p] = [outcome |-> outcome, header |-> header, body |-> body]
      BY <2>t, <3>1 DEF Ended, Returned
    <3> QED BY <3>1, <3>2
  <2>3. CASE \E c \in Connection, what \in {"header", "pdu"} : \E h :
               /\ pc' = [pc EXCEPT ![p] = what] /\ on' = [on EXCEPT ![p] = c]
               /\ got' = [got EXCEPT ![p] = h] /\ result' = result
               /\ what = "pdu" /\ h # Garbage => Follows(c, stream[c], h)'
    <3>0. PICK c \in Connection, what \in {"header", "pdu"} : \E h :
               /\ pc' = [pc EXCEPT ![p] = what] /\ on' = [on EXCEPT ![p] = c]
               /\ got' = [got EXCEPT ![p] = h] /\ result' = result
               /\ what = "pdu" /\ h # Garbage => Follows(c, stream[c], h)'
      BY <2>3
    <3>1. PICK h :
               /\ pc' = [pc EXCEPT ![p] = what] /\ on' = [on EXCEPT ![p] = c]
               /\ got' = [got EXCEPT ![p] = h] /\ result' = result
               /\ what = "pdu" /\ h # Garbage => Follows(c, stream[c], h)'
      BY <3>0
    <3>2. pc'[p] = what /\ on'[p] = c /\ got'[p] = h
      BY <2>t, <3>1
    <3>3. pc'[p] = "pdu" /\ got'[p] # Garbage => Follows(on[p], stream[on[p]], got[p])'
      BY <3>1, <3>2 DEF Follows
    <3>4. result'[p].outcome = "ok" => result'[p].body = result'[p].header
      BY <1>2, <1>6, <3>1 DEF Whole
    <3> QED BY <3>3, <3>4
  <2> QED BY <2>1, <2>2, <2>3 DEF GetsWhole
<1>7. \A q \in Caller : pc'[q] = "pdu" /\ q \notin crossed' /\ got'[q] # Garbage =>
         Follows(on[q], stream[on[q]], got[q])'
  BY <1>5, <1>6
<1>8. ASSUME NEW q \in Caller, result'[q].outcome = "ok", q \notin crossed'
      PROVE  result'[q].body = result'[q].header
  <2>1. CASE q = p
    BY <1>6, <1>8, <2>1
  <2>2. CASE q # p
    BY <1>1, <1>2, <1>8, <2>2 DEF OnlyMoves, Whole
  <2> QED BY <2>1, <2>2
<1>9. /\ current' <= opened'
      /\ \A o \in Connection : halfway'[o] # <<>> => halfway'[o] = <<Head(halfway'[o])>>
  BY <1>1 DEF CallLeaves, Whole
<1> QED BY <1>4, <1>7, <1>8, <1>9 DEF Whole

\* A call begins, or a response arrives: pieces come in pairs, and after what
\* a caller awaits.
LEMMA OthersWhole ==
    ASSUME Control, NEW S \in SUBSET Request, Carries(S), Pieces, Pieces', Whole,
           \/ \E p \in Caller : Execute(p)
           \/ \E k \in Connection :
                 AnswerHeader(k) \/ AnswerPDU(k) \/ ConnectionLost(k) \/ PeerStalls(k)
           \/ \E m \in Manager : \/ BeginConnect(m) \/ Flushed(m) \/ ConnectSucceeds(m)
                                 \/ ConnectFails(m) \/ BeginClose(m) \/ CloseReturns(m)
    PROVE  Whole'
<1>t. /\ \A p \in Caller : pc[p] # "idle" => on[p] \in Connection
      /\ \A m \in Manager : m \notin Caller
      /\ opened \in Nat /\ current \in Nat
  BY ClientAssumption DEF Control, Connection, None
<1>k. ASSUME UNCHANGED <<stream, torn>>, open' \subseteq open,
             \A k \in Connection : k \in open' => halfway'[k] = halfway[k]
      PROVE  /\ \A k \in Connection : Paired(k)'
             /\ \A k \in Connection : \A r : Follows(k, stream[k], r) => Follows(k, stream[k], r)'
  BY <1>k DEF Whole, Paired, Follows
<1>l. ASSUME UNCHANGED <<stream, torn>>, open' \subseteq open,
             \A k \in Connection : k \in open' => halfway'[k] = halfway[k],
             \A k \in Connection : halfway'[k] = halfway[k] \/ halfway'[k] = <<>>,
             \A p \in Caller : pc'[p] = pc[p] /\ on'[p] = on[p],
             UNCHANGED <<got, result, crossed>>, current' <= opened'
      PROVE  Whole'
  <2>1. ASSUME NEW p \in Caller, pc'[p] = "pdu", p \notin crossed', got'[p] # Garbage
        PROVE  Follows(on[p], stream[on[p]], got[p])'
    <3>1. Follows(on[p], stream[on[p]], got[p]) /\ on[p] \in Connection
      BY <1>l, <1>t, <2>1 DEF Whole
    <3> QED BY <1>l, <3>1 DEF Follows
  <2> QED BY <1>k, <1>l, <2>1 DEF Whole
<1>1. ASSUME NEW p \in Caller, Execute(p) PROVE Whole'
  <2>1. /\ UNCHANGED <<current, open, opened, stalled, halfway, stream, torn>>
        /\ crossed' = crossed \ {p} /\ pc[p] = "idle"
    BY <1>1 DEF Execute, streamVars
  <2>2. /\ pc'[p] # "pdu" /\ result'[p].outcome # "ok"
        /\ \A q \in Caller \ {p} : /\ pc'[q] = pc[q] /\ on'[q] = on[q] /\ got'[q] = got[q]
                                    /\ result'[q] = result[q]
    BY <1>1 DEF Execute, Fails, Ended, Unanswered, Returned, Control, Carries
  <2>3. ASSUME NEW q \in Caller, pc'[q] = "pdu", q \notin crossed', got'[q] # Garbage
        PROVE  Follows(on[q], stream[on[q]], got[q])'
    <3>1. q # p /\ on'[q] = on[q] /\ got'[q] = got[q] /\ Follows(on[q], stream[on[q]], got[q])
      BY <2>1, <2>2, <2>3 DEF Whole
    <3> QED BY <2>1, <3>1 DEF Follows
  <2>4. \A k \in Connection : Paired(k)'
    BY <1>k, <2>1
  <2> QED BY <2>1, <2>2, <2>3, <2>4 DEF Whole
<1>2. ASSUME NEW k \in Connection, NEW piece \in PieceOf(Request),
             stream' = [stream EXCEPT ![k] = Append(@, piece)],
             UNCHANGED <<torn, connVars, callVars, crossed>>, k \in open,
             \A o \in Connection \ {k} : halfway'[o] = halfway[o],
             halfway'[k] # <<>> => halfway'[k] = <<Head(halfway'[k])>>,
             piece.kind = "header" => halfway[k] = <<>> /\ halfway'[k] = <<piece.of>>,
             piece.kind = "pdu" => halfway[k] = <<piece.of>>
      PROVE  Whole'
  <2> DEFINE s == stream[k]
  <2>1. /\ s \in Seq(PieceOf(Request)) /\ stream'[k] = Append(s, piece)
        /\ \A o \in Connection \ {k} : stream'[o] = stream[o]
    BY <1>2 DEF Pieces
  <2> HIDE DEF s
  <2>2. /\ Len(s) \in Nat /\ Len(Append(s, piece)) = Len(s) + 1
        /\ \A i \in 1 .. Len(s) : Append(s, piece)[i] = s[i]
        /\ Append(s, piece)[Len(s) + 1] = piece
        /\ s # <<>> => Head(Append(s, piece)) = Head(s)
        /\ s = <<>> => Head(Append(s, piece)) = piece
        /\ Append(s, piece) # <<>>
    BY <2>1
  <2>3. Paired(k)'
    <3> SUFFICES ASSUME NEW i \in 1 .. Len(s) + 1, stream'[k][i].kind = "header"
                 PROVE  /\ i < Len(s) + 1 =>
                             stream'[k][i + 1] = [kind |-> "pdu", of |-> stream'[k][i].of]
                        /\ i = Len(s) + 1 => halfway'[k] = <<stream'[k][i].of>>
      BY <2>1, <2>2 DEF Paired
    <3>1. CASE i = Len(s) + 1
      BY <1>2, <2>1, <2>2, <3>1
    <3>2. CASE i < Len(s)
      <4>1. i \in 1 .. Len(s) /\ i + 1 \in 1 .. Len(s) /\ i < Len(s) + 1 /\ i # Len(s) + 1
        BY <2>2, <3>2
      <4>2. s[i].kind = "header" => s[i + 1] = [kind |-> "pdu", of |-> s[i].of]
        BY <3>2, <4>1 DEF Whole, Paired, s
      <4> QED BY <2>1, <2>2, <4>1, <4>2
    <3>3. CASE i = Len(s)
      <4>1. i \in 1 .. Len(s) /\ s[i].kind = "header"
        BY <2>1, <2>2, <3>3
      <4>2. halfway[k] = <<s[i].of>>
        BY <1>2, <3>3, <4>1 DEF Whole, Paired, s
      <4>3. piece.kind = "pdu" /\ piece.of = s[i].of
        BY <1>2, <4>2 DEF PieceOf
      <4>4. piece = [kind |-> "pdu", of |-> s[i].of]
        BY <1>2, <4>3 DEF PieceOf
      <4> QED BY <2>1, <2>2, <3>3, <4>1, <4>4
    <3> QED BY <2>2, <3>1, <3>2, <3>3
  <2>4. ASSUME NEW o \in Connection \ {k} PROVE Paired(o)'
    <3>1. stream'[o] = stream[o] /\ halfway'[o] = halfway[o] /\ open' = open /\ Paired(o)
      BY <1>2, <2>1 DEF Whole, connVars
    <3> QED BY <3>1 DEF Paired
  <2>5. ASSUME NEW p \in Caller, pc[p] = "pdu", p \notin crossed, got[p] # Garbage
        PROVE  Follows(on[p], stream[on[p]], got[p])'
    <3>1. Follows(on[p], stream[on[p]], got[p]) /\ on[p] \in Connection
      BY <1>t, <2>5 DEF Whole
    <3>2. CASE on[p] # k
      BY <1>2, <2>1, <3>1, <3>2 DEF Follows, connVars, callVars
    <3>3. CASE on[p] = k /\ s # <<>>
      BY <1>2, <2>1, <2>2, <3>1, <3>3 DEF Follows, connVars, callVars, s
    <3>4. CASE on[p] = k /\ s = <<>>
      <4>1. halfway[k] = <<got[p]>> /\ ~torn[k]
        BY <1>2, <3>1, <3>4 DEF Follows, s
      <4>2. piece.kind = "pdu" /\ piece.of = got[p]
        BY <1>2, <4>1 DEF PieceOf
      <4>3. piece = [kind |-> "pdu", of |-> got[p]]
        BY <1>2, <4>2 DEF PieceOf
      <4> QED BY <1>2, <2>1, <2>2, <3>4, <4>1, <4>3 DEF Follows, connVars, callVars
    <3> QED BY <3>2, <3>3, <3>4
  <2> QED BY <1>2, <2>3, <2>4, <2>5 DEF Whole, connVars, callVars
<1>3. ASSUME NEW k \in Connection, AnswerHeader(k) PROVE Whole'
  <2> DEFINE piece == [kind |-> "header", of |-> Head(pending[k])]
  <2>1. Head(pending[k]) \in Request /\ pending[k] # <<>>
    BY <1>3 DEF AnswerHeader, Carries
  <2>2. piece \in PieceOf(Request) /\ piece.kind = "header" /\ piece.of = Head(pending[k])
    BY <2>1 DEF PieceOf
  <2>3. /\ halfway[k] = <<>> /\ halfway' = [halfway EXCEPT ![k] = <<Head(pending[k])>>]
        /\ k \in open /\ halfway'[k] = <<Head(pending[k])>>
        /\ halfway'[k] = <<Head(halfway'[k])>>
        /\ \A o \in Connection \ {k} : halfway'[o] = halfway[o]
    BY <1>3 DEF AnswerHeader, Reads, Carries
  <2>4. /\ stream' = [stream EXCEPT ![k] = Append(@, piece)]
        /\ UNCHANGED <<torn, connVars, callVars, crossed>>
    BY <1>3 DEF AnswerHeader, Arrives
  <2> HIDE DEF piece
  <2> QED BY <1>2, <2>2, <2>3, <2>4
<1>4. ASSUME NEW k \in Connection, AnswerPDU(k) PROVE Whole'
  <2> DEFINE piece == [kind |-> "pdu", of |-> Head(halfway[k])]
  <2>1. Head(halfway[k]) \in Request /\ halfway[k] # <<>> /\ halfway[k] \in Seq(Request)
    BY <1>4 DEF AnswerPDU, Carries
  <2>2. piece \in PieceOf(Request) /\ piece.kind = "pdu" /\ piece.of = Head(halfway[k])
    BY <2>1 DEF PieceOf
  <2>3. /\ k \in open /\ halfway'[k] = <<>>
        /\ \A o \in Connection \ {k} : halfway'[o] = halfway[o]
    BY <1>4 DEF AnswerPDU, Reads, Carries
  <2>4. /\ stream' = [stream EXCEPT ![k] = Append(@, piece)]
        /\ UNCHANGED <<torn, connVars, callVars, crossed>>
    BY <1>4 DEF AnswerPDU, Arrives
  <2>5. halfway[k] = <<piece.of>>
    BY <2>1, <2>2 DEF Whole
  <2> HIDE DEF piece
  <2> QED BY <1>2, <2>2, <2>3, <2>4, <2>5
<1>5. ASSUME NEW k \in Connection, ConnectionLost(k) \/ PeerStalls(k) PROVE Whole'
  <2>1. /\ UNCHANGED <<stream, torn, current, opened, callVars, crossed>> /\ open' \subseteq open
        /\ \A o \in Connection : o \in open' => halfway'[o] = halfway[o]
        /\ \A o \in Connection : halfway'[o] = halfway[o] \/ halfway'[o] = <<>>
    BY <1>5 DEF ConnectionLost, PeerStalls, Ends, deviceVars, streamVars, Carries
  <2> QED BY <1>l, <2>1 DEF callVars, Whole
<1>6. ASSUME NEW m \in Manager, Flushed(m) PROVE Whole'
  <2>1. /\ UNCHANGED <<stream, torn, current, opened, callVars, crossed>> /\ open' \subseteq open
        /\ \A o \in Connection : o \in open' => halfway'[o] = halfway[o]
        /\ \A o \in Connection : halfway'[o] = halfway[o] \/ halfway'[o] = <<>>
    BY <1>6 DEF Flushed, Ends, Carries
  <2> QED BY <1>l, <2>1 DEF callVars, Whole
<1>7. ASSUME NEW m \in Manager,
             BeginConnect(m) \/ BeginClose(m) \/ ConnectFails(m) \/ CloseReturns(m)
      PROVE  Whole'
  <2>1. /\ UNCHANGED <<stream, torn, open, opened, halfway, got, result, crossed>>
        /\ current' = None \/ current' = current
        /\ \A p \in Caller : pc'[p] = pc[p] /\ on'[p] = on[p]
    BY <1>7, <1>t DEF BeginConnect, BeginClose, ConnectFails, CloseReturns, Forget,
       connVars, deviceVars, streamVars, Control
  <2>2. current' <= opened'
    BY <1>t, <2>1 DEF Whole, None
  <2> QED BY <1>l, <2>1, <2>2
<1>8. ASSUME NEW m \in Manager, ConnectSucceeds(m) PROVE Whole'
  <2>1. /\ opened' = opened + 1 /\ open' = open \cup {opened'} /\ current' = opened'
        /\ stream' = [k \in Connection |-> IF k = current THEN stream[k] ELSE <<>>]
        /\ torn' = [k \in Connection |-> k = current /\ torn[k]]
        /\ UNCHANGED <<halfway, got, result, crossed>>
        /\ \A p \in Caller : pc[p] # "idle" => on[p] = current
        /\ \A p \in Caller : pc'[p] = pc[p] /\ on'[p] = on[p]
    BY <1>8, <1>t DEF ConnectSucceeds, deviceVars, Control
  <2>2. current # opened'
    BY <1>t, <2>1 DEF Whole
  <2>3. ASSUME NEW k \in Connection PROVE Paired(k)'
    <3>1. CASE k = current
      <4>1. stream'[k] = stream[k] /\ Paired(k) /\ (k \in open' => k \in open)
        BY <2>1, <2>2, <3>1 DEF Whole
      <4> QED BY <2>1, <4>1 DEF Paired
    <3>2. CASE k # current
      <4>1. stream'[k] = <<>>
        BY <2>1, <3>2
      <4> QED BY <4>1 DEF Paired
    <3> QED BY <3>1, <3>2
  <2>4. ASSUME NEW p \in Caller, pc[p] = "pdu", p \notin crossed, got[p] # Garbage
        PROVE  Follows(on[p], stream[on[p]], got[p])'
    <3>1. Follows(on[p], stream[on[p]], got[p]) /\ on[p] \in Connection /\ on[p] = current
      BY <1>t, <2>1, <2>4 DEF Whole
    <3>2. /\ stream'[current] = stream[current] /\ (torn'[current] => torn[current])
          /\ (current \in open' => current \in open)
      BY <2>1, <2>2, <3>1
    <3> QED BY <2>1, <3>1, <3>2 DEF Follows
  <2>5. current' <= opened'
    BY <1>t, <2>1
  <2> QED BY <2>1, <2>3, <2>4, <2>5 DEF Whole
<1> QED BY <1>1, <1>3, <1>4, <1>5, <1>6, <1>7, <1>8

\* The streams are of pieces, and halfway of requests.
LEMMA InvariantPieces == IInv => Control /\ Pieces
<1> SUFFICES ASSUME Control, NEW S \in SUBSET Request, Carries(S) PROVE Pieces
  BY DEF IInv
<1>1. PieceOf(S) \subseteq PieceOf(Request)
  BY DEF PieceOf
<1>2. Seq(PieceOf(S)) \subseteq Seq(PieceOf(Request))
  BY <1>1
<1> QED BY <1>2 DEF Carries, Pieces

\* Every step keeps the answers whole.
LEMMA WholeStep ==
    ASSUME IInv, IInv', Whole, [Next]_vars
    PROVE  Whole'
<1>1. Control /\ Pieces /\ Pieces'
  BY InvariantPieces, PTL
<1>2. PICK S \in SUBSET Request : Carries(S)
  BY DEF IInv
<1>3. CASE UNCHANGED vars
  BY <1>3 DEF vars, connVars, deviceVars, streamVars, callVars, Whole, Paired, Follows
<1> QED BY <1>1, <1>2, <1>3, CallWhole, OthersWhole DEF Next

-----------------------------------------------------------------------------
(***************************************************************************)
(* The theorems.                                                           *)
(***************************************************************************)
\* The invariant holds at first ...
LEMMA InvariantInit == Init => IInv
<1> SUFFICES ASSUME Init PROVE IInv
  OBVIOUS
<1>1. Control
  BY ClientAssumption DEF Init, Control, Awaits
<1>2. Carries({}) /\ Spaced({})
  BY DEF Init, Carries, Spaced, Maybe, Outcomes, ModbusErrors, Garbage, NoRequest, Returned,
         Unanswered
<1> QED BY <1>1, <1>2 DEF IInv

\* ... and every step keeps it.
LEMMA InvariantStep == IInv /\ [Next]_vars => IInv'
<1> SUFFICES ASSUME Control, NEW S \in SUBSET Request, Carries(S), Spaced(S), [Next]_vars
             PROVE  Control' /\ \E T \in SUBSET Request : Carries(T)' /\ Spaced(T)'
  BY DEF IInv
<1>1. ASSUME NEW p \in Caller, Execute(p)
      PROVE  Control' /\ \E T \in SUBSET Request : Carries(T)' /\ Spaced(T)'
  BY <1>1, ExecuteStep
<1>2. ASSUME NEW p \in Caller, Drained(p) \/ Resume(p) \/ Timeout(p)
      PROVE  Control' /\ Carries(S)' /\ Spaced(S)'
  <2>0. /\ stream \in [Connection -> Seq(PieceOf(S))]
        /\ got \in [Caller -> Maybe(S)]
    BY DEF Carries
  <2>1. /\ CallLeaves /\ UNCHANGED <<pending, nextTid, issued, request>>
        /\ woken' = woken \ {p} /\ crossed' \subseteq Caller
        /\ \E k \in Connection : \E w \in {None, waiter[k]} :
              /\ Received(p, k, w, S)
              /\ w # p
              /\ \A other \in Connection \ {k} : waiter[other] # p
    BY <1>2, <2>0, CallReceives
  <2>2. PICK k \in Connection : \E w \in {None, waiter[k]} :
              /\ Received(p, k, w, S)
              /\ w # p
              /\ \A other \in Connection \ {k} : waiter[other] # p
    BY <2>1
  <2>3. Control' /\ Carries(S)'
    BY <2>1, <2>2, ReceiveControl, ReceiveCarries
  <2> QED BY <2>1, <2>3 DEF Spaced
<1>3. ASSUME NEW m \in Manager,
             \/ BeginConnect(m) \/ Flushed(m) \/ ConnectSucceeds(m)
             \/ ConnectFails(m) \/ BeginClose(m) \/ CloseReturns(m)
      PROVE  Control' /\ Carries(S)' /\ Spaced(S)'
  <2>1. UNCHANGED <<nextTid, issued>>
    BY <1>3 DEF BeginConnect, Flushed, ConnectSucceeds, ConnectFails, BeginClose,
                CloseReturns, callVars
  <2> QED BY <1>3, <2>1, ManagerStep DEF Spaced
<1>4. ASSUME NEW k \in Connection,
             AnswerHeader(k) \/ AnswerPDU(k) \/ ConnectionLost(k) \/ PeerStalls(k)
      PROVE  Control' /\ Carries(S)' /\ Spaced(S)'
  <2>1. UNCHANGED <<nextTid, issued>>
    BY <1>4 DEF AnswerHeader, AnswerPDU, ConnectionLost, PeerStalls, Arrives, callVars
  <2> QED BY <1>4, <2>1, DeviceStep DEF Spaced
<1>5. CASE UNCHANGED vars
  <2>1. Control'
    BY <1>5 DEF vars, connVars, deviceVars, streamVars, callVars, Control
  <2>2. Carries(S)' /\ Spaced(S)'
    BY <1>5 DEF vars, connVars, deviceVars, streamVars, callVars, Carries, Spaced
  <2> QED BY <2>1, <2>2
<1> QED BY <1>1, <1>2, <1>3, <1>4, <1>5 DEF Next

\* The invariant is inductive.
THEOREM InvariantHolds == Spec => []IInv
BY InvariantInit, InvariantStep, PTL DEF Spec

\* The state has its types.
THEOREM TypeCorrect == Spec => []TypeOK
<1>1. IInv => TypeOK
  <2> SUFFICES ASSUME Control, NEW S \in SUBSET Request, Carries(S)
               PROVE  TypeOK
    BY DEF IInv
  <2>1. /\ Seq(S) \subseteq Seq(Request) /\ Maybe(S) \subseteq ZeroRequest
        /\ Seq(PieceOf(S)) \subseteq Seq(Piece)
    <3>1. PieceOf(S) \subseteq Piece
      BY DEF PieceOf, Piece
    <3> QED BY <3>1 DEF Maybe, ZeroRequest
  <2>2. /\ pending \in [Connection -> Seq(Request)]
        /\ halfway \in [Connection -> Seq(Request)]
        /\ stream \in [Connection -> Seq(Piece)]
        /\ request \in [Caller -> ZeroRequest]
        /\ got \in [Caller -> ZeroRequest]
        /\ result \in [Caller -> [outcome : Outcomes, header : ZeroRequest, body : ZeroRequest]]
    BY <2>1 DEF Carries
  <2> QED BY <2>2 DEF TypeOK, Control
<1> QED BY <1>1, InvariantHolds, PTL

\* Requests of one transaction id that are not one and the same are TidMax
\* calls apart, so the comparison of the ids tells the others from the call's.
LEMMA AcceptedInState == IInv /\ Whole => AcceptedIsOwn
<1> SUFFICES ASSUME NEW S \in SUBSET Request, Carries(S), Spaced(S), Whole,
                    NEW p \in Caller, result[p].outcome = "ok"
             PROVE  /\ Own(result[p].header, request[p])
                    /\ p \notin crossed => result[p].body = result[p].header
  BY DEF IInv, AcceptedIsOwn
<1>1. /\ request[p] \in S /\ result[p].header \in S
      /\ result[p].header.tid = request[p].tid
  BY DEF Carries
<1>2. request[p].id \in Nat /\ result[p].header.id \in Nat
  BY <1>1 DEF Request
<1>3. Own(result[p].header, request[p])
  BY <1>1, <1>2 DEF Spaced, Own
<1> QED BY <1>3 DEF Whole

\* At first there are no answers.
LEMMA WholeInit == Init => Whole
BY DEF Init, Whole, Paired, Unanswered, Returned, None

\* The PDU of a header that is received is what the caller takes or awaits next,
\* until another call takes bytes of that connection.
THEOREM AnswersStayWhole == Spec => []Whole
BY WholeInit, InvariantHolds, WholeStep, PTL DEF Spec

\* A response that execute returns came under the header of that call, up to
\* the wrap of the transaction ids, whatever TidMax is; and its PDU is that
\* header's unless another call took bytes of the connection meanwhile.
THEOREM AcceptedIsOwnAlways == Spec => []AcceptedIsOwn
BY AcceptedInState, InvariantHolds, AnswersStayWhole, PTL

\* What the one coroutine that connects and closes has under way.
OneManager ==
    \A m \in Manager :
        /\ pc[m] \in {"idle", "connecting", "closing"}
        /\ pc[m] # "idle" => current = None
        /\ pc[m] = "idle" => on[m] = None

\* With one coroutine that connects and closes, no socket is left open that
\* the transport has forgotten.
THEOREM NoConnectionLeaks ==
    ASSUME \A m, n \in Manager : m = n
    PROVE  Spec => []NoLeakedConnection
<1> DEFINE Inv == OneManager /\ NoLeakedConnection
<1>1. Init => Inv
  BY DEF Init, OneManager, NoLeakedConnection
<1>2. IInv /\ Inv /\ [Next]_vars => Inv'
  <2> SUFFICES ASSUME IInv, Control, OneManager, NoLeakedConnection, [Next]_vars
               PROVE  OneManager' /\ NoLeakedConnection'
    BY DEF IInv
  <2>s. PICK S \in SUBSET Request : Carries(S)
    BY DEF IInv
  <2>t. /\ pc \in [Caller \cup Manager -> Awaits]
        /\ on \in [Caller \cup Manager -> Connection \cup {None}]
        /\ open \subseteq 1 .. opened /\ opened \in Nat
        /\ \A m \in Manager : m \notin Caller /\ m \in Caller \cup Manager
    BY ClientAssumption DEF Control
  <2>1. ASSUME NEW p \in Caller,
               Execute(p) \/ Drained(p) \/ Resume(p) \/ Timeout(p)
        PROVE  OneManager' /\ NoLeakedConnection'
    <3>1. CASE Execute(p)
      <4>1. /\ UNCHANGED <<current, open>>
            /\ \A m \in Manager : pc'[m] = pc[m] /\ on'[m] = on[m]
        BY <2>t, <3>1 DEF Execute, Fails, Ended
      <4> QED BY <4>1 DEF OneManager, NoLeakedConnection
    <3>2. CASE Drained(p) \/ Resume(p) \/ Timeout(p)
      <4>1. CallLeaves /\ OnlyMoves(p)
        BY <2>s, <3>2, CallKeeps
      <4>2. \A m \in Manager : pc'[m] = pc[m] /\ on'[m] = on[m]
        BY <2>t, <4>1 DEF OnlyMoves
      <4> QED BY <4>1, <4>2 DEF OneManager, NoLeakedConnection, CallLeaves
    <3> QED BY <2>1, <3>1, <3>2
  <2>2. ASSUME NEW k \in Connection,
               AnswerHeader(k) \/ AnswerPDU(k) \/ ConnectionLost(k) \/ PeerStalls(k)
        PROVE  OneManager' /\ NoLeakedConnection'
    <3>1. UNCHANGED <<current, pc, on>> /\ open' \subseteq open
      BY <2>2 DEF AnswerHeader, AnswerPDU, ConnectionLost, PeerStalls, Arrives, Ends,
                  connVars, callVars
    <3> QED BY <3>1 DEF OneManager, NoLeakedConnection
  <2>3. ASSUME NEW m \in Manager, BeginConnect(m) \/ BeginClose(m)
        PROVE  OneManager' /\ NoLeakedConnection'
    <3>1. /\ on[m] = None /\ None \notin open
          /\ current' = None /\ open' = open
          /\ pc'[m] \in {"connecting", "closing"} /\ on'[m] = current
      BY <2>t, <2>3 DEF BeginConnect, BeginClose, Forget, OneManager, None
    <3> QED BY <3>1 DEF OneManager, NoLeakedConnection
  <2>4. ASSUME NEW m \in Manager, Flushed(m)
        PROVE  OneManager' /\ NoLeakedConnection'
    <3>1. UNCHANGED <<current, pc, on>> /\ open' \subseteq open
      BY <2>4 DEF Flushed, Ends, callVars
    <3> QED BY <3>1 DEF OneManager, NoLeakedConnection
  <2>5. ASSUME NEW m \in Manager, ConnectSucceeds(m)
        PROVE  OneManager' /\ NoLeakedConnection'
    <3>1. /\ current = None /\ on[m] \notin open /\ None \notin open
          /\ open' = open \cup {opened'} /\ current' = opened'
          /\ pc'[m] = "idle" /\ on'[m] = None
      BY <2>t, <2>5 DEF ConnectSucceeds, OneManager, None
    <3>2. open = {}
      BY <3>1 DEF NoLeakedConnection
    <3> QED BY <3>1, <3>2 DEF OneManager, NoLeakedConnection
  <2>6. ASSUME NEW m \in Manager, ConnectFails(m) \/ CloseReturns(m)
        PROVE  OneManager' /\ NoLeakedConnection'
    <3>1. /\ current' = current /\ open' = open /\ on[m] \notin open
          /\ pc'[m] = "idle" /\ on'[m] = None
      BY <2>t, <2>6 DEF ConnectFails, CloseReturns, connVars
    <3>2. current = None
      BY <2>6 DEF ConnectFails, CloseReturns, OneManager
    <3> QED BY <3>1, <3>2 DEF OneManager, NoLeakedConnection
  <2>7. CASE UNCHANGED vars
    BY <2>7 DEF vars, connVars, callVars, OneManager, NoLeakedConnection
  <2> QED BY <2>1, <2>2, <2>3, <2>4, <2>5, <2>6, <2>7 DEF Next
<1> QED BY <1>1, <1>2, InvariantHolds, PTL DEF Spec
=============================================================================
