--------------------------- MODULE RtuClientProofs ---------------------------
(***************************************************************************)
(* Proofs about RtuClient: for any coroutines, calls, garbled bytes and    *)
(* pauses, and any number of reopened ports, the state keeps its types and *)
(* a call only accepts an intact frame that answers what it asked for.     *)
(***************************************************************************)
EXTENDS RtuClient, SequenceTheorems, TLAPS

(***************************************************************************)
(* The inductive invariant.                                                *)
(***************************************************************************)
Response == {[id |-> q.id, unit |-> q.unit, fc |-> q.fc, data |-> q.data,
              exception |-> e, intact |-> i] : q \in RequestType, e, i \in BOOLEAN}
Byte == {b \in [of : Response, at : Nat] : b.at \in 1 .. FrameSize(b.of)}
Stages == {"prefix", "byte_count", "header", "object", "value", "rest"}
Threads == [on : Nat, left : Nat, read : Seq(Byte)]

\* The port; while the manager is at work no handle is installed.
Port ==
    /\ handle \in live \cup {None} /\ live \subseteq 1 .. opened
    /\ opened \in 0 .. MaxOpens
    /\ manager \in {"idle", "opening", "reopening", "closing"}
    /\ manager # "idle" => handle = None

Line == line \in Seq(Byte) /\ sending \in Seq(Byte) /\ backlog \in Seq(RequestType)

CallTypes ==
    /\ issued \in 0 .. MaxRequests
    /\ pc \in [Caller -> {"idle", "send", "receive"}]
    /\ data \in [Caller -> Seq(Byte)]
    /\ stage \in [Caller -> Stages \cup {"none"}]
    /\ objects \in [Caller -> Nat]
    /\ DOMAIN request = Caller /\ DOMAIN result = Caller
    /\ thread \in [1 .. MaxRequests -> Threads]

\* AcceptedFits, of one result.
Fits(r) ==
    r.outcome = "ok" =>
        LET q == r.request  x == r.response
        IN  /\ x.intact /\ ~x.exception
            /\ x.unit = q.unit /\ x.fc = q.fc
            /\ q.fc # "READ_HOLDING_REGISTERS" => x.data = q.data

\* What the thread of a receive has read and still wants, before anything of
\* the frame is known and after.
Begun(t, st, bytes) ==
    /\ t.on \in Handle
    /\ IF st = "prefix" THEN Len(t.read) + t.left = 2 ELSE bytes # <<>>

CallInv(p) ==
    /\ pc[p] # "idle" => request[p] \in RequestType /\ request[p].id <= issued
    /\ stage[p] = "none" <=> pc[p] # "receive"
    /\ objects[p] > 0 => stage[p] \in {"object", "value"}
    /\ stage[p] = "object" => objects[p] > 0
    /\ result[p].outcome \in Outcomes /\ Fits(result[p])
    /\ pc[p] = "receive" => Begun(thread[request[p].id], stage[p], data[p])

\* No two calls under way have the same id, so each has a thread of its own.
OwnIds == \A p, x \in Caller : p # x /\ pc[p] # "idle" /\ pc[x] # "idle" =>
                                  request[p].id # request[x].id

RInv == Port /\ Line /\ CallTypes /\ OwnIds /\ \A p \in Caller : CallInv(p)

-----------------------------------------------------------------------------
(***************************************************************************)
(* Frames and their bytes.                                                 *)
(***************************************************************************)
LEMMA RequestFacts ==
    ASSUME NEW q \in RequestType
    PROVE  /\ q.id \in 1 .. MaxRequests /\ q.data \in 1 .. 255
           /\ q.fc \in WriteCode \cup CountCode \cup {DeviceCode}
BY RtuAssumption DEF RequestType

LEMMA ResponseFacts ==
    ASSUME NEW r \in Response
    PROVE  /\ r.data \in 1 .. 255 /\ r.exception \in BOOLEAN /\ r.intact \in BOOLEAN
           /\ r.fc \in WriteCode \cup CountCode \cup {DeviceCode}
           /\ FrameSize(r) \in Nat /\ IsResponse(r)
<1>1. PICK q \in RequestType, e, i \in BOOLEAN :
         r = [id |-> q.id, unit |-> q.unit, fc |-> q.fc, data |-> q.data,
              exception |-> e, intact |-> i]
  BY DEF Response
<1>2. /\ r.data \in 1 .. 255 /\ r.exception \in BOOLEAN /\ r.intact \in BOOLEAN
      /\ r.fc \in WriteCode \cup CountCode \cup {DeviceCode}
  BY <1>1, RequestFacts
<1>3. FrameSize(r) \in Nat
  BY <1>2 DEF FrameSize
<1>4. [id |-> r.id, unit |-> r.unit, fc |-> r.fc, data |-> r.data] = q
  BY <1>1 DEF RequestType
<1>5. IsResponse(r)
  BY <1>2, <1>4 DEF IsResponse
<1> QED BY <1>2, <1>3, <1>5

LEMMA BytesFacts ==
    ASSUME NEW r \in Response
    PROVE  Bytes(r) \in Seq(Byte)
<1>1. FrameSize(r) \in Nat
  BY ResponseFacts
<1>2. \A i \in 1 .. FrameSize(r) : [of |-> r, at |-> i] \in Byte
  BY <1>1 DEF Byte
<1> QED BY <1>1, <1>2 DEF Bytes

\* A byte is one of a response, as AreBytes says.
LEMMA ByteFacts ==
    ASSUME NEW s \in Seq(Byte)
    PROVE  /\ AreBytes(s) /\ Len(s) \in Nat
           /\ s # <<>> => s[1] \in Byte /\ s[1].of \in Response
<1>1. \A i \in DOMAIN s : s[i] \in Byte
  OBVIOUS
<1>2. \A b \in Byte : b.of \in Response /\ b.at \in 1 .. FrameSize(b.of)
  BY DEF Byte
<1>3. AreBytes(s)
  BY <1>1, <1>2, ResponseFacts DEF AreBytes
<1>4. s # <<>> => 1 \in DOMAIN s
  OBVIOUS
<1> QED BY <1>1, <1>2, <1>3, <1>4

\* The beginning of a sequence, and the rest.
LEMMA SplitFacts ==
    ASSUME NEW T, NEW s \in Seq(T), NEW n \in Nat, n <= Len(s)
    PROVE  /\ SubSeq(s, 1, n) \in Seq(T) /\ Len(SubSeq(s, 1, n)) = n
           /\ Without(s, n) \in Seq(T)
<1>1. Len(s) \in Nat /\ \A i \in 1 .. Len(s) : s[i] \in T
  OBVIOUS
<1>2. SubSeq(s, 1, n) \in Seq(T) /\ Len(SubSeq(s, 1, n)) = n
  BY <1>1, SubSeqProperties
<1>3. SubSeq(s, n + 1, Len(s)) \in Seq(T)
  BY <1>1, SubSeqProperties
<1> QED BY <1>2, <1>3 DEF Without

LEMMA JoinFacts ==
    ASSUME NEW T, NEW s \in Seq(T), NEW t \in Seq(T)
    PROVE  s \o t \in Seq(T) /\ Len(s \o t) = Len(s) + Len(t)
OBVIOUS

\* The receive that follows one is of a size, and never of another frame's
\* first two bytes.
Follows(next) ==
    /\ next.stage \in Stages \ {"prefix"} /\ next.size \in Nat /\ next.objects \in Nat
    /\ next.objects > 0 => next.stage \in {"object", "value"}
    /\ next.stage = "object" => next.objects > 0

LEMMA FollowingFacts ==
    ASSUME NEW q \in RequestType, NEW st \in Stages \ {"rest"}, NEW s \in Seq(Byte), s # <<>>,
           NEW n \in Nat, st = "object" => n > 0, NEW next \in Following(q, st, s, n)
    PROVE  Follows(next)
<1> DEFINE r == s[1].of
<1>1. r \in Response /\ r.data \in 1 .. 255
  BY ByteFacts, ResponseFacts
<1>2. AnyByte \subseteq 0 .. 255
  BY RtuAssumption
<1>3. \A m \in Nat : Follows(ObjectOrCRC(m))
  BY DEF Follows, ObjectOrCRC, Receive, Stages
<1> HIDE DEF r
<1>4. CASE st = "prefix"
  <2>1. PICK e \in BOOLEAN \cup {r.exception} : next = AfterPrefix(q, e)
    BY <1>4 DEF Following, r
  <2> QED BY <2>1 DEF Follows, AfterPrefix, Receive, Stages, FixedSize,
                      RTU_EXCEPTION_RESPONSE_SIZE
<1>5. CASE st = "byte_count"
  <2>1. PICK c \in Last(s, r.fc \in CountCode /\ ~r.exception, 2 * r.data) :
           next = AfterByteCount(c)
    BY <1>5 DEF Following, r
  <2>2. c \in Nat
    <3>1. 2 * r.data \in Nat
      <4>1. \A d \in 1 .. 255 : 2 * d \in Nat
        OBVIOUS
      <4> QED BY <1>1, <4>1
    <3> QED BY <1>2, <2>1, <3>1 DEF Last
  <2> QED BY <2>1, <2>2 DEF Follows, AfterByteCount, Receive, Stages
<1>6. CASE st = "header"
  <2>1. PICK c \in Last(s, r.fc = DeviceCode /\ ~r.exception, 1) : next = ObjectOrCRC(c)
    BY <1>6 DEF Following, r
  <2>2. c \in Nat
    BY <1>2, <2>1 DEF Last
  <2> QED BY <1>3, <2>1, <2>2
<1>7. CASE st = "object"
  <2>1. PICK c \in Last(s, r.fc = DeviceCode /\ ~r.exception, 1) :
           next = IF c = 0 THEN ObjectOrCRC(n - 1) ELSE Receive("value", c, n - 1)
    BY <1>7 DEF Following, r
  <2>2. c \in Nat /\ n - 1 \in Nat
    BY <1>2, <1>7, <2>1 DEF Last
  <2>3. Follows(Receive("value", c, n - 1))
    BY <2>2 DEF Follows, Receive, Stages
  <2> QED BY <1>3, <2>1, <2>2, <2>3
<1>8. CASE st = "value"
  BY <1>3, <1>8 DEF Following
<1> QED BY <1>4, <1>5, <1>6, <1>7, <1>8 DEF Stages

\* What the codec and the helper make of a frame is accepted if it fits only.
LEMMA DecodeFacts ==
    ASSUME NEW q \in RequestType, NEW s \in Seq(Byte), s # <<>>
    PROVE  Decode(q, s).outcome \in Outcomes /\ Fits(Decode(q, s))
<1> DEFINE r == s[1].of
           e == IF Intact(s) THEN Decoded(q, r) ELSE "ModbusCRCError"
<1>1. r \in Response /\ r.exception \in BOOLEAN /\ 1 \in DOMAIN s
  BY ByteFacts, ResponseFacts
<1>2. e \in Outcomes
  BY <1>1 DEF Decoded, Outcomes
<1>3. CASE e = "ok"
  <2>1. r.intact
    BY <1>1, <1>3 DEF Intact, InPlace
  <2>2. /\ r.unit = q.unit /\ r.fc = q.fc /\ ~r.exception
        /\ q.fc # "READ_HOLDING_REGISTERS" => r.data = q.data
    BY <1>1, <1>3 DEF Decoded
  <2>3. Decode(q, s) = [outcome |-> "ok", request |-> q, response |-> r]
    BY <1>3 DEF Decode, Result
  <2> HIDE DEF r, e
  <2> QED BY <2>1, <2>2, <2>3 DEF Fits, Outcomes
<1>4. CASE e # "ok"
  <2>1. Decode(q, s) = [outcome |-> e, request |-> <<>>, response |-> <<>>]
    BY <1>4 DEF Decode, Failure, Result
  <2> HIDE DEF e
  <2> QED BY <1>2, <1>4, <2>1 DEF Fits
<1> QED BY <1>3, <1>4

LEMMA FailureFacts ==
    ASSUME NEW e \in Outcomes \ {"ok"}
    PROVE  Failure(e).outcome \in Outcomes /\ Fits(Failure(e))
BY DEF Failure, Result, Fits

-----------------------------------------------------------------------------
(***************************************************************************)
(* Steps.                                                                  *)
(***************************************************************************)
\* A call whose variables and thread stay as they are, or whose thread has read
\* more of what it wants.
LEMMA Untouched ==
    ASSUME RInv, NEW x \in Caller, issued' \in Nat, issued <= issued',
           pc'[x] = pc[x], request'[x] = request[x], data'[x] = data[x],
           stage'[x] = stage[x], objects'[x] = objects[x], result'[x] = result[x],
           pc[x] = "receive" =>
              LET t == thread[request[x].id]  u == thread'[request[x].id]
              IN  u.on = t.on /\ Len(u.read) + u.left = Len(t.read) + t.left
    PROVE  CallInv(x)'
<1>1. CallInv(x) /\ issued \in Nat
  BY DEF RInv, CallTypes
<1>2. ASSUME pc[x] # "idle"
      PROVE  request[x].id <= issued'
  <2>1. request[x].id \in Nat /\ request[x].id <= issued
    BY <1>1, <1>2, RequestFacts DEF CallInv
  <2> QED BY <1>1, <2>1
<1>3. pc[x] = "receive" => Begun(thread'[request[x].id], stage[x], data[x])
  BY <1>1 DEF CallInv, Begun
<1> QED BY <1>1, <1>2, <1>3 DEF CallInv

\* A call ends, with a result that is a failure or fits.
LEMMA EndedKeeps ==
    ASSUME RInv, NEW p \in Caller, NEW r, Ended(p, r), r.outcome \in Outcomes, Fits(r),
           issued' \in issued .. MaxRequests,
           thread' \in [1 .. MaxRequests -> Threads],
           \A x \in Caller \ {p} : pc[x] = "receive" =>
              thread'[request[x].id] = thread[request[x].id]
    PROVE  CallTypes' /\ OwnIds' /\ \A x \in Caller : CallInv(x)'
<1>1. CallTypes /\ OwnIds /\ issued \in Nat
  BY DEF RInv, CallTypes
<1>2. issued' \in Nat /\ issued <= issued' /\ issued' \in 0 .. MaxRequests
  BY <1>1, RtuAssumption
<1>3. /\ pc' = [pc EXCEPT ![p] = "idle"] /\ request' = [request EXCEPT ![p] = <<>>]
      /\ data' = [data EXCEPT ![p] = <<>>] /\ stage' = [stage EXCEPT ![p] = "none"]
      /\ objects' = [objects EXCEPT ![p] = 0] /\ result' = [result EXCEPT ![p] = r]
  BY DEF Ended
<1>4. CallTypes'
  <2>1. <<>> \in Seq(Byte)
    OBVIOUS
  <2> QED BY <1>1, <1>2, <1>3, <2>1 DEF CallTypes
<1>5. OwnIds'
  BY <1>1, <1>3 DEF OwnIds, CallTypes
<1>6. CallInv(p)'
  <2>1. /\ pc'[p] = "idle" /\ stage'[p] = "none" /\ objects'[p] = 0 /\ result'[p] = r
    BY <1>1, <1>3 DEF CallTypes
  <2> QED BY <2>1 DEF CallInv
<1>7. ASSUME NEW x \in Caller \ {p}
      PROVE  CallInv(x)'
  <2>1. /\ pc'[x] = pc[x] /\ request'[x] = request[x] /\ data'[x] = data[x]
        /\ stage'[x] = stage[x] /\ objects'[x] = objects[x] /\ result'[x] = result[x]
    BY <1>1, <1>3 DEF CallTypes
  <2> QED BY <1>2, <2>1, Untouched
<1> QED BY <1>4, <1>5, <1>6, <1>7

\* A call goes on to a receive, or finds no connection.
LEMMA ReceivesKeeps ==
    ASSUME RInv, NEW p \in Caller, pc[p] # "idle",
           NEW bytes \in Seq(Byte), NEW next, Receives(p, bytes, next),
           \/ bytes = <<>> /\ next = Receive("prefix", 2, 0)
           \/ bytes # <<>> /\ Follows(next),
           issued' = issued
    PROVE  /\ CallTypes' /\ OwnIds' /\ \A x \in Caller : CallInv(x)'
           /\ line' \in Seq(Byte)
<1>1. /\ CallTypes /\ OwnIds /\ Port /\ Line /\ CallInv(p)
      /\ issued \in 0 .. MaxRequests /\ issued \in Nat
  BY RtuAssumption DEF RInv, CallTypes
<1>2. request[p] \in RequestType /\ request[p].id \in 1 .. MaxRequests
  BY <1>1, RequestFacts DEF CallInv
<1>3. ASSUME NEW t \in Threads, thread' = [thread EXCEPT ![request[p].id] = t]
      PROVE  /\ thread' \in [1 .. MaxRequests -> Threads]
             /\ thread'[request[p].id] = t
             /\ \A x \in Caller \ {p} : pc[x] = "receive" =>
                   thread'[request[x].id] = thread[request[x].id]
  <2>1. thread' \in [1 .. MaxRequests -> Threads] /\ thread'[request[p].id] = t
    BY <1>1, <1>2, <1>3 DEF CallTypes
  <2>2. ASSUME NEW x \in Caller \ {p}, pc[x] = "receive"
        PROVE  thread'[request[x].id] = thread[request[x].id]
    <3>1. request[x].id # request[p].id
      BY <1>1, <2>2 DEF OwnIds
    <3>2. request[x].id \in 1 .. MaxRequests
      BY <2>2, RequestFacts DEF RInv, CallInv
    <3> QED BY <1>1, <1>3, <3>1, <3>2 DEF CallTypes
  <2> QED BY <2>1, <2>2
<1>4. CASE handle = None
  <2>1. /\ Ended(p, Failure("ModbusConnectionError")) /\ line' = line
        /\ thread' = [thread EXCEPT ![request[p].id] = NoThread]
    BY <1>4 DEF Receives, Fails
  <2>2. NoThread \in Threads
    BY DEF NoThread, Threads, None
  <2>3. /\ Failure("ModbusConnectionError").outcome \in Outcomes
        /\ Fits(Failure("ModbusConnectionError"))
    BY FailureFacts DEF Outcomes
  <2>4. issued' \in issued .. MaxRequests
    BY <1>1, RtuAssumption
  <2>5. /\ thread' \in [1 .. MaxRequests -> Threads]
        /\ \A x \in Caller \ {p} : pc[x] = "receive" =>
              thread'[request[x].id] = thread[request[x].id]
    BY <1>3, <2>1, <2>2
  <2>6. CallTypes' /\ OwnIds' /\ \A x \in Caller : CallInv(x)'
    BY <2>1, <2>3, <2>4, <2>5, EndedKeeps
  <2> QED BY <1>1, <2>1, <2>6 DEF Line
<1>5. CASE handle # None
  <2> DEFINE n == AtMost(Len(line), next.size)
             t == [on |-> handle, left |-> next.size - n, read |-> SubSeq(line, 1, n)]
  <2>1. /\ pc' = [pc EXCEPT ![p] = "receive"] /\ data' = [data EXCEPT ![p] = bytes]
        /\ stage' = [stage EXCEPT ![p] = next.stage]
        /\ objects' = [objects EXCEPT ![p] = next.objects]
        /\ thread' = [thread EXCEPT ![request[p].id] = t] /\ line' = Without(line, n)
        /\ request' = request /\ result' = result
    BY <1>5 DEF Receives
  <2>2. /\ next.stage \in Stages /\ next.size \in Nat /\ next.objects \in Nat
        /\ next.objects > 0 => next.stage \in {"object", "value"}
        /\ next.stage = "object" => next.objects > 0
        /\ next.stage = "prefix" => bytes = <<>> /\ next.size = 2
        /\ next.stage # "prefix" => bytes # <<>>
    BY DEF Follows, Receive, Stages
  <2>3. line \in Seq(Byte) /\ Len(line) \in Nat
    BY <1>1 DEF Line
  <2>4. n \in Nat /\ n <= Len(line) /\ n <= next.size /\ next.size - n \in Nat
    BY <2>2, <2>3 DEF AtMost
  <2> HIDE DEF n
  <2>5. /\ SubSeq(line, 1, n) \in Seq(Byte) /\ Len(SubSeq(line, 1, n)) = n
        /\ line' \in Seq(Byte)
    BY <2>1, <2>3, <2>4, SplitFacts
  <2>6. handle \in Handle /\ handle \in Nat
    BY <1>1, <1>5, RtuAssumption DEF Port, Handle
  <2>7. t \in Threads
    BY <2>4, <2>5, <2>6 DEF Threads
  <2>8. Begun(t, next.stage, bytes)
    BY <2>2, <2>4, <2>5, <2>6 DEF Begun
  <2> HIDE DEF t
  <2>9. /\ thread' \in [1 .. MaxRequests -> Threads] /\ thread'[request[p].id] = t
        /\ \A x \in Caller \ {p} : pc[x] = "receive" =>
              thread'[request[x].id] = thread[request[x].id]
    BY <1>3, <2>1, <2>7
  <2>10. CallTypes'
    BY <1>1, <2>1, <2>2, <2>9 DEF CallTypes
  <2>11. OwnIds'
    BY <1>1, <2>1 DEF OwnIds, CallTypes
  <2>12. CallInv(p)'
    <3>1. /\ pc'[p] = "receive" /\ data'[p] = bytes /\ stage'[p] = next.stage
          /\ objects'[p] = next.objects /\ request'[p] = request[p] /\ result'[p] = result[p]
      BY <1>1, <2>1 DEF CallTypes
    <3>2. next.stage # "none"
      BY <2>2 DEF Stages
    <3> QED BY <1>1, <2>2, <2>8, <2>9, <3>1, <3>2 DEF CallInv
  <2>13. ASSUME NEW x \in Caller \ {p}
         PROVE  CallInv(x)'
    <3>1. /\ pc'[x] = pc[x] /\ request'[x] = request[x] /\ data'[x] = data[x]
          /\ stage'[x] = stage[x] /\ objects'[x] = objects[x] /\ result'[x] = result[x]
      BY <1>1, <2>1 DEF CallTypes
    <3>2. issued' \in Nat /\ issued <= issued'
      BY <1>1
    <3> QED BY <2>9, <3>1, <3>2, Untouched
  <2> QED BY <2>5, <2>10, <2>11, <2>12, <2>13
<1> QED BY <1>4, <1>5
\* No call moves; a thread may have read more of what it wants.
LEMMA CallsStay ==
    ASSUME RInv, UNCHANGED callVars, thread' \in [1 .. MaxRequests -> Threads],
           \A x \in Caller : pc[x] = "receive" =>
              LET t == thread[request[x].id]  u == thread'[request[x].id]
              IN  u.on = t.on /\ Len(u.read) + u.left = Len(t.read) + t.left
    PROVE  CallTypes' /\ OwnIds' /\ \A x \in Caller : CallInv(x)'
<1>1. CallTypes /\ OwnIds /\ issued \in Nat
  BY DEF RInv, CallTypes
<1>2. CallTypes' /\ OwnIds'
  BY <1>1 DEF CallTypes, OwnIds, callVars
<1>3. \A x \in Caller : CallInv(x)'
  BY <1>1, Untouched DEF callVars
<1> QED BY <1>2, <1>3

LEMMA ManagerKeeps ==
    ASSUME RInv, BeginConnect \/ BeginClose \/ PortClosed \/ PortOpened \/ OpenFails
    PROVE  RInv'
<1>1. Port /\ Line /\ CallTypes
  BY DEF RInv
<1>2. UNCHANGED callVars /\ UNCHANGED thread /\ UNCHANGED <<backlog, sending>>
  BY DEF BeginConnect, BeginClose, PortClosed, PortOpened, OpenFails, lineVars
<1>3. CallTypes' /\ OwnIds' /\ \A x \in Caller : CallInv(x)'
  <2>1. thread' \in [1 .. MaxRequests -> Threads] /\ thread' = thread
    BY <1>1, <1>2 DEF CallTypes
  <2> QED BY <1>2, <2>1, CallsStay
<1>4. line' \in {line, <<>>}
  BY DEF BeginConnect, BeginClose, PortClosed, PortOpened, OpenFails, lineVars
<1>5. Line'
  <2>1. <<>> \in Seq(Byte)
    OBVIOUS
  <2> QED BY <1>1, <1>2, <1>4, <2>1 DEF Line
<1>6. opened \in Nat /\ MaxOpens \in Nat
  BY <1>1, RtuAssumption DEF Port
<1>7. Port'
  <2>1. CASE BeginConnect
    BY <1>1, <1>6, <2>1 DEF BeginConnect, Port
  <2>2. CASE BeginClose
    BY <1>1, <1>6, <2>2 DEF BeginClose, Port
  <2>3. CASE PortClosed
    BY <1>1, <1>6, <2>3 DEF PortClosed, Port
  <2>4. CASE PortOpened
    <3>1. /\ opened' = opened + 1 /\ live' = live \cup {opened + 1}
          /\ handle' = opened + 1 /\ manager' = "idle" /\ opened < MaxOpens
      BY <2>4 DEF PortOpened
    <3>2. 1 .. opened \subseteq 1 .. opened + 1 /\ opened + 1 \in 0 .. MaxOpens
          /\ opened + 1 \in 1 .. opened + 1
      BY <1>6, <3>1
    <3> QED BY <1>1, <3>1, <3>2 DEF Port
  <2>5. CASE OpenFails
    BY <1>1, <1>6, <2>5 DEF OpenFails, Port
  <2> QED BY <2>1, <2>2, <2>3, <2>4, <2>5
<1> QED BY <1>3, <1>5, <1>7 DEF RInv

LEMMA DeviceKeeps ==
    ASSUME RInv, DeviceAnswers \/ DeviceIgnores
    PROVE  RInv'
<1>1. Port /\ Line /\ CallTypes
  BY DEF RInv
<1>2. /\ UNCHANGED portVars /\ UNCHANGED callVars /\ UNCHANGED thread /\ UNCHANGED line
      /\ backlog # <<>> /\ backlog' = Tail(backlog)
  BY DEF DeviceAnswers, DeviceIgnores
<1>3. CallTypes' /\ OwnIds' /\ \A x \in Caller : CallInv(x)'
  <2>1. thread' \in [1 .. MaxRequests -> Threads] /\ thread' = thread
    BY <1>1, <1>2 DEF CallTypes
  <2> QED BY <1>2, <2>1, CallsStay
<1>4. backlog' \in Seq(RequestType) /\ Head(backlog) \in RequestType
  BY <1>1, <1>2 DEF Line
<1>5. sending' \in Seq(Byte)
  <2>1. CASE DeviceAnswers
    <3>1. PICK e \in BOOLEAN, i \in BOOLEAN :
             sending' = Bytes([id |-> Head(backlog).id, unit |-> Head(backlog).unit,
                               fc |-> Head(backlog).fc, data |-> Head(backlog).data,
                               exception |-> e, intact |-> i])
      BY <2>1 DEF DeviceAnswers
    <3>2. [id |-> Head(backlog).id, unit |-> Head(backlog).unit, fc |-> Head(backlog).fc,
           data |-> Head(backlog).data, exception |-> e, intact |-> i] \in Response
      BY <1>4 DEF Response
    <3> QED BY <3>1, <3>2, BytesFacts
  <2>2. CASE DeviceIgnores
    BY <1>1, <2>2 DEF DeviceIgnores, Line
  <2> QED BY <2>1, <2>2
<1>6. Port' /\ Line'
  BY <1>1, <1>2, <1>4, <1>5 DEF Port, portVars, Line
<1> QED BY <1>3, <1>6 DEF RInv

LEMMA BytesArriveKeeps ==
    ASSUME RInv, BytesArrive
    PROVE  RInv'
<1>1. Port /\ Line /\ CallTypes
  BY DEF RInv
<1>2. UNCHANGED portVars /\ UNCHANGED callVars /\ UNCHANGED backlog /\ sending # <<>>
  BY DEF BytesArrive
<1>3. sending \in Seq(Byte) /\ Len(sending) \in Nat /\ line \in Seq(Byte)
  BY <1>1 DEF Line
<1>4. PICK n \in {Len(sending)} \cup {n \in 1 .. Len(sending) : sending[n].at \in Pause} :
         \/ /\ line' = IF live = {} THEN line ELSE line \o SubSeq(sending, 1, n)
            /\ sending' = Without(sending, n) /\ thread' = thread
         \/ \E i \in Reading :
               LET m == AtMost(n, thread[i].left)
               IN  /\ thread' = [thread EXCEPT ![i].left = @ - m,
                         ![i].read = IF Awaited(i) THEN @ \o SubSeq(sending, 1, m) ELSE @]
                   /\ sending' = Without(sending, m) /\ line' = line
  BY DEF BytesArrive
<1>5. n \in Nat /\ n <= Len(sending)
  BY <1>3
<1>6. CASE /\ line' = IF live = {} THEN line ELSE line \o SubSeq(sending, 1, n)
           /\ sending' = Without(sending, n) /\ thread' = thread
  <2>1. SubSeq(sending, 1, n) \in Seq(Byte) /\ Without(sending, n) \in Seq(Byte)
    BY <1>3, <1>5, SplitFacts
  <2>2. line' \in Seq(Byte) /\ sending' \in Seq(Byte)
    BY <1>3, <1>6, <2>1
  <2>3. CallTypes' /\ OwnIds' /\ \A x \in Caller : CallInv(x)'
    <3>1. thread' \in [1 .. MaxRequests -> Threads]
      BY <1>1, <1>6 DEF CallTypes
    <3> QED BY <1>2, <1>6, <3>1, CallsStay
  <2> QED BY <1>1, <1>2, <2>2, <2>3 DEF RInv, Port, portVars, Line
<1>7. ASSUME NEW i \in Reading, NEW m, m = AtMost(n, thread[i].left),
             thread' = [thread EXCEPT ![i].left = @ - m,
                          ![i].read = IF Awaited(i) THEN @ \o SubSeq(sending, 1, m) ELSE @],
             sending' = Without(sending, m), line' = line
      PROVE  RInv'
  <2>1. i \in 1 .. MaxRequests /\ thread[i] \in Threads /\ thread \in [1 .. MaxRequests -> Threads]
    BY <1>1, <1>7 DEF Reading, CallTypes
  <2>2. /\ thread[i].left \in Nat /\ thread[i].read \in Seq(Byte) /\ thread[i].on \in Nat
        /\ thread[i] = [on |-> thread[i].on, left |-> thread[i].left, read |-> thread[i].read]
    BY <2>1 DEF Threads
  <2>3. m \in Nat /\ m <= Len(sending) /\ thread[i].left - m \in Nat
    BY <1>3, <1>5, <1>7, <2>2 DEF AtMost
  <2>4. /\ SubSeq(sending, 1, m) \in Seq(Byte) /\ Len(SubSeq(sending, 1, m)) = m
        /\ sending' \in Seq(Byte)
    BY <1>3, <1>7, <2>3, SplitFacts
  <2> DEFINE more == IF Awaited(i) THEN thread[i].read \o SubSeq(sending, 1, m)
                                   ELSE thread[i].read
             u == [on |-> thread[i].on, left |-> thread[i].left - m, read |-> more]
  <2>5. /\ more \in Seq(Byte)
        /\ Awaited(i) => Len(more) + (thread[i].left - m) = Len(thread[i].read) + thread[i].left
    <3> DEFINE both == thread[i].read \o SubSeq(sending, 1, m)
    <3>1. both \in Seq(Byte) /\ Len(both) = Len(thread[i].read) + m
      BY <2>2, <2>4, JoinFacts
    <3>2. Len(thread[i].read) \in Nat
      BY <2>2
    <3> HIDE DEF both
    <3>3. Len(both) + (thread[i].left - m) = Len(thread[i].read) + thread[i].left
      BY <2>2, <2>3, <3>1, <3>2
    <3>4. more = IF Awaited(i) THEN both ELSE thread[i].read
      BY DEF both
    <3> HIDE DEF more
    <3> QED BY <2>2, <3>1, <3>3, <3>4
  <2>6. thread' = [thread EXCEPT ![i] = u]
    <3> DEFINE first == [thread EXCEPT ![i].left = @ - m]
    <3> HIDE DEF more
    <3>1. /\ DOMAIN first = 1 .. MaxRequests
          /\ first[i] = [on |-> thread[i].on, left |-> thread[i].left - m,
                         read |-> thread[i].read]
          /\ \A j \in 1 .. MaxRequests : j # i => first[j] = thread[j]
      BY <2>1, <2>2
    <3>2. thread' = [first EXCEPT ![i].read = more]
      BY <1>7, <2>1, <3>1 DEF more
    <3> HIDE DEF first
    <3>3. [first[i] EXCEPT !.read = more] = u
      BY <3>1
    <3>4. thread' = [first EXCEPT ![i] = [first[i] EXCEPT !.read = more]]
      BY <3>2
    <3> QED BY <2>1, <3>1, <3>3, <3>4
  <2> HIDE DEF more
  <2>7. u \in Threads
    BY <2>2, <2>3, <2>5 DEF Threads
  <2>8. thread' \in [1 .. MaxRequests -> Threads]
    BY <2>1, <2>6, <2>7
  <2>9. ASSUME NEW x \in Caller, pc[x] = "receive"
        PROVE  LET t == thread[request[x].id]  v == thread'[request[x].id]
               IN  v.on = t.on /\ Len(v.read) + v.left = Len(t.read) + t.left
    <3>1. CASE request[x].id = i
      <4>1. Awaited(i)
        BY <2>9, <3>1 DEF Awaited
      <4>2. thread'[i] = u
        BY <2>1, <2>6
      <4> QED BY <2>5, <3>1, <4>1, <4>2
    <3>2. CASE request[x].id # i
      BY <2>1, <2>6, <3>2
    <3> QED BY <3>1, <3>2
  <2>10. CallTypes' /\ OwnIds' /\ \A x \in Caller : CallInv(x)'
    BY <1>2, <2>8, <2>9, CallsStay
  <2> QED BY <1>1, <1>2, <1>3, <1>7, <2>4, <2>10 DEF RInv, Port, portVars, Line
<1> QED BY <1>4, <1>6, <1>7

LEMMA ThreadEndsKeeps ==
    ASSUME RInv, NEW i \in DOMAIN thread, ThreadEnds(i)
    PROVE  RInv'
<1>1. Port /\ Line /\ CallTypes
  BY DEF RInv
<1>2. /\ ~ Awaited(i) /\ thread' = [thread EXCEPT ![i] = NoThread]
      /\ UNCHANGED portVars /\ UNCHANGED lineVars /\ UNCHANGED callVars
  BY DEF ThreadEnds
<1>3. NoThread \in Threads
  BY DEF NoThread, Threads, None
<1>4. thread' \in [1 .. MaxRequests -> Threads]
  BY <1>1, <1>2, <1>3 DEF CallTypes
<1>5. \A x \in Caller : pc[x] = "receive" => thread'[request[x].id] = thread[request[x].id]
  BY <1>1, <1>2 DEF Awaited, CallTypes
<1>6. CallTypes' /\ OwnIds' /\ \A x \in Caller : CallInv(x)'
  BY <1>2, <1>4, <1>5, CallsStay
<1> QED BY <1>1, <1>2, <1>6 DEF RInv, Port, portVars, Line, lineVars

LEMMA ExecuteKeeps ==
    ASSUME RInv, NEW p \in Caller, NEW c \in Calls[p], Execute(p, c)
    PROVE  RInv'
<1>1. Port /\ Line /\ CallTypes /\ OwnIds /\ CallInv(p)
  BY DEF RInv
<1>2. /\ pc[p] = "idle" /\ issued' = issued + 1 /\ issued < MaxRequests
      /\ UNCHANGED portVars /\ UNCHANGED lineVars /\ UNCHANGED thread
  BY DEF Execute
<1>3. /\ issued \in Nat /\ issued' \in issued .. MaxRequests /\ issued' \in 1 .. MaxRequests
      /\ issued <= issued' /\ issued' \in Nat
  BY <1>1, <1>2, RtuAssumption DEF CallTypes
<1>4. thread' \in [1 .. MaxRequests -> Threads]
  BY <1>1, <1>2 DEF CallTypes
<1>5. CallTypes' /\ OwnIds' /\ \A x \in Caller : CallInv(x)'
  <2>1. CASE handle = None
    <3>1. Ended(p, Failure("ModbusConnectionError"))
      BY <2>1 DEF Execute, Fails
    <3>2. /\ Failure("ModbusConnectionError").outcome \in Outcomes
          /\ Fits(Failure("ModbusConnectionError"))
      BY FailureFacts DEF Outcomes
    <3> QED BY <1>2, <1>3, <1>4, <3>1, <3>2, EndedKeeps
  <2>2. CASE handle # None
    <3> DEFINE q == [id |-> issued', unit |-> c.unit, fc |-> c.fc, data |-> c.data]
    <3>1. /\ pc' = [pc EXCEPT ![p] = "send"] /\ request' = [request EXCEPT ![p] = q]
          /\ result' = [result EXCEPT ![p] = NoResult]
          /\ UNCHANGED <<data, stage, objects>>
      BY <2>2 DEF Execute
    <3>2. q \in RequestType
      BY <1>3 DEF RequestType
    <3>3. q.id = issued'
      OBVIOUS
    <3> HIDE DEF q
    <3>4. CallTypes'
      BY <1>1, <1>3, <1>4, <3>1 DEF CallTypes
    <3>5. ASSUME NEW x \in Caller, pc[x] # "idle"
          PROVE  request[x].id # issued'
      <4>1. request[x].id \in Nat /\ request[x].id <= issued
        BY <3>5, RequestFacts DEF RInv, CallInv
      <4> QED BY <1>2, <1>3, <4>1
    <3>6. OwnIds'
      BY <1>1, <3>1, <3>3, <3>5 DEF OwnIds, CallTypes
    <3>7. CallInv(p)'
      <4>1. /\ pc'[p] = "send" /\ request'[p] = q /\ result'[p] = NoResult
            /\ stage'[p] = stage[p] /\ objects'[p] = objects[p]
        BY <1>1, <3>1 DEF CallTypes
      <4>2. NoResult.outcome \in Outcomes /\ Fits(NoResult)
        BY DEF NoResult, Result, Outcomes, Fits
      <4>3. q.id <= issued'
        BY <1>3, <3>3
      <4> QED BY <1>1, <1>2, <3>2, <4>1, <4>2, <4>3 DEF CallInv
    <3>8. ASSUME NEW x \in Caller \ {p}
          PROVE  CallInv(x)'
      <4>1. /\ pc'[x] = pc[x] /\ request'[x] = request[x] /\ data'[x] = data[x]
            /\ stage'[x] = stage[x] /\ objects'[x] = objects[x] /\ result'[x] = result[x]
        BY <1>1, <3>1 DEF CallTypes
      <4> QED BY <1>2, <1>3, <4>1, Untouched
    <3> QED BY <3>4, <3>6, <3>7, <3>8
  <2> QED BY <2>1, <2>2
<1> QED BY <1>1, <1>2, <1>5 DEF RInv, Port, portVars, Line, lineVars
\* Calls under way have threads of their own.
LEMMA OwnThread ==
    ASSUME RInv, NEW p \in Caller, pc[p] # "idle", NEW t \in Threads
    PROVE  LET changed == [thread EXCEPT ![request[p].id] = t]
           IN  /\ changed \in [1 .. MaxRequests -> Threads]
               /\ \A x \in Caller \ {p} : pc[x] = "receive" =>
                     changed[request[x].id] = thread[request[x].id]
<1>1. thread \in [1 .. MaxRequests -> Threads]
  BY DEF RInv, CallTypes
<1>2. ASSUME NEW x \in Caller \ {p}, pc[x] = "receive"
      PROVE  request[x].id # request[p].id /\ request[x].id \in 1 .. MaxRequests
  <2>1. request[x].id \in 1 .. MaxRequests
    BY <1>2, RequestFacts DEF RInv, CallInv
  <2> QED BY <1>2, <2>1 DEF RInv, OwnIds
<1> QED BY <1>1, <1>2

\* The thread of p.
Mine(p) == thread[request[p].id]

\* The bytes a receive returns: those of the receives before it and its own.
LEMMA GatheredBytes ==
    ASSUME RInv, NEW p \in Caller, pc[p] = "receive", Mine(p).left = 0
    PROVE  LET s == data[p] \o Mine(p).read
           IN  /\ s \in Seq(Byte) /\ s # <<>>
               /\ Len(s) = Len(data[p]) + Len(Mine(p).read)
<1>1. request[p].id \in 1 .. MaxRequests /\ Mine(p) \in Threads /\ CallInv(p)
  BY RequestFacts DEF RInv, CallTypes, CallInv, Mine
<1>2. data[p] \in Seq(Byte) /\ Mine(p).read \in Seq(Byte)
  BY <1>1 DEF RInv, CallTypes, Threads
<1>3. Begun(Mine(p), stage[p], data[p])
  BY <1>1 DEF CallInv, Mine
<1> DEFINE s == data[p] \o Mine(p).read
<1>4. s \in Seq(Byte) /\ Len(s) = Len(data[p]) + Len(Mine(p).read)
  BY <1>2, ConcatProperties
<1>5. Len(data[p]) \in Nat /\ Len(Mine(p).read) \in Nat
  BY <1>2
<1>6. Len(data[p]) > 0 \/ Len(Mine(p).read) > 0
  <2>1. CASE stage[p] = "prefix"
    <3>1. PICK k \in Nat : k = Len(Mine(p).read)
      BY <1>5
    <3>2. k + 0 = 2
      BY <1>3, <2>1, <3>1, Zenon DEF Begun
    <3>3. k > 0
      BY <3>1, <3>2
    <3> QED BY <3>1, <3>3, Zenon
  <2>2. CASE stage[p] # "prefix"
    <3>1. data[p] # <<>>
      BY <1>3, <2>2 DEF Begun
    <3>2. Len(data[p]) > 0
      BY <1>2, <3>1
    <3> QED BY <3>2
  <2> QED BY <2>1, <2>2
<1>7. Len(s) # 0
  <2>1. \A j, k \in Nat : j > 0 \/ k > 0 => j + k # 0
    OBVIOUS
  <2> HIDE DEF s
  <2> QED BY <1>4, <1>5, <1>6, <2>1, Zenon
<1>8. s # <<>>
  <2> HIDE DEF s
  <2> QED BY <1>7
<1> QED BY <1>4, <1>8

LEMMA CallKeeps ==
    ASSUME RInv, NEW p \in Caller,
           Written(p) \/ WriteFails(p) \/ Received(p) \/ ReadFails(p) \/ ReceiveTimeout(p)
    PROVE  RInv'
<1>1. Port /\ Line /\ CallTypes /\ OwnIds /\ CallInv(p)
  BY DEF RInv
<1>2. UNCHANGED portVars /\ UNCHANGED sending /\ issued' = issued /\ pc[p] # "idle"
  BY DEF Written, WriteFails, Received, ReadFails, ReceiveTimeout, CallLeaves
<1>3. /\ request[p] \in RequestType /\ request[p].id \in 1 .. MaxRequests
      /\ issued' \in issued .. MaxRequests
      /\ thread \in [1 .. MaxRequests -> Threads] /\ thread[request[p].id] \in Threads
  BY <1>1, <1>2, RequestFacts, RtuAssumption DEF CallInv, CallTypes
<1>4. Append(backlog, request[p]) \in Seq(RequestType)
  BY <1>1, <1>3 DEF Line
<1> DEFINE Calls1 == CallTypes' /\ OwnIds' /\ \A x \in Caller : CallInv(x)'
<1>5. ASSUME Calls1, line' \in Seq(Byte), backlog' \in Seq(RequestType)
      PROVE  RInv'
  BY <1>1, <1>2, <1>5 DEF RInv, Port, portVars, Line
<1>6. ASSUME NEW e \in Outcomes \ {"ok"}, Fails(p, e),
             thread' \in [1 .. MaxRequests -> Threads],
             \A x \in Caller \ {p} : pc[x] = "receive" =>
                thread'[request[x].id] = thread[request[x].id]
      PROVE  Calls1
  BY <1>3, <1>6, FailureFacts, EndedKeeps DEF Fails
<1>7. /\ thread' = thread => /\ thread' \in [1 .. MaxRequests -> Threads]
                             /\ \A x \in Caller \ {p} : pc[x] = "receive" =>
                                   thread'[request[x].id] = thread[request[x].id]
      /\ \A t \in Threads : thread' = [thread EXCEPT ![request[p].id] = t] =>
            /\ thread' \in [1 .. MaxRequests -> Threads]
            /\ \A x \in Caller \ {p} : pc[x] = "receive" =>
                  thread'[request[x].id] = thread[request[x].id]
  <2>1. ASSUME NEW t \in Threads, thread' = [thread EXCEPT ![request[p].id] = t]
        PROVE  /\ thread' \in [1 .. MaxRequests -> Threads]
               /\ \A x \in Caller \ {p} : pc[x] = "receive" =>
                     thread'[request[x].id] = thread[request[x].id]
    <3>1. LET changed == [thread EXCEPT ![request[p].id] = t]
          IN  /\ changed \in [1 .. MaxRequests -> Threads]
              /\ \A x \in Caller \ {p} : pc[x] = "receive" =>
                    changed[request[x].id] = thread[request[x].id]
      BY <1>2, OwnThread
    <3> QED BY <2>1, <3>1
  <2> QED BY <1>3, <2>1
<1>8. NoThread \in Threads
  BY DEF NoThread, Threads, None
<1> HIDE DEF Calls1
<1>9. CASE Written(p)
  <2>1. /\ Receives(p, <<>>, Receive("prefix", 2, 0))
        /\ backlog' = Append(backlog, request[p])
    BY <1>9 DEF Written
  <2>2. <<>> \in Seq(Byte)
    OBVIOUS
  <2>3. Calls1 /\ line' \in Seq(Byte)
    BY <1>2, <2>1, <2>2, ReceivesKeeps DEF Calls1
  <2> QED BY <1>4, <1>5, <2>1, <2>3
<1>10. CASE WriteFails(p)
  <2>1. /\ line' = line /\ thread' = thread
        /\ backlog' \in {backlog, Append(backlog, request[p])}
        /\ \E e \in {"ModbusTransportError", "ModbusTimeoutError"} : Fails(p, e)
    BY <1>10 DEF WriteFails
  <2>2. Calls1
    BY <1>6, <1>7, <2>1 DEF Outcomes
  <2> QED BY <1>1, <1>4, <1>5, <2>1, <2>2 DEF Line
<1>11. CASE Received(p)
  <2> DEFINE t == thread[request[p].id]
             bytes == data[p] \o t.read
  <2>1. /\ pc[p] = "receive" /\ t.left = 0 /\ backlog' = backlog
        /\ \/ /\ stage[p] = "rest" /\ Ended(p, Decode(request[p], bytes)) /\ line' = line
              /\ thread' = [thread EXCEPT ![request[p].id] = NoThread]
           \/ /\ stage[p] # "rest"
              /\ \E next \in Following(request[p], stage[p], bytes, objects[p]) :
                    Receives(p, bytes, next)
    BY <1>11 DEF Received
  <2>2. bytes \in Seq(Byte) /\ bytes # <<>>
    BY <2>1, GatheredBytes DEF Mine
  <2> HIDE DEF bytes, t
  <2>3. CASE /\ stage[p] = "rest" /\ Ended(p, Decode(request[p], bytes)) /\ line' = line
             /\ thread' = [thread EXCEPT ![request[p].id] = NoThread]
    <3>1. Decode(request[p], bytes).outcome \in Outcomes /\ Fits(Decode(request[p], bytes))
      BY <1>3, <2>2, DecodeFacts
    <3>2. Calls1
      BY <1>3, <1>7, <1>8, <2>3, <3>1, EndedKeeps DEF Calls1
    <3> QED BY <1>1, <1>5, <2>1, <2>3, <3>2 DEF Line
  <2>4. CASE /\ stage[p] # "rest"
             /\ \E next \in Following(request[p], stage[p], bytes, objects[p]) :
                   Receives(p, bytes, next)
    <3>1. PICK next \in Following(request[p], stage[p], bytes, objects[p]) :
             Receives(p, bytes, next)
      BY <2>4
    <3>2. /\ stage[p] \in Stages \ {"rest"} /\ objects[p] \in Nat
          /\ stage[p] = "object" => objects[p] > 0
      BY <1>1, <2>1, <2>4 DEF CallTypes, CallInv
    <3>3. Follows(next)
      BY <1>3, <2>2, <3>1, <3>2, FollowingFacts
    <3>4. Calls1 /\ line' \in Seq(Byte)
      BY <1>2, <2>2, <3>1, <3>3, ReceivesKeeps DEF Calls1
    <3> QED BY <1>1, <1>5, <2>1, <3>4 DEF Line
  <2> QED BY <2>1, <2>3, <2>4
<1>12. CASE ReadFails(p)
  <2>1. /\ line' = line /\ backlog' = backlog /\ Fails(p, "ModbusTransportError")
        /\ thread' = [thread EXCEPT ![request[p].id] = NoThread]
    BY <1>12 DEF ReadFails
  <2>2. Calls1
    BY <1>6, <1>7, <1>8, <2>1 DEF Outcomes
  <2> QED BY <1>1, <1>5, <2>1, <2>2 DEF Line
<1>13. CASE ReceiveTimeout(p)
  <2>1. /\ line' = line /\ backlog' = backlog /\ Fails(p, "ModbusTimeoutError")
        /\ thread' = [thread EXCEPT ![request[p].id].read = <<>>]
    BY <1>13 DEF ReceiveTimeout
  <2>2. PICK t \in Threads : thread' = [thread EXCEPT ![request[p].id] = t]
    <3> DEFINE t == [on |-> thread[request[p].id].on, left |-> thread[request[p].id].left,
                     read |-> <<>>]
    <3>1. <<>> \in Seq(Byte)
      OBVIOUS
    <3>2. t \in Threads
      BY <1>3, <3>1 DEF Threads
    <3>3. thread' = [thread EXCEPT ![request[p].id] =
                        [thread[request[p].id] EXCEPT !.read = <<>>]]
      BY <2>1
    <3>4. [thread[request[p].id] EXCEPT !.read = <<>>] = t
      BY <1>3 DEF Threads
    <3> QED BY <3>2, <3>3, <3>4
  <2>3. Calls1
    BY <1>6, <1>7, <2>1, <2>2 DEF Outcomes
  <2> QED BY <1>1, <1>5, <2>1, <2>3 DEF Line
<1> QED BY <1>9, <1>10, <1>11, <1>12, <1>13

LEMMA InitKeeps == Init => RInv
<1> SUFFICES ASSUME Init PROVE RInv
  OBVIOUS
<1>1. /\ \A T : <<>> \in Seq(T)
      /\ MaxRequests \in Nat /\ MaxOpens \in Nat
  BY RtuAssumption
<1>2. NoThread \in Threads
  BY <1>1 DEF NoThread, Threads, None
<1>3. Port /\ Line
  BY <1>1 DEF Init, Port, Line, None
<1>4. CallTypes /\ OwnIds
  BY <1>1, <1>2 DEF Init, CallTypes, OwnIds
<1>5. ASSUME NEW p \in Caller PROVE CallInv(p)
  <2>1. NoResult.outcome \in Outcomes /\ Fits(NoResult)
    BY DEF NoResult, Result, Outcomes, Fits
  <2> QED BY <2>1 DEF Init, CallInv
<1> QED BY <1>3, <1>4, <1>5 DEF RInv

LEMMA StepKeeps == RInv /\ [Next]_vars => RInv'
<1> SUFFICES ASSUME RInv, [Next]_vars PROVE RInv'
  OBVIOUS
<1>1. CASE BeginConnect \/ BeginClose \/ PortClosed \/ PortOpened \/ OpenFails
  BY <1>1, ManagerKeeps
<1>2. CASE DeviceAnswers \/ DeviceIgnores
  BY <1>2, DeviceKeeps
<1>3. CASE BytesArrive
  BY <1>3, BytesArriveKeeps
<1>4. CASE \E i \in DOMAIN thread : ThreadEnds(i)
  BY <1>4, ThreadEndsKeeps
<1>5. ASSUME NEW p \in Caller, NEW c \in Calls[p], Execute(p, c)
      PROVE  RInv'
  BY <1>5, ExecuteKeeps
<1>6. ASSUME NEW p \in Caller,
             Written(p) \/ WriteFails(p) \/ Received(p) \/ ReadFails(p) \/ ReceiveTimeout(p)
      PROVE  RInv'
  BY <1>6, CallKeeps
<1>7. CASE UNCHANGED vars
  <2>1. UNCHANGED portVars /\ UNCHANGED lineVars /\ UNCHANGED callVars /\ thread' = thread
    BY <1>7 DEF vars
  <2>2. thread' \in [1 .. MaxRequests -> Threads]
    BY <2>1 DEF RInv, CallTypes
  <2>3. CallTypes' /\ OwnIds' /\ \A x \in Caller : CallInv(x)'
    BY <2>1, <2>2, CallsStay
  <2> QED BY <2>1, <2>3 DEF RInv, Port, portVars, Line, lineVars
<1> QED BY <1>1, <1>2, <1>3, <1>4, <1>5, <1>6, <1>7 DEF Next

-----------------------------------------------------------------------------
(***************************************************************************)
(* A call on a quiet line.                                                 *)
(***************************************************************************)
\* The bytes of the answer that are known, waiting and still to come.
Heard(p) == ((data[p] \o Mine(p).read) \o line) \o sending

\* r is an answer to q, garbled or not.
Answers(q, r) == r.id = q.id /\ r.unit = q.unit /\ r.fc = q.fc /\ r.data = q.data

\* A receive of size bytes after the first n of r is one that r has there.
CountsBytes(r) == r.fc \in CountCode /\ ~r.exception
HasObjects(r) == r.fc = DeviceCode /\ ~r.exception
InStep(r, st, n, size, left) ==
    \/ st = "prefix" /\ n = 0 /\ size = 2
    \/ st = "byte_count" /\ n = 2 /\ size = 1 /\ CountsBytes(r)
    \/ st = "header" /\ n = 2 /\ size = 6 /\ HasObjects(r)
    \/ st = "object" /\ n = 8 /\ size = 2 /\ left = 1 /\ HasObjects(r)
    \/ st = "value" /\ n = 10 /\ size = 1 /\ left = 0 /\ HasObjects(r)
    \/ st = "rest" /\ n + size = FrameSize(r)

\* The answer to p's request is on its way, between the device and the client.
OnItsWay(p, r) ==
    /\ Answers(request[p], r) /\ Heard(p) = Bytes(r)
    /\ r.intact => InStep(r, stage[p], Len(data[p]), Len(Mine(p).read) + Mine(p).left, objects[p])

\* p has the line for itself, and only its answer is on it.
Calm(p) ==
    /\ handle # None
    /\ \A x \in Caller \ {p} : pc[x] = "idle"
    /\ \A i \in 1 .. MaxRequests : i # request[p].id => thread[i] = NoThread
    /\ pc[p] = "send" => line = <<>> /\ backlog = <<>> /\ sending = <<>> /\ Mine(p) = NoThread
    /\ pc[p] = "receive" =>
          /\ Mine(p).on = handle /\ (Mine(p).left > 0 => line = <<>>)
          /\ \/ backlog \in {<<>>, <<request[p]>>} /\ Heard(p) = <<>>
             \/ backlog = <<>> /\ \E r \in Response : OnItsWay(p, r)

QuietInv == quiet \in [Caller -> BOOLEAN] /\ \A p \in Caller : quiet[p] /\ pc[p] # "idle" => Calm(p)

\* A sequence is its beginning and the rest.
LEMMA Parted ==
    ASSUME NEW T, NEW s \in Seq(T), NEW n \in Nat, n <= Len(s)
    PROVE  /\ SubSeq(s, 1, n) \in Seq(T) /\ Without(s, n) \in Seq(T)
           /\ Len(SubSeq(s, 1, n)) = n
           /\ SubSeq(s, 1, n) \o Without(s, n) = s
           /\ n = Len(s) => Without(s, n) = <<>>
<1>1. /\ SubSeq(s, 1, n) \in Seq(T) /\ Without(s, n) \in Seq(T)
      /\ Len(SubSeq(s, 1, n)) = n
  BY SplitFacts
<1>2. SubSeq(s, 1, n) \o Without(s, n) = s
  <2>1. Len(s) \in Nat
    OBVIOUS
  <2>2. 1 \in 1 .. Len(s) + 1 /\ n \in 1 - 1 .. Len(s) /\ Len(s) \in n .. Len(s)
    BY <2>1
  <2>3. SubSeq(s, 1, n) \o SubSeq(s, n + 1, Len(s)) = SubSeq(s, 1, Len(s))
    BY <2>2, ConcatAdjacentSubSeq
  <2> QED BY <2>3, SubSeqFull DEF Without
<1>3. ASSUME n = Len(s) PROVE Without(s, n) = <<>>
  <2>1. n + 1 \in Int /\ Len(s) \in Int /\ Len(s) < n + 1
    BY <1>3
  <2> QED BY <2>1, SubSeqEmpty DEF Without
<1> QED BY <1>1, <1>2, <1>3

\* The bytes that begin an answer have its places, and are in place if it is
\* intact.
LEMMA BeginningFacts ==
    ASSUME NEW r \in Response, NEW s \in Seq(Byte), NEW u \in Seq(Byte), s \o u = Bytes(r)
    PROVE  /\ \A i \in DOMAIN s : s[i] = [of |-> r, at |-> i]
           /\ s # <<>> => s[1].of = r
           /\ r.intact => InPlace(s)
           /\ Len(s) = FrameSize(r) => s = Bytes(r)
<1>1. Len(s) \in Nat /\ Len(u) \in Nat /\ DOMAIN s = 1 .. Len(s)
  BY LenProperties
<1>2. FrameSize(r) \in Nat /\ Bytes(r) \in Seq(Byte)
  BY ResponseFacts, BytesFacts
<1>3. DOMAIN Bytes(r) = 1 .. FrameSize(r) /\ Len(Bytes(r)) = FrameSize(r)
  BY <1>2 DEF Bytes
<1>4. ASSUME NEW i \in 1 .. Len(s) PROVE s[i] = [of |-> r, at |-> i]
  <2>1. Len(s) + Len(u) = FrameSize(r)
    BY <1>3, ConcatProperties
  <2>2. i \in 1 .. Len(s) + Len(u) /\ i <= Len(s) /\ i \in 1 .. FrameSize(r)
    BY <1>1, <1>2, <2>1
  <2>3. Bytes(r)[i] = s[i]
    BY <2>2, ConcatProperties
  <2>4. Bytes(r)[i] = [of |-> r, at |-> i]
    BY <2>2 DEF Bytes
  <2> QED BY <2>3, <2>4
<1>5. s # <<>> => 1 \in 1 .. Len(s)
  BY <1>1
<1>6. ASSUME s # <<>> PROVE s[1].of = r
  <2>1. s[1] = [of |-> r, at |-> 1]
    BY <1>4, <1>5, <1>6
  <2> QED BY <2>1
<1>7. ASSUME r.intact PROVE InPlace(s)
  <2>1. ASSUME NEW i \in 1 .. Len(s)
        PROVE  s[i].of.intact /\ s[i] = [of |-> s[1].of, at |-> i]
    <3>1. 1 \in 1 .. Len(s)
      BY <1>1
    <3>2. s[1] = [of |-> r, at |-> 1] /\ s[i] = [of |-> r, at |-> i]
      BY <1>4, <3>1
    <3> QED BY <1>7, <3>2
  <2> QED BY <1>1, <2>1 DEF InPlace
<1>8. ASSUME Len(s) = FrameSize(r) PROVE s = Bytes(r)
  BY <1>1, <1>3, <1>4, <1>8 DEF Bytes
<1> QED BY <1>1, <1>4, <1>6, <1>7, <1>8

\* The sizes the client works out from the first bytes of an intact answer are
\* those of the answer: the receive that follows is one that it has there.
LEMMA StepFollows ==
    ASSUME NEW q \in RequestType, NEW r \in Response, Answers(q, r), r.intact,
           NEW s \in Seq(Byte), s # <<>>, s[1].of = r, InPlace(s),
           NEW st \in Stages \ {"rest"}, NEW n \in Nat, NEW size \in Nat, NEW left \in Nat,
           InStep(r, st, n, size, left), Len(s) = n + size,
           NEW next \in Following(q, st, s, left)
    PROVE  InStep(r, next.stage, Len(s), next.size, next.objects)
<1>1. /\ r.fc = q.fc /\ r.data \in 1 .. 255 /\ r.exception \in BOOLEAN
      /\ r.fc \in WriteCode \cup CountCode \cup {DeviceCode}
  BY ResponseFacts DEF Answers
<1>2. ASSUME NEW st1, NEW size1 \in Nat, NEW left1, next = Receive(st1, size1, left1),
             InStep(r, st1, Len(s), size1, left1)
      PROVE  InStep(r, next.stage, Len(s), next.size, next.objects)
  BY <1>2 DEF Receive
<1>3. ASSUME NEW m \in Nat, FrameSize(r) = Len(s) + m, next = Receive("rest", m, 0)
      PROVE  InStep(r, next.stage, Len(s), next.size, next.objects)
  <2>1. InStep(r, "rest", Len(s), m, 0)
    BY <1>3 DEF InStep
  <2> QED BY <1>2, <1>3, <2>1
<1>4. CASE st = "prefix"
  <2>1. next = AfterPrefix(q, r.exception)
    BY <1>4 DEF Following
  <2>2. Len(s) = 2
    BY <1>4 DEF InStep
  <2>3. CASE r.exception
    <3>1. next = Receive("rest", 3, 0)
      BY <2>1, <2>3 DEF AfterPrefix, RTU_EXCEPTION_RESPONSE_SIZE
    <3>2. FrameSize(r) = 2 + 3
      BY <2>3 DEF FrameSize
    <3>3. FrameSize(r) = Len(s) + 3 /\ 3 \in Nat
      BY <2>2, <3>2, Zenon
    <3> QED BY <1>3, <3>1, <3>3
  <2>4. CASE ~r.exception /\ q.fc \in WriteCode
    <3>1. PICK m \in {8, 10} : m = FixedSize(q.fc)
      BY DEF FixedSize
    <3>2. next = Receive("rest", m - 2, 0)
      BY <2>1, <2>4, <3>1 DEF AfterPrefix, WriteCode, CountCode
    <3>3. FrameSize(r) = m
      BY <1>1, <2>4, <3>1 DEF FrameSize, FixedSize, WriteCode, CountCode
    <3>4. \A k \in {8, 10} : k - 2 \in Nat /\ k = 2 + (k - 2)
      OBVIOUS
    <3>5. m - 2 \in Nat /\ FrameSize(r) = Len(s) + (m - 2)
      BY <2>2, <3>3, <3>4, Zenon
    <3> QED BY <1>3, <3>2, <3>5
  <2>5. CASE ~r.exception /\ q.fc \in CountCode
    <3>1. next = Receive("byte_count", 1, 0)
      BY <2>1, <2>5 DEF AfterPrefix, CountCode, WriteCode
    <3>2. InStep(r, "byte_count", Len(s), 1, 0)
      BY <1>1, <2>2, <2>5 DEF InStep, CountsBytes
    <3> QED BY <1>2, <3>1, <3>2
  <2>6. CASE ~r.exception /\ q.fc = DeviceCode
    <3>1. next = Receive("header", 6, 0)
      BY <2>1, <2>6 DEF AfterPrefix, CountCode, WriteCode, DeviceCode
    <3>2. InStep(r, "header", Len(s), 6, 0)
      BY <1>1, <2>2, <2>6 DEF InStep, HasObjects
    <3> QED BY <1>2, <3>1, <3>2
  <2> QED BY <1>1, <2>3, <2>4, <2>5, <2>6
<1>5. CASE st = "byte_count"
  <2>1. CountsBytes(r) /\ Len(s) = 3
    BY <1>5 DEF InStep
  <2>2. PICK m \in Nat : m = 2 * r.data
    <3>1. \A d \in 1 .. 255 : 2 * d \in Nat
      OBVIOUS
    <3> QED BY <1>1, <3>1
  <2>3. next = Receive("rest", m + 2, 0)
    BY <1>5, <2>1, <2>2 DEF Following, Last, AfterByteCount, CountsBytes
  <2>4. FrameSize(r) = 2 + 1 + m + 2
    BY <2>1, <2>2 DEF FrameSize, CountCode, CountsBytes
  <2>5. \A k \in Nat : k + 2 \in Nat /\ 2 + 1 + k + 2 = 3 + (k + 2)
    OBVIOUS
  <2>6. m + 2 \in Nat /\ FrameSize(r) = Len(s) + (m + 2)
    BY <2>1, <2>4, <2>5, Zenon
  <2> QED BY <1>3, <2>3, <2>6
<1>6. CASE st = "header"
  <2>1. HasObjects(r) /\ Len(s) = 8
    BY <1>6 DEF InStep
  <2>2. next = Receive("object", 2, 1)
    BY <1>6, <2>1 DEF Following, Last, ObjectOrCRC, HasObjects
  <2>3. InStep(r, "object", Len(s), 2, 1)
    BY <2>1 DEF InStep
  <2> QED BY <1>2, <2>2, <2>3
<1>7. CASE st = "object"
  <2>1. HasObjects(r) /\ Len(s) = 10 /\ left = 1
    BY <1>7 DEF InStep
  <2>2. next = Receive("value", 1, 0)
    BY <1>7, <2>1 DEF Following, Last, HasObjects
  <2>3. InStep(r, "value", Len(s), 1, 0)
    BY <2>1 DEF InStep
  <2> QED BY <1>2, <2>2, <2>3
<1>8. CASE st = "value"
  <2>1. HasObjects(r) /\ Len(s) = 11 /\ left = 0
    BY <1>8 DEF InStep
  <2>2. next = Receive("rest", 2, 0)
    BY <1>8, <2>1 DEF Following, ObjectOrCRC
  <2>3. FrameSize(r) = 11 + 2
    BY <2>1 DEF FrameSize, CountCode, DeviceCode, HasObjects
  <2>4. FrameSize(r) = Len(s) + 2 /\ 2 \in Nat
    BY <2>1, <2>3, Zenon
  <2> QED BY <1>3, <2>2, <2>4
<1> QED BY <1>4, <1>5, <1>6, <1>7, <1>8 DEF Stages

\* What Calm says of a call, with the types.
LEMMA CalmTypes ==
    ASSUME RInv, NEW p \in Caller, pc[p] # "idle", Calm(p)
    PROVE  /\ request[p] \in RequestType /\ request[p].id \in 1 .. MaxRequests
           /\ Mine(p) \in Threads /\ Mine(p).left \in Nat /\ Mine(p).read \in Seq(Byte)
           /\ data[p] \in Seq(Byte) /\ line \in Seq(Byte) /\ sending \in Seq(Byte)
           /\ handle \in live /\ manager = "idle" /\ objects[p] \in Nat
           /\ pc[p] \in {"send", "receive"}
           /\ pc[p] = "receive" => stage[p] \in Stages
<1>1. CallInv(p) /\ CallTypes /\ Line /\ Port
  BY DEF RInv
<1>2. request[p] \in RequestType /\ request[p].id \in 1 .. MaxRequests
  BY <1>1, RequestFacts DEF CallInv
<1>3. Mine(p) \in Threads
  BY <1>1, <1>2 DEF CallTypes, Mine
<1>4. Mine(p).left \in Nat /\ Mine(p).read \in Seq(Byte)
  BY <1>3 DEF Threads
<1>5. /\ data[p] \in Seq(Byte) /\ objects[p] \in Nat /\ pc[p] \in {"send", "receive"}
      /\ stage[p] \in Stages \cup {"none"}
  BY <1>1 DEF CallTypes
<1>6. pc[p] = "receive" => stage[p] \in Stages
  BY <1>1, <1>5 DEF CallInv
<1>7. handle \in live /\ manager = "idle"
  BY <1>1 DEF Calm, Port
<1> QED BY <1>1, <1>2, <1>3, <1>4, <1>5, <1>6, <1>7 DEF Line

\* A receive takes nothing out of the order of the bytes.
LEMMA ReceivesInOrder ==
    ASSUME RInv, NEW p \in Caller, pc[p] # "idle", Calm(p), UNCHANGED <<portVars, sending>>,
           NEW bytes \in Seq(Byte), NEW next, next.size \in Nat, Receives(p, bytes, next)
    PROVE  /\ handle' = handle /\ handle # None
           /\ \A x \in Caller \ {p} : pc'[x] = "idle"
           /\ \A i \in 1 .. MaxRequests : i # request[p].id => thread'[i] = NoThread
           /\ pc'[p] = "receive" /\ request'[p] = request[p] /\ data'[p] = bytes
           /\ stage'[p] = next.stage /\ objects'[p] = next.objects
           /\ Mine(p)'.on = handle /\ (Mine(p)'.left > 0 => line' = <<>>)
           /\ Len(Mine(p)'.read) + Mine(p)'.left = next.size
           /\ Heard(p)' = (bytes \o line) \o sending
<1> DEFINE n == AtMost(Len(line), next.size)
           t == [on |-> handle, left |-> next.size - n, read |-> SubSeq(line, 1, n)]
           d == request[p].id
<1>1. handle # None /\ CallTypes /\ handle' = handle /\ sending' = sending
  BY DEF Calm, RInv, portVars
<1>2. d \in 1 .. MaxRequests /\ line \in Seq(Byte) /\ sending \in Seq(Byte)
  BY CalmTypes
<1>3. /\ pc' = [pc EXCEPT ![p] = "receive"] /\ data' = [data EXCEPT ![p] = bytes]
      /\ stage' = [stage EXCEPT ![p] = next.stage]
      /\ objects' = [objects EXCEPT ![p] = next.objects]
      /\ thread' = [thread EXCEPT ![d] = t] /\ line' = Without(line, n)
      /\ request' = request
  BY <1>1 DEF Receives
<1>4. /\ pc'[p] = "receive" /\ request'[p] = request[p] /\ data'[p] = bytes
      /\ stage'[p] = next.stage /\ objects'[p] = next.objects
      /\ \A x \in Caller \ {p} : pc'[x] = pc[x]
  BY <1>1, <1>3 DEF CallTypes
<1>5. /\ thread'[d] = t /\ \A i \in 1 .. MaxRequests : i # d => thread'[i] = thread[i]
  <2> HIDE DEF t, d
  <2> QED BY <1>1, <1>2, <1>3 DEF CallTypes
<1>6. Mine(p)' = t
  BY <1>4, <1>5 DEF Mine
<1>7. n \in Nat /\ n <= Len(line) /\ n <= next.size /\ (n = Len(line) \/ n = next.size)
  <2>1. Len(line) \in Nat
    BY <1>2
  <2> QED BY <2>1 DEF AtMost
<1> HIDE DEF n
<1>8. /\ SubSeq(line, 1, n) \in Seq(Byte) /\ line' \in Seq(Byte)
      /\ Len(SubSeq(line, 1, n)) = n /\ SubSeq(line, 1, n) \o line' = line
      /\ n = Len(line) => line' = <<>>
  BY <1>2, <1>3, <1>7, Parted
<1>9. Mine(p)'.left > 0 => line' = <<>>
  <2>1. next.size - n > 0 => n # next.size
    BY <1>7
  <2> QED BY <1>6, <1>7, <1>8, <2>1
<1>10. Len(Mine(p)'.read) + Mine(p)'.left = next.size
  <2>1. n + (next.size - n) = next.size
    BY <1>7
  <2> QED BY <1>6, <1>8, <2>1
<1>11. Heard(p)' = (bytes \o line) \o sending
  <2>1. (bytes \o SubSeq(line, 1, n)) \o line' = bytes \o (SubSeq(line, 1, n) \o line')
    <3>1. \A a, b, c \in Seq(Byte) : (a \o b) \o c = a \o (b \o c)
      OBVIOUS
    <3> QED BY <1>8, <3>1, Zenon
  <2>2. Mine(p)'.read = SubSeq(line, 1, n)
    <3>1. t.read = SubSeq(line, 1, n)
      BY Zenon
    <3> QED BY <1>6, <3>1, Zenon
  <2>3. Heard(p)' = ((data'[p] \o Mine(p)'.read) \o line') \o sending'
    BY Zenon DEF Heard
  <2> QED BY <1>1, <1>4, <1>8, <2>1, <2>2, <2>3, Zenon
<1>12. Mine(p)'.on = handle
  BY <1>6
<1>13. \A x \in Caller \ {p} : pc'[x] = "idle"
  BY <1>4 DEF Calm
<1>14. \A i \in 1 .. MaxRequests : i # request[p].id => thread'[i] = NoThread
  BY <1>5, Zenon DEF Calm
<1> QED BY <1>1, <1>4, <1>9, <1>10, <1>11, <1>12, <1>13, <1>14, Zenon

\* A device that answers, or does not, has p's request only.
LEMMA DeviceKeepsCalm ==
    ASSUME RInv, NEW p \in Caller, pc[p] # "idle", Calm(p), DeviceAnswers \/ DeviceIgnores
    PROVE  Calm(p)'
<1>1. /\ UNCHANGED portVars /\ UNCHANGED callVars /\ UNCHANGED thread /\ line' = line
      /\ backlog # <<>> /\ backlog' = Tail(backlog)
  BY DEF DeviceAnswers, DeviceIgnores
<1>2. /\ pc' = pc /\ request' = request /\ data' = data /\ stage' = stage
      /\ objects' = objects /\ handle' = handle /\ thread' = thread
  BY <1>1 DEF portVars, callVars
<1>3. Mine(p)' = Mine(p)
  BY <1>2 DEF Mine
<1>4. pc[p] = "receive"
  BY <1>1, CalmTypes DEF Calm
<1>5. backlog = <<request[p]>> /\ Heard(p) = <<>>
  BY <1>1, <1>4 DEF Calm
<1>6. /\ data[p] \in Seq(Byte) /\ Mine(p).read \in Seq(Byte) /\ line \in Seq(Byte)
      /\ sending \in Seq(Byte) /\ request[p] \in RequestType /\ Mine(p).left \in Nat
      /\ stage[p] \in Stages
  BY <1>4, CalmTypes
<1>7. data[p] = <<>> /\ Mine(p).read = <<>> /\ line = <<>> /\ sending = <<>>
  <2>1. \A s, t \in Seq(Byte) : s \o t \in Seq(Byte)
    OBVIOUS
  <2>2. \A s, t \in Seq(Byte) : s \o t = <<>> => s = <<>> /\ t = <<>>
    BY ConcatSimplifications
  <2>3. /\ data[p] \o Mine(p).read \in Seq(Byte)
        /\ (data[p] \o Mine(p).read) \o line \in Seq(Byte)
    BY <1>6, <2>1, Zenon
  <2>4. ((data[p] \o Mine(p).read) \o line) \o sending = <<>>
    BY <1>5, Zenon DEF Heard
  <2> QED BY <1>6, <2>2, <2>3, <2>4, Zenon
<1>8. backlog' = <<>> /\ Head(backlog) = request[p]
  BY <1>1, <1>5
<1>9. ASSUME sending' \in Seq(Byte) PROVE Heard(p)' = sending'
  <2>1. Heard(p)' = ((<<>> \o <<>>) \o <<>>) \o sending'
    BY <1>1, <1>2, <1>3, <1>7, Zenon DEF Heard
  <2>2. <<>> \in Seq(Byte)
    OBVIOUS
  <2>3. <<>> \o <<>> = <<>> /\ <<>> \o sending' = sending'
    BY <1>9, <2>2, ConcatEmptySeq
  <2> QED BY <2>1, <2>3, Zenon
<1>10. CASE DeviceIgnores
  <2>1. sending' = <<>> /\ <<>> \in Seq(Byte)
    BY <1>7, <1>10 DEF DeviceIgnores
  <2>2. Heard(p)' = <<>>
    BY <1>9, <2>1
  <2> QED BY <1>1, <1>2, <1>3, <1>4, <1>8, <2>2 DEF Calm
<1>11. CASE DeviceAnswers
  <2>1. PICK e \in BOOLEAN, i \in BOOLEAN :
           sending' = Bytes([id |-> request[p].id, unit |-> request[p].unit,
                             fc |-> request[p].fc, data |-> request[p].data,
                             exception |-> e, intact |-> i])
    BY <1>8, <1>11 DEF DeviceAnswers
  <2>2. PICK r \in Response :
           r = [id |-> request[p].id, unit |-> request[p].unit, fc |-> request[p].fc,
                data |-> request[p].data, exception |-> e, intact |-> i]
    <3>1. [id |-> request[p].id, unit |-> request[p].unit, fc |-> request[p].fc,
           data |-> request[p].data, exception |-> e, intact |-> i] \in Response
      BY <1>6 DEF Response
    <3> QED BY <3>1
  <2>3. Answers(request[p], r)
    BY <2>2 DEF Answers
  <2>4. sending' = Bytes(r)
    BY <2>1, <2>2
  <2>5. Heard(p)' = Bytes(r)
    BY <1>9, <2>2, <2>4, BytesFacts
  <2>6. Begun(Mine(p), stage[p], data[p])
    BY <1>4 DEF RInv, CallInv, Mine
  <2>7. stage[p] = "prefix" /\ Len(Mine(p).read) + Mine(p).left = 2 /\ Len(data[p]) = 0
    BY <1>7, <2>6 DEF Begun
  <2>8. InStep(r, stage[p], Len(data[p]), Len(Mine(p).read) + Mine(p).left, objects[p])
    BY <2>7, Zenon DEF InStep
  <2>9. OnItsWay(p, r)'
    <3>1. /\ request'[p] = request[p] /\ stage'[p] = stage[p] /\ data'[p] = data[p]
          /\ objects'[p] = objects[p]
      BY <1>2
    <3> QED BY <1>3, <2>3, <2>5, <2>8, <3>1, Zenon DEF OnItsWay
  <2>10. \E rr \in Response : OnItsWay(p, rr)'
    BY <2>2, <2>9, Zenon
  <2>11. /\ handle' # None
         /\ \A x \in Caller \ {p} : pc'[x] = "idle"
         /\ \A j \in 1 .. MaxRequests : j # request'[p].id => thread'[j] = NoThread
         /\ pc'[p] = "receive" /\ Mine(p)'.on = handle' /\ line' = <<>>
    BY <1>1, <1>2, <1>3, <1>4, <1>7, Zenon DEF Calm
  <2> QED BY <1>8, <2>10, <2>11, Zenon DEF Calm
<1> QED BY <1>10, <1>11

\* The end of a part of the bytes may be told apart there or after it.
Regroups(x, y, a, b) == (x \o (y \o a)) \o b = (x \o y) \o (a \o b)

LEMMA Regrouped == \A x, y, a, b \in Seq(Byte) : Regroups(x, y, a, b)
<1> SUFFICES ASSUME NEW x \in Seq(Byte), NEW y \in Seq(Byte), NEW a \in Seq(Byte),
                    NEW b \in Seq(Byte)
             PROVE  Regroups(x, y, a, b)
  OBVIOUS
<1>1. \A s, t, u \in Seq(Byte) : (s \o t) \o u = s \o (t \o u)
  OBVIOUS
<1>2. x \o y \in Seq(Byte)
  BY ConcatProperties
<1>3. x \o (y \o a) = (x \o y) \o a
  BY <1>1, Zenon
<1>4. ((x \o y) \o a) \o b = (x \o y) \o (a \o b)
  BY <1>1, <1>2, Zenon
<1> QED BY <1>3, <1>4, Zenon DEF Regroups

\* The bytes of an answer stay in their order wherever they lie.
LEMMA StaysOnItsWay ==
    ASSUME NEW p \in Caller, NEW r, OnItsWay(p, r), Heard(p)' = Heard(p),
           request'[p] = request[p], stage'[p] = stage[p], data'[p] = data[p],
           objects'[p] = objects[p],
           Len(Mine(p)'.read) + Mine(p)'.left = Len(Mine(p).read) + Mine(p).left
    PROVE  OnItsWay(p, r)'
BY Zenon DEF OnItsWay

\* Bytes arrive at p's thread, or where it takes them from next.
LEMMA BytesArriveKeepsCalm ==
    ASSUME RInv, NEW p \in Caller, pc[p] # "idle", Calm(p), BytesArrive
    PROVE  Calm(p)'
<1>1. UNCHANGED portVars /\ UNCHANGED callVars /\ backlog' = backlog /\ sending # <<>>
  BY DEF BytesArrive
<1>2. /\ pc' = pc /\ request' = request /\ data' = data /\ stage' = stage
      /\ objects' = objects /\ handle' = handle
  BY <1>1 DEF portVars, callVars
<1>3. pc[p] = "receive"
  BY <1>1, CalmTypes DEF Calm
<1>4. /\ data[p] \in Seq(Byte) /\ Mine(p).read \in Seq(Byte) /\ line \in Seq(Byte)
      /\ sending \in Seq(Byte) /\ request[p].id \in 1 .. MaxRequests
      /\ Mine(p) \in Threads /\ Mine(p).left \in Nat /\ handle \in live
      /\ thread \in [1 .. MaxRequests -> Threads]
  BY <1>3, CalmTypes DEF RInv, CallTypes
<1>5. /\ handle # None /\ \A x \in Caller \ {p} : pc[x] = "idle"
      /\ \A j \in 1 .. MaxRequests : j # request[p].id => thread[j] = NoThread
      /\ Mine(p).on = handle /\ (Mine(p).left > 0 => line = <<>>)
      /\ \/ backlog \in {<<>>, <<request[p]>>} /\ Heard(p) = <<>>
         \/ backlog = <<>> /\ \E r \in Response : OnItsWay(p, r)
  BY <1>3 DEF Calm
<1>6. ASSUME Heard(p)' = Heard(p), Mine(p)'.on = handle, Mine(p)'.left > 0 => line' = <<>>,
             Len(Mine(p)'.read) + Mine(p)'.left = Len(Mine(p).read) + Mine(p).left,
             \A j \in 1 .. MaxRequests : j # request[p].id => thread'[j] = thread[j]
      PROVE  Calm(p)'
  <2>1. /\ handle' # None
        /\ \A x \in Caller \ {p} : pc'[x] = "idle"
        /\ \A j \in 1 .. MaxRequests : j # request'[p].id => thread'[j] = NoThread
        /\ pc'[p] = "receive" /\ Mine(p)'.on = handle'
    BY <1>2, <1>3, <1>5, <1>6, Zenon
  <2>2. \A r \in Response : OnItsWay(p, r) => OnItsWay(p, r)'
    BY <1>2, <1>6, StaysOnItsWay
  <2>3. \/ backlog' \in {<<>>, <<request'[p]>>} /\ Heard(p)' = <<>>
        \/ backlog' = <<>> /\ \E r \in Response : OnItsWay(p, r)'
    BY <1>1, <1>2, <1>5, <1>6, <2>2, Zenon
  <2> QED BY <1>6, <2>1, <2>3, Zenon DEF Calm
<1>7. PICK n \in {Len(sending)} \cup {n \in 1 .. Len(sending) : sending[n].at \in Pause} :
         \/ /\ Reading = {}
            /\ line' = IF live = {} THEN line ELSE line \o SubSeq(sending, 1, n)
            /\ sending' = Without(sending, n) /\ thread' = thread
         \/ \E i \in Reading :
               LET m == AtMost(n, thread[i].left)
               IN  /\ thread' = [thread EXCEPT ![i].left = @ - m,
                         ![i].read = IF Awaited(i) THEN @ \o SubSeq(sending, 1, m) ELSE @]
                   /\ sending' = Without(sending, m) /\ line' = line
  BY DEF BytesArrive
<1>8. n \in Nat /\ n <= Len(sending) /\ Len(sending) \in Nat
  BY <1>4
<1> DEFINE rd == Mine(p).read
<1>9. /\ \A s, t \in Seq(Byte) : s \o t \in Seq(Byte)
      /\ \A s \in Seq(Byte) : s \o <<>> = s
  BY ConcatProperties, ConcatEmptySeq
<1>10. data[p] \in Seq(Byte) /\ rd \in Seq(Byte) /\ line \in Seq(Byte)
  BY <1>4, Zenon
<1>11. Heard(p)' = ((data'[p] \o Mine(p)'.read) \o line') \o sending'
  BY Zenon DEF Heard
<1>12. Heard(p) = ((data[p] \o rd) \o line) \o sending
  BY Zenon DEF Heard
<1>13. CASE /\ Reading = {}
            /\ line' = IF live = {} THEN line ELSE line \o SubSeq(sending, 1, n)
            /\ sending' = Without(sending, n) /\ thread' = thread
  <2>1. Mine(p)' = Mine(p)
    BY <1>2, <1>13 DEF Mine
  <2>2. ~ (Mine(p).left > 0)
    <3>1. DOMAIN thread = 1 .. MaxRequests
      BY <1>4
    <3>2. request[p].id \notin Reading
      BY <1>13
    <3> QED BY <1>4, <1>5, <3>1, <3>2, Zenon DEF Reading, Mine
  <2>3. /\ SubSeq(sending, 1, n) \in Seq(Byte) /\ sending' \in Seq(Byte)
        /\ SubSeq(sending, 1, n) \o sending' = sending
    BY <1>4, <1>8, <1>13, Parted
  <2>4. line' = line \o SubSeq(sending, 1, n)
    BY <1>4, <1>13
  <2>5. Heard(p)' = ((data[p] \o rd) \o (line \o SubSeq(sending, 1, n))) \o sending'
    BY <1>2, <1>11, <2>1, <2>4, Zenon
  <2>6. data[p] \o rd \in Seq(Byte)
    BY <1>4, <1>9, Zenon
  <2>7. ((data[p] \o rd) \o (line \o SubSeq(sending, 1, n))) \o sending'
          = ((data[p] \o rd) \o line) \o (SubSeq(sending, 1, n) \o sending')
    <3>1. SubSeq(sending, 1, n) \in Seq(Byte) /\ sending' \in Seq(Byte)
      BY <2>3
    <3>2. Regroups(data[p] \o rd, line, SubSeq(sending, 1, n), sending')
      BY <1>10, <2>6, <3>1, Regrouped, Zenon
    <3> QED BY <3>2, Zenon DEF Regroups
  <2>8. Heard(p)' = Heard(p)
    BY <1>12, <2>3, <2>5, <2>7, Zenon
  <2> QED BY <1>5, <1>6, <1>13, <2>1, <2>2, <2>8, Zenon
<1>14. ASSUME NEW i \in Reading, NEW m, m = AtMost(n, thread[i].left),
              thread' = [thread EXCEPT ![i].left = @ - m,
                           ![i].read = IF Awaited(i) THEN @ \o SubSeq(sending, 1, m) ELSE @],
              sending' = Without(sending, m), line' = line
       PROVE  Calm(p)'
  <2>1. i \in 1 .. MaxRequests /\ thread[i].left > 0
    BY <1>4, <1>14 DEF Reading
  <2>2. i = request[p].id
    <3>1. ~ (NoThread.left > 0)
      BY DEF NoThread
    <3> QED BY <1>5, <2>1, <3>1
  <2>3. Awaited(i)
    BY <1>3, <2>2 DEF Awaited
  <2>4. thread[i] = Mine(p) /\ line = <<>>
    <3>1. thread[i] = Mine(p)
      BY <2>2 DEF Mine
    <3> QED BY <1>5, <2>1, <3>1
  <2>5. m \in Nat /\ m <= Len(sending) /\ Mine(p).left - m \in Nat
    BY <1>4, <1>8, <1>14, <2>4 DEF AtMost
  <2>6. /\ SubSeq(sending, 1, m) \in Seq(Byte) /\ sending' \in Seq(Byte)
        /\ Len(SubSeq(sending, 1, m)) = m
        /\ SubSeq(sending, 1, m) \o sending' = sending
    BY <1>4, <1>14, <2>5, Parted
  <2> DEFINE more == rd \o SubSeq(sending, 1, m)
  <2>7. /\ Mine(p)'.on = handle /\ Mine(p)'.left = Mine(p).left - m /\ Mine(p)'.read = more
        /\ \A j \in 1 .. MaxRequests : j # i => thread'[j] = thread[j]
    <3> DEFINE first == [thread EXCEPT ![i].left = @ - m]
    <3>1. /\ DOMAIN first = 1 .. MaxRequests
          /\ first[i] = [on |-> Mine(p).on, left |-> Mine(p).left - m, read |-> rd]
          /\ \A j \in 1 .. MaxRequests : j # i => first[j] = thread[j]
      BY <1>4, <2>1, <2>4 DEF Threads
    <3> HIDE DEF more
    <3>2. thread' = [first EXCEPT ![i].read = more]
      BY <1>14, <2>1, <2>3, <2>4, <3>1 DEF more
    <3> HIDE DEF first
    <3>3. thread'[i] = [on |-> Mine(p).on, left |-> Mine(p).left - m, read |-> more]
      BY <2>1, <3>1, <3>2
    <3>4. Mine(p)' = thread'[i]
      BY <1>2, <2>2 DEF Mine
    <3>5. \A j \in 1 .. MaxRequests : j # i => thread'[j] = thread[j]
      BY <3>1, <3>2
    <3> QED BY <1>5, <3>3, <3>4, <3>5
  <2>8. Len(more) + (Mine(p).left - m) = Len(rd) + Mine(p).left
    <3>1. Len(more) = Len(rd) + m /\ Len(rd) \in Nat
      BY <1>4, <2>6, ConcatProperties
    <3>2. \A a, b \in Nat : (a + m) + (b - m) = a + b
      BY <2>5
    <3> HIDE DEF more, rd
    <3> QED BY <1>4, <3>1, <3>2, Zenon
  <2> HIDE DEF more
  <2>9. Heard(p)' = Heard(p)
    <3>1. Heard(p)' = ((data[p] \o (rd \o SubSeq(sending, 1, m))) \o <<>>) \o sending'
      BY <1>2, <1>14, <1>11, <2>4, <2>7, Zenon DEF more
    <3>2. Heard(p) = ((data[p] \o rd) \o <<>>) \o sending
      BY <1>12, <2>4, Zenon
    <3>3. /\ rd \o SubSeq(sending, 1, m) \in Seq(Byte) /\ data[p] \o rd \in Seq(Byte)
          /\ data[p] \o (rd \o SubSeq(sending, 1, m)) \in Seq(Byte)
      BY <1>4, <1>9, <2>6, Zenon
    <3>4. Heard(p)' = (data[p] \o (rd \o SubSeq(sending, 1, m))) \o sending'
      BY <1>9, <3>1, <3>3, Zenon
    <3>5. Heard(p) = (data[p] \o rd) \o sending
      BY <1>9, <3>2, <3>3, Zenon
    <3>6. (data[p] \o (rd \o SubSeq(sending, 1, m))) \o sending'
            = (data[p] \o rd) \o (SubSeq(sending, 1, m) \o sending')
      <4>1. SubSeq(sending, 1, m) \in Seq(Byte) /\ sending' \in Seq(Byte)
        BY <2>6
      <4>2. Regroups(data[p], rd, SubSeq(sending, 1, m), sending')
        BY <1>10, <4>1, Regrouped, Zenon
      <4> QED BY <4>2, Zenon DEF Regroups
    <3> QED BY <2>6, <3>4, <3>5, <3>6, Zenon
  <2> QED BY <1>6, <1>14, <2>2, <2>4, <2>7, <2>8, <2>9, Zenon
<1> QED BY <1>7, <1>13, <1>14

\* The request goes out on a line that holds nothing.
LEMMA WrittenKeepsCalm ==
    ASSUME RInv, NEW p \in Caller, Calm(p), Written(p)
    PROVE  Calm(p)'
<1>1. /\ pc[p] = "send" /\ backlog' = Append(backlog, request[p])
      /\ Receives(p, <<>>, Receive("prefix", 2, 0))
      /\ UNCHANGED portVars /\ sending' = sending
  BY DEF Written, CallLeaves
<1>2. line = <<>> /\ backlog = <<>> /\ sending = <<>>
  BY <1>1 DEF Calm
<1> DEFINE next == Receive("prefix", 2, 0)
<1>3. <<>> \in Seq(Byte) /\ next.size \in Nat
  BY DEF Receive
<1>4. /\ handle' = handle /\ handle # None
      /\ \A x \in Caller \ {p} : pc'[x] = "idle"
      /\ \A i \in 1 .. MaxRequests : i # request[p].id => thread'[i] = NoThread
      /\ pc'[p] = "receive" /\ request'[p] = request[p]
      /\ Mine(p)'.on = handle /\ (Mine(p)'.left > 0 => line' = <<>>)
      /\ Heard(p)' = (<<>> \o line) \o sending
  BY <1>1, <1>3, ReceivesInOrder
<1>5. Heard(p)' = <<>>
  <2>1. <<>> \o <<>> = <<>>
    BY <1>3, ConcatEmptySeq
  <2> QED BY <1>2, <1>4, <2>1
<1>6. backlog' = <<request'[p]>>
  BY <1>1, <1>2, <1>4
<1> QED BY <1>4, <1>5, <1>6, Zenon DEF Calm

\* An answer whose bytes a receive has returned, and what they are of it.
LEMMA ReceivedPart ==
    ASSUME RInv, NEW p \in Caller, pc[p] = "receive", Calm(p), Mine(p).left = 0
    PROVE  LET s == data[p] \o Mine(p).read
           IN  /\ backlog = <<>>
               /\ \E r \in Response :
                     /\ OnItsWay(p, r) /\ s[1].of = r /\ (r.intact => InPlace(s))
                     /\ Len(s) = FrameSize(r) => s = Bytes(r)
                     /\ \A i \in DOMAIN data[p] : data[p][i].of = r
<1> DEFINE s == data[p] \o Mine(p).read
<1>1. s \in Seq(Byte) /\ s # <<>>
  BY GatheredBytes
<1>2. data[p] \in Seq(Byte) /\ Mine(p).read \in Seq(Byte) /\ line \in Seq(Byte)
      /\ sending \in Seq(Byte)
  BY CalmTypes
<1>3. Heard(p) = (s \o line) \o sending
  BY Zenon DEF Heard
<1> HIDE DEF s
<1>4. Heard(p) = s \o (line \o sending) /\ line \o sending \in Seq(Byte)
  <2>1. \A t, u, v \in Seq(Byte) : (t \o u) \o v = t \o (u \o v)
    OBVIOUS
  <2>2. line \o sending \in Seq(Byte)
    BY <1>2, ConcatProperties
  <2> QED BY <1>1, <1>2, <1>3, <2>1, <2>2, Zenon
<1>5. Heard(p) # <<>>
  <2>1. \A t, u \in Seq(Byte) : t \o u = <<>> => t = <<>> /\ u = <<>>
    BY ConcatSimplifications
  <2> QED BY <1>1, <1>4, <2>1, Zenon
<1>6. backlog = <<>> /\ \E r \in Response : OnItsWay(p, r)
  BY <1>5 DEF Calm
<1>7. PICK r \in Response : OnItsWay(p, r)
  BY <1>6
<1>8. s \o (line \o sending) = Bytes(r)
  BY <1>4, <1>7 DEF OnItsWay
<1>9. /\ s[1].of = r /\ (r.intact => InPlace(s)) /\ (Len(s) = FrameSize(r) => s = Bytes(r))
  BY <1>1, <1>4, <1>8, BeginningFacts
<1>10. ASSUME NEW i \in DOMAIN data[p] PROVE data[p][i].of = r
  <2>1. data[p] \o (Mine(p).read \o (line \o sending)) = Bytes(r)
    <3>1. s \o (line \o sending) = data[p] \o (Mine(p).read \o (line \o sending))
      <4>1. \A x, y, z \in Seq(Byte) : (x \o y) \o z = x \o (y \o z)
        OBVIOUS
      <4> QED BY <1>2, <1>4, <4>1, Zenon DEF s
    <3> QED BY <1>8, <3>1
  <2>2. Mine(p).read \o (line \o sending) \in Seq(Byte)
    BY <1>2, <1>4, ConcatProperties
  <2>3. data[p][i] = [of |-> r, at |-> i]
    BY <1>2, <2>1, <2>2, BeginningFacts
  <2> QED BY <2>3
<1> QED BY <1>6, <1>7, <1>9, <1>10, Zenon DEF s

\* A receive that is followed by another: by the one the answer has there.
LEMMA ReceivedKeepsCalm ==
    ASSUME RInv, NEW p \in Caller, Calm(p), Received(p), pc'[p] # "idle"
    PROVE  Calm(p)'
<1> DEFINE s == data[p] \o Mine(p).read
<1>1. /\ pc[p] = "receive" /\ Mine(p).left = 0 /\ backlog' = backlog
      /\ UNCHANGED portVars /\ sending' = sending
  BY DEF Received, CallLeaves, Mine
<1>2. pc' # [pc EXCEPT ![p] = "idle"]
  BY DEF RInv, CallTypes
<1>3. /\ stage[p] # "rest"
      /\ \E next \in Following(request[p], stage[p], s, objects[p]) : Receives(p, s, next)
  BY <1>2 DEF Received, Ended, Mine
<1>4. PICK next \in Following(request[p], stage[p], s, objects[p]) : Receives(p, s, next)
  BY <1>3
<1>5. s \in Seq(Byte) /\ s # <<>> /\ Len(s) = Len(data[p]) + Len(Mine(p).read)
  BY <1>1, GatheredBytes
<1>6. /\ request[p] \in RequestType /\ stage[p] \in Stages \ {"rest"}
      /\ objects[p] \in Nat /\ (stage[p] = "object" => objects[p] > 0)
      /\ Mine(p).read \in Seq(Byte) /\ data[p] \in Seq(Byte)
  BY <1>1, <1>3, CalmTypes DEF RInv, CallInv
<1>7. PICK r \in Response :
         /\ OnItsWay(p, r) /\ s[1].of = r /\ (r.intact => InPlace(s))
  BY <1>1, ReceivedPart
<1>8. backlog = <<>>
  BY <1>1, ReceivedPart
<1>9. Heard(p) = (s \o line) \o sending
  BY Zenon DEF Heard
<1> HIDE DEF s
<1>10. next.size \in Nat
  BY <1>5, <1>6, FollowingFacts DEF Follows
<1>11. /\ handle' = handle /\ handle # None
       /\ \A x \in Caller \ {p} : pc'[x] = "idle"
       /\ \A i \in 1 .. MaxRequests : i # request[p].id => thread'[i] = NoThread
       /\ pc'[p] = "receive" /\ request'[p] = request[p] /\ data'[p] = s
       /\ stage'[p] = next.stage /\ objects'[p] = next.objects
       /\ Mine(p)'.on = handle /\ (Mine(p)'.left > 0 => line' = <<>>)
       /\ Len(Mine(p)'.read) + Mine(p)'.left = next.size
       /\ Heard(p)' = (s \o line) \o sending
  BY <1>1, <1>4, <1>5, <1>10, ReceivesInOrder
<1>12. ASSUME r.intact
       PROVE  InStep(r, next.stage, Len(s), next.size, next.objects)
  <2>1. /\ InStep(r, stage[p], Len(data[p]), Len(Mine(p).read) + Mine(p).left, objects[p])
        /\ Answers(request[p], r)
    BY <1>7, <1>12 DEF OnItsWay
  <2>2. PICK m \in Nat, n \in Nat : m = Len(Mine(p).read) /\ n = Len(data[p])
    BY <1>6
  <2>3. Len(Mine(p).read) + Mine(p).left = m
    <3>1. m + 0 = m
      OBVIOUS
    <3> QED BY <1>1, <2>2, <3>1
  <2>4. InStep(r, stage[p], n, m, objects[p]) /\ Len(s) = n + m
    BY <1>5, <2>1, <2>2, <2>3, Zenon
  <2> QED BY <1>4, <1>5, <1>6, <1>7, <1>12, <2>1, <2>4, StepFollows
<1>13. OnItsWay(p, r)'
  <2>1. Answers(request'[p], r) /\ Heard(p)' = Bytes(r)
    BY <1>7, <1>9, <1>11, Zenon DEF OnItsWay
  <2>2. r.intact => InStep(r, stage'[p], Len(data'[p]),
                           Len(Mine(p)'.read) + Mine(p)'.left, objects'[p])
    BY <1>11, <1>12, Zenon
  <2> QED BY <2>1, <2>2, Zenon DEF OnItsWay
<1> QED BY <1>1, <1>8, <1>11, <1>13, Zenon DEF Calm

\* A step of a call leaves what the other callers await.
LEMMA OnlyItsOwn ==
    ASSUME RInv, NEW x \in Caller,
           Written(x) \/ WriteFails(x) \/ Received(x) \/ ReadFails(x) \/ ReceiveTimeout(x)
    PROVE  quiet' = quiet /\ pc[x] # "idle" /\ \A p \in Caller \ {x} : pc'[p] = pc[p]
<1>1. quiet' = quiet /\ pc[x] # "idle"
  BY DEF Written, WriteFails, Received, ReadFails, ReceiveTimeout, CallLeaves
<1>2. \E v \in {"idle", "receive"} : pc' = [pc EXCEPT ![x] = v]
  <2>1. ASSUME NEW bytes, NEW next, Receives(x, bytes, next)
        PROVE  \E v \in {"idle", "receive"} : pc' = [pc EXCEPT ![x] = v]
    BY <2>1 DEF Receives, Fails, Ended
  <2>2. CASE Written(x)
    BY <2>1, <2>2 DEF Written
  <2>3. CASE Received(x)
    BY <2>1, <2>3 DEF Received, Ended
  <2>4. CASE WriteFails(x) \/ ReadFails(x) \/ ReceiveTimeout(x)
    BY <2>4 DEF WriteFails, ReadFails, ReceiveTimeout, Fails, Ended
  <2> QED BY <2>2, <2>3, <2>4
<1> QED BY <1>1, <1>2 DEF RInv, CallTypes

\* A call begins on a quiet line.
LEMMA ExecuteIsCalm ==
    ASSUME RInv, NEW p \in Caller, NEW c \in Calls[p], Execute(p, c), QuietLine,
           pc'[p] # "idle"
    PROVE  Calm(p)'
<1>1. /\ pc \in [Caller -> {"idle", "send", "receive"}] /\ DOMAIN request = Caller
      /\ issued \in Nat /\ issued < MaxRequests /\ issued' = issued + 1
      /\ UNCHANGED portVars /\ UNCHANGED lineVars /\ thread' = thread
      /\ DOMAIN thread = 1 .. MaxRequests
  BY RtuAssumption DEF RInv, CallTypes, Execute
<1>2. handle # None
  BY <1>1 DEF Execute, Fails, Ended
<1> DEFINE q == [id |-> issued', unit |-> c.unit, fc |-> c.fc, data |-> c.data]
<1>3. pc' = [pc EXCEPT ![p] = "send"] /\ request' = [request EXCEPT ![p] = q]
  BY <1>2 DEF Execute
<1>4. request'[p].id = issued' /\ pc'[p] = "send" /\ \A x \in Caller \ {p} : pc'[x] = pc[x]
  BY <1>1, <1>3
<1>5. issued' \in 1 .. MaxRequests
  BY <1>1, RtuAssumption
<1>6. \A i \in 1 .. MaxRequests : thread'[i] = NoThread
  BY <1>1 DEF QuietLine
<1>7. /\ line' = <<>> /\ backlog' = <<>> /\ sending' = <<>> /\ handle' # None
  BY <1>1, <1>2 DEF QuietLine, lineVars, portVars
<1>8. Mine(p)' = NoThread
  BY <1>4, <1>5, <1>6, Zenon DEF Mine
<1>9. \A x \in Caller \ {p} : pc'[x] = "idle"
  BY <1>4 DEF QuietLine
<1> QED BY <1>4, <1>6, <1>7, <1>8, <1>9 DEF Calm

\* Nobody calls at first, and every step keeps the line to the quiet call.
LEMMA QuietInit == Init => QuietInv
BY DEF Init, QuietInv

LEMMA QuietKeeps == RInv /\ QuietInv /\ [Next]_vars => QuietInv'
<1> SUFFICES ASSUME RInv, QuietInv, [Next]_vars PROVE QuietInv'
  OBVIOUS
<1>1. quiet \in [Caller -> BOOLEAN] /\ pc \in [Caller -> {"idle", "send", "receive"}]
  BY DEF QuietInv, RInv, CallTypes
<1>2. ASSUME quiet' = quiet, \A p \in Caller : quiet[p] /\ pc'[p] # "idle" => Calm(p)'
      PROVE  QuietInv'
  BY <1>1, <1>2 DEF QuietInv
<1>3. CASE BeginConnect \/ BeginClose
  <2>1. quiet' = [p \in Caller |-> FALSE]
    BY <1>3 DEF BeginConnect, BeginClose, NobodyQuiet
  <2> QED BY <2>1 DEF QuietInv
<1>4. CASE PortClosed \/ PortOpened \/ OpenFails
  <2>1. quiet' = quiet /\ pc' = pc /\ manager # "idle"
    BY <1>4 DEF PortClosed, PortOpened, OpenFails, callVars
  <2>2. \A p \in Caller : ~ (quiet[p] /\ pc[p] # "idle")
    BY <2>1, CalmTypes DEF QuietInv
  <2> QED BY <1>2, <2>1, <2>2
<1>5. CASE DeviceAnswers \/ DeviceIgnores
  <2>1. quiet' = quiet /\ pc' = pc
    BY <1>5 DEF DeviceAnswers, DeviceIgnores, callVars
  <2>2. ASSUME NEW p \in Caller, quiet[p], pc'[p] # "idle" PROVE Calm(p)'
    BY <1>5, <2>1, <2>2, DeviceKeepsCalm DEF QuietInv
  <2> QED BY <1>2, <2>1, <2>2
<1>6. CASE BytesArrive
  <2>1. quiet' = quiet /\ pc' = pc
    BY <1>6 DEF BytesArrive, callVars
  <2>2. ASSUME NEW p \in Caller, quiet[p], pc'[p] # "idle" PROVE Calm(p)'
    BY <1>6, <2>1, <2>2, BytesArriveKeepsCalm DEF QuietInv
  <2> QED BY <1>2, <2>1, <2>2
<1>7. ASSUME NEW i \in DOMAIN thread, ThreadEnds(i)
      PROVE  QuietInv'
  <2>1. quiet' = quiet /\ pc' = pc /\ thread[i] # NoThread /\ ~ Awaited(i)
    BY <1>7 DEF ThreadEnds, callVars
  <2>2. ASSUME NEW p \in Caller, quiet[p], pc[p] # "idle" PROVE FALSE
    <3>1. Calm(p) /\ i \in 1 .. MaxRequests /\ pc[p] \in {"send", "receive"}
      BY <1>1, <2>2 DEF QuietInv, RInv, CallTypes
    <3>2. i = request[p].id
      BY <2>1, <3>1 DEF Calm
    <3>3. pc[p] = "send"
      BY <2>1, <3>1, <3>2 DEF Awaited
    <3> QED BY <2>1, <3>1, <3>2, <3>3 DEF Calm, Mine
  <2> QED BY <1>2, <2>1, <2>2
<1>8. ASSUME NEW x \in Caller, NEW c \in Calls[x], Execute(x, c)
      PROVE  QuietInv'
  <2>1. quiet' = [p \in Caller |-> p = x /\ QuietLine]
    BY <1>8 DEF Execute
  <2>2. ASSUME NEW p \in Caller, quiet'[p], pc'[p] # "idle" PROVE Calm(p)'
    <3>1. p = x /\ QuietLine
      BY <2>1, <2>2
    <3> QED BY <1>8, <2>2, <3>1, ExecuteIsCalm
  <2> QED BY <2>1, <2>2 DEF QuietInv
<1>9. ASSUME NEW x \in Caller,
             Written(x) \/ WriteFails(x) \/ Received(x) \/ ReadFails(x) \/ ReceiveTimeout(x)
      PROVE  QuietInv'
  <2>1. quiet' = quiet /\ pc[x] # "idle" /\ \A p \in Caller \ {x} : pc'[p] = pc[p]
    BY <1>1, <1>9, OnlyItsOwn
  <2>2. ASSUME NEW p \in Caller, quiet[p], pc'[p] # "idle" PROVE Calm(p)'
    <3>1. Calm(p) /\ p = x
      <4>1. pc[p] # "idle"
        BY <2>1, <2>2
      <4>2. Calm(p)
        BY <2>2, <4>1 DEF QuietInv
      <4> QED BY <2>1, <4>2 DEF Calm
    <3>2. CASE Written(x)
      BY <3>1, <3>2, WrittenKeepsCalm
    <3>3. CASE Received(x)
      BY <2>2, <3>1, <3>3, ReceivedKeepsCalm
    <3>4. CASE WriteFails(x) \/ ReadFails(x) \/ ReceiveTimeout(x)
      BY <1>1, <2>2, <3>1, <3>4 DEF WriteFails, ReadFails, ReceiveTimeout, Fails, Ended
    <3> QED BY <1>9, <3>2, <3>3, <3>4
  <2> QED BY <1>2, <2>1, <2>2
<1>10. CASE UNCHANGED vars
  <2>1. /\ quiet' = quiet /\ pc' = pc /\ UNCHANGED portVars /\ UNCHANGED lineVars
        /\ UNCHANGED callVars /\ thread' = thread
    BY <1>10 DEF vars, callVars
  <2>2. ASSUME NEW p \in Caller, Calm(p) PROVE Calm(p)'
    BY <2>1, <2>2 DEF Calm, OnItsWay, Heard, Mine, portVars, lineVars, callVars
  <2> QED BY <1>2, <2>1, <2>2 DEF QuietInv
<1> QED BY <1>3, <1>4, <1>5, <1>6, <1>7, <1>8, <1>9, <1>10 DEF Next

\* The end of a call that has the line for itself.
EndsWell(p) ==
    LET r == result'[p]
    IN  /\ r.outcome \notin {"ModbusResponseMismatchError", "ValueError"}
        /\ r.outcome = "ok" => r.response.id = request[p].id
        /\ r.outcome = "ModbusCRCError" => ~data[p][1].of.intact

\* The last receive returns the whole answer, or what garbled bytes made of it.
LEMMA ReceivedEndsWell ==
    ASSUME RInv, NEW p \in Caller, Calm(p), Received(p), pc'[p] = "idle"
    PROVE  EndsWell(p)
<1> DEFINE s == data[p] \o Mine(p).read
           q == request[p]
<1>1. /\ pc[p] = "receive" /\ Mine(p).left = 0
      /\ UNCHANGED portVars /\ sending' = sending
  BY DEF Received, CallLeaves, Mine
<1>2. s \in Seq(Byte) /\ s # <<>> /\ Len(s) = Len(data[p]) + Len(Mine(p).read)
  BY <1>1, GatheredBytes
<1>3. stage[p] = "rest" /\ Ended(p, Decode(q, s))
  <2>1. ASSUME NEW next, Receives(p, s, next) PROVE FALSE
    <3>1. handle # None /\ pc \in [Caller -> {"idle", "send", "receive"}]
      BY <1>1 DEF Calm, RInv, CallTypes
    <3>2. pc' = [pc EXCEPT ![p] = "receive"]
      BY <2>1, <3>1 DEF Receives
    <3> QED BY <3>1, <3>2
  <2> QED BY <2>1 DEF Received, Mine
<1>4. result'[p] = Decode(q, s)
  BY <1>3 DEF Ended, RInv, CallTypes
<1>5. PICK r \in Response :
         /\ OnItsWay(p, r) /\ s[1].of = r /\ (r.intact => InPlace(s))
         /\ Len(s) = FrameSize(r) => s = Bytes(r)
         /\ \A i \in DOMAIN data[p] : data[p][i].of = r
  BY <1>1, ReceivedPart
<1>6. /\ r.exception \in BOOLEAN /\ r.intact \in BOOLEAN /\ Answers(q, r)
      /\ Mine(p).read \in Seq(Byte) /\ data[p] \in Seq(Byte) /\ q \in RequestType
  BY <1>1, <1>5, ResponseFacts, CalmTypes DEF OnItsWay
<1>7. Begun(Mine(p), stage[p], data[p])
  BY <1>1 DEF RInv, CallInv, Mine
<1> HIDE DEF s
<1>8. CASE r.intact
  <2>1. InStep(r, stage[p], Len(data[p]), Len(Mine(p).read) + Mine(p).left, objects[p])
    BY <1>5, <1>8 DEF OnItsWay
  <2>2. Len(data[p]) + (Len(Mine(p).read) + Mine(p).left) = FrameSize(r)
    BY <1>3, <2>1, Zenon DEF InStep
  <2>3. Len(s) = FrameSize(r)
    <3>1. \A j, k \in Nat : j + (k + 0) = j + k
      OBVIOUS
    <3>2. Len(data[p]) \in Nat /\ Len(Mine(p).read) \in Nat
      BY <1>6
    <3> QED BY <1>1, <1>2, <2>2, <3>1, <3>2, Zenon
  <2>4. Intact(s)
    BY <1>5, <1>8, <2>3, Zenon DEF Intact
  <2>5. Decoded(q, r) \in {"ok", "ModbusExceptionResponseError"}
    BY <1>6 DEF Decoded, Answers
  <2>6. Decode(q, s) = IF Decoded(q, r) = "ok" THEN Result("ok", q, r)
                                               ELSE Failure(Decoded(q, r))
    BY <1>5, <2>4 DEF Decode
  <2>7. r.id = q.id
    BY <1>6 DEF Answers
  <2> QED BY <1>4, <2>5, <2>6, <2>7 DEF EndsWell, Result, Failure
<1>9. CASE ~r.intact
  <2>1. ~Intact(s)
    <3>1. 1 \in DOMAIN s
      <4>1. \A t \in Seq(Byte) : t # <<>> => 1 \in DOMAIN t
        OBVIOUS
      <4> QED BY <1>2, <4>1, Zenon
    <3> QED BY <1>5, <1>9, <3>1 DEF Intact, InPlace
  <2>2. Decode(q, s) = Failure("ModbusCRCError")
    BY <2>1 DEF Decode
  <2>3. data[p][1].of = r
    <3>1. data[p] # <<>>
      BY <1>3, <1>7 DEF Begun
    <3>2. 1 \in DOMAIN data[p]
      BY <1>6, <3>1
    <3> QED BY <1>5, <3>2
  <2> QED BY <1>4, <1>9, <2>2, <2>3 DEF EndsWell, Result, Failure
<1> QED BY <1>6, <1>8, <1>9

\* A quiet call that ends does so in its last receive, or in one that fails.
LEMMA QuietCallEndsWell ==
    ASSUME RInv, QuietInv, [Next]_vars,
           NEW p \in Caller, quiet[p], pc[p] = "receive", pc'[p] = "idle"
    PROVE  EndsWell(p)
<1>1. Calm(p) /\ pc \in [Caller -> {"idle", "send", "receive"}] /\ DOMAIN result = Caller
  BY DEF QuietInv, RInv, CallTypes
<1>2. pc' # pc
  OBVIOUS
<1>3. PICK x \in Caller : \/ \E c \in Calls[x] : Execute(x, c)
                          \/ Written(x) \/ WriteFails(x) \/ Received(x)
                          \/ ReadFails(x) \/ ReceiveTimeout(x)
  BY <1>2 DEF Next, BeginConnect, BeginClose, PortClosed, PortOpened, OpenFails,
              DeviceAnswers, DeviceIgnores, BytesArrive, ThreadEnds, callVars, vars
<1>4. ~ \E c \in Calls[x] : Execute(x, c)
  <2>1. ASSUME NEW c \in Calls[x], Execute(x, c) PROVE FALSE
    <3>1. pc[x] = "idle" /\ \E v \in {"idle", "send"} : pc' = [pc EXCEPT ![x] = v]
      BY <2>1 DEF Execute, Fails, Ended
    <3> QED BY <1>1, <3>1
  <2> QED BY <2>1
<1>5. x = p
  <2>1. \A y \in Caller \ {x} : pc'[y] = pc[y]
    BY <1>3, <1>4, OnlyItsOwn
  <2> QED BY <2>1
<1>6. CASE Received(p)
  BY <1>1, <1>6, ReceivedEndsWell
<1>7. CASE ReadFails(p) \/ ReceiveTimeout(p)
  <2>1. \E e \in {"ModbusTransportError", "ModbusTimeoutError"} : result'[p] = Failure(e)
    BY <1>1, <1>7 DEF ReadFails, ReceiveTimeout, Fails, Ended
  <2> QED BY <2>1 DEF EndsWell, Failure, Result
<1>8. ~ (Written(p) \/ WriteFails(p))
  BY DEF Written, WriteFails
<1> QED BY <1>3, <1>4, <1>5, <1>6, <1>7, <1>8

-----------------------------------------------------------------------------
\* A call of ModbusRtuClient that waits for bytes has a thread of its own that
\* reads from a port, and before it infers a size it has the bytes for it.
THEOREM RtuInvariant == Spec => []RInv
BY InitKeeps, StepKeeps, PTL DEF Spec

\* The types of the client: whatever is lost, garbled or out of step, each byte
\* it holds is one of an answer, and every receive has a stage and a size.
THEOREM TypeCorrect == Spec => []TypeOK
<1>1. RInv => TypeOK
  <2> SUFFICES ASSUME RInv PROVE TypeOK
    OBVIOUS
  <2>1. Port /\ Line /\ CallTypes /\ \A p \in Caller : CallInv(p)
    BY DEF RInv
  <2>2. /\ handle \in live \cup {None} /\ live \subseteq 1 .. opened
        /\ opened \in 0 .. MaxOpens /\ issued \in 0 .. MaxRequests
        /\ manager \in {"idle", "opening", "reopening", "closing"}
    BY <2>1 DEF Port, CallTypes
  <2>3. /\ AreBytes(line) /\ AreBytes(sending)
        /\ \A i \in DOMAIN backlog : backlog[i] \in RequestType
    BY <2>1, ByteFacts DEF Line
  <2>4. ASSUME NEW p \in Caller
        PROVE  /\ pc[p] \in {"idle", "send", "receive"}
               /\ pc[p] # "idle" => request[p] \in RequestType
               /\ stage[p] = "none" <=> pc[p] # "receive"
               /\ AreBytes(data[p])
               /\ objects[p] > 0 => stage[p] \in {"object", "value"}
               /\ result[p].outcome \in Outcomes
               /\ pc[p] = "receive" => thread[request[p].id].on \in Handle
    <3>1. data[p] \in Seq(Byte) /\ pc[p] \in {"idle", "send", "receive"} /\ CallInv(p)
      BY <2>1 DEF CallTypes
    <3> QED BY <3>1, ByteFacts DEF CallInv, Begun
  <2>5. \A i \in DOMAIN thread : AreBytes(thread[i].read)
    BY <2>1, ByteFacts DEF CallTypes, Threads
  <2> QED BY <2>2, <2>3, <2>4, <2>5 DEF TypeOK
<1> QED BY <1>1, RtuInvariant, PTL

\* The codec and the helpers of the RTU client accept one whole intact frame of
\* the unit, the function and, plain register reads aside, the data asked for,
\* however late answers, pauses, noise and other calls tear the bytes apart.
THEOREM AcceptedFitsAlways == Spec => []AcceptedFits
<1>1. RInv => AcceptedFits
  BY DEF RInv, CallInv, Fits, AcceptedFits
<1> QED BY <1>1, RtuInvariant, PTL

\* A call of ModbusRtuClient that begins on a quiet line and shares it with no
\* other, on a port that stays, takes the whole of the device's answer and
\* nothing else, whatever the pauses in it, and refuses it only if it was
\* garbled: rtu_response_size_from_prefix and the sizes that follow it are
\* those of the frames.
THEOREM QuietCallIsAnsweredAlways == Spec => QuietCallIsAnswered
<1> DEFINE Step == \A p \in Caller : quiet[p] /\ pc[p] = "receive" /\ pc'[p] = "idle" =>
                      EndsWell(p)
<1>1. RInv /\ QuietInv /\ [Next]_vars => [Step]_vars
  BY QuietCallEndsWell
<1> HIDE DEF Step
<1>2. Spec => [][Step]_vars
  BY <1>1, InitKeeps, StepKeeps, QuietInit, QuietKeeps, PTL DEF Spec
<1> QED BY <1>2 DEF QuietCallIsAnswered, Step, EndsWell
=============================================================================
