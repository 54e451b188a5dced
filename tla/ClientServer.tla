---------------------------- MODULE ClientServer ----------------------------
(***************************************************************************)
(* ModbusTcpClient and ModbusTcpServer together: the device of             *)
(* ModbusTcpClient is a server whose tasks, one for each connection, take  *)
(* the requests of their connection in order, apply them to the one        *)
(* datastore, and answer (ModbusServer).  A request that was written may   *)
(* reach the server long after its call timed out, and after the client    *)
(* has closed the connection and opened another.                           *)
(*                                                                         *)
(* The datastore is one register.  Nothing here needs fairness: the        *)
(* promise is about what a call that returns means.                        *)
(***************************************************************************)
EXTENDS ModbusTcpClient

CONSTANT Writes   \* the calls that write their id; the others read

ASSUME WritesAssumption == Writes \subseteq 1 .. MaxRequests

VARIABLES
    inbox,   \* inbox[k]: requests written to k and not handled by the server
    store,   \* the server's datastore
    effect,  \* effect[i]: what it held once request i was handled
    route    \* route[i]: the connection request i was written to (history)

serverVars == <<inbox, store, effect, route>>
allVars == <<vars, serverVars>>

InitWithServer ==
    /\ Init
    /\ inbox = [k \in Connection |-> <<>>]
    /\ store = 0
    /\ effect = [i \in {} |-> 0]
    /\ route = <<>>

\* ReadBody of ModbusServer: the next request of a connection is decoded,
\* handled and answered without an await, whether or not its client is there.
Serve(k) ==
    /\ inbox[k] # <<>>
    /\ LET i == Head(inbox[k]).id
       IN  /\ inbox' = [inbox EXCEPT ![k] = Tail(@)]
           /\ store' = IF i \in Writes THEN i ELSE store
           /\ effect' = [j \in DOMAIN effect \cup {i} |->
                            IF j = i THEN store' ELSE effect[j]]
           /\ UNCHANGED <<route, vars>>

Write(p) ==
    /\ Execute(p)
    /\ inbox' = IF current \in open
                  THEN [inbox EXCEPT ![current] = Append(@, request'[p])] ELSE inbox
    /\ route' = Append(route, current)
    /\ UNCHANGED <<store, effect>>

\* A response arrives after its request was handled.
Answered(k) ==
    /\ pending[k] # <<>> /\ Head(pending[k]).id \in DOMAIN effect
    /\ AnswerHeader(k)
    /\ UNCHANGED serverVars

ClientSteps ==
    /\ \/ \E p \in Caller : Drained(p) \/ Resume(p) \/ Timeout(p)
       \/ \E m \in Manager : \/ BeginConnect(m) \/ Flushed(m) \/ ConnectSucceeds(m)
                             \/ ConnectFails(m) \/ BeginClose(m) \/ CloseReturns(m)
       \/ \E k \in Connection : AnswerPDU(k) \/ ConnectionLost(k) \/ PeerStalls(k)
    /\ UNCHANGED serverVars

NextWithServer ==
    \/ \E p \in Caller : Write(p)
    \/ \E k \in Connection : Serve(k) \/ Answered(k)
    \/ ClientSteps

SpecWithServer == InitWithServer /\ [][NextWithServer]_allVars

-----------------------------------------------------------------------------
(***************************************************************************)
(* Properties.                                                             *)
(***************************************************************************)
Sent == {i \in 1 .. issued :
            i \in DOMAIN effect \/ \E k \in Connection : \E n \in DOMAIN inbox[k] :
                                      inbox[k][n].id = i}

\* What a call returns counts only if no other call read from the connection
\* between its header and its PDU; else it may be another request's answer.
Answers(p) == result[p].outcome = "ok" /\ p \notin crossed

Call(p) ==
    [id |-> request[p].id,
     outcome |-> CASE pc[p] # "idle" -> "pending"
                   [] pc[p] = "idle" /\ Answers(p) -> "returned"
                   [] OTHER -> "failed",
     value |-> IF pc[p] = "idle" /\ Answers(p) THEN effect[result[p].body.id] ELSE 0]

Remote == INSTANCE RemoteStore
    WITH Id <- 1 .. MaxRequests, value <- store, called <- issued,
         underway <- Sent, call <- [p \in Caller |-> Call(p)]

\* Client and server together are a register with atomic calls: whatever
\* times out, comes late, is lost or is sent over two connections, a call that
\* returns took effect once, while it was made, and returns that effect's
\* value, unless another call read from the connection in the middle of its
\* answer: that one promises what a failed call does.  (No id repeats within
\* the bounds here: see AcceptedIsOwn.)
ImplementsRemoteStore == Remote!Spec

\* Once a call has returned, every earlier request on the same connection has
\* taken effect: no write that timed out before can overwrite what it wrote or
\* read.  Only one left on an older connection still can.
OldRequestsAreDone ==
    \A p \in Caller : result[p].outcome = "ok" =>
        \A i \in 1 .. request[p].id :
            route[i] = route[request[p].id] => i \in DOMAIN effect
=============================================================================
