------------------------- MODULE ClientServerProofs -------------------------
(***************************************************************************)
(* Client and server together implement RemoteStore, and the requests of   *)
(* one connection take effect in their order: for any callers, any number  *)
(* of connections and any reads and writes, as long as no transaction id   *)
(* repeats (in the code, for 65535 calls).                                 *)
(***************************************************************************)
EXTENDS ClientServer, ModbusTcpClientProofs

(***************************************************************************)
(* The inductive invariant.                                                *)
(***************************************************************************)
Handled == {r \in Request : r.id \in DOMAIN effect}
Waiting(i) == \E k \in Connection : \E n \in DOMAIN inbox[k] : inbox[k][n].id = i
Reached(i) == i \in DOMAIN effect \/ Waiting(i)

\* The responses on their way, and those whose header was returned, are to
\* requests the server has handled.
ResponsesHandled ==
    /\ halfway \in [Connection -> Seq(Handled)]
    /\ stream \in [Connection -> Seq(PieceOf(Handled))]
    /\ got \in [Caller -> Maybe(Handled)]
    /\ \A p \in Caller : result[p].outcome = "ok" => result[p].header \in Handled

\* A connection's inbox has the requests that were written to it and are not
\* handled, in the order of their ids.
Queues ==
    /\ inbox \in [Connection -> Seq(Request)]
    /\ DOMAIN effect \subseteq 1 .. issued
    /\ route \in Seq(Connection \cup {None}) /\ Len(route) = issued
    /\ \A k \in Connection : \A n \in DOMAIN inbox[k] :
          /\ inbox[k][n].id \in (1 .. issued) \ DOMAIN effect
          /\ route[inbox[k][n].id] = k
    /\ \A k \in Connection : \A n, l \in DOMAIN inbox[k] :
          n < l => inbox[k][n].id < inbox[k][l].id

\* What was handled precedes what waits on the same connection; and once a
\* request did not reach its connection, none after it does.
InOrder ==
    /\ current <= opened
    /\ \A i \in 1 .. issued : route[i] <= opened
    /\ \A k \in Connection : \A n \in DOMAIN inbox[k] : \A j \in DOMAIN effect :
          route[j] = k => j < inbox[k][n].id
    /\ \A i \in 1 .. issued : ~Reached(i) =>
          /\ route[i] \notin open
          /\ \A j \in 1 .. issued : i < j /\ route[j] = route[i] => ~Reached(j)

ServerInv == ResponsesHandled /\ Queues /\ InOrder

-----------------------------------------------------------------------------
(***************************************************************************)
(* The steps.                                                              *)
(***************************************************************************)
\* The elements of a tail are those behind the first.
LEMMA TailFacts ==
    ASSUME NEW T, NEW s \in Seq(T), s # <<>>
    PROVE  /\ \A n \in DOMAIN Tail(s) :
                 /\ n \in Nat /\ n >= 1 /\ n + 1 \in DOMAIN s
                 /\ Tail(s)[n] = s[n + 1]
           /\ \A n \in DOMAIN s : n # 1 => n - 1 \in DOMAIN Tail(s) /\ Tail(s)[n - 1] = s[n]
<1>1. Len(s) \in Nat /\ Len(s) >= 1 /\ DOMAIN s = 1 .. Len(s)
  OBVIOUS
<1>2. DOMAIN Tail(s) = 1 .. Len(s) - 1
  BY <1>1
<1>3. \A n \in 1 .. Len(s) - 1 : Tail(s)[n] = s[n + 1]
  BY <1>1
<1>4. \A n \in DOMAIN s : n # 1 => n - 1 \in DOMAIN Tail(s) /\ Tail(s)[n - 1] = s[n]
  <2> TAKE n \in DOMAIN s
  <2> HAVE n # 1
  <2>1. n - 1 \in 1 .. Len(s) - 1 /\ (n - 1) + 1 = n
    BY <1>1
  <2> QED BY <1>2, <1>3, <2>1
<1> QED BY <1>1, <1>2, <1>3, <1>4

\* The server handles a request: the oldest of its connection.
LEMMA ServeStep ==
    ASSUME Control, ServerInv, NEW k \in Connection, Serve(k)
    PROVE  /\ ServerInv'
           /\ Head(inbox[k]).id \in Sent \ DOMAIN effect
           /\ Sent' = Sent
<1>i. PICK i : i = Head(inbox[k]).id
  OBVIOUS
<1>1. /\ inbox[k] # <<>> /\ inbox[k] \in Seq(Request) /\ 1 \in DOMAIN inbox[k]
      /\ i = inbox[k][1].id
      /\ inbox' = [inbox EXCEPT ![k] = Tail(inbox[k])]
      /\ effect' = [j \in DOMAIN effect \cup {i} |-> IF j = i THEN store' ELSE effect[j]]
      /\ UNCHANGED <<route, vars>>
  BY <1>i DEF Serve, ServerInv, Queues
<1>2. i \in (1 .. issued) \ DOMAIN effect /\ route[i] = k
  BY <1>1 DEF ServerInv, Queues
<1>3. DOMAIN effect' = DOMAIN effect \cup {i}
  BY <1>1
<1>4. \A n \in DOMAIN inbox'[k] :
         /\ n \in Nat /\ n >= 1 /\ n + 1 \in DOMAIN inbox[k]
         /\ inbox'[k][n] = inbox[k][n + 1]
         /\ inbox[k][1].id < inbox[k][n + 1].id
  <2>1. inbox'[k] = Tail(inbox[k])
    BY <1>1 DEF ServerInv, Queues
  <2>2. \A n \in DOMAIN inbox'[k] :
           /\ n \in Nat /\ n >= 1 /\ n + 1 \in DOMAIN inbox[k]
           /\ inbox'[k][n] = inbox[k][n + 1]
    <3>1. \A n \in DOMAIN Tail(inbox[k]) :
             /\ n \in Nat /\ n >= 1 /\ n + 1 \in DOMAIN inbox[k]
             /\ Tail(inbox[k])[n] = inbox[k][n + 1]
      BY <1>1, TailFacts
    <3> QED BY <2>1, <3>1
  <2>3. \A n \in DOMAIN inbox'[k] : 1 < n + 1
    BY <2>2
  <2> QED BY <1>1, <2>2, <2>3 DEF ServerInv, Queues
<1>5. \A n \in DOMAIN inbox[k] : n # 1
        => \E l \in DOMAIN inbox'[k] : inbox'[k][l] = inbox[k][n]
  <2> TAKE n \in DOMAIN inbox[k]
  <2> HAVE n # 1
  <2>1. inbox'[k] = Tail(inbox[k])
    BY <1>1 DEF ServerInv, Queues
  <2>2. n - 1 \in DOMAIN inbox'[k] /\ inbox'[k][n - 1] = inbox[k][n]
    BY <1>1, <2>1, TailFacts, ZenonT(60)
  <2> QED BY <2>2
<1>6. \A o \in Connection \ {k} : inbox'[o] = inbox[o]
  BY <1>1 DEF ServerInv, Queues
<1>7. \A j : Reached(j)' <=> Reached(j)
  <2>1. ASSUME NEW j, Waiting(j) PROVE Waiting(j)' \/ j = i
    <3>1. PICK o \in Connection : \E n \in DOMAIN inbox[o] : inbox[o][n].id = j
      BY <2>1 DEF Waiting, ServerInv, Queues
    <3>2. CASE o # k
      BY <1>6, <3>1, <3>2 DEF Waiting
    <3>3. CASE o = k
      BY <1>1, <1>5, <3>1, <3>3 DEF Waiting
    <3> QED BY <3>2, <3>3
  <2>2. ASSUME NEW j, Waiting(j)' PROVE Waiting(j)
    BY <1>4, <1>6, <2>2 DEF Waiting
  <2>3. Waiting(i)
    BY <1>1 DEF Waiting
  <2> QED BY <1>3, <2>1, <2>2, <2>3 DEF Reached
<1>8. Sent' = Sent /\ i \in Sent \ DOMAIN effect
  <2>1. Sent = {j \in 1 .. issued : Reached(j)}
    BY DEF Sent, Reached, Waiting
  <2>2. Sent' = {j \in 1 .. issued' : Reached(j)'}
    BY DEF Sent, Reached, Waiting
  <2>3. Waiting(i)
    BY <1>1 DEF Waiting
  <2> QED BY <1>1, <1>2, <1>7, <2>1, <2>2, <2>3 DEF vars, callVars, Reached
<1>9. ResponsesHandled'
  <2>1. Handled \subseteq Handled'
    BY <1>3 DEF Handled
  <2>2. /\ Seq(Handled) \subseteq Seq(Handled') /\ Maybe(Handled) \subseteq Maybe(Handled')
        /\ Seq(PieceOf(Handled)) \subseteq Seq(PieceOf(Handled'))
    <3>1. PieceOf(Handled) \subseteq PieceOf(Handled')
      BY <2>1 DEF PieceOf
    <3> QED BY <2>1, <3>1 DEF Maybe
  <2>3. UNCHANGED <<halfway, stream, got, result>>
    BY <1>1 DEF vars, deviceVars, streamVars, callVars
  <2> QED BY <2>1, <2>2, <2>3 DEF ServerInv, ResponsesHandled
<1>10. Queues'
  <2>1. inbox' \in [Connection -> Seq(Request)]
    <3>1. Tail(inbox[k]) \in Seq(Request)
      BY <1>1
    <3> QED BY <1>1, <3>1 DEF ServerInv, Queues
  <2>2. UNCHANGED <<issued, route>>
    BY <1>1 DEF vars, callVars
  <2>3. \A o \in Connection : \A n \in DOMAIN inbox'[o] :
           /\ inbox'[o][n].id \in (1 .. issued) \ DOMAIN effect'
           /\ route[inbox'[o][n].id] = o
    <3>1. ASSUME NEW n \in DOMAIN inbox'[k]
          PROVE  inbox'[k][n].id \in (1 .. issued) \ DOMAIN effect' /\ route[inbox'[k][n].id] = k
      <4>1. inbox[k][n + 1].id # i
        BY <1>1, <1>2, <1>4 DEF ServerInv, Queues
      <4> QED BY <1>3, <1>4, <4>1 DEF ServerInv, Queues
    <3>2. ASSUME NEW o \in Connection \ {k}, NEW n \in DOMAIN inbox[o]
          PROVE  inbox[o][n].id \in (1 .. issued) \ DOMAIN effect' /\ route[inbox[o][n].id] = o
      BY <1>2, <1>3 DEF ServerInv, Queues
    <3> QED BY <1>6, <3>1, <3>2
  <2>4. \A o \in Connection : \A n, l \in DOMAIN inbox'[o] :
           n < l => inbox'[o][n].id < inbox'[o][l].id
    <3>1. \A n, l \in DOMAIN inbox'[k] : n < l => inbox'[k][n].id < inbox'[k][l].id
      <4> TAKE n, l \in DOMAIN inbox'[k]
      <4> HAVE n < l
      <4>1. n + 1 < l + 1
        BY <1>4
      <4> QED BY <1>4, <4>1 DEF ServerInv, Queues
    <3> QED BY <1>6, <3>1 DEF ServerInv, Queues
  <2>5. DOMAIN effect' \subseteq 1 .. issued
    BY <1>2, <1>3 DEF ServerInv, Queues
  <2> QED BY <2>1, <2>2, <2>3, <2>4, <2>5 DEF ServerInv, Queues
<1>11. InOrder'
  <2>1. UNCHANGED <<current, opened, open, issued, route>>
    BY <1>1 DEF vars, callVars, connVars
  <2>2. \A o \in Connection : \A n \in DOMAIN inbox'[o] : \A j \in DOMAIN effect' :
           route[j] = o => j < inbox'[o][n].id
    <3>1. \A n \in DOMAIN inbox'[k] : \A j \in DOMAIN effect' :
             route[j] = k => j < inbox'[k][n].id
      BY <1>1, <1>3, <1>4, ZenonT(60) DEF ServerInv, InOrder
    <3>2. \A o \in Connection \ {k} : \A n \in DOMAIN inbox[o] : \A j \in DOMAIN effect' :
             route[j] = o => j < inbox[o][n].id
      BY <1>2, <1>3 DEF ServerInv, InOrder
    <3> QED BY <1>6, <3>1, <3>2
  <2> QED BY <1>7, <2>1, <2>2 DEF ServerInv, InOrder
<1> QED BY <1>i, <1>8, <1>9, <1>10, <1>11 DEF ServerInv

\* A call writes its request, or does not reach the connection.
LEMMA WriteStep ==
    ASSUME IInv, ServerInv, NEW p \in Caller, Write(p)
    PROVE  /\ ServerInv'
           /\ Sent' = Sent \cup (IF current \in open THEN {issued'} ELSE {})
<1> Control /\ DOMAIN request = Caller /\ DOMAIN result = Caller
  BY DEF IInv, Carries
<1>n. PICK new, last : new = request'[p] /\ last = issued'
  OBVIOUS
<1>1. /\ issued' = issued + 1 /\ issued \in Nat /\ issued' \in 1 .. MaxRequests
      /\ new.id = issued' /\ last = issued'
      /\ UNCHANGED <<effect, current, open, opened, halfway, stream>>
      /\ route' = Append(route, current)
      /\ inbox' = IF current \in open THEN [inbox EXCEPT ![current] = Append(@, new)]
                                       ELSE inbox
  BY <1>n, ClientAssumption DEF Write, Execute, Control, streamVars
<1>2. new \in Request
  BY <1>n, ClientAssumption DEF Write, Execute, Request, Control
<1>3. current \in Connection \cup {None} /\ (current \in open => current \in Connection)
      /\ open \subseteq 1 .. opened /\ opened \in Nat
  BY DEF Control, None
<1>4. /\ \A i \in 1 .. issued : route'[i] = route[i]
      /\ route'[issued'] = current
      /\ route' \in Seq(Connection \cup {None}) /\ Len(route') = issued'
  BY <1>1, <1>3 DEF ServerInv, Queues
<1>5. ASSUME current \in open
      PROVE  /\ \A o \in Connection \ {current} : inbox'[o] = inbox[o]
             /\ inbox'[current] \in Seq(Request)
             /\ Len(inbox[current]) \in Nat
             /\ DOMAIN inbox[current] = 1 .. Len(inbox[current])
             /\ DOMAIN inbox'[current] = 1 .. Len(inbox[current]) + 1
             /\ \A n \in DOMAIN inbox[current] : inbox'[current][n] = inbox[current][n]
             /\ inbox'[current][Len(inbox[current]) + 1] = new
  <2>1. current \in Connection /\ inbox[current] \in Seq(Request)
    BY <1>3, <1>5 DEF ServerInv, Queues
  <2>2. inbox'[current] = Append(inbox[current], new)
    BY <1>1, <1>5, <2>1 DEF ServerInv, Queues
  <2>3. \A o \in Connection \ {current} : inbox'[o] = inbox[o]
    BY <1>1, <1>5 DEF ServerInv, Queues
  <2> QED BY <1>2, <2>1, <2>2, <2>3
<1>6. \A i : Reached(i)' <=> Reached(i) \/ (current \in open /\ i = last)
  <2>1. CASE current \in open
    <3>1. current \in Connection
      BY <1>3, <2>1
    <3>2. ASSUME NEW i, Waiting(i) PROVE Waiting(i)'
      <4>1. PICK o \in Connection : \E n \in DOMAIN inbox[o] : inbox[o][n].id = i
        BY <3>2 DEF Waiting
      <4>2. CASE o = current
        BY <1>5, <2>1, <4>1, <4>2 DEF Waiting
      <4>3. CASE o # current
        BY <1>5, <2>1, <4>1, <4>3 DEF Waiting
      <4> QED BY <4>2, <4>3
    <3>3. Waiting(last)'
      <4>1. Len(inbox[current]) + 1 \in DOMAIN inbox'[current]
        BY <1>5, <2>1
      <4> QED BY <1>1, <1>5, <2>1, <3>1, <4>1 DEF Waiting
    <3>4. ASSUME NEW i, Waiting(i)', i # last PROVE Waiting(i)
      <4>1. PICK o \in Connection : \E n \in DOMAIN inbox'[o] : inbox'[o][n].id = i
        BY <3>4 DEF Waiting
      <4>2. CASE o = current
        <5>1. PICK n \in DOMAIN inbox'[current] : inbox'[current][n].id = i
          BY <4>1, <4>2
        <5>2. n # Len(inbox[current]) + 1
          BY <1>1, <1>5, <2>1, <3>4, <5>1
        <5>3. n \in DOMAIN inbox[current]
          BY <1>5, <2>1, <5>1, <5>2
        <5> QED BY <1>5, <2>1, <3>1, <5>1, <5>3 DEF Waiting
      <4>3. CASE o # current
        BY <1>5, <2>1, <4>1, <4>3 DEF Waiting
      <4> QED BY <4>2, <4>3
    <3> QED BY <1>1, <2>1, <3>2, <3>3, <3>4 DEF Reached
  <2>2. CASE current \notin open
    BY <1>1, <2>2 DEF Reached, Waiting
  <2> QED BY <2>1, <2>2
<1>7. \A i : Reached(i) => i \in 1 .. issued
  BY DEF Reached, Waiting, ServerInv, Queues
<1>8. Sent' = Sent \cup (IF current \in open THEN {issued'} ELSE {})
  <2>1. Sent = {j \in 1 .. issued : Reached(j)}
    BY DEF Sent, Reached, Waiting
  <2>2. Sent' = {j \in 1 .. issued' : Reached(j)'}
    BY DEF Sent, Reached, Waiting
  <2> QED BY <1>1, <1>6, <1>7, <2>1, <2>2
<1>9. ResponsesHandled'
  <2>1. Handled' = Handled
    BY <1>1 DEF Handled
  <2>2. got' = got \/ got' = [got EXCEPT ![p] = NoRequest]
    BY DEF Write, Execute, Fails, Ended, Garbage, NoRequest
  <2>3. got' \in [Caller -> Maybe(Handled)]
    BY <2>2 DEF ServerInv, ResponsesHandled, Maybe
  <2>4. PICK e \in Outcomes \ {"ok"} :
           result' = [result EXCEPT ![p] = [outcome |-> e, header |-> NoRequest,
                                                           body |-> NoRequest]]
    BY DEF Write, Execute, Fails, Ended, Unanswered, Returned, Outcomes, ModbusErrors
  <2>5. \A q \in Caller : result'[q].outcome = "ok" => result'[q].header \in Handled
    <3>1. \A q \in Caller : q # p => result'[q] = result[q]
      BY <2>4
    <3>2. result'[p].outcome # "ok"
      BY <2>4
    <3> QED BY <3>1, <3>2 DEF ServerInv, ResponsesHandled
  <2> QED BY <1>1, <2>1, <2>3, <2>5 DEF ServerInv, ResponsesHandled
<1>10. Queues'
  <2>1. inbox' \in [Connection -> Seq(Request)]
    BY <1>1, <1>2, <1>3 DEF ServerInv, Queues
  <2>2. ASSUME NEW o \in Connection, o = current /\ current \in open
        PROVE  /\ \A n \in DOMAIN inbox'[o] :
                    /\ inbox'[o][n].id \in (1 .. issued') \ DOMAIN effect'
                    /\ route'[inbox'[o][n].id] = o
               /\ \A n, l \in DOMAIN inbox'[o] : n < l => inbox'[o][n].id < inbox'[o][l].id
    <3>1. \A n \in DOMAIN inbox[o] :
             /\ inbox'[o][n] = inbox[o][n]
             /\ inbox[o][n].id \in (1 .. issued) \ DOMAIN effect
             /\ route[inbox[o][n].id] = o
      BY <1>5, <2>2 DEF ServerInv, Queues
    <3>2. \A n \in DOMAIN inbox'[o] :
             n \in DOMAIN inbox[o] \/ (n = Len(inbox[o]) + 1 /\ inbox'[o][n].id = issued + 1)
      BY <1>1, <1>5, <2>2
    <3>3. issued + 1 \notin DOMAIN effect
      BY <1>1, <1>7 DEF Reached
    <3>4. \A n \in DOMAIN inbox'[o] :
             /\ inbox'[o][n].id \in (1 .. issued') \ DOMAIN effect'
             /\ route'[inbox'[o][n].id] = o
      BY <1>1, <1>4, <2>2, <3>1, <3>2, <3>3
    <3>5. ASSUME NEW n \in DOMAIN inbox'[o], NEW l \in DOMAIN inbox'[o], n < l
          PROVE  inbox'[o][n].id < inbox'[o][l].id
      <4>1. n \in DOMAIN inbox[o] /\ n \in Nat
        BY <1>5, <2>2, <3>5
      <4>2. CASE l \in DOMAIN inbox[o]
        BY <3>1, <3>5, <4>1, <4>2 DEF ServerInv, Queues
      <4>3. CASE l \notin DOMAIN inbox[o]
        BY <1>1, <3>1, <3>2, <4>1, <4>3
      <4> QED BY <4>2, <4>3
    <3> QED BY <3>4, <3>5
  <2>3. ASSUME NEW o \in Connection, ~(o = current /\ current \in open)
        PROVE  /\ \A n \in DOMAIN inbox'[o] :
                    /\ inbox'[o][n].id \in (1 .. issued') \ DOMAIN effect'
                    /\ route'[inbox'[o][n].id] = o
               /\ \A n, l \in DOMAIN inbox'[o] : n < l => inbox'[o][n].id < inbox'[o][l].id
    <3>1. inbox'[o] = inbox[o]
      BY <1>1, <1>5, <2>3
    <3> QED BY <1>1, <1>4, <3>1 DEF ServerInv, Queues
  <2>4. DOMAIN effect' \subseteq 1 .. issued'
    BY <1>1 DEF ServerInv, Queues
  <2> QED BY <1>4, <2>1, <2>2, <2>3, <2>4 DEF Queues
<1>11. InOrder'
  <2>1. \A i \in 1 .. issued' : route'[i] <= opened'
    BY <1>1, <1>4 DEF ServerInv, InOrder
  <2>2. ASSUME NEW o \in Connection, NEW n \in DOMAIN inbox'[o], NEW j \in DOMAIN effect',
               route'[j] = o
        PROVE  j < inbox'[o][n].id
    <3>1. j \in 1 .. issued /\ j \in DOMAIN effect /\ route[j] = o
      BY <1>1, <1>4, <2>2 DEF ServerInv, Queues
    <3>2. CASE n \in DOMAIN inbox[o] /\ inbox'[o][n] = inbox[o][n]
      BY <3>1, <3>2 DEF ServerInv, InOrder
    <3>3. CASE inbox'[o][n] = new
      BY <1>1, <3>1, <3>3
    <3>4. (n \in DOMAIN inbox[o] /\ inbox'[o][n] = inbox[o][n]) \/ inbox'[o][n] = new
      <4>1. CASE current \in open /\ o = current
        BY <1>5, <4>1
      <4>2. CASE current \in open /\ o # current
        BY <1>5, <4>2
      <4>3. CASE current \notin open
        BY <1>1, <4>3
      <4> QED BY <4>1, <4>2, <4>3
    <3> QED BY <3>2, <3>3, <3>4
  <2>3. ASSUME NEW i \in 1 .. issued', ~Reached(i)'
        PROVE  /\ route'[i] \notin open'
               /\ \A j \in 1 .. issued' : i < j /\ route'[j] = route'[i] => ~Reached(j)'
    <3>1. CASE i \in 1 .. issued
      <4>1. /\ ~Reached(i) /\ route[i] \notin open
            /\ \A j \in 1 .. issued : i < j /\ route[j] = route[i] => ~Reached(j)
        BY <1>6, <2>3, <3>1 DEF ServerInv, InOrder
      <4> QED BY <1>1, <1>4, <1>6, <1>7, <3>1, <4>1
    <3>2. CASE i = last
      <4>1. current \notin open /\ route'[i] = current
        BY <1>1, <1>4, <1>6, <2>3, <3>2
      <4>2. \A j \in 1 .. issued' : ~(i < j)
        BY <1>1, <3>2
      <4> QED BY <1>1, <4>1, <4>2
    <3>3. i \in 1 .. issued \/ i = last
      BY <1>1
    <3> QED BY <3>1, <3>2, <3>3
  <2> QED BY <1>1, <2>1, <2>2, <2>3 DEF ServerInv, InOrder
<1> QED BY <1>8, <1>9, <1>10, <1>11 DEF ServerInv

\* The other steps leave the server as it is.
LEMMA ClientStep ==
    ASSUME Control, Control', ServerInv, pending \in [Connection -> Seq(Request)],
           ClientSteps \/ \E k \in Connection : Answered(k)
    PROVE  ServerInv'
<1>h. PICK H \in SUBSET Request : H = Handled
  BY DEF Handled
<1>1. /\ halfway \in [Connection -> Seq(H)]
      /\ stream \in [Connection -> Seq(PieceOf(H))]
      /\ got \in [Caller -> Maybe(H)]
      /\ \A p \in Caller : result[p].outcome = "ok" => result[p].header \in H
  BY <1>h DEF ServerInv, ResponsesHandled
<1>2. UNCHANGED serverVars
  BY DEF ClientSteps, Answered
<1>3. H = Handled'
  BY <1>h, <1>2 DEF Handled, serverVars
<1>4. SUFFICES /\ halfway' \in [Connection -> Seq(H)]
               /\ stream' \in [Connection -> Seq(PieceOf(H))]
               /\ got' \in [Caller -> Maybe(H)]
               /\ \A p \in Caller : result'[p].outcome = "ok" => result'[p].header \in H
               /\ issued' = issued
               /\ \/ UNCHANGED <<current, opened>> /\ open' \subseteq open
                  \/ current' = None /\ UNCHANGED <<opened, open>>
                  \/ /\ opened' = opened + 1 /\ current' = opened'
                     /\ open' = open \cup {opened'}
  <2>1. ResponsesHandled'
    BY <1>3, <1>4 DEF ResponsesHandled
  <2>2. Queues'
    BY <1>2, <1>4 DEF serverVars, ServerInv, Queues
  <2>3. \A i : Reached(i)' <=> Reached(i)
    BY <1>2 DEF serverVars, Reached, Waiting
  <2>4. /\ current' <= opened' /\ opened <= opened'
        /\ \A i \in 1 .. issued : route[i] \notin open => route[i] \notin open'
    <3>1. \A i \in 1 .. issued : route[i] \in Connection \cup {None} /\ route[i] <= opened
      BY DEF ServerInv, Queues, InOrder
    <3>2. opened \in Nat /\ current <= opened
      BY DEF Control, ServerInv, InOrder
    <3> QED BY <1>4, <3>1, <3>2 DEF None, Connection
  <2>5. InOrder'
    <3>1. UNCHANGED <<inbox, effect, route, issued>>
      BY <1>2, <1>4 DEF serverVars
    <3>2. \A i \in 1 .. issued : route[i] \in Nat /\ route[i] <= opened
      BY DEF ServerInv, Queues, InOrder, None, Connection
    <3>3. opened \in Nat /\ opened' \in Nat
      BY DEF Control
    <3>4. \A i \in 1 .. issued : route[i] <= opened'
      BY <2>4, <3>2, <3>3
    <3> QED BY <2>3, <2>4, <3>1, <3>4 DEF ServerInv, InOrder
  <2> QED BY <2>1, <2>2, <2>5 DEF ServerInv
<1>5. ASSUME NEW p \in Caller, Drained(p) \/ Resume(p) \/ Timeout(p)
      PROVE  /\ halfway' \in [Connection -> Seq(H)]
             /\ stream' \in [Connection -> Seq(PieceOf(H))]
             /\ got' \in [Caller -> Maybe(H)]
             /\ \A q \in Caller : result'[q].outcome = "ok" => result'[q].header \in H
             /\ UNCHANGED <<issued, current, opened, open>>
  <2>1. /\ CallLeaves /\ UNCHANGED <<pending, nextTid, issued, request>>
        /\ woken' = woken \ {p} /\ crossed' \subseteq Caller
        /\ \E k \in Connection : \E w \in {None, waiter[k]} :
              /\ Received(p, k, w, H)
              /\ w # p
              /\ \A other \in Connection \ {k} : waiter[other] # p
    BY <1>1, <1>5, CallReceives, ZenonT(60)
  <2>2. PICK k \in Connection : \E w \in {None, waiter[k]} : Received(p, k, w, H)
    BY <2>1
  <2>3. PICK w \in {None, waiter[k]} : Received(p, k, w, H)
    BY <2>2
  <2>4. CASE EndsCall(p, k, w, H)
    <3>1. PICK outcome \in Outcomes, r \in Maybe(H), body \in Maybe(H) :
            /\ Ended(p, outcome, r, body)
            /\ outcome = "ok" => r \in H
      BY <2>4 DEF EndsCall
    <3>2. got' = [got EXCEPT ![p] = NoRequest]
          /\ result' = [result EXCEPT ![p] = [outcome |-> outcome, header |-> r,
                                                                 body |-> body]]
      BY <3>1 DEF Ended, Returned, Garbage, NoRequest
    <3>3. \A q \in Caller : result'[q].outcome = "ok" => result'[q].header \in H
      BY <1>1, <3>1, <3>2
    <3>4. got' \in [Caller -> Maybe(H)]
      BY <1>1, <3>2 DEF Maybe
    <3> QED BY <1>1, <2>1, <2>3, <3>3, <3>4 DEF Received, CallLeaves
  <2>5. CASE Waits(p, k, H)
    BY <1>1, <2>1, <2>3, <2>5 DEF Received, Waits, CallLeaves
  <2> QED BY <2>3, <2>4, <2>5 DEF Received
<1>6. ASSUME NEW m \in Manager,
             \/ BeginConnect(m) \/ Flushed(m) \/ ConnectSucceeds(m)
             \/ ConnectFails(m) \/ BeginClose(m) \/ CloseReturns(m)
      PROVE  /\ halfway' \in [Connection -> Seq(H)]
             /\ stream' \in [Connection -> Seq(PieceOf(H))]
             /\ UNCHANGED <<got, result, issued>>
             /\ \/ UNCHANGED <<current, opened>> /\ open' \subseteq open
                \/ current' = None /\ UNCHANGED <<opened, open>>
                \/ /\ opened' = opened + 1 /\ current' = opened'
                   /\ open' = open \cup {opened'}
  <2>1. <<>> \in Seq(H) /\ <<>> \in Seq(PieceOf(H))
    OBVIOUS
  <2>2. CASE BeginConnect(m) \/ BeginClose(m)
    BY <1>1, <2>2 DEF BeginConnect, BeginClose, Forget, deviceVars, streamVars
  <2>3. CASE Flushed(m)
    BY <1>1, <2>1, <2>3 DEF Flushed, Ends, callVars
  <2>4. CASE ConnectSucceeds(m)
    BY <1>1, <2>1, <2>4 DEF ConnectSucceeds, deviceVars
  <2>5. CASE ConnectFails(m) \/ CloseReturns(m)
    BY <1>1, <2>5 DEF ConnectFails, CloseReturns, connVars, deviceVars, streamVars
  <2> QED BY <1>6, <2>2, <2>3, <2>4, <2>5
<1>7. ASSUME NEW k \in Connection, AnswerPDU(k) \/ ConnectionLost(k) \/ PeerStalls(k)
      PROVE  /\ halfway' \in [Connection -> Seq(H)]
             /\ stream' \in [Connection -> Seq(PieceOf(H))]
             /\ UNCHANGED <<got, result, issued, current, opened>> /\ open' \subseteq open
  <2>1. CASE AnswerPDU(k)
    <3> DEFINE piece == [kind |-> "pdu", of |-> Head(halfway[k])]
    <3>1. Head(halfway[k]) \in H
      BY <1>1, <2>1 DEF AnswerPDU
    <3>2. piece \in PieceOf(H)
      BY <3>1 DEF PieceOf
    <3>3. /\ stream' = [stream EXCEPT ![k] = Append(stream[k], piece)]
          /\ halfway' = [halfway EXCEPT ![k] = <<>>]
          /\ UNCHANGED <<connVars, callVars>>
      BY <2>1 DEF AnswerPDU, Arrives
    <3> HIDE DEF piece
    <3> QED BY <1>1, <3>2, <3>3 DEF connVars, callVars
  <2>2. CASE ConnectionLost(k)
    BY <1>1, <2>2 DEF ConnectionLost, Ends, callVars
  <2>3. CASE PeerStalls(k)
    BY <1>1, <2>3 DEF PeerStalls, deviceVars, streamVars, callVars
  <2> QED BY <1>7, <2>1, <2>2, <2>3
<1>8. ASSUME NEW k \in Connection, Answered(k)
      PROVE  /\ halfway' \in [Connection -> Seq(H)]
             /\ stream' \in [Connection -> Seq(PieceOf(H))]
             /\ UNCHANGED <<got, result, issued, current, opened, open>>
  <2> DEFINE piece == [kind |-> "header", of |-> Head(pending[k])]
  <2>1. Head(pending[k]) \in H
    <3>1. Head(pending[k]) \in Request
      BY <1>8 DEF Answered, AnswerHeader
    <3> QED BY <1>h, <1>8, <3>1 DEF Answered, Handled
  <2>2. piece \in PieceOf(H)
    BY <2>1 DEF PieceOf
  <2>3. /\ stream' = [stream EXCEPT ![k] = Append(stream[k], piece)]
        /\ halfway' = [halfway EXCEPT ![k] = <<Head(pending[k])>>]
        /\ UNCHANGED <<connVars, callVars>>
    BY <1>8 DEF Answered, AnswerHeader, Arrives
  <2> HIDE DEF piece
  <2> QED BY <1>1, <2>1, <2>2, <2>3 DEF connVars, callVars
<1> QED BY <1>1, <1>5, <1>6, <1>7, <1>8 DEF ClientSteps

-----------------------------------------------------------------------------
(***************************************************************************)
(* The theorems.                                                           *)
(***************************************************************************)
\* A step of client and server is one of the client, or leaves it as it is.
LEMMA StepOfClient == [NextWithServer]_allVars => [Next]_vars
BY DEF NextWithServer, Write, Serve, Answered, ClientSteps, Next, allVars

\* The invariants of the client and the server's hold at first ...
LEMMA InvariantWithServerInit == InitWithServer => IInv /\ Whole /\ ServerInv
<1> SUFFICES ASSUME InitWithServer PROVE IInv /\ Whole /\ ServerInv
  OBVIOUS
<1>1. IInv /\ Whole
  BY InvariantInit, WholeInit DEF InitWithServer
<1>2. ServerInv
  <2>1. ResponsesHandled
    <3>1. <<>> \in Seq(Handled) /\ <<>> \in Seq(PieceOf(Handled))
      OBVIOUS
    <3>2. \A p \in Caller : result[p].outcome = "none"
      BY DEF InitWithServer, Init, Unanswered, Returned
    <3>3. got \in [Caller -> Maybe(Handled)]
      BY DEF InitWithServer, Init, Maybe, Garbage, NoRequest
    <3>4. halfway \in [Connection -> Seq(Handled)] /\ stream \in [Connection -> Seq(PieceOf(Handled))]
      <4> HIDE DEF Handled
      <4> QED BY <3>1 DEF InitWithServer, Init
    <3> QED BY <3>2, <3>3, <3>4 DEF ResponsesHandled
  <2>2. DOMAIN effect = {} /\ issued = 0 /\ route = <<>>
    BY DEF InitWithServer, Init
  <2>3. \A k \in Connection : inbox[k] = <<>> /\ DOMAIN inbox[k] = {}
    <3>1. \A k \in Connection : inbox[k] = <<>>
      BY DEF InitWithServer
    <3> QED BY <3>1
  <2>4. Queues
    <3>1. inbox \in [Connection -> Seq(Request)]
      BY DEF InitWithServer
    <3>2. route \in Seq(Connection \cup {None}) /\ Len(route) = issued
      BY <2>2
    <3> QED BY <2>2, <2>3, <3>1, <3>2 DEF Queues
  <2>5. InOrder
    <3>1. current <= opened
      BY DEF InitWithServer, Init, None
    <3>2. 1 .. issued = {}
      BY <2>2
    <3> QED BY <2>3, <3>1, <3>2 DEF InOrder
  <2> QED BY <2>1, <2>4, <2>5 DEF ServerInv
<1> QED BY <1>1, <1>2

\* ... and every step of client and server keeps them.
LEMMA InvariantWithServerStep ==
    ASSUME IInv, Whole, ServerInv, [NextWithServer]_allVars
    PROVE  IInv' /\ Whole' /\ ServerInv'
<1>1. IInv' /\ Control /\ Control'
  BY InvariantStep, StepOfClient DEF IInv
<1>w. Whole'
  BY <1>1, WholeStep, StepOfClient
<1>2. pending \in [Connection -> Seq(Request)]
  <2>1. PICK S \in SUBSET Request : pending \in [Connection -> Seq(S)]
    BY DEF IInv, Carries
  <2> QED BY <2>1
<1>3. CASE ClientSteps \/ \E k \in Connection : Answered(k)
  BY <1>1, <1>w, <1>2, <1>3, ClientStep
<1>4. CASE UNCHANGED allVars
  BY <1>1, <1>w, <1>4 DEF allVars, vars, connVars, deviceVars, streamVars, callVars, serverVars,
     ServerInv, ResponsesHandled, Handled, Queues, InOrder, Reached, Waiting
<1> QED BY <1>1, <1>w, <1>3, <1>4, ServeStep, WriteStep DEF NextWithServer

\* They are inductive together.
THEOREM InvariantWithServer == SpecWithServer => [](IInv /\ Whole /\ ServerInv)
BY InvariantWithServerInit, InvariantWithServerStep, PTL DEF SpecWithServer

\* Without a repeated transaction id an accepted header is the call's own.
LEMMA AcceptedIsCalls ==
    ASSUME MaxRequests <= TidMax, IInv, NEW p \in Caller, result[p].outcome = "ok"
    PROVE  result[p].header = request[p] /\ request[p] \in Request
<1>1. PICK S \in SUBSET Request : Carries(S) /\ Spaced(S)
  BY DEF IInv
<1>2. /\ request[p] \in S /\ result[p].header \in S
      /\ result[p].header.tid = request[p].tid
  BY <1>1 DEF Carries
<1>3. /\ request[p].id \in 1 .. MaxRequests
      /\ result[p].header.id \in 1 .. MaxRequests
  BY <1>2 DEF Request
<1>4. ~(result[p].header.id < request[p].id) /\ ~(request[p].id < result[p].header.id)
  BY <1>1, <1>2, <1>3, ClientAssumption DEF Spaced
<1>5. result[p].header.id = request[p].id
  BY <1>3, <1>4, ClientAssumption
<1> QED BY <1>1, <1>2, <1>5 DEF Spaced

\* When a call has returned, no earlier request on its connection is still to
\* take effect, so that none that timed out can undo what it has done.
THEOREM OldRequestsAreDoneAlways ==
    ASSUME MaxRequests <= TidMax
    PROVE  SpecWithServer => []OldRequestsAreDone
<1>1. IInv /\ Whole /\ ServerInv => OldRequestsAreDone
  <2> SUFFICES ASSUME IInv, ServerInv, NEW p \in Caller, result[p].outcome = "ok",
                      NEW i \in 1 .. request[p].id, route[i] = route[request[p].id]
               PROVE  i \in DOMAIN effect
    BY DEF OldRequestsAreDone
  <2>1. PICK j : j = request[p].id
    OBVIOUS
  <2>2. j \in DOMAIN effect /\ j \in 1 .. issued /\ i \in 1 .. j /\ i \in 1 .. issued
    <3>1. result[p].header = request[p] /\ result[p].header \in Handled
      BY AcceptedIsCalls DEF ServerInv, ResponsesHandled
    <3>2. j \in DOMAIN effect /\ j \in 1 .. issued /\ i \in 1 .. j
      BY <2>1, <3>1 DEF Handled, ServerInv, Queues
    <3>3. issued \in Nat
      BY DEF IInv, Control
    <3> QED BY <3>2, <3>3
  <2>3. ~Waiting(i)
    <3> SUFFICES ASSUME NEW k \in Connection, NEW n \in DOMAIN inbox[k], inbox[k][n].id = i
                 PROVE  FALSE
      BY DEF Waiting
    <3>1. route[j] = k
      BY <2>1 DEF ServerInv, Queues
    <3>2. j < i
      BY <2>2, <3>1 DEF ServerInv, InOrder
    <3> QED BY <2>2, <3>2
  <2>4. ~Reached(i) => i < j /\ ~Reached(j)
    <3>1. ~Reached(i) => i # j
      BY <2>2 DEF Reached
    <3> QED BY <2>1, <2>2, <3>1 DEF ServerInv, InOrder
  <2> QED BY <2>2, <2>3, <2>4 DEF Reached
<1> QED BY <1>1, InvariantWithServer, PTL
-----------------------------------------------------------------------------
(***************************************************************************)
(* The refinement.                                                         *)
(***************************************************************************)
\* A step of p takes bytes only from callers who await a PDU.
LEMMA CrossesFacts ==
    ASSUME NEW p \in Caller, Drained(p) \/ Resume(p) \/ Timeout(p)
    PROVE  /\ p \in crossed' <=> p \in crossed
           /\ \A q \in Caller \ {p} :
                 pc[q] = "idle" => (q \in crossed' <=> q \in crossed)
<1>1. \/ crossed' = crossed
      \/ \E k : crossed' = crossed \cup {q \in Caller \ {p} : pc[q] = "pdu" /\ on[q] = k}
  BY DEF Drained, Resume, Timeout, Crosses
<1> QED BY <1>1

\* A receive ends a call under its own header, or with no response, or goes on.
LEMMA ReceiveIsOfCall ==
    ASSUME MaxRequests <= TidMax, IInv, IInv', NEW p \in Caller,
           Drained(p) \/ Resume(p) \/ Timeout(p)
    PROVE  /\ pc[p] \in {"drain", "header", "pdu"}
           /\ UNCHANGED <<issued, request>>
           /\ \A q \in Caller \ {p} : pc'[q] = pc[q] /\ result'[q] = result[q]
           /\ result'[p].outcome = "ok" => result'[p].header = request[p]
<1>1. PICK S \in SUBSET Request : Carries(S)
  BY DEF IInv
<1>2. /\ pc[p] \in {"drain", "header", "pdu"}
      /\ UNCHANGED <<issued, request>>
  <2>1. Control /\ stream \in [Connection -> Seq(PieceOf(S))] /\ got \in [Caller -> Maybe(S)]
    BY <1>1 DEF IInv, Carries
  <2>2. /\ pc[p] \in {"drain", "header", "pdu"}
        /\ CallLeaves /\ UNCHANGED <<pending, nextTid, issued, request>>
        /\ woken' = woken \ {p} /\ crossed' \subseteq Caller
        /\ \E k \in Connection : \E w \in {None, waiter[k]} :
              /\ Received(p, k, w, S)
              /\ w # p
              /\ \A other \in Connection \ {k} : waiter[other] # p
    BY <2>1, CallReceives, ZenonT(60)
  <2> QED BY <2>2
<1>3. OnlyMoves(p)
  BY <1>1, CallKeeps DEF IInv
<1>4. (result[p].outcome = "ok" => result[p].header = request[p])'
  BY AcceptedIsCalls, PTL
<1> QED BY <1>2, <1>3, <1>4 DEF OnlyMoves

\* What is unchanged for the users of the client when a call is.
LEMMA StutterFacts ==
    ASSUME UNCHANGED <<issued, request, effect, inbox, store, crossed>>,
           \A q \in Caller : pc'[q] = pc[q] /\ result'[q] = result[q]
    PROVE  UNCHANGED Remote!vars
<1>1. Sent' = Sent
  BY DEF Sent
<1>2. \A q \in Caller : Call(q)' = Call(q)
  BY DEF Call, Answers
<1> QED BY <1>1, <1>2 DEF Remote!vars

\* The initial states are RemoteStore's.
LEMMA InitRefines == InitWithServer => Remote!Init
<1> SUFFICES ASSUME InitWithServer PROVE Remote!Init
  OBVIOUS
<1>1. Sent = {}
  BY DEF InitWithServer, Init, Sent
<1>2. \A p \in Caller : Call(p) = [id |-> 0, outcome |-> "failed", value |-> 0]
  BY DEF InitWithServer, Init, Call, Answers, Unanswered, Returned, NoRequest, None
<1> QED BY <1>1, <1>2 DEF InitWithServer, Init, Remote!Init, Remote!Failed

\* Handling a request is the call's effect.
LEMMA ServeRefines ==
    ASSUME IInv, Whole, ServerInv, NEW k \in Connection, Serve(k)
    PROVE  \E i \in 1 .. MaxRequests : Remote!TakeEffect(i)
<1>1. PICK i : i = Head(inbox[k]).id
  OBVIOUS
<1>2. /\ i \in Sent \ DOMAIN effect /\ Sent' = Sent
      /\ store' = IF i \in Writes THEN i ELSE store
      /\ effect' = [j \in DOMAIN effect \cup {i} |-> IF j = i THEN store' ELSE effect[j]]
      /\ UNCHANGED vars
  BY <1>1, ServeStep DEF Serve, IInv
<1>3. UNCHANGED <<issued, request, pc, result, crossed>>
  BY <1>2 DEF vars, callVars
<1>4. ASSUME NEW q \in Caller PROVE Call(q)' = Call(q)
  <2>1. Answers(q) => effect'[result[q].body.id] = effect[result[q].body.id]
    BY <1>2 DEF Answers, Whole, ServerInv, ResponsesHandled, Handled
  <2>2. Answers(q)' <=> Answers(q)
    BY <1>3 DEF Answers
  <2> QED BY <1>3, <2>1, <2>2 DEF Call
<1>5. i \in 1 .. MaxRequests
  BY <1>2, ClientAssumption DEF Sent, IInv, Control
<1> QED BY <1>2, <1>3, <1>4, <1>5 DEF Remote!TakeEffect

\* execute is a call, which is sent, or lost, or fails at once.
LEMMA WriteRefines ==
    ASSUME IInv, ServerInv, NEW p \in Caller, Write(p)
    PROVE  Remote!Invoke(p) \/ Remote!Refuse(p)
<1>1. Sent' = Sent \cup (IF current \in open THEN {issued'} ELSE {})
  BY WriteStep
<1>2. /\ pc[p] = "idle" /\ issued' = issued + 1 /\ issued + 1 \in 1 .. MaxRequests
      /\ UNCHANGED <<store, effect>>
      /\ request' = [request EXCEPT ![p] = [id |-> issued', tid |-> nextTid]]
  BY ClientAssumption DEF Write, Execute, IInv, Control
<1>3. /\ pc \in [Caller \cup Manager -> Awaits] /\ DOMAIN request = Caller
      /\ DOMAIN result = Caller /\ None \notin open
  BY DEF IInv, Control, Carries, None
<1>4. \A q \in Caller \ {p} : Call(q)' = Call(q)
  <2>1. \A q \in Caller \ {p} :
           /\ pc'[q] = pc[q] /\ result'[q] = result[q] /\ request'[q] = request[q]
           /\ q \in crossed' <=> q \in crossed
    BY <1>3 DEF Write, Execute, Fails, Ended
  <2> QED BY <1>2, <2>1 DEF Call, Answers
<1>5. Call(p).outcome = "pending" <=> FALSE
  BY <1>2 DEF Call
<1>6. CASE current = None
  <2>1. pc'[p] = "idle" /\ result'[p].outcome = "ModbusConnectionError"
    BY <1>3, <1>6 DEF Write, Execute, Fails, Ended, Returned
  <2>2. Call(p)' = [id |-> issued', outcome |-> "failed", value |-> 0]
    BY <1>2, <1>3, <2>1 DEF Call, Answers
  <2> QED BY <1>1, <1>2, <1>3, <1>4, <1>5, <1>6, <2>2 DEF Remote!Refuse, Remote!Failed
<1>7. CASE current # None
  <2>1. pc'[p] = "drain"
    BY <1>3, <1>7 DEF Write, Execute
  <2>2. Call(p)' = [id |-> issued', outcome |-> "pending", value |-> 0]
    BY <1>2, <1>3, <2>1 DEF Call
  <2> QED BY <1>1, <1>2, <1>4, <1>5, <2>2 DEF Remote!Invoke, Remote!Pending
<1> QED BY <1>6, <1>7

\* The end of a call is a return or a failure.
LEMMA ReceiveRefines ==
    ASSUME MaxRequests <= TidMax, IInv, IInv', Whole', ServerInv', NEW p \in Caller,
           Drained(p) \/ Resume(p) \/ Timeout(p), UNCHANGED serverVars
    PROVE  Remote!Return(p) \/ Remote!Fail(p) \/ UNCHANGED Remote!vars
<1>1. /\ pc[p] \in {"drain", "header", "pdu"}
      /\ UNCHANGED <<issued, request>>
      /\ \A q \in Caller \ {p} : pc'[q] = pc[q] /\ result'[q] = result[q]
      /\ result'[p].outcome = "ok" => result'[p].header = request[p]
  BY ReceiveIsOfCall
<1>c. \A q \in Caller \ {p} : pc[q] = "idle" => (q \in crossed' <=> q \in crossed)
  BY CrossesFacts
<1>2. UNCHANGED <<store, effect, inbox>>
  BY DEF serverVars
<1>3. Sent' = Sent
  BY <1>1, <1>2 DEF Sent
<1>4. \A q \in Caller \ {p} : Call(q)' = Call(q)
  BY <1>1, <1>2, <1>c DEF Call, Answers
<1>5. Call(p) = [id |-> request[p].id, outcome |-> "pending", value |-> 0]
  BY <1>1 DEF Call
<1>6. CASE pc'[p] # "idle"
  <2>1. Call(p)' = Call(p)
    BY <1>1, <1>5, <1>6 DEF Call
  <2> QED BY <1>1, <1>2, <1>3, <1>4, <2>1 DEF Remote!vars
<1>7. CASE pc'[p] = "idle" /\ Answers(p)'
  <2>0. result'[p].body = request[p]
    BY <1>1, <1>7 DEF Whole, Answers
  <2>1. request[p].id \in DOMAIN effect
    BY <1>1, <1>2, <1>7 DEF ServerInv, ResponsesHandled, Handled, Answers
  <2>2. Call(p)' = [id |-> request[p].id, outcome |-> "returned",
                    value |-> effect[request[p].id]]
    BY <1>1, <1>2, <1>7, <2>0 DEF Call
  <2> DEFINE calls == [q \in Caller |-> Call(q)]
  <2>3. calls[p].outcome = "pending" /\ calls[p].id = request[p].id
    BY <1>5
  <2>4. calls' = [calls EXCEPT ![p] = Remote!Returned(request[p].id, effect[request[p].id])]
    BY <1>4, <2>2 DEF Remote!Returned
  <2> QED BY <1>1, <1>2, <1>3, <2>1, <2>3, <2>4 DEF Remote!Return
<1>8. CASE pc'[p] = "idle" /\ ~Answers(p)'
  <2>1. Call(p)' = [id |-> request[p].id, outcome |-> "failed", value |-> 0]
    BY <1>1, <1>8 DEF Call
  <2> DEFINE calls == [q \in Caller |-> Call(q)]
  <2>2. calls[p].outcome = "pending" /\ calls[p].id = request[p].id
    BY <1>5
  <2>3. calls' = [calls EXCEPT ![p] = Remote!Failed(request[p].id)]
    BY <1>4, <2>1 DEF Remote!Failed
  <2> QED BY <1>1, <1>2, <1>3, <2>2, <2>3 DEF Remote!Fail
<1> QED BY <1>6, <1>7, <1>8

\* Every step is a step of RemoteStore or leaves it as it is.
LEMMA StepRefines ==
    ASSUME MaxRequests <= TidMax, IInv, Whole, ServerInv, IInv', Whole', ServerInv',
           [NextWithServer]_allVars
    PROVE  [Remote!Next]_(Remote!vars)
<1>1. ASSUME NEW p \in Caller, Write(p) PROVE Remote!Next
  BY <1>1, WriteRefines DEF Remote!Next
<1>2. ASSUME NEW k \in Connection, Serve(k) PROVE Remote!Next
  BY <1>2, ServeRefines DEF Remote!Next
<1>3. ASSUME NEW k \in Connection, Answered(k) PROVE UNCHANGED Remote!vars
  BY <1>3, StutterFacts DEF Answered, AnswerHeader, Arrives, callVars, serverVars
<1>4. ASSUME NEW p \in Caller, Drained(p) \/ Resume(p) \/ Timeout(p), UNCHANGED serverVars
      PROVE  Remote!Next \/ UNCHANGED Remote!vars
  BY <1>4, ReceiveRefines DEF Remote!Next
<1>5. ASSUME NEW m \in Manager, UNCHANGED serverVars,
             \/ BeginConnect(m) \/ Flushed(m) \/ ConnectSucceeds(m)
             \/ ConnectFails(m) \/ BeginClose(m) \/ CloseReturns(m)
      PROVE  UNCHANGED Remote!vars
  <2>1. UNCHANGED <<issued, request, result, crossed>> /\ \E a : pc' \in {pc, [pc EXCEPT ![m] = a]}
    BY <1>5 DEF BeginConnect, Flushed, ConnectSucceeds, ConnectFails, BeginClose,
       CloseReturns, callVars
  <2>2. \A q \in Caller : pc'[q] = pc[q]
    BY <2>1, ClientAssumption DEF IInv, Control
  <2> QED BY <1>5, <2>1, <2>2, StutterFacts DEF serverVars
<1>6. ASSUME NEW k \in Connection, UNCHANGED serverVars,
             AnswerPDU(k) \/ ConnectionLost(k) \/ PeerStalls(k)
      PROVE  UNCHANGED Remote!vars
  BY <1>6, StutterFacts DEF AnswerPDU, Arrives, ConnectionLost, PeerStalls, callVars,
     serverVars
<1>7. CASE UNCHANGED allVars
  BY <1>7, StutterFacts DEF allVars, vars, callVars, serverVars
<1> QED BY <1>1, <1>2, <1>3, <1>4, <1>5, <1>6, <1>7 DEF NextWithServer, ClientSteps

\* Client and server together are a register with atomic calls, for any
\* callers, connections, reads and writes, while no transaction id repeats: a
\* call that returns, and between whose two receives no other call read from
\* its connection, returns what its own effect gave.
THEOREM ClientServerRefines ==
    ASSUME MaxRequests <= TidMax
    PROVE  SpecWithServer => ImplementsRemoteStore
<1>1. IInv /\ Whole /\ ServerInv /\ IInv' /\ Whole' /\ ServerInv' /\ [NextWithServer]_allVars
        => [Remote!Next]_(Remote!vars)
  BY StepRefines
<1> QED BY <1>1, InitRefines, InvariantWithServer, PTL
     DEF SpecWithServer, ImplementsRemoteStore, Remote!Spec
=============================================================================
