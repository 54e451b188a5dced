----------------------- MODULE SimulatorLifecycleProofs -----------------------
(***************************************************************************)
(* Proofs about SimulatorLifecycle: for any callers, any factories, any    *)
(* number of servers, tasks and clients, a fixed port or port 0, and either*)
(* way of wait_closed.                                                     *)
(***************************************************************************)
EXTENDS SimulatorLifecycle, TLAPS

\* Servers are numbered as they are opened.
Numbered ==
    /\ TypeOK /\ Len(made) <= MaxTasks
    /\ listening \subseteq 1 .. opened /\ server <= opened
    /\ \A p \in Caller : subject[p] <= opened
    /\ accepted \in 0 .. MaxClients /\ \A s \in Server : clients[s] <= accepted

\* A fixed port has one listener; a start that awaits has its own, which is not
\* the simulator's server yet; a stop that awaits wait_closed has closed its.
Sockets ==
    /\ FixedPort => \A s, t \in listening : s = t
    /\ \A p \in Caller : pc[p] = "starting" =>
          subject[p] \in listening /\ subject[p] # server
    /\ \A p, q \in Caller : pc[p] = "starting" /\ pc[q] = "starting" /\ subject[p] = subject[q]
          => p = q
    /\ \A p \in Caller : pc[p] = "closing" => subject[p] \notin listening
    /\ last = "started" => server # None
    /\ last = "stopped" => server = None

\* Without a second start the one that awaits finds no server; and as long as no
\* stop awaits together with a start, a stop that awaits wait_closed has closed
\* the simulator's server, or a stop before it has forgotten that already.
Meetings ==
    /\ "two starts" \notin overlap =>
          /\ \A p, q \in Starting : p = q
          /\ Starting # {} => server = None
    /\ "start and stop" \notin overlap =>
          /\ Starting = {} \/ Stopping = {}
          /\ \A p \in Caller : pc[p] = "closing" => server \in {subject[p], None}
    /\ NoOrphanListener

\* No factory is added twice, and no two tasks of the list have one factory.
OneEach ==
    /\ \A i, j \in DOMAIN factories : factories[i] = factories[j] => i = j
    /\ \A t \in DOMAIN made : \E i \in DOMAIN factories : made[t] = factories[i]
    /\ \A t, u \in tasks : made[t] = made[u] => t = u

Covered == \A i \in DOMAIN factories : \E t \in tasks : made[t] = factories[i]

\* As long as stops are apart, there is one stop at a time, what it gathers is
\* the list, and whatever is live is on the list.
Serial ==
    /\ server = None => tasks = {}
    /\ \A t \in Task : Live(t) => t \in tasks
    /\ \A p \in Caller : pc[p] = "gathering" => awaited[p] = tasks
    /\ \A p \in Caller : pc[p] = "closing" => tasks = {}
    /\ \A p, q \in Stopping : p = q
    /\ "stop" \notin cancelled /\ server # None =>
          /\ (\A p \in Caller : pc[p] # "closing") => server \in listening
          /\ Stopping = {} => Covered

LInv == Numbered /\ Sockets /\ Meetings /\ OneEach /\ (StopsAreApart => Serial)

-----------------------------------------------------------------------------
(***************************************************************************)
(* The types in three parts: what each step changes is in one or two.      *)
(***************************************************************************)
Calls ==
    /\ pc \in [Caller -> {"idle", "resolving", "starting", "gathering", "closing"}]
    /\ server \in Server \cup {None} /\ server <= opened
    /\ listening \subseteq Server /\ listening \subseteq 1 .. opened
    /\ opened \in 0 .. MaxServers
    /\ subject \in [Caller -> Server \cup {None}]
    /\ awaited \in [Caller -> SUBSET Task]
    /\ \A p \in Caller : /\ pc[p] \in {"starting", "closing"} <=> subject[p] # None
                         /\ pc[p] = "gathering" <=> awaited[p] # {}
                         /\ subject[p] <= opened
    /\ last \in {"none", "started", "stopped", "failed", "cancelled"}
    /\ overlap \subseteq {"stop and call", "start and stop", "two starts"}
    /\ cancelled \subseteq {"start", "stop"}

Connections ==
    /\ clients \in [Server -> 0 .. MaxClients]
    /\ accepted \in 0 .. MaxClients /\ \A s \in Server : clients[s] <= accepted

Lists ==
    /\ factories \in Seq(Factory) /\ made \in Seq(Factory) /\ Len(made) <= MaxTasks
    /\ tasks \subseteq DOMAIN made
    /\ state \in [Task -> {"none", "running", "cancelling", "done"}]

\* The parts are the whole, now and after a step.
LEMMA NumberedParts ==
    /\ Numbered <=> Calls /\ Connections /\ Lists
    /\ Numbered' <=> Calls' /\ Connections' /\ Lists'
BY DEF Numbered, TypeOK, Calls, Connections, Lists

-----------------------------------------------------------------------------
(***************************************************************************)
(* Creating tasks.                                                         *)
(***************************************************************************)
\* Each factory of the list has a new task, which runs; nothing else changes.
LEMMA CreateTasksFacts ==
    ASSUME Numbered, NEW list \in Seq(Factory), CreateTasks(list)
    PROVE  /\ made' \in Seq(Factory) /\ Len(made') <= MaxTasks
           /\ DOMAIN made \subseteq DOMAIN made'
           /\ \A t \in DOMAIN made : made'[t] = made[t]
           /\ \A t \in DOMAIN made' \ DOMAIN made :
                 \E i \in DOMAIN list : t = Len(made) + i /\ made'[t] = list[i]
           /\ \A i \in DOMAIN list :
                 Len(made) + i \in tasks' \ DOMAIN made /\ made'[Len(made) + i] = list[i]
           /\ tasks' = tasks \cup (DOMAIN made' \ DOMAIN made)
           /\ \A t \in Task : state'[t] = IF t \in DOMAIN made' \ DOMAIN made
                                            THEN "running" ELSE state[t]
           /\ DOMAIN state' = Task
<1>1. made \in Seq(Factory) /\ tasks \subseteq DOMAIN made
  BY DEF Numbered, TypeOK
<1>2. /\ Len(made) \in Nat /\ DOMAIN made = 1 .. Len(made)
      /\ Len(list) \in Nat /\ DOMAIN list = 1 .. Len(list)
  BY <1>1
<1>3. /\ made' = made \o list /\ Len(made) + Len(list) <= MaxTasks
      /\ tasks' = tasks \cup {Len(made) + i : i \in 1 .. Len(list)}
      /\ state' = [t \in Task |-> IF t \in {Len(made) + i : i \in 1 .. Len(list)}
                                   THEN "running" ELSE state[t]]
  BY DEF CreateTasks
<1>4. /\ made' \in Seq(Factory) /\ Len(made') = Len(made) + Len(list)
      /\ DOMAIN made' = 1 .. Len(made) + Len(list)
      /\ \A t \in 1 .. Len(made) : made'[t] = made[t]
      /\ \A i \in 1 .. Len(list) : made'[Len(made) + i] = list[i]
  BY <1>1, <1>3
<1>5. DOMAIN made' \ DOMAIN made = {Len(made) + i : i \in 1 .. Len(list)}
  <2>1. ASSUME NEW t \in DOMAIN made' \ DOMAIN made
        PROVE  \E i \in 1 .. Len(list) : t = Len(made) + i
    <3>1. t - Len(made) \in 1 .. Len(list) /\ t = Len(made) + (t - Len(made))
      BY <1>2, <1>4
    <3> QED BY <3>1
  <2>2. \A i \in 1 .. Len(list) : Len(made) + i \in DOMAIN made' \ DOMAIN made
    BY <1>2, <1>4
  <2> QED BY <2>1, <2>2
<1>6. \A t \in DOMAIN made' \ DOMAIN made :
         \E i \in DOMAIN list : t = Len(made) + i /\ made'[t] = list[i]
  BY <1>2, <1>4, <1>5
<1>7. \A i \in DOMAIN list :
         Len(made) + i \in tasks' \ DOMAIN made /\ made'[Len(made) + i] = list[i]
  BY <1>2, <1>3, <1>4
<1>8. DOMAIN made \subseteq DOMAIN made' /\ Len(made') <= MaxTasks
  BY <1>2, <1>3, <1>4
<1> QED BY <1>2, <1>3, <1>4, <1>5, <1>6, <1>7, <1>8

\* The types of what CreateTasks changes.
LEMMA CreateTasksTypes ==
    ASSUME Numbered, NEW list \in Seq(Factory), CreateTasks(list)
    PROVE  /\ made' \in Seq(Factory) /\ Len(made') <= MaxTasks
           /\ tasks' \subseteq DOMAIN made'
           /\ state' \in [Task -> {"none", "running", "cancelling", "done"}]
<1>1. /\ made' \in Seq(Factory) /\ Len(made') <= MaxTasks
      /\ DOMAIN made \subseteq DOMAIN made'
      /\ tasks' = tasks \cup (DOMAIN made' \ DOMAIN made)
  BY CreateTasksFacts
<1>2. state' \in [Task -> {"none", "running", "cancelling", "done"}]
  BY DEF CreateTasks, Numbered, TypeOK
<1> QED BY <1>1, <1>2 DEF Numbered, TypeOK

\* The types of what StartTasks changes.
LEMMA StartTasksTypes ==
    ASSUME Numbered, StartTasks
    PROVE  /\ made' \in Seq(Factory) /\ Len(made') <= MaxTasks
           /\ tasks' \subseteq DOMAIN made'
           /\ state' \in [Task -> {"none", "running", "cancelling", "done"}]
<1>1. CASE tasks # {}
  BY <1>1 DEF StartTasks, Numbered, TypeOK
<1>2. CASE tasks = {}
  BY <1>2, CreateTasksTypes DEF StartTasks, Numbered, TypeOK
<1> QED BY <1>1, <1>2

\* Each factory has its one task once a list that was empty is filled.
LEMMA StartTasksFacts ==
    ASSUME Numbered, OneEach, UNCHANGED factories, StartTasks
    PROVE  /\ OneEach'
           /\ tasks = {} \/ Covered => Covered'
           /\ tasks # {} => UNCHANGED <<tasks, made, state>>
           /\ \A t \in Task : Live(t)' => Live(t) \/ t \in tasks'
<1>1. CASE tasks # {}
  BY <1>1 DEF StartTasks, OneEach, Covered, Live
<1>2. CASE tasks = {}
  <2> factories \in Seq(Factory) /\ CreateTasks(factories)
    BY <1>2 DEF StartTasks, Numbered, TypeOK
  <2>1. /\ \A t \in DOMAIN made : made'[t] = made[t]
        /\ \A t \in DOMAIN made' \ DOMAIN made :
              \E i \in DOMAIN factories : t = Len(made) + i /\ made'[t] = factories[i]
        /\ \A i \in DOMAIN factories :
              Len(made) + i \in tasks' \ DOMAIN made /\ made'[Len(made) + i] = factories[i]
        /\ tasks' = DOMAIN made' \ DOMAIN made
        /\ \A t \in Task : state'[t] = IF t \in DOMAIN made' \ DOMAIN made
                                         THEN "running" ELSE state[t]
    BY <1>2, CreateTasksFacts
  <2>2. Covered'
    BY <2>1 DEF Covered
  <2>3. OneEach'
    <3>1. \A t \in DOMAIN made' : \E i \in DOMAIN factories : made'[t] = factories[i]
      BY <2>1 DEF OneEach
    <3>2. \A t, u \in tasks' : made'[t] = made'[u] => t = u
      <4> TAKE t, u \in tasks'
      <4>1. PICK i \in DOMAIN factories : t = Len(made) + i /\ made'[t] = factories[i]
        BY <2>1
      <4>2. PICK j \in DOMAIN factories : u = Len(made) + j /\ made'[u] = factories[j]
        BY <2>1
      <4> QED BY <4>1, <4>2 DEF OneEach
    <3> QED BY <3>1, <3>2 DEF OneEach
  <2> QED BY <1>2, <2>1, <2>2, <2>3 DEF Live
<1> QED BY <1>1, <1>2

\* add_task keeps the list: its factory is a new one.
LEMMA AddTaskFacts ==
    ASSUME Numbered, OneEach, NEW f \in Factory, AddTask(f)
    PROVE  /\ Numbered' /\ OneEach'
           /\ server # None /\ Covered => Covered'
           /\ server = None => UNCHANGED <<tasks, made, state>>
           /\ \A t \in Task : Live(t)' => Live(t) \/ t \in tasks'
<1> DEFINE n == Len(factories) + 1
<1>1. /\ factories \in Seq(Factory) /\ factories' = Append(factories, f)
      /\ \A i \in DOMAIN factories : factories[i] # f
  BY DEF AddTask, Numbered, TypeOK
<1>0. /\ overlap' \subseteq {"stop and call", "start and stop", "two starts"}
      /\ cancelled' = cancelled
      /\ UNCHANGED <<pc, serverVars, clientVars, awaited, last>>
  BY DEF AddTask, NoteOverlap, Overlaps, Numbered, TypeOK
<1>2. /\ factories' \in Seq(Factory) /\ n \in DOMAIN factories' /\ factories'[n] = f
      /\ DOMAIN factories' = DOMAIN factories \cup {n}
      /\ \A i \in DOMAIN factories : factories'[i] = factories[i]
  BY <1>1
<1>3. \A i, j \in DOMAIN factories' : factories'[i] = factories'[j] => i = j
  <2> HIDE DEF n
  <2> QED BY <1>1, <1>2 DEF OneEach
<1>4. CASE server = None
  <2>1. UNCHANGED <<tasks, made, state>>
    BY <1>4 DEF AddTask
  <2>2. Numbered'
    BY <1>0, <1>2, <2>1, NumberedParts DEF Calls, Connections, Lists, serverVars, clientVars
  <2>3. OneEach'
    BY <1>2, <1>3, <2>1 DEF OneEach
  <2> QED BY <1>4, <2>1, <2>2, <2>3 DEF Live
<1>5. CASE server # None
  <2> CreateTasks(<<f>>) /\ <<f>> \in Seq(Factory)
    BY <1>5 DEF AddTask
  <2> DEFINE new == Len(made) + 1
  <2>1. /\ \A t \in DOMAIN made : made'[t] = made[t]
        /\ \A t \in DOMAIN made' \ DOMAIN made : t = new /\ made'[t] = f
        /\ new \in tasks' /\ made'[new] = f
        /\ tasks' = tasks \cup (DOMAIN made' \ DOMAIN made)
        /\ \A t \in Task : state'[t] = IF t \in DOMAIN made' \ DOMAIN made
                                         THEN "running" ELSE state[t]
    <3> DEFINE list == <<f>>
    <3>1. list \in Seq(Factory) /\ CreateTasks(list)
      OBVIOUS
    <3>2. DOMAIN list = {1} /\ list[1] = f
      OBVIOUS
    <3> HIDE DEF list
    <3> QED BY <3>1, <3>2, CreateTasksFacts
  <2>2. Numbered'
    <3>1. /\ made' \in Seq(Factory) /\ Len(made') <= MaxTasks
          /\ tasks' \subseteq DOMAIN made'
          /\ state' \in [Task -> {"none", "running", "cancelling", "done"}]
      BY CreateTasksTypes
    <3> QED BY <1>0, <1>2, <3>1, NumberedParts DEF Calls, Connections, Lists, serverVars, clientVars
  <2> HIDE DEF new, n
  <2>3. \A t \in DOMAIN made' : \E i \in DOMAIN factories' : made'[t] = factories'[i]
    <3>1. \A t \in DOMAIN made : \E i \in DOMAIN factories' : made'[t] = factories'[i]
      BY <1>2, <2>1 DEF OneEach
    <3> QED BY <1>2, <2>1, <3>1
  <2>4. \A t \in tasks : t \in DOMAIN made /\ made'[t] # f
    <3> SUFFICES ASSUME NEW t \in tasks PROVE t \in DOMAIN made /\ made'[t] # f
      OBVIOUS
    <3>1. t \in DOMAIN made
      BY NumberedParts DEF Lists
    <3>2. PICK i \in DOMAIN factories : made[t] = factories[i]
      BY <3>1 DEF OneEach
    <3> QED BY <1>1, <2>1, <3>1, <3>2
  <2>5. \A t, u \in tasks' : made'[t] = made'[u] => t = u
    BY <2>1, <2>4 DEF OneEach
  <2>6. Covered => Covered'
    <3> SUFFICES ASSUME Covered, NEW i \in DOMAIN factories'
                 PROVE  \E t \in tasks' : made'[t] = factories'[i]
      BY DEF Covered
    <3>1. CASE i = n
      BY <1>2, <2>1, <3>1
    <3>2. CASE i \in DOMAIN factories
      BY <1>2, <2>1, <2>4, <3>2 DEF Covered
    <3> QED BY <1>2, <3>1, <3>2
  <2> QED BY <1>3, <1>5, <2>1, <2>2, <2>3, <2>5, <2>6 DEF OneEach, Live
<1> QED BY <1>4, <1>5

-----------------------------------------------------------------------------
(***************************************************************************)
(* The steps.                                                              *)
(***************************************************************************)
\* What a call notes.
LEMMA CallNotes ==
    ASSUME Numbered, NoteOverlap
    PROVE  /\ overlap \subseteq overlap' /\ cancelled' = cancelled
           /\ overlap' \subseteq {"stop and call", "start and stop", "two starts"}
           /\ "stop and call" \notin overlap' => Stopping = {}
           /\ "start and stop" \notin overlap' => Starting' = {} \/ Stopping' = {}
           /\ "two starts" \notin overlap' => \A p, q \in Starting' : p = q
<1> DEFINE starts == Starting'
           stops == Stopping'
           All == {"stop and call", "start and stop", "two starts"}
<1>1. overlap' = overlap \cup {o \in All :
                    CASE o = "stop and call" -> Stopping # {}
                      [] o = "start and stop" -> starts # {} /\ stops # {}
                      [] o = "two starts" -> \E p, q \in starts : p # q}
      /\ cancelled' = cancelled
  BY DEF NoteOverlap, Overlaps
<1>2. overlap \subseteq All
  BY DEF Numbered, TypeOK
<1> HIDE DEF starts, stops
<1>3. /\ overlap \subseteq overlap' /\ overlap' \subseteq All
      /\ "stop and call" \notin overlap' => Stopping = {}
      /\ "start and stop" \notin overlap' => starts = {} \/ stops = {}
      /\ "two starts" \notin overlap' => \A p, q \in starts : p = q
  BY <1>1, <1>2
<1> QED BY <1>1, <1>3 DEF starts, stops

\* What the steps of starts and stops read.
Range ==
    /\ pc \in [Caller -> {"idle", "resolving", "starting", "gathering", "closing"}]
    /\ subject \in [Caller -> Server \cup {None}]
    /\ opened \in Nat /\ listening \subseteq 1 .. opened /\ None \notin listening
    /\ server \in Server \cup {None} /\ None \notin Server
    /\ \A p \in Caller : pc[p] \in {"starting", "closing"} <=> subject[p] # None
    /\ server \in Nat /\ server <= opened
    /\ \A p \in Caller : subject[p] \in Nat /\ subject[p] <= opened

\* These are all types and numbers.
LEMMA RangeFacts ==
    ASSUME Numbered
    PROVE  Range
<1>1. Calls
  BY NumberedParts
<1>2. None \notin Server /\ Server \cup {None} \subseteq Nat
  BY LifecycleAssumption DEF Server, None
<1>3. opened \in Nat
  <2>1. opened \in 0 .. MaxServers
    BY <1>1 DEF Calls
  <2> QED BY <2>1, LifecycleAssumption
<1>4. /\ server \in Server \cup {None} /\ listening \subseteq Server
      /\ \A p \in Caller : subject[p] \in Server \cup {None}
  BY <1>1 DEF Calls
<1>5. server \in Nat /\ None \notin listening /\ \A p \in Caller : subject[p] \in Nat
  BY <1>2, <1>4
<1> QED BY <1>1, <1>2, <1>3, <1>5 DEF Calls, Range

\* What closing the server comes to.
LEMMA CloseServerFacts ==
    ASSUME Range, NEW p \in Caller, CloseServer(p)
    PROVE  /\ listening' = listening \ {server}
           /\ opened' = opened
           /\ \/ /\ server' = None /\ subject' = subject /\ last' = "stopped"
                 /\ pc' = [pc EXCEPT ![p] = "idle"]
              \/ /\ server' = server /\ server # None /\ last' = "none"
                 /\ pc' = [pc EXCEPT ![p] = "closing"]
                 /\ subject' = [subject EXCEPT ![p] = server]
BY DEF CloseServer, Range

\* The types, and the order in which servers are opened.
LEMMA NumberedStep ==
    ASSUME Numbered, OneEach, [Next]_vars
    PROVE  Numbered'
<1> USE LifecycleAssumption
<1>p. Calls /\ Connections /\ Lists
  BY NumberedParts
<1>q. Calls' /\ Connections' /\ Lists' => Numbered'
  BY NumberedParts
<1>t. Range
  BY RangeFacts
<1>n. NoteOverlap => /\ overlap' \subseteq {"stop and call", "start and stop", "two starts"}
                     /\ cancelled' = cancelled
  BY CallNotes
<1>c. UNCHANGED clientVars => Connections'
  BY <1>p DEF clientVars, Connections
<1>l. UNCHANGED taskVars => Lists'
  BY <1>p DEF taskVars, Lists
<1>k. UNCHANGED <<pc, serverVars, awaited, last, history>> => Calls'
  BY <1>p DEF serverVars, history, Calls
<1>1. ASSUME NEW p \in Caller, StartAgain(p) PROVE Numbered'
  <2>1. Lists'
    BY <1>1, <1>p, StartTasksTypes DEF StartAgain, Lists
  <2>2. Calls' /\ Connections'
    BY <1>1, <1>c, <1>n, <1>p DEF StartAgain, serverVars, Calls
  <2> QED BY <1>q, <2>1, <2>2
<1>2. ASSUME NEW p \in Caller, BeginStart(p) PROVE Numbered'
  <2>1. Calls'
    BY <1>2, <1>n, <1>p DEF BeginStart, serverVars, Calls
  <2> QED BY <1>2, <1>c, <1>l, <1>q, <2>1 DEF BeginStart
<1>b. ASSUME NEW p \in Caller, Bind(p) PROVE Numbered'
  <2>1. UNCHANGED <<server, clientVars, taskVars, awaited, last, history>>
    BY <1>b DEF Bind
  <2>2. /\ opened' = opened + 1 /\ opened < MaxServers /\ opened \in Nat
        /\ opened' \in 0 .. MaxServers
    <3>1. opened \in Nat
      BY <1>t DEF Range
    <3>2. opened' = opened + 1 /\ opened < MaxServers
      BY <1>b DEF Bind
    <3> QED BY <3>1, <3>2
  <2>3. opened' \in Server /\ opened' # None /\ opened' \in 1 .. opened'
    BY <2>2 DEF Server, None
  <2>4. listening' \subseteq Server /\ listening' \subseteq 1 .. opened'
    <3>1. listening' = listening \cup {opened'}
      BY <1>b DEF Bind
    <3>2. listening \subseteq Server /\ listening \subseteq 1 .. opened
      BY <1>p DEF Calls
    <3>3. 1 .. opened \subseteq 1 .. opened'
      BY <2>2
    <3> QED BY <2>3, <3>1, <3>2, <3>3
  <2>5. /\ pc[p] = "resolving" /\ pc' = [pc EXCEPT ![p] = "starting"]
        /\ subject' = [subject EXCEPT ![p] = opened']
    BY <1>b DEF Bind
  <2>6. /\ server' \in Server \cup {None} /\ server' <= opened'
        /\ \A q \in Caller : subject'[q] <= opened'
    <3>1. /\ server \in Server \cup {None} /\ server \in Nat /\ server <= opened
          /\ \A q \in Caller : subject[q] \in Nat /\ subject[q] <= opened
      BY <1>t DEF Range
    <3>2. server <= opened' /\ \A q \in Caller : subject[q] <= opened'
      BY <2>2, <3>1
    <3>3. \A q \in Caller : subject'[q] \in {subject[q], opened'}
      BY <1>t, <2>5 DEF Range
    <3>4. opened' <= opened'
      BY <2>2
    <3> QED BY <2>1, <3>1, <3>2, <3>3, <3>4
  <2>7. /\ pc' \in [Caller -> {"idle", "resolving", "starting", "gathering", "closing"}]
        /\ subject' \in [Caller -> Server \cup {None}]
        /\ \A q \in Caller : /\ pc'[q] \in {"starting", "closing"} <=> subject'[q] # None
                             /\ pc'[q] = "gathering" <=> awaited[q] # {}
    BY <1>p, <2>3, <2>5 DEF Calls
  <2>8. Calls'
    BY <1>p, <2>1, <2>2, <2>4, <2>6, <2>7 DEF Calls, history
  <2> QED BY <1>c, <1>l, <1>q, <2>1, <2>8
<1>3. ASSUME NEW p \in Caller, StartFails(p) PROVE Numbered'
  <2>1. Calls'
    BY <1>3, <1>p DEF StartFails, serverVars, history, Calls
  <2> QED BY <1>3, <1>c, <1>l, <1>q, <2>1 DEF StartFails
<1>4. ASSUME NEW p \in Caller, CloseServer(p),
             awaited' \in [Caller -> SUBSET Task], awaited'[p] = {},
             \A q \in Caller \ {p} : awaited'[q] = awaited[q],
             pc[p] \in {"idle", "gathering"},
             overlap' \subseteq {"stop and call", "start and stop", "two starts"},
             cancelled' = cancelled
      PROVE  Calls'
  <2>1. /\ listening' = listening \ {server} /\ opened' = opened
        /\ \/ /\ server' = None /\ subject' = subject /\ last' = "stopped"
              /\ pc' = [pc EXCEPT ![p] = "idle"]
           \/ /\ server' = server /\ server # None /\ last' = "none"
              /\ pc' = [pc EXCEPT ![p] = "closing"]
              /\ subject' = [subject EXCEPT ![p] = server]
    BY <1>4, <1>t, CloseServerFacts
  <2>2. server' <= opened'
    BY <1>t, <2>1 DEF Range, None
  <2>3. CASE server' = None /\ subject' = subject
    BY <1>4, <1>p, <2>1, <2>2, <2>3 DEF Calls
  <2>4. CASE server' = server /\ server # None /\ subject' = [subject EXCEPT ![p] = server]
    <3>1. subject' \in [Caller -> Server \cup {None}] /\ \A q \in Caller : subject'[q] <= opened'
      BY <1>p, <2>1, <2>4 DEF Calls
    <3>2. CASE pc' = [pc EXCEPT ![p] = "closing"]
      BY <1>4, <1>p, <2>1, <2>2, <2>4, <3>1, <3>2 DEF Calls
    <3>3. CASE server' = None
      BY <2>4, <3>3
    <3> QED BY <2>1, <3>2, <3>3
  <2> QED BY <2>1, <2>3, <2>4
<1>e. ASSUME NEW p \in Caller, StopWithoutTasks(p) PROVE Numbered'
  <2>1. awaited[p] = {} /\ pc[p] = "idle" /\ awaited' = awaited
    BY <1>e, <1>p DEF StopWithoutTasks, Calls
  <2>2. Calls'
    BY <1>4, <1>e, <1>n, <1>p, <2>1 DEF StopWithoutTasks, Calls
  <2> QED BY <1>c, <1>e, <1>l, <1>q, <2>2 DEF StopWithoutTasks
<1>5. ASSUME NEW p \in Caller, BeginStop(p) PROVE Numbered'
  <2>1. tasks \in SUBSET Task /\ tasks # {}
    BY <1>5, <1>p DEF BeginStop, Lists, Task
  <2>2. Calls'
    BY <1>5, <1>n, <1>p, <2>1 DEF BeginStop, serverVars, Calls
  <2>3. Lists'
    BY <1>5, <1>p DEF BeginStop, Lists
  <2> QED BY <1>5, <1>c, <1>q, <2>2, <2>3 DEF BeginStop
<1>6. ASSUME NEW p \in Caller, FinishStart(p) PROVE Numbered'
  <2>1. Lists'
    BY <1>6, <1>p, StartTasksTypes DEF FinishStart, Lists
  <2>2. Calls'
    <3>1. /\ pc[p] = "starting" /\ pc' = [pc EXCEPT ![p] = "idle"]
          /\ server' = subject[p] /\ subject' = [subject EXCEPT ![p] = None]
          /\ last' = "started"
          /\ UNCHANGED <<listening, opened, awaited, overlap, cancelled>>
      BY <1>6 DEF FinishStart, history
    <3>2. None <= opened /\ server' \in Server \cup {None} /\ server' <= opened'
      <4>1. /\ server' \in Server \cup {None} /\ server' <= opened
        BY <1>t, <3>1 DEF Range
      <4>2. None <= opened
        BY <1>t DEF Range, None
      <4> QED BY <3>1, <4>1, <4>2
    <3> QED BY <1>p, <3>1, <3>2 DEF Calls
  <2> QED BY <1>6, <1>c, <1>q, <2>1, <2>2 DEF FinishStart
<1>7. ASSUME NEW p \in Caller, TasksStopped(p) PROVE Numbered'
  <2>1. /\ awaited' \in [Caller -> SUBSET Task] /\ awaited'[p] = {}
        /\ \A q \in Caller \ {p} : awaited'[q] = awaited[q]
        /\ pc[p] = "gathering" /\ UNCHANGED <<overlap, cancelled>>
    BY <1>7, <1>p DEF TasksStopped, Calls, history
  <2>2. Calls'
    BY <1>4, <1>7, <1>p, <2>1 DEF TasksStopped, Calls
  <2>3. Lists'
    BY <1>7, <1>p DEF TasksStopped, Lists
  <2> QED BY <1>7, <1>c, <1>q, <2>2, <2>3 DEF TasksStopped
<1>8. ASSUME NEW p \in Caller, Cancelled(p) \/ Closed(p) PROVE Numbered'
  <2>1. /\ pc' = [pc EXCEPT ![p] = "idle"] /\ subject' = [subject EXCEPT ![p] = None]
        /\ server' \in {server, None} /\ last' \in {"cancelled", "stopped"}
        /\ \/ awaited' = [awaited EXCEPT ![p] = {}]
           \/ awaited' = awaited /\ pc[p] = "closing"
        /\ UNCHANGED <<listening, opened, clientVars, taskVars, overlap>>
    BY <1>8 DEF Cancelled, Closed, history
  <2>2. cancelled' \subseteq {"start", "stop"}
    BY <1>8, <1>p DEF Cancelled, Closed, history, Starting, Stopping, Calls
  <2>3. None <= opened /\ server' \in Server \cup {None} /\ server' <= opened'
    <3>1. None <= opened
      BY <1>t DEF Range, None
    <3>2. server \in Server \cup {None} /\ server <= opened
      BY <1>t DEF Range
    <3> QED BY <2>1, <3>1, <3>2
  <2>4. /\ awaited' \in [Caller -> SUBSET Task] /\ awaited'[p] = {}
        /\ \A q \in Caller \ {p} : awaited'[q] = awaited[q]
    BY <1>p, <2>1 DEF Calls
  <2>5. Calls'
    BY <1>p, <2>1, <2>2, <2>3, <2>4 DEF Calls
  <2> QED BY <1>c, <1>l, <1>q, <2>1, <2>5
<1>10. ASSUME NEW f \in Factory, AddTask(f) PROVE Numbered'
  BY <1>10, AddTaskFacts
<1>11. ASSUME NEW t \in Task, TaskEnds(t) PROVE Numbered'
  <2>1. Lists'
    BY <1>11, <1>p DEF TaskEnds, Lists
  <2> QED BY <1>11, <1>c, <1>k, <1>q, <2>1 DEF TaskEnds
<1>12. ASSUME NEW s \in Server, ClientConnects(s) \/ ClientLeaves(s) PROVE Numbered'
  <2>1. ASSUME ClientConnects(s) PROVE Connections'
    BY <1>p, <2>1, SMTT(30) DEF ClientConnects, Connections
  <2>2. ASSUME ClientLeaves(s) PROVE Connections'
    BY <1>p, <2>2, SMTT(30) DEF ClientLeaves, Connections
  <2> QED BY <1>12, <1>k, <1>l, <1>q, <2>1, <2>2 DEF ClientConnects, ClientLeaves
<1>14. CASE UNCHANGED vars
  BY <1>14, <1>c, <1>k, <1>l, <1>q DEF vars
<1> QED BY <1>1, <1>2, <1>b, <1>3, <1>e, <1>5, <1>6, <1>7, <1>8, <1>10, <1>11, <1>12,
        <1>14 DEF Next, Resumes

\* The listening sockets, and whose they are.
LEMMA SocketsStep ==
    ASSUME Numbered, Sockets, [Next]_vars
    PROVE  Sockets'
<1>t. Range
  BY RangeFacts
<1>1. ASSUME NEW p \in Caller, StartAgain(p) PROVE Sockets'
  BY <1>1 DEF StartAgain, serverVars, Sockets
<1>2. ASSUME NEW p \in Caller, BeginStart(p) PROVE Sockets'
  BY <1>t, <1>2 DEF BeginStart, serverVars, Sockets, Range
<1>b. ASSUME NEW p \in Caller, Bind(p) PROVE Sockets'
  <2>1. /\ FixedPort => listening = {}
        /\ opened' = opened + 1 /\ listening' = listening \cup {opened'}
        /\ subject' = [subject EXCEPT ![p] = opened']
        /\ pc' = [pc EXCEPT ![p] = "starting"]
        /\ UNCHANGED <<server, last>>
    BY <1>b DEF Bind
  <2>2. /\ opened' \notin listening /\ opened' # server
        /\ \A q \in Caller : subject[q] # opened'
    BY <1>t, <2>1 DEF Range
  <2> QED BY <1>t, <2>1, <2>2 DEF Sockets, Range
<1>3. ASSUME NEW p \in Caller, StartFails(p) PROVE Sockets'
  BY <1>t, <1>3 DEF StartFails, serverVars, Sockets, Range
<1>4. ASSUME NEW p \in Caller, CloseServer(p), pc[p] \in {"idle", "gathering"}
      PROVE  Sockets'
  <2>1. /\ listening' = listening \ {server}
        /\ \/ /\ server' = None /\ subject' = subject /\ last' = "stopped"
              /\ pc' = [pc EXCEPT ![p] = "idle"]
           \/ /\ server' = server /\ server # None /\ last' = "none"
              /\ pc' = [pc EXCEPT ![p] = "closing"]
              /\ subject' = [subject EXCEPT ![p] = server]
    BY <1>t, <1>4, CloseServerFacts
  <2>2. \A q \in Caller : pc'[q] = "starting" =>
           pc[q] = "starting" /\ subject'[q] = subject[q] /\ q # p
    BY <1>t, <1>4, <2>1 DEF Range
  <2>3. \A q \in Caller : pc'[q] = "closing" =>
           subject'[q] = server \/ (pc[q] = "closing" /\ subject'[q] = subject[q])
    BY <1>t, <1>4, <2>1 DEF Range
  <2>4. \A q \in Caller : pc'[q] = "starting" => subject'[q] \in listening' /\ subject'[q] # server'
    BY <1>t, <2>1, <2>2 DEF Sockets, Range
  <2>5. \A q \in Caller : pc'[q] = "closing" => subject'[q] \notin listening'
    BY <2>1, <2>3 DEF Sockets
  <2>6. /\ FixedPort => \A s, t \in listening' : s = t
        /\ last' = "started" => server' # None
        /\ last' = "stopped" => server' = None
    BY <2>1 DEF Sockets
  <2>7. \A q, r \in Caller : pc'[q] = "starting" /\ pc'[r] = "starting" /\ subject'[q] = subject'[r]
           => q = r
    BY <2>2 DEF Sockets
  <2> QED BY <2>4, <2>5, <2>6, <2>7 DEF Sockets
<1>5. ASSUME NEW p \in Caller, BeginStop(p) PROVE Sockets'
  BY <1>t, <1>5 DEF BeginStop, serverVars, Sockets, Range
<1>6. ASSUME NEW p \in Caller, FinishStart(p) PROVE Sockets'
  BY <1>t, <1>6 DEF FinishStart, Sockets, Range
<1>7. ASSUME NEW p \in Caller, Cancelled(p) PROVE Sockets'
  BY <1>t, <1>7 DEF Cancelled, Sockets, Range
<1>8. ASSUME NEW p \in Caller, Closed(p) PROVE Sockets'
  BY <1>t, <1>8 DEF Closed, Sockets, Range
<1>9. ASSUME UNCHANGED <<pc, serverVars, last>> PROVE Sockets'
  BY <1>9 DEF serverVars, Sockets
<1>10. ASSUME NEW s \in Server, ClientConnects(s) \/ ClientLeaves(s) PROVE Sockets'
  BY <1>9, <1>10 DEF ClientConnects, ClientLeaves
<1>11. ASSUME NEW p \in Caller, StopWithoutTasks(p) \/ TasksStopped(p) PROVE Sockets'
  BY <1>4, <1>11 DEF StopWithoutTasks, TasksStopped
<1>12. ASSUME NEW f \in Factory, AddTask(f) PROVE Sockets'
  BY <1>9, <1>12 DEF AddTask
<1>13. ASSUME NEW t \in Task, TaskEnds(t) PROVE Sockets'
  BY <1>9, <1>13 DEF TaskEnds
<1>14. CASE UNCHANGED vars
  BY <1>9, <1>14 DEF vars
<1> QED BY <1>1, <1>2, <1>b, <1>3, <1>5, <1>6, <1>7, <1>8, <1>10, <1>11, <1>12, <1>13, <1>14
    DEF Next, Resumes

\* What awaits at the same time, and what is lost when it does.
LEMMA MeetingsStep ==
    ASSUME Numbered, Sockets, Meetings, [Next]_vars
    PROVE  Meetings'
<1>t. Range
  BY RangeFacts
<1>n. NoteOverlap =>
           /\ overlap \subseteq overlap' /\ cancelled' = cancelled
           /\ "start and stop" \notin overlap' => Starting' = {} \/ Stopping' = {}
           /\ "two starts" \notin overlap' => \A p, q \in Starting' : p = q
  BY CallNotes
<1>9. ASSUME UNCHANGED <<pc, server, subject, listening>>, overlap \subseteq overlap',
             cancelled' = cancelled
      PROVE  Meetings'
  BY <1>9 DEF Meetings, Starting, Stopping, NoOrphanListener, StartsUndisturbed, Reachable
<1>1. ASSUME NEW p \in Caller, StartAgain(p) PROVE Meetings'
  BY <1>1, <1>9, <1>n DEF StartAgain, serverVars
<1>2. ASSUME NEW p \in Caller, BeginStart(p) PROVE Meetings'
  <2>1. /\ pc[p] = "idle" /\ server = None /\ pc' = [pc EXCEPT ![p] = "resolving"]
        /\ UNCHANGED <<server, subject, listening>> /\ NoteOverlap
    BY <1>2 DEF BeginStart, serverVars
  <2>2. "start and stop" \notin overlap' =>
           \A q \in Caller : pc'[q] = "closing" => server' \in {subject'[q], None}
    BY <2>1
  <2>3. NoOrphanListener'
    BY <1>t, <1>n, <2>1 DEF Meetings, NoOrphanListener, StartsUndisturbed, Reachable, Range
  <2> QED BY <1>n, <2>1, <2>2, <2>3 DEF Meetings
<1>b. ASSUME NEW p \in Caller, Bind(p) PROVE Meetings'
  <2>1. /\ pc[p] = "resolving" /\ pc' = [pc EXCEPT ![p] = "starting"]
        /\ opened' = opened + 1 /\ listening' = listening \cup {opened'}
        /\ subject' = [subject EXCEPT ![p] = opened']
        /\ UNCHANGED <<server, overlap, cancelled>>
    BY <1>b DEF Bind, history
  <2>2. Starting' = Starting /\ Stopping' = Stopping
    BY <1>t, <2>1 DEF Starting, Stopping, Range
  <2>3. NoOrphanListener'
    BY <1>t, <2>1 DEF Meetings, NoOrphanListener, StartsUndisturbed, Reachable, Range
  <2>4. \A q \in Caller : pc'[q] = "closing" => pc[q] = "closing" /\ subject'[q] = subject[q]
    BY <1>t, <2>1 DEF Range
  <2> QED BY <2>1, <2>2, <2>3, <2>4 DEF Meetings
<1>3. ASSUME NEW p \in Caller, StartFails(p) PROVE Meetings'
  <2>1. /\ pc[p] = "resolving" /\ pc' = [pc EXCEPT ![p] = "idle"]
        /\ UNCHANGED <<server, subject, listening, overlap, cancelled>>
    BY <1>3 DEF StartFails, serverVars, history
  <2>2. Starting' \subseteq Starting /\ Stopping' = Stopping
    BY <1>t, <2>1 DEF Starting, Stopping, Range
  <2>3. NoOrphanListener'
    BY <1>t, <2>1 DEF Meetings, NoOrphanListener, StartsUndisturbed, Reachable, Range
  <2>4. \A q \in Caller : pc'[q] = "closing" => pc[q] = "closing"
    BY <1>t, <2>1 DEF Range
  <2> QED BY <2>1, <2>2, <2>3, <2>4 DEF Meetings
<1>4. ASSUME NEW p \in Caller, CloseServer(p), pc[p] \in {"idle", "gathering"},
             overlap \subseteq overlap', cancelled' = cancelled,
             "start and stop" \notin overlap' => Starting' = {} \/ Stopping' = {}
      PROVE  Meetings'
  <2>1. /\ listening' = listening \ {server} /\ server' \in {server, None}
        /\ \A q \in Caller \ {p} : pc'[q] = pc[q] /\ subject'[q] = subject[q]
        /\ pc'[p] = "idle" \/ (pc'[p] = "closing" /\ subject'[p] = server')
    BY <1>t, <1>4, CloseServerFacts DEF Range
  <2>2. Starting' = Starting
    BY <1>4, <2>1 DEF Starting
  <2>3. NoOrphanListener'
    <3> SUFFICES ASSUME StartsUndisturbed, NEW s \in listening, s # server PROVE Reachable(s)'
      BY <1>4, <2>1 DEF NoOrphanListener, StartsUndisturbed
    <3>1. PICK q \in Caller : pc[q] = "starting" /\ subject[q] = s
      BY DEF Meetings, NoOrphanListener, Reachable
    <3>2. pc'[q] = "starting" /\ subject'[q] = s
      BY <1>4, <2>1, <3>1
    <3> QED BY <3>2 DEF Reachable
  <2>4. "start and stop" \notin overlap' =>
           \A q \in Caller : pc'[q] = "closing" => server' \in {subject'[q], None}
    BY <1>4, <2>1 DEF Meetings
  <2> QED BY <1>4, <2>1, <2>2, <2>3, <2>4 DEF Meetings
<1>5. ASSUME NEW p \in Caller, BeginStop(p) PROVE Meetings'
  <2>1. /\ pc[p] = "idle" /\ pc' = [pc EXCEPT ![p] = "gathering"]
        /\ UNCHANGED <<server, subject, listening>> /\ NoteOverlap
    BY <1>5 DEF BeginStop, serverVars
  <2>2. Starting' = Starting
    BY <1>t, <2>1 DEF Starting, Range
  <2>3. NoOrphanListener'
    BY <1>t, <1>n, <2>1 DEF Meetings, NoOrphanListener, StartsUndisturbed, Reachable, Range
  <2>4. "start and stop" \notin overlap' =>
           \A q \in Caller : pc'[q] = "closing" => server' \in {subject'[q], None}
    BY <1>t, <1>n, <2>1 DEF Meetings, Range
  <2> QED BY <1>n, <2>1, <2>2, <2>3, <2>4 DEF Meetings
<1>6. ASSUME NEW p \in Caller, FinishStart(p) PROVE Meetings'
  <2>1. /\ pc[p] = "starting" /\ server' = subject[p]
        /\ subject' = [subject EXCEPT ![p] = None]
        /\ pc' = [pc EXCEPT ![p] = "idle"]
        /\ UNCHANGED <<listening, overlap, cancelled>>
    BY <1>6 DEF FinishStart, history
  <2>2. Starting' = Starting \ {p} /\ Stopping' = Stopping /\ p \in Starting
    BY <1>t, <2>1 DEF Starting, Stopping, Range
  <2>3. "start and stop" \notin overlap => Stopping = {} /\ \A q \in Caller : pc[q] # "closing"
    BY <2>2 DEF Meetings, Stopping
  <2>4. "two starts" \notin overlap => Starting' = {}
    BY <2>2 DEF Meetings
  <2>5. NoOrphanListener'
    <3> SUFFICES ASSUME StartsUndisturbed, NEW s \in listening PROVE Reachable(s)'
      BY <2>1 DEF NoOrphanListener, StartsUndisturbed
    <3>1. Reachable(s)
      BY DEF Meetings, NoOrphanListener
    <3>2. server \notin listening
      <4>1. CASE FixedPort
        BY <2>1, <4>1 DEF Sockets
      <4>2. CASE "two starts" \notin overlap
        BY <1>t, <2>2, <4>2 DEF Meetings, Range
      <4> QED BY <4>1, <4>2 DEF StartsUndisturbed
    <3>3. PICK q \in Caller : pc[q] = "starting" /\ subject[q] = s
      BY <3>1, <3>2 DEF Reachable
    <3> QED BY <1>t, <2>1, <3>3 DEF Reachable, Range
  <2>6. \A q \in Caller : pc'[q] = "closing" => pc[q] = "closing"
    BY <1>t, <2>1 DEF Range
  <2> QED BY <2>1, <2>2, <2>3, <2>4, <2>5, <2>6 DEF Meetings
<1>7. ASSUME NEW p \in Caller, Cancelled(p) PROVE Meetings'
  <2>1. /\ pc' = [pc EXCEPT ![p] = "idle"]
        /\ subject' = [subject EXCEPT ![p] = None]
        /\ UNCHANGED <<listening, server, overlap>>
        /\ cancelled \subseteq cancelled' /\ (pc[p] = "starting" => "start" \in cancelled')
    BY <1>7 DEF Cancelled, Starting, Stopping
  <2>2. Starting' \subseteq Starting /\ Stopping' \subseteq Stopping
    BY <1>t, <2>1 DEF Starting, Stopping, Range
  <2>3. NoOrphanListener'
    BY <1>t, <2>1 DEF Meetings, NoOrphanListener, StartsUndisturbed, Reachable, Range
  <2>4. \A q \in Caller : pc'[q] = "closing" => pc[q] = "closing" /\ subject'[q] = subject[q]
    BY <1>t, <2>1 DEF Range
  <2> QED BY <2>1, <2>2, <2>3, <2>4 DEF Meetings
<1>8. ASSUME NEW p \in Caller, Closed(p) PROVE Meetings'
  <2>1. /\ pc[p] = "closing" /\ pc' = [pc EXCEPT ![p] = "idle"]
        /\ subject' = [subject EXCEPT ![p] = None] /\ server' = None
        /\ UNCHANGED <<listening, overlap, cancelled>>
    BY <1>8 DEF Closed, history
  <2>2. Starting' = Starting /\ Stopping' \subseteq Stopping
    BY <1>t, <2>1 DEF Starting, Stopping, Range
  <2>3. NoOrphanListener'
    <3> SUFFICES ASSUME StartsUndisturbed, NEW s \in listening PROVE Reachable(s)'
      BY <2>1 DEF NoOrphanListener, StartsUndisturbed
    <3>1. server \notin listening
      BY <1>t, <2>1 DEF Meetings, StartsUndisturbed, Sockets, Range
    <3>2. PICK q \in Caller : pc[q] = "starting" /\ subject[q] = s
      BY <3>1 DEF Meetings, NoOrphanListener, Reachable
    <3> QED BY <1>t, <2>1, <3>2 DEF Reachable, Range
  <2> QED BY <2>1, <2>2, <2>3 DEF Meetings
<1>10. ASSUME NEW s \in Server, ClientConnects(s) \/ ClientLeaves(s) PROVE Meetings'
  BY <1>9, <1>10 DEF ClientConnects, ClientLeaves, serverVars, history
<1>11. ASSUME NEW p \in Caller, StopWithoutTasks(p) PROVE Meetings'
  BY <1>4, <1>n, <1>11 DEF StopWithoutTasks
<1>15. ASSUME NEW p \in Caller, TasksStopped(p) PROVE Meetings'
  <2>1. /\ pc[p] = "gathering" /\ CloseServer(p) /\ UNCHANGED <<overlap, cancelled>>
    BY <1>15 DEF TasksStopped, history
  <2>2. "start and stop" \notin overlap => Starting = {}
    BY <2>1 DEF Meetings, Stopping
  <2>3. Starting' = Starting
    BY <1>t, <2>1, CloseServerFacts DEF Starting, Range
  <2> QED BY <1>4, <2>1, <2>2, <2>3
<1>12. ASSUME NEW f \in Factory, AddTask(f) PROVE Meetings'
  BY <1>9, <1>n, <1>12 DEF AddTask, serverVars
<1>13. ASSUME NEW t \in Task, TaskEnds(t) PROVE Meetings'
  BY <1>9, <1>13 DEF TaskEnds, serverVars, history
<1>14. CASE UNCHANGED vars
  BY <1>9, <1>14 DEF vars, serverVars, history
<1> QED BY <1>1, <1>2, <1>b, <1>3, <1>5, <1>6, <1>7, <1>8, <1>10, <1>11, <1>12, <1>13, <1>14,
        <1>15 DEF Next, Resumes

\* The factories and their tasks.
LEMMA OneEachStep ==
    ASSUME Numbered, OneEach, [Next]_vars
    PROVE  OneEach'
<1>1. ASSUME NEW p \in Caller, StartAgain(p) \/ FinishStart(p) PROVE OneEach'
  BY <1>1, StartTasksFacts DEF StartAgain, FinishStart
<1>2. ASSUME NEW f \in Factory, AddTask(f) PROVE OneEach'
  BY <1>2, AddTaskFacts
<1>3. ASSUME NEW p \in Caller, TasksStopped(p) PROVE OneEach'
  BY <1>3 DEF TasksStopped, OneEach
<1>4. ASSUME UNCHANGED <<factories, tasks, made>> PROVE OneEach'
  BY <1>4 DEF OneEach
<1>5. ASSUME NEW p \in Caller,
             \/ BeginStart(p) \/ Bind(p) \/ StartFails(p) \/ StopWithoutTasks(p)
             \/ BeginStop(p) \/ Cancelled(p) \/ Closed(p)
      PROVE  OneEach'
  BY <1>4, <1>5 DEF BeginStart, Bind, StartFails, Closed, StopWithoutTasks, BeginStop, Cancelled, taskVars
<1>6. ASSUME NEW t \in Task, TaskEnds(t) PROVE OneEach'
  BY <1>4, <1>6 DEF TaskEnds
<1>7. ASSUME NEW s \in Server, ClientConnects(s) \/ ClientLeaves(s) PROVE OneEach'
  BY <1>4, <1>7 DEF ClientConnects, ClientLeaves, taskVars
<1>8. CASE UNCHANGED vars
  BY <1>4, <1>8 DEF vars, taskVars
<1> QED BY <1>1, <1>2, <1>3, <1>5, <1>6, <1>7, <1>8 DEF Next, Resumes

\* One stop at a time, and what is live is on the list.
LEMMA SerialStep ==
    ASSUME Numbered, Sockets, Meetings, OneEach, StopsAreApart => Serial, [Next]_vars,
           StopsAreApart'
    PROVE  Serial'
<1>t. /\ pc \in [Caller -> {"idle", "resolving", "starting", "gathering", "closing"}]
      /\ awaited \in [Caller -> SUBSET Task] /\ state \in [Task -> {"none", "running", "cancelling", "done"}]
      /\ \A p \in Caller : pc[p] = "gathering" => awaited[p] # {}
  BY DEF Numbered, TypeOK
<1>n. ASSUME NoteOverlap
      PROVE  /\ StopsAreApart /\ Serial /\ Stopping = {} /\ cancelled' = cancelled
             /\ \A q \in Caller : pc[q] # "gathering" /\ pc[q] # "closing"
  <2>1. overlap \subseteq overlap' /\ cancelled' = cancelled
    BY <1>n, CallNotes
  <2>2. "stop and call" \notin overlap'
    BY DEF StopsAreApart
  <2>3. Stopping = {}
    BY <1>n, <2>2, CallNotes
  <2>4. StopsAreApart
    BY <2>1 DEF StopsAreApart
  <2> QED BY <2>1, <2>3, <2>4 DEF Stopping
<1>h. ASSUME UNCHANGED overlap PROVE StopsAreApart /\ Serial
  BY <1>h DEF StopsAreApart
<1>s. ASSUME Serial, UNCHANGED <<server, listening, tasks, awaited, cancelled>>,
             \A q \in Caller : pc'[q] = pc[q] \/ {pc[q], pc'[q]} \cap {"gathering", "closing"} = {},
             \A t \in Task : Live(t)' => Live(t), Covered => Covered'
      PROVE  Serial'
  <2>1. \A q \in Caller : /\ pc'[q] = "gathering" <=> pc[q] = "gathering"
                          /\ pc'[q] = "closing" <=> pc[q] = "closing"
    BY <1>s
  <2>2. Stopping' = Stopping
    BY <2>1 DEF Stopping
  <2> QED BY <1>s, <2>1, <2>2 DEF Serial
<1>1. ASSUME NEW p \in Caller, StartAgain(p) PROVE Serial'
  <2>1. /\ NoteOverlap /\ server # None /\ StartTasks
        /\ UNCHANGED <<server, listening, pc, factories>>
    BY <1>1 DEF StartAgain, serverVars
  <2>2. /\ tasks = {} \/ Covered => Covered'
        /\ \A t \in Task : Live(t)' => Live(t) \/ t \in tasks'
        /\ tasks # {} => UNCHANGED <<tasks, made, state>>
    BY <2>1, StartTasksFacts
  <2>3. /\ Serial /\ Stopping = {} /\ cancelled' = cancelled
        /\ \A q \in Caller : pc[q] # "gathering" /\ pc[q] # "closing"
    BY <1>n, <2>1
  <2>4. \A t \in Task : Live(t)' => t \in tasks'
    BY <2>2, <2>3 DEF Serial
  <2>5. "stop" \notin cancelled => server \in listening /\ Covered'
    BY <2>1, <2>2, <2>3 DEF Serial
  <2>6. Stopping' = Stopping
    BY <2>1 DEF Stopping
  <2> QED BY <2>1, <2>3, <2>4, <2>5, <2>6 DEF Serial
<1>2. ASSUME NEW p \in Caller, BeginStart(p) PROVE Serial'
  <2>1. /\ NoteOverlap /\ pc[p] = "idle" /\ pc' = [pc EXCEPT ![p] = "resolving"]
        /\ UNCHANGED <<server, listening, factories, tasks, made, state, awaited>>
    BY <1>2 DEF BeginStart, serverVars, taskVars
  <2>2. \A q \in Caller : pc'[q] = pc[q] \/ {pc[q], pc'[q]} \cap {"gathering", "closing"} = {}
    BY <1>t, <2>1
  <2> QED BY <1>n, <1>s, <2>1, <2>2 DEF Live, Covered
<1>b. ASSUME NEW p \in Caller, Bind(p) PROVE Serial'
  <2>1. /\ pc[p] = "resolving" /\ pc' = [pc EXCEPT ![p] = "starting"]
        /\ listening' = listening \cup {opened'}
        /\ UNCHANGED <<server, factories, tasks, made, state, awaited, overlap, cancelled>>
    BY <1>b DEF Bind, taskVars, history
  <2>2. \A q \in Caller : /\ pc'[q] = "gathering" <=> pc[q] = "gathering"
                          /\ pc'[q] = "closing" <=> pc[q] = "closing"
    BY <1>t, <2>1
  <2>3. Stopping' = Stopping
    BY <2>2 DEF Stopping
  <2> QED BY <1>h, <2>1, <2>2, <2>3 DEF Serial, Live, Covered
<1>3. ASSUME NEW p \in Caller, StartFails(p) PROVE Serial'
  <2>1. /\ pc[p] = "resolving" /\ pc' = [pc EXCEPT ![p] = "idle"]
        /\ UNCHANGED <<server, listening, factories, tasks, made, state, awaited, overlap,
                       cancelled>>
    BY <1>3 DEF StartFails, serverVars, taskVars, history
  <2>2. \A q \in Caller : pc'[q] = pc[q] \/ {pc[q], pc'[q]} \cap {"gathering", "closing"} = {}
    BY <1>t, <2>1
  <2> QED BY <1>h, <1>s, <2>1, <2>2 DEF Live, Covered
<1>4. ASSUME NEW p \in Caller, CloseServer(p), tasks' = {},
             \A t \in Task : ~Live(t)',
             \A q \in Caller \ {p} : q \notin Stopping
      PROVE  Serial'
  <2>1. \/ pc' = [pc EXCEPT ![p] = "idle"] /\ server' = None
        \/ pc' = [pc EXCEPT ![p] = "closing"]
    BY <1>4 DEF CloseServer
  <2>2. \A q \in Caller : /\ pc'[q] # "gathering"
                          /\ q \in Stopping' => q = p /\ pc'[p] = "closing"
    BY <1>t, <1>4, <2>1 DEF Stopping
  <2>3. server' # None => pc'[p] = "closing" /\ p \in Stopping'
    BY <1>t, <2>1 DEF Stopping
  <2>4. Stopping' \subseteq Caller
    BY DEF Stopping
  <2> QED BY <1>4, <2>2, <2>3, <2>4 DEF Serial
<1>5. ASSUME NEW p \in Caller, StopWithoutTasks(p) PROVE Serial'
  <2>1. NoteOverlap /\ tasks = {} /\ CloseServer(p) /\ UNCHANGED <<tasks, state>>
    BY <1>5 DEF StopWithoutTasks, taskVars
  <2>2. Serial /\ Stopping = {}
    BY <1>n, <2>1
  <2>3. \A t \in Task : ~Live(t)'
    BY <2>1, <2>2 DEF Serial, Live
  <2> QED BY <1>4, <2>1, <2>2, <2>3
<1>6. ASSUME NEW p \in Caller, BeginStop(p) PROVE Serial'
  <2>1. /\ NoteOverlap /\ pc[p] = "idle" /\ tasks # {}
        /\ pc' = [pc EXCEPT ![p] = "gathering"]
        /\ awaited' = [awaited EXCEPT ![p] = tasks]
        /\ UNCHANGED <<server, listening, tasks>>
        /\ \A t \in Task : Live(t)' => Live(t)
    BY <1>6 DEF BeginStop, serverVars, Live
  <2>2. /\ Serial /\ Stopping = {} /\ cancelled' = cancelled
        /\ \A q \in Caller : pc[q] # "gathering" /\ pc[q] # "closing"
    BY <1>n, <2>1
  <2>3. \A q \in Caller : /\ pc'[q] # "closing"
                          /\ q \in Stopping' => q = p
                          /\ pc'[q] = "gathering" => q = p
    BY <1>t, <2>1, <2>2 DEF Stopping
  <2>4. p \in Stopping' /\ awaited'[p] = tasks /\ Stopping' \subseteq Caller
    BY <1>t, <2>1 DEF Stopping
  <2>5. "stop" \notin cancelled /\ server # None => server \in listening
    BY <2>2 DEF Serial
  <2> QED BY <2>1, <2>2, <2>3, <2>4, <2>5 DEF Serial
<1>7. ASSUME NEW p \in Caller, FinishStart(p) PROVE Serial'
  <2>1. /\ pc[p] = "starting" /\ server' = subject[p] /\ StartTasks
        /\ pc' = [pc EXCEPT ![p] = "idle"]
        /\ UNCHANGED <<listening, factories, awaited, overlap, cancelled>>
    BY <1>7 DEF FinishStart, history
  <2>2. Serial /\ subject[p] \in listening /\ subject[p] # None
    BY <1>h, <2>1 DEF Sockets, Numbered, TypeOK
  <2>3. Stopping = {}
    <3>1. p \in Starting /\ "start and stop" \notin overlap
      BY <2>1 DEF Starting, StopsAreApart
    <3> QED BY <3>1 DEF Meetings
  <2>4. /\ tasks = {} \/ Covered => Covered'
        /\ \A t \in Task : Live(t)' => Live(t) \/ t \in tasks'
        /\ tasks # {} => UNCHANGED <<tasks, made, state>>
    BY <2>1, StartTasksFacts
  <2>5. \A q \in Caller : pc'[q] # "gathering" /\ pc'[q] # "closing" /\ q \notin Stopping'
    BY <1>t, <2>1, <2>3 DEF Stopping
  <2>6. \A t \in Task : Live(t)' => t \in tasks'
    BY <2>2, <2>4 DEF Serial
  <2>7. "stop" \notin cancelled => Covered'
    BY <2>2, <2>3, <2>4 DEF Serial
  <2>8. Stopping' \subseteq Caller
    BY DEF Stopping
  <2> QED BY <2>1, <2>2, <2>5, <2>6, <2>7, <2>8 DEF Serial
<1>8. ASSUME NEW p \in Caller, TasksStopped(p) PROVE Serial'
  <2>1. /\ pc[p] = "gathering" /\ CloseServer(p) /\ tasks' = {} /\ state' = state
        /\ \A t \in awaited[p] : state[t] = "done"
        /\ UNCHANGED overlap
    BY <1>8 DEF TasksStopped, history
  <2>2. Serial
    BY <1>h, <2>1
  <2>3. awaited[p] = tasks
    BY <2>1, <2>2 DEF Serial
  <2>4. \A t \in Task : ~Live(t)'
    BY <2>1, <2>2, <2>3 DEF Serial, Live
  <2>5. p \in Stopping
    BY <2>1 DEF Stopping
  <2>6. \A q \in Caller \ {p} : q \notin Stopping
    BY <2>2, <2>5 DEF Serial
  <2> QED BY <1>4, <2>1, <2>4, <2>6
<1>9. ASSUME NEW p \in Caller, Cancelled(p) PROVE Serial'
  <2>1. /\ p \in Starting \cup Stopping
        /\ pc' = [pc EXCEPT ![p] = "idle"]
        /\ awaited' = [awaited EXCEPT ![p] = {}]
        /\ UNCHANGED <<server, listening, tasks, made, factories, state, overlap>>
        /\ cancelled' = CASE pc[p] = "resolving" -> cancelled
                          [] pc[p] = "starting" -> cancelled \cup {"start"}
                          [] p \in Stopping -> cancelled \cup {"stop"}
    BY <1>9 DEF Cancelled, taskVars
  <2>2. Serial
    BY <1>h, <2>1
  <2>3. CASE p \in Starting
    <3>1. pc[p] \in {"resolving", "starting"}
      BY <2>3 DEF Starting
    <3>2. /\ \A q \in Caller : pc'[q] = "gathering" <=> pc[q] = "gathering"
          /\ \A q \in Caller : pc'[q] = "closing" <=> pc[q] = "closing"
          /\ \A q \in Caller : pc'[q] = "gathering" => awaited'[q] = awaited[q]
      BY <1>t, <2>1, <3>1
    <3>3. Stopping' = Stopping
      BY <3>2 DEF Stopping
    <3>4. "stop" \notin cancelled' => "stop" \notin cancelled
      BY <2>1, <3>1
    <3> QED BY <2>1, <2>2, <3>2, <3>3, <3>4 DEF Serial, Live, Covered
  <2>4. CASE p \in Stopping
    <3>1. pc[p] \in {"gathering", "closing"}
      BY <2>4 DEF Stopping
    <3>2. "stop" \in cancelled'
      BY <2>1, <2>4, <3>1
    <3>3. /\ \A q \in Caller : pc'[q] = "gathering" => pc[q] = "gathering" /\ awaited'[q] = awaited[q]
          /\ \A q \in Caller : pc'[q] = "closing" => pc[q] = "closing"
      BY <1>t, <2>1
    <3>4. Stopping' \subseteq Stopping
      BY <3>3 DEF Stopping
    <3> QED BY <2>1, <2>2, <3>2, <3>3, <3>4 DEF Serial, Live
  <2> QED BY <2>1, <2>3, <2>4
<1>10. ASSUME NEW p \in Caller, Closed(p) PROVE Serial'
  <2>1. /\ pc[p] = "closing" /\ server' = None
        /\ pc' = [pc EXCEPT ![p] = "idle"]
        /\ UNCHANGED <<tasks, state, awaited, overlap>>
    BY <1>10 DEF Closed, history, taskVars
  <2>2. Serial
    BY <1>h, <2>1
  <2>3. tasks = {}
    BY <2>1, <2>2 DEF Serial
  <2>4. \A q \in Caller : /\ pc'[q] = "gathering" => pc[q] = "gathering"
                          /\ pc'[q] = "closing" => pc[q] = "closing"
    BY <1>t, <2>1
  <2>5. Stopping' \subseteq Stopping
    BY <2>4 DEF Stopping
  <2> QED BY <2>1, <2>2, <2>3, <2>4, <2>5 DEF Serial, Live
<1>11. ASSUME NEW f \in Factory, AddTask(f) PROVE Serial'
  <2>1. NoteOverlap /\ UNCHANGED <<server, listening, pc, awaited>>
    BY <1>11 DEF AddTask, serverVars
  <2>2. /\ Serial /\ Stopping = {} /\ cancelled' = cancelled
        /\ \A q \in Caller : pc[q] # "gathering" /\ pc[q] # "closing"
    BY <1>n, <2>1
  <2>3. /\ server # None /\ Covered => Covered'
        /\ server = None => UNCHANGED <<tasks, made, state>>
        /\ \A t \in Task : Live(t)' => Live(t) \/ t \in tasks'
    BY <1>11, AddTaskFacts
  <2>4. tasks \subseteq tasks'
    BY <1>11 DEF AddTask, CreateTasks
  <2>5. Stopping' = Stopping
    BY <2>1 DEF Stopping
  <2>6. \A t \in Task : Live(t)' => t \in tasks'
    BY <2>2, <2>3, <2>4 DEF Serial
  <2>7. "stop" \notin cancelled' /\ server' # None => server' \in listening' /\ Covered'
    BY <2>1, <2>2, <2>3 DEF Serial
  <2>8. server' = None => tasks' = {}
    BY <2>1, <2>2, <2>3 DEF Serial
  <2> QED BY <2>1, <2>2, <2>5, <2>6, <2>7, <2>8 DEF Serial
<1>12. ASSUME NEW t \in Task, TaskEnds(t) PROVE Serial'
  <2>1. \A u \in Task : Live(u)' => Live(u)
    BY <1>t, <1>12 DEF TaskEnds, Live
  <2>2. UNCHANGED <<server, listening, tasks, pc, awaited, cancelled, overlap, factories, made>>
    BY <1>12 DEF TaskEnds, serverVars, history
  <2> QED BY <1>h, <1>s, <2>1, <2>2 DEF Covered
<1>13. ASSUME NEW s \in Server, ClientConnects(s) \/ ClientLeaves(s) PROVE Serial'
  <2>1. UNCHANGED <<server, listening, tasks, pc, awaited, cancelled, overlap, factories, made,
                    state>>
    BY <1>13 DEF ClientConnects, ClientLeaves, serverVars, taskVars, history
  <2> QED BY <1>h, <1>s, <2>1 DEF Live, Covered
<1>14. CASE UNCHANGED vars
  <2>1. UNCHANGED <<server, listening, tasks, pc, awaited, cancelled, overlap, factories, made,
                    state>>
    BY <1>14 DEF vars, serverVars, taskVars, history
  <2> QED BY <1>h, <1>s, <2>1 DEF Live, Covered
<1> QED BY <1>1, <1>2, <1>b, <1>3, <1>5, <1>6, <1>7, <1>8, <1>9, <1>10, <1>11, <1>12, <1>13,
        <1>14 DEF Next, Resumes

-----------------------------------------------------------------------------
(***************************************************************************)
(* The theorems.                                                           *)
(***************************************************************************)
\* Nothing is started at first.
LEMMA InvariantInit == Init => LInv
<1> SUFFICES ASSUME Init PROVE LInv
  OBVIOUS
<1>1. Numbered
  <2>1. 0 \in 0 .. MaxServers /\ 0 \in 0 .. MaxClients /\ 0 <= MaxTasks
    BY LifecycleAssumption
  <2>2. made \in Seq(Factory) /\ factories \in Seq(Factory) /\ Len(made) = 0
    BY DEF Init
  <2>3. tasks \subseteq DOMAIN made /\ listening \subseteq Server /\ listening \subseteq 1 .. opened
    BY DEF Init
  <2>4. server <= opened /\ \A p \in Caller : subject[p] <= opened
    BY DEF Init, None
  <2>5. /\ accepted \in 0 .. MaxClients /\ clients \in [Server -> 0 .. MaxClients]
        /\ \A s \in Server : clients[s] <= accepted
    BY <2>1 DEF Init
  <2>6. TypeOK
    BY <2>1, <2>2, <2>3, <2>5 DEF Init, TypeOK
  <2> QED BY <2>1, <2>2, <2>3, <2>4, <2>5, <2>6 DEF Numbered
<1>2. Sockets
  BY DEF Init, Sockets
<1>3. Meetings
  BY DEF Init, Meetings, NoOrphanListener, Starting, Stopping
<1>4. OneEach
  BY DEF Init, OneEach
<1>5. Serial
  BY DEF Init, Serial, Live, Stopping
<1> QED BY <1>1, <1>2, <1>3, <1>4, <1>5 DEF LInv

\* Every step keeps it.
LEMMA InvariantStep ==
    ASSUME LInv, [Next]_vars
    PROVE  LInv'
BY NumberedStep, SocketsStep, MeetingsStep, OneEachStep, SerialStep DEF LInv

\* The inductive invariant, on a fixed port and on port 0.
THEOREM LifecycleInvariant == Spec => []LInv
BY InvariantInit, InvariantStep, PTL DEF Spec

\* The types, and what each caller holds while it awaits.
THEOREM LifecycleTypes == Spec => []TypeOK
<1>1. LInv => TypeOK
  BY DEF LInv, Numbered
<1> QED BY <1>1, LifecycleInvariant, PTL

\* A listening socket that nothing can reach is left only by a start cancelled
\* after its bind, by a start and a stop that await at the same time, and, on
\* port 0, by two starts that do.
THEOREM NoOrphans == Spec => []NoOrphanListener
<1>1. LInv => NoOrphanListener
  BY DEF LInv, Meetings
<1> QED BY <1>1, LifecycleInvariant, PTL

\* As long as no call is made during a stop and no stop awaits while a start
\* does, a simulator that is down runs no task.
THEOREM DownRunsNothing == Spec => []StoppedMeansNoTasksIfSerial
<1>1. LInv => StoppedMeansNoTasksIfSerial
  BY DEF LInv, Serial, StoppedMeansNoTasksIfSerial, StoppedMeansNoTasks
<1> QED BY <1>1, LifecycleInvariant, PTL

\* As long as stops are apart from the other calls, a stop that returned has
\* ended everything, also what cancelled stops before it left.
THEOREM StoppedIsStopped == Spec => []StoppedMeansStopped
<1>1. LInv => StoppedMeansStopped
  <2> SUFFICES ASSUME LInv, StopsAreApart, last = "stopped", Quiet
               PROVE  /\ server = None /\ tasks = {}
                      /\ StartsUndisturbed => listening = {}
                      /\ \A t \in Task : ~Live(t)
    BY DEF StoppedMeansStopped
  <2>1. server = None /\ tasks = {} /\ \A t \in Task : ~Live(t)
    BY DEF LInv, Sockets, Serial
  <2>2. StartsUndisturbed => listening = {}
    <3>1. None \notin listening
      BY DEF LInv, Numbered, None
    <3> QED BY <2>1, <3>1 DEF LInv, Meetings, NoOrphanListener, Reachable, Quiet
  <2> QED BY <2>1, <2>2
<1> QED BY <1>1, LifecycleInvariant, PTL

\* As long as stops are apart from the other calls, no factory has two live
\* tasks.
THEOREM OneTaskEach == Spec => []OneTaskPerFactory
<1>1. LInv => OneTaskPerFactory
  <2> SUFFICES ASSUME LInv, StopsAreApart, NEW t \in DOMAIN made, NEW u \in DOMAIN made,
                      t # u, made[t] = made[u], Live(t), Live(u)
               PROVE  FALSE
    BY DEF OneTaskPerFactory
  <2>1. DOMAIN made \subseteq Task
    <3>1. made \in Seq(Factory) /\ Len(made) <= MaxTasks
      BY DEF LInv, Numbered, TypeOK
    <3>2. DOMAIN made = 1 .. Len(made) /\ Len(made) \in Nat
      BY <3>1
    <3> QED BY <3>1, <3>2, LifecycleAssumption DEF Task
  <2>2. t \in tasks /\ u \in tasks
    BY <2>1 DEF LInv, Serial
  <2> QED BY <2>2 DEF LInv, OneEach
<1> QED BY <1>1, LifecycleInvariant, PTL

\* As long as stops are apart from the other calls and none was cancelled, a
\* start that returned has left a server that listens and a task for each
\* factory.
THEOREM StartedServes == Spec => []StartedMeansServing
<1>1. LInv => StartedMeansServing
  <2> SUFFICES ASSUME LInv, StopsAreApart, "stop" \notin cancelled, last = "started", Quiet
               PROVE  server \in listening /\ Covered
    BY DEF StartedMeansServing, Covered
  <2>1. server # None /\ Stopping = {} /\ \A p \in Caller : pc[p] # "closing"
    BY DEF LInv, Sockets, Quiet, Stopping
  <2> QED BY <2>1 DEF LInv, Serial
<1> QED BY <1>1, LifecycleInvariant, PTL
=============================================================================
