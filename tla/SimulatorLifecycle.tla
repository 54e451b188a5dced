------------------------- MODULE SimulatorLifecycle -------------------------
(***************************************************************************)
(* Starting and stopping: ModbusSimulator.start, stop and add_task         *)
(* (simulator.py) over ModbusTcpServer.start and stop (server.py), called  *)
(* by several coroutines of one event loop.  A call gives the loop up only *)
(* where it awaits: in asyncio.start_server, twice, in gather and in       *)
(* wait_closed.  What lies between two awaits is one action.               *)
(*                                                                         *)
(* asyncio.Server, tasks and the operating system's ports are external:    *)
(* they are modelled by what the code relies on.  start_server awaits the  *)
(* addresses of the host, then opens the socket and gives the loop up once *)
(* more before it returns.  What can go on does so in any order.           *)
(***************************************************************************)
EXTENDS Naturals, Sequences, FiniteSets

CONSTANTS
    Caller,              \* coroutines that call start and stop
    Factory,             \* task factories that may be added, each once
    FixedPort,           \* TRUE: one port, bound by one listener at a time
                         \* FALSE: port 0, every bind gets a port of its own
    WaitsForConnections, \* TRUE: Server.wait_closed waits until the accepted
                         \* connections are gone (CPython 3.12.1 and later)
    MaxServers,          \* bound: listening servers created over time
    MaxTasks,            \* bound: tasks created over time
    MaxClients           \* bound: connections accepted over time

ASSUME LifecycleAssumption ==
    /\ FixedPort \in BOOLEAN /\ WaitsForConnections \in BOOLEAN
    /\ MaxServers \in Nat /\ MaxTasks \in Nat /\ MaxClients \in Nat

Server == 1 .. MaxServers
Task == 1 .. MaxTasks
None == 0

VARIABLES
    pc,         \* pc[p]: what caller p awaits, or "idle"
    server,     \* self.server._server
    listening,  \* asyncio servers with an open listening socket
    opened,     \* how many have been created
    subject,    \* subject[p]: the asyncio server p's start creates or p's stop
                \* waits for
    clients,    \* clients[s]: connections of server s still open
    accepted,   \* how many connections were ever accepted
    factories,  \* self._task_factories
    tasks,      \* self._tasks
    made,       \* made[i]: the factory of the i-th task created
    state,      \* state[t]: "running", "cancelling" (cancel was called) or "done"
    awaited,    \* awaited[p]: the tasks p's gather was given
    last,       \* how the last start or stop call ended, "none" while one runs
    overlap,    \* history: what was ever in progress together, see Overlaps
    cancelled   \* history: what was ever cancelled: a "start" that had opened its
                \* socket, or a "stop"

serverVars == <<server, listening, opened, subject>>
clientVars == <<clients, accepted>>
taskVars == <<factories, tasks, made, state>>
history == <<overlap, cancelled>>
vars == <<pc, serverVars, clientVars, taskVars, awaited, last, history>>

Init ==
    /\ pc = [p \in Caller |-> "idle"]
    /\ server = None
    /\ listening = {}
    /\ opened = 0
    /\ subject = [p \in Caller |-> None]
    /\ clients = [s \in Server |-> 0]
    /\ accepted = 0
    /\ factories = <<>>
    /\ tasks = {}
    /\ made = <<>>
    /\ state = [t \in Task |-> "none"]
    /\ awaited = [p \in Caller |-> {}]
    /\ last = "none"
    /\ overlap = {} /\ cancelled = {}

Starting == {p \in Caller : pc[p] \in {"resolving", "starting"}}
Stopping == {p \in Caller : pc[p] \in {"gathering", "closing"}}

\* What a call finds in progress, or joins.
Overlaps ==
    {o \in {"stop and call", "start and stop", "two starts"} :
        CASE o = "stop and call" -> Stopping # {}
          [] o = "start and stop" -> Starting' # {} /\ Stopping' # {}
          [] o = "two starts" -> \E p, q \in Starting' : p # q}

NoteOverlap == overlap' = overlap \cup Overlaps /\ UNCHANGED cancelled

-----------------------------------------------------------------------------
(***************************************************************************)
(* Tasks.                                                                  *)
(***************************************************************************)
\* asyncio.create_task(factory(datastore)) for each of a list, in order.
CreateTasks(list) ==
    LET fresh == {Len(made) + i : i \in 1 .. Len(list)}
    IN  /\ Len(made) + Len(list) <= MaxTasks
        /\ made' = made \o list
        /\ state' = [t \in Task |-> IF t \in fresh THEN "running" ELSE state[t]]
        /\ tasks' = tasks \cup fresh

\* Mistake: every start creates the tasks anew.
StartTasksAlways == CreateTasks(factories)

\* _start_tasks
StartTasks ==
    IF tasks # {} THEN UNCHANGED <<tasks, made, state>> ELSE CreateTasks(factories)

\* A task returns, fails, or ends because it was cancelled.
TaskEnds(t) ==
    /\ state[t] \in {"running", "cancelling"}
    /\ state' = [state EXCEPT ![t] = "done"]
    /\ UNCHANGED <<pc, serverVars, clientVars, factories, tasks, made, awaited,
                   last, history>>

\* Mistake: the task is created whether or not the server runs.
AddTaskAlways(f) ==
    /\ \A i \in DOMAIN factories : factories[i] # f
    /\ factories' = Append(factories, f)
    /\ CreateTasks(<<f>>)
    /\ UNCHANGED <<pc, serverVars, clientVars, awaited, last>>
    /\ NoteOverlap

\* Mistake: a factory added to a running simulator waits for the next start.
AddTaskLater(f) ==
    /\ \A i \in DOMAIN factories : factories[i] # f
    /\ factories' = Append(factories, f)
    /\ UNCHANGED <<tasks, made, state>>
    /\ UNCHANGED <<pc, serverVars, clientVars, awaited, last>>
    /\ NoteOverlap

\* add_task is not a coroutine: anything that runs on the loop may call it.
AddTask(f) ==
    /\ \A i \in DOMAIN factories : factories[i] # f
    /\ factories' = Append(factories, f)
    /\ IF server # None THEN CreateTasks(<<f>>) ELSE UNCHANGED <<tasks, made, state>>
    /\ UNCHANGED <<pc, serverVars, clientVars, awaited, last>>
    /\ NoteOverlap

-----------------------------------------------------------------------------
(***************************************************************************)
(* start                                                                   *)
(***************************************************************************)
\* server.start() returns at once when _server is set, closed or not.
StartAgain(p) ==
    /\ pc[p] = "idle" /\ server # None
    /\ StartTasks
    /\ last' = "started"
    /\ UNCHANGED <<pc, serverVars, clientVars, factories, awaited>>
    /\ NoteOverlap

\* server.start() finds no server, and start_server resolves the host.
BeginStart(p) ==
    /\ pc[p] = "idle" /\ server = None
    /\ pc' = [pc EXCEPT ![p] = "resolving"]
    /\ last' = "none"
    /\ NoteOverlap
    /\ UNCHANGED <<serverVars, clientVars, taskVars, awaited>>

\* start_server opens the socket.  Nothing is looked at again: another start
\* may have come up meanwhile, and a stop may have begun or ended.
Bind(p) ==
    /\ pc[p] = "resolving" /\ opened < MaxServers
    /\ FixedPort => listening = {}
    /\ opened' = opened + 1
    /\ listening' = listening \cup {opened'}
    /\ subject' = [subject EXCEPT ![p] = opened']
    /\ pc' = [pc EXCEPT ![p] = "starting"]
    /\ UNCHANGED <<server, clientVars, taskVars, awaited, last, history>>

\* OSError, from the resolver or from bind, whoever has the port: start fails,
\* no task is created.
StartFails(p) ==
    /\ pc[p] = "resolving"
    /\ pc' = [pc EXCEPT ![p] = "idle"]
    /\ last' = "failed"
    /\ UNCHANGED <<serverVars, clientVars, taskVars, awaited, history>>

FinishStart(p) ==
    /\ pc[p] = "starting"
    /\ server' = subject[p]
    /\ subject' = [subject EXCEPT ![p] = None]
    /\ StartTasks
    /\ pc' = [pc EXCEPT ![p] = "idle"]
    /\ last' = "started"
    /\ UNCHANGED <<listening, opened, clientVars, factories, awaited, history>>

-----------------------------------------------------------------------------
(***************************************************************************)
(* stop                                                                    *)
(***************************************************************************)
\* Mistake: the server is forgotten without being closed.
CloseServerForgotten(p) ==
    /\ server' = None
    /\ pc' = [pc EXCEPT ![p] = "idle"]
    /\ last' = "stopped"
    /\ UNCHANGED <<listening, opened, subject>>

\* Mistake: a server that does not listen any more is left as it is.
CloseServerOnce(p) ==
    /\ listening' = listening \ {server}
    /\ IF server \in listening /\ WaitsForConnections /\ clients[server] > 0
         THEN /\ pc' = [pc EXCEPT ![p] = "closing"]
              /\ subject' = [subject EXCEPT ![p] = server]
              /\ last' = "none"
              /\ UNCHANGED server
         ELSE /\ pc' = [pc EXCEPT ![p] = "idle"]
              /\ last' = "stopped"
              /\ server' = IF server \in listening THEN None ELSE server
              /\ UNCHANGED subject
    /\ UNCHANGED opened

\* server.stop() up to its await, or to its end when there is nothing to wait
\* for: the second close of one server does nothing.
CloseServer(p) ==
    /\ listening' = listening \ {server}
    /\ IF server # None /\ WaitsForConnections /\ clients[server] > 0
         THEN /\ pc' = [pc EXCEPT ![p] = "closing"]
              /\ subject' = [subject EXCEPT ![p] = server]
              /\ last' = "none"
              /\ UNCHANGED server
         ELSE /\ pc' = [pc EXCEPT ![p] = "idle"]
              /\ last' = "stopped"
              /\ server' = None
              /\ UNCHANGED subject
    /\ UNCHANGED opened

\* _stop_tasks returns at once when there is no task.
StopWithoutTasks(p) ==
    /\ pc[p] = "idle" /\ tasks = {}
    /\ CloseServer(p)
    /\ NoteOverlap
    /\ UNCHANGED <<clientVars, taskVars, awaited>>

\* Mistake: the tasks are awaited without being cancelled.
BeginStopNoCancel(p) ==
    /\ pc[p] = "idle" /\ tasks # {}
    /\ awaited' = [awaited EXCEPT ![p] = tasks]
    /\ pc' = [pc EXCEPT ![p] = "gathering"]
    /\ last' = "none"
    /\ NoteOverlap
    /\ UNCHANGED <<serverVars, clientVars, taskVars>>

\* Mistake: a stop awaits gather also when there is no task.
BeginStopUnguarded(p) ==
    /\ pc[p] = "idle"
    /\ state' = [t \in Task |->
                    IF t \in tasks /\ state[t] = "running" THEN "cancelling"
                                                           ELSE state[t]]
    /\ awaited' = [awaited EXCEPT ![p] = tasks]
    /\ pc' = [pc EXCEPT ![p] = "gathering"]
    /\ last' = "none"
    /\ NoteOverlap
    /\ UNCHANGED <<serverVars, clientVars, factories, tasks, made>>

BeginStop(p) ==
    /\ pc[p] = "idle" /\ tasks # {}
    /\ state' = [t \in Task |->
                    IF t \in tasks /\ state[t] = "running" THEN "cancelling"
                                                           ELSE state[t]]
    /\ awaited' = [awaited EXCEPT ![p] = tasks]
    /\ pc' = [pc EXCEPT ![p] = "gathering"]
    /\ last' = "none"
    /\ NoteOverlap
    /\ UNCHANGED <<serverVars, clientVars, factories, tasks, made>>

\* gather returns, _tasks is cleared whatever it holds by now, and
\* server.stop() begins in the same step.
TasksStopped(p) ==
    /\ pc[p] = "gathering"
    /\ \A t \in awaited[p] : state[t] = "done"
    /\ tasks' = {}
    /\ awaited' = [awaited EXCEPT ![p] = {}]
    /\ CloseServer(p)
    /\ UNCHANGED <<clientVars, factories, made, state, history>>

\* The last connection to the server is gone, and wait_closed returns.
Closed(p) ==
    /\ pc[p] = "closing" /\ clients[subject[p]] = 0
    /\ server' = None
    /\ pc' = [pc EXCEPT ![p] = "idle"]
    /\ subject' = [subject EXCEPT ![p] = None]
    /\ last' = "stopped"
    /\ UNCHANGED <<listening, opened, clientVars, taskVars, awaited, history>>

\* The task that called is cancelled, by a timeout say: CancelledError is
\* raised where it awaits, and nothing after that is done.  A cancelled gather
\* raises once the tasks have ended; the socket start_server has opened stays.
Cancelled(p) ==
    /\ p \in Starting \cup Stopping
    /\ \A t \in awaited[p] : state[t] = "done"
    /\ pc' = [pc EXCEPT ![p] = "idle"]
    /\ subject' = [subject EXCEPT ![p] = None]
    /\ awaited' = [awaited EXCEPT ![p] = {}]
    /\ last' = "cancelled"
    /\ cancelled' = CASE pc[p] = "resolving" -> cancelled
                      [] pc[p] = "starting" -> cancelled \cup {"start"}
                      [] p \in Stopping -> cancelled \cup {"stop"}
    /\ UNCHANGED <<server, listening, opened, clientVars, taskVars, overlap>>

-----------------------------------------------------------------------------
(***************************************************************************)
(* Clients.                                                                *)
(***************************************************************************)
ClientConnects(s) ==
    /\ s \in listening /\ accepted < MaxClients
    /\ accepted' = accepted + 1
    /\ clients' = [clients EXCEPT ![s] = @ + 1]
    /\ UNCHANGED <<pc, serverVars, taskVars, awaited, last, history>>

ClientLeaves(s) ==
    /\ clients[s] > 0
    /\ clients' = [clients EXCEPT ![s] = @ - 1]
    /\ UNCHANGED <<pc, serverVars, accepted, taskVars, awaited, last, history>>

Resumes(p) == FinishStart(p) \/ TasksStopped(p) \/ Closed(p)

Next ==
    \/ \E p \in Caller :
          \/ StartAgain(p) \/ BeginStart(p) \/ Bind(p) \/ StartFails(p)
          \/ StopWithoutTasks(p) \/ BeginStop(p)
          \/ Resumes(p) \/ Cancelled(p)
    \/ \E f \in Factory : AddTask(f)
    \/ \E t \in Task : TaskEnds(t)
    \/ \E s \in Server : ClientConnects(s) \/ ClientLeaves(s)

\* The loop resumes what can go on, and a cancelled task ends: tasks let
\* CancelledError through.  A task that was not cancelled need not end, and
\* no client need ever disconnect.
Spec ==
    /\ Init /\ [][Next]_vars
    /\ \A p \in Caller : WF_vars(Resumes(p))
    /\ \A t \in Task : WF_vars(state[t] = "cancelling" /\ TaskEnds(t))

-----------------------------------------------------------------------------
(***************************************************************************)
(* Properties.                                                             *)
(***************************************************************************)
\* The types, and that a caller holds exactly what its await is about: the
\* server being opened or closed, or the tasks that are to end.
TypeOK ==
    /\ pc \in [Caller -> {"idle", "resolving", "starting", "gathering", "closing"}]
    /\ server \in Server \cup {None}
    /\ listening \subseteq Server
    /\ opened \in 0 .. MaxServers
    /\ subject \in [Caller -> Server \cup {None}]
    /\ clients \in [Server -> 0 .. MaxClients]
    /\ factories \in Seq(Factory)
    /\ tasks \subseteq DOMAIN made
    /\ made \in Seq(Factory)
    /\ state \in [Task -> {"none", "running", "cancelling", "done"}]
    /\ awaited \in [Caller -> SUBSET Task]
    /\ \A p \in Caller : /\ pc[p] \in {"starting", "closing"} <=> subject[p] # None
                         /\ pc[p] = "gathering" <=> awaited[p] # {}
    /\ last \in {"none", "started", "stopped", "failed", "cancelled"}
    /\ overlap \subseteq {"stop and call", "start and stop", "two starts"}
    /\ cancelled \subseteq {"start", "stop"}

Live(t) == state[t] \in {"running", "cancelling"}
Quiet == \A p \in Caller : pc[p] = "idle"

\* No listening socket is left that no call and no later stop can reach
\* (ModbusTcpServer.start looks at _server before its awaits and assigns it
\* after them).  Only these leave one: a start that is cancelled once its socket
\* is open, a start and a stop that await at the same time, and, when the port
\* is not fixed, two starts that do.  On a fixed port the second of two starts
\* fails, or binds what a stop has given up.
Reachable(s) == s = server \/ \E p \in Caller : pc[p] = "starting" /\ subject[p] = s

StartsUndisturbed ==
    /\ "start" \notin cancelled /\ "start and stop" \notin overlap
    /\ FixedPort \/ "two starts" \notin overlap

NoOrphanListener == StartsUndisturbed => \A s \in listening : Reachable(s)

\* doc/simulator.rst: "Tasks are started when the simulator starts and
\* cancelled when the simulator stops."  So a simulator that is down, with no
\* call in progress, has no task left running.
StoppedMeansNoTasks ==
    Quiet /\ server = None => \A t \in Task : ~Live(t)

\* No call was made while a stop was in progress, and no stop awaited anything
\* while a start did.
StopsAreApart == overlap \subseteq {"two starts"}

\* ... which holds as long as stops are apart from the other calls.
StoppedMeansNoTasksIfSerial == StopsAreApart => StoppedMeansNoTasks

\* A factory never has two live tasks, however often start is called and
\* whenever the factory is added.
OneTaskPerFactory ==
    StopsAreApart =>
        \A t, u \in DOMAIN made : t # u /\ made[t] = made[u] => ~Live(t) \/ ~Live(u)

\* Once start has returned, and until the next call, the server listens and
\* every factory, added before, during or after the start, has its task; unless
\* a stop was cancelled, after which start finds a closed server or old tasks.
StartedMeansServing ==
    StopsAreApart /\ "stop" \notin cancelled /\ last = "started" /\ Quiet =>
        /\ server \in listening
        /\ \A i \in DOMAIN factories : \E t \in tasks : made[t] = factories[i]

\* A stop that returns has finished the job, also that of stops that were
\* cancelled before it at any of their awaits: nothing listens, no task runs,
\* and the next start begins anew.
StoppedMeansStopped ==
    StopsAreApart /\ last = "stopped" /\ Quiet =>
        /\ server = None /\ tasks = {}
        /\ StartsUndisturbed => listening = {}
        /\ \A t \in Task : ~Live(t)

\* A stop returns, unless a client keeps its connection to the server open.
StopReturns ==
    \A p \in Caller :
        pc[p] \in {"gathering", "closing"} ~>
            pc[p] = "idle" \/ \E s \in Server : clients[s] > 0
=============================================================================
