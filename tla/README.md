# A TLA+ model of clear-modbus

clear-modbus is a Python library for Modbus TCP and Modbus RTU: a client for
each, a TCP server over a datastore, and a simulator that runs the server with
background tasks. All of it is asyncio code of one event loop, with blocking
serial I/O moved to threads. This directory holds TLA+ modules translated from
`src/src/clear_modbus`, the TLC configurations that check them, and proofs
that TLAPS checks. Paths below are relative to that package unless they start
with `src/`.

Contents: [inventory](#inventory), [modules](#modules), [runs](#runs-and-bounds),
[fairness](#fairness), [findings](#findings), [proofs](#proofs),
[limits](#what-is-not-modelled), [plan](#plan).

## Inventory

| Component | State | Operations | What is hard | What makes it correct |
|---|---|---|---|---|
| Datastore: `datastore/memory.py`, `blocks.py`, `base.py`, `errors.py` | per area a tuple of blocks sorted by start, an index of the non-empty ones with their starts | constructor, 4 getters, 2 setters; the simulator writes the other two areas through `_find_block` | bisection looks at one block, validation at neighbours only; writes of several values | exactly the disjoint layouts are accepted; a range is served iff one block holds it; a refused write changes nothing |
| Request handling: `server.py` `handle_request` | none of its own | one branch for each of 11 function codes | 0x16 reads, computes and writes; 0x17 reads, writes, reads again; errors after an effect | refused means unchanged; a read shows the store it leaves |
| Connections: `server.py` `_handle_client` | per connection the header it has read, the stream, the write buffer | read header, read PDU and answer, drain, close | several tasks share the datastore; pipelining, stalls, half frames, clients that vanish or do not read | answers in order, once, under their own ids; every complete request settled; bounded buffering |
| Device identification: `server.py`, `protocol/pdu.py` | a table of objects | select, fit into a PDU, `more_follows` | paging over 253 bytes, gaps in the ids | each object once, in order; the walk ends |
| Simulator: `simulator.py`, `server.py` `start`/`stop` | `_server`, `_task_factories`, `_tasks` | `start`, `stop`, `add_task`, direct writes | each of them suspends half way; overlapping calls; a stop that waits for clients | no lost listener, no orphan task, one task per factory, stop returns |
| TCP client: `client.py`, `transport/tcp.py`, `protocol/mbap.py`, `codec.py` | transaction id, stream reader and writer | `execute`, `connect`, `close` | timeouts and late answers, callers sharing one stream, reconnects, the id wrapping | an answer is accepted under the call's own header only, and is whole unless callers share the stream; calls return; no leaked socket |
| RTU client: `rtu_client.py`, `transport/serial.py`, `protocol/rtu.py` | the serial handle; bytes received so far | `execute`, `connect`, `close` | no length and no id in a frame: sizes are inferred; reads run in threads that outlive their call | only whole fitting frames accepted; an undisturbed call understands every answer; calls return |
| Client helpers: `client_helpers.py`, `exceptions.py` | none | encode, execute, check the type and echo of the response | an answer of the right function with other data | mismatches raise |
| PDU codec: `protocol/pdu.py`, `constants.py` | none | encode, decode, validate | bit packing, byte counts, limits; bytes of other implementations that contradict each other | what is asked arrives, what is answered comes back; nothing decodes that is not valid |
| Custom registry: `protocol/registry.py` | two dictionaries | register, look up | codes taken already, codes of the library, codes on a serial line | the first decoder of a code decodes it, and no decoder a code of the library |

How they meet: a helper encodes a request and calls `execute`, which writes to
a transport and reads the answer. At the other end `_handle_client` reads a
frame, calls `handle_request`, which calls the datastore, and writes the
answer. Nothing is locked: shared state is the datastore (every connection, the
simulator's tasks and the application use it) and the transport of a client
(every coroutine that uses the client). What protects them is that a coroutine
runs without interruption between two awaits, so **an action of a module is what
the code does from one await to the next.**

## Modules

| Module | Models | Builds on |
|---|---|---|
| `AddressRanges` | areas, extents, outcomes of reading and writing a range | |
| `AddressSpace` | *abstract*: what a datastore promises | `AddressRanges` |
| `Blocks` | `RegisterBlock`, `BitBlock` | `AddressRanges` |
| `MemoryDataStore` | the store: sorting, index, validation, bisection, splices | `Blocks`; instantiates `AddressSpace` |
| `RequestHandler` | decoding outcome and `handle_request`, over the abstract store | `AddressRanges` |
| `ModbusServer` | connections, clients, the application's writes | `RequestHandler` |
| `SimulatorLifecycle` | start, stop, `add_task`, their cancellation, clients | |
| `ModbusTcpClient` | `execute`, connect, close, stream, device | |
| `RemoteStore` | *abstract*: what calls to a server promise | |
| `ClientServer` | the TCP client with a server as its device | `ModbusTcpClient`; instantiates `RemoteStore` |
| `RtuClient` | `execute` frame sizes, threads, port, devices | |
| `Codec` | PDUs as bytes: validation, encoding, decoding, the helpers' checks | |
| `Framing` | the MBAP header, the CRC, what a client takes from a stream | `Codec` |
| `DeviceIdentification` | selection, fitting and paging of objects, as operators | |
| `Exchange` | registry, request, device, noise, result: one exchange, or a walk over an identification | `Framing`, `DeviceIdentification` |
| `MemoryDataStoreProofs`, `ModbusServerProofs`, `SimulatorLifecycleProofs`, `ModbusTcpClientProofs`, `ClientServerProofs`, `RtuClientProofs` | theorems | the module they name |
| `CodecProofs` | lemmas about PDUs, frames, the CRC and flipped bits | `Framing` |
| `ExchangeProofs` | theorems | `Exchange`, `CodecProofs` |
| `MC…` | instances for TLC: values for the constants | their module |

Operators preceded by a comment that begins *Mistake:* are not part of a
specification. Each is a plausible bug in the operator that follows it;
substituting it there must make a property fail, which shows that the property
can fail.

**Store.** `blocks[area]` is the sorted tuple, `index[area]` the positions of
its non-empty blocks (the code's list holds the same objects). `Construct`
is the constructor with its validation; `Get` and `Set` are the accessors,
`FindBlock` with `BisectRight` is `_find_block`. Python's stable sort and
`bisect_right` are stated by what they return. A value is a member of
`Value[area]` (accepted by the area) or of `Junk`; the blocks' constructors
validate nothing, so a block may start with junk. `answer` is what the last
call returned or raised.

**Server.** `handle_request` never awaits, so `HandleRequest` is a function from
request and store to response and store. Its store is the abstract one, which
the refinement theorem justifies. Registers are sets of bits, so that the masks
of 0x16 are set operations. `ReadHeader`, `ReadBody`, `Drained`, `LinkEnds` and
`Close` are the segments of `_handle_client`; `ReadBody` decodes, handles,
encodes and writes, as the code does without an await. Clients send a header
and a PDU separately and may leave in between, with an orderly end or a reset.
`LocalSet` is a write by a simulator task.

**Simulator.** A caller's `pc` says in which await it is: `resolving` and
`starting` (`start_server`, before and after it opens the socket), `gathering`
(cancelled tasks), `closing` (`wait_closed`). `server` is `_server`: `BeginStart`
looks at it, `Bind` comes any time later and looks at nothing, and `FinishStart`
assigns it, so that other starts and stops run in between. What a stop finds when
it comes back (`Closed`) is forgotten, whichever server it is. `Cancelled` is the
cancellation of the task that called, at any of these awaits: what follows the
await is not done. `overlap` is a history variable: which of three things ever
happened, a call during a stop, a start and a stop that await together, two
starts that do. The `asyncio.Server`, tasks and ports are external, by what the
code relies on: a fixed port is bound by one listener at a time, port 0 by any
number, `wait_closed` waits for connections (CPython 3.12.1 on;
`src/pyproject.toml` supports 3.11 on, where it returned at once, and
`WaitsForConnections` is a constant for that).

**TCP client.** A `StreamReader` has one waiter; arriving data wakes it, a call
that finds enough bytes takes them at once, a second waiter raises
`RuntimeError`. `Execute` is the send (up to a `drain` that has to wait),
`ReceiveHeader` and `ReceivePDU` the two receives. A response is two pieces, a
header and a PDU. A reader that meets another piece than it expects takes some
bytes and leaves the stream aligned or not. `Decode` compares the transaction id
of the header the call holds, and no more: a PDU names no call, so one that
answers another request is accepted when its function code and length fit, and
so are bytes out of alignment (`Garbage`). A result records both the header and
the PDU it was made of. `crossed` is a history variable: the calls between whose
two receives another call took bytes of their connection. One thing is assumed
of bytes: seven of them read out of alignment do not happen to carry protocol
id 0, the unit and the very transaction id of the call. `BeginConnect` and
`BeginClose` forget the streams before their await, as the code does.

**Client and server.** `ClientServer` adds to the client an inbox for each
connection and the server's datastore, one register. `Serve` is `ReadBody` of
`ModbusServer`: it takes the next request of a connection, applies it and
answers, also when the call has timed out or the client has left that
connection. `RemoteStore` says what callers may rely on: `Invoke`,
`TakeEffect` at most once, then `Return` with the value of that effect, or
`Fail` before or after it. A call that is `crossed` maps to one that failed: what
it returned may be another request's answer.

**RTU client.** Bytes are tokens of the response they belong to. `Following` is
the sequence of receives: prefix, then according to function code fixed rest,
byte count and rest, or identification header and objects. A read runs in a
thread with the same timeout as its await: `ReceiveTimeout` ends the call and
leaves the thread taking bytes until `ThreadEnds`. `Intact` is the CRC,
`Decoded` the checks of unit, function code and echo. `quiet` is a history
variable: the call began on an empty line, with no thread and no unanswered
request left over, and nobody joined it.

**Exchange.** The one part where bytes are numbers. A request or a response
is a record of the class it belongs to, its function code, fields and values;
`PostInit` is `__post_init__`, `EncodeRequest`, `DecodeRequest`,
`EncodeResponse` and `DecodeResponse` are the codec, `HelperReturns` the checks
of `client_helpers.py`. A `session` says who talks to whom: a helper to this
library's server, once or for as long as `more_follows`; another client to the
server; a helper to another device, which answers something near the right
answer; or a helper to a device on a serial line that flips bits. Before it,
the application registers decoders (`Register`); a decoder is its name. The
server of this module answers with any data its datastore could hold; how
requests share a datastore is the matter of `ModbusServer`. Transaction and unit
ids are fixed here: comparing them is the matter of `ModbusTcpClient`.

## Runs and bounds

Each run takes less than five minutes with two workers.

| Run | Instance | Shows |
|---|---|---|
| `store` | every list of up to 3 blocks from 10 (starts 0–2, lengths 0–2, one read-only) as holding registers, and one device with all four areas; addresses and counts 0–3; 7 writes, some partly invalid | `AcceptedIffDisjoint`, `LookupIsExact`, `OnlyValidValuesArrive`, `ImplementsAddressSpace` |
| `server` | 2 connections, a datastore with writable, read-only and bit cells, one or two frames of every kind, good and bad, 2 frames in all, no buffering below the server's | `AnswersFollowRequests`, `RefusalChangesNothing`, `ReadsSeeTheStore`, `EveryRequestSettled`; `TypeOK` includes the bound on unread responses |
| `server_invalid_value` | the same with a register configured wider than 16 bits | violates `EveryFailureIsAnswered` |
| `simulator` | 2 callers, each of which may be cancelled, 2 factories, a fixed port, 3 listeners, 4 tasks, 2 clients over time | `NoOrphanListener`, `StoppedMeansNoTasksIfSerial`, `StoppedMeansStopped`, `OneTaskPerFactory`, `StartedMeansServing`, `StopReturns` |
| `simulator_overlap` | as `simulator`, 5 tasks | violates `StoppedMeansNoTasks` |
| `tcp_client` | 2 callers, 1 coroutine that connects and closes, 3 calls, 2 transaction ids, 2 connections | `AcceptedIsOwn`, `NoLeakedConnection`, `ExecuteReturns`, `CloseAndConnectReturn` |
| `tcp_client_others_answer` | the same | violates `OthersAnswersAreRefused` |
| `client_server` | the same client with 3 transaction ids; calls 1 and 2 write, call 3 reads | `ImplementsRemoteStore`, `OldRequestsAreDone` |
| `rtu_client` | 2 callers on one line, writes to two units and read/write 0x17, 2 calls, the port opened once | `AcceptedFits`, `QuietCallIsAnswered` |
| `rtu_client_reopened` | 1 caller, mask write and device identification, 2 calls, the port opened twice | the same and `ExecuteReturns` |
| `rtu_read_count` | 1 caller, reads of 1 and of 2 registers | violates `ReadHasItsCount` |
| `exchange` | every helper with arguments at and beyond each limit; six custom requests with up to 2 registrations; other peers with up to two mistakes for a short request of each kind; every pair of flipped bits; walks over every table over the ids 0, 2, 3, 128 or 0, 127, 128 and the lengths 0, 121, 122, 244 | `RequestArrives`, `AnswerArrives`, `ForeignRequestIsExact`, `ForeignAnswerFits`, `FrameIsTakenWhole`, `DamageIsDetected`, `CrcIsRemainder`, `EveryObjectOnce`, `WalkEnds`; `TypeOK` includes that frames fit 253 bytes |

Why the bounds suffice for the cases that matter:

* Three blocks are the least for an overlap of blocks that are not neighbours
  in the argument list; lengths 0–2 give gaps, touching blocks and empty ones
  between. The proofs remove the bound.
* Two frames are a pipelined pair on one connection or one on each; a refusal,
  a combined request and a write that disturbs it all fit. `Absorbed = 0`
  makes `drain` wait at the first unread response, the earliest it can. The
  proofs remove these bounds.
* Two calls are a timed-out one and the one that meets its late answer; the
  third of `tcp_client` lets the transaction id wrap, or makes room for a late
  answer and two callers that read by turns. Two connections are one
  before and one after a reconnect. The order in which callers start is free,
  so two callers and one caller with two calls are both in the runs. In
  `client_server` the ids do not wrap, as `ImplementsRemoteStore` would then
  meet what `AcceptedIsOwn` excepts; the two writes and the read are a write
  that is late, one that overtakes it on another connection, and a read that
  tells which was last.
* Three listeners and four tasks allow start, stop, start with a third start
  overlapping, and two factories created twice. The fifth task of
  `simulator_overlap` is one added meanwhile. The runs have a fixed port; that
  two starts on port 0 come up side by side is in the model and in the proofs,
  and no run has it.
* `AnyByte` holds the values of a byte out of place, 0 and a small count:
  larger counts only make the client wait for more and time out. `Pause` holds
  the number of bytes after which an answer may stall; 3 lies behind the prefix
  and behind a byte count, so that the stall, and the timeout in it, fall
  between two receives as well as inside one.
* The counts of `exchange` lie on each side of every limit: 8 and 9 bits, 2000,
  2001, 1968 and 1969 bits, 125, 126, 123, 124, 121 and 122 registers, and each
  field below 0 and above 65535. Bits are all lists of up to 3, and longer ones
  with a lone bit at either end. Two mistakes let a length and a byte count, or
  a byte count and a count, contradict each other; a mistake is a byte changed,
  added or missing. Lengths 121 and 122 fill a PDU to the last byte or miss it by
  one, 244 fills it alone, and ids 2 and 3, 127 and 128 lie on the two sides of
  the limits of the read codes.
* Calls, listeners, frames and port openings are counted, so the client runs
  stop when the count is used up and their configurations switch the
  deadlock check off; so does a finished exchange. The store, server
  and simulator runs check deadlock.

No symmetry is declared: the runs check liveness or give each caller other
calls.

## Fairness

* `ModbusServer`: weak fairness of each connection's task. The event loop runs
  a task whose await is over. Clients owe nothing, so `EveryRequestSettled`
  excuses a client that does not read its responses.
* `SimulatorLifecycle`: weak fairness of a caller that can resume, of
  a stop whose server has closed, and of the end of a *cancelled* task, which assumes that task
  code lets `CancelledError` through. A task that was not cancelled need not
  end, no client need leave: `StopReturns` excuses a connection that stays.
  Nobody need cancel a caller.
* `ModbusTcpClient`: the timeout of an await fires (`asyncio.timeout` around
  every await of `execute` with the client's timeout), a connection attempt
  ends (it has a timeout too), a flush
  that can finish does. Nothing is assumed of the device. `close` and `connect`
  await `wait_closed` with no timeout, hence the excuse `on[m] \in stalled`.
* `RtuClient`: the timeouts of the write and of the awaits of reads fire. No
  fairness for threads, devices or the port.
* `Exchange`: in a walk the caller asks again, the server answers, and an
  answer, or its timeout, is taken. Other exchanges need not go on.
* `ClientServer`: none; what a call that returns means needs no progress.

## Findings

The violation runs show where the code does other than the repository's
documentation says. `PROJECT.json` has the quoted lines.

1. `server_invalid_value`: a block built with a value above 0xFFFF (the
   constructor does not validate) makes `response.encode()` raise
   `struct.error` when it is read. That is neither `ModbusPDUError` nor
   `ValueError`; the connection task ends and closes with no response, after
   the write half of a 0x17 request was applied. `doc/server.rst` promises an
   exception response.
2. `simulator_overlap`: a `start` or an `add_task` while `stop` awaits adds a
   task that `self._tasks.clear()` then forgets without cancelling it.
   `doc/simulator.rst` says tasks are cancelled when the simulator stops. No call
   need be made during the stop: `start` looks at `_server` and binds an await
   later, `stop` clears `_server` an await after it has closed one. If two starts
   meet, and the second binds while the stop of the first one's server waits for
   a client, the stop clears the second server, which listens on with its tasks,
   and no later stop reaches it. `StoppedMeansNoTasksIfSerial` shows that tasks
   are only left so, and `NoOrphanListener` says which overlaps lose a listener.
3. `rtu_read_count`: an RTU answer has no transaction id and a register read is
   not compared with the count of its request, so after a timeout the late
   answer to a read of one register is returned by a read of two.
   `doc/errors.rst` says that helpers raise on a response that is not the one
   expected. Every other call the model makes has its data compared
   (`AcceptedFits`).
4. `tcp_client_others_answer`: two coroutines use one client. One holds its
   header; the other, out of step after a timeout, reads that header's PDU and
   the header behind it as one piece and is refused; the first then takes the
   next PDU, which answers another request, under its own header. `execute`
   compares the header with the call and the PDU with nothing but its length and
   function code. `doc/errors.rst` says that a response that does not match the
   request raises. `AcceptedIsOwn` shows that it takes another call reading in
   between, and `ClientServerRefines` that without one the value is the call's own.

Described here, not findings:

* After a timeout over TCP the late response stays in the stream, so each later
  call on that connection reads its predecessor's response and refuses it, until
  the application reconnects. With one caller at a time no wrong answer is
  accepted (`AcceptedIsOwn`), up to the wrap of the transaction id, which the
  property states, and the assumption about bytes out of alignment above. With
  several it is finding 4.
* The second of two coroutines that await one client's stream gets a
  `RuntimeError` of asyncio, which `receive` does not translate, while
  `doc/errors.rst` has `ModbusError` cover library-level failures. The model
  has it as an outcome of a call, and no property forbids it.
* Two starts that overlap on port 0 both succeed, and the listener of the first
  to come up is lost; a start and a stop that await at the same time may lose
  one on any port. `NoOrphanListener` says that besides these and a start
  cancelled after its bind nothing does.
* A write that timed out on a connection the client has since left can be
  applied after a later write, on the new connection, has returned. On one
  connection it cannot (`OldRequestsAreDone`).
* Two coroutines that connect one transport at the same time leak a socket; no
  document says they may.
* A start that is cancelled inside `start_server` leaves a listening socket that
  nothing holds. A start after a cancelled stop returns at once, with a server
  that does not listen or without tasks, unless a second stop is made first,
  which finishes the job (`StoppedMeansStopped`).
* A response whose function code is not the request's, or that is malformed,
  raises a bare `ValueError`, in `decode_response_pdu` and below.
  `src/doc/errors.rst` names `ModbusResponseMismatchError` for high-level
  helpers only.
* A custom function's answer on a serial line is read as one that begins with a
  byte count, whatever its decoder expects.
* A decoder can be registered for a function code of the library and is never
  consulted.
* A request to write coils may carry more bytes than its coils need; the surplus
  is ignored (`ForeignRequestIsExact` states it).
* Flipped bits can change how much of a frame the client takes so that what
  it takes has a CRC that fits: `01 01 01 00 51 88` is a read of a coil,
  `01 81 03 00 51` an exception. `DamageIsDetected` promises detection of flipped
  bits that leave the length alone, up to three; four may be those of the generator
  itself, and cancel out.

## Proofs

Every theorem holds for all values of the constants, under the assumptions the
modules name and those below.

| Theorem | States | Assumes besides |
|---|---|---|
| *`MemoryDataStoreProofs`* | | |
| `InvariantHolds` | `Spec => []IInv` | |
| `TypeCorrect` | `Spec => []TypeOK` | |
| `LookupExact` | `Spec => []LookupIsExact`: bisection is exact | |
| `AcceptsExactlyDisjoint` | `Spec => []AcceptedIffDisjoint` | |
| `OnlyValidValuesArriveAlways` | `Spec => OnlyValidValuesArrive` | |
| `StoreImplementsAddressSpace` | `Spec => ImplementsAddressSpace` | |
| *`ModbusServerProofs`* | | |
| `ServerInvariant` | `Spec => []SInv` | |
| `AnswersFollowRequestsAlways` | `Spec => []AnswersFollowRequests` | |
| `OneResponseBuffered` | at most `Absorbed + 1` responses of a connection are unread | |
| `TypeCorrect` | `Spec => []TypeOK` | `PlainStore(InitialCells)` |
| `RefusalChangesNothingAlways` | `Spec => RefusalChangesNothing` | `PlainStore(InitialCells)` |
| `ReadsSeeTheStoreAlways` | `Spec => ReadsSeeTheStore` | `PlainStore(InitialCells)` |
| *`SimulatorLifecycleProofs`* | | |
| `LifecycleInvariant` | `Spec => []LInv` | |
| `LifecycleTypes`, `NoOrphans`, `DownRunsNothing`, `StoppedIsStopped`, `OneTaskEach`, `StartedServes` | `Spec => []` of `TypeOK`, `NoOrphanListener`, `StoppedMeansNoTasksIfSerial`, `StoppedMeansStopped`, `OneTaskPerFactory`, `StartedMeansServing` | |
| *`ModbusTcpClientProofs`* | | |
| `InvariantHolds`, `TypeCorrect`, `AnswersStayWhole`, `AcceptedIsOwnAlways` | `Spec => []` of `IInv`, `TypeOK`, `Whole`, `AcceptedIsOwn` | |
| `NoConnectionLeaks` | `Spec => []NoLeakedConnection` | one manager |
| *`ClientServerProofs`* | | |
| `InvariantWithServer` | `SpecWithServer => [](IInv /\ Whole /\ ServerInv)` | |
| `OldRequestsAreDoneAlways` | `SpecWithServer => []OldRequestsAreDone` | `MaxRequests <= TidMax` |
| `ClientServerRefines` | `SpecWithServer => ImplementsRemoteStore` | `MaxRequests <= TidMax` |
| *`RtuClientProofs`* | | |
| `RtuInvariant`, `TypeCorrect`, `AcceptedFitsAlways` | `Spec => []` of `RInv`, `TypeOK`, `AcceptedFits` | |
| `QuietCallIsAnsweredAlways` | `Spec => QuietCallIsAnswered` | |
| *`ExchangeProofs`* | | |
| `ExchangeInvariant` | `Spec => []IInv` | |
| `TypeCorrect`, `RequestArrivesAlways`, `AnswerArrivesAlways`, `ForeignAnswerFitsAlways`, `FrameIsTakenWholeAlways`, `EveryObjectOnceAlways` | `Spec => []` of `TypeOK`, `RequestArrives`, `AnswerArrives`, `ForeignAnswerFits`, `FrameIsTakenWhole`, `EveryObjectOnce` | |
| `CrcIsRemainderAlways` | `Spec => []CrcIsRemainder`: the table computes the standard's CRC | |
| `DamageIsDetectedAlways` | `Spec => []DamageIsDetected` | no session flips more than 3 bits |
| `ForeignRequestIsExactAlways` | `Spec => ForeignRequestIsExact` | |

The assumptions of the modules: `ValueAssumption` (accepted values are no junk),
`ArgumentAssumption` (arguments have their types; addresses and counts are any
integers), `WordAssumption` (a register accepts what fits its bits),
`ExtentAssumption`, `FrameAssumption`, `RequestAssumption` and
`LocalAssumption` (headers, requests that decode, and the application's writes
have the types of their classes), `ClientAssumption`, `WritesAssumption`,
`LifecycleAssumption` and `RtuAssumption` (bounds are natural numbers, callers
are not managers), `SessionAssumption` (a request has as many fields as its class,
which are integers; a request of a class of the application fits a PDU; a table
holds ids and lengths of bytes that the server accepts) and `DecoderAssumption`
(decoders do not have the names that tell the library's own classes apart). TLC evaluates each of them on the instances of its runs.

### The arguments

**Store.** `IInv` is `TypeOK /\ IndexOrdered`. `LookupIsExact` is not inductive:
it says nothing of the order of the blocks. `IndexOrdered` says that each
indexed block ends before any later one starts, and that the index leaves no
non-empty block out. `NeighboursSuffice` derives it from what the constructor
checks: starts that do not decrease and neighbours that do not overlap.
`BisectRightSplits` shows that the insertion point exists (by the well-ordering
of the naturals, since induction is not available) and `FindBlockExact` that
with `IndexOrdered` the block at the insertion point is the only candidate.
Calls preserve `IndexOrdered` because a splice keeps start and length
(`SplicedFacts`).

For the refinement, `extents` and `cells` are functions of `blocks`. The steps
are `InitRefines` and `StepRefines`. In an ordered tuple at most one block
covers an address (`OrderedApart`), so the value of a cell is the value of its
block (`CellAt`), a slice is a window (`SliceIsWindow`), and a splice is an
overlay (`StoredIsOverlay`). A rejected construction maps to `Reject`, and no
step but one that changes nothing maps to a stutter.

**Server.** That answers follow requests does not say what is still unread, so
it is not inductive. `SInv` gives every unread piece of a connection a *slot*:
the header or the PDU of request `n + 1`, `n + 2`, … where `n` have been
answered (`Plan`). Reading a piece drops the first slot, a client's piece adds
one at the end; a task that has read a header keeps it as the first piece
(`Queue`). For the datastore, the first half of `ModbusServerProofs` shows that each branch of
`handle_request` leaves a store of the same shape, changed in the area of its
function code only and not at all if it refuses (`HandleRequestSound`); `TInv`
adds to `SInv` that registers hold 16 bits. This needs `PlainStore(InitialCells)`:
with a wider register the answer cannot be encoded (finding 1), and the
write half of 0x17 is applied without an answer.

**Simulator.** `LInv` is `Numbered` (types; servers are numbered as they are
opened), `Sockets` (one listener on a fixed port; whose it is during a start;
what a stop in `wait_closed` has closed), `Meetings`, `OneEach` (no factory twice
in the list, no two tasks of one factory) and, as long as stops are apart from the
other calls, `Serial` (one stop at a time; what it gathers is the list; what is
live is on the list). The properties are about states with no call in progress;
the invariant has to say what holds at each await, and what a cancellation there
leaves behind. `Meetings` is what keeps a listener within reach: until two starts
have met, the one that awaits finds no server to replace; until a start and a stop
have met, a stop that comes back clears the server it closed, or nothing. Two
starts may meet on a fixed port: the second binds only what no one listens on,
so that it replaces a server that is closed already.

**TCP client.** `AcceptedIsOwn` speaks of the result only. `IInv` says that some
set of requests covers everything that client, stream and device hold
(`Carries`), and that two requests of the set with one transaction id lie
`TidMax` calls apart (`Spaced`). The set only grows by the request that is made,
whose id is the next in turn. `Control` says who awaits what, on which
connection; the lemma `Received` covers the two receives for every way a call
can come to them. `Whole` is about the PDU: on a stream that is aligned each header
is followed by its PDU, or is the last piece and its PDU is what the device sends
next (`Paired`); and what a call that holds a header would read next is that
header's PDU (`Follows`), until another call takes bytes of the connection, which
`crossed` notes.

**Client and server.** `ServerInv` adds that inboxes hold, in order, what was
written and is not handled (`Queues`), that responses in flight are to handled
requests (`ResponsesHandled`), and that on one connection what was handled
precedes what waits, and nothing after a lost request arrives (`InOrder`). In
the refinement a call's `Return` needs its own effect: `Spaced` gives that its
header is its own, as ids do not repeat (`AcceptedIsCalls`), and `Whole` that the PDU is the header's.

**RTU client.** `RInv` says that a receive in progress has a reading thread of
its own (`OwnIds`), what that thread has read and still wants, and that before
a size is inferred the bytes it is inferred from are there (`Begun`). `Fits` is
`AcceptedFits` of one result; the lemmas about `Following` and `Decode` cover
the branches of the size inference and the checks.

`QuietCallIsAnswered` is about the last step of a call, and needs `QuietInv`: a
call that is still quiet is `Calm`. The port is open, no other call runs and no
other thread reads; and either its request has not been answered, and nothing is
on the line, or its answer is under way (`OnItsWay`): what the call holds, what
its thread has read, what waits in the port and what the device still sends, in
this order (`Heard`), are the bytes of one answer to its request. Bytes only move from one of these to
the one before, so `Heard` stays what it is (`BytesArriveKeepsCalm`; `Regrouped`
moves the parentheses of the concatenations). If the answer is not garbled,
`InStep` also relates each receive to it: how many of its bytes came before, and
how many are wanted now. `StepFollows` shows that the sizes the client infers
keep in step with the frame, object by object for device identifications, so
that the last receive ends where the frame ends (`ReceivedEndsWell`).

**Exchange.** The requests, the data of a device, the registrations, the table
of objects and the bytes of other peers are arbitrary, so the proof is mostly
about the codec, in `CodecProofs`, in layers:

1. Bits, words, sequences. A byte is the sum of its bits (`BitsOfOctet`), a word
   its two bytes; `UnpackPackedBits`, `UnpackPackedWords` and their converses
   follow, for every length. What is recursive in the model (`ObjectStart`,
   `FlattenSeq`, `Size`, the loop of the CRC) is given its steps by `Iteration`:
   such a function exists, by the well-ordering of the naturals, as an induction
   theorem cannot be instantiated here.
2. Requests. Each valid request comes back from its bytes
   (`RequestComesBack`), and a payload that the checks let through is, byte for
   byte, the encoding of what is made of it (`StandardDecoding`), up to
   coils sent beyond the count. The two together make decoding exact.
3. Frames. Either frame is read as it was written, and its end is found from its
   beginning: from the length in the header (`TcpFrameFacts`), or, without one,
   from the function code, the byte count or the objects (`RtuFrameFacts`,
   `ObjectsInStream`, `AcceptedIsTaken`). Of the CRC this needs only that it is a
   word that depends on the message.
4. Responses. Each answer to a valid request comes back (`AnswerComesBack`,
   `ExceptionComesBack`), and what a client accepts from any bytes says what
   they say (`AcceptedIsExact`).

The properties are about what arrives, and say nothing of what is under way, so
none of them is inductive. `IInv` adds: `Asking`, the request on the line was
valid when it was made; `OnItsWay` and `OnItsWayBack`, the frame is the encoding
of that request, and of an answer that suits it; `Line`, whatever is on the line
is bytes; `Registry`, what is registered for a code is the decoder of the first
attempt, so that the decoder that `DecodeRequest` finds is the one the property
names. `AnswerArrives` and `ForeignAnswerFits` are about the result after the
frame was read; they are carried as conjuncts, and shown when `Return` sets the
result. For walks, `Walking` says that what was received ascends and is all that
is wanted below the next id asked for. `PageAdvances` shows that a page keeps
this: `Select` numbers the ids by their rank (`SelectIsInOrder`), `Fit` cuts
a beginning off, and `NextObjectId` is the first id behind it.

**The CRC.** `crc16_modbus` goes by bytes, a table and a register that shifts
down; `Remainder` by bits, and a register that shifts up. Both are words of
sixteen bits (`BitsOf`), added without carry (`Plus`). A round with the table is
eight rounds with a bit (`ByteIsBits`, from `TableEntrySteps` and `BitAdded`). The
two registers meet after the division has taken sixteen more steps (`Together`):
mirrored, one is then the other, up to the inverted bits (`StayTogether`), as
sixteen steps of the division are linear (`WordDivsFacts`). A message followed by
its CRC leaves a register of zero (`CrcOfFrame`), so the bits of a frame leave no
remainder (`FrameIsDivisible`).

**Flipped bits.** The invariant is `Noisy`: the frame differs from the one that
was sent in at most `flips` bits (`Differ`). If the client accepts the frame, both
have their CRC (`AcceptedIsIntact`, `SentIsIntact`), both go through the register
and leave nothing, and so does their difference (`DifferenceGoesThrough`). It
remains that one, two or three bits never do (`FlipsShow`).

* Three: `x + 1` divides the generator, so the parity of the register changes
  with each flipped bit and with nothing else (`ParityChanges`); zero is even.
* One or two: the register would have to come back, within the 2048 bits of the
  longest frame, to what it was when the first flipped bit came in
  (`NothingReturns`). Its highest bit, from then on, added to the next one,
  follows the trinomial x^15 + x + 1 (`HighestBits`), and squaring a
  trinomial leaves three terms (`SkipsTwice`), which reach so far ahead that the
  sequence is seen to repeat after 32767 bits (`FarAhead`, `CycleIsPeriod`). The
  least period divides that number (`LeastPeriod`), which is 7 * 31 * 151; its
  divisors below 2048 are excluded one by one (`LongPeriod`).

### Only model-checked

* That walks end (`WalkEnds`) is liveness.
* Every liveness property; liveness under fairness is beyond the prover, as is
  `ENABLED`.

## What is not modelled

* A simulator task that stops its own simulator: it is among the tasks it
  cancels and awaits, and the outcome is decided inside `asyncio.gather`.
* Two coroutines that call `connect` or `close` of one transport at a time.
* Transaction ids that repeat in `ClientServer`; `ModbusTcpClient` has them.
* What a decoder of a custom function code does with a payload: it takes any.
  Custom requests reach `handle_request`, which refuses them.
* In `RtuClient` a damaged frame fails its CRC whatever the damage, and bit reads
  and single coil writes, which take the paths of register reads and writes with
  another size, are left out; `Exchange` has both.
* In `ClientServer` the datastore is one register and a call reads or writes it:
  what other requests do to a datastore is in `ModbusServer`.
* Simulator profiles, package exports and structural protocols: no behaviour.
* Benchmarks, scripts and documentation tooling.

## Plan

Done, in this order: datastore with its abstract specification and its proofs;
request handling and connections; simulator lifecycle; TCP client; RTU client;
device identification; the bytes of PDUs and frames with the registry; client
and server together; cancellation in the simulator; proofs of the safety
properties of server, simulator, both clients, their composition and the codec,
and of the CRC.

Next, by importance:

1. *Simulator:* tasks that stop their simulator.
2. *Transport:* two coroutines that connect and close.
3. *Composition:* the full server of `ModbusServer`, with its pieces and its
   refusals, behind the client.
