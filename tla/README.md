# Gateway_Control_System in TLA+

The gateway moves files between sites over eight communication devices. Four of
them speak TCP, four a serial line; both ends may run in one process (devices 1-4
are the peers of devices 5-8 in `config/defconfig.ini`). Events ("open", "write",
"read", "close" a device) come from a RabbitMQ queue, a pool of threads executes
them, and results go to a second queue. Paths below are relative to `src/`.

1. [The system](#1-the-system): components, interactions, what is hard
2. [Modules](#2-modules): what models what
3. [Runs](#3-runs): what TLC checks, bounds, fairness
4. [Disagreements](#4-disagreements-between-the-code-and-what-it-says)
5. [Proofs](#5-proofs)
6. [Abstractions and limits](#6-abstractions-and-limits)
7. [Plan](#7-plan)

## 1. The system

### Components

| component | source | state | operations | right when |
|---|---|---|---|---|
| SerialFileTransfer, sending half | `driver/filetransfer/serialfiletransfer.cpp` :57-196, :264-301, :409-438, :501-565 | `c_fileid_allocator` (free ids), `c_file_management` (id to descriptor: flags, `retrans_tunk_id`, `block_lock`, `block_cv`) | `transfer()`; the listening thread delivers FILEID, ACK, RETRANS | an id belongs to one call; success means the other side has the file; the call returns |
| SerialFileTransfer, receiving half | same, :198-262, :264-375, :381-408, :440-499 | `s_file_management` (id to collected chunks, `retrans_cnt`), `s_readable_fileid` | the listening thread takes FILEINFO and TUNKDATA; the retransmission thread asks again and gives up; `receive()` | a complete file is announced once, written whole, not lost once acknowledged; an incomplete one is given up |
| Serial framing and codec | same, :568-819 | the bytes on the line, the rest of each writer's frame | `_check_protocol_frame`, `_parse_*`, `_write_bytes`, `_id_format_transfomer` | what is written is what is parsed |
| FileTransfer base | `driver/filetransfer/filetransfer.h` :22-91 | none | path checks around `transfer` and `receive` | a READ event is not spent on a missing path |
| TcpFileTransfer | `driver/filetransfer/tcpfiletransfer.cpp` | `m_client_request` (accepted connections), the output files | accept thread, `transfer()`, `receive()` | a connection is served by one `receive()`; the wait for "ok!" ends; what is reported fits what is on disk |
| CommDevice and its four kinds | `driver/commdevice/` | `f_open`, `p_filetransfer` | OPEN, WRITE, READ, CLOSE on pool threads | one transfer object at a time, none used after CLOSE |
| Reactor, Source, Event | `reactor/` | `m_devicelist`; two bus connections | `init`, `listen`, `push`; READYREAD of a device becomes READ on the IN queue | an event is executed once and answered once |
| Processor, ThreadPool | `reactor/processor.cpp`, `utility/threadpool/` | `m_taskqueue`, `f_shutdown` | `submit()`, worker loop, `shutdown()` | an accepted task runs once; `shutdown()` drains and returns |
| SafeQueue, SafeMap | `utility/safecontainer/` | a queue, a map under a mutex | `enqueue`, `dequeue` (blocking or not) | FIFO, nothing lost |
| RabbitMqClient | `utility/rabbitmqclient/` | connection, `r_store`, the consumer thread | `connect`, declare and bind, `publish`, `consume_listen`, `consume` | a message reaches `r_store` once; a consumer exists unless a call failed |
| exec_management | `test/exec_management.cpp` | `pid_list` | fork, wait, restart | each application has one process, a dead one comes back |
| device_control, pressure_test | `test/` | how far `main()` is | connect, publish or listen | every message meets one fate |
| ConfigParser, Logger, Systime, Singleton | `utility/...` | values read once | | no protocol of their own |

### How they interact

    RabbitMQ IN --> RabbitMqClient thread --> r_store --> Reactor::listen thread
                                                              | submit
                                                        ThreadPool workers
                                                              | handleEvent
                                                          CommDevice
                                                              | transfer / receive
                              TcpFileTransfer or SerialFileTransfer  <===> peer
                                                              | f_readable_cb
             RabbitMQ IN <-- Source::push_in <-- READ event --+
             RabbitMQ OUT <- Source::push_out <- result of every event

A file that arrives raises a READ event; the event goes through the broker and comes
back to some pool thread, which calls `receive()`. The id (serial) or the connection
(TCP) waits in a queue meanwhile, so events and queue entries have to stay in step.

### What is hard

* **Locks in two orders.** `transfer()` takes `block_lock` then
  `c_file_management_lock` (:87, :190); the listener takes them the other way round
  (:425/:434, :517/:523, :550/:556).
* **Answers matched by id alone**, with ids that are reused by later calls and, after
  a restart, by a new object that starts again at 0.
* **Three threads on a receiving descriptor**: the listener fills it, the
  retransmission thread counts and deletes it, `receive()` reads and erases it; its id
  travels in a queue and then in a local variable of `receive()`.
* **Failures half way**: a write that throws between storing a chunk and announcing
  the file, an output that cannot be opened after its id was dequeued, an exception
  that ends a thread that nobody starts again, an output that is emptied before the file
  has come, a source file that nobody has opened although its size was sent.
* **Timeouts against late answers**: every wait of `transfer()` may end just before
  its answer comes.
* **A flag outside its lock**: `ThreadPool::shutdown()` sets `f_shutdown` and notifies
  without the mutex under which workers test it.
* **Pool threads that wait for pool threads**: TCP `transfer()` waits for the "ok!" of
  a `receive()` that may be queued behind it.
* **Tested, then used**: `handleEvent` tests `f_open`, sleeps, and uses
  `p_filetransfer`, which another pool thread may delete meanwhile; a READ event that
  comes between listening and `f_open = true` is refused, its connection stays.
* **A shared byte stream**: three threads write frames to one port without a lock, the
  reader takes 57 bytes at a time and never looks for a start.
* **Two clocks**: the receiving side asks for a silent file on the rhythm of its thread,
  the sending side gives up after a wait of its own, and both are three seconds.
* **Ignored results**: connecting, declaring and publishing report errors that nobody
  looks at, so a process may look alive to the supervisor and hear nothing.
* **Delivery without acknowledgement**: the broker sends all it has at once, and what is in
  the socket or received exists only in the process until it is executed.

`PROJECT.json` lists these and the others as `hazards`, each at its line.

## 2. Modules

| module | models | lines of reasoning it keeps |
|---|---|---|
| `SerialPort` | the line between the two halves: two FIFOs of frames, and the faults (lost frame, failing operation, restart) | what each frame carries and which chunk ids the parsers accept |
| `SerialClient` | the sending half: `transfer()` as a program counter per call, the listener for FILEID/ACK/RETRANS | both locks, every wait with its timeout, the one round of retransmission, `err_realease` in its two steps |
| `SerialServer` | the receiving half: listener for FILEINFO/TUNKDATA, retransmission thread, `receive()` by several readers | every early return and exception, in the order of the code |
| `SerialTransfer` | the composition, fairness, and all properties | |
| `MCSerialTransfer` | small sets of calls, chunks, readers | |
| `FileDelivery` | the promise of `transfer()` and `receive()`: a call, whether its file has arrived, whether it is written | nothing of the protocol; `SerialTransfer` implements it |
| `SerialCodec` | the bytes: writer, frame check, separation, the five parsers, as operators | real markers, digits as `std::to_string` and `std::stoull` treat them |
| `SerialLine` | one direction of a port, byte by byte, with several writers | partial writes, a lost byte, reads of fixed size |
| `MCSerialLine` | files, ids, requests and writers of a scenario | |
| `SerialTiming` | one file on a clock: the waits, the passes of the retransmission thread | the order of `wait_for`, the test of age, the count of requests |
| `ThreadPool` | `submit()`, the worker loop, `shutdown()` | the mutex, test and wait as two steps, notifications to waiting threads only, spurious wakeups |
| `MCThreadPool` | two workers, two or three tasks | |
| `EventBus` | IN and OUT queue, consumer thread, `Reactor::listen`, the pool's queue | what the broker keeps and what only the process holds; ignored results of `publish()` |
| `TcpDevice` | `handleEvent` on pool threads for devices over TCP, `TcpFileTransfer`, its accept thread | test, sleep and use as separate steps; every exception; what a deletion leaves behind |
| `Gateway` | the composition: fairness, crash and restart, all properties | |
| `MCGateway` | two devices facing each other, two or three pool threads, sets of requests | |
| `Supervisor` | `exec_management`: fork, exec, wait, `pid_list` | process ids that are used again, zombies, the exit at a failing fork |
| `RabbitMqClient` | a client's connection, the consumer thread, the IN queue | every result nobody looks at; a closed channel; a message no queue takes |
| `Processes` | supervisor, `device_control` from `main()` to `listen()`, `pressure_test`; fairness and properties | each call of the constructor of `Source`; null pointers; what dies with a process |
| `MCProcesses` | two applications, one message of each kind | |
| `Counting` | how often an element is in a FIFO or a bag | |
| `QueueTheorems` | lemmas about the FIFOs all components use, about bags, and about the size of a set in which one element changes | |
| `ThreadPoolProofs` | theorems about `ThreadPool` for every value of the constants | |
| `SerialTransferProofs`, `SerialDeliveryProofs` | the same about `SerialTransfer`: types, ids, and what is announced; what is stored, written and reported, and the refinement of `FileDelivery` | the second extends the first |
| `SerialLineProofs` | the same about `SerialLine`, and that `SerialCodec` reads back what it writes | |
| `SerialTimingProofs` | the same about `SerialTiming` | |
| `ProcessesProofs`, `GatewayProofs` | the same about `Processes` and `Gateway` | |

### Serial transfer: state and code

One call of `transfer(file)` is a model value `t`; `Chunks[t]` is the `tunk_size` of its
file. `pc[t]` says where the call is:

| `pc` | code |
|---|---|
| `idle` -> `alloc` | :67 non-blocking dequeue of an id; an empty allocator fails the call |
| `created` | :74-79 the descriptor is in `c_file_management` |
| `waitid` | :135 first `wait_for` (FILEID) |
| `sending` | :143 the loop over the chunks, `todo[t]` still to write |
| `waitans` | :152 second `wait_for` (ACK or RETRANS) |
| `resending` | :160 the loop over `retrans_tunk_id` |
| `waitack` | :168 third `wait_for` (ACK) |
| `release` | `err_realease`, before the erase; `block_lock` is held |
| `enq` -> `done` | :193 the id is given back |

`wait_for` with a predicate never waits when the predicate holds, so a loop that ends
goes straight on when the answer is there; a timeout (`WaitTimeout`) is possible only
while the predicate is false. Time itself is a free choice: a timeout may come at any
moment of the wait, which includes every real one.

`block_lock` is not a variable: it is held exactly in `HoldingBlock`. So is
`c_file_management_lock`: calls hold it within one step, the listener from
`ListenLookup` to `ListenSignal`, that is while `rx # Nil`. The critical sections of
`s_file_management_lock` contain no wait and are one step each, but for the one that
completes a file: it queues the id (`Announce`) and calls `f_readable_cb` (`Notify`), and
between the two, while `notifying`, a `receive()` of an earlier event may dequeue the id.
That the order is this one matters: with `Notify` first, `ReadableHasReader` fails. `Notify`
may fail to publish its event; the result of `push_in` is ignored. `receive()` dequeues
its id before it takes that lock, so it is two steps (`ReceiveDequeue`,
`ReceiveWrite`) with the id in `hand[r]` in between.

`reads` counts READ events between `f_readable_cb` and a pool thread; each allows one
`ReceiveDequeue`. The events live in the broker, so `ServerRestart` keeps any number
of them.

### Thread pool: state and code

A task `t` has its own submitting thread: `Enter` (lock, test), `Emplace` (insert,
unlock), `NotifyOne`. A worker goes `lock` -> (`Take`) -> `run` -> `lock`, or `lock` ->
`park` -> `waiting`. `park` is the point between the evaluation of the predicate and
the wait: the mutex is still held, the thread does not receive notifications. `m_lock`
is a variable because a submit and a parking worker hold it across steps, which
`shutdown()` does not respect. `SetShutdown`, `NotifyAll`, `Join` are the three
statements of `shutdown()`.

### Gateway: state and code

A request is a model value with its `Kind` and `Device`; the READ event a device raises
for itself (`opticalfiber.cpp:30-34`, `reactor.cpp:30-34`) is the device as a value, so
several may be under way. `inqueue`, `r_store`, `m_taskqueue` are the three queues an
event passes (`inqueue` with the socket of the consumer: any number of its first messages may be
there already and are lost with the connection, `SocketLost`), `job[w]` the pool thread that has it, `outqueue` the bag of answers.

| `pc[w]` | code (`commdevice.cpp`, then `tcpfiletransfer.cpp`) |
|---|---|
| `test` | :43-99 the switch and the test of `f_open` |
| `create`, `setopen` | :53, :54 |
| `delete`, `reset` | :14-17, :18-20 of `close()` |
| `transfer` | :64 asleep; then :68-75 connect |
| `getok`, `header`, `data` | :78, :88-95, :97-110 |
| `flood` | the same loop (:100) for a source that could not be opened |
| `receive`, `receiving`, `storing` | :83 asleep, then :129-139; :145-182; :183-207 |
| `success`, `fail` | returned; `reactor.cpp:78-96` publishes the status |

`sock[r]` is the connection of WRITE request `r`: `waiting` for "ok!", `ok`, `header`,
`sent` (all of the file), `junk` (the header of a file that could not be opened, and what
the loop sends for ever after it), `cut` (the client has gone after its header), `closed`.
`stored[r]` is what is on disk at the other end: `nothing`, `part` (the output is opened
with `trunc` before any byte of the file has come, and stays when no more come), `byte` (of
a file that could not be opened) or the `whole`. The connection is in `backlog[d]` (kernel), then in `m_client_request[d]`, then in
`hand[w]`. `acceptor[d]` is the listening socket with its thread: in `accept()`, about
to call back (`notify`), listening with its thread ended (`deaf`), or `stray`: the object
was deleted while the thread blocks in `accept()`, which keeps the socket listening and
the port taken, so that a new OPEN throws until one more client has come. The exception
ends in a future nobody reads; the request gets no answer (`unanswered`). A thread that has
not come to `accept()` yet ends when it does, and the socket closes at once: `Destroy` has both.

Use of a deleted or missing object (`UsesNoObject`) ends the process (`Segfault`): `delete`
puts the block on the allocator's list, which overwrites the pointer to the virtual
table. A thread that is inside the object when it is deleted goes on, or the process
dies (`Crash`).

### Serial line: bytes

`SerialCodec` keeps the real start, stop, separator and fill bytes; only `PayloadLen` is
smaller than 52. `Decode` is what a read of `FrameLen` bytes becomes: a message, or
`Refused` for every exception. In `SerialLine` a writer offers its frame, the driver takes
a part (`Offer`), and the writer comes back with the rest (`ContinueFrame`), as
`boost::asio::write` does; other writers may come between. `begun` and `mixed` remember
which frames were written while another one was; the expectations (`Expected`) are
written without the parsers, from what the format can carry.

### Serial timing

The same protocol as in `SerialTransfer` for one file, with a clock. `due` ends a wait or
a gap between chunks; `pass` is the next wake-up of the retransmission thread, whose phase
is any. Frames arrive within `Delay`, chunks are written within `Gap`. A `Tick` is possible
when nothing is due, so timeouts come exactly when the code's do.

### Processes: state and code

`child[p]` is the process with id `p`; a reaped id is free for the next fork. `to_fork`
holds what the supervisor starts before its next `wait()`: the two applications at first
(:50), then the one it has reaped (:91). `stage[a]` names the last call an application has
finished: `main`, `connect in`, `exchange in`, `queue in`, `listen in`, `connect out`,
`exchange out`, `ready` are the lines 37-53 of `source.cpp`. `conn[c]` is `none` when
`m_conn` is null, so that the next call ends the process, and `failed` when every call
only returns an error. `fate` collects what became of each publication:

| fate | where |
|---|---|
| `answered`, `unanswered` | `push_out` has published the result, or `publish()` failed |
| `dropped` | `parse()` refused it (`event.cpp:68-78`) |
| `killed` | it ended `device_control`: `stoi` threw, or the device is unknown |
| `perished` | it was in memory when the process ended, or in the socket when the connection or the process did |
| `unrouted` | it was published over a failed connection, or before the queue existed |

Definitions under a comment "Seeded fault" are not part of the model: each is a wrong
variant of the definition that follows, used to see that the properties would notice it.

## 3. Runs

Passing runs:

| run | instance | what it shows |
|---|---|---|
| `serial_lossy` | 2 calls at once (2 and 1 chunks), 2 ids, 1 lost frame, 1 reader, 1 round | `DeliveredIntact`, `RetransInRange`, `TypeOK` |
| `serial_faults` | as above, 2 readers (symmetric), one-digit ids (`IdLimit = 1`, so the file of 2 chunks is too long), and either 1 failing operation or 1 restart of either side | `IdExclusive`, `DeliveryHasDescriptor` with ids reused and old frames about; `AckMeansStored`, `ReadableIsComplete` survive every single failure; a failure strands one file at most (`ReadableHasReader`, `CompleteAnnounced`); `OversizeNeverAcked` |
| `serial_live` | 2 chunks and an **empty file**, 1 lost frame, 2 rounds, requests of 2 ids refused (`RetransCap = 1`) | `ReturnsOrLockCycle`, `DescriptorSettles`, `ArrivedIsWritten`; **`DeliversFiles`**: it implements `FileDelivery` |
| `serial_line` | every file of up to 4 bytes over {letter, `-`, 0}, names with `-` or too long, ids and requests at 9, 10, 99, 100 and at the size of a frame, three writers at once, a file that is a line of text with its CR LF; up to 3 torn frames, 1 lost byte | `AloneIsDecoded`, `DeafAfterLoss`, `ForgedNeedsThree`, `CompleteIsCutFile` |
| `serial_timing` | 4 chunks, all intervals 3 units, delay and gap up to 1, every phase, 3 lost frames | `ServedNamesLastChunk`, `OnlyLossFails`, `GivenUpInTime`, `TypeOK` |
| `pool` | 2 workers, 3 tasks, shutdown at any moment | `AcceptedOnce`, `JoinedMeansDrained`, `AcceptedRuns`, `ClosesUnlessParking`, `TypeOK` |
| `gateway` | OPEN of both devices, 2 WRITEs, 1 CLOSE in any order, 2 pool threads, 1 failing operation | `ConnectionInOnePlace`, `ReportsMatchFiles`, `OnlyRefusalStrands`, `EventsSettle`, `TypeOK` |
| `gateway_reopen` | the receiving device opened twice and closed, 1 WRITE, 3 pool threads (symmetric), 1 failing operation, 1 crash | `OneFate`, `OnlyRefusalStrands` with objects deleted in use, threads left over, restarts |
| `processes` | 2 applications, 2 process ids, 1 message of `pressure_test`, 1 of an operator (malformed, garbled or for an unknown device), 2 faults (1 failing call or lost connection, crashes, ends of `pressure_test`), a failing fork | `OneProcessEach`, `AccountedFor`, `DeafOnlyAfterFailure`, `Restarted`, `MessagesSettle`, `TypeOK` |

The properties are stated with their meaning in the modules. Some deserve a word here.

* `AckMeansStored` is the promise of the protocol: once `transfer()` says success the
  file is whole in the other side's table or on its disk. It needs the retransmission
  thread to leave complete files alone, `receive()` to erase only what it wrote, and an
  ACK never to answer a different call.
* `ReadableIsComplete` relates the queue, the ids in the hands of `receive()` calls and
  the table: the two steps of `receive()` and a duplicate chunk after completion (from
  the first sending and from a retransmission) are where it could fail.
* `ReturnsOrLockCycle` says that the lock cycle of section 4 is the *only* way for a
  call not to return: under the fairness below, all its waits and loops end.
* `DescriptorSettles` holds although a request that does not fit in a frame is never
  sent: it is counted as if it were, and the file is given up.
* `OnlyRefusalStrands` compares the connections of a device with the READ events on
  their way to it, wherever they are: in three queues, with pool threads, about to be
  raised. Only a READ refused because `f_open` is not set, or a failing operation, may
  put them out of step. Such a refusal needs no CLOSE: the object listens before `f_open`
  is set.
* `ReportsMatchFiles` relates the report of a WRITE to what `receive()` leaves on disk: no
  failure is reported where the whole file is, no success where there is the one byte of a file that
  could not be opened. It says no more, because the code does not: a failed WRITE may leave a part of
  the file, and the READ may report that byte as a file (section 4).
* `DeliversFiles` is the refinement: under the mapping `CallOf` (what a program counter
  and an outcome say of a call), `HeldFor` (whole in a descriptor or written) and `files`,
  every step of both halves, the line and its loss is a step of `FileDelivery` or
  stutters. So a success comes only after the arrival, an arrival is never undone, and only
  a file that has arrived is written. `ArrivedIsWritten` is its liveness. TCP does not implement
  `FileDelivery`: its `transfer()` succeeds when everything is sent.
* `DeafAfterLoss` and `AloneIsDecoded` are the two sides of fixed-size reads: torn
  frames keep the total length, so the reader is aligned again by itself; a lost byte is
  never made up for, and nothing is received any more. (Only `FrameLen` lost bytes would
  shift the reads back into place, so the property is about one.)
* `ForgedNeedsThree`: frames of two threads torn by each other are refused. With three at
  once the stop bits of one may close the frame of another and a request with fewer ids
  than were sent is accepted: the precondition is needed. So is the other, that no payload
  has the second start byte or the first stop byte (`Unmarked`): a chunk that ends in CR
  LF, torn by an answer, closes its own frame too early and is accepted as a shorter chunk that
  nobody sent. The scenario with a line of text shows it when `Unmarked` is left out.
* `CompleteIsCutFile` says exactly what arrives of a file with separators and zero bytes.
* `ServedNamesLastChunk`: since the server waits longer after the last chunk it received
  than the sender does after the last it wrote, a request finds the sender waiting only when
  the end of the file was lost. A chunk lost in the middle is asked for, but never sent again.
* `GivenUpInTime` bounds the requests, to one more than `MAXIMUM_RETRANS_CNT`, since a
  request is counted before the count is compared (:352-353), and the life of a file.
* `OneProcessEach` includes that `wait()` never returns -1 while the supervisor runs: the
  branch "all applications have crashed" (:74) and the branch "not found" (:107) of
  `exec_management.cpp` are not taken.
* `AccountedFor` is a balance over all restarts. A message that kills `device_control` kills
  it once, because it is not acknowledged by the process but forgotten by the broker; the same
  fact loses what else the process held.
* `DeafOnlyAfterFailure` and `MessagesSettle`: without a failing call the consumer always
  exists, with one it may be missing in a process that runs, which no restart cures.
* `EventsSettle` names all the ways in which an event may get no answer: dead consumer
  thread, starved pool, forgotten connection. These it excuses; what it rules out is any other. (An exception of OPEN and a crash are
  `unanswered`, which counts as settled.)

### Bounds

Every bound is a constant: `MaxLoss`, `MaxIoErrs`, `MaxRestarts`, `MayRestart`, and the
numbers of calls, chunks, ids, readers. Two calls are what an exchange of ids or
answers needs. Two chunks are what a partial file, a partial request and a duplicate
need. A lost frame can be any frame, so one already produces a lost FILEINFO, FILEID,
chunk, RETRANS and ACK, and the timeouts, which are unbounded, produce late answers. One
id makes the second call reuse the id of the first at once, which in the program takes a
hundred calls; in runs about stored files the number of ids equals the number of calls,
since reuse of an id whose file still waits to be read is a disagreement of its own
(section 4). `RetransCap` and `IdLimit` bring the limits 16 (ids per frame) and 100 (two
digits) down to one, so that both sides of each are reached.

Two devices that face each other are the pairs 1-5 and 2-6 of the configuration. Two
pool threads are what a race on a device needs, and with two WRITEs they are the pool
that is full; the configured pool has 128. A third thread lets OPEN, CLOSE and READ of a
device overlap while a WRITE waits for it; the threads are alike and no liveness
is checked there, so symmetry is sound. Requests may be published in any order and at
any moment, so each run contains the runs of every subset of its requests.

A payload of 8 bytes has chunks of 3 and requests of 2 ids; files of 4 bytes have a full and
a short chunk, and every position of a separator or zero byte in both. Three torn frames are
what three writers need to be all in the middle of one. In `serial_timing` the unit is a
second; what counts is that the intervals are equal, as in `filetransfer.h:251-254`, and
longer than a delay each way, and that phases and gaps fall on both sides of them. Three lost
frames lose a file, the rescue of a file, and the answer to the rescue. In `processes` two
process ids make every restart use an id again; two faults are a failure and a death after it.

`MaxFaults` bounds all faults together, so that `serial_faults` has every failure and every
restart, one at a time. Counterexample runs use no fault at all.

Deadlock is not checked (`CHECK_DEADLOCK FALSE`): when all calls are done, or the pool
is joined, the system rightly stops. What should not stop is stated as liveness.

### Fairness

`Fairness` in `SerialTransfer` is weak fairness of each thread, nothing more: a call
that has an id takes its next step (a wait ends by its answer or its timeout, both real
time), the listener reads and delivers, the retransmission thread looks at each file
again (its loop sleeps and repeats; a file to which no chunk comes is overdue after
`MAXIMUM_WAIT_TIMES`), readers handle their READ events. No fairness for calling
`transfer()`, for losses, failures or restarts. In `Processes`: the supervisor, a started
process and its threads go on; nobody has to publish, crash or fail. In `Gateway`: the broker delivers, the listening thread, the pool threads and the accept
threads go on when they can; all blocking calls in them end when what they wait for is
there. In `ThreadPool`: submitting threads past
their test, workers, and the thread in `shutdown()` go on when they can; tasks end. No
fairness for submitting, shutting down or waking spuriously. Mutexes are assumed not to
starve a thread that is always able to take them; the critical sections are short and
each thread leaves them.

## 4. Disagreements between the code and what it says

Each is a run whose one property TLC finds violated.

* `serial_lock_cycle` / `TransferReturns`. An answer that arrives when a wait has just
  run out: the listener holds `c_file_management_lock` and waits for `block_lock`,
  `transfer()` holds `block_lock` (:87) and waits for `c_file_management_lock` (:190).
  Both stop, and later calls stop at :74. The documentation limits the wait to three
  seconds.
* `serial_zero_byte` / `FileArrivesWhole`. A payload is read up to its first zero byte, with
  which frames are also filled (:744, :787): a file with zero bytes arrives shorter, is
  acknowledged and announced as complete. `file_size` is sent and never compared.
* `gateway_starved` / `ClientIsTold`. Two WRITEs on two pool threads: both wait for
  "ok!", the READ events wait in the pool behind them. Each thread waits for the other's
  file to be received, without a timeout.

Seen while modelling, and visible with other constants, without a run of their own:

* `AckMeansStored` without its precondition fails with a restart of the sender: ids start at 0
  again (:37), and an ACK under way for the old file 0 makes the new call succeed.
* `DeliveredIntact` without its precondition fails with one id for two files: a FILEINFO with the
  id of a complete, unread file replaces its descriptor (:403); the READ event of the old file
  makes `receive()` write the new one without its chunks and report success.
* `ClosesUnlessParking` without its precondition fails: `ThreadPool::shutdown()` sets the flag and
  notifies without the mutex (:56); a worker in `park` misses the notification and `join()` waits
  for ever. The property says this is the only way.
* A request for missing chunks is sent four times although `MAXIMUM_RETRANS_CNT` is 3
  ("最大重传次数", `filetransfer.h:253`), and at most the last chunk can still be saved by one.
* `device_control` whose connection fails while it starts, or later, is deaf: it waits in
  `pop_in` for ever and the supervisor sees nothing.
* `pressure_test` publishes one second after its start. If `device_control` has not declared the
  exchange by then, the broker closes the channel and all its messages are lost unnoticed.

* **A failed WRITE over TCP leaves a truncated file.** `receive()` opens its output with `trunc`
  (`tcpfiletransfer.cpp:178`), writes it chunk by chunk (:187-193), and on an exception (:199-203)
  closes it as it is: an older file of that name is gone, the new one is cut short. The READ fails,
  and nobody removes the file.
* **A source that cannot be opened arrives as a file of one byte.** The path check only asks
  whether it exists. `tellg` then returns -1 and the header is `name--1:` (:88-95); the parser takes
  the second `-` for a separator too (:153-155) and reads an empty name and the size 1. `receive()` writes one byte of the
  client's buffer and reports success, `transfer()` sends its buffer until the connection is
  closed (:100-106) and reports failure. Over the serial line the same -1 makes
  `serialfiletransfer.cpp:103` fill `tunk_data` until memory ends.
* One failing write may leave a complete file behind (`Stranded`): the exception of the
  ACK write (:486) skips queue and callback; the file is complete, hence never given up
  either. `CompleteAnnounced` says that each failure leaves one behind at most.
* `RetransInRange` fails with a restart of the sender: a RETRANS for the old, longer
  file makes :165 read outside `tunk_data`. The model lets such a read produce garbage,
  a refused frame or an exception.
* `AckMeansStored` fails with a restart of the receiver: the ACK is sent when the file
  is complete in memory, before `receive()` has written it.
* An empty file has no chunks, so it is never announced (:483 is reached only by a
  chunk), its `transfer()` ends by timeout and its descriptor on the receiving side
  stays.
* WRITE or READ against CLOSE: the thread sleeps between the test of `f_open` and the use
  of `p_filetransfer` (:57-66, :77-85 of `commdevice.cpp`), so a CLOSE makes it use a null
  pointer (`Segfault`, reached in `gateway` and `gateway_reopen`). The restart loses all
  events received.
* Two OPENs and a CLOSE on three threads: the second OPEN creates its object after the
  first was deleted and before CLOSE writes its null pointer. The object is lost, its
  port stays taken, and the device can stay open without an object: every later WRITE or
  READ ends the process, every later CLOSE finds nothing to close.
* OPEN after CLOSE throws while the old accept thread holds the port, and gets no answer.
* `err_realease` erases the descriptor whose mutex `lck` still holds (:190-196); the
  destroyed mutex is unlocked afterwards.

## 5. Proofs

TLAPS checks the following for every number of workers, tasks, calls, chunks, ids,
readers, losses, failures and restarts. The assumptions are the named ASSUMEs of the
modules: types of the constants, `Nil` different from values, at least one worker, at
least one id, and for `SerialTiming` that a wait is longer than a delay each way, and the
age at which a file is overdue is not less than that wait, nor than two delays and a gap.
In the code all three intervals are 3000 ms; on a line too slow for them `OnlyLossFails`
does not hold.

**`ThreadPoolProofs`**

* `TypeCorrect`: `Spec => []TypeOK`. `TypeOK` alone is not inductive: a worker records
  as run what `current` holds, which is a task only because it holds one whenever the
  worker runs (`RunInv`).
* `AcceptedInOnePlace`: `Spec => []AcceptedOnce`. Inductive with `TypeOK /\ RunInv`; the
  cases that move a task (insert, take, finish) rest on the lemmas of `QueueTheorems`
  on what a FIFO without repetition gains and loses.
* `DrainedWhenJoined`: `Spec => []JoinedMeansDrained`. The argument needs the mutex
  (`LockInv`: who holds it across steps) because `f_shutdown` changes without it: a
  worker that ends saw an empty queue and the flag while holding the mutex, so no
  `submit()` was past its test, and none gets past it later (`ExitInv`). `shutdown()`
  returns when all have ended (`CloseInv`); then the queue and the workers are empty
  and `AcceptedOnce` gives the result. At least one worker is needed.

**`SerialTransferProofs`**

* `TypeCorrect`, `IdsExclusive`, `DeliveryFindsDescriptor`: `Spec => []TypeOK`,
  `[]IdExclusive`, `[]DeliveryHasDescriptor`. The three are one inductive invariant
  (`Inv`): a frame is well formed because its call owns an id, a delivery is well
  typed because the descriptor is there, and the descriptor is there because ids are
  exclusive and the listener keeps the map's lock. The receiving half and the line
  touch none of it (`ClientAlone`); restarts re-establish it from the constructor
  (`AllIdsOnce`).
* `ReadersSuffice`: `Spec => []ReadableHasReader`, and `FilesAnnounced`:
  `Spec => []CompleteAnnounced`. Both are counts: every id queued has a READ event, one about
  to be published (`notifying`), or a failure that took it, every complete file that nobody was told of has a failed ACK
  write of its own. They need no precondition: ids may be used again and both sides may
  restart. `DescribeFiles` (the number of chunks in a frame or descriptor is the
  one of its file) strengthens them, since "the last chunk" is otherwise undetermined; the
  count of stranded files steps by one at most because one step completes one
  descriptor (`StrandedByOne`).

**`SerialDeliveryProofs`**

* `AcknowledgedIsStored`, `FilesIntact`, `ReadableComplete`, `RetransWithinFile`: the
  properties `AckMeansStored`, `DeliveredIntact`, `ReadableIsComplete`, `RetransInRange`,
  and `OversizeFails`: `OversizeNeverAcked`. Each is about the time before a restart and before
  the allocator has gone round (`NoIdReused`), the precondition that the properties have and
  that section 4 shows to be needed.
* The invariant is `DInv`. Its core is that everything with an id, on either side or on
  the line, is about one call. The model has no variable for this, so the invariant says
  that a history exists: a function `caller` from ids to calls, which grows when an id
  is dequeued and never changes otherwise (`OneCallEach(caller)`). That it can grow needs
  that the allocator still has its fresh ids in front, in turn (`IdsInTurn`).
  With it: each frame, descriptor, queued id and answer belongs to `caller` of its id; a
  call sends its file information once, before anything of it is known (`InfoOnce`,
  `Unheard`), so it never replaces a descriptor with chunks; an ACK on the line means
  that the file is stored (`Truthful`); an id to be read names a complete descriptor and
  is in one place (`Readable`). Each action has a lemma that says what it keeps.
* `DeliveryRefined`: `Spec /\ []NoIdReused => DeliversFiles`, every step is one of
  `FileDelivery` or stutters. Steps of the sending half move one call and nothing else
  (`CallStep`), and a call reports success only with an ACK, which is truthful; steps of
  the receiving half let one file arrive (`ArriveStep`) or write one (`WriteStep`).
  `Undecided` says that a running call has no outcome yet. The hypothesis is a property
  of the behaviour, not an assumption on the constants: it covers every behaviour with any
  number of calls up to the point at which an id comes back.

**`SerialLineProofs`** (any number of writers and messages, any tearing, any length of a payload)

* `CodecRoundTrip`: the formula `RoundTrip`, a frame that reaches the parsers whole is read as
  `Expected` says, for every message of every command. Recursion over numbers and bytes is
  within reach here because the codec defines recursive functions, not operators: `Recursion` shows
  that a function defined step by step exists, and `NatInd` and `StrongInd` are induction with the
  property as a set, from the least element of a set of naturals (`FirstOf`). On these rest
  `NumberOfFormat` (`stoull` undoes `to_string` and the two digits of an id), `ReadsConcat` (separating
  a text goes on where the one before it ended), `CutFilled` (the bytes that fill a payload up
  are no part of it), and one lemma per parser (`InfoRead`, `ReplyRead`, `ChunkRead`, `RequestRead`).
  `ScenariosAssumption` asks of what is sent that ids end at 99 (`FILEID_RANGE`) and that a file name
  holds no zero byte; chunks may hold any bytes.
* `AloneIsDecodedTheorem`, `DeafAfterLossTheorem`, `ForgedNeedsThreeTheorem`,
  `CompleteIsCutFileTheorem`: the four properties of `SerialLine`, of which the codec is one half
  and what the writers, the driver, the loss and the reader do to the frames the other.
* The model keeps no record of what was written. The invariant (`LineInv`) says that one exists:
  `str`, all bytes written, and `seen`, those of them that were not lost (`Loss`), of which the reader
  has taken the first blocks and the line has the others (`Reading`).
* `Counted`: what is written and what writers still hold back are whole frames together. So
  while one frame is being written alone, its bytes are at a multiple of `FrameLen`, and when it is
  complete so is the block: `AlonePlaced`. This is all that `AloneIsDecoded` needs. `DeafAfterLoss`
  follows, since the last byte of a block after the lost one is the first of a frame.
* `Torn`: while at most two frames are being written at once, `str` is, up to a block boundary, blocks
  that are frames or refused, and then `v` bytes of one frame and `z` bytes of another, in any
  order. `Stream` says what of this is enough to go on, whoever writes next: the last byte written
  is the last of a frame or of one of the two parts, so a stop byte 13 before a 10 of the other
  frame is never there, and a block that begins after a torn one does not begin with both start
  bytes of one frame. `StreamStep` is the step; it needs `Unmarked` at nearly every byte.

**`SerialTimingProofs`** (any intervals, delays and gaps with the relations that
`SerialTimingAssumption` states, any length of the file, any number of lost frames)

* `TypeCorrect`: `Spec => []TypeOK`. Inductive is `Types`, which knows that the sender writes
  only FILEINFO and TUNKDATA and the server only answers. `Clock`, beside it, says that
  nothing that is due has been missed; the proofs below all rest on it. The assumption on
  `Nil` is now that it is no descriptor.
* `GivenUp`: `Spec => []GivenUpInTime`. `Counted` measures the age of an incomplete file at the
  next pass, not now: an age at the pass of `MAXIMUM_WAIT_TIMES` and one interval for
  each request counted, one more included, is what a pass keeps, whether it asks or not.
  The requests are those the descriptor counts because there is one FILEINFO, before
  everything else (`InfoFirst`).
* `ServedLast`: `Spec => ServedNamesLastChunk`. `LastUnwritten`: before the last chunk is
  written the server has not got it, so that its requests name it. `LastAwaited`: the wait
  of `transfer()` ends at most `BLOCKING_TIMES` after the last chunk came, so a pass that
  finds the file overdue after that comes when the wait is over. `LastNamed` follows.
* `LossAlone`: `Spec => []OnlyLossFails`. Without loss a transfer is always in one of five
  stages (`Stages`), each with bounds on when its next frame comes: FILEINFO on its way, FILEID
  on its way, chunks flowing, ACK on its way, over. The long one is `Flowing(h)`: the chunks
  below `h` have come, the others follow in turn and at most `Gap` apart (`InTurn`,
  `InTime`), which keeps the file from growing old.

**`ProcessesProofs`**

* `OneProcess`: `Spec => []OneProcessEach`, and `TypeCorrect`. The invariant
  (`SupervisorInv`) is the types, the property itself, which says that `pid_list` has
  exactly the children of the supervisor with their applications and that an application
  has one process or waits for its fork, and that each application has finitely many
  processes, so that they can be counted. Process ids are used again at any moment. New
  assumptions: `Nil` is no process id, and `Script` is a sequence of messages.
* `DeafByFailure`: `Spec => []DeafOnlyAfterFailure`. `Hearing` follows the calls of the
  constructor of `Source` one by one, beside the consumer thread: without a failing call
  the queue exists before the consumer is started.
* `Accounted`: `Spec => []AccountedFor`, by counting (`Balance`): each step moves one copy of
  a message from one place to another, and the end of a process or of a connection moves all that
  it held, of which the socket is any first part of the queue (`LostInSocket`).

**`GatewayProofs`** (any number of requests, devices, pool threads, failures, crashes)

* `TypeCorrect`: `Spec => []TypeOK`. Inductive is `TypeInv`: what a thread has at each place
  (`Fits`; a thread in `transfer()` has a WRITE, one in `receive()` a device), and that
  finitely many threads are busy, so that events can be counted although the pool may
  have any size.
* `FatesAlways`: `Spec => []OneFate`. `OnePlace(r)` is a sum over seven places; each action
  has a lemma that says which term gains what another loses. A restart moves what it finds
  in the process, its socket included, to `unanswered` in one step; that a queue cut in two
  holds what its parts hold is `TimesSplit` of `QueueTheorems`.
* `ReportsFit`: `Spec => []ReportsMatchFiles`. A request is past a line of `transfer()`
  (`Past`) when its thread is, or when it has been answered or given up. `Whole`
  says that a whole file with the peer, or a connection on which everything was sent, has a
  request that is past its last write, where the only status is success (`Done`). `Unread` says the
  same of a file that could not be opened: its byte at the peer, or its header on the connection,
  has a request in the loop that ends in failure (`Doomed`). That the request is not also
  somewhere else, reporting the contrary, is `OneFate`.
* `ConnectionsAlways`: `Spec => []ConnectionInOnePlace`. Inductive together with `AtPeer` (a
  connection waits only at the device its file is for) and `Begun` (a request with a
  connection is past `connect()`). `Begun` needs `OneFate` to exclude a second `connect()`
  for the same request, and the property itself to exclude an "ok!" on no connection.
* `ReadersKeepUp`: `Spec => OnlyRefusalStrands`. For each action, connections waiting at a
  device grow by no more than the READ events on their way to it (`InStep`), or none
  waits any more. The thread that takes a connection, the READ event that is pushed, moved
  and tested, and the accept thread between `enqueue` and callback are each one of the sum.

Only model-checked: everything about liveness under fairness (`ReturnsOrLockCycle`,
`DescriptorSettles`, `ArrivedIsWritten`, `AcceptedRuns`, `ClosesUnlessParking`,
`EventsSettle`, `Restarted`, `MessagesSettle`), which is out of this prover's reach.

## 6. Abstractions and limits

* **One direction.** A `SerialFileTransfer` is both client and server on its line; the
  two directions share the line and the listening thread but no table. The model has
  one sender and one receiver. Consequences of one listener serving both roles (a
  lock cycle on the sending side also stops what this side receives) are not in it.
* **Data.** The content of a chunk, and the name of a file, are the call that sent it.
  So two files with equal names are told apart although the program overwrites one, in `TcpDevice` too.
* **Frames are whole** in `SerialTransfer`: a frame is lost or arrives. `SerialLine` says when this
  is right: torn frames are refused as long as no three are written at once and no payload has marker
  bytes, and data without separators and zero bytes arrive as they were sent. A lost byte is more than a lost frame: it
  loses all that follow, which in `SerialTransfer` would be every frame from then on.
* **Damage** of a byte in place is a lost frame when it hits a marker; a damaged payload has no
  checksum and is accepted as it is, which no module models. Bytes other than digits, letters,
  separators, zero, CR, LF and the markers of a frame do not occur in the scenarios of `SerialLine`.
* **Time** is a free choice in `SerialTransfer`, which includes every real one; `SerialTiming`
  decides it for one file with equal intervals, without locks and ids.
* **Reading the source file** of a serial transfer succeeds or fails (`WriteThrows`). A file that
  cannot be opened has size -1 and the loop at :103 adds chunks to `tunk_data`, with `block_lock`
  held, until memory ends: then the vector throws, which is `WriteThrows`, or the system ends the
  process, which is `ClientRestart`. How long that takes, and what it does to the rest of the
  process, is not modelled.
* **Several overdue files** found in one pass of the retransmission thread are one step:
  the pass holds `s_file_management_lock` throughout and its writes go out in the
  order of the table.
* **Pool tasks** end; a task that waits for another task (TCP) is the subject of the
  device module.
* **Restarts** replace the object at once; detached threads of the old object, which in
  the program go on using it after CLOSE (:43), are not modelled.

* **Devices over the serial line** are not in `TcpDevice`: their READ events and `receive()`
  are in `SerialServer` (`reads`), their OPEN and CLOSE are not modelled.
* **Order of answers** on the OUT queue is not kept. **Malformed events** and
  unknown devices are in `Processes`; a delay below 20 us (`addNoise` divides by zero) is an
  input left out.
* **One AMQP connection, two threads**: `push_in` publishes on the connection on which the
  consumer thread blocks, in a library that is not thread-safe. The model keeps the
  outcomes "not sent" and "consumer ends", not corruption.
* **The data of a TCP transfer** are one step of the client after the header. The receiver opens its
  output in one step and fills it in another, so the cut between them stands for a cut anywhere
  in the data. That a client learns of a receiver's failure only if it still writes is kept:
  `SendData` on a closed connection may succeed. Closing a socket does not fail, and a write to
  a full disk, which `receive()` does not notice (:191), is not modelled.
* **READ requests of an operator** are allowed by the assumption on `Kind`, and the proofs cover them;
  the runs have none, their READ events are those that devices raise.

* **Processes**: the service scripts the supervisor runs first, and what `get()` and `disconnect()` of
  `RabbitMqClient` do (no caller), are left out. An orphan of an ended supervisor stays a zombie in
  the model; nothing depends on it.

Not modelled: configuration, logging, time formatting, the singleton (no state that other parts
depend on); scripts, Docker files and vendored binaries.

## 7. Plan

In order of importance. What exists is marked.

1. **done** serial transfer: `SerialPort`, `SerialClient`, `SerialServer`,
   `SerialTransfer`.
2. **done** `ThreadPool`.
3. **done** first proofs: types, ids, no task lost, drained on return.
4. **done** `EventBus`, `TcpDevice`, `Gateway`: the path of an event, devices over TCP on
   pool threads, restarts.
5. **done** `SerialCodec`, `SerialLine`: the bytes, several writers, a lost byte.
6. **done** `FileDelivery`, implemented by the serial transfer while no id is used again.
7. **done** `SerialTiming`: waits against passes.
8. **done** `Supervisor`, `RabbitMqClient`, `Processes`: lives of the applications.
9. **done** proofs: all safety properties of 1, 2, 4, 7 and 8, the refinement of 6, the
   properties of 5 and the round trip of single frames. Left: liveness, which stays with TLC.
10. Devices over the serial line: OPEN and CLOSE of a `SerialFileTransfer` in `TcpDevice`'s terms,
    with the detached threads that survive the object.
