# Parking-System: a TLA+ verification project

Parking-System is a set of small Linux programs. `BbgClient` (BeagleBone) reads
coordinates from an STM32 over I2C and sends one parking request per TCP
connection to `TcpServer`. `TcpServer` hands requests to `Database` and takes
back responses through two ring buffers in a System V shared memory segment.
`Database` keeps sessions and prices in SQLite. `PriceUpdater` changes the
prices in the same SQLite file and signals `Database`.

The modules here model the parts where processes, threads and failures meet.
They are checked with TLC on small instances, and every safety property that a
passing run checks is also proved with TLAPS for every size.

## Inventory

| Part | State | Operations | Talks to | Hard part |
|---|---|---|---|---|
| `Libraries/Queue` | header (head, tail, count), slots, named semaphore | push, pop, is_full, is_empty, size | both IPC ends | several processes write it; death with the permit |
| `Libraries/SharedMemory` | System V segment, attachment count | create, attach, detach, remove | kernel | attach races with remove |
| `Database`: life | PID file, segment, readiness flags, signal mask | initialize, run, shutdown | TcpServer, PriceUpdater | order of publication; waiting for others; signals before and after the mask |
| `Database`: threads | internal queue, mutex, condition variable | request_reader_loop, response_writer_loop | both queues, SQLite | full queue, stop with work left |
| `Libraries/SQLiteDatabase` | tables of cities and sessions | find_city, start/stop_parking, add/update/delete city | Database, PriceUpdater | one transaction per statement; locked file |
| `TcpServer` | clients_, pending_requests_, request_queue_, sockets, running_ | four threads | clients, Database | routing of responses, descriptor reuse, shutdown of sleeping threads |
| `PriceUpdater` | none of its own | add, update, delete; notify | SQLite file, PID file | stale pid, changes between two statements |
| `BbgClient` | event index, request counter, pipe, one socket | bbg_client_run, i2c_process_run, tcp_process_run | TcpServer, STM32, systemd | two processes and a pipe; recv without timeout; ids start at 1 in every run |
| `STM32GpsSimulator` | index into a coordinate table, transmit packet, HAL handle | timer and I2C interrupts | BbgClient | timer ticks during a transfer; transfers that are cut short |
| `Config` | key/value table | load, find, get | all | full table, long and doubled keys, numbers out of range |
| `Logger` | log file | write | all | none (output) |

What makes each part correct, and where it can go wrong, is in `PROJECT.json`
under `hazards`, with the properties that would show it.

## Modules

| Module | Models | Granularity |
|---|---|---|
| `FifoQueue` | what a queue promises: an atomic bounded FIFO | abstract specification |
| `SharedQueue` | `shared_queue.cpp` | one action per access to semaphore, header or slot; a process may die between any two |
| `DatabaseService` | what Database promises across the two IPC queues | abstract specification |
| `DatabaseThreads` | `run`, `request_reader_loop`, `response_writer_loop` of `database.cpp` | one action per test of `running_`, lock, critical section, signal |
| `TcpServer` | `tcp_server.cpp` run and threads, its clients, Database as seen from the queues | one action per critical section, one for what follows the unlock |
| `ParkingService` | what a parking request promises: one atomic step on tickets and bills | abstract specification |
| `ParkingDatabase` | `process_*_request` in `database.cpp`, `sqlite_database.c`, PriceUpdater's changes | one action per SQL statement |
| `IpcLifecycle` | initialize, run and shutdown of Database and TcpServer, `shared_memory.cpp`, the PID file and SIGUSR1 | one action per system call or access to the segment |
| `Config` | `config.c` | functions |
| `GpsSimulator` | `STM32GpsSimulator/Core/Src/main.c` and the slave-transmit part of `stm32f7xx_hal_i2c.c` | one action per interrupt |
| `BbgClient` | `bbg_client.c`, `bbg-client.service`; extends `Config` and `GpsSimulator` | one action per system call |
| `MC...` | constants for TLC | |
| `SharedQueueProofs`, `SharedQueueRefinement`, `IpcLifecycleProofs`, `DatabaseThreadsProofs`, `ParkingDatabaseProofs`, `TcpServerProofs`, `TcpServerRouting`, `BbgClientProofs` | proofs | |

`SharedQueue` implements `FifoQueue` (property `ImplementsFifo`), which is why
`TcpServer` can treat the two IPC queues as bounded sequences: it composes with
the queue through that abstract specification. `IpcLifecycle` establishes what
`SharedQueue` starts from (an initialised header in a segment that stays).

`DatabaseService` is the contract between the two server programs, used from
both sides: `DatabaseThreads` implements it (`ImplementsService`), and what
`TcpServer` and the Database it assumes do to the queues is allowed by it
(`UsesService`).

`ParkingService` is what the customer sees: a request is rejected, refused, or
takes effect in one step that issues a ticket at the quoted price or closes it
with a bill; zones and their prices change at any time. `ParkingDatabase`
implements it (`ImplementsParking`). A ticket is a row of `parking_sessions`, a
bill a closed row, the quote is the price once it has been read, and the zones
are the areas and prices in `parking_cities`. The service may quote any price
that some zone has; that it is the price of the vehicle's place is a property of
its own (`PricedByLocation`), with one exception that the code really has.

### How state and actions correspond to the code

*SharedQueue.* `head`, `tail`, `count` are `queue_header_t`; `sem` is the
semaphore's value; `pc[p]` is the line of push or pop process p is at. `buf[p]`
is the memory `item` points to. `Crash` leaves `sem` as it is, because the
kernel does not return the permit of a POSIX named semaphore; `Restart` is the
attaching constructor. `stranded` is history: the step at which a process died
with the permit. The null-pointer guards and failing semaphore calls are left
out, and so is `size`, a plain read of `count` that no program calls.

*TcpServer.* A connection is a pair of a client and a request number, for
BbgClient opens one connection per request. `fdConn` says which connection is
behind a descriptor; `accept` takes the lowest free one, so descriptors are
reused. `clients`, `pending`, `requests` are the three containers. `Recv`
receives what has arrived and stays in `recv` until the request is whole.
`Register` and `Enqueue` are the two critical sections of
`receive_client_request`. In `response_reader_loop`, `ReaderTest` reads
`running_`, `ReaderPop` takes a response, and `ReaderLookup` and `ReaderSend` are
before and after the unlock: SIGINT can come between any two of them. `Sigint`, `Broadcast`, `ShutdownSocket`
and `Join` are the end of `run`. Failing pthread calls are left out. Payloads
are left out: a message is the connection it belongs to.

*DatabaseThreads.* `requests` is `request_queue_`, `popped` and `taken` are the
local `request` of the two loops. `running_` is a plain `bool` that `run` clears
without the mutex; between two tests of it each loop calls a function the
compiler cannot see into, so each test is a read of memory and a step of its
own. In `pthread_cond_wait` the test before it, falling asleep and waking are
three steps. What `process_database_request` does is in `ParkingDatabase`.

*GpsSimulator.* TIM10 and I2C1 have the same NVIC priority, so handlers do not
interrupt each other: a handler is an action, and the HAL functions it calls
are operators on the handle `hi2c`. `flags` and `txdr` are the peripheral's. A
coordinate has two halves, so a transfer takes several interrupts and the timer
can tick between them. The master is the Linux driver: it only reads, ends every
transfer, a failed one too, with STOP, and cannot do so while the slave holds
the clock (address or empty transmit register not yet served).

*BbgClient.* `main` and `child` are the program counters after `fork`;
`readers` and `writers` say who has an end of the pipe open. A request is
shorter than `PIPE_BUF`, so pipe reads and writes are whole. A process that ends
loses its memory and its ends of the pipe. `server` is what comes of a request
that was sent: `TcpServer` may drop it and keep the connection ("silent").
`supervised` tells the service from a client started by hand. `IdSpace` stands
for 2^64; vehicles are numbered in the order of the event table.

*Config.* A file is the sequence of pieces that `fgets` returns. Words are
sequences of characters, since they are cut to the size of their arrays; which
number a word stands for is left to the C library: `strtol` is a parameter, a
function from words to what `config_get_int` looks at (the value, `errno`, and
whether something is left behind it). The conversions to `int` (`ToInt`) and
`uint16_t` keep the low bits. The loop of `config_load` is a recursive function
of the number of pieces read.

*ParkingDatabase.* `job` is the request the response writer works on; its `pc`
is the next SQL statement. `Busy` lets a statement of Database fail because the
file is locked. `withdrawn` is history: the ids of the cities that PriceUpdater
deleted since the request began. Coordinates are points and an area is a set of points; prices
are integers (SQLite stores doubles). Row ids of cities are handed out as
SQLite does without AUTOINCREMENT: one more than the largest in the table.

*IpcLifecycle.* Every member of `Databases` or `TcpServers` is one run of the
program; a restart is another member. The segment is named after the Database
that created it. `attached` is what `shm_nattch` counts, `ready` the readiness
flags, `queues` the initialised headers. New System V segments are zero, which
is `NOT_READY`. `blocked` holds the Databases with a SIGUSR1 pending.

## Runs

| Run | Bounds | Shows |
|---|---|---|
| `queue` | 2 processes, 2 elements, 3 slots | exclusion, permit, header, half-written data, FIFO refinement, with crashes anywhere; push and pop return unless a permit is stranded |
| `tcp_routing` | 2 clients with 2 requests in 2 fragments, 2 descriptors, IPC queues of 1, unique ids, patient clients | responses reach their clients; `clients_` exact; the queues are used as `DatabaseService` allows |
| `tcp_faults` | 2 clients, 1 descriptor, queues of 1; clients are killed or vanish | `pending_requests_` exact; a response goes astray only through a descriptor used again; a stopping server hangs up on clients it leaves unserved; shutdown ends; a waiting client gets its own response, or one of the exceptions of `Served` |
| `db_sessions` | 2 vehicles (symmetric), 4 requests, 2 changes of the cities, failing statements, times 0, 1, 60, 61, 62 | frozen price, cost, price of the place; the parking service implemented, so a vehicle has one active session and answers agree with the tables |
| `ipc_lifecycle` | 2 runs of each program, failing calls, kills, 1 notification | single owner, no use before initialisation or after removal; startup and shutdown end |
| `db_threads` | 3 requests, IPC queues of 1, failing thread creation and `sigwait` | no request lost, doubled or overtaken; no lost wake-up; stop and service; `DatabaseService` implemented |
| `bbg_client` | the whole event table, 2 coordinates, a pipe of 1 request, 24 ids; every configuration file of up to 3 of 16 lines | coordinates whole, simulator never deaf, pipe in order, processes end together, parser against its reference |

Bounds: a ring of three slots wraps while it is neither full nor empty. Each
IPC queue has two processes, its producer and its consumer; the proofs cover
any number. Queues of one element make
"full" common. Two requests per client make a descriptor be used again by the
same and by another client. Times around 60 seconds meet the rounding of the
cost at zero, one second, one minute and one second more. Two runs of each
program are enough for an old and a new owner and for two late TcpServers,
which is when `SharedMemory::remove` refuses. A pipe of one request is full
behind every request that `main` works on; two coordinates are enough to tell a
mixed one; 24 ids make the counter wrap with the event table, so that the state
space is finite without a bound on the length of a run. Two changes of the
cities are what it takes to delete the city that was found and to give its id to
another. Tables of two entries and values of seven characters make the parser's
limits common; the 16 lines have numbers with signs, too large for `uint16_t`,
for `int` and for `long`, and too long for their array. The run's `int` has 18
bits and its `long` 23, because TLC's own integers have 32; the theorem
`Configured` is for every width.

`Served` demands the client's own response. It excepts a client that left, was
hung up on, or took a stray response for its own (BbgClient compares no ids,
`bbg_client.c:391`), a request dropped at a full queue, and a server that was
stopped or is held in `recv` by a silent client; without the stray response TLC
finds a counterexample.

Deadlock checking is off where the system may stop: when all requests of
`ParkingDatabase` are used up, when all runs of `IpcLifecycle` have ended, and
when a silent client holds `recv` in `tcp_faults`. In `bbg_client` a client that
was not restarted may have ended for good; the simulator's timer still ticks,
and the checking stays on.

### Runs that find a disagreement

| Run | The code | The text it disagrees with |
|---|---|---|
| `tcp_duplicate_ids` | `pending_requests_` is keyed by ids the clients choose; all count from 1 | responses go "to the originating clients" (`TcpServer/README.md:7`) |
| `db_not_found` | an end time before the start time, or a failing statement, is answered VEHICLE_NOT_FOUND | "Vehicle was not found." (`bbg_client.c:281`) |
| `ipc_startup` | a TcpServer that attaches during Database's shutdown waits for ever, and so does Database | "does not require a predefined startup order" (`Architectural-Design-Decisions.md:348`) |
| `ipc_notify` | the PID file is there while SIGUSR1 still, or again, terminates Database | PriceUpdater "can be executed at any time" (`README.md:283`) |
| `bbg_service` | one failed I2C read ends both processes with status 0; `Restart=on-failure` does nothing | "keeps the application running as a background service" (`bbg-client.service:5`) |

That a response can reach another client through a reused descriptor even with
unique ids is not a run of its own: `StrayResponses` in `tcp_faults` states
exactly when it happens. Neither is that a session can start at the price of
another city: `PricedByLocation` in `db_sessions` states the only way to it.

### Fairness

Each thread of a process is scheduled (weak fairness on its steps). `SemWait`
has strong fairness: glibc wakes a waiter when the semaphore is posted, and a
waiter that is woken again and again eventually gets the permit. In `TcpServer`
Database keeps answering, TCP keeps delivering and a client that has its answer
closes. Nobody is obliged to connect, to send a request, to press Ctrl+C, or to
be killed; a spurious wake-up of `pthread_cond_wait` may happen but nothing
relies on it. In `DatabaseThreads` the lock steps have strong fairness: a thread
that asks for a mutex which is released again and again gets it. In `BbgClient`
both processes are scheduled, I2C event interrupts are served, a transfer ends
(the Linux driver has a timeout), and systemd restarts what failed; the timer,
bus errors and kills are free.

## Proofs

`SharedQueueProofs` proves, for every capacity, set of processes and set of
elements (`Capacity \in Nat \ {0}`, `NoItem \notin Items`), the invariants that
`queue` checks. The invariant itself (`RingConsistent`) is not inductive:
its meaning during push and pop depends on which process is where. `IInv` adds
that the permit is in exactly one place and what the holder has seen (not full
before a copy, not empty before a pop, the element copied before tail moves).
The rest is arithmetic on the ring (`RingSucc`, `RingDistinct`).
`HalfWritten` is an action property: a stranded permit means nobody is in the
critical section, now or after any step.

`SharedQueueRefinement` proves `Spec => ImplementsFifo`: initial states map to
an empty queue, and each step maps to a step of `FifoQueue` or to a stutter. A
push takes effect when count is incremented, a pop when head moves.

`IpcLifecycleProofs` proves the four invariants of `ipc_lifecycle` for any
number of runs of Database and any finite number of runs of TcpServer. The
invariant adds: a READY flag belongs to an initialised queue in the segment the
key names; a Database that waits has cleared its flags; and while a TcpServer
that has seen a flag is attached, Database does not get past the wait, because
an attachment count of at most one with Database among the attached leaves no
room for it (`AloneMeansAlone`). That is the reason why the code may check the
count once and remove the segment later.

`DatabaseThreadsProofs` proves the three invariants of `db_threads` and
`Spec => ImplementsService` for every set of requests and every capacity. `IInv`
has two halves. `Control` says who holds the mutex (the thread whose program
counter is inside), that a thread does nothing before it is created, and
`NoLostWakeup`, which is inductive with these: the writer tests the queue and
falls asleep under the mutex, so a request can only be added before the test or
after it sleeps, and `run` takes the mutex between clearing `running_` and the
broadcast. `Data` says that each loop has one request in hand in the right
places, which turns `RequestsInOrder` and the refinement into associativity of
concatenation. A request is taken by the service at `ReaderPop` and answered at
`WriterPush`; all other steps stutter.

`ParkingDatabaseProofs` proves the invariants of `db_sessions`, `OneActiveSession`
(which no run lists, since `ImplementsParking` implies it) and the action
property `SessionsOnlyClose` for any number of requests and price changes and any
sets of vehicles, points, prices and times, from `SeedAssumption` (the table of
cities starts finite and with unique ids, as the primary key demands). Every SQL statement is a transaction of its own, so
`OneActiveSession` is not inductive: between the check and the INSERT nothing
would keep another session from appearing. `FoundStillTrue` says that what
`start_parking` and `stop_parking` found in the session table is still true at
their last statement, because the response writer is the only one that writes
that table; PriceUpdater writes the other one. `ChargedPerStartedMinute` needs
the rounding of the cost (`Minutes`), and the row ids of cities the fact that a
finite set of numbers has a largest element.

`Implements` proves `Spec => ImplementsParking` from the same invariant. A
request is asked at `Begin`, quoted at `ReadPrice`, and takes effect at
`InsertSession` or `UpdateSession`; it is rejected or refused where a statement
finds nothing or fails; the other statements stutter (`StartSteps`, `EndSteps`,
`OtherSteps`, `Silent`). `FoundStillTrue` is what makes the last statement
legal for the service: it acts on what an earlier statement saw. `TicketMap`,
`TicketsInsert` and `TicketsUpdate` say how the two tables change under the
mapping. `Stored` (responses and sessions are equally many) is proved as well.

`Priced` proves `PricedByLocation`: the price that is read is one of the
vehicle's place, unless the city that was found has been deleted since. The
exception is real: TLC finds a behaviour with one request and two changes in
which `find_city` finds a city with id 1, PriceUpdater deletes it and adds
another one elsewhere, which gets the id 1 again (`INTEGER PRIMARY KEY` without
AUTOINCREMENT, `sqlite_database.c:130`), and the price statement reads the price
of a place where the vehicle is not. The invariant is `StillCovers`: until it is
deleted, the row with the id that was found covers the vehicle's point. New
cities cannot disturb it, since their ids are fresh (`UniqueIds`).

`TcpServerProofs` proves `TypeOK`, `ClientsMatchSockets`, `LeftBehindIsHungUp`
and `Spec => UsesService` for every number of clients, requests, fragments and
descriptors and every capacity of the queues. Its invariant adds to the types:
what `select()` reported and the scan has not reached is still open
(`Descriptors`; only the tcp thread closes sockets); a connection carries one
request, which bounds what `recv` can return (`Budget`); a connection is unknown,
in the backlog once, behind one descriptor, or down (`Links`); and nobody is
connected before the listening socket exists or after the tcp thread has ended
(`Stopped`), which `run` waits for (`Joined`).

`TcpServerRouting` builds on it and proves where responses go. A registered
request is in exactly one of seven places, from the tcp thread's hand through the
four queues to the response reader's hand (`Place`, `OnePlace`); it is registered
once and answered once (`Once`); and its entry in `pending_requests_` names the
socket of its connection for as long as that is open (`Entries`). Each of the
nine actions that carry a request moves it from one place to the next or drops
it, which is proved once (`MoveApart`, `DropApart`); all others leave every
request where it is (`CarryAlone`). `PendingExact` and `StraysExplained` have the
hypothesis `IdsUnique`, `Routed` also `~MayAbort`. They are hypotheses of the
theorems and not assumptions of the module because the program does not
guarantee them: `tcp_duplicate_ids` shows what happens without the first,
`tcp_faults` runs without the second. Both hold in `tcp_routing`.

`BbgClientProofs` proves the invariants of `bbg_client` for
every number of coordinates, every capacity of the pipe and every number of ids
(at least two; the code has 2^64). `SimulatorListens` is not inductive: a STOP
brings listen mode back only if it finds a transfer to complete or an error to
recover from (`Recoverable`), and that depends on which flags can be up together
(`FlagsInOrder`). The HAL functions have lemmas of their own (`ErrorListens`,
`NackKeeps`, `StopListens`...). `WholeCoordinate` rests on `Received`: what the
master holds is of the packet of this transfer, and what an earlier one left in
the transmit register is flushed before. For `PipeInOrder`, `Consecutive` links
the ids inside the pipe and at its two ends, and `LinkedConcat` puts the pieces
together. For `EventsAlternate`, `Table` says where each vehicle starts and ends,
and `InTable` that the parked vehicles are those between the two.

`Configured` proves `ConfigurationAsWritten` for every set of files
(`FileAssumption`: a file is a sequence of pieces), of any length. The library's
induction theorems cannot be instantiated by the provers, so induction is done
by hand: if the loop of `config_load` went wrong somewhere, there would be a
first piece at which it does (`MinProperty`), and `LoadStart` and `LoadNext`
show that there is none. `Loaded` is the loop's invariant: the table has as
many entries as there were usable lines so far, the first entry with a key is
the first such line, and the loop has stopped early only because there were too
many. `LoopExists` shows that the recursive function is what its equation says.
The reference does not use the model's own string and number operators: `Stored`
says what an array holds of a word without cutting it, and the port is the
number of that text modulo 2^16, without the detour over `int`. `CutStored` and
`LowBits` close the gap. About `strtol` only the type of its answers is assumed
(`StrtolAssumption`), and that the low 16 bits are bits of an `int`
(`WidthAssumption`); the proof is for every `strtol`, so for every range of
`long` and for signed numbers too. What the real function answers is the C
library's, and in the run that of `Number` in `MCBbgClient`.

Only model-checked: the liveness properties (`OperationsReturn`,
`ShutdownCompletes`, `Served`, `StartupCompletes`, `ShutdownFinishes`,
`StopCompletes`, `RequestsHandled`, `EndTogether`, `BlocksOnlyInRecv`), which
are out of the prover's reach.

## Not modelled

* Nine tenths of the repository's C code is the vendored STM32 HAL and CMSIS.
  Only the functions of its I2C driver that the firmware's correctness rests on
  are modelled; the timer, clock, UART and GPIO drivers and the register headers
  hold no logic of this program.
* The path of `HAL_I2C_AddrCallback` for a master that writes: BbgClient never
  writes.
* `Logger`: output only.
* `sqlite_database_get_city`, used only by the library's test.
* The memory layout of the segment (compile-time constants) and the floating
  point values in messages.
* Failing pthread lock, unlock, wait and signal calls. After a failed
  `pthread_create` `Database::run` destroys the mutex and the condition variable
  and leaves their `_initialized_` flags set, so that `shutdown` destroys them
  again; the model ends at the return of `run`.
* SIGPIPE on a socket: it would end `main` of BbgClient the way `KillMain` does,
  which may come at any moment.
* A second Database drops the tables of the running one before it fails on the
  existing segment (`database.cpp:107`): the step is in `IpcLifecycle`, the
  tables are not.
* A restarted BbgClient starts vehicles that are still parked: `EventsAlternate`
  is about one run of the client.

## Plan

1. *Done*: the queue, its refinement and proofs; TcpServer; the parking data;
   the life of the segment and its proofs; Database's threads and the service
   they implement, with proofs; BbgClient, the GPS simulator and the
   configuration parser.
2. *Done*: proofs of the safety properties of `ParkingDatabase`, `TcpServer`,
   `BbgClient` and `GpsSimulator`.
3. *Done*: the abstract parking service that `ParkingDatabase` implements, with
   PriceUpdater at work, and its proof; the proof of the configuration parser.
