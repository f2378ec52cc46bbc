--------------------------- MODULE DatabaseThreads ---------------------------
(***************************************************************************)
(* The threads of Database:                                                *)
(*   main  run: creates the other two, waits for signals, stops and joins; *)
(*   rd    request_reader_loop: IPC queue -> request_queue_;               *)
(*   wr    response_writer_loop: request_queue_ -> response -> IPC queue.  *)
(*                                                                         *)
(* running_ is a plain bool that run() clears without the mutex.  Every    *)
(* loop calls a function the compiler cannot look into between two tests   *)
(* of it, so the build reads memory at each test: one step per test, and   *)
(* the test of a wait is a step of its own, apart from falling asleep.     *)
(* The IPC queues are bounded FIFO queues (SharedQueue implements that),   *)
(* and what process_database_request does is in ParkingDatabase.           *)
(***************************************************************************)
EXTENDS Integers, Sequences

CONSTANTS Requests,   \* requests of TcpServer, each submitted once
          Capacity,   \* capacity of each IPC queue
          MayFail     \* pthread_create() and sigwait() may fail

ASSUME ThreadsAssumption == Capacity \in Nat \ {0} /\ MayFail \in BOOLEAN

VARIABLES running,         \* running_
          mutex,           \* who holds request_queue_mutex_
          requests,        \* request_queue_
          toDb, toTcp,     \* the two IPC queues
          main, rd, wr,    \* program counters
          popped, taken,   \* request of the reader / of the writer, or empty
          submitted,       \* history: requests in the order they were pushed
          handled          \* history: requests whose response was pushed or
                           \* dropped

queues == <<requests, toDb, toTcp, popped, taken, submitted, handled>>
vars == <<running, mutex, main, rd, wr, queues>>

-----------------------------------------------------------------------------
Init ==
  /\ running = TRUE /\ mutex = "free"
  /\ requests = <<>> /\ toDb = <<>> /\ toTcp = <<>>
  /\ main = "create_reader" /\ rd = "off" /\ wr = "off"
  /\ popped = <<>> /\ taken = <<>>
  /\ submitted = <<>> /\ handled = <<>>

Lock(t) == mutex = "free" /\ mutex' = t

Unlock == mutex' = "free"

\* pthread_cond_signal and pthread_cond_broadcast: only the writer waits.
Wake == wr' = IF wr = "asleep" THEN "relock" ELSE wr

-----------------------------------------------------------------------------
(* TcpServer's ends of the queues.                                         *)

Submit(r) ==
  /\ Len(toDb) < Capacity
  /\ \A i \in 1 .. Len(submitted) : submitted[i] # r
  /\ toDb' = Append(toDb, r)
  /\ submitted' = Append(submitted, r)
  /\ UNCHANGED <<running, mutex, main, rd, wr, requests, toTcp, popped, taken,
                 handled>>

Collect ==
  /\ toTcp # <<>>
  /\ toTcp' = Tail(toTcp)
  /\ UNCHANGED <<running, mutex, main, rd, wr, requests, toDb, popped, taken,
                 submitted, handled>>

-----------------------------------------------------------------------------
(* request_reader_loop.                                                    *)

\* Mutant: the loop does not look at running_.
ReaderForEver ==
  /\ rd = "top"
  /\ rd' = "pop"
  /\ UNCHANGED <<running, mutex, main, wr, queues>>

ReaderTop ==
  /\ rd = "top"
  /\ rd' = IF running THEN "pop" ELSE "done"
  /\ UNCHANGED <<running, mutex, main, wr, queues>>

\* Mutant: an empty queue ends the loop.
ReaderGivesUp ==
  /\ rd = "pop"
  /\ \/ /\ toDb = <<>> /\ rd' = "done"
        /\ UNCHANGED <<toDb, popped>>
     \/ /\ toDb # <<>> /\ rd' = "lock"
        /\ popped' = <<Head(toDb)>> /\ toDb' = Tail(toDb)
  /\ UNCHANGED <<running, mutex, main, wr, requests, toTcp, taken, submitted,
                 handled>>

\* An empty queue means a short sleep and another test of running_.
ReaderPop ==
  /\ rd = "pop"
  /\ \/ /\ toDb = <<>> /\ rd' = "top"
        /\ UNCHANGED <<toDb, popped>>
     \/ /\ toDb # <<>> /\ rd' = "lock"
        /\ popped' = <<Head(toDb)>> /\ toDb' = Tail(toDb)
  /\ UNCHANGED <<running, mutex, main, wr, requests, toTcp, taken, submitted,
                 handled>>

ReaderLock ==
  /\ rd = "lock" /\ Lock("rd")
  /\ rd' = "push"
  /\ UNCHANGED <<running, main, wr, queues>>

\* Mutant: the new request goes to the front.
ReaderPushFront ==
  /\ rd = "push" /\ Unlock
  /\ requests' = popped \o requests /\ popped' = <<>>
  /\ rd' = "signal"
  /\ UNCHANGED <<running, main, wr, toDb, toTcp, taken, submitted, handled>>

ReaderPush ==
  /\ rd = "push" /\ Unlock
  /\ requests' = requests \o popped /\ popped' = <<>>
  /\ rd' = "signal"
  /\ UNCHANGED <<running, main, wr, toDb, toTcp, taken, submitted, handled>>

\* Mutant: pthread_cond_signal is forgotten.
ReaderNoSignal ==
  /\ rd = "signal"
  /\ rd' = "top"
  /\ UNCHANGED <<running, mutex, main, wr, queues>>

\* The signal is sent after the unlock.
ReaderSignal ==
  /\ rd = "signal" /\ Wake
  /\ rd' = "top"
  /\ UNCHANGED <<running, mutex, main, queues>>

Reader == ReaderTop \/ ReaderPop \/ ReaderLock \/ ReaderPush \/ ReaderSignal

-----------------------------------------------------------------------------
(* response_writer_loop.                                                   *)

WriterTop ==
  /\ wr = "top"
  /\ wr' = IF running THEN "lock" ELSE "done"
  /\ UNCHANGED <<running, mutex, main, rd, queues>>

\* Entering the critical section, or coming back from pthread_cond_wait.
WriterLock ==
  /\ wr \in {"lock", "relock"} /\ Lock("wr")
  /\ wr' = "check"
  /\ UNCHANGED <<running, main, rd, queues>>

\* Mutant: the exit with an empty queue keeps the mutex.
WriterCheckKeepsLock ==
  /\ wr = "check"
  /\ \/ /\ requests = <<>> /\ running
        /\ wr' = "wait"
        /\ UNCHANGED <<mutex, requests, taken>>
     \/ /\ requests = <<>> /\ ~running
        /\ wr' = "done"
        /\ UNCHANGED <<mutex, requests, taken>>
     \/ /\ requests # <<>>
        /\ taken' = <<Head(requests)>> /\ requests' = Tail(requests)
        /\ wr' = "push" /\ Unlock
  /\ UNCHANGED <<running, main, rd, toDb, toTcp, popped, submitted, handled>>

\* The tests of running_ and of the queue, up to the unlock.
WriterCheck ==
  /\ wr = "check"
  /\ \/ /\ requests = <<>> /\ running
        /\ wr' = "wait"
        /\ UNCHANGED <<mutex, requests, taken>>
     \/ /\ requests = <<>> /\ ~running
        /\ wr' = "done" /\ Unlock
        /\ UNCHANGED <<requests, taken>>
     \/ /\ requests # <<>>
        /\ taken' = <<Head(requests)>> /\ requests' = Tail(requests)
        /\ wr' = "push" /\ Unlock
  /\ UNCHANGED <<running, main, rd, toDb, toTcp, popped, submitted, handled>>

\* pthread_cond_wait falls asleep and releases the mutex at once.
WriterWait ==
  /\ wr = "wait" /\ Unlock
  /\ wr' = "asleep"
  /\ UNCHANGED <<running, main, rd, queues>>

SpuriousWakeup ==
  /\ wr = "asleep"
  /\ wr' = "relock"
  /\ UNCHANGED <<running, mutex, main, rd, queues>>

\* Mutant: the queue takes one response more than its capacity.
WriterPushOverflows ==
  /\ wr = "push"
  /\ wr' = "top" /\ taken' = <<>>
  /\ handled' = handled \o taken
  /\ \/ Len(toTcp) <= Capacity /\ toTcp' = toTcp \o taken
     \/ Len(toTcp) > Capacity /\ UNCHANGED toTcp
  /\ UNCHANGED <<running, mutex, main, rd, requests, toDb, popped, submitted>>

\* process_database_request and the push of its response; a response that
\* finds the queue full is logged and forgotten.
WriterPush ==
  /\ wr = "push"
  /\ wr' = "top" /\ taken' = <<>>
  /\ handled' = handled \o taken
  /\ \/ Len(toTcp) < Capacity /\ toTcp' = toTcp \o taken
     \/ Len(toTcp) = Capacity /\ UNCHANGED toTcp
  /\ UNCHANGED <<running, mutex, main, rd, requests, toDb, popped, submitted>>

Writer == WriterTop \/ WriterLock \/ WriterCheck \/ WriterWait \/ WriterPush

-----------------------------------------------------------------------------
(* run.                                                                    *)

CreateReader ==
  /\ main = "create_reader"
  /\ \/ main' = "create_writer" /\ rd' = "top" /\ UNCHANGED running
     \/ MayFail /\ main' = "done" /\ running' = FALSE /\ UNCHANGED rd
  /\ UNCHANGED <<mutex, wr, queues>>

\* A failure stops and joins the reader the way the regular stop does.
CreateWriter ==
  /\ main = "create_writer"
  /\ \/ main' = "sigwait" /\ wr' = "top"
     \/ MayFail /\ main' = "lock" /\ UNCHANGED wr
  /\ UNCHANGED <<running, mutex, rd, queues>>

\* SIGINT clears running_, before the mutex is taken; a failing sigwait()
\* leaves it.  SIGUSR1 is only logged.
Sigwait ==
  /\ main = "sigwait"
  /\ \/ running' = FALSE
     \/ MayFail /\ UNCHANGED running
  /\ main' = "lock"
  /\ UNCHANGED <<mutex, rd, wr, queues>>

StopLock ==
  /\ main = "lock" /\ Lock("main")
  /\ main' = "broadcast"
  /\ UNCHANGED <<running, rd, wr, queues>>

Broadcast ==
  /\ main = "broadcast" /\ Unlock
  /\ running' = FALSE /\ Wake
  /\ main' = "join"
  /\ UNCHANGED <<rd, queues>>

Join ==
  /\ main = "join"
  /\ rd = "done" /\ wr \in {"off", "done"}
  /\ main' = "done"
  /\ UNCHANGED <<running, mutex, rd, wr, queues>>

Stopping == StopLock \/ Broadcast \/ Join

-----------------------------------------------------------------------------
\* After the join only TcpServer is left.
Terminated == main = "done" /\ UNCHANGED vars

Next ==
  \/ \E r \in Requests : Submit(r)
  \/ Collect \/ Reader \/ Writer \/ SpuriousWakeup
  \/ CreateReader \/ CreateWriter \/ Sigwait \/ Stopping \/ Terminated

Spec == Init /\ [][Next]_vars

\* Every thread is scheduled, and a thread that asks for the mutex again and
\* again gets it.  Nobody has to submit, to collect or to press Ctrl+C, and
\* no spurious wake-up has to come.
Fairness ==
  /\ WF_vars(Reader) /\ SF_vars(ReaderLock)
  /\ WF_vars(Writer) /\ SF_vars(WriterLock)
  /\ WF_vars(CreateReader) /\ WF_vars(CreateWriter)
  /\ WF_vars(Stopping) /\ SF_vars(StopLock)

FairSpec == Spec /\ Fairness

-----------------------------------------------------------------------------
\* Type correctness; the mutex is with the thread whose program counter is
\* inside, and a thread has a request in hand exactly where it should.
TypeOK ==
  /\ running \in BOOLEAN
  /\ main \in {"create_reader", "create_writer", "sigwait", "lock",
               "broadcast", "join", "done"}
  /\ rd \in {"off", "top", "pop", "lock", "push", "signal", "done"}
  /\ wr \in {"off", "top", "lock", "relock", "check", "wait", "asleep", "push",
             "done"}
  /\ \A q \in {requests, toDb, toTcp, popped, taken, submitted, handled} :
       q \in Seq(Requests)
  /\ mutex = IF rd = "push" THEN "rd"
             ELSE IF wr \in {"check", "wait"} THEN "wr"
             ELSE IF main = "broadcast" THEN "main" ELSE "free"
  /\ Len(popped) = (IF rd \in {"lock", "push"} THEN 1 ELSE 0)
  /\ Len(taken) = (IF wr = "push" THEN 1 ELSE 0)

\* Every request that TcpServer pushed is in exactly one place, and the places
\* are in the order of arrival: nothing is lost, doubled or overtaken between
\* the two loops, not even while they stop.  What run() leaves behind after
\* the join is whole requests in the two queues, none half processed.
RequestsInOrder ==
  submitted = handled \o taken \o requests \o popped \o toDb

\* No lost wake-up: a writer that is asleep, or about to be, has nothing to do
\* or somebody is on the way to wake it, although the reader signals after
\* the unlock and run() clears running_ without the mutex.
NoLostWakeup ==
  /\ wr = "asleep" => /\ requests # <<>> => rd = "signal"
                      /\ ~running => main \in {"lock", "broadcast"}
  /\ wr = "wait" => requests = <<>> /\ (~running => main = "lock")

\* run() comes back from the joins, whoever sleeps when SIGINT arrives.
StopCompletes == main \in {"lock", "broadcast", "join"} ~> main = "done"

\* A request that TcpServer pushed is processed, unless Database stops first.
RequestsHandled ==
  \A r \in Requests :
    (\E i \in 1 .. Len(toDb) : toDb[i] = r)
      ~> (\E i \in 1 .. Len(handled) : handled[i] = r) \/ ~running

-----------------------------------------------------------------------------
(* The refinement: Database holds what its two threads and request_queue_  *)
(* hold.                                                                   *)
Held == taken \o requests \o popped

Service == INSTANCE DatabaseService WITH held <- Held

\* The two loops with their mutex, condition variable and shutdown are the
\* service that TcpServer relies on.
ImplementsService == Service!Spec

=============================================================================
