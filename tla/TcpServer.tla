------------------------------ MODULE TcpServer ------------------------------
(***************************************************************************)
(* TcpServer: the TCP front end of the parking system.  Four threads of    *)
(* one process:                                                            *)
(*   tcp   tcp_server_loop: select, accept, receive_client_request;        *)
(*   wr    request_writer_loop: internal request queue -> Database;        *)
(*   rd    response_reader_loop: Database -> socket of the client that is  *)
(*         registered in pending_requests_ under the response's id;        *)
(*   main  run: waits for SIGINT, stops and joins the other three.         *)
(* A critical section (of clients_mutex_ or request_queue_mutex_) is one   *)
(* action; everything the code does after an unlock is another one.  The   *)
(* two IPC queues are bounded FIFOs, which is what SharedQueue implements; *)
(* Database, its own internal queue in between, empties one and fills the  *)
(* other.                                                                  *)
(*                                                                         *)
(* A connection is a pair <<c, n>>: the n-th request of client c, for      *)
(* BbgClient opens a new connection for every request, sends one request   *)
(* and waits for one response.  The kernel gives a new connection the      *)
(* lowest free descriptor, so descriptors are used again.  A request may   *)
(* arrive in several fragments, and a client may vanish without a FIN.     *)
(***************************************************************************)
EXTENDS Integers, Sequences, FiniteSets, FiniteSetsExt

CONSTANTS Clients,       \* client processes
          MaxRequests,   \* bound: connections each client opens
          IdOf,          \* IdOf[k]: the request_id sent on connection k
          FdLimit,       \* client descriptors select() can watch
          QueueCapacity, \* capacity of each IPC queue
          Fragments,     \* pieces a request can arrive in
          MayAbort,      \* clients may be killed while they wait
          MaySilence     \* clients may vanish without closing

Conns == Clients \X (1 .. MaxRequests)
Fds == 1 .. FdLimit
None == <<>>           \* no connection, no message
ListenFd == 0          \* server_socket_ in the descriptor sets

ASSUME BoundsAssumption ==
  /\ MaxRequests \in Nat /\ FdLimit \in Nat \ {0}
  /\ QueueCapacity \in Nat \ {0} /\ Fragments \in Nat \ {0}
ASSUME IdsAssumption == DOMAIN IdOf = Conns

VARIABLES running,        \* running_
          sock,           \* server_socket_: none, listening, shut, closed
          backlog,        \* connections waiting for accept()
          fdConn,         \* open descriptors and the connection behind each
          clients,        \* keys of clients_
          pending,        \* pending_requests_: request id -> descriptor
          requests,       \* request_queue_
          toDb, dbQueue, toTcp,  \* IPC queues and Database's own queue
          tcp,            \* tcp thread: [pc, fd, got, ready]
          wr,             \* writer thread: [pc, msg]
          rd,             \* reader thread: [pc, msg, fd]
          main,           \* pc of run()
          cl,             \* cl[k]: client side of connection k
          link,           \* link[k]: server side of connection k
          wire, unread,   \* fragments of k's request under way / received
          delivered,      \* history: responses that reached connection k
          lost,           \* history: requests dropped at a full IPC queue
          unmatched       \* history: responses that found no client

server == <<running, sock, backlog, fdConn, clients, pending, requests>>
ipc == <<toDb, dbQueue, toTcp>>
net == <<cl, link, wire, unread, delivered>>
hist == <<lost, unmatched>>
vars == <<server, ipc, tcp, wr, rd, main, net, hist>>

-----------------------------------------------------------------------------
Absent == 0            \* pending_requests_ has no entry
Ids == {IdOf[k] : k \in Conns}

Init ==
  /\ running = TRUE
  /\ sock = "none" /\ backlog = <<>>
  /\ fdConn = [fd \in Fds |-> None]
  /\ clients = {}
  /\ pending = [id \in Ids |-> Absent]
  /\ requests = <<>> /\ toDb = <<>> /\ dbQueue = <<>> /\ toTcp = <<>>
  /\ tcp = [pc |-> "setup", fd |-> ListenFd, got |-> 0, ready |-> {}]
  /\ wr = [pc |-> "lock", msg |-> None]
  /\ rd = [pc |-> "test", msg |-> None, fd |-> ListenFd]
  /\ main = "sigwait"
  /\ cl = [k \in Conns |-> "none"]
  /\ link = [k \in Conns |-> "none"]
  /\ wire = [k \in Conns |-> 0]
  /\ unread = [k \in Conns |-> 0]
  /\ delivered = [k \in Conns |-> {}]
  /\ lost = {} /\ unmatched = {}

-----------------------------------------------------------------------------
(* Clients and the network.                                                *)

\* connect() succeeds once the connection is in the listen backlog.
Connect(k) ==
  /\ cl[k] = "none" /\ sock = "listening"
  /\ \A n \in 1 .. k[2] - 1 : cl[<<k[1], n>>] \in {"closed", "silent"}
  /\ cl' = [cl EXCEPT ![k] = "connected"]
  /\ link' = [link EXCEPT ![k] = "backlog"]
  /\ backlog' = Append(backlog, k)
  /\ UNCHANGED <<running, sock, fdConn, clients, pending, requests, ipc, tcp,
                 wr, rd, main, wire, unread, delivered, hist>>

SendRequest(k) ==
  /\ cl[k] = "connected"
  /\ cl' = [cl EXCEPT ![k] = "waiting"]
  /\ wire' = [wire EXCEPT ![k] = Fragments]
  /\ UNCHANGED <<server, ipc, tcp, wr, rd, main, link, unread, delivered, hist>>

\* The client has its response, or recv() reports that the server closed.
Disconnect(k) ==
  /\ cl[k] \in {"connected", "waiting"}
  /\ delivered[k] # {} \/ link[k] = "down"
  /\ cl' = [cl EXCEPT ![k] = "closed"]
  /\ UNCHANGED <<server, ipc, tcp, wr, rd, main, link, wire, unread, delivered,
                 hist>>

\* The client process is killed: its kernel sends what was written and a FIN.
Abort(k) ==
  /\ MayAbort /\ cl[k] \in {"connected", "waiting"}
  /\ cl' = [cl EXCEPT ![k] = "closed"]
  /\ UNCHANGED <<server, ipc, tcp, wr, rd, main, link, wire, unread, delivered,
                 hist>>

\* The client's host vanishes: nothing more arrives, no FIN either.
Silence(k) ==
  /\ MaySilence /\ cl[k] \in {"connected", "waiting"}
  /\ cl' = [cl EXCEPT ![k] = "silent"]
  /\ wire' = [wire EXCEPT ![k] = 0]
  /\ UNCHANGED <<server, ipc, tcp, wr, rd, main, link, unread, delivered, hist>>

Arrive(k) ==
  /\ wire[k] > 0
  /\ wire' = [wire EXCEPT ![k] = @ - 1]
  /\ unread' = [unread EXCEPT ![k] = @ + 1]
  /\ UNCHANGED <<server, ipc, tcp, wr, rd, main, cl, link, delivered, hist>>

Eof(k) == cl[k] = "closed" /\ wire[k] = 0

-----------------------------------------------------------------------------
(* tcp_server_loop.                                                        *)

\* socket, setsockopt, bind, listen; any of them may fail.
TcpSetup ==
  /\ tcp.pc = "setup"
  /\ \/ /\ sock' = "listening"
        /\ tcp' = [tcp EXCEPT !.pc = "loop"]
        /\ UNCHANGED running
     \/ /\ running' = FALSE
        /\ tcp' = [tcp EXCEPT !.pc = "done"]
        /\ UNCHANGED sock
  /\ UNCHANGED <<backlog, fdConn, clients, pending, requests, ipc, wr, rd, main,
                 net, hist>>

TcpLoop ==
  /\ tcp.pc = "loop"
  /\ tcp' = [tcp EXCEPT !.pc = IF running THEN "select" ELSE "closing"]
  /\ UNCHANGED <<server, ipc, wr, rd, main, net, hist>>

Readable ==
  {fd \in Fds : /\ fdConn[fd] # None
                /\ unread[fdConn[fd]] > 0 \/ Eof(fdConn[fd])}
  \cup {d \in {ListenFd} : backlog # <<>> \/ sock = "shut"}

\* select() blocks until something is readable.
Select ==
  /\ tcp.pc = "select" /\ Readable # {}
  /\ tcp' = [tcp EXCEPT !.pc = "scan", !.ready = Readable]
  /\ UNCHANGED <<server, ipc, wr, rd, main, net, hist>>

SelectError ==
  /\ tcp.pc = "select"
  /\ running' = FALSE
  /\ tcp' = [tcp EXCEPT !.pc = "closing"]
  /\ UNCHANGED <<sock, backlog, fdConn, clients, pending, requests, ipc, wr, rd,
                 main, net, hist>>

\* The scan goes upwards through the descriptors select() reported; running_
\* is looked at only when it is through.
Scan ==
  /\ tcp.pc = "scan" /\ ListenFd \notin tcp.ready
  /\ tcp' = IF tcp.ready = {}
            THEN [tcp EXCEPT !.pc = "loop"]
            ELSE LET d == Min(tcp.ready)
                 IN [tcp EXCEPT !.pc = "recv", !.fd = d, !.got = 0,
                                !.ready = @ \ {d}]
  /\ UNCHANGED <<server, ipc, wr, rd, main, net, hist>>

FreeFds == {fd \in Fds : fdConn[fd] = None}

add_client(fd) == fd \notin clients

\* accept() and add_client(); fails on a listening socket that was shut down.
Accept ==
  /\ tcp.pc = "scan" /\ ListenFd \in tcp.ready
  /\ tcp' = [tcp EXCEPT !.ready = @ \ {ListenFd}]
  /\ \/ /\ backlog = <<>>
        /\ UNCHANGED <<backlog, fdConn, clients, link>>
     \/ /\ backlog # <<>>
        /\ backlog' = Tail(backlog)
        /\ LET k == Head(backlog)
               fd == Min(FreeFds)
           IN IF FreeFds # {} /\ add_client(fd)
              THEN /\ fdConn' = [fdConn EXCEPT ![fd] = k]
                   /\ clients' = clients \cup {fd}
                   /\ link' = [link EXCEPT ![k] = "up"]
              ELSE /\ link' = [link EXCEPT ![k] = "down"]
                   /\ UNCHANGED <<fdConn, clients>>
  /\ UNCHANGED <<running, sock, pending, requests, ipc, wr, rd, main, cl, wire,
                 unread, delivered, hist>>

\* recv() until the whole request is there, end of file, or for ever.
Recv ==
  /\ tcp.pc = "recv"
  /\ LET k == fdConn[tcp.fd]
     IN \/ /\ unread[k] > 0
           /\ tcp' = [tcp EXCEPT !.got = @ + unread[k],
                                 !.pc = IF tcp.got + unread[k] = Fragments
                                        THEN "register" ELSE "recv"]
           /\ unread' = [unread EXCEPT ![k] = 0]
        \/ /\ unread[k] = 0 /\ Eof(k)
           /\ tcp' = [tcp EXCEPT !.pc = "remove"]
           /\ UNCHANGED unread
  /\ UNCHANGED <<server, ipc, wr, rd, main, cl, link, wire, delivered, hist>>

\* pending_requests_[request_id] = client_socket, under clients_mutex_.
Register ==
  /\ tcp.pc = "register"
  /\ pending' = [pending EXCEPT ![IdOf[fdConn[tcp.fd]]] = tcp.fd]
  /\ tcp' = [tcp EXCEPT !.pc = "enqueue"]
  /\ UNCHANGED <<running, sock, backlog, fdConn, clients, requests, ipc, wr, rd,
                 main, net, hist>>

\* pthread_cond_signal / broadcast: a waiting writer goes back for the mutex.
WakeWriter == wr' = IF wr.pc = "wait" THEN [wr EXCEPT !.pc = "lock"] ELSE wr

\* Mutant: pthread_cond_signal is forgotten.
EnqueueNoSignal ==
  /\ tcp.pc = "enqueue"
  /\ requests' = Append(requests, fdConn[tcp.fd])
  /\ tcp' = [tcp EXCEPT !.pc = "scan"]
  /\ UNCHANGED <<running, sock, backlog, fdConn, clients, pending, ipc, wr, rd,
                 main, net, hist>>

\* Mutant: the server closes the connection once the request is queued.
EnqueueCloses ==
  /\ tcp.pc = "enqueue"
  /\ requests' = Append(requests, fdConn[tcp.fd])
  /\ WakeWriter
  /\ tcp' = [tcp EXCEPT !.pc = "remove"]
  /\ UNCHANGED <<running, sock, backlog, fdConn, clients, pending, ipc, rd,
                 main, net, hist>>

Enqueue ==
  /\ tcp.pc = "enqueue"
  /\ requests' = Append(requests, fdConn[tcp.fd])
  /\ WakeWriter
  /\ tcp' = [tcp EXCEPT !.pc = "scan"]
  /\ UNCHANGED <<running, sock, backlog, fdConn, clients, pending, ipc, rd,
                 main, net, hist>>

\* Mutant: the client stays in clients_.
RemoveClientKeeps ==
  /\ tcp.pc = "remove"
  /\ tcp' = [tcp EXCEPT !.pc = "close"]
  /\ UNCHANGED <<server, ipc, wr, rd, main, net, hist>>

\* Mutant: the requests of the client are forgotten while they are in flight.
RemoveClientForgets ==
  /\ tcp.pc = "remove"
  /\ clients' = clients \ {tcp.fd}
  /\ pending' = [id \in Ids |-> IF pending[id] = tcp.fd THEN Absent
                                ELSE pending[id]]
  /\ tcp' = [tcp EXCEPT !.pc = "close"]
  /\ UNCHANGED <<running, sock, backlog, fdConn, requests, ipc, wr, rd, main,
                 net, hist>>

remove_client ==
  /\ tcp.pc = "remove"
  /\ clients' = clients \ {tcp.fd}
  /\ tcp' = [tcp EXCEPT !.pc = "close"]
  /\ UNCHANGED <<running, sock, backlog, fdConn, pending, requests, ipc, wr, rd,
                 main, net, hist>>

CloseClient ==
  /\ tcp.pc = "close"
  /\ link' = [link EXCEPT ![fdConn[tcp.fd]] = "down"]
  /\ fdConn' = [fdConn EXCEPT ![tcp.fd] = None]
  /\ tcp' = [tcp EXCEPT !.pc = "scan"]
  /\ UNCHANGED <<running, sock, backlog, clients, pending, requests, ipc, wr, rd,
                 main, cl, wire, unread, delivered, hist>>

Hangup == [k \in Conns |-> IF link[k] = "none" THEN "none" ELSE "down"]

\* Mutant: only the listening socket is closed.
CloseListener ==
  /\ tcp.pc = "closing"
  /\ link' = [k \in Conns |-> IF link[k] = "backlog" THEN "down" ELSE link[k]]
  /\ backlog' = <<>>
  /\ sock' = "closed"
  /\ tcp' = [tcp EXCEPT !.pc = "done"]
  /\ UNCHANGED <<running, fdConn, clients, pending, requests, ipc, wr, rd, main,
                 cl, wire, unread, delivered, hist>>

CloseAll ==
  /\ tcp.pc = "closing"
  /\ fdConn' = [fd \in Fds |-> None]
  /\ link' = Hangup
  /\ backlog' = <<>>
  /\ sock' = "closed"
  /\ tcp' = [tcp EXCEPT !.pc = "done"]
  /\ UNCHANGED <<running, clients, pending, requests, ipc, wr, rd, main, cl,
                 wire, unread, delivered, hist>>

TcpThread ==
  \/ TcpSetup \/ TcpLoop \/ Select \/ Scan \/ Accept \/ Recv
  \/ Register \/ Enqueue \/ remove_client \/ CloseClient \/ CloseAll

-----------------------------------------------------------------------------
(* request_writer_loop.                                                    *)

WriterLock ==
  /\ wr.pc = "lock"
  /\ \/ /\ requests = <<>> /\ running
        /\ wr' = [wr EXCEPT !.pc = "wait"]
        /\ UNCHANGED requests
     \/ /\ requests = <<>> /\ ~running
        /\ wr' = [wr EXCEPT !.pc = "done"]
        /\ UNCHANGED requests
     \/ /\ requests # <<>>
        /\ wr' = [pc |-> "push", msg |-> Head(requests)]
        /\ requests' = Tail(requests)
  /\ UNCHANGED <<running, sock, backlog, fdConn, clients, pending, ipc, tcp, rd,
                 main, net, hist>>

\* pthread_cond_wait may return without a signal.
SpuriousWakeup ==
  /\ wr.pc = "wait"
  /\ wr' = [wr EXCEPT !.pc = "lock"]
  /\ UNCHANGED <<server, ipc, tcp, rd, main, net, hist>>

\* Mutant: the queue takes one element more than its capacity.
WriterPushOverflows ==
  /\ wr.pc = "push"
  /\ wr' = [pc |-> "lock", msg |-> None]
  /\ \/ /\ Len(toDb) <= QueueCapacity
        /\ toDb' = Append(toDb, wr.msg)
        /\ UNCHANGED lost
     \/ /\ Len(toDb) > QueueCapacity
        /\ lost' = lost \cup {wr.msg}
        /\ UNCHANGED toDb
  /\ UNCHANGED <<server, dbQueue, toTcp, tcp, rd, main, net, unmatched>>

\* Mutant: a push on a full queue overwrites the oldest element.
WriterPushOverwrites ==
  /\ wr.pc = "push"
  /\ wr' = [pc |-> "lock", msg |-> None]
  /\ \/ /\ Len(toDb) < QueueCapacity
        /\ toDb' = Append(toDb, wr.msg)
        /\ UNCHANGED lost
     \/ /\ Len(toDb) = QueueCapacity
        /\ toDb' = Append(Tail(toDb), wr.msg)
        /\ lost' = lost \cup {Head(toDb)}
  /\ UNCHANGED <<server, dbQueue, toTcp, tcp, rd, main, net, unmatched>>

\* A push that finds the IPC queue full is logged and forgotten.
WriterPush ==
  /\ wr.pc = "push"
  /\ wr' = [pc |-> "lock", msg |-> None]
  /\ \/ /\ Len(toDb) < QueueCapacity
        /\ toDb' = Append(toDb, wr.msg)
        /\ UNCHANGED lost
     \/ /\ Len(toDb) = QueueCapacity
        /\ lost' = lost \cup {wr.msg}
        /\ UNCHANGED toDb
  /\ UNCHANGED <<server, dbQueue, toTcp, tcp, rd, main, net, unmatched>>

Writer == WriterLock \/ WriterPush

-----------------------------------------------------------------------------
(* response_reader_loop.                                                   *)

ReaderTest ==
  /\ rd.pc = "test"
  /\ rd' = [rd EXCEPT !.pc = IF running THEN "pop" ELSE "done"]
  /\ UNCHANGED <<server, ipc, tcp, wr, main, net, hist>>

\* SIGINT may have come since the test; an empty queue is tried again later.
ReaderPop ==
  /\ rd.pc = "pop"
  /\ \/ /\ toTcp = <<>>
        /\ rd' = [rd EXCEPT !.pc = "test"]
        /\ UNCHANGED toTcp
     \/ /\ toTcp # <<>>
        /\ rd' = [rd EXCEPT !.pc = "lookup", !.msg = Head(toTcp)]
        /\ toTcp' = Tail(toTcp)
  /\ UNCHANGED <<server, toDb, dbQueue, tcp, wr, main, net, hist>>

\* Mutant: the response goes to the first client of the table.
ReaderLookupFirst ==
  /\ rd.pc = "lookup"
  /\ pending' = [pending EXCEPT ![IdOf[rd.msg]] = Absent]
  /\ \/ /\ clients = {}
        /\ rd' = [rd EXCEPT !.pc = "test", !.msg = None]
     \/ /\ clients # {}
        /\ rd' = [rd EXCEPT !.pc = "send", !.fd = Min(clients)]
  /\ UNCHANGED <<running, sock, backlog, fdConn, clients, requests, ipc, tcp, wr,
                 main, net, hist>>

\* find and erase under clients_mutex_.
ReaderLookup ==
  /\ rd.pc = "lookup"
  /\ LET id == IdOf[rd.msg]
     IN \/ /\ pending[id] = Absent
           /\ unmatched' = unmatched \cup {rd.msg}
           /\ rd' = [rd EXCEPT !.pc = "test", !.msg = None]
           /\ UNCHANGED pending
        \/ /\ pending[id] # Absent
           /\ pending' = [pending EXCEPT ![id] = Absent]
           /\ rd' = [rd EXCEPT !.pc = "send", !.fd = pending[id]]
           /\ UNCHANGED unmatched
  /\ UNCHANGED <<running, sock, backlog, fdConn, clients, requests, ipc, tcp, wr,
                 main, net, lost>>

\* send() after the unlock, to whatever the descriptor is by now.
ReaderSend ==
  /\ rd.pc = "send"
  /\ LET k == fdConn[rd.fd]
     IN delivered' = IF k # None /\ cl[k] \in {"connected", "waiting"}
                     THEN [delivered EXCEPT ![k] = @ \cup {rd.msg}]
                     ELSE delivered
  /\ rd' = [rd EXCEPT !.pc = "test", !.msg = None]
  /\ UNCHANGED <<server, ipc, tcp, wr, main, cl, link, wire, unread, hist>>

Reader == ReaderTest \/ ReaderPop \/ ReaderLookup \/ ReaderSend

-----------------------------------------------------------------------------
(* run: shutdown on SIGINT.                                                *)

Sigint ==
  /\ main = "sigwait"
  /\ running' = FALSE
  /\ main' = "broadcast"
  /\ UNCHANGED <<sock, backlog, fdConn, clients, pending, requests, ipc, tcp, wr,
                 rd, net, hist>>

\* Mutant: pthread_cond_broadcast is forgotten.
BroadcastNoWake ==
  /\ main = "broadcast"
  /\ main' = "shutdown"
  /\ UNCHANGED <<server, ipc, tcp, wr, rd, net, hist>>

Broadcast ==
  /\ main = "broadcast"
  /\ WakeWriter
  /\ main' = "shutdown"
  /\ UNCHANGED <<server, ipc, tcp, rd, net, hist>>

\* ::shutdown(server_socket_): select() and accept() return from now on.
ShutdownSocket ==
  /\ main = "shutdown"
  /\ main' = "join"
  /\ \/ /\ sock = "listening"
        /\ sock' = "shut"
        /\ link' = [k \in Conns |-> IF link[k] = "backlog" THEN "down"
                                    ELSE link[k]]
        /\ backlog' = <<>>
     \/ /\ sock # "listening"
        /\ UNCHANGED <<sock, link, backlog>>
  /\ UNCHANGED <<running, fdConn, clients, pending, requests, ipc, tcp, wr, rd,
                 cl, wire, unread, delivered, hist>>

Join ==
  /\ main = "join"
  /\ tcp.pc = "done" /\ wr.pc = "done" /\ rd.pc = "done"
  /\ main' = "done"
  /\ UNCHANGED <<server, ipc, tcp, wr, rd, net, hist>>

Stopping == Broadcast \/ ShutdownSocket \/ Join

-----------------------------------------------------------------------------
(* Database, seen from the queues: request_reader_loop moves requests to   *)
(* its own queue, response_writer_loop answers them in order and drops an  *)
(* answer that does not fit.                                               *)

DatabaseReads ==
  /\ toDb # <<>>
  /\ dbQueue' = Append(dbQueue, Head(toDb))
  /\ toDb' = Tail(toDb)
  /\ UNCHANGED <<server, toTcp, tcp, wr, rd, main, net, hist>>

DatabaseAnswers ==
  /\ dbQueue # <<>>
  /\ dbQueue' = Tail(dbQueue)
  /\ \/ /\ Len(toTcp) < QueueCapacity
        /\ toTcp' = Append(toTcp, Head(dbQueue))
        /\ UNCHANGED lost
     \/ /\ Len(toTcp) = QueueCapacity
        /\ lost' = lost \cup {Head(dbQueue)}
        /\ UNCHANGED toTcp
  /\ UNCHANGED <<server, toDb, tcp, wr, rd, main, net, unmatched>>

Database == DatabaseReads \/ DatabaseAnswers

-----------------------------------------------------------------------------
Network ==
  \E k \in Conns :
    \/ Connect(k) \/ SendRequest(k) \/ Disconnect(k)
    \/ Abort(k) \/ Silence(k) \/ Arrive(k)

Terminated == main = "done" /\ UNCHANGED vars

Next ==
  \/ Network \/ TcpThread \/ SelectError \/ Writer \/ SpuriousWakeup \/ Reader
  \/ Sigint \/ Stopping \/ Database \/ Terminated

Spec == Init /\ [][Next]_vars

\* Every thread is scheduled, Database answers, TCP delivers, and a client
\* that has its answer closes.  Nobody has to connect or to press Ctrl+C.
Fairness ==
  /\ WF_vars(TcpThread) /\ WF_vars(Writer) /\ WF_vars(Reader)
  /\ WF_vars(Stopping) /\ WF_vars(DatabaseReads) /\ WF_vars(DatabaseAnswers)
  /\ \A k \in Conns : WF_vars(Arrive(k)) /\ WF_vars(Disconnect(k))

FairSpec == Spec /\ Fairness

-----------------------------------------------------------------------------
\* Type correctness.
TypeOK ==
  /\ running \in BOOLEAN
  /\ sock \in {"none", "listening", "shut", "closed"}
  /\ fdConn \in [Fds -> Conns \cup {None}]
  /\ clients \subseteq Fds
  /\ pending \in [Ids -> Fds \cup {Absent}]
  /\ \A q \in {backlog, requests, toDb, dbQueue, toTcp} : q \in Seq(Conns)
  /\ Len(toDb) <= QueueCapacity /\ Len(toTcp) <= QueueCapacity
  /\ tcp.pc \in {"setup", "loop", "select", "scan", "recv", "register",
                 "enqueue", "remove", "close", "closing", "done"}
  /\ tcp.fd \in 0 .. FdLimit /\ tcp.got \in 0 .. Fragments
  /\ tcp.ready \subseteq 0 .. FdLimit
  /\ wr.pc \in {"lock", "wait", "push", "done"}
  /\ rd.pc \in {"test", "pop", "lookup", "send", "done"}
  /\ main \in {"sigwait", "broadcast", "shutdown", "join", "done"}
  /\ cl \in [Conns -> {"none", "connected", "waiting", "closed", "silent"}]
  /\ link \in [Conns -> {"none", "backlog", "up", "down"}]

\* A response goes to the connection that sent the request
\* (TcpServer/README.md:7, "returns the corresponding responses to the
\* originating clients").  It holds when request ids are unique and clients
\* stay until they are answered; neither is enforced by the code.
RoutedToOriginator == \A k \in Conns : delivered[k] \subseteq {k}

\* Requests that were registered and whose response has not been routed.
InFlight ==
  {k \in Conns :
     \/ \E q \in {requests, toDb, dbQueue, toTcp} :
          \E i \in 1 .. Len(q) : q[i] = k
     \/ k \in {wr.msg, rd.msg} /\ ~(rd.msg = k /\ rd.pc = "send")
     \/ tcp.pc = "enqueue" /\ fdConn[tcp.fd] = k}

\* With unique ids an entry of pending_requests_ is there for as long as the
\* request is in flight: no response comes before its client is registered,
\* however fast Database answers, or after the entry is gone.  And no entry
\* outlives its response: what is left is waiting for one that can still come,
\* or leaked because request or response was dropped at a full IPC queue.
PendingAccounted ==
  /\ unmatched = {}
  /\ \A k \in InFlight : pending[IdOf[k]] # Absent
  /\ \A id \in Ids :
       pending[id] # Absent => \E k \in InFlight \cup lost : IdOf[k] = id

\* clients_ lists exactly the open client sockets, so a reused descriptor is
\* never refused by add_client().
ClientsMatchSockets ==
  tcp.pc \notin {"close", "done"} =>
    clients = {fd \in Fds : fdConn[fd] # None}

\* A descriptor number outlives its connection in pending_requests_ and in
\* response_reader_loop (after the unlock), so a response can reach a stranger.
\* That takes an asker that left first, and the response is delivered once: it
\* is never taken from a client that waits for it.  The stranger takes it for
\* its own answer (see Served).
StrayResponses ==
  \A k \in Conns : \A o \in delivered[k] \ {k} :
    /\ cl[o] = "closed"
    /\ \A j \in Conns \ {k} : o \notin delivered[j]

\* The writer may end while the tcp thread still adds a request, and run() then
\* returns with it in request_queue_ (or with its response in an IPC queue):
\* whoever sent such a request has been disconnected and is not left waiting.
LeftBehindIsHungUp ==
  main = "done" =>
    \A k \in Conns : k \in InFlight \/ cl[k] = "waiting" => link[k] = "down"

\* The tcp thread is inside recv() for a client that will never send the rest.
StuckInRecv == tcp.pc = "recv" /\ cl[fdConn[tcp.fd]] = "silent"

\* After SIGINT run() joins all threads and returns: the writer is woken, the
\* blocked select() returns, and only a client that went silent in the middle
\* of a request can hold it up.
ShutdownCompletes == main # "sigwait" ~> main = "done" \/ StuckInRecv

\* The client took a response to a connection that had ended for its own: it
\* looks at no request id (bbg_client.c:391) and closes.
TookStray(k) == \E o \in delivered[k] \ {k} : cl[o] = "closed"

\* The client was killed or vanished with no response at all.
LeftUnanswered(k) == cl[k] # "waiting" /\ delivered[k] = {}

\* A request that was sent gets its own response, unless the client leaves or
\* takes a stray response for it, or the server hangs up, drops the request at
\* a full queue, stops, or is held in recv() by another client.
Served ==
  \A k \in Conns :
    cl[k] = "waiting" ~> \/ k \in delivered[k]
                         \/ TookStray(k) \/ LeftUnanswered(k)
                         \/ link[k] = "down" \/ k \in lost
                         \/ ~running \/ StuckInRecv

-----------------------------------------------------------------------------
(* The environment: what is above called Database is the service that the  *)
(* threads of Database implement.                                          *)
DS == INSTANCE DatabaseService WITH
  Requests <- Conns, Capacity <- QueueCapacity, held <- dbQueue

\* TcpServer and the Database it assumes use the two IPC queues by the
\* protocol of DatabaseService: nothing but whole requests at the end of one
\* queue and whole responses from the front of the other.
UsesService == DS!Spec

=============================================================================
