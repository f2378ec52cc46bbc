--------------------------- MODULE TcpServerProofs ---------------------------
(***************************************************************************)
(* TcpServer keeps its table of clients equal to its open sockets, never   *)
(* reads more than a request, uses the IPC queues as DatabaseService says, *)
(* and leaves nobody waiting when it stops: for every number of clients,   *)
(* requests and descriptors and every queue capacity.                      *)
(***************************************************************************)
EXTENDS TcpServer, SequenceTheorems, NaturalsInduction, WellFoundedInduction,
        TLAPS

-----------------------------------------------------------------------------
(* The inductive invariant.                                                *)

\* What is in a queue.
Items(q) == {q[i] : i \in 1 .. Len(q)}
Distinct(q) == \A i, j \in 1 .. Len(q) : q[i] = q[j] => i = j

\* Descriptors with a connection behind them.
Open == {fd \in Fds : fdConn[fd] # None}

\* The tcp thread works on the connection behind tcp.fd.
AtClient == tcp.pc \in {"recv", "register", "enqueue", "remove", "close"}

Control ==
  /\ running \in BOOLEAN
  /\ sock \in {"none", "listening", "shut", "closed"}
  /\ main \in {"sigwait", "broadcast", "shutdown", "join", "done"}
  /\ tcp \in [pc : {"setup", "loop", "select", "scan", "recv", "register",
                    "enqueue", "remove", "close", "closing", "done"},
              fd : 0 .. FdLimit, got : 0 .. Fragments,
              ready : SUBSET (0 .. FdLimit)]
  /\ wr \in [pc : {"lock", "wait", "push", "done"}, msg : Conns \cup {None}]
  /\ rd \in [pc : {"test", "pop", "lookup", "send", "done"}, msg : Conns \cup {None},
             fd : 0 .. FdLimit]

Data ==
  /\ fdConn \in [Fds -> Conns \cup {None}]
  /\ clients \subseteq Fds
  /\ pending \in [Ids -> Fds \cup {Absent}]
  /\ cl \in [Conns -> {"none", "connected", "waiting", "closed", "silent"}]
  /\ link \in [Conns -> {"none", "backlog", "up", "down"}]
  /\ wire \in [Conns -> Nat] /\ unread \in [Conns -> Nat]
  /\ delivered \in [Conns -> SUBSET Conns]
  /\ lost \subseteq Conns /\ unmatched \subseteq Conns

Queues ==
  /\ backlog \in Seq(Conns) /\ requests \in Seq(Conns)
  /\ toDb \in Seq(Conns) /\ dbQueue \in Seq(Conns) /\ toTcp \in Seq(Conns)
  /\ Len(toDb) <= QueueCapacity /\ Len(toTcp) <= QueueCapacity

\* Writer and reader have a message exactly between taking and passing it on,
\* and the reader a real descriptor when it sends.
InHand ==
  /\ wr.pc = "push" <=> wr.msg # None
  /\ rd.pc \in {"lookup", "send"} <=> rd.msg # None
  /\ rd.pc = "send" => rd.fd \in Fds

\* What select() reported and has not been looked at is still open, what is
\* being looked at too; clients_ lags behind the sockets only between
\* remove_client() and close().
Descriptors ==
  /\ tcp.ready \ {ListenFd} \subseteq Open
  /\ AtClient => tcp.fd \in Open \ tcp.ready
  /\ tcp.pc \in {"setup", "loop", "select", "closing", "done"} => tcp.ready = {}
  /\ tcp.pc # "done" =>
       clients = IF tcp.pc = "close" THEN Open \ {tcp.fd} ELSE Open

\* Fragments of k's request that receive_client_request() holds.
Got(k) == IF tcp.pc = "recv" /\ fdConn[tcp.fd] = k THEN tcp.got ELSE 0

\* There is one request per connection, and it was sent before it is received.
Budget ==
  \A k \in Conns :
    /\ wire[k] + unread[k] + Got(k) <= Fragments
    /\ cl[k] \in {"none", "connected"} =>
         wire[k] = 0 /\ unread[k] = 0 /\ Got(k) = 0

\* Connections whose request or response is in a queue or in a thread's hand.
Held ==
  Items(requests) \cup Items(toDb) \cup Items(dbQueue) \cup Items(toTcp)
    \cup ({wr.msg, rd.msg} \ {None})

\* Each connection is unknown, in the backlog once, behind one descriptor, or
\* down.
Links ==
  /\ \A k \in Items(backlog) : link[k] = "backlog"
  /\ Distinct(backlog)
  /\ \A fd \in Open : link[fdConn[fd]] = "up"
  /\ \A d, e \in Open : fdConn[d] = fdConn[e] => d = e
  /\ \A k \in Conns : cl[k] = "none" <=> link[k] = "none"
  /\ \A k \in Held : link[k] # "none"

\* Nobody gets in before the listening socket is there or after the tcp thread
\* has ended.
Stopped ==
  /\ tcp.pc = "setup" => sock = "none"
  /\ sock = "none" => backlog = <<>> /\ \A k \in Conns : link[k] = "none"
  /\ tcp.pc = "done" => /\ sock \in {"none", "closed"}
                        /\ Open = {}
                        /\ \A k \in Conns : link[k] \in {"none", "down"}

\* run() returns after it has joined the tcp thread.
Joined == main = "done" => tcp.pc = "done"

Typed == Control /\ Data /\ Queues
IInv == Typed /\ InHand /\ Descriptors /\ Budget /\ Links /\ Stopped /\ Joined

-----------------------------------------------------------------------------
(* Sequences, sets of descriptors and connections.                         *)

\* Appending adds an element; distinctness survives when it is a new one.
LEMMA ItemsAppend ==
  ASSUME NEW S, NEW q \in Seq(S), NEW e \in S
  PROVE  /\ Append(q, e) \in Seq(S) /\ Len(Append(q, e)) = Len(q) + 1
         /\ Items(Append(q, e)) = Items(q) \cup {e}
         /\ Distinct(q) /\ e \notin Items(q) => Distinct(Append(q, e))
<1>1. /\ Append(q, e) \in Seq(S) /\ Len(Append(q, e)) = Len(q) + 1
      /\ \A i \in 1 .. Len(q) : Append(q, e)[i] = q[i]
      /\ Append(q, e)[Len(q) + 1] = e /\ Len(q) \in Nat
  BY AppendProperties
<1>2. 1 .. Len(Append(q, e)) = (1 .. Len(q)) \cup {Len(q) + 1}
  BY <1>1
<1>3. Items(Append(q, e)) = Items(q) \cup {e}
  BY <1>1, <1>2 DEF Items
<1>4. Distinct(q) /\ e \notin Items(q) => Distinct(Append(q, e))
  BY <1>1, <1>2 DEF Items, Distinct
<1> QED
  BY <1>1, <1>3, <1>4

\* A queue is its head and the rest; when it is distinct the head is gone from
\* the rest.
LEMMA ItemsTail ==
  ASSUME NEW S, NEW q \in Seq(S), q # <<>>
  PROVE  /\ Head(q) \in S /\ Tail(q) \in Seq(S) /\ Len(Tail(q)) = Len(q) - 1
         /\ Head(q) \in Items(q)
         /\ Items(q) = Items(Tail(q)) \cup {Head(q)}
         /\ Distinct(q) => Distinct(Tail(q)) /\ Head(q) \notin Items(Tail(q))
<1>1. /\ Head(q) \in S /\ Tail(q) \in Seq(S) /\ Len(Tail(q)) = Len(q) - 1
      /\ Head(q) = q[1] /\ \A i \in 1 .. Len(Tail(q)) : Tail(q)[i] = q[i + 1]
      /\ Len(q) \in Nat \ {0}
  BY HeadTailProperties
<1>2. Items(q) = Items(Tail(q)) \cup {Head(q)}
  <2>1. ASSUME NEW x \in Items(q)
        PROVE  x \in Items(Tail(q)) \cup {Head(q)}
    <3>1. PICK i \in 1 .. Len(q) : x = q[i]
      BY DEF Items
    <3>2. CASE i = 1
      BY <1>1, <3>1, <3>2
    <3>3. CASE i # 1
      <4>1. i - 1 \in 1 .. Len(Tail(q)) /\ Tail(q)[i - 1] = x
        BY <1>1, <3>1, <3>3
      <4> QED
        BY <4>1 DEF Items
    <3> QED
      BY <3>2, <3>3
  <2>2. ASSUME NEW x \in Items(Tail(q))
        PROVE  x \in Items(q)
    <3>1. PICK i \in 1 .. Len(Tail(q)) : x = Tail(q)[i]
      BY DEF Items
    <3>2. i + 1 \in 1 .. Len(q) /\ x = q[i + 1]
      BY <1>1, <3>1
    <3> QED
      BY <3>2 DEF Items
  <2>3. Head(q) \in Items(q)
    BY <1>1 DEF Items
  <2> QED
    BY <2>1, <2>2, <2>3
<1>3. Distinct(q) => Distinct(Tail(q)) /\ Head(q) \notin Items(Tail(q))
  BY <1>1 DEF Items, Distinct
<1> QED
  BY <1>1, <1>2, <1>3

\* Nothing is in the empty queue.
LEMMA ItemsEmpty == Items(<<>>) = {} /\ Distinct(<<>>)
BY DEF Items, Distinct

\* Min is the least element of a set of descriptors.
LEMMA LeastDescriptor ==
  ASSUME NEW S \in SUBSET Nat, S # {}
  PROVE  Min(S) \in S
<1>1. PICK m \in S : \A n \in S : ~(<<n, m>> \in OpToRel(<, Nat))
  BY NatLessThanWellFounded, WFMin
<1>2. \A n \in S : ~(n < m)
  BY <1>1 DEF OpToRel
<1>3. \A n \in S : m =< n
  BY <1>2
<1> QED
  BY <1>3 DEF Min

\* None is not a connection.
LEMMA NoneNotConn == None \notin Conns
BY DEF None, Conns

-----------------------------------------------------------------------------
(* Types.                                                                  *)

\* The descriptor that the tcp thread works on has a connection behind it.
LEMMA AtConn ==
  ASSUME IInv, AtClient
  PROVE  /\ tcp.fd \in Open /\ tcp.fd \in Fds /\ tcp.fd \notin tcp.ready
         /\ fdConn[tcp.fd] \in Conns
BY DEF IInv, Typed, Data, Descriptors, Open

\* A response that the reader looks up has an id of a connection.
LEMMA LookupConn ==
  ASSUME IInv, rd.pc \in {"lookup", "send"}
  PROVE  /\ rd.msg \in Conns /\ IdOf[rd.msg] \in Ids
         /\ pending[IdOf[rd.msg]] \in Fds \cup {Absent}
<1>1. rd.msg \in Conns
  BY DEF IInv, Typed, Control, InHand
<1>2. IdOf[rd.msg] \in Ids
  BY <1>1 DEF Ids
<1> QED
  BY <1>1, <1>2 DEF IInv, Typed, Data

\* Every step keeps the program counters and the threads' own variables typed;
\* receive_client_request() never holds more than a request.
LEMMA ControlNext == IInv /\ [Next]_vars => Control'
<1> SUFFICES ASSUME IInv, [Next]_vars
             PROVE  Control'
  OBVIOUS
<1>0. Control /\ FdLimit \in Nat /\ Fragments \in Nat
  BY BoundsAssumption DEF IInv, Typed
<1> USE DEF Control
<1>1. CASE UNCHANGED vars \/ Terminated
  BY <1>0, <1>1 DEF vars, server, Terminated
<1>2. ASSUME NEW k \in Conns,
             \/ Connect(k) \/ SendRequest(k) \/ Disconnect(k)
             \/ Abort(k) \/ Silence(k) \/ Arrive(k)
      PROVE  Control'
  BY <1>0, <1>2
     DEF Connect, SendRequest, Disconnect, Abort, Silence, Arrive, server
<1>3. CASE TcpSetup \/ TcpLoop \/ SelectError \/ Register \/ remove_client
           \/ CloseClient \/ CloseAll
  BY <1>0, <1>3 DEF TcpSetup, TcpLoop, SelectError, Register, remove_client,
                    CloseClient, CloseAll, server
<1>4. CASE Enqueue
  BY <1>0, <1>4 DEF Enqueue, WakeWriter
<1>5. CASE Select
  <2>1. Readable \subseteq 0 .. FdLimit
    BY <1>0 DEF Readable, Fds, ListenFd
  <2> QED
    BY <1>0, <1>5, <2>1 DEF Select, server
<1>6. CASE Scan
  <2>1. tcp.ready # {} => Min(tcp.ready) \in tcp.ready
    BY <1>0, LeastDescriptor
  <2>2. CASE tcp.ready = {}
    BY <1>0, <1>6, <2>2 DEF Scan, server
  <2>3. CASE tcp.ready # {}
    <3> DEFINE d == Min(tcp.ready)
    <3>1. tcp' = [tcp EXCEPT !.pc = "recv", !.fd = d, !.got = 0,
                             !.ready = @ \ {d}]
      BY <1>6, <2>3 DEF Scan
    <3>2. d \in 0 .. FdLimit
      BY <1>0, <2>1, <2>3
    <3>3. 0 \in 0 .. Fragments
      BY <1>0
    <3> HIDE DEF d
    <3>4. tcp' \in [pc : {"recv"}, fd : 0 .. FdLimit, got : 0 .. Fragments,
                    ready : SUBSET (0 .. FdLimit)]
      BY <1>0, <3>1, <3>2, <3>3
    <3> QED
      BY <1>0, <1>6, <3>4 DEF Scan, server
  <2> QED
    BY <2>2, <2>3
<1>7. CASE Accept
  BY <1>0, <1>7 DEF Accept
<1>8. CASE Recv
  <2> DEFINE k == fdConn[tcp.fd]
  <2>1. k \in Conns /\ tcp.pc = "recv"
    BY <1>8, AtConn DEF Recv, AtClient
  <2>2. tcp.got + unread[k] \in 0 .. Fragments
    BY <1>0, <2>1 DEF IInv, Typed, Data, Budget, Got
  <2>3. tcp' \in [pc : {"recv", "register", "remove"}, fd : 0 .. FdLimit,
                  got : 0 .. Fragments, ready : SUBSET (0 .. FdLimit)]
    BY <1>0, <1>8, <2>2 DEF Recv
  <2> QED
    BY <1>0, <1>8, <2>3 DEF Recv, server
<1>9. CASE Writer \/ SpuriousWakeup
  <2>1. requests # <<>> => Head(requests) \in Conns
    BY ItemsTail DEF IInv, Typed, Queues
  <2> QED
    BY <1>0, <1>9, <2>1 DEF Writer, WriterLock, WriterPush, SpuriousWakeup, server
<1>10. CASE Reader
  <2>1. CASE ReaderPop
    <3>1. toTcp # <<>> => Head(toTcp) \in Conns
      BY ItemsTail DEF IInv, Typed, Queues
    <3>2. rd' \in [pc : {"lookup", "test"}, msg : Conns \cup {None},
                   fd : 0 .. FdLimit]
      BY <1>0, <2>1, <3>1 DEF ReaderPop
    <3> QED
      BY <1>0, <2>1, <3>2 DEF ReaderPop, server
  <2>2. CASE ReaderLookup
    <3>1. pending[IdOf[rd.msg]] \in 0 .. FdLimit
      BY <1>0, <2>2, LookupConn DEF ReaderLookup, Fds, Absent
    <3>2. rd' \in [pc : {"test", "send"}, msg : Conns \cup {None},
                   fd : 0 .. FdLimit]
      BY <1>0, <2>2, <3>1 DEF ReaderLookup
    <3> QED
      BY <1>0, <2>2, <3>2 DEF ReaderLookup
  <2>3. CASE ReaderSend
    BY <1>0, <2>3 DEF ReaderSend, server
  <2>4. CASE ReaderTest
    BY <1>0, <2>4 DEF ReaderTest, server
  <2> QED
    BY <1>10, <2>1, <2>2, <2>3, <2>4 DEF Reader
<1>11. CASE Sigint \/ Stopping
  BY <1>0, <1>11 DEF Sigint, Stopping, Broadcast, ShutdownSocket, Join,
                     WakeWriter, server
<1>12. CASE Database
  BY <1>0, <1>12 DEF Database, DatabaseReads, DatabaseAnswers, server
<1> QED
  BY <1>1, <1>2, <1>3, <1>4, <1>5, <1>6, <1>7, <1>8, <1>9, <1>10, <1>11, <1>12
     DEF Next, Network, TcpThread

\* Every step keeps the tables and the network typed.
LEMMA DataNext == IInv /\ [Next]_vars => Data'
<1> SUFFICES ASSUME IInv, [Next]_vars
             PROVE  Data'
  OBVIOUS
<1>0. Data /\ Fragments \in Nat
  BY BoundsAssumption DEF IInv, Typed
<1> USE DEF Data
<1>1. CASE UNCHANGED vars \/ Terminated
  BY <1>0, <1>1 DEF vars, server, net, hist, Terminated
<1>2. ASSUME NEW k \in Conns,
             \/ Connect(k) \/ SendRequest(k) \/ Disconnect(k)
             \/ Abort(k) \/ Silence(k) \/ Arrive(k)
      PROVE  Data'
  <2>1. CASE Connect(k) \/ Disconnect(k) \/ Abort(k)
    BY <1>0, <2>1 DEF Connect, Disconnect, Abort, server, hist
  <2>2. CASE SendRequest(k) \/ Silence(k)
    BY <1>0, <2>2 DEF SendRequest, Silence, server, hist
  <2>3. CASE Arrive(k)
    BY <1>0, <2>3 DEF Arrive, server, hist
  <2> QED
    BY <1>2, <2>1, <2>2, <2>3
<1>3. CASE TcpSetup \/ TcpLoop \/ Select \/ SelectError \/ Scan \/ Enqueue
           \/ Writer \/ SpuriousWakeup \/ Sigint \/ Stopping \/ ReaderTest
           \/ ReaderPop
  <2>1. CASE WriterPush
    BY <1>0, <2>1 DEF WriterPush, server, net, IInv, Typed, Control, InHand
  <2>2. CASE ShutdownSocket
    BY <1>0, <2>2 DEF ShutdownSocket, hist
  <2> QED
    BY <1>0, <1>3, <2>1, <2>2
       DEF TcpSetup, TcpLoop, Select, SelectError, Scan, Enqueue, Writer,
           WriterLock, SpuriousWakeup, Sigint, Stopping, Broadcast, Join,
           ReaderTest, ReaderPop, server, ipc, net, hist
<1>4. CASE Accept
  <2>1. FreeFds # {} => Min(FreeFds) \in FreeFds
    BY LeastDescriptor, BoundsAssumption DEF FreeFds, Fds
  <2>2. backlog # <<>> => Head(backlog) \in Conns
    BY ItemsTail DEF IInv, Typed, Queues
  <2> QED
    BY <1>0, <1>4, <2>1, <2>2 DEF Accept, FreeFds, hist
<1>5. CASE Recv
  <2>1. fdConn[tcp.fd] \in Conns
    BY <1>5, AtConn DEF Recv, AtClient
  <2> QED
    BY <1>0, <1>5, <2>1 DEF Recv, server, hist
<1>6. CASE Register
  <2>1. fdConn[tcp.fd] \in Conns /\ tcp.fd \in Fds
    BY <1>6, AtConn DEF Register, AtClient
  <2>2. IdOf[fdConn[tcp.fd]] \in Ids
    BY <2>1 DEF Ids
  <2> QED
    BY <1>0, <1>6, <2>1, <2>2 DEF Register, net, hist
<1>7. CASE remove_client
  BY <1>0, <1>7 DEF remove_client, net, hist
<1>8. CASE CloseClient
  <2>1. fdConn[tcp.fd] \in Conns /\ tcp.fd \in Fds
    BY <1>8, AtConn DEF CloseClient, AtClient
  <2> QED
    BY <1>0, <1>8, <2>1 DEF CloseClient, hist
<1>9. CASE CloseAll
  BY <1>0, <1>9 DEF CloseAll, Hangup, hist
<1>10. CASE ReaderLookup
  BY <1>0, <1>10, LookupConn DEF ReaderLookup, net
<1>11. CASE ReaderSend
  <2>1. rd.msg \in Conns /\ rd.fd \in Fds
    BY <1>11, LookupConn DEF ReaderSend, IInv, InHand
  <2> QED
    BY <1>0, <1>11, <2>1 DEF ReaderSend, server, hist
<1>12. CASE Database
  <2>1. dbQueue # <<>> => Head(dbQueue) \in Conns
    BY ItemsTail DEF IInv, Typed, Queues
  <2> QED
    BY <1>0, <1>12, <2>1 DEF Database, DatabaseReads, DatabaseAnswers, server, net, hist
<1> QED
  BY <1>1, <1>2, <1>3, <1>4, <1>5, <1>6, <1>7, <1>8, <1>9, <1>10, <1>11, <1>12
     DEF Next, Network, TcpThread, Reader

\* Every step moves whole connections through the queues, and neither IPC
\* queue grows past its capacity.
LEMMA QueuesNext == IInv /\ [Next]_vars => Queues'
<1> SUFFICES ASSUME IInv, [Next]_vars
             PROVE  Queues'
  OBVIOUS
<1>0. Queues /\ QueueCapacity \in Nat \ {0}
  BY BoundsAssumption DEF IInv, Typed
<1>a. \A q \in Seq(Conns), e \in Conns :
        Append(q, e) \in Seq(Conns) /\ Len(Append(q, e)) = Len(q) + 1
  BY ItemsAppend
<1>t. \A q \in Seq(Conns) : q # <<>> =>
        /\ Head(q) \in Conns /\ Tail(q) \in Seq(Conns)
        /\ Len(Tail(q)) = Len(q) - 1
  BY ItemsTail
<1>e. <<>> \in Seq(Conns) /\ Len(toDb) \in Nat /\ Len(toTcp) \in Nat
  BY <1>0
<1> USE DEF Queues
<1>1. CASE UNCHANGED vars \/ Terminated
  BY <1>0, <1>1 DEF vars, server, ipc, Terminated
<1>2. ASSUME NEW k \in Conns,
             \/ Connect(k) \/ SendRequest(k) \/ Disconnect(k)
             \/ Abort(k) \/ Silence(k) \/ Arrive(k)
      PROVE  Queues'
  BY <1>0, <1>2, <1>a, <1>e
     DEF Connect, SendRequest, Disconnect, Abort, Silence, Arrive, server, ipc
<1>3. CASE \/ TcpSetup \/ TcpLoop \/ Select \/ SelectError \/ Scan \/ Recv
           \/ Register \/ remove_client \/ CloseClient \/ SpuriousWakeup
           \/ ReaderTest \/ ReaderLookup \/ ReaderSend \/ Sigint \/ Broadcast
           \/ Join
  BY <1>0, <1>3
     DEF TcpSetup, TcpLoop, Select, SelectError, Scan, Recv, Register,
         remove_client, CloseClient, SpuriousWakeup, ReaderTest, ReaderLookup,
         ReaderSend,
         Sigint, Broadcast, Join, server, ipc
<1>4. CASE Accept
  BY <1>0, <1>4, <1>t, <1>e DEF Accept, ipc
<1>5. CASE Enqueue
  <2>1. fdConn[tcp.fd] \in Conns
    BY <1>5, AtConn DEF Enqueue, AtClient
  <2> QED
    BY <1>0, <1>5, <2>1, <1>a, <1>e DEF Enqueue, ipc
<1>6. CASE CloseAll \/ ShutdownSocket
  BY <1>0, <1>e, <1>6 DEF CloseAll, ShutdownSocket, ipc
<1>7. CASE WriterLock
  BY <1>0, <1>7, <1>t, <1>e DEF WriterLock, ipc
<1>8. CASE WriterPush
  <2>1. wr.msg \in Conns
    BY <1>8 DEF WriterPush, IInv, InHand, Typed, Control
  <2>2. toDb' \in Seq(Conns) /\ Len(toDb') <= QueueCapacity
    <3> DEFINE new == Append(toDb, wr.msg)
    <3>1. new \in Seq(Conns) /\ Len(new) = Len(toDb) + 1
      BY <1>0, <2>1, <1>a
    <3>2. (toDb' = new /\ Len(toDb) < QueueCapacity) \/ toDb' = toDb
      BY <1>8 DEF WriterPush
    <3> HIDE DEF new
    <3> QED
      BY <1>0, <1>e, <3>1, <3>2
  <2> QED
    BY <1>0, <1>8, <2>2 DEF WriterPush, server
<1>9. CASE ReaderPop
  <2>1. toTcp' \in Seq(Conns) /\ Len(toTcp') <= QueueCapacity
    <3> DEFINE new == Tail(toTcp)
    <3>1. toTcp # <<>> => new \in Seq(Conns) /\ Len(new) = Len(toTcp) - 1
      BY <1>0, <1>t
    <3>2. (toTcp' = new /\ toTcp # <<>>) \/ toTcp' = toTcp
      BY <1>9 DEF ReaderPop
    <3> HIDE DEF new
    <3> QED
      BY <1>0, <1>e, <3>1, <3>2
  <2> QED
    BY <1>0, <1>9, <2>1 DEF ReaderPop, server
<1>10. CASE DatabaseReads
  BY <1>0, <1>10, <1>t, <1>a, <1>e DEF DatabaseReads, server
<1>11. CASE DatabaseAnswers
  <2>1. Head(dbQueue) \in Conns /\ dbQueue' \in Seq(Conns)
    BY <1>0, <1>11, <1>t DEF DatabaseAnswers
  <2>2. toTcp' \in Seq(Conns) /\ Len(toTcp') <= QueueCapacity
    <3> DEFINE new == Append(toTcp, Head(dbQueue))
    <3>1. new \in Seq(Conns) /\ Len(new) = Len(toTcp) + 1
      BY <1>0, <2>1, <1>a
    <3>2. (toTcp' = new /\ Len(toTcp) < QueueCapacity) \/ toTcp' = toTcp
      BY <1>11 DEF DatabaseAnswers
    <3> HIDE DEF new
    <3> QED
      BY <1>0, <1>e, <3>1, <3>2
  <2> QED
    BY <1>0, <1>11, <2>1, <2>2 DEF DatabaseAnswers, server
<1> QED
  BY <1>1, <1>2, <1>3, <1>4, <1>5, <1>6, <1>7, <1>8, <1>9, <1>10, <1>11
     DEF Next, Network, TcpThread, Writer, Reader, Stopping, Database

\* Writer and reader have a message exactly while they deal with one.
LEMMA InHandNext == IInv /\ [Next]_vars => InHand'
<1> SUFFICES ASSUME IInv, [Next]_vars
             PROVE  InHand'
  OBVIOUS
<1>0. InHand /\ Control
  BY DEF IInv, Typed
<1>1. CASE WriterLock
  <2>1. requests # <<>> => Head(requests) # None
    BY ItemsTail, NoneNotConn DEF IInv, Typed, Queues
  <2> QED
    BY <1>0, <1>1, <2>1 DEF WriterLock, InHand, Control
<1>2. CASE WriterPush
  BY <1>0, <1>2 DEF WriterPush, InHand, Control
<1>3. CASE ReaderPop
  <2>1. toTcp # <<>> => Head(toTcp) # None
    BY ItemsTail, NoneNotConn DEF IInv, Typed, Queues
  <2> QED
    BY <1>0, <1>3, <2>1 DEF ReaderPop, InHand, Control
<1>4. CASE ReaderLookup
  BY <1>0, <1>4, LookupConn DEF ReaderLookup, InHand, Control
<1>5. CASE ReaderSend \/ ReaderTest
  BY <1>0, <1>5 DEF ReaderSend, ReaderTest, InHand, Control
<1>6. CASE Enqueue \/ Broadcast \/ SpuriousWakeup
  BY <1>0, <1>6 DEF Enqueue, Broadcast, SpuriousWakeup, WakeWriter, InHand, Control
<1>7. CASE wr' = wr /\ rd' = rd
  BY <1>0, <1>7 DEF InHand
<1>8. CASE UNCHANGED vars \/ Terminated \/ Network
  BY <1>7, <1>8 DEF vars, Terminated, Network, Connect, SendRequest, Disconnect,
                    Abort, Silence, Arrive
<1>9. CASE \/ TcpSetup \/ TcpLoop \/ Select \/ SelectError \/ Scan \/ Accept
           \/ Recv \/ Register \/ remove_client \/ CloseClient \/ CloseAll
  BY <1>7, <1>9 DEF TcpSetup, TcpLoop, Select, SelectError, Scan, Accept, Recv,
                    Register, remove_client, CloseClient, CloseAll
<1>10. CASE Sigint \/ ShutdownSocket \/ Join \/ Database
  BY <1>7, <1>10 DEF Sigint, ShutdownSocket, Join, Database, DatabaseReads,
                     DatabaseAnswers
<1> QED
  BY <1>1, <1>2, <1>3, <1>4, <1>5, <1>6, <1>8, <1>9, <1>10
     DEF Next, TcpThread, Writer, Reader, Stopping

\* Steps of the other threads, of clients and of Database leave the tcp
\* thread's variables and its descriptors alone.
LEMMA TcpAlone ==
  ASSUME [Next]_vars
  PROVE  TcpThread \/ SelectError \/ UNCHANGED <<tcp, fdConn, clients>>
<1>1. CASE UNCHANGED vars \/ Terminated \/ Network
  BY <1>1 DEF vars, server, Terminated, Network, Connect, SendRequest, Disconnect,
              Abort, Silence, Arrive
<1>2. CASE Writer \/ SpuriousWakeup \/ Reader
  BY <1>2 DEF Writer, WriterLock, WriterPush, SpuriousWakeup, Reader, ReaderTest,
              ReaderPop, ReaderLookup, ReaderSend, server
<1>3. CASE Sigint \/ Stopping \/ Database
  BY <1>3 DEF Sigint, Stopping, Broadcast, ShutdownSocket, Join, Database,
              DatabaseReads, DatabaseAnswers, server
<1> QED
  BY <1>1, <1>2, <1>3 DEF Next

\* Where accept() gets a descriptor, it is a free one and add_client() has not
\* got it.
LEMMA FreeDescriptor ==
  ASSUME IInv, FreeFds # {}, tcp.pc = "scan"
  PROVE  /\ Min(FreeFds) \in Fds /\ Min(FreeFds) \notin Open
         /\ add_client(Min(FreeFds))
<1>1. Min(FreeFds) \in FreeFds
  BY LeastDescriptor, BoundsAssumption DEF FreeFds, Fds
<1>2. Min(FreeFds) \in Fds /\ Min(FreeFds) \notin Open
  BY <1>1 DEF FreeFds, Open
<1> QED
  BY <1>2 DEF IInv, Descriptors, add_client

\* accept() finds nothing, refuses a connection or puts it behind a free
\* descriptor.
LEMMA AcceptOutcome ==
  ASSUME IInv, Accept
  PROVE  /\ clients = Open /\ clients' = Open'
         /\ \/ /\ UNCHANGED <<fdConn, clients, link, backlog>> /\ Open' = Open
            \/ /\ backlog # <<>> /\ Head(backlog) \in Conns
               /\ backlog' = Tail(backlog)
               /\ UNCHANGED <<fdConn, clients>> /\ Open' = Open
               /\ link' = [link EXCEPT ![Head(backlog)] = "down"]
            \/ /\ backlog # <<>> /\ Head(backlog) \in Conns
               /\ backlog' = Tail(backlog)
               /\ \E fd \in Fds \ Open :
                    /\ fdConn' = [fdConn EXCEPT ![fd] = Head(backlog)]
                    /\ Open' = Open \cup {fd}
               /\ link' = [link EXCEPT ![Head(backlog)] = "up"]
<1>0. Data /\ clients = Open /\ tcp.pc = "scan"
  BY DEF IInv, Typed, Accept, Descriptors
<1>1. CASE backlog = <<>>
  BY <1>0, <1>1 DEF Accept, Open
<1>2. CASE backlog # <<>> /\ FreeFds = {}
  <2>1. Head(backlog) \in Conns
    BY <1>2, ItemsTail DEF IInv, Typed, Queues
  <2>2. /\ backlog' = Tail(backlog) /\ UNCHANGED <<fdConn, clients>>
        /\ link' = [link EXCEPT ![Head(backlog)] = "down"]
    BY <1>2 DEF Accept
  <2> QED
    BY <1>0, <1>2, <2>1, <2>2 DEF Open
<1>3. CASE backlog # <<>> /\ FreeFds # {}
  <2> DEFINE fd == Min(FreeFds)
  <2>1. Head(backlog) \in Conns
    BY <1>3, ItemsTail DEF IInv, Typed, Queues
  <2>2. fd \in Fds /\ fd \notin Open /\ add_client(fd)
    BY <1>0, <1>3, FreeDescriptor
  <2>3. /\ backlog' = Tail(backlog)
        /\ fdConn' = [fdConn EXCEPT ![fd] = Head(backlog)]
        /\ clients' = clients \cup {fd}
        /\ link' = [link EXCEPT ![Head(backlog)] = "up"]
    BY <1>3, <2>2 DEF Accept
  <2> HIDE DEF fd
  <2>4. Open' = Open \cup {fd}
    BY <1>0, <2>1, <2>2, <2>3, NoneNotConn DEF Open, Data
  <2> QED
    BY <1>0, <1>3, <2>1, <2>2, <2>3, <2>4
<1> QED
  BY <1>1, <1>2, <1>3

\* clients_ stays equal to the set of open sockets, and the scan only meets
\* open ones.
LEMMA DescriptorsNext == IInv /\ [Next]_vars => Descriptors'
<1> SUFFICES ASSUME IInv, [Next]_vars
             PROVE  Descriptors'
  OBVIOUS
<1>0. Descriptors /\ Control /\ Data
  BY DEF IInv, Typed
<1>u. CASE UNCHANGED <<tcp, fdConn, clients>>
  BY <1>0, <1>u DEF Descriptors, Open, AtClient
<1>1. CASE TcpSetup \/ TcpLoop \/ SelectError
  BY <1>0, <1>1 DEF TcpSetup, TcpLoop, SelectError, Descriptors, Open, AtClient,
                    Control, server
<1>2. CASE Select
  <2>1. Readable \ {ListenFd} \subseteq Open
    BY DEF Readable, Open
  <2> QED
    BY <1>0, <1>2, <2>1 DEF Select, Descriptors, Open, AtClient, Control, server
<1>3. CASE Scan
  <2>1. tcp.ready # {} => Min(tcp.ready) \in tcp.ready
    BY <1>0, LeastDescriptor, BoundsAssumption DEF Control
  <2> QED
    BY <1>0, <1>3, <2>1 DEF Scan, Descriptors, Open, AtClient, Control, server
<1>4. CASE Accept
  <2>1. /\ tcp'.pc = "scan" /\ tcp'.ready = tcp.ready \ {ListenFd}
        /\ tcp.pc = "scan" /\ clients = Open
    BY <1>0, <1>4 DEF Accept, Control, Descriptors
  <2>2. clients' = Open' /\ Open \subseteq Open'
    BY <1>4, <2>1, AcceptOutcome
  <2> QED
    BY <1>0, <2>1, <2>2 DEF Descriptors, AtClient
<1>5. CASE Recv \/ Register \/ Enqueue
  <2>1. /\ tcp'.fd = tcp.fd /\ tcp'.ready = tcp.ready /\ AtClient
        /\ tcp'.pc \in {"recv", "register", "enqueue", "remove", "scan"}
        /\ tcp.pc # "close" /\ tcp.pc # "done"
    BY <1>0, <1>5 DEF Recv, Register, Enqueue, AtClient, Control
  <2>2. Open' = Open /\ clients' = clients
    BY <1>5 DEF Recv, Register, Enqueue, Open, server
  <2> QED
    BY <1>0, <2>1, <2>2 DEF Descriptors, AtClient
<1>6. CASE remove_client
  BY <1>0, <1>6 DEF remove_client, Descriptors, Open, AtClient, Control
<1>7. CASE CloseClient
  <2>1. tcp.fd \in Open \ tcp.ready
    BY <1>7, AtConn DEF CloseClient, AtClient
  <2>2. Open' = Open \ {tcp.fd}
    BY <1>0, <1>7, <2>1 DEF CloseClient, Open, Data
  <2> QED
    BY <1>0, <1>7, <2>1, <2>2 DEF CloseClient, Descriptors, AtClient, Control
<1>8. CASE CloseAll
  BY <1>0, <1>8 DEF CloseAll, Descriptors, Open, AtClient, Control
<1> QED
  BY <1>u, <1>1, <1>2, <1>3, <1>4, <1>5, <1>6, <1>7, <1>8, TcpAlone
     DEF TcpThread

\* Only clients, the network and recv() change what is under way.
LEMMA NetAlone ==
  ASSUME [Next]_vars
  PROVE  Network \/ Recv \/ UNCHANGED <<cl, wire, unread>>
<1>1. CASE UNCHANGED vars \/ Terminated
  BY <1>1 DEF vars, net, Terminated
<1>2. CASE Writer \/ SpuriousWakeup \/ Reader
  BY <1>2 DEF Writer, WriterLock, WriterPush, SpuriousWakeup, Reader, ReaderTest,
              ReaderPop, ReaderLookup, ReaderSend, net
<1>3. CASE Sigint \/ Stopping \/ Database
  BY <1>3 DEF Sigint, Stopping, Broadcast, ShutdownSocket, Join, Database,
              DatabaseReads, DatabaseAnswers, net
<1>4. CASE \/ TcpSetup \/ TcpLoop \/ Select \/ SelectError \/ Scan \/ Accept
           \/ Register \/ Enqueue \/ remove_client \/ CloseClient \/ CloseAll
  BY <1>4 DEF TcpSetup, TcpLoop, Select, SelectError, Scan, Accept, Register,
              Enqueue, remove_client, CloseClient, CloseAll, net
<1> QED
  BY <1>1, <1>2, <1>3, <1>4 DEF Next, TcpThread

\* receive_client_request() holds what it received so far, and nothing before
\* it is called.
LEMMA GotNext ==
  ASSUME IInv, [Next]_vars, ~Recv, NEW k \in Conns
  PROVE  Got(k) \in 0 .. Fragments /\ (Got(k)' = Got(k) \/ Got(k)' = 0)
<1>0. Control /\ Fragments \in Nat
  BY BoundsAssumption DEF IInv, Typed
<1>1. Got(k) \in 0 .. Fragments
  BY <1>0 DEF Got, Control
<1>2. CASE UNCHANGED <<tcp, fdConn, clients>>
  BY <1>1, <1>2 DEF Got
<1>3. CASE \/ TcpSetup \/ TcpLoop \/ Select \/ SelectError \/ Accept
           \/ Register \/ Enqueue \/ remove_client \/ CloseClient \/ CloseAll
  <2>1. tcp'.pc # "recv"
    BY <1>0, <1>3
       DEF TcpSetup, TcpLoop, Select, SelectError, Accept, Register, Enqueue,
           remove_client, CloseClient, CloseAll, Control
  <2> QED
    BY <1>1, <2>1 DEF Got
<1>4. CASE Scan
  <2>1. tcp'.pc # "recv" \/ tcp'.got = 0
    BY <1>0, <1>4 DEF Scan, Control
  <2> QED
    BY <1>1, <2>1 DEF Got
<1> QED
  BY <1>2, <1>3, <1>4, TcpAlone DEF TcpThread

\* No connection has more than one request under way or received.
LEMMA BudgetNext == IInv /\ [Next]_vars => Budget'
<1> SUFFICES ASSUME IInv, [Next]_vars, NEW j \in Conns
             PROVE  /\ wire'[j] + unread'[j] + Got(j)' <= Fragments
                    /\ cl'[j] \in {"none", "connected"} =>
                         wire'[j] = 0 /\ unread'[j] = 0 /\ Got(j)' = 0
  BY DEF Budget
<1>0. /\ Control /\ Data /\ Fragments \in Nat
      /\ wire[j] \in Nat /\ unread[j] \in Nat
      /\ wire[j] + unread[j] + Got(j) <= Fragments
      /\ cl[j] \in {"none", "connected"} =>
           wire[j] = 0 /\ unread[j] = 0 /\ Got(j) = 0
  BY BoundsAssumption DEF IInv, Typed, Data, Budget
<1>1. CASE Recv
  <2> DEFINE k == fdConn[tcp.fd]
  <2>1. k \in Conns /\ tcp.pc = "recv" /\ tcp.fd \in Fds
    BY <1>1, AtConn DEF Recv, AtClient
  <2>2. fdConn' = fdConn /\ wire' = wire /\ cl' = cl /\ tcp'.fd = tcp.fd
    BY <1>0, <1>1 DEF Recv, server, Control
  <2>3. CASE j # k
    <3>1. unread'[j] = unread[j] /\ Got(j) = 0 /\ Got(j)' = 0
      BY <1>0, <1>1, <2>1, <2>2, <2>3 DEF Recv, Got, Data
    <3> QED
      BY <1>0, <2>2, <3>1
  <2>4. CASE j = k
    <3>1. Got(j) = tcp.got /\ tcp.got \in Nat
      BY <1>0, <2>1, <2>4 DEF Got, Control
    <3>2. CASE unread[j] > 0
      <4>1. unread'[j] = 0 /\ tcp'.got = tcp.got + unread[j]
        <5> DEFINE pc == IF tcp.got + unread[j] = Fragments
                         THEN "register" ELSE "recv"
        <5>1. /\ unread' = [unread EXCEPT ![j] = 0]
              /\ tcp' = [tcp EXCEPT !.got = @ + unread[j], !.pc = pc]
          BY <1>0, <1>1, <2>4, <3>2 DEF Recv
        <5> HIDE DEF pc
        <5> QED
          BY <1>0, <5>1 DEF Data, Control
      <4>2. Got(j)' \in {0, tcp.got + unread[j]}
        BY <4>1 DEF Got
      <4>3. cl[j] \notin {"none", "connected"}
        BY <1>0, <3>2
      <4> QED
        BY <1>0, <2>2, <3>1, <4>1, <4>2, <4>3
    <3>3. CASE ~(unread[j] > 0)
      <4>1. unread'[j] = unread[j] /\ Got(j)' = 0
        BY <1>0, <1>1, <2>1, <2>4, <3>3 DEF Recv, Data, Control, Got
      <4> QED
        BY <1>0, <2>2, <3>1, <4>1
    <3> QED
      BY <3>2, <3>3
  <2> QED
    BY <2>3, <2>4
<1>2. CASE ~Recv
  <2>1. Got(j) \in Nat /\ (Got(j)' = Got(j) \/ Got(j)' = 0)
    BY <1>0, <1>2, GotNext
  <2>2. CASE UNCHANGED <<cl, wire, unread>>
    BY <1>0, <2>1, <2>2
  <2>3. ASSUME NEW k \in Conns,
               Connect(k) \/ Disconnect(k) \/ Abort(k)
        PROVE  /\ wire' = wire /\ unread' = unread
               /\ cl'[j] \in {"none", "connected"} =>
                    cl[j] \in {"none", "connected"}
    BY <1>0, <2>3 DEF Connect, Disconnect, Abort, Data
  <2>4. ASSUME NEW k \in Conns, SendRequest(k)
        PROVE  \/ wire'[j] = wire[j] /\ unread'[j] = unread[j] /\ cl'[j] = cl[j]
               \/ /\ wire'[j] = Fragments /\ unread'[j] = 0 /\ Got(j) = 0
                  /\ cl'[j] = "waiting"
    BY <1>0, <2>4 DEF SendRequest, Data
  <2>5. ASSUME NEW k \in Conns, Silence(k)
        PROVE  \/ wire'[j] = wire[j] /\ unread'[j] = unread[j] /\ cl'[j] = cl[j]
               \/ wire'[j] = 0 /\ unread'[j] = unread[j] /\ cl'[j] = "silent"
    BY <1>0, <2>5 DEF Silence, Data
  <2>6. ASSUME NEW k \in Conns, Arrive(k)
        PROVE  /\ cl'[j] = cl[j]
               /\ \/ wire'[j] = wire[j] /\ unread'[j] = unread[j]
                  \/ /\ wire[j] > 0 /\ wire'[j] = wire[j] - 1
                     /\ unread'[j] = unread[j] + 1
    BY <1>0, <2>6 DEF Arrive, Data
  <2>7. CASE Network
    BY <1>0, <2>1, <2>3, <2>4, <2>5, <2>6, <2>7 DEF Network
  <2> QED
    BY <1>2, <2>2, <2>7, NetAlone
<1> QED
  BY <1>1, <1>2

\* The effect of the queue operations on what is in a queue.
LEMMA ItemsMove ==
  /\ \A q \in Seq(Conns), e \in Conns : Items(Append(q, e)) = Items(q) \cup {e}
  /\ \A q \in Seq(Conns) : q # <<>> =>
       Head(q) \in Conns /\ Items(q) = Items(Tail(q)) \cup {Head(q)}
<1>1. \A q \in Seq(Conns), e \in Conns : Items(Append(q, e)) = Items(q) \cup {e}
  BY ItemsAppend
<1>2. \A q \in Seq(Conns) : q # <<>> =>
        Head(q) \in Conns /\ Items(q) = Items(Tail(q)) \cup {Head(q)}
  BY ItemsTail
<1> QED
  BY <1>1, <1>2

\* A request comes from an open connection and is only passed on afterwards.
LEMMA HeldNext ==
  ASSUME IInv, [Next]_vars
  PROVE  Held' \subseteq Held \cup {fdConn[fd] : fd \in Open}
<1>0. Control /\ Queues /\ InHand
  BY DEF IInv, Typed
<1>m. \A q \in Seq(Conns), e \in Conns : Items(Append(q, e)) = Items(q) \cup {e}
  BY ItemsMove
<1>t. \A q \in Seq(Conns) : q # <<>> =>
        Head(q) \in Conns /\ Items(q) = Items(Tail(q)) \cup {Head(q)}
  BY ItemsMove
<1>u. CASE UNCHANGED <<requests, toDb, dbQueue, toTcp, wr, rd>>
  BY <1>u DEF Held
<1>1. CASE UNCHANGED vars \/ Terminated \/ Network
  BY <1>u, <1>1 DEF vars, server, ipc, Terminated, Network, Connect, SendRequest,
                    Disconnect, Abort, Silence, Arrive
<1>2. CASE \/ TcpSetup \/ TcpLoop \/ Select \/ SelectError \/ Scan \/ Accept
           \/ Recv \/ Register \/ remove_client \/ CloseClient \/ CloseAll
  BY <1>u, <1>2 DEF TcpSetup, TcpLoop, Select, SelectError, Scan, Accept, Recv,
                    Register, remove_client, CloseClient, CloseAll, server, ipc
<1>3. CASE Sigint \/ ShutdownSocket \/ Join
  BY <1>u, <1>3 DEF Sigint, ShutdownSocket, Join, server, ipc
<1>4. CASE Enqueue
  <2>1. fdConn[tcp.fd] \in Conns /\ tcp.fd \in Open
    BY <1>4, AtConn DEF Enqueue, AtClient
  <2>2. Items(requests') = Items(requests) \cup {fdConn[tcp.fd]}
    BY <1>0, <1>4, <2>1, <1>m DEF Enqueue, Queues
  <2>3. wr'.msg = wr.msg
    BY <1>0, <1>4 DEF Enqueue, WakeWriter, Control
  <2> QED
    BY <1>4, <2>1, <2>2, <2>3 DEF Enqueue, Held, ipc
<1>5. CASE Broadcast \/ SpuriousWakeup
  <2>1. wr'.msg = wr.msg
    BY <1>0, <1>5 DEF Broadcast, SpuriousWakeup, WakeWriter, Control
  <2> QED
    BY <1>5, <2>1 DEF Broadcast, SpuriousWakeup, Held, server, ipc
<1>6. CASE WriterLock
  <2>1. CASE requests = <<>>
    <3>1. wr'.msg = wr.msg /\ requests' = requests
      BY <1>0, <1>6, <2>1 DEF WriterLock, Control
    <3> QED
      BY <1>6, <3>1 DEF WriterLock, Held, ipc
  <2>2. CASE requests # <<>>
    <3>1. /\ wr'.msg = Head(requests)
          /\ Items(requests) = Items(requests') \cup {Head(requests)}
      <4>1. wr'.msg = Head(requests) /\ requests' = Tail(requests)
        BY <1>6, <2>2 DEF WriterLock
      <4> QED
        BY <1>0, <2>2, <4>1, <1>t DEF Queues
    <3> QED
      BY <1>6, <3>1 DEF WriterLock, Held, ipc
  <2> QED
    BY <2>1, <2>2
<1>7. CASE WriterPush
  <2>1. wr.msg \in Conns /\ wr.msg # None
    BY <1>0, <1>7, NoneNotConn DEF WriterPush, InHand, Control
  <2>2. Items(toDb') \subseteq Items(toDb) \cup {wr.msg}
    <3>1. toDb' = Append(toDb, wr.msg) \/ toDb' = toDb
      BY <1>7 DEF WriterPush
    <3>2. Items(Append(toDb, wr.msg)) = Items(toDb) \cup {wr.msg}
      BY <1>0, <2>1, <1>m DEF Queues
    <3> QED
      BY <3>1, <3>2
  <2>3. wr'.msg = None
    BY <1>7 DEF WriterPush
  <2> QED
    BY <1>7, <2>1, <2>2, <2>3 DEF WriterPush, Held, server
<1>8. CASE ReaderPop
  <2>1. CASE toTcp = <<>>
    <3>1. rd'.msg = rd.msg /\ toTcp' = toTcp
      BY <1>0, <1>8, <2>1 DEF ReaderPop, Control
    <3> QED
      BY <1>8, <3>1 DEF ReaderPop, Held, server
  <2>2. CASE toTcp # <<>>
    <3>1. /\ rd'.msg = Head(toTcp)
          /\ Items(toTcp) = Items(toTcp') \cup {Head(toTcp)}
      BY <1>0, <1>8, <2>2, <1>t DEF ReaderPop, Queues, Control
    <3> QED
      BY <1>8, <3>1 DEF ReaderPop, Held, server
  <2> QED
    BY <2>1, <2>2
<1>9. CASE ReaderLookup \/ ReaderSend \/ ReaderTest
  <2>1. rd'.msg \in {rd.msg, None}
    BY <1>0, <1>9 DEF ReaderLookup, ReaderSend, ReaderTest, Control
  <2> QED
    BY <1>9, <2>1 DEF ReaderLookup, ReaderSend, ReaderTest, Held, server, ipc
<1>10. CASE DatabaseReads
  <2>1. /\ Items(toDb) = Items(toDb') \cup {Head(toDb)} /\ Head(toDb) \in Conns
    BY <1>0, <1>10, <1>t DEF DatabaseReads, Queues
  <2>2. Items(dbQueue') = Items(dbQueue) \cup {Head(toDb)}
    BY <1>0, <1>10, <2>1, <1>m DEF DatabaseReads, Queues
  <2> QED
    BY <1>10, <2>1, <2>2 DEF DatabaseReads, Held, server
<1>11. CASE DatabaseAnswers
  <2>1. /\ Items(dbQueue) = Items(dbQueue') \cup {Head(dbQueue)}
        /\ Head(dbQueue) \in Conns
    BY <1>0, <1>11, <1>t DEF DatabaseAnswers, Queues
  <2>2. Items(toTcp') \subseteq Items(toTcp) \cup {Head(dbQueue)}
    BY <1>0, <1>11, <2>1, <1>m DEF DatabaseAnswers, Queues
  <2> QED
    BY <1>11, <2>1, <2>2 DEF DatabaseAnswers, Held, server
<1> QED
  BY <1>1, <1>2, <1>3, <1>4, <1>5, <1>6, <1>7, <1>8, <1>9, <1>10, <1>11
     DEF Next, TcpThread, Writer, Reader, Stopping, Database

\* Connections come up by connect() and accept() and go down when the server
\* closes them; nothing else changes which are where.
LEMMA LinkAlone ==
  ASSUME [Next]_vars
  PROVE  \/ \E k \in Conns : Connect(k)
         \/ Accept \/ CloseClient \/ CloseAll \/ ShutdownSocket
         \/ UNCHANGED <<link, backlog, fdConn, sock>>
         \/ TcpSetup /\ UNCHANGED <<link, backlog, fdConn>>
<1>1. CASE UNCHANGED vars \/ Terminated
  BY <1>1 DEF vars, server, net, Terminated
<1>2. CASE Network
  BY <1>2 DEF Network, SendRequest, Disconnect, Abort, Silence, Arrive, server
<1>3. CASE Writer \/ SpuriousWakeup \/ Reader
  BY <1>3 DEF Writer, WriterLock, WriterPush, SpuriousWakeup, Reader, ReaderTest,
              ReaderPop, ReaderLookup, ReaderSend, server, net
<1>4. CASE Sigint \/ Broadcast \/ Join \/ Database
  BY <1>4 DEF Sigint, Broadcast, Join, Database, DatabaseReads,
              DatabaseAnswers, server, net
<1>5. CASE \/ TcpSetup \/ TcpLoop \/ Select \/ SelectError \/ Scan \/ Recv
           \/ Register \/ Enqueue \/ remove_client
  BY <1>5 DEF TcpSetup, TcpLoop, Select, SelectError, Scan, Recv, Register,
              Enqueue, remove_client, server, net
<1> QED
  BY <1>1, <1>2, <1>3, <1>4, <1>5 DEF Next, TcpThread, Stopping

\* A client that has connected once never becomes unknown again, and only
\* connect() makes it known.
LEMMA ClientNext ==
  ASSUME IInv, [Next]_vars, NEW j \in Conns
  PROVE  \/ Connect(j) /\ cl[j] = "none" /\ cl'[j] = "connected"
         \/ cl'[j] = "none" <=> cl[j] = "none"
<1>0. Data
  BY DEF IInv, Typed
<1>1. CASE UNCHANGED <<cl, wire, unread>>
  BY <1>1
<1>2. CASE Recv
  BY <1>2 DEF Recv
<1>3. CASE Network
  BY <1>0, <1>3 DEF Network, Connect, SendRequest, Disconnect, Abort, Silence,
                    Arrive, Data
<1> QED
  BY <1>1, <1>2, <1>3, NetAlone

\* Queues and hands hold connections only.
LEMMA HeldConns ==
  ASSUME Typed
  PROVE  Held \subseteq Conns /\ Items(backlog) \subseteq Conns
<1>1. \A q \in Seq(Conns) : Items(q) \subseteq Conns
  BY ElementOfSeq DEF Items
<1> QED
  BY <1>1 DEF Typed, Control, Queues, Held

\* Each connection stays in one state, with one descriptor at most.
LEMMA LinksNext == IInv /\ [Next]_vars => Links'
<1> SUFFICES ASSUME IInv, [Next]_vars
             PROVE  Links'
  OBVIOUS
<1>0. Links /\ Data /\ Queues
  BY DEF IInv, Typed
<1>o. \A fd \in Open : fdConn[fd] \in Conns /\ link[fdConn[fd]] = "up"
  BY <1>0 DEF Open, Data, Links
<1>h. \A k \in Held' : k \in Conns /\ link[k] # "none"
  BY <1>0, <1>o, HeldNext, HeldConns DEF Links, IInv
<1>b. \A k \in Items(backlog) : k \in Conns /\ link[k] = "backlog"
  BY <1>0, HeldConns DEF IInv, Links
<1>1. ASSUME NEW k \in Conns, Connect(k)
      PROVE  Links'
  <2>1. /\ link' = [link EXCEPT ![k] = "backlog"] /\ link[k] = "none"
        /\ cl' = [cl EXCEPT ![k] = "connected"]
        /\ backlog' = Append(backlog, k) /\ fdConn' = fdConn
    BY <1>0, <1>1 DEF Connect, Links
  <2>2. k \notin Items(backlog)
    BY <1>0, <2>1 DEF Links
  <2>3. Items(backlog') = Items(backlog) \cup {k} /\ Distinct(backlog')
    BY <1>0, <2>1, <2>2, ItemsAppend DEF Queues, Links
  <2>4. Open' = Open
    BY <2>1 DEF Open
  <2> QED
    BY <1>0, <1>o, <1>h, <1>b, <2>1, <2>3, <2>4 DEF Links, Data
<1>q. ASSUME ~\E k \in Conns : Connect(k)
      PROVE  \A j \in Conns : cl'[j] = "none" <=> cl[j] = "none"
  BY <1>q, ClientNext
<1>2. CASE Accept
  <2>0. cl' = cl
    BY <1>2 DEF Accept
  <2>1. CASE UNCHANGED <<fdConn, clients, link, backlog>> /\ Open' = Open
    BY <1>0, <1>h, <2>0, <2>1 DEF Links
  <2> DEFINE k == Head(backlog)
  <2>2. ASSUME backlog # <<>>, backlog' = Tail(backlog)
        PROVE  /\ k \in Conns /\ link[k] = "backlog"
               /\ Items(backlog') \subseteq Items(backlog) \ {k}
               /\ Distinct(backlog')
    BY <1>0, <1>b, <2>2, ItemsTail DEF Links, Queues
  <2> HIDE DEF k
  <2>3. CASE /\ backlog # <<>> /\ backlog' = Tail(backlog)
             /\ UNCHANGED <<fdConn, clients>> /\ Open' = Open
             /\ link' = [link EXCEPT ![k] = "down"]
    BY <1>0, <1>o, <1>h, <1>b, <2>0, <2>2, <2>3 DEF Links, Data
  <2>4. ASSUME backlog # <<>>, backlog' = Tail(backlog),
               NEW fd \in Fds \ Open, Open' = Open \cup {fd},
               fdConn' = [fdConn EXCEPT ![fd] = k],
               link' = [link EXCEPT ![k] = "up"]
        PROVE  Links'
    <3>1. \A d \in Open : fdConn'[d] = fdConn[d] /\ fdConn[d] # k
      BY <1>0, <1>o, <2>2, <2>4 DEF Data, Open
    <3>2. fdConn'[fd] = k
      BY <1>0, <2>4 DEF Data
    <3> QED
      BY <1>0, <1>o, <1>h, <1>b, <2>0, <2>2, <2>4, <3>1, <3>2 DEF Links, Data
  <2> QED
    BY <1>2, <2>1, <2>3, <2>4, AcceptOutcome DEF k
<1>3. CASE CloseClient
  <2> DEFINE k == fdConn[tcp.fd]
  <2>1. tcp.fd \in Open /\ tcp.fd \in Fds /\ k \in Conns
    BY <1>3, AtConn DEF CloseClient, AtClient
  <2>2. /\ link' = [link EXCEPT ![k] = "down"] /\ cl' = cl
        /\ backlog' = backlog
        /\ fdConn' = [fdConn EXCEPT ![tcp.fd] = None]
    BY <1>3 DEF CloseClient
  <2>3. Open' = Open \ {tcp.fd} /\ \A fd \in Open' : fdConn'[fd] = fdConn[fd]
    BY <1>0, <2>1, <2>2 DEF Open, Data
  <2>4. link[k] = "up" /\ \A fd \in Open' : fdConn[fd] # k
    BY <1>0, <1>o, <2>1, <2>3 DEF Links
  <2> HIDE DEF k
  <2> QED
    BY <1>0, <1>o, <1>h, <1>b, <2>1, <2>2, <2>3, <2>4 DEF Links, Data
<1>4. CASE CloseAll
  <2>1. /\ Open' = {} /\ Items(backlog') = {} /\ Distinct(backlog') /\ cl' = cl
    BY <1>4, ItemsEmpty DEF CloseAll, Open
  <2>2. \A k \in Conns : link'[k] = "none" <=> link[k] = "none"
    BY <1>0, <1>4 DEF CloseAll, Hangup, Data
  <2> QED
    BY <1>0, <1>h, <2>1, <2>2 DEF Links
<1>5. CASE ShutdownSocket
  <2>1. fdConn' = fdConn /\ Open' = Open /\ cl' = cl
    BY <1>5 DEF ShutdownSocket, Open
  <2>2. CASE sock # "listening"
    BY <1>0, <1>5, <1>h, <2>1, <2>2 DEF ShutdownSocket, Links
  <2>3. CASE sock = "listening"
    <3>1. Items(backlog') = {} /\ Distinct(backlog')
      BY <1>5, <2>3, ItemsEmpty DEF ShutdownSocket
    <3>2. \A k \in Conns : /\ link'[k] = "none" <=> link[k] = "none"
                           /\ link[k] = "up" => link'[k] = "up"
      BY <1>0, <1>5, <2>3 DEF ShutdownSocket, Data
    <3> QED
      BY <1>0, <1>o, <1>h, <2>1, <3>1, <3>2 DEF Links
  <2> QED
    BY <2>2, <2>3
<1>6. CASE /\ UNCHANGED <<link, backlog, fdConn>>
           /\ ~\E k \in Conns : Connect(k)
  <2>1. Open' = Open
    BY <1>6 DEF Open
  <2> QED
    BY <1>0, <1>h, <1>q, <1>6, <2>1 DEF Links
<1> QED
  BY <1>1, <1>2, <1>3, <1>4, <1>5, <1>6, LinkAlone

\* Nobody gets in before listen() or after the tcp thread is done.
LEMMA StoppedNext == IInv /\ [Next]_vars => Stopped'
<1> SUFFICES ASSUME IInv, [Next]_vars
             PROVE  Stopped'
  OBVIOUS
<1>0. Stopped /\ Data /\ Control /\ Queues /\ Links
  BY DEF IInv, Typed
<1>n. sock = "none" => Open = {}
  BY <1>0 DEF Stopped, Links, Open, Data
<1>1. CASE \E k \in Conns : Connect(k)
  BY <1>0, <1>1 DEF Connect, Stopped
<1>2. CASE Accept
  <2>1. tcp'.pc = "scan" /\ sock' = sock
    BY <1>0, <1>2 DEF Accept, Control
  <2>2. sock = "none" => UNCHANGED <<link, backlog>>
    BY <1>0, <1>2 DEF Accept, Stopped
  <2> QED
    BY <1>0, <2>1, <2>2 DEF Stopped
<1>3. CASE CloseClient
  <2>1. tcp'.pc = "scan" /\ sock' = sock
    BY <1>0, <1>3 DEF CloseClient, Control
  <2>2. Open # {}
    BY <1>3, AtConn DEF CloseClient, AtClient
  <2> QED
    BY <1>n, <2>1, <2>2 DEF Stopped
<1>4. CASE CloseAll
  <2>1. tcp'.pc = "done" /\ sock' = "closed" /\ Open' = {}
    BY <1>0, <1>4 DEF CloseAll, Control, Open
  <2>2. \A k \in Conns : link'[k] \in {"none", "down"}
    BY <1>4 DEF CloseAll, Hangup
  <2> QED
    BY <2>1, <2>2 DEF Stopped
<1>5. CASE ShutdownSocket
  <2>1. tcp' = tcp /\ Open' = Open
    BY <1>5 DEF ShutdownSocket, Open
  <2>2. \/ UNCHANGED <<sock, link, backlog>>
        \/ sock = "listening" /\ sock' = "shut"
    BY <1>5 DEF ShutdownSocket
  <2> QED
    BY <1>0, <2>1, <2>2 DEF Stopped
<1>6. CASE TcpSetup /\ UNCHANGED <<link, backlog, fdConn>>
  <2>1. Open' = Open /\ tcp.pc = "setup"
    BY <1>6 DEF Open, TcpSetup
  <2>2. \/ sock' = "listening" /\ tcp'.pc = "loop"
        \/ sock' = sock /\ tcp'.pc = "done"
    BY <1>0, <1>6 DEF TcpSetup, Control
  <2> QED
    BY <1>0, <1>n, <1>6, <2>1, <2>2 DEF Stopped
<1>7. CASE /\ UNCHANGED <<link, backlog, fdConn, sock>>
           /\ ~TcpSetup /\ ~CloseAll
  <2>1. Open' = Open
    BY <1>7 DEF Open
  <2>2. /\ tcp'.pc = "setup" => tcp.pc = "setup"
        /\ tcp'.pc = "done" => tcp.pc = "done"
    BY <1>0, <1>7, TcpAlone
       DEF TcpThread, TcpLoop, Select, SelectError, Scan, Accept, Recv,
           Register, Enqueue, remove_client, CloseClient, Control
  <2> QED
    BY <1>0, <1>7, <2>1, <2>2 DEF Stopped
<1> QED
  BY <1>1, <1>2, <1>3, <1>4, <1>5, <1>6, <1>7, LinkAlone

\* The tcp thread stays ended.
LEMMA JoinedNext == IInv /\ [Next]_vars => Joined'
<1> SUFFICES ASSUME IInv, [Next]_vars
             PROVE  Joined'
  OBVIOUS
<1>0. Joined /\ Control
  BY DEF IInv, Typed
<1>1. CASE Join
  BY <1>1 DEF Join, Joined
<1>2. CASE ~Join
  <2>1. main' = "done" => main = "done"
    <3>1. CASE UNCHANGED vars \/ Terminated
      BY <3>1 DEF vars, Terminated
    <3>2. CASE Network
      BY <3>2 DEF Network, Connect, SendRequest, Disconnect, Abort, Silence,
                  Arrive
    <3>3. CASE TcpThread \/ SelectError
      BY <3>3 DEF TcpThread, TcpSetup, TcpLoop, Select, SelectError, Scan,
                  Accept, Recv, Register, Enqueue, remove_client, CloseClient,
                  CloseAll
    <3>4. CASE Writer \/ SpuriousWakeup \/ Reader \/ Database
      BY <3>4 DEF Writer, WriterLock, WriterPush, SpuriousWakeup, Reader,
                  ReaderTest, ReaderPop, ReaderLookup, ReaderSend, Database, DatabaseReads,
                  DatabaseAnswers
    <3>5. CASE Sigint \/ Broadcast \/ ShutdownSocket
      BY <3>5 DEF Sigint, Broadcast, ShutdownSocket
    <3> QED
      BY <1>2, <3>1, <3>2, <3>3, <3>4, <3>5 DEF Next, Stopping
  <2>2. tcp.pc = "done" => tcp' = tcp
    BY TcpAlone DEF TcpThread, TcpSetup, TcpLoop, Select, SelectError, Scan,
                    Accept, Recv, Register, Enqueue, remove_client, CloseClient,
                    CloseAll
  <2> QED
    BY <1>0, <2>1, <2>2 DEF Joined
<1> QED
  BY <1>1, <1>2

-----------------------------------------------------------------------------
(* The theorems.                                                           *)

\* The invariant holds when the process starts.
LEMMA IInvInit == Init => IInv
<1> SUFFICES ASSUME Init
             PROVE  IInv
  OBVIOUS
<1> USE BoundsAssumption DEF Init
<1>1. Control
  BY DEF Control, ListenFd
<1>2. Data
  BY DEF Data, Absent
<1>3. Queues
  BY DEF Queues
<1>4. InHand /\ Open = {}
  BY DEF InHand, Open
<1>5. Descriptors
  BY <1>4 DEF Descriptors, AtClient
<1>6. Budget
  BY DEF Budget, Got
<1>7. Held = {} /\ Items(backlog) = {} /\ Distinct(backlog)
  BY ItemsEmpty DEF Held
<1>8. Links
  BY <1>4, <1>7 DEF Links
<1>9. Stopped
  BY DEF Stopped
<1>10. Joined
  BY DEF Joined
<1> QED
  BY <1>1, <1>2, <1>3, <1>4, <1>5, <1>6, <1>8, <1>9, <1>10 DEF IInv, Typed

\* Every step preserves the invariant.
LEMMA IInvNext == IInv /\ [Next]_vars => IInv'
BY ControlNext, DataNext, QueuesNext, InHandNext, DescriptorsNext, BudgetNext,
   LinksNext, StoppedNext, JoinedNext DEF IInv, Typed

\* The inductive invariant holds in every reachable state.
THEOREM Invariance == Spec => []IInv
BY IInvInit, IInvNext, PTL DEF Spec

\* Types, in particular: the threads only use descriptors that select() can
\* watch, a request never takes more than its size (tcp.got), and neither IPC
\* queue exceeds its capacity.
THEOREM TypeCorrect == Spec => []TypeOK
<1>1. IInv => TypeOK
  BY DEF IInv, Typed, Control, Data, Queues, TypeOK
<1> QED
  BY <1>1, Invariance, PTL

\* clients_ lists exactly the open client sockets whenever the tcp thread is
\* not between remove_client() and close(), so add_client() never refuses a
\* descriptor that the kernel has given out again.
THEOREM ClientsExact == Spec => []ClientsMatchSockets
<1>1. IInv => ClientsMatchSockets
  BY DEF IInv, Descriptors, ClientsMatchSockets, Open
<1> QED
  BY <1>1, Invariance, PTL

\* When run() returns, whoever still waits or left a request in some queue has
\* been disconnected, whenever SIGINT came and however the writer ended first.
THEOREM HungUp == Spec => []LeftBehindIsHungUp
<1>1. ASSUME IInv, main = "done", NEW k \in Conns,
             k \in InFlight \/ cl[k] = "waiting"
      PROVE  link[k] = "down"
  <2>1. tcp.pc = "done"
    BY <1>1 DEF IInv, Joined
  <2>2. k \in InFlight => k \in Held
    <3>1. \A q : (\E i \in 1 .. Len(q) : q[i] = k) => k \in Items(q)
      BY DEF Items
    <3> QED
      BY <2>1, <3>1, NoneNotConn DEF InFlight, Held
  <2>3. link[k] # "none"
    BY <1>1, <2>2 DEF IInv, Links
  <2> QED
    BY <1>1, <2>1, <2>3 DEF IInv, Stopped
<1>2. IInv => LeftBehindIsHungUp
  BY <1>1 DEF LeftBehindIsHungUp
<1> QED
  BY <1>2, Invariance, PTL

\* What the writer, the reader and the Database they assume do with the two IPC
\* queues is what DatabaseService allows: WriterPush submits, ReaderPop
\* collects, and every other step of TcpServer leaves them alone.
THEOREM Service == Spec => UsesService
<1>1. Init => DS!Init
  BY DEF Init, DS!Init
<1>2. ASSUME IInv, [Next]_vars
      PROVE  [DS!Next]_DS!dvars
  <2> USE DEF DS!dvars
  <2>1. CASE WriterPush
    <3>1. wr.msg \in Conns
      BY <1>2, <2>1 DEF WriterPush, IInv, Typed, Control, InHand
    <3>2. DS!Submit(wr.msg) \/ UNCHANGED <<toDb, dbQueue, toTcp>>
      BY <2>1 DEF WriterPush, DS!Submit
    <3> QED
      BY <3>1, <3>2 DEF DS!Next
  <2>2. CASE ReaderPop
    BY <2>2 DEF ReaderPop, DS!Next, DS!Collect
  <2>3. CASE DatabaseReads
    BY <2>3 DEF DatabaseReads, DS!Next, DS!Read
  <2>4. CASE DatabaseAnswers
    BY <2>4 DEF DatabaseAnswers, DS!Next, DS!Answer
  <2>5. CASE UNCHANGED vars \/ Terminated \/ Network
    BY <2>5 DEF vars, ipc, Terminated, Network, Connect, SendRequest, Disconnect,
                Abort, Silence, Arrive
  <2>6. CASE TcpThread \/ SelectError
    BY <2>6 DEF TcpThread, TcpSetup, TcpLoop, Select, SelectError, Scan, Accept,
                Recv, Register, Enqueue, remove_client, CloseClient, CloseAll, ipc
  <2>7. CASE WriterLock \/ SpuriousWakeup \/ ReaderTest \/ ReaderLookup
           \/ ReaderSend
    BY <2>7 DEF WriterLock, SpuriousWakeup, ReaderTest, ReaderLookup, ReaderSend,
                ipc
  <2>8. CASE Sigint \/ Stopping
    BY <2>8 DEF Sigint, Stopping, Broadcast, ShutdownSocket, Join, ipc
  <2> QED
    BY <1>2, <2>1, <2>2, <2>3, <2>4, <2>5, <2>6, <2>7, <2>8
       DEF Next, Writer, Reader, Database
<1>3. IInv /\ [Next]_vars => [DS!Next]_DS!dvars
  BY <1>2
<1> QED
  BY <1>1, <1>3, Invariance, PTL DEF Spec, UsesService, DS!Spec

=============================================================================
