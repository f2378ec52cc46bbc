-------------------------- MODULE TcpServerRouting --------------------------
(***************************************************************************)
(* Which client gets a response.  pending_requests_ stays exact, a stray   *)
(* response takes an asker that left, and with clients that wait there is  *)
(* none: for every number of clients, requests and descriptors, provided   *)
(* that no two connections use the same request id.                        *)
(***************************************************************************)
EXTENDS TcpServerProofs

\* What BbgClient does not guarantee (every process counts from 1) and the
\* server relies on.
IdsUnique == \A j, k \in Conns : IdOf[j] = IdOf[k] => j = k

-----------------------------------------------------------------------------
(* The inductive invariant.                                                *)

\* Where a registered request, or its response, can be.
Places == {"enqueue", "requests", "wr", "toDb", "dbQueue", "toTcp", "rd"}

Place ==
  [p \in Places |->
     CASE p = "enqueue" -> {k \in Conns : /\ tcp.pc = "enqueue"
                                          /\ fdConn[tcp.fd] = k}
       [] p = "requests" -> Items(requests)
       [] p = "wr" -> {wr.msg} \ {None}
       [] p = "toDb" -> Items(toDb)
       [] p = "dbQueue" -> Items(dbQueue)
       [] p = "toTcp" -> Items(toTcp)
       [] p = "rd" -> {rd.msg} \ {None}]

UnderWay == {k \in Conns : \E p \in Places : k \in Place[p]}

\* Responses some client has received.
Answered == {o \in Conns : \E k \in Conns : o \in delivered[k]}

Apart(P) == \A p, q \in Places : p # q => P[p] \cap P[q] = {}

\* A request is in one place and there once.
OnePlace ==
  /\ Apart(Place)
  /\ Distinct(requests) /\ Distinct(toDb) /\ Distinct(dbQueue) /\ Distinct(toTcp)

\* The one request of the connection has been received completely.
Spent(k) == /\ cl[k] \notin {"none", "connected"}
            /\ wire[k] = 0 /\ unread[k] = 0 /\ Got(k) = 0

\* A request is registered once and answered once.
Once ==
  /\ OnePlace
  /\ \A k \in UnderWay \cup Answered : Spent(k)
  /\ UnderWay \cap Answered = {}
  /\ tcp.pc = "register" => /\ Spent(fdConn[tcp.fd])
                            /\ fdConn[tcp.fd] \notin UnderWay \cup Answered

-----------------------------------------------------------------------------
(* Moving requests from place to place.                                    *)

\* What is in each place.
LEMMA PlaceIs ==
  /\ Place["enqueue"] = {k \in Conns : tcp.pc = "enqueue" /\ fdConn[tcp.fd] = k}
  /\ Place["requests"] = Items(requests)
  /\ Place["wr"] = {wr.msg} \ {None}
  /\ Place["toDb"] = Items(toDb)
  /\ Place["dbQueue"] = Items(dbQueue)
  /\ Place["toTcp"] = Items(toTcp)
  /\ Place["rd"] = {rd.msg} \ {None}
  /\ Place = [p \in Places |-> Place[p]]
BY DEF Place, Places

\* The same after a step.
LEMMA PlaceIsNext ==
  /\ Place'["enqueue"] = {k \in Conns : tcp'.pc = "enqueue" /\ fdConn'[tcp'.fd] = k}
  /\ Place'["requests"] = Items(requests')
  /\ Place'["wr"] = {wr'.msg} \ {None}
  /\ Place'["toDb"] = Items(toDb')
  /\ Place'["dbQueue"] = Items(dbQueue')
  /\ Place'["toTcp"] = Items(toTcp')
  /\ Place'["rd"] = {rd'.msg} \ {None}
  /\ Place' = [p \in Places |-> Place'[p]]
BY DEF Place, Places

\* One request leaves one place for another.
Moves(P, Q, a, b, x) ==
  /\ a # b /\ x \in P[a] /\ Q[a] = P[a] \ {x} /\ Q[b] = P[b] \cup {x}
  /\ \A p \in Places \ {a, b} : Q[p] = P[p]

\* One request leaves its place and goes nowhere.
Drops(P, Q, a, x) ==
  /\ x \in P[a] /\ Q[a] = P[a] \ {x}
  /\ \A p \in Places \ {a} : Q[p] = P[p]

\* Moving keeps places apart.
LEMMA MoveApart ==
  ASSUME NEW P, NEW Q, Apart(P), NEW a \in Places, NEW b \in Places, NEW x,
         Moves(P, Q, a, b, x)
  PROVE  Apart(Q)
BY DEF Moves, Apart

\* So does dropping.
LEMMA DropApart ==
  ASSUME NEW P, NEW Q, Apart(P), NEW a \in Places, NEW x, Drops(P, Q, a, x)
  PROVE  Apart(Q)
BY DEF Drops, Apart

\* Taking from a queue of distinct elements, adding a new one.
LEMMA QueueMove ==
  /\ \A q \in Seq(Conns), e \in Conns :
       /\ Items(Append(q, e)) = Items(q) \cup {e}
       /\ Distinct(q) /\ e \notin Items(q) => Distinct(Append(q, e))
  /\ \A q \in Seq(Conns) : q # <<>> /\ Distinct(q) =>
       /\ Head(q) \in Conns /\ Head(q) \in Items(q)
       /\ Items(Tail(q)) = Items(q) \ {Head(q)} /\ Distinct(Tail(q))
<1>1. \A q \in Seq(Conns), e \in Conns :
       /\ Items(Append(q, e)) = Items(q) \cup {e}
       /\ Distinct(q) /\ e \notin Items(q) => Distinct(Append(q, e))
  BY ItemsAppend
<1>2. ASSUME NEW q \in Seq(Conns), q # <<>>, Distinct(q)
      PROVE  /\ Head(q) \in Conns /\ Head(q) \in Items(q)
             /\ Items(Tail(q)) = Items(q) \ {Head(q)} /\ Distinct(Tail(q))
  BY <1>2, ItemsTail
<1> QED
  BY <1>1, <1>2

-----------------------------------------------------------------------------
(* Every step moves at most one request.                                   *)

\* The steps that handle a request or a response.
Carries ==
  \/ Register \/ Enqueue \/ WriterLock \/ WriterPush \/ DatabaseReads
  \/ DatabaseAnswers \/ ReaderPop \/ ReaderLookup \/ ReaderSend

\* The steps that are not among these leave every request where it is.
LEMMA CarryAlone ==
  ASSUME IInv, [Next]_vars, ~Carries
  PROVE  /\ UNCHANGED <<requests, toDb, dbQueue, toTcp>>
         /\ wr'.msg = wr.msg /\ rd'.msg = rd.msg
<1>0. Control
  BY DEF IInv, Typed
<1>1. CASE UNCHANGED vars \/ Terminated \/ Network
  BY <1>1 DEF vars, server, ipc, Terminated, Network, Connect, SendRequest,
              Disconnect, Abort, Silence, Arrive
<1>2. CASE TcpThread \/ SelectError
  BY <1>2 DEF Carries, TcpThread, TcpSetup, TcpLoop, Select, SelectError, Scan,
              Accept, Recv, remove_client, CloseClient, CloseAll, server, ipc
<1>3. CASE SpuriousWakeup \/ Sigint \/ Stopping
  BY <1>0, <1>3 DEF SpuriousWakeup, Sigint, Stopping, Broadcast, ShutdownSocket,
              Join, WakeWriter, Control, server, ipc
<1>4. CASE ReaderTest
  BY <1>0, <1>4 DEF ReaderTest, Control, server, ipc
<1> QED
  BY <1>1, <1>2, <1>3, <1>4 DEF Next, Carries, Writer, Reader, Database

\* Between Register and Enqueue the tcp thread keeps the request, and there is
\* none before or after.
LEMMA EnqueueAlone ==
  ASSUME IInv, [Next]_vars, ~Register, ~Enqueue
  PROVE  Place'["enqueue"] = Place["enqueue"]
<1>0. Control
  BY DEF IInv, Typed
<1>1. CASE UNCHANGED <<tcp, fdConn, clients>>
  BY <1>1, PlaceIs, PlaceIsNext
<1>2. CASE TcpThread \/ SelectError
  <2>1. tcp.pc # "enqueue" /\ tcp'.pc # "enqueue"
    BY <1>0, <1>2
       DEF TcpThread, TcpSetup, TcpLoop, Select, SelectError, Scan, Accept, Recv,
           remove_client, CloseClient, CloseAll, Control
  <2> QED
    BY <2>1, PlaceIs, PlaceIsNext
<1> QED
  BY <1>1, <1>2, TcpAlone

\* One request appears in a place.
Adds(P, Q, a, x) ==
  Q[a] = P[a] \cup {x} /\ \A p \in Places \ {a} : Q[p] = P[p]

\* A request is taken on when it is registered.
LEMMA RegisterAdds ==
  ASSUME IInv, Register
  PROVE  /\ fdConn[tcp.fd] \in Conns
         /\ Adds(Place, Place', "enqueue", fdConn[tcp.fd])
<1>1. /\ fdConn[tcp.fd] \in Conns /\ tcp.pc = "register"
      /\ tcp'.pc = "enqueue" /\ tcp'.fd = tcp.fd /\ fdConn' = fdConn
      /\ UNCHANGED <<requests, toDb, dbQueue, toTcp, wr, rd>>
  BY AtConn DEF Register, AtClient, IInv, Typed, Control, ipc
<1>2. Place'["enqueue"] = Place["enqueue"] \cup {fdConn[tcp.fd]}
  BY <1>1, PlaceIs, PlaceIsNext
<1> QED
  BY <1>1, <1>2, PlaceIs, PlaceIsNext DEF Adds, Places

\* A response that is sent, or has no client, is gone.
LEMMA ReaderDrops ==
  ASSUME IInv, ReaderSend \/ (ReaderLookup /\ pending[IdOf[rd.msg]] = Absent)
  PROVE  Drops(Place, Place', "rd", rd.msg)
<1>0. Control
  BY DEF IInv, Typed
<1>1. UNCHANGED <<requests, toDb, dbQueue, toTcp, wr>> /\ rd.msg \in Conns
  BY LookupConn DEF ReaderLookup, ReaderSend, server, ipc
<1>2. Place'["enqueue"] = Place["enqueue"]
  BY PlaceIs, PlaceIsNext DEF ReaderLookup, ReaderSend, server
<1>3. rd'.msg = None
  BY <1>0 DEF ReaderLookup, ReaderSend, Control
<1> QED
  BY <1>1, <1>2, <1>3, NoneNotConn, PlaceIs, PlaceIsNext DEF Drops, Places

\* A step leaves every request, takes one on, moves one or gives one up.
LEMMA PlacesNext ==
  ASSUME IInv, OnePlace, [Next]_vars,
         Register => fdConn[tcp.fd] \notin UnderWay
  PROVE  /\ \/ \A p \in Places : Place'[p] = Place[p]
            \/ Register /\ Adds(Place, Place', "enqueue", fdConn[tcp.fd])
            \/ \E a, b \in Places, x \in Conns : Moves(Place, Place', a, b, x)
            \/ \E a \in Places, x \in lost' : Drops(Place, Place', a, x)
            \/ /\ ReaderSend \/ (ReaderLookup /\ pending[IdOf[rd.msg]] = Absent)
               /\ Drops(Place, Place', "rd", rd.msg)
         /\ (Distinct(requests) /\ Distinct(toDb) /\ Distinct(dbQueue)
             /\ Distinct(toTcp))'
<1>0. Control /\ Queues /\ InHand /\ Data
  BY DEF IInv, Typed
<1>d. /\ Distinct(requests) /\ Distinct(toDb) /\ Distinct(dbQueue)
      /\ Distinct(toTcp)
  BY DEF OnePlace
<1>s. /\ requests \in Seq(Conns) /\ toDb \in Seq(Conns) /\ dbQueue \in Seq(Conns)
      /\ toTcp \in Seq(Conns)
  BY <1>0 DEF Queues
<1>a. \A q \in Seq(Conns), e \in Conns :
        /\ Items(Append(q, e)) = Items(q) \cup {e}
        /\ Distinct(q) /\ e \notin Items(q) => Distinct(Append(q, e))
  BY QueueMove
<1>t. \A q \in Seq(Conns) : q # <<>> /\ Distinct(q) =>
        /\ Head(q) \in Conns /\ Head(q) \in Items(q)
        /\ Items(Tail(q)) = Items(q) \ {Head(q)} /\ Distinct(Tail(q))
  BY QueueMove
<1>p. \A x, p, q : p \in Places /\ q \in Places /\ p # q /\ x \in Place[p]
                     => x \notin Place[q]
  BY DEF OnePlace, Apart
<1>n. None \notin Conns
  BY NoneNotConn
<1>1. CASE ~Carries
  <2>1. /\ UNCHANGED <<requests, toDb, dbQueue, toTcp>>
        /\ wr'.msg = wr.msg /\ rd'.msg = rd.msg
    BY <1>1, CarryAlone
  <2>2. Place'["enqueue"] = Place["enqueue"]
    BY <1>1, EnqueueAlone DEF Carries
  <2>3. \A p \in Places : Place'[p] = Place[p]
    BY <2>1, <2>2, PlaceIs, PlaceIsNext DEF Places
  <2> QED
    BY <1>d, <2>1, <2>3
<1>2. CASE Register
  <2>1. UNCHANGED <<requests, toDb, dbQueue, toTcp>>
    BY <1>2 DEF Register, ipc
  <2> QED
    BY <1>2, <1>d, <2>1, RegisterAdds
<1>3. CASE Enqueue
  <2> DEFINE x == fdConn[tcp.fd]
  <2>1. /\ x \in Conns /\ tcp.pc = "enqueue"
        /\ tcp'.pc = "scan" /\ requests' = Append(requests, x)
        /\ UNCHANGED <<toDb, dbQueue, toTcp, rd>> /\ wr'.msg = wr.msg
    BY <1>0, <1>3, AtConn DEF Enqueue, AtClient, Control, ipc, WakeWriter
  <2>2. Place["enqueue"] = {x} /\ Place'["enqueue"] = {}
    BY <2>1, PlaceIs, PlaceIsNext
  <2>3. x \notin Items(requests)
    BY <1>p, <2>2, PlaceIs DEF Places
  <2> HIDE DEF x
  <2>4. Items(requests') = Items(requests) \cup {x} /\ Distinct(requests')
    BY <1>a, <1>d, <1>s, <2>1, <2>3
  <2>5. /\ x \in Place["enqueue"]
        /\ Place'["enqueue"] = Place["enqueue"] \ {x}
        /\ Place'["requests"] = Place["requests"] \cup {x}
    BY <2>1, <2>2, <2>4, PlaceIs, PlaceIsNext
  <2>6. \A p \in Places \ {"enqueue", "requests"} : Place'[p] = Place[p]
    BY <2>1, <2>2, <2>4, PlaceIs, PlaceIsNext DEF Places
  <2>7. Moves(Place, Place', "enqueue", "requests", x)
    BY <2>5, <2>6 DEF Moves
  <2> QED
    BY <1>d, <2>1, <2>4, <2>7 DEF Places
<1>4. CASE WriterLock
  <2>1. UNCHANGED <<toDb, dbQueue, toTcp, rd>> /\ wr.msg = None
    BY <1>0, <1>4 DEF WriterLock, ipc, InHand
  <2>2. Place'["enqueue"] = Place["enqueue"]
    BY <1>4, PlaceIs, PlaceIsNext DEF WriterLock
  <2>3. CASE requests = <<>>
    <3>1. requests' = requests /\ wr'.msg = wr.msg
      BY <1>0, <1>4, <2>3 DEF WriterLock, Control
    <3>2. \A p \in Places : Place'[p] = Place[p]
      BY <2>1, <2>2, <3>1, PlaceIs, PlaceIsNext DEF Places
    <3> QED
      BY <1>d, <2>1, <3>1, <3>2
  <2>4. CASE requests # <<>>
    <3> DEFINE x == Head(requests)
    <3>1. requests' = Tail(requests) /\ wr'.msg = x
      BY <1>4, <2>4 DEF WriterLock
    <3>2. /\ x \in Conns /\ x \in Items(requests)
          /\ Items(requests') = Items(requests) \ {x} /\ Distinct(requests')
      BY <1>d, <1>s, <1>t, <2>4, <3>1
    <3> HIDE DEF x
    <3>3. /\ x \in Place["requests"]
          /\ Place'["requests"] = Place["requests"] \ {x}
          /\ Place'["wr"] = Place["wr"] \cup {x}
      BY <1>n, <2>1, <2>2, <3>1, <3>2, PlaceIs, PlaceIsNext
    <3>4. \A p \in Places \ {"requests", "wr"} : Place'[p] = Place[p]
      BY <1>n, <2>1, <2>2, <3>1, <3>2, PlaceIs, PlaceIsNext DEF Places
    <3>5. Moves(Place, Place', "requests", "wr", x)
      BY <3>3, <3>4 DEF Moves
    <3> QED
      BY <1>d, <2>1, <3>2, <3>5 DEF Places
  <2> QED
    BY <2>3, <2>4
<1>5. CASE WriterPush
  <2> DEFINE x == wr.msg
  <2>1. /\ UNCHANGED <<requests, dbQueue, toTcp, rd>> /\ wr'.msg = None
        /\ x \in Conns
    BY <1>0, <1>5 DEF WriterPush, server, InHand, Control
  <2>2. Place'["enqueue"] = Place["enqueue"]
    BY <1>5, PlaceIs, PlaceIsNext DEF WriterPush, server
  <2>3. x \notin Items(toDb)
    BY <1>p, <1>n, <2>1, PlaceIs DEF Places
  <2>4. \/ toDb' = Append(toDb, x)
        \/ toDb' = toDb /\ x \in lost'
    BY <1>5 DEF WriterPush
  <2> HIDE DEF x
  <2>5. CASE toDb' = Append(toDb, x)
    <3>1. Items(toDb') = Items(toDb) \cup {x} /\ Distinct(toDb')
      BY <1>a, <1>d, <1>s, <2>1, <2>3, <2>5
    <3>2. Moves(Place, Place', "wr", "toDb", x)
      BY <1>n, <2>1, <2>2, <3>1, PlaceIs, PlaceIsNext DEF Moves, Places, x
    <3> QED
      BY <1>d, <2>1, <3>1, <3>2 DEF Places
  <2>6. CASE toDb' = toDb /\ x \in lost'
    <3>1. Drops(Place, Place', "wr", x)
      BY <1>n, <2>1, <2>2, <2>6, PlaceIs, PlaceIsNext DEF Drops, Places, x
    <3> QED
      BY <1>d, <2>1, <2>6, <3>1 DEF Places
  <2> QED
    BY <2>4, <2>5, <2>6
<1>6. CASE DatabaseReads
  <2> DEFINE x == Head(toDb)
  <2>1. /\ UNCHANGED <<requests, toTcp, wr, rd>> /\ toDb # <<>>
        /\ toDb' = Tail(toDb) /\ dbQueue' = Append(dbQueue, x)
    BY <1>6 DEF DatabaseReads, server
  <2>2. Place'["enqueue"] = Place["enqueue"]
    BY <1>6, PlaceIs, PlaceIsNext DEF DatabaseReads, server
  <2>3. /\ x \in Conns /\ x \in Items(toDb)
        /\ Items(toDb') = Items(toDb) \ {x} /\ Distinct(toDb')
    BY <1>d, <1>s, <1>t, <2>1
  <2>4. x \notin Items(dbQueue)
    BY <1>p, <2>3, PlaceIs DEF Places
  <2> HIDE DEF x
  <2>5. Items(dbQueue') = Items(dbQueue) \cup {x} /\ Distinct(dbQueue')
    BY <1>a, <1>d, <1>s, <2>1, <2>3, <2>4
  <2>6. Moves(Place, Place', "toDb", "dbQueue", x)
    BY <2>1, <2>2, <2>3, <2>5, PlaceIs, PlaceIsNext DEF Moves, Places
  <2> QED
    BY <1>d, <2>1, <2>3, <2>5, <2>6 DEF Places
<1>7. CASE DatabaseAnswers
  <2> DEFINE x == Head(dbQueue)
  <2>1. /\ UNCHANGED <<requests, toDb, wr, rd>> /\ dbQueue # <<>>
        /\ dbQueue' = Tail(dbQueue)
    BY <1>7 DEF DatabaseAnswers, server
  <2>x. toTcp' = Append(toTcp, x) \/ (toTcp' = toTcp /\ x \in lost')
    BY <1>7 DEF DatabaseAnswers
  <2>2. Place'["enqueue"] = Place["enqueue"]
    BY <1>7, PlaceIs, PlaceIsNext DEF DatabaseAnswers, server
  <2>3. /\ x \in Conns /\ x \in Items(dbQueue)
        /\ Items(dbQueue') = Items(dbQueue) \ {x} /\ Distinct(dbQueue')
    BY <1>d, <1>s, <1>t, <2>1
  <2>4. x \notin Items(toTcp)
    BY <1>p, <2>3, PlaceIs DEF Places
  <2> HIDE DEF x
  <2>5. CASE toTcp' = Append(toTcp, x)
    <3>1. Items(toTcp') = Items(toTcp) \cup {x} /\ Distinct(toTcp')
      BY <1>a, <1>d, <1>s, <2>3, <2>4, <2>5
    <3>2. Moves(Place, Place', "dbQueue", "toTcp", x)
      BY <2>1, <2>2, <2>3, <3>1, PlaceIs, PlaceIsNext DEF Moves, Places
    <3> QED
      BY <1>d, <2>1, <2>3, <3>1, <3>2 DEF Places
  <2>6. CASE toTcp' = toTcp /\ x \in lost'
    <3>1. Drops(Place, Place', "dbQueue", x)
      BY <2>1, <2>2, <2>3, <2>6, PlaceIs, PlaceIsNext DEF Drops, Places
    <3> QED
      BY <1>d, <2>1, <2>3, <2>6, <3>1 DEF Places
  <2> QED
    BY <2>x, <2>5, <2>6
<1>8. CASE ReaderPop
  <2>1. UNCHANGED <<requests, toDb, dbQueue, wr>> /\ rd.msg = None
    BY <1>0, <1>8 DEF ReaderPop, server, InHand
  <2>2. Place'["enqueue"] = Place["enqueue"]
    BY <1>8, PlaceIs, PlaceIsNext DEF ReaderPop, server
  <2>3. CASE toTcp = <<>>
    <3>1. toTcp' = toTcp /\ rd'.msg = rd.msg
      BY <1>0, <1>8, <2>3 DEF ReaderPop, Control
    <3>2. \A p \in Places : Place'[p] = Place[p]
      BY <2>1, <2>2, <3>1, PlaceIs, PlaceIsNext DEF Places
    <3> QED
      BY <1>d, <2>1, <3>1, <3>2
  <2>4. CASE toTcp # <<>>
    <3> DEFINE x == Head(toTcp)
    <3>1. toTcp # <<>> /\ toTcp' = Tail(toTcp) /\ rd'.msg = x
      BY <1>0, <1>8, <2>4 DEF ReaderPop, Control
    <3>2. /\ x \in Conns /\ x \in Items(toTcp)
          /\ Items(toTcp') = Items(toTcp) \ {x} /\ Distinct(toTcp')
      BY <1>d, <1>s, <1>t, <3>1
    <3> HIDE DEF x
    <3>3. /\ x \in Place["toTcp"]
          /\ Place'["toTcp"] = Place["toTcp"] \ {x}
          /\ Place'["rd"] = Place["rd"] \cup {x}
      BY <1>n, <2>1, <2>2, <3>1, <3>2, PlaceIs, PlaceIsNext
    <3>4. \A p \in Places \ {"toTcp", "rd"} : Place'[p] = Place[p]
      BY <1>n, <2>1, <2>2, <3>1, <3>2, PlaceIs, PlaceIsNext DEF Places
    <3>5. Moves(Place, Place', "toTcp", "rd", x)
      BY <3>3, <3>4 DEF Moves
    <3> QED
      BY <1>d, <2>1, <3>2, <3>5 DEF Places
  <2> QED
    BY <2>3, <2>4
<1>9. CASE ReaderLookup \/ ReaderSend
  <2>1. /\ UNCHANGED <<requests, toDb, dbQueue, toTcp, wr>>
        /\ rd.msg \in Conns
    BY <1>9, LookupConn DEF ReaderLookup, ReaderSend, server, ipc
  <2>2. Place'["enqueue"] = Place["enqueue"]
    BY <1>9, PlaceIs, PlaceIsNext DEF ReaderLookup, ReaderSend, server
  <2>3. CASE ReaderLookup /\ pending[IdOf[rd.msg]] # Absent
    <3>1. rd'.msg = rd.msg
      BY <1>0, <2>3 DEF ReaderLookup, Control
    <3>2. \A p \in Places : Place'[p] = Place[p]
      BY <2>1, <2>2, <3>1, PlaceIs, PlaceIsNext DEF Places
    <3> QED
      BY <1>d, <2>1, <3>2
  <2>4. CASE ReaderSend \/ (ReaderLookup /\ pending[IdOf[rd.msg]] = Absent)
    BY <1>d, <2>1, <2>4, ReaderDrops
  <2>5. CASE ReaderSend
    BY <2>4, <2>5
  <2>6. CASE ReaderLookup
    BY <2>3, <2>4, <2>6
  <2> QED
    BY <1>9, <2>5, <2>6
<1> QED
  BY <1>1, <1>2, <1>3, <1>4, <1>5, <1>6, <1>7, <1>8, <1>9 DEF Carries

\* A request that leaves its place is under way still when it moves and not any
\* more when it is given up.
LEMMA WayOf ==
  ASSUME Apart(Place)
  PROVE  /\ \A a, b \in Places, x \in Conns :
              Moves(Place, Place', a, b, x) => UnderWay' = UnderWay
         /\ \A a \in Places, x \in Conns :
              Drops(Place, Place', a, x) =>
                x \in UnderWay /\ UnderWay' = UnderWay \ {x}
         /\ \A a \in Places, x \in Conns :
              Adds(Place, Place', a, x) => UnderWay' = UnderWay \cup {x}
         /\ (\A p \in Places : Place'[p] = Place[p]) => UnderWay' = UnderWay
<1>1. ASSUME NEW a \in Places, NEW b \in Places, NEW x \in Conns,
             Moves(Place, Place', a, b, x)
      PROVE  UnderWay' = UnderWay
  <2>1. ASSUME NEW k \in Conns
        PROVE  (\E p \in Places : k \in Place'[p])
                 <=> (\E p \in Places : k \in Place[p])
    BY <1>1 DEF Moves
  <2> QED
    BY <2>1 DEF UnderWay
<1>2. ASSUME NEW a \in Places, NEW x \in Conns, Drops(Place, Place', a, x)
      PROVE  x \in UnderWay /\ UnderWay' = UnderWay \ {x}
  <2>1. ASSUME NEW k \in Conns
        PROVE  (\E p \in Places : k \in Place'[p])
                 <=> k # x /\ (\E p \in Places : k \in Place[p])
    BY <1>2 DEF Drops, Apart
  <2>2. x \in UnderWay
    BY <1>2 DEF Drops, UnderWay
  <2> QED
    BY <2>1, <2>2 DEF UnderWay
<1>3. ASSUME NEW a \in Places, NEW x \in Conns, Adds(Place, Place', a, x)
      PROVE  UnderWay' = UnderWay \cup {x}
  <2>1. ASSUME NEW k \in Conns
        PROVE  (\E p \in Places : k \in Place'[p])
                 <=> k = x \/ (\E p \in Places : k \in Place[p])
    BY <1>3 DEF Adds
  <2> QED
    BY <2>1 DEF UnderWay
<1>4. (\A p \in Places : Place'[p] = Place[p]) => UnderWay' = UnderWay
  BY DEF UnderWay
<1> QED
  BY <1>1, <1>2, <1>3, <1>4

\* A request stays in one place, and what is under way changes only when one is
\* registered, dropped at a full queue, answered, or found to have no client.
LEMMA WayNext ==
  ASSUME IInv, Once, [Next]_vars
  PROVE  /\ OnePlace'
         /\ \/ UnderWay' = UnderWay
            \/ Register /\ UnderWay' = UnderWay \cup {fdConn[tcp.fd]}
            \/ \E x \in lost' : x \in UnderWay /\ UnderWay' = UnderWay \ {x}
            \/ /\ ReaderSend \/ (ReaderLookup /\ pending[IdOf[rd.msg]] = Absent)
               /\ UnderWay' = UnderWay \ {rd.msg}
         /\ ReaderSend => rd.msg \in UnderWay /\ UnderWay' = UnderWay \ {rd.msg}
         /\ Register => UnderWay' = UnderWay \cup {fdConn[tcp.fd]}
<1>0. OnePlace /\ Apart(Place)
  BY DEF Once, OnePlace
<1>1. Register => fdConn[tcp.fd] \notin UnderWay
  BY DEF Once, Register
<1>2. lost' \subseteq Conns
  BY IInvNext DEF IInv, Typed, Data
<1>3. (Distinct(requests) /\ Distinct(toDb) /\ Distinct(dbQueue)
       /\ Distinct(toTcp))'
  BY <1>0, <1>1, PlacesNext
<1>4. Apart(Place') => OnePlace'
  BY <1>3 DEF OnePlace, Apart, Places
<1>5. ASSUME ReaderSend \/ (ReaderLookup /\ pending[IdOf[rd.msg]] = Absent)
      PROVE  /\ OnePlace' /\ rd.msg \in UnderWay
             /\ UnderWay' = UnderWay \ {rd.msg}
  <2>1. rd.msg \in Conns /\ Drops(Place, Place', "rd", rd.msg)
    BY <1>5, LookupConn, ReaderDrops DEF ReaderSend, ReaderLookup
  <2> QED
    BY <1>0, <1>4, <2>1, WayOf, DropApart DEF Places
<1>6. /\ ReaderSend => rd.msg \in UnderWay /\ UnderWay' = UnderWay \ {rd.msg}
      /\ Register => UnderWay' = UnderWay \cup {fdConn[tcp.fd]}
  BY <1>0, <1>5, WayOf, RegisterAdds DEF Places
<1>7. CASE \A p \in Places : Place'[p] = Place[p]
  BY <1>0, <1>4, <1>6, <1>7, WayOf DEF Apart
<1>8. CASE Register /\ Adds(Place, Place', "enqueue", fdConn[tcp.fd])
  <2>1. fdConn[tcp.fd] \in Conns
    BY <1>8, AtConn DEF Register, AtClient
  <2>2. \A p \in Places : fdConn[tcp.fd] \notin Place[p]
    BY <1>1, <1>8, <2>1 DEF UnderWay
  <2>3. Apart(Place')
    BY <1>0, <1>8, <2>2 DEF Apart, Adds
  <2> QED
    BY <1>0, <1>4, <1>6, <1>8, <2>1, <2>3, WayOf DEF Places
<1>9. ASSUME NEW a \in Places, NEW b \in Places, NEW x \in Conns,
             Moves(Place, Place', a, b, x)
      PROVE  OnePlace' /\ UnderWay' = UnderWay
  BY <1>0, <1>4, <1>9, WayOf, MoveApart
<1>10. ASSUME NEW a \in Places, NEW x \in lost', Drops(Place, Place', a, x)
      PROVE  OnePlace' /\ x \in UnderWay /\ UnderWay' = UnderWay \ {x}
  BY <1>0, <1>2, <1>4, <1>10, WayOf, DropApart
<1> QED
  BY <1>0, <1>1, <1>5, <1>6, <1>7, <1>8, <1>9, <1>10, PlacesNext

-----------------------------------------------------------------------------
(* A request is registered once and answered once.                         *)

\* What the client wrote has been received and nothing more comes: there is one
\* request per connection.
LEMMA SpentNext ==
  ASSUME IInv, [Next]_vars, NEW k \in Conns, Spent(k)
  PROVE  Spent(k)'
<1>0. Control /\ Data /\ Budget
  BY DEF IInv, Typed
<1>s. /\ cl[k] \notin {"none", "connected"} /\ wire[k] = 0 /\ unread[k] = 0
      /\ Got(k) = 0
  BY DEF Spent
<1>1. CASE Recv
  <2> DEFINE m == fdConn[tcp.fd]
  <2>1. m \in Conns
    BY <1>1, AtConn DEF Recv, AtClient
  <2>2. UNCHANGED <<cl, wire, fdConn>>
    BY <1>1 DEF Recv, server
  <2>3. CASE m = k
    <3>1. tcp'.pc = "remove" /\ unread' = unread
      BY <1>0, <1>1, <1>s, <2>3 DEF Recv, Control
    <3> QED
      BY <1>s, <2>2, <3>1 DEF Spent, Got
  <2>4. CASE m # k
    <3>1. unread'[k] = 0 /\ tcp'.fd = tcp.fd
      BY <1>0, <1>1, <1>s, <2>1, <2>4 DEF Recv, Control, Data
    <3> QED
      BY <1>s, <2>2, <2>4, <3>1 DEF Spent, Got
  <2> QED
    BY <2>3, <2>4
<1>2. CASE ~Recv
  <2>1. Got(k)' = 0
    BY <1>2, <1>s, GotNext
  <2>2. CASE UNCHANGED <<cl, wire, unread>>
    BY <1>s, <2>1, <2>2 DEF Spent
  <2>3. ASSUME NEW j \in Conns,
               \/ Connect(j) \/ SendRequest(j) \/ Disconnect(j)
               \/ Abort(j) \/ Silence(j) \/ Arrive(j)
        PROVE  /\ cl'[k] \notin {"none", "connected"}
               /\ wire'[k] = 0 /\ unread'[k] = 0
    BY <1>0, <1>s, <2>3 DEF Connect, SendRequest, Disconnect, Abort, Silence,
                            Arrive, Data
  <2>4. CASE Network
    BY <2>1, <2>3, <2>4 DEF Network, Spent
  <2> QED
    BY <1>2, <2>2, <2>4, NetAlone
<1> QED
  BY <1>1, <1>2

\* send() is the only step that delivers a response.
LEMMA DeliveredAlone ==
  ASSUME [Next]_vars, ~ReaderSend
  PROVE  delivered' = delivered
<1>1. CASE UNCHANGED vars \/ Terminated \/ Network
  BY <1>1 DEF vars, net, Terminated, Network, Connect, SendRequest, Disconnect,
              Abort, Silence, Arrive
<1>2. CASE TcpThread \/ SelectError
  BY <1>2 DEF TcpThread, TcpSetup, TcpLoop, Select, SelectError, Scan, Accept,
              Recv, Register, Enqueue, remove_client, CloseClient, CloseAll, net
<1>3. CASE Writer \/ SpuriousWakeup \/ ReaderTest \/ ReaderPop \/ ReaderLookup
  BY <1>3 DEF Writer, WriterLock, WriterPush, SpuriousWakeup, ReaderTest,
              ReaderPop,
              ReaderLookup, net
<1>4. CASE Sigint \/ Stopping \/ Database
  BY <1>4 DEF Sigint, Stopping, Broadcast, ShutdownSocket, Join, Database,
              DatabaseReads, DatabaseAnswers, net
<1> QED
  BY <1>1, <1>2, <1>3, <1>4 DEF Next, Reader

\* A response is delivered to the connection that is behind the descriptor now,
\* if there is one whose client is still there, and to no other.
LEMMA Delivers ==
  ASSUME IInv, ReaderSend
  PROVE  \/ delivered' = delivered
         \/ /\ fdConn[rd.fd] \in Conns
            /\ cl[fdConn[rd.fd]] \in {"connected", "waiting"}
            /\ delivered'[fdConn[rd.fd]] = delivered[fdConn[rd.fd]] \cup {rd.msg}
            /\ \A j \in Conns \ {fdConn[rd.fd]} : delivered'[j] = delivered[j]
<1>1. rd.fd \in Fds /\ Data
  BY DEF IInv, InHand, ReaderSend, Typed
<1>2. fdConn[rd.fd] \in Conns \cup {None}
  BY <1>1 DEF Data
<1> QED
  BY <1>1, <1>2 DEF ReaderSend, Data

\* The response that is sent becomes answered, no other.
LEMMA AnsweredNext ==
  ASSUME IInv, [Next]_vars
  PROVE  /\ Answered' \subseteq Answered \cup {rd.msg}
         /\ ~ReaderSend => Answered' = Answered
<1>1. CASE ~ReaderSend
  BY <1>1, DeliveredAlone DEF Answered
<1>2. CASE ReaderSend
  BY <1>2, Delivers DEF Answered
<1> QED
  BY <1>1, <1>2

\* receive_client_request() completes with the last fragment, and what it then
\* registers has not been registered before.
LEMMA RecvCompletes ==
  ASSUME IInv, Once, [Next]_vars, tcp'.pc = "register"
  PROVE  \/ /\ Spent(fdConn[tcp.fd])' /\ UNCHANGED <<fdConn, delivered>>
            /\ fdConn[tcp.fd] \notin UnderWay \cup Answered
            /\ tcp'.fd = tcp.fd
         \/ tcp.pc = "register" /\ UNCHANGED <<tcp, fdConn>>
<1>0. Control /\ Data /\ Budget /\ Fragments \in Nat
  BY BoundsAssumption DEF IInv, Typed
<1>1. CASE Recv
  <2> DEFINE m == fdConn[tcp.fd]
  <2>1. m \in Conns /\ tcp.pc = "recv"
    BY <1>1, AtConn DEF Recv, AtClient
  <2>2. /\ UNCHANGED <<cl, wire, fdConn, delivered>>
        /\ tcp'.fd = tcp.fd /\ unread[m] > 0 /\ unread'[m] = 0
        /\ tcp.got + unread[m] = Fragments
    BY <1>0, <1>1, <2>1 DEF Recv, server, Control, Data
  <2>3. wire[m] = 0
    BY <1>0, <2>1, <2>2 DEF Budget, Got, Control, Data
  <2>4. cl[m] \notin {"none", "connected"}
    BY <1>0, <2>1, <2>2 DEF Budget
  <2>5. Spent(m)'
    BY <2>2, <2>3, <2>4 DEF Spent, Got
  <2>6. m \notin UnderWay \cup Answered
    BY <2>2 DEF Spent, Once
  <2>7. fdConn'[tcp'.fd] = m
    BY <2>2
  <2>8. Spent(fdConn[tcp.fd])'
    BY <2>5, <2>7 DEF Spent, Got
  <2> QED
    BY <2>2, <2>6, <2>8
<1>2. CASE UNCHANGED <<tcp, fdConn, clients>>
  BY <1>2
<1>3. CASE (TcpThread \/ SelectError) /\ ~Recv
  BY <1>0, <1>3
     DEF TcpThread, TcpSetup, TcpLoop, Select, SelectError, Scan, Accept,
         Register, Enqueue, remove_client, CloseClient, CloseAll, Control
<1> QED
  BY <1>1, <1>2, <1>3, TcpAlone

\* Every step keeps requests and responses single.
LEMMA OnceNext ==
  ASSUME IInv, Once, [Next]_vars
  PROVE  Once'
<1>1. OnePlace'
  BY WayNext
<1>2. ASSUME Register
      PROVE  /\ fdConn[tcp.fd] \in Conns /\ Spent(fdConn[tcp.fd])
             /\ fdConn[tcp.fd] \notin Answered
             /\ tcp'.pc = "enqueue" /\ ~ReaderSend
  <2>1. fdConn[tcp.fd] \in Conns
    BY <1>2, AtConn DEF Register, AtClient
  <2>2. tcp'.pc = "enqueue"
    BY <1>2 DEF Register, IInv, Typed, Control
  <2>3. ~ReaderSend
    BY <1>2, <2>2 DEF Register, ReaderSend
  <2> QED
    BY <1>2, <2>1, <2>2, <2>3 DEF Register, Once
<1>3. /\ UnderWay' \subseteq UnderWay \cup {fdConn[tcp.fd]}
      /\ ~Register => UnderWay' \subseteq UnderWay
  BY WayNext
<1>4. ReaderSend => rd.msg \in UnderWay /\ rd.msg \notin UnderWay'
  BY WayNext
<1>5. /\ Answered' \subseteq Answered \cup {rd.msg}
      /\ ~ReaderSend => Answered' = Answered
  BY AnsweredNext
<1>6. UnderWay' \cap Answered' = {}
  <2>1. UnderWay \cap Answered = {}
    BY DEF Once
  <2> QED
    BY <1>2, <1>3, <1>4, <1>5, <2>1
<1>7. \A k \in UnderWay' \cup Answered' : Spent(k)'
  <2>1. \A k \in UnderWay \cup Answered : k \in Conns /\ Spent(k)
    BY DEF Once, UnderWay, Answered
  <2>2. \A k \in UnderWay' \cup Answered' : k \in Conns /\ Spent(k)
    BY <1>2, <1>3, <1>4, <1>5, <2>1
  <2> QED
    BY <2>2, SpentNext
<1>8. ASSUME tcp'.pc = "register"
      PROVE  /\ Spent(fdConn[tcp.fd])'
             /\ (fdConn[tcp.fd])' \notin UnderWay' \cup Answered'
  <2>0. ~Register
    BY <1>2, <1>8
  <2>1. CASE tcp.pc = "register" /\ UNCHANGED <<tcp, fdConn>>
    <3>1. fdConn[tcp.fd] \in Conns
      BY <2>1, AtConn DEF AtClient
    <3>2. Spent(fdConn[tcp.fd]) /\ fdConn[tcp.fd] \notin UnderWay \cup Answered
      BY <2>1 DEF Once
    <3>3. fdConn'[tcp'.fd] = fdConn[tcp.fd]
      BY <2>1
    <3>4. fdConn[tcp.fd] \notin UnderWay' \cup Answered'
      BY <1>3, <1>4, <1>5, <2>0, <3>2
    <3> DEFINE m == fdConn[tcp.fd]
    <3>5. Spent(m)'
      BY <3>1, <3>2, <3>3, SpentNext DEF Spent, Got
    <3> QED
      BY <3>3, <3>4, <3>5
  <2>2. CASE /\ Spent(fdConn[tcp.fd])' /\ UNCHANGED <<fdConn, delivered>>
             /\ fdConn[tcp.fd] \notin UnderWay \cup Answered
             /\ tcp'.fd = tcp.fd
    <3>1. Answered' = Answered
      BY <2>2 DEF Answered
    <3> QED
      BY <1>3, <2>0, <2>2, <3>1
  <2> QED
    BY <1>8, <2>1, <2>2, RecvCompletes
<1> QED
  BY <1>1, <1>6, <1>7, <1>8 DEF Once

-----------------------------------------------------------------------------
(* pending_requests_ and the responses that are routed by it.              *)

\* Registered, and not routed yet.
Awaited == {k \in UnderWay : ~(rd.pc = "send" /\ rd.msg = k)}

\* fd is k's socket, unless k's client has left or the server has stopped.
OwnSocket(k, fd) == fdConn[fd] = k \/ cl[k] = "closed" \/ tcp.pc = "done"

\* An entry is there while a response is awaited, and the socket in it, or in
\* the hand of the reader, is the asker's or the asker left.
Entries ==
  /\ unmatched = {}
  /\ \A k \in Awaited : pending[IdOf[k]] # Absent
  /\ \A k \in Conns : pending[IdOf[k]] # Absent =>
       k \in Awaited \cup lost /\ OwnSocket(k, pending[IdOf[k]])
  /\ rd.pc = "send" => OwnSocket(rd.msg, rd.fd)
  /\ tcp.pc \in {"remove", "close"} => cl[fdConn[tcp.fd]] = "closed"

RInv == IInv /\ Once /\ Entries /\ StrayResponses

\* Which steps write the table, the reader's hand and the history.
LEMMA TablesAlone ==
  ASSUME [Next]_vars
  PROVE  /\ ~Reader => UNCHANGED <<rd, unmatched>>
         /\ ~Register /\ ~ReaderLookup => UNCHANGED <<pending, unmatched>>
         /\ lost \subseteq lost'
<1>1. CASE UNCHANGED vars \/ Terminated \/ Network
  BY <1>1 DEF vars, server, hist, Terminated, Network, Connect, SendRequest,
              Disconnect, Abort, Silence, Arrive
<1>2. CASE TcpThread \/ SelectError
  BY <1>2 DEF TcpThread, TcpSetup, TcpLoop, Select, SelectError, Scan, Accept,
              Recv, Register, Enqueue, remove_client, CloseClient, CloseAll,
              server, hist
<1>3. CASE Writer \/ SpuriousWakeup
  BY <1>3 DEF Writer, WriterLock, WriterPush, SpuriousWakeup, server, hist
<1>4. CASE Reader
  BY <1>4 DEF Reader, ReaderTest, ReaderPop, ReaderLookup, ReaderSend, server, hist
<1>5. CASE Sigint \/ Stopping \/ Database
  BY <1>5 DEF Sigint, Stopping, Broadcast, ShutdownSocket, Join, Database,
              DatabaseReads, DatabaseAnswers, server, hist
<1> QED
  BY <1>1, <1>2, <1>3, <1>4, <1>5 DEF Next

\* A client that has left stays away.
LEMMA ClosedStays ==
  ASSUME IInv, [Next]_vars, NEW k \in Conns, cl[k] = "closed"
  PROVE  cl'[k] = "closed"
<1>0. Data
  BY DEF IInv, Typed
<1>1. CASE Network
  BY <1>0, <1>1 DEF Network, Connect, SendRequest, Disconnect, Abort, Silence,
                    Arrive, Data
<1>2. CASE Recv
  BY <1>2 DEF Recv
<1> QED
  BY <1>1, <1>2, NetAlone

\* Only end of file makes the tcp thread close a connection.
LEMMA ClosingNext ==
  ASSUME IInv, Entries, [Next]_vars, tcp'.pc \in {"remove", "close"}
  PROVE  cl'[fdConn'[tcp'.fd]] = "closed"
<1>0. Control
  BY DEF IInv, Typed
<1>1. CASE UNCHANGED <<tcp, fdConn, clients>>
  <2>1. cl[fdConn[tcp.fd]] = "closed" /\ fdConn[tcp.fd] \in Conns
    BY <1>1, AtConn DEF Entries, AtClient
  <2> QED
    BY <1>1, <2>1, ClosedStays
<1>2. CASE Recv
  <2>1. UNCHANGED <<cl, fdConn>> /\ tcp'.fd = tcp.fd /\ Eof(fdConn[tcp.fd])
    BY <1>0, <1>2 DEF Recv, server, Control
  <2> QED
    BY <2>1 DEF Eof
<1>3. CASE remove_client
  <2>1. UNCHANGED <<cl, fdConn>> /\ tcp'.fd = tcp.fd /\ tcp.pc = "remove"
    BY <1>0, <1>3 DEF remove_client, net, Control
  <2> QED
    BY <2>1 DEF Entries
<1>4. CASE (TcpThread \/ SelectError) /\ ~Recv /\ ~remove_client
  BY <1>0, <1>4
     DEF TcpThread, TcpSetup, TcpLoop, Select, SelectError, Scan, Accept,
         Register, Enqueue, CloseClient, CloseAll, Control
<1> QED
  BY <1>1, <1>2, <1>3, <1>4, TcpAlone

\* A socket changes hands only after its client has left.
LEMMA OwnSocketNext ==
  ASSUME IInv, Entries, [Next]_vars, NEW k \in Conns, NEW fd \in Fds,
         OwnSocket(k, fd)
  PROVE  OwnSocket(k, fd)'
<1>0. Control /\ Data
  BY DEF IInv, Typed
<1>1. CASE cl[k] = "closed"
  BY <1>1, ClosedStays DEF OwnSocket
<1>2. CASE tcp.pc = "done"
  BY <1>2, TcpAlone DEF TcpThread, TcpSetup, TcpLoop, Select, SelectError, Scan,
                    Accept, Recv, Register, Enqueue, remove_client, CloseClient,
                    CloseAll, OwnSocket
<1>3. CASE fdConn[fd] = k
  <2>1. CASE CloseAll
    BY <1>0, <2>1 DEF CloseAll, Control, OwnSocket
  <2>2. CASE CloseClient
    <3>1. fd # tcp.fd => fdConn'[fd] = k
      BY <1>0, <1>3, <2>2 DEF CloseClient, Data
    <3>2. fd = tcp.fd => cl[k] = "closed"
      BY <1>3, <2>2 DEF CloseClient, Entries
    <3> QED
      BY <3>1, <3>2, ClosedStays DEF OwnSocket
  <2>3. CASE Accept
    <3>1. fd \in Open
      BY <1>3, NoneNotConn DEF Open
    <3>2. fdConn'[fd] = fdConn[fd]
      BY <1>0, <2>3, <3>1, AcceptOutcome DEF Data
    <3> QED
      BY <1>3, <3>2 DEF OwnSocket
  <2>4. CASE fdConn' = fdConn
    BY <1>3, <2>4 DEF OwnSocket
  <2> QED
    BY <2>1, <2>2, <2>3, <2>4, LinkAlone DEF Connect, ShutdownSocket
<1> QED
  BY <1>1, <1>2, <1>3 DEF OwnSocket

\* The response that the reader looks up is awaited, so its entry is there.
LEMMA LookupFinds ==
  ASSUME IInv, Entries, ReaderLookup
  PROVE  /\ rd.msg \in Conns /\ rd.msg \in Awaited
         /\ pending[IdOf[rd.msg]] \in Fds /\ pending[IdOf[rd.msg]] # Absent
         /\ OwnSocket(rd.msg, pending[IdOf[rd.msg]])
<1>1. /\ rd.msg \in Conns /\ rd.pc = "lookup"
      /\ pending[IdOf[rd.msg]] \in Fds \cup {Absent}
  BY LookupConn DEF ReaderLookup
<1>2. rd.msg \in UnderWay
  BY <1>1, NoneNotConn, PlaceIs DEF UnderWay, Places
<1>3. rd.msg \in Awaited
  BY <1>1, <1>2 DEF Awaited
<1> QED
  BY <1>1, <1>3 DEF Entries

\* What is awaited grows when a request is registered, and shrinks when its
\* response is routed or one of the two is dropped at a full queue.
LEMMA AwaitedNext ==
  ASSUME IInv, Once, Entries, [Next]_vars
  PROVE  \/ Awaited' = Awaited /\ ~Register /\ ~ReaderLookup
         \/ Register /\ Awaited' = Awaited \cup {fdConn[tcp.fd]}
         \/ /\ \E x \in lost' : Awaited' = Awaited \ {x}
            /\ ~Register /\ ~ReaderLookup
         \/ ReaderLookup /\ Awaited' = Awaited \ {rd.msg}
<1>0. Control /\ InHand
  BY DEF IInv, Typed
<1>1. CASE ReaderLookup
  <2>1. rd.pc = "lookup" /\ rd'.pc = "send" /\ rd'.msg = rd.msg
    BY <1>0, <1>1, LookupFinds DEF ReaderLookup, Control
  <2>2. UnderWay' = UnderWay
    <3>1. /\ UNCHANGED <<tcp, fdConn, requests, toDb, dbQueue, toTcp, wr>>
      BY <1>1 DEF ReaderLookup, ipc
    <3>2. \A p \in Places : Place'[p] = Place[p]
      BY <2>1, <3>1, PlaceIs, PlaceIsNext DEF Places
    <3> QED
      BY <3>2 DEF UnderWay
  <2> QED
    BY <1>1, <2>1, <2>2 DEF Awaited
<1>2. CASE ReaderSend
  <2>1. UnderWay' = UnderWay \ {rd.msg}
    BY <1>2, WayNext
  <2>2. rd.pc = "send" /\ rd'.pc = "test"
    BY <1>0, <1>2 DEF ReaderSend, Control
  <2>3. Awaited' = Awaited
    BY <2>1, <2>2 DEF Awaited
  <2>4. ~ReaderLookup /\ ~Register
    BY <1>0, <1>2, <2>2 DEF ReaderSend, ReaderLookup, Register, Control
  <2> QED
    BY <2>3, <2>4
<1>3. CASE ~ReaderLookup /\ ~ReaderSend
  <2>1. rd' = rd \/ (rd.pc # "send" /\ rd'.pc # "send")
    BY <1>0, <1>3, TablesAlone DEF Reader, ReaderTest, ReaderPop, Control
  <2>2. rd.pc = "send" => rd.msg \in UnderWay
    BY <1>0, NoneNotConn, PlaceIs DEF UnderWay, Places, Control, InHand
  <2>3. rd.pc = "send" => rd.msg \in UnderWay'
    <3>1. rd.pc = "send" => rd' = rd
      BY <2>1
    <3> QED
      BY <1>0, <3>1, NoneNotConn, PlaceIsNext DEF UnderWay, Places, Control, InHand
  <2>4. UnderWay' = UnderWay => Awaited' = Awaited
    BY <2>1 DEF Awaited
  <2>5. ASSUME NEW x, UnderWay' = UnderWay \cup {x}, x \notin UnderWay
        PROVE  Awaited' = Awaited \cup {x}
    BY <2>1, <2>2, <2>5 DEF Awaited
  <2>6. ASSUME NEW x, UnderWay' = UnderWay \ {x}
        PROVE  Awaited' = Awaited \ {x}
    BY <2>1, <2>6 DEF Awaited
  <2>7. Register => fdConn[tcp.fd] \notin UnderWay
    BY DEF Once, Register
  <2> QED
    <3>1. CASE Register
      BY <2>5, <2>7, <3>1, WayNext
    <3>2. CASE ~Register
      BY <1>3, <2>4, <2>6, <3>2, WayNext
    <3> QED
      BY <3>1, <3>2
<1> QED
  BY <1>1, <1>2, <1>3

\* With unique ids every step keeps the table exact.
LEMMA EntriesNext ==
  ASSUME IdsUnique, IInv, Once, Entries, [Next]_vars
  PROVE  Entries'
<1>0. Control /\ Data /\ InHand
  BY DEF IInv, Typed
<1>i. \A k \in Conns : IdOf[k] \in Ids
  BY DEF Ids
<1>p. \A k \in Conns : pending[IdOf[k]] \in Fds \cup {Absent}
  BY <1>0, <1>i DEF Data
<1>z. Absent \notin Fds
  BY DEF Absent, Fds
<1>e. /\ unmatched = {}
      /\ \A k \in Awaited : k \in Conns /\ pending[IdOf[k]] # Absent
      /\ \A k \in Conns : pending[IdOf[k]] # Absent =>
           k \in Awaited \cup lost /\ OwnSocket(k, pending[IdOf[k]])
  BY DEF Entries, Awaited, UnderWay
<1>l. lost \subseteq lost'
  BY TablesAlone
<1>o. \A k \in Conns, fd \in Fds : OwnSocket(k, fd) => OwnSocket(k, fd)'
  BY OwnSocketNext
<1>c. tcp'.pc \in {"remove", "close"} => cl'[fdConn'[tcp'.fd]] = "closed"
  BY ClosingNext
<1>s. ASSUME rd' = rd, rd.pc = "send"
      PROVE  OwnSocket(rd.msg, rd.fd)'
  <2>1. rd.msg \in Conns /\ rd.fd \in Fds /\ OwnSocket(rd.msg, rd.fd)
    BY <1>0, <1>s, LookupConn DEF InHand, Entries
  <2> DEFINE m == rd.msg
             d == rd.fd
  <2>2. OwnSocket(m, d)'
    BY <1>o, <2>1, <1>s DEF OwnSocket
  <2> QED
    BY <2>2, <1>s
<1>1. CASE Register
  <2> DEFINE m == fdConn[tcp.fd]
  <2>1. m \in Conns /\ tcp.fd \in Fds
    BY <1>1, AtConn DEF Register, AtClient
  <2>2. /\ pending' = [pending EXCEPT ![IdOf[m]] = tcp.fd]
        /\ UNCHANGED <<fdConn, rd, unmatched, lost>>
    BY <1>1 DEF Register, hist
  <2>3. Awaited' = Awaited \cup {m}
    BY <1>1, AwaitedNext, <1>0 DEF ReaderLookup, Register, Control
  <2>4. pending'[IdOf[m]] = tcp.fd
    BY <1>0, <1>i, <2>1, <2>2 DEF Data
  <2>5. \A k \in Conns : k # m => pending'[IdOf[k]] = pending[IdOf[k]]
    BY <1>0, <1>i, <2>1, <2>2 DEF Data, IdsUnique
  <2> DEFINE d == tcp.fd
  <2>6. OwnSocket(m, d) /\ OwnSocket(m, d)'
    BY <1>o, <2>1 DEF OwnSocket
  <2> QED
    BY <1>c, <1>e, <1>l, <1>o, <1>p, <1>s, <1>z, <2>1, <2>2, <2>3, <2>4, <2>5, <2>6
       DEF Entries
<1>2. CASE ReaderLookup
  <2> DEFINE m == rd.msg
             d == pending[IdOf[rd.msg]]
  <2>1. /\ m \in Conns /\ d \in Fds /\ d # Absent
        /\ OwnSocket(m, d)
    BY <1>2, LookupFinds
  <2>2. /\ pending' = [pending EXCEPT ![IdOf[m]] = Absent]
        /\ unmatched' = unmatched
        /\ rd'.pc = "send" /\ rd'.msg = m /\ rd'.fd = d
    BY <1>0, <1>2, <2>1 DEF ReaderLookup, Control
  <2>3. Awaited' = Awaited \ {m}
    BY <1>2, <1>0, AwaitedNext DEF ReaderLookup, Register, Control
  <2>4. pending'[IdOf[m]] = Absent
    BY <1>0, <1>i, <2>1, <2>2 DEF Data
  <2>5. \A k \in Conns : k # m => pending'[IdOf[k]] = pending[IdOf[k]]
    BY <1>0, <1>i, <2>1, <2>2 DEF Data, IdsUnique
  <2>6. OwnSocket(rd.msg, rd.fd)'
    BY <1>o, <2>1, <2>2 DEF OwnSocket
  <2> HIDE DEF m, d
  <2> QED
    BY <1>c, <1>e, <1>l, <1>o, <1>p, <2>1, <2>2, <2>3, <2>4, <2>5, <2>6
       DEF Entries
<1>3. CASE ~Register /\ ~ReaderLookup
  <2>1. UNCHANGED <<pending, unmatched>>
    BY <1>3, TablesAlone
  <2>2. Awaited' = Awaited \/ \E x \in lost' : Awaited' = Awaited \ {x}
    BY <1>3, AwaitedNext
  <2>3. rd'.pc = "send" => rd' = rd
    BY <1>0, <1>3, TablesAlone DEF Reader, ReaderTest, ReaderPop, ReaderSend, Control
  <2> QED
    BY <1>c, <1>e, <1>l, <1>o, <1>p, <1>s, <2>1, <2>2, <2>3 DEF Entries
<1> QED
  BY <1>1, <1>2, <1>3

\* With unique ids every step keeps stray responses harmless.
LEMMA StrayNext ==
  ASSUME RInv, [Next]_vars
  PROVE  StrayResponses'
<1>0. IInv /\ Once /\ Entries /\ StrayResponses /\ Data
  BY DEF RInv, IInv, Typed
<1>1. ASSUME NEW k \in Conns, NEW o \in delivered[k] \ {k}
      PROVE  /\ o \in Answered /\ o \in Conns /\ cl'[o] = "closed"
             /\ \A j \in Conns \ {k} : o \notin delivered[j]
  <2>1. o \in Conns /\ o \in Answered
    BY <1>0, <1>1 DEF Data, Answered
  <2> QED
    BY <1>0, <1>1, <2>1, ClosedStays DEF StrayResponses
<1>2. CASE delivered' = delivered
  BY <1>1, <1>2 DEF StrayResponses
<1>3. CASE ReaderSend /\ delivered' # delivered
  <2> DEFINE t == fdConn[rd.fd]
             m == rd.msg
  <2>1. /\ t \in Conns /\ delivered'[t] = delivered[t] \cup {m}
        /\ \A j \in Conns \ {t} : delivered'[j] = delivered[j]
    BY <1>0, <1>3, Delivers
  <2>2. m \in UnderWay /\ m \in Conns
    BY <1>0, <1>3, WayNext DEF UnderWay
  <2>3. \A j \in Conns : m \notin delivered[j]
    BY <1>0, <2>2 DEF Once, Answered
  <2>4. m # t => cl'[m] = "closed"
    <3>1. OwnSocket(m, rd.fd)
      BY <1>0, <1>3 DEF Entries, ReaderSend
    <3>2. rd.fd \in Fds
      BY <1>0, <1>3 DEF ReaderSend, IInv, InHand
    <3>3. tcp.pc # "done"
      BY <1>0, <2>1, <3>2, NoneNotConn DEF IInv, Stopped, Open
    <3> QED
      BY <1>0, <2>2, <3>1, <3>3, ClosedStays DEF OwnSocket
  <2> HIDE DEF t, m
  <2>5. ASSUME NEW k \in Conns, NEW o \in delivered'[k] \ {k}
        PROVE  /\ cl'[o] = "closed"
               /\ \A j \in Conns \ {k} : o \notin delivered'[j]
    <3>1. CASE k = t /\ o = m
      BY <2>1, <2>3, <2>4, <2>5, <3>1
    <3>2. CASE o \in delivered[k]
      <4>1. o # m
        BY <2>3, <3>2
      <4> QED
        BY <1>1, <2>1, <2>5, <3>2, <4>1
    <3> QED
      BY <2>1, <2>5, <3>1, <3>2
  <2> QED
    BY <2>5 DEF StrayResponses
<1> QED
  BY <1>2, <1>3, DeliveredAlone

-----------------------------------------------------------------------------
(* Clients that wait for their answer.                                     *)

\* The server refused the connection: it has never read from it.
Refused(k) == link[k] = "down" /\ k \notin UnderWay \cup Answered

\* Requests come over accepted connections.  Who has closed, or has been hung
\* up on, had its own answer first or was refused, as long as the server runs.
Patient ==
  /\ RoutedToOriginator
  /\ \A k \in UnderWay \cup Answered : link[k] \in {"up", "down"}
  /\ \A k \in Conns : cl[k] = "closed" \/ link[k] = "down" =>
       k \in delivered[k] \/ Refused(k) \/ tcp.pc = "done"

\* A connection goes down for good, and while the server runs it does when its
\* client has left or before it was accepted.
LEMMA LinkNext ==
  ASSUME IInv, [Next]_vars, NEW k \in Conns
  PROVE  /\ link[k] \in {"up", "down"} => link'[k] \in {"up", "down"}
         /\ link[k] = "down" => link'[k] = "down"
         /\ link'[k] = "down" => \/ link[k] \in {"down", "backlog"}
                                 \/ CloseClient /\ k = fdConn[tcp.fd]
                                 \/ tcp'.pc = "done"
<1>0. Data /\ Control /\ Links
  BY DEF IInv, Typed
<1>1. ASSUME NEW j \in Conns, Connect(j)
      PROVE  link[j] = "none" /\ link' = [link EXCEPT ![j] = "backlog"]
  BY <1>0, <1>1 DEF Connect, Links
<1>2. CASE \E j \in Conns : Connect(j)
  BY <1>0, <1>1, <1>2 DEF Data
<1>3. CASE Accept
  <2> DEFINE h == Head(backlog)
  <2>1. backlog # <<>> => h \in Conns /\ link[h] = "backlog"
    BY <1>0, ItemsTail DEF IInv, Typed, Queues, Links
  <2>2. \/ link' = link
        \/ /\ backlog # <<>>
           /\ link' = [link EXCEPT ![h] = "down"] \/ link' = [link EXCEPT ![h] = "up"]
    BY <1>3, AcceptOutcome
  <2> HIDE DEF h
  <2> QED
    BY <1>0, <2>1, <2>2 DEF Data
<1>4. CASE CloseClient
  BY <1>0, <1>4 DEF CloseClient, Data
<1>5. CASE CloseAll
  BY <1>0, <1>5 DEF CloseAll, Hangup, Control, Data
<1>6. CASE ShutdownSocket
  BY <1>0, <1>6 DEF ShutdownSocket, Data
<1>7. CASE link' = link
  BY <1>7
<1> QED
  BY <1>2, <1>3, <1>4, <1>5, <1>6, <1>7, LinkAlone

\* Without kills a client leaves when it has an answer or was hung up on.
LEMMA LeavesNext ==
  ASSUME ~MayAbort, IInv, [Next]_vars, NEW k \in Conns, cl'[k] = "closed"
  PROVE  cl[k] = "closed" \/ delivered[k] # {} \/ link[k] = "down"
<1>0. Data
  BY DEF IInv, Typed
<1>1. CASE Network
  BY <1>0, <1>1 DEF Network, Connect, SendRequest, Disconnect, Abort, Silence,
                    Arrive, Data
<1>2. CASE Recv
  BY <1>2 DEF Recv
<1> QED
  BY <1>1, <1>2, NetAlone

\* Without kills every step keeps clients patient and answered by their own
\* response.
LEMMA PatientNext ==
  ASSUME ~MayAbort, RInv, Patient, [Next]_vars
  PROVE  Patient'
<1>0. IInv /\ Once /\ Entries /\ Data /\ Control
  BY DEF RInv, IInv, Typed
<1>d. \A k \in Conns : delivered[k] \subseteq delivered'[k]
  <2>1. CASE ReaderSend
    BY <1>0, <2>1, Delivers
  <2>2. CASE ~ReaderSend
    BY <2>2, DeliveredAlone
  <2> QED
    BY <2>1, <2>2
<1>1. RoutedToOriginator'
  <2>1. CASE delivered' = delivered
    BY <2>1 DEF Patient, RoutedToOriginator
  <2>2. CASE ReaderSend /\ delivered' # delivered
    <3> DEFINE t == fdConn[rd.fd]
               m == rd.msg
    <3>1. /\ t \in Conns /\ delivered'[t] = delivered[t] \cup {m}
          /\ \A j \in Conns \ {t} : delivered'[j] = delivered[j]
      BY <1>0, <2>2, Delivers
    <3>2. m \in UnderWay /\ m \in Conns /\ m \notin delivered[m]
      BY <1>0, <2>2, WayNext DEF UnderWay, Once, Answered
    <3>3. OwnSocket(m, rd.fd) /\ rd.fd \in Fds
      BY <1>0, <2>2 DEF Entries, ReaderSend, IInv, InHand
    <3>4. tcp.pc # "done"
      BY <1>0, <3>1, <3>3, NoneNotConn DEF IInv, Stopped, Open
    <3>5. cl[m] # "closed"
      BY <3>2, <3>4 DEF Patient, Refused
    <3>6. t = m
      BY <3>3, <3>4, <3>5 DEF OwnSocket
    <3> HIDE DEF t, m
    <3> QED
      BY <3>1, <3>6 DEF Patient, RoutedToOriginator
  <2> QED
    BY <2>1, <2>2, DeliveredAlone
<1>2. UnderWay' \cup Answered' \subseteq
        UnderWay \cup Answered \cup {k \in Conns : Register /\ k = fdConn[tcp.fd]}
  <2>1. UnderWay' \subseteq
          UnderWay \cup {k \in Conns : Register /\ k = fdConn[tcp.fd]}
    BY <1>0, WayNext, RegisterAdds
  <2>2. Answered' \subseteq UnderWay \cup Answered
    BY <1>0, WayNext, AnsweredNext
  <2> QED
    BY <2>1, <2>2
<1>3. Register => link[fdConn[tcp.fd]] = "up"
  BY <1>0, AtConn DEF Register, AtClient, IInv, Links
<1>4. \A k \in UnderWay' \cup Answered' : k \in Conns /\ link'[k] \in {"up", "down"}
  <2>1. \A k \in UnderWay \cup Answered : k \in Conns /\ link[k] \in {"up", "down"}
    BY DEF Patient, UnderWay, Answered
  <2> QED
    BY <1>0, <1>2, <1>3, <2>1, LinkNext
<1>5. ASSUME NEW k \in Conns, cl'[k] = "closed" \/ link'[k] = "down",
             tcp'.pc # "done"
      PROVE  k \in delivered'[k] \/ Refused(k)'
  <2>1. tcp.pc # "done"
    BY <1>0, <1>5, TcpAlone
       DEF TcpThread, TcpSetup, TcpLoop, Select, SelectError, Scan, Accept, Recv,
           Register, Enqueue, remove_client, CloseClient, CloseAll
  <2>2. Refused(k) => Refused(k)'
    BY <1>0, <1>2, <1>3, LinkNext DEF Refused
  <2>3. CASE cl[k] = "closed" \/ link[k] = "down"
    BY <1>d, <2>1, <2>2, <2>3 DEF Patient
  <2>4. CASE link'[k] = "down" /\ link[k] = "backlog"
    <3>1. k \notin UnderWay \cup Answered
      BY <2>4 DEF Patient
    <3> QED
      BY <1>2, <1>3, <2>4, <3>1 DEF Refused
  <2>5. CASE CloseClient /\ k = fdConn[tcp.fd]
    BY <1>0, <2>3, <2>5 DEF CloseClient, Entries
  <2>6. CASE cl'[k] = "closed" /\ delivered[k] # {}
    BY <1>d, <2>6 DEF Patient, RoutedToOriginator
  <2> QED
    BY <1>0, <1>5, <2>3, <2>4, <2>5, <2>6, LinkNext, LeavesNext
<1> QED
  BY <1>1, <1>4, <1>5 DEF Patient

-----------------------------------------------------------------------------
(* The theorems.                                                           *)

\* At the start nothing is under way and nobody has been answered.
LEMMA RoutingInit == Init => RInv /\ Patient
<1> SUFFICES ASSUME Init
             PROVE  RInv /\ Patient
  OBVIOUS
<1>1. IInv
  BY IInvInit
<1>2. /\ wr.msg = None /\ rd.msg = None /\ rd.pc = "test" /\ tcp.pc = "setup"
      /\ requests = <<>> /\ toDb = <<>> /\ dbQueue = <<>> /\ toTcp = <<>>
  BY DEF Init
<1>3. \A p \in Places : Place[p] = {}
  BY <1>2, ItemsEmpty, PlaceIs DEF Places
<1>4. UnderWay = {} /\ Answered = {} /\ Awaited = {} /\ Apart(Place)
  BY <1>3 DEF UnderWay, Answered, Awaited, Apart, Init
<1>5. Once
  BY <1>2, <1>4, ItemsEmpty DEF Once, OnePlace
<1>6. \A k \in Conns : pending[IdOf[k]] = Absent
  BY DEF Init, Ids
<1>7. Entries
  BY <1>2, <1>4, <1>6 DEF Entries, Init
<1>8. StrayResponses /\ RoutedToOriginator
  BY DEF StrayResponses, RoutedToOriginator, Init
<1>9. Patient
  BY <1>4, <1>8 DEF Patient, Init
<1> QED
  BY <1>1, <1>5, <1>7, <1>8, <1>9 DEF RInv

\* The routing invariant holds in every reachable state.
THEOREM RoutingInvariance ==
  ASSUME IdsUnique
  PROVE  Spec => []RInv
<1>1. RInv /\ [Next]_vars => RInv'
  BY IInvNext, OnceNext, EntriesNext, StrayNext DEF RInv
<1> QED
  BY <1>1, RoutingInit, PTL DEF Spec

\* With unique ids pending_requests_ is exact: a response always finds the entry
\* of its request, however fast Database answers, and the only entries that
\* outlive their request are those of requests or responses dropped at a full
\* queue.
THEOREM PendingExact ==
  ASSUME IdsUnique
  PROVE  Spec => []PendingAccounted
<1>1. ASSUME RInv
      PROVE  PendingAccounted
  <2>0. IInv /\ OnePlace /\ Entries
    BY <1>1 DEF RInv, Once
  <2>1. InFlight = Awaited
    <3>1. ASSUME NEW k \in Conns
          PROVE  k \in InFlight <=> k \in Awaited
      <4>1. \A q : (\E i \in 1 .. Len(q) : q[i] = k) <=> k \in Items(q)
        BY DEF Items
      <4>2. k # None
        BY NoneNotConn
      <4>3. k \in UnderWay <=>
              \/ k \in Items(requests) \/ k \in Items(toDb)
              \/ k \in Items(dbQueue) \/ k \in Items(toTcp)
              \/ k \in {wr.msg, rd.msg} \/ (tcp.pc = "enqueue" /\ fdConn[tcp.fd] = k)
        BY <4>2, PlaceIs DEF UnderWay, Places
      <4>4. rd.msg = k =>
              /\ k \notin Items(requests) /\ k \notin Items(toDb)
              /\ k \notin Items(dbQueue) /\ k \notin Items(toTcp)
              /\ k # wr.msg /\ ~(tcp.pc = "enqueue" /\ fdConn[tcp.fd] = k)
        <5>1. rd.msg = k => k \in Place["rd"]
          BY <4>2, PlaceIs
        <5> QED
          BY <2>0, <4>2, <5>1, PlaceIs DEF OnePlace, Apart, Places
      <4> QED
        BY <4>1, <4>3, <4>4 DEF InFlight, Awaited
    <3> QED
      BY <3>1 DEF InFlight, Awaited, UnderWay
  <2>2. ASSUME NEW id \in Ids, pending[id] # Absent
        PROVE  \E k \in InFlight \cup lost : IdOf[k] = id
    <3>1. PICK k \in Conns : id = IdOf[k]
      BY DEF Ids
    <3> QED
      BY <2>0, <2>1, <2>2, <3>1 DEF Entries
  <2> QED
    BY <2>0, <2>1, <2>2 DEF PendingAccounted, Entries
<1>2. RInv => PendingAccounted
  BY <1>1
<1> QED
  BY <1>2, RoutingInvariance, PTL

\* With unique ids a response that reaches a stranger is one whose asker left,
\* and it reaches nobody else: send() after the unlock may hit a descriptor that
\* was closed and reused, but no response is taken from a client that waits.
THEOREM StraysExplained ==
  ASSUME IdsUnique
  PROVE  Spec => []StrayResponses
<1>1. RInv => StrayResponses
  BY DEF RInv
<1> QED
  BY <1>1, RoutingInvariance, PTL

\* With unique ids and clients that wait for their answer (none is killed) a
\* response goes to the connection that sent the request, and nowhere else.
THEOREM Routed ==
  ASSUME IdsUnique, ~MayAbort
  PROVE  Spec => []RoutedToOriginator
<1>1. RInv /\ Patient /\ [Next]_vars => Patient'
  BY PatientNext
<1>2. Patient => RoutedToOriginator
  BY DEF Patient
<1> QED
  BY <1>1, <1>2, RoutingInit, RoutingInvariance, PTL DEF Spec

=============================================================================
