------------------------ MODULE DatabaseThreadsProofs ------------------------
(***************************************************************************)
(* Database's threads lose no request and no wake-up and implement the     *)
(* service that TcpServer relies on, for every set of requests, every      *)
(* capacity of the IPC queues and whatever calls fail.                     *)
(***************************************************************************)
EXTENDS DatabaseThreads, SequenceTheorems, TLAPS

-----------------------------------------------------------------------------
(* The inductive invariant.                                                *)

\* The mutex is with exactly the thread whose program counter is inside.
Mutex ==
  /\ mutex \in {"free", "rd", "wr", "main"}
  /\ mutex = "rd" <=> rd = "push"
  /\ mutex = "wr" <=> wr \in {"check", "wait"}
  /\ mutex = "main" <=> main = "broadcast"

\* Threads that are not created yet.
Creation ==
  /\ main = "create_reader" => rd = "off" /\ wr = "off"
  /\ main = "create_writer" => wr = "off"

Counters ==
  /\ running \in BOOLEAN
  /\ main \in {"create_reader", "create_writer", "sigwait", "lock",
               "broadcast", "join", "done"}
  /\ rd \in {"off", "top", "pop", "lock", "push", "signal", "done"}
  /\ wr \in {"off", "top", "lock", "relock", "check", "wait", "asleep", "push",
             "done"}

Control == Counters /\ Mutex /\ Creation /\ NoLostWakeup

QueuesOK == /\ requests \in Seq(Requests) /\ toDb \in Seq(Requests)
            /\ toTcp \in Seq(Requests) /\ popped \in Seq(Requests)
            /\ taken \in Seq(Requests) /\ submitted \in Seq(Requests)
            /\ handled \in Seq(Requests)

\* A request in hand exactly where the loops have one.
InHand ==
  /\ Len(popped) = (IF rd \in {"lock", "push"} THEN 1 ELSE 0)
  /\ Len(taken) = (IF wr = "push" THEN 1 ELSE 0)

Data == QueuesOK /\ InHand /\ RequestsInOrder

IInv == Control /\ Data

-----------------------------------------------------------------------------
(* Sequences.                                                              *)

\* A sequence is its head followed by its tail.
LEMMA Split ==
  ASSUME NEW S, NEW s \in Seq(S), s # <<>>
  PROVE  /\ <<Head(s)>> \in Seq(S) /\ Tail(s) \in Seq(S)
         /\ Len(<<Head(s)>>) = 1
         /\ <<Head(s)>> \o Tail(s) = s
<1>1. Head(s) \in S /\ Tail(s) \in Seq(S)
  BY HeadTailProperties
<1>2. <<Head(s)>> \in Seq(S) /\ Len(<<Head(s)>>) = 1
  BY <1>1
<1>3. Len(<<Head(s)>> \o Tail(s)) = Len(s)
  BY <1>1, <1>2, ConcatProperties, HeadTailProperties, LenProperties
<1>4. ASSUME NEW i \in 1 .. Len(s)
      PROVE  (<<Head(s)>> \o Tail(s))[i] = s[i]
  <2>1. /\ Len(s) \in Nat /\ Len(Tail(s)) = Len(s) - 1
        /\ \A j \in 1 .. Len(Tail(s)) : Tail(s)[j] = s[j + 1]
    BY HeadTailProperties, LenProperties
  <2>2. (<<Head(s)>> \o Tail(s))[i] =
          IF i <= 1 THEN <<Head(s)>>[i] ELSE Tail(s)[i - 1]
    BY <1>1, <1>2, <2>1, ConcatProperties
  <2> QED
    BY <2>1, <2>2
<1>5. <<Head(s)>> \o Tail(s) \in Seq(S)
  BY <1>1, <1>2, ConcatProperties
<1> QED
  BY <1>1, <1>2, <1>3, <1>4, <1>5, SeqEqual

\* A sequence of length 0 is empty, one of length 1 is its head.
LEMMA Short ==
  ASSUME NEW S, NEW s \in Seq(S)
  PROVE  /\ Len(s) = 0 => s = <<>>
         /\ Len(s) = 1 => s # <<>> /\ Tail(s) = <<>> /\ s = <<Head(s)>>
<1>1. Len(s) = 0 => s = <<>>
  BY EmptySeq
<1>2. ASSUME Len(s) = 1 PROVE s # <<>> /\ Tail(s) = <<>> /\ s = <<Head(s)>>
  <2>1. s # <<>>
    BY <1>2
  <2>2. Tail(s) \in Seq(S) /\ Len(Tail(s)) = 0
    BY <1>2, <2>1, HeadTailProperties
  <2>3. Tail(s) = <<>>
    BY <2>2, EmptySeq
  <2>4. <<Head(s)>> \o <<>> = <<Head(s)>>
    BY <2>1, Split, ConcatEmptySeq
  <2> QED
    BY <2>1, <2>3, <2>4, Split
<1> QED
  BY <1>1, <1>2

\* Head and tail of an element followed by a sequence.
LEMMA Prefixed ==
  ASSUME NEW S, NEW e \in S, NEW s \in Seq(S)
  PROVE  /\ <<e>> \o s # <<>> /\ Head(<<e>> \o s) = e /\ Tail(<<e>> \o s) = s
<1> DEFINE t == <<e>> \o s
<1>1. <<e>> \in Seq(S) /\ Len(<<e>>) = 1 /\ Len(s) \in Nat
  BY LenProperties
<1>2. /\ t \in Seq(S) /\ Len(t) = 1 + Len(s)
      /\ \A i \in 1 .. 1 + Len(s) : t[i] = IF i <= 1 THEN <<e>>[i] ELSE s[i - 1]
  BY <1>1, ConcatProperties
<1>3. t # <<>> /\ Head(t) = e
  BY <1>1, <1>2
<1>4. /\ Tail(t) \in Seq(S) /\ Len(Tail(t)) = Len(s)
      /\ \A i \in 1 .. Len(s) : Tail(t)[i] = t[i + 1]
  BY <1>1, <1>2, <1>3, HeadTailProperties
<1>5. \A i \in 1 .. Len(s) : Tail(t)[i] = s[i]
  BY <1>1, <1>2, <1>4
<1> QED
  BY <1>3, <1>4, <1>5, SeqEqual

\* Concatenation is associative.
LEMMA Assoc ==
  \A s, t, u \in Seq(Requests) : (s \o t) \o u = s \o (t \o u)
BY ConcatAssociative

\* An element appended to a concatenation is appended to its second part.
LEMMA AppendConcat ==
  ASSUME NEW s \in Seq(Requests), NEW t \in Seq(Requests), NEW r \in Requests
  PROVE  Append(s \o t, r) = s \o Append(t, r)
<1>1. <<r>> \in Seq(Requests) /\ s \o t \in Seq(Requests)
  BY ConcatProperties
<1>2. Append(s \o t, r) = (s \o t) \o <<r>> /\ Append(t, r) = t \o <<r>>
  BY <1>1, AppendIsConcat
<1>3. (s \o t) \o <<r>> = s \o (t \o <<r>>)
  BY <1>1, Assoc
<1> QED
  BY <1>2, <1>3

-----------------------------------------------------------------------------
(* The invariant holds.                                                    *)

LEMMA InitIInv == Init => IInv
<1> SUFFICES ASSUME Init PROVE IInv
  OBVIOUS
<1>1. Control
  BY DEF Init, Control, Counters, Mutex, Creation, NoLostWakeup
<1>2. QueuesOK /\ InHand
  BY DEF Init, QueuesOK, InHand
<1>3. RequestsInOrder
  BY ConcatEmptySeq, EmptySeq DEF Init, RequestsInOrder
<1> QED
  BY <1>1, <1>2, <1>3 DEF IInv, Data

\* Who holds the mutex and who sleeps, step by step.
LEMMA ControlStep == Control /\ [Next]_vars => Control'
<1> SUFFICES ASSUME Control, [Next]_vars PROVE Control'
  OBVIOUS
<1> USE DEF Control, Counters, Mutex, Creation, NoLostWakeup
<1>1. ASSUME NEW r \in Requests, Submit(r) PROVE Control'
  BY <1>1 DEF Submit
<1>2. CASE Collect
  BY <1>2 DEF Collect
<1>3. CASE ReaderTop
  BY <1>3 DEF ReaderTop, queues
<1>4. CASE ReaderPop
  BY <1>4 DEF ReaderPop
<1>5. CASE ReaderLock
  BY <1>5 DEF ReaderLock, Lock, queues
<1>6. CASE ReaderPush
  BY <1>6 DEF ReaderPush, Unlock
<1>7. CASE ReaderSignal
  BY <1>7 DEF ReaderSignal, Wake, queues
<1>8. CASE WriterTop
  BY <1>8 DEF WriterTop, queues
<1>9. CASE WriterLock
  BY <1>9 DEF WriterLock, Lock, queues
<1>10. CASE WriterCheck
  BY <1>10 DEF WriterCheck, Unlock
<1>11. CASE WriterWait
  BY <1>11 DEF WriterWait, Unlock, queues
<1>12. CASE WriterPush
  BY <1>12 DEF WriterPush
<1>13. CASE SpuriousWakeup
  BY <1>13 DEF SpuriousWakeup, queues
<1>14. CASE CreateReader
  BY <1>14 DEF CreateReader, queues
<1>15. CASE CreateWriter
  BY <1>15 DEF CreateWriter, queues
<1>16. CASE Sigwait
  BY <1>16 DEF Sigwait, queues
<1>17. CASE StopLock
  BY <1>17 DEF StopLock, Lock, queues
<1>18. CASE Broadcast
  BY <1>18 DEF Broadcast, Unlock, Wake, queues
<1>19. CASE Join
  BY <1>19 DEF Join, queues
<1>20. CASE UNCHANGED vars
  BY <1>20 DEF vars, queues
<1> QED
  BY <1>1, <1>2, <1>3, <1>4, <1>5, <1>6, <1>7, <1>8, <1>9, <1>10, <1>11,
     <1>12, <1>13, <1>14, <1>15, <1>16, <1>17, <1>18, <1>19, <1>20
     DEF Next, Reader, Writer, Stopping, Terminated

\* Steps that touch neither a queue nor a request in hand.
Quiet ==
  \/ ReaderTop \/ ReaderLock \/ ReaderSignal
  \/ WriterTop \/ WriterLock \/ WriterWait \/ SpuriousWakeup
  \/ CreateReader \/ CreateWriter \/ Sigwait \/ Stopping \/ UNCHANGED vars

LEMMA QuietStep ==
  ASSUME IInv, Quiet
  PROVE  Data' /\ UNCHANGED queues
<1>1. UNCHANGED queues /\ UNCHANGED <<requests, toDb, toTcp, popped, taken,
                                      submitted, handled>>
  BY DEF Quiet, ReaderTop, ReaderLock, ReaderSignal, WriterTop, WriterLock,
         WriterWait, SpuriousWakeup, CreateReader, CreateWriter, Sigwait,
         Stopping, StopLock, Broadcast, Join, vars, queues
<1>2. /\ rd' \in {"lock", "push"} <=> rd \in {"lock", "push"}
      /\ wr' = "push" <=> wr = "push"
  BY DEF IInv, Control, Counters, Creation, Quiet, ReaderTop, ReaderLock,
         ReaderSignal, Wake, WriterTop, WriterLock, WriterWait, SpuriousWakeup,
         CreateReader, CreateWriter, Sigwait, Stopping, StopLock, Broadcast,
         Join, vars
<1> QED
  BY <1>1, <1>2 DEF IInv, Data, QueuesOK, InHand, RequestsInOrder

\* The order of the requests, for each step that moves one.
LEMMA DataStep == IInv /\ [Next]_vars => Data'
<1> SUFFICES ASSUME IInv, [Next]_vars PROVE Data'
  OBVIOUS
<1>0. QueuesOK /\ InHand /\ RequestsInOrder
  BY DEF IInv, Data
<1>q. /\ requests \in Seq(Requests) /\ toDb \in Seq(Requests)
      /\ popped \in Seq(Requests)
  BY <1>0 DEF QueuesOK
<1> DEFINE A == handled \o taken
           B == A \o requests
           C == B \o popped
<1>t. A \in Seq(Requests) /\ B \in Seq(Requests) /\ C \in Seq(Requests)
  <2>1. A \in Seq(Requests)
    BY <1>0, ConcatProperties DEF QueuesOK
  <2>2. B \in Seq(Requests)
    BY <1>0, <2>1, ConcatProperties DEF QueuesOK
  <2> QED
    BY <1>0, <2>1, <2>2, ConcatProperties DEF QueuesOK
<1>o. submitted = C \o toDb
  BY <1>0 DEF RequestsInOrder
<1>1. ASSUME NEW r \in Requests, Submit(r) PROVE Data'
  <2>1. toDb' = Append(toDb, r) /\ submitted' = Append(submitted, r)
    BY <1>1 DEF Submit
  <2>2. C' = C
    BY <1>1 DEF Submit
  <2>3. Append(C \o toDb, r) = C \o Append(toDb, r)
    <3>1. C \in Seq(Requests) /\ toDb \in Seq(Requests)
      BY <1>q, <1>t
    <3> HIDE DEF C
    <3> QED
      BY <3>1, AppendConcat
  <2>4. RequestsInOrder'
    BY <1>o, <2>1, <2>2, <2>3 DEF RequestsInOrder
  <2>5. QueuesOK' /\ InHand'
    BY <1>0, <1>1, AppendProperties DEF Submit, QueuesOK, InHand
  <2> QED
    BY <2>4, <2>5 DEF Data
<1>2. CASE Collect
  <2>1. toTcp' \in Seq(Requests)
    BY <1>0, <1>2, HeadTailProperties DEF Collect, QueuesOK
  <2> QED
    BY <1>0, <1>2, <2>1 DEF Collect, Data, QueuesOK, InHand, RequestsInOrder
<1>3. CASE ReaderPop
  <2>1. CASE toDb = <<>>
    BY <1>0, <1>3, <2>1 DEF ReaderPop, Data, QueuesOK, InHand, RequestsInOrder
  <2>2. CASE toDb # <<>>
    <3>1. /\ popped' = <<Head(toDb)>> /\ toDb' = Tail(toDb) /\ rd' = "lock"
          /\ rd = "pop"
          /\ UNCHANGED <<wr, requests, toTcp, taken, submitted, handled>>
      BY <1>3, <2>2 DEF ReaderPop
    <3>2. popped = <<>>
      BY <1>0, <3>1, Short DEF QueuesOK, InHand
    <3>3. /\ popped' \in Seq(Requests) /\ toDb' \in Seq(Requests)
          /\ Len(popped') = 1 /\ popped' \o toDb' = toDb
      BY <1>0, <2>2, <3>1, Split DEF QueuesOK
    <3>4. B' = B /\ submitted' = submitted
      BY <3>1
    <3>5. submitted = B \o toDb
      BY <1>o, <1>t, <3>2, ConcatEmptySeq
    <3>6. (B \o popped') \o toDb' = B \o (popped' \o toDb')
      <4>1. B \in Seq(Requests)
        BY <1>t
      <4>2. popped' \in Seq(Requests) /\ toDb' \in Seq(Requests)
        BY <3>3
      <4> HIDE DEF B
      <4> QED
        BY <4>1, <4>2, Assoc, Zenon
    <3>7. RequestsInOrder'
      BY <3>3, <3>4, <3>5, <3>6 DEF RequestsInOrder
    <3>8. QueuesOK' /\ InHand'
      BY <1>0, <3>1, <3>3 DEF QueuesOK, InHand
    <3> QED
      BY <3>7, <3>8 DEF Data
  <2> QED
    BY <2>1, <2>2
<1>4. CASE ReaderPush
  <2>1. /\ requests' = requests \o popped /\ popped' = <<>> /\ rd' = "signal"
        /\ UNCHANGED <<wr, toDb, toTcp, taken, submitted, handled>>
    BY <1>4 DEF ReaderPush
  <2>2. requests' \in Seq(Requests) /\ popped' \in Seq(Requests)
    BY <1>0, <2>1, ConcatProperties DEF QueuesOK
  <2>3. A' = A /\ submitted' = submitted /\ toDb' = toDb
    BY <2>1
  <2>4. C = A \o (requests \o popped)
    <3>1. A \in Seq(Requests)
      BY <1>t
    <3>2. requests \in Seq(Requests) /\ popped \in Seq(Requests)
      BY <1>q
    <3> HIDE DEF A
    <3> QED
      BY <3>1, <3>2, Assoc, Zenon
  <2>5. C' = (A \o (requests \o popped)) \o <<>>
    BY <2>1, <2>3
  <2>6. C' = C
    BY <1>t, <2>4, <2>5, ConcatEmptySeq
  <2>7. RequestsInOrder'
    BY <1>o, <2>3, <2>6 DEF RequestsInOrder
  <2>8. QueuesOK' /\ InHand'
    BY <1>0, <2>1, <2>2 DEF QueuesOK, InHand
  <2> QED
    BY <2>7, <2>8 DEF Data
<1>5. CASE WriterCheck
  <2>1. CASE requests = <<>>
    BY <1>0, <1>5, <2>1 DEF WriterCheck, Data, QueuesOK, InHand, RequestsInOrder
  <2>2. CASE requests # <<>>
    <3>1. /\ taken' = <<Head(requests)>> /\ requests' = Tail(requests)
          /\ wr' = "push" /\ wr = "check"
          /\ UNCHANGED <<rd, toDb, toTcp, popped, submitted, handled>>
      BY <1>5, <2>2 DEF WriterCheck
    <3>2. taken = <<>>
      BY <1>0, <3>1, Short DEF QueuesOK, InHand
    <3>3. /\ taken' \in Seq(Requests) /\ requests' \in Seq(Requests)
          /\ Len(taken') = 1 /\ taken' \o requests' = requests
      BY <1>0, <2>2, <3>1, Split DEF QueuesOK
    <3>4. B = handled \o requests
      BY <1>0, <3>2, ConcatEmptySeq DEF QueuesOK
    <3>5. (handled \o taken') \o requests' = handled \o (taken' \o requests')
      <4>1. handled \in Seq(Requests)
        BY <1>0 DEF QueuesOK
      <4>2. taken' \in Seq(Requests) /\ requests' \in Seq(Requests)
        BY <3>3
      <4> QED
        BY <4>1, <4>2, Assoc, Zenon
    <3>6. B' = B
      BY <3>1, <3>3, <3>4, <3>5
    <3>7. RequestsInOrder'
      BY <1>o, <3>1, <3>6 DEF RequestsInOrder
    <3>8. QueuesOK' /\ InHand'
      BY <1>0, <3>1, <3>3 DEF QueuesOK, InHand
    <3> QED
      BY <3>7, <3>8 DEF Data
  <2> QED
    BY <2>1, <2>2
<1>6. CASE WriterPush
  <2>1. /\ handled' = handled \o taken /\ taken' = <<>> /\ wr' = "top"
        /\ UNCHANGED <<rd, requests, toDb, popped, submitted>>
        /\ toTcp' = toTcp \o taken \/ toTcp' = toTcp
    BY <1>6 DEF WriterPush
  <2>2. A' = A
    BY <1>t, <2>1, ConcatEmptySeq
  <2>3. RequestsInOrder'
    BY <1>o, <2>1, <2>2 DEF RequestsInOrder
  <2>4. handled' \in Seq(Requests) /\ toTcp' \in Seq(Requests)
    BY <1>0, <2>1, ConcatProperties DEF QueuesOK
  <2>5. QueuesOK' /\ InHand'
    BY <1>0, <2>1, <2>4 DEF QueuesOK, InHand
  <2> QED
    BY <2>3, <2>5 DEF Data
<1>7. CASE Quiet
  BY <1>7, QuietStep
<1> QED
  BY <1>1, <1>2, <1>3, <1>4, <1>5, <1>6, <1>7
     DEF Next, Reader, Writer, Terminated, Quiet

\* The invariant holds in every reachable state.
THEOREM Invariance == Spec => []IInv
<1>1. IInv /\ [Next]_vars => IInv'
  BY ControlStep, DataStep DEF IInv
<1> QED
  BY <1>1, InitIInv, PTL DEF Spec

\* Type correctness; in particular the mutex is with the one thread whose
\* program counter is inside, and a request in hand is where it should be.
THEOREM TypeCorrect == Spec => []TypeOK
<1>1. IInv => TypeOK
  BY DEF IInv, Control, Counters, Mutex, Data, QueuesOK, InHand, TypeOK
<1> QED
  BY <1>1, Invariance, PTL

\* No request is lost, doubled or overtaken between the two loops of Database,
\* however long the queues grow and whenever it stops.
THEOREM InOrder == Spec => []RequestsInOrder
BY Invariance, PTL DEF IInv, Data

\* The writer does not sleep through a request or through the stop, although
\* the signal comes after the unlock and running_ is cleared without the mutex.
THEOREM NoWakeupLost == Spec => []NoLostWakeup
BY Invariance, PTL DEF IInv, Control

-----------------------------------------------------------------------------
(* The refinement.                                                         *)

\* Initially Database holds nothing.
LEMMA RefineInit == Init => Service!Init
BY ConcatEmptySeq, EmptySeq DEF Init, Service!Init, Held

\* Steps that do not touch a queue are stuttering steps of the service.
LEMMA RefineQuiet == ASSUME IInv, Quiet PROVE UNCHANGED Service!dvars
BY QuietStep DEF queues, Held, Service!dvars

\* Every step of the threads is a step of the service or a stutter.
LEMMA RefineStep == IInv /\ [Next]_vars => [Service!Next]_Service!dvars
<1> SUFFICES ASSUME IInv, [Next]_vars PROVE [Service!Next]_Service!dvars
  OBVIOUS
<1>0. /\ requests \in Seq(Requests) /\ toDb \in Seq(Requests)
      /\ popped \in Seq(Requests) /\ taken \in Seq(Requests)
      /\ InHand
  BY DEF IInv, Data, QueuesOK
<1> DEFINE W == taken \o requests
<1>t. W \in Seq(Requests) /\ Held \in Seq(Requests) /\ Held = W \o popped
  <2>1. W \in Seq(Requests)
    BY <1>0, ConcatProperties
  <2> QED
    BY <1>0, <2>1, ConcatProperties DEF Held
<1>a. Held = taken \o (requests \o popped)
  <2>1. /\ taken \in Seq(Requests) /\ requests \in Seq(Requests)
        /\ popped \in Seq(Requests)
    BY <1>0
  <2>2. (taken \o requests) \o popped = taken \o (requests \o popped)
    BY <2>1, Assoc, Zenon
  <2> QED
    BY <2>2 DEF Held
<1>1. ASSUME NEW r \in Requests, Submit(r) PROVE Service!Next
  <2>1. UNCHANGED Held
    BY <1>1 DEF Submit, Held
  <2>2. Service!Submit(r)
    BY <1>1, <2>1 DEF Submit, Service!Submit
  <2> QED
    BY <2>2 DEF Service!Next
<1>2. CASE Collect
  <2>1. UNCHANGED Held
    BY <1>2 DEF Collect, Held
  <2>2. Service!Collect
    BY <1>2, <2>1 DEF Collect, Service!Collect
  <2> QED
    BY <2>2 DEF Service!Next
<1>3. CASE ReaderPop
  <2>1. CASE toDb = <<>>
    <3>1. UNCHANGED <<toDb, toTcp, requests, popped, taken>>
      BY <1>3, <2>1 DEF ReaderPop
    <3> QED
      BY <3>1 DEF Held, Service!dvars
  <2>2. CASE toDb # <<>>
    <3>1. /\ popped' = <<Head(toDb)>> /\ toDb' = Tail(toDb) /\ rd = "pop"
          /\ UNCHANGED <<toTcp, requests, taken>>
      BY <1>3, <2>2 DEF ReaderPop
    <3>2. popped = <<>>
      BY <1>0, <3>1, Short DEF InHand
    <3>3. Held = W
      BY <1>t, <3>2, ConcatEmptySeq
    <3>4. Held' = W \o <<Head(toDb)>>
      BY <3>1 DEF Held
    <3>5. Head(toDb) \in Requests
      BY <1>0, <2>2, HeadTailProperties
    <3>6. Held' = Append(Held, Head(toDb))
      BY <1>t, <3>3, <3>4, <3>5, AppendIsConcat
    <3>7. Service!Read
      BY <2>2, <3>1, <3>6 DEF Service!Read
    <3> QED
      BY <3>7 DEF Service!Next
  <2> QED
    BY <2>1, <2>2
<1>4. CASE ReaderPush
  <2>1. /\ requests' = requests \o popped /\ popped' = <<>>
        /\ UNCHANGED <<toDb, toTcp, taken>>
    BY <1>4 DEF ReaderPush
  <2>2. Held = taken \o (requests \o popped)
    BY <1>a
  <2>3. Held' = (taken \o (requests \o popped)) \o <<>>
    BY <2>1 DEF Held
  <2>4. UNCHANGED Held
    BY <1>t, <2>2, <2>3, ConcatEmptySeq
  <2> QED
    BY <2>1, <2>4 DEF Service!dvars
<1>5. CASE WriterCheck
  <2>1. CASE requests = <<>>
    <3>1. UNCHANGED <<toDb, toTcp, requests, popped, taken>>
      BY <1>5, <2>1 DEF WriterCheck
    <3> QED
      BY <3>1 DEF Held, Service!dvars
  <2>2. CASE requests # <<>>
    <3>1. /\ taken' = <<Head(requests)>> /\ requests' = Tail(requests)
          /\ wr = "check" /\ UNCHANGED <<toDb, toTcp, popped>>
      BY <1>5, <2>2 DEF WriterCheck
    <3>2. taken = <<>>
      BY <1>0, <3>1, Short DEF InHand
    <3>3. W = requests
      BY <1>0, <3>2, ConcatEmptySeq
    <3>4. W' = requests
      BY <1>0, <2>2, <3>1, Split
    <3>5. UNCHANGED Held
      BY <3>1, <3>3, <3>4 DEF Held
    <3> QED
      BY <3>1, <3>5 DEF Service!dvars
  <2> QED
    BY <2>1, <2>2
<1>6. CASE WriterPush
  <2>1. /\ taken' = <<>> /\ wr = "push" /\ UNCHANGED <<requests, popped, toDb>>
        /\ \/ Len(toTcp) < Capacity /\ toTcp' = toTcp \o taken
           \/ Len(toTcp) = Capacity /\ UNCHANGED toTcp
    BY <1>6 DEF WriterPush
  <2>2. taken # <<>> /\ Tail(taken) = <<>> /\ taken = <<Head(taken)>>
    BY <1>0, <2>1, Short DEF InHand
  <2>3. Head(taken) \in Requests
    BY <1>0, <2>2, HeadTailProperties
  <2> DEFINE R == requests \o popped
  <2>4. R \in Seq(Requests)
    BY <1>0, ConcatProperties
  <2>5. Held = <<Head(taken)>> \o R
    BY <1>a, <2>2
  <2>6. Held' = R
    <3>1. Held' = (<<>> \o requests) \o popped
      BY <2>1 DEF Held
    <3> QED
      BY <1>0, <3>1, ConcatEmptySeq
  <2>7. Held # <<>> /\ Head(Held) = Head(taken) /\ Tail(Held) = R
    BY <2>3, <2>4, <2>5, Prefixed
  <2>8. toTcp \o taken = Append(toTcp, Head(taken))
    <3>1. toTcp \in Seq(Requests)
      BY DEF IInv, Data, QueuesOK
    <3> QED
      BY <2>2, <2>3, <3>1, AppendIsConcat
  <2>9. Service!Answer
    BY <2>1, <2>6, <2>7, <2>8 DEF Service!Answer
  <2> QED
    BY <2>9 DEF Service!Next
<1>7. CASE Quiet
  BY <1>7, RefineQuiet
<1> QED
  BY <1>1, <1>2, <1>3, <1>4, <1>5, <1>6, <1>7
     DEF Next, Reader, Writer, Terminated, Quiet

\* Database's threads implement the service that TcpServer relies on.
THEOREM Refinement == Spec => ImplementsService
BY RefineInit, RefineStep, Invariance, PTL DEF Spec, Service!Spec, ImplementsService
=============================================================================
