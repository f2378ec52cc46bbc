-------------------------- MODULE IpcLifecycleProofs -------------------------
(***************************************************************************)
(* Safety of the segment's life for any number of runs of Database and     *)
(* TcpServer: type correctness, a single owner, queues initialised before  *)
(* they are used, and no segment removed under a TcpServer that uses it.   *)
(***************************************************************************)
EXTENDS IpcLifecycle, FiniteSetTheorems, TLAPS

-----------------------------------------------------------------------------
(* The inductive invariant.                                                *)

Using == {"wait2", "queues", "run"}
Owning == Creating \cup {"run"} \cup Stopping

\* What TypeOK leaves out: TcpServers and PriceUpdater refer to Databases, and
\* to segments that were created.
References ==
  /\ attached \in [Databases -> SUBSET (Databases \cup TcpServers)]
  /\ seg \in [TcpServers -> Databases \cup {None}]
  /\ \A t \in TcpServers :
       tcp[t] \in Using \cup {"shmat", "wait1"} => seg[t] \in Databases
  /\ updater \in Databases \cup {None}
  /\ \A d \in Databases :
       db[d] \in {"off", "tables", "create"} =>
         key # d /\ \A t \in TcpServers : seg[t] # d

\* A flag is READY only for a queue that is initialised, in the segment the
\* key names; a Database that waits for the others has cleared its flags.
Flags ==
  \A d \in Databases :
    /\ ready[d] \subseteq queues[d]
    /\ ready[d] # {} => key = d
    /\ db[d] = "ready1" => ToDatabase \in queues[d]
    /\ db[d] = "ready2" => ToTcp \in queues[d]
    /\ db[d] = "unready2" => ToTcp \notin ready[d]
    /\ db[d] \in {"wait", "detach", "remove"} => ready[d] = {}

\* A TcpServer that has seen a flag keeps its segment: Database does not get
\* past its wait while it is attached.
Users ==
  \A t \in TcpServers :
    tcp[t] \in Using =>
      /\ key = seg[t]
      /\ db[seg[t]] \notin {"detach", "remove"}
      /\ ToDatabase \in queues[seg[t]]
      /\ tcp[t] \in {"queues", "run"} => ToTcp \in queues[seg[t]]

IInv == TypeOK /\ References /\ SingleOwner /\ Flags /\ Users

-----------------------------------------------------------------------------
\* When Database sees at most one attachment, and that is its own, no
\* TcpServer is attached.
LEMMA AloneMeansAlone ==
  ASSUME NEW S, IsFiniteSet(S), Cardinality(S) <= 1, NEW x \in S, NEW y \in S
  PROVE  x = y
<1>1. SUFFICES ASSUME x # y PROVE FALSE
  OBVIOUS
<1>2. {x, y} \subseteq S
  OBVIOUS
<1>3. Cardinality({x, y}) = 2
  <2>1. IsFiniteSet({x}) /\ Cardinality({x}) = 1
    BY FS_Singleton
  <2>2. {x, y} = {x} \cup {y}
    OBVIOUS
  <2>3. y \notin {x}
    BY <1>1
  <2>4. Cardinality({x} \cup {y}) = Cardinality({x}) + 1
    BY <2>1, <2>3, FS_AddElement
  <2> QED
    BY <2>1, <2>2, <2>4
<1>4. Cardinality({x, y}) <= Cardinality(S)
  BY <1>2, FS_Subset
<1>5. Cardinality(S) \in Nat
  BY FS_CardinalityType
<1> QED
  BY <1>3, <1>4, <1>5

LEMMA InitIInv == Init => IInv
<1> USE IpcAssumption DEF Init
<1>1. Init => TypeOK
  BY DEF TypeOK, Creating, Stopping, Attaching, Gone, Queues
<1>2. Init => References
  BY DEF References, Using
<1>3. Init => SingleOwner /\ Flags /\ Users
  BY DEF SingleOwner, Flags, Users, Using, Creating, Stopping
<1> QED
  BY <1>1, <1>2, <1>3 DEF IInv

\* Every step of Database, TcpServer, PriceUpdater or the operator keeps the
\* invariant.
LEMMA StepIInv == IInv /\ [Next]_vars => IInv'
<1> SUFFICES ASSUME IInv, [Next]_vars PROVE IInv'
  OBVIOUS
<1> USE IpcAssumption
<1> USE DEF IInv, TypeOK, References, SingleOwner, Flags, Users, Using,
            Creating, Stopping, Attaching, Gone, Queues, ToDatabase, ToTcp,
            Detach, DbGoto, TcpGoto, vars, shm
<1>1. ASSUME NEW d \in Databases, write_pid_file(d) PROVE IInv'
  BY <1>1 DEF write_pid_file
<1>2. ASSUME NEW d \in Databases, OpenTables(d) PROVE IInv'
  BY <1>2 DEF OpenTables
<1>3. ASSUME NEW d \in Databases, initialize_shared_memory(d) PROVE IInv'
  BY <1>3 DEF initialize_shared_memory
<1>4. ASSUME NEW d \in Databases,
             CreateQueue(d, ToDatabase, "queue1", "ready1")
      PROVE  IInv'
  BY <1>4 DEF CreateQueue
<1>5. ASSUME NEW d \in Databases,
             PublishQueue(d, ToDatabase, "ready1", "queue2")
      PROVE  IInv'
  BY <1>5 DEF PublishQueue
<1>6. ASSUME NEW d \in Databases,
             CreateQueue(d, ToTcp, "queue2", "ready2")
      PROVE  IInv'
  BY <1>6 DEF CreateQueue
<1>7. ASSUME NEW d \in Databases,
             PublishQueue(d, ToTcp, "ready2", "mask")
      PROVE  IInv'
  BY <1>7 DEF PublishQueue
<1>8. ASSUME NEW d \in Databases, BlockSignals(d) PROVE IInv'
  BY <1>8 DEF BlockSignals
<1>9. ASSUME NEW d \in Databases, Sigint(d) PROVE IInv'
  BY <1>9 DEF Sigint
<1>10. ASSUME NEW d \in Databases, RestoreMask(d) PROVE IInv'
  BY <1>10 DEF RestoreMask
<1>11. ASSUME NEW d \in Databases,
             ClearFlag(d, ToTcp, "unready1", "unready2")
      PROVE  IInv'
  BY <1>11 DEF ClearFlag
<1>12. ASSUME NEW d \in Databases,
             ClearFlag(d, ToDatabase, "unready2", "wait")
      PROVE  IInv'
  BY <1>12 DEF ClearFlag
<1>13. ASSUME NEW d \in Databases, WaitForOthers(d) PROVE IInv'
  <2>1. d \in attached[d] /\ Cardinality(attached[d]) <= 1
    BY <1>13 DEF WaitForOthers, attached_count
  <2>2. IsFiniteSet(attached[d])
    <3>1. attached[d] \subseteq TcpServers \cup {d}
      OBVIOUS
    <3>2. IsFiniteSet(TcpServers \cup {d})
      BY FS_AddElement
    <3> QED
      BY <3>1, <3>2, FS_Subset
  <2>3. \A t \in attached[d] : t = d
    BY <2>1, <2>2, AloneMeansAlone
  <2>4. \A t \in TcpServers : ~(seg[t] = d /\ tcp[t] \in Using)
    BY <2>3
  <2> USE <1>13 DEF WaitForOthers
  <2>5. TypeOK'
    OBVIOUS
  <2>6. References' /\ SingleOwner' /\ Flags'
    OBVIOUS
  <2>7. Users'
    BY <2>4
  <2> QED
    BY <2>5, <2>6, <2>7
<1>14. ASSUME NEW d \in Databases, DetachSegment(d) PROVE IInv'
  <2> USE <1>14 DEF DetachSegment
  <2>1. TypeOK'
    OBVIOUS
  <2>2. References'
    OBVIOUS
  <2>3. SingleOwner' /\ Flags'
    OBVIOUS
  <2>4. Users'
    OBVIOUS
  <2> QED
    BY <2>1, <2>2, <2>3, <2>4
<1>15. ASSUME NEW d \in Databases, RemoveSegment(d) PROVE IInv'
  <2> USE <1>15 DEF RemoveSegment
  <2>1. TypeOK'
    OBVIOUS
  <2>2. References'
    OBVIOUS
  <2>3. SingleOwner' /\ Flags'
    OBVIOUS
  <2>4. Users'
    OBVIOUS
  <2> QED
    BY <2>1, <2>2, <2>3, <2>4
<1>16. ASSUME NEW d \in Databases, remove_pid_file(d) PROVE IInv'
  BY <1>16 DEF remove_pid_file
<1>17. ASSUME NEW d \in Databases, KillDatabase(d) PROVE IInv'
  BY <1>17 DEF KillDatabase
<1>18. ASSUME NEW t \in TcpServers, Launch(t) PROVE IInv'
  BY <1>18 DEF Launch
<1>19. ASSUME NEW t \in TcpServers, ShmGet(t) PROVE IInv'
  BY <1>19 DEF ShmGet
<1>20. ASSUME NEW t \in TcpServers, ShmAt(t) PROVE IInv'
  BY <1>20 DEF ShmAt
<1>21. ASSUME NEW t \in TcpServers, wait_for_queues(t) PROVE IInv'
  BY <1>21 DEF wait_for_queues
<1>22. ASSUME NEW t \in TcpServers, attach_queues(t) PROVE IInv'
  BY <1>22 DEF attach_queues
<1>23. ASSUME NEW t \in TcpServers, Shutdown(t) PROVE IInv'
  BY <1>23 DEF Shutdown
<1>24. ASSUME NEW t \in TcpServers, KillTcpServer(t) PROVE IInv'
  BY <1>24 DEF KillTcpServer
<1>25. ASSUME read_database_pid PROVE IInv'
  BY <1>25 DEF read_database_pid
<1>26. ASSUME notify_database PROVE IInv'
  BY <1>26 DEF notify_database
<1>27. ASSUME UNCHANGED vars PROVE IInv'
  BY <1>27
<1> HIDE DEF IInv, TypeOK, References, SingleOwner, Flags, Users, vars
<1> QED
  BY <1>1, <1>2, <1>3, <1>4, <1>5, <1>6, <1>7, <1>8, <1>9, <1>10, <1>11, <1>12, <1>13, <1>14, <1>15, <1>16, <1>17, <1>18, <1>19, <1>20, <1>21, <1>22, <1>23, <1>24, <1>25, <1>26, <1>27
     DEF Next, Database, TcpServer, initialize_queues, ClearFlags

-----------------------------------------------------------------------------
\* The invariant holds throughout.
THEOREM Invariance == Spec => []IInv
<1> QED
  BY InitIInv, StepIInv, PTL DEF Spec

\* Types, and a process is attached to a segment exactly while its program
\* counter says so, for any number of runs of the two programs.
THEOREM TypeCorrect == Spec => []TypeOK
<1>1. IInv => TypeOK
  BY DEF IInv
<1> QED
  BY <1>1, Invariance, PTL

\* While a Database works with its segment, the IPC key names that segment.
THEOREM Ownership == Spec => []SingleOwner
<1>1. IInv => SingleOwner
  BY DEF IInv
<1> QED
  BY <1>1, Invariance, PTL

\* wait_for_queues lets a TcpServer through only to initialised queues.
THEOREM Initialised == Spec => []QueuesInitialisedBeforeUse
<1>1. IInv => QueuesInitialisedBeforeUse
  <2> SUFFICES ASSUME IInv, NEW t \in TcpServers, tcp[t] \in {"queues", "run"}
               PROVE  queues[seg[t]] = Queues
    BY DEF QueuesInitialisedBeforeUse
  <2>1. Queues \subseteq queues[seg[t]]
    BY DEF IInv, Users, Using, Queues
  <2>2. queues[seg[t]] \subseteq Queues
    BY DEF IInv, TypeOK, References, Using
  <2> QED
    BY <2>1, <2>2
<1> QED
  BY <1>1, Invariance, PTL

\* Database::shutdown never removes the segment of a TcpServer that uses the
\* queues.
THEOREM LiveSegment == Spec => []RunningOnLiveSegment
<1>1. IInv => RunningOnLiveSegment
  BY DEF IInv, Users, Using, RunningOnLiveSegment
<1> QED
  BY <1>1, Invariance, PTL

=============================================================================
