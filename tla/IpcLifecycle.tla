---------------------------- MODULE IpcLifecycle -----------------------------
(***************************************************************************)
(* Life of the shared memory segment: Database creates it, publishes its   *)
(* two queues and removes it; TcpServer attaches to it and detaches; and   *)
(* PriceUpdater finds Database through the PID file and signals it.        *)
(*                                                                         *)
(* Every member of Databases and TcpServers is one run of the program, so  *)
(* a restart is another member.  A Database creates at most one segment,   *)
(* which is named after it.  The grain is one action per system call or    *)
(* access to shared memory or to the PID file: nothing orders the          *)
(* processes but these.                                                    *)
(*                                                                         *)
(* A new segment is zero, which is NOT_READY and no queue header, so the   *)
(* assignments that set both flags to NOT_READY change nothing.  When a    *)
(* process ends, however it ends, the kernel detaches it.                  *)
(***************************************************************************)
EXTENDS Integers, FiniteSets

CONSTANTS Databases, TcpServers,  \* runs of the two programs
          MaxNotify,              \* bound: notifications PriceUpdater sends
          MayStop,                \* Database receives SIGINT
          MayKill,                \* processes may be killed at any moment
          MayFail,                \* system calls of a startup may fail
          None

ASSUME IpcAssumption ==
  /\ MaxNotify \in Nat
  /\ Databases \cap TcpServers = {} /\ None \notin Databases
  /\ IsFiniteSet(TcpServers)

VARIABLES key,        \* the segment the IPC key names, or None
          attached,   \* attached[s]: processes attached to segment s
          ready,      \* ready[s]: queues whose flag is READY
          queues,     \* queues[s]: queues whose header is initialised
          pid_file,   \* the Database the PID file names, or None
          db,         \* db[d]: next step of Database d
          blocked,    \* Databases with a SIGUSR1 pending behind the mask
          tcp, seg,   \* tcp[t]: next step of TcpServer t; seg[t]: its shm_id_
          updater,    \* PriceUpdater: the pid it has read, or None
          notified    \* bound: notifications so far

shm == <<key, attached, ready, queues>>
vars == <<shm, pid_file, db, blocked, tcp, seg, updater, notified>>

-----------------------------------------------------------------------------
ToDatabase == "tcp_to_database_queue"
ToTcp == "database_to_tcp_queue"
Queues == {ToDatabase, ToTcp}

Gone == {"exited", "killed", "signalled"}

Init ==
  /\ key = None
  /\ attached = [s \in Databases |-> {}]
  /\ ready = [s \in Databases |-> {}]
  /\ queues = [s \in Databases |-> {}]
  /\ pid_file = None
  /\ db = [d \in Databases |-> "off"]
  /\ blocked = {}
  /\ tcp = [t \in TcpServers |-> "off"]
  /\ seg = [t \in TcpServers |-> None]
  /\ updater = None /\ notified = 0

attached_count(s) == Cardinality(attached[s])

Exists(s) == key = s \/ attached[s] # {}

Detach(p) == attached' = [s \in Databases |-> attached[s] \ {p}]

DbGoto(d, step) == db' = [db EXCEPT ![d] = step]

TcpGoto(t, step) == tcp' = [tcp EXCEPT ![t] = step]

-----------------------------------------------------------------------------
(* Database::initialize.                                                   *)

\* A failure runs shutdown(), which has no shared memory yet and removes the
\* PID file, whoever's it is.
write_pid_file(d) ==
  /\ db[d] = "off"
  /\ \/ pid_file' = d /\ DbGoto(d, "tables")
     \/ MayFail /\ pid_file' \in {pid_file, None} /\ DbGoto(d, "exited")
  /\ UNCHANGED <<shm, blocked, tcp, seg, updater, notified>>

\* sqlite_database_open and sqlite_database_initialize.
OpenTables(d) ==
  /\ db[d] = "tables"
  /\ \/ UNCHANGED pid_file /\ DbGoto(d, "create")
     \/ MayFail /\ pid_file' = None /\ DbGoto(d, "exited")
  /\ UNCHANGED <<shm, blocked, tcp, seg, updater, notified>>

\* Mutant: an existing segment is taken for a stale one and replaced.
ReplaceSegment(d) ==
  /\ db[d] = "create"
  /\ key' = d
  /\ attached' = [attached EXCEPT ![d] = {d}]
  /\ DbGoto(d, "queue1")
  /\ UNCHANGED <<ready, queues, pid_file, blocked, tcp, seg, updater, notified>>

\* SharedMemory::create: IPC_EXCL, then shmat().  A failure leaves main()
\* without shutdown(): the PID file stays, and so does a segment that was
\* made but not attached.
initialize_shared_memory(d) ==
  /\ db[d] = "create"
  /\ \/ /\ key # None
        /\ DbGoto(d, "exited")
        /\ UNCHANGED <<key, attached>>
     \/ /\ key = None /\ key' = d
        /\ \/ /\ attached' = [attached EXCEPT ![d] = {d}]
              /\ DbGoto(d, "queue1")
           \/ /\ MayFail
              /\ DbGoto(d, "exited")
              /\ UNCHANGED attached
  /\ UNCHANGED <<ready, queues, pid_file, blocked, tcp, seg, updater, notified>>

\* SharedQueue's constructor with create = true.  If sem_open() fails main()
\* returns at once; the second failure first takes back the first flag.
CreateQueue(d, q, step, next) ==
  /\ db[d] = step
  /\ \/ /\ queues' = [queues EXCEPT ![d] = @ \cup {q}]
        /\ DbGoto(d, next)
        /\ UNCHANGED <<attached, ready>>
     \/ /\ MayFail
        /\ ready' = [ready EXCEPT ![d] = {}]
        /\ Detach(d)
        /\ DbGoto(d, "exited")
        /\ UNCHANGED queues
  /\ UNCHANGED <<key, pid_file, blocked, tcp, seg, updater, notified>>

PublishQueue(d, q, step, next) ==
  /\ db[d] = step
  /\ ready' = [ready EXCEPT ![d] = @ \cup {q}]
  /\ DbGoto(d, next)
  /\ UNCHANGED <<key, attached, queues, pid_file, blocked, tcp, seg, updater,
                 notified>>

\* Mutant: each flag is raised before its queue is initialised.
PublishFirst(d) ==
  \/ PublishQueue(d, ToDatabase, "queue1", "ready1")
  \/ CreateQueue(d, ToDatabase, "ready1", "queue2")
  \/ PublishQueue(d, ToTcp, "queue2", "ready2")
  \/ CreateQueue(d, ToTcp, "ready2", "mask")

\* Mutant: the second flag is never raised.
PublishOne(d) ==
  \/ CreateQueue(d, ToDatabase, "queue1", "ready1")
  \/ PublishQueue(d, ToDatabase, "ready1", "queue2")
  \/ CreateQueue(d, ToTcp, "queue2", "mask")

initialize_queues(d) ==
  \/ CreateQueue(d, ToDatabase, "queue1", "ready1")
  \/ PublishQueue(d, ToDatabase, "ready1", "queue2")
  \/ CreateQueue(d, ToTcp, "queue2", "ready2")
  \/ PublishQueue(d, ToTcp, "ready2", "mask")

-----------------------------------------------------------------------------
(* Database::run.                                                          *)

\* SIGINT and SIGUSR1 are blocked and the threads started; run() returns
\* early, and shutdown() follows, if anything fails.
BlockSignals(d) ==
  /\ db[d] = "mask"
  /\ \/ DbGoto(d, "run")
     \/ MayFail /\ DbGoto(d, "unready1")
  /\ UNCHANGED <<shm, pid_file, blocked, tcp, seg, updater, notified>>

Sigint(d) ==
  /\ MayStop /\ db[d] = "run"
  /\ DbGoto(d, "join")
  /\ UNCHANGED <<shm, pid_file, blocked, tcp, seg, updater, notified>>

\* The threads are joined and the old mask is restored, which delivers a
\* SIGUSR1 that came after sigwait() was left: its default action terminates.
RestoreMask(d) ==
  /\ db[d] = "join"
  /\ blocked' = blocked \ {d}
  /\ \/ /\ d \in blocked /\ DbGoto(d, "signalled") /\ Detach(d)
     \/ /\ d \notin blocked /\ DbGoto(d, "unready1") /\ UNCHANGED attached
  /\ UNCHANGED <<key, ready, queues, pid_file, tcp, seg, updater, notified>>

-----------------------------------------------------------------------------
(* Database::shutdown.                                                     *)

ClearFlag(d, q, step, next) ==
  /\ db[d] = step
  /\ ready' = [ready EXCEPT ![d] = @ \ {q}]
  /\ DbGoto(d, next)
  /\ UNCHANGED <<key, attached, queues, pid_file, blocked, tcp, seg, updater,
                 notified>>

\* Mutant: the flags stay READY during shutdown.
KeepFlags(d) ==
  /\ db[d] = "unready1"
  /\ DbGoto(d, "wait")
  /\ UNCHANGED <<shm, pid_file, blocked, tcp, seg, updater, notified>>

ClearFlags(d) ==
  \/ ClearFlag(d, ToTcp, "unready1", "unready2")
  \/ ClearFlag(d, ToDatabase, "unready2", "wait")

\* Mutant: the loop waits for its own attachment to go, too.
WaitForAll(d) ==
  /\ db[d] = "wait" /\ attached_count(d) < 1
  /\ DbGoto(d, "detach")
  /\ UNCHANGED <<shm, pid_file, blocked, tcp, seg, updater, notified>>

\* The polling loop ends when nobody else is attached.
WaitForOthers(d) ==
  /\ db[d] = "wait" /\ attached_count(d) <= 1
  /\ DbGoto(d, "detach")
  /\ UNCHANGED <<shm, pid_file, blocked, tcp, seg, updater, notified>>

\* Mutant: the segment is removed while Database is attached.
DetachForgotten(d) ==
  /\ db[d] = "detach"
  /\ DbGoto(d, "remove")
  /\ UNCHANGED <<shm, pid_file, blocked, tcp, seg, updater, notified>>

DetachSegment(d) ==
  /\ db[d] = "detach"
  /\ Detach(d)
  /\ DbGoto(d, "remove")
  /\ UNCHANGED <<key, ready, queues, pid_file, blocked, tcp, seg, updater,
                 notified>>

\* SharedMemory::remove refuses if two or more are attached, and main()
\* returns.
RemoveSegment(d) ==
  /\ db[d] = "remove"
  /\ \/ /\ attached_count(d) > 1
        /\ DbGoto(d, "exited")
        /\ UNCHANGED key
     \/ /\ attached_count(d) <= 1
        /\ key' = None
        /\ DbGoto(d, "cleanup")
  /\ UNCHANGED <<attached, ready, queues, pid_file, blocked, tcp, seg, updater,
                 notified>>

remove_pid_file(d) ==
  /\ db[d] = "cleanup"
  /\ pid_file' = None
  /\ DbGoto(d, "exited")
  /\ UNCHANGED <<shm, blocked, tcp, seg, updater, notified>>

Database(d) ==
  \/ write_pid_file(d) \/ OpenTables(d) \/ initialize_shared_memory(d)
  \/ initialize_queues(d) \/ BlockSignals(d) \/ RestoreMask(d) \/ ClearFlags(d)
  \/ WaitForOthers(d) \/ DetachSegment(d) \/ RemoveSegment(d)
  \/ remove_pid_file(d)

-----------------------------------------------------------------------------
(* TcpServer::initialize, run and shutdown.                                *)

Launch(t) ==
  /\ tcp[t] = "off"
  /\ TcpGoto(t, "shmget")
  /\ UNCHANGED <<shm, pid_file, db, blocked, seg, updater, notified>>

\* attach(): shmget() then shmat(), retried until IPC_ATTACH_TIMEOUT_MS.
ShmGet(t) ==
  /\ tcp[t] = "shmget"
  /\ \/ /\ key # None
        /\ seg' = [seg EXCEPT ![t] = key]
        /\ TcpGoto(t, "shmat")
     \/ /\ key = None
        /\ TcpGoto(t, "exited")
        /\ UNCHANGED seg
  /\ UNCHANGED <<shm, pid_file, db, blocked, updater, notified>>

\* A segment that was removed can still be attached by its id as long as
\* somebody else is attached.
ShmAt(t) ==
  /\ tcp[t] = "shmat"
  /\ \/ /\ Exists(seg[t])
        /\ attached' = [attached EXCEPT ![seg[t]] = @ \cup {t}]
        /\ TcpGoto(t, "wait1")
     \/ /\ ~Exists(seg[t])
        /\ TcpGoto(t, "shmget")
        /\ UNCHANGED attached
  /\ UNCHANGED <<key, ready, queues, pid_file, db, blocked, seg, updater,
                 notified>>

\* wait_for_queues has no timeout; it reads one flag, then the other.
wait_for_queues(t) ==
  /\ \/ /\ tcp[t] = "wait1" /\ ToDatabase \in ready[seg[t]]
        /\ TcpGoto(t, "wait2")
     \/ /\ tcp[t] = "wait2"
        /\ TcpGoto(t, IF ToTcp \in ready[seg[t]] THEN "queues" ELSE "wait1")
  /\ UNCHANGED <<shm, pid_file, db, blocked, seg, updater, notified>>

\* SharedQueue's constructor with create = false compares the header; a
\* mismatch, or a failing sem_open() or pthread call, makes main() return.
attach_queues(t) ==
  /\ tcp[t] = "queues"
  /\ \/ queues[seg[t]] = Queues /\ TcpGoto(t, "run") /\ UNCHANGED attached
     \/ /\ queues[seg[t]] # Queues \/ MayFail
        /\ TcpGoto(t, "exited") /\ Detach(t)
  /\ UNCHANGED <<key, ready, queues, pid_file, db, blocked, seg, updater,
                 notified>>

\* SIGINT, the threads are joined, shutdown() detaches.
Shutdown(t) ==
  /\ tcp[t] = "run"
  /\ Detach(t)
  /\ TcpGoto(t, "exited")
  /\ UNCHANGED <<key, ready, queues, pid_file, db, blocked, seg, updater,
                 notified>>

TcpServer(t) ==
  ShmGet(t) \/ ShmAt(t) \/ wait_for_queues(t) \/ attach_queues(t)

-----------------------------------------------------------------------------
(* PriceUpdater and the operator.                                          *)

read_database_pid ==
  /\ updater = None /\ pid_file # None /\ notified < MaxNotify
  /\ updater' = pid_file
  /\ notified' = notified + 1
  /\ UNCHANGED <<shm, pid_file, db, blocked, tcp, seg>>

\* kill(database_pid, SIGUSR1): consumed by sigwait(), left pending behind the
\* mask, refused for a process that is gone, deadly for any other.
notify_database ==
  /\ updater # None
  /\ updater' = None
  /\ \/ /\ db[updater] \in Gone \cup {"run"}
        /\ UNCHANGED <<attached, db, blocked>>
     \/ /\ db[updater] = "join"
        /\ blocked' = blocked \cup {updater}
        /\ UNCHANGED <<attached, db>>
     \/ /\ db[updater] \notin Gone \cup {"run", "join"}
        /\ DbGoto(updater, "signalled")
        /\ Detach(updater)
        /\ UNCHANGED blocked
  /\ UNCHANGED <<key, ready, queues, pid_file, tcp, seg, notified>>

\* SIGKILL, a fault, or Ctrl+C while SIGINT is not blocked.
KillDatabase(d) ==
  /\ MayKill /\ db[d] \notin Gone \cup {"off"}
  /\ DbGoto(d, "killed")
  /\ Detach(d)
  /\ blocked' = blocked \ {d}
  /\ UNCHANGED <<key, ready, queues, pid_file, tcp, seg, updater, notified>>

KillTcpServer(t) ==
  /\ MayKill /\ tcp[t] \notin Gone \cup {"off"}
  /\ TcpGoto(t, "killed")
  /\ Detach(t)
  /\ UNCHANGED <<key, ready, queues, pid_file, db, blocked, seg, updater,
                 notified>>

Next ==
  \/ \E d \in Databases : Database(d) \/ Sigint(d) \/ KillDatabase(d)
  \/ \E t \in TcpServers :
       Launch(t) \/ TcpServer(t) \/ Shutdown(t) \/ KillTcpServer(t)
  \/ read_database_pid \/ notify_database

Spec == Init /\ [][Next]_vars

\* Processes that were started keep running; nobody has to start one, stop
\* one or kill one.
Fairness ==
  /\ \A d \in Databases : WF_vars(db[d] # "off" /\ Database(d))
  /\ \A t \in TcpServers : WF_vars(TcpServer(t))

FairSpec == Spec /\ Fairness

-----------------------------------------------------------------------------
Creating == {"queue1", "ready1", "queue2", "ready2", "mask"}
Stopping == {"join", "unready1", "unready2", "wait", "detach", "remove"}
Attaching == {"shmget", "shmat", "wait1", "wait2", "queues"}

\* Type correctness; a process is attached where its program counter says.
TypeOK ==
  /\ key \in Databases \cup {None}
  /\ ready \in [Databases -> SUBSET Queues]
  /\ queues \in [Databases -> SUBSET Queues]
  /\ pid_file \in Databases \cup {None}
  /\ db \in [Databases -> {"off", "tables", "create", "run", "cleanup"}
                          \cup Creating \cup Stopping \cup Gone]
  /\ blocked \subseteq {d \in Databases : db[d] = "join"}
  /\ tcp \in [TcpServers -> {"off", "run"} \cup Attaching \cup Gone]
  /\ \A s \in Databases :
       attached[s] =
         {d \in {s} : db[d] \in Creating \cup (Stopping \ {"remove"}) \cup {"run"}}
         \cup {t \in TcpServers : /\ seg[t] = s
                                  /\ tcp[t] \in {"wait1", "wait2", "queues", "run"}}

\* "A single owner responsible for the IPC lifetime"
\* (Docs/Architectural-Design-Decisions.md:305): while a Database works with
\* its segment, until it removes it, the key names that segment, whichever
\* other Databases start, fail, stop or are killed meanwhile.
SingleOwner ==
  \A d \in Databases : db[d] \in Creating \cup {"run"} \cup Stopping => key = d

\* The flags keep TcpServer "from accessing partially initialized shared
\* queues" (Docs/Architectural-Design-Decisions.md:327).
QueuesInitialisedBeforeUse ==
  \A t \in TcpServers : tcp[t] \in {"queues", "run"} => queues[seg[t]] = Queues

\* The segment under a TcpServer that uses the queues is not removed, though
\* Database may start to shut down at any point of its startup.
RunningOnLiveSegment ==
  \A t \in TcpServers : tcp[t] \in {"queues", "run"} => key = seg[t]

\* A TcpServer may be started before, while or after Database initialises:
\* it comes up or gives up, unless the Database it is attached to is no
\* longer on its way to run or in it.
StartupCompletes ==
  \A t \in TcpServers :
    tcp[t] = "shmget" ~>
      \/ tcp[t] \in Gone \cup {"run"}
      \/ seg[t] # None /\ db[seg[t]] \notin Creating \cup {"run"}

\* A Database that is stopping ends once the others stay away from its
\* segment.
ShutdownFinishes ==
  \A d \in Databases :
    <>[](attached[d] \subseteq {d}) => (db[d] \in Stopping ~> db[d] \in Gone)

\* "The Parking System does not require a predefined startup order"
\* (Docs/Architectural-Design-Decisions.md:348): a TcpServer that is started
\* comes up or gives up.
StartupIndependence ==
  \A t \in TcpServers : tcp[t] = "shmget" ~> tcp[t] \in Gone \cup {"run"}

\* PriceUpdater "can be executed at any time to ... notify the Database"
\* (README.md:283), "without restarting the system" (README.md:89).
NotifyNeverTerminates == \A d \in Databases : db[d] # "signalled"

=============================================================================
