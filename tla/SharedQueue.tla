----------------------------- MODULE SharedQueue -----------------------------
(***************************************************************************)
(* Libraries/Queue: a ring buffer in a shared memory segment, used by      *)
(* several processes and guarded by a POSIX named semaphore that serves as *)
(* a mutex.  The grain is one action per access to the shared header or    *)
(* data: the semaphore is what makes push and pop atomic, so nothing here  *)
(* assumes that they are.                                                  *)
(*                                                                         *)
(* A process can be killed between any two steps.  The kernel does not     *)
(* give back the permit of a process that dies between sem_wait and        *)
(* sem_post, and sem_open on an existing semaphore ignores the initial     *)
(* value, so a restarted process finds the semaphore as it was left.       *)
(*                                                                         *)
(* Init is the state the creating constructor leaves (create = true); a    *)
(* Restart is the attaching one (create = false), which finds matching     *)
(* capacity and element size.  Objects are valid: the null checks that     *)
(* start push and pop never fire.                                          *)
(***************************************************************************)
EXTENDS Integers, Sequences

CONSTANTS Procs,      \* processes (threads) that hold the queue open
          Items,      \* elements that can be pushed
          Capacity,   \* capacity_: number of slots (32 for both IPC queues)
          NoItem      \* content of a slot or buffer nothing was copied to

ASSUME CapacityAssumption == Capacity \in Nat \ {0}
ASSUME NoItemAssumption == NoItem \notin Items

VARIABLES head, tail, count,   \* queue_header_t
          data,                \* the slots after the header
          sem,                 \* value of the named semaphore
          pc,                  \* pc[p]: the next step of process p
          buf,                 \* buf[p]: what `item' points to in p's call
          ok,                  \* ok[p]: what p's last push or pop answered
          stranded             \* history: the step at which a process died
                               \* with the permit, or "none"

header == <<head, tail, count>>
vars == <<head, tail, count, data, sem, pc, buf, ok, stranded>>

-----------------------------------------------------------------------------
Slots == 0 .. Capacity - 1

\* Steps between sem_wait and sem_post.
InCS == {"push_check", "push_copy", "push_tail", "push_count",
         "pop_check", "pop_copy", "pop_head", "pop_count", "post"}

Steps == InCS \cup {"idle", "push_wait", "pop_wait", "dead"}

Goto(p, step) == pc' = [pc EXCEPT ![p] = step]

is_empty == count = 0

is_full == count >= Capacity

\* Mutant: the semaphore is created with the value 2.
InitTwoPermits ==
  /\ head = 0 /\ tail = 0 /\ count = 0
  /\ data = [i \in Slots |-> NoItem]
  /\ sem = 2
  /\ pc = [p \in Procs |-> "idle"]
  /\ buf = [p \in Procs |-> NoItem]
  /\ ok = [p \in Procs |-> FALSE]
  /\ stranded = "none"

Init ==
  /\ head = 0 /\ tail = 0 /\ count = 0
  /\ data = [i \in Slots |-> NoItem]
  /\ sem = 1
  /\ pc = [p \in Procs |-> "idle"]
  /\ buf = [p \in Procs |-> NoItem]
  /\ ok = [p \in Procs |-> FALSE]
  /\ stranded = "none"

-----------------------------------------------------------------------------
CallPush(p, it) ==
  /\ pc[p] = "idle"
  /\ buf' = [buf EXCEPT ![p] = it]
  /\ Goto(p, "push_wait")
  /\ UNCHANGED <<header, data, sem, ok, stranded>>

CallPop(p) ==
  /\ pc[p] = "idle"
  /\ buf' = [buf EXCEPT ![p] = NoItem]
  /\ Goto(p, "pop_wait")
  /\ UNCHANGED <<header, data, sem, ok, stranded>>

SemWait(p) ==
  /\ sem > 0
  /\ \/ pc[p] = "push_wait" /\ Goto(p, "push_check")
     \/ pc[p] = "pop_wait" /\ Goto(p, "pop_check")
  /\ sem' = sem - 1
  /\ UNCHANGED <<header, data, buf, ok, stranded>>

\* Mutant: the early return on a full queue forgets sem_post.
PushCheckNoPost(p) ==
  /\ pc[p] = "push_check"
  /\ IF is_full THEN ok' = [ok EXCEPT ![p] = FALSE] /\ Goto(p, "idle")
                ELSE UNCHANGED ok /\ Goto(p, "push_copy")
  /\ UNCHANGED <<header, data, sem, buf, stranded>>

PushCheck(p) ==
  /\ pc[p] = "push_check"
  /\ IF is_full THEN ok' = [ok EXCEPT ![p] = FALSE] /\ Goto(p, "post")
                ELSE UNCHANGED ok /\ Goto(p, "push_copy")
  /\ UNCHANGED <<header, data, sem, buf, stranded>>

PushCopy(p) ==
  /\ pc[p] = "push_copy"
  /\ data' = [data EXCEPT ![tail] = buf[p]]
  /\ Goto(p, "push_tail")
  /\ UNCHANGED <<header, sem, buf, ok, stranded>>

\* Mutant: tail does not wrap around.
PushTailNoWrap(p) ==
  /\ pc[p] = "push_tail"
  /\ tail' = tail + 1
  /\ Goto(p, "push_count")
  /\ UNCHANGED <<head, count, data, sem, buf, ok, stranded>>

PushTail(p) ==
  /\ pc[p] = "push_tail"
  /\ tail' = (tail + 1) % Capacity
  /\ Goto(p, "push_count")
  /\ UNCHANGED <<head, count, data, sem, buf, ok, stranded>>

PushCount(p) ==
  /\ pc[p] = "push_count"
  /\ count' = count + 1
  /\ ok' = [ok EXCEPT ![p] = TRUE]
  /\ Goto(p, "post")
  /\ UNCHANGED <<head, tail, data, sem, buf, stranded>>

\* Mutant: pop waits for an element inside the critical section.
PopCheckWaits(p) ==
  /\ pc[p] = "pop_check"
  /\ ~is_empty
  /\ UNCHANGED ok /\ Goto(p, "pop_copy")
  /\ UNCHANGED <<header, data, sem, buf, stranded>>

PopCheck(p) ==
  /\ pc[p] = "pop_check"
  /\ IF is_empty THEN ok' = [ok EXCEPT ![p] = FALSE] /\ Goto(p, "post")
                 ELSE UNCHANGED ok /\ Goto(p, "pop_copy")
  /\ UNCHANGED <<header, data, sem, buf, stranded>>

\* Mutant: pop takes the newest element.
PopCopyNewest(p) ==
  /\ pc[p] = "pop_copy"
  /\ buf' = [buf EXCEPT ![p] = data[(tail + Capacity - 1) % Capacity]]
  /\ Goto(p, "pop_head")
  /\ UNCHANGED <<header, data, sem, ok, stranded>>

PopCopy(p) ==
  /\ pc[p] = "pop_copy"
  /\ buf' = [buf EXCEPT ![p] = data[head]]
  /\ Goto(p, "pop_head")
  /\ UNCHANGED <<header, data, sem, ok, stranded>>

\* Mutant: head stays.
PopHeadStays(p) ==
  /\ pc[p] = "pop_head"
  /\ Goto(p, "pop_count")
  /\ UNCHANGED <<header, data, sem, buf, ok, stranded>>

PopHead(p) ==
  /\ pc[p] = "pop_head"
  /\ head' = (head + 1) % Capacity
  /\ Goto(p, "pop_count")
  /\ UNCHANGED <<tail, count, data, sem, buf, ok, stranded>>

PopCount(p) ==
  /\ pc[p] = "pop_count"
  /\ count' = count - 1
  /\ ok' = [ok EXCEPT ![p] = TRUE]
  /\ Goto(p, "post")
  /\ UNCHANGED <<head, tail, data, sem, buf, stranded>>

SemPost(p) ==
  /\ pc[p] = "post"
  /\ sem' = sem + 1
  /\ Goto(p, "idle")
  /\ UNCHANGED <<header, data, buf, ok, stranded>>

\* The process is killed and its memory is gone; a permit it holds is not
\* returned.
Crash(p) ==
  /\ pc[p] # "dead"
  /\ stranded' = IF pc[p] \in InCS THEN pc[p] ELSE stranded
  /\ buf' = [buf EXCEPT ![p] = NoItem]
  /\ ok' = [ok EXCEPT ![p] = FALSE]
  /\ Goto(p, "dead")
  /\ UNCHANGED <<header, data, sem>>

\* Mutant: the attaching constructor clears the slots.
RestartClearsSlots(p) ==
  /\ pc[p] = "dead"
  /\ Goto(p, "idle")
  /\ data' = [i \in Slots |-> NoItem]
  /\ UNCHANGED <<header, sem, buf, ok, stranded>>

\* A new process attaches: sem_open finds the semaphore, the header is kept.
Restart(p) ==
  /\ pc[p] = "dead"
  /\ Goto(p, "idle")
  /\ UNCHANGED <<header, data, sem, buf, ok, stranded>>

-----------------------------------------------------------------------------
Push(p) == PushCheck(p) \/ PushCopy(p) \/ PushTail(p) \/ PushCount(p)

Pop(p) == PopCheck(p) \/ PopCopy(p) \/ PopHead(p) \/ PopCount(p)

Next ==
  \E p \in Procs :
    \/ \E it \in Items : CallPush(p, it)
    \/ CallPop(p)
    \/ SemWait(p)
    \/ Push(p)
    \/ Pop(p)
    \/ SemPost(p)
    \/ Crash(p)
    \/ Restart(p)

Spec == Init /\ [][Next]_vars

\* The scheduler runs every process, and a waiter on a semaphore that keeps
\* being posted is eventually the one that takes it.
Fairness ==
  \A p \in Procs : /\ WF_vars(Push(p) \/ Pop(p) \/ SemPost(p))
                   /\ SF_vars(SemWait(p))

FairSpec == Spec /\ Fairness

-----------------------------------------------------------------------------
\* Type correctness of the header, the slots and the processes.
TypeOK ==
  /\ head \in Slots /\ tail \in Slots /\ count \in 0 .. Capacity
  /\ data \in [Slots -> Items \cup {NoItem}]
  /\ sem \in {0, 1}
  /\ pc \in [Procs -> Steps]
  /\ buf \in [Procs -> Items \cup {NoItem}]
  /\ ok \in [Procs -> BOOLEAN]
  /\ stranded \in InCS \cup {"none"}

\* Binary semaphore (Docs/Architectural-Design-Decisions.md:189): at most one
\* process is between sem_wait and sem_post, whatever crashes happened.
MutualExclusion ==
  \A p, q \in Procs : pc[p] \in InCS /\ pc[q] \in InCS => p = q

\* The permit is never duplicated and is lost only with a process that died
\* holding it: it is in the semaphore, with one process, or stranded.
PermitAccounting ==
  /\ sem = 1 => stranded = "none" /\ \A p \in Procs : pc[p] \notin InCS
  /\ stranded # "none" => \A p \in Procs : pc[p] \notin InCS
  /\ sem = 0 /\ stranded = "none" => \E p \in Procs : pc[p] \in InCS

\* There is one permit, it is in one place, and its holder is alone between
\* sem_wait and sem_post, whoever is killed where.
OnePermit == MutualExclusion /\ PermitAccounting

\* Somebody, alive or dead with the permit, is about to take this step.
At(step) == stranded = step \/ \E p \in Procs : pc[p] = step

\* Number of elements between head and tail.  The header is updated field by
\* field, so it differs from count inside push and pop.
Occupied == IF At("push_count") THEN count + 1
            ELSE IF At("pop_count") THEN count - 1
            ELSE count

\* The three header fields describe one window of the ring, in every
\* intermediate state of push and pop and also where a process died in one.
RingConsistent ==
  /\ Occupied \in 0 .. Capacity
  /\ tail = (head + Occupied) % Capacity
  /\ \A i \in 0 .. Occupied - 1 : data[(head + i) % Capacity] \in Items

\* A header or a slot that a process left half written is never touched
\* again: those who come later block in sem_wait.
HalfWrittenNeverUsed ==
  [][stranded # "none" =>
       UNCHANGED <<header, data>> /\ \A p \in Procs : pc'[p] \notin InCS]_vars

\* push and pop always come back, unless the caller is killed or a process
\* died with the permit: nothing else can block a user of the queue.
OperationsReturn ==
  \A p \in Procs :
    pc[p] \notin {"idle", "dead"} ~> \/ pc[p] \in {"idle", "dead"}
                                     \/ stranded # "none"

-----------------------------------------------------------------------------
(* The refinement.  push takes effect when count is incremented, pop when  *)
(* head moves past the element it has copied, a refusal at the check.      *)

Content == [i \in 1 .. IF At("pop_count") THEN count - 1 ELSE count
              |-> data[(head + i - 1) % Capacity]]

Phase(p) ==
  CASE pc[p] \in {"push_wait", "push_check", "push_copy", "push_tail",
                  "push_count"} -> "push"
    [] pc[p] \in {"pop_wait", "pop_check", "pop_copy", "pop_head"} -> "pop"
    [] pc[p] \in {"pop_count", "post"} -> "done"
    [] OTHER -> pc[p]

Fifo == INSTANCE FifoQueue WITH
  queue <- Content,
  phase <- [p \in Procs |-> Phase(p)],
  buf <- [p \in Procs |-> IF pc[p] = "pop_head" THEN NoItem ELSE buf[p]],
  ok <- [p \in Procs |-> IF pc[p] = "pop_count" THEN TRUE ELSE ok[p]]

\* The ring buffer, step by step and with crashes, is a bounded FIFO queue:
\* no element is lost, duplicated, reordered or made up.
ImplementsFifo == Fifo!Spec

=============================================================================
