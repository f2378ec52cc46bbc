------------------------------ MODULE FifoQueue ------------------------------
(***************************************************************************)
(* What SharedQueue promises to the processes that share it: a bounded     *)
(* first-in first-out queue whose push and pop each take effect at one     *)
(* instant between the call and the return, push answering false on a full *)
(* queue and pop answering false on an empty one.  A process may die at    *)
(* any moment and come back; an operation that was interrupted either has  *)
(* taken effect or has not.                                                *)
(*                                                                         *)
(* This is the abstract specification; module SharedQueue implements it.   *)
(***************************************************************************)
EXTENDS Integers, Sequences

CONSTANTS Procs,      \* processes (threads) that hold the queue open
          Items,      \* elements that can be pushed
          Capacity,   \* header_->capacity
          NoItem      \* content of a destination buffer nothing was copied to

VARIABLES queue,      \* the elements, oldest first
          phase,      \* phase[p]: what p is doing with the queue
          buf,        \* buf[p]: the caller's item / destination buffer
          ok          \* ok[p]: the answer of p's last completed operation

fvars == <<queue, phase, buf, ok>>

Init ==
  /\ queue = <<>>
  /\ phase = [p \in Procs |-> "idle"]
  /\ buf = [p \in Procs |-> NoItem]
  /\ ok = [p \in Procs |-> FALSE]

CallPush(p, it) ==
  /\ phase[p] = "idle"
  /\ phase' = [phase EXCEPT ![p] = "push"]
  /\ buf' = [buf EXCEPT ![p] = it]
  /\ UNCHANGED <<queue, ok>>

CallPop(p) ==
  /\ phase[p] = "idle"
  /\ phase' = [phase EXCEPT ![p] = "pop"]
  /\ buf' = [buf EXCEPT ![p] = NoItem]
  /\ UNCHANGED <<queue, ok>>

Finish(p, answer) ==
  /\ phase' = [phase EXCEPT ![p] = "done"]
  /\ ok' = [ok EXCEPT ![p] = answer]

DoPush(p) ==
  /\ phase[p] = "push"
  /\ UNCHANGED buf
  /\ \/ /\ Len(queue) < Capacity
        /\ queue' = Append(queue, buf[p])
        /\ Finish(p, TRUE)
     \/ /\ Len(queue) = Capacity
        /\ Finish(p, FALSE)
        /\ UNCHANGED queue

DoPop(p) ==
  /\ phase[p] = "pop"
  /\ \/ /\ queue # <<>>
        /\ buf' = [buf EXCEPT ![p] = Head(queue)]
        /\ queue' = Tail(queue)
        /\ Finish(p, TRUE)
     \/ /\ queue = <<>>
        /\ Finish(p, FALSE)
        /\ UNCHANGED <<queue, buf>>

Return(p) ==
  /\ phase[p] = "done"
  /\ phase' = [phase EXCEPT ![p] = "idle"]
  /\ UNCHANGED <<queue, buf, ok>>

Crash(p) ==
  /\ phase[p] # "dead"
  /\ phase' = [phase EXCEPT ![p] = "dead"]
  /\ buf' = [buf EXCEPT ![p] = NoItem]
  /\ ok' = [ok EXCEPT ![p] = FALSE]
  /\ UNCHANGED queue

Restart(p) ==
  /\ phase[p] = "dead"
  /\ phase' = [phase EXCEPT ![p] = "idle"]
  /\ UNCHANGED <<queue, buf, ok>>

Next ==
  \E p \in Procs :
    \/ \E it \in Items : CallPush(p, it)
    \/ CallPop(p)
    \/ DoPush(p)
    \/ DoPop(p)
    \/ Return(p)
    \/ Crash(p)
    \/ Restart(p)

Spec == Init /\ [][Next]_fvars

=============================================================================
