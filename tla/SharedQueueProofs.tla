-------------------------- MODULE SharedQueueProofs --------------------------
(***************************************************************************)
(* Proofs about SharedQueue, for every set of processes and elements and   *)
(* every capacity.                                                         *)
(***************************************************************************)
EXTENDS SharedQueue, TLAPS

-----------------------------------------------------------------------------
(* Arithmetic of the ring.                                                 *)

\* An index below the capacity is its own slot.
LEMMA ModBelow ==
  ASSUME NEW K \in Nat \ {0}, NEW a \in 0 .. K - 1
  PROVE  a % K = a
OBVIOUS

\* An index that ran past the last slot once wraps by the capacity.
LEMMA ModWrap ==
  ASSUME NEW K \in Nat \ {0}, NEW a \in K .. 2 * K - 1
  PROVE  a % K = a - K
BY Z3

\* What % makes of the sum of a slot and a length.
LEMMA RingIndex ==
  ASSUME NEW K \in Nat \ {0}, NEW h \in 0 .. K - 1, NEW i \in 0 .. K
  PROVE  /\ (h + i) % K = IF h + i < K THEN h + i ELSE h + i - K
         /\ (h + i) % K \in 0 .. K - 1
<1>1. CASE h + i < K
  BY <1>1, ModBelow
<1>2. CASE h + i >= K
  <2>1. h + i \in K .. 2 * K - 1
    BY <1>2
  <2>2. (h + i) % K = h + i - K
    BY <2>1, ModWrap
  <2> QED
    BY <2>1, <2>2, <1>2
<1> QED
  BY <1>1, <1>2

\* Advancing the end or the beginning of a window advances every index in it.
LEMMA RingSucc ==
  ASSUME NEW K \in Nat \ {0}, NEW h \in 0 .. K - 1, NEW i \in 0 .. K - 1
  PROVE  /\ (((h + i) % K) + 1) % K = (h + (i + 1)) % K
         /\ (((h + 1) % K) + i) % K = (h + (i + 1)) % K
<1>1. (h + i) % K = (IF h + i < K THEN h + i ELSE h + i - K)
      /\ (h + i) % K \in 0 .. K - 1
  <2>1. i \in 0 .. K
    OBVIOUS
  <2> QED
    BY <2>1, RingIndex
<1>2. (h + 1) % K = (IF h + 1 < K THEN h + 1 ELSE h + 1 - K)
      /\ (h + 1) % K \in 0 .. K - 1
  <2>1. 1 \in 0 .. K
    OBVIOUS
  <2> QED
    BY <2>1, RingIndex
<1>3. (h + (i + 1)) % K = IF h + (i + 1) < K THEN h + (i + 1)
                                            ELSE h + (i + 1) - K
  <2>1. i + 1 \in 0 .. K
    OBVIOUS
  <2> QED
    BY <2>1, RingIndex
<1>4. (((h + i) % K) + 1) % K = (h + (i + 1)) % K
  <2> DEFINE e == (h + i) % K
  <2>1. (e + 1) % K = IF e + 1 < K THEN e + 1 ELSE e + 1 - K
    <3>1. e \in 0 .. K - 1 /\ 1 \in 0 .. K
      BY <1>1
    <3> HIDE DEF e
    <3> QED
      BY <3>1, RingIndex
  <2> QED
    BY <2>1, <1>1, <1>3
<1>5. (((h + 1) % K) + i) % K = (h + (i + 1)) % K
  <2> DEFINE b == (h + 1) % K
  <2>1. (b + i) % K = IF b + i < K THEN b + i ELSE b + i - K
    <3>1. b \in 0 .. K - 1 /\ i \in 0 .. K
      BY <1>2
    <3> HIDE DEF b
    <3> QED
      BY <3>1, RingIndex
  <2> QED
    BY <2>1, <1>2, <1>3
<1> QED
  BY <1>4, <1>5

\* Taking the first element of a window of n leaves its end where it was.
LEMMA RingShrink ==
  ASSUME NEW K \in Nat \ {0}, NEW h \in 0 .. K - 1, NEW n \in 1 .. K
  PROVE  (((h + 1) % K) + (n - 1)) % K = (h + n) % K
<1> DEFINE m == n - 1
<1>1. m \in 0 .. K - 1 /\ n = m + 1
  OBVIOUS
<1> HIDE DEF m
<1>2. (((h + 1) % K) + m) % K = (h + (m + 1)) % K
  BY <1>1, RingSucc
<1> QED
  BY <1>1, <1>2 DEF m

\* Different offsets below the capacity are different slots.
LEMMA RingDistinct ==
  ASSUME NEW K \in Nat \ {0}, NEW h \in 0 .. K - 1,
         NEW i \in 0 .. K - 1, NEW j \in 0 .. K - 1, i # j
  PROVE  (h + i) % K # (h + j) % K
<1>0. i \in 0 .. K /\ j \in 0 .. K
  OBVIOUS
<1>1. (h + i) % K = IF h + i < K THEN h + i ELSE h + i - K
  BY <1>0, RingIndex
<1>2. (h + j) % K = IF h + j < K THEN h + j ELSE h + j - K
  BY <1>0, RingIndex
<1> QED
  BY <1>1, <1>2

-----------------------------------------------------------------------------
(* The inductive invariant.                                                *)

\* What a process inside push or pop has established about the header.
StepFacts ==
  \A p \in Procs :
    /\ pc[p] \in {"push_wait", "push_check", "push_copy", "push_tail",
                  "push_count"} => buf[p] \in Items
    /\ pc[p] \in {"push_copy", "push_tail", "push_count"} => count < Capacity
    /\ pc[p] \in {"pop_copy", "pop_head", "pop_count"} => count > 0
    /\ pc[p] = "push_tail" => data[tail] = buf[p]
    /\ pc[p] = "push_count" => data[(head + count) % Capacity] = buf[p]
    /\ pc[p] \in {"pop_wait", "pop_check", "pop_copy"} => buf[p] = NoItem
    /\ pc[p] = "pop_head" => buf[p] = data[head]

IInv ==
  /\ TypeOK
  /\ MutualExclusion
  /\ PermitAccounting
  /\ StepFacts
  /\ RingConsistent

\* The permit's holder is alone, and Occupied can be read off its pc.
LEMMA Holder ==
  ASSUME TypeOK, MutualExclusion, PermitAccounting,
         NEW p \in Procs, pc[p] \in InCS
  PROVE  /\ sem = 0
         /\ stranded = "none"
         /\ \A q \in Procs \ {p} : pc[q] \notin InCS
         /\ \A s \in InCS : At(s) <=> pc[p] = s
<1>1. sem = 0 /\ stranded = "none"
  BY DEF TypeOK, PermitAccounting
<1>2. \A q \in Procs \ {p} : pc[q] \notin InCS
  BY DEF MutualExclusion
<1>3. \A s \in InCS : At(s) <=> pc[p] = s
  BY <1>1, <1>2 DEF At, InCS
<1> QED
  BY <1>1, <1>2, <1>3

\* The creating constructor establishes the invariant.
LEMMA InitIInv == Init => IInv
<1> SUFFICES ASSUME Init PROVE IInv
  OBVIOUS
<1> USE CapacityAssumption DEF Init
<1>1. TypeOK
  BY DEF TypeOK, Slots, Steps, InCS
<1>2. MutualExclusion /\ PermitAccounting /\ StepFacts
  BY DEF MutualExclusion, PermitAccounting, StepFacts, InCS
<1>3. RingConsistent
  <2>1. Occupied = 0
    BY DEF Occupied, At
  <2>2. 0 % Capacity = 0
    BY ModBelow
  <2> QED
    BY <2>1, <2>2 DEF RingConsistent
<1> QED
  BY <1>1, <1>2, <1>3 DEF IInv

\* A step that leaves header and data alone and moves nobody in or out of the
\* two half-updated states keeps the ring consistent.
LEMMA RingStable ==
  ASSUME RingConsistent, UNCHANGED <<header, data>>,
         At("push_count")' <=> At("push_count"),
         At("pop_count")' <=> At("pop_count")
  PROVE  RingConsistent'
<1>1. Occupied' = Occupied
  BY DEF Occupied, header
<1> QED
  BY <1>1 DEF RingConsistent, header

\* Every step of every process preserves the invariant.
LEMMA StepIInv == IInv /\ [Next]_vars => IInv'
<1> SUFFICES ASSUME IInv, [Next]_vars PROVE IInv'
  OBVIOUS
<1> USE CapacityAssumption
<1> USE DEF IInv
<1>0. CASE UNCHANGED vars
  <2>1. TypeOK' /\ MutualExclusion' /\ PermitAccounting' /\ StepFacts'
    BY <1>0 DEF TypeOK, MutualExclusion, PermitAccounting, StepFacts, vars
  <2>2. RingConsistent'
    BY <1>0, RingStable DEF vars, header, At
  <2> QED
    BY <2>1, <2>2
<1>1. ASSUME NEW p \in Procs, NEW it \in Items, CallPush(p, it) PROVE IInv'
  <2> USE <1>1 DEF CallPush, Goto, header
  <2>1. TypeOK' /\ StepFacts'
    BY DEF TypeOK, StepFacts, Steps, InCS
  <2>2. MutualExclusion' /\ PermitAccounting'
    BY DEF TypeOK, MutualExclusion, PermitAccounting, InCS
  <2>3. RingConsistent'
    BY RingStable DEF At, TypeOK
  <2> QED
    BY <2>1, <2>2, <2>3
<1>2. ASSUME NEW p \in Procs, CallPop(p) PROVE IInv'
  <2> USE <1>2 DEF CallPop, Goto, header
  <2>1. TypeOK' /\ StepFacts'
    BY DEF TypeOK, StepFacts, Steps, InCS
  <2>2. MutualExclusion' /\ PermitAccounting'
    BY DEF TypeOK, MutualExclusion, PermitAccounting, InCS
  <2>3. RingConsistent'
    BY RingStable DEF At, TypeOK
  <2> QED
    BY <2>1, <2>2, <2>3
<1>3. ASSUME NEW p \in Procs, SemWait(p) PROVE IInv'
  <2> USE <1>3 DEF SemWait, Goto, header
  <2>1. /\ sem = 1 /\ sem' = 0 /\ stranded = "none"
        /\ \A q \in Procs : pc[q] \notin InCS
    BY DEF TypeOK, PermitAccounting
  <2>2. TypeOK' /\ StepFacts'
    BY <2>1 DEF TypeOK, StepFacts, Steps, InCS
  <2>3. MutualExclusion' /\ PermitAccounting'
    BY <2>1 DEF TypeOK, MutualExclusion, PermitAccounting, InCS
  <2>4. RingConsistent'
    BY RingStable DEF At, TypeOK
  <2> QED
    BY <2>2, <2>3, <2>4
<1>4. ASSUME NEW p \in Procs, PushCheck(p) PROVE IInv'
  <2> USE <1>4 DEF PushCheck, is_full, Goto, header
  <2>1. TypeOK'
    BY DEF TypeOK, Steps, InCS
  <2>2. StepFacts'
    BY DEF TypeOK, StepFacts
  <2>3. MutualExclusion' /\ PermitAccounting'
    BY DEF TypeOK, MutualExclusion, PermitAccounting, InCS
  <2>4. RingConsistent'
    BY RingStable DEF At, TypeOK
  <2> QED
    BY <2>1, <2>2, <2>3, <2>4
<1>4a. ASSUME NEW p \in Procs, PopCheck(p) PROVE IInv'
  <2> USE <1>4a DEF PopCheck, is_empty, Goto, header
  <2>1. TypeOK'
    BY DEF TypeOK, Steps, InCS
  <2>2. StepFacts'
    BY DEF TypeOK, StepFacts
  <2>3. MutualExclusion' /\ PermitAccounting'
    BY DEF TypeOK, MutualExclusion, PermitAccounting, InCS
  <2>4. RingConsistent'
    BY RingStable DEF At, TypeOK
  <2> QED
    BY <2>1, <2>2, <2>3, <2>4
<1>5. ASSUME NEW p \in Procs, SemPost(p) PROVE IInv'
  <2> USE <1>5 DEF SemPost, Goto, header
  <2>1. /\ sem = 0 /\ sem' = 1 /\ stranded = "none"
        /\ \A q \in Procs \ {p} : pc[q] \notin InCS
    BY Holder DEF InCS
  <2>2. TypeOK' /\ StepFacts'
    BY <2>1 DEF TypeOK, StepFacts, Steps, InCS
  <2>3. MutualExclusion' /\ PermitAccounting'
    BY <2>1 DEF TypeOK, MutualExclusion, PermitAccounting, InCS
  <2>4. RingConsistent'
    BY RingStable DEF At, TypeOK
  <2> QED
    BY <2>2, <2>3, <2>4
<1>6. ASSUME NEW p \in Procs, Crash(p) PROVE IInv'
  <2> USE <1>6 DEF Crash, Goto, header
  <2>1. TypeOK' /\ StepFacts'
    BY DEF TypeOK, StepFacts, Steps, InCS
  <2>2. MutualExclusion'
    BY DEF TypeOK, MutualExclusion, InCS
  <2>3. PermitAccounting'
    BY DEF TypeOK, MutualExclusion, PermitAccounting, InCS
  <2>4. pc[p] \in InCS => stranded = "none"
    BY DEF PermitAccounting
  <2>5. \A s \in {"push_count", "pop_count"} : At(s)' <=> At(s)
    <3> TAKE s \in {"push_count", "pop_count"}
    <3>1. CASE pc[p] = s
      BY <3>1 DEF At, TypeOK, InCS
    <3>2. CASE pc[p] # s /\ pc[p] \in InCS
      BY <3>2, <2>4 DEF At, TypeOK, InCS
    <3>3. CASE pc[p] \notin InCS
      BY <3>3 DEF At, TypeOK, InCS
    <3> QED
      BY <3>1, <3>2, <3>3
  <2>6. RingConsistent'
    BY <2>5, RingStable
  <2> QED
    BY <2>1, <2>2, <2>3, <2>6
<1>7. ASSUME NEW p \in Procs, Restart(p) PROVE IInv'
  <2> USE <1>7 DEF Restart, Goto, header
  <2>1. TypeOK' /\ StepFacts'
    BY DEF TypeOK, StepFacts, Steps, InCS
  <2>2. MutualExclusion' /\ PermitAccounting'
    BY DEF TypeOK, MutualExclusion, PermitAccounting, InCS
  <2>3. RingConsistent'
    BY RingStable DEF At, TypeOK
  <2> QED
    BY <2>1, <2>2, <2>3
<1>8. ASSUME NEW p \in Procs, PushCopy(p) PROVE IInv'
  <2> USE <1>8 DEF PushCopy, Goto, header
  <2>0. /\ pc[p] \in InCS /\ count < Capacity /\ buf[p] \in Items
        /\ Occupied = count
    BY Holder DEF StepFacts, InCS, Occupied
  <2>1. TypeOK'
    BY <2>0 DEF TypeOK, Steps, InCS
  <2>2. StepFacts'
    <3>1. \A q \in Procs \ {p} : pc[q] \notin InCS
      BY <2>0, Holder
    <3> QED
      BY <2>0, <3>1 DEF TypeOK, StepFacts, InCS
  <2>3. MutualExclusion' /\ PermitAccounting'
    BY DEF TypeOK, MutualExclusion, PermitAccounting, InCS
  <2>4. RingConsistent'
    <3>1. Occupied' = count
      BY <2>0, Holder DEF Occupied, At, TypeOK, InCS
    <3>2. tail = (head + count) % Capacity
      BY <2>0 DEF RingConsistent
    <3>3. \A i \in 0 .. count - 1 : (head + i) % Capacity # tail
      <4> TAKE i \in 0 .. count - 1
      <4>1. /\ i \in 0 .. Capacity - 1 /\ count \in 0 .. Capacity - 1
            /\ i # count
        BY <2>0 DEF TypeOK
      <4> QED
        BY <4>1, <3>2, RingDistinct DEF TypeOK, Slots
    <3>4. \A i \in 0 .. count - 1 : (head + i) % Capacity \in Slots
      BY RingIndex DEF TypeOK, Slots
    <3> QED
      BY <2>0, <3>1, <3>2, <3>3, <3>4 DEF RingConsistent, TypeOK
  <2> QED
    BY <2>1, <2>2, <2>3, <2>4
<1>9. ASSUME NEW p \in Procs, PushTail(p) PROVE IInv'
  <2> USE <1>9 DEF PushTail, Goto, header
  <2>0. /\ pc[p] \in InCS /\ count < Capacity /\ buf[p] \in Items
        /\ data[tail] = buf[p] /\ Occupied = count
        /\ \A q \in Procs \ {p} : pc[q] \notin InCS
    BY Holder DEF StepFacts, InCS, Occupied
  <2>00. tail' \in Slots /\ tail' = (tail + 1) % Capacity
    BY RingIndex DEF TypeOK, Slots
  <2>1. TypeOK'
    BY <2>0, <2>00 DEF TypeOK, Steps, InCS
  <2>2. StepFacts'
    <3>1. tail = (head + count) % Capacity
      BY <2>0 DEF RingConsistent
    <3> QED
      BY <2>0, <3>1 DEF TypeOK, StepFacts, InCS
  <2>3. MutualExclusion' /\ PermitAccounting'
    BY DEF TypeOK, MutualExclusion, PermitAccounting, InCS
  <2>4. RingConsistent'
    <3>1. Occupied' = count + 1
      BY <2>0, Holder DEF Occupied, At, TypeOK, InCS
    <3>2. tail = (head + count) % Capacity
      BY <2>0 DEF RingConsistent
    <3>3. tail' = (head + (count + 1)) % Capacity
      BY <2>0, <2>00, <3>2, RingSucc DEF TypeOK, Slots
    <3>4. data[(head + count) % Capacity] \in Items
      BY <2>0, <3>2
    <3> QED
      BY <2>0, <3>1, <3>3, <3>4 DEF RingConsistent, TypeOK
  <2> QED
    BY <2>1, <2>2, <2>3, <2>4
<1>10. ASSUME NEW p \in Procs, PushCount(p) PROVE IInv'
  <2> USE <1>10 DEF PushCount, Goto, header
  <2>0. /\ pc[p] \in InCS /\ count < Capacity /\ Occupied = count + 1
        /\ \A q \in Procs \ {p} : pc[q] \notin InCS
    BY Holder DEF StepFacts, InCS, Occupied
  <2>1. TypeOK'
    BY <2>0 DEF TypeOK, Steps, InCS
  <2>2. StepFacts'
    BY <2>0 DEF TypeOK, StepFacts, InCS
  <2>3. MutualExclusion' /\ PermitAccounting'
    BY DEF TypeOK, MutualExclusion, PermitAccounting, InCS
  <2>4. RingConsistent'
    <3>1. Occupied' = Occupied
      BY <2>0, Holder DEF Occupied, At, TypeOK, InCS
    <3> QED
      BY <3>1 DEF RingConsistent
  <2> QED
    BY <2>1, <2>2, <2>3, <2>4
<1>11. ASSUME NEW p \in Procs, PopCopy(p) PROVE IInv'
  <2> USE <1>11 DEF PopCopy, Goto, header
  <2>1. TypeOK'
    BY DEF TypeOK, Steps, InCS
  <2>2. StepFacts'
    BY DEF TypeOK, StepFacts
  <2>3. MutualExclusion' /\ PermitAccounting'
    BY DEF TypeOK, MutualExclusion, PermitAccounting, InCS
  <2>4. RingConsistent'
    BY RingStable DEF At, TypeOK
  <2> QED
    BY <2>1, <2>2, <2>3, <2>4
<1>12. ASSUME NEW p \in Procs, PopHead(p) PROVE IInv'
  <2> USE <1>12 DEF PopHead, Goto, header
  <2>0. /\ pc[p] \in InCS /\ count > 0 /\ Occupied = count
        /\ \A q \in Procs \ {p} : pc[q] \notin InCS
    BY Holder DEF StepFacts, InCS, Occupied
  <2>00. head' \in Slots /\ head' = (head + 1) % Capacity
    BY RingIndex DEF TypeOK, Slots
  <2>1. TypeOK'
    BY <2>0, <2>00 DEF TypeOK, Steps, InCS
  <2>2. StepFacts'
    BY <2>0 DEF TypeOK, StepFacts, InCS
  <2>3. MutualExclusion' /\ PermitAccounting'
    BY DEF TypeOK, MutualExclusion, PermitAccounting, InCS
  <2>4. RingConsistent'
    <3>1. Occupied' = count - 1
      BY <2>0, Holder DEF Occupied, At, TypeOK, InCS
    <3>2. \A i \in 0 .. Capacity - 1 :
            (head' + i) % Capacity = (head + (i + 1)) % Capacity
      BY <2>00, RingSucc DEF TypeOK, Slots
    <3>3. tail = (head' + (count - 1)) % Capacity
      <4>1. count \in 1 .. Capacity /\ head \in 0 .. Capacity - 1
        BY <2>0 DEF TypeOK, Slots
      <4>2. tail = (head + count) % Capacity
        BY <2>0 DEF RingConsistent
      <4>3. (((head + 1) % Capacity) + (count - 1)) % Capacity
              = (head + count) % Capacity
        BY <4>1, RingShrink
      <4> QED
        BY <2>00, <4>2, <4>3
    <3>4. \A i \in 0 .. count - 2 : data[(head' + i) % Capacity] \in Items
      <4> TAKE i \in 0 .. count - 2
      <4>1. i \in 0 .. Capacity - 1 /\ i + 1 \in 0 .. count - 1
        BY <2>0 DEF TypeOK
      <4>2. data[(head + (i + 1)) % Capacity] \in Items
        BY <4>1, <2>0 DEF RingConsistent
      <4> QED
        BY <4>1, <4>2, <3>2
    <3> QED
      BY <2>0, <3>1, <3>3, <3>4 DEF RingConsistent, TypeOK
  <2> QED
    BY <2>1, <2>2, <2>3, <2>4
<1>13. ASSUME NEW p \in Procs, PopCount(p) PROVE IInv'
  <2> USE <1>13 DEF PopCount, Goto, header
  <2>0. /\ pc[p] \in InCS /\ count > 0 /\ Occupied = count - 1
        /\ \A q \in Procs \ {p} : pc[q] \notin InCS
    BY Holder DEF StepFacts, InCS, Occupied
  <2>1. TypeOK'
    BY <2>0 DEF TypeOK, Steps, InCS
  <2>2. StepFacts'
    BY <2>0 DEF TypeOK, StepFacts, InCS
  <2>3. MutualExclusion' /\ PermitAccounting'
    BY DEF TypeOK, MutualExclusion, PermitAccounting, InCS
  <2>4. RingConsistent'
    <3>1. Occupied' = Occupied
      BY <2>0, Holder DEF Occupied, At, TypeOK, InCS
    <3> QED
      BY <3>1 DEF RingConsistent
  <2> QED
    BY <2>1, <2>2, <2>3, <2>4
<1> QED
  BY <1>0, <1>1, <1>2, <1>3, <1>4, <1>4a, <1>5, <1>6, <1>7, <1>8, <1>9,
     <1>10, <1>11, <1>12, <1>13 DEF Next, Push, Pop

-----------------------------------------------------------------------------
(* The theorems.                                                           *)

\* The invariant holds in every reachable state.
THEOREM Invariance == Spec => []IInv
BY InitIInv, StepIInv, PTL DEF Spec

\* Indices stay inside the ring, count between 0 and the capacity, and the
\* semaphore binary, for every capacity and any number of processes.
THEOREM TypeCorrect == Spec => []TypeOK
BY Invariance, PTL DEF IInv

\* The permit is in the semaphore, with one process, which is alone between
\* sem_wait and sem_post, or with a dead one.
THEOREM Permit == Spec => []OnePermit
BY Invariance, PTL DEF IInv, OnePermit

\* head, tail and count agree at every step of push and pop.
THEOREM Consistency == Spec => []RingConsistent
BY Invariance, PTL DEF IInv

\* What a process left half written when it died is never used again.
THEOREM HalfWritten == Spec => HalfWrittenNeverUsed
<1>1. IInv /\ [Next]_vars =>
        [stranded # "none" =>
           UNCHANGED <<header, data>> /\ \A p \in Procs : pc'[p] \notin InCS]_vars
  <2> SUFFICES ASSUME IInv, Next, stranded # "none"
               PROVE  /\ UNCHANGED <<header, data>>
                      /\ \A p \in Procs : pc'[p] \notin InCS
    BY DEF vars
  <2>1. sem = 0 /\ \A p \in Procs : pc[p] \notin InCS
    BY DEF IInv, TypeOK, PermitAccounting
  <2>2. PICK p \in Procs : \/ \E it \in Items : CallPush(p, it)
                           \/ CallPop(p) \/ SemWait(p) \/ Push(p) \/ Pop(p)
                           \/ SemPost(p) \/ Crash(p) \/ Restart(p)
    BY DEF Next
  <2>3. ~(SemWait(p) \/ Push(p) \/ Pop(p) \/ SemPost(p))
    BY <2>1 DEF SemWait, Push, Pop, SemPost, PushCheck, PushCopy, PushTail,
                PushCount, PopCheck, PopCopy, PopHead, PopCount, InCS
  <2> QED
    BY <2>1, <2>2, <2>3
       DEF IInv, TypeOK, CallPush, CallPop, Crash, Restart, Goto, InCS, header
<1> QED
  BY <1>1, Invariance, PTL DEF Spec, HalfWrittenNeverUsed
=============================================================================
