------------------------ MODULE SharedQueueRefinement ------------------------
(***************************************************************************)
(* SharedQueue implements FifoQueue, for every set of processes and        *)
(* elements and every capacity: the proof behind ImplementsFifo.           *)
(***************************************************************************)
EXTENDS SharedQueueProofs, SequenceTheorems

-----------------------------------------------------------------------------
(* Sequences given as functions.                                           *)

\* A function on 1..n is a sequence of length n.
LEMMA FunSeq ==
  ASSUME NEW n \in Nat, NEW S, NEW f \in [1 .. n -> S]
  PROVE  f \in Seq(S) /\ Len(f) = n
BY IsASeq, LenProperties

\* A function that agrees with f and has one more value is f with it appended.
LEMMA FunAppend ==
  ASSUME NEW n \in Nat, NEW S, NEW f \in [1 .. n -> S],
         NEW g \in [1 .. (n + 1) -> S], \A i \in 1 .. n : g[i] = f[i]
  PROVE  g = Append(f, g[n + 1])
<1>1. f \in Seq(S) /\ Len(f) = n /\ g \in Seq(S) /\ Len(g) = n + 1
  BY FunSeq
<1>2. g[n + 1] \in S
  OBVIOUS
<1>3. /\ Append(f, g[n + 1]) \in Seq(S)
      /\ Len(Append(f, g[n + 1])) = n + 1
      /\ Append(f, g[n + 1])[n + 1] = g[n + 1]
      /\ \A i \in 1 .. n : Append(f, g[n + 1])[i] = f[i]
  BY <1>1, <1>2, AppendProperties
<1>4. \A i \in 1 .. (n + 1) : g[i] = Append(f, g[n + 1])[i]
  BY <1>3
<1> QED
  BY <1>1, <1>3, <1>4, SeqEqual

\* A function that is f shifted by one is its tail.
LEMMA FunTail ==
  ASSUME NEW n \in Nat \ {0}, NEW S, NEW f \in [1 .. n -> S],
         NEW g \in [1 .. (n - 1) -> S], \A i \in 1 .. (n - 1) : g[i] = f[i + 1]
  PROVE  f # <<>> /\ Head(f) = f[1] /\ g = Tail(f)
<1>1. f \in Seq(S) /\ Len(f) = n /\ g \in Seq(S) /\ Len(g) = n - 1
  BY FunSeq
<1>2. f # <<>>
  BY <1>1
<1>3. /\ Head(f) = f[1] /\ Tail(f) \in Seq(S) /\ Len(Tail(f)) = n - 1
      /\ \A i \in 1 .. (n - 1) : Tail(f)[i] = f[i + 1]
  BY <1>1, <1>2, HeadTailProperties
<1> QED
  BY <1>1, <1>2, <1>3, SeqEqual

-----------------------------------------------------------------------------
(* The mapped state.                                                       *)

Buf == [p \in Procs |-> IF pc[p] = "pop_head" THEN NoItem ELSE buf[p]]
Ok == [p \in Procs |-> IF pc[p] = "pop_count" THEN TRUE ELSE ok[p]]
Phases == [p \in Procs |-> Phase(p)]

\* A step that leaves header and data alone and nobody in or out of the end
\* of pop leaves the abstract queue alone.
LEMMA ContentStable ==
  ASSUME UNCHANGED <<header, data>>, At("pop_count")' <=> At("pop_count")
  PROVE  Content' = Content
BY DEF Content, header

\* The abstract queue holds elements, as many as the header counts.
LEMMA ContentSeq ==
  ASSUME IInv, ~At("pop_count")
  PROVE  Content \in [1 .. count -> Items] /\ count \in Nat
<1>1. count \in Nat /\ head \in 0 .. Capacity - 1
  BY DEF IInv, TypeOK, Slots
<1>2. \A i \in 1 .. count : data[(head + i - 1) % Capacity] \in Items
  <2> TAKE i \in 1 .. count
  <2>1. Occupied \in {count, count + 1}
    BY DEF Occupied
  <2>2. i - 1 \in 0 .. Occupied - 1
    BY <1>1, <2>1
  <2>3. data[(head + (i - 1)) % Capacity] \in Items
    BY <2>2 DEF IInv, RingConsistent
  <2>4. head + (i - 1) = head + i - 1
    BY <1>1
  <2> QED
    BY <2>3, <2>4
<1> QED
  BY <1>1, <1>2 DEF Content

\* The creating constructor starts an empty queue.
LEMMA InitRefines == Init => Fifo!Init
<1> SUFFICES ASSUME Init PROVE Fifo!Init
  OBVIOUS
<1>1. Content = <<>>
  BY DEF Init, Content, At
<1> QED
  BY <1>1 DEF Init, Fifo!Init, Phase

\* Every step of the ring buffer is a step of the queue or changes nothing
\* that its users can see.
LEMMA StepRefines == IInv /\ IInv' /\ [Next]_vars => [Fifo!Next]_(Fifo!fvars)
<1> SUFFICES ASSUME IInv, IInv', [Next]_vars
             PROVE  Fifo!Next \/ UNCHANGED <<Content, Phases, Buf, Ok>>
  BY DEF Fifo!fvars, Phases, Buf, Ok
<1> USE CapacityAssumption
<1>t. TypeOK /\ MutualExclusion /\ PermitAccounting /\ StepFacts
  BY DEF IInv
<1>0. CASE UNCHANGED vars
  BY <1>0 DEF vars, header, Content, At, Phases, Phase, Buf, Ok
<1>1. ASSUME NEW p \in Procs, NEW it \in Items, CallPush(p, it)
      PROVE  Fifo!CallPush(p, it)
  <2>1. Content' = Content
    BY <1>1, <1>t, ContentStable DEF CallPush, Goto, At, TypeOK
  <2> QED
    BY <1>1, <1>t, <2>1 DEF CallPush, Goto, TypeOK, Fifo!CallPush, Phase
<1>2. ASSUME NEW p \in Procs, CallPop(p) PROVE Fifo!CallPop(p)
  <2>1. Content' = Content
    BY <1>2, <1>t, ContentStable DEF CallPop, Goto, At, TypeOK
  <2> QED
    BY <1>2, <1>t, <2>1 DEF CallPop, Goto, TypeOK, Fifo!CallPop, Phase
<1>3. ASSUME NEW p \in Procs, SemWait(p)
      PROVE  UNCHANGED <<Content, Phases, Buf, Ok>>
  <2>1. Content' = Content
    BY <1>3, <1>t, ContentStable DEF SemWait, Goto, At, TypeOK
  <2>2. Phases' = Phases
    BY <1>3, <1>t DEF SemWait, Goto, TypeOK, Phases, Phase
  <2>3. Buf' = Buf /\ Ok' = Ok
    BY <1>3, <1>t DEF SemWait, Goto, TypeOK, Buf, Ok
  <2> QED
    BY <2>1, <2>2, <2>3
<1>4. ASSUME NEW p \in Procs, PushCheck(p)
      PROVE  Fifo!DoPush(p) \/ UNCHANGED <<Content, Phases, Buf, Ok>>
  <2>1. Content' = Content
    BY <1>4, <1>t, ContentStable DEF PushCheck, Goto, At, TypeOK
  <2>2. CASE is_full
    <3>1. ~At("pop_count") /\ count = Capacity
      BY <1>4, <1>t, <2>2, Holder DEF PushCheck, InCS, TypeOK, is_full
    <3>2. Len(Content) = Capacity
      BY <3>1, ContentSeq, FunSeq
    <3>3. Phases[p] = "push" /\ Phases' = [Phases EXCEPT ![p] = "done"]
      BY <1>4, <1>t, <2>2 DEF PushCheck, Goto, TypeOK, Phases, Phase
    <3>4. Buf' = Buf /\ Ok' = [Ok EXCEPT ![p] = FALSE]
      BY <1>4, <1>t, <2>2 DEF PushCheck, Goto, TypeOK, Buf, Ok
    <3> QED
      BY <2>1, <3>2, <3>3, <3>4 DEF Fifo!DoPush, Fifo!Finish, Phases, Buf, Ok
  <2>3. CASE ~is_full
    <3>1. Phases' = Phases
      BY <1>4, <1>t, <2>3 DEF PushCheck, Goto, TypeOK, Phases, Phase
    <3>2. Buf' = Buf /\ Ok' = Ok
      BY <1>4, <1>t, <2>3 DEF PushCheck, Goto, TypeOK, Buf, Ok
    <3> QED
      BY <2>1, <3>1, <3>2
  <2> QED
    BY <2>2, <2>3
<1>5. ASSUME NEW p \in Procs, PushCopy(p)
      PROVE  UNCHANGED <<Content, Phases, Buf, Ok>>
  <2>1. /\ ~At("pop_count") /\ ~At("pop_count")' /\ Occupied = count
        /\ count < Capacity
    BY <1>5, <1>t, Holder
       DEF PushCopy, Goto, At, TypeOK, InCS, Occupied, StepFacts
  <2>2. \A i \in 1 .. count : data'[(head + i - 1) % Capacity]
                              = data[(head + i - 1) % Capacity]
    <3> TAKE i \in 1 .. count
    <3>1. /\ i - 1 \in 0 .. Capacity - 1 /\ count \in 0 .. Capacity - 1
          /\ i - 1 # count /\ head + (i - 1) = head + i - 1
          /\ head \in 0 .. Capacity - 1
      BY <1>t, <2>1 DEF TypeOK, Slots
    <3>2. tail = (head + count) % Capacity
      BY <2>1 DEF IInv, RingConsistent
    <3>3. (head + i - 1) % Capacity # tail
      BY <3>1, <3>2, RingDistinct
    <3> QED
      BY <1>5, <1>t, <3>3 DEF PushCopy, TypeOK
  <2>3. Content' = Content
    BY <1>5, <2>1, <2>2 DEF Content, PushCopy, header
  <2> QED
    BY <1>5, <1>t, <2>3 DEF PushCopy, Goto, TypeOK, Phases, Phase, Buf, Ok
<1>6. ASSUME NEW p \in Procs, PushTail(p)
      PROVE  UNCHANGED <<Content, Phases, Buf, Ok>>
  <2>1. At("pop_count")' <=> At("pop_count")
    BY <1>6, <1>t DEF PushTail, Goto, At, TypeOK
  <2>2. Content' = Content
    BY <1>6, <2>1 DEF PushTail, Content
  <2> QED
    BY <1>6, <1>t, <2>2 DEF PushTail, Goto, TypeOK, Phases, Phase, Buf, Ok
<1>7. ASSUME NEW p \in Procs, PushCount(p) PROVE Fifo!DoPush(p)
  <2>1. /\ ~At("pop_count") /\ ~At("pop_count")' /\ count < Capacity
        /\ buf[p] = data[(head + count) % Capacity]
    BY <1>7, <1>t, Holder
       DEF PushCount, Goto, At, TypeOK, InCS, StepFacts
  <2>2. /\ Content \in [1 .. count -> Items] /\ count \in Nat
        /\ Len(Content) = count
    BY <2>1, ContentSeq, FunSeq
  <2>3. Content' = [i \in 1 .. count + 1 |-> data[(head + i - 1) % Capacity]]
    BY <1>7, <2>1 DEF PushCount, Content
  <2>c. Content = [i \in 1 .. count |-> data[(head + i - 1) % Capacity]]
    BY <2>1 DEF Content
  <2>4. \A i \in 1 .. count : Content'[i] = Content[i]
    BY <2>2, <2>3, <2>c
  <2>5. Content'[count + 1] = buf[p]
    <3>1. head + (count + 1) - 1 = head + count
      BY <2>2, <1>t DEF TypeOK, Slots
    <3> QED
      BY <2>1, <2>2, <2>3, <3>1
  <2>6. Content' \in [1 .. count + 1 -> Items]
    <3>1. buf[p] \in Items
      BY <1>7, <1>t DEF PushCount, StepFacts
    <3> QED
      <4>1. \A i \in 1 .. count + 1 : Content'[i] \in Items
        <5> TAKE i \in 1 .. count + 1
        <5>1. CASE i = count + 1
          BY <5>1, <2>5, <3>1
        <5>2. CASE i # count + 1
          <6>1. i \in 1 .. count
            BY <5>2, <2>2
          <6> QED
            BY <6>1, <2>2, <2>4
        <5> QED
          BY <5>1, <5>2
      <4> QED
        BY <4>1, <2>3
  <2>7. Content' = Append(Content, buf[p])
    BY <2>2, <2>4, <2>5, <2>6, FunAppend
  <2> QED
    BY <1>7, <1>t, <2>1, <2>2, <2>7
       DEF PushCount, Goto, TypeOK, Fifo!DoPush, Fifo!Finish, Phase
<1>8. ASSUME NEW p \in Procs, PopCheck(p)
      PROVE  Fifo!DoPop(p) \/ UNCHANGED <<Content, Phases, Buf, Ok>>
  <2>1. Content' = Content
    BY <1>8, <1>t, ContentStable DEF PopCheck, Goto, At, TypeOK
  <2>2. CASE is_empty
    <3>1. ~At("pop_count") /\ count = 0
      BY <1>8, <1>t, <2>2, Holder DEF PopCheck, InCS, is_empty
    <3>2. Content = <<>>
      BY <3>1 DEF Content
    <3>3. Phases[p] = "pop" /\ Phases' = [Phases EXCEPT ![p] = "done"]
      BY <1>8, <1>t, <2>2 DEF PopCheck, Goto, TypeOK, Phases, Phase
    <3>4. Buf' = Buf /\ Ok' = [Ok EXCEPT ![p] = FALSE]
      BY <1>8, <1>t, <2>2 DEF PopCheck, Goto, TypeOK, Buf, Ok
    <3> QED
      BY <2>1, <3>2, <3>3, <3>4 DEF Fifo!DoPop, Fifo!Finish, Phases, Buf, Ok
  <2>3. CASE ~is_empty
    <3>1. Phases' = Phases
      BY <1>8, <1>t, <2>3 DEF PopCheck, Goto, TypeOK, Phases, Phase
    <3>2. Buf' = Buf /\ Ok' = Ok
      BY <1>8, <1>t, <2>3 DEF PopCheck, Goto, TypeOK, Buf, Ok
    <3> QED
      BY <2>1, <3>1, <3>2
  <2> QED
    BY <2>2, <2>3
<1>9. ASSUME NEW p \in Procs, PopCopy(p)
      PROVE  UNCHANGED <<Content, Phases, Buf, Ok>>
  <2>1. Content' = Content
    BY <1>9, <1>t, ContentStable DEF PopCopy, Goto, At, TypeOK
  <2>2. buf[p] = NoItem
    BY <1>9, <1>t DEF PopCopy, StepFacts
  <2>3. Phases' = Phases
    BY <1>9, <1>t DEF PopCopy, Goto, TypeOK, Phases, Phase
  <2>4. Buf' = Buf /\ Ok' = Ok
    BY <1>9, <1>t, <2>2 DEF PopCopy, Goto, TypeOK, Buf, Ok
  <2> QED
    BY <2>1, <2>3, <2>4
<1>10. ASSUME NEW p \in Procs, PopHead(p) PROVE Fifo!DoPop(p)
  <2>1. /\ ~At("pop_count") /\ At("pop_count")' /\ count > 0
        /\ buf[p] = data[head] /\ head' = (head + 1) % Capacity
        /\ count' = count /\ data' = data
    BY <1>10, <1>t, Holder DEF PopHead, Goto, At, TypeOK, InCS, StepFacts
  <2>2. /\ Content \in [1 .. count -> Items] /\ count \in Nat \ {0}
        /\ head \in 0 .. Capacity - 1 /\ count <= Capacity
    BY <2>1, <1>t, ContentSeq DEF TypeOK, Slots
  <2>3. Content' = [i \in 1 .. count - 1 |-> data[(head' + i - 1) % Capacity]]
    BY <2>1 DEF Content
  <2>4. \A i \in 1 .. (count - 1) : Content'[i] = Content[i + 1]
    <3> TAKE i \in 1 .. (count - 1)
    <3>1. /\ i - 1 \in 0 .. Capacity - 1 /\ i + 1 \in 1 .. count
          /\ head + ((i - 1) + 1) = head + (i + 1) - 1
      BY <2>2
    <3>2. (head' + (i - 1)) % Capacity = (head + (i + 1) - 1) % Capacity
      BY <3>1, <2>1, <2>2, RingSucc
    <3>3. head' + (i - 1) = head' + i - 1
      BY <2>1, <2>2
    <3>4. Content[i + 1] = data[(head + (i + 1) - 1) % Capacity]
      BY <3>1, <2>1 DEF Content
    <3> QED
      BY <3>2, <3>3, <3>4, <2>3
  <2>5. Content' \in [1 .. (count - 1) -> Items]
    BY <2>2, <2>3, <2>4
  <2>6. Content # <<>> /\ Head(Content) = Content[1] /\ Content' = Tail(Content)
    BY <2>2, <2>4, <2>5, FunTail
  <2>7. Content[1] = buf[p]
    <3>1. (head + 1 - 1) % Capacity = head
      BY <2>2, ModBelow
    <3>2. 1 \in 1 .. count
      BY <2>2
    <3>3. Content[1] = data[(head + 1 - 1) % Capacity]
      BY <3>2, <2>1 DEF Content
    <3> QED
      BY <3>1, <3>3, <2>1
  <2> QED
    BY <1>10, <1>t, <2>6, <2>7
       DEF PopHead, Goto, TypeOK, Fifo!DoPop, Fifo!Finish, Phase
<1>11. ASSUME NEW p \in Procs, PopCount(p)
       PROVE  UNCHANGED <<Content, Phases, Buf, Ok>>
  <2>1. At("pop_count") /\ ~At("pop_count")'
    BY <1>11, <1>t, Holder DEF PopCount, Goto, At, TypeOK, InCS
  <2>2. Content' = Content
    BY <1>11, <2>1 DEF PopCount, Content
  <2>3. Phases' = Phases
    BY <1>11, <1>t DEF PopCount, Goto, TypeOK, Phases, Phase
  <2>4. Buf' = Buf /\ Ok' = Ok
    BY <1>11, <1>t DEF PopCount, Goto, TypeOK, Buf, Ok
  <2> QED
    BY <2>2, <2>3, <2>4
<1>12. ASSUME NEW p \in Procs, SemPost(p) PROVE Fifo!Return(p)
  <2>1. Content' = Content
    BY <1>12, <1>t, ContentStable DEF SemPost, Goto, At, TypeOK
  <2> QED
    BY <1>12, <1>t, <2>1 DEF SemPost, Goto, TypeOK, Fifo!Return, Phase
<1>13. ASSUME NEW p \in Procs, Crash(p) PROVE Fifo!Crash(p)
  <2>1. pc[p] \in InCS => stranded = "none"
    BY <1>t DEF PermitAccounting
  <2>2. At("pop_count")' <=> At("pop_count")
    BY <1>13, <1>t, <2>1 DEF Crash, Goto, At, TypeOK, InCS
  <2>3. Content' = Content
    BY <1>13, <2>2, ContentStable DEF Crash
  <2> QED
    BY <1>13, <1>t, <2>3 DEF Crash, Goto, TypeOK, Fifo!Crash, Phase, Steps, InCS
<1>14. ASSUME NEW p \in Procs, Restart(p) PROVE Fifo!Restart(p)
  <2>1. Content' = Content
    BY <1>14, <1>t, ContentStable DEF Restart, Goto, At, TypeOK
  <2> QED
    BY <1>14, <1>t, <2>1 DEF Restart, Goto, TypeOK, Fifo!Restart, Phase
<1> QED
  BY <1>0, <1>1, <1>2, <1>3, <1>4, <1>5, <1>6, <1>7, <1>8, <1>9, <1>10,
     <1>11, <1>12, <1>13, <1>14 DEF Next, Push, Pop, Fifo!Next

\* Whatever the interleaving of push and pop and wherever processes die, the
\* users of the shared memory ring buffer see a bounded FIFO queue.
THEOREM Refinement == Spec => ImplementsFifo
<1>1. IInv /\ IInv' /\ [Next]_vars => [Fifo!Next]_(Fifo!fvars)
  BY StepRefines
<1> QED
  BY <1>1, InitRefines, Invariance, PTL DEF Spec, ImplementsFifo, Fifo!Spec
=============================================================================
