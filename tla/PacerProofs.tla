---------------------------- MODULE PacerProofs -----------------------------
(***************************************************************************)
(* The pacer keeps to the rate for every capacity, every set of frame      *)
(* sizes and any number of tasks.  The invariant relates the history       *)
(* `excess' to the bucket: what was granted beyond the rate is missing     *)
(* from the bucket, and a sleeping task sleeps at least until it is paid   *)
(* back.                                                                   *)
(***************************************************************************)
EXTENDS Pacer, SequenceTheorems, TLAPS

Request == [task : Tasks, bytes : FrameSizes]

\* The bucket is overdrawn only by a frame larger than the capacity.
Overdraft == tokens >= 0 \/ tokens + MaxFrame >= Capacity

IInv ==
    /\ TypeOK
    /\ excess + Refilled <= Capacity
    /\ sleeping => excess <= remaining /\ queue # <<>>
    /\ Overdraft

\* The capacity is positive, and the largest frame bounds the others.
LEMMA Constants ==
    /\ Capacity \in Nat \ {0}
    /\ MaxFrame \in Nat \ {0}
    /\ \A b \in FrameSizes : b \in Nat \ {0} /\ b <= MaxFrame
    /\ AgeMax = Capacity + MaxFrame
BY PacerAssumption DEF Capacity, AgeMax

\* Refilled is the bucket at this instant.
LEMMA RefilledRange ==
    ASSUME TypeOK
    PROVE  /\ Refilled \in Int
           /\ Refilled <= Capacity
           /\ Refilled >= tokens
BY Constants DEF Refilled, TypeOK

\* The holder's request is one of the frame sizes, and dropping it leaves a queue.
LEMMA HeadRequest ==
    ASSUME TypeOK, queue # <<>>
    PROVE  /\ Head(queue).bytes \in FrameSizes
           /\ Tail(queue) \in Seq([task : Tasks, bytes : FrameSizes])
<1>1. queue \in Seq(Request)
  BY DEF TypeOK, Request
<1>2. Head(queue) \in Request /\ Tail(queue) \in Seq(Request)
  <2> HIDE DEF Request
  <2> QED
    BY <1>1, HeadTailProperties
<1> QED
  BY <1>2 DEF Request

\* Aborting a task leaves a queue, and if it was not the holder a nonempty one.
LEMMA AbortQueue ==
    ASSUME TypeOK, NEW i \in DOMAIN queue
    PROVE  /\ RemoveAt(queue, i) \in Seq([task : Tasks, bytes : FrameSizes])
           /\ i > 1 => RemoveAt(queue, i) # <<>>
<1> DEFINE before == SubSeq(queue, 1, i - 1)
           after == SubSeq(queue, i + 1, Len(queue))
<1>1. queue \in Seq(Request)
  BY DEF TypeOK, Request
<1> HIDE DEF Request
<1>2. Len(queue) \in Nat /\ i \in 1..Len(queue) /\ \A j \in 1..Len(queue) : queue[j] \in Request
  BY <1>1
<1>3. /\ before \in Seq(Request)
      /\ Len(before) = IF 1 <= i - 1 THEN (i - 1) - 1 + 1 ELSE 0
  BY <1>2, SubSeqProperties
<1>4. after \in Seq(Request)
  BY <1>2, SubSeqProperties
<1>5. /\ before \o after \in Seq(Request)
      /\ Len(before \o after) = Len(before) + Len(after)
  <2> HIDE DEF before, after
  <2> QED
    BY <1>3, <1>4, ConcatProperties
<1>6. RemoveAt(queue, i) = before \o after
  BY DEF RemoveAt
<1>7. Len(after) \in Nat
  <2> HIDE DEF after
  <2> QED
    BY <1>4
<1>8. i > 1 => Len(before \o after) > 0
  <2> HIDE DEF before, after
  <2> QED
    BY <1>2, <1>3, <1>5, <1>7
<1>9. RemoveAt(queue, i) \in Seq(Request) /\ (i > 1 => RemoveAt(queue, i) # <<>>)
  <2> HIDE DEF before, after
  <2> QED
    BY <1>5, <1>6, <1>8
<1> QED
  BY <1>9 DEF Request

\* A grant out of a bucket that holds at most what the rate left is paid for.
LEMMA GrantIInv ==
    ASSUME TypeOK, queue # <<>>,
           NEW available \in Int, available <= Capacity, available >= 0,
           excess + available <= Capacity,
           available >= Head(queue).bytes \/ available = Capacity,
           Grant(available), sleeping' = FALSE, remaining' = remaining
    PROVE  IInv'
<1> DEFINE b == Head(queue).bytes
<1>1. b \in Nat \ {0} /\ b <= MaxFrame
  BY HeadRequest, Constants
<1>2. queue' \in Seq([task : Tasks, bytes : FrameSizes])
  BY HeadRequest DEF Grant
<1>3. /\ tokens' = available - b
      /\ age' = 0
      /\ excess' = excess + b
  BY DEF Grant
<1>4. sleeping' \in BOOLEAN
  OBVIOUS
<1>5. TypeOK'
  <2> HIDE DEF b
  <2>1. tokens' \in Int /\ tokens' <= Capacity /\ tokens' + MaxFrame >= 0
    BY <1>1, <1>3, Constants
  <2>2. age' \in 0..AgeMax
    BY <1>3, Constants
  <2>3. excess' \in Nat /\ remaining' \in Nat
    BY <1>1, <1>3 DEF TypeOK
  <2> QED
    BY <1>2, <1>4, <2>1, <2>2, <2>3 DEF TypeOK
<1>6. Refilled' = tokens'
  <2> HIDE DEF b
  <2> QED
    BY <1>1, <1>3, Constants DEF Refilled
<1>7. (excess + Refilled <= Capacity)'
  <2> HIDE DEF b
  <2> QED
    BY <1>1, <1>3, <1>6, Constants DEF TypeOK
<1>8. available >= b \/ available = Capacity
  OBVIOUS
<1>9. Overdraft'
  <2> HIDE DEF b
  <2> QED
    BY <1>1, <1>3, <1>8, Constants DEF Overdraft
<1> QED
  BY <1>5, <1>7, <1>9 DEF IInv

\* A full bucket with nobody waiting satisfies the invariant.
LEMMA InitIInv == Init => IInv
<1> SUFFICES ASSUME Init PROVE IInv
  OBVIOUS
<1>1. sleeping \in BOOLEAN
  BY DEF Init
<1>2. queue \in Seq([task : Tasks, bytes : FrameSizes])
  BY DEF Init
<1>3. tokens = Capacity /\ age = 0 /\ remaining = 0 /\ excess = 0 /\ sleeping = FALSE
  BY DEF Init
<1>4. TypeOK
  <2>1. /\ tokens \in Int /\ tokens <= Capacity /\ tokens + MaxFrame >= 0
        /\ age \in 0..AgeMax /\ remaining \in Nat /\ excess \in Nat
    BY <1>3, Constants
  <2> QED
    BY <1>1, <1>2, <2>1 DEF TypeOK
<1>5. excess + Refilled <= Capacity
  BY <1>3, Constants DEF Refilled
<1>6. Overdraft
  BY <1>3, Constants DEF Overdraft
<1> QED
  BY <1>3, <1>4, <1>5, <1>6 DEF IInv

\* Every step of the pacer, the passing of time included, preserves IInv.
LEMMA NextIInv == IInv /\ [Next]_vars => IInv'
<1> SUFFICES ASSUME IInv, [Next]_vars PROVE IInv'
  OBVIOUS
<1>0. /\ TypeOK
      /\ excess + Refilled <= Capacity
      /\ sleeping => excess <= remaining /\ queue # <<>>
      /\ Overdraft
  BY DEF IInv
<1>1. ASSUME NEW t \in Tasks, NEW b \in FrameSizes, Lock(t, b)
      PROVE  IInv'
  <2>1. queue' \in Seq([task : Tasks, bytes : FrameSizes]) /\ queue' # <<>>
    BY <1>0, <1>1 DEF Lock, TypeOK
  <2>2. /\ tokens' = tokens /\ age' = age /\ sleeping' = sleeping
        /\ remaining' = remaining /\ excess' = excess
    BY <1>1 DEF Lock
  <2> QED
    BY <1>0, <2>1, <2>2 DEF IInv, TypeOK, Refilled, Overdraft
<1>2. CASE WaitEnough
  <2>1. Refilled >= 0
    BY <1>0, <1>2, HeadRequest, RefilledRange, Constants DEF WaitEnough
  <2>2. sleeping' = FALSE
    BY <1>0, <1>2 DEF WaitEnough, TypeOK
  <2>3. /\ queue # <<>> /\ Grant(Refilled) /\ remaining' = remaining
        /\ Refilled >= Head(queue).bytes
    BY <1>2 DEF WaitEnough
  <2>4. Refilled \in Int /\ Refilled <= Capacity
    BY <1>0, RefilledRange
  <2> HIDE DEF Refilled
  <2> QED
    BY <1>0, <2>1, <2>2, <2>3, <2>4, GrantIInv
<1>3. CASE WaitSleep
  <2>1. /\ tokens' = Refilled /\ age' = 0 /\ sleeping' = TRUE
        /\ remaining' = Capacity - Refilled /\ queue' = queue /\ excess' = excess
        /\ queue # <<>>
    BY <1>3 DEF WaitSleep
  <2>2. sleeping' \in BOOLEAN
    BY <2>1
  <2>3. /\ tokens' \in Int /\ tokens' <= Capacity /\ tokens' + MaxFrame >= 0
        /\ age' \in 0..AgeMax /\ remaining' \in Nat /\ excess' \in Nat
    BY <1>0, <2>1, RefilledRange, Constants DEF TypeOK
  <2>4. TypeOK'
    BY <1>0, <2>1, <2>2, <2>3 DEF TypeOK
  <2>5. Refilled' = Refilled
    BY <1>0, <2>1, RefilledRange, Constants DEF Refilled
  <2>6. excess' <= remaining'
    BY <1>0, <2>1, RefilledRange, Constants DEF TypeOK
  <2>7. Overdraft'
    BY <1>0, <2>1, RefilledRange, Constants DEF Overdraft, TypeOK
  <2> QED
    BY <1>0, <2>1, <2>4, <2>5, <2>6, <2>7 DEF IInv
<1>4. CASE WaitWake
  <2>1. excess = 0
    BY <1>0, <1>4 DEF WaitWake, TypeOK
  <2>2. sleeping' = FALSE /\ remaining' = remaining /\ Grant(Capacity) /\ queue # <<>>
    BY <1>0, <1>4 DEF WaitWake
  <2>3. Capacity \in Int /\ Capacity >= 0 /\ Capacity <= Capacity
                           /\ excess + Capacity <= Capacity
    BY <2>1, Constants
  <2> QED
    BY <1>0, <2>2, <2>3, GrantIInv
<1>5. ASSUME NEW i \in DOMAIN queue, Abort(i)
      PROVE  IInv'
  <2>1. queue' \in Seq([task : Tasks, bytes : FrameSizes])
    BY <1>0, <1>5, AbortQueue DEF Abort
  <2>2. tokens' = tokens /\ age' = age /\ excess' = excess
    BY <1>5 DEF Abort
  <2>3. sleeping' \in BOOLEAN
    BY <1>5 DEF Abort
  <2>4. i \in 1..Len(queue) /\ Len(queue) \in Nat
    BY <1>0, <1>5 DEF TypeOK
  <2>5. remaining' \in Nat
    BY <1>0, <1>5, <2>4 DEF Abort, TypeOK
  <2>6. TypeOK'
    BY <1>0, <2>1, <2>2, <2>3, <2>5 DEF TypeOK
  <2>7. sleeping' => excess' <= remaining' /\ queue' # <<>>
    <3> SUFFICES ASSUME sleeping' PROVE excess' <= remaining' /\ queue' # <<>>
      OBVIOUS
    <3>1. sleeping /\ i > 1
      BY <1>5 DEF Abort
    <3>2. remaining' = remaining
      BY <1>5, <3>1, <2>4 DEF Abort
    <3>3. queue' # <<>>
      BY <1>0, <1>5, <3>1, AbortQueue DEF Abort
    <3> QED
      BY <1>0, <2>2, <3>1, <3>2, <3>3
  <2>8. Refilled' = Refilled
    BY <2>2 DEF Refilled
  <2> QED
    BY <1>0, <2>2, <2>6, <2>7, <2>8 DEF IInv, Overdraft
<1>6. CASE Tick
  <2>1. tokens' = tokens /\ queue' = queue /\ sleeping' = sleeping
    BY <1>6 DEF Tick
  <2>2. /\ age' = IF age = AgeMax THEN age ELSE age + 1
        /\ remaining' = IF remaining = 0 THEN 0 ELSE remaining - 1
        /\ excess' = IF excess = 0 THEN 0 ELSE excess - 1
    BY <1>6 DEF Tick
  <2>3. age' \in 0..AgeMax /\ remaining' \in Nat /\ excess' \in Nat
    BY <1>0, <2>2, Constants DEF TypeOK
  <2>4. TypeOK'
    BY <1>0, <2>1, <2>3 DEF TypeOK
  <2>5. sleeping' => excess' <= remaining' /\ queue' # <<>>
    BY <1>0, <2>1, <2>2 DEF TypeOK
  <2>6. (excess + Refilled <= Capacity)'
    BY <1>0, <2>1, <2>2, Constants DEF TypeOK, Refilled
  <2> QED
    BY <1>0, <2>1, <2>4, <2>5, <2>6 DEF IInv, Overdraft
<1>7. CASE UNCHANGED vars
  BY <1>7 DEF IInv, vars, TypeOK, Refilled, Overdraft
<1> QED
  BY <1>1, <1>2, <1>3, <1>4, <1>5, <1>6, <1>7 DEF Next

\* The overdraft is bounded, so IInv bounds the excess.
LEMMA IInvRate == IInv => KeepsRate
<1> SUFFICES ASSUME IInv PROVE KeepsRate
  OBVIOUS
<1> QED
  BY Constants DEF IInv, KeepsRate, TypeOK, Refilled, Overdraft

\* The fields of the Pacer keep their ranges: the bucket is overdrawn by less
\* than one frame and never overflows.
THEOREM TypeCorrect == Spec => []TypeOK
<1>1. IInv => TypeOK
  BY DEF IInv
<1> QED
  BY <1>1, InitIInv, NextIInv, PTL DEF Spec

\* Over every interval the pacer grants at most the rate and one bucket (or
\* one larger frame), for any number of sessions, any schedule of their tasks
\* and any moment they are aborted at.
THEOREM RateKept == Spec => []KeepsRate
BY InitIInv, NextIInv, IInvRate, PTL DEF Spec

=============================================================================
