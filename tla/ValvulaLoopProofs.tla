-------------------------- MODULE ValvulaLoopProofs --------------------------
(***************************************************************************)
(* Proofs about the two halves of the reader's loop: the queue it sleeps   *)
(* at (ValvulaAsyncQueue), for any number of threads and items and any     *)
(* bound on the length, and the loop itself over its I/O mechanism         *)
(* (ValvulaIo), for any listeners and connections, limits of the sets and  *)
(* number of changes.  The first part speaks of the queue's variables, the *)
(* second of the loop's; no lemma of one cites one of the other.           *)
(***************************************************************************)
EXTENDS ValvulaAsyncQueue, ValvulaIo, FiniteSetTheorems, SequenceTheorems, NaturalsInduction,
        TLAPS

-----------------------------------------------------------------------------
(* The queue: the inductive invariant.                                      *)

\* The lock pair is the only step of a thread that spans others' steps.
Holding ==
    /\ \A t \in Threads : pc[t] = "locked" <=> mutex = t
    /\ mutex = NONE => batch = 0
    /\ batch <= MaxBatch

QueueInv == QueueTypeOK /\ Holding /\ WaitersCounted /\ NoLostWakeup

Inside == Asleep \cup Awake

LEMMA FiniteParts ==
    /\ IsFiniteSet(Asleep) /\ IsFiniteSet(Awake) /\ IsFiniteSet(Inside)
    /\ Cardinality(Asleep) \in Nat /\ Cardinality(Awake) \in Nat
    /\ Cardinality(Inside) \in Nat
<1>1. Asleep \subseteq Threads /\ Awake \subseteq Threads /\ Inside \subseteq Threads
  BY DEF Asleep, Awake, Inside
<1>2. IsFiniteSet(Asleep) /\ IsFiniteSet(Awake) /\ IsFiniteSet(Inside)
  BY <1>1, FS_Subset, QueueAssumption
<1> QED
  BY <1>2, FS_CardinalityType

\* A signal moves one sleeper to the awake, when there is one; the threads inside a pop
\* stay the same.
LEMMA SignalEffect ==
    ASSUME QueueTypeOK, WaitersCounted, Signal
    PROVE  /\ pc' \in [Threads -> {"idle", "asleep", "awake", "locked"}]
           /\ \A t \in Threads : pc[t] \in {"idle", "locked"} => pc'[t] = pc[t]
           /\ \A t \in Threads : pc'[t] \in {"idle", "locked"} => pc'[t] = pc[t]
           /\ Inside' = Inside
           /\ Asleep = {} => Asleep' = {}
           /\ Asleep # {} => Cardinality(Awake') = Cardinality(Awake) + 1
<1>1. CASE Asleep = {}
  BY <1>1 DEF Signal, QueueTypeOK, Asleep, Awake, Inside
<1>2. CASE Asleep # {}
  <2>1. waiters > 0
    <3>1. Inside # {}
      BY <1>2 DEF Inside
    <3> QED
      BY <3>1, FiniteParts, FS_EmptySet DEF WaitersCounted, Inside
  <2>2. PICK t \in Asleep : pc' = [pc EXCEPT ![t] = "awake"]
    BY <1>2, <2>1 DEF Signal
  <2>3. Awake' = Awake \cup {t} /\ t \notin Awake
    BY <2>2 DEF QueueTypeOK, Asleep, Awake
  <2>4. Cardinality(Awake') = Cardinality(Awake) + 1
    BY <2>3, FiniteParts, FS_AddElement
  <2> QED
    BY <1>2, <2>2, <2>4 DEF QueueTypeOK, Asleep, Awake, Inside
<1> QED
  BY <1>1, <1>2

\* Taking an item leaves one less.
LEMMA TakeEffect ==
    ASSUME QueueTypeOK, NEW t \in Threads, data # <<>>, Take(t)
    PROVE  /\ data' \in Seq(Items) /\ Len(data') = Len(data) - 1
           /\ got' \in [Threads -> Items \cup {NONE}]
<1>1. Len(data) \in Nat /\ Len(data) # 0
  BY EmptySeq DEF QueueTypeOK
<1>2. data[Len(data)] \in Items
  BY <1>1 DEF QueueTypeOK
<1>3. \A i \in 1 .. Len(data) - 1 : data[i] \in Items
  BY <1>1, ElementOfSeq DEF QueueTypeOK
<1>4. data' \in Seq(Items) /\ Len(data') = Len(data) - 1
  <2> DEFINE n == Len(data) - 1
  <2>1. n \in Nat /\ (1 <= n <=> n # 0) /\ n - 1 + 1 = n
    <3>1. \A k \in Nat : k # 0 => /\ k - 1 \in Nat /\ (1 <= k - 1 <=> k - 1 # 0)
                                 /\ (k - 1) - 1 + 1 = k - 1
      OBVIOUS
    <3> QED
      BY <1>1, <3>1
  <2>2. SubSeq(data, 1, n) \in Seq(Items) /\ Len(SubSeq(data, 1, n)) = n
    <3> HIDE DEF n
    <3>1. \A i \in 1 .. n : data[i] \in Items
      BY <1>3 DEF n
    <3> QED
      BY <3>1, <2>1, SubSeqProperties
  <2> QED
    BY <2>2 DEF Take
<1> QED
  BY <1>2, <1>4 DEF Take, QueueTypeOK

LEMMA PushedAtEnd ==
    ASSUME QueueTypeOK, NEW x \in Items
    PROVE  /\ <<x>> \o data \in Seq(Items) /\ Len(<<x>> \o data) = Len(data) + 1
           /\ Append(data, x) \in Seq(Items) /\ Len(Append(data, x)) = Len(data) + 1
<1>1. <<x>> \in Seq(Items) /\ Len(<<x>>) = 1 /\ Len(data) \in Nat
  BY DEF QueueTypeOK
<1>2. <<x>> \o data \in Seq(Items) /\ Len(<<x>> \o data) = Len(data) + 1
  BY <1>1, ConcatProperties DEF QueueTypeOK
<1>3. Append(data, x) \in Seq(Items) /\ Len(Append(data, x)) = Len(data) + 1
  BY AppendProperties DEF QueueTypeOK
<1> QED
  BY <1>2, <1>3

-----------------------------------------------------------------------------
(* The queue: each step preserves the invariant, as long as a batch pushes  *)
(* one item.                                                                *)

LEMMA PushStep ==
    ASSUME QueueInv, NEW t \in Threads, NEW x \in Items, Push(t, x) \/ PriorityPush(t, x)
    PROVE  QueueInv'
<1>1. Signal /\ UNCHANGED <<waiters, mutex, batch, timed, got>> /\ mutex = NONE
  BY DEF Push, PriorityPush, Calls
<1>2. data' \in Seq(Items) /\ Len(data') = Len(data) + 1 /\ Len(data) \in Nat
  <2>1. data' = <<x>> \o data \/ data' = Append(data, x)
    BY DEF Push, PriorityPush
  <2>2. Len(data) \in Nat
    BY DEF QueueInv, QueueTypeOK
  <2> QED
    BY <2>1, <2>2, PushedAtEnd DEF QueueInv
<1>3. /\ pc' \in [Threads -> {"idle", "asleep", "awake", "locked"}]
      /\ \A u \in Threads : pc[u] \in {"idle", "locked"} => pc'[u] = pc[u]
      /\ \A u \in Threads : pc'[u] \in {"idle", "locked"} => pc'[u] = pc[u]
      /\ Inside' = Inside
      /\ Asleep = {} => Asleep' = {}
      /\ Asleep # {} => Cardinality(Awake') = Cardinality(Awake) + 1
  BY <1>1, SignalEffect DEF QueueInv
<1>4. QueueTypeOK'
  BY <1>1, <1>2, <1>3 DEF QueueInv, QueueTypeOK
<1>5. Holding'
  BY <1>1, <1>3 DEF QueueInv, Holding
<1>6. WaitersCounted'
  BY <1>1, <1>3 DEF QueueInv, WaitersCounted, Inside
<1>7. NoLostWakeup'
  BY <1>1, <1>2, <1>3, FiniteParts DEF QueueInv, NoLostWakeup, QueueTypeOK
<1> QED
  BY <1>4, <1>5, <1>6, <1>7 DEF QueueInv

LEMMA LockStep ==
    ASSUME QueueInv, NEW t \in Threads, Lock(t)
    PROVE  QueueInv'
<1>1. Asleep' = Asleep /\ Awake' = Awake
  BY DEF Lock, Calls, Asleep, Awake, QueueInv, QueueTypeOK
<1>2. QueueTypeOK'
  BY DEF Lock, QueueInv, QueueTypeOK
<1>3. Holding'
  BY QueueAssumption DEF Lock, Calls, QueueInv, Holding, QueueTypeOK
<1> QED
  BY <1>1, <1>2, <1>3 DEF QueueInv, WaitersCounted, NoLostWakeup, Lock

LEMMA UnlockedPushStep ==
    ASSUME QueueInv, NEW t \in Threads, NEW x \in Items, UnlockedPush(t, x)
    PROVE  QueueInv'
<1>1. Asleep' = Asleep /\ Awake' = Awake
  BY DEF UnlockedPush, Asleep, Awake
<1>2. data' \in Seq(Items) /\ Len(data') = Len(data) + 1 /\ Len(data) \in Nat
  BY PushedAtEnd DEF UnlockedPush, QueueInv, QueueTypeOK
<1>3. QueueTypeOK'
  BY <1>2 DEF UnlockedPush, QueueInv, QueueTypeOK
<1>4. Holding'
  BY QueueAssumption DEF UnlockedPush, QueueInv, Holding, QueueTypeOK
<1>5. NoLostWakeup'
  BY <1>1, <1>2, FiniteParts DEF UnlockedPush, QueueInv, NoLostWakeup, QueueTypeOK
<1> QED
  BY <1>1, <1>3, <1>4, <1>5 DEF QueueInv, WaitersCounted, UnlockedPush

LEMMA UnlockStep ==
    ASSUME QueueInv, MaxBatch <= 1, NEW t \in Threads, Unlock(t)
    PROVE  QueueInv'
<1>1. pc[t] = "locked"
  BY DEF QueueInv, Holding, Unlock
<1>2. CASE Asleep = {}
  <2>1. pc' = [pc EXCEPT ![t] = "idle"]
    BY <1>2 DEF Unlock
  <2>2. Asleep' = Asleep /\ Awake' = Awake
    BY <1>1, <2>1 DEF Asleep, Awake, QueueInv, QueueTypeOK
  <2>3. QueueTypeOK'
    BY <2>1 DEF Unlock, QueueInv, QueueTypeOK
  <2>4. Holding'
    BY <1>1, <2>1, QueueAssumption DEF Unlock, QueueInv, Holding, QueueTypeOK
  <2> QED
    BY <1>2, <2>2, <2>3, <2>4 DEF QueueInv, WaitersCounted, NoLostWakeup, Unlock
<1>3. CASE Asleep # {}
  <2>1. waiters > 0
    <3>1. Inside # {}
      BY <1>3 DEF Inside
    <3> QED
      BY <3>1, FiniteParts, FS_EmptySet DEF QueueInv, WaitersCounted, Inside
  <2>2. PICK u \in Asleep : pc' = [pc EXCEPT ![u] = "awake", ![t] = "idle"]
    BY <1>3, <2>1 DEF Unlock
  <2>3. u \in Threads /\ u # t /\ pc[u] = "asleep"
    BY <1>1 DEF Asleep
  <2>4. Awake' = Awake \cup {u} /\ u \notin Awake /\ Inside' = Inside
    BY <1>1, <2>2, <2>3 DEF Awake, Asleep, Inside, QueueInv, QueueTypeOK
  <2>5. Cardinality(Awake') = Cardinality(Awake) + 1
    BY <2>4, FiniteParts, FS_AddElement
  <2>6. QueueTypeOK'
    BY <2>2, <2>3 DEF Unlock, QueueInv, QueueTypeOK
  <2>7. Holding'
    BY <1>1, <2>2, <2>3, QueueAssumption DEF Unlock, QueueInv, Holding, QueueTypeOK
  <2>8. Len(data) <= Cardinality(Awake') /\ data' = data /\ batch' = 0
    <3>1. batch \in Nat /\ batch <= 1 /\ Len(data) \in Nat
      BY QueueAssumption DEF QueueInv, Holding, QueueTypeOK
    <3>2. Len(data) <= Cardinality(Awake) + batch
      BY <1>3 DEF QueueInv, NoLostWakeup
    <3> QED
      BY <3>1, <3>2, <2>5, FiniteParts DEF Unlock
  <2>9. NoLostWakeup'
    <3>1. Cardinality(Awake') \in Nat
      BY <2>5, FiniteParts
    <3> QED
      BY <2>8, <3>1 DEF NoLostWakeup
  <2> QED
    BY <2>4, <2>6, <2>7, <2>9 DEF QueueInv, WaitersCounted, Inside, Unlock
<1> QED
  BY <1>2, <1>3

LEMMA PopStep ==
    ASSUME QueueInv, NEW t \in Threads, NEW limit \in BOOLEAN, Pop(t, limit)
    PROVE  QueueInv'
<1>1. pc[t] = "idle" /\ mutex = NONE /\ UNCHANGED <<mutex, batch>>
  BY DEF Pop, Calls
<1>2. CASE data # <<>>
  <2>1. Take(t) /\ UNCHANGED <<waiters, pc, timed>>
    BY <1>2 DEF Pop
  <2>2. /\ data' \in Seq(Items) /\ Len(data') = Len(data) - 1
        /\ got' \in [Threads -> Items \cup {NONE}]
    BY <1>2, <2>1, TakeEffect DEF QueueInv
  <2>3. Asleep' = Asleep /\ Awake' = Awake
    BY <2>1 DEF Asleep, Awake
  <2>4. QueueTypeOK' /\ Holding'
    BY <1>1, <2>1, <2>2 DEF QueueInv, QueueTypeOK, Holding
  <2>5. NoLostWakeup'
    BY <1>1, <2>2, <2>3, FiniteParts DEF QueueInv, NoLostWakeup, QueueTypeOK
  <2> QED
    BY <2>1, <2>3, <2>4, <2>5 DEF QueueInv, WaitersCounted
<1>3. CASE data = <<>>
  <2>1. /\ waiters' = waiters + 1
        /\ pc' = [pc EXCEPT ![t] = "asleep"]
        /\ timed' = [timed EXCEPT ![t] = limit]
        /\ UNCHANGED <<data, got>>
    BY <1>3 DEF Pop
  <2>2. Inside' = Inside \cup {t} /\ t \notin Inside
    BY <1>1, <2>1 DEF Inside, Asleep, Awake, QueueInv, QueueTypeOK
  <2>3. Awake' = Awake
    BY <1>1, <2>1 DEF Awake, QueueInv, QueueTypeOK
  <2>4. QueueTypeOK'
    BY <1>1, <2>1 DEF QueueInv, QueueTypeOK
  <2>5. Holding'
    BY <1>1, <2>1, QueueAssumption DEF QueueInv, QueueTypeOK, Holding
  <2>6. WaitersCounted'
    <3>1. Cardinality(Inside') = Cardinality(Inside) + 1
      BY <2>2, FiniteParts, FS_AddElement
    <3> QED
      BY <2>1, <3>1 DEF QueueInv, WaitersCounted, Inside
  <2>7. NoLostWakeup'
    <3>1. Len(data') = 0 /\ batch' \in Nat
      BY <1>1, <1>3, <2>1, EmptySeq DEF QueueInv, QueueTypeOK
    <3> QED
      BY <2>3, <3>1, FiniteParts DEF NoLostWakeup
  <2> QED
    BY <2>4, <2>5, <2>6, <2>7 DEF QueueInv
<1> QED
  BY <1>2, <1>3

LEMMA WakeUpStep ==
    ASSUME QueueInv, NEW t \in Threads, WakeUp(t)
    PROVE  QueueInv'
<1>1. /\ pc[t] = "asleep" /\ pc' = [pc EXCEPT ![t] = "awake"]
      /\ UNCHANGED <<data, waiters, mutex, batch, timed, got>>
  BY DEF WakeUp
<1>2. Awake' = Awake \cup {t} /\ t \notin Awake /\ Inside' = Inside /\ Asleep # {}
  BY <1>1 DEF Awake, Asleep, Inside, QueueInv, QueueTypeOK
<1>3. Cardinality(Awake') = Cardinality(Awake) + 1
  BY <1>2, FiniteParts, FS_AddElement
<1>4. QueueTypeOK' /\ Holding'
  BY <1>1 DEF QueueInv, QueueTypeOK, Holding
<1>5. NoLostWakeup'
  BY <1>1, <1>2, <1>3, FiniteParts DEF QueueInv, NoLostWakeup, QueueTypeOK
<1> QED
  BY <1>1, <1>2, <1>4, <1>5 DEF QueueInv, WaitersCounted, Inside

\* The thread leaves the pop: it is one less inside, and one less awake.
LEMMA LeavesPop ==
    ASSUME QueueInv, NEW t \in Threads, pc[t] = "awake", pc' = [pc EXCEPT ![t] = "idle"],
           waiters' = waiters - 1
    PROVE  /\ Inside' = Inside \ {t} /\ Asleep' = Asleep
           /\ Cardinality(Awake') = Cardinality(Awake) - 1
           /\ waiters' \in Nat /\ WaitersCounted'
<1>1. Awake' = Awake \ {t} /\ t \in Awake /\ Inside' = Inside \ {t} /\ t \in Inside
  BY DEF Awake, Asleep, Inside, QueueInv, QueueTypeOK
<1>2. Asleep' = Asleep
  BY DEF Asleep, QueueInv, QueueTypeOK
<1>3. Cardinality(Awake') = Cardinality(Awake) - 1
  BY <1>1, FiniteParts, FS_RemoveElement
<1>4. Cardinality(Inside') = Cardinality(Inside) - 1 /\ Cardinality(Inside') \in Nat
  BY <1>1, FiniteParts, FS_RemoveElement, FS_CardinalityType
<1>5. waiters' = Cardinality(Inside')
  BY <1>4 DEF QueueInv, WaitersCounted, Inside
<1> QED
  BY <1>1, <1>2, <1>3, <1>4, <1>5 DEF WaitersCounted, Inside

LEMMA ResumeStep ==
    ASSUME QueueInv, NEW t \in Threads, Resume(t)
    PROVE  QueueInv'
<1>1. pc[t] = "awake" /\ mutex = NONE /\ UNCHANGED <<mutex, batch>>
  BY DEF Resume
<1>2. timed' \in [Threads -> BOOLEAN]
  BY DEF Resume, QueueInv, QueueTypeOK
<1>3. CASE data # <<>>
  <2>1. Take(t) /\ waiters' = waiters - 1 /\ pc' = [pc EXCEPT ![t] = "idle"]
    BY <1>3 DEF Resume
  <2>2. /\ data' \in Seq(Items) /\ Len(data') = Len(data) - 1
        /\ got' \in [Threads -> Items \cup {NONE}]
    BY <1>3, <2>1, TakeEffect DEF QueueInv
  <2>3. /\ Asleep' = Asleep /\ Cardinality(Awake') = Cardinality(Awake) - 1
        /\ waiters' \in Nat /\ WaitersCounted'
    BY <1>1, <2>1, LeavesPop
  <2>4. QueueTypeOK' /\ Holding'
    BY <1>1, <1>2, <2>1, <2>2, <2>3 DEF QueueInv, QueueTypeOK, Holding
  <2>5. NoLostWakeup'
    BY <1>1, <2>2, <2>3, FiniteParts DEF QueueInv, NoLostWakeup, QueueTypeOK
  <2> QED
    BY <2>3, <2>4, <2>5 DEF QueueInv
<1>4. CASE data = <<>> /\ timed[t]
  <2>1. /\ got' = [got EXCEPT ![t] = NONE] /\ waiters' = waiters - 1
        /\ pc' = [pc EXCEPT ![t] = "idle"] /\ data' = data
    BY <1>4 DEF Resume, GiveUpCount
  <2>2. /\ Asleep' = Asleep /\ Cardinality(Awake') = Cardinality(Awake) - 1
        /\ waiters' \in Nat /\ WaitersCounted' /\ Awake' \subseteq Threads
    BY <1>1, <2>1, LeavesPop DEF Awake
  <2>3. QueueTypeOK' /\ Holding'
    BY <1>1, <1>2, <2>1, <2>2 DEF QueueInv, QueueTypeOK, Holding
  <2>4. NoLostWakeup'
    BY <1>1, <1>4, <2>1, <2>2, EmptySeq, FS_Subset, FS_CardinalityType, QueueAssumption
    DEF QueueInv, NoLostWakeup, QueueTypeOK
  <2> QED
    BY <2>2, <2>3, <2>4 DEF QueueInv
<1>5. CASE data = <<>> /\ ~ timed[t]
  <2>1. pc' = [pc EXCEPT ![t] = "asleep"] /\ UNCHANGED <<data, waiters, got>>
    BY <1>5 DEF Resume
  <2>2. Inside' = Inside
    BY <1>1, <2>1 DEF Inside, Asleep, Awake, QueueInv, QueueTypeOK
  <2>3. QueueTypeOK' /\ Holding'
    BY <1>1, <1>2, <2>1 DEF QueueInv, QueueTypeOK, Holding
  <2>4. NoLostWakeup'
    <3>1. Awake' \subseteq Threads /\ Len(data') = 0 /\ batch' \in Nat
      BY <1>1, <1>5, <2>1, EmptySeq DEF Awake, QueueInv, QueueTypeOK
    <3> QED
      BY <3>1, FS_Subset, FS_CardinalityType, QueueAssumption DEF NoLostWakeup
  <2> QED
    BY <2>1, <2>2, <2>3, <2>4 DEF QueueInv, WaitersCounted, Inside
<1> QED
  BY <1>3, <1>4, <1>5

-----------------------------------------------------------------------------
(* The theorems.                                                            *)

LEMMA Initial == QueueInit => QueueInv
<1> SUFFICES ASSUME QueueInit PROVE QueueInv
  OBVIOUS
<1>1. Asleep = {} /\ Awake = {} /\ Asleep \cup Awake = {}
  BY DEF QueueInit, Asleep, Awake
<1>2. WaitersCounted /\ NoLostWakeup
  BY <1>1, FS_EmptySet DEF QueueInit, WaitersCounted, NoLostWakeup
<1>3. QueueTypeOK /\ Holding
  BY EmptySeq, QueueAssumption DEF QueueInit, QueueTypeOK, Holding
<1> QED
  BY <1>2, <1>3 DEF QueueInv

LEMMA Step == QueueInv /\ MaxBatch <= 1 /\ [QueueNext]_queueVars => QueueInv'
<1> SUFFICES ASSUME QueueInv, MaxBatch <= 1, [QueueNext]_queueVars PROVE QueueInv'
  OBVIOUS
<1>1. CASE UNCHANGED queueVars
  BY <1>1 DEF queueVars, QueueInv, QueueTypeOK, Holding, WaitersCounted, NoLostWakeup, Asleep, Awake
<1>2. ASSUME NEW t \in Threads, NEW x \in Items,
             Push(t, x) \/ PriorityPush(t, x) \/ UnlockedPush(t, x)
      PROVE  QueueInv'
  BY <1>2, PushStep, UnlockedPushStep
<1>3. ASSUME NEW t \in Threads, Lock(t) \/ Unlock(t) PROVE QueueInv'
  BY <1>3, LockStep, UnlockStep
<1>4. ASSUME NEW t \in Threads, NEW limit \in BOOLEAN, Pop(t, limit) PROVE QueueInv'
  BY <1>4, PopStep
<1>5. ASSUME NEW t \in Threads, WakeUp(t) \/ Resume(t) PROVE QueueInv'
  BY <1>5, WakeUpStep, ResumeStep
<1> QED
  BY <1>1, <1>2, <1>3, <1>4, <1>5 DEF QueueNext

LEMMA Invariance == MaxBatch <= 1 /\ QueueSpec => []QueueInv
<1> SUFFICES ASSUME MaxBatch <= 1 PROVE QueueSpec => []QueueInv
  OBVIOUS
<1>1. QueueInit => QueueInv
  BY Initial
<1>2. QueueInv /\ [QueueNext]_queueVars => QueueInv'
  BY Step
<1> QED
  BY <1>1, <1>2, PTL DEF QueueSpec

\* The count of waiters, which the resize of the pool reads, is the number of threads
\* inside valvula_async_queue_pop or _timedpop, and the fields keep their types.
THEOREM WaitersAreCounted == MaxBatch <= 1 /\ QueueSpec => [](QueueTypeOK /\ WaitersCounted)
<1>1. QueueInv => QueueTypeOK /\ WaitersCounted
  BY DEF QueueInv
<1> QED
  BY <1>1, Invariance, PTL

\* While threads sleep, every item pushed has an awake thread to take it: no signal of
\* valvula_async_queue_push, _priority_push or _unlock is lost, provided that what is
\* pushed under the lock is one item.
THEOREM NoWakeupIsLost == MaxBatch <= 1 /\ QueueSpec => []NoLostWakeup
<1>1. QueueInv => NoLostWakeup
  BY DEF QueueInv
<1> QED
  BY <1>1, Invariance, PTL

-----------------------------------------------------------------------------
(* Each step of the queue is a step of what it promises, or none of it.     *)

LEMMA InsideKept ==
    ASSUME QueueInv, Signal
    PROVE  (Asleep \cup Awake)' = Asleep \cup Awake
BY SignalEffect DEF QueueInv, Inside

LEMMA StepKept ==
    ASSUME QueueInv, QueueNext
    PROVE  Promise!Next \/ UNCHANGED Promise!vars
<1> USE DEF Promise!vars
<1>1. ASSUME NEW t \in Threads, NEW x \in Items, Push(t, x) \/ PriorityPush(t, x)
      PROVE  Promise!Put(x) \/ Promise!PutFirst(x)
  BY <1>1, InsideKept DEF Push, PriorityPush, Promise!Put, Promise!PutFirst
<1>2. ASSUME NEW t \in Threads, NEW x \in Items, UnlockedPush(t, x)
      PROVE  Promise!Put(x)
  BY <1>2 DEF UnlockedPush, Promise!Put, Asleep, Awake
<1>3. ASSUME NEW t \in Threads, Lock(t) \/ Unlock(t) \/ WakeUp(t)
      PROVE  UNCHANGED <<data, Asleep \cup Awake, got>>
  <2>1. CASE Lock(t)
    BY <2>1 DEF Lock, Calls, Asleep, Awake, QueueInv, QueueTypeOK
  <2>2. CASE WakeUp(t)
    BY <2>2 DEF WakeUp, Asleep, Awake, QueueInv, QueueTypeOK
  <2>3. CASE Unlock(t)
    <3>1. pc[t] = "locked"
      BY <2>3 DEF Unlock, QueueInv, Holding
    <3>2. CASE pc' = [pc EXCEPT ![t] = "idle"]
      BY <3>1, <3>2, <2>3 DEF Unlock, Asleep, Awake, QueueInv, QueueTypeOK
    <3>3. ASSUME NEW u \in Asleep, pc' = [pc EXCEPT ![u] = "awake", ![t] = "idle"]
          PROVE  UNCHANGED <<data, Asleep \cup Awake, got>>
      BY <3>1, <3>3, <2>3 DEF Unlock, Asleep, Awake, QueueInv, QueueTypeOK
    <3> QED
      BY <3>2, <3>3, <2>3 DEF Unlock
  <2> QED
    BY <1>3, <2>1, <2>2, <2>3
<1>4. ASSUME NEW t \in Threads, NEW limit \in BOOLEAN, Pop(t, limit)
      PROVE  Promise!Get(t) \/ Promise!Wait(t)
  BY <1>4 DEF Pop, Calls, Take, Promise!Get, Promise!Wait, Asleep, Awake, QueueInv, QueueTypeOK
<1>5. ASSUME NEW t \in Threads, Resume(t)
      PROVE  Promise!Get(t) \/ Promise!GiveUp(t) \/ UNCHANGED <<data, Asleep \cup Awake, got>>
  BY <1>5
  DEF Resume, Take, Promise!Get, Promise!GiveUp, Asleep, Awake, QueueInv, QueueTypeOK
<1> QED
  BY <1>1, <1>2, <1>3, <1>4, <1>5 DEF QueueNext, Promise!Next

\* The queue refines what it promises: items leave in the order they entered, a priority
\* item first, each to one thread, and timedpop returns NULL only with the queue empty.
\* (That threads do not sleep for ever beside an item is left to the model checker.)
THEOREM KeepsItsPromise ==
    MaxBatch <= 1 /\ QueueSpec => Promise!Init /\ [][Promise!Next]_(Promise!vars)
<1> SUFFICES ASSUME MaxBatch <= 1
             PROVE  QueueSpec => Promise!Init /\ [][Promise!Next]_(Promise!vars)
  OBVIOUS
<1>1. QueueInit => Promise!Init
  BY DEF QueueInit, Promise!Init, Asleep, Awake
<1>2. QueueInv /\ [QueueNext]_queueVars => [Promise!Next]_(Promise!vars)
  <2>1. UNCHANGED queueVars => UNCHANGED Promise!vars
    BY DEF queueVars, Promise!vars, Asleep, Awake
  <2> QED
    BY <2>1, StepKept
<1> QED
  BY <1>1, <1>2, Invariance, PTL DEF QueueSpec


-----------------------------------------------------------------------------
(* The loop: sequences of connections.                                      *)

IsIn(s, c) == \E i \in 1..Len(s) : s[i] = c
Once(s)    == \A i, j \in 1..Len(s) : s[i] = s[j] => i = j

\* Some set of numbers has a least one.
LEMMA LeastNumber ==
  ASSUME NEW S \in SUBSET Nat, S # {}
  PROVE  \E n \in S : \A m \in S : n <= m
<1> DEFINE Less == {p \in Nat \X Nat : p[1] < p[2]}
<1>1. IsWellFoundedOn(Less, Nat)
  <2>1. Less = OpToRel(<, Nat)
    BY DEF OpToRel
  <2> QED
    BY <2>1, NatLessThanWellFounded
<1>2. \A n, m \in Nat : <<n, m>> \in Less <=> n < m
  OBVIOUS
<1> HIDE DEF Less
<1>3. PICK n \in S : \A m \in S : <<m, n>> \notin Less
  BY <1>1, WFMin
<1>4. ASSUME NEW m \in S PROVE n <= m
  <2>1. n \in Nat /\ m \in Nat /\ <<m, n>> \notin Less
    BY <1>3
  <2>2. ~ (m < n)
    BY <1>2, <2>1
  <2> QED
    BY <2>1, <2>2
<1> QED
  BY <1>4

\* The function through which Without recurs: kept[n] is what is left of the first n.
KeepsFirst(kept, s, gone) ==
    kept = [n \in 0..Len(s) |->
               IF n = 0 THEN <<>>
               ELSE IF s[n] \in gone THEN kept[n - 1] ELSE Append(kept[n - 1], s[n])]
Kept(s, gone) == CHOOSE kept : KeepsFirst(kept, s, gone)

\* There is such a function: one that is right up to n is made one that is right up to n + 1.
LEMMA KeptExists ==
    ASSUME NEW S, NEW s \in Seq(S), NEW gone
    PROVE  KeepsFirst(Kept(s, gone), s, gone)
<1> DEFINE D == 0..Len(s)
           Rest(g, n) == IF n = 0 THEN <<>>
                         ELSE IF s[n] \in gone THEN g[n - 1] ELSE Append(g[n - 1], s[n])
           UpTo(m) == {g \in [D -> Seq(S)] : \A n \in D : n <= m => g[n] = Rest(g, n)}
           Bad == {m \in Nat : UpTo(m) = {}}
<1>0. Len(s) \in Nat /\ <<>> \in Seq(S)
  BY EmptySeq
<1>1. UpTo(0) # {}
  <2>1. [n \in D |-> <<>>] \in UpTo(0)
    BY <1>0
  <2> QED
    BY <2>1
<1>2. ASSUME NEW m \in Nat, UpTo(m) # {}
      PROVE  UpTo(m + 1) # {}
  <2>1. PICK g \in [D -> Seq(S)] : \A n \in D : n <= m => g[n] = Rest(g, n)
    BY <1>2
  <2> DEFINE h == [n \in D |-> IF n <= m THEN g[n] ELSE Rest(g, n)]
  <2>2. ASSUME NEW n \in D, n # 0
        PROVE  n - 1 \in D /\ s[n] \in S /\ Rest(g, n) \in Seq(S)
    <3>1. n - 1 \in D /\ n \in 1..Len(s)
      BY <1>0, <2>2
    <3>2. s[n] \in S /\ g[n - 1] \in Seq(S)
      BY <3>1, ElementOfSeq
    <3>3. Append(g[n - 1], s[n]) \in Seq(S)
      BY <3>2, AppendProperties
    <3> QED
      BY <3>1, <3>2, <3>3
  <2>3. h \in [D -> Seq(S)]
    BY <1>0, <2>2
  <2>4. \A n \in D : n <= m => h[n] = g[n]
    OBVIOUS
  <2>5. ASSUME NEW n \in D, n <= m + 1 PROVE h[n] = Rest(h, n)
    <3>1. CASE n = 0
      BY <2>1, <3>1
    <3>2. CASE n # 0
      <4>1. n - 1 \in D /\ n - 1 <= m
        BY <1>0, <2>5, <3>2
      <4>2. h[n - 1] = g[n - 1]
        BY <2>4, <4>1
      <4>3. h[n] = Rest(g, n)
        BY <2>1
      <4> QED
        BY <4>2, <4>3
    <3> QED
      BY <3>1, <3>2
  <2> HIDE DEF h
  <2>6. h \in UpTo(m + 1)
    BY <2>3, <2>5
  <2> QED
    BY <2>6
<1> HIDE DEF UpTo
<1>3. Bad = {}
  <2> SUFFICES ASSUME Bad # {} PROVE FALSE
    OBVIOUS
  <2>1. PICK n \in Bad : \A m \in Bad : n <= m
    BY LeastNumber
  <2>2. n \in Nat /\ n # 0
    BY <1>1
  <2>3. n - 1 \in Nat /\ UpTo(n - 1) # {} /\ (n - 1) + 1 = n
    BY <2>1, <2>2
  <2>4. UpTo((n - 1) + 1) # {}
    BY <1>2, <2>3
  <2> QED
    BY <2>3, <2>4
<1>4. PICK g : g \in UpTo(Len(s))
  BY <1>0, <1>3
<1>5. g \in [D -> Seq(S)] /\ \A n \in D : g[n] = Rest(g, n)
  BY <1>0, <1>4 DEF UpTo
<1>6. KeepsFirst(g, s, gone)
  BY <1>5 DEF KeepsFirst
<1> QED
  BY <1>6 DEF Kept

\* What is left of a sequence without the ones gone.
LEMMA WithoutEffect ==
    ASSUME NEW S, NEW s \in Seq(S), NEW gone
    PROVE  /\ Without(s, gone) \in Seq(S)
           /\ \A c : IsIn(Without(s, gone), c) <=> IsIn(s, c) /\ c \notin gone
           /\ Once(s) => Once(Without(s, gone))
<1> DEFINE k == Kept(s, gone)
           Good(n) == /\ k[n] \in Seq(S)
                      /\ \A c : IsIn(k[n], c) <=> c \notin gone /\ \E i \in 1..n : s[i] = c
                      /\ Once(s) => Once(k[n])
           Bad == {n \in Nat : n <= Len(s) /\ ~ Good(n)}
<1>0. Len(s) \in Nat
  OBVIOUS
<1>1. KeepsFirst(k, s, gone)
  BY KeptExists
<1> HIDE DEF k
<1>2. /\ k[0] = <<>>
      /\ \A n \in 1..Len(s) : k[n] = IF s[n] \in gone THEN k[n - 1] ELSE Append(k[n - 1], s[n])
  <2>1. \A n \in 0..Len(s) :
            k[n] = IF n = 0 THEN <<>>
                   ELSE IF s[n] \in gone THEN k[n - 1] ELSE Append(k[n - 1], s[n])
    BY <1>1 DEF KeepsFirst
  <2>2. 0 \in 0..Len(s) /\ \A n \in 1..Len(s) : n \in 0..Len(s) /\ n # 0
    BY <1>0
  <2> QED
    BY <2>1, <2>2
<1>3. Good(0)
  BY <1>2, EmptySeq DEF IsIn, Once
<1>4. ASSUME NEW n \in 1..Len(s), Good(n - 1)
      PROVE  Good(n)
  <2>1. s[n] \in S /\ n \in Nat
    BY <1>0, ElementOfSeq
  <2>2. \A c : (\E i \in 1..n : s[i] = c) <=> (\E i \in 1..(n - 1) : s[i] = c) \/ s[n] = c
    BY <1>0
  <2>3. CASE s[n] \in gone
    BY <1>2, <1>4, <2>2, <2>3
  <2>4. CASE s[n] \notin gone
    <3> DEFINE t == k[n - 1]
    <3>1. k[n] = Append(t, s[n])
      BY <1>2, <2>4
    <3>2. /\ k[n] \in Seq(S) /\ Len(k[n]) = Len(t) + 1 /\ Len(t) \in Nat
          /\ \A i \in 1..Len(t) : k[n][i] = t[i]
          /\ k[n][Len(t) + 1] = s[n]
      BY <1>4, <2>1, <3>1, AppendProperties
    <3>3. \A i \in 1..Len(k[n]) : i \in 1..Len(t) \/ i = Len(t) + 1
      BY <3>2
    <3>4. \A i \in 1..Len(t) : i \in 1..Len(k[n])
      BY <3>2
    <3>5. Len(t) + 1 \in 1..Len(k[n])
      BY <3>2
    <3>6. \A c : IsIn(k[n], c) <=> IsIn(t, c) \/ s[n] = c
      BY <3>2, <3>3, <3>4, <3>5 DEF IsIn
    <3>7. \A c : IsIn(k[n], c) <=> c \notin gone /\ \E i \in 1..n : s[i] = c
      BY <1>4, <2>2, <2>4, <3>6
    <3>8. ASSUME Once(s) PROVE Once(k[n])
      <4>1. ~ IsIn(t, s[n])
        <5>1. \A i \in 1..(n - 1) : i \in 1..Len(s) /\ i # n
          BY <1>0
        <5>2. \A i \in 1..(n - 1) : s[i] # s[n]
          BY <3>8, <5>1 DEF Once
        <5> QED
          BY <1>4, <5>2
      <4>2. Once(t)
        BY <1>4, <3>8
      <4>3. \A i \in 1..Len(t) : t[i] # s[n]
        BY <4>1 DEF IsIn
      <4> QED
        BY <3>2, <3>3, <4>2, <4>3 DEF Once
    <3> QED
      BY <3>2, <3>7, <3>8
  <2> QED
    BY <2>3, <2>4
<1> HIDE DEF Good
<1>5. Bad = {}
  <2> SUFFICES ASSUME Bad # {} PROVE FALSE
    OBVIOUS
  <2>1. PICK n \in Bad : \A m \in Bad : n <= m
    BY LeastNumber
  <2>2. n \in 1..Len(s) /\ n - 1 \in Nat /\ n - 1 <= Len(s)
    BY <1>0, <1>3
  <2>3. Good(n - 1)
    BY <2>1, <2>2
  <2> QED
    BY <1>4, <2>2, <2>3
<1>6. Good(Len(s))
  BY <1>0, <1>5
<1>7. Without(s, gone) = k[Len(s)]
  BY DEF Without, k, Kept, KeepsFirst
<1> QED
  BY <1>6, <1>7 DEF Good, IsIn

LEMMA AppendEffect ==
    ASSUME NEW S, NEW s \in Seq(S), NEW x \in S
    PROVE  /\ Append(s, x) \in Seq(S)
           /\ \A c : IsIn(Append(s, x), c) <=> IsIn(s, c) \/ c = x
           /\ Once(s) /\ ~ IsIn(s, x) => Once(Append(s, x))
<1> DEFINE t == Append(s, x)
<1>1. /\ t \in Seq(S) /\ Len(t) = Len(s) + 1 /\ Len(s) \in Nat
      /\ \A i \in 1..Len(s) : t[i] = s[i]
      /\ t[Len(s) + 1] = x
  BY AppendProperties
<1> HIDE DEF t
<1>2. \A i \in 1..Len(t) : i \in 1..Len(s) \/ i = Len(s) + 1
  BY <1>1
<1>3. (\A i \in 1..Len(s) : i \in 1..Len(t)) /\ Len(s) + 1 \in 1..Len(t)
  BY <1>1
<1>4. \A c : IsIn(t, c) <=> IsIn(s, c) \/ c = x
  BY <1>1, <1>2, <1>3 DEF IsIn
<1>5. ASSUME Once(s), ~ IsIn(s, x) PROVE Once(t)
  <2>1. \A i \in 1..Len(s) : s[i] # x
    BY <1>5 DEF IsIn
  <2> QED
    BY <1>1, <1>2, <1>5, <2>1 DEF Once
<1> QED
  BY <1>1, <1>4, <1>5 DEF t

LEMMA RangeIsIn ==
    ASSUME NEW S, NEW s \in Seq(S)
    PROVE  Range(s) \subseteq S /\ \A c : c \in Range(s) <=> IsIn(s, c)
<1>1. Range(s) = {s[i] : i \in 1..Len(s)}
  BY RangeEquality
<1> QED
  BY <1>1, RangeOfSeq DEF IsIn

LEMMA ConcatIsIn ==
    ASSUME NEW S, NEW s \in Seq(S), NEW t \in Seq(S)
    PROVE  s \o t \in Seq(S) /\ \A c : c \in Range(s \o t) <=> IsIn(s, c) \/ IsIn(t, c)
BY ConcatProperties, RangeConcatenation, RangeIsIn

LEMMA TailEffect ==
    ASSUME NEW S, NEW s \in Seq(S), s # <<>>
    PROVE  /\ Head(s) \in S /\ Head(s) = s[1] /\ Len(s) \in Nat \ {0}
           /\ Tail(s) \in Seq(S) /\ Len(Tail(s)) = Len(s) - 1
           /\ \A i \in 1..Len(Tail(s)) : i + 1 \in 1..Len(s) /\ Tail(s)[i] = s[i + 1]
           /\ \A i \in 1..Len(s) : i # 1 => i - 1 \in 1..Len(Tail(s)) /\ s[i] = Tail(s)[i - 1]
<1>1. Len(s) \in Nat \ {0}
  BY EmptySeq
<1>2. /\ Head(s) \in S /\ Tail(s) \in Seq(S) /\ Len(Tail(s)) = Len(s) - 1
      /\ \A i \in 1..Len(Tail(s)) : Tail(s)[i] = s[i + 1]
  BY HeadTailProperties
<1>3. Head(s) = s[1]
  OBVIOUS
<1>4. \A i \in 1..Len(Tail(s)) : i + 1 \in 1..Len(s)
  BY <1>1, <1>2
<1>5. ASSUME NEW i \in 1..Len(s), i # 1
      PROVE  i - 1 \in 1..Len(Tail(s)) /\ s[i] = Tail(s)[i - 1]
  <2>1. i - 1 \in 1..Len(Tail(s)) /\ (i - 1) + 1 = i
    BY <1>1, <1>2, <1>5
  <2> QED
    BY <1>2, <2>1
<1> QED
  BY <1>1, <1>2, <1>3, <1>4, <1>5

\* What add_to takes is of the sequence.
LEMMA TakesType ==
    ASSUME NEW s \in Seq(Conns), NEW lost
    PROVE  Takes(s, lost) \in Seq(Conns)
<1>1. ASSUME NEW t \in Seq(Conns), NEW m \in Mechs
      PROVE  FirstOf(t, m) \in Seq(Conns)
  <2> DEFINE n == IF Len(t) < Limit[m] THEN Len(t) ELSE Limit[m]
  <2>1. Len(t) \in Nat /\ Limit[m] \in Nat
    BY IoAssumption
  <2>2. n \in Int /\ n <= Len(t)
    BY <2>1
  <2> HIDE DEF n
  <2>3. \A i \in 1..n : i \in 1..Len(t)
    BY <2>1, <2>2
  <2>4. \A i \in 1..n : t[i] \in Conns
    BY <2>3, ElementOfSeq
  <2>5. SubSeq(t, 1, n) \in Seq(Conns)
    BY <2>2, <2>4, SubSeqProperties
  <2> QED
    BY <2>5 DEF FirstOf, n
<1>2. Without(s, lost) \in Seq(Conns)
  BY WithoutEffect
<1> QED
  BY <1>1, <1>2 DEF Takes, SelectTakes, PollTakes, EpollTakes, Mechs

LEMMA FunctionNames ==
    /\ Len(Functions) = 8 /\ DOMAIN Functions = 1..8
    /\ \A i \in 1..8 : Functions[i] \in Range(Functions)
    /\ \A f \in Range(Functions) : \E i \in 1..8 : f = Functions[i]
    /\ \A i, j \in 1..8 : Functions[i] = Functions[j] => i = j
    /\ Functions[1] = "create"
<1>1. Len(Functions) = 8 /\ DOMAIN Functions = 1..8
  BY DEF Functions
<1>2. \A i, j \in 1..8 : Functions[i] = Functions[j] => i = j
  BY DEF Functions
<1>3. Range(Functions) = {Functions[i] : i \in 1..8}
  BY <1>1 DEF Range
<1> QED
  BY <1>1, <1>2, <1>3 DEF Functions

LEMMA FunctionType ==
    ASSUME NEW m \in Mechs, NEW f
    PROVE  FunctionOf(m, f) \in Mechs \cup {NULL}
BY DEF FunctionOf

-----------------------------------------------------------------------------
(* The loop: types.                                                         *)

USE DEF apiVars, listVars, groupVars, connVars, loopVars, userVars, outside

ItemShape ==
    \A i \in 1..Len(reader_queue) :
        (reader_queue[i].conn = NULL) = (reader_queue[i].type \notin {"CONNECTION", "LISTENER"})
CursorShape == rpc \in {"dispatch", "listeners", "connections"} => pos > 0
TargetShape == user # "idle" => target \in Mechs
TypeInv == TypeOK /\ ItemShape /\ CursorShape /\ TargetShape

IsItem(d) == d \in Item /\ (d.conn = NULL) = (d.type \notin {"CONNECTION", "LISTENER"})

LEMMA QueuePushType ==
    ASSUME TypeInv, NEW d, IsItem(d), QueuePush(d)
    PROVE  /\ reader_queue' \in Seq(Item) /\ ItemShape'
           /\ Len(reader_queue) \in Nat /\ Len(reader_queue') = Len(reader_queue) + 1
           /\ \A i \in 1..Len(reader_queue) : reader_queue'[i] = reader_queue[i]
           /\ reader_queue'[Len(reader_queue) + 1] = d
<1>1. /\ reader_queue' \in Seq(Item) /\ Len(reader_queue') = Len(reader_queue) + 1
      /\ Len(reader_queue) \in Nat
      /\ \A i \in 1..Len(reader_queue) : reader_queue'[i] = reader_queue[i]
      /\ reader_queue'[Len(reader_queue) + 1] = d
  <2>1. reader_queue \in Seq(Item) /\ d \in Item /\ reader_queue' = Append(reader_queue, d)
    BY DEF QueuePush, IsItem, TypeInv, TypeOK
  <2> QED
    BY <2>1, AppendProperties
<1>2. \A i \in 1..Len(reader_queue') : i \in 1..Len(reader_queue) \/ i = Len(reader_queue) + 1
  BY <1>1
<1>3. ItemShape'
  BY <1>1, <1>2 DEF ItemShape, IsItem, TypeInv
<1> QED
  BY <1>1, <1>3

LEMMA QueuePopType ==
    ASSUME TypeInv, reader_queue # <<>>, reader_queue' = Tail(reader_queue)
    PROVE  /\ reader_queue' \in Seq(Item) /\ ItemShape'
           /\ IsItem(Head(reader_queue)) /\ Head(reader_queue) = reader_queue[1]
           /\ Len(reader_queue) \in Nat \ {0} /\ Len(reader_queue') = Len(reader_queue) - 1
<1>1. reader_queue \in Seq(Item)
  BY DEF TypeInv, TypeOK
<1>2. /\ Head(reader_queue) \in Item /\ Head(reader_queue) = reader_queue[1]
      /\ Len(reader_queue) \in Nat \ {0}
      /\ reader_queue' \in Seq(Item) /\ Len(reader_queue') = Len(reader_queue) - 1
      /\ \A i \in 1..Len(reader_queue') :
             i + 1 \in 1..Len(reader_queue) /\ reader_queue'[i] = reader_queue[i + 1]
  BY <1>1, TailEffect
<1>3. ItemShape'
  BY <1>2 DEF ItemShape, TypeInv
<1>4. IsItem(Head(reader_queue))
  <2>1. 1 \in 1..Len(reader_queue)
    BY <1>2
  <2> QED
    BY <1>2, <2>1 DEF IsItem, ItemShape, TypeInv
<1> QED
  BY <1>2, <1>3, <1>4

LEMMA CommandIsItem ==
    ASSUME NEW x \in {"TERMINATE", "IO_WAIT_CHANGED", "IO_WAIT_READY"}
    PROVE  IsItem(Command(x)) /\ Command(x).type = x /\ Command(x).conn = NULL
BY DEF IsItem, Command, Item

\* The lists and what is known of their connections.
ListTypes ==
    /\ conn_list \in Seq(Conns) /\ srv_list \in Seq(Conns)
    /\ ok \in [Conns -> BOOLEAN] /\ ready \in [Conns -> BOOLEAN]

LEMMA RegisterWatchType ==
    ASSUME TypeInv, NEW d, IsItem(d), RegisterWatch(d)
    PROVE  conn_list' \in Seq(Conns) /\ srv_list' \in Seq(Conns)
<1>1. d.type \in {"CONNECTION", "LISTENER"} => d.conn \in Conns
  BY DEF IsItem, Item
<1>2. conn_list \in Seq(Conns) /\ srv_list \in Seq(Conns)
  BY DEF TypeInv, TypeOK
<1> QED
  BY <1>1, <1>2, AppendProperties DEF RegisterWatch

LEMMA ReleaseType ==
    ASSUME TypeInv, NEW gone, Release(gone)
    PROVE  ListTypes'
BY WithoutEffect DEF Release, ListTypes, TypeInv, TypeOK

LEMMA DispatchType ==
    ASSUME TypeInv, NEW c \in Conns, Dispatch(c) \/ Accept(c) \/ ProcessSocket(c)
    PROVE  ListTypes'
<1>1. CASE Accept(c)
  <2>1. \A d \in Clients : Append(conn_list, d) \in Seq(Conns)
    BY AppendProperties DEF TypeInv, TypeOK, Conns
  <2> QED
    BY <1>1, <2>1 DEF Accept, ListTypes, TypeInv, TypeOK
<1>2. CASE ProcessSocket(c)
  BY <1>2 DEF ProcessSocket, ListTypes, TypeInv, TypeOK
<1> QED
  BY <1>1, <1>2 DEF Dispatch

LEMMA ChangedType ==
    ASSUME TypeInv
    PROVE  Ready \subseteq Conns /\ Changed \in Nat
<1>1. Range(set) \subseteq Conns
  BY RangeOfSeq DEF TypeInv, TypeOK
<1>2. Ready \subseteq Conns /\ Closed \subseteq Conns
  BY <1>1 DEF Ready, Closed
<1>3. Cardinality(Ready) \in Nat /\ Cardinality(Closed) \in Nat
  BY <1>2, IoAssumption, FS_Subset, FS_CardinalityType
<1> QED
  BY <1>2, <1>3 DEF Changed, EpollChanged, PollChanged

-----------------------------------------------------------------------------
(* The loop: where a connection is.                                         *)

Asked(c) == \E i \in 1..Len(reader_queue) : reader_queue[i].conn = c
AskedOnce ==
    \A i, j \in 1..Len(reader_queue) :
        reader_queue[i].conn = reader_queue[j].conn /\ reader_queue[i].conn # NULL => i = j

Count(b) == IF b THEN 1 ELSE 0
OnePlace(c) ==
    /\ ~ (Asked(c) /\ IsIn(conn_list, c)) /\ ~ (Asked(c) /\ IsIn(srv_list, c))
    /\ ~ (IsIn(conn_list, c) /\ IsIn(srv_list, c))
References(c) ==
    Count(Asked(c)) + Count(IsIn(conn_list, c)) + Count(IsIn(srv_list, c)) + Count(c \in held)

\* A connection that was handed to the reader is in one place, once, and each place and the
\* creator have a reference.
PlaceInv ==
    /\ AskedOnce /\ Once(conn_list) /\ Once(srv_list)
    /\ \A c \in Conns : OnePlace(c) /\ ref_count[c] = References(c)

RefTypes == ref_count' \in [Conns -> Nat]

\* A push of a connection that is nowhere else in the queue, or of a command.
LEMMA QueuePushPlace ==
    ASSUME TypeInv, PlaceInv, NEW d, IsItem(d), QueuePush(d), ~ Asked(d.conn) \/ d.conn = NULL
    PROVE  AskedOnce' /\ \A c : Asked(c)' <=> Asked(c) \/ c = d.conn
<1> DEFINE q == reader_queue
           n == Len(reader_queue)
<1>1. /\ n \in Nat /\ Len(q') = n + 1
      /\ \A i \in 1..n : q'[i] = q[i]
      /\ q'[n + 1] = d
  BY QueuePushType
<1>2. /\ \A i \in 1..Len(q') : i \in 1..n \/ i = n + 1
      /\ \A i \in 1..n : i \in 1..Len(q')
      /\ n + 1 \in 1..Len(q')
  BY <1>1
<1>3. \A c : Asked(c)' <=> Asked(c) \/ c = d.conn
  <2>1. \A c : Asked(c)' <=> \E i \in 1..Len(q') : q'[i].conn = c
    BY DEF Asked
  <2>2. \A c : Asked(c) <=> \E i \in 1..n : q[i].conn = c
    BY DEF Asked
  <2> HIDE DEF q, n
  <2> QED
    BY <1>1, <1>2, <2>1, <2>2
<1>4. AskedOnce'
  <2>1. \A i, j \in 1..n : q[i].conn = q[j].conn /\ q[i].conn # NULL => i = j
    BY DEF PlaceInv, AskedOnce
  <2>2. d.conn = NULL \/ \A i \in 1..n : q[i].conn # d.conn
    BY DEF Asked
  <2>3. AskedOnce' <=> \A i, j \in 1..Len(q') :
                           q'[i].conn = q'[j].conn /\ q'[i].conn # NULL => i = j
    BY DEF AskedOnce
  <2> HIDE DEF q, n
  <2> QED
    BY <1>1, <1>2, <2>1, <2>2, <2>3
<1> QED
  BY <1>3, <1>4

\* The item that leaves the queue is not in it any more.
LEMMA QueuePopPlace ==
    ASSUME TypeInv, PlaceInv, reader_queue # <<>>, reader_queue' = Tail(reader_queue)
    PROVE  /\ AskedOnce'
           /\ Head(reader_queue).conn # NULL => Asked(Head(reader_queue).conn)
           /\ \A c \in Conns : Asked(c)' <=> Asked(c) /\ c # Head(reader_queue).conn
<1> DEFINE q == reader_queue
           n == Len(reader_queue)
           d == Head(reader_queue)
<1>1. /\ n \in Nat \ {0} /\ d = q[1]
      /\ \A i \in 1..Len(q') : i + 1 \in 1..n /\ q'[i] = q[i + 1]
      /\ \A i \in 1..n : i # 1 => i - 1 \in 1..Len(q') /\ q[i] = q'[i - 1]
  BY TailEffect DEF TypeInv, TypeOK
<1>2. \A i, j \in 1..n : q[i].conn = q[j].conn /\ q[i].conn # NULL => i = j
  BY DEF PlaceInv, AskedOnce
<1>3. 1 \in 1..n
  BY <1>1
<1>4. ASSUME NEW i \in 1..Len(q'), NEW j \in 1..Len(q'), q'[i].conn = q'[j].conn,
             q'[i].conn # NULL
      PROVE  i = j
  <2>1. i + 1 = j + 1
    BY <1>1, <1>2, <1>4
  <2> QED
    BY <2>1
<1>5. AskedOnce'
  BY <1>4 DEF AskedOnce
<1>6. ASSUME NEW c \in Conns
      PROVE  Asked(c)' <=> Asked(c) /\ c # d.conn
  <2>0. c # NULL
    BY IoAssumption
  <2>1. ASSUME NEW i \in 1..Len(q'), q'[i].conn = c
        PROVE  Asked(c) /\ c # d.conn
    <3>1. i + 1 \in 1..n /\ q[i + 1].conn = c /\ i + 1 # 1
      BY <1>1, <2>1
    <3> QED
      BY <1>1, <1>2, <1>3, <2>0, <3>1 DEF Asked
  <2>2. ASSUME NEW i \in 1..n, q[i].conn = c, c # d.conn
        PROVE  \E j \in 1..Len(q') : q'[j].conn = c
    BY <1>1, <2>2
  <2> QED
    BY <2>1, <2>2 DEF Asked
<1>7. d.conn # NULL => Asked(d.conn)
  BY <1>1, <1>3 DEF Asked
<1> QED
  BY <1>5, <1>6, <1>7

\* The numbers follow from the places.
LEMMA CountedByPlace ==
    ASSUME ref_count' \in [Conns -> Int], AskedOnce', Once(conn_list'), Once(srv_list'),
           \A c \in Conns : OnePlace(c)' /\ ref_count'[c] = References(c)'
    PROVE  PlaceInv' /\ RefTypes
<1>1. \A c \in Conns : References(c)' \in Nat
  BY DEF References, Count
<1>2. PlaceInv'
  BY DEF PlaceInv, Once
<1>3. \A c \in Conns : ref_count'[c] \in Nat
  BY <1>1
<1> QED
  BY <1>2, <1>3 DEF RefTypes

LEMMA Placed ==
    ASSUME TypeInv, PlaceInv
    PROVE  /\ conn_list \in Seq(Conns) /\ srv_list \in Seq(Conns) /\ held \subseteq Shared
           /\ ref_count \in [Conns -> Int] /\ Once(conn_list) /\ Once(srv_list)
           /\ \A c \in Conns : OnePlace(c) /\ ref_count[c] = References(c)
<1>1. /\ conn_list \in Seq(Conns) /\ srv_list \in Seq(Conns) /\ held \subseteq Shared
      /\ ref_count \in [Conns -> Nat]
  BY DEF TypeInv, TypeOK
<1>2. ref_count \in [Conns -> Int]
  BY <1>1
<1> QED
  BY <1>1, <1>2 DEF PlaceInv

LEMMA SameQueue ==
    ASSUME PlaceInv, UNCHANGED reader_queue
    PROVE  AskedOnce' /\ \A c : Asked(c)' <=> Asked(c)
BY DEF PlaceInv, AskedOnce, Asked

LEMMA SamePlaces ==
    ASSUME TypeInv, PlaceInv, UNCHANGED <<conn_list, srv_list, ref_count, held>>, AskedOnce',
           \A c \in Conns : Asked(c)' <=> Asked(c)
    PROVE  PlaceInv' /\ RefTypes
<1>1. ref_count' \in [Conns -> Int] /\ Once(conn_list') /\ Once(srv_list')
  BY Placed
<1>2. ASSUME NEW c \in Conns
      PROVE  OnePlace(c)' /\ ref_count'[c] = References(c)'
  <2>1. OnePlace(c) /\ ref_count[c] = References(c)
    BY Placed
  <2>2. /\ Asked(c)' <=> Asked(c)
        /\ IsIn(conn_list', c) <=> IsIn(conn_list, c)
        /\ IsIn(srv_list', c) <=> IsIn(srv_list, c)
        /\ c \in held' <=> c \in held
        /\ ref_count'[c] = ref_count[c]
    OBVIOUS
  <2>3. References(c)' = References(c)
    BY <2>2 DEF References, Count
  <2> QED
    BY <2>1, <2>2, <2>3 DEF OnePlace
<1> QED
  BY <1>1, <1>2, CountedByPlace

\* What has no reference is nowhere.
LEMMA Unreferenced ==
    ASSUME PlaceInv, NEW c \in Conns, ref_count[c] = 0
    PROVE  ~ Asked(c) /\ ~ IsIn(conn_list, c) /\ ~ IsIn(srv_list, c) /\ c \notin held
BY DEF PlaceInv, References, Count

LEMMA CommandPlace ==
    ASSUME TypeInv, PlaceInv, NEW x \in {"TERMINATE", "IO_WAIT_CHANGED", "IO_WAIT_READY"},
           QueuePush(Command(x)), UNCHANGED <<conn_list, srv_list, ref_count, held>>
    PROVE  PlaceInv' /\ RefTypes
<1>1. IsItem(Command(x)) /\ Command(x).conn = NULL /\ NULL \notin Conns
  BY CommandIsItem, IoAssumption
<1>2. AskedOnce' /\ \A c \in Conns : Asked(c)' <=> Asked(c)
  BY <1>1, QueuePushPlace
<1> QED
  BY <1>2, SamePlaces

LEMMA WatchPlace ==
    ASSUME TypeInv, PlaceInv, NEW c \in Conns, WatchListener(c) \/ WatchConnection(c)
    PROVE  PlaceInv' /\ RefTypes
<1> DEFINE d == [type |-> IF c \in Listeners THEN "LISTENER" ELSE "CONNECTION", conn |-> c]
<1>1. /\ ref_count[c] = 0 /\ QueuePush(d) /\ UNCHANGED <<conn_list, srv_list>>
      /\ \/ held' = held /\ ref_count' = [ref_count EXCEPT ![c] = 1]
         \/ held' = held \cup {c} /\ ref_count' = [ref_count EXCEPT ![c] = 2]
  BY IoAssumption DEF WatchListener, WatchConnection
<1>2. IsItem(d) /\ d.conn = c /\ c # NULL
  BY IoAssumption DEF IsItem, Item
<1> HIDE DEF d
<1>3. ~ Asked(c) /\ ~ IsIn(conn_list, c) /\ ~ IsIn(srv_list, c) /\ c \notin held
  BY <1>1, Unreferenced
<1>4. AskedOnce' /\ \A e : Asked(e)' <=> Asked(e) \/ e = c
  BY <1>1, <1>2, <1>3, QueuePushPlace
<1>5. ref_count \in [Conns -> Int] /\ Once(conn_list') /\ Once(srv_list')
  BY <1>1, Placed
<1>6. ref_count' \in [Conns -> Int]
  BY <1>1, <1>5
<1>7. ASSUME NEW e \in Conns PROVE OnePlace(e)' /\ ref_count'[e] = References(e)'
  <2>1. OnePlace(e) /\ ref_count[e] = References(e)
    BY Placed
  <2>2. /\ IsIn(conn_list', e) <=> IsIn(conn_list, e)
        /\ IsIn(srv_list', e) <=> IsIn(srv_list, e)
        /\ Asked(e)' <=> Asked(e) \/ e = c
    BY <1>1, <1>4
  <2>3. OnePlace(e)'
    BY <1>3, <2>1, <2>2 DEF OnePlace
  <2>4. CASE e = c
    <3>1. ref_count'[c] = 1 + Count(c \in held')
      BY <1>1, <1>3, <1>5 DEF Count
    <3>2. References(e)' = 1 + Count(c \in held')
      BY <1>3, <2>2, <2>4 DEF References, Count
    <3> QED
      BY <2>3, <2>4, <3>1, <3>2
  <2>5. CASE e # c
    <3>1. ref_count'[e] = ref_count[e] /\ (e \in held' <=> e \in held)
      BY <1>1, <1>5, <2>5
    <3>2. References(e)' = References(e)
      BY <2>2, <2>5, <3>1 DEF References, Count
    <3> QED
      BY <2>1, <2>3, <3>1, <3>2
  <2> QED
    BY <2>4, <2>5
<1> QED
  BY <1>4, <1>5, <1>6, <1>7, CountedByPlace

LEMMA CloseSharedPlace ==
    ASSUME TypeInv, PlaceInv, NEW c \in Conns, CloseShared(c)
    PROVE  PlaceInv' /\ RefTypes
<1>1. /\ c \in held /\ held' = held \ {c} /\ ref_count' = [ref_count EXCEPT ![c] = @ - 1]
      /\ UNCHANGED <<reader_queue, conn_list, srv_list>>
  BY DEF CloseShared
<1>2. AskedOnce' /\ \A e : Asked(e)' <=> Asked(e)
  BY <1>1, SameQueue
<1>3. ref_count \in [Conns -> Int] /\ Once(conn_list') /\ Once(srv_list')
  BY <1>1, Placed
<1>4. ref_count' \in [Conns -> Int]
  BY <1>1, <1>3
<1>5. ASSUME NEW e \in Conns PROVE OnePlace(e)' /\ ref_count'[e] = References(e)'
  <2>1. OnePlace(e) /\ ref_count[e] = References(e)
    BY Placed
  <2>2. /\ IsIn(conn_list', e) <=> IsIn(conn_list, e)
        /\ IsIn(srv_list', e) <=> IsIn(srv_list, e)
        /\ Asked(e)' <=> Asked(e)
    BY <1>1, <1>2
  <2>3. OnePlace(e)'
    BY <2>1, <2>2 DEF OnePlace
  <2>4. ref_count'[e] = ref_count[e] - Count(e = c)
    BY <1>1, <1>3 DEF Count
  <2>5. Count(e \in held') = Count(e \in held) - Count(e = c)
    BY <1>1 DEF Count
  <2>6. References(e)' = References(e) - Count(e = c)
    BY <2>2, <2>5 DEF References, Count
  <2> QED
    BY <2>1, <2>3, <2>4, <2>6
<1> QED
  BY <1>2, <1>3, <1>4, <1>5, CountedByPlace

\* The item read goes to a list, or its reference is given back.
LEMMA RegisterWatchPlace ==
    ASSUME TypeInv, PlaceInv, reader_queue # <<>>, reader_queue' = Tail(reader_queue),
           RegisterWatch(Head(reader_queue)), UNCHANGED held
    PROVE  PlaceInv' /\ RefTypes
<1> DEFINE d == Head(reader_queue)
           a == d.conn
<1>1. /\ AskedOnce' /\ (a # NULL => Asked(a))
      /\ \A c \in Conns : Asked(c)' <=> Asked(c) /\ c # a
  BY QueuePopPlace
<1>2. /\ d.type \in {"CONNECTION", "LISTENER"} => a \in Conns /\ a # NULL
      /\ d.type \notin {"CONNECTION", "LISTENER"} => a = NULL
  BY QueuePopType DEF IsItem, Item
<1>3. /\ conn_list' = IF d.type = "CONNECTION" /\ Taken(d) THEN Append(conn_list, a)
                      ELSE conn_list
      /\ srv_list' = IF d.type = "LISTENER" THEN Append(srv_list, a) ELSE srv_list
      /\ ref_count' = IF Taken(d) THEN ref_count ELSE [ref_count EXCEPT ![a] = @ - 1]
      /\ ~ Taken(d) => d.type = "CONNECTION"
  BY DEF RegisterWatch, Dropped, Taken
<1> HIDE DEF d, a
<1>4. NULL \notin Conns
  BY IoAssumption
<1>5. CASE d.type \notin {"CONNECTION", "LISTENER"}
  <2>1. \A c \in Conns : Asked(c)' <=> Asked(c)
    BY <1>1, <1>2, <1>4, <1>5
  <2>2. UNCHANGED <<conn_list, srv_list, ref_count>>
    BY <1>3, <1>5
  <2> QED
    BY <1>1, <2>1, <2>2, SamePlaces
<1>6. CASE d.type \in {"CONNECTION", "LISTENER"}
  <2>1. a \in Conns /\ Asked(a)
    BY <1>1, <1>2, <1>6
  <2>2. ~ IsIn(conn_list, a) /\ ~ IsIn(srv_list, a)
    BY <2>1, Placed DEF OnePlace
  <2>3. /\ Once(conn_list') /\ Once(srv_list')
        /\ \A c : IsIn(conn_list', c) <=> \/ IsIn(conn_list, c)
                                          \/ c = a /\ d.type = "CONNECTION" /\ Taken(d)
        /\ \A c : IsIn(srv_list', c) <=> IsIn(srv_list, c) \/ (c = a /\ d.type = "LISTENER")
    BY <1>3, <2>1, <2>2, Placed, AppendEffect
  <2>4. ref_count \in [Conns -> Int]
    BY Placed
  <2>5. ref_count' \in [Conns -> Int]
    <3>1. [ref_count EXCEPT ![a] = @ - 1] \in [Conns -> Int]
      BY <2>1, <2>4
    <3> QED
      BY <1>3, <2>4, <3>1
  <2>6. ASSUME NEW c \in Conns PROVE OnePlace(c)' /\ ref_count'[c] = References(c)'
    <3>1. OnePlace(c) /\ ref_count[c] = References(c)
      BY Placed
    <3>2. OnePlace(c)'
      BY <1>1, <1>3, <1>6, <2>1, <2>2, <2>3, <3>1 DEF OnePlace
    <3>3. CASE c # a
      <4>1. ref_count'[c] = ref_count[c]
        BY <1>3, <2>4, <3>3
      <4>2. References(c)' = References(c)
        BY <1>1, <2>3, <3>3 DEF References, Count
      <4> QED
        BY <3>1, <3>2, <4>1, <4>2
    <3>4. CASE c = a
      <4>1. ref_count'[c] = ref_count[c] - Count(~ Taken(d))
        BY <1>3, <2>4, <3>4 DEF Count
      <4>2. /\ ~ Asked(c)' /\ Asked(c) /\ ~ IsIn(conn_list, c) /\ ~ IsIn(srv_list, c)
            /\ IsIn(conn_list', c) <=> d.type = "CONNECTION" /\ Taken(d)
            /\ IsIn(srv_list', c) <=> d.type = "LISTENER"
        BY <1>1, <2>1, <2>2, <2>3, <3>4
      <4>3. References(c)' = References(c) - Count(~ Taken(d))
        <5>1. References(c) = 1 + Count(c \in held)
          BY <4>2 DEF References, Count
        <5>2. References(c)' = Count(Taken(d)) + Count(c \in held)
          BY <1>3, <1>6, <4>2 DEF References, Count
        <5>3. Count(Taken(d)) = 1 - Count(~ Taken(d))
          BY DEF Count
        <5> HIDE DEF Count
        <5> QED
          BY <5>1, <5>2, <5>3 DEF Count
      <4> QED
        BY <3>1, <3>2, <4>1, <4>3
    <3> QED
      BY <3>3, <3>4
  <2> QED
    BY <1>1, <2>3, <2>5, <2>6, CountedByPlace
<1> QED
  BY <1>5, <1>6

\* What is removed from the lists, and what its creator closes, loses a reference.
LEMMA RemovalPlace ==
    ASSUME TypeInv, PlaceInv, NEW gone, NEW lost, UNCHANGED reader_queue,
           Once(conn_list'), \A c : IsIn(conn_list', c) <=> IsIn(conn_list, c) /\ c \notin gone,
           Once(srv_list'), \A c : IsIn(srv_list', c) <=> IsIn(srv_list, c) /\ c \notin gone,
           \A c \in gone : IsIn(conn_list, c) \/ IsIn(srv_list, c),
           lost \subseteq held, held' = held \ lost,
           ref_count' \in [Conns -> Int],
           \A c \in Conns : ref_count'[c] = ref_count[c] - Count(c \in gone) - Count(c \in lost)
    PROVE  PlaceInv' /\ RefTypes
<1>1. AskedOnce' /\ \A c : Asked(c)' <=> Asked(c)
  BY SameQueue
<1>2. ASSUME NEW c \in Conns PROVE OnePlace(c)' /\ ref_count'[c] = References(c)'
  <2>1. OnePlace(c) /\ ref_count[c] = References(c)
    BY Placed
  <2>2. OnePlace(c)'
    BY <1>1, <2>1 DEF OnePlace
  <2>3. Count(c \in held') = Count(c \in held) - Count(c \in lost)
    BY DEF Count
  <2>4. Count(IsIn(conn_list', c)) + Count(IsIn(srv_list', c))
            = Count(IsIn(conn_list, c)) + Count(IsIn(srv_list, c)) - Count(c \in gone)
    BY <2>1 DEF OnePlace, Count
  <2>5. References(c)' = References(c) - Count(c \in gone) - Count(c \in lost)
    <3>1. References(c)' = Count(Asked(c)) + Count(IsIn(conn_list', c))
                           + Count(IsIn(srv_list', c)) + Count(c \in held')
      BY <1>1 DEF References, Count
    <3>2. /\ Count(Asked(c)) \in Int
          /\ Count(IsIn(conn_list, c)) \in Int /\ Count(IsIn(srv_list, c)) \in Int
          /\ Count(IsIn(conn_list', c)) \in Int /\ Count(IsIn(srv_list', c)) \in Int
          /\ Count(c \in held) \in Int /\ Count(c \in lost) \in Int /\ Count(c \in gone) \in Int
      BY DEF Count
    <3> QED
      BY <2>3, <2>4, <3>1, <3>2 DEF References
  <2> QED
    BY <2>1, <2>2, <2>5
<1> QED
  BY <1>1, <1>2, CountedByPlace

LEMMA ReleasePlace ==
    ASSUME TypeInv, PlaceInv, NEW gone, Release(gone), UNCHANGED <<reader_queue, held>>,
           \A c \in gone : IsIn(conn_list, c) \/ IsIn(srv_list, c)
    PROVE  PlaceInv' /\ RefTypes
<1>1. /\ Once(conn_list') /\ \A c : IsIn(conn_list', c) <=> IsIn(conn_list, c) /\ c \notin gone
      /\ Once(srv_list') /\ \A c : IsIn(srv_list', c) <=> IsIn(srv_list, c) /\ c \notin gone
  BY Placed, WithoutEffect DEF Release
<1>2. ref_count \in [Conns -> Int]
  BY Placed
<1>3. /\ ref_count' \in [Conns -> Int]
      /\ \A c \in Conns : ref_count'[c] = ref_count[c] - Count(c \in gone) - Count(c \in {})
  BY <1>2 DEF Release, Count
<1>4. {} \subseteq held /\ held' = held \ {}
  OBVIOUS
<1> QED
  BY <1>1, <1>3, <1>4, RemovalPlace

LEMMA BuildPlace ==
    ASSUME TypeInv, PlaceInv, Build
    PROVE  PlaceInv' /\ RefTypes
<1> DEFINE listed == srv_list \o conn_list
           watched(lost) == Takes(Without(listed, NotOk), lost)
<1>1. PICK lost \in SUBSET {c \in Range(conn_list) : Closing(c)} :
        LET gone == Range(listed) \ Range(watched(lost))
        IN  /\ conn_list' = Without(conn_list, gone) /\ srv_list' = Without(srv_list, gone)
            /\ ref_count' = [c \in Conns |->
                                 ref_count[c] - (IF c \in gone THEN 1 ELSE 0)
                                              - (IF c \in lost THEN 1 ELSE 0)]
            /\ held' = held \ lost
            /\ reader_queue' = reader_queue
  BY DEF Build
<1> DEFINE gone == Range(listed) \ Range(watched(lost))
<1>2. /\ conn_list' = Without(conn_list, gone) /\ srv_list' = Without(srv_list, gone)
      /\ ref_count' = [c \in Conns |-> ref_count[c] - (IF c \in gone THEN 1 ELSE 0)
                                                     - (IF c \in lost THEN 1 ELSE 0)]
      /\ held' = held \ lost /\ reader_queue' = reader_queue
  BY <1>1
<1>3. \A c \in gone : IsIn(conn_list, c) \/ IsIn(srv_list, c)
  BY Placed, ConcatIsIn
<1>4. lost \subseteq held
  BY DEF Closing
<1> HIDE DEF gone
<1>5. /\ Once(conn_list') /\ \A c : IsIn(conn_list', c) <=> IsIn(conn_list, c) /\ c \notin gone
      /\ Once(srv_list') /\ \A c : IsIn(srv_list', c) <=> IsIn(srv_list, c) /\ c \notin gone
  BY <1>2, Placed, WithoutEffect
<1>6. ref_count \in [Conns -> Int]
  BY Placed
<1>7. /\ ref_count' \in [Conns -> Int]
      /\ \A c \in Conns : ref_count'[c] = ref_count[c] - Count(c \in gone) - Count(c \in lost)
  BY <1>2, <1>6 DEF Count
<1> QED
  BY <1>2, <1>3, <1>4, <1>5, <1>7, RemovalPlace

LEMMA CleanupPlace ==
    ASSUME TypeInv, PlaceInv, Cleanup
    PROVE  PlaceInv' /\ RefTypes
<1>1. PICK lost \in SUBSET {c \in Range(conn_list) : Closing(c)} :
        /\ conn_list' = Without(conn_list, lost)
        /\ ref_count' = [c \in Conns |-> IF c \in lost THEN ref_count[c] - 2 ELSE ref_count[c]]
        /\ held' = held \ lost /\ srv_list' = srv_list /\ reader_queue' = reader_queue
  BY DEF Cleanup
<1>2. lost \subseteq held /\ \A c \in lost : IsIn(conn_list, c)
  BY Placed, RangeIsIn DEF Closing
<1>3. Once(conn_list') /\ \A c : IsIn(conn_list', c) <=> IsIn(conn_list, c) /\ c \notin lost
  BY <1>1, Placed, WithoutEffect
<1>4. \A c \in lost : c \in Conns
  BY Placed DEF Conns, Closing
<1>5. \A c \in lost : ~ IsIn(srv_list, c)
  BY <1>2, <1>4, Placed DEF OnePlace
<1>6. Once(srv_list') /\ \A c : IsIn(srv_list', c) <=> IsIn(srv_list, c) /\ c \notin lost
  BY <1>1, <1>5, Placed
<1>7. ref_count \in [Conns -> Int]
  BY Placed
<1>8. /\ ref_count' \in [Conns -> Int]
      /\ \A c \in Conns : ref_count'[c] = ref_count[c] - Count(c \in lost) - Count(c \in lost)
  BY <1>1, <1>7 DEF Count
<1> QED
  BY <1>1, <1>2, <1>3, <1>6, <1>8, RemovalPlace

\* A client that is accepted had no reference: it is nowhere.
LEMMA DispatchPlace ==
    ASSUME TypeInv, PlaceInv, NEW l \in Conns, Dispatch(l) \/ Accept(l) \/ ProcessSocket(l),
           UNCHANGED <<reader_queue, held>>
    PROVE  PlaceInv' /\ RefTypes
<1>1. AskedOnce' /\ \A c : Asked(c)' <=> Asked(c)
  BY SameQueue
<1>2. CASE UNCHANGED <<conn_list, srv_list, ref_count>>
  BY <1>1, <1>2, SamePlaces
<1>3. CASE ~ UNCHANGED <<conn_list, srv_list, ref_count>>
  <2>1. Accept(l)
    BY <1>3 DEF Dispatch, ProcessSocket
  <2>2. PICK a \in Clients : /\ ref_count[a] = 0 /\ conn_list' = Append(conn_list, a)
                             /\ ref_count' = [ref_count EXCEPT ![a] = 1]
                             /\ srv_list' = srv_list
    BY <1>3, <2>1 DEF Accept
  <2>3. a \in Conns
    BY DEF Conns
  <2>4. ~ Asked(a) /\ ~ IsIn(conn_list, a) /\ ~ IsIn(srv_list, a) /\ a \notin held
    BY <2>2, <2>3, Unreferenced
  <2>5. Once(conn_list') /\ \A c : IsIn(conn_list', c) <=> IsIn(conn_list, c) \/ c = a
    BY <2>2, <2>3, <2>4, Placed, AppendEffect
  <2>6. ref_count \in [Conns -> Int] /\ Once(srv_list')
    BY <2>2, Placed
  <2>7. ref_count' \in [Conns -> Int]
    <3>1. [ref_count EXCEPT ![a] = 1] \in [Conns -> Int]
      BY <2>3, <2>6
    <3> QED
      BY <2>2, <3>1
  <2>8. ASSUME NEW c \in Conns PROVE OnePlace(c)' /\ ref_count'[c] = References(c)'
    <3>1. OnePlace(c) /\ ref_count[c] = References(c)
      BY Placed
    <3>2. IsIn(srv_list', c) <=> IsIn(srv_list, c)
      BY <2>2
    <3>3. OnePlace(c)'
      BY <1>1, <2>4, <2>5, <3>1, <3>2 DEF OnePlace
    <3>4. CASE c = a
      <4>1. ref_count'[c] = 1
        BY <2>2, <2>3, <2>6, <3>4
      <4>2. References(c)' = 1
        BY <1>1, <2>4, <2>5, <3>2, <3>4 DEF References, Count
      <4> QED
        BY <3>3, <4>1, <4>2
    <3>5. CASE c # a
      <4>1. ref_count'[c] = ref_count[c]
        BY <2>2, <2>6, <3>5
      <4>2. References(c)' = References(c)
        BY <1>1, <2>5, <3>2, <3>5 DEF References, Count
      <4> QED
        BY <3>1, <3>3, <4>1, <4>2
    <3> QED
      BY <3>4, <3>5
  <2> QED
    BY <1>1, <2>5, <2>6, <2>7, <2>8, CountedByPlace
<1> QED
  BY <1>2, <1>3

LEMMA PlaceStep ==
    ASSUME TypeInv, PlaceInv, [Next]_vars
    PROVE  PlaceInv' /\ RefTypes
<1>1. ASSUME UNCHANGED <<conn_list, srv_list, ref_count, held, reader_queue>>
      PROVE  PlaceInv' /\ RefTypes
  BY <1>1, SameQueue, SamePlaces
<1>2. ASSUME UNCHANGED <<conn_list, srv_list, ref_count, held>>, reader_queue # <<>>,
             reader_queue' = Tail(reader_queue), Head(reader_queue).type = "IO_WAIT_CHANGED"
      PROVE  PlaceInv' /\ RefTypes
  <2>1. Head(reader_queue).conn = NULL /\ NULL \notin Conns
    BY <1>2, QueuePopType, IoAssumption DEF IsItem
  <2>2. AskedOnce' /\ \A c \in Conns : Asked(c)' <=> Asked(c)
    BY <1>2, <2>1, QueuePopPlace
  <2> QED
    BY <1>2, <2>2, SamePlaces
<1>3. CASE ReadQueue
  BY <1>2, <1>3, RegisterWatchPlace DEF ReadQueue, QueueElse
<1>4. CASE ReadPending
  BY <1>2, <1>4, RegisterWatchPlace DEF ReadPending, QueueElse
<1>5. CASE ChangeIoMech
  BY <1>5, RegisterWatchPlace DEF ChangeIoMech, QueueElse
<1>6. CASE NothingPending \/ Clear
  BY <1>1, <1>6 DEF NothingPending, Clear, QueueElse, LoopElse
<1>7. CASE Build
  BY <1>7, BuildPlace
<1>8. CASE Cleanup
  BY <1>8, CleanupPlace
<1>9. CASE Reported \/ NothingReported \/ Interrupted
  BY <1>1, <1>9 DEF Reported, NothingReported, Interrupted, WaitElse, LoopElse
<1>10. CASE PollDispatch
  <2> DEFINE c == set[pos]
  <2>1. c \in Conns
    <3>1. pos \in 1..Len(set) /\ set \in Seq(Conns)
      BY <1>10 DEF PollDispatch, TypeInv, TypeOK, CursorShape
    <3> QED
      BY <3>1, ElementOfSeq
  <2>2. /\ Dispatch(c) \/ UNCHANGED <<listVars, connVars>>
        /\ UNCHANGED <<reader_queue, held>>
    BY <1>10 DEF PollDispatch, DispatchElse, LoopElse
  <2> HIDE DEF c
  <2>3. CASE Dispatch(c)
    BY <2>1, <2>2, <2>3, DispatchPlace
  <2>4. CASE UNCHANGED <<listVars, connVars>>
    BY <1>1, <2>2, <2>4
  <2> QED
    BY <2>2, <2>3, <2>4
<1>11. ASSUME NEW c \in Conns, EpollDispatch(c) PROVE PlaceInv' /\ RefTypes
  BY <1>11, DispatchPlace DEF EpollDispatch, DispatchElse, LoopElse
<1>12. CASE DispatchDone \/ ListenersDone \/ ConnectionsDone
  BY <1>1, <1>12 DEF DispatchDone, ListenersDone, ConnectionsDone, DispatchElse, LoopElse
<1>13. CASE CheckListener
  <2> DEFINE l == srv_list[pos]
  <2>1. IsIn(srv_list, l) /\ l \in Conns
    <3>1. pos \in 1..Len(srv_list) /\ srv_list \in Seq(Conns)
      BY <1>13 DEF CheckListener, TypeInv, TypeOK, CursorShape
    <3> QED
      BY <3>1, ElementOfSeq DEF IsIn
  <2>2. /\ Release({l}) \/ Accept(l) \/ UNCHANGED <<listVars, connVars>>
        /\ UNCHANGED <<reader_queue, held>>
    BY <1>13 DEF CheckListener, DispatchElse, LoopElse
  <2> HIDE DEF l
  <2>3. CASE Release({l})
    BY <2>1, <2>2, <2>3, ReleasePlace
  <2>4. CASE Accept(l)
    BY <2>1, <2>2, <2>4, DispatchPlace
  <2>5. CASE UNCHANGED <<listVars, connVars>>
    BY <1>1, <2>2, <2>5
  <2> QED
    BY <2>2, <2>3, <2>4, <2>5
<1>14. CASE CheckConnections
  <2> DEFINE c == conn_list[pos]
  <2>1. IsIn(conn_list, c) /\ c \in Conns
    <3>1. pos \in 1..Len(conn_list) /\ conn_list \in Seq(Conns)
      BY <1>14 DEF CheckConnections, TypeInv, TypeOK, CursorShape
    <3> QED
      BY <3>1, ElementOfSeq DEF IsIn
  <2>2. /\ Release({c}) \/ ProcessSocket(c) \/ UNCHANGED <<listVars, connVars>>
        /\ UNCHANGED <<reader_queue, held>>
    BY <1>14 DEF CheckConnections, CheckConnection, DispatchElse, LoopElse
  <2> HIDE DEF c
  <2>3. CASE Release({c})
    BY <2>1, <2>2, <2>3, ReleasePlace
  <2>4. CASE ProcessSocket(c)
    BY <2>1, <2>2, <2>4, DispatchPlace
  <2>5. CASE UNCHANGED <<listVars, connVars>>
    BY <1>1, <2>2, <2>5
  <2> QED
    BY <2>2, <2>3, <2>4, <2>5
<1>15. CASE StopProcess
  <2>1. \A c \in Range(conn_list) \cup Range(srv_list) : IsIn(conn_list, c) \/ IsIn(srv_list, c)
    BY Placed, RangeIsIn
  <2> QED
    BY <1>15, <2>1, ReleasePlace DEF StopProcess
<1>16. ASSUME NEW c \in Conns, WatchListener(c) \/ WatchConnection(c) PROVE PlaceInv' /\ RefTypes
  BY <1>16, WatchPlace
<1>17. ASSUME NEW c \in Conns, CloseShared(c) PROVE PlaceInv' /\ RefTypes
  BY <1>17, CloseSharedPlace
<1>18. ASSUME NEW c \in Conns, Arrive(c) PROVE PlaceInv' /\ RefTypes
  BY <1>1, <1>18 DEF Arrive
<1>19. ASSUME NEW m \in Mechs, NotifyChange(m) PROVE PlaceInv' /\ RefTypes
  BY <1>19, CommandPlace DEF NotifyChange, UserElse
<1>20. CASE ReaderPrepared \/ Install
  BY <1>1, <1>20 DEF ReaderPrepared, Install, UserElse
<1>21. CASE NotifyChangeDone
  BY <1>21, CommandPlace DEF NotifyChangeDone, UserElse
<1>22. CASE Terminate
  BY <1>22, CommandPlace DEF Terminate, MainElse
<1>23. CASE ReaderStopped \/ UNCHANGED vars
  BY <1>1, <1>23 DEF ReaderStopped, MainElse, vars
<1> QED
  BY <1>3, <1>4, <1>5, <1>6, <1>7, <1>8, <1>9, <1>10, <1>11, <1>12, <1>13, <1>14, <1>15, <1>16,
     <1>17, <1>18, <1>19, <1>20, <1>21, <1>22, <1>23 DEF Next, ReaderStep, UserStep

\* What the actions of one part of the reader or of one of the other threads share.
QueueTypes == reader_queue \in Seq(Item) /\ ItemShape
GroupTypes == on_reading \in Mechs \cup {NULL} /\ set \in Seq(Conns)
LoopTypes  == /\ todo \subseteq Conns /\ pos \in Nat /\ left \in Int /\ length \in Nat
              /\ badf \in BOOLEAN
UserTypes  == /\ user \in {"idle", "asked", "install"} /\ target \in Mechs \cup {NULL}
              /\ written \in 0..Len(Functions) /\ changes \in Nat /\ TargetShape
ApiTypes   == installed \in [Range(Functions) -> Mechs \cup {NULL}] /\ waiting_type \in Mechs
RpcTypes   == rpc \in {"first", "clear", "build", "cleanup", "wait", "listeners", "connections",
                       "dispatch", "pending", "renew_first", "renew", "stop", "done"}
MainTypes  == main \in {"run", "stopping", "joined"}

LEMMA TypeParts ==
    TypeInv <=> /\ QueueTypes /\ ListTypes /\ GroupTypes /\ LoopTypes /\ UserTypes /\ ApiTypes
                /\ RpcTypes /\ MainTypes /\ CursorShape
                /\ reader_stopped \in Nat /\ ref_count \in [Conns -> Nat] /\ held \subseteq Shared
BY DEF TypeInv, TypeOK, QueueTypes, ListTypes, GroupTypes, LoopTypes, UserTypes, ApiTypes,
       RpcTypes, MainTypes

LEMMA NextTypeParts ==
    ASSUME QueueTypes', ListTypes', GroupTypes', LoopTypes', UserTypes', ApiTypes', RpcTypes',
           MainTypes', CursorShape', reader_stopped' \in Nat, RefTypes, held' \subseteq Shared
    PROVE  TypeInv'
BY DEF TypeInv, TypeOK, QueueTypes, ListTypes, GroupTypes, LoopTypes, UserTypes, ApiTypes,
       RpcTypes, MainTypes, RefTypes

LEMMA SameTypes ==
    ASSUME TypeInv
    PROVE  /\ UNCHANGED reader_queue => QueueTypes'
           /\ UNCHANGED <<conn_list, srv_list, ok, ready>> => ListTypes'
           /\ UNCHANGED groupVars => GroupTypes'
           /\ UNCHANGED loopVars => LoopTypes'
           /\ UNCHANGED userVars => UserTypes'
           /\ UNCHANGED apiVars => ApiTypes'
           /\ UNCHANGED rpc => RpcTypes'
           /\ UNCHANGED main => MainTypes'
           /\ UNCHANGED <<rpc, pos>> => CursorShape'
BY TypeParts DEF QueueTypes, ItemShape, ListTypes, GroupTypes, LoopTypes, UserTypes, TargetShape,
                 ApiTypes, RpcTypes, MainTypes, CursorShape

\* Another thread asks the reader.
LEMMA OutsideTypes ==
    ASSUME TypeInv, RefTypes, UNCHANGED <<conn_list, srv_list, groupVars, rpc, loopVars>>,
           ok' \in [Conns -> BOOLEAN], ready' \in [Conns -> BOOLEAN], QueueTypes', UserTypes',
           ApiTypes', MainTypes', reader_stopped' \in Nat, held' \subseteq Shared
    PROVE  TypeInv'
<1>1. ListTypes'
  BY TypeParts DEF ListTypes
<1> QED
  BY <1>1, SameTypes, NextTypeParts

\* The reader reads its queue.
LEMMA QueueReadTypes ==
    ASSUME TypeInv, RefTypes, QueueElse, QueueTypes', conn_list' \in Seq(Conns),
           srv_list' \in Seq(Conns), GroupTypes', reader_stopped' \in Nat, length' \in Nat,
           rpc' \in {"first", "clear", "pending", "renew_first", "renew", "stop"}
    PROVE  TypeInv'
<1>1. ListTypes' /\ LoopTypes'
  BY TypeParts DEF ListTypes, LoopTypes, QueueElse
<1>2. RpcTypes' /\ CursorShape'
  BY DEF RpcTypes, CursorShape
<1> QED
  BY <1>1, <1>2, SameTypes, TypeParts, NextTypeParts DEF QueueElse

\* The reader builds, waits and dispatches.
LEMMA LoopStepTypes ==
    ASSUME TypeInv, RefTypes, UNCHANGED <<reader_queue, reader_stopped, apiVars, userVars, main>>,
           held' \subseteq Shared, ListTypes', GroupTypes', LoopTypes', RpcTypes', CursorShape'
    PROVE  TypeInv'
BY SameTypes, TypeParts, NextTypeParts

LEMMA TypeStep ==
    ASSUME TypeInv, RefTypes, [Next]_vars
    PROVE  TypeInv'
<1>0. /\ conn_list \in Seq(Conns) /\ srv_list \in Seq(Conns)
      /\ ok \in [Conns -> BOOLEAN] /\ ready \in [Conns -> BOOLEAN]
      /\ reader_stopped \in Nat /\ held \subseteq Shared
  BY DEF TypeInv, TypeOK
<1>1. ASSUME reader_queue # <<>>, reader_queue' = Tail(reader_queue)
      PROVE  QueueTypes' /\ IsItem(Head(reader_queue))
  BY <1>1, QueuePopType DEF QueueTypes
<1>2. ASSUME NEW d, IsItem(d), QueuePush(d) PROVE QueueTypes'
  BY <1>2, QueuePushType DEF QueueTypes
<1>3. ASSUME LetChange PROVE GroupTypes' /\ reader_stopped' \in Nat
  BY <1>0, <1>3, EmptySeq DEF LetChange, GroupTypes
<1>4. installed["create"] \in Mechs \cup {NULL}
  <2>1. installed \in [Range(Functions) -> Mechs \cup {NULL}]
    BY DEF TypeInv, TypeOK
  <2>2. "create" \in Range(Functions)
    BY FunctionNames
  <2> QED
    BY <2>1, <2>2
<1>5. LoopTypes /\ GroupTypes /\ RpcTypes
  BY TypeParts
<1>6. CASE ReadQueue
  <2>1. QueueElse /\ QueueTypes' /\ IsItem(Head(reader_queue)) /\ UNCHANGED length
    BY <1>1, <1>6 DEF ReadQueue
  <2>2. CASE LetChange /\ rpc' = "renew_first" /\ UNCHANGED <<listVars, ref_count>>
    BY <1>0, <1>3, <1>5, <2>1, <2>2, QueueReadTypes DEF LoopTypes
  <2>3. CASE RegisterWatch(Head(reader_queue)) /\ rpc' \in {"first", "stop", "clear"}
             /\ UNCHANGED <<groupVars, reader_stopped>>
    BY <1>0, <1>5, <2>1, <2>3, RegisterWatchType, SameTypes, QueueReadTypes DEF LoopTypes
  <2> QED
    BY <1>6, <2>2, <2>3 DEF ReadQueue
<1>7. CASE ReadPending
  <2>1. QueueElse /\ QueueTypes' /\ IsItem(Head(reader_queue)) /\ length' \in Nat
    BY <1>1, <1>5, <1>7 DEF ReadPending, LoopTypes
  <2>2. CASE LetChange /\ rpc' = "renew" /\ UNCHANGED <<listVars, ref_count>>
    BY <1>0, <1>3, <2>1, <2>2, QueueReadTypes
  <2>3. CASE RegisterWatch(Head(reader_queue)) /\ rpc' \in {"pending", "stop", "clear"}
             /\ UNCHANGED <<groupVars, reader_stopped>>
    BY <1>0, <2>1, <2>3, RegisterWatchType, SameTypes, QueueReadTypes
  <2> QED
    BY <1>7, <2>2, <2>3 DEF ReadPending
<1>8. CASE NothingPending
  BY <1>0, <1>5, <1>8, SameTypes, QueueReadTypes DEF NothingPending, LoopTypes
<1>9. CASE ChangeIoMech
  <2>1. /\ QueueElse /\ QueueTypes' /\ IsItem(Head(reader_queue)) /\ UNCHANGED length
        /\ RegisterWatch(Head(reader_queue)) /\ rpc' \in {"first", "pending", "clear"}
        /\ UNCHANGED reader_stopped
    BY <1>1, <1>9 DEF ChangeIoMech
  <2>2. GroupTypes'
    BY <1>4, <1>5, <1>9 DEF ChangeIoMech, GroupTypes
  <2> QED
    BY <1>0, <1>5, <2>1, <2>2, RegisterWatchType, QueueReadTypes DEF LoopTypes
<1>10. CASE Clear
  <2>1. GroupTypes' /\ RpcTypes' /\ CursorShape'
    BY <1>5, <1>10, EmptySeq DEF Clear, GroupTypes, RpcTypes, CursorShape
  <2> QED
    BY <1>0, <1>10, <2>1, SameTypes, LoopStepTypes DEF Clear, LoopElse
<1>11. CASE Build
  <2>1. PICK lost \in SUBSET {c \in Range(conn_list) : Closing(c)} :
          LET listed  == srv_list \o conn_list
              watched == Takes(Without(listed, NotOk), lost)
              gone    == Range(listed) \ Range(watched)
          IN  /\ set' = watched
              /\ conn_list' = Without(conn_list, gone) /\ srv_list' = Without(srv_list, gone)
              /\ ok' = [c \in Conns |-> ok[c] /\ c \notin gone \cup lost]
              /\ ready' = [c \in Conns |-> ready[c] /\ c \notin gone \cup lost]
              /\ held' = held \ lost
    BY <1>11 DEF Build
  <2> DEFINE listed  == srv_list \o conn_list
             watched == Takes(Without(listed, NotOk), lost)
             gone    == Range(listed) \ Range(watched)
  <2>2. watched \in Seq(Conns)
    <3>1. listed \in Seq(Conns)
      BY <1>0, ConcatIsIn
    <3> HIDE DEF listed
    <3>2. Without(listed, NotOk) \in Seq(Conns)
      BY <3>1, WithoutEffect
    <3> QED
      BY <3>2, TakesType
  <2>3. /\ set' = watched
        /\ conn_list' = Without(conn_list, gone) /\ srv_list' = Without(srv_list, gone)
        /\ ok' = [c \in Conns |-> ok[c] /\ c \notin gone \cup lost]
        /\ ready' = [c \in Conns |-> ready[c] /\ c \notin gone \cup lost]
        /\ held' = held \ lost
    BY <2>1
  <2> HIDE DEF watched, gone
  <2>4. ListTypes' /\ held' \subseteq Shared
    BY <1>0, <2>3, WithoutEffect DEF ListTypes
  <2>5. /\ on_reading' = on_reading /\ rpc' \in {"cleanup", "wait"}
        /\ badf' \in BOOLEAN /\ UNCHANGED <<todo, pos, left, length>>
        /\ UNCHANGED <<reader_queue, reader_stopped, apiVars, userVars, main>>
    BY <1>5, <1>11 DEF Build, LoopTypes
  <2>6. GroupTypes' /\ LoopTypes' /\ RpcTypes' /\ CursorShape'
    BY <1>5, <2>2, <2>3, <2>5 DEF GroupTypes, LoopTypes, RpcTypes, CursorShape
  <2> QED
    BY <2>4, <2>5, <2>6, LoopStepTypes
<1>12. CASE Cleanup
  <2>1. PICK lost \in SUBSET {c \in Range(conn_list) : Closing(c)} :
          /\ conn_list' = Without(conn_list, lost)
          /\ ok' = [c \in Conns |-> ok[c] /\ c \notin lost]
          /\ ready' = [c \in Conns |-> ready[c] /\ c \notin lost]
          /\ held' = held \ lost
    BY <1>12 DEF Cleanup
  <2>2. /\ badf' = FALSE /\ rpc' = "clear"
        /\ UNCHANGED <<srv_list, groupVars, todo, pos, left, length>>
        /\ UNCHANGED <<reader_queue, reader_stopped, apiVars, userVars, main>>
    BY <1>12 DEF Cleanup
  <2>3. ListTypes' /\ held' \subseteq Shared
    BY <1>0, <2>1, <2>2, WithoutEffect DEF ListTypes
  <2>4. GroupTypes' /\ LoopTypes' /\ RpcTypes' /\ CursorShape'
    BY <1>5, <2>2 DEF GroupTypes, LoopTypes, RpcTypes, CursorShape
  <2> QED
    BY <2>2, <2>3, <2>4, LoopStepTypes
<1>13. ASSUME ToPending
       PROVE  RpcTypes' /\ CursorShape' /\ (badf' \in BOOLEAN => LoopTypes')
  <2>1. Len(reader_queue) \in Nat
    <3>1. reader_queue \in Seq(Item)
      BY DEF TypeInv, TypeOK
    <3> QED
      BY <3>1
  <2> QED
    BY <1>13, <2>1 DEF ToPending, RpcTypes, CursorShape, LoopTypes
<1>14. CASE Reported
  <2>1. LoopTypes' /\ RpcTypes' /\ CursorShape'
    BY <1>5, <1>14, ChangedType DEF Reported, LoopTypes, RpcTypes, CursorShape
  <2> QED
    BY <1>0, <1>14, <2>1, SameTypes, LoopStepTypes DEF Reported, WaitElse, LoopElse
<1>15. CASE NothingReported \/ Interrupted
  <2>1. badf' \in BOOLEAN /\ ToPending /\ WaitElse
    BY <1>5, <1>15 DEF NothingReported, Interrupted, LoopTypes
  <2> QED
    BY <1>0, <1>13, <2>1, SameTypes, LoopStepTypes DEF WaitElse, LoopElse
<1>16. ASSUME ListTypes', DispatchElse, todo' \subseteq Conns, pos' \in Nat, left' \in Int,
              rpc' \in {"dispatch", "listeners", "connections"}, pos' > 0
       PROVE  TypeInv'
  <2>1. LoopTypes' /\ RpcTypes' /\ CursorShape'
    BY <1>5, <1>16 DEF DispatchElse, LoopTypes, RpcTypes, CursorShape
  <2> QED
    BY <1>0, <1>16, <2>1, SameTypes, LoopStepTypes DEF DispatchElse, LoopElse
<1>17. rpc \in {"dispatch", "listeners", "connections"} => pos > 0
  BY DEF TypeInv, CursorShape
<1>18. CASE PollDispatch
  <2> DEFINE c == set[pos]
  <2>1. c \in Conns
    <3>1. pos \in 1..Len(set) /\ set \in Seq(Conns)
      BY <1>5, <1>17, <1>18 DEF PollDispatch, GroupTypes, LoopTypes
    <3> QED
      BY <3>1, ElementOfSeq
  <2>2. /\ \/ Dispatch(c) /\ todo' = todo \ {c} /\ left' = left - 1
           \/ UNCHANGED <<listVars, connVars, todo, left>>
        /\ pos' = pos + 1 /\ rpc' = "dispatch" /\ rpc = "dispatch" /\ DispatchElse
    BY <1>18 DEF PollDispatch
  <2> HIDE DEF c
  <2>3. ListTypes'
    BY <1>0, <2>1, <2>2, DispatchType, SameTypes
  <2>4. todo' \subseteq Conns /\ pos' \in Nat /\ pos' > 0 /\ left' \in Int
    BY <1>5, <2>2 DEF LoopTypes
  <2> QED
    BY <1>16, <2>2, <2>3, <2>4
<1>19. ASSUME NEW c \in Conns, EpollDispatch(c) PROVE TypeInv'
  <2>1. /\ Dispatch(c) /\ todo' = todo \ {c} /\ left' = left - 1
        /\ UNCHANGED <<pos, rpc>> /\ rpc = "dispatch" /\ DispatchElse
    BY <1>19 DEF EpollDispatch
  <2>2. ListTypes'
    BY <2>1, DispatchType
  <2>3. todo' \subseteq Conns /\ pos' \in Nat /\ pos' > 0 /\ left' \in Int
    BY <1>5, <1>17, <2>1 DEF LoopTypes
  <2> QED
    BY <1>16, <2>1, <2>2, <2>3
<1>20. CASE DispatchDone \/ ConnectionsDone
  <2>1. /\ ToPending /\ UNCHANGED <<listVars, groupVars, connVars, badf>> /\ LoopElse
        /\ badf' \in BOOLEAN
    BY <1>5, <1>20 DEF DispatchDone, ConnectionsDone, LoopTypes
  <2> QED
    BY <1>0, <1>13, <2>1, SameTypes, LoopStepTypes DEF LoopElse
<1>21. CASE CheckListener
  <2> DEFINE l == srv_list[pos]
             found == IF IsSet(l) THEN 1 ELSE 0
  <2>1. l \in Conns /\ pos > 0 /\ pos \in Nat /\ rpc = "listeners"
    <3>1. pos \in 1..Len(srv_list) /\ rpc = "listeners"
      BY <1>5, <1>17, <1>21, <1>0 DEF CheckListener, LoopTypes
    <3> QED
      BY <1>0, <3>1, ElementOfSeq
  <2>2. /\ \/ Release({l}) /\ left' = left - 1 /\ UNCHANGED <<pos, rpc, todo>>
           \/ /\ Accept(l) \/ UNCHANGED <<listVars, connVars>>
              /\ todo' = todo \ {l} /\ left' = left - found
              /\ \/ rpc' = "connections" /\ pos' = 1
                 \/ pos' = pos + 1 /\ UNCHANGED rpc
        /\ DispatchElse
    BY <1>21 DEF CheckListener
  <2>3. found \in Int
    OBVIOUS
  <2> HIDE DEF l, found
  <2>4. ListTypes'
    BY <2>1, <2>2, ReleaseType, DispatchType, SameTypes
  <2>5. /\ todo' \subseteq Conns /\ pos' \in Nat /\ pos' > 0 /\ left' \in Int
        /\ rpc' \in {"listeners", "connections"}
    BY <1>5, <2>1, <2>2, <2>3 DEF LoopTypes
  <2> QED
    BY <1>16, <2>2, <2>4, <2>5
<1>22. CASE ListenersDone
  <2>1. /\ UNCHANGED <<todo, left, listVars, connVars>> /\ DispatchElse
        /\ rpc' = "connections" /\ pos' = 1
    BY <1>22 DEF ListenersDone
  <2>2. ListTypes' /\ todo' \subseteq Conns /\ left' \in Int
    BY <1>5, <2>1, SameTypes DEF LoopTypes
  <2> QED
    BY <1>16, <2>1, <2>2
<1>23. CASE CheckConnections
  <2> DEFINE c == conn_list[pos]
  <2>1. c \in Conns /\ pos > 0 /\ pos \in Nat /\ rpc = "connections"
    <3>1. pos \in 1..Len(conn_list) /\ rpc = "connections"
      BY <1>5, <1>17, <1>23, <1>0 DEF CheckConnections, LoopTypes
    <3> QED
      BY <1>0, <3>1, ElementOfSeq
  <2>2. /\ \/ Release({c}) /\ UNCHANGED <<pos, left, todo>>
           \/ /\ ProcessSocket(c) \/ UNCHANGED <<listVars, connVars>>
              /\ todo' = todo \ {c} /\ left' \in {left, left - 1} /\ pos' = pos + 1
        /\ UNCHANGED rpc /\ DispatchElse
    BY <1>23 DEF CheckConnections, CheckConnection
  <2> HIDE DEF c
  <2>3. ListTypes'
    BY <2>1, <2>2, ReleaseType, DispatchType, SameTypes
  <2>4. todo' \subseteq Conns /\ pos' \in Nat /\ pos' > 0 /\ left' \in Int
    BY <1>5, <2>1, <2>2 DEF LoopTypes
  <2> QED
    BY <1>16, <2>1, <2>2, <2>3, <2>4
<1>24. CASE StopProcess
  <2>1. ListTypes'
    BY <1>24, ReleaseType DEF StopProcess
  <2>2. GroupTypes' /\ RpcTypes' /\ CursorShape' /\ reader_stopped' \in Nat
    BY <1>0, <1>24, EmptySeq DEF StopProcess, GroupTypes, RpcTypes, CursorShape
  <2> QED
    BY <1>0, <1>24, <2>1, <2>2, SameTypes, NextTypeParts DEF StopProcess
<1>25. ASSUME NEW c \in Conns, WatchListener(c) \/ WatchConnection(c) PROVE TypeInv'
  <2> DEFINE d == [type |-> IF c \in Listeners THEN "LISTENER" ELSE "CONNECTION", conn |-> c]
  <2>1. IsItem(d)
    BY IoAssumption DEF IsItem, Item
  <2>2. QueuePush(d) /\ ok' = [ok EXCEPT ![c] = TRUE] /\ UNCHANGED <<ready, reader_stopped>>
        /\ UNCHANGED <<conn_list, srv_list, groupVars, rpc, loopVars, apiVars, userVars, main>>
        /\ held' \subseteq held \cup {c} /\ (held' = held \/ c \in Shared)
    BY <1>25, IoAssumption DEF WatchListener, WatchConnection
  <2> HIDE DEF d
  <2>3. QueueTypes' /\ ok' \in [Conns -> BOOLEAN] /\ ready' \in [Conns -> BOOLEAN]
    BY <1>0, <1>2, <2>1, <2>2
  <2> QED
    BY <1>0, <2>2, <2>3, SameTypes, OutsideTypes
<1>26. ASSUME NEW c \in Conns, CloseShared(c) PROVE TypeInv'
  <2>1. /\ ok' \in [Conns -> BOOLEAN] /\ ready' \in [Conns -> BOOLEAN] /\ held' \subseteq Shared
    BY <1>0, <1>26 DEF CloseShared
  <2> QED
    BY <1>0, <1>26, <2>1, SameTypes, OutsideTypes DEF CloseShared
<1>27. ASSUME NEW c \in Conns, Arrive(c) PROVE TypeInv'
  <2>1. ok' \in [Conns -> BOOLEAN] /\ ready' \in [Conns -> BOOLEAN]
    BY <1>0, <1>27 DEF Arrive
  <2> QED
    BY <1>0, <1>27, <2>1, SameTypes, OutsideTypes DEF Arrive
<1>28. UserTypes
  BY TypeParts
<1>29. ASSUME NEW m \in Mechs, NotifyChange(m) PROVE TypeInv'
  <2>1. QueueTypes'
    BY <1>2, <1>29, CommandIsItem DEF NotifyChange
  <2>2. UserTypes'
    BY <1>28, <1>29 DEF NotifyChange, UserTypes, TargetShape
  <2> QED
    BY <1>0, <1>29, <2>1, <2>2, SameTypes, OutsideTypes DEF NotifyChange, UserElse
<1>30. CASE ReaderPrepared
  <2>1. reader_stopped' \in Nat
    BY <1>0, <1>30 DEF ReaderPrepared, Prepared
  <2>2. UserTypes'
    BY <1>28, <1>30 DEF ReaderPrepared, UserTypes, TargetShape
  <2> QED
    BY <1>0, <1>30, <2>1, <2>2, SameTypes, OutsideTypes DEF ReaderPrepared, UserElse
<1>31. CASE Install
  <2>1. target \in Mechs /\ written \in 0..8 /\ written < 8
    BY <1>28, <1>31, FunctionNames DEF Install, UserTypes, TargetShape
  <2>2. UserTypes'
    BY <1>28, <1>31, <2>1, FunctionNames DEF Install, UserTypes, TargetShape
  <2>3. ApiTypes'
    <3>1. ApiTypes
      BY TypeParts
    <3> DEFINE f == Functions[written + 1]
    <3>2. installed' = [installed EXCEPT ![f] = FunctionOf(target, f)]
          /\ waiting_type' \in {target, waiting_type}
      BY <1>31 DEF Install
    <3>3. FunctionOf(target, f) \in Mechs \cup {NULL}
      BY <2>1, FunctionType
    <3> HIDE DEF f
    <3> QED
      BY <2>1, <3>1, <3>2, <3>3 DEF ApiTypes
  <2> QED
    BY <1>0, <1>31, <2>2, <2>3, SameTypes, OutsideTypes DEF Install, UserElse
<1>32. CASE NotifyChangeDone
  <2>1. QueueTypes'
    BY <1>2, <1>32, CommandIsItem DEF NotifyChangeDone
  <2>2. UserTypes'
    BY <1>28, <1>32, FunctionNames DEF NotifyChangeDone, UserTypes, TargetShape
  <2> QED
    BY <1>0, <1>32, <2>1, <2>2, SameTypes, OutsideTypes DEF NotifyChangeDone, UserElse
<1>33. CASE Terminate
  <2>1. QueueTypes' /\ MainTypes'
    BY <1>2, <1>33, CommandIsItem DEF Terminate, MainTypes
  <2> QED
    BY <1>0, <1>33, <2>1, SameTypes, OutsideTypes DEF Terminate, MainElse
<1>34. CASE ReaderStopped
  <2>1. reader_stopped' \in Nat /\ MainTypes'
    BY <1>0, <1>34 DEF ReaderStopped, MainTypes
  <2> QED
    BY <1>0, <1>34, <2>1, SameTypes, OutsideTypes DEF ReaderStopped, MainElse
<1>35. CASE UNCHANGED vars
  BY <1>0, <1>35, SameTypes, OutsideTypes DEF vars
<1> QED
  BY <1>6, <1>7, <1>8, <1>9, <1>10, <1>11, <1>12, <1>14, <1>15, <1>18, <1>19, <1>20, <1>21, <1>22,
     <1>23, <1>24, <1>25, <1>26, <1>27, <1>29, <1>30, <1>31, <1>32, <1>33, <1>34, <1>35
     DEF Next, ReaderStep, UserStep

LEMMA DefaultMech == Default \in Mechs
BY DEF Default, Mechs

LEMMA LoopInitial ==
    ASSUME Init
    PROVE  TypeInv /\ PlaceInv
<1>1. /\ waiting_type \in Mechs /\ on_reading \in Mechs
      /\ installed \in [Range(Functions) -> Mechs \cup {NULL}]
  BY DefaultMech, FunctionType DEF Init
<1>2. /\ reader_queue = <<>> /\ conn_list = <<>> /\ srv_list = <<>> /\ set = <<>>
      /\ Len(<<>>) = 0 /\ <<>> \in Seq(Item) /\ <<>> \in Seq(Conns)
  BY EmptySeq DEF Init
<1>3. 0 \in 0..Len(Functions)
  BY FunctionNames
<1>4. QueueTypes /\ CursorShape /\ TargetShape
  BY <1>2 DEF Init, QueueTypes, ItemShape, CursorShape, TargetShape
<1>5. /\ ok \in [Conns -> BOOLEAN] /\ ref_count \in [Conns -> Nat] /\ ready \in [Conns -> BOOLEAN]
      /\ \A c \in Conns : ref_count[c] = 0
  BY DEF Init
<1>6. TypeInv
  <2>1. ListTypes /\ GroupTypes
    BY <1>1, <1>2, <1>5 DEF ListTypes, GroupTypes
  <2>2. LoopTypes /\ MainTypes /\ RpcTypes /\ reader_stopped \in Nat /\ held \subseteq Shared
    <3>1. /\ reader_stopped = 0 /\ rpc = "first" /\ todo = {} /\ pos = 0 /\ left = 0
          /\ length = 0 /\ held = {} /\ main = "run"
      BY DEF Init
    <3>2. LoopTypes
      <4>1. badf \in BOOLEAN
        BY DEF Init
      <4> QED
        BY <3>1, <4>1 DEF LoopTypes
    <3>3. MainTypes /\ RpcTypes
      BY <3>1 DEF MainTypes, RpcTypes
    <3> QED
      BY <3>1, <3>2, <3>3
  <2>3. UserTypes /\ ApiTypes
    BY <1>1, <1>3, <1>4 DEF Init, UserTypes, ApiTypes
  <2> QED
    BY <1>4, <1>5, <2>1, <2>2, <2>3, TypeParts
<1>7. \A i \in 1..0 : FALSE
  OBVIOUS
<1>8. /\ AskedOnce /\ Once(conn_list) /\ Once(srv_list)
      /\ \A c : ~ Asked(c) /\ ~ IsIn(conn_list, c) /\ ~ IsIn(srv_list, c)
  BY <1>2, <1>7 DEF AskedOnce, Once, Asked, IsIn
<1>9. held = {}
  BY DEF Init
<1>10. \A c \in Conns : OnePlace(c) /\ ref_count[c] = References(c)
  BY <1>5, <1>8, <1>9 DEF OnePlace, References, Count
<1> QED
  BY <1>6, <1>8, <1>10 DEF PlaceInv

LEMMA LoopInvariance == Spec => [](TypeInv /\ PlaceInv)
<1>1. Init => TypeInv /\ PlaceInv
  BY LoopInitial
<1>2. TypeInv /\ PlaceInv /\ [Next]_vars => (TypeInv /\ PlaceInv)'
  BY TypeStep, PlaceStep
<1> QED
  BY <1>1, <1>2, PTL DEF Spec

LEMMA CountOnce ==
    ASSUME NEW S, \A i, j \in S : i = j
    PROVE  Cardinality(S) = Count(S # {})
<1>1. CASE S # {}
  <2>1. PICK i \in S : S = {i}
    BY <1>1
  <2> QED
    BY <1>1, <2>1, FS_Singleton DEF Count
<1>2. CASE S = {}
  BY <1>2, FS_EmptySet DEF Count
<1> QED
  BY <1>1, <1>2

\* Every variable of the loop keeps its type, whatever the mechanism, with references that
\* never fall below zero.
THEOREM LoopTypeCorrect == Spec => []TypeOK
<1>1. TypeInv /\ PlaceInv => TypeOK
  BY DEF TypeInv
<1> QED
  BY <1>1, LoopInvariance, PTL

\* The reader has one reference to each connection it was handed, from the item in its queue to
\* the removal from its list, whoever closes the connection, in the middle of whatever step; what
\* was closed before the item is read gives its reference back there, and nothing is given back
\* twice.
THEOREM ReferenceIsGivenBackOnce == Spec => []OneReference
<1>1. ASSUME TypeInv, PlaceInv PROVE OneReference
  <2>1. ASSUME NEW s, Once(s), NEW c PROVE Times(s, c) = Count(IsIn(s, c))
    <3> DEFINE S == {i \in 1..Len(s) : s[i] = c}
    <3>1. \A i, j \in S : i = j
      BY <2>1 DEF Once
    <3>2. S # {} <=> IsIn(s, c)
      BY DEF IsIn
    <3>3. Cardinality(S) = Count(S # {})
      BY <3>1, CountOnce
    <3> QED
      BY <3>2, <3>3 DEF Times, Count
  <2>2. ASSUME NEW c \in Conns PROVE Queued(c) = Count(Asked(c))
    <3> DEFINE S == {i \in 1..Len(reader_queue) : reader_queue[i].conn = c}
    <3>1. \A i, j \in S : i = j
      BY <1>1, IoAssumption DEF PlaceInv, AskedOnce
    <3>2. S # {} <=> Asked(c)
      BY DEF Asked
    <3>3. Cardinality(S) = Count(S # {})
      BY <3>1, CountOnce
    <3> QED
      BY <3>2, <3>3 DEF Queued, Count
  <2>3. ASSUME NEW c \in Conns
        PROVE  ref_count[c] = Queued(c) + Times(conn_list, c) + Times(srv_list, c)
                              + IF c \in held THEN 1 ELSE 0
    <3>1. /\ Times(conn_list, c) = Count(IsIn(conn_list, c))
          /\ Times(srv_list, c) = Count(IsIn(srv_list, c))
      BY <1>1, <2>1, Placed
    <3>2. ref_count[c] = References(c)
      BY <1>1, Placed
    <3> QED
      BY <2>2, <3>1, <3>2 DEF References, Count
  <2> QED
    BY <2>3 DEF OneReference
<1> QED
  BY <1>1, LoopInvariance, PTL

-----------------------------------------------------------------------------
(* The loop: the change of the mechanism.                                   *)

Renewing == rpc \in {"renew_first", "renew"}

\* What may be in the queue, where and when.
QueueOrder ==
    /\ \A i \in 1..Len(reader_queue) :
          /\ reader_queue[i].type = "IO_WAIT_READY" => i = 1 /\ Renewing
          /\ reader_queue[i].type = "IO_WAIT_CHANGED" =>
                 i = Len(reader_queue) /\ user = "asked" /\ reader_stopped = 0
          /\ reader_queue[i].type = "TERMINATE" => main # "run"
    /\ Renewing /\ Len(reader_queue) > 0 => reader_queue[1].type = "IO_WAIT_READY"
    /\ Renewing /\ Len(reader_queue) = 0 => user # "idle"

\* How far the thread that changes the mechanism, the reader and the thread that exits are.
ChangeAsked == Len(reader_queue) > 0 /\ reader_queue[Len(reader_queue)].type = "IO_WAIT_CHANGED"
               /\ reader_stopped = 0
ChangeSeen  == Len(reader_queue) = 0 /\ Renewing
UserPhase ==
    /\ user = "idle" /\ main = "run" => reader_stopped = 0
    /\ user = "asked" => ChangeAsked \/ (ChangeSeen /\ reader_stopped = 1)
    /\ user = "install" => ChangeSeen /\ reader_stopped = 0
    /\ main # "run" => user = "idle"
    /\ rpc \in {"stop", "done"} => main # "run"

\* How many functions are of the new mechanism, and whose the reader's group is.
Written ==
    /\ user # "install" => written = 0
    /\ written = Len(Functions) => waiting_type = target
    /\ \A i \in 1..Len(Functions) :
         installed[Functions[i]] =
             FunctionOf(IF i <= written THEN target ELSE waiting_type, Functions[i])
    /\ ~ Renewing /\ rpc # "done" => on_reading = waiting_type

MechInv == QueueOrder /\ UserPhase /\ Written

LEMMA MechanismMatches ==
    ASSUME TypeInv, MechInv
    PROVE  GroupMatches
<1> SUFFICES ASSUME ~ Renewing, rpc # "done", NEW f \in Range(Functions)
             PROVE  installed[f] = FunctionOf(on_reading, f)
  BY DEF GroupMatches, Renewing
<1>1. written = 0 /\ on_reading = waiting_type
  BY DEF MechInv, UserPhase, ChangeSeen, Written
<1>2. PICK i \in 1..8 : f = Functions[i]
  BY FunctionNames
<1>3. installed[Functions[i]] = FunctionOf(IF i <= written THEN target ELSE waiting_type,
                                           Functions[i])
  BY FunctionNames DEF MechInv, Written
<1> QED
  BY <1>1, <1>2, <1>3

LEMMA WrittenAsBefore ==
    ASSUME MechInv, UNCHANGED <<apiVars, userVars, on_reading>>,
           Renewing' <=> Renewing, rpc' = "done" <=> rpc = "done"
    PROVE  Written'
BY DEF MechInv, Written

\* What the reader does elsewhere than at its queue.
LEMMA ElsewhereMech ==
    ASSUME MechInv, ~ Renewing,
           UNCHANGED <<on_reading, reader_queue, reader_stopped, apiVars, userVars, main>>,
           rpc \notin {"stop", "done"},
           rpc' \in {"first", "clear", "build", "cleanup", "wait", "listeners", "connections",
                     "dispatch", "pending"}
    PROVE  MechInv'
<1>1. ~ Renewing' /\ rpc' \notin {"stop", "done"}
  BY DEF Renewing
<1>2. Written'
  BY <1>1, WrittenAsBefore
<1>3. QueueOrder'
  BY <1>1 DEF MechInv, QueueOrder
<1>4. UserPhase'
  BY <1>1 DEF MechInv, UserPhase, ChangeAsked, ChangeSeen
<1> QED
  BY <1>2, <1>3, <1>4 DEF MechInv

\* What another thread pushes while nothing is changed and nothing ends.
LEMMA PushMech ==
    ASSUME TypeInv, MechInv, user = "idle", main = "run", NEW d, IsItem(d), QueuePush(d),
           UNCHANGED <<apiVars, on_reading, rpc, reader_stopped, written>>,
           \/ d.type \in {"CONNECTION", "LISTENER"} /\ UNCHANGED <<user, target, main>>
           \/ d.type = "TERMINATE" /\ main' # "run" /\ UNCHANGED <<user, target>>
           \/ d.type = "IO_WAIT_CHANGED" /\ user' = "asked" /\ UNCHANGED main
    PROVE  MechInv'
<1> DEFINE n == Len(reader_queue)
<1>1. /\ n \in Nat /\ Len(reader_queue') = n + 1
      /\ \A i \in 1..n : reader_queue'[i] = reader_queue[i]
      /\ reader_queue'[n + 1] = d
  BY QueuePushType
<1>2. \A i \in 1..Len(reader_queue') : i \in 1..n \/ i = n + 1
  BY <1>1
<1>3. /\ reader_stopped = 0 /\ rpc \notin {"stop", "done"} /\ written = 0
  BY DEF MechInv, UserPhase, Written
<1>4. \A i \in 1..n : /\ reader_queue[i].type = "IO_WAIT_READY" => i = 1 /\ Renewing
                      /\ reader_queue[i].type \notin {"IO_WAIT_CHANGED", "TERMINATE"}
  BY DEF MechInv, QueueOrder
<1>5. Renewing => n > 0 /\ reader_queue[1].type = "IO_WAIT_READY"
  BY <1>1 DEF MechInv, QueueOrder
<1>6. Renewing' <=> Renewing
  BY DEF Renewing
<1>7. reader_queue'[n + 1].type = d.type
      /\ \A i \in 1..n : reader_queue'[i].type = reader_queue[i].type
  BY <1>1
<1>8. QueueOrder'
  <2>1. ASSUME NEW i \in 1..Len(reader_queue')
        PROVE  /\ reader_queue'[i].type = "IO_WAIT_READY" => i = 1 /\ Renewing'
               /\ reader_queue'[i].type = "IO_WAIT_CHANGED" =>
                      i = Len(reader_queue') /\ user' = "asked" /\ reader_stopped' = 0
               /\ reader_queue'[i].type = "TERMINATE" => main' # "run"
    <3>1. CASE i \in 1..n
      BY <1>4, <1>6, <1>7, <3>1
    <3>2. CASE i = n + 1
      BY <1>1, <1>3, <1>7, <3>2
    <3> QED
      BY <1>2, <3>1, <3>2
  <2>2. Renewing' => reader_queue'[1].type = "IO_WAIT_READY"
    BY <1>1, <1>5, <1>6, <1>7
  <2>3. Len(reader_queue') # 0
    BY <1>1
  <2> QED
    BY <2>1, <2>2, <2>3 DEF QueueOrder
<1>9. UserPhase'
  <2>1. user' # "install" /\ (main' # "run" => user' = "idle")
    OBVIOUS
  <2>2. user' = "asked" => ChangeAsked'
    BY <1>1, <1>3, <1>7 DEF ChangeAsked
  <2> QED
    BY <1>3, <2>1, <2>2 DEF UserPhase
<1>10. Written'
  <2>1. user' # "install" /\ Len(Functions) = 8
    BY FunctionNames
  <2> QED
    BY <1>3, <1>6, <2>1 DEF MechInv, Written
<1> QED
  BY <1>8, <1>9, <1>10 DEF MechInv

ItemRead == reader_queue # <<>> /\ reader_queue' = Tail(reader_queue)

LEMMA QueuePopMech ==
    ASSUME TypeInv, MechInv, ItemRead
    PROVE  /\ Len(reader_queue) \in Nat \ {0} /\ Len(reader_queue') = Len(reader_queue) - 1
           /\ Head(reader_queue) = reader_queue[1]
           /\ \A i \in 1..Len(reader_queue') :
                  i + 1 \in 1..Len(reader_queue) /\ reader_queue'[i] = reader_queue[i + 1]
           /\ Head(reader_queue).type = "IO_WAIT_CHANGED" =>
                  Len(reader_queue) = 1 /\ user = "asked" /\ reader_stopped = 0
           /\ Head(reader_queue).type = "TERMINATE" => main # "run"
           /\ user # "install"
<1>1. /\ Len(reader_queue) \in Nat \ {0} /\ Len(reader_queue') = Len(reader_queue) - 1
      /\ Head(reader_queue) = reader_queue[1]
      /\ \A i \in 1..Len(reader_queue') :
             i + 1 \in 1..Len(reader_queue) /\ reader_queue'[i] = reader_queue[i + 1]
  BY TailEffect DEF TypeInv, TypeOK, ItemRead
<1>2. 1 \in 1..Len(reader_queue)
  BY <1>1
<1>3. user # "install"
  BY <1>1 DEF MechInv, UserPhase, ChangeSeen
<1> QED
  BY <1>1, <1>2, <1>3 DEF MechInv, QueueOrder

\* An item is taken that is no IO_WAIT_CHANGED: what follows it keeps its order.
LEMMA TakenMech ==
    ASSUME TypeInv, MechInv, ItemRead,
           Head(reader_queue).type # "IO_WAIT_CHANGED",
           UNCHANGED <<apiVars, userVars, main, reader_stopped>>,
           rpc # "done", rpc' \in {"first", "clear", "pending", "stop"},
           rpc' = "stop" => main # "run", on_reading' = waiting_type
    PROVE  MechInv'
<1> DEFINE n == Len(reader_queue)
<1>1. /\ n \in Nat \ {0} /\ Len(reader_queue') = n - 1 /\ Head(reader_queue) = reader_queue[1]
      /\ \A i \in 1..Len(reader_queue') : i + 1 \in 1..n /\ reader_queue'[i] = reader_queue[i + 1]
      /\ user # "install"
  BY QueuePopMech
<1>2. ~ Renewing' /\ rpc' # "done"
  BY DEF Renewing
<1>3. ASSUME NEW i \in 1..Len(reader_queue')
      PROVE  /\ reader_queue'[i].type # "IO_WAIT_READY"
             /\ reader_queue'[i].type = "IO_WAIT_CHANGED" =>
                    i = Len(reader_queue') /\ user = "asked" /\ reader_stopped = 0
             /\ reader_queue'[i].type = "TERMINATE" => main # "run"
  <2>1. i + 1 \in 1..n /\ i + 1 # 1 /\ reader_queue'[i] = reader_queue[i + 1] /\ i \in Nat
    BY <1>1
  <2>2. /\ reader_queue[i + 1].type = "IO_WAIT_READY" => i + 1 = 1
        /\ reader_queue[i + 1].type = "IO_WAIT_CHANGED" =>
               i + 1 = n /\ user = "asked" /\ reader_stopped = 0
        /\ reader_queue[i + 1].type = "TERMINATE" => main # "run"
    BY <2>1 DEF MechInv, QueueOrder
  <2>3. i + 1 = n => i = Len(reader_queue')
    <3>1. Len(reader_queue') = n - 1 /\ n \in Nat /\ i \in Nat
      BY <1>1, <2>1
    <3> HIDE DEF n
    <3> QED
      BY <3>1
  <2> QED
    BY <2>1, <2>2, <2>3
<1>4. QueueOrder'
  BY <1>2, <1>3 DEF QueueOrder
<1>5. UserPhase'
  <2>1. user = "asked" => ChangeAsked'
    <3> HAVE user = "asked"
    <3>1. reader_queue[n].type = "IO_WAIT_CHANGED" /\ reader_stopped = 0
      BY <1>1 DEF MechInv, UserPhase, ChangeAsked, ChangeSeen
    <3>2. n # 1
      BY <1>1, <3>1
    <3>3. n - 1 \in 1..Len(reader_queue') /\ (n - 1) + 1 = n
      BY <1>1, <3>2
    <3>4. reader_queue'[n - 1] = reader_queue[n]
      BY <1>1, <3>3
    <3> QED
      BY <1>1, <3>1, <3>3, <3>4 DEF ChangeAsked
  <2>2. /\ user' = user /\ main' = main /\ reader_stopped' = reader_stopped
        /\ rpc' \in {"stop", "done"} => main # "run"
    BY <1>2
  <2> QED
    BY <1>1, <2>1, <2>2 DEF MechInv, UserPhase
<1>6. Written'
  BY <1>1 DEF MechInv, Written
<1> QED
  BY <1>4, <1>5, <1>6 DEF MechInv

\* The reader lets the mechanism be changed: nothing is queued behind it.
LEMMA LetChangeMech ==
    ASSUME TypeInv, MechInv, ItemRead,
           Head(reader_queue).type = "IO_WAIT_CHANGED", LetChange,
           rpc' \in {"renew_first", "renew"}, UNCHANGED <<apiVars, userVars, main>>
    PROVE  MechInv'
<1>1. Len(reader_queue') = 0 /\ user' = "asked" /\ reader_stopped' = 1
  <2>1. /\ Len(reader_queue) = 1 /\ user = "asked" /\ reader_stopped = 0
        /\ Len(reader_queue') = Len(reader_queue) - 1
    BY QueuePopMech
  <2> QED
    BY <2>1 DEF LetChange
<1>2. Renewing' /\ rpc' \notin {"stop", "done"}
  BY DEF Renewing
<1>3. QueueOrder'
  <2>1. \A i \in 1..Len(reader_queue') : FALSE
    BY <1>1
  <2> QED
    BY <1>1, <2>1 DEF QueueOrder
<1>4. UserPhase'
  BY <1>1, <1>2 DEF MechInv, UserPhase, ChangeSeen
<1>5. Written'
  BY <1>1, <1>2 DEF MechInv, Written
<1> QED
  BY <1>3, <1>4, <1>5 DEF MechInv

LEMMA ChangeIoMechMech ==
    ASSUME TypeInv, MechInv, ChangeIoMech
    PROVE  MechInv'
<1>1. /\ Renewing /\ ItemRead
      /\ on_reading' = installed["create"] /\ UNCHANGED <<apiVars, userVars, main, reader_stopped>>
      /\ rpc # "done"
  BY DEF ChangeIoMech, QueueElse, Renewing, ItemRead
<1>2. rpc' \in {"first", "clear", "pending"}
  BY DEF ChangeIoMech
<1>3. Head(reader_queue).type = "IO_WAIT_READY"
  <2>1. Len(reader_queue) > 0 /\ Head(reader_queue) = reader_queue[1]
    BY <1>1, QueuePopMech
  <2> QED
    BY <1>1, <2>1 DEF MechInv, QueueOrder
<1>4. written = 0
  BY <1>1, QueuePopMech DEF MechInv, Written
<1>5. installed["create"] = waiting_type
  <2>1. Functions[1] = "create" /\ 1 \in 1..Len(Functions)
    BY FunctionNames
  <2>2. installed[Functions[1]] = FunctionOf(IF 1 <= written THEN target ELSE waiting_type,
                                             Functions[1])
    BY <2>1 DEF MechInv, Written
  <2>3. installed["create"] = FunctionOf(waiting_type, "create")
    BY <1>4, <2>1, <2>2
  <2> QED
    BY <2>3 DEF FunctionOf
<1> QED
  BY <1>1, <1>2, <1>3, <1>5, TakenMech

\* valvula_io_waiting_use goes on while the reader has no group and reads nothing.
LEMMA UserMech ==
    ASSUME TypeInv, MechInv, UserStep
    PROVE  MechInv'
<1>0. UNCHANGED <<on_reading, rpc, main>> /\ Len(Functions) = 8
  BY FunctionNames DEF UserStep, ReaderPrepared, Install, NotifyChangeDone, UserElse
<1>1. /\ Renewing' <=> Renewing
      /\ rpc' \in {"stop", "done"} <=> rpc \in {"stop", "done"}
      /\ rpc' = "done" <=> rpc = "done"
  BY <1>0 DEF Renewing
<1>2. CASE ReaderPrepared
  <2>1. /\ user = "asked" /\ reader_stopped > 0 /\ reader_stopped' = reader_stopped - 1
        /\ user' = "install" /\ UNCHANGED <<apiVars, reader_queue, target, written>>
    BY <1>2 DEF ReaderPrepared, Prepared
  <2>2. ChangeSeen /\ reader_stopped = 1
    BY <2>1 DEF MechInv, UserPhase, ChangeAsked
  <2>3. main = "run" /\ reader_stopped' = 0
    BY <2>1, <2>2 DEF MechInv, UserPhase
  <2>4. \A i \in 1..0 : FALSE
    OBVIOUS
  <2>5. QueueOrder' /\ UserPhase'
    BY <1>0, <1>1, <2>1, <2>2, <2>3, <2>4 DEF MechInv, QueueOrder, UserPhase, ChangeSeen
  <2>6. Written'
    BY <1>0, <1>1, <2>1 DEF MechInv, Written
  <2> QED
    BY <2>5, <2>6 DEF MechInv
<1>3. CASE Install
  <2> DEFINE f == Functions[written + 1]
  <2>1. /\ user = "install" /\ written < 8 /\ written \in Nat /\ written' = written + 1
        /\ installed' = [installed EXCEPT ![f] = FunctionOf(target, f)]
        /\ waiting_type' = IF written' = 8 THEN target ELSE waiting_type
        /\ UNCHANGED <<reader_queue, reader_stopped, user, target>>
    <3>1. written \in 0..Len(Functions)
      BY DEF TypeInv, TypeOK
    <3>2. written \in Nat
      BY <1>0, <3>1
    <3> QED
      BY <1>0, <1>3, <3>2 DEF Install
  <2>2. ChangeSeen
    BY <2>1 DEF MechInv, UserPhase
  <2>3. QueueOrder' /\ UserPhase'
    BY <1>0, <1>1, <2>1 DEF MechInv, QueueOrder, UserPhase, ChangeSeen
  <2>4. ASSUME NEW i \in 1..8
        PROVE  installed'[Functions[i]] =
                   FunctionOf(IF i <= written' THEN target ELSE waiting_type', Functions[i])
    <3>0. installed \in [Range(Functions) -> Mechs \cup {NULL}]
      BY DEF TypeInv, TypeOK
    <3>1. installed[Functions[i]] = FunctionOf(IF i <= written THEN target ELSE waiting_type,
                                               Functions[i])
      BY <1>0 DEF MechInv, Written
    <3>2. Functions[i] \in Range(Functions) /\ (Functions[i] = f <=> i = written + 1)
      BY <2>1, FunctionNames
    <3>3. installed'[Functions[i]] = IF i = written + 1 THEN FunctionOf(target, Functions[i])
                                     ELSE installed[Functions[i]]
      BY <2>1, <3>0, <3>2
    <3> HIDE DEF f
    <3>4. CASE i = written + 1
      BY <2>1, <3>3, <3>4
    <3>5. CASE i < written + 1
      BY <2>1, <3>1, <3>3, <3>5
    <3>6. CASE i > written + 1
      BY <2>1, <3>1, <3>3, <3>6
    <3> QED
      BY <2>1, <3>4, <3>5, <3>6
  <2> HIDE DEF f
  <2>5. Written'
    BY <1>0, <1>1, <2>1, <2>2, <2>4 DEF Written, ChangeSeen
  <2> QED
    BY <2>3, <2>5 DEF MechInv
<1>4. CASE NotifyChangeDone
  <2> DEFINE d == Command("IO_WAIT_READY")
  <2>1. /\ user = "install" /\ written = 8 /\ QueuePush(d) /\ user' = "idle" /\ written' = 0
        /\ UNCHANGED <<apiVars, reader_stopped>>
    BY <1>0, <1>4 DEF NotifyChangeDone
  <2>2. ChangeSeen /\ reader_stopped = 0 /\ main = "run"
    BY <2>1 DEF MechInv, UserPhase
  <2>3. Len(reader_queue') = 1 /\ reader_queue'[1].type = "IO_WAIT_READY"
    BY <2>1, <2>2, QueuePushType, CommandIsItem DEF ChangeSeen
  <2>4. \A i \in 1..1 : i = 1
    OBVIOUS
  <2>5. QueueOrder'
    BY <1>1, <2>2, <2>3, <2>4 DEF QueueOrder, ChangeSeen
  <2>6. UserPhase'
    BY <1>0, <1>1, <2>1, <2>2 DEF MechInv, UserPhase
  <2>7. waiting_type = target
    BY <1>0, <2>1 DEF MechInv, Written
  <2>8. \A i \in 1..8 : installed[Functions[i]] = FunctionOf(waiting_type, Functions[i])
    BY <1>0, <2>1, <2>7 DEF MechInv, Written
  <2>9. Written'
    BY <1>0, <1>1, <2>1, <2>2, <2>8 DEF Written, ChangeSeen
  <2> QED
    BY <2>5, <2>6, <2>9 DEF MechInv
<1> QED
  BY <1>2, <1>3, <1>4 DEF UserStep

LEMMA MechStep ==
    ASSUME ~ Overlapping, TypeInv, MechInv, [Next]_vars
    PROVE  MechInv'
<1>1. CASE ReadQueue
  <2>1. /\ ItemRead /\ rpc = "first" /\ QueueElse
        /\ \/ /\ Head(reader_queue).type = "IO_WAIT_CHANGED" /\ LetChange
              /\ rpc' = "renew_first"
           \/ /\ Head(reader_queue).type # "IO_WAIT_CHANGED"
              /\ rpc' \in {"first", "clear", "stop"}
              /\ rpc' = "stop" => Head(reader_queue).type = "TERMINATE"
              /\ UNCHANGED <<groupVars, reader_stopped>>
    BY <1>1 DEF ReadQueue, ItemRead
  <2>2. on_reading = waiting_type
    BY <2>1 DEF MechInv, Written, Renewing
  <2>3. Head(reader_queue).type = "TERMINATE" => main # "run"
    BY <2>1, QueuePopMech
  <2> QED
    BY <2>1, <2>2, <2>3, LetChangeMech, TakenMech DEF QueueElse
<1>2. CASE ReadPending
  <2>1. /\ ItemRead /\ rpc = "pending" /\ QueueElse
        /\ \/ /\ Head(reader_queue).type = "IO_WAIT_CHANGED" /\ LetChange
              /\ rpc' = "renew"
           \/ /\ Head(reader_queue).type # "IO_WAIT_CHANGED"
              /\ rpc' \in {"pending", "clear", "stop"}
              /\ rpc' = "stop" => Head(reader_queue).type = "TERMINATE"
              /\ UNCHANGED <<groupVars, reader_stopped>>
    BY <1>2 DEF ReadPending, ItemRead
  <2>2. on_reading = waiting_type
    BY <2>1 DEF MechInv, Written, Renewing
  <2>3. Head(reader_queue).type = "TERMINATE" => main # "run"
    BY <2>1, QueuePopMech
  <2> QED
    BY <2>1, <2>2, <2>3, LetChangeMech, TakenMech DEF QueueElse
<1>3. CASE ChangeIoMech
  BY <1>3, ChangeIoMechMech
<1>4. CASE NothingPending
  BY <1>4, ElsewhereMech DEF NothingPending, QueueElse, LoopElse, Renewing
<1>5. CASE Clear \/ Build \/ Cleanup
  <2>1. /\ rpc \in {"clear", "build", "cleanup"}
        /\ rpc' \in {"first", "build", "cleanup", "wait", "clear"}
    BY <1>5 DEF Clear, Build, Cleanup
  <2>2. UNCHANGED <<on_reading, reader_queue, reader_stopped, apiVars, userVars, main>>
    BY <1>5 DEF Clear, Build, Cleanup, LoopElse
  <2> QED
    BY <2>1, <2>2, ElsewhereMech DEF Renewing
<1>6. CASE Reported \/ NothingReported \/ Interrupted
  BY <1>6, ElsewhereMech DEF Reported, NothingReported, Interrupted, WaitElse, LoopElse,
                             ToPending, Renewing
<1>7. CASE PollDispatch \/ (\E c \in Conns : EpollDispatch(c)) \/ DispatchDone
  BY <1>7, ElsewhereMech DEF PollDispatch, EpollDispatch, DispatchDone, DispatchElse, LoopElse,
                             ToPending, Renewing
<1>8. CASE CheckListener \/ ListenersDone
  BY <1>8, ElsewhereMech DEF CheckListener, ListenersDone, DispatchElse, LoopElse, Renewing
<1>9. CASE CheckConnections \/ ConnectionsDone
  BY <1>9, ElsewhereMech DEF CheckConnections, ConnectionsDone, DispatchElse, LoopElse,
                             ToPending, Renewing
<1>10. CASE StopProcess
  <2>1. /\ rpc = "stop" /\ rpc' = "done" /\ UNCHANGED <<reader_queue, outside>>
    BY <1>10 DEF StopProcess
  <2>2. ~ Renewing /\ ~ Renewing' /\ main # "run" /\ user = "idle"
    BY <2>1 DEF MechInv, UserPhase, Renewing
  <2>3. QueueOrder'
    BY <2>1, <2>2 DEF MechInv, QueueOrder
  <2>4. UserPhase' /\ Written'
    BY <2>1, <2>2 DEF MechInv, UserPhase, Written
  <2> QED
    BY <2>3, <2>4 DEF MechInv
<1>11. ASSUME NEW c \in Conns, WatchListener(c) \/ WatchConnection(c) PROVE MechInv'
  <2> DEFINE d == [type |-> IF c \in Listeners THEN "LISTENER" ELSE "CONNECTION", conn |-> c]
  <2>1. IsItem(d) /\ d.type \in {"CONNECTION", "LISTENER"}
    BY IoAssumption DEF IsItem, Item
  <2>2. /\ QueuePush(d) /\ user = "idle" /\ main = "run"
        /\ UNCHANGED <<apiVars, groupVars, userVars, rpc, reader_stopped, main>>
    BY <1>11, IoAssumption DEF WatchListener, WatchConnection, Undisturbed
  <2> HIDE DEF d
  <2> QED
    BY <2>1, <2>2, PushMech
<1>12. ASSUME NEW m \in Mechs, NotifyChange(m) PROVE MechInv'
  BY <1>12, CommandIsItem, PushMech DEF NotifyChange, UserElse
<1>13. CASE Terminate
  BY <1>13, CommandIsItem, PushMech DEF Terminate, MainElse, Undisturbed
<1>14. CASE UserStep
  BY <1>14, UserMech
<1>15. CASE ReaderStopped
  <2>1. /\ main = "stopping" /\ main' = "joined" /\ UNCHANGED <<reader_queue, rpc, userVars>>
        /\ UNCHANGED <<apiVars, on_reading>>
    BY <1>15 DEF ReaderStopped, MainElse
  <2>2. user = "idle" /\ (Renewing' <=> Renewing)
    BY <2>1 DEF MechInv, UserPhase, Renewing
  <2>3. QueueOrder'
    BY <2>1, <2>2 DEF MechInv, QueueOrder
  <2>4. UserPhase' /\ Written'
    BY <2>1, <2>2 DEF MechInv, UserPhase, Written
  <2> QED
    BY <2>3, <2>4 DEF MechInv
<1>16. ASSUME UNCHANGED <<apiVars, userVars, on_reading, rpc, reader_queue, reader_stopped, main>>
       PROVE  MechInv'
  <2>1. Renewing' <=> Renewing
    BY <1>16 DEF Renewing
  <2> QED
    BY <1>16, <2>1 DEF MechInv, QueueOrder, UserPhase, Written, ChangeAsked, ChangeSeen
<1>17. CASE (\E c \in Conns : CloseShared(c) \/ Arrive(c)) \/ UNCHANGED vars
  BY <1>16, <1>17 DEF CloseShared, Arrive, vars
<1> QED
  BY <1>1, <1>2, <1>3, <1>4, <1>5, <1>6, <1>7, <1>8, <1>9, <1>10, <1>11, <1>12, <1>13, <1>14, <1>15,
     <1>17 DEF Next, ReaderStep

LEMMA MechInitial ==
    ASSUME Init
    PROVE  MechInv
<1>1. /\ Len(reader_queue) = 0 /\ user = "idle" /\ reader_stopped = 0 /\ main = "run"
      /\ rpc = "first" /\ written = 0 /\ on_reading = waiting_type /\ waiting_type = Default
      /\ installed = [f \in Range(Functions) |-> FunctionOf(Default, f)]
  BY DEF Init
<1>2. ~ Renewing /\ \A i \in 1..Len(reader_queue) : FALSE
  BY <1>1 DEF Renewing
<1>3. QueueOrder /\ UserPhase
  BY <1>1, <1>2 DEF QueueOrder, UserPhase
<1>4. Written
  <2>1. ASSUME NEW i \in 1..8
        PROVE  installed[Functions[i]] = FunctionOf(waiting_type, Functions[i]) /\ ~ (i <= written)
    BY <1>1, FunctionNames
  <2> QED
    BY <1>1, <1>2, <2>1, FunctionNames DEF Written
<1> QED
  BY <1>3, <1>4 DEF MechInv

\* The functions of one mechanism never get the group of another: while any of the eight is
\* written the reader has none.  This holds as long as nothing is queued behind a change that is
\* not done: the reader takes whatever item comes next for the end of the change
\* (valvula_reader.c:902-912).
THEOREM GroupIsOfTheMechanism == ~ Overlapping /\ Spec => []GroupMatches
<1> SUFFICES ASSUME ~ Overlapping
             PROVE  Spec => []GroupMatches
  OBVIOUS
<1>1. Init => TypeInv /\ PlaceInv /\ MechInv
  BY LoopInitial, MechInitial
<1>2. TypeInv /\ PlaceInv /\ MechInv /\ [Next]_vars => (TypeInv /\ PlaceInv /\ MechInv)'
  BY TypeStep, PlaceStep, MechStep
<1>3. TypeInv /\ MechInv => GroupMatches
  BY MechanismMatches
<1> QED
  BY <1>1, <1>2, <1>3, PTL DEF Spec


-----------------------------------------------------------------------------
(* The loop: what the group points to.                                      *)

\* The group of poll and of epoll has pointers to connections, and no references: what it may
\* dispatch is alive because the reader still lists it.
WatchedIsHeld ==
    /\ rpc \in {"wait", "dispatch"} => \A c \in Range(set) : ref_count[c] > 0
    /\ rpc = "dispatch" => \A c \in todo : ref_count[c] > 0

Listed(c) == IsIn(conn_list, c) \/ IsIn(srv_list, c)
WatchInv ==
    /\ rpc \in {"wait", "dispatch"} => \A c \in Range(set) : Listed(c)
    /\ rpc = "dispatch" => todo \subseteq Range(set)

\* What add_to takes is of what it was given.
LEMMA TakesEffect ==
    ASSUME NEW s \in Seq(Conns), NEW lost, NEW c \in Range(Takes(s, lost))
    PROVE  c \in Range(s)
<1>1. ASSUME NEW t \in Seq(Conns), NEW m \in Mechs, NEW d \in Range(FirstOf(t, m))
      PROVE  IsIn(t, d)
  <2> DEFINE n == IF Len(t) < Limit[m] THEN Len(t) ELSE Limit[m]
  <2>1. Len(t) \in Nat /\ Limit[m] \in Nat
    BY IoAssumption
  <2>2. n \in Nat /\ n <= Len(t)
    BY <2>1
  <2>3. FirstOf(t, m) = SubSeq(t, 1, n)
    BY DEF FirstOf
  <2> HIDE DEF n
  <2>4. \A i \in 1..n : i \in 1..Len(t) /\ t[i] \in Conns
    BY <2>1, <2>2, ElementOfSeq
  <2>5. /\ SubSeq(t, 1, n) \in Seq(Conns) /\ Len(SubSeq(t, 1, n)) = n
        /\ \A i \in 1..n : SubSeq(t, 1, n)[i] = t[i]
    BY <2>2, <2>4, SubSeqProperties
  <2>6. PICK i \in 1..n : SubSeq(t, 1, n)[i] = d
    BY <1>1, <2>3, <2>5, RangeIsIn DEF IsIn
  <2> QED
    BY <2>4, <2>5, <2>6 DEF IsIn
<1>2. /\ Without(s, lost) \in Seq(Conns)
      /\ \A d : IsIn(Without(s, lost), d) => IsIn(s, d)
  BY WithoutEffect
<1>3. IsIn(s, c)
  BY <1>1, <1>2 DEF Takes, SelectTakes, PollTakes, EpollTakes, Mechs
<1> QED
  BY <1>3, RangeIsIn

LEMMA BuildWatch ==
    ASSUME TypeInv, PlaceInv, Build
    PROVE  \A c \in Range(set') : Listed(c)'
<1> DEFINE listed == srv_list \o conn_list
           watched(lost) == Takes(Without(listed, NotOk), lost)
<1>1. PICK lost \in SUBSET {c \in Range(conn_list) : Closing(c)} :
        LET gone == Range(listed) \ Range(watched(lost))
        IN  /\ set' = watched(lost)
            /\ conn_list' = Without(conn_list, gone) /\ srv_list' = Without(srv_list, gone)
  BY DEF Build
<1> DEFINE gone == Range(listed) \ Range(watched(lost))
<1>2. /\ set' = watched(lost)
      /\ conn_list' = Without(conn_list, gone) /\ srv_list' = Without(srv_list, gone)
  BY <1>1
<1>3. ASSUME NEW c \in Range(watched(lost)) PROVE Listed(c)
  <2>1. listed \in Seq(Conns) /\ \A d : d \in Range(listed) <=> Listed(d)
    <3>1. listed \in Seq(Conns) /\ \A d : d \in Range(listed) <=> IsIn(srv_list, d)
                                                                  \/ IsIn(conn_list, d)
      BY Placed, ConcatIsIn
    <3> QED
      BY <3>1 DEF Listed
  <2> HIDE DEF listed
  <2>2. Without(listed, NotOk) \in Seq(Conns)
        /\ \A d : IsIn(Without(listed, NotOk), d) => IsIn(listed, d)
    BY <2>1, WithoutEffect
  <2>3. c \in Range(Without(listed, NotOk))
    BY <1>3, <2>2, TakesEffect
  <2>4. c \in Range(listed)
    BY <2>1, <2>2, <2>3, RangeIsIn
  <2> QED
    BY <2>1, <2>4
<1>4. \A c \in Range(watched(lost)) : c \notin gone
  OBVIOUS
<1> HIDE DEF watched, gone
<1>5. \A c : Listed(c)' <=> Listed(c) /\ c \notin gone
  BY <1>2, Placed, WithoutEffect DEF Listed
<1> QED
  BY <1>2, <1>3, <1>4, <1>5

LEMMA WatchStep ==
    ASSUME TypeInv, PlaceInv, WatchInv, [Next]_vars
    PROVE  WatchInv'
<1>1. ASSUME UNCHANGED <<rpc, set, todo>>, \A c : Listed(c) => Listed(c)' PROVE WatchInv'
  BY <1>1 DEF WatchInv
<1>2. ASSUME rpc' \notin {"wait", "dispatch"} PROVE WatchInv'
  BY <1>2 DEF WatchInv
<1>3. ASSUME UNCHANGED listVars PROVE \A c : Listed(c) => Listed(c)'
  BY <1>3 DEF Listed
<1>4. CASE \/ ReadQueue \/ ReadPending \/ NothingPending \/ ChangeIoMech \/ Clear \/ Cleanup
           \/ NothingReported \/ Interrupted \/ DispatchDone \/ CheckListener \/ ListenersDone
           \/ CheckConnections \/ ConnectionsDone \/ StopProcess
  BY <1>2, <1>4 DEF ReadQueue, ReadPending, NothingPending, ChangeIoMech, Clear, Cleanup,
     NothingReported, Interrupted, DispatchDone, CheckListener, ListenersDone, CheckConnections,
     ConnectionsDone, StopProcess, ToPending
<1>5. CASE Build
  <2>1. rpc' \in {"cleanup", "wait"}
    BY <1>5 DEF Build
  <2> QED
    BY <1>5, <2>1, BuildWatch DEF WatchInv
<1>6. CASE Reported
  <2>1. /\ rpc = "wait" /\ rpc' \in {"dispatch", "listeners"} /\ set' = set
        /\ todo' \subseteq Range(set) /\ UNCHANGED listVars
    BY <1>6 DEF Reported, WaitElse, Ready
  <2> QED
    BY <1>3, <2>1 DEF WatchInv
<1>7. CASE PollDispatch \/ \E c \in Conns : EpollDispatch(c)
  <2>1. rpc = "dispatch" /\ UNCHANGED <<rpc, set>> /\ todo' \subseteq todo
    BY <1>7 DEF PollDispatch, EpollDispatch, DispatchElse
  <2>2. \A c : Listed(c) => Listed(c)'
    <3>1. UNCHANGED listVars \/ \E d \in Conns : conn_list' = Append(conn_list, d)
                                                 /\ srv_list' = srv_list
      BY <1>7 DEF PollDispatch, EpollDispatch, Dispatch, Accept, ProcessSocket, Conns
    <3>2. ASSUME NEW d \in Conns, conn_list' = Append(conn_list, d), srv_list' = srv_list
          PROVE  \A c : Listed(c) => Listed(c)'
      <4>1. \A c : IsIn(conn_list, c) => IsIn(conn_list', c)
        BY <3>2, AppendEffect, Placed
      <4> QED
        BY <3>2, <4>1 DEF Listed
    <3> QED
      BY <1>3, <3>1, <3>2
  <2> QED
    BY <2>1, <2>2 DEF WatchInv
<1>8. CASE \/ \E c \in Conns : WatchListener(c) \/ WatchConnection(c) \/ CloseShared(c) \/ Arrive(c)
           \/ \E m \in Mechs : NotifyChange(m)
           \/ UserStep \/ Terminate \/ ReaderStopped \/ UNCHANGED vars
  <2>1. UNCHANGED <<rpc, set, todo, conn_list, srv_list>>
    BY <1>8 DEF WatchListener, WatchConnection, CloseShared, Arrive, NotifyChange, UserStep,
       ReaderPrepared, Install, NotifyChangeDone, UserElse, Terminate, ReaderStopped, MainElse, vars
  <2> QED
    BY <1>1, <1>3, <2>1
<1> QED
  BY <1>4, <1>5, <1>6, <1>7, <1>8 DEF Next, ReaderStep

\* While the reader waits or dispatches, each connection in the set of the mechanism, and each the
\* system reported, has a reference: poll->connections and the data.ptr of epoll never point to
\* what was freed, though others close connections meanwhile.
THEOREM WatchedConnectionsAreAlive == Spec => []WatchedIsHeld
<1>1. Init => WatchInv
  BY DEF Init, WatchInv
<1>2. TypeInv /\ PlaceInv /\ WatchInv /\ [Next]_vars => WatchInv'
  BY WatchStep
<1>3. ASSUME TypeInv, PlaceInv, WatchInv PROVE WatchedIsHeld
  <2> SUFFICES ASSUME NEW c, Listed(c) PROVE ref_count[c] > 0
    BY <1>3 DEF WatchedIsHeld, WatchInv
  <2>1. Listed(c)
    OBVIOUS
  <2>2. c \in Conns
    <3>1. Range(conn_list) \subseteq Conns /\ Range(srv_list) \subseteq Conns
      BY <1>3, Placed, RangeIsIn
    <3> QED
      BY <1>3, <2>1, <3>1, Placed, RangeIsIn DEF Listed
  <2>3. ref_count[c] = References(c)
    BY <1>3, <2>2, Placed
  <2> QED
    BY <2>1, <2>3 DEF References, Count, Listed
<1> QED
  BY <1>1, <1>2, <1>3, LoopInvariance, PTL DEF Spec

=============================================================================
