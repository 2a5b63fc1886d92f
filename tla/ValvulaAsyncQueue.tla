-------------------------- MODULE ValvulaAsyncQueue --------------------------
(***************************************************************************)
(* ValvulaAsyncQueue (lib/valvula_thread.c): a list of items, a mutex and  *)
(* one condition variable, through which the reader feeds the thread pool. *)
(*                                                                         *)
(* A call is one step while it holds the mutex; a thread inside the wait   *)
(* of the condition variable is "asleep" until a signal, a spurious wakeup *)
(* or its timeout takes it out, and "awake" until it has the mutex again.  *)
(*                                                                         *)
(* Init, Next and the like have a prefix: the module is used beside        *)
(* ValvulaIo, whose reader sleeps at such a queue.                         *)
(***************************************************************************)
EXTENDS Naturals, Sequences, FiniteSets

CONSTANTS
    Threads,
    Items,
    MaxLength,      \* bound: items in the queue
    MaxBatch,       \* bound: unlocked pushes between one lock and its unlock
    NONE            \* no thread, or the NULL a pop may return

ASSUME QueueAssumption ==
    /\ IsFiniteSet(Threads)
    /\ MaxLength \in Nat /\ MaxBatch \in Nat
    /\ NONE \notin Threads \cup Items

VARIABLES
    data,           \* queue->data: push prepends, pop removes the last
    waiters,        \* queue->waiters
    mutex,          \* the thread between valvula_async_queue_lock and _unlock
    batch,          \* the pushes it has made since
    pc, timed,      \* where a thread is, and whether its wait has a limit
    got

queueVars == <<data, waiters, mutex, batch, pc, timed, got>>

QueueTypeOK ==
    /\ data \in Seq(Items)
    /\ waiters \in Nat
    /\ mutex \in Threads \cup {NONE}
    /\ batch \in Nat
    /\ pc \in [Threads -> {"idle", "asleep", "awake", "locked"}]
    /\ timed \in [Threads -> BOOLEAN]
    /\ got \in [Threads -> Items \cup {NONE}]

QueueInit ==
    /\ data = <<>> /\ waiters = 0 /\ mutex = NONE /\ batch = 0
    /\ pc = [t \in Threads |-> "idle"]
    /\ timed = [t \in Threads |-> FALSE]
    /\ got = [t \in Threads |-> NONE]

-----------------------------------------------------------------------------
Asleep == {t \in Threads : pc[t] = "asleep"}
Awake  == {t \in Threads : pc[t] = "awake"}

\* Faulty variant: a signal is thought needed only for the first item.
SignalFirst ==
    IF waiters > 0 /\ data = <<>> /\ Asleep # {}
    THEN \E t \in Asleep : pc' = [pc EXCEPT ![t] = "awake"]
    ELSE UNCHANGED pc

\* valvula_cond_signal when there are waiters: it takes one of the threads that sleep
\* out of the wait, if one still does.
Signal ==
    IF waiters > 0 /\ Asleep # {}
    THEN \E t \in Asleep : pc' = [pc EXCEPT ![t] = "awake"]
    ELSE UNCHANGED pc

Calls(t) == pc[t] = "idle" /\ mutex = NONE

Push(t, x) ==
    /\ Calls(t) /\ Len(data) < MaxLength
    /\ data' = <<x>> \o data
    /\ Signal
    /\ UNCHANGED <<waiters, mutex, batch, timed, got>>

PriorityPush(t, x) ==
    /\ Calls(t) /\ Len(data) < MaxLength
    /\ data' = Append(data, x)
    /\ Signal
    /\ UNCHANGED <<waiters, mutex, batch, timed, got>>

Lock(t) ==
    /\ Calls(t)
    /\ mutex' = t
    /\ pc' = [pc EXCEPT ![t] = "locked"]
    /\ UNCHANGED <<data, waiters, batch, timed, got>>

UnlockedPush(t, x) ==
    /\ mutex = t /\ Len(data) < MaxLength /\ batch < MaxBatch
    /\ data' = <<x>> \o data
    /\ batch' = batch + 1
    /\ UNCHANGED <<waiters, mutex, pc, timed, got>>

\* One signal, however many items were pushed under the lock.
Unlock(t) ==
    /\ mutex = t
    /\ IF waiters > 0 /\ Asleep # {}
       THEN \E u \in Asleep : pc' = [pc EXCEPT ![u] = "awake", ![t] = "idle"]
       ELSE pc' = [pc EXCEPT ![t] = "idle"]
    /\ mutex' = NONE /\ batch' = 0
    /\ UNCHANGED <<data, waiters, timed, got>>

\* The end of a pop: the last item, which is the oldest.
Take(t) ==
    /\ got' = [got EXCEPT ![t] = data[Len(data)]]
    /\ data' = SubSeq(data, 1, Len(data) - 1)

\* valvula_async_queue_pop and _timedpop.
Pop(t, limit) ==
    /\ Calls(t)
    /\ IF data # <<>>
       THEN Take(t) /\ UNCHANGED <<waiters, pc, timed>>
       ELSE /\ waiters' = waiters + 1
            /\ pc' = [pc EXCEPT ![t] = "asleep"]
            /\ timed' = [timed EXCEPT ![t] = limit]
            /\ UNCHANGED <<data, got>>
    /\ UNCHANGED <<mutex, batch>>

\* A spurious wakeup, or the timeout.
WakeUp(t) ==
    /\ pc[t] = "asleep"
    /\ pc' = [pc EXCEPT ![t] = "awake"]
    /\ UNCHANGED <<data, waiters, mutex, batch, timed, got>>

\* Faulty variant: a thread that gives up forgets to take itself off the count.
GiveUpForgotten == waiters

\* The count after a timed wait that found nothing.
GiveUpCount == waiters - 1

\* The thread has the mutex again.  pop goes back to wait when there is still no item;
\* timedpop returns NULL.
Resume(t) ==
    /\ pc[t] = "awake" /\ mutex = NONE
    /\ IF data # <<>>
       THEN Take(t) /\ waiters' = waiters - 1 /\ pc' = [pc EXCEPT ![t] = "idle"]
       ELSE IF timed[t]
       THEN /\ got' = [got EXCEPT ![t] = NONE]
            /\ waiters' = GiveUpCount
            /\ pc' = [pc EXCEPT ![t] = "idle"]
            /\ UNCHANGED data
       ELSE pc' = [pc EXCEPT ![t] = "asleep"] /\ UNCHANGED <<data, waiters, got>>
    /\ timed' = [timed EXCEPT ![t] = @ /\ pc'[t] = "asleep"]
    /\ UNCHANGED <<mutex, batch>>

QueueNext ==
    \E t \in Threads :
        \/ \E x \in Items : Push(t, x) \/ PriorityPush(t, x) \/ UnlockedPush(t, x)
        \/ Lock(t) \/ Unlock(t)
        \/ \E limit \in BOOLEAN : Pop(t, limit)
        \/ WakeUp(t) \/ Resume(t)

\* A thread that is out of the wait gets the mutex, and who locks unlocks.
QueueFairness == \A t \in Threads : SF_queueVars(Resume(t)) /\ WF_queueVars(Unlock(t))

QueueSpec == QueueInit /\ [][QueueNext]_queueVars /\ QueueFairness

-----------------------------------------------------------------------------
\* The count that valvula_thread_pool_stats and the automatic resize of the pool read
\* is the number of threads inside a pop.
WaitersCounted == waiters = Cardinality(Asleep \cup Awake)

\* No wakeup is lost: while a thread sleeps, there is a thread on its way for every
\* item, so no item waits for a signal that was already given.
NoLostWakeup == Asleep # {} => Len(data) <= Cardinality(Awake) + batch

\* The queue implements what it promises; mostly, that items do not stay while
\* threads sleep.
Promise == INSTANCE ValvulaQueue WITH
    contents <- data, waiting <- Asleep \cup Awake, NULL <- NONE
Delivers == Promise!Spec
=============================================================================
