-------------------------- MODULE ValvulaThreadPool --------------------------
(***************************************************************************)
(* The thread pool (lib/valvula_thread_pool.c): threads that take tasks    *)
(* and beacons from one queue, the automatic resize that adds and removes  *)
(* threads, and the exit that stops them all.                              *)
(*                                                                         *)
(* A beacon "remove" (2 in the code) makes the thread that pops it leave   *)
(* the pool; on its way out it pushes a "collect" (3), and who pops that   *)
(* joins it.  A "stop" (1) ends a thread when the pool stops.  The queue   *)
(* is the one ValvulaAsyncQueue implements, its calls are single steps.    *)
(* The events that threads run between tasks are left out here.            *)
(***************************************************************************)
EXTENDS Naturals, Sequences, FiniteSets

CONSTANTS
    Threads,            \* the threads that may be created
    Tasks,
    Base,               \* the threads valvula_thread_pool_init starts
    MaxLimit, AddStep, RemoveStep, AutoRemove, Preemptive,  \* _setup2's configuration
    MaxCalls,           \* bound: calls of valvula_thread_pool_add and _remove
    OverlappingRemovals,    \* bound: may a removal start before the last has ended
    ExitDuringRemoval,      \* bound: may the exit start before a removal has ended
    NULL

ASSUME PoolAssumption ==
    /\ IsFiniteSet(Threads) /\ IsFiniteSet(Tasks)
    /\ Base \subseteq Threads /\ Base # {}
    /\ MaxLimit \in Nat /\ AddStep \in Nat \ {0} /\ RemoveStep \in Nat \ {0}
    /\ AutoRemove \in BOOLEAN /\ Preemptive \in BOOLEAN
    /\ MaxCalls \in Nat
    /\ OverlappingRemovals \in BOOLEAN /\ ExitDuringRemoval \in BOOLEAN
    /\ Tasks \cap {"stop", "remove", "collect"} = {}
    /\ NULL \notin Threads \cup Tasks \cup {"stop", "remove", "collect"}

VARIABLES
    queue,          \* tasks and beacons, the oldest first
    threads,        \* pool->threads, as a set
    stopped,        \* pool->stopped: threads that left and are to be joined
    pc,             \* where each thread is
    hand,           \* the task each thread has popped
    new,            \* the task new_task has accepted and not pushed yet
    accepted, ran, dropped,     \* what became of the tasks
    main,           \* how far valvula_exit_ctx is
    beacons,        \* the "stop" beacons it has pushed
    calls

taskVars == <<new, accepted, ran, dropped>>
vars == <<queue, threads, stopped, pc, hand, taskVars, main, beacons, calls>>

Item == Tasks \cup {"stop", "remove", "collect"}

TypeOK ==
    /\ queue \in Seq(Item)
    /\ threads \subseteq Threads
    /\ stopped \in Seq(Threads)
    /\ pc \in [Threads -> {"none", "pop", "preempt", "run", "resize", "remove", "unlinked",
                           "notify", "collect", "join", "exit", "done", "joined"}]
    /\ hand \in [Threads -> Tasks \cup {NULL}]
    /\ new \in Tasks \cup {NULL}
    /\ accepted \subseteq Tasks
    /\ ran \in [Tasks -> Nat] /\ dropped \in [Tasks -> Nat]
    /\ main \in {"run", "exiting", "closed", "beacons", "join", "collect", "freed"}
    /\ beacons \in Nat /\ calls \in Nat

Init ==
    /\ queue = <<>> /\ stopped = <<>>
    /\ threads = Base
    /\ pc = [t \in Threads |-> IF t \in Base THEN "pop" ELSE "none"]
    /\ hand = [t \in Threads |-> NULL]
    /\ new = NULL /\ accepted = {}
    /\ ran = [x \in Tasks |-> 0] /\ dropped = [x \in Tasks |-> 0]
    /\ main = "run" /\ beacons = 0 /\ calls = 0

-----------------------------------------------------------------------------
(* ctx->valvula_exit, ctx->thread_pool_being_stopped and the queue.         *)

IsExiting    == main # "run"
BeingStopped == main \notin {"run", "exiting"}

At(where) == {t \in Threads : pc[t] \in where}
Queued(x) == Cardinality({i \in 1..Len(queue) : queue[i] = x})

GoTo(t, where) == pc' = [pc EXCEPT ![t] = where]

\* A removal lasts from its beacon in the queue until the thread is in pool->stopped.
Removing == Queued("remove") > 0 \/ At({"remove", "unlinked"}) # {}
MayRemove == OverlappingRemovals \/ ~ Removing

-----------------------------------------------------------------------------
(* Tasks come from one thread, the reader.                                  *)

\* valvula_thread_pool_new_task looks at the flag without a lock ...
Accept(x) ==
    /\ new = NULL /\ x \notin accepted
    /\ ~ BeingStopped
    /\ new' = x /\ accepted' = accepted \cup {x}
    /\ UNCHANGED <<queue, threads, stopped, pc, hand, ran, dropped, main, beacons, calls>>

\* ... and pushes the task later.
PushTask ==
    /\ new # NULL
    /\ queue' = Append(queue, new) /\ new' = NULL
    /\ UNCHANGED <<threads, stopped, pc, hand, accepted, ran, dropped, main, beacons, calls>>

-----------------------------------------------------------------------------
(* Adding and removing threads, both under pool->mutex.                     *)

\* valvula_thread_pool_add_internal.  The bound is Threads: with none left, nothing
\* more can be created.
StartThreads(n, p) ==
    \E new_threads \in SUBSET At({"none"}) :
        /\ Cardinality(new_threads) = n
        /\ threads' = threads \cup new_threads
        /\ pc' = [t \in Threads |-> IF t \in new_threads THEN "pop" ELSE p[t]]

Copies(n, x) == [i \in 1..n |-> x]

\* Faulty variant: one beacon for each thread asked for, even the last ones.
BeaconsUnguarded(n) == Copies(n, "remove")

\* valvula_thread_pool_remove_internal: at most one beacon less than there are threads.
RemoveBeacons(n) ==
    LET running == Cardinality(threads)
    IN  Copies(IF n < running THEN n ELSE IF running = 0 THEN 0 ELSE running - 1, "remove")

Add(n) ==
    /\ main = "run" /\ calls < MaxCalls
    /\ StartThreads(n, pc)
    /\ calls' = calls + 1
    /\ UNCHANGED <<queue, stopped, hand, taskVars, main, beacons>>

Remove(n) ==
    /\ main = "run" /\ calls < MaxCalls /\ MayRemove
    /\ queue' = queue \o RemoveBeacons(n)
    /\ calls' = calls + 1
    /\ UNCHANGED <<threads, stopped, pc, hand, taskVars, main, beacons>>

\* __valvula_thread_pool_automatic_resize by a caller that leaves the program counters
\* at p.  Nothing changes while its period has not passed, which may be at any time.
AutomaticResize(p) ==
    LET running == Cardinality(threads)
        pending == Len(queue)
        waiting == 0 .. Cardinality({t \in Threads : p[t] = "pop"})
    IN  \/ pc' = p /\ UNCHANGED <<queue, threads>>
        \/ /\ ~ BeingStopped /\ ~ IsExiting
           /\ running < MaxLimit /\ pending > 0 /\ 0 \in waiting
           /\ StartThreads(AddStep, p)
           /\ UNCHANGED queue
        \/ /\ ~ BeingStopped /\ ~ IsExiting
           /\ AutoRemove /\ pending = 0 /\ running > Cardinality(Base)
           /\ \E w \in waiting : w + 2 > Cardinality(Base)
           /\ MayRemove
           /\ queue' = queue \o RemoveBeacons(RemoveStep)
           /\ pc' = p /\ UNCHANGED threads

\* The reader asks for a resize each time its wait ends.
ReaderResize ==
    /\ AutomaticResize(pc)
    /\ UNCHANGED <<stopped, hand, taskVars, main, beacons, calls>>
-----------------------------------------------------------------------------
(* __valvula_thread_pool_dispatcher, the loop of each thread.               *)

\* Where the thread goes with what it popped.
Dispatch(x) ==
    IF x \in Tasks THEN IF Preemptive THEN "preempt" ELSE "run"
    ELSE IF x = "stop" THEN "exit" ELSE x

Pop(t) ==
    /\ pc[t] = "pop" /\ queue # <<>>
    /\ LET x == Head(queue)
       IN  /\ x = "stop" => BeingStopped
           /\ GoTo(t, Dispatch(x))
           /\ hand' = [hand EXCEPT ![t] = IF x \in Tasks THEN x ELSE NULL]
    /\ queue' = Tail(queue)
    /\ UNCHANGED <<threads, stopped, taskVars, main, beacons, calls>>

Timeout(t) ==
    /\ pc[t] = "pop" /\ queue = <<>>
    /\ GoTo(t, "resize")
    /\ UNCHANGED <<queue, threads, stopped, hand, taskVars, main, beacons, calls>>

Resize(t) ==
    /\ pc[t] \in {"preempt", "resize"}
    /\ AutomaticResize([pc EXCEPT ![t] = IF @ = "preempt" THEN "run" ELSE "pop"])
    /\ UNCHANGED <<stopped, hand, taskVars, main, beacons, calls>>

\* Faulty variant: the pointer to the task stays set when the task has been freed.
StillHeld(t) == hand

Released(t) == [hand EXCEPT ![t] = NULL]

\* The task's function, or nothing once the pool stops.
Run(t) ==
    /\ pc[t] = "run"
    /\ LET x == hand[t]
       IN  IF ~ BeingStopped /\ ~ IsExiting
           THEN ran' = [ran EXCEPT ![x] = @ + 1] /\ UNCHANGED dropped
           ELSE dropped' = [dropped EXCEPT ![x] = @ + 1] /\ UNCHANGED ran
    /\ hand' = Released(t)
    /\ GoTo(t, IF Preemptive THEN "pop" ELSE "resize")
    /\ UNCHANGED <<queue, threads, stopped, new, accepted, main, beacons, calls>>

\* pool->stopped_mutex is held by a thread that goes from one list to the other, and by
\* one that joins another.
StoppedMutexFree == At({"unlinked", "join"}) = {}

Unlink(t) ==
    /\ pc[t] = "remove" /\ StoppedMutexFree
    /\ threads' = threads \ {t}
    /\ GoTo(t, "unlinked")
    /\ UNCHANGED <<queue, stopped, hand, taskVars, main, beacons, calls>>

\* Faulty variant: the thread forgets to leave itself where it can be joined.
NowStoppedForgotten(t) == stopped

NowStopped(t) == Append(stopped, t)

AppendStopped(t) ==
    /\ pc[t] = "unlinked"
    /\ stopped' = NowStopped(t)
    /\ GoTo(t, "notify")
    /\ UNCHANGED <<queue, threads, hand, taskVars, main, beacons, calls>>

\* Faulty variant: no beacon follows the removed thread.
CollectBeaconForgotten == <<>>

CollectBeacon == <<"collect">>

Notify(t) ==
    /\ pc[t] = "notify"
    /\ queue' = queue \o CollectBeacon
    /\ GoTo(t, "exit")
    /\ UNCHANGED <<threads, stopped, hand, taskVars, main, beacons, calls>>

\* The thread drops its references to the queue and to the context, and ends.
Finish(t) ==
    /\ pc[t] = "exit"
    /\ GoTo(t, "done")
    /\ UNCHANGED <<queue, threads, stopped, hand, taskVars, main, beacons, calls>>

\* axl_list_remove_first (pool->stopped), whose destructor joins the thread.
Collect(t) ==
    /\ pc[t] = "collect" /\ StoppedMutexFree
    /\ GoTo(t, IF stopped = <<>> THEN "pop" ELSE "join")
    /\ UNCHANGED <<queue, threads, stopped, hand, taskVars, main, beacons, calls>>

Joined(t) ==
    /\ pc[t] = "join" /\ pc[Head(stopped)] = "done"
    /\ pc' = [pc EXCEPT ![t] = "pop", ![Head(stopped)] = "joined"]
    /\ stopped' = Tail(stopped)
    /\ UNCHANGED <<queue, threads, hand, taskVars, main, beacons, calls>>

Dispatcher(t) ==
    \/ Pop(t) \/ Timeout(t) \/ Resize(t) \/ Run(t)
    \/ Unlink(t) \/ AppendStopped(t) \/ Notify(t) \/ Finish(t)
    \/ Collect(t) \/ Joined(t)

-----------------------------------------------------------------------------
(* valvula_exit_ctx and valvula_thread_pool_exit.                           *)

SetExit ==
    /\ main = "run" /\ (ExitDuringRemoval \/ ~ Removing)
    /\ main' = "exiting"
    /\ UNCHANGED <<queue, threads, stopped, pc, hand, taskVars, beacons, calls>>

BeingClosed ==
    /\ main = "exiting"
    /\ main' = "closed"
    /\ UNCHANGED <<queue, threads, stopped, pc, hand, taskVars, beacons, calls>>

\* valvula_reader_stop returns when the reader, which calls new_task, has stopped.
ReaderStopped ==
    /\ main = "closed" /\ new = NULL
    /\ main' = "beacons"
    /\ UNCHANGED <<queue, threads, stopped, pc, hand, taskVars, beacons, calls>>

\* Faulty variant: the loop starts counting at one.
NeedsBeaconFromOne == beacons + 1 < Cardinality(threads)

\* One beacon for each thread in the list, whose length is read again each time.
NeedsBeacon == beacons < Cardinality(threads)

PushStop ==
    /\ main = "beacons" /\ NeedsBeacon
    /\ queue' = Append(queue, "stop")
    /\ beacons' = beacons + 1
    /\ UNCHANGED <<threads, stopped, pc, hand, taskVars, main, calls>>

PushedAll ==
    /\ main = "beacons" /\ ~ NeedsBeacon
    /\ main' = "join"
    /\ UNCHANGED <<queue, threads, stopped, pc, hand, taskVars, beacons, calls>>

\* axl_list_free joins what each of the two lists holds.
JoinListed(t) ==
    /\ main = "join" /\ t \in threads /\ pc[t] = "done"
    /\ threads' = threads \ {t}
    /\ GoTo(t, "joined")
    /\ UNCHANGED <<queue, stopped, hand, taskVars, main, beacons, calls>>

JoinedListed ==
    /\ main = "join" /\ threads = {}
    /\ main' = "collect"
    /\ UNCHANGED <<queue, threads, stopped, pc, hand, taskVars, beacons, calls>>

JoinStopped ==
    /\ main = "collect" /\ stopped # <<>> /\ pc[Head(stopped)] = "done"
    /\ GoTo(Head(stopped), "joined")
    /\ stopped' = Tail(stopped)
    /\ UNCHANGED <<queue, threads, hand, taskVars, main, beacons, calls>>

FreePool ==
    /\ main = "collect" /\ stopped = <<>>
    /\ main' = "freed"
    /\ UNCHANGED <<queue, threads, stopped, pc, hand, taskVars, beacons, calls>>

ExitSteps ==
    \/ BeingClosed \/ ReaderStopped \/ PushStop \/ PushedAll
    \/ (\E t \in Threads : JoinListed(t)) \/ JoinedListed \/ JoinStopped \/ FreePool

Next ==
    \/ \E x \in Tasks : Accept(x)
    \/ PushTask
    \/ ReaderResize
    \/ \E n \in 1..Cardinality(Threads) : Add(n) \/ Remove(n)
    \/ \E t \in Threads : Dispatcher(t)
    \/ SetExit
    \/ ExitSteps

\* Threads and the exit keep going; a task's function ends.
Fairness ==
    /\ WF_vars(PushTask) /\ WF_vars(ExitSteps)
    /\ \A t \in Threads : WF_vars(Dispatcher(t))

Spec == Init /\ [][Next]_vars /\ Fairness

-----------------------------------------------------------------------------
(* Properties.                                                              *)

\* Every task new_task accepted is in one place: about to be pushed, in the queue, in
\* the hand of one thread, or run or dropped once.
TasksInOnePlace ==
    \A x \in accepted :
        (IF new = x THEN 1 ELSE 0) + Queued(x) + Cardinality({t \in Threads : hand[t] = x})
            + ran[x] + dropped[x] = 1

\* A beacon is on its way for every thread in pool->stopped, so each is joined, and no
\* beacon finds the list empty.
EveryoneCollected ==
    main \notin {"collect", "freed"} =>
        Len(stopped) = Queued("collect") + Cardinality(At({"notify", "collect", "join"}))

\* "the thread pool must have at minimum one thread running".
SomeThread == ~ IsExiting => threads # {}

\* The pool is freed after the last thread that could use it has been joined.
PoolOutlivesThreads == main = "freed" => \A t \in Threads : pc[t] \in {"none", "joined"}

\* An accepted task is run, unless the library exits.
TasksRun == \A x \in Tasks : x \in accepted ~> (ran[x] > 0 \/ IsExiting)

\* valvula_exit_ctx, once called, gets to the end of valvula_thread_pool_exit.
ExitEnds == IsExiting ~> main = "freed"

=============================================================================
