----------------------------- MODULE ValvulaEvents -----------------------------
(***************************************************************************)
(* The timed events of the thread pool (lib/valvula_thread_pool.c): a list *)
(* of events, each with the moment it is due, which the threads of the     *)
(* pool go through between tasks, one thread at a time.                    *)
(*                                                                         *)
(* pool->mutex is held for the bookkeeping and released while the function *)
(* of an event runs, so events are added and removed meanwhile, by other   *)
(* threads or by that function itself.  Time counts in ticks, Second of    *)
(* them in a second (1000000 microseconds in the code).                    *)
(***************************************************************************)
EXTENDS Integers, Sequences, FiniteSets

CONSTANTS
    Threads,        \* the threads of the pool
    Events,         \* the event objects that may be created
    Second,
    Delay,          \* the microseconds each event is created with
    MaxTime,        \* bound: the clock stops there
    NULL

ASSUME EventsAssumption ==
    /\ IsFiniteSet(Threads) /\ IsFiniteSet(Events)
    /\ Second \in Nat \ {0} /\ MaxTime \in Nat
    /\ NULL \notin Events \cup Nat
    /\ Delay \in [Events -> Nat]

\* Every event of the repository comes after more than a second (valvulad_run.c:927,
\* mod-mquota.c:466, main.c:455): IncreaseStamp is wrong about a shorter one.
ASSUME DelayAssumption == \A e \in Events : Delay[e] > Second

VARIABLES
    clock,
    events,         \* pool->events
    ref,            \* ref_count of each event; 0 before it exists and once it is freed
    sec, usec,      \* next_step of each event
    processing,     \* pool->processing_events
    main,           \* how far valvula_exit_ctx is
    pc,             \* where each thread is in process_events
    length, iterator, now, event,       \* its local variables
    born, runs      \* history: when each event was created, how often it was called

locals == <<length, iterator, now, event>>
history == <<born, runs>>
vars == <<clock, events, ref, sec, usec, processing, main, pc, locals, history>>

TypeOK ==
    /\ clock \in Nat
    /\ events \in Seq(Events)
    /\ ref \in [Events -> Nat]
    /\ sec \in [Events -> Nat] /\ usec \in [Events -> Nat]
    /\ processing \in BOOLEAN
    /\ main \in {"run", "exiting", "closed", "freed"}
    /\ pc \in [Threads -> {"idle", "stamp", "fetch", "call", "func", "end", "joined"}]
    /\ length \in [Threads -> Nat] /\ iterator \in [Threads -> Nat]
    /\ now \in [Threads -> Nat]
    /\ event \in [Threads -> Events \cup {NULL}]
    /\ born \in [Events -> Nat \cup {NULL}] /\ runs \in [Events -> Nat]

Init ==
    /\ clock = 0
    /\ events = <<>> /\ processing = FALSE
    /\ ref = [e \in Events |-> 0]
    /\ sec = [e \in Events |-> 0] /\ usec = [e \in Events |-> 0]
    /\ main = "run"
    /\ pc = [t \in Threads |-> "idle"]
    /\ length = [t \in Threads |-> 0] /\ iterator = [t \in Threads |-> 0]
    /\ now = [t \in Threads |-> 0] /\ event = [t \in Threads |-> NULL]
    /\ born = [e \in Events |-> NULL] /\ runs = [e \in Events |-> 0]

InList(e) == \E i \in 1..Len(events) : events[i] = e

GoTo(t, where) == pc' = [pc EXCEPT ![t] = where]

-----------------------------------------------------------------------------
(* The moment an event is due.                                              *)

\* Faulty variant: the microseconds carry nothing into the seconds.
CarryLost(u, d) == d \div Second

\* The seconds __valvula_thread_pool_increase_stamp adds to a stamp of u microseconds.
\* A sum of exactly one second carries nothing.
Carry(u, d) == IF u + d > Second THEN (u + d) \div Second ELSE 0

IncreaseStamp(e, s, u) ==
    /\ sec'  = [sec EXCEPT ![e] = s + Carry(u, Delay[e])]
    /\ usec' = [usec EXCEPT ![e] = (u + Delay[e]) % Second]

Due(e, n) ==
    \/ n \div Second > sec[e]
    \/ n \div Second = sec[e] /\ n % Second >= usec[e]

-----------------------------------------------------------------------------
(* Adding and removing events, by any thread of the program.                *)

\* The order of the list: __valvula_thread_pool_soon_events_first compares an event with
\* itself, so a new one is always the last.
Inserted(e) == Append(events, e)

NewEvent(e) ==
    /\ born[e] = NULL
    /\ main \in {"run", "exiting"}
    /\ ref' = [ref EXCEPT ![e] = 1]
    /\ IncreaseStamp(e, clock \div Second, clock % Second)
    /\ events' = Inserted(e)
    /\ born' = [born EXCEPT ![e] = clock]
    /\ UNCHANGED <<clock, processing, main, pc, locals, runs>>

\* axl_list_remove_ptr and axl_list_cursor_remove take away the first entry that is e.
Without(e) ==
    IF ~ InList(e) THEN events
    ELSE LET at == CHOOSE i \in 1..Len(events) :
                      events[i] = e /\ \A j \in 1..(i - 1) : events[j] # e
         IN  [i \in 1..(Len(events) - 1) |-> IF i < at THEN events[i] ELSE events[i + 1]]

\* __valvula_thread_pool_unref_event, by each of n holders.
Unref(e, n) == ref' = [ref EXCEPT ![e] = @ - n]

RemoveEvent(e) ==
    /\ InList(e) /\ main # "freed"
    /\ events' = Without(e)
    /\ Unref(e, 1)
    /\ UNCHANGED <<clock, sec, usec, processing, main, pc, locals, history>>

-----------------------------------------------------------------------------
(* __valvula_thread_pool_process_events.                                    *)

\* Faulty variant: nobody looks whether another thread is at it.
MayProcessAlways == events # <<>> /\ main = "run"

MayProcess == ~ processing /\ events # <<>> /\ main = "run"

Begin(t) ==
    /\ pc[t] = "idle" /\ MayProcess
    /\ processing' = TRUE
    /\ length' = [length EXCEPT ![t] = Len(events)]
    /\ GoTo(t, "stamp")
    /\ UNCHANGED <<clock, events, ref, sec, usec, main, iterator, now, event, history>>

Stamp(t) ==
    /\ pc[t] = "stamp"
    /\ now' = [now EXCEPT ![t] = clock]
    /\ GoTo(t, "fetch")
    /\ UNCHANGED <<clock, events, ref, sec, usec, processing, main, length, iterator, event,
                   history>>

\* Faulty variant: the event is used without a reference.
TakeWithoutRef(e) == ref

Take(e) == [ref EXCEPT ![e] = @ + 1]

\* The event at this position, if it is due, is taken for a call.
Fetch(t) ==
    /\ pc[t] = "fetch"
    /\ iterator[t] < length[t] /\ iterator[t] < Len(events)
    /\ LET e == events[iterator[t] + 1]
       IN  IF Due(e, now[t])
           THEN /\ ref' = Take(e)
                /\ event' = [event EXCEPT ![t] = e]
                /\ GoTo(t, "call")
                /\ UNCHANGED iterator
           ELSE /\ iterator' = [iterator EXCEPT ![t] = @ + 1]
                /\ UNCHANGED <<ref, event, pc>>
    /\ UNCHANGED <<clock, events, sec, usec, processing, main, length, now, history>>

\* The end of the loop: all positions seen, or the list has become shorter.
NoMore(t) ==
    /\ pc[t] = "fetch"
    /\ iterator[t] >= length[t] \/ iterator[t] >= Len(events)
    /\ GoTo(t, "end")
    /\ UNCHANGED <<clock, events, ref, sec, usec, processing, main, locals, history>>

\* The function of the event is called without the mutex.
Call(t) ==
    /\ pc[t] = "call"
    /\ runs' = [runs EXCEPT ![event[t]] = @ + 1]
    /\ GoTo(t, "func")
    /\ UNCHANGED <<clock, events, ref, sec, usec, processing, main, locals, born>>

\* The function asks to be called again.
Keep(t) ==
    /\ pc[t] = "func"
    /\ IncreaseStamp(event[t], sec[event[t]], usec[event[t]])
    /\ Unref(event[t], 1)
    /\ event' = [event EXCEPT ![t] = NULL]
    /\ iterator' = [iterator EXCEPT ![t] = @ + 1]
    /\ GoTo(t, "fetch")
    /\ UNCHANGED <<clock, events, processing, main, length, now, history>>

\* The function asks for the removal of its event, which someone may have removed before.
Drop(t) ==
    /\ pc[t] = "func"
    /\ events' = Without(event[t])
    /\ Unref(event[t], IF InList(event[t]) THEN 2 ELSE 1)
    /\ event' = [event EXCEPT ![t] = NULL]
    /\ GoTo(t, "fetch")
    /\ UNCHANGED <<clock, sec, usec, processing, main, length, iterator, now, history>>

\* Faulty variant: the flag stays when the loop ends before the last position.
StillProcessing(t) == iterator[t] < length[t]

Processing(t) == FALSE

End(t) ==
    /\ pc[t] = "end"
    /\ processing' = Processing(t)
    /\ length' = [length EXCEPT ![t] = 0] /\ iterator' = [iterator EXCEPT ![t] = 0]
    /\ now' = [now EXCEPT ![t] = 0]
    /\ GoTo(t, "idle")
    /\ UNCHANGED <<clock, events, ref, sec, usec, main, event, history>>

ProcessEvents(t) ==
    Stamp(t) \/ Fetch(t) \/ NoMore(t) \/ Call(t) \/ Keep(t) \/ Drop(t) \/ End(t)

-----------------------------------------------------------------------------
(* The exit, as far as the events see it.                                   *)

SetExit ==
    /\ main = "run" /\ main' = "exiting"
    /\ UNCHANGED <<clock, events, ref, sec, usec, processing, pc, locals, history>>

BeingClosed ==
    /\ main = "exiting" /\ main' = "closed"
    /\ UNCHANGED <<clock, events, ref, sec, usec, processing, pc, locals, history>>

\* valvula_thread_pool_exit frees the list once the threads have been joined.
FreeEvents ==
    /\ main = "closed" /\ \A t \in Threads : pc[t] = "idle"
    /\ main' = "freed"
    /\ pc' = [t \in Threads |-> "joined"]
    /\ ref' = [e \in Events |-> IF InList(e) THEN ref[e] - 1 ELSE ref[e]]
    /\ events' = <<>>
    /\ UNCHANGED <<clock, sec, usec, processing, locals, history>>

Tick ==
    /\ clock < MaxTime
    /\ clock' = clock + 1
    /\ UNCHANGED <<events, ref, sec, usec, processing, main, pc, locals, history>>

Next ==
    \/ \E e \in Events : NewEvent(e) \/ RemoveEvent(e)
    \/ \E t \in Threads : Begin(t) \/ ProcessEvents(t)
    \/ SetExit \/ BeingClosed \/ FreeEvents
    \/ Tick

\* The threads come by between tasks or ten times a second, whichever thread it is; an
\* event's function returns; time passes.
Fairness ==
    /\ WF_vars(\E t \in Threads : Begin(t))
    /\ \A t \in Threads : WF_vars(ProcessEvents(t))
    /\ WF_vars(Tick)

Spec == Init /\ [][Next]_vars /\ Fairness

-----------------------------------------------------------------------------
(* Properties.                                                              *)

Holders(e) == {t \in Threads : event[t] = e}

\* An event is referenced by the list and by the thread at its function, and by nothing
\* else: it is freed with the last of them, neither under a function that runs nor never.
EventRefs ==
    \A e \in Events : ref[e] = Cardinality(Holders(e)) + IF InList(e) THEN 1 ELSE 0

\* No two threads are at the events, so no event runs twice at a time: the handlers of
\* the modules rely on it.
OneProcessor == \A t, u \in Threads : {pc[t], pc[u]} \cap {"idle", "joined"} = {} => t = u

\* An event has run at most once per delay since it was created, however late the
\* threads came by and whatever the fractions of a second.
NeverEarly ==
    \A e \in Events : runs[e] > 0 => born[e] + runs[e] * Delay[e] <= clock

\* No event stays due for ever: it is called until its next step lies ahead, unless it is
\* removed or the library exits, whatever the functions do to the list meanwhile.
DueEventsRun ==
    \A e \in Events :
        InList(e) /\ Due(e, clock) ~> ~ (InList(e) /\ Due(e, clock)) \/ main # "run"

=============================================================================
