---------------------------- MODULE ValvulaTicket ----------------------------
(***************************************************************************)
(* mod-ticket (plugins/mod-ticket/mod-ticket.c) and the tracking of day    *)
(* and month of the server (__valvulad_run_time_tracking) that resets it.  *)
(*                                                                         *)
(* The usage of a ticket is kept in the database.  Workers read it, compare *)
(* it with the plan and write it back in separate queries under            *)
(* work_mutex; the change of day and month records and resets it in        *)
(* queries of its own, without the mutex.  Each query is one step and the  *)
(* server may crash between any two.                                       *)
(***************************************************************************)
EXTENDS Naturals, Integers, FiniteSets

CONSTANTS
    Workers,            \* the threads of the pool that run ticket_process_request
    Tickets,            \* the rows of domain_ticket
    Plan,               \* the limits of the ticket_plan of each, below one for none
    OutgoingIp,         \* of each: "none", "active", or "missing" from outgoing_ip
    MaxCount,           \* bound: recipient_count
    DaysPerMonth,
    MaxDays,            \* bound: how often the day changes
    MaxCrashes,         \* bound: how often the server crashes
    NULL

Usages == {"total", "day", "month"}
Items == {"day", "month"}

Job == [ticket : Tickets, count : 1..MaxCount, read : [Usages -> Nat]]

ASSUME TicketAssumption ==
    /\ Plan \in [Tickets -> [Usages -> Int]]
    /\ OutgoingIp \in [Tickets -> {"none", "active", "missing"}]
    /\ MaxCount \in Nat \ {0} /\ DaysPerMonth \in Nat \ {0}
    /\ MaxDays \in Nat /\ MaxCrashes \in Nat
    /\ NULL \notin Workers \cup Job

VARIABLES
    used,           \* domain_ticket: total_used, current_day_usage, current_month_usage
    tracked,        \* time_tracking: the stored day and month
    clock,          \* the day of the month and the month, as the system reports them
    work_mutex,     \* its owner
    pc, job,        \* of each worker: where it is, its ticket, count and what it has read
    tracker, stored,\* of the thread that runs the tracking event
    days, crashes,  \* how often the day changed and the server crashed
    accepted,       \* history: the mails that a query counted, of each ticket
    resets          \* history: how often the day was reset

database == <<used, tracked>>
tracking == <<tracker, stored, resets>>
vars == <<used, tracked, clock, work_mutex, pc, job, tracker, stored, days, crashes,
          accepted, resets>>

Date == {d \in [Items -> Nat] : d["day"] \in 1..DaysPerMonth}

TypeOK ==
    /\ used \in [Tickets -> [Usages -> Nat]] /\ accepted \in [Tickets -> Nat]
    /\ tracked \in Date /\ clock \in Date /\ stored \in Date
    /\ work_mutex \in Workers \cup {NULL}
    /\ pc \in [Workers -> {"idle", "lock", "row", "plan", "update", "ip"}]
    /\ job \in [Workers -> Job \cup {NULL}]
    /\ \A w \in Workers : job[w] = NULL <=> pc[w] = "idle"
    /\ tracker \in {"idle", "month", "record month", "day", "record day"}
    /\ days \in 0..MaxDays /\ crashes \in 0..MaxCrashes /\ resets \in Nat

Nothing == [u \in Usages |-> 0]

Init ==
    /\ used = [t \in Tickets |-> Nothing] /\ accepted = [t \in Tickets |-> 0]
    /\ tracked = [item \in Items |-> 1] /\ clock = tracked /\ stored = tracked
    /\ work_mutex = NULL
    /\ pc = [w \in Workers |-> "idle"] /\ job = [w \in Workers |-> NULL]
    /\ tracker = "idle"
    /\ days = 0 /\ crashes = 0 /\ resets = 0

-----------------------------------------------------------------------------
(* ticket_process_request.                                                  *)

\* Faulty variant: two workers at once.
ExclusiveForgotten(w) == TRUE

\* valvula_mutex_lock returns when nobody owns the mutex.
Exclusive(w) == work_mutex = NULL

\* valvula_mutex_unlock releases a mutex of the default type whoever owns it.
Unlock == work_mutex' = NULL

Leave(w, place) ==
    /\ pc' = [pc EXCEPT ![w] = place]
    /\ job' = IF place = "idle" THEN [job EXCEPT ![w] = NULL] ELSE job

\* A request of a sender with a ticket; others are answered before the mutex.
Request(w) ==
    /\ pc[w] = "idle"
    /\ \E t \in Tickets, n \in 1..MaxCount :
           job' = [job EXCEPT ![w] = [ticket |-> t, count |-> n, read |-> Nothing]]
    /\ pc' = [pc EXCEPT ![w] = "lock"]
    /\ UNCHANGED <<database, clock, work_mutex, tracking, days, crashes, accepted>>

Lock(w) ==
    /\ pc[w] = "lock" /\ Exclusive(w)
    /\ work_mutex' = w
    /\ Leave(w, "row")
    /\ UNCHANGED <<database, clock, tracking, days, crashes, accepted>>

\* The row was removed, it has expired or it is blocked; or it is read.
ReadRow(w) ==
    /\ pc[w] = "row"
    /\ \/ Unlock /\ Leave(w, "idle")
       \/ /\ job' = [job EXCEPT ![w].read = used[job[w].ticket]]
          /\ pc' = [pc EXCEPT ![w] = "plan"]
          /\ UNCHANGED work_mutex
    /\ UNCHANGED <<database, clock, tracking, days, crashes, accepted>>

\* What the row will hold when the request is accepted.
Counted(j) == [u \in Usages |-> j.read[u] + j.count]

\* Faulty variant: the limit may be exceeded by one.
OverByMore(j) == \E u \in Usages : Plan[j.ticket][u] > 0 /\ Counted(j)[u] > Plan[j.ticket][u] + 1

Over(j) == \E u \in Usages : Plan[j.ticket][u] > 0 /\ Counted(j)[u] > Plan[j.ticket][u]

\* Where __mod_ticket_return_dunno_or_filter starts.
Outgoing(t) == IF OutgoingIp[t] = "none" THEN "idle" ELSE "ip"

\* Faulty variant: a rejection keeps the mutex.
RejectLocked(w) == Over(job[w]) /\ UNCHANGED work_mutex /\ Leave(w, "idle")

Reject(w) == Over(job[w]) /\ Unlock /\ Leave(w, "idle")

\* The plan was removed, it is exhausted, or it covers the request.
ReadPlan(w) ==
    /\ pc[w] = "plan"
    /\ \/ Unlock /\ Leave(w, Outgoing(job[w].ticket))
       \/ Reject(w)
       \/ ~ Over(job[w]) /\ Leave(w, "update") /\ UNCHANGED work_mutex
    /\ UNCHANGED <<database, clock, tracking, days, crashes, accepted>>

\* A query that fails is logged and the request accepted all the same.
Update(w) ==
    LET j == job[w] IN
    /\ pc[w] = "update"
    /\ \/ /\ used' = [used EXCEPT ![j.ticket] = Counted(j)]
          /\ accepted' = [accepted EXCEPT ![j.ticket] = @ + j.count]
       \/ UNCHANGED <<used, accepted>>
    /\ Unlock /\ Leave(w, Outgoing(j.ticket))
    /\ UNCHANGED <<tracked, clock, tracking, days, crashes>>

\* __ticket_get_row_or_fail unlocks the mutex when outgoing_ip has no such row, although
\* the request has unlocked it already.
ReadOutgoingIp(w) ==
    /\ pc[w] = "ip"
    /\ IF OutgoingIp[job[w].ticket] = "missing" THEN Unlock ELSE UNCHANGED work_mutex
    /\ Leave(w, "idle")
    /\ UNCHANGED <<database, clock, tracking, days, crashes, accepted>>

Process(w) == ReadRow(w) \/ ReadPlan(w) \/ Update(w) \/ ReadOutgoingIp(w)

-----------------------------------------------------------------------------
(* __valvulad_run_time_tracking, every two seconds.                         *)

NoWorker == UNCHANGED <<work_mutex, pc, job, accepted, days, crashes, clock>>

Track ==
    /\ tracker = "idle"
    /\ stored' = tracked
    /\ tracker' = "month"
    /\ UNCHANGED <<database, resets>> /\ NoWorker

\* Faulty variants: the new date is not stored; a new month is stored as a new day.
StoreForgotten(item) == UNCHANGED tracked
StoreDay(item) == tracked' = [tracked EXCEPT !["day"] = clock["day"]]

Store(item) == tracked' = [tracked EXCEPT ![item] = clock[item]]

\* The local variables are gone when the event ends.
Forget(next) == stored' = IF next = "idle" THEN tracked' ELSE stored

\* The change is stored before the modules are told.
Compare(item, reset, next) ==
    /\ tracker = item
    /\ IF stored[item] # clock[item]
       THEN Store(item) /\ tracker' = reset /\ UNCHANGED stored
       ELSE UNCHANGED tracked /\ tracker' = next /\ Forget(next)
    /\ UNCHANGED <<used, resets>> /\ NoWorker

\* ticket_change_month and ticket_change_day, which also record the usage.
Reset(item, reset, next) ==
    /\ tracker = reset
    /\ used' = [t \in Tickets |-> [used[t] EXCEPT ![item] = 0]]
    /\ tracker' = next
    /\ resets' = IF item = "day" THEN resets + 1 ELSE resets
    /\ UNCHANGED tracked /\ Forget(next) /\ NoWorker

TrackMonth == Compare("month", "record month", "day")
TrackDay == Compare("day", "record day", "idle")
ChangeMonth == Reset("month", "record month", "day")
ChangeDay == Reset("day", "record day", "idle")

Tracking == Track \/ TrackMonth \/ ChangeMonth \/ TrackDay \/ ChangeDay

-----------------------------------------------------------------------------

Midnight ==
    /\ days < MaxDays
    /\ days' = days + 1
    /\ clock' = IF clock["day"] < DaysPerMonth
                THEN [clock EXCEPT !["day"] = @ + 1]
                ELSE [clock EXCEPT !["day"] = 1, !["month"] = @ + 1]
    /\ UNCHANGED <<database, work_mutex, pc, job, tracking, crashes, accepted>>

\* The database survives.
Crash ==
    /\ crashes < MaxCrashes
    /\ crashes' = crashes + 1
    /\ work_mutex' = NULL
    /\ pc' = [w \in Workers |-> "idle"] /\ job' = [w \in Workers |-> NULL]
    /\ tracker' = "idle" /\ stored' = tracked
    /\ UNCHANGED <<database, clock, days, accepted, resets>>

Next ==
    \/ \E w \in Workers : Request(w) \/ Lock(w) \/ Process(w)
    \/ Tracking
    \/ Midnight
    \/ Crash

\* A worker that has begun goes on; the event is due again and again.
Fairness ==
    /\ \A w \in Workers : WF_vars(Process(w))
    /\ WF_vars(Tracking)

Spec == Init /\ [][Next]_vars /\ Fairness

-----------------------------------------------------------------------------
(* Properties.                                                              *)

\* The total is the sum of all that was written to it: no UPDATE overwrites the count of
\* another worker, whatever the workers, the resets and the crashes interrupt.
TotalExact == \A t \in Tickets : used[t]["total"] = accepted[t]

\* "where user consume them every time a send operation is done until ticket limit is
\* reached": no ticket gives more mails than its plan, in a day and in a month either.
PlanKept ==
    \A t \in Tickets :
        /\ Plan[t]["total"] > 0 => accepted[t] <= Plan[t]["total"]
        /\ \A u \in Items : Plan[t][u] > 0 => used[t][u] <= Plan[t][u]

\* The modules are told of a change of day at most once: no reset gives a day's tickets
\* twice, after a crash neither.
ResetAtMostOnce == resets <= days

\* Every path of a request releases the mutex.
MutexReleased == \A w \in Workers : work_mutex = w ~> work_mutex # w

\* A change of day or month is noticed, also when it came while the server was down.
DateTracked == <>[](tracked = clock)

=============================================================================
