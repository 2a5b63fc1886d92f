------------------------ MODULE ValvulaTicketProofs ------------------------
(***************************************************************************)
(* What ValvulaTicket promises for any number of workers, tickets, days    *)
(* and crashes: its types, that no count of a ticket is lost and no plan   *)
(* exceeded while every outgoing_ip exists, and that a day is reset at     *)
(* most once.                                                              *)
(***************************************************************************)
EXTENDS ValvulaTicket, TLAPS

LEMMA TypeOfNothing == Nothing \in [Usages -> Nat]
  BY DEF Nothing

\* What a request would write is a usage again.
LEMMA TypeOfCounted ==
  ASSUME NEW j \in Job
  PROVE  Counted(j) \in [Usages -> Nat]
<1>1. j.count \in Nat
  BY TicketAssumption DEF Job
<1>2. j.read \in [Usages -> Nat]
  BY DEF Job
<1> QED
  BY <1>1, <1>2 DEF Counted

\* A worker that moves on keeps the types of pc and job.
LEMMA TypeOfLeave ==
  ASSUME TypeOK, NEW w \in Workers, pc[w] # "idle",
         NEW place \in {"idle", "lock", "row", "plan", "update", "ip"}, Leave(w, place)
  PROVE  /\ pc' \in [Workers -> {"idle", "lock", "row", "plan", "update", "ip"}]
         /\ job' \in [Workers -> Job \cup {NULL}]
         /\ \A v \in Workers : job'[v] = NULL <=> pc'[v] = "idle"
<1>1. pc' \in [Workers -> {"idle", "lock", "row", "plan", "update", "ip"}]
  BY DEF TypeOK, Leave
<1>2. CASE place = "idle"
  BY <1>2 DEF TypeOK, Leave
<1>3. CASE place # "idle"
  <2>1. job' = job /\ job[w] # NULL
    BY <1>3 DEF TypeOK, Leave
  <2> QED
    BY <2>1, <1>3 DEF TypeOK, Leave
<1> QED
  BY <1>1, <1>2, <1>3

LEMMA TypeOfJob ==
  ASSUME TypeOK, NEW w \in Workers, pc[w] # "idle"
  PROVE  job[w] \in Job /\ job[w].ticket \in Tickets /\ job[w].count \in Nat
<1>1. job[w] \in Job
  BY DEF TypeOK
<1> QED
  BY <1>1, TicketAssumption DEF Job

LEMMA TypeOfDatabase ==
  ASSUME TypeOK, NEW item \in Items
  PROVE  [t \in Tickets |-> [used[t] EXCEPT ![item] = 0]] \in [Tickets -> [Usages -> Nat]]
  BY DEF TypeOK, Items, Usages

LEMMA TypeOfClock ==
  ASSUME TypeOK, Midnight
  PROVE  clock' \in Date
<1>1. clock \in [Items -> Nat] /\ clock["day"] \in 1..DaysPerMonth /\ DaysPerMonth \in Nat \ {0}
  BY TicketAssumption DEF TypeOK, Date
<1>2. "day" \in Items /\ "month" \in Items
  BY DEF Items
<1>3. CASE clock["day"] < DaysPerMonth
  <2>1. clock' = [clock EXCEPT !["day"] = clock["day"] + 1]
    BY <1>3 DEF Midnight
  <2>2. clock["day"] + 1 \in 1..DaysPerMonth
    BY <1>1, <1>3
  <2>3. clock' \in [Items -> Nat] /\ clock'["day"] = clock["day"] + 1
    BY <2>1, <2>2, <1>1, <1>2
  <2> QED
    BY <2>2, <2>3 DEF Date
<1>4. CASE ~ (clock["day"] < DaysPerMonth)
  <2>1. clock' = [clock EXCEPT !["day"] = 1, !["month"] = clock["month"] + 1]
    BY <1>4 DEF Midnight
  <2>2. clock' \in [Items -> Nat] /\ clock'["day"] = 1
    BY <2>1, <1>1, <1>2
  <2> QED
    BY <2>2, <1>1 DEF Date
<1> QED
  BY <1>3, <1>4

\* A tracking step keeps the types of what it works on.
LEMMA TypeOfTracking ==
  ASSUME TypeOK, Tracking
  PROVE  /\ tracked' \in Date /\ stored' \in Date
         /\ tracker' \in {"idle", "month", "record month", "day", "record day"}
         /\ used' \in [Tickets -> [Usages -> Nat]] /\ resets' \in Nat
<1>1. CASE Track
  BY <1>1 DEF TypeOK, Track, database
<1>2. CASE TrackMonth
  BY <1>2 DEF TypeOK, TrackMonth, Compare, Store, Forget, Date, Items, database
<1>3. CASE ChangeMonth
  BY <1>3, TypeOfDatabase DEF TypeOK, ChangeMonth, Reset, Forget, Items, Date
<1>4. CASE TrackDay
  BY <1>4 DEF TypeOK, TrackDay, Compare, Store, Forget, Date, Items, database
<1>5. CASE ChangeDay
  <2>1. UNCHANGED tracked /\ stored' = tracked' /\ tracker' = "idle" /\ resets' = resets + 1
    BY <1>5 DEF ChangeDay, Reset, Forget
  <2>2. used' = [t \in Tickets |-> [used[t] EXCEPT !["day"] = 0]]
    BY <1>5 DEF ChangeDay, Reset
  <2>3. used' \in [Tickets -> [Usages -> Nat]]
    BY <2>2, TypeOfDatabase DEF Items
  <2>4. tracked \in Date /\ resets \in Nat
    BY DEF TypeOK
  <2>5. tracked' \in Date /\ stored' \in Date /\ resets' \in Nat
    BY <2>1, <2>4
  <2> QED
    BY <2>1, <2>3, <2>5
<1> QED
  BY <1>1, <1>2, <1>3, <1>4, <1>5 DEF Tracking

\* The steps of a request keep the types.
LEMMA TypeOfRequests ==
  ASSUME TypeOK, NEW w \in Workers, Request(w) \/ Lock(w) \/ Process(w)
  PROVE  TypeOK'
<1> USE TicketAssumption
<1>1. CASE Request(w)
  <2>1. PICK t \in Tickets, n \in 1..MaxCount :
            job' = [job EXCEPT ![w] = [ticket |-> t, count |-> n, read |-> Nothing]]
    BY <1>1 DEF Request
  <2> DEFINE j == [ticket |-> t, count |-> n, read |-> Nothing]
  <2>2. j \in Job /\ j # NULL
    BY TypeOfNothing DEF Job
  <2>3. job' = [job EXCEPT ![w] = j]
    BY <2>1
  <2> HIDE DEF j
  <2>4. job' \in [Workers -> Job \cup {NULL}]
    BY <2>2, <2>3 DEF TypeOK
  <2>5. \A v \in Workers : job'[v] = NULL <=> pc'[v] = "idle"
    BY <1>1, <2>2, <2>3 DEF TypeOK, Request
  <2> QED
    BY <1>1, <2>4, <2>5 DEF TypeOK, Request, database, tracking
<1>2. CASE Lock(w)
  <2>1. pc[w] # "idle" /\ Leave(w, "row")
    BY <1>2 DEF Lock
  <2> QED
    BY <1>2, <2>1, TypeOfLeave DEF TypeOK, Lock, database, tracking
<1>3. CASE ReadRow(w)
  <2>1. CASE Leave(w, "idle") /\ Unlock
    BY <1>3, <2>1, TypeOfLeave DEF TypeOK, ReadRow, Unlock, database, tracking
  <2>2. CASE /\ job' = [job EXCEPT ![w].read = used[job[w].ticket]]
             /\ pc' = [pc EXCEPT ![w] = "plan"]
             /\ UNCHANGED work_mutex
    <3> DEFINE j == [job[w] EXCEPT !.read = used[job[w].ticket]]
    <3>1. job[w] \in Job /\ used[job[w].ticket] \in [Usages -> Nat]
      BY <1>3, TypeOfJob DEF TypeOK, ReadRow
    <3>2. j \in Job
      BY <3>1 DEF Job
    <3>3. job' = [job EXCEPT ![w] = j]
      BY <2>2
    <3> HIDE DEF j
    <3>4. job' \in [Workers -> Job \cup {NULL}] /\ j # NULL
      BY <3>2, <3>3 DEF TypeOK
    <3>5. \A v \in Workers : job'[v] = NULL <=> pc'[v] = "idle"
      BY <2>2, <3>3, <3>4 DEF TypeOK
    <3> QED
      BY <1>3, <2>2, <3>4, <3>5 DEF TypeOK, ReadRow, database, tracking
  <2> QED
    BY <1>3, <2>1, <2>2 DEF ReadRow
<1>4. CASE ReadPlan(w)
  <2>1. PICK place \in {"idle", "ip", "update"} :
            Leave(w, place) /\ work_mutex' \in {work_mutex, NULL}
    BY <1>4 DEF ReadPlan, Reject, Unlock, Outgoing
  <2>2. pc[w] # "idle"
    BY <1>4 DEF ReadPlan
  <2>3. /\ pc' \in [Workers -> {"idle", "lock", "row", "plan", "update", "ip"}]
        /\ job' \in [Workers -> Job \cup {NULL}]
        /\ \A v \in Workers : job'[v] = NULL <=> pc'[v] = "idle"
    BY <2>1, <2>2, TypeOfLeave
  <2> QED
    BY <1>4, <2>1, <2>3 DEF TypeOK, ReadPlan, database, tracking
<1>5. CASE Update(w)
  <2> DEFINE j == job[w]
  <2>1. pc[w] # "idle" /\ work_mutex' = NULL
    BY <1>5 DEF Update, Unlock
  <2>2. PICK place \in {"idle", "ip"} : Leave(w, place)
    BY <1>5 DEF Update, Outgoing
  <2>3. /\ pc' \in [Workers -> {"idle", "lock", "row", "plan", "update", "ip"}]
        /\ job' \in [Workers -> Job \cup {NULL}]
        /\ \A v \in Workers : job'[v] = NULL <=> pc'[v] = "idle"
    BY <2>1, <2>2, TypeOfLeave
  <2>4. /\ j.ticket \in Tickets /\ j.count \in Nat
        /\ Counted(j) \in [Usages -> Nat]
    BY <2>1, TypeOfJob, TypeOfCounted
  <2>5. used \in [Tickets -> [Usages -> Nat]] /\ accepted \in [Tickets -> Nat]
    BY DEF TypeOK
  <2>6. \/ /\ used' = [used EXCEPT ![j.ticket] = Counted(j)]
           /\ accepted' = [accepted EXCEPT ![j.ticket] = @ + j.count]
        \/ UNCHANGED <<used, accepted>>
    BY <1>5 DEF Update
  <2>7. used' \in [Tickets -> [Usages -> Nat]] /\ accepted' \in [Tickets -> Nat]
    <3>1. CASE /\ used' = [used EXCEPT ![j.ticket] = Counted(j)]
               /\ accepted' = [accepted EXCEPT ![j.ticket] = @ + j.count]
      <4>1. used' \in [Tickets -> [Usages -> Nat]]
        BY <3>1, <2>4, <2>5
      <4>2. accepted[j.ticket] + j.count \in Nat
        BY <2>4, <2>5
      <4>3. accepted' \in [Tickets -> Nat]
        BY <3>1, <4>2, <2>5
      <4> QED
        BY <4>1, <4>3
    <3> QED
      BY <3>1, <2>5, <2>6
  <2> QED
    BY <1>5, <2>1, <2>3, <2>7 DEF TypeOK, Update, tracking
<1>6. CASE ReadOutgoingIp(w)
  <2>1. pc[w] # "idle" /\ Leave(w, "idle") /\ work_mutex' \in {work_mutex, NULL}
    BY <1>6 DEF ReadOutgoingIp, Unlock
  <2>2. /\ pc' \in [Workers -> {"idle", "lock", "row", "plan", "update", "ip"}]
        /\ job' \in [Workers -> Job \cup {NULL}]
        /\ \A v \in Workers : job'[v] = NULL <=> pc'[v] = "idle"
    BY <2>1, TypeOfLeave
  <2> QED
    BY <1>6, <2>1, <2>2 DEF TypeOK, ReadOutgoingIp, database, tracking
<1> QED
  BY <1>1, <1>2, <1>3, <1>4, <1>5, <1>6 DEF Process

LEMMA TypeStep == TypeOK /\ [Next]_vars => TypeOK'
<1> SUFFICES ASSUME TypeOK, [Next]_vars PROVE TypeOK'
  OBVIOUS
<1> USE TicketAssumption
<1>1. ASSUME NEW w \in Workers, Request(w) \/ Lock(w) \/ Process(w) PROVE TypeOK'
  BY <1>1, TypeOfRequests
<1>2. CASE Tracking
  <2>1. NoWorker
    BY <1>2 DEF Tracking, Track, TrackMonth, ChangeMonth, TrackDay, ChangeDay, Compare, Reset
  <2> QED
    BY <1>2, <2>1, TypeOfTracking DEF TypeOK, NoWorker
<1>3. CASE Midnight
  <2>1. clock' \in Date /\ days' \in 0..MaxDays
    <3>1. days \in 0..MaxDays /\ days < MaxDays /\ days' = days + 1
      BY <1>3 DEF Midnight, TypeOK
    <3> QED
      BY <1>3, <3>1, TypeOfClock
  <2> QED
    BY <1>3, <2>1 DEF TypeOK, Midnight, database, tracking
<1>4. CASE Crash
  <2>1. crashes' \in 0..MaxCrashes
    <3>1. crashes \in 0..MaxCrashes /\ crashes < MaxCrashes /\ crashes' = crashes + 1
      BY <1>4 DEF Crash, TypeOK
    <3> QED
      BY <3>1
  <2> QED
    BY <1>4, <2>1 DEF TypeOK, Crash, database
<1>5. CASE UNCHANGED vars
  BY <1>5 DEF TypeOK, vars
<1> QED
  BY <1>1, <1>2, <1>3, <1>4, <1>5 DEF Next

LEMMA TypeInit == Init => TypeOK
<1>1. [item \in Items |-> 1] \in Date
  BY TicketAssumption DEF Date, Items
<1> QED
  BY <1>1, TypeOfNothing, TicketAssumption DEF Init, TypeOK

\* Whatever workers, resets and crashes interrupt, every usage of every ticket stays a
\* natural number, and a worker has a job exactly while it serves a request.
THEOREM TypeCorrect == Spec => []TypeOK
  BY TypeInit, TypeStep, PTL DEF Spec

-----------------------------------------------------------------------------
(* No count is lost and no plan exceeded, while every outgoing_ip exists.   *)

NoneMissing == \A t \in Tickets : OutgoingIp[t] # "missing"

Holding(w) == pc[w] \in {"row", "plan", "update"}

\* Between lock and unlock a worker owns the mutex; so at most one is there.
Exclusion == \A w \in Workers : Holding(w) => work_mutex = w

\* What a worker has read of the total is what the row still holds.
ReadIsCurrent ==
    \A w \in Workers : pc[w] \in {"plan", "update"} =>
        job[w].read["total"] = used[job[w].ticket]["total"]

\* What is about to be written is within the plan.
Covered == \A w \in Workers : pc[w] = "update" => ~ Over(job[w])

TicketInv == TypeOK /\ Exclusion /\ ReadIsCurrent /\ Covered /\ TotalExact /\ PlanKept

LEMMA LeaveFrame ==
  ASSUME TypeOK, NEW w \in Workers, NEW place, Leave(w, place)
  PROVE  /\ pc'[w] = place
         /\ \A v \in Workers \ {w} : pc'[v] = pc[v] /\ job'[v] = job[v]
         /\ place # "idle" => job' = job
  BY DEF TypeOK, Leave

\* Nobody else is between lock and unlock.
LEMMA AloneInside ==
  ASSUME TypeOK, Exclusion, NEW w \in Workers, Holding(w)
  PROVE  \A v \in Workers \ {w} : ~ Holding(v)
  BY DEF Exclusion

\* A worker that leaves, or never entered, where it holds the mutex disturbs no other.
LEMMA LeavingStep ==
  ASSUME TicketInv, NEW w \in Workers, NEW place \in {"idle", "ip"}, Leave(w, place),
         \/ Holding(w) /\ Unlock
         \/ ~ Holding(w) /\ UNCHANGED work_mutex,
         UNCHANGED <<used, accepted>>
  PROVE  Exclusion' /\ ReadIsCurrent' /\ Covered' /\ TotalExact' /\ PlanKept'
<1>1. /\ pc'[w] = place
      /\ \A v \in Workers \ {w} : pc'[v] = pc[v] /\ job'[v] = job[v]
  BY LeaveFrame DEF TicketInv
<1>2. Exclusion'
  <2>1. CASE Holding(w) /\ Unlock
    BY <1>1, <2>1, AloneInside DEF TicketInv, Holding, Exclusion
  <2>2. CASE ~ Holding(w) /\ UNCHANGED work_mutex
    BY <1>1, <2>2 DEF TicketInv, Holding, Exclusion
  <2> QED
    BY <2>1, <2>2
<1>3. ReadIsCurrent'
  BY <1>1 DEF TicketInv, ReadIsCurrent
<1>4. Covered'
  BY <1>1 DEF TicketInv, Covered, Over, Counted
<1> QED
  BY <1>2, <1>3, <1>4 DEF TicketInv, TotalExact, PlanKept

\* A worker inside that goes on to place keeps the exclusion.
LEMMA InsideStep ==
  ASSUME TypeOK, Exclusion, NEW w \in Workers, Holding(w), UNCHANGED work_mutex,
         \A v \in Workers \ {w} : pc'[v] = pc[v]
  PROVE  Exclusion'
  BY DEF Exclusion, Holding

\* The write makes the total what was accepted and stays within the plan.
LEMMA UpdateStep ==
  ASSUME TicketInv, NEW w \in Workers, Update(w)
  PROVE  Exclusion' /\ ReadIsCurrent' /\ Covered' /\ TotalExact' /\ PlanKept'
<1> DEFINE j == job[w]
<1>1. PICK place \in {"idle", "ip"} : Leave(w, place)
  BY DEF Update, Outgoing
<1>2. Holding(w) /\ pc[w] = "update" /\ Unlock
  BY DEF Update, Holding
<1>3. CASE UNCHANGED <<used, accepted>>
  BY <1>1, <1>2, <1>3, LeavingStep
<1>4. CASE /\ used' = [used EXCEPT ![j.ticket] = Counted(j)]
           /\ accepted' = [accepted EXCEPT ![j.ticket] = @ + j.count]
  <2>1. j \in Job /\ j.ticket \in Tickets /\ j.count \in Nat
    BY <1>2, TypeOfJob DEF TicketInv
  <2>2. /\ pc'[w] = place
        /\ \A v \in Workers \ {w} : pc'[v] = pc[v] /\ job'[v] = job[v]
    BY <1>1, LeaveFrame DEF TicketInv
  <2>3. \A v \in Workers : ~ Holding(v)'
    BY <1>2, <2>2, AloneInside DEF TicketInv, Holding
  <2>4. Exclusion' /\ ReadIsCurrent' /\ Covered'
    BY <2>3 DEF Exclusion, ReadIsCurrent, Covered, Holding
  <2>5. used \in [Tickets -> [Usages -> Nat]] /\ accepted \in [Tickets -> Nat]
    BY DEF TicketInv, TypeOK
  <2>6. j.read["total"] = used[j.ticket]["total"] /\ used[j.ticket]["total"] = accepted[j.ticket]
    BY <1>2, <2>1 DEF TicketInv, ReadIsCurrent, TotalExact
  <2>7. Counted(j)["total"] = accepted[j.ticket] + j.count
    BY <2>6 DEF Counted, Usages
  <2>8. TotalExact'
    <3> SUFFICES ASSUME NEW t \in Tickets PROVE used'[t]["total"] = accepted'[t]
      BY DEF TotalExact
    <3>1. CASE t = j.ticket
      BY <1>4, <2>1, <2>5, <2>7, <3>1
    <3>2. CASE t # j.ticket
      BY <1>4, <2>5, <3>2 DEF TicketInv, TotalExact
    <3> QED
      BY <3>1, <3>2
  <2>9. PlanKept'
    <3> SUFFICES ASSUME NEW t \in Tickets
                 PROVE  /\ Plan[t]["total"] > 0 => accepted'[t] <= Plan[t]["total"]
                        /\ \A u \in Items : Plan[t][u] > 0 => used'[t][u] <= Plan[t][u]
      BY DEF PlanKept
    <3>1. CASE t = j.ticket
      <4>1. \A u \in Usages : Plan[t][u] > 0 => ~ (Counted(j)[u] > Plan[t][u])
        BY <1>2, <3>1 DEF TicketInv, Covered, Over
      <4>2. \A u \in Usages : Counted(j)[u] \in Nat /\ Plan[t][u] \in Int
        BY <2>1, TypeOfCounted, TicketAssumption
      <4>3. \A u \in Usages : Plan[t][u] > 0 => Counted(j)[u] <= Plan[t][u]
        BY <4>1, <4>2
      <4>4. used'[t] = Counted(j) /\ accepted'[t] = Counted(j)["total"]
        BY <1>4, <2>5, <2>7, <3>1
      <4> QED
        BY <4>3, <4>4 DEF Usages, Items
    <3>2. CASE t # j.ticket
      BY <1>4, <2>5, <3>2 DEF TicketInv, PlanKept
    <3> QED
      BY <3>1, <3>2
  <2> QED
    BY <2>4, <2>8, <2>9
<1> QED
  BY <1>3, <1>4 DEF Update

LEMMA RequestStep ==
  ASSUME NoneMissing, TicketInv, NEW w \in Workers, Request(w) \/ Lock(w) \/ Process(w)
  PROVE  Exclusion' /\ ReadIsCurrent' /\ Covered' /\ TotalExact' /\ PlanKept'
<1> USE DEF TicketInv
<1>1. CASE Request(w)
  <2>1. /\ ~ Holding(w)' /\ UNCHANGED <<used, accepted, work_mutex>>
        /\ \A v \in Workers \ {w} : pc'[v] = pc[v] /\ job'[v] = job[v]
    BY <1>1 DEF TypeOK, Request, Holding, database
  <2>2. Exclusion'
    BY <2>1 DEF Exclusion, Holding
  <2>3. ReadIsCurrent'
    BY <2>1 DEF ReadIsCurrent, Holding
  <2>4. Covered'
    BY <2>1 DEF Covered, Holding, Over, Counted
  <2> QED
    BY <2>1, <2>2, <2>3, <2>4 DEF TotalExact, PlanKept
<1>2. CASE Lock(w)
  <2>1. /\ work_mutex = NULL /\ work_mutex' = w /\ Leave(w, "row")
        /\ UNCHANGED <<used, accepted>>
    BY <1>2 DEF Lock, Exclusive, database
  <2>2. pc'[w] = "row" /\ job' = job /\ \A v \in Workers \ {w} : pc'[v] = pc[v]
    BY <2>1, LeaveFrame
  <2>3. \A v \in Workers : ~ Holding(v)
    BY <2>1, TicketAssumption DEF Exclusion
  <2>4. Exclusion'
    BY <2>1, <2>2, <2>3 DEF Exclusion, Holding
  <2>5. ReadIsCurrent' /\ Covered'
    BY <2>2, <2>3 DEF ReadIsCurrent, Covered, Holding
  <2> QED
    BY <2>1, <2>4, <2>5 DEF TotalExact, PlanKept
<1>3. CASE ReadRow(w)
  <2>1. Holding(w) /\ UNCHANGED <<used, accepted>>
    BY <1>3 DEF ReadRow, Holding, database
  <2>2. CASE Unlock /\ Leave(w, "idle")
    BY <2>1, <2>2, LeavingStep
  <2>3. CASE /\ job' = [job EXCEPT ![w].read = used[job[w].ticket]]
             /\ pc' = [pc EXCEPT ![w] = "plan"]
             /\ UNCHANGED work_mutex
    <3>1. /\ pc'[w] = "plan"
          /\ \A v \in Workers \ {w} : pc'[v] = pc[v] /\ job'[v] = job[v]
      BY <2>3 DEF TypeOK
    <3>2. Exclusion'
      BY <2>1, <2>3, <3>1, InsideStep
    <3>3. job[w] \in Job /\ job'[w] = [job[w] EXCEPT !.read = used[job[w].ticket]]
      BY <2>3, <1>3, TypeOfJob DEF TypeOK, ReadRow
    <3>4. job'[w].ticket = job[w].ticket /\ job'[w].read = used[job[w].ticket]
      BY <3>3 DEF Job
    <3>5. ReadIsCurrent'
      BY <2>1, <3>1, <3>4 DEF ReadIsCurrent
    <3>6. Covered'
      BY <3>1 DEF Covered, Over, Counted
    <3> QED
      BY <2>1, <3>2, <3>5, <3>6 DEF TotalExact, PlanKept
  <2> QED
    BY <1>3, <2>2, <2>3 DEF ReadRow
<1>4. CASE ReadPlan(w)
  <2>1. Holding(w) /\ UNCHANGED <<used, accepted>>
    BY <1>4 DEF ReadPlan, Holding, database
  <2>2. CASE Unlock /\ Leave(w, Outgoing(job[w].ticket))
    BY <2>1, <2>2, LeavingStep DEF Outgoing
  <2>3. CASE Reject(w)
    BY <2>1, <2>3, LeavingStep DEF Reject
  <2>4. CASE ~ Over(job[w]) /\ Leave(w, "update") /\ UNCHANGED work_mutex
    <3>1. pc'[w] = "update" /\ job' = job /\ \A v \in Workers \ {w} : pc'[v] = pc[v]
      BY <2>4, LeaveFrame
    <3>2. Exclusion'
      BY <2>1, <2>4, <3>1, InsideStep
    <3>3. ReadIsCurrent'
      BY <1>4, <2>1, <3>1 DEF ReadIsCurrent, ReadPlan
    <3>4. Covered'
      BY <2>4, <3>1 DEF Covered, Over, Counted
    <3> QED
      BY <2>1, <3>2, <3>3, <3>4 DEF TotalExact, PlanKept
  <2> QED
    BY <1>4, <2>2, <2>3, <2>4 DEF ReadPlan
<1>5. CASE Update(w)
  BY <1>5, UpdateStep
<1>6. CASE ReadOutgoingIp(w)
  <2>1. ~ Holding(w) /\ UNCHANGED <<used, accepted>> /\ Leave(w, "idle")
    BY <1>6 DEF ReadOutgoingIp, Holding, database
  <2>2. OutgoingIp[job[w].ticket] # "missing"
    BY <1>6, TypeOfJob DEF ReadOutgoingIp, NoneMissing
  <2>3. UNCHANGED work_mutex
    BY <1>6, <2>2 DEF ReadOutgoingIp
  <2> QED
    BY <2>1, <2>3, LeavingStep
<1> QED
  BY <1>1, <1>2, <1>3, <1>4, <1>5, <1>6 DEF Process

\* A reset takes usage of the day or month away, and nothing from the total.
LEMMA TrackingStep ==
  ASSUME TicketInv, Tracking
  PROVE  Exclusion' /\ ReadIsCurrent' /\ Covered' /\ TotalExact' /\ PlanKept'
<1> USE DEF TicketInv
<1>1. UNCHANGED <<work_mutex, pc, job, accepted>>
  BY DEF Tracking, Track, TrackMonth, ChangeMonth, TrackDay, ChangeDay, Compare, Reset, NoWorker
<1>2. \/ UNCHANGED used
      \/ \E item \in Items : used' = [t \in Tickets |-> [used[t] EXCEPT ![item] = 0]]
  BY DEF Tracking, Track, TrackMonth, ChangeMonth, TrackDay, ChangeDay, Compare, Reset, database, Items
<1>3. /\ used \in [Tickets -> [Usages -> Nat]]
      /\ \A w \in Workers : Holding(w) => job[w].ticket \in Tickets
  BY TypeOfJob DEF TypeOK, Holding
<1>4. \A t \in Tickets :
         /\ used'[t]["total"] = used[t]["total"]
         /\ \A u \in Items : used'[t][u] \in {0, used[t][u]}
  BY <1>2, <1>3 DEF Items, Usages
<1>5. Exclusion' /\ Covered'
  BY <1>1 DEF Exclusion, Holding, Covered, Over, Counted
<1>6. ReadIsCurrent'
  BY <1>1, <1>3, <1>4 DEF ReadIsCurrent, Holding
<1>7. TotalExact'
  BY <1>1, <1>4 DEF TotalExact
<1>8. PlanKept'
  <2> SUFFICES ASSUME NEW t \in Tickets
               PROVE  /\ Plan[t]["total"] > 0 => accepted[t] <= Plan[t]["total"]
                      /\ \A u \in Items : Plan[t][u] > 0 => used'[t][u] <= Plan[t][u]
    BY <1>1 DEF PlanKept
  <2>1. \A u \in Items : Plan[t][u] \in Int
    BY TicketAssumption DEF Items, Usages
  <2> QED
    BY <1>4, <2>1 DEF PlanKept
<1> QED
  BY <1>5, <1>6, <1>7, <1>8

LEMMA TicketInvStep ==
  ASSUME NoneMissing
  PROVE  TicketInv /\ [Next]_vars => TicketInv'
<1> SUFFICES ASSUME TicketInv, [Next]_vars PROVE TicketInv'
  OBVIOUS
<1> USE DEF TicketInv
<1>1. TypeOK'
  BY TypeStep
<1>2. ASSUME NEW w \in Workers, Request(w) \/ Lock(w) \/ Process(w) PROVE TicketInv'
  BY <1>1, <1>2, RequestStep
<1>3. CASE Tracking
  BY <1>1, <1>3, TrackingStep
<1>4. CASE Midnight \/ UNCHANGED vars
  <2>1. UNCHANGED <<used, accepted, work_mutex, pc, job>>
    BY <1>4 DEF Midnight, vars, database
  <2>2. Exclusion' /\ ReadIsCurrent' /\ Covered'
    BY <2>1 DEF Exclusion, Holding, ReadIsCurrent, Covered, Over, Counted
  <2> QED
    BY <1>1, <2>1, <2>2 DEF TotalExact, PlanKept
<1>5. CASE Crash
  <2>1. UNCHANGED <<used, accepted>> /\ \A w \in Workers : pc'[w] = "idle"
    BY <1>5 DEF Crash, database
  <2>2. Exclusion' /\ ReadIsCurrent' /\ Covered'
    BY <2>1 DEF Exclusion, Holding, ReadIsCurrent, Covered
  <2> QED
    BY <1>1, <2>1, <2>2 DEF TotalExact, PlanKept
<1> QED
  BY <1>2, <1>3, <1>4, <1>5 DEF Next

LEMMA TicketInvInit == Init => TicketInv
<1> SUFFICES ASSUME Init PROVE TicketInv
  OBVIOUS
<1>1. Exclusion /\ ReadIsCurrent /\ Covered
  BY DEF Init, Exclusion, Holding, ReadIsCurrent, Covered
<1>2. TotalExact
  BY DEF Init, TotalExact, Nothing, Usages
<1>3. PlanKept
  BY TicketAssumption DEF Init, PlanKept, Nothing, Usages, Items
<1> QED
  BY <1>1, <1>2, <1>3, TypeInit DEF TicketInv

\* While every outgoing_ip a ticket names exists, no UPDATE of a worker overwrites the
\* count of another.
THEOREM NoCountIsLost == NoneMissing => (Spec => []TotalExact)
<1> SUFFICES ASSUME NoneMissing PROVE Spec => []TotalExact
  OBVIOUS
<1>1. TicketInv => TotalExact
  BY DEF TicketInv
<1> QED
  BY <1>1, TicketInvInit, TicketInvStep, PTL DEF Spec

\* Under the same condition no ticket gives more mails than its plan allows, in total and
\* in the day and the month.
THEOREM NoPlanIsExceeded == NoneMissing => (Spec => []PlanKept)
<1> SUFFICES ASSUME NoneMissing PROVE Spec => []PlanKept
  OBVIOUS
<1>1. TicketInv => PlanKept
  BY DEF TicketInv
<1> QED
  BY <1>1, TicketInvInit, TicketInvStep, PTL DEF Spec

-----------------------------------------------------------------------------
(* A day is reset once.                                                     *)

\* What the event has read is still stored until it stores the new day itself.
StoredIsTracked ==
    tracker \in {"month", "record month", "day"} => stored["day"] = tracked["day"]

\* Resets that are still due: one the event has announced by storing the day, and one it
\* will notice.
Announced == IF tracker = "record day" THEN 1 ELSE 0
Unnoticed == IF tracked["day"] # clock["day"] THEN 1 ELSE 0

ResetInv == StoredIsTracked /\ resets + Announced + Unnoticed <= days

LEMMA TypeOfDays ==
  ASSUME TypeOK
  PROVE  /\ resets \in Nat /\ days \in Nat
         /\ tracked \in [Items -> Nat] /\ clock \in [Items -> Nat]
<1>1. days \in 0..MaxDays /\ resets \in Nat
  BY DEF TypeOK
<1>2. tracked \in [Items -> Nat] /\ clock \in [Items -> Nat]
  BY DEF TypeOK, Date
<1> QED
  BY <1>1, <1>2, TicketAssumption

\* Every step of the event.
LEMMA ResetTracking ==
  ASSUME TypeOK, ResetInv, Tracking
  PROVE  ResetInv'
<1>1. resets \in Nat /\ days \in Nat /\ tracked \in [Items -> Nat] /\ clock \in [Items -> Nat]
  BY TypeOfDays
<1>2. UNCHANGED <<days, clock>>
  BY DEF Tracking, Track, TrackMonth, ChangeMonth, TrackDay, ChangeDay, Compare, Reset, NoWorker
<1>3. "day" \in Items /\ "month" \in Items
  BY DEF Items
<1>4. CASE Track
  <2>1. tracker = "idle" /\ tracker' = "month" /\ stored' = tracked /\ UNCHANGED <<tracked, resets>>
    BY <1>4 DEF Track, database
  <2> QED
    BY <1>2, <2>1 DEF ResetInv, StoredIsTracked, Announced, Unnoticed
<1>5. CASE TrackMonth
  <2>1. /\ tracker = "month" /\ tracker' \in {"record month", "day"}
        /\ tracked' = [tracked EXCEPT !["month"] = clock["month"]] \/ UNCHANGED tracked
        /\ UNCHANGED <<stored, resets>>
    BY <1>5 DEF TrackMonth, Compare, Store, Forget
  <2>2. tracked'["day"] = tracked["day"]
    BY <1>1, <1>3, <2>1
  <2> QED
    BY <1>2, <2>1, <2>2 DEF ResetInv, StoredIsTracked, Announced, Unnoticed
<1>6. CASE ChangeMonth
  <2>1. /\ tracker = "record month" /\ tracker' = "day"
        /\ UNCHANGED <<tracked, stored, resets>>
    BY <1>6 DEF ChangeMonth, Reset, Forget
  <2> QED
    BY <1>2, <2>1 DEF ResetInv, StoredIsTracked, Announced, Unnoticed
<1>7. CASE TrackDay
  <2>1. tracker = "day" /\ UNCHANGED resets
    BY <1>7 DEF TrackDay, Compare
  <2>2. CASE stored["day"] # clock["day"]
    <3>1. tracked' = [tracked EXCEPT !["day"] = clock["day"]] /\ tracker' = "record day"
      BY <1>7, <2>2 DEF TrackDay, Compare, Store
    <3>2. tracked'["day"] = clock'["day"]
      BY <1>1, <1>2, <1>3, <3>1
    <3>3. Announced = 0 /\ Unnoticed = 1
      BY <2>1, <2>2 DEF ResetInv, StoredIsTracked, Announced, Unnoticed
    <3>4. Announced' = 1 /\ Unnoticed' = 0
      BY <3>1, <3>2 DEF Announced, Unnoticed
    <3> QED
      <4>1. resets + 0 + 1 <= days
        BY <3>3 DEF ResetInv
      <4>2. resets + 1 + 0 <= days
        BY <1>1, <4>1
      <4>3. resets' = resets /\ days' = days /\ StoredIsTracked'
        BY <1>2, <2>1, <3>1 DEF StoredIsTracked
      <4> QED
        BY <3>4, <4>2, <4>3 DEF ResetInv
  <2>3. CASE stored["day"] = clock["day"]
    <3>1. UNCHANGED tracked /\ tracker' = "idle"
      BY <1>7, <2>3 DEF TrackDay, Compare
    <3> QED
      BY <1>2, <2>1, <3>1 DEF ResetInv, StoredIsTracked, Announced, Unnoticed
  <2> QED
    BY <2>2, <2>3
<1>8. CASE ChangeDay
  <2>1. tracker = "record day" /\ tracker' = "idle" /\ resets' = resets + 1 /\ UNCHANGED tracked
    BY <1>8 DEF ChangeDay, Reset
  <2>2. Announced = 1 /\ Announced' = 0 /\ Unnoticed' = Unnoticed
    BY <1>2, <2>1 DEF Announced, Unnoticed
  <2>3. Unnoticed \in Nat
    BY DEF Unnoticed
  <2> QED
    <3>1. resets + 1 + Unnoticed <= days
      BY <2>2 DEF ResetInv
    <3>2. (resets + 1) + 0 + Unnoticed <= days
      BY <1>1, <2>3, <3>1
    <3>3. days' = days /\ StoredIsTracked'
      BY <1>2, <2>1 DEF StoredIsTracked
    <3> QED
      BY <2>1, <2>2, <3>2, <3>3 DEF ResetInv
<1> QED
  BY <1>4, <1>5, <1>6, <1>7, <1>8 DEF Tracking

LEMMA OneMoreIsDue ==
  ASSUME NEW r \in Nat, NEW d \in Nat, NEW a \in {0, 1}, NEW u \in {0, 1}, NEW v \in {0, 1},
         r + a + u <= d
  PROVE  r + a + v <= d + 1
  OBVIOUS

LEMMA ResetStep == TypeOK /\ ResetInv /\ [Next]_vars => ResetInv'
<1> SUFFICES ASSUME TypeOK, ResetInv, [Next]_vars PROVE ResetInv'
  OBVIOUS
<1>1. resets \in Nat /\ days \in Nat
  BY TypeOfDays
<1>2. ASSUME NEW w \in Workers, Request(w) \/ Lock(w) \/ Process(w) PROVE ResetInv'
  <2>1. UNCHANGED <<tracker, stored, resets, tracked, clock, days>>
    BY <1>2 DEF Request, Lock, Process, ReadRow, ReadPlan, Update, ReadOutgoingIp,
                database, tracking
  <2> QED
    BY <2>1 DEF ResetInv, StoredIsTracked, Announced, Unnoticed
<1>3. CASE Tracking
  BY <1>3, ResetTracking
<1>4. CASE Midnight
  <2>1. UNCHANGED <<tracker, stored, resets, tracked>> /\ days' = days + 1
    BY <1>4 DEF Midnight, database, tracking
  <2>2. Announced' = Announced /\ StoredIsTracked'
    BY <2>1 DEF Announced, ResetInv, StoredIsTracked
  <2>3. Unnoticed \in {0, 1} /\ Unnoticed' \in {0, 1} /\ Announced \in {0, 1}
    BY DEF Unnoticed, Announced
  <2>4. resets + Announced + Unnoticed <= days
    BY DEF ResetInv
  <2>5. resets + Announced + Unnoticed' <= days + 1
    BY <1>1, <2>3, <2>4, OneMoreIsDue
  <2> QED
    BY <2>1, <2>2, <2>5 DEF ResetInv
<1>5. CASE Crash
  <2>1. UNCHANGED <<tracked, clock, days, resets>> /\ tracker' = "idle"
    BY <1>5 DEF Crash, database
  <2>2. Announced' = 0 /\ Unnoticed' = Unnoticed /\ StoredIsTracked'
    BY <2>1 DEF Announced, Unnoticed, StoredIsTracked
  <2>3. Announced \in {0, 1} /\ Unnoticed \in {0, 1}
    BY DEF Announced, Unnoticed
  <2>4. resets + Announced + Unnoticed <= days
    BY DEF ResetInv
  <2>5. resets + 0 + Unnoticed <= days
    BY <1>1, <2>3, <2>4
  <2> QED
    BY <2>1, <2>2, <2>5 DEF ResetInv
<1>6. CASE UNCHANGED vars
  BY <1>6 DEF vars, ResetInv, StoredIsTracked, Announced, Unnoticed
<1> QED
  BY <1>2, <1>3, <1>4, <1>5, <1>6 DEF Next

LEMMA ResetInit == Init => ResetInv
  BY DEF Init, ResetInv, StoredIsTracked, Announced, Unnoticed

\* However often the server crashes and wherever it is then, the modules are not told
\* twice of the same day: no reset gives the tickets of a day again.
THEOREM NoDayIsResetTwice == Spec => []ResetAtMostOnce
<1>1. TypeOK /\ ResetInv => ResetAtMostOnce
  <2> SUFFICES ASSUME TypeOK, ResetInv PROVE ResetAtMostOnce
    OBVIOUS
  <2>1. resets \in Nat /\ days \in Nat
    BY TypeOfDays
  <2>2. Announced \in {0, 1} /\ Unnoticed \in {0, 1}
    BY DEF Announced, Unnoticed
  <2> QED
    BY <2>1, <2>2 DEF ResetInv, ResetAtMostOnce
<1> QED
  BY <1>1, TypeInit, TypeStep, ResetInit, ResetStep, PTL DEF Spec

=============================================================================
