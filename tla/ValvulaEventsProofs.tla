------------------------- MODULE ValvulaEventsProofs -------------------------
(***************************************************************************)
(* What ValvulaEvents promises for any number of threads and events, any   *)
(* delays and any length of a second: that an event is freed by its last   *)
(* holder, that one thread at a time is at the events, and that no event   *)
(* runs more often than its delay allows.                                  *)
(***************************************************************************)
EXTENDS ValvulaEvents, FiniteSetTheorems, TLAPS

Active(t) == pc[t] \notin {"idle", "joined"}

Used(e) == \E t \in Threads : event[t] = e

-----------------------------------------------------------------------------
(* The inductive invariant of the references.                               *)

\* The flag is up exactly while a thread is at the events.
FlagOfProcessor == processing <=> \E t \in Threads : Active(t)

\* A thread has an event from its choice until its function has returned.
ThreadShape == \A t \in Threads : event[t] # NULL <=> pc[t] \in {"call", "func"}

\* Threads are joined when the list is freed, and not before.
Joined == \A t \in Threads : pc[t] = "joined" <=> main = "freed"

\* No event is twice in the list.
Distinct == \A i, j \in 1..Len(events) : events[i] = events[j] => i = j

\* An event nobody has created is nowhere.
Unborn == \A e \in Events : born[e] = NULL => ~ InList(e) /\ ~ Used(e)

\* EventRefs, with the holders counted by the fact that there is at most one.
Counted ==
    \A e \in Events :
        ref[e] = (IF Used(e) THEN 1 ELSE 0) + (IF InList(e) THEN 1 ELSE 0)

RefInv == /\ TypeOK /\ OneProcessor /\ FlagOfProcessor /\ ThreadShape /\ Joined
          /\ Distinct /\ Unborn /\ Counted

-----------------------------------------------------------------------------
(* The list.                                                                *)

\* Where an event of the list is first found.
LEMMA FirstOccurrence ==
  ASSUME TypeOK, NEW e \in Events, InList(e), Distinct
  PROVE  \E i \in 1..Len(events) : events[i] = e /\ \A j \in 1..(i - 1) : events[j] # e
<1>1. PICK i \in 1..Len(events) : events[i] = e
  BY DEF InList
<1>2. Len(events) \in Nat
  BY DEF TypeOK
<1>3. \A j \in 1..(i - 1) : events[j] # e
  BY <1>1, <1>2 DEF Distinct
<1> QED
  BY <1>1, <1>3

\* Taking an event away leaves the others and no other.
LEMMA WithoutList ==
  ASSUME TypeOK, Distinct, NEW e \in Events, events' = Without(e)
  PROVE  /\ events' \in Seq(Events)
         /\ Distinct'
         /\ ~ InList(e)'
         /\ \A f \in Events \ {e} : InList(f)' <=> InList(f)
<1>1. CASE ~ InList(e)
  <2>1. events' = events
    BY <1>1 DEF Without
  <2> QED
    BY <2>1, <1>1 DEF TypeOK, Distinct, InList
<1>2. CASE InList(e)
  <2> DEFINE at == CHOOSE i \in 1..Len(events) :
                       events[i] = e /\ \A j \in 1..(i - 1) : events[j] # e
  <2>1. at \in 1..Len(events) /\ events[at] = e
    BY FirstOccurrence, <1>2
  <2>2. Len(events) \in Nat /\ \A i \in 1..Len(events) : events[i] \in Events
    BY DEF TypeOK
  <2> DEFINE n == Len(events)
  <2>3. events' = [i \in 1..(n - 1) |-> IF i < at THEN events[i] ELSE events[i + 1]]
    BY <1>2 DEF Without
  <2> HIDE DEF at
  <2>4. \A i \in 1..(n - 1) : (IF i < at THEN events[i] ELSE events[i + 1]) \in Events
    BY <2>1, <2>2
  <2>5. n - 1 \in Nat
    BY <2>1, <2>2
  <2>6. events' \in Seq(Events) /\ Len(events') = n - 1
    BY <2>3, <2>4, <2>5
  <2>7. \A i \in 1..Len(events') : events'[i] = events[IF i < at THEN i ELSE i + 1]
    BY <2>3, <2>6
  <2>8. Distinct'
    <3> SUFFICES ASSUME NEW i \in 1..Len(events'), NEW j \in 1..Len(events'),
                        events'[i] = events'[j]
                 PROVE  i = j
      BY DEF Distinct
    <3>1. (IF i < at THEN i ELSE i + 1) = (IF j < at THEN j ELSE j + 1)
      BY <2>1, <2>2, <2>6, <2>7 DEF Distinct
    <3> QED
      BY <3>1, <2>1, <2>2, <2>6
  <2>9. ~ InList(e)'
    <3> SUFFICES ASSUME NEW i \in 1..Len(events'), events'[i] = e
                 PROVE  FALSE
      BY DEF InList
    <3>1. (IF i < at THEN i ELSE i + 1) = at
      BY <2>1, <2>2, <2>6, <2>7 DEF Distinct
    <3> QED
      BY <3>1, <2>1, <2>2, <2>6
  <2>10. ASSUME NEW f \in Events \ {e}
         PROVE  InList(f)' <=> InList(f)
    <3>1. ASSUME InList(f)'
          PROVE  InList(f)
      <4>1. PICK i \in 1..Len(events') : events'[i] = f
        BY <3>1 DEF InList
      <4> QED
        BY <4>1, <2>1, <2>2, <2>6, <2>7 DEF InList
    <3>2. ASSUME InList(f)
          PROVE  InList(f)'
      <4>1. PICK i \in 1..Len(events) : events[i] = f
        BY <3>2 DEF InList
      <4>2. CASE i < at
        <5>1. i \in 1..Len(events')
          BY <4>2, <2>1, <2>2, <2>6
        <5> QED
          BY <5>1, <4>1, <4>2, <2>7 DEF InList
      <4>3. CASE i > at
        <5>1. i - 1 \in 1..Len(events') /\ ~ (i - 1 < at) /\ (i - 1) + 1 = i
          BY <4>3, <2>1, <2>2, <2>6
        <5> QED
          BY <5>1, <4>1, <2>7 DEF InList
      <4> QED
        BY <4>1, <4>2, <4>3, <2>1, <2>2
    <3> QED
      BY <3>1, <3>2
  <2> QED
    BY <2>6, <2>8, <2>9, <2>10
<1> QED
  BY <1>1, <1>2

\* A new event is in the list once, with the others.
LEMMA InsertedList ==
  ASSUME TypeOK, Distinct, NEW e \in Events, ~ InList(e), events' = Inserted(e)
  PROVE  /\ events' \in Seq(Events)
         /\ Distinct'
         /\ InList(e)'
         /\ \A f \in Events \ {e} : InList(f)' <=> InList(f)
<1>1. events \in Seq(Events) /\ Len(events) \in Nat
  BY DEF TypeOK
<1>2. /\ events' \in Seq(Events)
      /\ Len(events') = Len(events) + 1
      /\ \A i \in 1..Len(events) : events'[i] = events[i]
      /\ events'[Len(events) + 1] = e
  BY <1>1 DEF Inserted
<1>3. Distinct'
  BY <1>1, <1>2 DEF Distinct, InList
<1>4. InList(e)'
  BY <1>1, <1>2 DEF InList
<1>5. \A f \in Events \ {e} : InList(f)' <=> InList(f)
  BY <1>1, <1>2 DEF InList
<1> QED
  BY <1>2, <1>3, <1>4, <1>5

-----------------------------------------------------------------------------
(* RefInv is inductive.                                                     *)

LEMMA RefInvInit == Init => RefInv
<1> SUFFICES ASSUME Init PROVE RefInv
  OBVIOUS
<1>1. TypeOK
  <2>1. events = <<>> /\ events \in Seq(Events)
    BY DEF Init
  <2>2. 0 \in Nat /\ NULL \in Events \cup {NULL} /\ NULL \in Nat \cup {NULL}
    OBVIOUS
  <2> QED
    BY <2>1, <2>2 DEF Init, TypeOK
<1>2. \A e \in Events : ~ InList(e) /\ ~ Used(e)
  BY EventsAssumption DEF Init, InList, Used
<1>3. OneProcessor /\ FlagOfProcessor /\ ThreadShape /\ Joined
  BY DEF Init, OneProcessor, FlagOfProcessor, Active, ThreadShape, Joined
<1>5. Distinct
  <2>1. Len(events) = 0
    BY DEF Init
  <2> QED
    BY <2>1 DEF Distinct
<1>4. Unborn /\ Counted
  BY <1>2 DEF Init, Unborn, Counted
<1> QED
  BY <1>1, <1>3, <1>4, <1>5 DEF RefInv

\* The seconds that are added to a stamp are a number.
LEMMA TypeOfStamp ==
  ASSUME TypeOK, NEW e \in Events, NEW s \in Nat, NEW u \in Nat, IncreaseStamp(e, s, u)
  PROVE  sec' \in [Events -> Nat] /\ usec' \in [Events -> Nat]
<1>1. Delay[e] \in Nat /\ Second \in Nat \ {0}
  BY EventsAssumption
<1>2. u + Delay[e] \in Nat
  BY <1>1
<1>3. (u + Delay[e]) \div Second \in Nat /\ (u + Delay[e]) % Second \in Nat
  BY <1>1, <1>2
<1>4. Carry(u, Delay[e]) \in Nat
  BY <1>3 DEF Carry
<1>5. s + Carry(u, Delay[e]) \in Nat
  BY <1>4
<1> QED
  BY <1>3, <1>5 DEF TypeOK, IncreaseStamp

\* With one thread at the events, nobody but it uses one.
LEMMA OneUser ==
  ASSUME RefInv, NEW t \in Threads, Active(t), NEW u \in Threads, u # t
  PROVE  event[u] = NULL /\ ~ Active(u)
<1>1. ~ Active(u)
  <2>1. ~ Active(u) \/ {pc[t], pc[u]} \cap {"idle", "joined"} = {}
    BY DEF Active
  <2> QED
    BY <2>1 DEF RefInv, OneProcessor
<1>2. pc[u] \notin {"call", "func"}
  BY <1>1 DEF Active
<1> QED
  BY <1>1, <1>2 DEF RefInv, ThreadShape

LEMMA NewEventStep ==
  ASSUME RefInv, NEW e \in Events, NewEvent(e)
  PROVE  RefInv'
<1> USE DEF NewEvent
<1>1. TypeOK /\ Distinct /\ ~ InList(e) /\ ~ Used(e)
  BY DEF RefInv, Unborn
<1>2. /\ events' \in Seq(Events)
      /\ Distinct' /\ InList(e)'
      /\ \A f \in Events \ {e} : InList(f)' <=> InList(f)
  BY <1>1, InsertedList
<1>3. clock \div Second \in Nat /\ clock % Second \in Nat
  <2>1. clock \in Nat /\ Second \in Nat \ {0}
    BY <1>1, EventsAssumption DEF TypeOK
  <2> QED
    BY <2>1
<1>4. sec' \in [Events -> Nat] /\ usec' \in [Events -> Nat]
  BY <1>1, <1>3, TypeOfStamp
<1>5. TypeOK'
  <2>1. ref' \in [Events -> Nat] /\ born' \in [Events -> Nat \cup {NULL}]
    BY <1>1 DEF TypeOK
  <2> QED
    BY <1>1, <1>2, <1>4, <2>1 DEF TypeOK, locals
<1>6. (OneProcessor /\ FlagOfProcessor /\ ThreadShape /\ Joined)'
  BY DEF RefInv, OneProcessor, FlagOfProcessor, Active, ThreadShape, Joined, locals
<1>7. \A f \in Events : Used(f)' <=> Used(f)
  BY DEF Used, locals
<1>8. Unborn'
  <2>1. born'[e] # NULL
    BY <1>1, EventsAssumption DEF TypeOK
  <2>2. \A f \in Events \ {e} : born'[f] = born[f]
    BY <1>1 DEF TypeOK
  <2> QED
    BY <1>2, <1>7, <2>1, <2>2 DEF RefInv, Unborn
<1>9. Counted'
  <2>1. ref'[e] = 1
    BY <1>1 DEF TypeOK
  <2>2. \A f \in Events \ {e} : ref'[f] = ref[f]
    BY <1>1 DEF TypeOK
  <2> QED
    BY <1>1, <1>2, <1>7, <2>1, <2>2 DEF RefInv, Counted
<1> QED
  BY <1>2, <1>5, <1>6, <1>8, <1>9 DEF RefInv

LEMMA RemoveEventStep ==
  ASSUME RefInv, NEW e \in Events, RemoveEvent(e)
  PROVE  RefInv'
<1> USE DEF RemoveEvent
<1>1. TypeOK /\ Distinct
  BY DEF RefInv
<1>2. /\ events' \in Seq(Events)
      /\ Distinct' /\ ~ InList(e)'
      /\ \A f \in Events \ {e} : InList(f)' <=> InList(f)
  BY <1>1, WithoutList
<1>3. ref[e] = (IF Used(e) THEN 1 ELSE 0) + 1
  BY DEF RefInv, Counted
<1>4. ref' = [ref EXCEPT ![e] = IF Used(e) THEN 1 ELSE 0]
  BY <1>1, <1>3 DEF Unref, TypeOK
<1>5. TypeOK'
  <2>1. ref' \in [Events -> Nat]
    BY <1>1, <1>4 DEF TypeOK
  <2> QED
    BY <1>1, <1>2, <2>1 DEF TypeOK, locals, history
<1>6. (OneProcessor /\ FlagOfProcessor /\ ThreadShape /\ Joined)'
  BY DEF RefInv, OneProcessor, FlagOfProcessor, Active, ThreadShape, Joined, locals
<1>7. \A f \in Events : Used(f)' <=> Used(f)
  BY DEF Used, locals
<1>8. Unborn'
  BY <1>2, <1>7 DEF RefInv, Unborn, history
<1>9. Counted'
  <2>1. ref'[e] = IF Used(e) THEN 1 ELSE 0
    BY <1>1, <1>4 DEF TypeOK
  <2>2. \A f \in Events \ {e} : ref'[f] = ref[f]
    BY <1>1, <1>4 DEF TypeOK
  <2> QED
    BY <1>2, <1>7, <2>1, <2>2 DEF RefInv, Counted
<1> QED
  BY <1>2, <1>5, <1>6, <1>8, <1>9 DEF RefInv

\* What a step must show that leaves list, references and the events in use alone.
LEMMA SameRefs ==
  ASSUME RefInv, UNCHANGED <<events, ref, event, born>>, TypeOK',
         (OneProcessor /\ FlagOfProcessor /\ ThreadShape /\ Joined)'
  PROVE  RefInv'
<1>1. \A e \in Events : (InList(e)' <=> InList(e)) /\ (Used(e)' <=> Used(e))
  BY DEF InList, Used
<1>2. Distinct'
  BY DEF RefInv, Distinct
<1>3. Unborn' /\ Counted'
  BY <1>1 DEF RefInv, Unborn, Counted
<1> QED
  BY <1>2, <1>3 DEF RefInv

LEMMA BeginStep ==
  ASSUME RefInv, NEW t \in Threads, Begin(t)
  PROVE  RefInv'
<1> USE DEF Begin
<1>1. TypeOK
  BY DEF RefInv
<1>2. ~ processing /\ main = "run" /\ \A u \in Threads : ~ Active(u)
  BY DEF MayProcess, RefInv, FlagOfProcessor
<1>3. pc'[t] = "stamp" /\ \A u \in Threads \ {t} : pc'[u] = pc[u]
  BY <1>1 DEF GoTo, TypeOK
<1>4. TypeOK'
  <2>1. Len(events) \in Nat
    BY <1>1 DEF TypeOK
  <2>2. length' \in [Threads -> Nat]
    BY <1>1, <2>1 DEF TypeOK
  <2>3. pc' \in [Threads -> {"idle", "stamp", "fetch", "call", "func", "end", "joined"}]
    BY <1>1 DEF GoTo, TypeOK
  <2> QED
    BY <1>1, <2>2, <2>3 DEF TypeOK, history
<1>5. OneProcessor' /\ FlagOfProcessor'
  BY <1>2, <1>3 DEF OneProcessor, FlagOfProcessor, Active
<1>6. ThreadShape' /\ Joined'
  BY <1>2, <1>3 DEF RefInv, ThreadShape, Joined
<1> QED
  BY <1>4, <1>5, <1>6, SameRefs DEF history

\* A thread that stays at the events without a change of event.
LEMMA MovesOn ==
  ASSUME RefInv, NEW t \in Threads, Active(t), NEW where \in {"fetch", "func", "end"},
         GoTo(t, where), UNCHANGED <<processing, event, main>>,
         event[t] # NULL <=> where = "func"
  PROVE  (OneProcessor /\ FlagOfProcessor /\ ThreadShape /\ Joined)'
<1>1. pc'[t] = where /\ \A u \in Threads \ {t} : pc'[u] = pc[u]
  BY DEF RefInv, TypeOK, GoTo
<1>2. \A u \in Threads \ {t} : ~ Active(u)
  BY OneUser
<1>3. OneProcessor' /\ FlagOfProcessor'
  BY <1>1, <1>2 DEF RefInv, OneProcessor, FlagOfProcessor, Active
<1>4. ThreadShape' /\ Joined'
  BY <1>1, <1>2 DEF RefInv, ThreadShape, Joined, Active
<1> QED
  BY <1>3, <1>4

LEMMA StampStep ==
  ASSUME RefInv, NEW t \in Threads, Stamp(t)
  PROVE  RefInv'
<1>1. TypeOK /\ Active(t) /\ event[t] = NULL
  BY DEF RefInv, ThreadShape, Stamp, Active
<1>2. TypeOK'
  BY <1>1 DEF TypeOK, Stamp, GoTo, history
<1>3. (OneProcessor /\ FlagOfProcessor /\ ThreadShape /\ Joined)'
  BY <1>1, MovesOn DEF Stamp
<1> QED
  BY <1>2, <1>3, SameRefs DEF Stamp, history

LEMMA NoMoreStep ==
  ASSUME RefInv, NEW t \in Threads, NoMore(t)
  PROVE  RefInv'
<1>1. TypeOK /\ Active(t) /\ event[t] = NULL
  BY DEF RefInv, ThreadShape, NoMore, Active
<1>2. TypeOK'
  BY <1>1 DEF TypeOK, NoMore, GoTo, locals, history
<1>3. (OneProcessor /\ FlagOfProcessor /\ ThreadShape /\ Joined)'
  BY <1>1, MovesOn DEF NoMore, locals
<1> QED
  BY <1>2, <1>3, SameRefs DEF NoMore, locals, history

LEMMA CallStep ==
  ASSUME RefInv, NEW t \in Threads, Call(t)
  PROVE  RefInv'
<1>1. TypeOK /\ Active(t) /\ event[t] # NULL
  BY DEF RefInv, ThreadShape, Call, Active
<1>2. TypeOK'
  BY <1>1 DEF TypeOK, Call, GoTo, locals
<1>3. (OneProcessor /\ FlagOfProcessor /\ ThreadShape /\ Joined)'
  BY <1>1, MovesOn DEF Call, locals
<1> QED
  BY <1>2, <1>3, SameRefs DEF Call, locals

\* The event fetched is in the list and in nobody's use.
LEMMA FetchStep ==
  ASSUME RefInv, NEW t \in Threads, Fetch(t)
  PROVE  RefInv'
<1> DEFINE e == events[iterator[t] + 1]
<1>1. TypeOK /\ Active(t) /\ event[t] = NULL
  BY DEF RefInv, ThreadShape, Fetch, Active
<1>2. e \in Events /\ InList(e)
  <2>1. iterator[t] + 1 \in 1..Len(events)
    <3>1. iterator[t] \in Nat /\ Len(events) \in Nat /\ iterator[t] < Len(events)
      BY <1>1 DEF Fetch, TypeOK
    <3> QED
      BY <3>1
  <2> QED
    BY <1>1, <2>1 DEF InList, TypeOK
<1> HIDE DEF e
<1>3. \A u \in Threads \ {t} : ~ Active(u) /\ event[u] = NULL
  BY <1>1, OneUser
<1>4. CASE ~ Due(e, now[t])
  <2>1. UNCHANGED <<pc, event, ref, events, born, processing, main>>
    BY <1>4 DEF Fetch, history, e
  <2>2. TypeOK'
    <3>1. /\ iterator' = [iterator EXCEPT ![t] = @ + 1]
          /\ UNCHANGED <<clock, events, ref, sec, usec, processing, main, pc, length, now,
                         event, born, runs>>
      BY <1>4 DEF Fetch, history, e
    <3>2. iterator' \in [Threads -> Nat]
      BY <1>1, <3>1 DEF TypeOK
    <3> QED
      BY <1>1, <3>1, <3>2 DEF TypeOK
  <2>3. (OneProcessor /\ FlagOfProcessor /\ ThreadShape /\ Joined)'
    BY <2>1 DEF RefInv, OneProcessor, FlagOfProcessor, Active, ThreadShape, Joined
  <2> QED
    BY <2>1, <2>2, <2>3, SameRefs
<1>5. CASE Due(e, now[t])
  <2>1. /\ ref' = [ref EXCEPT ![e] = @ + 1]
        /\ event' = [event EXCEPT ![t] = e]
        /\ pc' = [pc EXCEPT ![t] = "call"]
        /\ UNCHANGED <<iterator, clock, events, sec, usec, processing, main, length, now,
                       born, runs>>
    BY <1>5 DEF Fetch, Take, GoTo, history, e
  <2>2. e # NULL
    BY <1>2, EventsAssumption
  <2>3. TypeOK'
    BY <1>1, <1>2, <2>1 DEF TypeOK
  <2>4. /\ pc'[t] = "call" /\ event'[t] = e
        /\ \A u \in Threads \ {t} : pc'[u] = pc[u] /\ event'[u] = event[u]
    BY <1>1, <2>1 DEF TypeOK
  <2>5. OneProcessor' /\ FlagOfProcessor'
    BY <1>1, <1>3, <2>1, <2>4 DEF RefInv, OneProcessor, FlagOfProcessor, Active
  <2>6. ThreadShape' /\ Joined'
    BY <1>1, <1>3, <2>1, <2>2, <2>4 DEF RefInv, ThreadShape, Joined, Active
  <2>7. /\ \A f \in Events : InList(f)' <=> InList(f)
        /\ \A f \in Events : ~ Used(f)
        /\ \A f \in Events : Used(f)' <=> f = e
    BY <1>1, <1>2, <1>3, <2>1, <2>4, EventsAssumption DEF InList, Used
  <2>8. Distinct' /\ Unborn'
    BY <1>2, <2>1, <2>7 DEF RefInv, Distinct, Unborn
  <2>9. Counted'
    <3>1. ref'[e] = ref[e] + 1 /\ \A f \in Events \ {e} : ref'[f] = ref[f]
      BY <1>1, <1>2, <2>1 DEF TypeOK
    <3> QED
      BY <1>2, <2>7, <3>1 DEF RefInv, Counted
  <2> QED
    BY <2>3, <2>5, <2>6, <2>8, <2>9 DEF RefInv
<1> QED
  BY <1>4, <1>5

\* The thread gives back its event after the function.
LEMMA Returned ==
  ASSUME RefInv, NEW t \in Threads, pc[t] = "func",
         event' = [event EXCEPT ![t] = NULL], GoTo(t, "fetch"), UNCHANGED <<processing, main>>
  PROVE  /\ (OneProcessor /\ FlagOfProcessor /\ ThreadShape /\ Joined)'
         /\ event[t] \in Events
         /\ \A f \in Events : Used(f) <=> f = event[t]
         /\ \A f \in Events : ~ Used(f)'
<1>1. TypeOK /\ Active(t) /\ event[t] \in Events
  BY DEF RefInv, TypeOK, ThreadShape, Active
<1>2. \A u \in Threads \ {t} : ~ Active(u) /\ event[u] = NULL
  BY <1>1, OneUser
<1>3. /\ pc'[t] = "fetch" /\ event'[t] = NULL
      /\ \A u \in Threads \ {t} : pc'[u] = pc[u] /\ event'[u] = event[u]
  BY <1>1 DEF TypeOK, GoTo
<1>4. OneProcessor' /\ FlagOfProcessor'
  BY <1>1, <1>2, <1>3 DEF RefInv, OneProcessor, FlagOfProcessor, Active
<1>5. ThreadShape' /\ Joined'
  BY <1>1, <1>2, <1>3 DEF RefInv, ThreadShape, Joined, Active
<1>6. \A f \in Events : (Used(f) <=> f = event[t]) /\ ~ Used(f)'
  BY <1>1, <1>2, <1>3, EventsAssumption DEF Used
<1> QED
  BY <1>1, <1>4, <1>5, <1>6

LEMMA KeepStep ==
  ASSUME RefInv, NEW t \in Threads, Keep(t)
  PROVE  RefInv'
<1> DEFINE e == event[t]
<1>1. TypeOK
  BY DEF RefInv
<1>2. /\ (OneProcessor /\ FlagOfProcessor /\ ThreadShape /\ Joined)'
      /\ e \in Events
      /\ \A f \in Events : Used(f) <=> f = e
      /\ \A f \in Events : ~ Used(f)'
  BY Returned DEF Keep
<1>3. sec' \in [Events -> Nat] /\ usec' \in [Events -> Nat]
  <2>1. sec[e] \in Nat /\ usec[e] \in Nat /\ IncreaseStamp(e, sec[e], usec[e])
    BY <1>1, <1>2 DEF TypeOK, Keep
  <2> QED
    BY <1>1, <1>2, <2>1, TypeOfStamp
<1>4. /\ ref[e] = 1 + (IF InList(e) THEN 1 ELSE 0)
      /\ ref'[e] = (IF InList(e) THEN 1 ELSE 0)
      /\ ref' \in [Events -> Nat]
      /\ \A f \in Events \ {e} : ref'[f] = ref[f]
  <2>1. ref[e] = 1 + (IF InList(e) THEN 1 ELSE 0)
    BY <1>2 DEF RefInv, Counted
  <2>2. ref' = [ref EXCEPT ![e] = ref[e] - 1]
    BY <1>1 DEF Keep, Unref
  <2> QED
    BY <1>1, <1>2, <2>1, <2>2 DEF TypeOK
<1>5. TypeOK'
  <2>1. event' \in [Threads -> Events \cup {NULL}] /\ iterator' \in [Threads -> Nat]
    BY <1>1 DEF TypeOK, Keep
  <2>2. pc' \in [Threads -> {"idle", "stamp", "fetch", "call", "func", "end", "joined"}]
    BY <1>1 DEF TypeOK, Keep, GoTo
  <2> QED
    BY <1>1, <1>3, <1>4, <2>1, <2>2 DEF TypeOK, Keep, history
<1>6. \A f \in Events : InList(f)' <=> InList(f)
  BY DEF Keep, InList
<1>7. Distinct' /\ Unborn'
  BY <1>2, <1>6 DEF RefInv, Distinct, Unborn, Keep, history
<1>8. Counted'
  BY <1>2, <1>4, <1>6 DEF RefInv, Counted
<1> QED
  BY <1>2, <1>5, <1>7, <1>8 DEF RefInv

LEMMA DropStep ==
  ASSUME RefInv, NEW t \in Threads, Drop(t)
  PROVE  RefInv'
<1>0. PICK e \in Events : e = event[t]
  BY Returned DEF Drop
<1>1. TypeOK /\ Distinct
  BY DEF RefInv
<1>2. /\ (OneProcessor /\ FlagOfProcessor /\ ThreadShape /\ Joined)'
      /\ \A f \in Events : Used(f) <=> f = e
      /\ \A f \in Events : ~ Used(f)'
  BY <1>0, Returned DEF Drop
<1>3. /\ events' \in Seq(Events)
      /\ Distinct' /\ ~ InList(e)'
      /\ \A f \in Events \ {e} : InList(f)' <=> InList(f)
  <2>1. events' = Without(e)
    BY <1>0 DEF Drop
  <2> QED
    BY <1>1, <2>1, WithoutList
<1>4. /\ ref'[e] = 0
      /\ ref' \in [Events -> Nat]
      /\ \A f \in Events \ {e} : ref'[f] = ref[f]
  <2>1. ref[e] = 1 + (IF InList(e) THEN 1 ELSE 0)
    BY <1>2 DEF RefInv, Counted
  <2>2. ref' = [ref EXCEPT ![e] = ref[e] - (IF InList(e) THEN 2 ELSE 1)]
    BY <1>0, <1>1 DEF Drop, Unref
  <2> QED
    BY <1>1, <1>2, <2>1, <2>2 DEF TypeOK
<1>5. TypeOK'
  <2>1. event' \in [Threads -> Events \cup {NULL}]
    BY <1>1 DEF TypeOK, Drop
  <2>2. pc' \in [Threads -> {"idle", "stamp", "fetch", "call", "func", "end", "joined"}]
    BY <1>1 DEF TypeOK, Drop, GoTo
  <2> QED
    BY <1>1, <1>3, <1>4, <2>1, <2>2 DEF TypeOK, Drop, history
<1>6. Unborn'
  BY <1>2, <1>3 DEF RefInv, Unborn, Drop, history
<1>7. Counted'
  <2>1. \A f \in Events \ {e} : ref[f] = IF InList(f) THEN 1 ELSE 0
    BY <1>2 DEF RefInv, Counted
  <2> QED
    BY <1>2, <1>3, <1>4, <2>1 DEF Counted
<1> QED
  BY <1>2, <1>3, <1>5, <1>6, <1>7 DEF RefInv

LEMMA EndStep ==
  ASSUME RefInv, NEW t \in Threads, End(t)
  PROVE  RefInv'
<1>1. TypeOK /\ Active(t) /\ event[t] = NULL
  BY DEF RefInv, ThreadShape, End, Active
<1>2. \A u \in Threads \ {t} : ~ Active(u)
  BY <1>1, OneUser
<1>3. pc'[t] = "idle" /\ \A u \in Threads \ {t} : pc'[u] = pc[u]
  BY <1>1 DEF End, GoTo, TypeOK
<1>4. TypeOK'
  BY <1>1 DEF TypeOK, End, GoTo, Processing, history
<1>5. OneProcessor' /\ FlagOfProcessor'
  BY <1>2, <1>3 DEF OneProcessor, FlagOfProcessor, Active, End, Processing
<1>6. ThreadShape' /\ Joined'
  BY <1>1, <1>3 DEF RefInv, ThreadShape, Joined, End
<1> QED
  BY <1>4, <1>5, <1>6, SameRefs DEF End, history

LEMMA SetExitStep ==
  ASSUME RefInv, SetExit \/ BeingClosed
  PROVE  RefInv'
<1>1. UNCHANGED <<events, ref, event, born, pc, processing>>
  BY DEF SetExit, BeingClosed, locals, history
<1>2. main # "freed" /\ main' # "freed"
  BY DEF SetExit, BeingClosed
<1>3. TypeOK'
  BY DEF RefInv, TypeOK, SetExit, BeingClosed, locals, history
<1>4. (OneProcessor /\ FlagOfProcessor /\ ThreadShape /\ Joined)'
  BY <1>1, <1>2 DEF RefInv, OneProcessor, FlagOfProcessor, Active, ThreadShape, Joined
<1> QED
  BY <1>1, <1>3, <1>4, SameRefs

LEMMA TickStep ==
  ASSUME RefInv, Tick
  PROVE  RefInv'
<1>1. UNCHANGED <<events, ref, event, born, pc, processing, main>>
  BY DEF Tick, locals, history
<1>2. TypeOK'
  <2>1. clock' \in Nat
    BY DEF RefInv, TypeOK, Tick
  <2> QED
    BY <2>1 DEF RefInv, TypeOK, Tick, locals, history
<1>3. (OneProcessor /\ FlagOfProcessor /\ ThreadShape /\ Joined)'
  BY <1>1 DEF RefInv, OneProcessor, FlagOfProcessor, Active, ThreadShape, Joined
<1> QED
  BY <1>1, <1>2, <1>3, SameRefs

\* Nobody is at the events when the list is freed, so nobody uses one.
LEMMA FreeEventsStep ==
  ASSUME RefInv, FreeEvents
  PROVE  RefInv'
<1>1. TypeOK /\ \A t \in Threads : event[t] = NULL
  BY DEF RefInv, ThreadShape, FreeEvents
<1>2. \A e \in Events : ~ Used(e)
  BY <1>1, EventsAssumption DEF Used
<1>3. \A e \in Events : ref'[e] = 0
  BY <1>2 DEF RefInv, Counted, FreeEvents
<1>4. TypeOK'
  <2>1. ref' \in [Events -> Nat]
    BY <1>3 DEF FreeEvents
  <2>2. events' \in Seq(Events)
    BY DEF FreeEvents
  <2> QED
    BY <1>1, <2>1, <2>2 DEF TypeOK, FreeEvents, locals, history
<1>5. ~ processing
  BY DEF RefInv, FlagOfProcessor, FreeEvents, Active
<1>6. (OneProcessor /\ FlagOfProcessor /\ ThreadShape /\ Joined)'
  BY <1>1, <1>5 DEF OneProcessor, FlagOfProcessor, Active, ThreadShape, Joined, FreeEvents,
                    locals
<1>7. Len(events') = 0
  BY DEF FreeEvents
<1>8. \A e \in Events : ~ InList(e)' /\ ~ Used(e)'
  BY <1>2, <1>7 DEF InList, Used, FreeEvents, locals
<1>9. Distinct' /\ Unborn' /\ Counted'
  BY <1>3, <1>7, <1>8 DEF Distinct, Unborn, Counted
<1> QED
  BY <1>4, <1>6, <1>9 DEF RefInv

LEMMA RefInvNext == RefInv /\ [Next]_vars => RefInv'
<1> SUFFICES ASSUME RefInv, [Next]_vars PROVE RefInv'
  OBVIOUS
<1>1. ASSUME NEW e \in Events, NewEvent(e) \/ RemoveEvent(e) PROVE RefInv'
  BY <1>1, NewEventStep, RemoveEventStep
<1>2. ASSUME NEW t \in Threads, Begin(t) \/ ProcessEvents(t) PROVE RefInv'
  BY <1>2, BeginStep, StampStep, FetchStep, NoMoreStep, CallStep, KeepStep, DropStep, EndStep
     DEF ProcessEvents
<1>3. CASE SetExit \/ BeingClosed
  BY <1>3, SetExitStep
<1>4. CASE FreeEvents
  BY <1>4, FreeEventsStep
<1>5. CASE Tick
  BY <1>5, TickStep
<1>6. CASE UNCHANGED vars
  <2>1. UNCHANGED <<events, ref, event, born, pc, processing, main>>
    BY <1>6 DEF vars, locals, history
  <2>2. TypeOK'
    BY <1>6 DEF RefInv, TypeOK, vars, locals, history
  <2>3. (OneProcessor /\ FlagOfProcessor /\ ThreadShape /\ Joined)'
    BY <2>1 DEF RefInv, OneProcessor, FlagOfProcessor, Active, ThreadShape, Joined
  <2> QED
    BY <2>1, <2>2, <2>3, SameRefs
<1> QED
  BY <1>1, <1>2, <1>3, <1>4, <1>5, <1>6 DEF Next

LEMMA RefInvAlways == Spec => []RefInv
<1> QED
  BY RefInvInit, RefInvNext, PTL DEF Spec

-----------------------------------------------------------------------------
(* The theorems about references and threads.                               *)

\* An event is referenced by the list and by the thread at its function, and by nothing
\* else, for any number of threads and events (valvula_thread_pool.c:114-225).
THEOREM EventsAreHeld == Spec => []EventRefs
<1>1. RefInv => EventRefs
  <2> SUFFICES ASSUME RefInv, NEW e \in Events
               PROVE  ref[e] = Cardinality(Holders(e)) + IF InList(e) THEN 1 ELSE 0
    BY DEF EventRefs
  <2>1. CASE ~ Used(e)
    <3>1. Holders(e) = {}
      BY <2>1 DEF Holders, Used
    <3>2. Cardinality(Holders(e)) = 0
      BY <3>1, FS_EmptySet
    <3> QED
      BY <2>1, <3>2 DEF RefInv, Counted
  <2>2. CASE Used(e)
    <3>1. PICK t \in Threads : event[t] = e
      BY <2>2 DEF Used
    <3>2. pc[t] \in {"call", "func"}
      BY <3>1, EventsAssumption DEF RefInv, ThreadShape
    <3>3. \A u \in Threads \ {t} : event[u] = NULL
      BY <3>2, OneUser DEF Active
    <3>4. Holders(e) = {t}
      BY <3>1, <3>3, EventsAssumption DEF Holders
    <3>5. Cardinality(Holders(e)) = 1
      BY <3>4, FS_Singleton
    <3> QED
      BY <2>2, <3>5 DEF RefInv, Counted
  <2> QED
    BY <2>1, <2>2
<1> QED
  BY <1>1, RefInvAlways, PTL

\* The unlocked function of an event never has two threads at the events
\* (valvula_thread_pool.c:135-145, 220-223).
THEOREM OneAtATime == Spec => []OneProcessor
<1>1. RefInv => OneProcessor
  BY DEF RefInv
<1> QED
  BY <1>1, RefInvAlways, PTL

-----------------------------------------------------------------------------
(* The moments.                                                             *)

\* What NeverEarly compares with the clock, and the moment an event is due.
Bound(e)  == born[e] + runs[e] * Delay[e]
Moment(e) == sec[e] * Second + usec[e]

\* The function of the event runs: it was called, and is not yet due again.
Called(e) == \E t \in Threads : pc[t] = "func" /\ event[t] = e

MomentInv ==
    /\ \A e \in Events : InList(e) \/ Used(e) => usec[e] < Second
    /\ \A e \in Events : InList(e) /\ ~ Called(e) => Bound(e) + Delay[e] <= Moment(e)
    /\ \A t \in Threads : now[t] <= clock
    /\ \A t \in Threads :
           pc[t] = "call" => /\ Bound(event[t]) + Delay[event[t]] <= Moment(event[t])
                             /\ Moment(event[t]) <= clock
    /\ \A t \in Threads : pc[t] = "func" => Bound(event[t]) <= Moment(event[t])
    /\ \A e \in Events : runs[e] > 0 => born[e] # NULL /\ Bound(e) <= clock

LEMMA TimesMonotone ==
  ASSUME NEW a \in Nat, NEW b \in Nat, NEW s \in Nat, a >= b
  PROVE  a * s >= b * s
<1>1. PICK k \in Nat : a = b + k
  <2>1. a - b \in Nat /\ a = b + (a - b)
    OBVIOUS
  <2> QED
    BY <2>1
<1>2. (b + k) * s = b * s + k * s
  OBVIOUS
<1>3. b * s \in Nat /\ k * s \in Nat
  OBVIOUS
<1> QED
  BY <1>1, <1>2, <1>3

LEMMA Division ==
  ASSUME NEW n \in Nat, NEW s \in Nat \ {0}
  PROVE  /\ n \div s \in Nat /\ n % s \in 0..(s - 1)
         /\ n = (n \div s) * s + (n % s)
<1>1. n \div s \in Nat /\ n % s \in 0..(s - 1)
  OBVIOUS
<1>2. n = (s * (n \div s)) + (n % s)
  OBVIOUS
<1> QED
  BY <1>1, <1>2

\* The stamp moves on by exactly the delay, whatever fractions there are; a delay of a
\* second or less could lose a second when the fractions add up to exactly one.
LEMMA IncreasedStamp ==
  ASSUME TypeOK, NEW e \in Events, NEW s \in Nat, NEW u \in Nat, IncreaseStamp(e, s, u)
  PROVE  /\ usec'[e] < Second
         /\ sec'[e] * Second + usec'[e] = (s * Second + u) + Delay[e]
         /\ \A f \in Events \ {e} : sec'[f] = sec[f] /\ usec'[f] = usec[f]
<1> DEFINE n == u + Delay[e]
<1>1. Second \in Nat \ {0} /\ Delay[e] \in Nat /\ Delay[e] > Second
  BY EventsAssumption, DelayAssumption
<1>2. n \in Nat /\ n > Second
  BY <1>1
<1>3. sec'[e] = s + Carry(u, Delay[e]) /\ usec'[e] = n % Second
  BY DEF IncreaseStamp, TypeOK
<1>4. Carry(u, Delay[e]) = n \div Second
  BY <1>2 DEF Carry
<1> HIDE DEF n
<1>5. n \div Second \in Nat /\ n % Second \in 0..(Second - 1)
      /\ n = (n \div Second) * Second + (n % Second)
  BY <1>1, <1>2, Division
<1>6. sec'[e] * Second = s * Second + (n \div Second) * Second
  BY <1>1, <1>3, <1>4, <1>5
<1>7. n = u + Delay[e]
  BY DEF n
<1>8. sec'[e] * Second + usec'[e] = (s * Second + u) + Delay[e]
  <2> DEFINE before == s * Second
             whole  == (n \div Second) * Second
             rest   == n % Second
  <2>1. before \in Nat /\ whole \in Nat /\ rest \in Nat
    BY <1>1, <1>5
  <2>2. sec'[e] * Second = before + whole /\ usec'[e] = rest
    BY <1>3, <1>6
  <2>3. whole + rest = u + Delay[e]
    BY <1>5, <1>7
  <2> HIDE DEF before, whole, rest
  <2>4. (before + whole) + rest = (before + u) + Delay[e]
    BY <1>1, <2>1, <2>3
  <2> QED
    BY <2>2, <2>4 DEF before
<1>9. usec'[e] < Second
  BY <1>1, <1>3, <1>5
<1>10. \A f \in Events \ {e} : sec'[f] = sec[f] /\ usec'[f] = usec[f]
  BY DEF IncreaseStamp, TypeOK
<1> QED
  BY <1>8, <1>9, <1>10

\* An event that is due at n has its moment at or before n.
LEMMA DueMoment ==
  ASSUME TypeOK, NEW e \in Events, NEW n \in Nat, usec[e] < Second, Due(e, n)
  PROVE  Moment(e) <= n
<1>1. Second \in Nat \ {0} /\ sec[e] \in Nat /\ usec[e] \in Nat
  BY EventsAssumption DEF TypeOK
<1>2. n \div Second \in Nat /\ n % Second \in 0..(Second - 1)
      /\ n = (n \div Second) * Second + (n % Second)
  BY <1>1, Division
<1>3. CASE n \div Second = sec[e] /\ n % Second >= usec[e]
  BY <1>1, <1>2, <1>3 DEF Moment
<1>4. CASE n \div Second > sec[e]
  <2>1. n \div Second >= sec[e] + 1
    BY <1>1, <1>2, <1>4
  <2>2. (n \div Second) * Second >= (sec[e] + 1) * Second
    <3>1. sec[e] + 1 \in Nat /\ n \div Second \in Nat /\ Second \in Nat
      BY <1>1, <1>2
    <3> QED
      BY <2>1, <3>1, TimesMonotone
  <2>3. (sec[e] + 1) * Second = sec[e] * Second + Second
    BY <1>1
  <2>4. sec[e] * Second \in Nat /\ (n \div Second) * Second \in Nat
    BY <1>1, <1>2
  <2> QED
    BY <1>1, <1>2, <2>2, <2>3, <2>4 DEF Moment
<1> QED
  BY <1>3, <1>4 DEF Due

\* The numbers that are compared.
LEMMA TypeOfMoments ==
  ASSUME TypeOK, NEW e \in Events
  PROVE  /\ Moment(e) \in Nat /\ Delay[e] \in Nat
         /\ born[e] # NULL => Bound(e) \in Nat
<1>1. Second \in Nat /\ sec[e] \in Nat /\ usec[e] \in Nat /\ Delay[e] \in Nat
      /\ runs[e] \in Nat /\ born[e] \in Nat \cup {NULL}
  BY EventsAssumption DEF TypeOK
<1>2. sec[e] * Second \in Nat /\ runs[e] * Delay[e] \in Nat
  BY <1>1
<1> QED
  BY <1>1, <1>2 DEF Moment, Bound

LEMMA MomentInvInit == Init => MomentInv
<1> SUFFICES ASSUME Init PROVE MomentInv
  OBVIOUS
<1>1. \A e \in Events : ~ InList(e) /\ ~ Used(e)
  BY EventsAssumption DEF Init, InList, Used
<1>2. /\ \A t \in Threads : pc[t] = "idle" /\ now[t] <= clock
      /\ \A e \in Events : runs[e] = 0
  BY DEF Init
<1> QED
  BY <1>1, <1>2 DEF MomentInv

\* A step that changes nothing an event is due by, nor who is at its function.
LEMMA SameMoments ==
  ASSUME RefInv, MomentInv, UNCHANGED <<events, event, sec, usec, born, runs>>,
         clock' \in Nat, clock <= clock',
         \A t \in Threads : now'[t] <= clock',
         \A t \in Threads : pc'[t] \in {"call", "func"} => pc'[t] = pc[t],
         \A t \in Threads : pc[t] = "func" => pc'[t] = "func"
  PROVE  MomentInv'
<1>1. TypeOK
  BY DEF RefInv
<1>2. \A e \in Events : /\ (InList(e)' <=> InList(e)) /\ (Used(e)' <=> Used(e))
                        /\ (Called(e)' <=> Called(e))
  BY DEF InList, Used, Called
<1>3. \A e \in Events : Bound(e)' = Bound(e) /\ Moment(e)' = Moment(e)
  BY DEF Bound, Moment
<1>4. \A t \in Threads : pc[t] \in {"call", "func"} => event[t] \in Events
  BY DEF RefInv, ThreadShape, TypeOK
<1>5. clock \in Nat
  BY <1>1 DEF TypeOK
<1>6. \A e \in Events : Moment(e) \in Nat /\ (born[e] # NULL => Bound(e) \in Nat)
  BY <1>1, TypeOfMoments
<1>7. \A e \in Events : InList(e)' \/ Used(e)' => usec'[e] < Second
  BY <1>2 DEF MomentInv
<1>8. \A e \in Events : InList(e)' /\ ~ Called(e)' => Bound(e)' + Delay[e] <= Moment(e)'
  BY <1>2, <1>3 DEF MomentInv
<1>10. ASSUME NEW t \in Threads, pc'[t] = "call"
       PROVE  /\ Bound(event[t])' + Delay[event[t]] <= Moment(event[t])'
              /\ Moment(event[t])' <= clock'
  <2>1. PICK e \in Events : e = event[t] /\ e = event'[t]
    BY <1>4, <1>10
  <2>2. Bound(e) + Delay[e] <= Moment(e) /\ Moment(e) <= clock
    BY <1>10, <2>1 DEF MomentInv
  <2>3. Bound(e)' + Delay[e] <= Moment(e)' /\ Moment(e)' <= clock'
    BY <1>3, <1>5, <1>6, <2>2
  <2> QED
    BY <2>1, <2>3 DEF Bound, Moment
<1>11. ASSUME NEW t \in Threads, pc'[t] = "func"
       PROVE  Bound(event[t])' <= Moment(event[t])'
  <2>1. PICK e \in Events : e = event[t] /\ e = event'[t]
    BY <1>4, <1>11
  <2>2. Bound(e) <= Moment(e)
    BY <1>11, <2>1 DEF MomentInv
  <2> QED
    BY <1>3, <2>1, <2>2 DEF Bound, Moment
<1>12. \A e \in Events : runs'[e] > 0 => born'[e] # NULL /\ Bound(e)' <= clock'
  BY <1>3, <1>5, <1>6 DEF MomentInv
<1> QED
  BY <1>7, <1>8, <1>10, <1>11, <1>12 DEF MomentInv

\* What a step does that calls nothing and takes nothing.
LEMMA QuietStep ==
  ASSUME RefInv, MomentInv,
         \/ \E t \in Threads : Begin(t) \/ Stamp(t) \/ NoMore(t) \/ End(t)
         \/ SetExit \/ BeingClosed \/ Tick \/ UNCHANGED vars
  PROVE  MomentInv'
<1>1. TypeOK /\ clock \in Nat
  BY DEF RefInv, TypeOK
<1>2. ASSUME NEW t \in Threads, Begin(t) \/ Stamp(t) \/ NoMore(t) \/ End(t)
      PROVE  MomentInv'
  <2>1. /\ UNCHANGED <<clock, events, event, sec, usec, born, runs>>
        /\ pc[t] \notin {"call", "func"}
    BY <1>2 DEF Begin, Stamp, NoMore, End, locals, history
  <2>2. /\ pc'[t] \notin {"call", "func"}
        /\ \A u \in Threads \ {t} : pc'[u] = pc[u]
    BY <1>1, <1>2 DEF Begin, Stamp, NoMore, End, GoTo, TypeOK
  <2>3. \A u \in Threads \ {t} : now'[u] = now[u]
    BY <1>1, <1>2 DEF Begin, Stamp, NoMore, End, locals, TypeOK
  <2>4. now'[t] \in {0, now[t], clock}
    BY <1>1, <1>2 DEF Begin, Stamp, NoMore, End, locals, TypeOK
  <2>5. \A u \in Threads : now'[u] <= clock'
    BY <1>1, <2>1, <2>2, <2>3, <2>4 DEF MomentInv
  <2> QED
    BY <1>1, <2>1, <2>2, <2>5, SameMoments
<1>3. CASE SetExit \/ BeingClosed \/ UNCHANGED vars
  <2>1. UNCHANGED <<clock, events, event, sec, usec, born, runs, now, pc>>
    BY <1>3 DEF SetExit, BeingClosed, vars, locals, history
  <2>2. \A t \in Threads : now'[t] <= clock'
    BY <2>1 DEF MomentInv
  <2> QED
    BY <1>1, <2>1, <2>2, SameMoments
<1>4. CASE Tick
  <2>1. /\ UNCHANGED <<events, event, sec, usec, born, runs, now, pc>>
        /\ clock' \in Nat /\ clock <= clock'
    BY <1>1, <1>4 DEF Tick, locals, history
  <2>2. \A t \in Threads : now[t] \in Nat
    BY <1>1 DEF TypeOK
  <2>3. \A t \in Threads : now'[t] <= clock'
    BY <1>1, <2>1, <2>2 DEF MomentInv
  <2> QED
    BY <2>1, <2>3, SameMoments
<1> QED
  BY <1>2, <1>3, <1>4

\* What is left to show when the list is emptied or an event leaves it.
LEMMA RemoveEventMoments ==
  ASSUME RefInv, MomentInv, FreeEvents \/ \E e \in Events : RemoveEvent(e)
  PROVE  MomentInv'
<1>1. UNCHANGED <<clock, event, sec, usec, born, runs, now>>
  BY DEF FreeEvents, RemoveEvent, locals, history
<1>2. \A t \in Threads : pc'[t] # "joined" => pc'[t] = pc[t]
  BY DEF FreeEvents, RemoveEvent
<1>3. \A f \in Events : InList(f)' => InList(f)
  <2>1. CASE FreeEvents
    <3>1. Len(events') = 0
      BY <2>1 DEF FreeEvents
    <3> QED
      BY <3>1 DEF InList
  <2>2. ASSUME NEW e \in Events, RemoveEvent(e)
        PROVE  \A f \in Events : InList(f)' => InList(f)
    <3>1. events' = Without(e) /\ TypeOK /\ Distinct
      BY <2>2 DEF RemoveEvent, RefInv
    <3> QED
      BY <3>1, WithoutList
  <2> QED
    BY <2>1, <2>2
<1>4. \A f \in Events : (Used(f)' <=> Used(f)) /\ (Called(f)' <=> Called(f))
  <2>1. CASE FreeEvents
    <3>1. \A t \in Threads : pc[t] # "func" /\ pc'[t] # "func"
      BY <2>1 DEF FreeEvents
    <3> QED
      BY <1>1, <3>1 DEF Used, Called
  <2>2. CASE \E e \in Events : RemoveEvent(e)
    <3>1. pc' = pc
      BY <2>2 DEF RemoveEvent
    <3> QED
      BY <1>1, <3>1 DEF Used, Called
  <2> QED
    BY <2>1, <2>2
<1>5. \A f \in Events : InList(f)' \/ Used(f)' => usec'[f] < Second
  BY <1>1, <1>3, <1>4 DEF MomentInv
<1>6. \A f \in Events : InList(f)' /\ ~ Called(f)' => Bound(f)' + Delay[f] <= Moment(f)'
  BY <1>1, <1>3, <1>4 DEF MomentInv, Bound, Moment
<1>7. \A t \in Threads : pc'[t] \in {"fetch", "call", "func"} => pc'[t] = pc[t]
  BY <1>2
<1>8. /\ \A t \in Threads : now'[t] <= clock'
      /\ \A t \in Threads :
            pc'[t] = "call" => /\ Bound(event[t])' + Delay[event'[t]] <= Moment(event[t])'
                               /\ Moment(event[t])' <= clock'
      /\ \A t \in Threads : pc'[t] = "func" => Bound(event[t])' <= Moment(event[t])'
  BY <1>1, <1>7 DEF MomentInv, Bound, Moment
<1>9. \A f \in Events : runs'[f] > 0 => born'[f] # NULL /\ Bound(f)' <= clock'
  BY <1>1 DEF MomentInv, Bound
<1> QED
  BY <1>5, <1>6, <1>8, <1>9 DEF MomentInv

\* The moments of the others are what they were, and so are the threads.
LEMMA OtherMoments ==
  ASSUME RefInv, MomentInv, NEW e \in Events, ~ Used(e),
         UNCHANGED <<clock, pc, event, now>>,
         \A f \in Events \ {e} : /\ sec'[f] = sec[f] /\ usec'[f] = usec[f]
                                 /\ born'[f] = born[f] /\ runs'[f] = runs[f]
                                 /\ InList(f)' <=> InList(f),
         InList(e)' => usec'[e] < Second /\ Bound(e)' + Delay[e] <= Moment(e)',
         runs'[e] > 0 => born'[e] # NULL /\ Bound(e)' <= clock
  PROVE  MomentInv'
<1>1. \A f \in Events : (Used(f)' <=> Used(f)) /\ (Called(f)' <=> Called(f))
  BY DEF Used, Called
<1>2. \A f \in Events \ {e} : Bound(f)' = Bound(f) /\ Moment(f)' = Moment(f)
  BY DEF Bound, Moment
<1>3. \A t \in Threads : pc[t] \in {"call", "func"} => event[t] \in Events \ {e}
  BY DEF RefInv, ThreadShape, TypeOK, Used
<1>4. \A f \in Events : InList(f)' \/ Used(f)' => usec'[f] < Second
  BY <1>1 DEF MomentInv
<1>5. \A f \in Events : InList(f)' /\ ~ Called(f)' => Bound(f)' + Delay[f] <= Moment(f)'
  BY <1>1, <1>2 DEF MomentInv
<1>6. ASSUME NEW t \in Threads, pc'[t] = "call"
      PROVE  /\ Bound(event[t])' + Delay[event'[t]] <= Moment(event[t])'
             /\ Moment(event[t])' <= clock'
  <2>1. PICK f \in Events \ {e} : f = event[t] /\ f = event'[t]
    BY <1>3, <1>6
  <2>2. Bound(f)' + Delay[f] <= Moment(f)' /\ Moment(f)' <= clock'
    BY <1>2, <1>6, <2>1 DEF MomentInv
  <2> QED
    BY <2>1, <2>2 DEF Bound, Moment
<1>7. ASSUME NEW t \in Threads, pc'[t] = "func"
      PROVE  Bound(event[t])' <= Moment(event[t])'
  <2>1. PICK f \in Events \ {e} : f = event[t] /\ f = event'[t]
    BY <1>3, <1>7
  <2>2. Bound(f)' <= Moment(f)'
    BY <1>2, <1>7, <2>1 DEF MomentInv
  <2> QED
    BY <2>1, <2>2 DEF Bound, Moment
<1>8. \A f \in Events : runs'[f] > 0 => born'[f] # NULL /\ Bound(f)' <= clock'
  BY <1>2 DEF MomentInv
<1>9. \A t \in Threads : now'[t] <= clock'
  BY DEF MomentInv
<1> QED
  BY <1>4, <1>5, <1>6, <1>7, <1>8, <1>9 DEF MomentInv

LEMMA NewEventMoments ==
  ASSUME RefInv, MomentInv, NEW e \in Events, NewEvent(e)
  PROVE  MomentInv'
<1>1. TypeOK /\ Distinct /\ ~ InList(e) /\ ~ Used(e) /\ clock \in Nat
      /\ born[e] = NULL /\ runs[e] \in Nat
  BY DEF RefInv, Unborn, NewEvent, TypeOK
<1>2. InList(e)' /\ \A f \in Events \ {e} : InList(f)' <=> InList(f)
  BY <1>1, InsertedList DEF NewEvent
<1>3. runs[e] = 0 /\ runs' = runs
  BY <1>1 DEF MomentInv, NewEvent
<1>4. born'[e] = clock /\ \A f \in Events \ {e} : born'[f] = born[f]
  BY <1>1 DEF NewEvent, TypeOK
<1>5. Second \in Nat \ {0} /\ Delay[e] \in Nat
  BY EventsAssumption
<1>6. clock \div Second \in Nat /\ clock % Second \in Nat
      /\ clock = (clock \div Second) * Second + (clock % Second)
  <2>1. clock \in Nat /\ Second \in Nat \ {0}
    BY <1>1, <1>5
  <2>2. clock \div Second \in Nat /\ clock % Second \in 0..(Second - 1)
        /\ clock = (clock \div Second) * Second + (clock % Second)
    BY <2>1, Division
  <2> QED
    BY <2>1, <2>2
<1>7. IncreaseStamp(e, clock \div Second, clock % Second)
  BY DEF NewEvent
<1>8. /\ usec'[e] < Second
      /\ sec'[e] * Second + usec'[e]
             = ((clock \div Second) * Second + (clock % Second)) + Delay[e]
      /\ \A f \in Events \ {e} : sec'[f] = sec[f] /\ usec'[f] = usec[f]
  BY <1>1, <1>6, <1>7, IncreasedStamp
<1>9. Moment(e)' = clock + Delay[e]
  BY <1>6, <1>8 DEF Moment
<1>10. Bound(e)' = clock
  <2>1. 0 * Delay[e] = 0
    BY <1>5
  <2> QED
    BY <1>1, <1>3, <1>4, <2>1 DEF Bound
<1>11. UNCHANGED <<clock, pc, event, now>>
  BY DEF NewEvent, locals
<1>12. InList(e)' => usec'[e] < Second /\ Bound(e)' + Delay[e] <= Moment(e)'
  BY <1>1, <1>5, <1>8, <1>9, <1>10
<1>13. ~ (runs'[e] > 0)
  BY <1>3
<1> QED
  BY <1>1, <1>2, <1>3, <1>4, <1>8, <1>11, <1>12, <1>13, OtherMoments

\* The state of a step of the one thread at the events: the others have no part in it.
LEMMA OneThreadMoments ==
  ASSUME RefInv, MomentInv, NEW t \in Threads, Active(t), NEW e \in Events,
         UNCHANGED <<clock, born>>,
         \A u \in Threads \ {t} : pc'[u] = pc[u],
         \A f \in Events \ {e} : /\ sec'[f] = sec[f] /\ usec'[f] = usec[f]
                                 /\ runs'[f] = runs[f] /\ (InList(f)' => InList(f))
                                 /\ (Used(f)' => Used(f)) /\ ~ Called(f),
         InList(e)' \/ Used(e)' => usec'[e] < Second,
         InList(e)' /\ ~ Called(e)' => Bound(e)' + Delay[e] <= Moment(e)',
         \A u \in Threads : now'[u] <= clock,
         pc'[t] = "call" => /\ event'[t] = e
                            /\ Bound(e)' + Delay[e] <= Moment(e)' /\ Moment(e)' <= clock,
         pc'[t] = "func" => event'[t] = e /\ Bound(e)' <= Moment(e)',
         runs'[e] > 0 => born[e] # NULL /\ Bound(e)' <= clock
  PROVE  MomentInv'
<1>1. \A u \in Threads \ {t} : pc'[u] \notin {"fetch", "call", "func"}
  BY OneUser DEF Active
<1>2. \A f \in Events \ {e} : Bound(f)' = Bound(f) /\ Moment(f)' = Moment(f)
  BY DEF Bound, Moment
<1>3. \A f \in Events : InList(f)' \/ Used(f)' => usec'[f] < Second
  BY DEF MomentInv
<1>4. \A f \in Events : InList(f)' /\ ~ Called(f)' => Bound(f)' + Delay[f] <= Moment(f)'
  BY <1>2 DEF MomentInv
<1>5. \A u \in Threads : now'[u] <= clock'
  OBVIOUS
<1>6. ASSUME NEW u \in Threads, pc'[u] = "call"
      PROVE  /\ Bound(event[u])' + Delay[event'[u]] <= Moment(event[u])'
             /\ Moment(event[u])' <= clock'
  <2>1. u = t /\ event'[u] = e
    BY <1>1, <1>6
  <2>2. Bound(e)' + Delay[e] <= Moment(e)' /\ Moment(e)' <= clock'
    BY <1>6, <2>1
  <2> QED
    BY <2>1, <2>2 DEF Bound, Moment
<1>7. ASSUME NEW u \in Threads, pc'[u] = "func"
      PROVE  Bound(event[u])' <= Moment(event[u])'
  <2>1. u = t /\ event'[u] = e
    BY <1>1, <1>7
  <2>2. Bound(e)' <= Moment(e)'
    BY <1>7, <2>1
  <2> QED
    BY <2>1, <2>2 DEF Bound, Moment
<1>8. \A f \in Events : runs'[f] > 0 => born'[f] # NULL /\ Bound(f)' <= clock'
  BY <1>2 DEF MomentInv
<1> QED
  BY <1>3, <1>4, <1>5, <1>6, <1>7, <1>8 DEF MomentInv

\* A thread at the list has no event yet, so no function runs.
LEMMA FetchMoments ==
  ASSUME RefInv, MomentInv, NEW t \in Threads, Fetch(t)
  PROVE  MomentInv'
<1>1. TypeOK /\ Active(t) /\ event[t] = NULL /\ pc[t] = "fetch" /\ clock \in Nat
  BY DEF RefInv, ThreadShape, Fetch, Active, TypeOK
<1>2. PICK e \in Events : e = events[iterator[t] + 1] /\ InList(e)
  <2>1. iterator[t] + 1 \in 1..Len(events)
    <3>1. iterator[t] \in Nat /\ Len(events) \in Nat /\ iterator[t] < Len(events)
      BY <1>1 DEF Fetch, TypeOK
    <3> QED
      BY <3>1
  <2> QED
    BY <1>1, <2>1 DEF InList, TypeOK
<1>3. \A u \in Threads \ {t} : ~ Active(u) /\ event[u] = NULL
  BY <1>1, OneUser
<1>4. UNCHANGED <<clock, events, sec, usec, now, born, runs>>
  BY DEF Fetch, history
<1>5. CASE ~ Due(e, now[t])
  <2>1. pc' = pc /\ event' = event
    BY <1>2, <1>5 DEF Fetch
  <2>2. \A u \in Threads : now'[u] <= clock'
    BY <1>4 DEF MomentInv
  <2> QED
    BY <1>1, <1>4, <2>1, <2>2, SameMoments
<1>6. CASE Due(e, now[t])
  <2>1. /\ pc'[t] = "call" /\ event'[t] = e
        /\ \A u \in Threads \ {t} : pc'[u] = pc[u] /\ event'[u] = event[u]
    BY <1>1, <1>2, <1>6 DEF Fetch, GoTo, TypeOK
  <2>2. \A f \in Events : ~ Called(f)
    BY <1>1, <1>3 DEF Called, Active
  <2>3. \A f \in Events \ {e} : Used(f)' => Used(f)
    BY <2>1 DEF Used
  <2>4. \A f \in Events : InList(f)' <=> InList(f)
    BY <1>4 DEF InList
  <2>5. usec[e] < Second /\ Bound(e) + Delay[e] <= Moment(e)
    BY <1>2, <2>2 DEF MomentInv
  <2>6. Moment(e) <= now[t] /\ now[t] <= clock /\ now[t] \in Nat
    BY <1>1, <1>6, <2>5, DueMoment DEF MomentInv, TypeOK
  <2>7. Moment(e) \in Nat
    BY <1>1, TypeOfMoments
  <2>8. Moment(e) <= clock
    BY <1>1, <2>6, <2>7
  <2>9. Bound(e)' = Bound(e) /\ Moment(e)' = Moment(e)
    BY <1>4 DEF Bound, Moment
  <2>10. runs'[e] > 0 => born[e] # NULL /\ Bound(e)' <= clock
    BY <1>4, <2>9 DEF MomentInv
  <2>11. \A u \in Threads : now'[u] <= clock
    BY <1>4 DEF MomentInv
  <2> QED
    BY <1>1, <1>4, <2>1, <2>2, <2>3, <2>4, <2>5, <2>8, <2>9, <2>10, <2>11, OneThreadMoments
<1> QED
  BY <1>5, <1>6

\* Who else is where, while a thread has its event.
LEMMA OneEvent ==
  ASSUME RefInv, NEW t \in Threads, pc[t] \in {"call", "func"}
  PROVE  /\ Active(t) /\ event[t] \in Events
         /\ \A f \in Events \ {event[t]} : ~ Used(f) /\ ~ Called(f)
<1>1. Active(t) /\ event[t] \in Events
  BY DEF RefInv, ThreadShape, Active, TypeOK
<1>2. \A u \in Threads \ {t} : event[u] = NULL
  BY <1>1, OneUser
<1> QED
  BY <1>1, <1>2, EventsAssumption DEF Used, Called

\* A call counts, and one more delay still lies within the moment it was due.
LEMMA CallMoments ==
  ASSUME RefInv, MomentInv, NEW t \in Threads, Call(t)
  PROVE  MomentInv'
<1>1. TypeOK /\ pc[t] = "call"
  BY DEF RefInv, Call
<1>2. PICK e \in Events : e = event[t]
  BY <1>1, OneEvent
<1>3. Active(t) /\ \A f \in Events \ {e} : ~ Used(f) /\ ~ Called(f)
  BY <1>1, <1>2, OneEvent
<1>4. UNCHANGED <<clock, events, sec, usec, now, event, born>>
  BY DEF Call, locals
<1>5. /\ pc'[t] = "func" /\ \A u \in Threads \ {t} : pc'[u] = pc[u]
      /\ runs'[e] = runs[e] + 1 /\ \A f \in Events \ {e} : runs'[f] = runs[f]
  BY <1>1, <1>2 DEF Call, GoTo, TypeOK
<1>6. \A f \in Events : (InList(f)' <=> InList(f)) /\ (Used(f)' <=> Used(f))
  BY <1>4 DEF InList, Used
<1>7. Used(e) /\ usec'[e] < Second
  BY <1>2, <1>4 DEF Used, MomentInv
<1>8. born[e] # NULL
  BY <1>7 DEF RefInv, Unborn
<1>9. Bound(e)' = Bound(e) + Delay[e]
  <2>1. runs[e] \in Nat /\ Delay[e] \in Nat /\ born[e] \in Nat
    BY <1>1, <1>8, EventsAssumption DEF TypeOK
  <2>2. (runs[e] + 1) * Delay[e] = runs[e] * Delay[e] + Delay[e]
    BY <2>1
  <2>3. runs[e] * Delay[e] \in Nat
    BY <2>1
  <2> DEFINE before == runs[e] * Delay[e]
  <2> HIDE DEF before
  <2>4. born[e] + (before + Delay[e]) = (born[e] + before) + Delay[e]
    BY <2>1, <2>3 DEF before
  <2> QED
    BY <1>4, <1>5, <2>2, <2>4 DEF Bound, before
<1>10. Bound(e) + Delay[e] <= Moment(e) /\ Moment(e) <= clock
  BY <1>1, <1>2 DEF MomentInv
<1>11. Moment(e)' = Moment(e)
  BY <1>4 DEF Moment
<1>12. Moment(e) \in Nat /\ Bound(e) + Delay[e] \in Nat /\ clock \in Nat
  <2>1. Moment(e) \in Nat /\ Delay[e] \in Nat /\ Bound(e) \in Nat
    BY <1>1, <1>8, TypeOfMoments
  <2> QED
    BY <1>1, <2>1 DEF TypeOK
<1>13. Bound(e)' <= Moment(e)' /\ Bound(e)' <= clock
  BY <1>9, <1>10, <1>11, <1>12
<1>14. Called(e)'
  BY <1>2, <1>4, <1>5 DEF Called
<1>15. \A u \in Threads : now'[u] <= clock
  BY <1>4 DEF MomentInv
<1>16. event'[t] = e /\ ~ (pc'[t] = "call") /\ ~ (pc'[t] = "fetch")
  BY <1>2, <1>4, <1>5
<1> QED
  BY <1>3, <1>4, <1>5, <1>6, <1>7, <1>8, <1>13, <1>14, <1>15, <1>16, OneThreadMoments

\* The moment of an event that stays moves on by its delay.
LEMMA KeepMoments ==
  ASSUME RefInv, MomentInv, NEW t \in Threads, Keep(t)
  PROVE  MomentInv'
<1>1. TypeOK /\ pc[t] = "func"
  BY DEF RefInv, Keep
<1>2. PICK e \in Events : e = event[t]
  BY <1>1, OneEvent
<1>3. Active(t) /\ \A f \in Events \ {e} : ~ Used(f) /\ ~ Called(f)
  BY <1>1, <1>2, OneEvent
<1>4. UNCHANGED <<clock, events, now, born, runs>>
  BY DEF Keep, history
<1>5. /\ pc'[t] = "fetch" /\ \A u \in Threads \ {t} : pc'[u] = pc[u]
      /\ \A f \in Events : Used(f)' => Used(f)
  <2>1. \A f \in Events : ~ Used(f)'
    BY Returned DEF Keep
  <2> QED
    BY <1>1, <2>1 DEF Keep, GoTo, TypeOK
<1>6. \A f \in Events : InList(f)' <=> InList(f)
  BY <1>4 DEF InList
<1>7. sec[e] \in Nat /\ usec[e] \in Nat /\ IncreaseStamp(e, sec[e], usec[e])
  BY <1>1, <1>2 DEF Keep, TypeOK
<1>8. /\ usec'[e] < Second
      /\ sec'[e] * Second + usec'[e] = (sec[e] * Second + usec[e]) + Delay[e]
      /\ \A f \in Events \ {e} : sec'[f] = sec[f] /\ usec'[f] = usec[f]
  BY <1>1, <1>7, IncreasedStamp
<1>9. Moment(e)' = Moment(e) + Delay[e] /\ Bound(e)' = Bound(e)
  BY <1>4, <1>8 DEF Moment, Bound
<1>10. Bound(e) <= Moment(e)
  BY <1>1, <1>2 DEF MomentInv
<1>11. Used(e) /\ born[e] # NULL
  BY <1>2 DEF Used, RefInv, Unborn
<1>12. Bound(e) \in Nat /\ Moment(e) \in Nat /\ Delay[e] \in Nat
  BY <1>1, <1>11, TypeOfMoments
<1>13. Bound(e)' + Delay[e] <= Moment(e)'
  BY <1>9, <1>10, <1>12
<1>14. runs'[e] > 0 => born[e] # NULL /\ Bound(e)' <= clock
  BY <1>4, <1>9 DEF MomentInv
<1>15. \A u \in Threads : now'[u] <= clock
  BY <1>4 DEF MomentInv
<1>16. ~ (pc'[t] = "call") /\ ~ (pc'[t] = "func")
  BY <1>5
<1> QED
  BY <1>3, <1>4, <1>5, <1>6, <1>8, <1>13, <1>14, <1>15, <1>16, OneThreadMoments

\* An event that goes is in nobody's hands any more.
LEMMA DropMoments ==
  ASSUME RefInv, MomentInv, NEW t \in Threads, Drop(t)
  PROVE  MomentInv'
<1>1. TypeOK /\ Distinct /\ pc[t] = "func"
  BY DEF RefInv, Drop
<1>2. PICK e \in Events : e = event[t]
  BY <1>1, OneEvent
<1>3. Active(t) /\ \A f \in Events \ {e} : ~ Used(f) /\ ~ Called(f)
  BY <1>1, <1>2, OneEvent
<1>4. UNCHANGED <<clock, sec, usec, now, born, runs>>
  BY DEF Drop, history
<1>5. /\ pc'[t] = "fetch" /\ \A u \in Threads \ {t} : pc'[u] = pc[u]
      /\ \A f \in Events : ~ Used(f)'
  <2>1. \A f \in Events : ~ Used(f)'
    BY Returned DEF Drop
  <2> QED
    BY <1>1, <2>1 DEF Drop, GoTo, TypeOK
<1>6. ~ InList(e)' /\ \A f \in Events \ {e} : InList(f)' <=> InList(f)
  <2>1. events' = Without(e)
    BY <1>2 DEF Drop
  <2> QED
    BY <1>1, <2>1, WithoutList
<1>7. runs'[e] > 0 => born[e] # NULL /\ Bound(e)' <= clock
  BY <1>4 DEF MomentInv, Bound
<1>8. \A u \in Threads : now'[u] <= clock
  BY <1>4 DEF MomentInv
<1>9. ~ (pc'[t] = "call") /\ ~ (pc'[t] = "func")
  BY <1>5
<1> QED
  BY <1>3, <1>4, <1>5, <1>6, <1>7, <1>8, <1>9, OneThreadMoments

LEMMA MomentInvNext == RefInv /\ MomentInv /\ [Next]_vars => MomentInv'
<1> SUFFICES ASSUME RefInv, MomentInv, [Next]_vars PROVE MomentInv'
  OBVIOUS
<1>1. ASSUME NEW e \in Events, NewEvent(e) \/ RemoveEvent(e) PROVE MomentInv'
  BY <1>1, NewEventMoments, RemoveEventMoments
<1>2. ASSUME NEW t \in Threads, Begin(t) \/ ProcessEvents(t) PROVE MomentInv'
  BY <1>2, QuietStep, FetchMoments, CallMoments, KeepMoments, DropMoments DEF ProcessEvents
<1>3. CASE SetExit \/ BeingClosed \/ Tick \/ UNCHANGED vars
  BY <1>3, QuietStep
<1>4. CASE FreeEvents
  BY <1>4, RemoveEventMoments
<1> QED
  BY <1>1, <1>2, <1>3, <1>4 DEF Next

\* No event has run more often than its delay allows, for any delays of more than a second
\* and however late the threads come by (valvula_thread_pool.c:92-225).
THEOREM EventsComeInTime == Spec => []NeverEarly
<1>1. MomentInv => NeverEarly
  BY DEF MomentInv, NeverEarly, Bound
<1>2. Spec => []MomentInv
  BY MomentInvInit, MomentInvNext, RefInvAlways, PTL DEF Spec
<1> QED
  BY <1>1, <1>2, PTL

=============================================================================
