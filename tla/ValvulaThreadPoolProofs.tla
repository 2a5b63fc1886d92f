----------------------- MODULE ValvulaThreadPoolProofs -----------------------
(***************************************************************************)
(* What ValvulaThreadPool promises for any number of threads and tasks and *)
(* any configuration: no task is lost or run twice, each thread that left  *)
(* is collected, a thread remains while the library runs, and the pool is  *)
(* freed after the last thread has been joined.                            *)
(***************************************************************************)
EXTENDS ValvulaThreadPool, FiniteSetTheorems, SequenceTheorems, TLAPS

Same(x, y) == IF x = y THEN 1 ELSE 0
In(x, S) == IF x \in S THEN 1 ELSE 0

\* The places of an item in a sequence.
Places(s, x) == {i \in 1..Len(s) : s[i] = x}

Holders(x) == {t \in Threads : hand[t] = x}

-----------------------------------------------------------------------------
(* The inductive invariants.                                                *)

\* A thread has a task from Pop until Run has ended.
HandShape == \A t \in Threads : hand[t] # NULL <=> pc[t] \in {"preempt", "run"}

\* A task is in as many places as it was accepted times.
Counted ==
    \A x \in Tasks :
        Same(new, x) + Cardinality(Places(queue, x)) + Cardinality(Holders(x)) + ran[x] + dropped[x]
            = In(x, accepted)

\* Where a thread can be joined: a thread at work is in pool->threads, one that ends there
\* or in pool->stopped.
InStopped(t) == \E i \in 1..Len(stopped) : stopped[i] = t
Working == {"pop", "preempt", "run", "resize", "remove", "collect", "join"}
Ending == {"notify", "exit", "done"}
ThreadShape ==
    \A t \in Threads :
        /\ pc[t] \in Working => t \in threads
        /\ pc[t] \in Ending => t \in threads \/ InStopped(t)

\* Once the exit has joined pool->threads nobody is in it.
ListedJoined == main \in {"collect", "freed"} => threads = {}

TypeInv == TypeOK /\ HandShape /\ ThreadShape /\ ListedJoined /\ EveryoneCollected

\* Fewer threads are to leave than there are.
FewerLeave ==
    ~ IsExiting =>
        Cardinality(Places(queue, "remove")) + Cardinality(At({"remove"})) < Cardinality(threads)

\* Nobody is between the lists when the exit has started.
NobodyLeaves == IsExiting => ~ Removing
StoppedJoined == main = "freed" => stopped = <<>>


-----------------------------------------------------------------------------
(* Counting.                                                                *)

\* The places of an item are finitely many.
LEMMA PlacesType ==
  ASSUME NEW s, Len(s) \in Nat, NEW x
  PROVE  IsFiniteSet(Places(s, x)) /\ Cardinality(Places(s, x)) \in Nat
<1>2. IsFiniteSet(1..Len(s))
  BY FS_Interval
<1>3. Places(s, x) \in SUBSET (1..Len(s))
  BY DEF Places
<1> QED
  BY <1>2, <1>3, FS_Subset, FS_CardinalityType

\* A sequence that begins as another one and goes on with n times e.
GoesOn(s, r, n, e) ==
    /\ Len(r) = Len(s) + n
    /\ \A i \in 1..Len(s) : r[i] = s[i]
    /\ \A i \in Len(s) + 1 .. Len(s) + n : r[i] = e

LEMMA MorePlaces ==
  ASSUME NEW s, NEW r, NEW n \in Nat, NEW e, Len(s) \in Nat, GoesOn(s, r, n, e), NEW x
  PROVE  /\ e = x => Cardinality(Places(r, x)) = Cardinality(Places(s, x)) + n
         /\ e # x => Cardinality(Places(r, x)) = Cardinality(Places(s, x))
<1> DEFINE m == Len(s)
           Last == m + 1 .. m + n
<1>1. m \in Nat /\ IsFiniteSet(Last) /\ Cardinality(Last) = n
  <2>1. m \in Nat
    OBVIOUS
  <2>2. m + 1 \in Int /\ m + n \in Int
    BY <2>1
  <2>3. IsFiniteSet(Last) /\ Cardinality(Last) = IF m + 1 > m + n THEN 0 ELSE (m + n) - (m + 1) + 1
    BY <2>2, FS_Interval
  <2> QED
    BY <2>1, <2>3
<1>2. IsFiniteSet(Places(s, x)) /\ Cardinality(Places(s, x)) \in Nat
  BY PlacesType
<1>3. \A i : i \in Places(r, x) <=> i \in Places(s, x) \/ (e = x /\ i \in Last)
  <2> SUFFICES ASSUME NEW i
               PROVE  i \in Places(r, x) <=> i \in Places(s, x) \/ (e = x /\ i \in Last)
    OBVIOUS
  <2>1. i \in 1..Len(r) <=> i \in 1..m \/ i \in Last
    BY <1>1 DEF GoesOn
  <2>2. i \in 1..m => r[i] = s[i]
    BY DEF GoesOn
  <2>3. i \in Last => r[i] = e /\ i \notin 1..m
    BY <1>1 DEF GoesOn
  <2> HIDE DEF Last, m
  <2> QED
    BY <2>1, <2>2, <2>3 DEF Places, m
<1>4. CASE e = x
  <2>1. Places(r, x) = Places(s, x) \cup Last
    BY <1>3, <1>4
  <2>2. Places(s, x) \cap Last = {}
    BY <1>1 DEF Places
  <2> HIDE DEF Last, m
  <2>3. Cardinality(Places(r, x)) = Cardinality(Places(s, x)) + n - Cardinality({})
    BY <1>1, <1>2, <2>1, <2>2, FS_Union
  <2>4. Cardinality({}) = 0
    BY FS_EmptySet
  <2> QED
    BY <1>2, <1>4, <2>3, <2>4
<1>5. CASE e # x
  <2>1. Places(r, x) = Places(s, x)
    BY <1>3, <1>5
  <2> QED
    BY <1>2, <1>5, <2>1
<1> QED
  BY <1>4, <1>5

LEMMA PlacesAppended ==
  ASSUME NEW S, NEW s \in Seq(S), NEW e \in S, NEW x
  PROVE  /\ Append(s, e) \in Seq(S)
         /\ Cardinality(Places(Append(s, e), x)) = Cardinality(Places(s, x)) + Same(e, x)
<1> DEFINE r == Append(s, e)
<1>1. r \in Seq(S) /\ Len(s) \in Nat /\ GoesOn(s, r, 1, e)
  BY AppendProperties DEF GoesOn
<1> HIDE DEF r
<1>2. /\ e = x => Cardinality(Places(r, x)) = Cardinality(Places(s, x)) + 1
      /\ e # x => Cardinality(Places(r, x)) = Cardinality(Places(s, x))
  <2>1. 1 \in Nat
    OBVIOUS
  <2> QED
    BY <1>1, <2>1, MorePlaces
<1>3. Cardinality(Places(s, x)) \in Nat
  BY PlacesType
<1> QED
  BY <1>1, <1>2, <1>3 DEF r, Same

LEMMA PlacesCopied ==
  ASSUME NEW S, NEW s \in Seq(S), NEW e \in S, NEW n \in Nat, NEW x
  PROVE  /\ s \o Copies(n, e) \in Seq(S)
         /\ e = x => Cardinality(Places(s \o Copies(n, e), x)) = Cardinality(Places(s, x)) + n
         /\ e # x => Cardinality(Places(s \o Copies(n, e), x)) = Cardinality(Places(s, x))
<1> DEFINE c == Copies(n, e)
           r == s \o c
<1>1. c \in Seq(S) /\ Len(c) = n /\ \A i \in 1..n : c[i] = e
  BY DEF Copies
<1> HIDE DEF c
<1>2. /\ r \in Seq(S) /\ Len(s) \in Nat /\ Len(r) = Len(s) + n
      /\ \A i \in 1 .. Len(s) + n : r[i] = IF i <= Len(s) THEN s[i] ELSE c[i - Len(s)]
  <2>1. \A i \in 1 .. Len(s) + Len(c) : r[i] = IF i <= Len(s) THEN s[i] ELSE c[i - Len(s)]
    BY <1>1, ConcatProperties
  <2>2. r \in Seq(S) /\ Len(r) = Len(s) + Len(c)
    BY <1>1, ConcatProperties
  <2> HIDE DEF r
  <2> QED
    BY <1>1, <2>1, <2>2
<1> HIDE DEF r
<1>3. GoesOn(s, r, n, e)
  BY <1>1, <1>2 DEF GoesOn
<1>4. /\ e = x => Cardinality(Places(r, x)) = Cardinality(Places(s, x)) + n
      /\ e # x => Cardinality(Places(r, x)) = Cardinality(Places(s, x))
  BY <1>2, <1>3, MorePlaces
<1> QED
  BY <1>2, <1>4 DEF r, c

LEMMA PlacesTail ==
  ASSUME NEW S, NEW s \in Seq(S), s # <<>>, NEW x
  PROVE  /\ Tail(s) \in Seq(S) /\ Head(s) \in S
         /\ Cardinality(Places(Tail(s), x)) = Cardinality(Places(s, x)) - Same(Head(s), x)
<1> DEFINE r == Tail(s)
           f == [i \in Places(r, x) |-> i + 1]
<1>1. /\ r \in Seq(S) /\ Head(s) \in S /\ Len(s) \in Nat /\ Len(s) # 0 /\ Len(r) = Len(s) - 1
      /\ Head(s) = s[1] /\ \A i \in 1..Len(r) : r[i] = s[i + 1]
  OBVIOUS
<1> HIDE DEF r
<1>2. /\ IsFiniteSet(Places(s, x)) /\ Cardinality(Places(s, x)) \in Nat
      /\ IsFiniteSet(Places(r, x)) /\ Cardinality(Places(r, x)) \in Nat
  BY <1>1, PlacesType
<1>3. Places(s, x) \ {1} = {i + 1 : i \in Places(r, x)}
  <2>1. ASSUME NEW j \in Places(s, x) \ {1}
        PROVE  j - 1 \in Places(r, x) /\ j = (j - 1) + 1
    BY <1>1 DEF Places
  <2>2. ASSUME NEW i \in Places(r, x)
        PROVE  i + 1 \in Places(s, x) \ {1}
    BY <1>1 DEF Places
  <2> QED
    BY <2>1, <2>2
<1>4. f \in Bijection(Places(r, x), Places(s, x) \ {1})
  <2>1. \A i \in Places(r, x) : i \in Nat
    BY DEF Places
  <2>2. f \in [Places(r, x) -> Places(s, x) \ {1}]
    BY <1>3
  <2>3. \A i, j \in Places(r, x) : f[i] = f[j] => i = j
    BY <2>1
  <2>4. \A j \in Places(s, x) \ {1} : \E i \in Places(r, x) : f[i] = j
    BY <1>3
  <2> QED
    BY <2>2, <2>3, <2>4 DEF Bijection, Injection, Surjection, IsInjective
<1>5. Cardinality(Places(s, x) \ {1}) = Cardinality(Places(r, x))
  BY <1>2, <1>4, FS_Bijection DEF ExistsBijection
<1>6. Cardinality(Places(s, x) \ {1})
         = IF 1 \in Places(s, x) THEN Cardinality(Places(s, x)) - 1 ELSE Cardinality(Places(s, x))
  BY <1>2, FS_RemoveElement
<1>7. 1 \in Places(s, x) <=> Head(s) = x
  BY <1>1 DEF Places
<1>8. Cardinality(Places(r, x)) = Cardinality(Places(s, x)) - Same(Head(s), x)
  BY <1>2, <1>5, <1>6, <1>7 DEF Same
<1> QED
  BY <1>1, <1>8 DEF r

\* How many of S a function takes into W, when it changes at one of them.
Differ(S, f, g, t) == \A u \in S \ {t} : g[u] = f[u]
Into(S, f, W) == {u \in S : f[u] \in W}

LEMMA OneChange ==
  ASSUME NEW S, IsFiniteSet(S), NEW f, NEW g, NEW t \in S, Differ(S, f, g, t), NEW W
  PROVE  /\ Cardinality(Into(S, f, W)) \in Nat
         /\ Cardinality(Into(S, g, W)) = Cardinality(Into(S, f, W)) - In(f[t], W) + In(g[t], W)
<1> DEFINE A == Into(S, f, W)
           B == Into(S, g, W)
           C == {u \in S \ {t} : f[u] \in W}
<1>1. IsFiniteSet(C) /\ Cardinality(C) \in Nat
  BY FS_Subset, FS_CardinalityType
<1>2. A = IF f[t] \in W THEN C \cup {t} ELSE C
  BY DEF Into, Differ
<1>3. B = IF g[t] \in W THEN C \cup {t} ELSE C
  BY DEF Into, Differ
<1>4. t \notin C
  OBVIOUS
<1>5. Cardinality(C \cup {t}) = Cardinality(C) + 1
  BY <1>1, <1>4, FS_AddElement
<1> HIDE DEF A, B, C
<1>6. Cardinality(A) = Cardinality(C) + In(f[t], W)
  BY <1>1, <1>2, <1>5 DEF In
<1>7. Cardinality(B) = Cardinality(C) + In(g[t], W)
  BY <1>1, <1>3, <1>5 DEF In
<1>8. In(f[t], W) \in {0, 1} /\ In(g[t], W) \in {0, 1}
  BY DEF In
<1>9. Cardinality(B) = Cardinality(A) - In(f[t], W) + In(g[t], W)
  BY <1>1, <1>6, <1>7, <1>8
<1> QED
  BY <1>1, <1>6, <1>8, <1>9 DEF A, B


-----------------------------------------------------------------------------
(* What the calls that change the number of threads do.                     *)

Steps == {"none", "pop", "preempt", "run", "resize", "remove", "unlinked",
          "notify", "collect", "join", "exit", "done", "joined"}

\* The program counters a resize leaves, apart from those of new threads.
Onward(p) ==
    /\ p \in [Threads -> Steps]
    /\ \A u \in Threads : \/ p[u] = pc[u]
                          \/ pc[u] = "preempt" /\ p[u] = "run"
                          \/ pc[u] = "resize" /\ p[u] = "pop"

Started(p) ==
    /\ ~ IsExiting /\ UNCHANGED queue
    /\ \E s \in SUBSET Threads :
        /\ \A u \in s : pc[u] = "none"
        /\ threads' = threads \cup s
        /\ pc' = [t \in Threads |-> IF t \in s THEN "pop" ELSE p[t]]

Beaconed(p) ==
    /\ ~ IsExiting /\ MayRemove /\ pc' = p /\ UNCHANGED threads
    /\ \E n \in Nat : /\ queue' = queue \o Copies(n, "remove")
                      /\ n = 0 \/ n < Cardinality(threads)

Resizing(p) ==
    /\ Onward(p)
    /\ Started(p) \/ Beaconed(p) \/ (pc' = p /\ UNCHANGED <<queue, threads>>)
    /\ UNCHANGED <<stopped, hand, taskVars, main, beacons>> /\ calls' \in Nat

LEMMA ThreadsFinite ==
  ASSUME TypeOK, NEW W
  PROVE  /\ IsFiniteSet(threads) /\ Cardinality(threads) \in Nat
         /\ IsFiniteSet(At(W)) /\ Cardinality(At(W)) \in Nat
<1>1. IsFiniteSet(Threads) /\ threads \in SUBSET Threads /\ At(W) \in SUBSET Threads
  BY PoolAssumption DEF TypeOK, At
<1> QED
  BY <1>1, FS_Subset, FS_CardinalityType

LEMMA StartedThreads ==
  ASSUME NEW n, NEW p, StartThreads(n, p), ~ IsExiting, UNCHANGED queue
  PROVE  Started(p)
  BY DEF StartThreads, Started, At

LEMMA RemoveBeaconsFewer ==
  ASSUME TypeOK, NEW n \in Nat
  PROVE  \E m \in Nat : /\ RemoveBeacons(n) = Copies(m, "remove")
                        /\ m = 0 \/ m < Cardinality(threads)
<1> DEFINE running == Cardinality(threads)
           m == IF n < running THEN n ELSE IF running = 0 THEN 0 ELSE running - 1
<1>1. running \in Nat
  BY ThreadsFinite
<1> HIDE DEF running
<1>2. m \in Nat /\ (m = 0 \/ m < running)
  BY <1>1
<1>3. RemoveBeacons(n) = Copies(m, "remove")
  BY DEF RemoveBeacons, running
<1> QED
  BY <1>2, <1>3 DEF running

LEMMA AutomaticallyResized ==
  ASSUME TypeOK, NEW p, AutomaticResize(p)
  PROVE  Started(p) \/ Beaconed(p) \/ (pc' = p /\ UNCHANGED <<queue, threads>>)
<1>1. CASE pc' = p /\ UNCHANGED <<queue, threads>>
  BY <1>1
<1>2. CASE ~ IsExiting /\ StartThreads(AddStep, p) /\ UNCHANGED queue
  BY <1>2, StartedThreads
<1>3. CASE ~ IsExiting /\ MayRemove /\ queue' = queue \o RemoveBeacons(RemoveStep) /\ pc' = p
              /\ UNCHANGED threads
  <2>1. RemoveStep \in Nat
    BY PoolAssumption
  <2> QED
    BY <1>3, <2>1, RemoveBeaconsFewer DEF Beaconed
<1> QED
  BY <1>1, <1>2, <1>3 DEF AutomaticResize

LEMMA ResizeCalls ==
  ASSUME TypeOK,
         \/ ReaderResize
         \/ \E n \in 1..Cardinality(Threads) : Add(n) \/ Remove(n)
         \/ \E t \in Threads : Resize(t)
  PROVE  \E p : Resizing(p)
<1>1. pc \in [Threads -> Steps] /\ Onward(pc) /\ calls \in Nat
  BY DEF TypeOK, Steps, Onward
<1>2. CASE ReaderResize
  BY <1>1, <1>2, AutomaticallyResized DEF ReaderResize, Resizing
<1>3. ASSUME NEW n \in 1..Cardinality(Threads), Add(n)
      PROVE  \E p : Resizing(p)
  <2>1. Started(pc)
    BY <1>3, StartedThreads DEF Add, IsExiting
  <2> QED
    BY <1>1, <1>3, <2>1 DEF Add, Resizing
<1>4. ASSUME NEW n \in 1..Cardinality(Threads), Remove(n)
      PROVE  \E p : Resizing(p)
  <2>1. n \in Nat
    BY PoolAssumption, FS_CardinalityType
  <2>2. Beaconed(pc)
    BY <1>4, <2>1, RemoveBeaconsFewer DEF Remove, IsExiting, Beaconed
  <2> QED
    BY <1>1, <1>4, <2>2 DEF Remove, Resizing
<1>5. ASSUME NEW t \in Threads, Resize(t)
      PROVE  \E p : Resizing(p)
  <2> DEFINE p == [pc EXCEPT ![t] = IF @ = "preempt" THEN "run" ELSE "pop"]
  <2>1. Onward(p)
    BY <1>1, <1>5 DEF Onward, Resize, Steps
  <2>2. AutomaticResize(p) /\ UNCHANGED <<stopped, hand, taskVars, main, beacons, calls>>
    BY <1>5 DEF Resize
  <2> HIDE DEF p
  <2> QED
    BY <1>1, <2>1, <2>2, AutomaticallyResized DEF Resizing
<1> QED
  BY <1>2, <1>3, <1>4, <1>5

\* The program counters after a resize.
LEMMA ResizedCounters ==
  ASSUME TypeOK, NEW p, Resizing(p)
  PROVE  /\ pc' \in [Threads -> Steps] /\ threads \subseteq threads' /\ threads' \subseteq Threads
         /\ \A u \in Threads :
               \/ pc'[u] = pc[u]
               \/ pc[u] = "preempt" /\ pc'[u] = "run"
               \/ pc[u] = "resize" /\ pc'[u] = "pop"
               \/ pc[u] = "none" /\ pc'[u] = "pop" /\ u \in threads'
<1>1. p \in [Threads -> Steps] /\ threads \subseteq Threads
  BY DEF Resizing, Onward, TypeOK
<1>2. CASE pc' = p /\ threads' = threads
  BY <1>1, <1>2 DEF Resizing, Onward
<1>3. CASE Started(p)
  <2>1. PICK s \in SUBSET Threads :
            /\ \A u \in s : pc[u] = "none"
            /\ threads' = threads \cup s
            /\ pc' = [t \in Threads |-> IF t \in s THEN "pop" ELSE p[t]]
    BY <1>3 DEF Started
  <2>2. pc' \in [Threads -> Steps]
    BY <1>1, <2>1 DEF Steps
  <2> QED
    BY <1>1, <2>1, <2>2 DEF Resizing, Onward
<1> QED
  BY <1>2, <1>3 DEF Resizing, Beaconed

LEMMA ResizedQueue ==
  ASSUME TypeOK, NEW p, Resizing(p), NEW x
  PROVE  /\ queue' \in Seq(Item)
         /\ x # "remove" => Cardinality(Places(queue', x)) = Cardinality(Places(queue, x))
<1>1. queue \in Seq(Item) /\ "remove" \in Item
  BY DEF TypeOK, Item
<1>2. CASE queue' = queue
  BY <1>1, <1>2
<1>3. ASSUME NEW n \in Nat, queue' = queue \o Copies(n, "remove")
      PROVE  /\ queue' \in Seq(Item)
             /\ x # "remove" => Cardinality(Places(queue', x)) = Cardinality(Places(queue, x))
  BY <1>1, <1>3, PlacesCopied
<1> QED
  BY <1>2, <1>3 DEF Resizing, Started, Beaconed


-----------------------------------------------------------------------------
(* The type invariant.                                                      *)

LEMMA TypeInvInit == Init => TypeInv
<1> SUFFICES ASSUME Init PROVE TypeInv
  OBVIOUS
<1>1. TypeOK
  BY PoolAssumption DEF Init, TypeOK
<1>2. HandShape /\ ThreadShape /\ ListedJoined
  BY PoolAssumption DEF Init, HandShape, ThreadShape, ListedJoined, Working, Ending
<1>3. EveryoneCollected
  <2>1. {i \in 1..Len(queue) : queue[i] = "collect"} = {}
    BY DEF Init
  <2>2. At({"notify", "collect", "join"}) = {}
    BY DEF Init, At
  <2>3. Len(stopped) = 0
    BY DEF Init
  <2>4. Queued("collect") = 0 /\ Cardinality(At({"notify", "collect", "join"})) = 0
    BY <2>1, <2>2, FS_EmptySet DEF Queued
  <2> QED
    BY <2>3, <2>4 DEF EveryoneCollected
<1> QED
  BY <1>1, <1>2, <1>3 DEF TypeInv

\* Who joins a thread has one to join.
LEMMA SomeoneToJoin ==
  ASSUME TypeInv, NEW t \in Threads, pc[t] \in {"collect", "join"}
  PROVE  stopped \in Seq(Threads) /\ stopped # <<>> /\ Head(stopped) \in Threads
<1>1. main \notin {"collect", "freed"}
  BY DEF TypeInv, ThreadShape, ListedJoined, Working
<1>2. t \in At({"notify", "collect", "join"})
  BY DEF At
<1>3. Cardinality(At({"notify", "collect", "join"})) # 0
  <2>1. IsFiniteSet(At({"notify", "collect", "join"}))
    BY ThreadsFinite DEF TypeInv
  <2> QED
    BY <1>2, <2>1, FS_EmptySet
<1>4. Queued("collect") \in Nat /\ Cardinality(At({"notify", "collect", "join"})) \in Nat
  <2>1. Len(queue) \in Nat
    BY DEF TypeInv, TypeOK
  <2>2. Queued("collect") \in Nat
    BY <2>1, PlacesType DEF Queued, Places
  <2> QED
    BY <2>2, ThreadsFinite DEF TypeInv
<1>5. stopped \in Seq(Threads)
  BY DEF TypeInv, TypeOK
<1>6. Len(stopped) # 0
  BY <1>1, <1>3, <1>4 DEF TypeInv, EveryoneCollected
<1> QED
  BY <1>5, <1>6

LEMMA FirstOfQueue ==
  ASSUME TypeOK, queue # <<>>
  PROVE  /\ Head(queue) \in Item /\ Tail(queue) \in Seq(Item)
         /\ Dispatch(Head(queue)) \in Steps
         /\ Dispatch(Head(queue)) \in {"preempt", "run"} <=> Head(queue) \in Tasks
<1>1. Head(queue) \in Item /\ Tail(queue) \in Seq(Item)
  BY DEF TypeOK
<1>2. Head(queue) \in {"stop", "remove", "collect"} => Head(queue) \notin Tasks
  BY PoolAssumption
<1> QED
  BY <1>1, <1>2 DEF Dispatch, Item, Steps

LEMMA TypeOKStep == TypeInv /\ [Next]_vars => TypeOK'
<1> SUFFICES ASSUME TypeInv, [Next]_vars PROVE TypeOK'
  OBVIOUS
<1>1. TypeOK
  BY DEF TypeInv
<1>2. ASSUME NEW x \in Tasks, Accept(x) PROVE TypeOK'
  BY <1>1, <1>2 DEF TypeOK, Accept
<1>3. CASE PushTask
  BY <1>1, <1>3 DEF TypeOK, PushTask, Item
<1>4. ASSUME NEW p, Resizing(p) PROVE TypeOK'
  BY <1>1, <1>4, ResizedCounters, ResizedQueue DEF TypeOK, Resizing, Steps, taskVars, Item
<1>5. ASSUME NEW t \in Threads, Dispatcher(t) PROVE TypeOK'
  <2>1. CASE Pop(t)
    BY <1>1, <2>1, FirstOfQueue DEF TypeOK, Pop, GoTo, taskVars, Steps, Item
  <2>2. CASE Timeout(t) \/ Unlink(t) \/ Finish(t)
    BY <1>1, <2>2 DEF TypeOK, Timeout, Unlink, Finish, GoTo, taskVars
  <2>3. CASE Resize(t)
    BY <1>1, <1>4, <2>3, ResizeCalls
  <2>4. CASE Run(t)
    <3>0. hand[t] \in Tasks
      BY <1>1, <2>4 DEF TypeInv, HandShape, TypeOK, Run
    <3>1. ran' \in [Tasks -> Nat] /\ dropped' \in [Tasks -> Nat]
      <4>1. CASE ran' = [ran EXCEPT ![hand[t]] = @ + 1] /\ dropped' = dropped
        BY <1>1, <3>0, <4>1 DEF TypeOK
      <4>2. CASE dropped' = [dropped EXCEPT ![hand[t]] = @ + 1] /\ ran' = ran
        BY <1>1, <3>0, <4>2 DEF TypeOK
      <4> QED
        BY <2>4, <4>1, <4>2 DEF Run
    <3>2. pc' \in [Threads -> Steps] /\ hand' \in [Threads -> Tasks \cup {NULL}]
      BY <1>1, <2>4 DEF TypeOK, Run, GoTo, Released, Steps
    <3> QED
      BY <1>1, <2>4, <3>1, <3>2 DEF TypeOK, Run, Steps
  <2>5. CASE AppendStopped(t)
    BY <1>1, <2>5 DEF TypeOK, AppendStopped, NowStopped, GoTo, taskVars
  <2>6. CASE Notify(t)
    <3>1. <<"collect">> \in Seq(Item)
      BY DEF Item
    <3>2. queue' \in Seq(Item)
      BY <1>1, <2>6, <3>1 DEF Notify, CollectBeacon, TypeOK, Item
    <3> QED
      BY <1>1, <2>6, <3>2 DEF TypeOK, Notify, GoTo, taskVars, Item
  <2>7. CASE Collect(t)
    BY <1>1, <2>7 DEF TypeOK, Collect, GoTo, taskVars
  <2>8. CASE Joined(t)
    <3>1. stopped \in Seq(Threads) /\ stopped # <<>> /\ Head(stopped) \in Threads
      BY <2>8, SomeoneToJoin DEF Joined
    <3>2. Tail(stopped) \in Seq(Threads)
      BY <3>1
    <3> QED
      BY <1>1, <2>8, <3>1, <3>2 DEF TypeOK, Joined, taskVars
  <2> QED
    BY <1>5, <2>1, <2>2, <2>3, <2>4, <2>5, <2>6, <2>7, <2>8 DEF Dispatcher
<1>6. CASE SetExit \/ BeingClosed \/ ReaderStopped \/ PushedAll \/ JoinedListed \/ FreePool
  BY <1>1, <1>6 DEF TypeOK, SetExit, BeingClosed, ReaderStopped, PushedAll, JoinedListed, FreePool,
                    taskVars
<1>7. CASE PushStop
  BY <1>1, <1>7 DEF TypeOK, PushStop, taskVars, Item
<1>8. ASSUME NEW t \in Threads, JoinListed(t) PROVE TypeOK'
  BY <1>1, <1>8 DEF TypeOK, JoinListed, GoTo, taskVars
<1>9. CASE JoinStopped
  <2>1. Tail(stopped) \in Seq(Threads) /\ Head(stopped) \in Threads
    BY <1>1, <1>9 DEF TypeOK, JoinStopped
  <2> QED
    BY <1>1, <1>9, <2>1 DEF TypeOK, JoinStopped, GoTo, taskVars
<1>10. CASE UNCHANGED vars
  BY <1>1, <1>10 DEF TypeOK, vars, taskVars
<1> QED
  BY <1>1, <1>2, <1>3, <1>4, <1>5, <1>6, <1>7, <1>8, <1>9, <1>10, ResizeCalls DEF Next, ExitSteps

LEMMA HandShapeStep == TypeInv /\ [Next]_vars => HandShape'
<1> SUFFICES ASSUME TypeInv, [Next]_vars PROVE HandShape'
  OBVIOUS
<1>1. TypeOK /\ HandShape /\ pc \in [Threads -> Steps] /\ hand \in [Threads -> Tasks \cup {NULL}]
  BY DEF TypeInv, TypeOK, Steps
<1>2. NULL \notin Tasks
  BY PoolAssumption
<1>3. CASE UNCHANGED <<pc, hand>>
  BY <1>1, <1>3 DEF HandShape
<1>4. ASSUME NEW p, Resizing(p) PROVE HandShape'
  BY <1>1, <1>4, ResizedCounters DEF HandShape, Resizing
<1>5. ASSUME NEW t \in Threads, Dispatcher(t) PROVE HandShape'
  <2>1. CASE Pop(t)
    BY <1>1, <1>2, <2>1, FirstOfQueue DEF HandShape, Pop, GoTo
  <2>2. CASE Timeout(t) \/ Unlink(t) \/ AppendStopped(t) \/ Notify(t) \/ Finish(t) \/ Collect(t)
    BY <1>1, <2>2 DEF HandShape, Timeout, Unlink, AppendStopped, Notify, Finish, Collect, GoTo
  <2>3. CASE Resize(t)
    BY <1>1, <1>4, <2>3, ResizeCalls
  <2>4. CASE Run(t)
    BY <1>1, <1>2, <2>4 DEF HandShape, Run, GoTo, Released
  <2>5. CASE Joined(t)
    BY <1>1, <2>5, SomeoneToJoin DEF HandShape, Joined
  <2> QED
    BY <1>5, <2>1, <2>2, <2>3, <2>4, <2>5 DEF Dispatcher
<1>6. ASSUME NEW t \in Threads, JoinListed(t) PROVE HandShape'
  BY <1>1, <1>6 DEF HandShape, JoinListed, GoTo
<1>7. CASE JoinStopped
  BY <1>1, <1>7 DEF HandShape, JoinStopped, GoTo, TypeOK
<1> QED
  BY <1>1, <1>3, <1>4, <1>5, <1>6, <1>7, ResizeCalls
     DEF Next, ExitSteps, Accept, PushTask, SetExit, BeingClosed, ReaderStopped, PushStop, PushedAll,
         JoinedListed, FreePool, vars


LEMMA ThreadShapeStep == TypeInv /\ [Next]_vars => ThreadShape'
<1> SUFFICES ASSUME TypeInv, [Next]_vars PROVE ThreadShape'
  OBVIOUS
<1>1. TypeOK /\ ThreadShape /\ pc \in [Threads -> Steps] /\ stopped \in Seq(Threads)
  BY DEF TypeInv, TypeOK, Steps
<1>2. CASE UNCHANGED <<pc, threads, stopped>>
  BY <1>1, <1>2 DEF ThreadShape, InStopped
<1>3. ASSUME NEW p, Resizing(p) PROVE ThreadShape'
  BY <1>1, <1>3, ResizedCounters DEF ThreadShape, Resizing, InStopped, Working, Ending
<1>4. ASSUME stopped # <<>>, stopped' = Tail(stopped), NEW u \in Threads, InStopped(u)
      PROVE  u = Head(stopped) \/ InStopped(u)'
  <2>1. PICK i \in 1..Len(stopped) : stopped[i] = u
    BY <1>4 DEF InStopped
  <2>2. CASE i = 1
    BY <1>1, <1>4, <2>1, <2>2
  <2>3. CASE i # 1
    <3>1. i - 1 \in 1..Len(stopped') /\ stopped'[i - 1] = u
      BY <1>1, <1>4, <2>1, <2>3
    <3> QED
      BY <3>1 DEF InStopped
  <2> QED
    BY <2>2, <2>3
<1>5. ASSUME NEW t \in Threads, Dispatcher(t) PROVE ThreadShape'
  <2>1. CASE Pop(t)
    <3>1. Dispatch(Head(queue)) \in Working \cup {"exit"}
      BY <1>1, <2>1, FirstOfQueue DEF Pop, Dispatch, Item, Working
    <3> QED
      BY <1>1, <2>1, <3>1 DEF ThreadShape, InStopped, Pop, GoTo, Working, Ending
  <2>2. CASE Timeout(t) \/ Run(t) \/ Notify(t) \/ Finish(t) \/ Collect(t)
    BY <1>1, <2>2 DEF ThreadShape, InStopped, Timeout, Run, Notify, Finish, Collect, GoTo,
                      Working, Ending
  <2>3. CASE Resize(t)
    BY <1>1, <1>3, <2>3, ResizeCalls
  <2>4. CASE Unlink(t)
    BY <1>1, <2>4 DEF ThreadShape, InStopped, Unlink, GoTo, Working, Ending
  <2>5. CASE AppendStopped(t)
    <3>1. /\ Len(stopped') = Len(stopped) + 1 /\ stopped'[Len(stopped) + 1] = t
          /\ \A i \in 1..Len(stopped) : stopped'[i] = stopped[i]
      BY <1>1, <2>5, AppendProperties DEF AppendStopped, NowStopped
    <3>2. Len(stopped) \in Nat
      BY <1>1
    <3>3. \A u \in Threads : u = t \/ InStopped(u) => InStopped(u)'
      BY <3>1, <3>2 DEF InStopped
    <3> QED
      BY <1>1, <2>5, <3>3 DEF ThreadShape, AppendStopped, GoTo, Working, Ending
  <2>6. CASE Joined(t)
    <3>1. stopped # <<>> /\ Head(stopped) \in Threads
      BY <2>6, SomeoneToJoin DEF Joined
    <3>2. \A u \in Threads : InStopped(u) => u = Head(stopped) \/ InStopped(u)'
      BY <1>4, <2>6, <3>1 DEF Joined
    <3> QED
      BY <1>1, <2>6, <3>1, <3>2 DEF ThreadShape, Joined, Working, Ending
  <2> QED
    BY <1>5, <2>1, <2>2, <2>3, <2>4, <2>5, <2>6 DEF Dispatcher
<1>6. ASSUME NEW t \in Threads, JoinListed(t) PROVE ThreadShape'
  BY <1>1, <1>6 DEF ThreadShape, InStopped, JoinListed, GoTo, Working, Ending
<1>7. CASE JoinStopped
  <2>1. stopped # <<>> /\ Head(stopped) \in Threads
    BY <1>1, <1>7 DEF JoinStopped
  <2>2. \A u \in Threads : InStopped(u) => u = Head(stopped) \/ InStopped(u)'
    BY <1>4, <1>7, <2>1 DEF JoinStopped
  <2> QED
    BY <1>1, <1>7, <2>1, <2>2 DEF ThreadShape, JoinStopped, GoTo, Working, Ending
<1> QED
  BY <1>1, <1>2, <1>3, <1>5, <1>6, <1>7, ResizeCalls
     DEF Next, ExitSteps, Accept, PushTask, SetExit, BeingClosed, ReaderStopped, PushStop, PushedAll,
         JoinedListed, FreePool, vars

\* pool->threads grows while the library runs, and what the exit has done stays done.
LEMMA ThreadsGrow ==
  ASSUME TypeInv, NEW p, Resizing(p)
  PROVE  IsExiting => threads' = threads
  BY DEF Resizing, Started, Beaconed

LEMMA ListedJoinedStep == TypeInv /\ [Next]_vars => ListedJoined'
<1> SUFFICES ASSUME TypeInv, [Next]_vars PROVE ListedJoined'
  OBVIOUS
<1>1. TypeOK /\ ListedJoined
  BY DEF TypeInv
<1>2. CASE UNCHANGED <<threads, main>>
  BY <1>1, <1>2 DEF ListedJoined
<1>3. ASSUME NEW p, Resizing(p) PROVE ListedJoined'
  BY <1>1, <1>3, ThreadsGrow DEF ListedJoined, Resizing, IsExiting
<1>4. ASSUME NEW t \in Threads, Unlink(t) PROVE ListedJoined'
  BY <1>1, <1>4 DEF ListedJoined, Unlink
<1>5. ASSUME NEW t \in Threads, JoinListed(t) PROVE ListedJoined'
  BY <1>1, <1>5 DEF ListedJoined, JoinListed
<1>6. CASE SetExit \/ BeingClosed \/ ReaderStopped \/ PushedAll \/ JoinedListed \/ FreePool
  BY <1>1, <1>6 DEF ListedJoined, SetExit, BeingClosed, ReaderStopped, PushedAll, JoinedListed, FreePool
<1>7. \A t \in Threads : Dispatcher(t) => Resize(t) \/ Unlink(t) \/ UNCHANGED <<threads, main>>
  BY DEF Dispatcher, Pop, Timeout, Run, AppendStopped, Notify, Finish, Collect, Joined
<1> QED
  BY <1>1, <1>2, <1>3, <1>4, <1>5, <1>6, <1>7, ResizeCalls
     DEF Next, ExitSteps, Accept, PushTask, PushStop, JoinStopped, vars

Leavers == {"notify", "collect", "join"}

\* EveryoneCollected depends on these numbers only.
LEMMA SameLeavers ==
  ASSUME TypeInv, UNCHANGED <<stopped, main>>, Queued("collect")' = Queued("collect"),
         Cardinality(At(Leavers))' = Cardinality(At(Leavers))
  PROVE  EveryoneCollected'
  BY DEF TypeInv, EveryoneCollected, Leavers

\* One thread moves on.
LEMMA OneMoves ==
  ASSUME TypeOK, NEW t \in Threads, NEW where, pc' = [pc EXCEPT ![t] = where], NEW W
  PROVE  Cardinality(At(W))' = Cardinality(At(W)) - In(pc[t], W) + In(where, W)
<1> DEFINE g == pc'
<1>1. g[t] = where /\ Differ(Threads, pc, g, t)
  BY DEF TypeOK, Steps, Differ
<1>2. IsFiniteSet(Threads)
  BY PoolAssumption
<1>3. At(W)' = Into(Threads, g, W) /\ At(W) = Into(Threads, pc, W)
  BY DEF At, Into
<1> HIDE DEF g
<1>4. Cardinality(Into(Threads, g, W))
         = Cardinality(Into(Threads, pc, W)) - In(pc[t], W) + In(g[t], W)
  BY ONLY <1>1, <1>2, OneChange, t \in Threads
<1> QED
  BY <1>1, <1>3, <1>4


\* Two threads move on.
BothMove(t, here, u, there) == pc' = [pc EXCEPT ![t] = here, ![u] = there]

LEMMA TwoMove ==
  ASSUME TypeOK, NEW t \in Threads, NEW u \in Threads, t # u, NEW here, NEW there,
         BothMove(t, here, u, there), NEW W
  PROVE  Cardinality(At(W))' = Cardinality(At(W)) - In(pc[t], W) + In(here, W)
                                 - In(pc[u], W) + In(there, W)
<1> DEFINE f == [pc EXCEPT ![t] = here]
           g == pc'
<1>1. /\ f[t] = here /\ f[u] = pc[u] /\ Differ(Threads, pc, f, t)
      /\ g[u] = there /\ Differ(Threads, f, g, u)
  BY DEF TypeOK, Steps, Differ, BothMove
<1>2. IsFiniteSet(Threads)
  BY PoolAssumption
<1>3. At(W)' = Into(Threads, g, W) /\ At(W) = Into(Threads, pc, W)
  BY DEF At, Into
<1> HIDE DEF f, g
<1>4. /\ Cardinality(Into(Threads, pc, W)) \in Nat
      /\ Cardinality(Into(Threads, f, W)) = Cardinality(Into(Threads, pc, W)) - In(pc[t], W) + In(f[t], W)
  BY ONLY <1>1, <1>2, OneChange, t \in Threads
<1>5. Cardinality(Into(Threads, g, W)) = Cardinality(Into(Threads, f, W)) - In(f[u], W) + In(g[u], W)
  BY ONLY <1>1, <1>2, OneChange, u \in Threads
<1>6. /\ In(pc[t], W) \in {0, 1} /\ In(here, W) \in {0, 1}
      /\ In(pc[u], W) \in {0, 1} /\ In(there, W) \in {0, 1}
  BY DEF In
<1> QED
  BY <1>1, <1>3, <1>4, <1>5, <1>6

LEMMA CollectedStep == TypeInv /\ [Next]_vars => EveryoneCollected'
<1> SUFFICES ASSUME TypeInv, [Next]_vars PROVE EveryoneCollected'
  OBVIOUS
<1> DEFINE q == Cardinality(Places(queue, "collect"))
           a == Cardinality(At(Leavers))
<1>1. TypeOK /\ queue \in Seq(Item) /\ stopped \in Seq(Threads)
  BY DEF TypeInv, TypeOK
<1>2. Queued("collect") = q /\ Queued("collect")' = q'
  BY DEF Queued, Places
<1>3. q \in Nat /\ a \in Nat
  BY <1>1, PlacesType, ThreadsFinite
<1>4. main \notin {"collect", "freed"} => Len(stopped) = q + a
  BY <1>2 DEF TypeInv, EveryoneCollected, Leavers
<1>5. ASSUME main' \notin {"collect", "freed"} => Len(stopped)' = q' + a'
      PROVE  EveryoneCollected'
  BY <1>2, <1>5 DEF EveryoneCollected, Leavers
<1> HIDE DEF q, a
<1>6. CASE UNCHANGED <<stopped, q, a>> /\ (main' = main \/ main \notin {"collect", "freed"})
  BY <1>4, <1>5, <1>6
<1>7. CASE UNCHANGED <<queue, stopped, pc, main>>
  <2>1. UNCHANGED <<q, a>>
    BY <1>7 DEF q, a, Places, At
  <2> QED
    BY <1>6, <1>7, <2>1
<1>8. CASE PushTask \/ PushStop
  <2>1. PICK e \in Item : queue' = Append(queue, e) /\ e # "collect"
    BY <1>1, <1>8, PoolAssumption DEF PushTask, PushStop, Item, TypeOK
  <2>2. q' = q + Same(e, "collect")
    BY <1>1, <2>1, PlacesAppended DEF q
  <2>3. UNCHANGED <<stopped, pc, main>>
    BY <1>8 DEF PushTask, PushStop
  <2>4. UNCHANGED a
    BY <2>3 DEF a, At
  <2> QED
    BY <1>3, <1>6, <2>1, <2>2, <2>3, <2>4 DEF Same
<1>9. ASSUME NEW p, Resizing(p) PROVE EveryoneCollected'
  <2>1. At(Leavers)' = At(Leavers)
    BY <1>1, <1>9, ResizedCounters DEF At, Leavers
  <2>2. q' = q
    BY <1>1, <1>9, ResizedQueue DEF q
  <2> QED
    BY <1>6, <1>9, <2>1, <2>2 DEF Resizing, a
<1>10. ASSUME NEW t \in Threads, Dispatcher(t) PROVE EveryoneCollected'
  <2>1. CASE Pop(t)
    <3>1. /\ a' = a - In(pc[t], Leavers) + In(Dispatch(Head(queue)), Leavers)
          /\ q' = q - Same(Head(queue), "collect")
      BY <1>1, <2>1, OneMoves, PlacesTail DEF Pop, GoTo, q, a
    <3>2. /\ pc[t] \notin Leavers
          /\ Dispatch(Head(queue)) \in Leavers <=> Head(queue) = "collect"
      BY <1>1, <2>1, FirstOfQueue, PoolAssumption DEF Pop, Leavers, Dispatch, Item
    <3> QED
      BY <1>3, <1>4, <1>5, <2>1, <3>1, <3>2 DEF Pop, In, Same
  <2>2. CASE Timeout(t) \/ Run(t) \/ Unlink(t)
    <3>1. PICK where \in Steps \ Leavers : pc' = [pc EXCEPT ![t] = where]
      BY <2>2 DEF Timeout, Run, Unlink, GoTo, Steps, Leavers
    <3>2. pc[t] \notin Leavers /\ UNCHANGED <<queue, stopped, main>>
      BY <2>2 DEF Timeout, Run, Unlink, Leavers
    <3>3. a' = a
      <4>1. a' = a - In(pc[t], Leavers) + In(where, Leavers)
        BY <1>1, <3>1, OneMoves DEF a
      <4> QED
        BY <1>3, <3>1, <3>2, <4>1 DEF In
    <3>4. q' = q
      BY <3>2 DEF q
    <3> QED
      BY <1>6, <3>2, <3>3, <3>4
  <2>3. CASE Resize(t)
    BY <1>1, <1>9, <2>3, ResizeCalls
  <2>4. CASE AppendStopped(t)
    <3>1. a' = a + 1
      <4>1. pc' = [pc EXCEPT ![t] = "notify"] /\ pc[t] = "unlinked"
        BY <2>4 DEF AppendStopped, GoTo
      <4>2. a' = a - In(pc[t], Leavers) + In("notify", Leavers)
        BY <1>1, <4>1, OneMoves DEF a
      <4> QED
        BY <1>3, <4>1, <4>2 DEF In, Leavers
    <3>2. q' = q /\ main' = main
      BY <2>4 DEF AppendStopped, q
    <3>3. Len(stopped)' = Len(stopped) + 1
      BY <1>1, <2>4 DEF AppendStopped, NowStopped
    <3> QED
      BY <1>3, <1>4, <1>5, <3>1, <3>2, <3>3
  <2>5. CASE Notify(t)
    <3>1. a' = a - 1
      <4>1. pc' = [pc EXCEPT ![t] = "exit"] /\ pc[t] = "notify"
        BY <2>5 DEF Notify, GoTo
      <4>2. a' = a - In(pc[t], Leavers) + In("exit", Leavers)
        BY <1>1, <4>1, OneMoves DEF a
      <4> QED
        BY <1>3, <4>1, <4>2 DEF In, Leavers
    <3>2. q' = q + 1
      <4>1. queue' = queue \o Copies(1, "collect")
        BY <2>5 DEF Notify, CollectBeacon, Copies
      <4>2. "collect" \in Item /\ 1 \in Nat
        BY DEF Item
      <4> QED
        BY <1>1, <4>1, <4>2, PlacesCopied DEF q
    <3> QED
      BY <1>3, <1>4, <1>5, <2>5, <3>1, <3>2 DEF Notify
  <2>6. CASE Finish(t)
    <3>1. pc' = [pc EXCEPT ![t] = "done"] /\ pc[t] = "exit"
      BY <2>6 DEF Finish, GoTo
    <3>2. a' = a - In(pc[t], Leavers) + In("done", Leavers)
      BY <1>1, <3>1, OneMoves DEF a
    <3>3. a' = a
      BY <1>3, <3>1, <3>2 DEF In, Leavers
    <3> QED
      BY <1>6, <2>6, <3>3 DEF Finish, q
  <2>7. CASE Collect(t)
    <3>1. pc' = [pc EXCEPT ![t] = "join"] /\ pc[t] = "collect"
      BY <2>7, SomeoneToJoin DEF Collect, GoTo
    <3>2. a' = a - In(pc[t], Leavers) + In("join", Leavers)
      BY <1>1, <3>1, OneMoves DEF a
    <3>3. a' = a
      BY <1>3, <3>1, <3>2 DEF In, Leavers
    <3> QED
      BY <1>6, <2>7, <3>3 DEF Collect, q
  <2>8. CASE Joined(t)
    <3>1. PICK u \in Threads : u = Head(stopped) /\ stopped # <<>>
      BY <2>8, SomeoneToJoin DEF Joined
    <3>2. /\ pc[t] = "join" /\ pc[u] = "done" /\ t # u
          /\ BothMove(t, "pop", u, "joined")
      BY <2>8, <3>1 DEF Joined, BothMove
    <3>3. a' = a - In(pc[t], Leavers) + In("pop", Leavers)
                 - In(pc[u], Leavers) + In("joined", Leavers)
      BY <1>1, <3>1, <3>2, TwoMove DEF a
    <3>4. a' = a - 1
      BY <1>3, <3>2, <3>3 DEF In, Leavers
    <3>5. q' = q /\ main' = main
      BY <2>8 DEF Joined, q
    <3>6. Len(stopped)' = Len(stopped) - 1 /\ Len(stopped) \in Nat
      BY <1>1, <2>8, <3>1 DEF Joined
    <3> QED
      BY <1>3, <1>4, <1>5, <3>4, <3>5, <3>6
  <2> QED
    BY <1>10, <2>1, <2>2, <2>3, <2>4, <2>5, <2>6, <2>7, <2>8 DEF Dispatcher
<1>11. CASE SetExit \/ BeingClosed \/ ReaderStopped \/ PushedAll
  <2>1. UNCHANGED <<queue, stopped, pc>> /\ main \notin {"collect", "freed"}
    BY <1>11 DEF SetExit, BeingClosed, ReaderStopped, PushedAll
  <2>2. UNCHANGED <<q, a>>
    BY <2>1 DEF q, a, At
  <2> QED
    BY <1>6, <2>1, <2>2
<1>12. CASE JoinedListed \/ JoinStopped \/ FreePool
  BY <1>5, <1>12 DEF JoinedListed, JoinStopped, FreePool
<1>13. ASSUME NEW t \in Threads, JoinListed(t) PROVE EveryoneCollected'
  <2>1. pc' = [pc EXCEPT ![t] = "joined"] /\ pc[t] = "done"
    BY <1>13 DEF JoinListed, GoTo
  <2>2. a' = a - In(pc[t], Leavers) + In("joined", Leavers)
    BY <1>1, <2>1, OneMoves DEF a
  <2>3. a' = a
    BY <1>3, <2>1, <2>2 DEF In, Leavers
  <2> QED
    BY <1>6, <1>13, <2>3 DEF JoinListed, q
<1>14. ASSUME NEW x \in Tasks, Accept(x) PROVE EveryoneCollected'
  BY <1>7, <1>14 DEF Accept
<1> QED
  BY <1>1, <1>7, <1>8, <1>9, <1>10, <1>11, <1>12, <1>13, <1>14, ResizeCalls DEF Next, ExitSteps, vars

LEMMA TypeInvNext == TypeInv /\ [Next]_vars => TypeInv'
  BY TypeOKStep, HandShapeStep, ThreadShapeStep, ListedJoinedStep, CollectedStep DEF TypeInv

LEMMA TypeInvAlways == Spec => []TypeInv
  BY TypeInvInit, TypeInvNext, PTL DEF Spec

\* The values of the queue, of the lists, of each thread's place and of the counters of tasks
\* (valvula_thread_pool.c, valvula_thread_pool_init and the loop of its threads).
THEOREM TypeCorrect == Spec => []TypeOK
<1>1. TypeInv => TypeOK
  BY DEF TypeInv
<1> QED
  BY <1>1, TypeInvAlways, PTL

\* Whoever left the pool has a beacon in the queue or a thread on its way to join it: no thread
\* that remove_internal stopped is forgotten, and the thread that pops a "collect" finds one.
THEOREM EveryoneIsCollected == Spec => []EveryoneCollected
<1>1. TypeInv => EveryoneCollected
  BY DEF TypeInv
<1> QED
  BY <1>1, TypeInvAlways, PTL


-----------------------------------------------------------------------------
(* Tasks.                                                                   *)

LEMMA HoldersType ==
  ASSUME NEW x
  PROVE  Cardinality(Holders(x)) \in Nat
<1>1. IsFiniteSet(Threads) /\ Holders(x) \in SUBSET Threads
  BY PoolAssumption DEF Holders
<1> QED
  BY <1>1, FS_Subset, FS_CardinalityType

\* What one thread holds changes.
LEMMA OneHolds ==
  ASSUME TypeOK, NEW t \in Threads, NEW y, hand' = [hand EXCEPT ![t] = y], NEW x
  PROVE  Cardinality(Holders(x))' = Cardinality(Holders(x)) - Same(hand[t], x) + Same(y, x)
<1> DEFINE g == hand'
<1>1. g[t] = y /\ Differ(Threads, hand, g, t)
  BY DEF TypeOK, Differ
<1>2. IsFiniteSet(Threads)
  BY PoolAssumption
<1>3. Holders(x)' = Into(Threads, g, {x}) /\ Holders(x) = Into(Threads, hand, {x})
  BY DEF Holders, Into
<1> HIDE DEF g
<1>4. Cardinality(Into(Threads, g, {x}))
         = Cardinality(Into(Threads, hand, {x})) - In(hand[t], {x}) + In(g[t], {x})
  BY ONLY <1>1, <1>2, OneChange, t \in Threads
<1>5. In(hand[t], {x}) = Same(hand[t], x) /\ In(y, {x}) = Same(y, x)
  BY DEF In, Same
<1> QED
  BY <1>1, <1>3, <1>4, <1>5

LEMMA CountedInit == Init => Counted
<1> SUFFICES ASSUME Init, NEW x \in Tasks
             PROVE  Same(new, x) + Cardinality(Places(queue, x)) + Cardinality(Holders(x))
                      + ran[x] + dropped[x] = In(x, accepted)
  BY DEF Counted
<1>1. Places(queue, x) = {} /\ Holders(x) = {}
  BY PoolAssumption DEF Init, Places, Holders
<1>2. Same(new, x) = 0 /\ In(x, accepted) = 0 /\ ran[x] = 0 /\ dropped[x] = 0
  BY PoolAssumption DEF Init, Same, In
<1> QED
  BY <1>1, <1>2, FS_EmptySet

LEMMA CountedStep == TypeInv /\ Counted /\ [Next]_vars => Counted'
<1> SUFFICES ASSUME TypeInv, Counted, [Next]_vars, NEW x \in Tasks
             PROVE  (Same(new, x) + Cardinality(Places(queue, x)) + Cardinality(Holders(x))
                      + ran[x] + dropped[x] = In(x, accepted))'
  BY DEF Counted
<1> DEFINE n == Same(new, x)
           q == Cardinality(Places(queue, x))
           h == Cardinality(Holders(x))
           r == ran[x] + dropped[x]
           a == In(x, accepted)
<1>1. TypeOK /\ queue \in Seq(Item)
  BY DEF TypeInv, TypeOK
<1>2. q \in Nat /\ h \in Nat /\ n \in Nat /\ a \in Nat /\ ran[x] \in Nat /\ dropped[x] \in Nat /\ r \in Nat
  BY <1>1, PlacesType, HoldersType DEF TypeOK, Same, In
<1>3. n + q + h + r = a
  <2>1. n + q + h + ran[x] + dropped[x] = a
    BY DEF Counted
  <2> HIDE DEF n, q, h, a
  <2> QED
    BY <1>2, <2>1
<1>4. TypeOK'
  BY TypeOKStep
<1>5. q' \in Nat /\ h' \in Nat /\ n' \in Nat /\ ran'[x] \in Nat /\ dropped'[x] \in Nat /\ r' \in Nat
  <2>1. Len(queue') \in Nat
    BY <1>4 DEF TypeOK
  <2>2. q' \in Nat
    BY <2>1, PlacesType
  <2>3. h' \in Nat
    BY FS_CardinalityType, FS_Subset, PoolAssumption DEF Holders
  <2> QED
    BY <1>4, <2>2, <2>3 DEF TypeOK, Same
<1>6. ASSUME n' + q' + h' + r' = a'
      PROVE  (Same(new, x) + Cardinality(Places(queue, x)) + Cardinality(Holders(x))
               + ran[x] + dropped[x] = In(x, accepted))'
  <2> HIDE DEF n, q, h, a
  <2>1. n' + q' + h' + ran'[x] + dropped'[x] = a'
    BY <1>5, <1>6
  <2> QED
    BY <2>1 DEF n, q, h, a
<1> DEFINE Goal == (Same(new, x) + Cardinality(Places(queue, x)) + Cardinality(Holders(x))
                      + ran[x] + dropped[x] = In(x, accepted))'
<1> HIDE DEF n, q, h, r, a, Goal
<1>7. x # "stop" /\ x # "remove" /\ x # "collect" /\ x # NULL
  BY PoolAssumption
<1>8. CASE UNCHANGED <<n, q, h, r, a>>
  BY <1>3, <1>6, <1>8
<1>9. CASE UNCHANGED <<queue, hand, taskVars>>
  BY <1>8, <1>9 DEF n, q, h, r, a, taskVars, Holders
<1>10. ASSUME NEW y \in Tasks, Accept(y) PROVE Goal
  <2>1. UNCHANGED <<q, h, r>>
    BY <1>10 DEF Accept, q, h, r, Holders
  <2>2. n = 0 /\ n' = Same(y, x)
    BY <1>7, <1>10 DEF Accept, n, Same
  <2>3. a' = a + Same(y, x)
    BY <1>10 DEF Accept, a, In, Same
  <2>4. Same(y, x) \in {0, 1}
    BY DEF Same
  <2> QED
    BY <1>2, <1>3, <1>6, <2>1, <2>2, <2>3, <2>4 DEF Goal
<1>11. CASE PushTask
  <2>1. UNCHANGED <<h, r, a>>
    BY <1>11 DEF PushTask, h, r, a, Holders
  <2>2. n' = 0 /\ new \in Item
    BY <1>1, <1>7, <1>11 DEF PushTask, n, Same, TypeOK, Item
  <2>3. q' = q + n
    BY <1>1, <1>11, <2>2, PlacesAppended DEF PushTask, q, n
  <2> QED
    BY <1>2, <1>3, <1>6, <2>1, <2>2, <2>3 DEF Goal
<1>12. ASSUME NEW p, Resizing(p) PROVE Goal
  <2>1. q' = q
    BY <1>1, <1>7, <1>12, ResizedQueue DEF q
  <2> QED
    BY <1>8, <1>12, <2>1 DEF Resizing, taskVars, n, h, r, a, Holders, Goal
<1>13. ASSUME NEW t \in Threads, Dispatcher(t) PROVE Goal
  <2>1. CASE Pop(t)
    <3>1. UNCHANGED <<n, r, a>>
      BY <2>1 DEF Pop, taskVars, n, r, a
    <3>2. q' = q - Same(Head(queue), x) /\ Head(queue) \in Item
      BY <1>1, <2>1, PlacesTail DEF Pop, q
    <3> DEFINE y == IF Head(queue) \in Tasks THEN Head(queue) ELSE NULL
    <3>3. hand' = [hand EXCEPT ![t] = y] /\ pc[t] = "pop"
      BY <2>1 DEF Pop
    <3>4. hand[t] = NULL
      BY <1>1, <3>3 DEF TypeInv, HandShape, TypeOK
    <3> HIDE DEF y
    <3>5. h' = h - Same(hand[t], x) + Same(y, x)
      BY <1>1, <3>3, OneHolds DEF h
    <3>6. Same(hand[t], x) = 0 /\ Same(y, x) = Same(Head(queue), x) /\ Same(y, x) \in {0, 1}
      BY <1>7, <3>4 DEF Same, y
    <3> QED
      BY <1>2, <1>3, <1>6, <3>1, <3>2, <3>5, <3>6 DEF Goal
  <2>2. CASE Timeout(t) \/ Unlink(t) \/ AppendStopped(t) \/ Finish(t) \/ Collect(t) \/ Joined(t)
    BY <1>9, <2>2 DEF Timeout, Unlink, AppendStopped, Finish, Collect, Joined, Goal
  <2>3. CASE Resize(t)
    BY <1>1, <1>12, <2>3, ResizeCalls
  <2>4. CASE Run(t)
    <3> DEFINE y == hand[t]
    <3>1. y \in Tasks
      BY <1>1, <2>4 DEF TypeInv, HandShape, TypeOK, Run
    <3>2. hand' = [hand EXCEPT ![t] = NULL]
      BY <2>4 DEF Run, Released
    <3>3. h' = h - Same(y, x) + Same(NULL, x)
      BY <1>1, <3>2, OneHolds DEF h
    <3>4. UNCHANGED <<n, q, a>>
      BY <2>4 DEF Run, n, q, a
    <3>5. r' = r + Same(y, x)
      <4>1. CASE ran' = [ran EXCEPT ![y] = @ + 1] /\ dropped' = dropped
        BY <1>1, <1>2, <3>1, <4>1 DEF TypeOK, r, Same
      <4>2. CASE dropped' = [dropped EXCEPT ![y] = @ + 1] /\ ran' = ran
        BY <1>1, <1>2, <3>1, <4>2 DEF TypeOK, r, Same
      <4> QED
        BY <2>4, <4>1, <4>2 DEF Run
    <3>6. Same(NULL, x) = 0 /\ Same(y, x) \in {0, 1}
      BY <1>7 DEF Same
    <3> HIDE DEF y
    <3> QED
      BY <1>2, <1>3, <1>6, <3>3, <3>4, <3>5, <3>6 DEF Goal
  <2>5. CASE Notify(t)
    <3>1. queue' = queue \o Copies(1, "collect")
      BY <2>5 DEF Notify, CollectBeacon, Copies
    <3>2. "collect" \in Item /\ 1 \in Nat
      BY DEF Item
    <3>3. q' = q
      BY <1>1, <1>7, <3>1, <3>2, PlacesCopied DEF q
    <3> QED
      BY <1>8, <2>5, <3>3 DEF Notify, taskVars, n, h, r, a, Holders, Goal
  <2> QED
    BY <1>13, <2>1, <2>2, <2>3, <2>4, <2>5 DEF Dispatcher
<1>14. CASE PushStop
  <2>1. queue' = Append(queue, "stop") /\ "stop" \in Item
    BY <1>14 DEF PushStop, Item
  <2>2. q' = q + Same("stop", x)
    BY <1>1, <2>1, PlacesAppended DEF q
  <2>3. q' = q
    BY <1>2, <1>7, <2>2 DEF Same
  <2> QED
    BY <1>8, <1>14, <2>3 DEF PushStop, taskVars, n, h, r, a, Holders, Goal
<1>15. CASE \/ SetExit \/ BeingClosed \/ ReaderStopped \/ PushedAll \/ JoinedListed \/ JoinStopped
            \/ FreePool \/ (\E t \in Threads : JoinListed(t)) \/ UNCHANGED vars
  BY <1>9, <1>15 DEF SetExit, BeingClosed, ReaderStopped, PushedAll, JoinedListed, JoinStopped, FreePool,
                     JoinListed, vars, Goal
<1>16. ASSUME \/ ReaderResize
              \/ \E k \in 1..Cardinality(Threads) : Add(k) \/ Remove(k)
       PROVE  Goal
  BY <1>1, <1>12, <1>16, ResizeCalls
<1> QED
  BY <1>10, <1>11, <1>13, <1>14, <1>15, <1>16 DEF Next, ExitSteps, Goal

\* A task that valvula_thread_pool_new_task accepted is about to be pushed, in the queue, held by
\* one thread, or was run or dropped exactly once: none is lost and none is run twice, whatever
\* threads come and go (valvula_thread_pool.c:314-435, 916-960).
THEOREM TasksAreInOnePlace == Spec => []TasksInOnePlace
<1>1. TypeInv /\ Counted => TasksInOnePlace
  <2> SUFFICES ASSUME Counted, NEW x \in accepted, x \in Tasks
               PROVE  (IF new = x THEN 1 ELSE 0) + Queued(x) + Cardinality({t \in Threads : hand[t] = x})
                        + ran[x] + dropped[x] = 1
    BY DEF TasksInOnePlace, TypeInv, TypeOK
  <2>1. Same(new, x) + Cardinality(Places(queue, x)) + Cardinality(Holders(x)) + ran[x] + dropped[x] = 1
    BY DEF Counted, In
  <2> QED
    BY <2>1 DEF Same, Places, Holders, Queued
<1>2. Init => Counted
  BY CountedInit
<1>3. TypeInv /\ Counted /\ [Next]_vars => Counted'
  BY CountedStep
<1> QED
  BY <1>1, <1>2, <1>3, TypeInvAlways, PTL DEF Spec


-----------------------------------------------------------------------------
(* A thread remains.                                                        *)

LEMMA FewerLeaveInit == Init => FewerLeave
<1> SUFFICES ASSUME Init PROVE FewerLeave
  OBVIOUS
<1>1. Places(queue, "remove") = {} /\ At({"remove"}) = {}
  BY DEF Init, Places, At
<1>2. IsFiniteSet(Base) /\ Base # {}
  BY PoolAssumption, FS_Subset
<1>3. Cardinality(Base) \in Nat /\ Cardinality(Base) # 0
  BY <1>2, FS_CardinalityType, FS_EmptySet
<1>4. Cardinality(Places(queue, "remove")) = 0 /\ Cardinality(At({"remove"})) = 0 /\ threads = Base
  BY <1>1, FS_EmptySet DEF Init
<1> QED
  BY <1>3, <1>4 DEF FewerLeave

LEMMA FewerLeaveStep ==
  ASSUME ~ OverlappingRemovals
  PROVE  TypeInv /\ FewerLeave /\ [Next]_vars => FewerLeave'
<1> SUFFICES ASSUME TypeInv, FewerLeave, [Next]_vars PROVE FewerLeave'
  OBVIOUS
<1> DEFINE q == Cardinality(Places(queue, "remove"))
           a == Cardinality(At({"remove"}))
           c == Cardinality(threads)
<1>1. TypeOK /\ queue \in Seq(Item)
  BY DEF TypeInv, TypeOK
<1>2. q \in Nat /\ a \in Nat /\ c \in Nat
  BY <1>1, PlacesType, ThreadsFinite
<1>3. ~ IsExiting => q + a < c
  BY DEF FewerLeave
<1>4. ASSUME ~ IsExiting' => q' + a' < c'
      PROVE  FewerLeave'
  BY <1>4 DEF FewerLeave
<1> HIDE DEF q, a, c
<1>5. CASE IsExiting'
  BY <1>4, <1>5
<1>6. CASE UNCHANGED <<q, a, c>> /\ IsExiting' = IsExiting
  BY <1>3, <1>4, <1>6
<1>7. CASE UNCHANGED <<queue, threads, pc, main>>
  BY <1>6, <1>7 DEF q, a, c, At, IsExiting
<1>8. CASE PushTask \/ PushStop
  <2>1. PICK e \in Item : queue' = Append(queue, e) /\ e # "remove"
    BY <1>1, <1>8, PoolAssumption DEF PushTask, PushStop, Item, TypeOK
  <2>2. q' = q + Same(e, "remove")
    BY <1>1, <2>1, PlacesAppended DEF q
  <2>3. UNCHANGED <<threads, pc, main>>
    BY <1>8 DEF PushTask, PushStop
  <2>4. UNCHANGED <<a, c>> /\ IsExiting' = IsExiting
    BY <2>3 DEF a, c, At, IsExiting
  <2> QED
    BY <1>2, <1>6, <2>1, <2>2, <2>4 DEF Same
<1>9. ASSUME NEW p, Resizing(p) PROVE FewerLeave'
  <2>1. At({"remove"})' = At({"remove"})
    BY <1>1, <1>9, ResizedCounters DEF At
  <2>2. a' = a /\ IsExiting' = IsExiting
    BY <1>9, <2>1 DEF a, Resizing, IsExiting
  <2>3. CASE UNCHANGED <<queue, threads>>
    BY <1>6, <2>2, <2>3 DEF q, c
  <2>4. CASE Started(p)
    <3>1. threads \subseteq threads' /\ threads' \subseteq Threads
      BY <1>1, <1>9, ResizedCounters
    <3>2. IsFiniteSet(threads')
      BY <3>1, PoolAssumption, FS_Subset
    <3>3. c <= c' /\ c' \in Nat
      BY <3>1, <3>2, FS_Subset, FS_CardinalityType DEF c
    <3>4. q' = q
      BY <2>4 DEF Started, q
    <3> QED
      BY <1>2, <1>3, <1>4, <2>2, <3>3, <3>4
  <2>5. CASE Beaconed(p)
    <3>1. q = 0 /\ a = 0
      <4>1. ~ Removing /\ Queued("remove") = q
        BY <2>5 DEF Beaconed, MayRemove, Queued, q, Places
      <4>2. q = 0
        BY <1>2, <4>1 DEF Removing
      <4>3. At({"remove"}) = {}
        BY <4>1 DEF Removing, At
      <4> QED
        BY <4>2, <4>3, FS_EmptySet DEF a
    <3>2. PICK n \in Nat : queue' = queue \o Copies(n, "remove") /\ (n = 0 \/ n < c)
      BY <2>5 DEF Beaconed, c
    <3>3. "remove" \in Item
      BY DEF Item
    <3>4. q' = q + n
      BY <1>1, <3>2, <3>3, PlacesCopied DEF q
    <3>5. c' = c /\ ~ IsExiting
      BY <2>5 DEF Beaconed, c
    <3> QED
      BY <1>2, <1>3, <1>4, <2>2, <3>1, <3>2, <3>4, <3>5
  <2> QED
    BY <1>9, <2>3, <2>4, <2>5 DEF Resizing
<1>10. ASSUME NEW t \in Threads, Dispatcher(t) PROVE FewerLeave'
  <2>1. CASE Pop(t)
    <3>1. pc[t] = "pop" /\ pc' = [pc EXCEPT ![t] = Dispatch(Head(queue))]
      BY <2>1 DEF Pop, GoTo
    <3>2. a' = a - In(pc[t], {"remove"}) + In(Dispatch(Head(queue)), {"remove"})
      BY <1>1, <3>1, OneMoves DEF a
    <3>3. q' = q - Same(Head(queue), "remove")
      BY <1>1, <2>1, PlacesTail DEF Pop, q
    <3>4. Dispatch(Head(queue)) = "remove" <=> Head(queue) = "remove"
      BY <1>1, <2>1, FirstOfQueue, PoolAssumption DEF Pop, Dispatch, Item
    <3>5. q' + a' = q + a
      BY <1>2, <3>1, <3>2, <3>3, <3>4 DEF In, Same
    <3> QED
      BY <1>3, <1>4, <2>1, <3>5 DEF Pop, c, IsExiting
  <2>2. CASE \/ Timeout(t) \/ Run(t) \/ AppendStopped(t) \/ Finish(t) \/ Collect(t)
    <3>1. PICK where \in Steps \ {"remove"} : pc' = [pc EXCEPT ![t] = where]
      BY <2>2 DEF Timeout, Run, AppendStopped, Finish, Collect, GoTo, Steps
    <3>2. pc[t] # "remove" /\ UNCHANGED <<queue, threads, main>>
      BY <2>2 DEF Timeout, Run, AppendStopped, Finish, Collect
    <3>3. a' = a - In(pc[t], {"remove"}) + In(where, {"remove"})
      BY <1>1, <3>1, OneMoves DEF a
    <3>4. a' = a
      BY <1>2, <3>1, <3>2, <3>3 DEF In
    <3> QED
      BY <1>6, <3>2, <3>4 DEF q, c, IsExiting
  <2>3. CASE Resize(t)
    BY <1>1, <1>9, <2>3, ResizeCalls
  <2>4. CASE Unlink(t)
    <3>1. a' = a - 1
      <4>1. pc[t] = "remove" /\ pc' = [pc EXCEPT ![t] = "unlinked"]
        BY <2>4 DEF Unlink, GoTo
      <4>2. a' = a - In(pc[t], {"remove"}) + In("unlinked", {"remove"})
        BY <1>1, <4>1, OneMoves DEF a
      <4> QED
        BY <1>2, <4>1, <4>2 DEF In
    <3>2. t \in threads /\ threads' = threads \ {t} /\ q' = q /\ main' = main
      BY <2>4 DEF Unlink, TypeInv, ThreadShape, Working, q
    <3>3. c' = c - 1
      BY <1>1, <3>2, ThreadsFinite, FS_RemoveElement DEF c
    <3> QED
      BY <1>2, <1>3, <1>4, <3>1, <3>2, <3>3 DEF IsExiting
  <2>5. CASE Notify(t)
    <3>1. a' = a
      <4>1. pc[t] = "notify" /\ pc' = [pc EXCEPT ![t] = "exit"]
        BY <2>5 DEF Notify, GoTo
      <4>2. a' = a - In(pc[t], {"remove"}) + In("exit", {"remove"})
        BY <1>1, <4>1, OneMoves DEF a
      <4> QED
        BY <1>2, <4>1, <4>2 DEF In
    <3>2. q' = q
      <4>1. queue' = queue \o Copies(1, "collect")
        BY <2>5 DEF Notify, CollectBeacon, Copies
      <4>2. "collect" \in Item /\ 1 \in Nat
        BY DEF Item
      <4> QED
        BY <1>1, <4>1, <4>2, PlacesCopied DEF q
    <3> QED
      BY <1>6, <2>5, <3>1, <3>2 DEF Notify, c, IsExiting
  <2>6. CASE Joined(t)
    <3>1. PICK u \in Threads : u = Head(stopped) /\ stopped # <<>>
      BY <2>6, SomeoneToJoin DEF Joined
    <3>2. /\ pc[t] = "join" /\ pc[u] = "done" /\ t # u
          /\ BothMove(t, "pop", u, "joined")
      BY <2>6, <3>1 DEF Joined, BothMove
    <3>3. a' = a - In(pc[t], {"remove"}) + In("pop", {"remove"})
                 - In(pc[u], {"remove"}) + In("joined", {"remove"})
      BY <1>1, <3>1, <3>2, TwoMove DEF a
    <3>4. a' = a
      BY <1>2, <3>2, <3>3 DEF In
    <3> QED
      BY <1>6, <2>6, <3>4 DEF Joined, q, c, IsExiting
  <2> QED
    BY <1>10, <2>1, <2>2, <2>3, <2>4, <2>5, <2>6 DEF Dispatcher
<1>11. ASSUME NEW t \in Threads, JoinListed(t) PROVE FewerLeave'
  BY <1>5, <1>11 DEF JoinListed, IsExiting
<1>12. CASE SetExit \/ BeingClosed \/ ReaderStopped \/ PushedAll \/ JoinedListed \/ JoinStopped \/ FreePool
  BY <1>5, <1>12 DEF SetExit, BeingClosed, ReaderStopped, PushedAll, JoinedListed, JoinStopped,
                     FreePool, IsExiting
<1>13. ASSUME NEW x \in Tasks, Accept(x) PROVE FewerLeave'
  BY <1>7, <1>13 DEF Accept
<1> QED
  BY <1>1, <1>7, <1>8, <1>9, <1>10, <1>11, <1>12, <1>13, ResizeCalls DEF Next, ExitSteps, vars

\* As long as no removal starts before the last has ended the pool keeps a thread until the exit:
\* valvula_thread_pool_remove_internal (valvula_thread_pool.c:762) pushes one beacon less than
\* there are threads, but does not know of the threads that are already to leave.
THEOREM SomeThreadRemains ==
  ASSUME ~ OverlappingRemovals
  PROVE  Spec => []SomeThread
<1>1. TypeInv /\ FewerLeave => SomeThread
  <2> SUFFICES ASSUME TypeInv, FewerLeave, ~ IsExiting PROVE threads # {}
    BY DEF SomeThread
  <2>1. Cardinality(Places(queue, "remove")) \in Nat /\ Cardinality(At({"remove"})) \in Nat
    BY PlacesType, ThreadsFinite DEF TypeInv, TypeOK
  <2>2. Cardinality(threads) # 0
    BY <2>1 DEF FewerLeave
  <2> QED
    BY <2>2, FS_EmptySet
<1>2. Init => FewerLeave
  BY FewerLeaveInit
<1>3. TypeInv /\ FewerLeave /\ [Next]_vars => FewerLeave'
  BY FewerLeaveStep
<1> QED
  BY <1>1, <1>2, <1>3, TypeInvAlways, PTL DEF Spec

-----------------------------------------------------------------------------
(* The pool is freed last.                                                  *)

LEMMA NobodyLeavesStep ==
  ASSUME ~ ExitDuringRemoval
  PROVE  TypeInv /\ NobodyLeaves /\ [Next]_vars => NobodyLeaves'
<1> SUFFICES ASSUME TypeInv, NobodyLeaves, [Next]_vars, IsExiting' PROVE ~ Removing'
  BY DEF NobodyLeaves
<1> DEFINE q == Cardinality(Places(queue, "remove"))
           L == At({"remove", "unlinked"})
<1>1. TypeOK /\ queue \in Seq(Item)
  BY DEF TypeInv, TypeOK
<1>2. q \in Nat /\ TypeOK'
  BY <1>1, PlacesType, TypeOKStep
<1>3. q' \in Nat
  BY <1>2, PlacesType DEF TypeOK
<1>4. (Removing <=> q > 0 \/ L # {}) /\ (Removing' <=> q' > 0 \/ L' # {})
  BY DEF Removing, Queued, Places
<1>5. ASSUME IsExiting
      PROVE  q = 0 /\ L = {}
  <2>1. ~ (q > 0) /\ L = {}
    BY <1>4, <1>5 DEF NobodyLeaves
  <2> HIDE DEF q, L
  <2> QED
    BY <1>2, <2>1
<1> HIDE DEF q, L
<1>6. ASSUME q' = 0, L' = {}
      PROVE  ~ Removing'
  BY <1>4, <1>6
<1>7. CASE IsExiting /\ UNCHANGED <<queue, pc>>
  BY <1>5, <1>6, <1>7 DEF q, L, At
<1>8. CASE PushTask \/ PushStop
  <2>1. PICK e \in Item : queue' = Append(queue, e) /\ e # "remove"
    BY <1>1, <1>8, PoolAssumption DEF PushTask, PushStop, Item, TypeOK
  <2>2. q' = q + Same(e, "remove")
    BY <1>1, <2>1, PlacesAppended DEF q
  <2>3. UNCHANGED <<pc, main>>
    BY <1>8 DEF PushTask, PushStop
  <2>4. UNCHANGED L /\ IsExiting
    BY <2>3 DEF L, At, IsExiting
  <2> QED
    BY <1>5, <1>6, <2>1, <2>2, <2>4 DEF Same
<1>9. ASSUME NEW p, Resizing(p) PROVE ~ Removing'
  <2>1. L' = L /\ IsExiting
    BY <1>1, <1>9, ResizedCounters DEF L, At, Resizing, IsExiting
  <2>2. queue' = queue
    BY <1>9, <2>1 DEF Resizing, Started, Beaconed
  <2> QED
    BY <1>5, <1>6, <2>1, <2>2 DEF q
<1>10. ASSUME NEW t \in Threads, Dispatcher(t) PROVE ~ Removing'
  <2>1. CASE Resize(t)
    BY <1>1, <1>9, <2>1, ResizeCalls
  <2>2. IsExiting
    BY <1>10 DEF Dispatcher, Pop, Timeout, Resize, Run, Unlink, AppendStopped, Notify, Finish, Collect,
                 Joined, IsExiting
  <2>3. q = 0 /\ \A u \in Threads : pc[u] \notin {"remove", "unlinked"}
    BY <1>5, <2>2 DEF L, At
  <2>4. pc \in [Threads -> Steps]
    BY <1>1 DEF TypeOK, Steps
  <2>5. CASE Pop(t)
    <3>1. q' = q - Same(Head(queue), "remove")
      BY <1>1, <2>5, PlacesTail DEF Pop, q
    <3>2. Head(queue) # "remove" /\ q' = 0
      <4>1. q = 0 /\ q' \in Nat
        BY <1>3, <2>3
      <4>2. Same(Head(queue), "remove") = 0
        BY <3>1, <4>1 DEF Same
      <4>3. Head(queue) # "remove"
        BY ONLY <4>2 DEF Same
      <4>4. q' = 0
        BY ONLY <3>1, <4>1, <4>2
      <4> QED
        BY <4>3, <4>4
    <3>3. Dispatch(Head(queue)) \notin {"remove", "unlinked"}
      BY <1>1, <2>5, <3>2, FirstOfQueue, PoolAssumption DEF Pop, Dispatch, Item
    <3>4. \A u \in Threads : pc'[u] \notin {"remove", "unlinked"}
      BY <2>3, <2>4, <2>5, <3>3 DEF Pop, GoTo
    <3> QED
      BY <1>6, <3>2, <3>4 DEF L, At
  <2>6. CASE Timeout(t) \/ Run(t) \/ Finish(t) \/ Collect(t)
    <3>1. \A u \in Threads : pc'[u] \notin {"remove", "unlinked"}
      BY <2>3, <2>4, <2>6 DEF Timeout, Run, Finish, Collect, GoTo
    <3> QED
      BY <1>6, <2>3, <2>6, <3>1 DEF Timeout, Run, Finish, Collect, q, L, At
  <2>7. CASE Unlink(t) \/ AppendStopped(t)
    BY <2>3, <2>7 DEF Unlink, AppendStopped
  <2>8. CASE Notify(t)
    <3>1. \A u \in Threads : pc'[u] \notin {"remove", "unlinked"}
      BY <2>3, <2>4, <2>8 DEF Notify, GoTo
    <3>2. queue' = queue \o Copies(1, "collect")
      BY <2>8 DEF Notify, CollectBeacon, Copies
    <3>3. "collect" \in Item /\ 1 \in Nat
      BY DEF Item
    <3>4. q' = q
      BY <1>1, <3>2, <3>3, PlacesCopied DEF q
    <3> QED
      BY <1>6, <2>3, <3>1, <3>4 DEF L, At
  <2>9. CASE Joined(t)
    <3>1. Head(stopped) \in Threads
      BY <2>9, SomeoneToJoin DEF Joined
    <3>2. \A u \in Threads : pc'[u] \notin {"remove", "unlinked"}
      BY <2>3, <2>4, <2>9, <3>1 DEF Joined
    <3> QED
      BY <1>6, <2>3, <2>9, <3>2 DEF Joined, q, L, At
  <2> QED
    BY <1>10, <2>1, <2>5, <2>6, <2>7, <2>8, <2>9 DEF Dispatcher
<1>11. CASE SetExit
  BY <1>11 DEF SetExit, Removing, Queued, At
<1>12. CASE BeingClosed \/ ReaderStopped \/ PushedAll \/ JoinedListed \/ FreePool
  BY <1>7, <1>12 DEF BeingClosed, ReaderStopped, PushedAll, JoinedListed, FreePool, IsExiting
<1>13. CASE JoinStopped \/ \E t \in Threads : JoinListed(t)
  <2>1. IsExiting /\ queue' = queue /\ pc \in [Threads -> Steps]
    BY <1>1, <1>13 DEF JoinStopped, JoinListed, IsExiting, TypeOK, Steps
  <2>2. \A u \in Threads : pc[u] \notin {"remove", "unlinked"}
    BY <1>5, <2>1 DEF L, At
  <2>3. \A u \in Threads : pc'[u] \notin {"remove", "unlinked"}
    BY <1>13, <2>1, <2>2 DEF JoinStopped, JoinListed, GoTo
  <2> QED
    BY <1>5, <1>6, <2>1, <2>3 DEF q, L, At
<1>14. CASE (\E x \in Tasks : Accept(x)) \/ UNCHANGED vars
  BY <1>7, <1>14 DEF Accept, vars, IsExiting
<1>15. ASSUME ReaderResize \/ \E n \in 1..Cardinality(Threads) : Add(n) \/ Remove(n)
       PROVE  ~ Removing'
  BY <1>1, <1>9, <1>15, ResizeCalls
<1> QED
  BY <1>8, <1>10, <1>11, <1>12, <1>13, <1>14, <1>15 DEF Next, ExitSteps

LEMMA StoppedJoinedStep == TypeInv /\ NobodyLeaves /\ StoppedJoined /\ [Next]_vars => StoppedJoined'
<1> SUFFICES ASSUME TypeInv, NobodyLeaves, StoppedJoined, [Next]_vars PROVE StoppedJoined'
  OBVIOUS
<1>1. CASE UNCHANGED <<stopped, main>>
  BY <1>1 DEF StoppedJoined
<1>2. CASE main' # "freed"
  BY <1>2 DEF StoppedJoined
<1>3. CASE FreePool
  BY <1>3 DEF FreePool, StoppedJoined
<1>4. ASSUME NEW t \in Threads, AppendStopped(t) PROVE StoppedJoined'
  <2>1. ~ IsExiting
    <3>1. t \in At({"remove", "unlinked"})
      BY <1>4 DEF AppendStopped, At
    <3> QED
      BY <3>1 DEF NobodyLeaves, Removing
  <2> QED
    BY <1>4, <2>1 DEF AppendStopped, IsExiting, StoppedJoined
<1>5. ASSUME NEW t \in Threads, Joined(t) PROVE StoppedJoined'
  <2>1. stopped # <<>>
    BY <1>5, SomeoneToJoin DEF Joined
  <2> QED
    BY <1>5, <2>1 DEF Joined, StoppedJoined
<1>6. ASSUME NEW p, Resizing(p) PROVE StoppedJoined'
  BY <1>1, <1>6 DEF Resizing
<1>7. CASE JoinStopped
  BY <1>2, <1>7 DEF JoinStopped
<1>8. \A t \in Threads : Dispatcher(t) => \/ Resize(t) \/ AppendStopped(t) \/ Joined(t)
                                          \/ UNCHANGED <<stopped, main>>
  BY DEF Dispatcher, Pop, Timeout, Run, Unlink, Notify, Finish, Collect
<1>9. TypeOK
  BY DEF TypeInv
<1> QED
  BY <1>1, <1>2, <1>3, <1>4, <1>5, <1>6, <1>7, <1>8, <1>9, ResizeCalls
     DEF Next, ExitSteps, Accept, PushTask, SetExit, BeingClosed, ReaderStopped, PushStop, PushedAll,
         JoinListed, JoinedListed, vars

\* When the exit starts with no removal on its way, valvula_thread_pool_exit frees the pool, its
\* queue and its mutexes after the last thread has been joined (valvula_thread_pool.c:814-880).
THEOREM PoolOutlivesItsThreads ==
  ASSUME ~ ExitDuringRemoval
  PROVE  Spec => []PoolOutlivesThreads
<1>1. TypeInv /\ NobodyLeaves /\ StoppedJoined => PoolOutlivesThreads
  <2> SUFFICES ASSUME TypeInv, NobodyLeaves, StoppedJoined, main = "freed", NEW t \in Threads
               PROVE  pc[t] \in {"none", "joined"}
    BY DEF PoolOutlivesThreads
  <2>1. threads = {} /\ stopped = <<>>
    BY DEF TypeInv, ListedJoined, StoppedJoined
  <2>2. pc[t] \notin Working /\ pc[t] \notin Ending
    BY <2>1 DEF TypeInv, ThreadShape, InStopped
  <2>3. pc[t] # "unlinked"
    <3>1. pc[t] = "unlinked" => t \in At({"remove", "unlinked"})
      BY DEF At
    <3> QED
      BY <3>1 DEF NobodyLeaves, Removing, IsExiting
  <2> QED
    BY <2>2, <2>3 DEF TypeInv, TypeOK, Working, Ending
<1>2. Init => NobodyLeaves /\ StoppedJoined
  BY DEF Init, NobodyLeaves, StoppedJoined, IsExiting
<1>3. TypeInv /\ NobodyLeaves /\ [Next]_vars => NobodyLeaves'
  BY NobodyLeavesStep
<1>4. TypeInv /\ NobodyLeaves /\ StoppedJoined /\ [Next]_vars => StoppedJoined'
  BY StoppedJoinedStep
<1> QED
  BY <1>1, <1>2, <1>3, <1>4, TypeInvAlways, PTL DEF Spec

=============================================================================
