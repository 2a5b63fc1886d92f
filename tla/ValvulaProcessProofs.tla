------------------------ MODULE ValvulaProcessProofs ------------------------
(***************************************************************************)
(* What ValvulaProcess promises for any threads, modules, ports and        *)
(* handlers: no thread runs the code of a module that is not mapped or not *)
(* initialised, and the context lives as long as somebody works with it.   *)
(***************************************************************************)
EXTENDS ValvulaProcess, FiniteSetTheorems, WellFoundedInduction, TLAPS

-----------------------------------------------------------------------------
(* The inductive invariant.                                                 *)

\* A thread runs a module only for a request or an event, and one that crashes in it stays.
CallShape ==
    /\ \A t \in Threads : call[t] # NULL => worker[t] = "busy"
    /\ crash # "none" => crashed \in Threads /\ call[crashed] # NULL

\* The registered files come before the one that is being loaded, which is mapped.
LoadShape ==
    /\ main \in {"down", "config", "pid", "listen"} => registered = <<>>
    /\ main \in {"load", "exists", "init", "register"} =>
           \A i \in DOMAIN registered : \E j \in 1 .. at - 1 : registered[i] = Files[j]
    /\ main \in {"exists", "init", "register"} => at <= Len(Files) /\ Files[at] \in mapped

\* The files whose init has succeeded.
Settled == ToSet(registered) \cup IF main = "register" THEN {Files[at]} ELSE {}

\* Until the threads have been joined the module of a thread, of a callback or of a handler
\* is one of them.
Joined == main \in {"free", "close", "unmap"}
CodeShape ==
    crash = "none" /\ ~ Joined =>
        /\ Settled \subseteq mapped \cap ready
        /\ callbacks \subseteq Settled
        /\ \A h \in handlers : h.file \in Settled
        /\ \A t \in Threads : call[t] # NULL => call[t] \in Settled

\* When a process is down nothing is left of it.
DownShape == main = "down" => registered = <<>> /\ crash = "none" /\ refs = 0 /\ Live = {} /\ ~ exiting

\* Unless a thread has crashed only the main thread exits, and it joins the threads.
Exiting == {"closed", "reader", "unlock", "join", "free", "close", "unmap"}
ExitShape ==
    /\ crash = "none" => /\ exiting => main \in Exiting
                         /\ Joined => Live = {}
    /\ main = "free" => crash = "none"

\* The references are those of the threads, and the first until it is given back.
RefsShape ==
    /\ refs = Cardinality(Live) \/ refs = Cardinality(Live) + 1
    /\ refs = Cardinality(Live) => \/ main \in {"down", "close", "unmap"} /\ crash = "none"
                                   \/ crash = "close"
    /\ main = "close" /\ crash = "none" => refs = Cardinality(Live)

TypeInv == TypeOK /\ CallShape /\ DownShape /\ ExitShape
IInv == TypeInv /\ LoadShape /\ CodeShape /\ RefsShape


-----------------------------------------------------------------------------
(* What the steps do, apart from the variables the invariant leaves out.    *)

\* The ways to die.
Ends ==
    \/ ConfigFails \/ PidFileFound \/ ListenFails \/ UserUnknown \/ DomainsFail \/ Return
    \/ Killed \/ Backtrace \/ Execv

LEMMA EndsDies == Ends => Dies /\ starts' = starts /\ action' = action
                          /\ pidfile' \in {pidfile, FALSE} /\ skipPid' \in BOOLEAN
  BY DEF Ends, ConfigFails, PidFileFound, ListenFails, UserUnknown, DomainsFail, Return, Killed,
         Backtrace, Execv, RunConfigFails

\* The steps of the start that only go on to another place.
Passes ==
    \/ ConfigLoaded \/ PlacePidFile \/ Listen \/ Loaded \/ HandlersRegistered
    \/ DomainsConfigured \/ WaitTest \/ WaitCreate \/ WaitTake \/ WaitEnter \/ WaitPop

Before == {"config", "pid", "listen", "load", "handlers", "domains", "wait", "create", "take",
           "taken", "pop"}
After == {"pid", "listen", "load", "handlers", "domains", "wait", "create", "take", "taken", "pop",
          "exit"}

LEMMA PassesOn ==
  ASSUME Passes
  PROVE  /\ main \in Before /\ main' \in After
         /\ (main' = main \/ at' = 1)
         /\ main' = main => at' = at
         /\ UNCHANGED <<modules, refs, exiting, stopping, accepting, work, crash, crashed, signal,
                        starts, action, skipPid>>
  BY DEF Passes, ConfigLoaded, PlacePidFile, Listen, Loaded, HandlersRegistered, DomainsConfigured,
         WaitTest, WaitCreate, WaitTake, WaitEnter, WaitPop, Goto, Before, After, boot, library,
         modules, wait, work, signals

\* A signal that is heard changes the wait, and nothing else.
Hears == Signal \/ SignalQueue \/ SignalNoQueue \/ SignalFlag \/ RemovePidFile

LEMMA HearsOnly ==
  ASSUME Hears
  PROVE  UNCHANGED <<main, at, library, modules, work, crash, crashed, starts, action, skipPid>>
  BY DEF Hears, Signal, SignalQueue, SignalNoQueue, SignalFlag, RemovePidFile, boot, library, modules,
         wait, work, signals

\* A file is opened, refused, initialised or registered.
Loads ==
    \/ OpenFails \/ Open \/ NameTaken \/ NameIsNew \/ InitFails \/ Register
    \/ \E installs \in BOOLEAN : InitModule(installs)

LEMMA LoadsOnly ==
  ASSUME Loads
  PROVE  /\ main \in {"load", "exists", "init", "register"} /\ (main = "load" => at <= Len(Files))
         /\ main' \in {"load", "exists", "init", "register"}
         /\ UNCHANGED <<boot, library, handlers, wait, work, signals>>
  BY DEF Loads, OpenFails, Open, NameTaken, NameIsNew, InitFails, Register, InitModule, NextFile,
         modules

\* A step of the exit.
Quits ==
    \/ ExitCtx \/ BeingClosed \/ ReaderStop \/ ExitUnlock \/ Join \/ FreeCtx \/ CloseModule
    \/ ModulesClosed \/ Unmap

LEMMA QuitsOnly ==
  ASSUME Quits
  PROVE  /\ main \in {"exit", "closed", "reader", "unlock", "join", "free", "close", "unmap"}
         /\ main' \in {"closed", "reader", "unlock", "join", "free", "close", "unmap"}
         /\ main' = "free" \/ Joined' => Joined \/ (main = "join" /\ Live = {}) \/ exiting
         /\ ~ Joined => UNCHANGED modules
         /\ UNCHANGED <<work, signals, callbacks>>
  BY DEF Quits, ExitCtx, BeingClosed, ReaderStop, ExitUnlock, Join, Ended, FreeCtx, CloseModule,
         ModulesClosed, Unmap, Goto, Joined, modules, work, signals

\* A step of a thread of the pool.
Works(t) ==
    \/ \E p \in Ports : Accept(t, p)
    \/ \E f \in FileSet : Event(t, f)
    \/ Handle(t) \/ Dunno(t) \/ Finish(t) \/ WorkerEnds(t)

LEMMA WorksOnly ==
  ASSUME NEW t \in Threads, Works(t)
  PROVE  /\ UNCHANGED <<main, at, modules, exiting, signals>>
         /\ worker[t] = "idle" \/ worker[t] = "busy" \/ call[t] # NULL
         /\ refs' = refs \/ WorkerEnds(t)
  BY DEF Works, Accept, Event, Handle, Dunno, Finish, Idle, Running, WorkerEnds, modules, signals,
         library, work

LEMMA Steps ==
  ASSUME [Next]_vars
  PROVE  \/ Ends \/ (\E S \in SUBSET Threads : Start(S))
         \/ Passes \/ Hears \/ Loads \/ RegisterHandler \/ Quits
         \/ (\E t \in Threads : Works(t) \/ Crash(t))
         \/ Reexec \/ UNCHANGED vars
  BY DEF Next, Main, Boot, SignalHandler, WorkerEnd, Ends, Passes, Hears, Loads, Quits, Works

LEMMA ToSetAppended ==
  ASSUME NEW S, NEW s \in Seq(S), NEW e
  PROVE  ToSet(Append(s, e)) = ToSet(s) \cup {e}
<1>1. Len(s) \in Nat /\ DOMAIN s = 1..Len(s) /\ DOMAIN Append(s, e) = 1 .. Len(s) + 1
  OBVIOUS
<1>2. \A i \in 1..Len(s) : Append(s, e)[i] = s[i]
  OBVIOUS
<1>3. Append(s, e)[Len(s) + 1] = e
  OBVIOUS
<1> QED
  BY <1>1, <1>2, <1>3 DEF ToSet

LEMMA LeastNumber ==
  ASSUME NEW S \in SUBSET Nat, S # {}
  PROVE  \E n \in S : \A m \in S : n <= m
<1> DEFINE Smaller == {p \in Nat \X Nat : p[1] < p[2]}
<1>1. IsWellFoundedOn(Smaller, Nat)
  <2>1. Smaller = OpToRel(<, Nat)
    BY DEF OpToRel
  <2> QED
    BY <2>1, NatLessThanWellFounded
<1>2. \A n, m \in Nat : <<n, m>> \in Smaller <=> n < m
  OBVIOUS
<1> HIDE DEF Smaller
<1>3. PICK n \in S : \A m \in S : <<m, n>> \notin Smaller
  BY <1>1, WFMin
<1>4. ASSUME NEW m \in S PROVE n <= m
  <2>1. n \in Nat /\ m \in Nat /\ ~ (m < n)
    BY <1>2, <1>3
  <2> QED
    BY <2>1
<1> QED
  BY <1>4

\* The handler a request comes to is registered.
LEMMA NextHandler ==
  ASSUME TypeOK, NEW t \in Threads, Handle(t)
  PROVE  \E h \in handlers : /\ worker[t] = "busy" /\ h.file \in FileSet /\ h.prio \in Nat
                             /\ call' = [call EXCEPT ![t] = h.file]
                             /\ prio' = [prio EXCEPT ![t] = h.prio]
<1> DEFINE First(g) == \A o \in Pending(t) : g.prio <= o.prio
           h == CHOOSE g \in Pending(t) : First(g)
<1>1. Pending(t) # {} /\ Pending(t) \subseteq [port : Ports, prio : Nat, file : FileSet]
  BY DEF Handle, Pending, TypeOK
<1>2. \E g \in Pending(t) : First(g)
  <2> DEFINE N == {g.prio : g \in Pending(t)}
  <2>1. N \in SUBSET Nat /\ N # {}
    BY <1>1
  <2>2. PICK n \in N : \A m \in N : n <= m
    BY <2>1, LeastNumber
  <2> QED
    BY <2>2
<1>3. h \in Pending(t)
  BY <1>2
<1>4. h \in handlers /\ h.file \in FileSet /\ h.prio \in Nat
  BY <1>1, <1>3 DEF Pending
<1>5. /\ worker[t] = "busy" /\ call' = [call EXCEPT ![t] = h.file]
      /\ prio' = [prio EXCEPT ![t] = h.prio]
  BY DEF Handle
<1> HIDE DEF h
<1> QED
  BY <1>4, <1>5

\* What a step of a thread changes: the module it runs comes from a callback or a handler.
LEMMA WorkOf ==
  ASSUME TypeOK, CallShape, NEW t \in Threads, Works(t)
  PROVE  /\ t \in Live /\ ~ (crashed = t /\ call[t] # NULL)
         /\ \A u \in Threads \ {t} : call'[u] = call[u] /\ worker'[u] = worker[u]
         /\ call'[t] # NULL => worker'[t] = "busy"
         /\ call'[t] \in {NULL, call[t]} \cup callbacks \cup {h.file : h \in handlers}
         /\ worker'[t] \in {"idle", "busy"} \/ WorkerEnds(t)
<1>0. /\ worker \in [Threads -> {"none", "idle", "busy", "ended"}]
      /\ call \in [Threads -> FileSet \cup {NULL}]
      /\ call[t] # NULL => worker[t] = "busy"
  BY DEF TypeOK, CallShape
<1>1. CASE \E p \in Ports : Accept(t, p)
  <2>1. worker[t] = "idle" /\ worker' = [worker EXCEPT ![t] = "busy"] /\ call' = call
    BY <1>1 DEF Accept
  <2> QED
    BY <1>0, <2>1 DEF Live
<1>2. CASE \E f \in FileSet : Event(t, f)
  <2>1. PICK f \in callbacks : /\ worker[t] = "idle" /\ worker' = [worker EXCEPT ![t] = "busy"]
                               /\ call' = [call EXCEPT ![t] = f]
    BY <1>2 DEF Event
  <2> QED
    BY <1>0, <2>1 DEF Live
<1>3. CASE Handle(t)
  <2>1. call[t] = NULL /\ worker' = worker
    BY <1>3 DEF Handle
  <2>2. PICK h \in handlers : worker[t] = "busy" /\ call' = [call EXCEPT ![t] = h.file]
    BY <1>3, NextHandler
  <2> QED
    BY <1>0, <2>1, <2>2 DEF Live
<1>4. CASE Dunno(t) \/ Finish(t)
  <2>1. /\ worker[t] = "busy" /\ (crashed # t \/ call[t] = NULL)
        /\ call' = [call EXCEPT ![t] = NULL]
        /\ worker' = worker \/ worker' = [worker EXCEPT ![t] = "idle"]
    BY <1>0, <1>4 DEF Dunno, Finish, Running, Idle
  <2> QED
    BY <1>0, <2>1 DEF Live
<1>5. CASE WorkerEnds(t)
  <2>1. worker[t] = "idle" /\ worker' = [worker EXCEPT ![t] = "ended"] /\ call' = call
    BY <1>5 DEF WorkerEnds
  <2> QED
    BY <1>0, <1>5, <2>1 DEF Live
<1> QED
  BY <1>1, <1>2, <1>3, <1>4, <1>5 DEF Works

\* A crash shows where it happened.
LEMMA CrashOnly ==
  ASSUME TypeOK, NEW t \in Threads, Crash(t)
  PROVE  /\ call[t] # NULL /\ crash = "none" /\ crash' # "none" /\ crash' # "close"
         /\ UNCHANGED <<boot, main, at, library, modules, wait, work>>
<1>1. action \in {"hold", "backtrace", "reexec"}
  <2>1. action \in Actions /\ Actions \subseteq {"none", "hold", "backtrace", "reexec"}
    BY ProcessAssumption DEF TypeOK
  <2> QED
    BY <2>1 DEF Crash
<1>2. crash' = CASE action = "hold" -> "held" [] action = "reexec" -> "unlink" [] OTHER -> action
  BY DEF Crash, CrashTo
<1>3. crash' # "none" /\ crash' # "close"
  BY <1>1, <1>2
<1> QED
  BY <1>3 DEF Crash


-----------------------------------------------------------------------------
(* Types.                                                                   *)

LEMMA EmptyOfFiles == <<>> \in Seq(FileSet)
<1>1. ASSUME NEW S PROVE <<>> \in Seq(S)
  OBVIOUS
<1> QED
  BY <1>1

LEMMA TypeOKInit == Init => TypeOK
<1> SUFFICES ASSUME Init PROVE TypeOK
  OBVIOUS
<1>1. MaxStarts \in Nat
  BY ProcessAssumption
<1>2. main \in MainStates
  BY DEF Init, MainStates
<1>3. starts \in 0..MaxStarts
  BY <1>1 DEF Init
<1>4. registered \in Seq(FileSet)
  BY EmptyOfFiles DEF Init
<1>5. at \in Nat \ {0} /\ refs \in Nat
  BY DEF Init
<1> QED
  BY <1>2, <1>3, <1>4, <1>5 DEF Init, TypeOK

LEMMA FilesType ==
  ASSUME NEW i \in 1..Len(Files)
  PROVE  Files[i] \in FileSet
  BY ProcessAssumption DEF FileSet, ToSet

LEMMA TypeOKStep == TypeOK /\ LoadShape /\ RefsShape /\ ExitShape /\ [Next]_vars => TypeOK'
<1> SUFFICES ASSUME TypeOK, LoadShape, RefsShape, ExitShape, [Next]_vars PROVE TypeOK'
  OBVIOUS
<1> USE DEF boot, library, modules, wait, work, signals
<1>1. CASE Ends
  <2>1. Dies /\ starts' = starts /\ action' = action /\ pidfile' \in BOOLEAN /\ skipPid' \in BOOLEAN
    BY <1>1, EndsDies DEF TypeOK
  <2>2. main' \in MainStates /\ registered' \in Seq(FileSet)
    BY <2>1, EmptyOfFiles DEF Dies, MainStates
  <2>3. at' \in Nat \ {0} /\ refs' \in Nat
    BY <2>1 DEF Dies
  <2> QED
    BY <2>1, <2>2, <2>3 DEF TypeOK, Dies
<1>2. CASE \E S \in SUBSET Threads : Start(S)
  <2>1. PICK S \in SUBSET Threads : Start(S)
    BY <1>2
  <2>2. refs' \in Nat
    <3>1. Cardinality(S) \in Nat
      BY ProcessAssumption, FS_Subset, FS_CardinalityType
    <3> QED
      BY <2>1, <3>1 DEF Start, RefsOfPool, NewCtx
  <2>3. starts' \in 0..MaxStarts
    BY <2>1, ProcessAssumption DEF Start, TypeOK
  <2>4. worker' \in [Threads -> {"none", "idle", "busy", "ended"}]
    BY <2>1 DEF Start, Create
  <2> QED
    BY <2>1, <2>2, <2>3, <2>4 DEF Start, TypeOK, MainStates, Goto
<1>3. CASE Passes
  <2>1. pidfile' \in BOOLEAN /\ item' \in BOOLEAN /\ lock' \in {"null", "queue"} /\ skipWait' \in BOOLEAN
    BY <1>3 DEF Passes, ConfigLoaded, PlacePidFile, Listen, Loaded, HandlersRegistered, TypeOK,
                DomainsConfigured, WaitTest, WaitCreate, WaitTake, WaitEnter, WaitPop
  <2>2. listening' \subseteq Ports
    <3>1. listening' = listening \/ \E p \in Ports : listening' = listening \cup {p}
      BY <1>3 DEF Passes, ConfigLoaded, PlacePidFile, Listen, Loaded, HandlersRegistered,
                  DomainsConfigured, WaitTest, WaitCreate, WaitTake, WaitEnter, WaitPop, NewListener
    <3> QED
      BY <3>1 DEF TypeOK
  <2>3. main' \in MainStates /\ at' \in Nat \ {0}
    BY <1>3, PassesOn DEF After, MainStates, TypeOK
  <2> QED
    BY <1>3, <2>1, <2>2, <2>3, PassesOn DEF TypeOK
<1>4. CASE Hears
  <2>1. /\ pidfile' \in BOOLEAN /\ item' \in BOOLEAN /\ lock' \in {"null", "queue"}
        /\ skipWait' \in BOOLEAN /\ signal' \in {"none", "raised", "flag", "done"}
    BY <1>4 DEF Hears, Signal, SignalQueue, SignalNoQueue, SignalFlag, RemovePidFile, TypeOK,
                UnlockQueue, DropQueue, SetSkipWait
  <2> QED
    BY <1>4, <2>1, HearsOnly DEF TypeOK
<1>5. CASE Loads
  <2>1. main \in {"load", "exists", "init", "register"} /\ (main = "load" => at <= Len(Files))
    BY <1>5, LoadsOnly
  <2>2. at \in 1..Len(Files)
    BY <2>1, ProcessAssumption DEF LoadShape, TypeOK
  <2>3. Files[at] \in FileSet
    BY <2>2, FilesType
  <2>4. /\ mapped' \subseteq FileSet /\ ready' \subseteq FileSet /\ callbacks' \subseteq FileSet
    BY <1>5, <2>3 DEF Loads, OpenFails, Open, NameTaken, NameIsNew, InitFails, Register, InitModule, FreeModule,
                LeftByFailedInit, Install, TypeOK
  <2>5. registered' \in Seq(FileSet)
    <3>1. registered \in Seq(FileSet)
      BY DEF TypeOK
    <3>2. registered' = registered \/ registered' = Append(registered, Files[at])
      BY <1>5 DEF Loads, OpenFails, Open, NameTaken, NameIsNew, InitFails, Register, InitModule
    <3> QED
      BY <2>3, <3>1, <3>2
  <2>6. main' \in MainStates /\ at' \in Nat \ {0}
    BY <1>5 DEF Loads, OpenFails, Open, NameTaken, NameIsNew, InitFails, Register, InitModule, TypeOK,
                MainStates, NextFile
  <2>7. UNCHANGED <<boot, library, handlers, wait, work, signals>>
    BY <1>5, LoadsOnly
  <2> QED
    BY <2>4, <2>5, <2>6, <2>7 DEF TypeOK
<1>6. CASE RegisterHandler
  <2>1. at \in Nat \ {0} /\ at <= Len(RunNodes)
    BY <1>6 DEF RegisterHandler, TypeOK
  <2>2. handlers' \subseteq [port : Ports, prio : Nat, file : FileSet]
    <3>1. \A f \in Named(RunNodes[at].name) : f \in FileSet
      BY DEF Named, ToSet, TypeOK
    <3>2. RunNodes[at] \in ToSet(RunNodes)
      <4>1. RunNodes \in Seq(ToSet(RunNodes))
        BY ProcessAssumption
      <4> QED
        BY <2>1, <4>1 DEF ToSet
    <3>3. RunNodes[at].port \in Ports /\ RunNodes[at].prio \in Nat
      BY <3>2, ProcessAssumption
    <3> QED
      BY <1>6, <3>1, <3>3 DEF RegisterHandler, Registration, TypeOK
  <2> QED
    BY <1>6, <2>2 DEF RegisterHandler, TypeOK
<1>7. CASE ExitCtx \/ BeingClosed \/ ReaderStop \/ Join \/ ModulesClosed
  <2>1. main' \in MainStates /\ at' = 1
    BY <1>7 DEF ExitCtx, BeingClosed, ReaderStop, Join, ModulesClosed, MainStates, Goto
  <2>2. /\ exiting' \in BOOLEAN /\ stopping' \in BOOLEAN /\ accepting' \in BOOLEAN
        /\ listening' \subseteq Ports /\ refs' \in Nat
    BY <1>7 DEF ExitCtx, BeingClosed, ReaderStop, Join, ModulesClosed, TypeOK
  <2>3. UNCHANGED <<boot, modules, wait, work, signals>>
    BY <1>7 DEF ExitCtx, BeingClosed, ReaderStop, Join, ModulesClosed
  <2> QED
    BY <2>1, <2>2, <2>3 DEF TypeOK
<1>8. CASE ExitUnlock
  <2>1. main' \in MainStates /\ at' = 1
    BY <1>8 DEF ExitUnlock, MainStates, Goto
  <2>2. lock' \in {"null", "queue"} /\ item' \in BOOLEAN /\ skipWait' \in BOOLEAN
    BY <1>8 DEF ExitUnlock, UnlockQueue, DropQueue, SetSkipWait, TypeOK
  <2>3. UNCHANGED <<boot, library, modules, work, signals>>
    BY <1>8 DEF ExitUnlock
  <2> QED
    BY <2>1, <2>2, <2>3 DEF TypeOK
<1>9. Cardinality(Live) \in Nat
  BY ProcessAssumption, FS_Subset, FS_CardinalityType DEF Live
<1>10. CASE FreeCtx
  <2>1. refs' \in Nat
    BY <1>9, <1>10 DEF FreeCtx, ExitShape, RefsShape
  <2> QED
    BY <1>10, <2>1 DEF FreeCtx, TypeOK, MainStates, Goto
<1>11. CASE CloseModule \/ Unmap
  <2>1. ready' \subseteq FileSet /\ at' \in Nat \ {0}
    BY <1>11 DEF CloseModule, Unmap, TypeOK
  <2>2. registered' \in Seq(FileSet) /\ mapped' \subseteq FileSet
    BY <1>11, EmptyOfFiles DEF CloseModule, Unmap, TypeOK
  <2>3. UNCHANGED <<boot, main, library, callbacks, handlers, wait, work, signals>>
    BY <1>11 DEF CloseModule, Unmap
  <2> QED
    BY <2>1, <2>2, <2>3 DEF TypeOK
<1>12. ASSUME NEW t \in Threads, NEW p \in Ports, Accept(t, p) PROVE TypeOK'
  BY <1>12 DEF Accept, TypeOK
<1>13. ASSUME NEW t \in Threads, NEW f \in FileSet, Event(t, f) PROVE TypeOK'
  BY <1>13 DEF Event, TypeOK
<1>14. ASSUME NEW t \in Threads, Handle(t) PROVE TypeOK'
  <2>1. call' \in [Threads -> FileSet \cup {NULL}] /\ prio' \in [Threads -> Nat]
    BY <1>14, NextHandler DEF TypeOK
  <2>2. UNCHANGED <<boot, main, at, library, modules, wait, worker, port, signals>>
    BY <1>14 DEF Handle
  <2> QED
    BY <2>1, <2>2 DEF TypeOK
<1>15. ASSUME NEW t \in Threads, Dunno(t) \/ Finish(t) PROVE TypeOK'
  <2>1. /\ worker \in [Threads -> {"none", "idle", "busy", "ended"}]
        /\ call \in [Threads -> FileSet \cup {NULL}]
        /\ port \in [Threads -> Ports \cup {NULL}] /\ prio \in [Threads -> Nat]
    BY DEF TypeOK
  <2>2. /\ worker' = worker \/ worker' = [worker EXCEPT ![t] = "idle"]
        /\ call' = [call EXCEPT ![t] = NULL]
        /\ port' = port \/ port' = [port EXCEPT ![t] = NULL]
        /\ prio' = prio \/ prio' = [prio EXCEPT ![t] = 0]
    BY <1>15 DEF Dunno, Finish, Idle
  <2>3. /\ worker' \in [Threads -> {"none", "idle", "busy", "ended"}]
        /\ call' \in [Threads -> FileSet \cup {NULL}]
        /\ port' \in [Threads -> Ports \cup {NULL}] /\ prio' \in [Threads -> Nat]
    BY <2>1, <2>2
  <2>4. UNCHANGED <<boot, main, at, library, modules, wait, signals>>
    BY <1>15 DEF Dunno, Finish, Idle
  <2> QED
    BY <2>3, <2>4 DEF TypeOK
<1>16. ASSUME NEW t \in Threads, WorkerEnds(t) PROVE TypeOK'
  <2>1. t \in Live /\ IsFiniteSet(Live)
    BY <1>16, ProcessAssumption, FS_Subset DEF WorkerEnds, Live
  <2>2. Cardinality(Live) # 0
    BY <2>1, FS_EmptySet
  <2>3. refs' \in Nat
    BY <1>9, <1>16, <2>2 DEF WorkerEnds, RefsShape
  <2> QED
    BY <1>16, <2>3 DEF WorkerEnds, TypeOK
<1>17. ASSUME NEW t \in Threads, Crash(t) PROVE TypeOK'
  <2>1. crash' \in {"none", "held", "backtrace", "unlink", "exit", "unlock", "free", "close"}
    BY <1>17, ProcessAssumption DEF Crash, CrashTo, TypeOK
  <2> QED
    BY <1>17, <2>1 DEF Crash, CrashTo, TypeOK
<1>18. CASE Reexec
  <2>1. refs' \in Nat
    BY <1>9, <1>18 DEF Reexec, RefsShape, TypeOK
  <2>2. UNCHANGED <<skipPid, starts, action, main, at, listening, accepting, modules, work, signal, crashed>>
    BY <1>18 DEF Reexec, CrashTo
  <2>3. pidfile' \in BOOLEAN /\ lock' \in {"null", "queue"} /\ item' \in BOOLEAN /\ skipWait' \in BOOLEAN
    BY <1>18 DEF Reexec, UnlockQueue, DropQueue, SetSkipWait, TypeOK
  <2>4. /\ exiting' \in BOOLEAN /\ stopping' \in BOOLEAN
        /\ crash' \in {"none", "held", "backtrace", "unlink", "exit", "unlock", "free", "close"}
    BY <1>18 DEF Reexec, CrashTo, TypeOK
  <2> QED
    BY <2>1, <2>2, <2>3, <2>4 DEF TypeOK
<1>19. CASE UNCHANGED vars
  BY <1>19 DEF vars, TypeOK
<1> QED
  BY Steps, <1>1, <1>2, <1>3, <1>4, <1>5, <1>6, <1>7, <1>8, <1>10, <1>11, <1>12, <1>13, <1>14, <1>15,
     <1>16, <1>17, <1>18, <1>19 DEF Quits, Works


-----------------------------------------------------------------------------
(* Whose code the threads run.                                              *)

LEMMA CallShapeStep == TypeInv /\ [Next]_vars => CallShape'
<1> SUFFICES ASSUME TypeInv, [Next]_vars PROVE CallShape'
  OBVIOUS
<1>0. /\ worker \in [Threads -> {"none", "idle", "busy", "ended"}]
      /\ call \in [Threads -> FileSet \cup {NULL}]
      /\ CallShape
  BY DEF TypeInv, TypeOK
<1>1. CASE UNCHANGED <<worker, call, crash, crashed>>
  BY <1>0, <1>1 DEF CallShape
<1>2. CASE Ends
  BY <1>2, EndsDies DEF Dies, CallShape
<1>3. ASSUME NEW S \in SUBSET Threads, Start(S) PROVE CallShape'
  <2>1. main = "down" /\ UNCHANGED <<call, crash, crashed>>
    BY <1>3 DEF Start, work, signals
  <2>2. crash = "none" /\ \A t \in Threads : worker[t] # "busy"
    BY <2>1 DEF TypeInv, DownShape, Live
  <2> QED
    BY <1>0, <2>1, <2>2 DEF CallShape
<1>4. CASE Passes \/ Hears \/ Loads \/ RegisterHandler \/ Quits \/ Reexec \/ UNCHANGED vars
  <2>1. CASE Reexec
    <3>1. UNCHANGED <<worker, call, crashed>> /\ crash # "none"
      BY <2>1 DEF Reexec, CrashTo, work
    <3> QED
      BY <1>0, <3>1 DEF CallShape
  <2>2. CASE ~ Reexec
    <3>1. UNCHANGED <<worker, call, crash, crashed>>
      BY <1>4, <2>2, PassesOn, HearsOnly, LoadsOnly, QuitsOnly
         DEF work, signals, vars, RegisterHandler
    <3> QED
      BY <1>1, <3>1
  <2> QED
    BY <2>1, <2>2
<1>5. ASSUME NEW t \in Threads, Crash(t) PROVE CallShape'
  <2>1. UNCHANGED <<worker, call>> /\ call[t] # NULL /\ crashed' = t
    BY <1>5 DEF Crash, work
  <2> QED
    BY <1>0, <2>1 DEF CallShape
<1>6. ASSUME NEW t \in Threads, Works(t) PROVE CallShape'
  <2>1. UNCHANGED <<crash, crashed>>
    BY <1>6, WorksOnly DEF signals
  <2>2. /\ ~ (crashed = t /\ call[t] # NULL)
        /\ \A u \in Threads \ {t} : call'[u] = call[u] /\ worker'[u] = worker[u]
        /\ call'[t] # NULL => worker'[t] = "busy"
    BY <1>0, <1>6, WorkOf DEF TypeInv
  <2> QED
    BY <1>0, <2>1, <2>2 DEF CallShape
<1> QED
  BY Steps, <1>2, <1>3, <1>4, <1>5, <1>6


-----------------------------------------------------------------------------
(* What has been loaded.                                                    *)

LEMMA LoadShapeStep == TypeInv /\ LoadShape /\ [Next]_vars => LoadShape'
<1> SUFFICES ASSUME TypeInv, LoadShape, [Next]_vars PROVE LoadShape'
  OBVIOUS
<1>0. at \in Nat \ {0} /\ registered \in Seq(FileSet) /\ DownShape
  BY DEF TypeInv, TypeOK
<1>1. CASE Ends
  BY <1>1, EndsDies DEF Dies, LoadShape
<1>2. ASSUME NEW S \in SUBSET Threads, Start(S) PROVE LoadShape'
  BY <1>0, <1>2 DEF Start, Goto, DownShape, LoadShape, modules
<1>3. CASE Passes
  <2>1. main = "listen" \/ main' # "load" \/ (main' = main /\ at' = at)
    BY <1>3 DEF Passes, ConfigLoaded, PlacePidFile, Listen, Loaded, HandlersRegistered,
                DomainsConfigured, WaitTest, WaitCreate, WaitTake, WaitEnter, WaitPop, Goto
  <2>2. main' \in {"pid", "listen"} => main \in {"config", "pid", "listen"}
    BY <1>3 DEF Passes, ConfigLoaded, PlacePidFile, Listen, Loaded, HandlersRegistered,
                DomainsConfigured, WaitTest, WaitCreate, WaitTake, WaitEnter, WaitPop, Goto
  <2>3. UNCHANGED <<registered, mapped>> /\ main' \in After
    BY <1>3, PassesOn DEF modules
  <2> QED
    BY <2>1, <2>2, <2>3 DEF LoadShape, After
<1>4. CASE Loads
  <2>1. main' \in {"load", "exists", "init", "register"}
    BY <1>4, LoadsOnly
  <2>2. CASE Register
    <3>1. /\ main = "register" /\ registered' = Append(registered, Files[at])
          /\ at' = at + 1 /\ main' = "load"
      BY <2>2 DEF Register, NextFile
    <3>2. ASSUME NEW i \in DOMAIN registered'
          PROVE  \E j \in 1 .. at' - 1 : registered'[i] = Files[j]
      <4>1. CASE i \in DOMAIN registered
        <5>1. registered'[i] = registered[i]
          BY <1>0, <3>1, <4>1
        <5>2. PICK j \in 1 .. at - 1 : registered[i] = Files[j]
          BY <3>1, <4>1 DEF LoadShape
        <5>3. j \in 1 .. at' - 1
          BY <1>0, <3>1
        <5> QED
          BY <5>1, <5>2, <5>3
      <4>2. CASE i \notin DOMAIN registered
        <5>1. registered'[i] = Files[at]
          BY <1>0, <3>1, <3>2, <4>2
        <5>2. at \in 1 .. at' - 1
          BY <1>0, <3>1
        <5> QED
          BY <5>1, <5>2
      <4> QED
        BY <4>1, <4>2
    <3> QED
      BY <3>1, <3>2 DEF LoadShape
  <2>3. CASE ~ Register
    <3>1. registered' = registered /\ (at' = at \/ (at' = at + 1 /\ main' = "load"))
      BY <1>4, <2>3 DEF Loads, OpenFails, Open, NameTaken, NameIsNew, InitFails, InitModule, NextFile,
                        modules
    <3>2. \A j \in 1 .. at - 1 : j \in 1 .. at' - 1
      BY <1>0, <3>1
    <3>3. \A i \in DOMAIN registered : \E j \in 1 .. at - 1 : registered[i] = Files[j]
      BY <1>4, LoadsOnly DEF LoadShape
    <3>4. main' \in {"exists", "init", "register"} => at' = at /\ at <= Len(Files) /\ Files[at] \in mapped'
      BY <1>4, <2>3 DEF Loads, OpenFails, Open, NameTaken, NameIsNew, InitFails, InitModule, NextFile,
                        modules, LoadShape
    <3> QED
      BY <2>1, <3>1, <3>2, <3>3, <3>4 DEF LoadShape
  <2> QED
    BY <2>2, <2>3
<1>5. CASE Quits \/ RegisterHandler
  <2>1. main' \notin {"down", "config", "pid", "listen", "load", "exists", "init", "register"}
    BY <1>5, QuitsOnly DEF RegisterHandler
  <2> QED
    BY <2>1 DEF LoadShape
<1>6. CASE Hears \/ Reexec \/ UNCHANGED vars \/ \E t \in Threads : Works(t) \/ Crash(t)
  <2>1. UNCHANGED <<main, at, registered, mapped>>
    BY <1>6, HearsOnly, WorksOnly DEF modules, Reexec, Crash, vars
  <2> QED
    BY <2>1 DEF LoadShape
<1> QED
  BY Steps, <1>1, <1>2, <1>3, <1>4, <1>5, <1>6

\* No file is loaded twice.
LEMMA NewFile ==
  ASSUME TypeOK, LoadShape, main \in {"exists", "init", "register"}
  PROVE  Files[at] \notin ToSet(registered)
<1>1. at \in Nat \ {0} /\ at <= Len(Files)
  BY DEF TypeOK, LoadShape
<1>2. Files \in Seq(FileSet) /\ IsInjective(Files)
  BY ProcessAssumption
<1>3. ASSUME NEW i \in DOMAIN registered PROVE registered[i] # Files[at]
  <2>1. PICK j \in 1 .. at - 1 : registered[i] = Files[j]
    BY DEF LoadShape
  <2>2. j \in DOMAIN Files /\ at \in DOMAIN Files /\ j # at
    BY <1>1, <1>2
  <2> QED
    BY <1>2, <2>1, <2>2 DEF IsInjective
<1> QED
  BY <1>3 DEF ToSet


-----------------------------------------------------------------------------
(* No thread runs what is not mapped or not initialised.                    *)

LEMMA CodeShapeStep == TypeInv /\ LoadShape /\ CodeShape /\ [Next]_vars => CodeShape'
<1> SUFFICES ASSUME TypeInv, LoadShape, CodeShape, [Next]_vars, crash' = "none", ~ Joined'
             PROVE  /\ Settled' \subseteq mapped' \cap ready'
                    /\ callbacks' \subseteq Settled'
                    /\ \A h \in handlers' : h.file \in Settled'
                    /\ \A t \in Threads : call'[t] # NULL => call'[t] \in Settled'
  BY DEF CodeShape
<1> DEFINE Held == /\ Settled \subseteq mapped \cap ready
                   /\ callbacks \subseteq Settled
                   /\ \A h \in handlers : h.file \in Settled
                   /\ \A t \in Threads : call[t] # NULL => call[t] \in Settled
<1>0. /\ at \in Nat \ {0} /\ registered \in Seq(FileSet)
      /\ call \in [Threads -> FileSet \cup {NULL}]
  BY DEF TypeInv, TypeOK
<1>1. CASE Ends
  <2>1. /\ main' = "down" /\ registered' = <<>> /\ callbacks' = {} /\ handlers' = {}
        /\ call' = [t \in Threads |-> NULL]
    BY <1>1, EndsDies DEF Dies
  <2>2. Settled' = {}
    BY <2>1 DEF Settled, ToSet
  <2> QED
    BY <2>1, <2>2
<1>2. CASE /\ Held /\ Settled' = Settled
           /\ UNCHANGED <<mapped, ready, callbacks, handlers, call>>
  BY <1>2
<1>3. ASSUME NEW S \in SUBSET Threads, Start(S) PROVE Held /\ Settled' = Settled
                                        /\ UNCHANGED <<mapped, ready, callbacks, handlers, call>>
  BY <1>3 DEF Start, Goto, signals, modules, Settled, CodeShape, Joined
<1>4. CASE Passes \/ Hears \/ RegisterHandler \/ UNCHANGED vars
  <2>1. /\ UNCHANGED <<mapped, ready, registered, callbacks, call, crash>>
        /\ \/ main' = main /\ (at' = at \/ main = "handlers")
           \/ main \in Before /\ main' \in After
    <3>1. CASE Passes
      BY <3>1, PassesOn DEF modules, work
    <3>2. CASE ~ Passes
      <4>1. main' = main /\ (at' = at \/ main = "handlers")
        BY <1>4, <3>2, HearsOnly DEF RegisterHandler, vars
      <4>2. CASE Hears
        BY <4>1, <4>2, HearsOnly DEF modules, work
      <4>3. CASE RegisterHandler
        BY <4>1, <4>3 DEF RegisterHandler, work, signals
      <4>4. CASE UNCHANGED vars
        BY <4>1, <4>4 DEF modules, work, signals, vars
      <4> QED
        BY <1>4, <3>2, <4>2, <4>3, <4>4
    <3> QED
      BY <3>1, <3>2
  <2>2. Held /\ Settled' = Settled
    BY <2>1 DEF Settled, CodeShape, Joined, Before, After
  <2>3. handlers' = handlers \/ RegisterHandler
    BY <1>4, PassesOn, HearsOnly DEF modules, vars
  <2>4. CASE RegisterHandler
    <3>1. handlers' = handlers \cup {Registration(RunNodes[at], f) : f \in Named(RunNodes[at].name)}
      BY <2>4 DEF RegisterHandler
    <3>2. Named(RunNodes[at].name) \subseteq Settled
      BY DEF Named, Settled
    <3> QED
      BY <2>1, <2>2, <3>1, <3>2 DEF Registration
  <2> QED
    BY <1>2, <2>1, <2>2, <2>3, <2>4
<1>5. CASE Loads
  <2>0. /\ main \in {"load", "exists", "init", "register"}
        /\ main' \in {"load", "exists", "init", "register"}
        /\ UNCHANGED <<handlers, call, crash>>
    BY <1>5, LoadsOnly DEF work, signals
  <2>1. Held
    BY <2>0 DEF CodeShape, Joined
  <2>2. CASE OpenFails \/ Open \/ NameIsNew
    <3>1. /\ main # "register" /\ main' # "register" /\ mapped \subseteq mapped'
          /\ UNCHANGED <<ready, registered, callbacks>>
      BY <2>2 DEF OpenFails, Open, NameIsNew, NextFile, modules
    <3>2. Settled' = Settled
      BY <3>1 DEF Settled
    <3> QED
      BY <2>0, <2>1, <3>1, <3>2
  <2>3. CASE NameTaken \/ InitFails
    <3>1. /\ main \in {"exists", "init"} /\ main' = "load" /\ mapped' = mapped \ {Files[at]}
          /\ UNCHANGED <<ready, registered, callbacks>>
      BY <2>3 DEF NameTaken, InitFails, NextFile, FreeModule, LeftByFailedInit
    <3>2. Settled' = Settled /\ Settled = ToSet(registered)
      BY <3>1 DEF Settled
    <3>3. Files[at] \notin Settled
      BY <3>1, <3>2, NewFile DEF TypeInv
    <3> QED
      BY <2>0, <2>1, <3>1, <3>2, <3>3
  <2>4. CASE \E installs \in BOOLEAN : InitModule(installs)
    <3>1. /\ main = "init" /\ main' = "register" /\ ready' = ready \cup {Files[at]}
          /\ UNCHANGED <<at, mapped, registered>>
          /\ callbacks' \subseteq callbacks \cup {Files[at]}
      BY <2>4 DEF InitModule, Install
    <3>2. Settled' = Settled \cup {Files[at]}
      BY <3>1 DEF Settled
    <3>3. Files[at] \in mapped
      BY <3>1 DEF LoadShape
    <3> QED
      BY <2>0, <2>1, <3>1, <3>2, <3>3
  <2>5. CASE Register
    <3>1. /\ main = "register" /\ main' = "load" /\ registered' = Append(registered, Files[at])
          /\ UNCHANGED <<mapped, ready, callbacks>>
      BY <2>5 DEF Register, NextFile
    <3>2. ToSet(registered') = ToSet(registered) \cup {Files[at]}
      BY <1>0, <3>1, ToSetAppended
    <3>3. Settled' = Settled
      BY <3>1, <3>2 DEF Settled
    <3> QED
      BY <2>0, <2>1, <3>1, <3>3
  <2> QED
    BY <1>5, <2>2, <2>3, <2>4, <2>5 DEF Loads
<1>6. CASE Quits
  <2>1. /\ main # "register" /\ main' # "register" /\ UNCHANGED <<call, crash>>
        /\ ~ Joined => UNCHANGED modules
    BY <1>6, QuitsOnly DEF work, signals
  <2>2. Joined => Joined'
    BY <1>6 DEF Quits, Joined, ExitCtx, BeingClosed, ReaderStop, ExitUnlock, Join, FreeCtx, CloseModule,
                ModulesClosed, Unmap, Goto
  <2>3. Held /\ Settled' = Settled /\ UNCHANGED modules
    BY <2>1, <2>2 DEF CodeShape, Settled, modules, Joined
  <2> QED
    BY <1>2, <2>1, <2>3 DEF modules
<1>7. ASSUME NEW t \in Threads, Works(t)
      PROVE  /\ Held /\ Settled' = Settled /\ UNCHANGED <<mapped, ready, callbacks, handlers>>
             /\ \A u \in Threads : call'[u] # NULL => call'[u] \in Settled
  <2>1. UNCHANGED <<main, at, mapped, ready, registered, callbacks, handlers, crash>>
    BY <1>7, WorksOnly DEF modules, signals
  <2>2. Held /\ Settled' = Settled
    BY <2>1 DEF CodeShape, Settled, Joined
  <2>3. /\ \A u \in Threads \ {t} : call'[u] = call[u]
        /\ call'[t] \in {NULL, call[t]} \cup callbacks \cup {h.file : h \in handlers}
    BY <1>7, WorkOf DEF TypeInv
  <2> QED
    BY <2>1, <2>2, <2>3
<1>8. ASSUME NEW t \in Threads, Crash(t) PROVE FALSE
  BY <1>8, CrashOnly DEF TypeInv
<1>9. ~ Reexec
  BY DEF Reexec, CrashTo
<1> QED
  BY Steps, <1>1, <1>2, <1>3, <1>4, <1>5, <1>6, <1>7, <1>8, <1>9


-----------------------------------------------------------------------------
(* The exit.                                                                *)

LEMMA DownShapeStep == TypeInv /\ [Next]_vars => DownShape'
<1> SUFFICES ASSUME TypeInv, [Next]_vars, main' = "down" PROVE DownShape'
  BY DEF DownShape
<1>1. CASE Ends
  <2>1. Dies
    BY <1>1, EndsDies
  <2>2. Live' = {}
    BY <2>1 DEF Dies, Live
  <2> QED
    BY <2>1, <2>2 DEF Dies, DownShape
<1>2. CASE ~ Ends
  <2>1. main = "down" => Live = {} /\ crash = "none" /\ \A t \in Threads : call[t] = NULL
    BY DEF TypeInv, DownShape, CallShape, Live
  <2>2. ASSUME NEW S \in SUBSET Threads, Start(S) PROVE FALSE
    BY <2>2 DEF Start, Goto
  <2>3. CASE Passes \/ Loads \/ RegisterHandler \/ Quits
    BY <2>3, PassesOn, LoadsOnly, QuitsOnly DEF RegisterHandler, After
  <2>4. ASSUME NEW t \in Threads, Works(t) \/ Crash(t) PROVE FALSE
    <3>1. main = "down"
      BY <2>4, WorksOnly, CrashOnly DEF TypeInv
    <3> QED
      BY <2>1, <2>4, <3>1, WorkOf, CrashOnly DEF TypeInv
  <2>5. ~ Reexec
    BY <2>1 DEF Reexec
  <2>6. CASE Hears \/ UNCHANGED vars
    <3>1. UNCHANGED <<main, registered, crash, refs, worker, exiting>>
      BY <2>6, HearsOnly DEF library, modules, work, signals, vars
    <3> QED
      BY <3>1 DEF TypeInv, DownShape, Live
  <2> QED
    BY <1>2, <2>2, <2>3, <2>4, <2>5, <2>6, Steps
<1> QED
  BY <1>1, <1>2

LEMMA ExitShapeStep == TypeInv /\ [Next]_vars => ExitShape'
<1> SUFFICES ASSUME TypeInv, [Next]_vars PROVE ExitShape'
  OBVIOUS
<1>0. ExitShape /\ \A t \in Threads : call[t] # NULL => t \in Live
  BY DEF TypeInv, CallShape, Live
<1>1. CASE Ends
  <2>1. Dies
    BY <1>1, EndsDies
  <2> QED
    BY <2>1 DEF Dies, ExitShape, Joined
<1>2. ASSUME NEW S \in SUBSET Threads, Start(S) PROVE ExitShape'
  <2>1. main = "down" /\ main' = "config" /\ exiting' = exiting
    BY <1>2 DEF Start, Goto
  <2> QED
    BY <2>1 DEF TypeInv, DownShape, ExitShape, Joined
<1>3. CASE Passes \/ Loads \/ RegisterHandler
  <2>1. /\ main \notin Exiting /\ main' \notin Exiting
        /\ UNCHANGED <<exiting, crash>>
    BY <1>3, PassesOn, LoadsOnly DEF Before, After, library, signals, RegisterHandler, Exiting
  <2> QED
    BY <1>0, <2>1 DEF ExitShape, Exiting, Joined
<1>4. CASE Quits
  <2>1. UNCHANGED <<worker, crash, crashed>> /\ Live' = Live
    BY <1>4, QuitsOnly DEF work, signals, Live
  <2>2. main' \in Exiting
    BY <1>4, QuitsOnly DEF Exiting
  <2>3. CASE ExitCtx
    <3>1. main = "exit" /\ main' = IF exiting THEN "close" ELSE "closed"
      BY <2>3 DEF ExitCtx, Goto
    <3>2. crash = "none" => main' = "closed"
      BY <1>0, <3>1 DEF ExitShape, Exiting
    <3> QED
      BY <2>1, <2>2, <3>1, <3>2 DEF ExitShape, Joined
  <2>4. CASE Join
    <3>1. Live = {} /\ \A t \in Threads : call[t] = NULL
      BY <1>0, <2>4 DEF Join, Ended
    <3>2. crash = "none"
      BY <3>1 DEF TypeInv, CallShape
    <3> QED
      BY <2>1, <2>2, <3>1, <3>2 DEF ExitShape
  <2>5. CASE ~ ExitCtx /\ ~ Join
    <3>1. (Joined' => Joined) /\ main' # "free"
      BY <1>4, <2>5 DEF Quits, Joined, BeingClosed, ReaderStop, ExitUnlock, FreeCtx, CloseModule,
                        ModulesClosed, Unmap, Goto
    <3> QED
      BY <1>0, <2>1, <2>2, <3>1 DEF ExitShape
  <2> QED
    BY <2>3, <2>4, <2>5
<1>5. ASSUME NEW t \in Threads, Works(t) PROVE ExitShape'
  <2>1. UNCHANGED <<main, exiting, crash>> /\ t \in Live
    BY <1>5, WorksOnly, WorkOf DEF signals, TypeInv
  <2>2. crash = "none" => ~ Joined
    BY <1>0, <2>1 DEF ExitShape
  <2> QED
    BY <1>0, <2>1, <2>2 DEF ExitShape, Joined
<1>6. ASSUME NEW t \in Threads, Crash(t) PROVE ExitShape'
  <2>1. main' = main /\ crash = "none" /\ crash' # "none" /\ t \in Live
    BY <1>0, <1>6, CrashOnly DEF TypeInv
  <2>2. ~ Joined
    BY <1>0, <2>1 DEF ExitShape
  <2> QED
    BY <2>1, <2>2 DEF ExitShape, Joined
<1>7. CASE Reexec
  <2>1. main' = main /\ crash # "none" /\ crash' # "none"
    BY <1>7 DEF Reexec, CrashTo
  <2> QED
    BY <1>0, <2>1 DEF ExitShape
<1>8. CASE Hears \/ UNCHANGED vars
  <2>1. UNCHANGED <<main, crash, worker, exiting>>
    BY <1>8, HearsOnly DEF library, work, vars, signals
  <2> QED
    BY <1>0, <2>1 DEF ExitShape, Joined, Live
<1> QED
  BY Steps, <1>1, <1>2, <1>3, <1>4, <1>5, <1>6, <1>7, <1>8


-----------------------------------------------------------------------------
(* The references to the context.                                           *)

LEMMA LiveNumber ==
  IsFiniteSet(Live) /\ Cardinality(Live) \in Nat
<1>1. IsFiniteSet(Threads)
  BY ProcessAssumption
<1>2. IsFiniteSet(Live)
  BY <1>1, FS_Subset DEF Live
<1> QED
  BY <1>2, FS_CardinalityType

LEMMA RefsShapeStep == TypeInv /\ RefsShape /\ [Next]_vars => RefsShape'
<1> SUFFICES ASSUME TypeInv, RefsShape, [Next]_vars PROVE RefsShape'
  OBVIOUS
<1>0. /\ ExitShape /\ refs \in Nat /\ Cardinality(Live) \in Nat
      /\ worker \in [Threads -> {"none", "idle", "busy", "ended"}]
      /\ \A t \in Threads : call[t] # NULL => t \in Live
  BY LiveNumber DEF TypeInv, TypeOK, CallShape, Live
<1>1. CASE Ends
  <2>1. Dies
    BY <1>1, EndsDies
  <2>2. Live' = {}
    BY <2>1 DEF Dies, Live
  <2>3. Cardinality(Live') = 0
    BY <2>2, FS_EmptySet
  <2> QED
    BY <2>1, <2>3 DEF Dies, RefsShape
<1>2. ASSUME NEW S \in SUBSET Threads, Start(S) PROVE RefsShape'
  <2>1. main' = "config" /\ crash' = crash
    BY <1>2 DEF Start, Goto, signals
  <2>2. Live' = S
    BY <1>2 DEF Start, Create, Live
  <2>3. Cardinality(S) \in Nat /\ refs' = Cardinality(S) + 1
    <3>1. IsFiniteSet(S)
      BY ProcessAssumption, FS_Subset
    <3>2. Cardinality(S) \in Nat
      BY <3>1, FS_CardinalityType
    <3> QED
      BY <1>2, <3>2 DEF Start, RefsOfPool, NewCtx
  <2> QED
    BY <2>1, <2>2, <2>3 DEF RefsShape
<1>3. CASE Live' = Live /\ refs' = refs /\ crash' = crash
           /\ main \notin {"down", "close", "unmap"} /\ main' # "close"
  BY <1>0, <1>3 DEF RefsShape
<1>4. CASE Live' = Live /\ refs' = refs /\ crash' = crash /\ main' = main
  BY <1>4 DEF RefsShape
<1>5. CASE Passes \/ Loads \/ RegisterHandler \/ Hears \/ UNCHANGED vars
  <2>1. UNCHANGED <<worker, refs, crash>>
    BY <1>5, PassesOn, LoadsOnly, HearsOnly DEF RegisterHandler, library, work, signals, vars
  <2>2. Live' = Live
    BY <2>1 DEF Live
  <2>3. main' = main \/ (main \notin {"down", "close", "unmap"} /\ main' # "close")
    BY <1>5, PassesOn, LoadsOnly, HearsOnly DEF RegisterHandler, vars, Before, After
  <2> QED
    BY <1>3, <1>4, <2>1, <2>2, <2>3
<1>6. CASE Quits
  <2>1. UNCHANGED <<worker, crash>>
    BY <1>6, QuitsOnly DEF work, signals
  <2>2. Live' = Live
    BY <2>1 DEF Live
  <2>3. CASE ExitCtx
    <3>1. main = "exit" /\ main' = (IF exiting THEN "close" ELSE "closed") /\ refs' = refs
      BY <2>3 DEF ExitCtx, Goto
    <3>2. crash = "none" => main' = "closed"
      BY <1>0, <3>1 DEF ExitShape, Exiting
    <3> QED
      BY <2>1, <2>2, <3>1, <3>2 DEF RefsShape
  <2>4. CASE FreeCtx
    <3>1. main = "free" /\ main' = "close" /\ refs' = refs - 1
      BY <2>4 DEF FreeCtx, Goto
    <3>2. crash = "none"
      BY <1>0, <3>1 DEF ExitShape
    <3>3. refs = Cardinality(Live) + 1
      BY <3>1, <3>2 DEF RefsShape
    <3> QED
      BY <1>0, <2>1, <2>2, <3>1, <3>2, <3>3 DEF RefsShape
  <2>5. CASE ~ ExitCtx /\ ~ FreeCtx
    <3>1. /\ refs' = refs /\ main # "down"
          /\ \/ main' = main
             \/ main = "close" /\ main' = "unmap"
             \/ main \notin {"down", "close", "unmap"} /\ main' # "close"
      BY <1>6, <2>5 DEF Quits, BeingClosed, ReaderStop, ExitUnlock, Join, CloseModule, ModulesClosed,
                        Unmap, Goto, library
    <3> QED
      BY <1>0, <2>1, <2>2, <3>1 DEF RefsShape
  <2> QED
    BY <2>3, <2>4, <2>5
<1>7. ASSUME NEW t \in Threads, Works(t) PROVE RefsShape'
  <2>1. UNCHANGED <<main, crash>> /\ (refs' = refs \/ WorkerEnds(t))
    BY <1>7, WorksOnly DEF signals
  <2>2. /\ t \in Live
        /\ \A u \in Threads \ {t} : worker'[u] = worker[u]
        /\ worker'[t] \in {"idle", "busy"} \/ WorkerEnds(t)
    BY <1>7, WorkOf DEF TypeInv
  <2>3. CASE WorkerEnds(t)
    <3>1. /\ main = "join" /\ refs' = refs - 1
          /\ worker' = [worker EXCEPT ![t] = "ended"]
      BY <2>3 DEF WorkerEnds
    <3>2. Live' = Live \ {t}
      BY <1>0, <3>1 DEF Live
    <3>3. Cardinality(Live') = Cardinality(Live) - 1
      BY <2>2, <3>2, LiveNumber, FS_RemoveElement
    <3> QED
      BY <1>0, <2>1, <3>1, <3>3 DEF RefsShape
  <2>4. CASE ~ WorkerEnds(t)
    <3>1. Live' = Live
      BY <2>2, <2>4 DEF Live
    <3> QED
      BY <1>4, <2>1, <2>4, <3>1
  <2> QED
    BY <2>3, <2>4
<1>8. ASSUME NEW t \in Threads, Crash(t) PROVE RefsShape'
  <2>1. /\ t \in Live /\ crash = "none" /\ crash' # "none" /\ UNCHANGED <<main, refs, worker>>
    BY <1>0, <1>8, CrashOnly DEF TypeInv, library, work
  <2>2. main \notin {"down", "close", "unmap"}
    BY <2>1 DEF TypeInv, ExitShape, DownShape, Joined
  <2>3. Live' = Live
    BY <2>1 DEF Live
  <2> QED
    BY <1>0, <2>1, <2>2, <2>3 DEF RefsShape
<1>9. CASE Reexec
  <2>1. /\ main' = main /\ worker' = worker /\ crash # "none" /\ crash # "close" /\ crash' # "none"
        /\ refs' = refs \/ (refs' = refs - 1 /\ crash' = "close")
    BY <1>9 DEF Reexec, CrashTo, library, work
  <2>2. Live' = Live
    BY <2>1 DEF Live
  <2>3. refs = Cardinality(Live) + 1
    BY <2>1 DEF RefsShape
  <2> QED
    BY <1>0, <2>1, <2>2, <2>3 DEF RefsShape
<1> QED
  BY Steps, <1>1, <1>2, <1>5, <1>6, <1>7, <1>8, <1>9

-----------------------------------------------------------------------------
(* The invariant, and what it says.                                         *)

LEMMA IInvInit == Init => IInv
<1> SUFFICES ASSUME Init PROVE IInv
  OBVIOUS
<1>1. TypeOK
  BY TypeOKInit
<1>2. Live = {}
  BY DEF Init, Live
<1>3. Cardinality(Live) = 0
  BY <1>2, FS_EmptySet
<1>4. CallShape /\ LoadShape /\ DownShape /\ ExitShape /\ RefsShape
  BY <1>2, <1>3 DEF Init, CallShape, LoadShape, DownShape, ExitShape, RefsShape, Joined
<1>5. Settled = {}
  BY DEF Init, Settled, ToSet
<1>6. CodeShape
  BY <1>5 DEF Init, CodeShape
<1> QED
  BY <1>1, <1>4, <1>6 DEF IInv, TypeInv

LEMMA IInvNext == IInv /\ [Next]_vars => IInv'
  BY TypeOKStep, CallShapeStep, LoadShapeStep, CodeShapeStep, DownShapeStep, ExitShapeStep,
     RefsShapeStep DEF IInv, TypeInv

LEMMA IInvHolds == Spec => []IInv
  BY IInvInit, IInvNext, PTL DEF Spec

(* Every variable keeps its type: the types of server/main.c,               *)
(* server/valvulad_module.c and lib/valvula_ctx.c, whatever the threads,    *)
(* ports, modules and handlers, and whoever crashes.                        *)
THEOREM TypeCorrect == Spec => []TypeOK
<1>1. IInv => TypeOK
  BY DEF IInv, TypeInv
<1> QED
  BY <1>1, IInvHolds, PTL

(* A thread of the pool runs the code of a module only while its file is    *)
(* mapped and between its init and its close, although the pool answers     *)
(* from valvula_init_ctx on (lib/valvula.c:485) and modules are still       *)
(* opened, refused and unmapped (server/valvulad_module.c:435): a handler   *)
(* or a callback is that of a module registered or about to be, a module    *)
(* that is freed is none of these, and the exit joins the threads first.    *)
THEOREM RunningCodeIsMapped == Spec => []CodeMapped
<1>1. IInv => CodeMapped
  <2> SUFFICES ASSUME IInv, crash = "none", NEW t \in Threads, call[t] # NULL
               PROVE  call[t] \in mapped \cap ready
    BY DEF CodeMapped
  <2>1. t \in Live
    BY DEF IInv, TypeInv, CallShape, Live
  <2>2. ~ Joined
    BY <2>1 DEF IInv, TypeInv, ExitShape
  <2> QED
    BY <2>2 DEF IInv, CodeShape
<1> QED
  BY <1>1, IInvHolds, PTL

(* The ValvulaCtx lives while a thread or the main thread works with it,    *)
(* and after an exit nobody crashed in, no reference is left                *)
(* (lib/valvula_ctx.c, valvula_ctx_ref and valvula_ctx_free2), however many *)
(* threads of the pool could be created.                                    *)
THEOREM ContextIsHeld == Spec => []CtxHeld
<1>1. IInv => CtxHeld
  <2> SUFFICES ASSUME IInv PROVE CtxHeld
    OBVIOUS
  <2>1. /\ refs \in Nat /\ Cardinality(Live) \in Nat
        /\ RefsShape /\ ExitShape
    BY LiveNumber DEF IInv, TypeInv, TypeOK
  <2>2. ASSUME Live # {} PROVE Cardinality(Live) > 0
    BY <2>1, <2>2, LiveNumber, FS_EmptySet
  <2>3. Live # {} => refs > 0
    BY <2>1, <2>2 DEF RefsShape
  <2>4. main \notin {"down", "close", "unmap"} => refs > Cardinality(Live) \/ crash # "none"
    BY <2>1 DEF RefsShape
  <2>5. ASSUME main = "close", crash = "none" PROVE refs = 0
    <3>1. Live = {} /\ refs = Cardinality(Live)
      BY <2>1, <2>5 DEF RefsShape, ExitShape, Joined
    <3> QED
      BY <3>1, FS_EmptySet
  <2> QED
    BY <2>3, <2>4, <2>5 DEF CtxHeld
<1> QED
  BY <1>1, IInvHolds, PTL

=============================================================================
