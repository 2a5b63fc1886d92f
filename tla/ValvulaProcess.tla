---------------------------- MODULE ValvulaProcess ----------------------------
(***************************************************************************)
(* The life of a valvulad process (server/main.c, server/valvulad.c,       *)
(* server/valvulad_run.c, server/valvulad_module.c, and the start and exit *)
(* of the library: lib/valvula.c, lib/valvula_ctx.c,                       *)
(* lib/valvula_listener.c): the pid file, the listeners, the modules that  *)
(* are opened, initialised and given their handlers while the pool already *)
(* answers, the wait of the main thread, the signals, the exit and the     *)
(* next start.                                                             *)
(*                                                                         *)
(* The main thread, the threads of the pool and the handler of a signal    *)
(* interleave.  What a thread of the pool does is reduced to whose module  *)
(* code it runs; ValvulaThreadPool and ValvulaReader have the rest.        *)
(***************************************************************************)
EXTENDS Integers, Sequences, FiniteSets, SequencesExt, FiniteSetsExt

CONSTANTS
    Threads,        \* the threads of the pool
    Ports,          \* the <listen> nodes of the configuration
    Files,          \* the module files of the module directories, in reading order; one
                    \* that is found twice is opened twice and counts as two
    ModName,        \* mod_name in the module_def of each file
    RunNodes,       \* the <run> nodes in document order, each with its port and priority
    Actions,        \* what <signal action="..."> may say
    MaxStarts,      \* bound: how often the program is started
    NULL

FileSet == ToSet(Files)

ASSUME ProcessAssumption ==
    /\ IsFiniteSet(Threads) /\ IsFiniteSet(Ports)
    /\ Files \in Seq(FileSet) /\ IsInjective(Files)
    /\ RunNodes \in Seq(ToSet(RunNodes))
    /\ \A r \in ToSet(RunNodes) : r.port \in Ports /\ r.prio \in Nat \ {0}
    /\ FileSet \subseteq DOMAIN ModName
    /\ Actions \subseteq {"none", "hold", "backtrace", "reexec"}
    /\ MaxStarts \in Nat
    /\ NULL \notin FileSet \cup Ports \cup Threads

VARIABLES
    pidfile, skipPid,   \* the pid file; --skip-pid-check
    starts, action,     \* starts so far; the signal action of the configuration
    main, at,           \* where the main thread is; its position in a list
    listening,          \* the listeners opened
    accepting,          \* the reader runs
    mapped, ready,      \* the files whose code is mapped; those between init and close
    registered,         \* ctx->registered_modules
    callbacks,          \* the files with an event, day handler or resolver installed
    handlers,           \* ctx->process_handler_registry
    refs,               \* ref_count of the ValvulaCtx; 0 when there is none
    exiting, stopping,  \* ctx->valvula_exit, ctx->thread_pool_being_stopped
    lock, item, skipWait,   \* ctx->listener_wait_lock, its item, vo:listener:skip:wait
    worker, call, port, prio,   \* each thread: state, module whose code runs, request
    signal,             \* where the handler of SIGINT or SIGTERM is
    crash, crashed      \* where the handler of SIGSEGV is; the thread it runs in

boot == <<pidfile, skipPid, starts, action>>
library == <<listening, accepting, refs, exiting, stopping>>
modules == <<mapped, ready, registered, callbacks, handlers>>
wait == <<lock, item, skipWait>>
work == <<worker, call, port, prio>>
signals == <<signal, crash, crashed>>
vars == <<boot, main, at, library, modules, wait, work, signals>>

MainStates == {"down", "config", "pid", "listen", "load", "exists", "init", "register",
               "handlers", "domains", "wait", "create", "take", "taken", "pop", "exit", "closed",
               "reader", "unlock", "join", "free", "close", "unmap"}

TypeOK ==
    /\ pidfile \in BOOLEAN /\ skipPid \in BOOLEAN
    /\ starts \in 0..MaxStarts /\ action \in Actions
    /\ main \in MainStates /\ at \in Nat \ {0}
    /\ listening \subseteq Ports /\ accepting \in BOOLEAN
    /\ mapped \subseteq FileSet /\ ready \subseteq FileSet /\ callbacks \subseteq FileSet
    /\ registered \in Seq(FileSet)
    /\ handlers \subseteq [port : Ports, prio : Nat, file : FileSet]
    /\ refs \in Nat /\ exiting \in BOOLEAN /\ stopping \in BOOLEAN
    /\ lock \in {"null", "queue"} /\ item \in BOOLEAN /\ skipWait \in BOOLEAN
    /\ worker \in [Threads -> {"none", "idle", "busy", "ended"}]
    /\ call \in [Threads -> FileSet \cup {NULL}]
    /\ port \in [Threads -> Ports \cup {NULL}] /\ prio \in [Threads -> Nat]
    /\ signal \in {"none", "raised", "flag", "done"}
    /\ crash \in {"none", "held", "backtrace", "unlink", "exit", "unlock", "free", "close"}
    /\ crashed \in Threads \cup {NULL}

Init ==
    /\ pidfile = FALSE /\ skipPid = FALSE /\ starts = 0
    /\ action \in Actions
    /\ main = "down" /\ at = 1
    /\ listening = {} /\ accepting = FALSE /\ refs = 0 /\ exiting = FALSE /\ stopping = FALSE
    /\ mapped = {} /\ ready = {} /\ registered = <<>> /\ callbacks = {} /\ handlers = {}
    /\ lock = "null" /\ item = FALSE /\ skipWait = FALSE
    /\ worker = [t \in Threads |-> "none"] /\ call = [t \in Threads |-> NULL]
    /\ port = [t \in Threads |-> NULL] /\ prio = [t \in Threads |-> 0]
    /\ signal = "none" /\ crash = "none" /\ crashed = NULL

\* The process is gone, with everything it had in memory.
Dies ==
    /\ main' = "down" /\ at' = 1
    /\ listening' = {} /\ accepting' = FALSE /\ refs' = 0 /\ exiting' = FALSE /\ stopping' = FALSE
    /\ mapped' = {} /\ ready' = {} /\ registered' = <<>> /\ callbacks' = {} /\ handlers' = {}
    /\ lock' = "null" /\ item' = FALSE /\ skipWait' = FALSE
    /\ worker' = [t \in Threads |-> "none"] /\ call' = [t \in Threads |-> NULL]
    /\ port' = [t \in Threads |-> NULL] /\ prio' = [t \in Threads |-> 0]
    /\ signal' = "none" /\ crash' = "none" /\ crashed' = NULL

Live == {t \in Threads : worker[t] \in {"idle", "busy"}}

Goto(where) == main' = where /\ at' = 1

-----------------------------------------------------------------------------
(* The start (main, valvulad_init, valvulad_run_config).                    *)

\* valvula_ctx_new gives the first reference.
NewCtx == 1

\* Faulty variant: a thread of the pool starts without a reference to the context.
RefsOfPoolUncounted(S) == NewCtx

\* valvula_thread_pool_add_internal takes a reference for every thread and gives it back
\* when the thread cannot be created.
RefsOfPool(S) == NewCtx + Cardinality(S)

\* valvula_thread_create, for each of them.
Create(S) == worker' = [t \in Threads |-> IF t \in S THEN "idle" ELSE "none"]

\* A failed creation ends the loop: only S of the threads exist.
Start(S) ==
    /\ main = "down" /\ starts < MaxStarts
    /\ starts' = starts + 1
    /\ refs' = RefsOfPool(S)
    /\ accepting' = TRUE
    /\ Create(S)
    /\ Goto("config")
    /\ UNCHANGED <<pidfile, skipPid, action, listening, exiting, stopping, modules, wait,
                   call, port, prio, signals>>

\* The configuration cannot be read, or its database not reached.
ConfigFails ==
    /\ main = "config"
    /\ Dies /\ skipPid' = FALSE
    /\ UNCHANGED <<pidfile, starts, action>>

ConfigLoaded ==
    /\ main = "config" /\ Goto("pid")
    /\ UNCHANGED <<boot, library, modules, wait, work, signals>>

PidFileFound ==
    /\ main = "pid" /\ ~ skipPid /\ pidfile
    /\ Dies /\ skipPid' = FALSE
    /\ UNCHANGED <<pidfile, starts, action>>

\* Writing it may fail, which is reported and nothing else.
PlacePidFile ==
    /\ main = "pid" /\ (skipPid \/ ~ pidfile)
    /\ pidfile' \in {TRUE, pidfile}
    /\ Goto("listen")
    /\ UNCHANGED <<skipPid, starts, action, library, modules, wait, work, signals>>

\* run_config returns false: the pid file goes with the process.
RunConfigFails ==
    /\ Dies /\ pidfile' = FALSE /\ skipPid' = FALSE
    /\ UNCHANGED <<starts, action>>

\* The reader watches the listener as soon as it is bound.
NewListener(p) == listening' = listening \cup {p}

Listen ==
    /\ main = "listen"
    /\ \/ \E p \in Ports \ listening : NewListener(p) /\ UNCHANGED <<main, at>>
       \/ Ports = listening /\ Goto("load") /\ UNCHANGED listening
    /\ UNCHANGED <<boot, accepting, refs, exiting, stopping, modules, wait, work, signals>>

\* An address that does not resolve, a port that is taken, no socket.
ListenFails == main = "listen" /\ Ports # listening /\ RunConfigFails

\* The user or the group to run as is not in the files of the system.
UserUnknown == main = "listen" /\ Ports = listening /\ RunConfigFails

-----------------------------------------------------------------------------
(* The modules (valvulad_module_open_and_register, for each file).          *)

NextFile == at' = at + 1 /\ main' = "load"

\* The file is no library or has no module_def: it is left out.
OpenFails ==
    /\ main = "load" /\ at <= Len(Files)
    /\ NextFile
    /\ UNCHANGED <<boot, library, modules, wait, work, signals>>

Open ==
    /\ main = "load" /\ at <= Len(Files)
    /\ mapped' = mapped \cup {Files[at]}
    /\ main' = "exists"
    /\ UNCHANGED <<boot, at, library, ready, registered, callbacks, handlers, wait, work,
                   signals>>

Named(name) == {f \in ToSet(registered) : ModName[f] = name}

\* valvulad_module_free: no module of the repository asks for skip_unmap.
FreeModule(f) == mapped' = mapped \ {f}

NameTaken ==
    /\ main = "exists" /\ Named(ModName[Files[at]]) # {}
    /\ FreeModule(Files[at])
    /\ NextFile
    /\ UNCHANGED <<boot, library, ready, registered, callbacks, handlers, wait, work, signals>>

NameIsNew ==
    /\ main = "exists" /\ Named(ModName[Files[at]]) = {}
    /\ main' = "init"
    /\ UNCHANGED <<boot, at, library, modules, wait, work, signals>>

\* Faulty variant: a module has installed its callbacks when its init fails.
LeftByFailedInitCallback(f) == callbacks \cup {f}

\* The inits of the repository install their callbacks after the last thing that can fail.
LeftByFailedInit(f) == callbacks

InitFails ==
    /\ main = "init"
    /\ FreeModule(Files[at])
    /\ callbacks' = LeftByFailedInit(Files[at])
    /\ NextFile
    /\ UNCHANGED <<boot, library, ready, registered, handlers, wait, work, signals>>

\* An event, a handler of a new day or month, or a resolver of local objects.
Install(f) == callbacks' = callbacks \cup {f}

InitModule(installs) ==
    /\ main = "init"
    /\ ready' = ready \cup {Files[at]}
    /\ IF installs THEN Install(Files[at]) ELSE UNCHANGED callbacks
    /\ main' = "register"
    /\ UNCHANGED <<boot, at, library, mapped, registered, handlers, wait, work, signals>>

\* Nobody else registers modules, so the name is still new here.
Register ==
    /\ main = "register"
    /\ registered' = Append(registered, Files[at])
    /\ NextFile
    /\ UNCHANGED <<boot, library, mapped, ready, callbacks, handlers, wait, work, signals>>

Loaded ==
    /\ main = "load" /\ at > Len(Files)
    /\ Goto("handlers")
    /\ UNCHANGED <<boot, library, modules, wait, work, signals>>

\* valvula_ctx_register_request_handler.
Registration(r, f) == [port |-> r.port, prio |-> r.prio, file |-> f]

\* valvulad_run_register_handlers: a <run> node without its module is passed over.
RegisterHandler ==
    /\ main = "handlers" /\ at <= Len(RunNodes)
    /\ LET r == RunNodes[at]
       IN  handlers' = handlers \cup {Registration(r, f) : f \in Named(r.name)}
    /\ at' = at + 1
    /\ UNCHANGED <<boot, main, library, mapped, ready, registered, callbacks, wait, work,
                   signals>>

HandlersRegistered ==
    /\ main = "handlers" /\ at > Len(RunNodes)
    /\ Goto("domains")
    /\ UNCHANGED <<boot, library, modules, wait, work, signals>>

\* valvulad_run_check_local_domains_config, then the change of user and group.
DomainsFail == main = "domains" /\ RunConfigFails

DomainsConfigured ==
    /\ main = "domains" /\ Goto("wait")
    /\ UNCHANGED <<boot, library, modules, wait, work, signals>>

-----------------------------------------------------------------------------
(* The wait (valvula_listener_wait, valvula_listener_unlock): one holds     *)
(* listener_mutex, the other listener_unlock.                               *)

WaitTest ==
    /\ main = "wait"
    /\ Goto(IF skipWait THEN "exit" ELSE "create")
    /\ UNCHANGED <<boot, library, modules, wait, work, signals>>

WaitCreate ==
    /\ main = "create"
    /\ lock' = IF lock = "null" THEN "queue" ELSE lock
    /\ Goto("take")
    /\ UNCHANGED <<boot, library, modules, item, skipWait, work, signals>>

WaitTake ==
    /\ main = "take"
    /\ Goto(IF lock = "queue" THEN "taken" ELSE "exit")
    /\ UNCHANGED <<boot, library, modules, wait, work, signals>>

\* The pop itself.  A queue that was freed meanwhile blocks for ever or, being garbage,
\* answers; a fault is Killed.
WaitEnter ==
    /\ main = "taken"
    /\ IF lock = "queue" THEN Goto("pop") ELSE Goto("pop") \/ Goto("exit")
    /\ UNCHANGED <<boot, library, modules, wait, work, signals>>

WaitPop ==
    /\ main = "pop" /\ item
    /\ item' = FALSE
    /\ Goto("exit")
    /\ UNCHANGED <<boot, library, modules, lock, skipWait, work, signals>>

\* valvula_async_queue_waiters.
Waited == main = "pop"

\* valvula_async_queue_unref: nobody else has a reference, the queue is freed.
DropQueue == UNCHANGED item

\* Faulty variant: with a waiter there, the queue is unreferenced instead of pushed to.
UnlockDropsQueue == lock' = "null" /\ DropQueue /\ UNCHANGED skipWait

\* The queue is there: its waiter gets an item; with no waiter yet the queue is freed,
\* under a main thread about to wait on it.
UnlockQueue ==
    /\ IF Waited THEN item' = TRUE ELSE DropQueue
    /\ lock' = "null"
    /\ UNCHANGED skipWait

SetSkipWait == skipWait' = TRUE /\ UNCHANGED <<lock, item>>

\* SIGINT or SIGTERM, in any thread, once the handlers are installed.
Signal ==
    /\ signal = "none" /\ main \notin {"down", "config"} /\ ~ exiting
    /\ signal' = "raised"
    /\ UNCHANGED <<boot, main, at, library, modules, wait, work, crash, crashed>>

SignalQueue ==
    /\ signal = "raised" /\ lock = "queue"
    /\ UnlockQueue
    /\ signal' = "done"
    /\ UNCHANGED <<boot, main, at, library, modules, work, crash, crashed>>

SignalNoQueue ==
    /\ signal = "raised" /\ lock # "queue"
    /\ signal' = "flag"
    /\ UNCHANGED <<boot, main, at, library, modules, wait, work, crash, crashed>>

SignalFlag ==
    /\ signal = "flag"
    /\ SetSkipWait
    /\ signal' = "done"
    /\ UNCHANGED <<boot, main, at, library, modules, work, crash, crashed>>

-----------------------------------------------------------------------------
(* The exit (valvula_exit_ctx, valvulad_exit).                              *)

\* Only the first to set the flag goes on.
ExitCtx ==
    /\ main = "exit"
    /\ exiting' = TRUE
    /\ Goto(IF exiting THEN "close" ELSE "closed")
    /\ UNCHANGED <<boot, listening, accepting, refs, stopping, modules, wait, work, signals>>

BeingClosed ==
    /\ main = "closed" /\ stopping' = TRUE
    /\ Goto("reader")
    /\ UNCHANGED <<boot, listening, accepting, refs, exiting, modules, wait, work, signals>>

\* The reader ends and closes what it watched.
ReaderStop ==
    /\ main = "reader"
    /\ accepting' = FALSE /\ listening' = {}
    /\ Goto("unlock")
    /\ UNCHANGED <<boot, refs, exiting, stopping, modules, wait, work, signals>>

ExitUnlock ==
    /\ main = "unlock"
    /\ IF lock = "queue" THEN UnlockQueue ELSE SetSkipWait
    /\ Goto("join")
    /\ UNCHANGED <<boot, library, modules, work, signals>>

\* valvula_thread_destroy joins each of them.
Ended == Live = {}

Join ==
    /\ main = "join" /\ Ended
    /\ Goto("free")
    /\ UNCHANGED <<boot, library, modules, wait, work, signals>>

\* valvula_ctx_free2: the memory goes with the last reference.
FreeCtx ==
    /\ main = "free" /\ refs' = refs - 1
    /\ handlers' = IF refs = 1 THEN {} ELSE handlers
    /\ Goto("close")
    /\ UNCHANGED <<boot, listening, accepting, exiting, stopping, mapped, ready, registered,
                   callbacks, wait, work, signals>>

\* valvulad_module_notify with VLD_CLOSE_HANDLER.
CloseModule ==
    /\ main = "close" /\ at <= Len(registered)
    /\ ready' = ready \ {registered[at]}
    /\ at' = at + 1
    /\ UNCHANGED <<boot, main, library, mapped, registered, callbacks, handlers, wait, work,
                   signals>>

ModulesClosed ==
    /\ main = "close" /\ at > Len(registered)
    /\ Goto("unmap")
    /\ UNCHANGED <<boot, library, modules, wait, work, signals>>

\* valvulad_module_cleanup frees the list and so every module.
Unmap ==
    /\ main = "unmap" /\ mapped # {}
    /\ mapped' = {} /\ registered' = <<>>
    /\ UNCHANGED <<boot, main, at, library, ready, callbacks, handlers, wait, work, signals>>

\* main returns: the pid file stays.
Return ==
    /\ main = "unmap" /\ mapped = {}
    /\ Dies /\ skipPid' = FALSE
    /\ UNCHANGED <<pidfile, starts, action>>

-----------------------------------------------------------------------------
(* The threads of the pool.                                                 *)

\* A request is handed over by the reader.
Accept(t, p) ==
    /\ worker[t] = "idle" /\ accepting /\ p \in listening /\ ~ stopping /\ ~ exiting
    /\ worker' = [worker EXCEPT ![t] = "busy"]
    /\ port' = [port EXCEPT ![t] = p] /\ prio' = [prio EXCEPT ![t] = 0]
    /\ UNCHANGED <<boot, main, at, library, modules, wait, call, signals>>

\* The handlers of the request's port which it has not been through.
Pending(t) == {h \in handlers : h.port = port[t] /\ h.prio > prio[t]}

Handle(t) ==
    /\ worker[t] = "busy" /\ call[t] = NULL /\ Pending(t) # {}
    /\ LET h == CHOOSE g \in Pending(t) : \A o \in Pending(t) : g.prio <= o.prio
       IN  /\ call' = [call EXCEPT ![t] = h.file]
           /\ prio' = [prio EXCEPT ![t] = h.prio]
    /\ UNCHANGED <<boot, main, at, library, modules, wait, worker, port, signals>>

Running(t) == call[t] # NULL /\ crashed # t

\* The handler leaves the request to the next one.
Dunno(t) ==
    /\ Running(t) /\ port[t] # NULL
    /\ call' = [call EXCEPT ![t] = NULL]
    /\ UNCHANGED <<boot, main, at, library, modules, wait, worker, port, prio, signals>>

Idle(t) ==
    /\ worker' = [worker EXCEPT ![t] = "idle"] /\ call' = [call EXCEPT ![t] = NULL]
    /\ port' = [port EXCEPT ![t] = NULL] /\ prio' = [prio EXCEPT ![t] = 0]
    /\ UNCHANGED <<boot, main, at, library, modules, wait, signals>>

\* The handler decides, or none is left and the default state is the answer, or the
\* function of an event returns.
Finish(t) ==
    /\ worker[t] = "busy"
    /\ Running(t) \/ (call[t] = NULL /\ Pending(t) = {})
    /\ Idle(t)

\* An event of a module, or its handler of a new day: one thread at a time.
Event(t, f) ==
    /\ worker[t] = "idle" /\ f \in callbacks /\ ~ stopping /\ ~ exiting
    /\ \A u \in Threads : worker[u] = "busy" => port[u] # NULL
    /\ worker' = [worker EXCEPT ![t] = "busy"] /\ call' = [call EXCEPT ![t] = f]
    /\ UNCHANGED <<boot, main, at, library, modules, wait, port, prio, signals>>

\* The thread takes the beacon valvula_thread_pool_exit has pushed for it.
WorkerEnds(t) ==
    /\ worker[t] = "idle" /\ main = "join"
    /\ worker' = [worker EXCEPT ![t] = "ended"]
    /\ refs' = refs - 1
    /\ UNCHANGED <<boot, main, at, listening, accepting, exiting, stopping, modules, wait,
                   call, port, prio, signals>>

-----------------------------------------------------------------------------
(* A crash in the code of a module: valvulad_signal runs in that thread.    *)

CrashTo(where) == crash' = where /\ UNCHANGED signal

Crash(t) ==
    /\ call[t] # NULL /\ crash = "none" /\ action # "none"
    /\ crashed' = t
    /\ CrashTo(CASE action = "hold" -> "held" [] action = "reexec" -> "unlink" [] OTHER -> action)
    /\ UNCHANGED <<boot, main, at, library, modules, wait, work>>

\* A signal without an action, or kill -9 from the stop script: the pid file stays.
Killed ==
    /\ main # "down"
    /\ Dies /\ skipPid' = FALSE
    /\ UNCHANGED <<pidfile, starts, action>>

\* gdb has written the stacks, the process ends.
Backtrace ==
    /\ crash = "backtrace"
    /\ Dies /\ skipPid' = FALSE
    /\ UNCHANGED <<pidfile, starts, action>>

Reexec ==
    \/ /\ crash = "unlink" /\ pidfile' = FALSE /\ CrashTo("exit")
       /\ UNCHANGED <<skipPid, starts, action, main, at, library, modules, wait, work, crashed>>
    \/ \* skip_reader_stop: the reader goes on.
       /\ crash = "exit" /\ exiting' = TRUE
       /\ stopping' = (stopping \/ ~ exiting)
       /\ CrashTo(IF exiting THEN "close" ELSE "unlock")
       /\ UNCHANGED <<boot, main, at, listening, accepting, refs, modules, wait, work, crashed>>
    \/ \* The main thread, which waits, goes on too.
       /\ crash = "unlock" /\ CrashTo("free")
       /\ IF lock = "queue" THEN UnlockQueue ELSE SetSkipWait
       /\ UNCHANGED <<boot, main, at, library, modules, work, crashed>>
    \/ \* skip_thread_pool_wait: nobody is joined.
       /\ crash = "free" /\ refs' = refs - 1 /\ CrashTo("close")
       /\ UNCHANGED <<boot, main, at, listening, accepting, exiting, stopping, modules, wait,
                      work, crashed>>

\* The listeners are closed and the program is executed again.
Execv ==
    /\ crash = "close" /\ Dies
    /\ skipPid' = TRUE
    /\ UNCHANGED <<pidfile, starts, action>>

-----------------------------------------------------------------------------
(* Between two runs the stop script, or the administrator, may remove the   *)
(* pid file.                                                                *)

RemovePidFile ==
    /\ main = "down" /\ pidfile /\ pidfile' = FALSE
    /\ UNCHANGED <<skipPid, starts, action, main, at, library, modules, wait, work, signals>>

Boot ==
    \/ ConfigFails \/ ConfigLoaded \/ PidFileFound \/ PlacePidFile
    \/ Listen \/ ListenFails \/ UserUnknown
    \/ OpenFails \/ Open \/ NameTaken \/ NameIsNew \/ InitFails
    \/ (\E installs \in BOOLEAN : InitModule(installs)) \/ Register \/ Loaded
    \/ RegisterHandler \/ HandlersRegistered \/ DomainsFail \/ DomainsConfigured

Main ==
    \/ Boot
    \/ WaitTest \/ WaitCreate \/ WaitTake \/ WaitEnter \/ WaitPop
    \/ ExitCtx \/ BeingClosed \/ ReaderStop \/ ExitUnlock \/ Join \/ FreeCtx
    \/ CloseModule \/ ModulesClosed \/ Unmap \/ Return

SignalHandler == SignalQueue \/ SignalNoQueue \/ SignalFlag

WorkerEnd(t) == Finish(t) \/ WorkerEnds(t)

Next ==
    \/ \E S \in SUBSET Threads : Start(S)
    \/ Main
    \/ Signal \/ SignalHandler
    \/ \E t \in Threads :
           \/ \E p \in Ports : Accept(t, p)
           \/ \E f \in FileSet : Event(t, f)
           \/ Handle(t) \/ Dunno(t) \/ WorkerEnd(t) \/ Crash(t)
    \/ Killed \/ Backtrace \/ Reexec \/ Execv \/ RemovePidFile

\* The main thread and the handlers of signals run on, the handlers of a request are
\* finite in number and each returns, a thread takes the beacon pushed for it.
Fairness ==
    /\ WF_vars(Main) /\ WF_vars(SignalHandler) /\ WF_vars(Reexec) /\ WF_vars(Execv)
    /\ \A t \in Threads : WF_vars(WorkerEnd(t)) /\ WF_vars(Handle(t))

Spec == Init /\ [][Next]_vars /\ Fairness

-----------------------------------------------------------------------------
(* Properties.                                                              *)

\* A thread runs a module only while its file is mapped and between its init and its
\* close, although the threads answer requests and run events from before the first
\* module is loaded until the exit: callbacks outlive neither a failed init nor an exit.
CodeMapped ==
    crash = "none" => \A t \in Threads : call[t] # NULL => call[t] \in mapped \cap ready

\* The context lasts as long as a thread of the pool or the main thread works with it,
\* and an orderly exit leaves nothing of it behind, whatever part of the pool started.
CtxHeld ==
    /\ Live # {} => refs > 0
    /\ main \notin {"down", "close", "unmap"} => refs > Cardinality(Live) \/ crash # "none"
    /\ main = "close" /\ crash = "none" => refs = 0

\* A SIGTERM that finds the main thread waiting ends the process, with requests and
\* events under way, unless a thread has crashed.
SignalEnds ==
    signal = "raised" /\ main = "pop" /\ lock = "queue" ~> main = "down" \/ crash # "none"

\* As valvula_listener_wait says of valvula_listener_unlock, with no condition on the
\* moment it is called at.
UnlockHeard == signal = "raised" ~> main = "down" \/ crash # "none"

=============================================================================
