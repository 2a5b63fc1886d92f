------------------------------- MODULE ValvulaIo -------------------------------
(***************************************************************************)
(* The loop of the reader thread (lib/valvula_reader.c) over one of three  *)
(* I/O mechanisms (lib/valvula_io.c): select, poll or epoll.               *)
(*                                                                         *)
(* Other threads hand the reader listeners and connections, tell it to     *)
(* stop, or replace the mechanism: all through reader_queue, answered      *)
(* through reader_stopped.  The mechanism is a table of functions in the   *)
(* context, written one by one while the reader is kept waiting.  What a   *)
(* connection sends, and what becomes of it, is ValvulaReader: here it is  *)
(* ready or not, and ends open or closed.                                  *)
(***************************************************************************)
EXTENDS Integers, Sequences, FiniteSets, SequencesExt

CONSTANTS
    Listeners,
    Clients,        \* the connections that may be accepted
    Shared,         \* those another thread registers, and may close when it likes
    Available,      \* the mechanisms the library is built with
    Limit,          \* how many descriptors the set of each mechanism holds
    MaxChanges,     \* bound: changes of the mechanism
    Overlapping,    \* bound: may items follow a TERMINATE or a change not yet done
    NULL

Mechs == {"select", "poll", "epoll"}
Conns == Listeners \cup Clients \cup Shared

ASSUME IoAssumption ==
    /\ IsFiniteSet(Conns)
    /\ Listeners \cap (Clients \cup Shared) = {} /\ Clients \cap Shared = {}
    /\ "select" \in Available /\ Available \subseteq Mechs
    /\ Limit \in [Mechs -> Nat \ {0}]
    /\ MaxChanges \in Nat /\ Overlapping \in BOOLEAN
    /\ NULL \notin Conns \cup Mechs

VARIABLES
    installed, waiting_type,            \* the functions in the context, and their name
    reader_queue, reader_stopped,
    conn_list, srv_list,
    on_reading, set,                    \* the kind of the group and what it watches
    ok, ref_count, ready,               \* of each connection
    rpc, todo, pos, left, length,       \* the reader: reported, cursor, counters
    badf,                               \* errno is EBADF
    held,                               \* shared connections their creator still has
    user, target, written, changes,     \* the thread in valvula_io_waiting_use
    main                                \* the thread in valvula_exit_ctx

apiVars    == <<installed, waiting_type>>
listVars   == <<conn_list, srv_list>>
groupVars  == <<on_reading, set>>
connVars   == <<ok, ref_count, ready>>
loopVars   == <<todo, pos, left, length, badf>>
userVars   == <<user, target, written, changes>>
outside    == <<apiVars, userVars, held, main>>
vars == <<apiVars, reader_queue, reader_stopped, listVars, groupVars, connVars, rpc,
          loopVars, held, userVars, main>>

Functions == <<"create", "destroy", "clear", "wait_on", "add_to", "is_set", "have_dispatch",
               "dispatch">>

\* The functions of a mechanism: select has no dispatch, the others no is_set.
FunctionOf(m, f) ==
    IF f \in (IF m = "select" THEN {"have_dispatch", "dispatch"} ELSE {"is_set"})
    THEN NULL ELSE m

Item == [type : {"CONNECTION", "LISTENER", "TERMINATE", "IO_WAIT_CHANGED", "IO_WAIT_READY"},
         conn : Conns \cup {NULL}]

Command(x) == [type |-> x, conn |-> NULL]

TypeOK ==
    /\ installed \in [Range(Functions) -> Mechs \cup {NULL}] /\ waiting_type \in Mechs
    /\ reader_queue \in Seq(Item) /\ reader_stopped \in Nat
    /\ conn_list \in Seq(Conns) /\ srv_list \in Seq(Conns)
    /\ on_reading \in Mechs \cup {NULL} /\ set \in Seq(Conns)
    /\ ok \in [Conns -> BOOLEAN] /\ ref_count \in [Conns -> Nat] /\ ready \in [Conns -> BOOLEAN]
    /\ rpc \in {"first", "clear", "build", "cleanup", "wait", "listeners", "connections",
                "dispatch", "pending", "renew_first", "renew", "stop", "done"}
    /\ todo \subseteq Conns /\ pos \in Nat /\ left \in Int /\ length \in Nat
    /\ badf \in BOOLEAN
    /\ held \subseteq Shared
    /\ user \in {"idle", "asked", "install"}
    /\ target \in Mechs \cup {NULL} /\ written \in 0..Len(Functions) /\ changes \in Nat
    /\ main \in {"run", "stopping", "joined"}

\* The best mechanism of the build is the default.
Default == IF "epoll" \in Available THEN "epoll"
           ELSE IF "poll" \in Available THEN "poll" ELSE "select"

Init ==
    /\ waiting_type = Default
    /\ installed = [f \in Range(Functions) |-> FunctionOf(Default, f)]
    /\ reader_queue = <<>> /\ reader_stopped = 0
    /\ conn_list = <<>> /\ srv_list = <<>>
    /\ on_reading = Default /\ set = <<>>
    /\ ok = [c \in Conns |-> FALSE] /\ ref_count = [c \in Conns |-> 0]
    /\ ready = [c \in Conns |-> FALSE]
    /\ rpc = "first" /\ todo = {} /\ pos = 0 /\ left = 0 /\ length = 0 /\ badf = FALSE
    /\ held = {}
    /\ user = "idle" /\ target = NULL /\ written = 0 /\ changes = 0
    /\ main = "run"

-----------------------------------------------------------------------------
(* What others ask of the reader.                                           *)

QueuePush(d) == reader_queue' = Append(reader_queue, d)

Undisturbed == Overlapping \/ (user = "idle" /\ main = "run")

\* The listener's first reference becomes the reader's.
WatchListener(l) ==
    /\ l \in Listeners /\ ref_count[l] = 0 /\ ~ ok[l] /\ ~ ready[l]
    /\ main = "run" /\ Undisturbed
    /\ ok' = [ok EXCEPT ![l] = TRUE] /\ ref_count' = [ref_count EXCEPT ![l] = 1]
    /\ QueuePush([type |-> "LISTENER", conn |-> l])
    /\ UNCHANGED <<ready, reader_stopped, listVars, groupVars, rpc, loopVars, outside>>

\* Whoever registers a connection keeps a reference of its own.
WatchConnection(c) ==
    /\ c \in Shared /\ ref_count[c] = 0 /\ ~ ready[c]
    /\ main = "run" /\ Undisturbed
    /\ ok' = [ok EXCEPT ![c] = TRUE] /\ ref_count' = [ref_count EXCEPT ![c] = 2]
    /\ held' = held \cup {c}
    /\ QueuePush([type |-> "CONNECTION", conn |-> c])
    /\ UNCHANGED <<ready, reader_stopped, listVars, groupVars, rpc, loopVars, apiVars, userVars,
                   main>>

CloseShared(c) ==
    /\ c \in held
    /\ ok' = [ok EXCEPT ![c] = FALSE] /\ ref_count' = [ref_count EXCEPT ![c] = @ - 1]
    /\ ready' = [ready EXCEPT ![c] = FALSE]
    /\ held' = held \ {c}
    /\ UNCHANGED <<reader_queue, reader_stopped, listVars, groupVars, rpc, loopVars, apiVars,
                   userVars, main>>

\* Something arrives: bytes, an end of file, a client that connects.
Arrive(c) ==
    /\ ok[c] /\ ~ ready[c] /\ main = "run"
    /\ ready' = [ready EXCEPT ![c] = TRUE]
    /\ UNCHANGED <<ok, ref_count, reader_queue, reader_stopped, listVars, groupVars, rpc,
                   loopVars, outside>>

-----------------------------------------------------------------------------
(* valvula_io_waiting_use, by one thread at a time.                         *)

UserElse == UNCHANGED <<listVars, groupVars, connVars, rpc, loopVars, held, main>>

IsAvailable(m) == m \in Available
MayUse(m) == IsAvailable(m) /\ m # waiting_type

\* valvula_reader_notify_change_io_api.
NotifyChange(m) ==
    /\ user = "idle" /\ main = "run" /\ changes < MaxChanges
    /\ MayUse(m)
    /\ QueuePush(Command("IO_WAIT_CHANGED"))
    /\ user' = "asked" /\ target' = m /\ changes' = changes + 1
    /\ UNCHANGED <<apiVars, reader_stopped, written>> /\ UserElse

\* Faulty variant: the functions are written without waiting for the reader.
PreparedAtOnce == TRUE

Prepared == reader_stopped > 0

ReaderPrepared ==
    /\ user = "asked" /\ Prepared
    /\ reader_stopped' = reader_stopped - 1
    /\ user' = "install"
    /\ UNCHANGED <<apiVars, reader_queue, target, written, changes>> /\ UserElse

Install ==
    /\ user = "install" /\ written < Len(Functions)
    /\ LET f == Functions[written + 1]
       IN  installed' = [installed EXCEPT ![f] = FunctionOf(target, f)]
    /\ written' = written + 1
    /\ waiting_type' = IF written' = Len(Functions) THEN target ELSE waiting_type
    /\ UNCHANGED <<reader_queue, reader_stopped, user, target, changes>> /\ UserElse

\* valvula_reader_notify_change_done_io_api.
NotifyChangeDone ==
    /\ user = "install" /\ written = Len(Functions)
    /\ QueuePush(Command("IO_WAIT_READY"))
    /\ user' = "idle" /\ target' = NULL /\ written' = 0
    /\ UNCHANGED <<apiVars, reader_stopped, changes>> /\ UserElse

-----------------------------------------------------------------------------
(* valvula_reader_stop, by the thread that exits.                           *)

MainElse == UNCHANGED <<listVars, groupVars, connVars, rpc, loopVars, held, apiVars, userVars>>

Terminate ==
    /\ main = "run" /\ Undisturbed
    /\ QueuePush(Command("TERMINATE"))
    /\ main' = "stopping"
    /\ UNCHANGED reader_stopped /\ MainElse

\* It waits at most ten seconds: longer than the reader needs unless a client stalls it
\* (ValvulaReader).
ReaderStopped ==
    /\ main = "stopping" /\ reader_stopped > 0
    /\ reader_stopped' = reader_stopped - 1 /\ main' = "joined"
    /\ UNCHANGED reader_queue /\ MainElse

-----------------------------------------------------------------------------
(* The reader: the queue.                                                   *)

Without(s, gone) ==
    LET kept[n \in 0..Len(s)] ==
            IF n = 0 THEN <<>>
            ELSE IF s[n] \in gone THEN kept[n - 1] ELSE Append(kept[n - 1], s[n])
    IN  kept[Len(s)]

\* valvula_reader_register_watch, which says whether it took the item.
Taken(d) == d.type # "CONNECTION" \/ ok[d.conn]

\* Faulty variant: a connection closed meanwhile keeps its reference.
DroppedKept(d) == ref_count

Dropped(d) == [ref_count EXCEPT ![d.conn] = @ - 1]

RegisterWatch(d) ==
    /\ conn_list' = IF d.type = "CONNECTION" /\ Taken(d) THEN Append(conn_list, d.conn)
                    ELSE conn_list
    /\ srv_list' = IF d.type = "LISTENER" THEN Append(srv_list, d.conn) ELSE srv_list
    /\ ref_count' = IF Taken(d) THEN ref_count ELSE Dropped(d)

\* The first half of __valvula_reader_change_io_mech.
LetChange ==
    /\ on_reading' = NULL /\ set' = <<>>
    /\ reader_stopped' = reader_stopped + 1

QueueElse == UNCHANGED <<ok, ready, todo, pos, left, badf, outside>>

\* valvula_reader_read_queue: nothing is watched, the reader sleeps.
ReadQueue ==
    /\ rpc = "first" /\ reader_queue # <<>>
    /\ reader_queue' = Tail(reader_queue)
    /\ LET d == Head(reader_queue)
       IN  IF d.type = "IO_WAIT_CHANGED"
           THEN LetChange /\ rpc' = "renew_first" /\ UNCHANGED <<listVars, ref_count>>
           ELSE /\ RegisterWatch(d)
                /\ rpc' = IF ~ Taken(d) THEN "first"
                          ELSE IF d.type = "TERMINATE" THEN "stop" ELSE "clear"
                /\ UNCHANGED <<groupVars, reader_stopped>>
    /\ UNCHANGED length /\ QueueElse

\* valvula_reader_read_pending: as many items as there were; the last one decides.
ReadPending ==
    /\ rpc = "pending" /\ length > 0
    /\ reader_queue # <<>>
    /\ reader_queue' = Tail(reader_queue) /\ length' = length - 1
    /\ LET d == Head(reader_queue)
       IN  IF d.type = "IO_WAIT_CHANGED"
           THEN LetChange /\ rpc' = "renew" /\ UNCHANGED <<listVars, ref_count>>
           ELSE /\ RegisterWatch(d)
                /\ rpc' = IF length > 1 THEN "pending"
                          ELSE IF d.type = "TERMINATE" THEN "stop" ELSE "clear"
                /\ UNCHANGED <<groupVars, reader_stopped>>
    /\ QueueElse

NothingPending ==
    /\ rpc = "pending" /\ length = 0
    /\ rpc' = "clear"
    /\ UNCHANGED <<reader_queue, reader_stopped, listVars, groupVars, ref_count, length>>
    /\ QueueElse

\* The second half of __valvula_reader_change_io_mech: whatever item comes next is taken
\* for the IO_WAIT_READY.
ChangeIoMech ==
    /\ rpc \in {"renew_first", "renew"} /\ reader_queue # <<>>
    /\ reader_queue' = Tail(reader_queue)
    /\ on_reading' = installed["create"]
    /\ RegisterWatch(Head(reader_queue))
    /\ rpc' = IF rpc = "renew_first"
              THEN IF Taken(Head(reader_queue)) THEN "clear" ELSE "first"
              ELSE IF length > 0 THEN "pending" ELSE "clear"
    /\ UNCHANGED <<set, reader_stopped, length>> /\ QueueElse

-----------------------------------------------------------------------------
(* The reader: what it watches.                                             *)

LoopElse == UNCHANGED <<reader_queue, reader_stopped, outside>>

\* Clears the set; with nothing to watch the reader sleeps at the queue.
Clear ==
    /\ rpc = "clear"
    /\ set' = <<>>
    /\ rpc' = IF conn_list = <<>> /\ srv_list = <<>> THEN "first" ELSE "build"
    /\ UNCHANGED <<on_reading, listVars, connVars, loopVars>> /\ LoopElse

\* What add_to of each mechanism takes of the connections s: lost are those closed since
\* the reader looked, whose descriptor is -1.
FirstOf(s, m) == SubSeq(s, 1, IF Len(s) < Limit[m] THEN Len(s) ELSE Limit[m])
SelectTakes(s, lost) == FirstOf(Without(s, lost), "select")
PollTakes(s, lost)   == FirstOf(s, "poll")
EpollTakes(s, lost)  == FirstOf(Without(s, lost), "epoll")

Takes(s, lost) ==
    CASE installed["add_to"] = "select" -> SelectTakes(s, lost)
      [] installed["add_to"] = "poll"   -> PollTakes(s, lost)
      [] OTHER                          -> EpollTakes(s, lost)

\* The connections removed from the lists are closed and the reader's reference given back.
Release(gone) ==
    /\ conn_list' = Without(conn_list, gone) /\ srv_list' = Without(srv_list, gone)
    /\ ok' = [c \in Conns |-> ok[c] /\ c \notin gone]
    /\ ready' = [c \in Conns |-> ready[c] /\ c \notin gone]
    /\ ref_count' = [c \in Conns |-> IF c \in gone THEN ref_count[c] - 1 ELSE ref_count[c]]

NotOk == {c \in Conns : ~ ok[c]}

\* Those that may be closed behind the reader's back in the middle of a step.
Closing(c) == c \in held /\ ok[c]

\* Listeners first, then connections.  Only epoll sets errno for a descriptor of -1.
Build ==
    /\ rpc = "build"
    /\ \E lost \in SUBSET {c \in Range(conn_list) : Closing(c)} :
         LET listed  == srv_list \o conn_list
             watched == Takes(Without(listed, NotOk), lost)
             gone    == Range(listed) \ Range(watched)
             bad     == badf \/ (installed["add_to"] = "epoll" /\ lost # {})
         IN  /\ set' = watched
             /\ conn_list' = Without(conn_list, gone) /\ srv_list' = Without(srv_list, gone)
             /\ ok' = [c \in Conns |-> ok[c] /\ c \notin gone \cup lost]
             /\ ready' = [c \in Conns |-> ready[c] /\ c \notin gone \cup lost]
             /\ ref_count' = [c \in Conns |->
                                 ref_count[c] - (IF c \in gone THEN 1 ELSE 0)
                                              - (IF c \in lost THEN 1 ELSE 0)]
             /\ held' = held \ lost
             /\ badf' = bad
             /\ rpc' = IF bad THEN "cleanup" ELSE "wait"
    /\ UNCHANGED <<on_reading, todo, pos, left, length, reader_queue, reader_stopped, apiVars,
                   userVars, main>>

\* __valvula_reader_detect_and_cleanup_connections: recv on the descriptor of a connection
\* that was ok when tested, and closed since.
Cleanup ==
    /\ rpc = "cleanup"
    /\ \E lost \in SUBSET {c \in Range(conn_list) : Closing(c)} :
         /\ conn_list' = Without(conn_list, lost)
         /\ ok' = [c \in Conns |-> ok[c] /\ c \notin lost]
         /\ ready' = [c \in Conns |-> ready[c] /\ c \notin lost]
         /\ ref_count' = [c \in Conns |-> IF c \in lost THEN ref_count[c] - 2
                                          ELSE ref_count[c]]
         /\ held' = held \ lost
    /\ badf' = FALSE /\ rpc' = "clear"
    /\ UNCHANGED <<srv_list, groupVars, todo, pos, left, length, reader_queue, reader_stopped,
                   apiVars, userVars, main>>

-----------------------------------------------------------------------------
(* The reader: waiting.                                                     *)

\* What the mechanisms report of the set: epoll forgets a descriptor that was closed since
\* it was added, poll counts it with the changed and select fails for it.
Ready == {c \in Range(set) : ready[c] /\ ok[c]}
Closed == {c \in Range(set) : ~ ok[c]}
EpollChanged == Cardinality(Ready)
PollChanged  == Cardinality(Ready) + Cardinality(Closed)
SelectFails  == installed["wait_on"] = "select" /\ Closed # {}

Changed == IF installed["wait_on"] = "poll" THEN PollChanged ELSE EpollChanged

HaveDispatch == installed["have_dispatch"] # NULL

ToPending == rpc' = "pending" /\ todo' = {} /\ pos' = 0 /\ left' = 0
             /\ length' = Len(reader_queue)

WaitElse == UNCHANGED <<listVars, groupVars, connVars>> /\ LoopElse

Reported ==
    /\ rpc = "wait" /\ ~ SelectFails /\ Changed > 0
    /\ todo' = Ready /\ left' = Changed /\ pos' = 1
    /\ rpc' = IF HaveDispatch THEN "dispatch" ELSE "listeners"
    /\ UNCHANGED <<length, badf>> /\ WaitElse

\* Half a second without anything, a signal, or an error of select.
NothingReported ==
    /\ rpc = "wait" /\ (SelectFails \/ Changed = 0)
    /\ ToPending
    /\ badf' = (badf \/ SelectFails)
    /\ WaitElse

Interrupted ==
    /\ rpc = "wait"
    /\ ToPending
    /\ UNCHANGED badf /\ WaitElse

-----------------------------------------------------------------------------
(* The reader: dispatching.                                                 *)

\* valvula_reader_accept_connections: the system may have no descriptor left.
Accept(l) ==
    /\ UNCHANGED srv_list
    /\ \/ \E c \in Clients :
            /\ ref_count[c] = 0
            /\ conn_list' = Append(conn_list, c)
            /\ ok' = [ok EXCEPT ![c] = TRUE]
            /\ ref_count' = [ref_count EXCEPT ![c] = 1]
            /\ ready' = [ready EXCEPT ![l] = FALSE]
       \/ /\ ready' = [ready EXCEPT ![l] = FALSE]
          /\ UNCHANGED <<conn_list, ok, ref_count>>

\* __valvula_reader_process_socket, after which the connection may be closed.
ProcessSocket(c) ==
    /\ ready' = [ready EXCEPT ![c] = FALSE]
    /\ ok' \in {ok, [ok EXCEPT ![c] = FALSE]}
    /\ UNCHANGED <<listVars, ref_count>>

\* __valvula_reader_dispatch_connection.
Dispatch(c) == IF c \in Listeners THEN Accept(c) ELSE ProcessSocket(c)

DispatchElse == UNCHANGED <<groupVars, length, badf>> /\ LoopElse

\* poll's dispatch goes through the set it was given, until it has seen what changed.
PollDispatch ==
    /\ rpc = "dispatch" /\ installed["dispatch"] = "poll"
    /\ left > 0 /\ pos <= Len(set)
    /\ LET c == set[pos]
       IN  IF c \in todo
           THEN Dispatch(c) /\ todo' = todo \ {c} /\ left' = left - 1
           ELSE UNCHANGED <<listVars, connVars, todo, left>>
    /\ pos' = pos + 1
    /\ UNCHANGED rpc /\ DispatchElse

\* epoll's goes through the list the system returned, in whatever order that is.
EpollDispatch(c) ==
    /\ rpc = "dispatch" /\ installed["dispatch"] = "epoll" /\ c \in todo
    /\ Dispatch(c)
    /\ todo' = todo \ {c} /\ left' = left - 1
    /\ UNCHANGED <<pos, rpc>> /\ DispatchElse

DispatchDone ==
    /\ rpc = "dispatch" /\ (left = 0 \/ pos > Len(set))
    /\ ToPending
    /\ UNCHANGED <<listVars, groupVars, connVars, badf>> /\ LoopElse

IsSet(c) == installed["is_set"] # NULL /\ c \in todo

\* Without a dispatch the reader asks is_set for each listener, then for each connection.
\* A listener found closed counts as one of the changed.
CheckListener ==
    /\ rpc = "listeners" /\ pos <= Len(srv_list)
    /\ LET l == srv_list[pos]
       IN  IF ~ ok[l]
           THEN /\ Release({l})
                /\ left' = left - 1
                /\ UNCHANGED <<pos, rpc, todo>>
           ELSE LET found == IF IsSet(l) THEN 1 ELSE 0
                IN  /\ IF IsSet(l) THEN Accept(l) ELSE UNCHANGED <<listVars, connVars>>
                    /\ todo' = todo \ {l}
                    /\ left' = left - found
                    /\ IF left = found THEN rpc' = "connections" /\ pos' = 1
                       ELSE pos' = pos + 1 /\ UNCHANGED rpc
    /\ DispatchElse

ListenersDone ==
    /\ rpc = "listeners" /\ pos > Len(srv_list)
    /\ rpc' = "connections" /\ pos' = 1
    /\ UNCHANGED <<todo, left, listVars, connVars>> /\ DispatchElse

\* Faulty variant: the cursor goes on without the connection being looked at.
SkipConnection(c) == pos' = pos + 1 /\ left' = left - 1 /\ UNCHANGED <<listVars, connVars, todo>>

CheckConnection(c) ==
    IF ~ ok[c]
    THEN Release({c}) /\ UNCHANGED <<pos, left, todo>>
    ELSE /\ IF IsSet(c) THEN ProcessSocket(c) ELSE UNCHANGED <<listVars, connVars>>
         /\ todo' = todo \ {c}
         /\ left' = IF IsSet(c) THEN left - 1 ELSE left
         /\ pos' = pos + 1

CheckConnections ==
    /\ rpc = "connections" /\ left # 0 /\ pos <= Len(conn_list)
    /\ CheckConnection(conn_list[pos])
    /\ UNCHANGED rpc /\ DispatchElse

ConnectionsDone ==
    /\ rpc = "connections" /\ (left = 0 \/ pos > Len(conn_list))
    /\ ToPending
    /\ UNCHANGED <<listVars, groupVars, connVars, badf>> /\ LoopElse

\* __valvula_reader_stop_process: what is still in the queue goes with it.
StopProcess ==
    /\ rpc = "stop"
    /\ Release(Range(conn_list) \cup Range(srv_list))
    /\ on_reading' = NULL /\ set' = <<>>
    /\ reader_stopped' = reader_stopped + 1
    /\ rpc' = "done"
    /\ UNCHANGED <<reader_queue, loopVars, outside>>

-----------------------------------------------------------------------------
ReaderStep ==
    \/ ReadQueue \/ ReadPending \/ NothingPending \/ ChangeIoMech
    \/ Clear \/ Build \/ Cleanup \/ Reported \/ NothingReported
    \/ PollDispatch \/ (\E c \in Conns : EpollDispatch(c)) \/ DispatchDone
    \/ CheckListener \/ ListenersDone \/ CheckConnections \/ ConnectionsDone
    \/ StopProcess

UserStep == ReaderPrepared \/ Install \/ NotifyChangeDone

Next ==
    \/ ReaderStep \/ Interrupted
    \/ \E c \in Conns : WatchListener(c) \/ WatchConnection(c) \/ CloseShared(c) \/ Arrive(c)
    \/ \E m \in Mechs : NotifyChange(m)
    \/ UserStep
    \/ Terminate \/ ReaderStopped

\* The threads run, and not every wait is interrupted.
Fairness == WF_vars(ReaderStep) /\ SF_vars(Reported) /\ WF_vars(UserStep)

Spec == Init /\ [][Next]_vars /\ Fairness

-----------------------------------------------------------------------------
(* Properties.                                                              *)

Times(s, c) == Cardinality({i \in 1..Len(s) : s[i] = c})
Queued(c)   == Cardinality({i \in 1..Len(reader_queue) : reader_queue[i].conn = c})

\* The reader has exactly one reference to each connection it was handed, as long as it is
\* queued or listed and no longer, whatever closes it and wherever that is noticed.
OneReference ==
    \A c \in Conns :
        ref_count[c] = Queued(c) + Times(conn_list, c) + Times(srv_list, c)
                       + IF c \in held THEN 1 ELSE 0

\* The functions of one mechanism never get the group of another: the reader has none while
\* they are replaced.
GroupMatches ==
    rpc \notin {"renew_first", "renew", "done"} =>
        \A f \in Range(Functions) : installed[f] = FunctionOf(on_reading, f)

\* Whatever arrives at a watched connection is looked at, with each mechanism and across
\* changes of it, unless the connection is closed or the library exits.
Looked ==
    \A c \in Conns :
        c \in Range(conn_list) /\ ready[c] ~> ~ ready[c] \/ main # "run"

=============================================================================
