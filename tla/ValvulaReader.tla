---------------------------- MODULE ValvulaReader ----------------------------
(***************************************************************************)
(* The request pipeline of libValvula: one reader thread multiplexes the   *)
(* client connections, assembles requests line by line and hands each      *)
(* finished one to a worker of the thread pool, which runs the policy      *)
(* handlers and writes the reply (lib/valvula_reader.c,                    *)
(* lib/valvula_connection.c, valvula_thread_pool_new_task).                *)
(*                                                                         *)
(* Reader and workers share the fields request, process_launched and       *)
(* lines_found of a ValvulaConnection with no lock, so each load and each  *)
(* store of them is a step of its own.  Stores of one thread are assumed   *)
(* to become visible in program order.  A dereference of NULL, or a write  *)
(* to memory that a worker owns or that was released, is undefined: the    *)
(* process may die (crashed) or go on.                                     *)
(*                                                                         *)
(* The task queue is a bag; its FIFO order (AsyncQueue) appears as the     *)
(* strong fairness of Pop.                                                 *)
(***************************************************************************)
EXTENDS Naturals, Sequences, FiniteSets

CONSTANTS
    Conns,              \* the client connections there may ever be
    Workers,            \* the threads of the pool
    Requests,           \* the ValvulaRequest objects malloc can return
    Pipelining,         \* clients that may send without waiting for the reply
    Stalling,           \* clients that may leave a line unfinished for a while
    LineKinds,          \* what the lines before the blank one may be
    States, Silent,     \* handler results; those send_reply writes nothing for
    RequestLineLimit,   \* ctx->request_line_limit
    MaxRequests,        \* bound: requests one client sends
    MaxInput,           \* bound: lines waiting in one socket
    MayStop,            \* whether the server is ever told to stop
    NULL

ASSUME ReaderAssumption ==
    /\ IsFiniteSet(Workers)
    /\ Pipelining \subseteq Conns /\ Stalling \subseteq Conns
    /\ LineKinds \subseteq {"attr", "malformed", "checkserver"}
    /\ Silent \subseteq States
    /\ RequestLineLimit \in Nat /\ MaxRequests \in Nat /\ MaxInput \in Nat
    /\ MayStop \in BOOLEAN
    /\ NULL \notin Conns \cup Requests \cup States

VARIABLES
    \* the ValvulaConnection objects and the reader's list of them
    conn_list, session, ref_count, alive, request, process_launched, lines_found,
    \* the reader thread: where it is, the connections select reported, locals
    rpc, todo, cur, line, found, item,
    \* the pool: queued tasks per connection, tasks it threw away, shutdown flag
    queued, dropped, thread_pool_being_stopped,
    \* the worker threads
    wpc, wconn, wreq, wstate,
    \* the request objects in use and which client lines each one holds
    heap, content,
    \* the clients: phase, requests sent, bytes in the socket, replies received
    client, sent, input, answered,
    crashed

connVars   == <<conn_list, session, ref_count, alive, request, process_launched, lines_found>>
readerVars == <<rpc, todo, cur, line, found, item>>
poolVars   == <<queued, dropped, thread_pool_being_stopped>>
workerVars == <<wpc, wconn, wreq, wstate>>
heapVars   == <<heap, content>>
clientVars == <<client, sent, input, answered>>
vars == <<connVars, readerVars, poolVars, workerVars, heapVars, clientVars, crashed>>

\* What one call of readline returns.  "of" is the number of the client's request
\* the line belongs to, 0 for the end of file.
Line   == [kind : {"attr", "blank", "malformed", "checkserver", "part", "eof"}, of : Nat]
NoLine == [kind |-> "attr", of |-> 0]

ConnTypeOK ==
    /\ conn_list \subseteq Conns
    /\ session \in [Conns -> {"none", "open", "closed"}]
    /\ ref_count \in [Conns -> Nat]
    /\ alive \in [Conns -> BOOLEAN]
    /\ request \in [Conns -> Requests \cup {NULL}]
    /\ process_launched \in [Conns -> BOOLEAN]
    /\ lines_found \in [Conns -> Nat]
    /\ heap \subseteq Requests
    /\ content \in [Requests -> SUBSET (Conns \X Nat)]

ReaderTypeOK ==
    /\ rpc \in {"wait", "accept", "pass", "recv", "count", "alloc", "launch", "ref",
                "task", "load", "write"}
    /\ todo \subseteq Conns
    /\ cur \in Conns \cup {NULL}
    /\ line \in Line
    /\ found \in Nat
    /\ item \in Requests \cup {NULL}

WorkerTypeOK ==
    /\ queued \in [Conns -> Nat]
    /\ dropped \in [Conns -> Nat]
    /\ thread_pool_being_stopped \in BOOLEAN
    /\ wpc \in [Workers -> {"idle", "take", "clear", "ready", "reset", "handle", "reply",
                            "unref", "free"}]
    /\ wconn \in [Workers -> Conns \cup {NULL}]
    /\ wreq \in [Workers -> Requests \cup {NULL}]
    /\ wstate \in [Workers -> States \cup {NULL}]
    /\ crashed \in BOOLEAN

ClientTypeOK ==
    /\ client \in [Conns -> {"absent", "connecting", "writing", "waiting", "unanswered",
                             "streaming", "gone"}]
    /\ sent \in [Conns -> Nat]
    /\ input \in [Conns -> Seq(Line)]
    /\ answered \in [Conns -> Seq(SUBSET (Conns \X Nat))]

\* The types of all variables: among them that no count goes below zero.
TypeOK == ConnTypeOK /\ ReaderTypeOK /\ WorkerTypeOK /\ ClientTypeOK

Init ==
    /\ conn_list = {}
    /\ session = [c \in Conns |-> "none"]
    /\ ref_count = [c \in Conns |-> 0]
    /\ alive = [c \in Conns |-> FALSE]
    /\ request = [c \in Conns |-> NULL]
    /\ process_launched = [c \in Conns |-> FALSE]
    /\ lines_found = [c \in Conns |-> 0]
    /\ rpc = "wait" /\ todo = {} /\ cur = NULL /\ line = NoLine /\ found = 0 /\ item = NULL
    /\ queued = [c \in Conns |-> 0]
    /\ dropped = [c \in Conns |-> 0]
    /\ thread_pool_being_stopped = FALSE
    /\ wpc = [w \in Workers |-> "idle"]
    /\ wconn = [w \in Workers |-> NULL]
    /\ wreq = [w \in Workers |-> NULL]
    /\ wstate = [w \in Workers |-> NULL]
    /\ heap = {}
    /\ content = [r \in Requests |-> {}]
    /\ client = [c \in Conns |-> "absent"]
    /\ sent = [c \in Conns |-> 0]
    /\ input = [c \in Conns |-> <<>>]
    /\ answered = [c \in Conns |-> <<>>]
    /\ crashed = FALSE

-----------------------------------------------------------------------------
(* The clients.  One that is "writing" is a Postfix: it sends the lines of a  *)
(* request, a blank line, and waits for the reply.  One that is "streaming"   *)
(* does not wait.                                                             *)

Unfinished(c) == input[c] # <<>> /\ input[c][Len(input[c])].kind = "part"

\* The lines of s, the unfinished one at the end now being of this kind.
Ended(s, kind) == [s EXCEPT ![Len(s)] = [kind |-> kind, of |-> s[Len(s)].of]]

Sends(c, kind) ==
    /\ ~ crashed
    /\ client[c] \in {"writing", "streaming"}
    /\ session[c] = "open"
    /\ sent[c] < MaxRequests
    /\ Len(input[c]) < MaxInput
    /\ ~ Unfinished(c)
    /\ input' = [input EXCEPT ![c] = Append(@, [kind |-> kind, of |-> sent[c] + 1])]

ClientElse == UNCHANGED <<connVars, readerVars, poolVars, workerVars, heapVars, answered, crashed>>

Connect(c) ==
    /\ ~ crashed
    /\ client[c] = "absent"
    /\ client' = [client EXCEPT ![c] = "connecting"]
    /\ UNCHANGED <<sent, input>> /\ ClientElse

SendLine(c) ==
    /\ \E kind \in LineKinds : Sends(c, kind)
    /\ UNCHANGED <<client, sent>> /\ ClientElse

SendBlank(c) ==
    /\ Sends(c, "blank")
    /\ sent' = [sent EXCEPT ![c] = @ + 1]
    /\ client' = [client EXCEPT ![c] = IF @ = "writing" THEN "waiting" ELSE @]
    /\ ClientElse

SendPart(c) ==
    /\ c \in Stalling
    /\ Sends(c, "part")
    /\ UNCHANGED <<client, sent>> /\ ClientElse

FinishLine(c) ==
    /\ ~ crashed
    /\ client[c] \in {"writing", "streaming"}
    /\ Unfinished(c)
    /\ input' = [input EXCEPT ![c] = Ended(@, "attr")]
    /\ UNCHANGED <<client, sent>> /\ ClientElse

\* The end of file is seen after the bytes already sent; an unfinished line is
\* then returned as it stands.
Disconnect(c) ==
    /\ ~ crashed
    /\ client[c] \notin {"absent", "connecting", "gone"}
    /\ client' = [client EXCEPT ![c] = "gone"]
    /\ \E cut \in {"attr", "malformed"} :
         LET pending == IF Unfinished(c) THEN Ended(input[c], cut) ELSE input[c]
         IN  input' = IF session[c] = "open"
                      THEN [input EXCEPT ![c] = Append(pending, [kind |-> "eof", of |-> 0])]
                      ELSE input
    /\ UNCHANGED sent /\ ClientElse

-----------------------------------------------------------------------------
(* Connections.                                                             *)

\* Faulty variant: the reference is given back twice.
UnrefTwice(c) ==
    /\ ref_count' = [ref_count EXCEPT ![c] = @ - 2]
    /\ UNCHANGED <<alive, request, heapVars>>

\* valvula_connection_unref, with valvula_connection_free at the last reference.
Unref(c) ==
    /\ ref_count' = [ref_count EXCEPT ![c] = @ - 1]
    /\ IF ref_count[c] = 1
       THEN /\ alive' = [alive EXCEPT ![c] = FALSE]
            /\ heap' = heap \ {request[c]}
            /\ content' = [r \in Requests |-> IF r = request[c] THEN {} ELSE content[r]]
            /\ request' = [request EXCEPT ![c] = NULL]
       ELSE UNCHANGED <<alive, request, heapVars>>

\* valvula_connection_close: unread data is lost with the socket.
CloseSession(c) ==
    /\ session' = [session EXCEPT ![c] = "closed"]
    /\ input' = [input EXCEPT ![c] = <<>>]

-----------------------------------------------------------------------------
(* The reader thread: one pass over the connections select reported, one    *)
(* line of each.                                                            *)

At(place) == rpc = place /\ ~ crashed

BackToPass ==
    /\ rpc' = "pass" /\ cur' = NULL /\ line' = NoLine /\ found' = 0 /\ item' = NULL

Readable   == {c \in conn_list : input[c] # <<>>}
Connecting == {c \in Conns : client[c] = "connecting"}

\* Building the set to watch removes the connections found closed.
DropClosed(c) ==
    /\ At("wait") /\ c \in conn_list /\ session[c] = "closed"
    /\ conn_list' = conn_list \ {c}
    /\ Unref(c)
    /\ UNCHANGED <<session, process_launched, lines_found, readerVars, poolVars, workerVars,
                   clientVars, crashed>>

Wait ==
    /\ At("wait")
    /\ \A c \in conn_list : session[c] = "open"
    /\ Readable \cup Connecting # {}
    /\ todo' = Readable
    /\ rpc' = IF Connecting # {} THEN "accept" ELSE "pass"
    /\ UNCHANGED <<cur, line, found, item, connVars, poolVars, workerVars, heapVars,
                   clientVars, crashed>>

Accept(c) ==
    /\ At("accept") /\ client[c] = "connecting"
    /\ \/ client' = [client EXCEPT ![c] = "writing"]
       \/ c \in Pipelining /\ client' = [client EXCEPT ![c] = "streaming"]
    /\ session' = [session EXCEPT ![c] = "open"]
    /\ ref_count' = [ref_count EXCEPT ![c] = 1]
    /\ alive' = [alive EXCEPT ![c] = TRUE]
    /\ conn_list' = conn_list \cup {c}
    /\ rpc' = "pass"
    /\ UNCHANGED <<request, process_launched, lines_found, todo, cur, line, found, item,
                   poolVars, workerVars, heapVars, sent, input, answered, crashed>>

Select(c) ==
    /\ At("pass") /\ c \in todo
    /\ todo' = todo \ {c}
    /\ cur' = c
    /\ rpc' = "recv"
    /\ UNCHANGED <<line, found, item, connVars, poolVars, workerVars, heapVars, clientVars,
                   crashed>>

PassDone ==
    /\ At("pass") /\ todo = {}
    /\ rpc' = "wait"
    /\ UNCHANGED <<todo, cur, line, found, item, connVars, poolVars, workerVars, heapVars,
                   clientVars, crashed>>

\* valvula_readline on the blocking socket accept returned: it comes back only with
\* a whole line or the end of file, which process_socket does not tell from an empty
\* line and which the socket keeps reporting.  A "checkserver" line is answered and
\* the connection closed.
Recv ==
    /\ At("recv")
    /\ Head(input[cur]).kind # "part"
    /\ IF Head(input[cur]).kind = "checkserver"
       THEN /\ CloseSession(cur)
            /\ process_launched' = [process_launched EXCEPT ![cur] = TRUE]
            /\ BackToPass
       ELSE /\ line' = Head(input[cur])
            /\ input' = IF Head(input[cur]).kind = "eof" THEN input
                        ELSE [input EXCEPT ![cur] = Tail(@)]
            /\ found' = lines_found[cur] + 1
            /\ rpc' = "count"
            /\ UNCHANGED <<session, process_launched, cur, item>>
    /\ UNCHANGED <<conn_list, ref_count, alive, request, lines_found, todo, poolVars,
                   workerVars, heapVars, client, sent, answered, crashed>>

\* The store of lines_found++ and the limit.
Count ==
    /\ At("count")
    /\ lines_found' = [lines_found EXCEPT ![cur] = found]
    /\ IF found > RequestLineLimit
       THEN CloseSession(cur) /\ BackToPass
       ELSE rpc' = "alloc" /\ found' = 0 /\ UNCHANGED <<session, input, cur, line, item>>
    /\ UNCHANGED <<conn_list, ref_count, alive, request, process_launched, todo, poolVars,
                   workerVars, heapVars, client, sent, answered, crashed>>

\* Where process_socket goes with a well formed line.  In the faulty variant the test
\* for the empty line is missing.
LaunchAnyLine(kind) == "launch"
ParseOrLaunch(kind) == IF kind = "attr" THEN "load" ELSE "launch"

\* A request object is made ready for whatever line it is; then a malformed line
\* closes the connection.
Alloc ==
    /\ At("alloc")
    /\ IF request[cur] = NULL
       THEN \E r \in Requests \ heap :
              /\ heap' = heap \cup {r}
              /\ request' = [request EXCEPT ![cur] = r]
       ELSE UNCHANGED <<heap, request>>
    /\ IF line.kind = "malformed"
       THEN CloseSession(cur) /\ BackToPass
       ELSE /\ rpc' = ParseOrLaunch(line.kind)
            /\ UNCHANGED <<session, input, cur, line, found, item>>
    /\ UNCHANGED <<conn_list, ref_count, alive, process_launched, lines_found, todo, poolVars,
                   workerVars, content, client, sent, answered, crashed>>

\* An empty line: the connection closes when a launched request is still waiting for
\* its worker, else the request is launched.
Launch ==
    /\ At("launch")
    /\ IF process_launched[cur]
       THEN /\ CloseSession(cur) /\ BackToPass
            /\ UNCHANGED <<process_launched, content>>
       ELSE /\ process_launched' = [process_launched EXCEPT ![cur] = TRUE]
            /\ content' = [r \in Requests |-> IF r = request[cur]
                                              THEN content[r] \cup {<<cur, line.of>>}
                                              ELSE content[r]]
            /\ rpc' = "ref"
            /\ UNCHANGED <<session, input, cur, line, found, item>>
    /\ UNCHANGED <<conn_list, ref_count, alive, request, lines_found, todo, poolVars,
                   workerVars, heap, client, sent, answered, crashed>>

\* Faulty variant: the task is queued without a reference of its own.
RefSkipped ==
    /\ At("ref")
    /\ rpc' = "task"
    /\ UNCHANGED <<connVars, todo, cur, line, found, item, poolVars, workerVars, heapVars,
                   clientVars, crashed>>

\* valvula_connection_ref: only the reader closes sessions, so its check holds here.
Ref ==
    /\ At("ref")
    /\ ref_count' = [ref_count EXCEPT ![cur] = @ + 1]
    /\ rpc' = "task"
    /\ UNCHANGED <<conn_list, session, alive, request, process_launched, lines_found, todo,
                   cur, line, found, item, poolVars, workerVars, heapVars, clientVars, crashed>>

\* The guard of valvula_thread_pool_new_task, and a faulty one that is inverted.
PoolRefusesInverted == ~ thread_pool_being_stopped
PoolRefuses == thread_pool_being_stopped

\* valvula_thread_pool_new_task throws the task away once the pool is being stopped,
\* and nobody gives its reference back.
NewTask ==
    /\ At("task")
    /\ IF PoolRefuses
       THEN dropped' = [dropped EXCEPT ![cur] = @ + 1] /\ UNCHANGED queued
       ELSE queued' = [queued EXCEPT ![cur] = @ + 1] /\ UNCHANGED dropped
    /\ BackToPass
    /\ UNCHANGED <<thread_pool_being_stopped, todo, connVars, workerVars, heapVars, clientVars,
                   crashed>>

\* connection->request->field = value: the pointer is loaded, then written through.
Load ==
    /\ At("load")
    /\ IF request[cur] = NULL
       THEN crashed' = TRUE /\ UNCHANGED <<rpc, item>>
       ELSE rpc' = "write" /\ item' = request[cur] /\ UNCHANGED crashed
    /\ UNCHANGED <<todo, cur, line, found, connVars, poolVars, workerVars, heapVars, clientVars>>

Taken(r) == \E w \in Workers : wreq[w] = r

WriteField ==
    /\ At("write")
    /\ IF item \in heap /\ ~ Taken(item)
       THEN /\ content' = [content EXCEPT ![item] = @ \cup {<<cur, line.of>>}]
            /\ UNCHANGED crashed
       ELSE crashed' \in BOOLEAN /\ UNCHANGED content
    /\ BackToPass
    /\ UNCHANGED <<todo, connVars, poolVars, workerVars, heap, clientVars>>

-----------------------------------------------------------------------------
(* The workers: valvula_reader_process_request_proxy.                       *)

WorkerAt(w, place) == wpc[w] = place /\ ~ crashed

WorkerElse == UNCHANGED <<conn_list, session, readerVars, dropped, thread_pool_being_stopped>>

\* A task popped while the pool stops is released without running.
Pop(w, c) ==
    /\ WorkerAt(w, "idle") /\ queued[c] > 0
    /\ queued' = [queued EXCEPT ![c] = @ - 1]
    /\ IF thread_pool_being_stopped
       THEN dropped' = [dropped EXCEPT ![c] = @ + 1] /\ UNCHANGED <<wpc, wconn>>
       ELSE /\ wpc' = [wpc EXCEPT ![w] = "take"]
            /\ wconn' = [wconn EXCEPT ![w] = c]
            /\ UNCHANGED dropped
    /\ UNCHANGED <<connVars, readerVars, thread_pool_being_stopped, wreq, wstate, heapVars,
                   clientVars, crashed>>

\* Faulty variant: the connection is flagged ready before its request is taken.
TakeFlagFirst(w) ==
    /\ WorkerAt(w, "take")
    /\ process_launched' = [process_launched EXCEPT ![wconn[w]] = FALSE]
    /\ wreq' = [wreq EXCEPT ![w] = request[wconn[w]]]
    /\ wpc' = [wpc EXCEPT ![w] = "clear"]
    /\ UNCHANGED <<ref_count, alive, request, lines_found, queued, wconn, wstate, heapVars,
                   clientVars, crashed>> /\ WorkerElse

Take(w) ==
    /\ WorkerAt(w, "take")
    /\ wreq' = [wreq EXCEPT ![w] = request[wconn[w]]]
    /\ wpc' = [wpc EXCEPT ![w] = "clear"]
    /\ UNCHANGED <<ref_count, alive, request, process_launched, lines_found, queued, wconn,
                   wstate, heapVars, clientVars, crashed>> /\ WorkerElse

Clear(w) ==
    /\ WorkerAt(w, "clear")
    /\ request' = [request EXCEPT ![wconn[w]] = NULL]
    /\ wpc' = [wpc EXCEPT ![w] = "ready"]
    /\ UNCHANGED <<ref_count, alive, process_launched, lines_found, queued, wconn, wreq,
                   wstate, heapVars, clientVars, crashed>> /\ WorkerElse

Ready(w) ==
    /\ WorkerAt(w, "ready")
    /\ process_launched' = [process_launched EXCEPT ![wconn[w]] = FALSE]
    /\ wpc' = [wpc EXCEPT ![w] = "reset"]
    /\ UNCHANGED <<ref_count, alive, request, lines_found, queued, wconn, wreq, wstate,
                   heapVars, clientVars, crashed>> /\ WorkerElse

Reset(w) ==
    /\ WorkerAt(w, "reset")
    /\ lines_found' = [lines_found EXCEPT ![wconn[w]] = 0]
    /\ wpc' = [wpc EXCEPT ![w] = "handle"]
    /\ UNCHANGED <<ref_count, alive, request, process_launched, queued, wconn, wreq, wstate,
                   heapVars, clientVars, crashed>> /\ WorkerElse

\* valvula_reader_process_request dereferences the request, runs the handlers and
\* ends with one state.
Handle(w) ==
    /\ WorkerAt(w, "handle")
    /\ IF wreq[w] = NULL
       THEN crashed' = TRUE /\ UNCHANGED <<wpc, wstate>>
       ELSE /\ \E s \in States : wstate' = [wstate EXCEPT ![w] = s]
            /\ wpc' = [wpc EXCEPT ![w] = "reply"]
            /\ UNCHANGED crashed
    /\ UNCHANGED <<ref_count, alive, request, process_launched, lines_found, queued, wconn,
                   wreq, heapVars, clientVars>> /\ WorkerElse

\* __valvula_reader_send_reply.
Reply(w) ==
    /\ WorkerAt(w, "reply")
    /\ LET c         == wconn[w]
           delivered == wstate[w] \notin Silent /\ session[c] = "open" /\ client[c] # "gone"
       IN  /\ answered' = IF delivered
                          THEN [answered EXCEPT ![c] = Append(@, content[wreq[w]])]
                          ELSE answered
           /\ client' = [client EXCEPT ![c] =
                            IF @ # "waiting" THEN @
                            ELSE IF delivered THEN "writing" ELSE "unanswered"]
    /\ wstate' = [wstate EXCEPT ![w] = NULL]
    /\ wpc' = [wpc EXCEPT ![w] = "unref"]
    /\ UNCHANGED <<ref_count, alive, request, process_launched, lines_found, queued, wconn,
                   wreq, heapVars, sent, input, crashed>> /\ WorkerElse

UnrefConn(w) ==
    /\ WorkerAt(w, "unref")
    /\ Unref(wconn[w])
    /\ wconn' = [wconn EXCEPT ![w] = NULL]
    /\ wpc' = [wpc EXCEPT ![w] = "free"]
    /\ UNCHANGED <<process_launched, lines_found, queued, wreq, wstate, clientVars, crashed>>
    /\ WorkerElse

\* valvula_connection_request_free.
FreeRequest(w) ==
    /\ WorkerAt(w, "free")
    /\ heap' = heap \ {wreq[w]}
    /\ content' = [content EXCEPT ![wreq[w]] = {}]
    /\ wreq' = [wreq EXCEPT ![w] = NULL]
    /\ wpc' = [wpc EXCEPT ![w] = "idle"]
    /\ UNCHANGED <<ref_count, alive, request, process_launched, lines_found, queued, wconn,
                   wstate, clientVars, crashed>> /\ WorkerElse

\* valvula_exit_ctx flags the pool (valvula_thread_pool_being_closed).
BeingClosed ==
    /\ MayStop /\ ~ crashed
    /\ ~ thread_pool_being_stopped
    /\ thread_pool_being_stopped' = TRUE
    /\ UNCHANGED <<connVars, readerVars, queued, dropped, workerVars, heapVars, clientVars,
                   crashed>>

-----------------------------------------------------------------------------
ReaderStep ==
    \/ \E c \in Conns : DropClosed(c) \/ Accept(c) \/ Select(c)
    \/ Wait \/ PassDone \/ Recv \/ Count \/ Alloc \/ Launch \/ Ref \/ NewTask
    \/ Load \/ WriteField

WorkerStep(w) ==
    \/ Take(w) \/ Clear(w) \/ Ready(w) \/ Reset(w)
    \/ Handle(w) \/ Reply(w) \/ UnrefConn(w) \/ FreeRequest(w)

PopTask(c) == \E w \in Workers : Pop(w, c)

ClientStep(c) ==
    \/ Connect(c) \/ SendLine(c) \/ SendBlank(c) \/ SendPart(c)
    \/ FinishLine(c) \/ Disconnect(c)

Next ==
    \/ ReaderStep
    \/ \E w \in Workers : WorkerStep(w)
    \/ \E c \in Conns : PopTask(c) \/ ClientStep(c)
    \/ BeingClosed

\* The threads run, handlers return, and the pool's queue is FIFO.
Fairness ==
    /\ WF_vars(ReaderStep)
    /\ \A w \in Workers : WF_vars(WorkerStep(w))
    /\ \A c \in Conns : SF_vars(PopTask(c))

\* Nothing is assumed of the clients.
Spec == Init /\ [][Next]_vars /\ Fairness

\* Clients finish the lines they begin.
FinishingSpec == Spec /\ \A c \in Conns : WF_vars(FinishLine(c))

-----------------------------------------------------------------------------
(* Properties.                                                              *)

\* The references that threads and queued or lost tasks hold on a connection.
InList(c)  == IF c \in conn_list THEN 1 ELSE 0
InTask(c)  == IF rpc = "task" /\ cur = c THEN 1 ELSE 0
HeldBy(c)  == {w \in Workers : wconn[w] = c}
Holders(c) == InList(c) + InTask(c) + queued[c] + dropped[c] + Cardinality(HeldBy(c))

\* Reference counting: ref_count is the number of holders in every state, so the
\* connection is released exactly when the last of the reader's list, the queue and
\* the workers lets go, whatever the order in which they do.
RefsAreHolders ==
    \A c \in Conns :
        /\ ref_count[c] = Holders(c)
        /\ alive[c] <=> ref_count[c] > 0

\* No thread has a released connection in its hands: neither the reader in
\* process_socket nor a worker in the proxy.
NoUseAfterFree ==
    /\ cur # NULL => alive[cur]
    /\ \A w \in Workers : wconn[w] # NULL => alive[wconn[w]]

\* Between the launch and the store that clears process_launched a connection has one
\* task only: being referenced, queued, or taken by one worker that has not yet
\* emptied the connection.
Claiming(w, c) == wconn[w] = c /\ wpc[w] \in {"take", "clear", "ready"}
OneLaunch ==
    \A c \in Conns :
        LET inReader == IF rpc \in {"ref", "task"} /\ cur = c THEN 1 ELSE 0
            claims   == inReader + queued[c] + Cardinality({w \in Workers : Claiming(w, c)})
        IN  claims <= 1 /\ (claims = 1 => process_launched[c])

\* A request object has one owner: two workers never run or release the same one,
\* and once a worker has emptied the connection the reader cannot reach its object.
OneOwner ==
    /\ \A v, w \in Workers : wreq[v] = wreq[w] /\ wreq[v] # NULL => v = w
    /\ \A w \in Workers, c \in Conns :
          wreq[w] # NULL /\ request[c] = wreq[w] => wpc[w] = "clear" /\ wconn[w] = c
    /\ \A w \in Workers : wreq[w] # NULL => wreq[w] \in heap

\* To a client that waits for its replies, as Postfix does, the n-th reply answers
\* its n-th request: all of that request's lines that were read and no others.
RepliesInOrder ==
    \A c \in Conns : client[c] \in {"writing", "waiting", "unanswered"} =>
        /\ Len(answered[c]) <= sent[c]
        /\ \A n \in 1..Len(answered[c]) : answered[c][n] = {<<c, n>>}

\* The reader thread and the workers together are the service of ValvulaService.
Phase(c) == IF client[c] \in {"absent", "connecting"} THEN "away" ELSE client[c]
Service == INSTANCE ValvulaService WITH
    Clients <- Conns, phase <- [c \in Conns |-> Phase(c)], asked <- sent, replies <- answered
Serves == Service!Spec

\* What a handler runs on is "the request that was received": an object that exists
\* and that holds something a client sent.
HandlersSeeReceivedRequests ==
    \A w \in Workers : wpc[w] = "handle" =>
        /\ wreq[w] # NULL
        /\ \E l \in content[wreq[w]] : l[2] # 0

\* A client waiting for a reply does not wait for ever: it is answered (or its
\* handlers chose a state that has no reply), unless it goes, its connection is
\* closed, the server stops or the process dies.
Served ==
    \A c \in Conns : client[c] = "waiting" ~>
        (client[c] # "waiting" \/ session[c] = "closed" \/ thread_pool_being_stopped \/ crashed)

=============================================================================
