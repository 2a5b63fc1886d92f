---------------------------- MODULE ValvulaPolicy ----------------------------
(***************************************************************************)
(* What valvulad answers (lib/valvula_reader.c,                            *)
(* valvula_reader_process_request; plugins/mod-bwl; plugins/mod-slm; the   *)
(* modules that only observe): the start, which makes the tables, gives    *)
(* the port its handlers and then learns what is local, and the workers,   *)
(* which take a request through the handlers by priority.                  *)
(*                                                                         *)
(* Workers run while the server starts, and the databases may fail between *)
(* any two queries.  Rules are read from the database by one query for     *)
(* each level and then stepped through row by row, as in the code.         *)
(***************************************************************************)
EXTENDS ValvulaLocalObjects

CONSTANTS
    Modules,        \* the modules, in the order they are initialised
    ModTables,      \* the tables each ensures
    Priority,       \* the priority of each in its <run> node
    DefaultState,   \* ctx->default_state
    Rules,          \* the rows of bwl_global, bwl_domain and bwl_account
    BlockedUsers,   \* the rows of bwl_global_sasl
    Exceptions,     \* the rows of slm_exception
    Modes,          \* the modes mod-slm may be configured with
    AllowEmpty,     \* <sender-login-mismatch allow-empty-mail-from>
    Requests,       \* the requests that may reach each worker
    MaxRequests     \* bound: requests taken in a behaviour

(* Modules whose init passes over a table it could not make.               *)
Tolerant == {"mod-bwl", "mod-lmm", "mod-transport", "mod-object-resolver"}

Levels == <<"bwl_global", "bwl_domain", "bwl_account">>

States == {"dunno", "ok", "reject", "discard", "filter"}

ASSUME PolicyAssumption ==
    /\ Modules \in Seq(DOMAIN ModTables \cap DOMAIN Priority)
    /\ \A m \in ToSet(Modules) : ModTables[m] \in Seq(Tables)
    /\ \A i \in 1..3 : DOMAIN Rules[Levels[i]] = 1..Len(Rules[Levels[i]])
    /\ Modes \subseteq {"full", "same-domain", "valid-mail-from", "disabled"}
    /\ DOMAIN Requests = Workers /\ AllowEmpty \in BOOLEAN /\ MaxRequests \in Nat
    /\ DefaultState \in States /\ NULL \notin States

VARIABLES
    main, loaded, todo,     \* the main thread; modules initialised; those left, tables left
    handlers,       \* ctx->process_handler_registry, as the modules behind it
    mode,           \* __slm_mode
    taken,          \* requests taken
    pc, req,        \* each worker: where it is; its request
    early,          \* its request was taken before the start had ended (history)
    selected,       \* the handlers its request has been through
    cursor,         \* check_status: the level, its rows, the pass, the row
    state           \* what the last handler answered; at the end, the reply

starting == <<main, loaded, todo, handlers, mode>>
work == <<taken, pc, req, early, selected, cursor, state>>
vars == <<database, configured, lookups, starting, work>>

Steps == {"idle", "next", "mod-bwl", "check", "rows", "okrow", "islocal", "denydomain",
          "denysender", "mod-slm", "recipient", "sender", "observer", "report"}

TypeOK ==
    /\ DatabaseTypeOK
    /\ lineNo \in Nat /\ resolver \in BOOLEAN /\ names \subseteq StaticNames
    /\ DOMAIN query = Types
    /\ holder \in Workers \cup {NULL} /\ found \in [Workers -> BOOLEAN]
    /\ main \in {"init", "ensure", "autodetect", "names", "run"}
    /\ loaded \subseteq ToSet(Modules) /\ handlers \subseteq ToSet(Modules)
    /\ mode \in Modes /\ taken \in 0..MaxRequests
    /\ pc \in [Workers -> Steps] /\ \A w \in Workers : req[w] \in Requests[w] \cup {NULL}
    /\ early \in [Workers -> BOOLEAN]
    /\ selected \in [Workers -> SUBSET ToSet(Modules)]
    /\ \A w \in Workers : cursor[w].level \in 1..3 /\ cursor[w].pass \in {"specific", "generic"}
    /\ state \in [Workers -> States \cup {NULL}]

(* No result is open.                                                      *)
Closed == [level |-> 1, rows |-> <<>>, pass |-> "specific", row |-> 1]

Init ==
    /\ DatabaseInit
    /\ lineNo = 1 /\ variables = [k \in {} |-> <<>>]
    /\ query = [t \in Types |-> NULL] /\ names = {} /\ resolver = FALSE
    /\ holder = NULL /\ asking = [w \in Workers |-> <<>>] /\ found = [w \in Workers |-> FALSE]
    /\ main = "init" /\ loaded = {} /\ todo = <<Modules, <<>>>> /\ handlers = {}
    /\ mode \in Modes
    /\ taken = 0
    /\ pc = [w \in Workers |-> "idle"] /\ req = [w \in Workers |-> NULL]
    /\ early = [w \in Workers |-> FALSE] /\ selected = [w \in Workers |-> {}]
    /\ cursor = [w \in Workers |-> Closed]
    /\ state = [w \in Workers |-> NULL]

-----------------------------------------------------------------------------
(* The start: valvulad_run_config after the listeners                      *)

ThisModule == Head(todo[1])

(* The init of a module, up to its first table.                            *)
InitModule ==
    /\ main = "init" /\ todo[1] # <<>>
    /\ IF ModTables[ThisModule] = <<>>
       THEN /\ loaded' = loaded \cup {ThisModule}
            /\ todo' = <<Tail(todo[1]), <<>>>>
            /\ resolver' = (resolver \/ ThisModule = "mod-object-resolver")
            /\ UNCHANGED <<main, ensuring>>
       ELSE /\ Ensure(Head(ModTables[ThisModule]))
            /\ todo' = <<todo[1], Tail(ModTables[ThisModule])>>
            /\ main' = "ensure"
            /\ UNCHANGED <<loaded, resolver>>
    /\ UNCHANGED <<server, cols, lineNo, variables, query, names, lookups, handlers, mode, work>>

EnsureStep ==
    /\ main = "ensure"
    /\ EnsureTable
    /\ UNCHANGED <<configured, lookups, starting, work>>

(* A table was made or not: the next table, or the end of the init.        *)
TableEnsured ==
    /\ main = "ensure" /\ ensure \in {"done", "failed"}
    /\ LET goesOn == ensure = "done" \/ ThisModule \in Tolerant
       IN  IF goesOn /\ todo[2] # <<>>
           THEN /\ Ensure(Head(todo[2]))
                /\ todo' = <<todo[1], Tail(todo[2])>>
                /\ UNCHANGED <<main, loaded>>
           ELSE /\ loaded' = IF goesOn THEN loaded \cup {ThisModule} ELSE loaded
                /\ todo' = <<Tail(todo[1]), <<>>>>
                /\ main' = "init"
                /\ column' = 1 /\ ensure' = "done" /\ UNCHANGED table
    /\ UNCHANGED <<server, cols, configured, lookups, handlers, mode, work>>

RegisterHandlers ==
    /\ main = "init" /\ todo[1] = <<>>
    /\ handlers' = loaded
    /\ main' = IF Autodetect THEN "autodetect" ELSE "names"
    /\ UNCHANGED <<database, configured, lookups, loaded, todo, mode, work>>

DetectLine ==
    /\ main = "autodetect"
    /\ ReadLine
    /\ UNCHANGED <<database, lookups, starting, work>>

LoadNames ==
    /\ main = "names" \/ (main = "autodetect" /\ lineNo > Len(MainCf))
    /\ LoadStaticNames
    /\ main' = "run"
    /\ UNCHANGED <<database, lookups, loaded, todo, handlers, mode, work>>

Start == \/ InitModule \/ EnsureStep \/ TableEnsured \/ RegisterHandlers
         \/ DetectLine \/ LoadNames

-----------------------------------------------------------------------------
(* The handlers of a request: valvula_reader_process_request               *)

Goto(w, p) == pc' = [pc EXCEPT ![w] = p]
Authenticated(r) == r.sasl # NULL

(* A worker takes a request off the pool's queue.                          *)
Take(w) ==
    /\ pc[w] = "idle" /\ taken < MaxRequests
    /\ \E r \in Requests[w] : req' = [req EXCEPT ![w] = r]
    /\ early' = [early EXCEPT ![w] = main # "run"]
    /\ taken' = taken + 1
    /\ Goto(w, "next")
    /\ UNCHANGED <<database, configured, lookups, starting, selected, cursor, state>>

(* find_next_handler: the lowest priority not selected yet.                *)
NextHandlers(w) ==
    {m \in handlers \ selected[w] :
        \A n \in handlers \ selected[w] : Priority[m] <= Priority[n]}

(* Modules that always answer dunno share a step.                          *)
Entry(m) == IF m \in {"mod-bwl", "mod-slm"} THEN m ELSE "observer"

(* What the steps of a handler leave alone.                                *)
others == <<database, configured, holder, starting, taken, req, early, selected>>

(* A step within a handler; one that begins lookups.                       *)
Continue(w, p) == Goto(w, p) /\ UNCHANGED <<state, asking, found, cursor>>
AskThen(w, qs, p) == Ask(w, qs) /\ Goto(w, p) /\ UNCHANGED <<state, cursor>>

(* What a handler answers; only dunno lets the next one run.  The report   *)
(* of the final state looks the recipient up again, but for a rejection.   *)
Report(w, s) == Ask(w, IF s = "reject" THEN <<>> ELSE LocalDomain(req[w].recipient))

Answer(w, s) ==
    /\ state' = [state EXCEPT ![w] = s]
    /\ IF s = "dunno" THEN Goto(w, "next") /\ Ask(w, <<>>)
                      ELSE Goto(w, "report") /\ Report(w, s)
    /\ cursor' = [cursor EXCEPT ![w] = Closed]

NextHandler(w) ==
    /\ pc[w] = "next" /\ NextHandlers(w) # {}
    /\ \E m \in NextHandlers(w) :
            selected' = [selected EXCEPT ![w] = @ \cup {m}] /\ Continue(w, Entry(m))
    /\ UNCHANGED <<database, configured, holder, starting, taken, req, early>>

(* The last handler has said dunno too, or the port has none.              *)
NoHandlerLeft(w) ==
    /\ pc[w] = "next" /\ NextHandlers(w) = {}
    /\ state' = [state EXCEPT ![w] = IF @ = NULL THEN DefaultState ELSE @]
    /\ Report(w, state'[w]) /\ Goto(w, "report")
    /\ UNCHANGED <<others, cursor>>

(* __valvula_reader_send_reply.                                            *)
SendReply(w) ==
    /\ pc[w] = "report" /\ ~Asking(w)
    /\ Goto(w, "idle") /\ Ask(w, <<>>)
    /\ req' = [req EXCEPT ![w] = NULL]
    /\ selected' = [selected EXCEPT ![w] = {}]
    /\ state' = [state EXCEPT ![w] = NULL]
    /\ early' = [early EXCEPT ![w] = FALSE]
    /\ UNCHANGED <<database, configured, holder, starting, taken, cursor>>

Observe(w) == pc[w] = "observer" /\ Answer(w, "dunno") /\ UNCHANGED others

(* The lookups a handler, or the report, has begun.                        *)
LookUp(w) ==
    /\ \/ LockResolvers(w) /\ UNCHANGED server
       \/ ResolverAnswers(w) /\ UNCHANGED server
       \/ ResolverPasses(w)
       \/ NoResolver(w) /\ UNCHANGED server
    /\ UNCHANGED <<cols, ensuring, configured, starting, work>>

-----------------------------------------------------------------------------
(* mod-bwl                                                                 *)

Rule(local, domain) == [local |-> local, domain |-> domain, wild |-> FALSE]
Exactly(a) == Rule(a.local, a.domain)

(* bwl_get_wildcards: "*." before the domain and before each parent.       *)
Wildcards(a) ==
    {[local |-> None, wild |-> TRUE, domain |-> SubSeq(a.domain, i, Len(a.domain))] :
        i \in DOMAIN a.domain}

(* The texts the queries look for: the domain, the address, the extension, *)
(* and at server level the local part.                                     *)
SourceForms(a) ==
    {Exactly(a), Exactly(DomainOf(a))}
        \cup (IF Len(a.domain) > 1 THEN {Rule(None, TldOf(a))} ELSE {})
Forms(a) ==
    SourceForms(a) \cup (IF a.local # None THEN {Rule(LocalPart(a), <<>>)} ELSE {})

(* The WHERE clause of each level.                                         *)
Where(l, rule, r) ==
    /\ rule.active
    /\ CASE l = 1 -> \/ rule.source \in Forms(r.sender) \cup Wildcards(r.sender)
                     \/ rule.destination \in Forms(r.recipient)
         [] l = 2 -> rule.rules_for = DomainOf(r.recipient) /\ rule.source \in SourceForms(r.sender)
         [] l = 3 -> rule.rules_for = r.recipient /\ rule.source \in SourceForms(r.sender)

(* The cells of a row.  The query of bwl_global names sasl_users_to_skip   *)
(* twice: the sixth cell, read as limit_rule_to_sasl_users, is that list   *)
(* again.  The other levels have no lists.                                 *)
Cells(l, rule, r) ==
    IF l = 1
    THEN [status |-> rule.status, source |-> rule.source, destination |-> rule.destination,
          sasl_users_to_skip |-> rule.sasl_users_to_skip,
          limit_rule_to_sasl_users |-> rule.sasl_users_to_skip, of |-> rule]
    ELSE [status |-> rule.status, source |-> rule.source, destination |-> Exactly(r.recipient),
          sasl_users_to_skip |-> {}, limit_rule_to_sasl_users |-> {}, of |-> rule]

(* The rows of a result, at the positions they have in the table.          *)
Result(l, r) ==
    LET table_rows == Rules[Levels[l]]
    IN  [i \in {i \in DOMAIN table_rows : Where(l, table_rows[i], r)} |->
            Cells(l, table_rows[i], r)]

(* A blocked SASL user is rejected; others begin with the server's rules.  *)
(* The query does not look at is_active.                                   *)
IsSaslUserBlocked(r) ==
    /\ Authenticated(r)
    /\ BooleanQuery("bwl_global_sasl", {b \in BlockedUsers : b.sasl_user = r.sasl})

Bwl(w) ==
    /\ pc[w] = "mod-bwl"
    /\ IF IsSaslUserBlocked(req[w]) THEN Answer(w, "reject") ELSE Continue(w, "check")
    /\ UNCHANGED others

(* The result is released and the next level begins.                       *)
ToLevel(w, l) == cursor' = [cursor EXCEPT ![w] = [Closed EXCEPT !.level = l]]

(* A level without a decision: after the server's rules the next question  *)
(* is whether the recipient is local, after the account's whether the      *)
(* sender is an unknown address of a local domain.                         *)
LevelOver(w) ==
    CASE cursor[w].level = 1 ->
            /\ ToLevel(w, 1) /\ Ask(w, LocalDomain(req[w].recipient)) /\ Goto(w, "islocal")
            /\ UNCHANGED state
      [] cursor[w].level = 2 -> ToLevel(w, 3) /\ Goto(w, "check") /\ UNCHANGED <<state, asking, found>>
      [] cursor[w].level = 3 /\ Authenticated(req[w]) -> Answer(w, "dunno")
      [] OTHER ->
            /\ ToLevel(w, 1) /\ Ask(w, LocalDomain(req[w].sender)) /\ Goto(w, "denydomain")
            /\ UNCHANGED state

(* bwl_check_status: a query that fails is a level without rules.          *)
CheckStatus(w) ==
    /\ pc[w] = "check"
    /\ IF Answers(Levels[cursor[w].level])
       THEN /\ cursor' = [cursor EXCEPT ![w].rows = Result(cursor[w].level, req[w])]
            /\ Goto(w, "rows") /\ UNCHANGED <<state, asking, found>>
       ELSE LevelOver(w)
    /\ UNCHANGED others

Specific(cells) == ~AnyAddress(cells.source) /\ ~AnyAddress(cells.destination)

InList(r, users) == Authenticated(r) /\ r.sasl \in users

(* The lists leave the row to this request.                                *)
ForUser(cells, r) ==
    /\ ~InList(r, cells.sasl_users_to_skip)
    /\ cells.limit_rule_to_sasl_users # {} => InList(r, cells.limit_rule_to_sasl_users)

Matches(cells, r) ==
    RuleMatch(cells.source, r.sender) /\ RuleMatch(cells.destination, r.recipient)

Verdict == [reject |-> "reject", discard |-> "discard", filterdiscard |-> "filter"]

(* The cursor is at the first of the rows still to come.                   *)
ToCome(w) == {i \in DOMAIN cursor[w].rows : i >= cursor[w].row}
Exhausted(w) == ToCome(w) = {}
Position(w) == CHOOSE i \in ToCome(w) : \A j \in ToCome(w) : i <= j
Row(w) == cursor[w].rows[Position(w)]

NextRow(w) ==
    /\ cursor' = [cursor EXCEPT ![w].row = Position(w) + 1]
    /\ Goto(w, "rows") /\ Ask(w, <<>>)
    /\ UNCHANGED state

(* Faulty variant: the cursor is not set back to the first row.            *)
PassFromHere(w) == cursor' = [cursor EXCEPT ![w].pass = "generic"]

(* bwl_check_status_rules again, for all the rows.                         *)
PassFromFirst(w) == cursor' = [cursor EXCEPT ![w].pass = "generic", ![w].row = 1]

RowsOver(w) ==
    /\ pc[w] = "rows" /\ Exhausted(w)
    /\ IF cursor[w].pass = "specific"
       THEN PassFromFirst(w) /\ UNCHANGED <<pc, state, asking, found>>
       ELSE LevelOver(w)
    /\ UNCHANGED others

(* The row is for this pass and this request.                              *)
Applies(w) ==
    /\ ForUser(Row(w), req[w])
    /\ cursor[w].pass = "specific" => Specific(Row(w))
    /\ Matches(Row(w), req[w])

(* A row: passed over, decisive, or a whitelist that has to be local.      *)
CheckRow(w) ==
    /\ pc[w] = "rows" /\ ~Exhausted(w)
    /\ CASE Applies(w) /\ Row(w).status = "ok" -> AskThen(w, LocalDomain(req[w].recipient), "okrow")
         [] Applies(w) /\ Row(w).status \in DOMAIN Verdict -> Answer(w, Verdict[Row(w).status])
         [] OTHER -> NextRow(w)
    /\ UNCHANGED others

(* Faulty variant: a whitelist is a whitelist.                             *)
MayAcceptAny(w) == TRUE

(* An ok is given to local deliveries and authenticated senders only.      *)
MayAccept(w) == found[w] \/ Authenticated(req[w])

OkRow(w) ==
    /\ pc[w] = "okrow" /\ ~Asking(w)
    /\ IF MayAccept(w) THEN Answer(w, "ok") ELSE NextRow(w)
    /\ UNCHANGED others

IsLocal(w) ==
    /\ pc[w] = "islocal" /\ ~Asking(w)
    /\ IF found[w]
       THEN ToLevel(w, 2) /\ Goto(w, "check") /\ Ask(w, <<>>) /\ UNCHANGED state
       ELSE Answer(w, "dunno")
    /\ UNCHANGED others

(* bwl_process_check_for_deny_unknown_local_mail_from, the two lookups.    *)
DenyDomain(w) ==
    /\ pc[w] = "denydomain" /\ ~Asking(w)
    /\ IF found[w] THEN AskThen(w, LocalAddress(req[w].sender), "denysender") ELSE Answer(w, "dunno")
    /\ UNCHANGED others

DenySender(w) ==
    /\ pc[w] = "denysender" /\ ~Asking(w)
    /\ Answer(w, IF found[w] THEN "dunno" ELSE "reject")
    /\ UNCHANGED others

-----------------------------------------------------------------------------
(* mod-slm                                                                 *)

SlmHasException(r) ==
    BooleanQuery("slm_exception", {e \in Exceptions : /\ e.active /\ e.sasl_username = r.sasl
                                                     /\ e.mail_from \in {r.sender, NULL}})

Slm(w) ==
    /\ pc[w] = "mod-slm"
    /\ IF \/ mode = "disabled"
          \/ ~Authenticated(req[w])
          \/ SlmHasException(req[w])
          \/ req[w].sender = EmptyAddress /\ AllowEmpty
       THEN Answer(w, "dunno")
       ELSE AskThen(w, LocalAddress(req[w].recipient), "recipient")
    /\ UNCHANGED others

(* The comparison each mode makes, before it looks the sender up.          *)
Mismatch(r) ==
    CASE mode = "full" -> r.sasl # r.sender
      [] mode = "same-domain" -> DomainOf(r.sasl) # DomainOf(r.sender)
      [] OTHER -> FALSE

SlmRecipient(w) ==
    /\ pc[w] = "recipient" /\ ~Asking(w)
    /\ CASE found[w] -> Answer(w, "dunno")
         [] ~found[w] /\ Mismatch(req[w]) -> Answer(w, "reject")
         [] ~found[w] /\ ~Mismatch(req[w]) /\ mode = "full" -> Answer(w, "dunno")
         [] OTHER -> AskThen(w, LocalAddress(req[w].sender), "sender")
    /\ UNCHANGED others

SlmSender(w) ==
    /\ pc[w] = "sender" /\ ~Asking(w)
    /\ Answer(w, IF found[w] THEN "dunno" ELSE "reject")
    /\ UNCHANGED others

-----------------------------------------------------------------------------
Database ==
    /\ DatabaseStops \/ DatabaseReturns
    /\ UNCHANGED <<configured, lookups, starting, work>>

Work(w) ==
    \/ NextHandler(w) \/ NoHandlerLeft(w) \/ Observe(w) \/ LookUp(w) \/ SendReply(w)
    \/ Bwl(w) \/ CheckStatus(w) \/ RowsOver(w) \/ CheckRow(w) \/ OkRow(w)
    \/ IsLocal(w) \/ DenyDomain(w) \/ DenySender(w)
    \/ Slm(w) \/ SlmRecipient(w) \/ SlmSender(w)

Next == \/ Database
        \/ Start
        \/ \E w \in Workers : Take(w) \/ Work(w)

Spec == Init /\ [][Next]_vars

-----------------------------------------------------------------------------
(* Properties                                                              *)

(* The domains some source says are local.                                 *)
Hosted ==
    Plesk["domain"] \cup StaticNames
        \cup UNION (UNION {{MysqlFiles[f].query, MysqlFiles[f].old} \ {NULL} : f \in DOMAIN MysqlFiles})

(* No rule, failure or moment of the start turns the server into an open   *)
(* relay: "ok" is answered only to an authenticated sender or for a        *)
(* recipient in a domain that some source lists (mod-bwl.c:336-378).       *)
NoOpenRelay ==
    \A w \in Workers :
        state[w] = "ok" => Authenticated(req[w]) \/ DomainOf(req[w].recipient) \in Hosted

(* The rows an answer may not pass over, given where the cursor is: those  *)
(* the documentation puts first, specific rules before general ones and    *)
(* otherwise by position.                                                  *)
Ahead(w) ==
    LET c == cursor[w]
    IN  {i \in DOMAIN c.rows :
            /\ ForUser(c.rows[i], req[w]) /\ Matches(c.rows[i], req[w])
            /\ IF c.pass = "specific" THEN Specific(c.rows[i]) /\ i < c.row
                                      ELSE Specific(c.rows[i]) \/ i < c.row}

(* A level answers, or leaves the request to the next, only when every row *)
(* that applies and comes first, the specific ones before the general      *)
(* ones, is a whitelist the sender may not use (mod-bwl.c:461-497).        *)
RowsInOrder ==
    [][\A w \in Workers :
        pc[w] \in {"rows", "okrow"} /\ pc'[w] \notin {"rows", "okrow"} =>
            \A i \in Ahead(w) :
                cursor[w].rows[i].status = "ok" /\ ~Authenticated(req[w])]_vars

SomewhereLocal(type, a) ==
    \/ resolver /\ Resolves(Lookup(type, a))
    \/ query[type] # NULL /\ a \in query[type]

(* Once the start is over and as long as no database has failed, mod-bwl   *)
(* (mod-bwl.c:553-574) and mod-slm (mod-slm.c:186-206) reject a sender as  *)
(* unknown only when it is neither an account nor an alias of any source.  *)
OnlyUnknownRejected ==
    [][\A w \in Workers :
        /\ pc[w] \in {"denysender", "sender"} /\ pc'[w] = "report"
        /\ ~early[w] /\ outages = 0
        => \A t \in {"account", "alias"} : ~SomewhereLocal(t, req[w].sender)]_vars

(* A module that insists on its table, mod-slm, runs only with every       *)
(* column its queries name, whatever queries of its start failed           *)
(* (valvulad_db.c:902-965, mod-slm.c:91-102).                              *)
TablesComplete ==
    \A m \in loaded \ Tolerant : \A t \in ToSet(ModTables[m]) : ToSet(Columns[t]) \subseteq cols[t]

(* What mod-bwl.c:87-90 says of the two lists of a rule.                   *)
ForUserAsDocumented(rule, r) ==
    /\ ~InList(r, rule.sasl_users_to_skip)
    /\ rule.limit_rule_to_sasl_users # {} => InList(r, rule.limit_rule_to_sasl_users)

(* "sasl_users_to_skip : list of sasl_users that this rule will not be     *)
(* applied to" (mod-bwl.c:87): a blacklist that matches and has the sender *)
(* in no such list is not passed over.                                     *)
ListsAsDocumented ==
    \A w \in Workers : \A i \in DOMAIN cursor[w].rows :
        LET cells == cursor[w].rows[i]
        IN  /\ cursor[w].pass = "generic" /\ i < cursor[w].row
            /\ cells.status \in DOMAIN Verdict /\ Matches(cells, req[w])
            => ~ForUserAsDocumented(cells.of, req[w])
=============================================================================
