-------------------------- MODULE ValvulaLocalObjects --------------------------
(***************************************************************************)
(* Which domains, accounts and aliases are local (server/valvulad_run.c,   *)
(* plugins/mod-object-resolver): what the server learns from postfix's     *)
(* main.cf and the files it names, and the lookups of the workers in the   *)
(* resolvers, the static names and the databases.                          *)
(*                                                                         *)
(* main.cf is a sequence of lines; a line has a key and values, and a      *)
(* value is a name, a reference "$name", a file or a "mysql:" file.        *)
(***************************************************************************)
EXTENDS ValvulaDatabase, ValvulaAddress

CONSTANTS
    Workers,        \* the threads that handle requests
    Autodetect,     \* <local-domains config="autodetect">
    MainCf,         \* the lines of postfix's main.cf
    MysqlFiles,     \* the files "mysql:" names: what their queries answer
    Plesk,          \* the objects of Plesk's SQLite database, by type
    NULL

Types == {"domain", "account", "alias"}

ASSUME LocalAssumption ==
    /\ Autodetect \in BOOLEAN
    /\ DOMAIN Plesk = {"domain", "account"}
    /\ NULL \notin Workers

VARIABLES
    lineNo,         \* the line of main.cf the main thread reads
    variables,      \* the variables of main.cf read so far
    query,          \* ctx->ld_query, la_query and ls_query: the objects each finds
    names,          \* ctx->ld_hash
    resolver,       \* ctx->object_resolvers has Plesk's resolver
    holder,         \* who holds ctx->object_resolvers_mutex
    asking,         \* each worker: the lookups left, of one disjunction
    found           \* each worker: the answer of the last lookup

configured == <<lineNo, variables, query, names, resolver>>
lookups == <<holder, asking, found>>

-----------------------------------------------------------------------------
(* Reading main.cf                                                         *)

(* __valvulad_process_update_line_with_variables: references to variables  *)
(* of earlier lines are replaced, others stay.                             *)
Updated(values) ==
    FlattenSeq([i \in DOMAIN values |->
        IF values[i].form = "ref" /\ values[i].name \in DOMAIN variables
        THEN variables[values[i].name] ELSE <<values[i]>>])

(* The section a key stands for.                                           *)
Section == [virtual_mailbox_domains |-> "domain", virtual_alias_maps |-> "alias",
            virtual_mailbox_maps |-> "account", local_recipient_maps |-> "account"]

(* The query of a file: the old interface wins when it is complete.        *)
Decl(file, type) ==
    CASE file.old # NULL -> file.old
      [] file.old = NULL /\ file.query # NULL -> file.query
      [] OTHER -> query[type]

(* detect_postfix_decl: the first "mysql:" of the line, when there is one  *)
(* and the file can be read.                                               *)
DetectPostfixDecl(type, values) ==
    LET mysql == SelectSeq(values, LAMBDA v : v.form = "mysql")
    IN  IF mysql # <<>> /\ Head(mysql).name \in DOMAIN MysqlFiles
        THEN query' = [query EXCEPT ![type] = Decl(MysqlFiles[Head(mysql).name], type)]
        ELSE UNCHANGED query

(* A line of ..._autodetect: a comment is passed over, a declaration is a  *)
(* variable from here on and may say where the objects of a type are.      *)
ReadLine ==
    /\ lineNo <= Len(MainCf)
    /\ LET line == MainCf[lineNo]
           values == Updated(line.values)
       IN  IF line.key = "#"
           THEN UNCHANGED <<variables, query>>
           ELSE /\ variables' = [k \in DOMAIN variables \cup {line.key} |->
                                    IF k = line.key THEN values ELSE variables[k]]
                /\ IF line.key \in DOMAIN Section
                   THEN DetectPostfixDecl(Section[line.key], values)
                   ELSE UNCHANGED query
    /\ lineNo' = lineNo + 1
    /\ UNCHANGED <<names, resolver>>

StaticKeys == {"myhostname", "myorigin", "mydestination"}

(* load_static_names_record: references are passed over; a file gives a    *)
(* name only when it has 512 bytes or more, and then its first 512 are the *)
(* name, which is that of no domain.                                       *)
StaticNames ==
    {Address(None, v.name) :
        v \in {v \in UNION {ToSet(MainCf[i].values) :
                                i \in {i \in DOMAIN MainCf : MainCf[i].key \in StaticKeys}} :
               v.form = "name"}}

(* load_static_names reads main.cf again and replaces the whole hash.      *)
LoadStaticNames ==
    /\ names' = StaticNames
    /\ UNCHANGED <<lineNo, variables, query, resolver>>

-----------------------------------------------------------------------------
(* Lookups                                                                 *)

Lookup(type, item) == [type |-> type, item |-> item]

(* valvulad_run_is_local_domain, ..._is_local_delivery, ..._is_local_address *)
LocalDomain(a) == <<Lookup("domain", DomainOf(a))>>
(* Faulty variant of the last: aliases are forgotten.                      *)
LocalAccount(a) == <<Lookup("account", a)>>

LocalAddress(a) == <<Lookup("account", a), Lookup("alias", a)>>

(* A worker begins the lookups qs: is one of them local?                   *)
Ask(w, qs) ==
    /\ asking' = [asking EXCEPT ![w] = qs]
    /\ found' = [found EXCEPT ![w] = FALSE]

Asking(w) == asking[w] # <<>>
Current(w) == Head(asking[w])

Found(w) == asking' = [asking EXCEPT ![w] = <<>>] /\ found' = [found EXCEPT ![w] = TRUE]

(* object_resolver_plesk_accounts has nothing to say of aliases.           *)
Resolves(q) == q.type \in DOMAIN Plesk /\ q.item \in Plesk[q.type]

(* The mutex is held from the first resolver to the answer of the last.    *)
LockResolvers(w) ==
    /\ Asking(w) /\ resolver /\ holder = NULL
    /\ holder' = w
    /\ UNCHANGED <<asking, found>>

(* The resolver finds the object, __valvulad_run_request_common_object     *)
(* answers at once.                                                        *)
ResolverAnswers(w) ==
    /\ Asking(w) /\ holder = w /\ Resolves(Current(w))
    /\ Found(w) /\ holder' = NULL

(* After the resolvers, or without any: the static hash, for domains, and  *)
(* then the query of the type, when main.cf gave one.  A failure to        *)
(* connect or to run the query is "not local".                             *)
AskedElsewhere(w) ==
    LET q == Current(w)
        isLocal == \/ q.type = "domain" /\ q.item \in names
                   \/ up /\ query[q.type] # NULL /\ q.item \in query[q.type]
    IN  IF isLocal
        THEN Found(w)
        ELSE asking' = [asking EXCEPT ![w] = Tail(@)] /\ UNCHANGED found

(* The resolver has no answer, or SQLite fails and it looks like that.     *)
ResolverPasses(w) ==
    /\ Asking(w) /\ holder = w
    /\ IF Resolves(Current(w)) THEN outages < MaxOutages /\ outages' = outages + 1
                               ELSE UNCHANGED outages
    /\ AskedElsewhere(w)
    /\ holder' = NULL
    /\ UNCHANGED up

NoResolver(w) ==
    /\ Asking(w) /\ ~resolver
    /\ AskedElsewhere(w)
    /\ UNCHANGED holder
=============================================================================
