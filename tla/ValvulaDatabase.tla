---------------------------- MODULE ValvulaDatabase ----------------------------
(***************************************************************************)
(* The MySQL database of valvulad (server/valvulad_db.c): a server that    *)
(* may be down, queries that open a connection each and fail while it is,  *)
(* and valvulad_db_ensure_table, by which a module creates or completes    *)
(* its tables with one query after the other.                              *)
(***************************************************************************)
EXTENDS Naturals, Sequences, FiniteSets, SequencesExt

CONSTANTS
    Columns,        \* the columns of each table, in the order the modules name them
    Schemas,        \* the databases a server may start with: the columns each table has
    MaxOutages      \* bound: how often a database stops answering

Tables == DOMAIN Columns

ASSUME DatabaseAssumption ==
    /\ Tables # {} /\ \A t \in Tables : Columns[t] \in Seq(STRING) /\ Columns[t] # <<>>
    /\ Schemas \subseteq [Tables -> SUBSET STRING]
    /\ MaxOutages \in Nat

VARIABLES
    up, outages,        \* does mysqld answer; the outages so far, SQLite's included
    cols,               \* the columns each table has; none: the table does not exist
    table, column,      \* ensure_table: the table, the position of the column
    ensure              \* the query ensure_table makes next

server == <<up, outages>>
ensuring == <<table, column, ensure>>
database == <<server, cols, ensuring>>

EnsureSteps == {"exists", "create", "attr", "alter", "done", "failed"}

DatabaseTypeOK ==
    /\ up \in BOOLEAN /\ outages \in 0..MaxOutages
    /\ cols \in [Tables -> SUBSET STRING]
    /\ table \in Tables /\ column \in 1..Len(Columns[table]) /\ ensure \in EnsureSteps

DatabaseInit ==
    /\ up = TRUE /\ outages = 0
    /\ cols \in Schemas
    /\ table = CHOOSE t \in Tables : TRUE
    /\ column = 1 /\ ensure = "done"

(* valvulad_db_get_connection: each query opens a connection of its own.    *)
Connects == up

(* A query that names every column of the table has a result.              *)
Answers(t) == Connects /\ ToSet(Columns[t]) \subseteq cols[t]

(* valvulad_db_boolean_query: false when no row is found or the query fails. *)
BooleanQuery(t, rows) == Answers(t) /\ rows # {}

DatabaseStops ==
    /\ up /\ outages < MaxOutages
    /\ up' = FALSE /\ outages' = outages + 1
    /\ UNCHANGED <<cols, ensuring>>

DatabaseReturns ==
    /\ ~up
    /\ up' = TRUE
    /\ UNCHANGED <<outages, cols, ensuring>>

-----------------------------------------------------------------------------
(* valvulad_db_ensure_table                                                *)

Column == Columns[table][column]

(* Faulty variant: the table has been made with its first column only.     *)
NoMoreColumns == ensure' = "done" /\ UNCHANGED <<table, column>>

(* After a column: the next one, or the end.                               *)
NextColumn ==
    IF column < Len(Columns[table])
    THEN column' = column + 1 /\ ensure' = "attr" /\ UNCHANGED table
    ELSE ensure' = "done" /\ UNCHANGED <<table, column>>

(* valvulad_db_table_exists: a query that fails, for whatever reason, is a *)
(* table that does not exist.                                              *)
TableExists ==
    /\ ensure = "exists"
    /\ ensure' = IF Connects /\ cols[table] # {} THEN "attr" ELSE "create"
    /\ UNCHANGED <<server, cols, table, column>>

CreateTable ==
    /\ ensure = "create"
    /\ IF Connects /\ cols[table] = {}
       THEN cols' = [cols EXCEPT ![table] = {Columns[table][1]}] /\ ensure' = "attr"
       ELSE ensure' = "failed" /\ UNCHANGED cols
    /\ UNCHANGED <<server, table, column>>

(* valvulad_db_attr_exists, with the same reading of a failure.            *)
AttrExists ==
    /\ ensure = "attr"
    /\ IF Connects /\ Column \in cols[table]
       THEN NextColumn
       ELSE ensure' = "alter" /\ UNCHANGED <<table, column>>
    /\ UNCHANGED <<server, cols>>

AddColumn ==
    /\ ensure = "alter"
    /\ IF Connects /\ cols[table] # {} /\ Column \notin cols[table]
       THEN cols' = [cols EXCEPT ![table] = @ \cup {Column}] /\ NextColumn
       ELSE ensure' = "failed" /\ UNCHANGED <<cols, table, column>>
    /\ UNCHANGED server

EnsureTable == TableExists \/ CreateTable \/ AttrExists \/ AddColumn

(* The module calls ensure_table for its table t.                          *)
Ensure(t) == table' = t /\ column' = 1 /\ ensure' = "exists"
=============================================================================
