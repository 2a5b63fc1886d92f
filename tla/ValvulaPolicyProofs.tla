------------------------- MODULE ValvulaPolicyProofs -------------------------
(***************************************************************************)
(* What ValvulaPolicy promises for any rules, requests, workers, sources   *)
(* of local objects and failures of the databases: that a whitelist makes  *)
(* no open relay, that the rows of a level are taken in the order the      *)
(* documentation gives, that a known sender is not rejected as unknown,    *)
(* and that a module that insists on its table has all of it.              *)
(***************************************************************************)
EXTENDS ValvulaPolicy, WellFoundedInduction, TLAPS

AllRequests == UNION {Requests[w] : w \in Workers}

\* Every result a level can have, and none.
AllRows == {Result(l, r) : l \in 1..3, r \in AllRequests \cup {NULL}} \cup {<<>>}

Cursors == [level : 1..3, rows : AllRows, pass : {"specific", "generic"}, row : Nat]

\* What the files main.cf names say of the domains.
DomainQueries ==
    {MysqlFiles[f].query : f \in DOMAIN MysqlFiles} \cup {MysqlFiles[f].old : f \in DOMAIN MysqlFiles}

-----------------------------------------------------------------------------
(* Types.                                                                   *)

\* What the main thread and the database change.
StartTypes ==
    /\ DatabaseTypeOK
    /\ lineNo \in Nat /\ resolver \in BOOLEAN /\ names \subseteq StaticNames
    /\ query = [t \in Types |-> query[t]]
    /\ query["domain"] \in {NULL} \cup DomainQueries
    /\ main \in {"init", "ensure", "autodetect", "names", "run"}
    /\ loaded \subseteq ToSet(Modules) /\ handlers \subseteq ToSet(Modules)
    /\ mode \in Modes
    /\ todo \in Seq(ToSet(Modules)) \X Seq(Tables)
    /\ main = "ensure" => todo[1] # <<>>

\* What the workers change.
WorkTypes ==
    /\ holder \in Workers \cup {NULL} /\ found \in [Workers -> BOOLEAN]
    /\ asking = [w \in Workers |-> asking[w]]
    /\ taken \in 0..MaxRequests
    /\ pc \in [Workers -> Steps]
    /\ req \in [Workers -> AllRequests \cup {NULL}]
    /\ \A w \in Workers : req[w] \in Requests[w] \cup {NULL}
    /\ early \in [Workers -> BOOLEAN]
    /\ selected \in [Workers -> SUBSET ToSet(Modules)]
    /\ cursor \in [Workers -> Cursors]
    /\ state \in [Workers -> States \cup {NULL}]

TypeInv == StartTypes /\ WorkTypes

\* The variables of a worker, but for what it holds of the resolvers.
Same(u) ==
    /\ pc'[u] = pc[u] /\ req'[u] = req[u] /\ early'[u] = early[u]
    /\ selected'[u] = selected[u] /\ cursor'[u] = cursor[u] /\ state'[u] = state[u]
    /\ asking'[u] = asking[u] /\ found'[u] = found[u]

LEMMA TypeInvImplies ==
  ASSUME TypeInv
  PROVE  TypeOK
<1>1. DOMAIN query = Types
  BY DEF TypeInv, StartTypes
<1>2. \A w \in Workers : cursor[w].level \in 1..3 /\ cursor[w].pass \in {"specific", "generic"}
  BY DEF TypeInv, WorkTypes, Cursors
<1> QED
  BY <1>1, <1>2 DEF TypeInv, StartTypes, WorkTypes, TypeOK

LEMMA TypeInvInit == Init => TypeInv
<1> SUFFICES ASSUME Init PROVE TypeInv
  OBVIOUS
<1>1. DatabaseTypeOK
  <2>1. table \in Tables /\ Len(Columns[table]) \in Nat \ {0}
    BY DatabaseAssumption DEF Init, DatabaseInit
  <2> QED
    BY <2>1, DatabaseAssumption DEF Init, DatabaseInit, DatabaseTypeOK, EnsureSteps
<1>2. Modules \in Seq(ToSet(Modules)) /\ <<>> \in Seq(Tables)
  BY PolicyAssumption DEF ToSet
<1>3. todo \in Seq(ToSet(Modules)) \X Seq(Tables) /\ main # "ensure"
  BY <1>2 DEF Init
<1>4. cursor \in [Workers -> Cursors]
  BY DEF Init, Closed, Cursors, AllRows
<1>5. query = [t \in Types |-> query[t]] /\ query["domain"] = NULL
  BY DEF Init, Types
<1>6. StartTypes
  BY <1>1, <1>3, <1>5 DEF Init, StartTypes
<1>7. 0 \in 0..MaxRequests
  BY PolicyAssumption
<1>8. asking = [w \in Workers |-> asking[w]]
  BY DEF Init
<1>9. WorkTypes
  BY <1>4, <1>7, <1>8 DEF Init, WorkTypes, Steps, States
<1> QED
  BY <1>6, <1>9 DEF TypeInv

\* What a step does to the workers when it leaves them alone.
LEMMA WorkersUntouched ==
  ASSUME TypeInv, UNCHANGED <<lookups, work>>
  PROVE  WorkTypes' /\ \A u \in Workers : Same(u)
  BY DEF TypeInv, WorkTypes, lookups, work, Same

\* A query of valvulad_db_ensure_table.
LEMMA EnsureTableTypes ==
  ASSUME DatabaseTypeOK, EnsureTable
  PROVE  DatabaseTypeOK'
<1> USE DEF DatabaseTypeOK, server
<1>1. /\ Len(Columns[table]) \in Nat /\ column \in 1..Len(Columns[table])
      /\ Column \in STRING /\ Columns[table][1] \in STRING
  BY DatabaseAssumption DEF Column
<1>2. CASE TableExists
  BY <1>1, <1>2 DEF TableExists, EnsureSteps
<1>3. CASE CreateTable
  BY <1>1, <1>3 DEF CreateTable, EnsureSteps
<1>4. ASSUME NextColumn
      PROVE  table' = table /\ column' \in 1..Len(Columns[table]) /\ ensure' \in EnsureSteps
  BY <1>1, <1>4 DEF NextColumn, EnsureSteps
<1>5. CASE AttrExists
  BY <1>1, <1>4, <1>5 DEF AttrExists, EnsureSteps
<1>6. CASE AddColumn
  BY <1>1, <1>4, <1>6 DEF AddColumn, EnsureSteps
<1> QED
  BY <1>2, <1>3, <1>5, <1>6 DEF EnsureTable

\* A module asks for one of its tables.
LEMMA EnsureTypes ==
  ASSUME DatabaseTypeOK, NEW t \in Tables, Ensure(t), UNCHANGED <<server, cols>>
  PROVE  DatabaseTypeOK'
<1>1. Len(Columns[t]) \in Nat \ {0}
  BY DatabaseAssumption
<1> QED
  BY <1>1 DEF DatabaseTypeOK, Ensure, EnsureSteps, server

LEMMA DatabaseTypes ==
  ASSUME TypeInv, Database
  PROVE  TypeInv' /\ \A u \in Workers : Same(u)
<1>1. DatabaseTypeOK'
  <2>0. up \in BOOLEAN /\ outages \in 0..MaxOutages /\ MaxOutages \in Nat
    BY DatabaseAssumption DEF TypeInv, StartTypes, DatabaseTypeOK
  <2>1. CASE DatabaseStops
    <3>1. up' \in BOOLEAN
      BY <2>1, Zenon DEF DatabaseStops
    <3>2. outages' \in 0..MaxOutages /\ UNCHANGED <<cols, table, column, ensure>>
      BY <2>0, <2>1 DEF DatabaseStops, ensuring
    <3> QED
      BY <3>1, <3>2 DEF TypeInv, StartTypes, DatabaseTypeOK
  <2>2. CASE DatabaseReturns
    <3>1. up' \in BOOLEAN
      BY <2>2, Zenon DEF DatabaseReturns
    <3>2. UNCHANGED <<outages, cols, table, column, ensure>>
      BY <2>2 DEF DatabaseReturns, ensuring
    <3> QED
      BY <3>1, <3>2 DEF TypeInv, StartTypes, DatabaseTypeOK
  <2> QED
    BY <2>1, <2>2 DEF Database
<1>2. StartTypes'
  BY <1>1 DEF TypeInv, StartTypes, Database, configured, starting
<1>3. WorkTypes' /\ \A u \in Workers : Same(u)
  BY WorkersUntouched DEF Database
<1> QED
  BY <1>2, <1>3 DEF TypeInv

LEMMA InitModuleTypes ==
  ASSUME TypeInv, InitModule
  PROVE  TypeInv' /\ \A u \in Workers : Same(u)
<1> USE DEF StartTypes
<1>1. /\ ThisModule \in ToSet(Modules) /\ Tail(todo[1]) \in Seq(ToSet(Modules))
      /\ ModTables[ThisModule] \in Seq(Tables)
  BY PolicyAssumption DEF TypeInv, InitModule, ThisModule
<1>2. UNCHANGED <<server, cols, lineNo, variables, query, names, handlers, mode>>
  BY DEF InitModule
<1>3. <<>> \in Seq(Tables)
  OBVIOUS
<1>4. CASE ModTables[ThisModule] = <<>>
  <2>1. UNCHANGED <<main, ensuring>> /\ todo' = <<Tail(todo[1]), <<>>>>
        /\ loaded' = loaded \cup {ThisModule} /\ resolver' \in BOOLEAN
    BY <1>4 DEF InitModule, TypeInv
  <2>2. DatabaseTypeOK'
    BY <1>2, <2>1 DEF TypeInv, DatabaseTypeOK, server, ensuring
  <2>3. main # "ensure"
    BY DEF InitModule
  <2> QED
    BY <1>1, <1>2, <1>3, <2>1, <2>2, <2>3, WorkersUntouched DEF TypeInv, InitModule
<1>5. CASE ModTables[ThisModule] # <<>>
  <2>1. /\ Ensure(Head(ModTables[ThisModule])) /\ todo' = <<todo[1], Tail(ModTables[ThisModule])>>
        /\ main' = "ensure" /\ UNCHANGED <<loaded, resolver>>
    BY <1>5 DEF InitModule
  <2>2. Head(ModTables[ThisModule]) \in Tables /\ Tail(ModTables[ThisModule]) \in Seq(Tables)
    BY <1>1, <1>5
  <2>3. DatabaseTypeOK'
    BY <1>2, <2>1, <2>2, EnsureTypes DEF TypeInv
  <2>4. todo[1] # <<>>
    BY DEF InitModule
  <2> QED
    BY <1>2, <2>1, <2>2, <2>3, <2>4, WorkersUntouched DEF TypeInv, InitModule
<1> QED
  BY <1>4, <1>5

LEMMA EnsureStepTypes ==
  ASSUME TypeInv, EnsureStep
  PROVE  TypeInv' /\ \A u \in Workers : Same(u)
<1>1. DatabaseTypeOK'
  BY EnsureTableTypes DEF TypeInv, StartTypes, EnsureStep
<1>2. StartTypes'
  BY <1>1 DEF TypeInv, StartTypes, EnsureStep, configured, starting
<1> QED
  BY <1>2, WorkersUntouched DEF TypeInv, EnsureStep

LEMMA TableEnsuredTypes ==
  ASSUME TypeInv, TableEnsured
  PROVE  TypeInv' /\ \A u \in Workers : Same(u)
<1> USE DEF StartTypes
<1>1. ThisModule \in ToSet(Modules) /\ Tail(todo[1]) \in Seq(ToSet(Modules)) /\ todo[1] # <<>>
  BY DEF TypeInv, TableEnsured, ThisModule
<1>2. UNCHANGED <<server, cols, configured, handlers, mode>>
  BY DEF TableEnsured
<1>3. CASE (ensure = "done" \/ ThisModule \in Tolerant) /\ todo[2] # <<>>
  <2>1. Ensure(Head(todo[2])) /\ todo' = <<todo[1], Tail(todo[2])>> /\ UNCHANGED <<main, loaded>>
    BY <1>3 DEF TableEnsured
  <2>2. Head(todo[2]) \in Tables /\ Tail(todo[2]) \in Seq(Tables)
    BY <1>3 DEF TypeInv
  <2>3. DatabaseTypeOK'
    BY <1>2, <2>1, <2>2, EnsureTypes DEF TypeInv
  <2>4. todo'[1] = todo[1] /\ todo' \in Seq(ToSet(Modules)) \X Seq(Tables)
    BY <2>1, <2>2 DEF TypeInv
  <2> QED
    BY <1>1, <1>2, <2>1, <2>3, <2>4, WorkersUntouched DEF TypeInv, TableEnsured, configured
<1>4. CASE ~ ((ensure = "done" \/ ThisModule \in Tolerant) /\ todo[2] # <<>>)
  <2>0. <<>> \in Seq(Tables)
    OBVIOUS
  <2>1. /\ loaded' \subseteq ToSet(Modules) /\ todo' = <<Tail(todo[1]), <<>>>>
        /\ main' = "init" /\ column' = 1 /\ ensure' = "done" /\ UNCHANGED table
    BY <1>1, <1>4 DEF TableEnsured, TypeInv
  <2>2. table \in Tables /\ Len(Columns[table]) \in Nat \ {0}
    BY DatabaseAssumption DEF TypeInv, DatabaseTypeOK
  <2>3. DatabaseTypeOK'
    BY <1>2, <2>1, <2>2 DEF TypeInv, DatabaseTypeOK, server, EnsureSteps
  <2>4. todo' \in Seq(ToSet(Modules)) \X Seq(Tables)
    BY <1>1, <2>0, <2>1
  <2> QED
    BY <1>2, <2>1, <2>3, <2>4, WorkersUntouched DEF TypeInv, TableEnsured, configured
<1> QED
  BY <1>3, <1>4

LEMMA RegisterHandlersTypes ==
  ASSUME TypeInv, RegisterHandlers
  PROVE  TypeInv' /\ \A u \in Workers : Same(u)
<1>1. StartTypes'
  BY DEF TypeInv, StartTypes, RegisterHandlers, database, server, ensuring, configured, DatabaseTypeOK
<1> QED
  BY <1>1, WorkersUntouched DEF TypeInv, RegisterHandlers

\* The query of a type after a line of main.cf.
LEMMA DeclTypes ==
  ASSUME TypeInv, NEW type \in Types, NEW values, DetectPostfixDecl(type, values)
  PROVE  /\ query' = [t \in Types |-> query'[t]]
         /\ query'["domain"] \in {NULL} \cup DomainQueries
<1>1. CASE UNCHANGED query
  BY <1>1 DEF TypeInv, StartTypes
<1>2. ASSUME NEW n \in DOMAIN MysqlFiles,
             query' = [query EXCEPT ![type] = Decl(MysqlFiles[n], type)]
      PROVE  /\ query' = [t \in Types |-> query'[t]]
             /\ query'["domain"] \in {NULL} \cup DomainQueries
  <2>1. Decl(MysqlFiles[n], "domain") \in {NULL, query["domain"]} \cup DomainQueries
    BY DEF Decl, DomainQueries
  <2>2. query' = [t \in Types |-> query'[t]] /\ "domain" \in Types
    BY <1>2 DEF TypeInv, StartTypes, Types
  <2>3. query'["domain"] = IF type = "domain" THEN Decl(MysqlFiles[n], "domain") ELSE query["domain"]
    BY <1>2, <2>2 DEF TypeInv, StartTypes
  <2> QED
    BY <2>1, <2>2, <2>3 DEF TypeInv, StartTypes
<1> QED
  BY <1>1, <1>2 DEF DetectPostfixDecl

LEMMA DetectLineTypes ==
  ASSUME TypeInv, DetectLine
  PROVE  TypeInv' /\ \A u \in Workers : Same(u)
<1>1. /\ query' = [t \in Types |-> query'[t]] /\ query'["domain"] \in {NULL} \cup DomainQueries
      /\ lineNo' = lineNo + 1 /\ UNCHANGED <<names, resolver>>
  <2>1. CASE UNCHANGED query
    BY <2>1 DEF DetectLine, ReadLine, TypeInv, StartTypes
  <2>2. CASE ~ UNCHANGED query
    <3>0. PICK key \in DOMAIN Section : \E values : DetectPostfixDecl(Section[key], values)
      BY <2>2 DEF DetectLine, ReadLine
    <3>1. PICK values : DetectPostfixDecl(Section[key], values)
      BY <3>0
    <3>2. Section[key] \in Types
      BY DEF Section, Types
    <3> QED
      BY <3>1, <3>2, DeclTypes DEF DetectLine, ReadLine
  <2> QED
    BY <2>1, <2>2
<1>2. StartTypes'
  BY <1>1 DEF TypeInv, StartTypes, DetectLine, database, server, ensuring, starting, DatabaseTypeOK
<1> QED
  BY <1>2, WorkersUntouched DEF TypeInv, DetectLine

LEMMA LoadNamesTypes ==
  ASSUME TypeInv, LoadNames
  PROVE  TypeInv' /\ \A u \in Workers : Same(u)
<1>1. StartTypes'
  BY DEF TypeInv, StartTypes, LoadNames, LoadStaticNames, database, server, ensuring, DatabaseTypeOK
<1> QED
  BY <1>1, WorkersUntouched DEF TypeInv, LoadNames

LEMMA StartTypesKept ==
  ASSUME TypeInv, Start
  PROVE  TypeInv' /\ \A u \in Workers : Same(u)
  BY InitModuleTypes, EnsureStepTypes, TableEnsuredTypes, RegisterHandlersTypes, DetectLineTypes,
    LoadNamesTypes DEF Start

-----------------------------------------------------------------------------
(* What the steps of a worker are made of.                                  *)

LEMMA LeastNumber ==
  ASSUME NEW S \in SUBSET Nat, S # {}
  PROVE  \E n \in S : \A m \in S : n <= m
<1> DEFINE Less == {p \in Nat \X Nat : p[1] < p[2]}
<1>1. IsWellFoundedOn(Less, Nat)
  <2>1. Less = OpToRel(<, Nat)
    BY DEF OpToRel
  <2> QED
    BY <2>1, NatLessThanWellFounded
<1>2. \A n, m \in Nat : <<n, m>> \in Less <=> n < m
  OBVIOUS
<1> HIDE DEF Less
<1>3. PICK n \in S : \A m \in S : <<m, n>> \notin Less
  BY <1>1, WFMin
<1>4. ASSUME NEW m \in S PROVE n <= m
  <2>1. n \in Nat /\ m \in Nat /\ <<m, n>> \notin Less
    BY <1>3
  <2>2. ~ (m < n)
    BY <1>2, <2>1
  <2> QED
    BY <2>1, <2>2
<1> QED
  BY <1>4

LEMMA RowsAreNumbered ==
  ASSUME NEW rows \in AllRows
  PROVE  DOMAIN rows \in SUBSET (Nat \ {0})
<1>1. CASE rows = <<>>
  BY <1>1
<1>2. ASSUME NEW l \in 1..3, NEW r, rows = Result(l, r)
      PROVE  DOMAIN rows \in SUBSET (Nat \ {0})
  <2>1. DOMAIN rows \subseteq DOMAIN Rules[Levels[l]]
    BY <1>2 DEF Result
  <2>2. DOMAIN Rules[Levels[l]] \subseteq Nat \ {0}
    BY PolicyAssumption
  <2> QED
    BY <2>1, <2>2
<1> QED
  BY <1>1, <1>2 DEF AllRows

LEMMA PositionIsLeast ==
  ASSUME TypeInv, NEW w \in Workers, ~ Exhausted(w)
  PROVE  /\ Position(w) \in DOMAIN cursor[w].rows /\ Position(w) \in Nat
         /\ Position(w) >= cursor[w].row
         /\ \A j \in DOMAIN cursor[w].rows : j >= cursor[w].row => Position(w) <= j
<1>1. cursor[w].rows \in AllRows
  BY DEF TypeInv, WorkTypes, Cursors
<1>2. ToCome(w) \in SUBSET Nat /\ ToCome(w) # {}
  BY <1>1, RowsAreNumbered DEF ToCome, Exhausted
<1>3. \E i \in ToCome(w) : \A j \in ToCome(w) : i <= j
  BY <1>2, LeastNumber
<1>4. Position(w) \in ToCome(w) /\ \A j \in ToCome(w) : Position(w) <= j
  BY <1>3 DEF Position
<1> QED
  BY <1>2, <1>4 DEF ToCome

\* A step within a handler keeps the types of the worker and leaves others alone.
Kept(w) ==
    /\ pc' \in [Workers -> Steps]
    /\ asking' = [u \in Workers |-> asking'[u]] /\ found' \in [Workers -> BOOLEAN]
    /\ cursor' \in [Workers -> Cursors]
    /\ state' \in [Workers -> States \cup {NULL}]
    /\ \A u \in Workers \ {w} :
           /\ pc'[u] = pc[u] /\ asking'[u] = asking[u] /\ found'[u] = found[u]
           /\ cursor'[u] = cursor[u] /\ state'[u] = state[u]

LEMMA AskEffect ==
  ASSUME TypeInv, NEW w \in Workers, NEW qs, Ask(w, qs)
  PROVE  /\ asking' = [u \in Workers |-> asking'[u]] /\ found' \in [Workers -> BOOLEAN]
         /\ asking'[w] = qs /\ found'[w] = FALSE
         /\ \A u \in Workers \ {w} : asking'[u] = asking[u] /\ found'[u] = found[u]
<1>1. asking = [u \in Workers |-> asking[u]] /\ found \in [Workers -> BOOLEAN]
  BY DEF TypeInv, WorkTypes
<1>2. asking' = [u \in Workers |-> IF u = w THEN qs ELSE asking[u]]
  BY <1>1 DEF Ask
<1>3. /\ found' \in [Workers -> BOOLEAN] /\ found'[w] = FALSE
      /\ \A u \in Workers \ {w} : found'[u] = found[u]
  BY <1>1, Zenon DEF Ask
<1> QED
  BY <1>2, <1>3

LEMMA GotoEffect ==
  ASSUME TypeInv, NEW w \in Workers, NEW p \in Steps, Goto(w, p)
  PROVE  /\ pc' \in [Workers -> Steps] /\ pc'[w] = p
         /\ \A u \in Workers \ {w} : pc'[u] = pc[u]
  BY DEF TypeInv, WorkTypes, Goto

LEMMA ContinueEffect ==
  ASSUME TypeInv, NEW w \in Workers, NEW p \in Steps, Continue(w, p)
  PROVE  Kept(w) /\ pc'[w] = p
  BY GotoEffect DEF TypeInv, WorkTypes, Continue, Kept

LEMMA AskThenEffect ==
  ASSUME TypeInv, NEW w \in Workers, NEW p \in Steps, NEW qs, AskThen(w, qs, p)
  PROVE  Kept(w) /\ pc'[w] = p /\ asking'[w] = qs /\ found'[w] = FALSE
  BY GotoEffect, AskEffect DEF TypeInv, WorkTypes, AskThen, Kept

LEMMA CursorEffect ==
  ASSUME TypeInv, NEW w \in Workers, NEW c \in Cursors, cursor' = [cursor EXCEPT ![w] = c]
  PROVE  /\ cursor' \in [Workers -> Cursors] /\ cursor'[w] = c
         /\ \A u \in Workers \ {w} : cursor'[u] = cursor[u]
  BY DEF TypeInv, WorkTypes

LEMMA ClosedIsCursor == Closed \in Cursors
  BY DEF Closed, Cursors, AllRows

LEMMA AnswerEffect ==
  ASSUME TypeInv, NEW w \in Workers, NEW s \in States, Answer(w, s)
  PROVE  /\ Kept(w) /\ state'[w] = s /\ cursor'[w] = Closed
         /\ pc'[w] = IF s = "dunno" THEN "next" ELSE "report"
<1>1. /\ asking' = [u \in Workers |-> asking'[u]] /\ found' \in [Workers -> BOOLEAN]
      /\ \A u \in Workers \ {w} : asking'[u] = asking[u] /\ found'[u] = found[u]
  <2>1. PICK qs : Ask(w, qs)
    BY DEF Answer, Report
  <2> QED
    BY <2>1, AskEffect
<1>2. /\ pc' \in [Workers -> Steps] /\ pc'[w] = (IF s = "dunno" THEN "next" ELSE "report")
      /\ \A u \in Workers \ {w} : pc'[u] = pc[u]
  <2>1. "next" \in Steps /\ "report" \in Steps
    BY DEF Steps
  <2> QED
    BY <2>1, GotoEffect DEF Answer
<1>3. /\ state' \in [Workers -> States \cup {NULL}] /\ state'[w] = s
      /\ \A u \in Workers \ {w} : state'[u] = state[u]
  BY DEF TypeInv, WorkTypes, Answer
<1>4. /\ cursor' \in [Workers -> Cursors] /\ cursor'[w] = Closed
      /\ \A u \in Workers \ {w} : cursor'[u] = cursor[u]
  BY ClosedIsCursor, CursorEffect DEF Answer
<1> QED
  BY <1>1, <1>2, <1>3, <1>4 DEF Kept

LEMMA NextRowEffect ==
  ASSUME TypeInv, NEW w \in Workers, NextRow(w), ~ Exhausted(w)
  PROVE  /\ Kept(w) /\ pc'[w] = "rows" /\ state' = state
         /\ cursor'[w] = [cursor[w] EXCEPT !.row = Position(w) + 1]
<1>1. [cursor[w] EXCEPT !.row = Position(w) + 1] \in Cursors
  <2>1. cursor[w] \in Cursors
    BY DEF TypeInv, WorkTypes
  <2>2. Position(w) + 1 \in Nat
    BY PositionIsLeast
  <2> QED
    BY <2>1, <2>2 DEF Cursors
<1>2. /\ cursor' \in [Workers -> Cursors]
      /\ cursor'[w] = [cursor[w] EXCEPT !.row = Position(w) + 1]
      /\ \A u \in Workers \ {w} : cursor'[u] = cursor[u]
  BY <1>1 DEF TypeInv, WorkTypes, NextRow
<1>3. Goto(w, "rows") /\ Ask(w, <<>>) /\ "rows" \in Steps /\ UNCHANGED state
  BY DEF NextRow, Steps
<1> QED
  BY <1>2, <1>3, GotoEffect, AskEffect DEF Kept, TypeInv, WorkTypes

\* A cursor before its first row.
Fresh(c) == c.pass = "specific" /\ c.row = 1

LEMMA ToLevelEffect ==
  ASSUME TypeInv, NEW w \in Workers, NEW l \in 1..3, ToLevel(w, l)
  PROVE  /\ cursor' \in [Workers -> Cursors] /\ cursor'[w].rows = <<>> /\ Fresh(cursor'[w])
         /\ \A u \in Workers \ {w} : cursor'[u] = cursor[u]
<1> DEFINE c == [Closed EXCEPT !.level = l]
<1>1. c \in Cursors /\ c.rows = <<>> /\ Fresh(c)
  BY DEF Closed, Cursors, AllRows, Fresh
<1>2. cursor' = [cursor EXCEPT ![w] = c]
  BY DEF ToLevel
<1> HIDE DEF c
<1> QED
  BY <1>1, <1>2, CursorEffect

\* What a level without a decision leads to.
LEMMA LevelOverEffect ==
  ASSUME TypeInv, NEW w \in Workers, LevelOver(w)
  PROVE  /\ Kept(w) /\ cursor'[w].rows = <<>> /\ Fresh(cursor'[w])
         /\ \/ pc'[w] \in {"islocal", "check"} /\ state' = state
            \/ pc'[w] = "next" /\ state'[w] = "dunno"
            \/ pc'[w] = "denydomain" /\ state' = state
<1> USE DEF Steps
<1>1. Closed.rows = <<>> /\ Fresh(Closed)
  BY DEF Closed, Fresh
<1>2. cursor[w].level \in 1..3
  BY DEF TypeInv, WorkTypes, Cursors
<1>3. CASE cursor[w].level = 1
  <2>1. /\ ToLevel(w, 1) /\ Ask(w, LocalDomain(req[w].recipient)) /\ Goto(w, "islocal")
        /\ UNCHANGED state
    BY <1>3 DEF LevelOver
  <2>2. /\ cursor' \in [Workers -> Cursors] /\ cursor'[w].rows = <<>> /\ Fresh(cursor'[w])
        /\ \A u \in Workers \ {w} : cursor'[u] = cursor[u]
    BY <2>1, ToLevelEffect
  <2>3. state' \in [Workers -> States \cup {NULL}]
    BY <2>1 DEF TypeInv, WorkTypes
  <2> QED
    BY <2>1, <2>2, <2>3, AskEffect, GotoEffect DEF Kept
<1>4. CASE cursor[w].level = 2
  <2>1. ToLevel(w, 3) /\ Goto(w, "check") /\ UNCHANGED <<state, asking, found>>
    BY <1>4 DEF LevelOver
  <2>2. /\ cursor' \in [Workers -> Cursors] /\ cursor'[w].rows = <<>> /\ Fresh(cursor'[w])
        /\ \A u \in Workers \ {w} : cursor'[u] = cursor[u]
    BY <2>1, ToLevelEffect
  <2> QED
    BY <2>1, <2>2, GotoEffect DEF Kept, TypeInv, WorkTypes
<1>5. CASE cursor[w].level = 3 /\ Authenticated(req[w])
  <2>1. Answer(w, "dunno") /\ "dunno" \in States
    BY <1>5 DEF LevelOver, States
  <2> QED
    BY <1>1, <2>1, AnswerEffect
<1>6. CASE cursor[w].level = 3 /\ ~ Authenticated(req[w])
  <2>1. /\ ToLevel(w, 1) /\ Ask(w, LocalDomain(req[w].sender)) /\ Goto(w, "denydomain")
        /\ UNCHANGED state
    BY <1>6 DEF LevelOver
  <2>2. /\ cursor' \in [Workers -> Cursors] /\ cursor'[w].rows = <<>> /\ Fresh(cursor'[w])
        /\ \A u \in Workers \ {w} : cursor'[u] = cursor[u]
    BY <2>1, ToLevelEffect
  <2>3. state' \in [Workers -> States \cup {NULL}]
    BY <2>1 DEF TypeInv, WorkTypes
  <2> QED
    BY <2>1, <2>2, <2>3, AskEffect, GotoEffect DEF Kept
<1> QED
  BY <1>2, <1>3, <1>4, <1>5, <1>6

-----------------------------------------------------------------------------
(* What each step of a handler may do to its worker.                        *)

Reading == {"rows", "okrow"}
Deciding == {"denysender", "sender"}

\* How a worker comes to its next row.
FirstRow(w) ==
    /\ pc[w] = "check"
    /\ cursor'[w] = [cursor[w] EXCEPT !.rows = Result(cursor[w].level, req[w])]
SecondPass(w) ==
    /\ pc[w] = "rows" /\ Exhausted(w) /\ cursor[w].pass = "specific"
    /\ cursor'[w] = [cursor[w] EXCEPT !.pass = "generic", !.row = 1]
PassedOver(w) ==
    /\ ~ Exhausted(w) /\ cursor'[w] = [cursor[w] EXCEPT !.row = Position(w) + 1]
    /\ \/ pc[w] = "rows" /\ ~ (Applies(w) /\ Row(w).status \in {"ok"} \cup DOMAIN Verdict)
       \/ pc[w] = "okrow" /\ ~ MayAccept(w)

Outcome(w) ==
    /\ state'[w] = "ok" =>
           \/ state[w] = "ok" \/ DefaultState = "ok"
           \/ pc[w] = "okrow" /\ MayAccept(w)
    /\ pc'[w] = "okrow" =>
           /\ pc[w] = "rows" /\ cursor'[w] = cursor[w]
           /\ ~ Exhausted(w) /\ Applies(w) /\ Row(w).status = "ok"
           /\ asking'[w] = LocalDomain(req[w].recipient) /\ found'[w] = FALSE
    /\ pc'[w] = "rows" => FirstRow(w) \/ SecondPass(w) \/ PassedOver(w)
    /\ pc'[w] \in Deciding =>
           asking'[w] = LocalAddress(req[w].sender) /\ found'[w] = FALSE
    /\ pc[w] \in Deciding /\ pc'[w] = "report" => found[w] = FALSE /\ ~ Asking(w)
    /\ pc'[w] \notin Reading =>
           \/ Fresh(cursor'[w])
           \/ pc[w] \notin Reading /\ cursor'[w] = cursor[w]
    /\ pc'[w] # "idle"

LEMMA AnswerOutcome ==
  ASSUME TypeInv, NEW w \in Workers, NEW s \in States, Answer(w, s),
         s = "ok" => pc[w] = "okrow" /\ MayAccept(w),
         pc[w] \in Deciding /\ s # "dunno" => found[w] = FALSE /\ ~ Asking(w)
  PROVE  Kept(w) /\ Outcome(w)
<1>1. Fresh(Closed)
  BY DEF Closed, Fresh
<1> QED
  BY <1>1, AnswerEffect DEF Outcome, Reading, Deciding

LEMMA ContinueOutcome ==
  ASSUME TypeInv, NEW w \in Workers,
         NEW p \in Steps \ {"rows", "okrow", "denysender", "sender", "report", "idle"},
         Continue(w, p), pc[w] \notin Reading
  PROVE  Kept(w) /\ Outcome(w)
<1>1. Kept(w) /\ pc'[w] = p /\ UNCHANGED <<state, cursor>>
  BY ContinueEffect DEF Continue
<1> QED
  BY <1>1 DEF Outcome, Reading, Deciding

LEMMA AskThenOutcome ==
  ASSUME TypeInv, NEW w \in Workers, NEW qs, NEW p \in Steps \ {"rows", "report", "idle"},
         AskThen(w, qs, p),
         p = "okrow" => /\ pc[w] = "rows" /\ qs = LocalDomain(req[w].recipient)
                        /\ ~ Exhausted(w) /\ Applies(w) /\ Row(w).status = "ok",
         p \in Deciding => qs = LocalAddress(req[w].sender),
         p # "okrow" => pc[w] \notin Reading
  PROVE  Kept(w) /\ Outcome(w)
<1>1. Kept(w) /\ pc'[w] = p /\ asking'[w] = qs /\ found'[w] = FALSE /\ UNCHANGED <<state, cursor>>
  BY AskThenEffect DEF AskThen
<1> QED
  BY <1>1 DEF Outcome, Reading, Deciding

LEMMA LevelOverOutcome ==
  ASSUME TypeInv, NEW w \in Workers, LevelOver(w), pc[w] \notin Deciding
  PROVE  Kept(w) /\ Outcome(w)
  BY LevelOverEffect DEF Outcome, Reading, Deciding

LEMMA NextRowOutcome ==
  ASSUME TypeInv, NEW w \in Workers, NextRow(w), ~ Exhausted(w),
         \/ pc[w] = "rows" /\ ~ (Applies(w) /\ Row(w).status \in {"ok"} \cup DOMAIN Verdict)
         \/ pc[w] = "okrow" /\ ~ MayAccept(w)
  PROVE  Kept(w) /\ Outcome(w)
  BY NextRowEffect DEF Outcome, Reading, Deciding, PassedOver

LEMMA ObserveOutcome ==
  ASSUME TypeInv, NEW w \in Workers, Observe(w)
  PROVE  Kept(w) /\ Outcome(w)
<1>1. "dunno" \in States /\ pc[w] \notin Deciding /\ Answer(w, "dunno")
  BY DEF Observe, States, Deciding
<1> QED
  BY <1>1, AnswerOutcome

LEMMA BwlOutcome ==
  ASSUME TypeInv, NEW w \in Workers, Bwl(w)
  PROVE  Kept(w) /\ Outcome(w)
<1>1. pc[w] \notin Deciding /\ pc[w] \notin Reading
  BY DEF Bwl, Deciding, Reading
<1>2. CASE Answer(w, "reject")
  BY <1>1, <1>2, AnswerOutcome DEF States
<1>3. CASE Continue(w, "check")
  BY <1>1, <1>3, ContinueOutcome DEF Steps
<1> QED
  BY <1>2, <1>3 DEF Bwl

LEMMA CheckStatusOutcome ==
  ASSUME TypeInv, NEW w \in Workers, CheckStatus(w)
  PROVE  Kept(w) /\ Outcome(w)
<1>1. pc[w] = "check" /\ pc[w] \notin Deciding
  BY DEF CheckStatus, Deciding
<1>2. CASE LevelOver(w)
  BY <1>1, <1>2, LevelOverOutcome
<1>3. CASE ~ LevelOver(w)
  <2>1. /\ cursor' = [cursor EXCEPT ![w].rows = Result(cursor[w].level, req[w])]
        /\ Goto(w, "rows") /\ UNCHANGED <<state, asking, found>>
    BY <1>3 DEF CheckStatus
  <2>2. cursor[w] \in Cursors /\ Result(cursor[w].level, req[w]) \in AllRows
    <3>1. cursor[w] \in Cursors /\ req[w] \in AllRequests \cup {NULL}
      BY DEF TypeInv, WorkTypes
    <3>2. cursor[w].level \in 1..3
      BY <3>1 DEF Cursors
    <3> QED
      BY <3>1, <3>2 DEF AllRows
  <2>3. [cursor[w] EXCEPT !.rows = Result(cursor[w].level, req[w])] \in Cursors
    BY <2>2 DEF Cursors
  <2>4. cursor' = [cursor EXCEPT ![w] = [cursor[w] EXCEPT !.rows = Result(cursor[w].level, req[w])]]
    BY <2>1 DEF TypeInv, WorkTypes
  <2>5. /\ cursor' \in [Workers -> Cursors]
        /\ \A u \in Workers \ {w} : cursor'[u] = cursor[u]
    BY <2>3, <2>4, CursorEffect
  <2>6. Kept(w) /\ pc'[w] = "rows" /\ UNCHANGED state
    BY <2>1, <2>5, GotoEffect DEF Steps, Kept, TypeInv, WorkTypes
  <2>7. cursor'[w] = [cursor[w] EXCEPT !.rows = Result(cursor[w].level, req[w])]
    BY <2>3, <2>4, CursorEffect
  <2> QED
    BY <1>1, <2>6, <2>7 DEF Outcome, Reading, Deciding, FirstRow
<1> QED
  BY <1>2, <1>3

LEMMA PassFromFirstEffect ==
  ASSUME TypeInv, NEW w \in Workers, PassFromFirst(w)
  PROVE  /\ cursor' \in [Workers -> Cursors]
         /\ cursor'[w] = [cursor[w] EXCEPT !.pass = "generic", !.row = 1]
         /\ \A u \in Workers \ {w} : cursor'[u] = cursor[u]
<1>1. [cursor[w] EXCEPT !.pass = "generic", !.row = 1] \in Cursors
  BY DEF TypeInv, WorkTypes, Cursors
<1> QED
  BY <1>1 DEF PassFromFirst, TypeInv, WorkTypes

LEMMA RowsOverOutcome ==
  ASSUME TypeInv, NEW w \in Workers, RowsOver(w)
  PROVE  Kept(w) /\ Outcome(w)
<1>1. pc[w] = "rows" /\ pc[w] \notin Deciding
  BY DEF RowsOver, Deciding
<1>2. CASE LevelOver(w)
  BY <1>1, <1>2, LevelOverOutcome
<1>3. CASE ~ LevelOver(w)
  <2>1. /\ PassFromFirst(w) /\ UNCHANGED <<pc, state, asking, found>>
        /\ Exhausted(w) /\ cursor[w].pass = "specific"
    BY <1>3 DEF RowsOver
  <2>2. Kept(w)
    BY <2>1, PassFromFirstEffect DEF Kept, TypeInv, WorkTypes
  <2>3. SecondPass(w)
    BY <1>1, <2>1, PassFromFirstEffect DEF SecondPass
  <2> QED
    BY <1>1, <2>1, <2>2, <2>3 DEF Outcome, Reading, Deciding
<1> QED
  BY <1>2, <1>3

LEMMA CheckRowOutcome ==
  ASSUME TypeInv, NEW w \in Workers, CheckRow(w)
  PROVE  Kept(w) /\ Outcome(w)
<1>1. pc[w] = "rows" /\ pc[w] \notin Deciding /\ pc[w] \in Reading /\ ~ Exhausted(w)
  BY DEF CheckRow, Deciding, Reading
<1>2. CASE Applies(w) /\ Row(w).status = "ok"
  <2>1. AskThen(w, LocalDomain(req[w].recipient), "okrow")
    BY <1>2 DEF CheckRow, Verdict
  <2> QED
    BY <1>1, <1>2, <2>1, AskThenOutcome DEF Steps, Deciding
<1>3. CASE Applies(w) /\ Row(w).status \in DOMAIN Verdict
  <2>1. Row(w).status # "ok" /\ Verdict[Row(w).status] \in States \ {"ok"}
    BY <1>3 DEF Verdict, States
  <2>2. Answer(w, Verdict[Row(w).status])
    BY <1>3, <2>1 DEF CheckRow
  <2> QED
    BY <1>1, <2>1, <2>2, AnswerOutcome
<1>4. CASE ~ (Applies(w) /\ (Row(w).status = "ok" \/ Row(w).status \in DOMAIN Verdict))
  <2>1. NextRow(w)
    BY <1>4 DEF CheckRow
  <2> QED
    BY <1>1, <1>4, <2>1, NextRowOutcome
<1> QED
  BY <1>2, <1>3, <1>4

LEMMA OkRowOutcome ==
  ASSUME TypeInv, NEW w \in Workers, OkRow(w), ~ Exhausted(w)
  PROVE  Kept(w) /\ Outcome(w)
<1>1. pc[w] = "okrow" /\ pc[w] \notin Deciding /\ pc[w] \in Reading
  BY DEF OkRow, Deciding, Reading
<1>2. CASE MayAccept(w)
  <2>1. Answer(w, "ok") /\ "ok" \in States
    BY <1>2 DEF OkRow, States
  <2> QED
    BY <1>1, <1>2, <2>1, AnswerOutcome
<1>3. CASE ~ MayAccept(w)
  <2>1. NextRow(w)
    BY <1>3 DEF OkRow
  <2> QED
    BY <1>1, <1>3, <2>1, NextRowOutcome
<1> QED
  BY <1>2, <1>3

LEMMA IsLocalOutcome ==
  ASSUME TypeInv, NEW w \in Workers, IsLocal(w)
  PROVE  Kept(w) /\ Outcome(w)
<1>1. pc[w] = "islocal" /\ pc[w] \notin Deciding /\ pc[w] \notin Reading
  BY DEF IsLocal, Deciding, Reading
<1>2. CASE Answer(w, "dunno")
  BY <1>1, <1>2, AnswerOutcome DEF States
<1>3. CASE ~ Answer(w, "dunno")
  <2>1. ToLevel(w, 2) /\ Goto(w, "check") /\ Ask(w, <<>>) /\ UNCHANGED state
    BY <1>3 DEF IsLocal
  <2>2. /\ cursor' \in [Workers -> Cursors] /\ Fresh(cursor'[w])
        /\ \A u \in Workers \ {w} : cursor'[u] = cursor[u]
    BY <2>1, ToLevelEffect
  <2>3. state' \in [Workers -> States \cup {NULL}] /\ "check" \in Steps
    BY <2>1 DEF TypeInv, WorkTypes, Steps
  <2>4. Kept(w) /\ pc'[w] = "check"
    BY <2>1, <2>2, <2>3, AskEffect, GotoEffect DEF Kept
  <2> QED
    BY <1>1, <2>1, <2>2, <2>4 DEF Outcome, Reading, Deciding
<1> QED
  BY <1>2, <1>3

LEMMA DenyDomainOutcome ==
  ASSUME TypeInv, NEW w \in Workers, DenyDomain(w)
  PROVE  Kept(w) /\ Outcome(w)
<1>1. pc[w] = "denydomain" /\ pc[w] \notin Deciding /\ pc[w] \notin Reading
  BY DEF DenyDomain, Deciding, Reading
<1>2. CASE Answer(w, "dunno")
  BY <1>1, <1>2, AnswerOutcome DEF States
<1>3. CASE AskThen(w, LocalAddress(req[w].sender), "denysender")
  BY <1>1, <1>3, AskThenOutcome DEF Steps
<1> QED
  BY <1>2, <1>3 DEF DenyDomain

LEMMA DenySenderOutcome ==
  ASSUME TypeInv, NEW w \in Workers, DenySender(w)
  PROVE  Kept(w) /\ Outcome(w)
<1>1. ~ Asking(w) /\ found[w] \in BOOLEAN
  BY DEF DenySender, TypeInv, WorkTypes
<1>2. CASE found[w] = TRUE
  BY <1>2, AnswerOutcome DEF DenySender, States
<1>3. CASE found[w] = FALSE
  BY <1>1, <1>3, AnswerOutcome DEF DenySender, States
<1> QED
  BY <1>1, <1>2, <1>3

LEMMA SlmOutcome ==
  ASSUME TypeInv, NEW w \in Workers, Slm(w)
  PROVE  Kept(w) /\ Outcome(w)
<1>1. pc[w] = "mod-slm" /\ pc[w] \notin Deciding /\ pc[w] \notin Reading
  BY DEF Slm, Deciding, Reading
<1>2. CASE Answer(w, "dunno")
  BY <1>1, <1>2, AnswerOutcome DEF States
<1>3. CASE AskThen(w, LocalAddress(req[w].recipient), "recipient")
  BY <1>1, <1>3, AskThenOutcome DEF Steps, Deciding
<1> QED
  BY <1>2, <1>3 DEF Slm

LEMMA SlmRecipientOutcome ==
  ASSUME TypeInv, NEW w \in Workers, SlmRecipient(w)
  PROVE  Kept(w) /\ Outcome(w)
<1>1. pc[w] = "recipient" /\ pc[w] \notin Deciding /\ pc[w] \notin Reading
  BY DEF SlmRecipient, Deciding, Reading
<1>2. CASE Answer(w, "dunno")
  BY <1>1, <1>2, AnswerOutcome DEF States
<1>3. CASE Answer(w, "reject")
  BY <1>1, <1>3, AnswerOutcome DEF States
<1>4. CASE AskThen(w, LocalAddress(req[w].sender), "sender")
  BY <1>1, <1>4, AskThenOutcome DEF Steps
<1> QED
  BY <1>2, <1>3, <1>4, Zenon DEF SlmRecipient

LEMMA SlmSenderOutcome ==
  ASSUME TypeInv, NEW w \in Workers, SlmSender(w)
  PROVE  Kept(w) /\ Outcome(w)
<1>1. ~ Asking(w) /\ found[w] \in BOOLEAN
  BY DEF SlmSender, TypeInv, WorkTypes
<1>2. CASE found[w] = TRUE
  BY <1>2, AnswerOutcome DEF SlmSender, States
<1>3. CASE found[w] = FALSE
  BY <1>1, <1>3, AnswerOutcome DEF SlmSender, States
<1> QED
  BY <1>1, <1>2, <1>3

-----------------------------------------------------------------------------
(* Every step.                                                              *)

BaseInv == TypeInv /\ \A w \in Workers : pc[w] = "okrow" => ~ Exhausted(w)

\* The steps of the handlers but for their lookups.
Handler(w) ==
    \/ Observe(w) \/ Bwl(w) \/ CheckStatus(w) \/ RowsOver(w) \/ CheckRow(w) \/ OkRow(w)
    \/ IsLocal(w) \/ DenyDomain(w) \/ DenySender(w)
    \/ Slm(w) \/ SlmRecipient(w) \/ SlmSender(w)

LEMMA StartUntouched ==
  ASSUME TypeInv, UNCHANGED <<database, configured, starting>>
  PROVE  StartTypes'
  BY DEF TypeInv, StartTypes, database, server, ensuring, configured, starting, DatabaseTypeOK

LEMMA HandlerStep ==
  ASSUME BaseInv, NEW w \in Workers, Handler(w)
  PROVE  /\ TypeInv' /\ Outcome(w) /\ UNCHANGED others
         /\ \A u \in Workers \ {w} : Same(u)
<1>1. TypeInv /\ (pc[w] = "okrow" => ~ Exhausted(w))
  BY DEF BaseInv
<1>2. Kept(w) /\ Outcome(w)
  <2>1. OkRow(w) => ~ Exhausted(w)
    BY <1>1 DEF OkRow
  <2> QED
    BY <1>1, <2>1, ObserveOutcome, BwlOutcome, CheckStatusOutcome, RowsOverOutcome,
      CheckRowOutcome, OkRowOutcome, IsLocalOutcome, DenyDomainOutcome, DenySenderOutcome,
      SlmOutcome, SlmRecipientOutcome, SlmSenderOutcome DEF Handler
<1>3. UNCHANGED others
  BY DEF Handler, Observe, Bwl, CheckStatus, RowsOver, CheckRow, OkRow, IsLocal, DenyDomain,
    DenySender, Slm, SlmRecipient, SlmSender
<1>4. StartTypes'
  BY <1>1, <1>3, StartUntouched DEF others
<1>5. WorkTypes' /\ \A u \in Workers \ {w} : Same(u)
  BY <1>1, <1>2, <1>3 DEF TypeInv, WorkTypes, Kept, others, Same
<1> QED
  BY <1>2, <1>3, <1>4, <1>5 DEF TypeInv

LEMMA TakeStep ==
  ASSUME TypeInv, NEW w \in Workers, Take(w)
  PROVE  /\ TypeInv' /\ \A u \in Workers \ {w} : Same(u)
         /\ pc[w] = "idle" /\ pc'[w] = "next" /\ early'[w] = (main # "run")
         /\ UNCHANGED <<database, configured, starting, cursor, state>>
<1>1. UNCHANGED <<database, configured, lookups, starting, selected, cursor, state>>
  BY DEF Take
<1>2. PICK r \in Requests[w] : req' = [req EXCEPT ![w] = r]
  BY DEF Take
<1>3. /\ req' \in [Workers -> AllRequests \cup {NULL}]
      /\ \A u \in Workers : req'[u] \in Requests[u] \cup {NULL}
      /\ \A u \in Workers \ {w} : req'[u] = req[u]
  BY <1>2 DEF TypeInv, WorkTypes, AllRequests
<1>4. taken' \in 0..MaxRequests
  BY PolicyAssumption DEF TypeInv, WorkTypes, Take
<1>5. /\ early' \in [Workers -> BOOLEAN] /\ early'[w] = (main # "run")
      /\ \A u \in Workers \ {w} : early'[u] = early[u]
  <2>1. early \in [Workers -> BOOLEAN] /\ (main # "run") \in BOOLEAN
    BY DEF TypeInv, WorkTypes
  <2> QED
    BY <2>1, Zenon DEF Take
<1>6. /\ pc' \in [Workers -> Steps] /\ pc'[w] = "next"
      /\ \A u \in Workers \ {w} : pc'[u] = pc[u]
  BY GotoEffect DEF Take, Steps
<1>7. WorkTypes'
  BY <1>1, <1>3, <1>4, <1>5, <1>6 DEF TypeInv, WorkTypes, lookups
<1>8. \A u \in Workers \ {w} : Same(u)
  BY <1>1, <1>3, <1>5, <1>6 DEF Same, lookups
<1>9. StartTypes'
  BY <1>1, StartUntouched
<1> QED
  BY <1>1, <1>5, <1>6, <1>7, <1>8, <1>9 DEF TypeInv, Take

LEMMA NextHandlerStep ==
  ASSUME TypeInv, NEW w \in Workers, NextHandler(w)
  PROVE  /\ TypeInv' /\ \A u \in Workers \ {w} : Same(u)
         /\ pc[w] = "next" /\ pc'[w] \in {"mod-bwl", "mod-slm", "observer"}
         /\ UNCHANGED <<database, configured, starting, req, early, cursor, state>>
<1>1. UNCHANGED <<database, configured, holder, starting, taken, req, early>>
  BY DEF NextHandler
<1>2. PICK m \in NextHandlers(w) :
          selected' = [selected EXCEPT ![w] = @ \cup {m}] /\ Continue(w, Entry(m))
  BY DEF NextHandler
<1>3. Entry(m) \in {"mod-bwl", "mod-slm", "observer"}
  BY DEF Entry
<1>4. Kept(w) /\ pc'[w] = Entry(m)
  BY <1>2, <1>3, ContinueEffect DEF Steps
<1>5. m \in ToSet(Modules)
  BY DEF NextHandlers, TypeInv, StartTypes
<1>6. /\ selected' \in [Workers -> SUBSET ToSet(Modules)]
      /\ \A u \in Workers \ {w} : selected'[u] = selected[u]
  BY <1>2, <1>5 DEF TypeInv, WorkTypes
<1>7. WorkTypes' /\ \A u \in Workers \ {w} : Same(u)
  BY <1>1, <1>4, <1>6 DEF TypeInv, WorkTypes, Kept, Same
<1>8. StartTypes'
  BY <1>1, StartUntouched
<1>9. UNCHANGED <<cursor, state>>
  BY <1>2 DEF Continue
<1> QED
  BY <1>1, <1>3, <1>4, <1>7, <1>8, <1>9 DEF TypeInv, NextHandler

LEMMA ReportEffect ==
  ASSUME TypeInv, NEW w \in Workers, NEW s, Report(w, s)
  PROVE  /\ asking' = [u \in Workers |-> asking'[u]] /\ found' \in [Workers -> BOOLEAN]
         /\ \A u \in Workers \ {w} : asking'[u] = asking[u] /\ found'[u] = found[u]
<1>1. PICK qs : Ask(w, qs)
  BY DEF Report
<1> QED
  BY <1>1, AskEffect

LEMMA NoHandlerLeftStep ==
  ASSUME TypeInv, NEW w \in Workers, NoHandlerLeft(w)
  PROVE  /\ TypeInv' /\ \A u \in Workers \ {w} : Same(u)
         /\ pc[w] = "next" /\ pc'[w] = "report" /\ state'[w] \in {state[w], DefaultState}
         /\ UNCHANGED <<database, configured, starting, req, early, cursor>>
<1>1. UNCHANGED <<others, cursor>>
  BY DEF NoHandlerLeft
<1>2. /\ state' \in [Workers -> States \cup {NULL}] /\ state'[w] \in {state[w], DefaultState}
      /\ \A u \in Workers \ {w} : state'[u] = state[u]
  BY PolicyAssumption DEF TypeInv, WorkTypes, NoHandlerLeft
<1>3. /\ asking' = [u \in Workers |-> asking'[u]] /\ found' \in [Workers -> BOOLEAN]
      /\ \A u \in Workers \ {w} : asking'[u] = asking[u] /\ found'[u] = found[u]
  BY ReportEffect DEF NoHandlerLeft
<1>4. /\ pc' \in [Workers -> Steps] /\ pc'[w] = "report"
      /\ \A u \in Workers \ {w} : pc'[u] = pc[u]
  BY GotoEffect DEF NoHandlerLeft, Steps
<1>5. WorkTypes' /\ \A u \in Workers \ {w} : Same(u)
  BY <1>1, <1>2, <1>3, <1>4 DEF TypeInv, WorkTypes, others, Same
<1>6. StartTypes'
  BY <1>1, StartUntouched DEF others
<1> QED
  BY <1>1, <1>2, <1>4, <1>5, <1>6 DEF TypeInv, NoHandlerLeft, others

LEMMA SendReplyStep ==
  ASSUME TypeInv, NEW w \in Workers, SendReply(w)
  PROVE  /\ TypeInv' /\ \A u \in Workers \ {w} : Same(u)
         /\ pc[w] = "report" /\ pc'[w] = "idle" /\ state'[w] = NULL
         /\ UNCHANGED <<database, configured, starting, cursor>>
<1>1. UNCHANGED <<database, configured, holder, starting, taken, cursor>>
  BY DEF SendReply
<1>2. /\ req' \in [Workers -> AllRequests \cup {NULL}]
      /\ \A u \in Workers : req'[u] \in Requests[u] \cup {NULL}
      /\ \A u \in Workers \ {w} : req'[u] = req[u]
  BY DEF TypeInv, WorkTypes, SendReply
<1>3. /\ selected' \in [Workers -> SUBSET ToSet(Modules)]
      /\ \A u \in Workers \ {w} : selected'[u] = selected[u]
  BY DEF TypeInv, WorkTypes, SendReply
<1>4. /\ state' \in [Workers -> States \cup {NULL}] /\ state'[w] = NULL
      /\ \A u \in Workers \ {w} : state'[u] = state[u]
  BY DEF TypeInv, WorkTypes, SendReply
<1>5. /\ early' \in [Workers -> BOOLEAN]
      /\ \A u \in Workers \ {w} : early'[u] = early[u]
  <2>1. early \in [Workers -> BOOLEAN]
    BY DEF TypeInv, WorkTypes
  <2> QED
    BY <2>1, Zenon DEF SendReply
<1>6. /\ asking' = [u \in Workers |-> asking'[u]] /\ found' \in [Workers -> BOOLEAN]
      /\ \A u \in Workers \ {w} : asking'[u] = asking[u] /\ found'[u] = found[u]
  BY AskEffect DEF SendReply
<1>7. /\ pc' \in [Workers -> Steps] /\ pc'[w] = "idle"
      /\ \A u \in Workers \ {w} : pc'[u] = pc[u]
  BY GotoEffect DEF SendReply, Steps
<1>8. WorkTypes'
  BY <1>1, <1>2, <1>3, <1>4, <1>5, <1>6, <1>7 DEF TypeInv, WorkTypes
<1>9. \A u \in Workers \ {w} : Same(u)
  BY <1>1, <1>2, <1>3, <1>4, <1>5, <1>6, <1>7 DEF Same
<1>10. StartTypes'
  BY <1>1, StartUntouched
<1> QED
  BY <1>1, <1>4, <1>7, <1>8, <1>9, <1>10 DEF TypeInv, SendReply

\* What a step of a lookup tells the worker.
FoundLocal(w, q) ==
    \/ Resolves(q)
    \/ q.type = "domain" /\ q.item \in names
    \/ query[q.type] # NULL /\ q.item \in query[q.type]

LookedUp(w) ==
    \/ asking'[w] = asking[w] /\ found'[w] = found[w]
    \/ /\ Asking(w) /\ FoundLocal(w, Current(w))
       /\ asking'[w] = <<>> /\ found'[w] = TRUE
    \/ /\ Asking(w)
       /\ asking'[w] = Tail(asking[w]) /\ found'[w] = found[w]
       /\ outages' = outages => ~ (resolver /\ Resolves(Current(w)))
       /\ up => ~ (query[Current(w).type] # NULL /\ Current(w).item \in query[Current(w).type])

LEMMA FoundEffect ==
  ASSUME TypeInv, NEW w \in Workers, Found(w)
  PROVE  /\ asking' = [u \in Workers |-> asking'[u]] /\ found' \in [Workers -> BOOLEAN]
         /\ asking'[w] = <<>> /\ found'[w] = TRUE
         /\ \A u \in Workers \ {w} : asking'[u] = asking[u] /\ found'[u] = found[u]
<1>1. asking = [u \in Workers |-> asking[u]] /\ found \in [Workers -> BOOLEAN]
  BY DEF TypeInv, WorkTypes
<1>2. asking' = [u \in Workers |-> IF u = w THEN <<>> ELSE asking[u]]
  BY <1>1 DEF Found
<1>3. /\ found' \in [Workers -> BOOLEAN] /\ found'[w] = TRUE
      /\ \A u \in Workers \ {w} : found'[u] = found[u]
  BY <1>1, Zenon DEF Found
<1> QED
  BY <1>2, <1>3

LEMMA ElsewhereEffect ==
  ASSUME TypeInv, NEW w \in Workers, Asking(w), AskedElsewhere(w),
         outages' = outages => ~ (resolver /\ Resolves(Current(w)))
  PROVE  /\ asking' = [u \in Workers |-> asking'[u]] /\ found' \in [Workers -> BOOLEAN]
         /\ \A u \in Workers \ {w} : asking'[u] = asking[u] /\ found'[u] = found[u]
         /\ LookedUp(w)
<1> DEFINE q == Current(w)
           known == query[q.type] # NULL /\ q.item \in query[q.type]
<1>1. CASE Found(w) /\ ((q.type = "domain" /\ q.item \in names) \/ (up /\ known))
  BY <1>1, FoundEffect DEF LookedUp, FoundLocal
<1>2. CASE /\ asking' = [asking EXCEPT ![w] = Tail(@)] /\ UNCHANGED found
           /\ ~ ((q.type = "domain" /\ q.item \in names) \/ (up /\ known))
  <2>1. asking = [u \in Workers |-> asking[u]] /\ found \in [Workers -> BOOLEAN]
    BY DEF TypeInv, WorkTypes
  <2>2. asking' = [u \in Workers |-> IF u = w THEN Tail(asking[w]) ELSE asking[u]]
    BY <1>2, <2>1
  <2>3. found' \in [Workers -> BOOLEAN] /\ found' = found
    BY <1>2, <2>1
  <2>4. up => ~ known
    BY <1>2
  <2> QED
    BY <2>2, <2>3, <2>4 DEF LookedUp
<1> QED
  BY <1>1, <1>2 DEF AskedElsewhere

LEMMA LookUpStep ==
  ASSUME TypeInv, NEW w \in Workers, LookUp(w)
  PROVE  /\ TypeInv' /\ \A u \in Workers \ {w} : Same(u)
         /\ LookedUp(w) /\ outages' >= outages /\ up' = up
         /\ UNCHANGED <<cols, ensuring, configured, starting, work>>
<1>1. UNCHANGED <<cols, ensuring, configured, starting, work>>
  BY DEF LookUp
<1>2. outages \in 0..MaxOutages /\ MaxOutages \in Nat
  BY DatabaseAssumption DEF TypeInv, StartTypes, DatabaseTypeOK
<1>3. /\ holder' \in Workers \cup {NULL}
      /\ asking' = [u \in Workers |-> asking'[u]] /\ found' \in [Workers -> BOOLEAN]
      /\ \A u \in Workers \ {w} : asking'[u] = asking[u] /\ found'[u] = found[u]
      /\ LookedUp(w) /\ outages' \in 0..MaxOutages /\ outages' >= outages /\ up' = up
  <2>1. CASE LockResolvers(w) /\ UNCHANGED server
    BY <1>2, <2>1 DEF LockResolvers, server, TypeInv, WorkTypes, LookedUp
  <2>2. CASE ResolverAnswers(w) /\ UNCHANGED server
    <3>1. Found(w) /\ Asking(w) /\ FoundLocal(w, Current(w)) /\ holder' = NULL
      BY <2>2 DEF ResolverAnswers, FoundLocal
    <3>2. outages' = outages /\ up' = up
      BY <2>2 DEF server
    <3>3. /\ asking' = [u \in Workers |-> asking'[u]] /\ found' \in [Workers -> BOOLEAN]
          /\ asking'[w] = <<>> /\ found'[w] = TRUE
          /\ \A u \in Workers \ {w} : asking'[u] = asking[u] /\ found'[u] = found[u]
      BY <3>1, FoundEffect
    <3>4. LookedUp(w)
      BY <3>1, <3>3 DEF LookedUp
    <3>5. outages' \in 0..MaxOutages /\ outages' >= outages
      BY <1>2, <3>2
    <3> QED
      BY <3>1, <3>2, <3>3, <3>4, <3>5
  <2>3. CASE ResolverPasses(w)
    <3>1. /\ Asking(w) /\ AskedElsewhere(w) /\ holder' = NULL /\ up' = up
          /\ IF Resolves(Current(w)) THEN outages < MaxOutages /\ outages' = outages + 1
                                     ELSE outages' = outages
      BY <2>3 DEF ResolverPasses
    <3>2. outages' \in 0..MaxOutages /\ outages' >= outages
      BY <1>2, <3>1
    <3>3. outages' = outages => ~ (resolver /\ Resolves(Current(w)))
      BY <1>2, <3>1
    <3> QED
      BY <3>1, <3>2, <3>3, ElsewhereEffect
  <2>4. CASE NoResolver(w) /\ UNCHANGED server
    <3>1. Asking(w) /\ AskedElsewhere(w) /\ UNCHANGED holder /\ ~ resolver
      BY <2>4 DEF NoResolver
    <3>2. outages' = outages /\ up' = up
      BY <2>4 DEF server
    <3>3. holder' \in Workers \cup {NULL}
      BY <3>1 DEF TypeInv, WorkTypes
    <3> QED
      BY <1>2, <3>1, <3>2, <3>3, ElsewhereEffect
  <2> QED
    BY <2>1, <2>2, <2>3, <2>4 DEF LookUp
<1>4. DatabaseTypeOK'
  <2>1. up' \in BOOLEAN
    BY <1>3 DEF TypeInv, StartTypes, DatabaseTypeOK
  <2> QED
    BY <1>1, <1>3, <2>1 DEF TypeInv, StartTypes, DatabaseTypeOK, ensuring
<1>5. StartTypes'
  BY <1>1, <1>4 DEF TypeInv, StartTypes, configured, starting
<1>6. WorkTypes'
  BY <1>1, <1>3 DEF TypeInv, WorkTypes, work
<1>7. \A u \in Workers \ {w} : Same(u)
  BY <1>1, <1>3 DEF Same, work
<1> QED
  BY <1>1, <1>3, <1>5, <1>6, <1>7 DEF TypeInv

\* A worker takes a step, and nothing else happens, or no worker does.
LEMMA NextCases ==
  ASSUME Next
  PROVE  \/ Database \/ Start
         \/ \E w \in Workers : \/ Take(w) \/ NextHandler(w) \/ NoHandlerLeft(w)
                               \/ LookUp(w) \/ SendReply(w) \/ Handler(w)
  BY DEF Next, Work, Handler

LEMMA BaseInvInit == Init => BaseInv
<1> SUFFICES ASSUME Init PROVE BaseInv
  OBVIOUS
<1>1. TypeInv
  BY TypeInvInit
<1>2. \A w \in Workers : pc[w] # "okrow"
  BY DEF Init
<1> QED
  BY <1>1, <1>2 DEF BaseInv

\* The row a worker is at depends on its cursor alone.
LEMMA SameRow ==
  ASSUME NEW w \in Workers, cursor'[w] = cursor[w]
  PROVE  Exhausted(w)' = Exhausted(w) /\ Position(w)' = Position(w) /\ Row(w)' = Row(w)
  BY DEF Exhausted, Row, Position, ToCome

LEMMA BaseInvNext == BaseInv /\ [Next]_vars => BaseInv'
<1> SUFFICES ASSUME BaseInv, [Next]_vars PROVE BaseInv'
  OBVIOUS
<1>1. TypeInv
  BY DEF BaseInv
<1>2. ASSUME TypeInv', NEW w \in Workers, \A u \in Workers \ {w} : Same(u),
             pc'[w] = "okrow" => ~ Exhausted(w)'
      PROVE  BaseInv'
  <2>1. ASSUME NEW u \in Workers, u # w, pc'[u] = "okrow" PROVE ~ Exhausted(u)'
    BY <1>2, <2>1, SameRow DEF Same, BaseInv
  <2> QED
    BY <1>2, <2>1 DEF BaseInv
<1>3. ASSUME TypeInv', \A u \in Workers : Same(u)
      PROVE  BaseInv'
  BY <1>3, SameRow DEF Same, BaseInv
<1>4. CASE Database
  BY <1>1, <1>3, <1>4, DatabaseTypes
<1>5. CASE Start
  BY <1>1, <1>3, <1>5, StartTypesKept
<1>6. ASSUME NEW w \in Workers, Take(w) PROVE BaseInv'
  BY <1>1, <1>2, <1>6, TakeStep
<1>7. ASSUME NEW w \in Workers, NextHandler(w) PROVE BaseInv'
  BY <1>1, <1>2, <1>7, NextHandlerStep
<1>8. ASSUME NEW w \in Workers, NoHandlerLeft(w) PROVE BaseInv'
  BY <1>1, <1>2, <1>8, NoHandlerLeftStep
<1>9. ASSUME NEW w \in Workers, SendReply(w) PROVE BaseInv'
  BY <1>1, <1>2, <1>9, SendReplyStep
<1>10. ASSUME NEW w \in Workers, LookUp(w) PROVE BaseInv'
  <2>1. pc' = pc /\ cursor' = cursor /\ TypeInv' /\ \A u \in Workers \ {w} : Same(u)
    BY <1>1, <1>10, LookUpStep DEF work
  <2>2. pc'[w] = "okrow" => ~ Exhausted(w)'
    BY <2>1, SameRow DEF BaseInv
  <2> QED
    BY <1>2, <2>1, <2>2
<1>11. ASSUME NEW w \in Workers, Handler(w) PROVE BaseInv'
  <2>1. TypeInv' /\ Outcome(w) /\ \A u \in Workers \ {w} : Same(u)
    BY <1>11, HandlerStep
  <2>2. pc'[w] = "okrow" => ~ Exhausted(w)'
    BY <2>1, SameRow DEF Outcome
  <2> QED
    BY <1>2, <2>1, <2>2
<1>12. CASE UNCHANGED vars
  <2>1. \A u \in Workers : Same(u)
    BY <1>12 DEF vars, work, lookups, Same
  <2>2. TypeInv'
    BY <1>1, <1>12, StartUntouched, WorkersUntouched DEF TypeInv, vars
  <2> QED
    BY <1>3, <2>1, <2>2
<1> QED
  BY <1>4, <1>5, <1>6, <1>7, <1>8, <1>9, <1>10, <1>11, <1>12, NextCases

(* The variables keep their types: every cursor is at a row of a result    *)
(* some query gave, or none (mod-bwl.c:431-503).                           *)
THEOREM TypeCorrect == Spec => []TypeOK
<1>1. BaseInv => TypeOK
  BY TypeInvImplies DEF BaseInv
<1> QED
  BY <1>1, BaseInvInit, BaseInvNext, PTL DEF Spec

-----------------------------------------------------------------------------
(* No open relay.                                                           *)

\* An idle worker has no answer, who weighs an ok asks for the recipient's
\* domain, and who has answered ok was allowed to.
RelayOf(w) ==
    LET domain == LocalDomain(req[w].recipient)
        hosted == DomainOf(req[w].recipient) \in Hosted
    IN  /\ pc[w] = "idle" => state[w] = NULL
        /\ pc[w] = "okrow" => /\ asking[w] \in {<<>>, domain}
                              /\ found[w] = TRUE => hosted
        /\ state[w] = "ok" => Authenticated(req[w]) \/ hosted

RelayInv == BaseInv /\ \A w \in Workers : RelayOf(w)

LEMMA FoundIsHosted ==
  ASSUME TypeInv, NEW w \in Workers, NEW a, FoundLocal(w, Lookup("domain", DomainOf(a)))
  PROVE  DomainOf(a) \in Hosted
<1> DEFINE d == DomainOf(a)
<1>1. Lookup("domain", d).type = "domain" /\ Lookup("domain", d).item = d
  BY DEF Lookup
<1>2. \/ d \in Plesk["domain"] \/ d \in names
      \/ query["domain"] # NULL /\ d \in query["domain"]
  BY <1>1 DEF FoundLocal, Resolves
<1>3. CASE d \in Plesk["domain"]
  BY <1>3 DEF Hosted
<1>4. CASE d \in names
  BY <1>4 DEF Hosted, TypeInv, StartTypes
<1>5. CASE query["domain"] # NULL /\ d \in query["domain"]
  <2>1. query["domain"] \in DomainQueries
    BY <1>5 DEF TypeInv, StartTypes
  <2>2. PICK f \in DOMAIN MysqlFiles : query["domain"] \in {MysqlFiles[f].query, MysqlFiles[f].old}
    BY <2>1 DEF DomainQueries
  <2>3. query["domain"] \in UNION {{MysqlFiles[g].query, MysqlFiles[g].old} \ {NULL} : g \in DOMAIN MysqlFiles}
    BY <1>5, <2>2
  <2> QED
    BY <1>5, <2>3 DEF Hosted
<1> QED
  BY <1>2, <1>3, <1>4, <1>5

LEMMA RelaySame ==
  ASSUME NEW u \in Workers, RelayOf(u), Same(u)
  PROVE  RelayOf(u)'
  BY DEF RelayOf, Same, LocalDomain, Authenticated

LEMMA OneLeft ==
  ASSUME NEW x
  PROVE  Head(<<x>>) = x /\ Tail(<<x>>) = <<>>
<1>1. <<x>> \in Seq({x})
  OBVIOUS
<1>2. Head(<<x>>) = x
  BY <1>1
<1>3. Tail(<<x>>) = <<>>
  BY <1>1
<1> QED
  BY <1>2, <1>3

LEMMA TwoLeft ==
  ASSUME NEW x, NEW y
  PROVE  Head(<<x, y>>) = x /\ Tail(<<x, y>>) = <<y>>
<1>1. <<x, y>> \in Seq({x, y})
  OBVIOUS
<1>2. Head(<<x, y>>) = x
  BY <1>1
<1>3. Tail(<<x, y>>) = <<y>>
  <2>1. Len(Tail(<<x, y>>)) = 1 /\ Tail(<<x, y>>) \in Seq({x, y})
    BY <1>1
  <2>2. Tail(<<x, y>>)[1] = y
    BY <1>1
  <2> QED
    BY <2>1, <2>2
<1> QED
  BY <1>2, <1>3

\* A lookup on behalf of the whitelist.
LEMMA RelayLookUp ==
  ASSUME TypeInv, NEW w \in Workers, RelayOf(w), LookUp(w)
  PROVE  RelayOf(w)'
<1>1. LookedUp(w) /\ UNCHANGED <<pc, req, state>>
  BY LookUpStep DEF work
<1> DEFINE domain == LocalDomain(req[w].recipient)
           hosted == DomainOf(req[w].recipient) \in Hosted
<1>2. ASSUME pc[w] = "okrow"
      PROVE  asking'[w] \in {<<>>, domain} /\ (found'[w] = TRUE => hosted)
  <2>1. asking[w] \in {<<>>, domain} /\ (found[w] = TRUE => hosted)
    BY <1>2 DEF RelayOf
  <2>2. Asking(w) => /\ Current(w) = Lookup("domain", DomainOf(req[w].recipient))
                     /\ Tail(asking[w]) = <<>>
    BY <2>1, OneLeft DEF Asking, Current, LocalDomain
  <2>3. CASE asking'[w] = asking[w] /\ found'[w] = found[w]
    BY <2>1, <2>3
  <2>4. CASE Asking(w) /\ FoundLocal(w, Current(w)) /\ asking'[w] = <<>> /\ found'[w] = TRUE
    BY <2>2, <2>4, FoundIsHosted
  <2>5. CASE Asking(w) /\ asking'[w] = Tail(asking[w]) /\ found'[w] = found[w]
    BY <2>1, <2>2, <2>5
  <2> QED
    BY <1>1, <2>3, <2>4, <2>5 DEF LookedUp
<1> QED
  BY <1>1, <1>2 DEF RelayOf

LEMMA RelayHandler ==
  ASSUME BaseInv, DefaultState # "ok", NEW w \in Workers, RelayOf(w), Handler(w)
  PROVE  RelayOf(w)'
<1>1. Outcome(w) /\ req' = req
  BY HandlerStep DEF others
<1>2. found[w] \in BOOLEAN
  BY DEF BaseInv, TypeInv, WorkTypes
<1>3. MayAccept(w) /\ pc[w] = "okrow" => \/ Authenticated(req[w])
                                         \/ DomainOf(req[w].recipient) \in Hosted
  BY <1>2 DEF MayAccept, RelayOf
<1>4. state'[w] = "ok" => \/ Authenticated(req[w])
                          \/ DomainOf(req[w].recipient) \in Hosted
  BY <1>1, <1>3 DEF Outcome, RelayOf
<1>5. pc'[w] # "idle"
  BY <1>1 DEF Outcome
<1>6. pc'[w] = "okrow" => asking'[w] = LocalDomain(req[w].recipient) /\ found'[w] = FALSE
  BY <1>1 DEF Outcome
<1> QED
  BY <1>1, <1>4, <1>5, <1>6 DEF RelayOf

LEMMA RelayInvNext ==
  ASSUME DefaultState # "ok", RelayInv, [Next]_vars
  PROVE  RelayInv'
<1>1. BaseInv /\ TypeInv /\ BaseInv'
  BY BaseInvNext DEF RelayInv, BaseInv
<1>2. ASSUME NEW w \in Workers, \A u \in Workers \ {w} : Same(u), RelayOf(w)'
      PROVE  RelayInv'
  BY <1>1, <1>2, RelaySame DEF RelayInv
<1>3. ASSUME \A u \in Workers : Same(u) PROVE RelayInv'
  BY <1>1, <1>3, RelaySame DEF RelayInv
<1>4. CASE Database \/ Start
  BY <1>1, <1>3, <1>4, DatabaseTypes, StartTypesKept
<1>5. ASSUME NEW w \in Workers, Take(w) PROVE RelayInv'
  <2>1. pc[w] = "idle" /\ pc'[w] = "next" /\ state' = state
    BY <1>1, <1>5, TakeStep
  <2>2. state[w] # "ok"
    BY <2>1, PolicyAssumption DEF RelayInv, RelayOf, States
  <2> QED
    BY <1>1, <1>2, <1>5, <2>1, <2>2, TakeStep DEF RelayOf
<1>6. ASSUME NEW w \in Workers, NextHandler(w) PROVE RelayInv'
  <2>1. pc'[w] \in {"mod-bwl", "mod-slm", "observer"} /\ UNCHANGED <<req, state>>
    BY <1>1, <1>6, NextHandlerStep
  <2>2. RelayOf(w)'
    BY <2>1 DEF RelayInv, RelayOf
  <2> QED
    BY <1>1, <1>2, <1>6, <2>2, NextHandlerStep
<1>7. ASSUME NEW w \in Workers, NoHandlerLeft(w) PROVE RelayInv'
  <2>1. pc'[w] = "report" /\ req' = req /\ state'[w] \in {state[w], DefaultState}
    BY <1>1, <1>7, NoHandlerLeftStep
  <2>2. RelayOf(w)'
    BY <2>1 DEF RelayInv, RelayOf
  <2> QED
    BY <1>1, <1>2, <1>7, <2>2, NoHandlerLeftStep
<1>8. ASSUME NEW w \in Workers, SendReply(w) PROVE RelayInv'
  <2>1. pc'[w] = "idle" /\ state'[w] = NULL /\ NULL # "ok"
    BY <1>1, <1>8, SendReplyStep, PolicyAssumption DEF States
  <2>2. RelayOf(w)'
    BY <2>1 DEF RelayOf
  <2> QED
    BY <1>1, <1>2, <1>8, <2>2, SendReplyStep
<1>9. ASSUME NEW w \in Workers, LookUp(w) PROVE RelayInv'
  BY <1>1, <1>2, <1>9, LookUpStep, RelayLookUp DEF RelayInv
<1>10. ASSUME NEW w \in Workers, Handler(w) PROVE RelayInv'
  BY <1>1, <1>2, <1>10, HandlerStep, RelayHandler DEF RelayInv
<1>11. CASE UNCHANGED vars
  BY <1>3, <1>11 DEF vars, work, lookups, Same
<1> QED
  BY <1>4, <1>5, <1>6, <1>7, <1>8, <1>9, <1>10, <1>11, NextCases

(* Unless the server is told to answer ok to what no module decides, no    *)
(* rule, failure or moment of the start makes it an open relay             *)
(* (mod-bwl.c:336-378).                                                    *)
THEOREM NoRelayIsOpen ==
  ASSUME DefaultState # "ok"
  PROVE  Spec => []NoOpenRelay
<1>1. Init => RelayInv
  BY BaseInvInit, PolicyAssumption DEF Init, RelayInv, RelayOf, States
<1>2. RelayInv /\ [Next]_vars => RelayInv'
  BY RelayInvNext
<1>3. RelayInv => NoOpenRelay
  BY DEF RelayInv, RelayOf, NoOpenRelay
<1> QED
  BY <1>1, <1>2, <1>3, PTL DEF Spec

-----------------------------------------------------------------------------
(* A known sender is not rejected as unknown.                               *)

\* Of the sender's account and alias, those already asked for are not local.
AskedInVain(w) ==
    LET sender == req[w].sender
    IN  \/ asking[w] = LocalAddress(sender)
        \/ asking[w] = <<Lookup("alias", sender)>> /\ ~ SomewhereLocal("account", sender)
        \/ asking[w] = <<>> /\ \A t \in {"account", "alias"} : ~ SomewhereLocal(t, sender)

\* A request that is not early meets a server that has started; then nothing
\* changes what is local any more.
UnknownOf(w) ==
    /\ early[w] = FALSE /\ pc[w] # "idle" => main = "run"
    /\ /\ pc[w] \in Deciding /\ early[w] = FALSE /\ outages = 0 /\ found[w] = FALSE
       => AskedInVain(w)

UnknownInv == BaseInv /\ (outages = 0 => up) /\ \A w \in Workers : UnknownOf(w)

LEMMA UnknownSame ==
  ASSUME NEW u \in Workers, UnknownOf(u), Same(u), UNCHANGED <<main, configured>>,
         outages' = 0 => outages = 0
  PROVE  UnknownOf(u)'
<1>1. AskedInVain(u)' = AskedInVain(u)
  BY DEF AskedInVain, Same, configured, SomewhereLocal, LocalAddress
<1> QED
  BY <1>1 DEF UnknownOf, Same

LEMMA UnknownLookUp ==
  ASSUME UnknownInv, NEW w \in Workers, LookUp(w)
  PROVE  UnknownOf(w)'
<1>1. TypeInv /\ UnknownOf(w)
  BY DEF UnknownInv, BaseInv
<1>2. /\ LookedUp(w) /\ outages' >= outages /\ UNCHANGED <<configured, main, pc, req, early>>
  BY <1>1, LookUpStep DEF starting, work
<1> DEFINE sender == req[w].sender
<1> SUFFICES ASSUME pc[w] \in Deciding, early[w] = FALSE, outages' = 0, found'[w] = FALSE
             PROVE  AskedInVain(w)'
  BY <1>1, <1>2 DEF UnknownOf
<1>3. outages = 0 /\ outages' = outages
  BY <1>1, <1>2 DEF TypeInv, StartTypes, DatabaseTypeOK
<1>4. up
  BY <1>3 DEF UnknownInv
<1>5. \A t, a : SomewhereLocal(t, a)' = SomewhereLocal(t, a)
  BY <1>2 DEF SomewhereLocal, configured
<1>6. CASE asking'[w] = asking[w] /\ found'[w] = found[w]
  <2>1. AskedInVain(w)
    BY <1>1, <1>3, <1>6 DEF UnknownOf
  <2> QED
    BY <1>2, <1>5, <1>6, <2>1 DEF AskedInVain, LocalAddress
<1>7. CASE /\ Asking(w)
           /\ asking'[w] = Tail(asking[w]) /\ found'[w] = found[w]
           /\ ~ SomewhereLocal(Current(w).type, Current(w).item)
  <2>1. AskedInVain(w)
    BY <1>1, <1>3, <1>7 DEF UnknownOf
  <2>2. CASE asking[w] = LocalAddress(sender)
    <3>1. Current(w) = Lookup("account", sender) /\ Tail(asking[w]) = <<Lookup("alias", sender)>>
      BY <2>2, TwoLeft DEF Current, LocalAddress
    <3>2. ~ SomewhereLocal("account", sender)
      BY <1>7, <3>1 DEF Lookup
    <3> QED
      BY <1>2, <1>5, <1>7, <3>1, <3>2 DEF AskedInVain
  <2>3. CASE asking[w] = <<Lookup("alias", sender)>> /\ ~ SomewhereLocal("account", sender)
    <3>1. Current(w) = Lookup("alias", sender) /\ Tail(asking[w]) = <<>>
      BY <2>3, OneLeft DEF Current
    <3>2. ~ SomewhereLocal("alias", sender)
      BY <1>7, <3>1 DEF Lookup
    <3> QED
      BY <1>2, <1>5, <1>7, <2>3, <3>1, <3>2 DEF AskedInVain
  <2>4. asking[w] # <<>>
    BY <1>7 DEF Asking
  <2> QED
    BY <2>1, <2>2, <2>3, <2>4 DEF AskedInVain
<1>8. CASE ~ (asking'[w] = asking[w] /\ found'[w] = found[w])
  <2>1. /\ Asking(w)
        /\ asking'[w] = Tail(asking[w]) /\ found'[w] = found[w]
        /\ ~ (resolver /\ Resolves(Current(w)))
        /\ ~ (query[Current(w).type] # NULL /\ Current(w).item \in query[Current(w).type])
    BY <1>2, <1>3, <1>4, <1>8 DEF LookedUp
  <2>2. Resolves(Lookup(Current(w).type, Current(w).item)) = Resolves(Current(w))
    BY DEF Resolves, Lookup
  <2> QED
    BY <1>7, <2>1, <2>2 DEF SomewhereLocal
<1> QED
  BY <1>6, <1>8

LEMMA UnknownHandler ==
  ASSUME UnknownInv, NEW w \in Workers, Handler(w)
  PROVE  UnknownOf(w)'
<1>1. Outcome(w) /\ UNCHANGED <<main, early, req>>
  BY HandlerStep DEF UnknownInv, others, starting
<1>2. pc[w] # "idle"
  BY DEF Handler, Observe, Bwl, CheckStatus, RowsOver, CheckRow, OkRow, IsLocal, DenyDomain,
    DenySender, Slm, SlmRecipient, SlmSender
<1>3. pc'[w] \in Deciding => AskedInVain(w)'
  BY <1>1 DEF Outcome, AskedInVain, LocalAddress
<1> QED
  BY <1>1, <1>2, <1>3 DEF UnknownInv, UnknownOf

LEMMA UnknownInvNext == UnknownInv /\ [Next]_vars => UnknownInv'
<1> SUFFICES ASSUME UnknownInv, [Next]_vars PROVE UnknownInv'
  OBVIOUS
<1>1. BaseInv /\ TypeInv /\ BaseInv'
  BY BaseInvNext DEF UnknownInv, BaseInv
<1>2. outages \in Nat
  BY <1>1, DatabaseAssumption DEF TypeInv, StartTypes, DatabaseTypeOK
<1>3. ASSUME NEW w \in Workers, \A u \in Workers \ {w} : Same(u), UnknownOf(w)',
             UNCHANGED <<main, configured, up>>, outages' \in Nat, outages' >= outages
      PROVE  UnknownInv'
  <2>1. outages' = 0 => outages = 0
    BY <1>2, <1>3
  <2> QED
    BY <1>1, <1>3, <2>1, UnknownSame DEF UnknownInv
<1>4. CASE Database
  <2>1. /\ outages' = 0 => outages = 0 /\ up'
        /\ UNCHANGED <<main, configured>>
    BY <1>2, <1>4 DEF Database, DatabaseStops, DatabaseReturns, starting
  <2>2. \A u \in Workers : UnknownOf(u)'
    BY <1>1, <1>4, <2>1, DatabaseTypes, UnknownSame DEF UnknownInv
  <2> QED
    BY <1>1, <2>1, <2>2 DEF UnknownInv
<1>5. CASE Start
  <2>1. main # "run"
    BY <1>5 DEF Start, InitModule, EnsureStep, TableEnsured, RegisterHandlers, DetectLine, LoadNames
  <2>2. \A u \in Workers : UnknownOf(u)'
    BY <1>1, <1>5, <2>1, StartTypesKept DEF UnknownInv, UnknownOf, Same, Deciding
  <2>3. UNCHANGED <<up, outages>>
    BY <1>5 DEF Start, InitModule, EnsureStep, EnsureTable, TableExists, CreateTable, AttrExists,
      AddColumn, TableEnsured, RegisterHandlers, DetectLine, LoadNames, database, server
  <2> QED
    BY <1>1, <2>2, <2>3 DEF UnknownInv
<1>6. ASSUME NEW w \in Workers, Take(w) PROVE UnknownInv'
  <2>1. /\ pc'[w] = "next" /\ early'[w] = (main # "run")
        /\ UNCHANGED <<main, configured, up, outages>>
    BY <1>1, <1>6, TakeStep DEF starting, database, server
  <2>2. UnknownOf(w)'
    BY <2>1 DEF UnknownOf, Deciding
  <2> QED
    BY <1>1, <1>2, <1>3, <1>6, <2>1, <2>2, TakeStep
<1>7. ASSUME NEW w \in Workers, NextHandler(w) PROVE UnknownInv'
  <2>1. /\ pc[w] = "next" /\ pc'[w] \in {"mod-bwl", "mod-slm", "observer"}
        /\ UNCHANGED <<early, main, configured, up, outages>>
    BY <1>1, <1>7, NextHandlerStep DEF starting, database, server
  <2>2. UnknownOf(w)'
    BY <2>1 DEF UnknownInv, UnknownOf, Deciding
  <2> QED
    BY <1>1, <1>2, <1>3, <1>7, <2>1, <2>2, NextHandlerStep
<1>8. ASSUME NEW w \in Workers, NoHandlerLeft(w) PROVE UnknownInv'
  <2>1. /\ pc[w] = "next" /\ pc'[w] = "report"
        /\ UNCHANGED <<early, main, configured, up, outages>>
    BY <1>1, <1>8, NoHandlerLeftStep DEF starting, database, server
  <2>2. UnknownOf(w)'
    BY <2>1 DEF UnknownInv, UnknownOf, Deciding
  <2> QED
    BY <1>1, <1>2, <1>3, <1>8, <2>1, <2>2, NoHandlerLeftStep
<1>9. ASSUME NEW w \in Workers, SendReply(w) PROVE UnknownInv'
  <2>1. pc'[w] = "idle" /\ UNCHANGED <<main, configured, up, outages>>
    BY <1>1, <1>9, SendReplyStep DEF starting, database, server
  <2>2. UnknownOf(w)'
    BY <2>1 DEF UnknownOf, Deciding
  <2> QED
    BY <1>1, <1>2, <1>3, <1>9, <2>1, <2>2, SendReplyStep
<1>10. ASSUME NEW w \in Workers, LookUp(w) PROVE UnknownInv'
  <2>1. UNCHANGED <<main, configured, up>> /\ outages' >= outages
    BY <1>1, <1>10, LookUpStep DEF starting
  <2>2. outages' \in Nat
    BY <1>1, DatabaseAssumption DEF BaseInv, TypeInv, StartTypes, DatabaseTypeOK
  <2> QED
    BY <1>1, <1>3, <1>10, <2>1, <2>2, LookUpStep, UnknownLookUp
<1>11. ASSUME NEW w \in Workers, Handler(w) PROVE UnknownInv'
  <2>1. UNCHANGED <<main, configured, up, outages>>
    BY <1>1, <1>11, HandlerStep DEF others, starting, database, server
  <2> QED
    BY <1>1, <1>2, <1>3, <1>11, <2>1, HandlerStep, UnknownHandler
<1>12. CASE UNCHANGED vars
  <2>1. UNCHANGED <<main, configured, up, outages>> /\ \A u \in Workers : Same(u)
    BY <1>12 DEF vars, starting, database, server, work, lookups, Same
  <2> QED
    BY <1>1, <2>1, UnknownSame DEF UnknownInv
<1> QED
  BY <1>4, <1>5, <1>6, <1>7, <1>8, <1>9, <1>10, <1>11, <1>12, NextCases

\* Who rejects an unknown sender has asked for both its account and its alias.
LEMMA RejectionIsEarned ==
  ASSUME UnknownInv, [Next]_vars, NEW w \in Workers,
         pc[w] \in {"denysender", "sender"}, pc'[w] = "report", ~ early[w], outages = 0
  PROVE  \A t \in {"account", "alias"} : ~ SomewhereLocal(t, req[w].sender)
<1>1. BaseInv /\ TypeInv /\ UnknownOf(w) /\ early[w] = FALSE
  BY DEF UnknownInv, BaseInv, TypeInv, WorkTypes
<1>2. pc'[w] # pc[w] /\ pc[w] \in Deciding
  BY DEF Deciding
<1>3. PICK u \in Workers : \/ Take(u) \/ NextHandler(u) \/ NoHandlerLeft(u)
                           \/ LookUp(u) \/ SendReply(u) \/ Handler(u)
  BY <1>1, <1>2, NextCases, DatabaseTypes, StartTypesKept DEF Same, vars, work
<1>4. Handler(w)
  <2>1. u = w
    BY <1>1, <1>2, <1>3, TakeStep, NextHandlerStep, NoHandlerLeftStep, LookUpStep, SendReplyStep,
      HandlerStep DEF Same
  <2>2. ~ (Take(w) \/ NextHandler(w) \/ NoHandlerLeft(w) \/ SendReply(w))
    BY <1>2 DEF Take, NextHandler, NoHandlerLeft, SendReply, Deciding
  <2>3. ~ LookUp(w)
    BY <1>2 DEF LookUp, work
  <2> QED
    BY <1>3, <2>1, <2>2, <2>3
<1>5. found[w] = FALSE /\ asking[w] = <<>>
  BY <1>1, <1>2, <1>4, HandlerStep DEF Outcome, Asking
<1>6. AskedInVain(w) /\ LocalAddress(req[w].sender) # <<>>
  BY <1>1, <1>2, <1>5 DEF UnknownOf, LocalAddress
<1> QED
  BY <1>5, <1>6 DEF AskedInVain

(* Once the start is over and as long as no database has failed, a sender  *)
(* rejected as unknown is neither an account nor an alias of any source    *)
(* (mod-bwl.c:553-574, mod-slm.c:186-206).                                 *)
THEOREM KnownSendersPass == Spec => OnlyUnknownRejected
<1>1. Init => UnknownInv
  BY BaseInvInit DEF Init, DatabaseInit, UnknownInv, UnknownOf, Deciding
<1>2. UnknownInv /\ [Next]_vars => UnknownInv'
  BY UnknownInvNext
<1>3. UnknownInv /\ [Next]_vars =>
        [\A w \in Workers :
            /\ pc[w] \in {"denysender", "sender"} /\ pc'[w] = "report"
            /\ ~ early[w] /\ outages = 0
            => \A t \in {"account", "alias"} : ~ SomewhereLocal(t, req[w].sender)]_vars
  BY RejectionIsEarned
<1> QED
  BY <1>1, <1>2, <1>3, PTL DEF Spec, OnlyUnknownRejected

-----------------------------------------------------------------------------
(* The order of the rows.                                                   *)

\* Each rule has a status that mod-bwl knows (mod-bwl.c:83, 368-420).
StatusesKnown ==
    \A l \in 1..3 : \A i \in DOMAIN Rules[Levels[l]] :
        Rules[Levels[l]][i].status \in {"ok"} \cup DOMAIN Verdict

OnlyOks(w) ==
    \A i \in Ahead(w) : cursor[w].rows[i].status = "ok" /\ ~ Authenticated(req[w])

\* What is ahead of the cursor has been passed over; who weighs an ok is at it.
RowsOf(w) ==
    /\ pc[w] \notin Reading => Fresh(cursor[w])
    /\ pc[w] \in Reading => OnlyOks(w)
    /\ pc[w] = "okrow" => Applies(w) /\ Row(w).status = "ok"

RowsInv == BaseInv /\ \A w \in Workers : RowsOf(w)

LEMMA RowStatus ==
  ASSUME StatusesKnown, NEW rows \in AllRows, NEW i \in DOMAIN rows
  PROVE  rows[i].status \in {"ok"} \cup DOMAIN Verdict
<1>1. rows # <<>>
  OBVIOUS
<1>2. PICK l \in 1..3, r \in AllRequests \cup {NULL} : rows = Result(l, r)
  BY <1>1 DEF AllRows
<1>3. i \in DOMAIN Rules[Levels[l]] /\ rows[i] = Cells(l, Rules[Levels[l]][i], r)
  BY <1>2 DEF Result
<1>4. Cells(l, Rules[Levels[l]][i], r).status = Rules[Levels[l]][i].status
  BY DEF Cells
<1> QED
  BY <1>3, <1>4 DEF StatusesKnown

LEMMA SameAhead ==
  ASSUME NEW w \in Workers, cursor'[w] = cursor[w], req'[w] = req[w]
  PROVE  OnlyOks(w)' = OnlyOks(w) /\ Applies(w)' = Applies(w)
<1>1. Row(w)' = Row(w)
  BY SameRow
<1> QED
  BY <1>1 DEF OnlyOks, Ahead, Applies

LEMMA RowsSame ==
  ASSUME NEW u \in Workers, RowsOf(u), Same(u)
  PROVE  RowsOf(u)'
  BY SameAhead, SameRow DEF RowsOf, Same

\* A row the worker goes on from, whoever it was for.
LEMMA AheadOfNext ==
  ASSUME TypeInv, StatusesKnown, NEW w \in Workers, OnlyOks(w), PassedOver(w),
         pc[w] = "okrow" => Applies(w) /\ Row(w).status = "ok",
         req' = req
  PROVE  OnlyOks(w)'
<1> DEFINE p == Position(w)
           rows == cursor[w].rows
<1>1. /\ cursor[w] \in Cursors /\ rows \in AllRows
      /\ DOMAIN rows \subseteq Nat /\ cursor[w].row \in Nat
  <2>1. cursor[w] \in Cursors
    BY DEF TypeInv, WorkTypes
  <2>2. cursor[w].rows \in AllRows /\ cursor[w].row \in Nat
    BY <2>1 DEF Cursors
  <2> QED
    BY <2>1, <2>2, RowsAreNumbered
<1>2. /\ p \in DOMAIN rows /\ p \in Nat /\ p >= cursor[w].row
      /\ \A j \in DOMAIN rows : j >= cursor[w].row => p <= j
  BY PositionIsLeast DEF PassedOver
<1>3. /\ cursor'[w].rows = rows /\ cursor'[w].pass = cursor[w].pass
      /\ cursor'[w].row = p + 1
  BY <1>1 DEF PassedOver, Cursors
<1>4. SUFFICES ASSUME NEW i \in DOMAIN rows, i \in Ahead(w)'
               PROVE  rows[i].status = "ok" /\ ~ Authenticated(req[w])
  BY <1>3 DEF OnlyOks, Ahead
<1>5. /\ ForUser(rows[i], req[w]) /\ Matches(rows[i], req[w])
      /\ IF cursor[w].pass = "specific" THEN Specific(rows[i]) /\ i < p + 1
                                        ELSE Specific(rows[i]) \/ i < p + 1
  BY <1>3, <1>4 DEF Ahead
<1>6. CASE i \in Ahead(w)
  BY <1>6 DEF OnlyOks
<1>7. CASE i \notin Ahead(w)
  <2>1. i < p + 1 /\ ~ (i < cursor[w].row) /\ (cursor[w].pass = "specific" => Specific(rows[i]))
    BY <1>5, <1>7 DEF Ahead
  <2>2. i = p
    BY <1>1, <1>2, <2>1
  <2>3. Applies(w)
    BY <1>5, <2>1, <2>2 DEF Applies, Row
  <2>4. Row(w).status \in {"ok"} \cup DOMAIN Verdict
    BY <1>1, <1>2, RowStatus DEF Row
  <2>5. pc[w] = "okrow" /\ ~ MayAccept(w)
    BY <2>3, <2>4 DEF PassedOver
  <2> QED
    BY <2>2, <2>5 DEF MayAccept, Row
<1> QED
  BY <1>6, <1>7

LEMMA AheadOfSecondPass ==
  ASSUME TypeInv, NEW w \in Workers, OnlyOks(w), SecondPass(w), req' = req
  PROVE  OnlyOks(w)'
<1> DEFINE rows == cursor[w].rows
<1>1. /\ cursor[w] \in Cursors /\ DOMAIN rows \subseteq Nat \ {0} /\ cursor[w].row \in Nat
  <2>1. cursor[w] \in Cursors
    BY DEF TypeInv, WorkTypes
  <2>2. cursor[w].rows \in AllRows /\ cursor[w].row \in Nat
    BY <2>1 DEF Cursors
  <2> QED
    BY <2>1, <2>2, RowsAreNumbered
<1>2. cursor'[w].rows = rows /\ cursor'[w].pass = "generic" /\ cursor'[w].row = 1
  BY <1>1 DEF SecondPass, Cursors
<1>3. SUFFICES ASSUME NEW i \in DOMAIN rows, i \in Ahead(w)'
               PROVE  rows[i].status = "ok" /\ ~ Authenticated(req[w])
  BY <1>2 DEF OnlyOks, Ahead
<1>4. /\ ForUser(rows[i], req[w]) /\ Matches(rows[i], req[w])
      /\ Specific(rows[i]) \/ i < 1
  BY <1>2, <1>3 DEF Ahead
<1>5. i < cursor[w].row
  BY <1>1 DEF SecondPass, Exhausted, ToCome
<1>6. i \in Ahead(w)
  BY <1>1, <1>4, <1>5 DEF Ahead, SecondPass
<1> QED
  BY <1>6 DEF OnlyOks

LEMMA AheadOfFirst ==
  ASSUME TypeInv, NEW w \in Workers, Fresh(cursor[w]), FirstRow(w), cursor' \in [Workers -> Cursors]
  PROVE  OnlyOks(w)'
<1>1. cursor'[w].pass = "specific" /\ cursor'[w].row = 1
  <2>1. cursor[w] \in Cursors
    BY DEF TypeInv, WorkTypes
  <2> QED
    BY <2>1 DEF FirstRow, Fresh, Cursors
<1>2. DOMAIN cursor'[w].rows \subseteq Nat \ {0}
  <2>1. cursor'[w].rows \in AllRows
    BY DEF Cursors
  <2> QED
    BY <2>1, RowsAreNumbered
<1>3. Ahead(w)' = {}
  BY <1>1, <1>2 DEF Ahead
<1> QED
  BY <1>3 DEF OnlyOks

LEMMA RowsHandler ==
  ASSUME StatusesKnown, RowsInv, NEW w \in Workers, Handler(w)
  PROVE  RowsOf(w)'
<1>1. /\ BaseInv /\ TypeInv /\ RowsOf(w) /\ Outcome(w) /\ req' = req /\ TypeInv'
      /\ cursor' \in [Workers -> Cursors]
  BY HandlerStep DEF RowsInv, BaseInv, others, TypeInv, WorkTypes
<1>2. ASSUME pc'[w] \notin Reading PROVE Fresh(cursor'[w])
  BY <1>1, <1>2 DEF Outcome, RowsOf
<1>3. ASSUME pc'[w] = "okrow" PROVE OnlyOks(w)' /\ Applies(w)' /\ Row(w)'.status = "ok"
  <2>1. /\ pc[w] \in Reading /\ cursor'[w] = cursor[w] /\ req'[w] = req[w]
        /\ Applies(w) /\ Row(w).status = "ok"
    BY <1>1, <1>3 DEF Outcome, Reading
  <2> QED
    BY <1>1, <2>1, SameAhead, SameRow DEF RowsOf
<1>4. ASSUME pc'[w] = "rows" PROVE OnlyOks(w)'
  <2>1. CASE FirstRow(w)
    BY <1>1, <2>1, AheadOfFirst DEF RowsOf, FirstRow, Reading
  <2>2. CASE SecondPass(w)
    BY <1>1, <2>2, AheadOfSecondPass DEF RowsOf, SecondPass, Reading
  <2>3. CASE PassedOver(w)
    BY <1>1, <2>3, AheadOfNext DEF RowsOf, PassedOver, Reading
  <2> QED
    BY <1>1, <1>4, <2>1, <2>2, <2>3 DEF Outcome
<1> QED
  BY <1>2, <1>3, <1>4 DEF RowsOf, Reading

LEMMA RowsInvNext ==
  ASSUME StatusesKnown, RowsInv, [Next]_vars
  PROVE  RowsInv'
<1>1. BaseInv /\ TypeInv /\ BaseInv'
  BY BaseInvNext DEF RowsInv, BaseInv
<1>2. ASSUME NEW w \in Workers, \A u \in Workers \ {w} : Same(u), RowsOf(w)'
      PROVE  RowsInv'
  BY <1>1, <1>2, RowsSame DEF RowsInv
<1>3. ASSUME \A u \in Workers : Same(u) PROVE RowsInv'
  BY <1>1, <1>3, RowsSame DEF RowsInv
<1>4. ASSUME NEW w \in Workers, \A u \in Workers \ {w} : Same(u),
             pc[w] \notin Reading, pc'[w] \notin Reading, cursor' = cursor
      PROVE  RowsInv'
  BY <1>2, <1>4 DEF RowsInv, RowsOf, Reading
<1>5. CASE Database \/ Start
  BY <1>1, <1>3, <1>5, DatabaseTypes, StartTypesKept
<1>6. ASSUME NEW w \in Workers, Take(w) PROVE RowsInv'
  BY <1>1, <1>4, <1>6, TakeStep DEF Reading
<1>7. ASSUME NEW w \in Workers, NextHandler(w) PROVE RowsInv'
  BY <1>1, <1>4, <1>7, NextHandlerStep DEF Reading
<1>8. ASSUME NEW w \in Workers, NoHandlerLeft(w) PROVE RowsInv'
  BY <1>1, <1>4, <1>8, NoHandlerLeftStep DEF Reading
<1>9. ASSUME NEW w \in Workers, SendReply(w) PROVE RowsInv'
  BY <1>1, <1>4, <1>9, SendReplyStep DEF Reading
<1>10. ASSUME NEW w \in Workers, LookUp(w) PROVE RowsInv'
  <2>1. UNCHANGED <<pc, cursor, req>>
    BY <1>1, <1>10, LookUpStep DEF work
  <2>2. RowsOf(w)'
    BY <2>1, SameAhead, SameRow DEF RowsInv, RowsOf
  <2> QED
    BY <1>1, <1>2, <1>10, <2>2, LookUpStep
<1>11. ASSUME NEW w \in Workers, Handler(w) PROVE RowsInv'
  BY <1>1, <1>2, <1>11, HandlerStep, RowsHandler
<1>12. CASE UNCHANGED vars
  BY <1>3, <1>12 DEF vars, work, lookups, Same
<1> QED
  BY <1>5, <1>6, <1>7, <1>8, <1>9, <1>10, <1>11, <1>12, NextCases

(* With rules of known statuses, a level answers, or leaves the request to *)
(* the next, only when every row that applies and comes first, the         *)
(* specific ones before the general ones, is a whitelist the sender may    *)
(* not use (mod-bwl.c:461-497).                                            *)
THEOREM RowsAreInOrder ==
  ASSUME StatusesKnown
  PROVE  Spec => RowsInOrder
<1>1. Init => RowsInv
  BY BaseInvInit DEF Init, RowsInv, RowsOf, Reading, Closed, Fresh
<1>2. RowsInv /\ [Next]_vars => RowsInv'
  BY RowsInvNext
<1>3. RowsInv /\ [Next]_vars =>
        [\A w \in Workers :
            pc[w] \in {"rows", "okrow"} /\ pc'[w] \notin {"rows", "okrow"} =>
                \A i \in Ahead(w) :
                    cursor[w].rows[i].status = "ok" /\ ~ Authenticated(req[w])]_vars
  BY DEF RowsInv, RowsOf, Reading, OnlyOks
<1> QED
  BY <1>1, <1>2, <1>3, PTL DEF Spec, RowsInOrder

-----------------------------------------------------------------------------
(* Tables are made whole.                                                   *)

Whole(t) == ToSet(Columns[t]) \subseteq cols[t]

\* The columns before the one at hand are there; when a table is done, all are.
ColumnsBefore ==
    /\ \A i \in 1..(column - 1) : Columns[table][i] \in cols[table]
    /\ ensure \in {"exists", "create"} => column = 1
    /\ main = "ensure" /\ ensure = "done" => Whole(table)

\* Of a module that insists, the tables it is past are whole.
TablesPast ==
    main = "ensure" /\ ThisModule \notin Tolerant =>
        \A t \in ToSet(ModTables[ThisModule]) : t = table \/ t \in ToSet(todo[2]) \/ Whole(t)

TablesInv == BaseInv /\ ColumnsBefore /\ TablesPast /\ TablesComplete

LEMMA HeadOrTail ==
  ASSUME NEW S, NEW s \in Seq(S), s # <<>>
  PROVE  \A t \in ToSet(s) : t = Head(s) \/ t \in ToSet(Tail(s))
<1>1. Len(Tail(s)) = Len(s) - 1 /\ Tail(s) \in Seq(S) /\ Head(s) = s[1]
  OBVIOUS
<1>2. ASSUME NEW i \in 1..Len(s), i # 1 PROVE s[i] \in ToSet(Tail(s))
  <2>1. i - 1 \in 1..Len(Tail(s)) /\ Tail(s)[i - 1] = s[i]
    BY <1>1, <1>2
  <2>2. DOMAIN Tail(s) = 1..Len(Tail(s))
    BY <1>1
  <2> QED
    BY <2>1, <2>2 DEF ToSet
<1>3. ASSUME NEW t \in ToSet(s) PROVE \E i \in 1..Len(s) : t = s[i]
  BY DEF ToSet
<1> QED
  BY <1>1, <1>2, <1>3

\* No query takes a column away.
LEMMA ColumnsStay ==
  ASSUME DatabaseTypeOK, EnsureTable
  PROVE  /\ \A t \in Tables : cols[t] \subseteq cols'[t]
         /\ table' = table
<1>1. CASE TableExists
  BY <1>1 DEF TableExists
<1>2. CASE CreateTable
  BY <1>2 DEF CreateTable, DatabaseTypeOK
<1>3. CASE AttrExists
  BY <1>3 DEF AttrExists, NextColumn
<1>4. CASE AddColumn
  <2>1. table' = table
    BY <1>4 DEF AddColumn, NextColumn
  <2>2. cols' = cols \/ cols' = [cols EXCEPT ![table] = @ \cup {Column}]
    BY <1>4 DEF AddColumn
  <2> QED
    BY <2>1, <2>2 DEF DatabaseTypeOK
<1> QED
  BY <1>1, <1>2, <1>3, <1>4 DEF EnsureTable

\* The column at hand is there, and so are those before it.
LEMMA NextColumnKeeps ==
  ASSUME DatabaseTypeOK, NextColumn, Column \in cols'[table],
         \A i \in 1..(column - 1) : Columns[table][i] \in cols'[table]
  PROVE  /\ \A i \in 1..(column' - 1) : Columns[table'][i] \in cols'[table']
         /\ ensure' \notin {"exists", "create"}
         /\ ensure' = "done" => Whole(table)'
<1>1. /\ Len(Columns[table]) \in Nat /\ column \in 1..Len(Columns[table])
      /\ DOMAIN Columns[table] = 1..Len(Columns[table])
  BY DatabaseAssumption DEF DatabaseTypeOK
<1>2. \A i \in 1..column : Columns[table][i] \in cols'[table]
  BY <1>1 DEF Column
<1>3. CASE column < Len(Columns[table])
  BY <1>1, <1>2, <1>3 DEF NextColumn
<1>4. CASE ~ (column < Len(Columns[table]))
  <2>1. column = Len(Columns[table]) /\ ensure' = "done" /\ UNCHANGED <<table, column>>
    BY <1>1, <1>4 DEF NextColumn
  <2>2. ToSet(Columns[table]) \subseteq cols'[table]
    BY <1>1, <1>2, <2>1 DEF ToSet
  <2>3. \A i \in 1..(column' - 1) : Columns[table'][i] \in cols'[table']
    BY <2>1
  <2>4. Whole(table)'
    <3>1. Whole(table)' = (ToSet(Columns[table']) \subseteq cols'[table'])
      BY DEF Whole
    <3> QED
      BY <2>1, <2>2, <3>1
  <2> QED
    BY <2>1, <2>3, <2>4
<1> QED
  BY <1>3, <1>4

LEMMA EnsureStepColumns ==
  ASSUME TypeInv, ColumnsBefore, EnsureStep
  PROVE  ColumnsBefore'
<1>1. /\ DatabaseTypeOK /\ table' = table /\ main' = main
      /\ \A t \in Tables : cols[t] \subseteq cols'[t]
  BY ColumnsStay DEF TypeInv, StartTypes, EnsureStep, starting
<1>2. /\ table \in Tables
      /\ \A i \in 1..(column - 1) : Columns[table][i] \in cols'[table]
  BY <1>1 DEF DatabaseTypeOK, ColumnsBefore
<1>3. CASE TableExists
  BY <1>1, <1>2, <1>3 DEF TableExists, ColumnsBefore
<1>4. CASE CreateTable
  BY <1>1, <1>2, <1>4 DEF CreateTable, ColumnsBefore
<1>5. CASE AttrExists
  <2>1. CASE Column \in cols[table] /\ NextColumn
    <3>1. Column \in cols'[table]
      BY <1>1, <1>2, <2>1
    <3>2. /\ \A i \in 1..(column' - 1) : Columns[table'][i] \in cols'[table']
          /\ ensure' \notin {"exists", "create"}
          /\ ensure' = "done" => Whole(table)'
      BY <1>1, <1>2, <2>1, <3>1, NextColumnKeeps
    <3> QED
      BY <1>1, <3>2 DEF ColumnsBefore, Whole
  <2>2. CASE ensure' = "alter" /\ UNCHANGED <<table, column>>
    BY <1>1, <1>2, <2>2 DEF ColumnsBefore
  <2> QED
    BY <1>5, <2>1, <2>2 DEF AttrExists
<1>6. CASE AddColumn
  <2>1. CASE cols' = [cols EXCEPT ![table] = @ \cup {Column}] /\ NextColumn
    <3>1. Column \in cols'[table]
      BY <1>1, <1>2, <2>1 DEF DatabaseTypeOK
    <3>2. /\ \A i \in 1..(column' - 1) : Columns[table'][i] \in cols'[table']
          /\ ensure' \notin {"exists", "create"}
          /\ ensure' = "done" => Whole(table)'
      BY <1>1, <1>2, <2>1, <3>1, NextColumnKeeps
    <3> QED
      BY <1>1, <3>2 DEF ColumnsBefore, Whole
  <2>2. CASE ensure' = "failed" /\ UNCHANGED <<cols, table, column>>
    BY <1>1, <1>2, <2>2 DEF ColumnsBefore
  <2> QED
    BY <1>6, <2>1, <2>2 DEF AddColumn
<1> QED
  BY <1>3, <1>4, <1>5, <1>6 DEF EnsureStep, EnsureTable

\* A module goes on to a table.
LEMMA EnsureColumns ==
  ASSUME NEW t, Ensure(t)
  PROVE  ColumnsBefore'
  BY DEF Ensure, ColumnsBefore

\* What neither makes nor needs a table.
LEMMA TablesUntouched ==
  ASSUME TablesInv, BaseInv', UNCHANGED <<cols, ensuring, todo, loaded>>,
         main' = main \/ main' # "ensure"
  PROVE  TablesInv'
  BY DEF TablesInv, ColumnsBefore, TablesPast, TablesComplete, Whole, ThisModule, ensuring

LEMMA InitModuleTables ==
  ASSUME TablesInv, BaseInv', InitModule
  PROVE  TablesInv'
<1>1. TypeInv /\ main = "init" /\ cols' = cols
  BY DEF TablesInv, BaseInv, InitModule
<1>2. ModTables[ThisModule] \in Seq(Tables)
  BY <1>1, PolicyAssumption DEF TypeInv, StartTypes, InitModule, ThisModule
<1>3. CASE ModTables[ThisModule] = <<>>
  <2>1. loaded' = loaded \cup {ThisModule} /\ UNCHANGED <<main, ensuring>>
    BY <1>3 DEF InitModule
  <2>2. ToSet(ModTables[ThisModule]) = {}
    BY <1>3 DEF ToSet
  <2>3. TablesComplete'
    BY <1>1, <2>1, <2>2 DEF TablesInv, TablesComplete
  <2> QED
    BY <1>1, <2>1, <2>3 DEF TablesInv, ColumnsBefore, TablesPast, Whole, ensuring
<1>4. CASE ModTables[ThisModule] # <<>>
  <2> DEFINE tables == ModTables[ThisModule]
  <2>1. /\ Ensure(Head(tables)) /\ todo' = <<todo[1], Tail(tables)>> /\ loaded' = loaded
    BY <1>4 DEF InitModule
  <2>2. \A t \in ToSet(tables) : t = Head(tables) \/ t \in ToSet(Tail(tables))
    BY <1>2, <1>4, HeadOrTail
  <2>3. ThisModule' = ThisModule /\ table' = Head(tables) /\ todo'[2] = Tail(tables)
    BY <2>1 DEF ThisModule, Ensure
  <2>4. TablesPast'
    BY <2>2, <2>3 DEF TablesPast
  <2>5. TablesComplete'
    BY <1>1, <2>1 DEF TablesInv, TablesComplete
  <2> QED
    BY <2>1, <2>4, <2>5, EnsureColumns DEF TablesInv
<1> QED
  BY <1>3, <1>4

LEMMA EnsureStepTables ==
  ASSUME TablesInv, BaseInv', EnsureStep
  PROVE  TablesInv'
<1>1. TypeInv /\ DatabaseTypeOK /\ UNCHANGED <<main, loaded, todo>>
  BY DEF TablesInv, BaseInv, TypeInv, StartTypes, EnsureStep, starting
<1>2. table' = table /\ \A t \in Tables : cols[t] \subseteq cols'[t]
  BY <1>1, ColumnsStay DEF EnsureStep
<1>3. \A t \in Tables : Whole(t) => Whole(t)'
  BY <1>2 DEF Whole
<1>4. ColumnsBefore'
  BY <1>1, EnsureStepColumns DEF TablesInv
<1>5. \A m \in ToSet(Modules) : ToSet(ModTables[m]) \subseteq Tables
  BY PolicyAssumption DEF ToSet
<1>6. TablesPast'
  <2>1. main = "ensure" => ThisModule \in ToSet(Modules)
    BY <1>1 DEF TypeInv, StartTypes, ThisModule
  <2> QED
    BY <1>1, <1>2, <1>3, <1>5, <2>1 DEF TablesInv, TablesPast, ThisModule
<1>7. TablesComplete'
  BY <1>1, <1>3, <1>5 DEF TablesInv, TablesComplete, TypeInv, StartTypes, Whole
<1> QED
  BY <1>4, <1>6, <1>7 DEF TablesInv

LEMMA TableEnsuredTables ==
  ASSUME TablesInv, BaseInv', TableEnsured
  PROVE  TablesInv'
<1>1. TypeInv /\ cols' = cols /\ main = "ensure" /\ ensure \in {"done", "failed"}
  BY DEF TablesInv, BaseInv, TableEnsured
<1>2. ensure = "done" => Whole(table)
  BY <1>1 DEF TablesInv, ColumnsBefore
<1>3. \A t : Whole(t)' = Whole(t)
  BY <1>1 DEF Whole
<1> DEFINE goesOn == ensure = "done" \/ ThisModule \in Tolerant
<1>4. CASE goesOn /\ todo[2] # <<>>
  <2>1. Ensure(Head(todo[2])) /\ todo' = <<todo[1], Tail(todo[2])>> /\ UNCHANGED <<main, loaded>>
    BY <1>4 DEF TableEnsured
  <2>2. todo[2] \in Seq(Tables)
    BY <1>1 DEF TypeInv, StartTypes
  <2>3. \A t \in ToSet(todo[2]) : t = Head(todo[2]) \/ t \in ToSet(Tail(todo[2]))
    BY <1>4, <2>2, HeadOrTail
  <2>4. ThisModule' = ThisModule /\ table' = Head(todo[2]) /\ todo'[2] = Tail(todo[2])
    BY <2>1 DEF ThisModule, Ensure
  <2>5. TablesPast'
    BY <1>1, <1>2, <1>3, <1>4, <2>1, <2>3, <2>4 DEF TablesInv, TablesPast
  <2>6. TablesComplete'
    BY <1>1, <2>1 DEF TablesInv, TablesComplete
  <2> QED
    BY <2>1, <2>5, <2>6, EnsureColumns DEF TablesInv
<1>5. CASE ~ (goesOn /\ todo[2] # <<>>)
  <2>1. /\ loaded' = (IF goesOn THEN loaded \cup {ThisModule} ELSE loaded)
        /\ main' = "init" /\ column' = 1 /\ ensure' = "done"
    BY <1>5 DEF TableEnsured
  <2>2. ASSUME goesOn, ThisModule \notin Tolerant, NEW t \in ToSet(ModTables[ThisModule])
        PROVE  Whole(t)
    <3>1. ToSet(todo[2]) = {}
      BY <1>5, <2>2 DEF ToSet
    <3> QED
      BY <1>1, <1>2, <2>2, <3>1 DEF TablesInv, TablesPast
  <2>3. TablesComplete'
    BY <1>1, <2>1, <2>2 DEF TablesInv, TablesComplete, Whole
  <2>4. ColumnsBefore' /\ TablesPast'
    BY <2>1 DEF ColumnsBefore, TablesPast
  <2> QED
    BY <2>3, <2>4 DEF TablesInv
<1> QED
  BY <1>4, <1>5

LEMMA TablesInvNext == TablesInv /\ [Next]_vars => TablesInv'
<1> SUFFICES ASSUME TablesInv, [Next]_vars PROVE TablesInv'
  OBVIOUS
<1>1. BaseInv /\ TypeInv /\ BaseInv'
  BY BaseInvNext DEF TablesInv, BaseInv
<1>2. CASE Database
  BY <1>1, <1>2, TablesUntouched DEF Database, DatabaseStops, DatabaseReturns, starting
<1>3. CASE InitModule
  BY <1>1, <1>3, InitModuleTables
<1>4. CASE EnsureStep
  BY <1>1, <1>4, EnsureStepTables
<1>5. CASE TableEnsured
  BY <1>1, <1>5, TableEnsuredTables
<1>6. CASE RegisterHandlers
  BY <1>1, <1>6, TablesUntouched DEF RegisterHandlers, database
<1>7. CASE DetectLine
  BY <1>1, <1>7, TablesUntouched DEF DetectLine, database, starting
<1>8. CASE LoadNames
  BY <1>1, <1>8, TablesUntouched DEF LoadNames, database
<1>9. ASSUME NEW w \in Workers, \/ Take(w) \/ NextHandler(w) \/ NoHandlerLeft(w)
                                \/ LookUp(w) \/ SendReply(w) \/ Handler(w)
      PROVE  TablesInv'
  <2>1. UNCHANGED <<cols, ensuring, starting>>
    BY <1>1, <1>9, TakeStep, NextHandlerStep, NoHandlerLeftStep, LookUpStep, SendReplyStep,
      HandlerStep DEF database, others
  <2> QED
    BY <1>1, <2>1, TablesUntouched DEF starting
<1>10. CASE UNCHANGED vars
  BY <1>1, <1>10, TablesUntouched DEF vars, database, starting
<1> QED
  BY <1>2, <1>3, <1>4, <1>5, <1>6, <1>7, <1>8, <1>9, <1>10, NextCases DEF Start

(* A module that insists on its table runs only with every column its      *)
(* queries name, whatever queries of its start failed                      *)
(* (valvulad_db.c:902-965, mod-slm.c:91-102).                              *)
THEOREM TablesAreComplete == Spec => []TablesComplete
<1>1. Init => TablesInv
  <2> SUFFICES ASSUME Init PROVE TablesInv
    OBVIOUS
  <2>1. column = 1 /\ ensure = "done" /\ main = "init" /\ loaded = {}
    BY DEF Init, DatabaseInit
  <2> QED
    BY <2>1, BaseInvInit DEF TablesInv, ColumnsBefore, TablesPast, TablesComplete
<1>2. TablesInv /\ [Next]_vars => TablesInv'
  BY TablesInvNext
<1>3. TablesInv => TablesComplete
  BY DEF TablesInv
<1> QED
  BY <1>1, <1>2, <1>3, PTL DEF Spec

=============================================================================
