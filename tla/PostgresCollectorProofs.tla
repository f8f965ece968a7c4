----------------------- MODULE PostgresCollectorProofs -----------------------
(***************************************************************************)
(* For any database and any constants: the schema of a payload is torn only  *)
(* where the catalog changed while its three statements ran.                 *)
(***************************************************************************)
EXTENDS PostgresCollector, Recursion, TLAPS

(* The part of TypeOK the proofs need: where the schema's statements are.    *)
Progress ==
    /\ phase \in {"connecting", "backoff", "versioning", "detecting", "failed",
                  "ready", "collecting", "delivered"}
    /\ left \in [Readers -> 0 .. 3]
    /\ phase = "delivered" => left["schema"] = 0

Payload == phase \in {"collecting", "delivered"}

(* What each statement leaves behind, as long as nothing touches the table.  *)
TablesRead ==
    Payload /\ left["schema"] <= 2 =>
        \A t \in Tables \ touched : t \in tableRows <=> t \in Readable
ColumnsRead ==
    Payload /\ left["schema"] <= 1 =>
        \A t \in Readable \ touched : ColumnsOf(t) = Columns(catalog[t])
IndexesRead ==
    Payload /\ left["schema"] = 0 =>
        \A t \in Existing \ touched : \A x \in catalog[t].indexes :
            [table |-> t, name |-> x.name, described |-> [table |-> t, index |-> x]] \in indexRows

CatalogTyped == catalog \in [Tables -> {Absent} \cup UNION {ShapesOf(t) : t \in Tables}]

SchemaInv == Progress /\ CatalogTyped /\ TablesRead /\ ColumnsRead /\ IndexesRead

-----------------------------------------------------------------------------
(* COLUMN_INFO, grouped by table, gives every readable table its columns.     *)
LEMMA GroupedColumns ==
    ASSUME NEW t \in Readable, columnRows' = ColumnInfo, catalog' = catalog
    PROVE  ColumnsOf(t)' = Columns(catalog[t])
<1> DEFINE row(i) == [table |-> t, position |-> i, name |-> catalog[t].columns[i]]
<1>1. ASSUME NEW i \in DOMAIN catalog[t].columns
      PROVE  row(i) \in ColumnInfo
      BY DEF ColumnInfo
<1>2. ASSUME NEW r \in ColumnInfo, r.table = t
      PROVE  \E i \in DOMAIN catalog[t].columns : r = row(i)
  <2>1. PICK s \in Readable :
            r \in {[table |-> s, position |-> i, name |-> catalog[s].columns[i]] :
                      i \in DOMAIN catalog[s].columns}
        BY <1>2 DEF ColumnInfo
  <2>2. PICK i \in DOMAIN catalog[s].columns :
            r = [table |-> s, position |-> i, name |-> catalog[s].columns[i]]
        BY <2>1
  <2>3. s = t
        BY <1>2, <2>2
  <2>4. QED  BY <2>2, <2>3
<1>3. ColumnsOf(t)' = {[position |-> r.position, name |-> r.name] :
                           r \in {q \in ColumnInfo : q.table = t}}
      BY DEF ColumnsOf
<1>4. ASSUME NEW c \in ColumnsOf(t)'
      PROVE  c \in Columns(catalog[t])
  <2>1. PICK r \in {q \in ColumnInfo : q.table = t} : c = [position |-> r.position, name |-> r.name]
        BY <1>3, <1>4
  <2>2. PICK i \in DOMAIN catalog[t].columns : r = row(i)
        BY <2>1, <1>2
  <2>3. r.position = i /\ r.name = catalog[t].columns[i]
        BY <2>2
  <2>4. QED  BY <2>1, <2>2, <2>3 DEF Columns
<1>5. ASSUME NEW c \in Columns(catalog[t])
      PROVE  c \in ColumnsOf(t)'
  <2>1. PICK i \in DOMAIN catalog[t].columns :
            c = [position |-> i, name |-> catalog[t].columns[i]]
        BY <1>5 DEF Columns
  <2>2. row(i).table = t /\ row(i).position = i /\ row(i).name = catalog[t].columns[i]
        OBVIOUS
  <2>3. row(i) \in {q \in ColumnInfo : q.table = t}
        BY <1>1, <2>2
  <2>4. c = [position |-> row(i).position, name |-> row(i).name]
        BY <2>1, <2>2
  <2> HIDE DEF row
  <2>5. QED  BY <1>3, <2>3, <2>4
<1>6. QED  BY <1>4, <1>5

(* INDEX_INFO has, for every index, the row that describes it by itself.      *)
LEMMA EveryIndexListed ==
    ASSUME NEW t \in Existing, NEW x \in catalog[t].indexes
    PROVE  [table |-> t, name |-> x.name, described |-> [table |-> t, index |-> x]] \in IndexInfo
<1> DEFINE entry == [table |-> t, index |-> x]
<1>1. entry \in Indexes
      BY DEF Indexes
<1>2. entry.table = t /\ entry.index = x
      OBVIOUS
<1> HIDE DEF entry
<1>3. entry \in SameName(entry)
      BY <1>1 DEF SameName
<1>4. [table |-> entry.table, name |-> entry.index.name, described |-> entry] \in IndexInfo
      BY <1>1, <1>3 DEF IndexInfo
<1>5. QED  BY <1>2, <1>4 DEF entry

-----------------------------------------------------------------------------
(* One step of the collector or of the database's other users keeps what the *)
(* statements have read.                                                     *)

LEMMA InitEstablishes == Init => SchemaInv
BY DEF Init, SchemaInv, Progress, CatalogTyped, TablesRead, ColumnsRead, IndexesRead, Payload, Readers

(* Steps that end or precede a collection.                                   *)
LEMMA OutsideCollection ==
    ASSUME SchemaInv, ~Payload', catalog' = catalog,
           phase' \in {"connecting", "backoff", "versioning", "detecting", "failed", "ready"},
           left' \in [Readers -> 0 .. 3]
    PROVE  SchemaInv'
BY DEF SchemaInv, Progress, CatalogTyped, TablesRead, ColumnsRead, IndexesRead, Payload

LEMMA CollectKeeps == SchemaInv /\ Collect => SchemaInv'
<1> SUFFICES ASSUME SchemaInv, Collect PROVE SchemaInv'
    OBVIOUS
<1>1. Len(SchemaStatements) = 3
      BY DEF SchemaStatements
<1>2. phase' = "collecting" /\ left' \in [Readers -> 0 .. 3] /\ left'["schema"] = 3
      BY <1>1 DEF Collect, Readers
<1>3. CatalogTyped'
      BY DEF Collect, databaseVars, SchemaInv, CatalogTyped
<1>4. QED  BY <1>2, <1>3 DEF SchemaInv, Progress, TablesRead, ColumnsRead, IndexesRead

(* Another reader's statement, and the delivery, leave the schema alone.      *)
LEMMA OthersKeep ==
    ASSUME SchemaInv, UNCHANGED <<schemaVars, databaseVars>>,
           Payload, Payload', left'["schema"] = left["schema"], Progress'
    PROVE  SchemaInv'
<1>1. UNCHANGED <<tableRows, columnRows, indexRows, catalog, touched>>
      BY DEF schemaVars, databaseVars
<1>2. CatalogTyped' /\ TablesRead'
      BY <1>1 DEF SchemaInv, CatalogTyped, TablesRead, Readable, Existing
<1>3. ColumnsRead'
      BY <1>1 DEF SchemaInv, ColumnsRead, Readable, Existing, ColumnsOf
<1>4. IndexesRead'
      BY <1>1 DEF SchemaInv, IndexesRead, Existing
<1>5. QED  BY <1>2, <1>3, <1>4 DEF SchemaInv

LEMMA StatsStatementKeeps ==
    ASSUME SchemaInv, NEW r \in Readers, StatsStatement(r)
    PROVE  SchemaInv'
<1>1. PICK n \in IF r = "query_stats" THEN {0, left[r] - 1} ELSE {left[r] - 1} :
          left' = [left EXCEPT ![r] = n]
      BY DEF StatsStatement
<1>2. phase = "collecting" /\ r # "schema" /\ left[r] > 0 /\ phase' = phase
      BY DEF StatsStatement
<1>3. left[r] \in 0 .. 3
      BY DEF SchemaInv, Progress
<1>4. n \in 0 .. 3
      BY <1>1, <1>2, <1>3
<1>5. Progress' /\ left'["schema"] = left["schema"]
      BY <1>1, <1>2, <1>4 DEF SchemaInv, Progress, Readers
<1>6. QED  BY <1>2, <1>5, OthersKeep DEF StatsStatement, Payload

LEMMA DeliverKeeps == SchemaInv /\ Deliver => SchemaInv'
<1> SUFFICES ASSUME SchemaInv, Deliver PROVE SchemaInv'
    OBVIOUS
<1>1. phase = "collecting" /\ phase' = "delivered" /\ left' = left /\ left["schema"] = 0
      BY DEF Deliver, Readers
<1>2. Progress'
      BY <1>1 DEF SchemaInv, Progress
<1>3. QED  BY <1>1, <1>2, OthersKeep DEF Deliver, Payload

LEMMA StatementFailsKeeps ==
    ASSUME SchemaInv, NEW r \in Readers, StatementFails(r)
    PROVE  SchemaInv'
<1>1. phase' = "ready" /\ left' = [s \in Readers |-> 0]
      BY DEF StatementFails, AfterFailure
<1>2. left' \in [Readers -> 0 .. 3]
      BY <1>1
<1>3. QED  BY <1>1, <1>2, OutsideCollection DEF StatementFails, databaseVars, Payload

(* A statement of the schema reader adds what it sees at its instant.          *)
LEMMA SchemaStatementKeeps == SchemaInv /\ SchemaStatement => SchemaInv'
<1> SUFFICES ASSUME SchemaInv, SchemaStatement PROVE SchemaInv'
    OBVIOUS
<1>0. phase = "collecting" /\ phase' = phase /\ left["schema"] \in 1 .. 3
      /\ left' = [left EXCEPT !["schema"] = left["schema"] - 1] /\ catalog' = catalog
      BY DEF SchemaStatement, SchemaInv, Progress, Readers
<1>1. left'["schema"] = left["schema"] - 1
      BY <1>0 DEF SchemaInv, Progress, Readers
<1>2. Progress' /\ CatalogTyped'
      BY <1>0, <1>1 DEF SchemaInv, Progress, CatalogTyped, Readers
<1>3. Payload /\ Readable' = Readable /\ Existing' = Existing
      BY <1>0 DEF Payload, Readable, Existing
<1>4. CASE left["schema"] = 3
  <2>1. tableRows' = TableInfo
        BY <1>4 DEF SchemaStatement, SchemaStatements
  <2>2. TablesRead'
        BY <1>3, <2>1 DEF TablesRead, TableInfo
  <2>3. ColumnsRead' /\ IndexesRead'
        BY <1>1, <1>4 DEF ColumnsRead, IndexesRead
  <2>4. QED  BY <1>2, <2>2, <2>3 DEF SchemaInv
<1>5. CASE left["schema"] = 2
  <2>1. tableRows' = tableRows /\ columnRows' = ColumnInfo /\ touched' = touched
        BY <1>5 DEF SchemaStatement, SchemaStatements
  <2>2. TablesRead'
        BY <1>3, <1>5, <2>1 DEF SchemaInv, TablesRead
  <2>3. ASSUME NEW t \in Readable
        PROVE  ColumnsOf(t)' = Columns(catalog[t])
        BY <1>0, <2>1, GroupedColumns
  <2>4. ASSUME NEW t \in Readable'
        PROVE  ColumnsOf(t)' = Columns(catalog'[t])
        BY <1>0, <1>3, <2>3
  <2>5. ColumnsRead'
        BY <2>4 DEF ColumnsRead, Columns, ColumnsOf
  <2>6. IndexesRead'
        BY <1>1, <1>5 DEF IndexesRead
  <2>7. QED  BY <1>2, <2>2, <2>5, <2>6 DEF SchemaInv
<1>6. CASE left["schema"] = 1
  <2>1. UNCHANGED <<tableRows, columnRows, touched>> /\ indexRows' = IndexInfo
        BY <1>6 DEF SchemaStatement, SchemaStatements
  <2>2. TablesRead'
        BY <1>3, <1>6, <2>1 DEF SchemaInv, TablesRead
  <2>3. ColumnsRead'
        BY <1>0, <1>3, <1>6, <2>1 DEF SchemaInv, ColumnsRead, ColumnsOf
  <2>4. IndexesRead'
        BY <1>0, <1>3, <2>1, EveryIndexListed DEF IndexesRead
  <2>5. QED  BY <1>2, <2>2, <2>3, <2>4 DEF SchemaInv
<1>7. QED  BY <1>0, <1>4, <1>5, <1>6

(* A change of the catalog takes its table out of what is promised.           *)
LEMMA DdlKeeps ==
    ASSUME SchemaInv, NEW d \in Tables, Ddl(d)
    PROVE  SchemaInv'
<1>1. PICK shape \in ShapesOf(d) \cup {Absent} : catalog' = [catalog EXCEPT ![d] = shape]
      BY DEF Ddl
<1>2. /\ touched' = touched \cup {d}
      /\ UNCHANGED <<phase, left, tableRows, columnRows, indexRows>>
      BY DEF Ddl, schemaVars
<1>3. \A t \in Tables \ touched' : t \notin touched /\ catalog'[t] = catalog[t]
      BY <1>1, <1>2 DEF SchemaInv, CatalogTyped
<1>4. \A t \in Tables \ touched' : /\ t \in Existing' <=> t \in Existing
                                   /\ t \in Readable' <=> t \in Readable
      BY <1>3 DEF Readable, Existing
<1>5. Progress'
      BY <1>2 DEF SchemaInv, Progress
<1>6. CatalogTyped'
      BY <1>1 DEF SchemaInv, CatalogTyped
<1>7. TablesRead'
      BY <1>2, <1>3, <1>4 DEF SchemaInv, TablesRead, Payload
<1>8. ASSUME Payload', left'["schema"] <= 1, NEW t \in Readable' \ touched'
      PROVE  ColumnsOf(t)' = Columns(catalog[t])'
  <2>1. t \in Tables \ touched'
        BY <1>8 DEF Readable, Existing
  <2>2. ColumnsOf(t) = Columns(catalog[t])
        BY <1>2, <1>3, <1>4, <1>8, <2>1 DEF SchemaInv, ColumnsRead, Payload
  <2>3. ColumnsOf(t)' = ColumnsOf(t)
        BY <1>2 DEF ColumnsOf
  <2>4. Columns(catalog[t])' = Columns(catalog[t])
        BY <1>3, <2>1 DEF Columns
  <2>5. QED  BY <2>2, <2>3, <2>4
<1>9. ASSUME Payload', left'["schema"] = 0, NEW t \in Existing' \ touched',
             NEW x \in catalog'[t].indexes
      PROVE  [table |-> t, name |-> x.name, described |-> [table |-> t, index |-> x]] \in indexRows'
  <2>1. t \in Tables \ touched'
        BY <1>9 DEF Existing
  <2>2. t \in Existing \ touched /\ x \in catalog[t].indexes
        BY <1>3, <1>4, <1>9, <2>1
  <2>3. QED  BY <1>2, <1>9, <2>2 DEF SchemaInv, IndexesRead, Payload
<1>10. ColumnsRead'
       BY <1>8 DEF ColumnsRead
<1>11. IndexesRead'
       BY <1>9 DEF IndexesRead
<1>12. QED  BY <1>5, <1>6, <1>7, <1>10, <1>11 DEF SchemaInv
LEMMA StepKeeps == SchemaInv /\ [Next]_vars => SchemaInv'
<1> SUFFICES ASSUME SchemaInv, [Next]_vars PROVE SchemaInv'
    OBVIOUS
<1> USE DEF SchemaInv, Progress
<1>1. CASE ConnectSucceeds
      BY <1>1, OutsideCollection DEF ConnectSucceeds, databaseVars, Payload
<1>2. CASE ConnectFails
      BY <1>2, OutsideCollection DEF ConnectFails, databaseVars, Payload
<1>3. CASE Sleep
      BY <1>3, OutsideCollection DEF Sleep, databaseVars, Payload
<1>4. CASE GetVersion
      BY <1>4, OutsideCollection DEF GetVersion, databaseVars, Payload
<1>5. ASSUME NEW configured \in Providers, NEW url \in UrlKinds, DetectProvider(configured, url)
      PROVE  SchemaInv'
  <2>1. phase' \in {"failed", "ready"} /\ UNCHANGED <<left, catalog>>
        BY <1>5 DEF DetectProvider, databaseVars
  <2>2. QED  BY <2>1, OutsideCollection DEF Payload
<1>6. CASE Collect
      BY <1>6, CollectKeeps
<1>7. ASSUME NEW r \in Readers, StatsStatement(r) \/ StatementFails(r)
      PROVE  SchemaInv'
      BY <1>7, StatsStatementKeeps, StatementFailsKeeps
<1>8. CASE SchemaStatement
      BY <1>8, SchemaStatementKeeps
<1>9. CASE Deliver
      BY <1>9, DeliverKeeps
<1>10. ASSUME NEW t \in Tables, Ddl(t)
       PROVE  SchemaInv'
       BY <1>10, DdlKeeps
<1>11. CASE UNCHANGED vars
  <2>1. UNCHANGED <<phase, left, tableRows, columnRows, indexRows, catalog, touched>>
        BY <1>11 DEF vars, schemaVars, databaseVars
  <2>2. QED  BY <2>1 DEF CatalogTyped, TablesRead, ColumnsRead, IndexesRead, Payload,
                         Readable, Existing, ColumnsOf, Columns
<1>12. QED  BY <1>1, <1>2, <1>3, <1>4, <1>5, <1>6, <1>7, <1>8, <1>9, <1>10, <1>11 DEF Next

LEMMA SchemaInvHolds == Spec => []SchemaInv
BY InitEstablishes, StepKeeps, PTL DEF Spec

-----------------------------------------------------------------------------
(* In a payload, a table that no one changed since TABLE_INFO was read is     *)
(* listed exactly if the role may read it, with exactly its columns: the order *)
(* of the statements and the cancellation of the other readers by a failure    *)
(* leave no other way for the schema to be wrong.                             *)
THEOREM SchemaTornOnlyByDdlAlways == Spec => []SchemaTornOnlyByDdl
<1>1. SchemaInv => SchemaTornOnlyByDdl
  <2> SUFFICES ASSUME SchemaInv, phase = "delivered", NEW t \in Tables \ touched
               PROVE  /\ t \in tableRows <=> t \in Readable
                      /\ t \in tableRows => ColumnsOf(t) = Columns(catalog[t])
      BY DEF SchemaTornOnlyByDdl, SchemaRead
  <2>1. Payload /\ left["schema"] = 0
        BY DEF SchemaInv, Progress, Payload
  <2>2. t \in tableRows <=> t \in Readable
        BY <2>1 DEF SchemaInv, TablesRead
  <2>3. t \in Readable => ColumnsOf(t) = Columns(catalog[t])
        BY <2>1 DEF SchemaInv, ColumnsRead
  <2>4. QED  BY <2>2, <2>3
<1>2. QED  BY <1>1, SchemaInvHolds, PTL

(* In a payload, every index of a table that no one changed meanwhile is      *)
(* listed with its own columns and flags.                                    *)
THEOREM IndexesCompleteAlways == Spec => []IndexesComplete
<1>1. SchemaInv => IndexesComplete
  <2> SUFFICES ASSUME SchemaInv, phase = "delivered" PROVE IndexesComplete
      BY DEF IndexesComplete, SchemaRead
  <2>1. Payload /\ left["schema"] = 0
        BY DEF SchemaInv, Progress, Payload
  <2>2. QED  BY <2>1 DEF SchemaInv, IndexesRead, IndexesComplete
<1>2. QED  BY <1>1, SchemaInvHolds, PTL

-----------------------------------------------------------------------------
(* Type correctness.  The backoff stays below its cap and the attempts below  *)
(* theirs because a sleep follows only an attempt that is not the last.       *)
Typed == TypeOK /\ (phase = "backoff" => attempt < MaxAttempts)

LEMMA RowsTyped ==
    /\ TableInfo \subseteq Tables
    /\ \A row \in ColumnInfo : row.table \in Tables
    /\ \A row \in IndexInfo : row.table \in Tables
<1>1. TableInfo \subseteq Tables
      BY DEF TableInfo, Readable, Existing
<1>2. ASSUME NEW row \in ColumnInfo PROVE row.table \in Tables
  <2>1. PICK t \in Readable :
            row \in {[table |-> t, position |-> i, name |-> catalog[t].columns[i]] :
                        i \in DOMAIN catalog[t].columns}
        BY <1>2 DEF ColumnInfo
  <2>2. row.table = t
        BY <2>1
  <2>3. QED  BY <2>2 DEF Readable, Existing
<1>3. ASSUME NEW listed \in Indexes PROVE listed.table \in Tables
  <2>1. PICK t \in Existing : listed \in {[table |-> t, index |-> x] : x \in catalog[t].indexes}
        BY <1>3 DEF Indexes
  <2>2. listed.table = t
        BY <2>1
  <2>3. QED  BY <2>2 DEF Existing
<1>4. ASSUME NEW row \in IndexInfo PROVE row.table \in Tables
  <2>1. PICK listed \in Indexes :
            row \in {[table |-> listed.table, name |-> listed.index.name, described |-> entry] :
                        entry \in SameName(listed)}
        BY <1>4 DEF IndexInfo
  <2>2. row.table = listed.table
        BY <2>1
  <2>3. QED  BY <1>3, <2>2
<1>5. QED  BY <1>1, <1>2, <1>4

(* Every variable of the collector has its type, for every database.          *)
THEOREM TypeCorrect == Spec => []TypeOK
<1> USE PostgresAssumption
<1>1. Init => Typed
      BY DEF Init, Typed, TypeOK, SchemaStatements, Readers
<1>2. ASSUME Typed, [Next]_vars PROVE Typed'
  <2> USE DEF Typed, TypeOK
  <2>0. Len(SchemaStatements) = 3 /\ "schema" \in Readers
        BY DEF SchemaStatements, Readers
  <2>1. CASE ConnectSucceeds
        BY <1>2, <2>1 DEF ConnectSucceeds, startVars, schemaVars, databaseVars
  <2>2. CASE ConnectFails
        BY <1>2, <2>2 DEF ConnectFails, ErrorToKeep, schemaVars, databaseVars
  <2>3. CASE Sleep
    <3>1. NextBackoff \in FirstBackoff .. BackoffCap
          BY <1>2 DEF NextBackoff
    <3>2. QED  BY <1>2, <2>3, <3>1 DEF Sleep, schemaVars, databaseVars
  <2>4. CASE GetVersion
        BY <1>2, <2>4 DEF GetVersion, startVars, schemaVars, databaseVars
  <2>5. ASSUME NEW configured \in Providers, NEW url \in UrlKinds, DetectProvider(configured, url)
        PROVE  Typed'
    <3>1. Detections(url) \subseteq {"supabase", "neon", "aurora", "rds", "generic", "error"}
          BY DEF Detections
    <3>2. provider' \in {"unknown", "supabase", "neon", "aurora", "rds", "generic"} \cup Providers
          BY <1>2, <2>5, <3>1 DEF DetectProvider
    <3>3. phase' \in {"failed", "ready"}
          BY <2>5 DEF DetectProvider
    <3>4. QED  BY <1>2, <2>5, <3>2, <3>3 DEF DetectProvider, schemaVars, databaseVars
  <2>6. CASE Collect
        BY <1>2, <2>0, <2>6 DEF Collect, startVars, databaseVars
  <2>7. ASSUME NEW r \in Readers, StatsStatement(r) PROVE Typed'
    <3>1. PICK n \in IF r = "query_stats" THEN {0, left[r] - 1} ELSE {left[r] - 1} :
              left' = [left EXCEPT ![r] = n]
          BY <2>7 DEF StatsStatement
    <3>2. n \in 0 .. 3
          BY <1>2, <2>0, <2>7, <3>1 DEF StatsStatement
    <3>3. left' \in [Readers -> 0 .. Len(SchemaStatements)]
          BY <1>2, <2>0, <3>1, <3>2
    <3>4. QED  BY <1>2, <2>7, <3>3 DEF StatsStatement, startVars, schemaVars, databaseVars
  <2>8. CASE SchemaStatement
    <3>1. left' \in [Readers -> 0 .. Len(SchemaStatements)]
          BY <1>2, <2>0, <2>8 DEF SchemaStatement
    <3>2. tableRows' \in {TableInfo, tableRows} /\ columnRows' \in {ColumnInfo, columnRows}
          /\ indexRows' \in {IndexInfo, indexRows} /\ touched' \in {{}, touched}
          BY <2>8 DEF SchemaStatement
    <3>3. /\ tableRows' \subseteq Tables
          /\ \A row \in columnRows' : row.table \in Tables
          /\ \A row \in indexRows' : row.table \in Tables
          BY <1>2, <3>2, RowsTyped
    <3>4. QED  BY <1>2, <2>8, <3>1, <3>2, <3>3 DEF SchemaStatement, startVars
  <2>9. ASSUME NEW r \in Readers, StatementFails(r) PROVE Typed'
        BY <1>2, <2>0, <2>9 DEF StatementFails, AfterFailure, startVars, schemaVars, databaseVars
  <2>10. CASE Deliver
         BY <1>2, <2>10 DEF Deliver, startVars, schemaVars, databaseVars
  <2>11. ASSUME NEW t \in Tables, Ddl(t) PROVE Typed'
    <3>1. PICK shape \in ShapesOf(t) \cup {Absent} : catalog' = [catalog EXCEPT ![t] = shape]
          BY <2>11 DEF Ddl
    <3>2. \A s \in Tables : catalog'[s] \in ShapesOf(s) \cup {Absent}
          BY <1>2, <3>1
    <3>3. QED  BY <1>2, <2>11, <3>2 DEF Ddl, startVars, schemaVars
  <2>12. CASE UNCHANGED vars
         BY <1>2, <2>12 DEF vars, startVars, schemaVars, databaseVars
  <2>13. QED  BY <1>2, <2>1, <2>2, <2>3, <2>4, <2>5, <2>6, <2>7, <2>8, <2>9, <2>10, <2>11, <2>12 DEF Next
<1>3. Typed => TypeOK
      BY DEF Typed
<1>4. QED  BY <1>1, <1>2, <1>3, PTL DEF Spec

-----------------------------------------------------------------------------
(* The cold start.                                                         *)

(* The n-th sleep. *)
Nap(n) == IF FirstBackoff * 2 ^ (n - 1) <= BackoffCap THEN FirstBackoff * 2 ^ (n - 1)
          ELSE BackoffCap

LEMMA NapType == \A n \in Nat \ {0} : Nap(n) \in Nat
<1> TAKE n \in Nat \ {0}
<1>1. n - 1 \in Nat
      OBVIOUS
<1>2. 2 ^ (n - 1) \in Nat
      BY <1>1, PowerOfTwo
<1>3. FirstBackoff * 2 ^ (n - 1) \in Nat
      BY <1>2, PostgresAssumption
<1>4. QED  BY <1>3, PostgresAssumption DEF Nap

(* A sleep lasts twice as long as the one before, up to the cap.              *)
LEMMA NapDoubles ==
    ASSUME NEW n \in Nat \ {0}
    PROVE  Nap(n + 1) = IF 2 * Nap(n) <= BackoffCap THEN 2 * Nap(n) ELSE BackoffCap
<1> DEFINE p == 2 ^ (n - 1)
<1>1. n - 1 \in Nat /\ (n - 1) + 1 = n /\ (n + 1) - 1 = n
      OBVIOUS
<1>2. p \in Nat /\ 2 ^ n = 2 * p
      BY <1>1, PowerOfTwo
<1>3. FirstBackoff * 2 ^ n = 2 * (FirstBackoff * p)
      BY <1>2, PostgresAssumption
<1>4. FirstBackoff * p \in Nat
      BY <1>2, PostgresAssumption
<1> DEFINE q == FirstBackoff * p
<1>5. Nap(n) = IF q <= BackoffCap THEN q ELSE BackoffCap
      BY DEF Nap
<1>6. Nap(n + 1) = IF 2 * q <= BackoffCap THEN 2 * q ELSE BackoffCap
      BY <1>1, <1>3 DEF Nap
<1> HIDE DEF p, q
<1>7. q \in Nat
      BY <1>4 DEF q
<1>8. QED  BY <1>5, <1>6, <1>7, PostgresAssumption

(* Schedule is the sum of the sleeps.                                        *)
LEMMA ScheduleSums ==
    Schedule[0] = 0 /\ \A n \in Nat \ {0} : Schedule[n] = Schedule[n - 1] + Nap(n)
<1> DEFINE step == [x \in Nat \X Nat |-> IF x[2] = 0 THEN 0 ELSE x[1] + Nap(x[2])]
<1>1. PICK f \in [Nat -> Nat] : Recursive(f, 0, step)
  <2>1. ASSUME NEW x \in Nat \X Nat
        PROVE  (IF x[2] = 0 THEN 0 ELSE x[1] + Nap(x[2])) \in Nat
        BY NapType
  <2>2. step \in [Nat \X Nat -> Nat]
        BY <2>1
  <2> HIDE DEF step
  <2>3. QED  BY <2>2, RecursiveExists
<1>2. ASSUME NEW n \in Nat \ {0} PROVE f[n] = f[n - 1] + Nap(n)
  <2>1. <<f[n - 1], n>> \in Nat \X Nat
        OBVIOUS
  <2>2. step[<<f[n - 1], n>>] = f[n - 1] + Nap(n)
        BY <2>1
  <2>3. QED  BY <1>1, <2>2 DEF Recursive
<1>3. f = [n \in Nat |-> IF n = 0 THEN 0 ELSE f[n - 1] + Nap(n)]
      BY <1>1, <1>2 DEF Recursive
<1>4. f = [n \in Nat |-> IF n = 0 THEN 0 ELSE
              f[n - 1] + (IF FirstBackoff * 2 ^ (n - 1) <= BackoffCap
                          THEN FirstBackoff * 2 ^ (n - 1) ELSE BackoffCap)]
      BY <1>3, Zenon DEF Nap
<1>5. Schedule = [n \in Nat |-> IF n = 0 THEN 0 ELSE
              Schedule[n - 1] + (IF FirstBackoff * 2 ^ (n - 1) <= BackoffCap
                                 THEN FirstBackoff * 2 ^ (n - 1) ELSE BackoffCap)]
      BY <1>4, Zenon DEF Schedule
<1>6. \A n \in Nat : Schedule[n] = IF n = 0 THEN 0 ELSE Schedule[n - 1] + Nap(n)
      BY <1>5, Zenon DEF Nap
<1>7. QED  BY <1>6

(* What was slept for and what failed, at each place of the cold start. *)
StartInv ==
    /\ backoff = Nap(attempt)
    /\ slept = Schedule[attempt - 1]
    /\ lastError \in {attempt - 1, attempt}
    /\ phase = "backoff" => lastError = attempt
    /\ lastError = attempt =>
          \/ phase = "backoff" /\ attempt < MaxAttempts
          \/ phase = "failed" /\ attempt = MaxAttempts

LEMMA NextStartInv == TypeOK /\ TypeOK' /\ StartInv /\ [Next]_vars => StartInv'
<1> SUFFICES ASSUME TypeOK, TypeOK', StartInv, [Next]_vars PROVE StartInv'
    OBVIOUS
<1>1. /\ attempt \in 1 .. MaxAttempts /\ lastError \in 0 .. attempt /\ MaxAttempts \in Nat
      BY PostgresAssumption DEF TypeOK
<1>2. CASE ConnectSucceeds
      BY <1>2 DEF ConnectSucceeds, startVars, StartInv
<1>3. CASE ConnectFails
      BY <1>1, <1>3 DEF ConnectFails, ErrorToKeep, StartInv
<1>4. CASE Sleep
  <2>1. /\ attempt' = attempt + 1 /\ attempt \in Nat \ {0} /\ phase' = "connecting"
        /\ lastError' = lastError /\ backoff' = NextBackoff /\ slept' = slept + backoff
        BY <1>1, <1>4 DEF Sleep
  <2>2. backoff' = Nap(attempt')
        BY <2>1, NapDoubles DEF NextBackoff, StartInv
  <2>3. slept' = Schedule[attempt' - 1]
    <3>1. Schedule[attempt] = Schedule[attempt - 1] + Nap(attempt)
          BY <2>1, ScheduleSums
    <3>2. attempt' - 1 = attempt
          BY <2>1
    <3>3. QED  BY <2>1, <3>1, <3>2 DEF StartInv
  <2>4. lastError = attempt
        BY <1>4 DEF Sleep, StartInv
  <2>5. lastError' = attempt' - 1 /\ lastError' # attempt'
        BY <2>1, <2>4
  <2>6. QED  BY <2>1, <2>2, <2>3, <2>5 DEF StartInv
<1>5. CASE GetVersion
      BY <1>1, <1>5 DEF GetVersion, startVars, StartInv
<1>6. ASSUME NEW configured \in Providers, NEW url \in UrlKinds, DetectProvider(configured, url)
      PROVE  StartInv'
      BY <1>1, <1>6 DEF DetectProvider, StartInv
<1>7. CASE /\ UNCHANGED startVars
           /\ \/ phase' = phase
              \/ {phase, phase'} \subseteq {"ready", "collecting", "delivered"}
      BY <1>7 DEF startVars, StartInv
<1>8. CASE Collect \/ Deliver
      BY <1>7, <1>8 DEF Collect, Deliver
<1>9. ASSUME NEW r \in Readers, StatsStatement(r) \/ StatementFails(r)
      PROVE  StartInv'
      BY <1>7, <1>9 DEF StatsStatement, StatementFails, AfterFailure
<1>10. CASE SchemaStatement
       BY <1>7, <1>10 DEF SchemaStatement
<1>11. ASSUME NEW t \in Tables, Ddl(t) PROVE StartInv'
       BY <1>7, <1>11 DEF Ddl
<1>12. CASE UNCHANGED vars
       BY <1>7, <1>12 DEF vars
<1>13. QED  BY <1>2, <1>3, <1>4, <1>5, <1>6, <1>8, <1>9, <1>10, <1>11, <1>12 DEF Next

(* new: for any first backoff and cap the cold start has slept for the sum of *)
(* the doubled and capped backoffs, keeps the error of the latest attempt to   *)
(* fail, and gives up on the connection only with that of the last attempt.   *)
THEOREM ColdStartFollowsSchedule == Spec => []ColdStartSchedule
<1>1. Init => StartInv
  <2>1. ASSUME Init PROVE backoff = Nap(attempt)
    <3>1. 2 ^ (1 - 1) = 1
          BY PowerOfTwo
    <3>2. QED  BY <2>1, <3>1, PostgresAssumption DEF Init, Nap
  <2>2. ASSUME Init PROVE slept = Schedule[attempt - 1]
        BY <2>2, ScheduleSums DEF Init
  <2>3. QED  BY <2>1, <2>2 DEF Init, StartInv
<1>2. StartInv => ColdStartSchedule
      BY DEF StartInv, ColdStartSchedule
<1>3. QED  BY TypeCorrect, NextStartInv, <1>1, <1>2, PTL DEF Spec
=============================================================================
