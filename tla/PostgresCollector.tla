-------------------------- MODULE PostgresCollector --------------------------
(***************************************************************************)
(* PostgresCollector of src/src/collector/postgres: the cold start with its *)
(* retried connection and provider detection, and collect, which runs five  *)
(* readers concurrently and joins what the schema reader's three statements *)
(* saw of a catalog that others change meanwhile.                           *)
(*                                                                          *)
(* A statement sees the catalog at one instant; there is no transaction      *)
(* around them.  A table is a pair of schema and name.  Column names contain  *)
(* no ", ", so the list of an index's columns survives its joining and        *)
(* splitting.  Statistics, settings and sizes are left out.                   *)
(***************************************************************************)
EXTENDS Integers, Sequences, FiniteSets

CONSTANTS
    Tables,        \* the tables there may be, pairs of schema and name
    ShapesOf(_),   \* what a table may look like: columns, indexes, readable
    Absent,        \* a table that does not exist
    Providers,     \* the provider settings: "auto", or a fixed one
    UrlKinds,      \* what the URL gives away: "supabase", "neon", "aws" or "plain"
    MaxAttempts,   \* MAX_ATTEMPTS
    FirstBackoff,  \* the first backoff, in seconds
    BackoffCap     \* the longest backoff

ASSUME PostgresAssumption ==
    /\ MaxAttempts \in Nat \ {0} /\ FirstBackoff \in Nat /\ BackoffCap \in Nat
    /\ FirstBackoff <= BackoffCap
    /\ \A t \in Tables : Absent \notin ShapesOf(t)

Readers == {"query_stats", "table_stats", "index_stats", "settings", "schema"}

VARIABLES
    phase,      \* where new or collect is; "ready" between collections
    attempt,    \* the attempt of the cold start
    backoff,    \* its backoff
    lastError,  \* last_err: the attempt that failed last (0: none)
    slept,      \* history: seconds slept in the cold start
    provider,   \* detected_provider, "unknown" before
    left,       \* per reader of this collection: the statements it has to go
    tableRows,  \* the rows of TABLE_INFO
    columnRows, \* the rows of COLUMN_INFO
    indexRows,  \* the rows of INDEX_INFO
    catalog,    \* the database: per table its shape, or Absent
    touched     \* history: tables that changed since TABLE_INFO was read

startVars == <<attempt, backoff, lastError, slept, provider>>
schemaVars == <<tableRows, columnRows, indexRows>>
databaseVars == <<catalog, touched>>
vars == <<phase, startVars, left, schemaVars, databaseVars>>

-----------------------------------------------------------------------------
(* The catalog, as the agent's role sees it through the statements.          *)

Existing == {t \in Tables : catalog[t] # Absent}
Readable == {t \in Existing : catalog[t].readable}

(* information_schema shows what the role may read. *)
TableInfo == Readable
ColumnInfo ==
    UNION {{[table |-> t, position |-> i, name |-> catalog[t].columns[i]] :
               i \in DOMAIN catalog[t].columns} : t \in Readable}

(* pg_indexes shows every index; each row is joined with the pg_class entries *)
(* of that name, whatever their schema.                                      *)
Indexes == UNION {{[table |-> t, index |-> x] : x \in catalog[t].indexes} : t \in Existing}
SameName(listed) == {entry \in Indexes : entry.index.name = listed.index.name}
IndexInfo ==
    UNION {{[table |-> listed.table, name |-> listed.index.name, described |-> entry] :
               entry \in SameName(listed)} : listed \in Indexes}

-----------------------------------------------------------------------------
(* Decisions of the code, with the variants the properties are tried on.     *)

(* The backoff doubles up to a cap.  The variant has no cap.                 *)
NextBackoff_Uncapped == 2 * backoff
NextBackoff == IF 2 * backoff <= BackoffCap THEN 2 * backoff ELSE BackoffCap

(* The error that is kept is that of the attempt that just failed.  The       *)
(* variant keeps the first.                                                  *)
ErrorToKeep_First == IF lastError = 0 THEN attempt ELSE lastError
ErrorToKeep == attempt

(* The order of the schema's statements.  The variant reads the columns first. *)
SchemaStatements_ColumnsFirst == <<"columns", "tables", "indexes">>
SchemaStatements == <<"tables", "columns", "indexes">>

(* try_join!: the first error ends the collection.  The variant takes what    *)
(* the failed reader has for its result.                                     *)
AfterFailure_Tolerant(r) == [phase |-> "collecting", left |-> [left EXCEPT ![r] = 0]]
AfterFailure(r) == [phase |-> "ready", left |-> [s \in Readers |-> 0]]

(* The rows of COLUMN_INFO that are joined into a table's columns: those of    *)
(* its schema and name.                                                      *)
ColumnsOf(table) ==
    {[position |-> row.position, name |-> row.name] :
        row \in {r \in columnRows : r.table = table}}

(* What detect_provider may come to.  The supabase and neon URLs decide at    *)
(* once; an AWS URL needs a statement, whose failure is not forgiven; the     *)
(* probes of extensions and settings, when they fail, say nothing.           *)
Detections(url) ==
    CASE url \in {"supabase", "neon"} -> {url}
      [] url = "aws" -> {"aurora", "rds", "error"}
      [] OTHER -> {"supabase", "neon", "rds", "generic"}

-----------------------------------------------------------------------------
Init ==
    /\ phase = "connecting"
    /\ attempt = 1 /\ backoff = FirstBackoff /\ lastError = 0 /\ slept = 0
    /\ provider = "unknown"
    /\ left = [r \in Readers |-> 0]
    /\ tableRows = {} /\ columnRows = {} /\ indexRows = {}
    /\ catalog \in {c \in [Tables -> {Absent} \cup UNION {ShapesOf(t) : t \in Tables}] :
                        \A t \in Tables : c[t] \in {Absent} \cup ShapesOf(t)}
    /\ touched = {}

(* The pool's first connection is made. *)
ConnectSucceeds ==
    /\ phase = "connecting"
    /\ phase' = "versioning"
    /\ UNCHANGED <<startVars, left, schemaVars, databaseVars>>

(* It is not, within the acquire timeout. *)
ConnectFails ==
    /\ phase = "connecting"
    /\ lastError' = ErrorToKeep
    /\ phase' = IF attempt < MaxAttempts THEN "backoff" ELSE "failed"
    /\ UNCHANGED <<attempt, backoff, slept, provider, left, schemaVars, databaseVars>>

(* The sleep between two attempts. *)
Sleep ==
    /\ phase = "backoff"
    /\ slept' = slept + backoff
    /\ backoff' = NextBackoff
    /\ attempt' = attempt + 1
    /\ phase' = "connecting"
    /\ UNCHANGED <<lastError, provider, left, schemaVars, databaseVars>>

(* SELECT version(), which is not retried. *)
GetVersion ==
    /\ phase = "versioning"
    /\ phase' \in {"detecting", "failed"}
    /\ UNCHANGED <<startVars, left, schemaVars, databaseVars>>

(* A provider that is not auto is taken as it is. *)
DetectProvider(configured, url) ==
    /\ phase = "detecting"
    /\ \E p \in IF configured = "auto" THEN Detections(url) ELSE {configured} :
          IF p = "error"
          THEN phase' = "failed" /\ UNCHANGED provider
          ELSE phase' = "ready" /\ provider' = p
    /\ UNCHANGED <<attempt, backoff, lastError, slept, left, schemaVars, databaseVars>>

-----------------------------------------------------------------------------
(* collect: every reader has its statements to go. *)
Collect ==
    /\ phase \in {"ready", "delivered"}
    /\ phase' = "collecting"
    /\ left' = [r \in Readers |->
                   IF r = "schema" THEN Len(SchemaStatements)
                   ELSE IF r = "query_stats" THEN 2 ELSE 1]
    /\ tableRows' = {} /\ columnRows' = {} /\ indexRows' = {}
    /\ UNCHANGED <<startVars, databaseVars>>

(* A statement of a reader other than the schema's.  Without the extension,  *)
(* query_stats has nothing more to ask.                                      *)
StatsStatement(r) ==
    /\ phase = "collecting" /\ r # "schema" /\ left[r] > 0
    /\ \E n \in IF r = "query_stats" THEN {0, left[r] - 1} ELSE {left[r] - 1} :
          left' = [left EXCEPT ![r] = n]
    /\ UNCHANGED <<phase, startVars, schemaVars, databaseVars>>

(* The schema reader's next statement. *)
SchemaStatement ==
    /\ phase = "collecting" /\ left["schema"] > 0
    /\ LET statement == SchemaStatements[Len(SchemaStatements) - left["schema"] + 1]
       IN  /\ tableRows' = IF statement = "tables" THEN TableInfo ELSE tableRows
           /\ columnRows' = IF statement = "columns" THEN ColumnInfo ELSE columnRows
           /\ indexRows' = IF statement = "indexes" THEN IndexInfo ELSE indexRows
           /\ touched' = IF statement = "tables" THEN {} ELSE touched
    /\ left' = [left EXCEPT !["schema"] = @ - 1]
    /\ UNCHANGED <<phase, startVars, catalog>>

(* A statement fails: the other readers are dropped. *)
StatementFails(r) ==
    /\ phase = "collecting" /\ left[r] > 0
    /\ phase' = AfterFailure(r).phase
    /\ left' = AfterFailure(r).left
    /\ UNCHANGED <<startVars, schemaVars, databaseVars>>

(* All five have returned; the provider's metadata, whose failure is          *)
(* forgiven, completes the payload.                                          *)
Deliver ==
    /\ phase = "collecting" /\ \A r \in Readers : left[r] = 0
    /\ phase' = "delivered"
    /\ UNCHANGED <<startVars, left, schemaVars, databaseVars>>

-----------------------------------------------------------------------------
(* Someone creates, alters, grants or drops a table, with its indexes. *)
Ddl(t) ==
    /\ \E shape \in ShapesOf(t) \cup {Absent} :
          /\ shape # catalog[t]
          /\ catalog' = [catalog EXCEPT ![t] = shape]
    /\ touched' = touched \cup {t}
    /\ UNCHANGED <<phase, startVars, left, schemaVars>>

Next ==
    \/ ConnectSucceeds \/ ConnectFails \/ Sleep \/ GetVersion
    \/ \E configured \in Providers, url \in UrlKinds : DetectProvider(configured, url)
    \/ Collect
    \/ \E r \in Readers : StatsStatement(r) \/ StatementFails(r)
    \/ SchemaStatement \/ Deliver
    \/ \E t \in Tables : Ddl(t)

Spec == Init /\ [][Next]_vars

-----------------------------------------------------------------------------
(* Properties.                                                             *)

TypeOK ==
    /\ phase \in {"connecting", "backoff", "versioning", "detecting", "failed",
                  "ready", "collecting", "delivered"}
    /\ attempt \in 1 .. MaxAttempts /\ lastError \in 0 .. attempt
    /\ backoff \in FirstBackoff .. BackoffCap /\ slept \in Nat
    /\ provider \in {"unknown", "supabase", "neon", "aurora", "rds", "generic"} \cup Providers
    /\ left \in [Readers -> 0 .. Len(SchemaStatements)]
    /\ tableRows \subseteq Tables
    /\ \A row \in columnRows : row.table \in Tables
    /\ \A row \in indexRows : row.table \in Tables
    /\ touched \subseteq Tables
    /\ \A t \in Tables : catalog[t] \in ShapesOf(t) \cup {Absent}

(* The schema of a payload. *)
SchemaRead == phase = "delivered"
Columns(shape) == {[position |-> i, name |-> shape.columns[i]] : i \in DOMAIN shape.columns}

(* The three statements see three states of the catalog, and a statement of  *)
(* any reader may fail; yet in a payload, a table that did not change         *)
(* meanwhile is listed exactly if it is readable, with exactly its columns.   *)
SchemaTornOnlyByDdl ==
    SchemaRead => \A t \in Tables \ touched :
        /\ t \in tableRows <=> t \in Readable
        /\ t \in tableRows => ColumnsOf(t) = Columns(catalog[t])

(* Every index of a table that did not change is in the payload, with what it *)
(* is among the rows under its name.                                         *)
IndexesComplete ==
    SchemaRead => \A t \in Existing \ touched : \A x \in catalog[t].indexes :
        [table |-> t, name |-> x.name, described |-> [table |-> t, index |-> x]] \in indexRows

(* An index of the payload is described by its own columns and flags.        *)
IndexesDescribeThemselves == SchemaRead => \A row \in indexRows : row.described.table = row.table

(* The cold start sleeps between attempts only, twice as long each time up to *)
(* the cap.  The error it keeps is always that of the latest attempt to fail, *)
(* which is this one or the one before; this one's is slept over while        *)
(* attempts remain, and after the last one it is the error reported.         *)
Schedule[n \in Nat] ==
    IF n = 0 THEN 0
    ELSE Schedule[n - 1] + (IF FirstBackoff * 2 ^ (n - 1) <= BackoffCap
                            THEN FirstBackoff * 2 ^ (n - 1) ELSE BackoffCap)
ColdStartSchedule ==
    /\ slept = Schedule[attempt - 1]
    /\ lastError \in {attempt - 1, attempt}
    /\ lastError = attempt =>
          \/ phase = "backoff" /\ attempt < MaxAttempts
          \/ phase = "failed" /\ attempt = MaxAttempts
=============================================================================
