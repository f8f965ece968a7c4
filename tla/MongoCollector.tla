--------------------------- MODULE MongoCollector ---------------------------
(***************************************************************************)
(* MongoCollector of src/src/collector/mongodb: new, which connects and     *)
(* looks at the server once, and collect, which lists the collections and  *)
(* then joins five futures, one of which lists them again.  Every command  *)
(* is a step, may fail on its own, and finds the database as it is by      *)
(* then.  What the walker makes of a sample is the subject of              *)
(* SchemaWalker; here a sample is the number of its documents.             *)
(***************************************************************************)
EXTENDS Integers, FiniteSets

CONSTANTS
    Collections,     \* the names collections may have
    System,          \* those that start with "system."
    Indexes,         \* the names indexes may have
    IndexSets,       \* the sets of indexes a collection may have
    Sizes,           \* the numbers of documents a collection may have
    MinSamples, MaxSamples, OneIn,   \* schema.rs: the clamp, and TARGET_RATIO = 1 / OneIn
    MaxChanges,      \* bound: changes to the database in one collection
    MaxFailing,      \* bound: collections of which commands fail in one collection
    None             \* Option::None

ASSUME MongoAssumption ==
    /\ System \subseteq Collections /\ Sizes \subseteq Nat
    /\ IndexSets \subseteq SUBSET Indexes
    /\ MinSamples \in Nat /\ MaxSamples \in Nat /\ MinSamples <= MaxSamples
    /\ OneIn \in Nat \ {0} /\ MaxChanges \in Nat
    /\ None \notin Nat \cup Collections
    /\ None \notin [docs : Sizes, indexes : IndexSets] \cup [count : Nat, sizes : SUBSET Indexes]

VARIABLES
    db,         \* the database: per name a collection, or none
    phase,      \* "new", "ping", "idle", "collecting" or "failed"
    statsTodo,  \* collect_table_stats: the collections it has still to look at
    indexTodo,  \* collect_index_stats: likewise
    at,         \* collect_schema: "list", "next", "sample", "indexes"
    schemaTodo, \* collect_schema: the collections it has still to look at
    coll,       \* collect_schema: the collection in work
    stats,      \* collect_schema: its stats_doc, or None
    tables, indexes, tableStats, indexStats,  \* what has been collected
    outcome,    \* of the last collection: "none", "ok", "error"
    listed,     \* history: the second listing
    listFailed, \* history: a listing of this collection failed
    touched,    \* history: the collections changed since this collection began
    failed,     \* history: the collections of which some command failed
    changes     \* number of changes since this collection began

joinVars == <<statsTodo, indexTodo>>
schemaVars == <<at, schemaTodo, coll, stats>>
resultVars == <<tables, indexes, tableStats, indexStats>>
historyVars == <<listed, listFailed, touched, failed>>
vars == <<db, phase, joinVars, schemaVars, resultVars, outcome, historyVars, changes>>

Collection == [docs : Sizes, indexes : IndexSets]
Counts == Nat \cup {None}

TypeOK ==
    /\ db \in [Collections -> Collection \cup {None}]
    /\ phase \in {"new", "ping", "idle", "collecting", "failed"}
    /\ statsTodo \subseteq Collections /\ indexTodo \subseteq Collections
    /\ schemaTodo \subseteq Collections /\ coll \in Collections \cup {None}
    /\ at \in {"list", "next", "sample", "indexes"}
    /\ stats \in [count : Nat, sizes : SUBSET Indexes] \cup {None}
    /\ tables \subseteq [name : Collections \ System, count : Counts, sampled : 0 .. MaxSamples]
    /\ indexes \subseteq [table : Collections \ System, name : Indexes, sized : BOOLEAN]
    /\ tableStats \subseteq [table : Collections \ System, live : Nat]
    /\ indexStats \subseteq [table : Collections \ System, index : Indexes]
    /\ outcome \in {"none", "ok", "error"}
    /\ listed \subseteq Collections /\ touched \subseteq Collections /\ failed \subseteq Collections
    /\ listFailed \in BOOLEAN
    /\ changes \in 0 .. MaxChanges

-----------------------------------------------------------------------------
(* Decisions of the code, with the wrong variants the properties are tried on. *)

AtMost(a, b) == IF a <= b THEN a ELSE b
AtLeast(a, b) == IF a >= b THEN a ELSE b
Clamp(n, low, high) == AtMost(AtLeast(n, low), high)

(* pick_sample_size: one in OneIn, rounded up, between the two limits, but no *)
(* more than there are; an unknown count, taken as zero, asks for the        *)
(* minimum.  The variants forget the upper limit, and the small collections.  *)
PickSampleSize_Unclamped(count) == IF count <= 0 THEN MinSamples ELSE count
PickSampleSize_Proportional(count) ==
    IF count <= 0 THEN MinSamples ELSE AtMost((count + OneIn - 1) \div OneIn, MaxSamples)
PickSampleSize(count) ==
    IF count <= 0 THEN MinSamples
    ELSE Clamp((count + OneIn - 1) \div OneIn, AtMost(MinSamples, count), MaxSamples)

(* list_collection_names.  The variant does not filter. *)
Listing_WithSystem == {c \in Collections : db[c] # None}
Listing == {c \in Collections \ System : db[c] # None}

(* The statistics skip a collection whose command fails.  The variant gives   *)
(* up the remaining ones.                                                    *)
AfterFailure_Stops(todo, c) == {}
AfterFailure(todo, c) == todo \ {c}

(* collect_schema takes every collection once.  The variant takes one again of *)
(* which not all indexes could be listed.                                    *)
AfterIndexes_Retries(todo, c, complete) == IF complete THEN todo \ {c} ELSE todo
AfterIndexes(todo, c, complete) == todo \ {c}

(* collect_schema goes on without the stats_doc it could not get.  The variant *)
(* leaves the collection out, as collect_table_stats does.                   *)
KeepsTable_WithStatsOnly(doc) == doc # None
KeepsTable(doc) == TRUE

(* A $sample that fails is logged.  The variant returns the error. *)
SampleFailureIsFatal_Propagated == TRUE
SampleFailureIsFatal == FALSE

-----------------------------------------------------------------------------

Init ==
    /\ db \in [Collections -> Collection \cup {None}]
    /\ \A c \in System : db[c] = CHOOSE any \in Collection : TRUE
    /\ phase = "new"
    /\ statsTodo = {} /\ indexTodo = {}
    /\ at = "list" /\ schemaTodo = {} /\ coll = None /\ stats = None
    /\ tables = {} /\ indexes = {} /\ tableStats = {} /\ indexStats = {}
    /\ outcome = "none"
    /\ listed = {} /\ listFailed = FALSE /\ touched = {} /\ failed = {} /\ changes = 0

(* new: the URL is parsed. *)
Parse(ok) ==
    /\ phase = "new"
    /\ phase' = IF ok THEN "ping" ELSE "failed"
    /\ UNCHANGED <<db, joinVars, schemaVars, resultVars, outcome, historyVars, changes>>

(* The ping that verifies the connection.  After it fetch_version and          *)
(* detect_provider run buildInfo, for two labels; its failure decides nothing. *)
Ping(ok) ==
    /\ phase = "ping"
    /\ phase' = IF ok THEN "idle" ELSE "failed"
    /\ UNCHANGED <<db, joinVars, schemaVars, resultVars, outcome, historyVars, changes>>

DropResults ==
    tables' = {} /\ indexes' = {} /\ tableStats' = {} /\ indexStats' = {}

(* collect: the listing for the statistics; with it the futures are joined.   *)
StartCollect(ok) ==
    /\ phase = "idle"
    /\ DropResults
    /\ at' = "list" /\ schemaTodo' = {} /\ coll' = None /\ stats' = None
    /\ listed' = {} /\ touched' = {} /\ failed' = {} /\ changes' = 0
    /\ listFailed' = ~ok
    /\ IF ok
       THEN /\ phase' = "collecting" /\ outcome' = "none"
            /\ statsTodo' = Listing /\ indexTodo' = Listing
       ELSE /\ outcome' = "error"
            /\ statsTodo' = {} /\ indexTodo' = {}
            /\ UNCHANGED phase
    /\ UNCHANGED db

Docs(c) == IF db[c] = None THEN 0 ELSE db[c].docs
IndexesOf(c) == IF db[c] = None THEN {} ELSE db[c].indexes

(* A command about c fails, or does not. *)
Fails(c, bad) ==
    /\ failed' = IF bad THEN failed \cup {c} ELSE failed
    /\ Cardinality(failed') <= MaxFailing

(* collect_table_stats: collStats of the next collection. *)
TableStats(c, ok) ==
    /\ phase = "collecting" /\ c \in statsTodo
    /\ IF ok
       THEN /\ tableStats' = tableStats \cup {[table |-> c, live |-> Docs(c)]}
            /\ statsTodo' = statsTodo \ {c}
       ELSE /\ statsTodo' = AfterFailure(statsTodo, c)
            /\ UNCHANGED tableStats
    /\ Fails(c, ~ok)
    /\ UNCHANGED <<db, phase, indexTodo, schemaVars, tables, indexes,
                   indexStats, outcome, listed, listFailed, touched, changes>>

(* collect_index_stats: $indexStats of the next collection; rows whose reading *)
(* fails are left out.                                                       *)
IndexStats(c, got, ok) ==
    /\ phase = "collecting" /\ c \in indexTodo
    /\ got \subseteq IndexesOf(c) /\ (ok \/ got = {})
    /\ indexStats' = indexStats \cup {[table |-> c, index |-> i] : i \in got}
    /\ Fails(c, ~ok \/ got # IndexesOf(c))
    /\ indexTodo' = IF ok THEN indexTodo \ {c} ELSE AfterFailure(indexTodo, c)
    /\ UNCHANGED <<db, phase, statsTodo, schemaVars, tables, indexes,
                   tableStats, outcome, listed, listFailed, touched, changes>>

(* collect_schema: the second listing.  Its failure ends the collection: the  *)
(* other futures are dropped where they are.                                 *)
ListForSchema(ok) ==
    /\ phase = "collecting" /\ at = "list"
    /\ listFailed' = ~ok
    /\ IF ok
       THEN /\ schemaTodo' = Listing /\ listed' = Listing
            /\ at' = "next"
            /\ UNCHANGED <<phase, outcome>>
            /\ UNCHANGED <<joinVars, resultVars>>
       ELSE /\ phase' = "idle" /\ outcome' = "error"
            /\ statsTodo' = {} /\ indexTodo' = {} /\ DropResults
            /\ UNCHANGED <<schemaTodo, listed, at>>
    /\ UNCHANGED <<db, coll, stats, touched, failed, changes>>

(* collStats of the next collection. *)
CollStats(c, ok) ==
    /\ phase = "collecting" /\ at = "next" /\ c \in schemaTodo
    /\ coll' = c
    /\ stats' = IF ok THEN [count |-> Docs(c), sizes |-> IndexesOf(c)] ELSE None
    /\ Fails(c, ~ok)
    /\ at' = "sample"
    /\ UNCHANGED <<db, phase, joinVars, schemaTodo, resultVars, outcome,
                   listed, listFailed, touched, changes>>

SampleSize == PickSampleSize(IF stats = None THEN 0 ELSE stats.count)

(* $sample: the walker sees n of the documents, fewer than asked for when the *)
(* command fails or some cannot be read.                                     *)
Sample(n) ==
    LET whole == AtMost(SampleSize, Docs(coll)) IN
    /\ phase = "collecting" /\ at = "sample"
    /\ n <= whole
    /\ Fails(coll, n # whole)
    /\ IF SampleFailureIsFatal /\ n < whole
       THEN phase' = "idle" /\ outcome' = "error" /\ UNCHANGED <<tables, at>>
       ELSE /\ tables' = IF KeepsTable(stats)
                         THEN tables \cup {[name |-> coll, sampled |-> n,
                                            count |-> IF stats = None THEN None ELSE stats.count]}
                         ELSE tables
            /\ at' = "indexes"
            /\ UNCHANGED <<phase, outcome>>
    /\ UNCHANGED <<db, joinVars, schemaTodo, coll, stats, indexes, tableStats,
                   indexStats, listed, listFailed, touched, changes>>

(* list_indexes: each index with the size that collStats gave it, if it did. *)
ListIndexes(got) ==
    LET sizes == IF stats = None THEN {} ELSE stats.sizes IN
    /\ phase = "collecting" /\ at = "indexes"
    /\ got \subseteq IndexesOf(coll)
    /\ indexes' = indexes \cup {[table |-> coll, name |-> i, sized |-> i \in sizes] : i \in got}
    /\ Fails(coll, got # IndexesOf(coll))
    /\ schemaTodo' = AfterIndexes(schemaTodo, coll, got = IndexesOf(coll))
    /\ at' = "next" /\ coll' = None /\ stats' = None
    /\ UNCHANGED <<db, phase, joinVars, tables, tableStats, indexStats,
                   outcome, listed, listFailed, touched, changes>>

(* try_join! has all its results, and the payload is made of them.  The other   *)
(* two futures have ended too: collect_settings leaves the map empty when      *)
(* serverStatus fails, collect_query_stats is empty in any case.             *)
Deliver ==
    /\ phase = "collecting"
    /\ statsTodo = {} /\ indexTodo = {}
    /\ at = "next" /\ schemaTodo = {}
    /\ phase' = "idle" /\ outcome' = "ok"
    /\ UNCHANGED <<db, joinVars, schemaVars, resultVars, historyVars, changes>>

(* The database's users create, fill, index and drop collections; those of    *)
(* the system are the server's.  Between two collections they need not: any    *)
(* database may be there when one begins.                                    *)
Change(c, to) ==
    /\ phase = "collecting"
    /\ changes < MaxChanges /\ c \notin System
    /\ db[c] # to
    /\ db' = [db EXCEPT ![c] = to]
    /\ touched' = touched \cup {c}
    /\ changes' = changes + 1
    /\ UNCHANGED <<phase, joinVars, schemaVars, resultVars, outcome,
                   listed, listFailed, failed>>

ConnectStep ==
    \/ \E ok \in BOOLEAN : Parse(ok) \/ Ping(ok)

CollectStep ==
    \/ \E c \in Collections, ok \in BOOLEAN : TableStats(c, ok) \/ CollStats(c, ok)
    \/ \E c \in Collections, got \in SUBSET Indexes, ok \in BOOLEAN : IndexStats(c, got, ok)
    \/ \E ok \in BOOLEAN : ListForSchema(ok)
    \/ at = "sample" /\ \E n \in 0 .. SampleSize : Sample(n)
    \/ \E got \in SUBSET Indexes : ListIndexes(got)
    \/ Deliver

Next ==
    \/ ConnectStep
    \/ \E ok \in BOOLEAN : StartCollect(ok)
    \/ CollectStep
    \/ \E c \in Collections : \E to \in Collection \cup {None} : Change(c, to)

Spec == Init /\ [][Next]_vars

(* The driver's commands return, each future is polled in turn by try_join!. *)
Fairness == WF_vars(CollectStep)
FairSpec == Spec /\ Fairness

-----------------------------------------------------------------------------
(* Properties.                                                             *)

(* What the payload is to hold of a collection that stayed as it was and of   *)
(* which every command succeeded: one table with its count and a sample of   *)
(* the promised size, all its indexes with their sizes, both statistics.     *)
Complete(c) ==
    /\ \E n \in 0 .. MaxSamples :
         /\ {t \in tables : t.name = c} = {[name |-> c, count |-> db[c].docs, sampled |-> n]}
         /\ IF db[c].docs <= MinSamples THEN n = db[c].docs
            ELSE n \in MinSamples .. MaxSamples /\ (n < MaxSamples => n * OneIn >= db[c].docs)
    /\ {i \in indexes : i.table = c} =
         {[table |-> c, name |-> i, sized |-> TRUE] : i \in db[c].indexes}
    /\ {s \in tableStats : s.table = c} = {[table |-> c, live |-> db[c].docs]}
    /\ {s \in indexStats : s.table = c} = {[table |-> c, index |-> i] : i \in db[c].indexes}

Nothing(c) ==
    /\ \A t \in tables : t.name # c
    /\ \A i \in indexes : i.table # c
    /\ \A s \in tableStats \cup indexStats : s.table # c

(* The parts of a payload are read at different times, and after two listings, *)
(* yet they disagree with the database, and with each other, only about a     *)
(* collection that was changed meanwhile or of which a command failed.        *)
TornOnlyByChange ==
    outcome = "ok" =>
        \A c \in Collections \ (touched \cup failed) :
            IF c \in System \/ db[c] = None THEN Nothing(c) ELSE Complete(c)

(* What fails about a single collection stays there: the collection as a whole *)
(* fails only when the database cannot be listed, and otherwise the schema has *)
(* exactly one table for every collection of the listing it is made from, the *)
(* failing ones included, and indexes of no other.                           *)
FailureStaysLocal ==
    /\ outcome = "error" => listFailed
    /\ outcome = "ok" =>
         /\ {t.name : t \in tables} = listed
         /\ \A t, u \in tables : t.name = u.name => t = u
         /\ \A i \in indexes : i.table \in listed

(* collect returns, however often its commands fail and the database changes.  *)
CollectReturns == (phase = "collecting") ~> (phase = "idle")
=============================================================================
