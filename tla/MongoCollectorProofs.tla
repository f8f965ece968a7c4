------------------------ MODULE MongoCollectorProofs ------------------------
(* Theorems about MongoCollector, for any database, any changes to it and    *)
(* any limits of the sample.                                                 *)
EXTENDS MongoCollector, TLAPS

Live(c) == c \notin System /\ db[c] # None

-----------------------------------------------------------------------------
(* The inductive invariant.                                                *)

(* Where the three futures are. *)
PlaceInv ==
    /\ phase = "collecting" => outcome = "none"
    /\ statsTodo \cup indexTodo \cup schemaTodo \cup listed \subseteq Collections \ System
    /\ schemaTodo \subseteq listed
    /\ at \in {"sample", "indexes"} => coll \in schemaTodo
    /\ at = "list" => tables = {} /\ indexes = {}
    /\ outcome = "error" => listFailed
    /\ outcome = "ok" => /\ phase = "idle" /\ at = "next"
                         /\ statsTodo = {} /\ indexTodo = {} /\ schemaTodo = {}

(* collect_schema has one table for each collection it is done with. *)
HasTable(c) == c \in listed \ schemaTodo \/ (at = "indexes" /\ c = coll)

SchemaInv ==
    /\ \A t \in tables : HasTable(t.name)
    /\ \A c \in Collections : HasTable(c) /\ at # "list" => \E t \in tables : t.name = c
    /\ \A t, u \in tables : t.name = u.name => t = u
    /\ \A i \in indexes : i.table \in listed \ schemaTodo

(* A sample of the size that is promised for a collection of that many documents. *)
GoodSample(n, docs) ==
    IF docs <= MinSamples THEN n = docs
    ELSE n \in MinSamples .. MaxSamples /\ (n < MaxSamples => n * OneIn >= docs)

OneTable(c) ==
    \E n \in 0 .. MaxSamples :
        /\ {t \in tables : t.name = c} = {[name |-> c, count |-> db[c].docs, sampled |-> n]}
        /\ GoodSample(n, db[c].docs)

(* What there is of a collection that stayed as it was and of which nothing   *)
(* failed: each future has all of it once it is done with it, and nothing     *)
(* before.                                                                   *)
StatsSo(c) ==
    /\ c \in statsTodo => Live(c)
    /\ {s \in tableStats : s.table = c} =
         IF Live(c) /\ c \notin statsTodo THEN {[table |-> c, live |-> db[c].docs]} ELSE {}

IndexStatsSo(c) ==
    /\ c \in indexTodo => Live(c)
    /\ {s \in indexStats : s.table = c} =
         IF Live(c) /\ c \notin indexTodo
         THEN {[table |-> c, index |-> i] : i \in db[c].indexes} ELSE {}

ListedSo(c) == at # "list" => (c \in listed <=> Live(c))

WorkSo(c) ==
    at \in {"sample", "indexes"} /\ coll = c =>
        stats = [count |-> db[c].docs, sizes |-> db[c].indexes]

TableSo(c) == HasTable(c) => OneTable(c)

IndexesSo(c) ==
    {i \in indexes : i.table = c} =
        IF c \in listed \ schemaTodo
        THEN {[table |-> c, name |-> i, sized |-> TRUE] : i \in db[c].indexes} ELSE {}

AllSo(c) ==
    /\ StatsSo(c) /\ IndexStatsSo(c)
    /\ ListedSo(c) /\ WorkSo(c) /\ TableSo(c) /\ IndexesSo(c)

TearInv ==
    phase = "collecting" \/ outcome = "ok" =>
        \A c \in Collections \ (touched \cup failed) : AllSo(c)

IInv == TypeOK /\ PlaceInv /\ SchemaInv /\ TearInv

-----------------------------------------------------------------------------
(* The sample.                                                             *)

LEMMA CeilingFacts ==
    ASSUME NEW n \in Nat \ {0}, NEW o \in Nat \ {0}
    PROVE  /\ (n + o - 1) \div o \in Nat
           /\ ((n + o - 1) \div o) * o >= n
<1>1. PICK m \in Nat : m = n + o - 1
  OBVIOUS
<1>2. PICK k \in Int : k = m \div o
  BY <1>1 
<1>3. PICK r \in Int : r = m % o
  BY <1>1
<1>4. m = o * k + r /\ r \in 0 .. o - 1 /\ k >= 0
  BY <1>1, <1>2, <1>3
<1>5. o * k >= n
  BY <1>1, <1>4
<1>6. k * o = o * k
  BY <1>2
<1> QED
  BY <1>1, <1>2, <1>4, <1>5, <1>6

LEMMA TimesMonotonic ==
    ASSUME NEW a \in Nat, NEW b \in Nat, NEW o \in Nat \ {0}, a <= b
    PROVE  a * o <= b * o
BY SMT

(* pick_sample_size stays within the limit, and asks for a sample of the       *)
(* promised size.                                                            *)
LEMMA PickFacts ==
    ASSUME NEW count \in Nat
    PROVE  /\ PickSampleSize(count) \in 0 .. MaxSamples
           /\ GoodSample(AtMost(PickSampleSize(count), count), count)
<1> USE MongoAssumption
<1>1. CASE count = 0
  BY <1>1 DEF PickSampleSize, GoodSample, AtMost
<1>2. CASE count # 0
  <2>1. PICK k \in Nat : k = (count + OneIn - 1) \div OneIn /\ k * OneIn >= count
    BY <1>2, CeilingFacts
  <2>2. PICK low \in Nat : low = AtMost(MinSamples, count)
    BY DEF AtMost
  <2>3. PickSampleSize(count) = AtMost(AtLeast(k, low), MaxSamples)
    BY <1>2, <2>1, <2>2 DEF PickSampleSize, Clamp
  <2>4. PICK p \in Nat : p = PickSampleSize(count)
    BY <2>3 DEF AtMost, AtLeast
  <2>5. p <= MaxSamples /\ p >= AtMost(low, MaxSamples) /\ (p < MaxSamples => p >= k)
    BY <2>3, <2>4 DEF AtMost, AtLeast
  <2>6. CASE count <= MinSamples
    BY <2>2, <2>4, <2>5, <2>6 DEF AtMost, GoodSample
  <2>7. CASE count > MinSamples
    <3>1. PICK n \in Nat : n = AtMost(p, count)
      BY DEF AtMost
    <3>2. n \in MinSamples .. MaxSamples
      BY <2>2, <2>5, <2>7, <3>1 DEF AtMost
    <3>3. ASSUME n < MaxSamples PROVE n * OneIn >= count
      <4>1. CASE n = count
        <5>1. 1 * count <= OneIn * count
          BY <1>2, TimesMonotonic
        <5>2. OneIn * count = count * OneIn
          OBVIOUS
        <5> QED BY <4>1, <5>1, <5>2
      <4>2. CASE n # count
        <5>1. n >= k
          BY <2>5, <3>1, <3>3, <4>2 DEF AtMost
        <5>2. k * OneIn <= n * OneIn
          BY <5>1, TimesMonotonic
        <5>3. k * OneIn \in Nat /\ n * OneIn \in Nat
          OBVIOUS
        <5> QED BY <2>1, <5>2, <5>3
      <4> QED BY <4>1, <4>2
    <3> QED
      BY <2>4, <2>5, <2>7, <3>1, <3>2, <3>3 DEF GoodSample
  <2> QED BY <2>6, <2>7
<1> QED BY <1>1, <1>2

-----------------------------------------------------------------------------
(* The parts are inductive.                                                *)

LEMMA ListingFacts == Listing \subseteq Collections \ System /\ \A c \in Collections : c \in Listing <=> Live(c)
BY DEF Listing, Live

LEMMA DocsFacts ==
    ASSUME TypeOK, NEW c \in Collections
    PROVE  Docs(c) \in Nat /\ IndexesOf(c) \subseteq Indexes
<1>1. db[c] \in Collection \cup {None}
  BY DEF TypeOK
<1> QED BY <1>1, MongoAssumption DEF Docs, IndexesOf, Collection

LEMMA SampleFacts ==
    ASSUME TypeOK
    PROVE  SampleSize \in 0 .. MaxSamples
<1>1. CASE stats = None
  BY <1>1, PickFacts DEF SampleSize
<1>2. CASE stats # None
  <2>1. stats.count \in Nat
    BY <1>2 DEF TypeOK
  <2> QED BY <1>2, <2>1, PickFacts DEF SampleSize
<1> QED BY <1>1, <1>2

LEMMA NextTypeOK == TypeOK /\ PlaceInv /\ [Next]_vars => TypeOK'
<1> SUFFICES ASSUME TypeOK, PlaceInv, [Next]_vars PROVE TypeOK'
  OBVIOUS
<1> USE DEF TypeOK
<1>1. ASSUME NEW ok \in BOOLEAN, Parse(ok) \/ Ping(ok) PROVE TypeOK'
  BY <1>1 DEF Parse, Ping, joinVars, schemaVars, resultVars, historyVars
<1>2. ASSUME NEW ok \in BOOLEAN, StartCollect(ok) PROVE TypeOK'
  <2>1. /\ tables' = {} /\ indexes' = {} /\ tableStats' = {} /\ indexStats' = {}
        /\ at' = "list" /\ schemaTodo' = {} /\ coll' = None /\ stats' = None
        /\ listed' = {} /\ touched' = {} /\ failed' = {} /\ changes' = 0 /\ db' = db
    BY <1>2 DEF StartCollect, DropResults
  <2>2. /\ statsTodo' \subseteq Collections /\ indexTodo' \subseteq Collections
        /\ phase' \in {"new", "ping", "idle", "collecting", "failed"}
        /\ outcome' \in {"none", "ok", "error"}
    BY <1>2, ListingFacts DEF StartCollect
  <2>3. listFailed' \in BOOLEAN
    BY <1>2, Zenon DEF StartCollect
  <2> QED BY <2>1, <2>2, <2>3, MongoAssumption
<1>3. ASSUME NEW c \in Collections, NEW ok \in BOOLEAN, TableStats(c, ok) PROVE TypeOK'
  <2>1. c \in Collections \ System /\ Docs(c) \in Nat
    BY <1>3, DocsFacts DEF TableStats, PlaceInv
  <2>2. [table |-> c, live |-> Docs(c)] \in [table : Collections \ System, live : Nat]
    BY <2>1
  <2>3. tableStats' \subseteq [table : Collections \ System, live : Nat]
    BY <1>3, <2>2 DEF TableStats
  <2>4. statsTodo' \subseteq Collections /\ failed' \subseteq Collections
    BY <1>3 DEF TableStats, AfterFailure, Fails
  <2>5. UNCHANGED <<db, phase, indexTodo, schemaVars, tables, indexes,
                    indexStats, outcome, listed, listFailed, touched, changes>>
    BY <1>3 DEF TableStats
  <2> QED BY <2>3, <2>4, <2>5 DEF schemaVars
<1>4. ASSUME NEW c \in Collections, NEW got \in SUBSET Indexes, NEW ok \in BOOLEAN,
             IndexStats(c, got, ok)
      PROVE  TypeOK'
  <2>1. c \in Collections \ System
    BY <1>4 DEF IndexStats, PlaceInv
  <2>2. {[table |-> c, index |-> i] : i \in got}
           \subseteq [table : Collections \ System, index : Indexes]
    BY <2>1
  <2>3. indexStats' \subseteq [table : Collections \ System, index : Indexes]
    BY <1>4, <2>2 DEF IndexStats
  <2>4. indexTodo' \subseteq Collections /\ failed' \subseteq Collections
    BY <1>4 DEF IndexStats, AfterFailure, Fails
  <2>5. UNCHANGED <<db, phase, statsTodo, schemaVars, tables, indexes,
                    tableStats, outcome, listed, listFailed, touched, changes>>
    BY <1>4 DEF IndexStats
  <2> QED BY <2>3, <2>4, <2>5 DEF schemaVars
<1>5. ASSUME NEW ok \in BOOLEAN, ListForSchema(ok) PROVE TypeOK'
  <2>1. listFailed' \in BOOLEAN
    BY <1>5, Zenon DEF ListForSchema
  <2>2. UNCHANGED <<db, coll, stats, touched, failed, changes>>
    BY <1>5 DEF ListForSchema
  <2>3. /\ schemaTodo' \subseteq Collections /\ listed' \subseteq Collections
        /\ at' \in {"list", "next"} /\ phase' \in {phase, "idle"} /\ outcome' \in {outcome, "error"}
        /\ statsTodo' \subseteq statsTodo /\ indexTodo' \subseteq indexTodo
        /\ tables' \subseteq tables /\ indexes' \subseteq indexes
        /\ tableStats' \subseteq tableStats /\ indexStats' \subseteq indexStats
    BY <1>5, ListingFacts DEF ListForSchema, joinVars, resultVars, DropResults
  <2> QED BY <2>1, <2>2, <2>3
<1>6. ASSUME NEW c \in Collections, NEW ok \in BOOLEAN, CollStats(c, ok) PROVE TypeOK'
  <2>1. [count |-> Docs(c), sizes |-> IndexesOf(c)] \in [count : Nat, sizes : SUBSET Indexes]
    BY DocsFacts
  <2>2. stats' \in [count : Nat, sizes : SUBSET Indexes] \cup {None}
    BY <1>6, <2>1 DEF CollStats
  <2>3. coll' = c /\ at' = "sample" /\ failed' \subseteq Collections
    BY <1>6 DEF CollStats, Fails
  <2>4. UNCHANGED <<db, phase, joinVars, schemaTodo, resultVars, outcome,
                    listed, listFailed, touched, changes>>
    BY <1>6 DEF CollStats
  <2> QED BY <2>2, <2>3, <2>4 DEF joinVars, resultVars
<1>7. ASSUME NEW n \in 0 .. SampleSize, Sample(n) PROVE TypeOK'
  <2>1. /\ coll \in Collections \ System /\ n \in 0 .. MaxSamples
        /\ (IF stats = None THEN None ELSE stats.count) \in Counts
    BY <1>7, SampleFacts, MongoAssumption DEF Sample, PlaceInv, Counts
  <2>2. [name |-> coll, sampled |-> n, count |-> IF stats = None THEN None ELSE stats.count]
           \in [name : Collections \ System, count : Counts, sampled : 0 .. MaxSamples]
    BY <2>1
  <2>3. tables' \subseteq [name : Collections \ System, count : Counts, sampled : 0 .. MaxSamples]
    BY <1>7, <2>2 DEF Sample, SampleFailureIsFatal, KeepsTable
  <2>4. /\ at' = "indexes" /\ failed' \subseteq Collections
        /\ UNCHANGED <<phase, outcome, db, joinVars, schemaTodo, coll, stats, indexes,
                       tableStats, indexStats, listed, listFailed, touched, changes>>
    BY <1>7 DEF Sample, SampleFailureIsFatal, Fails, PlaceInv
  <2> QED BY <2>3, <2>4 DEF joinVars
<1>8. ASSUME NEW got \in SUBSET Indexes, ListIndexes(got) PROVE TypeOK'
  <2> DEFINE sizes == IF stats = None THEN {} ELSE stats.sizes
  <2>1. coll \in Collections \ System
    BY <1>8 DEF ListIndexes, PlaceInv
  <2>2. \A i \in got : [table |-> coll, name |-> i, sized |-> i \in sizes]
                          \in [table : Collections \ System, name : Indexes, sized : BOOLEAN]
    BY <2>1
  <2>3. indexes' \subseteq [table : Collections \ System, name : Indexes, sized : BOOLEAN]
    <3>1. indexes' = indexes \cup {[table |-> coll, name |-> i, sized |-> i \in sizes] : i \in got}
      BY <1>8 DEF ListIndexes
    <3> HIDE DEF sizes
    <3> QED BY <2>2, <3>1
  <2>4. /\ schemaTodo' \subseteq Collections /\ at' = "next" /\ coll' = None /\ stats' = None
        /\ failed' \subseteq Collections
    BY <1>8, <2>1 DEF ListIndexes, AfterIndexes, Fails
  <2>5. UNCHANGED <<db, phase, joinVars, tables, tableStats, indexStats,
                    outcome, listed, listFailed, touched, changes>>
    BY <1>8 DEF ListIndexes
  <2> QED BY <2>3, <2>4, <2>5 DEF joinVars
<1>9. CASE Deliver
  BY <1>9 DEF Deliver, joinVars, schemaVars, resultVars, historyVars
<1>10. ASSUME NEW c \in Collections, NEW to \in Collection \cup {None}, Change(c, to) PROVE TypeOK'
  <2>1. db' \in [Collections -> Collection \cup {None}]
    BY <1>10 DEF Change
  <2>2. touched' \subseteq Collections /\ changes' \in 0 .. MaxChanges
    BY <1>10, MongoAssumption DEF Change
  <2>3. UNCHANGED <<phase, joinVars, schemaVars, resultVars, outcome, listed, listFailed, failed>>
    BY <1>10 DEF Change
  <2> QED BY <2>1, <2>2, <2>3 DEF joinVars, schemaVars, resultVars
<1>11. CASE UNCHANGED vars
  BY <1>11 DEF vars, joinVars, schemaVars, resultVars, historyVars
<1> QED
  BY <1>1, <1>2, <1>3, <1>4, <1>5, <1>6, <1>7, <1>8, <1>9, <1>10, <1>11
     DEF Next, ConnectStep, CollectStep

LEMMA NextPlaceInv == TypeOK /\ PlaceInv /\ [Next]_vars => PlaceInv'
<1> SUFFICES ASSUME TypeOK, PlaceInv, [Next]_vars PROVE PlaceInv'
  OBVIOUS
<1> USE DEF PlaceInv
<1>1. ASSUME NEW ok \in BOOLEAN, Parse(ok) \/ Ping(ok) PROVE PlaceInv'
  BY <1>1 DEF Parse, Ping, joinVars, schemaVars, resultVars, historyVars
<1>2. ASSUME NEW ok \in BOOLEAN, StartCollect(ok) PROVE PlaceInv'
  BY <1>2, ListingFacts DEF StartCollect, DropResults
<1>3. ASSUME NEW c \in Collections, NEW ok \in BOOLEAN, TableStats(c, ok) PROVE PlaceInv'
  BY <1>3 DEF TableStats, AfterFailure, schemaVars
<1>4. ASSUME NEW c \in Collections, NEW got \in SUBSET Indexes, NEW ok \in BOOLEAN,
             IndexStats(c, got, ok)
      PROVE  PlaceInv'
  BY <1>4 DEF IndexStats, AfterFailure, schemaVars
<1>5. ASSUME NEW ok \in BOOLEAN, ListForSchema(ok) PROVE PlaceInv'
  BY <1>5, ListingFacts DEF ListForSchema, DropResults, joinVars, resultVars
<1>6. ASSUME NEW c \in Collections, NEW ok \in BOOLEAN, CollStats(c, ok) PROVE PlaceInv'
  BY <1>6 DEF CollStats, joinVars, resultVars
<1>7. ASSUME NEW n \in 0 .. SampleSize, Sample(n) PROVE PlaceInv'
  BY <1>7 DEF Sample, SampleFailureIsFatal, KeepsTable, joinVars
<1>8. ASSUME NEW got \in SUBSET Indexes, ListIndexes(got) PROVE PlaceInv'
  BY <1>8 DEF ListIndexes, AfterIndexes, joinVars
<1>9. CASE Deliver
  BY <1>9 DEF Deliver, joinVars, schemaVars, resultVars, historyVars
<1>10. ASSUME NEW c \in Collections, NEW to \in Collection \cup {None}, Change(c, to) PROVE PlaceInv'
  BY <1>10 DEF Change, joinVars, schemaVars, resultVars
<1>11. CASE UNCHANGED vars
  BY <1>11 DEF vars, joinVars, schemaVars, resultVars, historyVars
<1> QED
  BY <1>1, <1>2, <1>3, <1>4, <1>5, <1>6, <1>7, <1>8, <1>9, <1>10, <1>11
     DEF Next, ConnectStep, CollectStep

LEMMA NextSchemaInv == TypeOK /\ PlaceInv /\ SchemaInv /\ [Next]_vars => SchemaInv'
<1> SUFFICES ASSUME TypeOK, PlaceInv, SchemaInv, [Next]_vars PROVE SchemaInv'
  OBVIOUS
<1>1. ASSUME UNCHANGED <<at, schemaTodo, coll, tables, indexes, listed>> PROVE SchemaInv'
  BY <1>1 DEF SchemaInv, HasTable
<1>2. ASSUME NEW ok \in BOOLEAN, Parse(ok) \/ Ping(ok) PROVE SchemaInv'
  BY <1>1, <1>2 DEF Parse, Ping, schemaVars, resultVars, historyVars
<1>3. ASSUME NEW ok \in BOOLEAN, StartCollect(ok) PROVE SchemaInv'
  BY <1>3 DEF StartCollect, DropResults, SchemaInv, HasTable
<1>4. ASSUME NEW c \in Collections, NEW ok \in BOOLEAN, TableStats(c, ok) PROVE SchemaInv'
  BY <1>1, <1>4 DEF TableStats, schemaVars
<1>5. ASSUME NEW c \in Collections, NEW got \in SUBSET Indexes, NEW ok \in BOOLEAN,
             IndexStats(c, got, ok)
      PROVE  SchemaInv'
  BY <1>1, <1>5 DEF IndexStats, schemaVars
<1>6. ASSUME NEW ok \in BOOLEAN, ListForSchema(ok) PROVE SchemaInv'
  <2>1. at = "list" /\ tables = {} /\ indexes = {}
    BY <1>6 DEF ListForSchema, PlaceInv
  <2>2. CASE ok
    BY <1>6, <2>1, <2>2 DEF ListForSchema, resultVars, SchemaInv, HasTable
  <2>3. CASE ~ok
    BY <1>6, <2>1, <2>3 DEF ListForSchema, DropResults, SchemaInv
  <2> QED BY <2>2, <2>3
<1>7. ASSUME NEW c \in Collections, NEW ok \in BOOLEAN, CollStats(c, ok) PROVE SchemaInv'
  BY <1>7 DEF CollStats, resultVars, SchemaInv, HasTable
<1>8. ASSUME NEW n \in 0 .. SampleSize, Sample(n) PROVE SchemaInv'
  <2> DEFINE new == [name |-> coll, sampled |-> n,
                     count |-> IF stats = None THEN None ELSE stats.count]
  <2>1. /\ at = "sample" /\ at' = "indexes" /\ coll \in schemaTodo
        /\ tables' = tables \cup {new}
        /\ UNCHANGED <<schemaTodo, coll, indexes, listed>>
    BY <1>8 DEF Sample, SampleFailureIsFatal, KeepsTable, PlaceInv
  <2>2. new.name = coll
    OBVIOUS
  <2>3. \A t \in tables : t.name # coll
    BY <2>1 DEF SchemaInv, HasTable
  <2> HIDE DEF new
  <2> QED BY <2>1, <2>2, <2>3 DEF SchemaInv, HasTable
<1>9. ASSUME NEW got \in SUBSET Indexes, ListIndexes(got) PROVE SchemaInv'
  <2> DEFINE sizes == IF stats = None THEN {} ELSE stats.sizes
  <2> DEFINE new == {[table |-> coll, name |-> i, sized |-> i \in sizes] : i \in got}
  <2>1. /\ at = "indexes" /\ at' = "next" /\ coll \in schemaTodo /\ coll \in listed
        /\ schemaTodo' = schemaTodo \ {coll} /\ indexes' = indexes \cup new
        /\ UNCHANGED <<tables, listed>>
    BY <1>9 DEF ListIndexes, AfterIndexes, PlaceInv
  <2>2. \A i \in new : i.table = coll
    OBVIOUS
  <2>3. \A c : HasTable(c)' <=> HasTable(c)
    BY <2>1 DEF HasTable
  <2> HIDE DEF new
  <2> QED BY <2>1, <2>2, <2>3 DEF SchemaInv
<1>10. CASE Deliver
  BY <1>1, <1>10 DEF Deliver, schemaVars, resultVars, historyVars
<1>11. ASSUME NEW c \in Collections, NEW to \in Collection \cup {None}, Change(c, to)
       PROVE  SchemaInv'
  BY <1>1, <1>11 DEF Change, schemaVars, resultVars
<1>12. CASE UNCHANGED vars
  BY <1>1, <1>12 DEF vars, schemaVars, resultVars, historyVars
<1> QED
  BY <1>2, <1>3, <1>4, <1>5, <1>6, <1>7, <1>8, <1>9, <1>10, <1>11, <1>12
     DEF Next, ConnectStep, CollectStep

(* What a step does not touch of a collection stays as it is. *)
LEMMA StatsFrame ==
    ASSUME NEW d, StatsSo(d), UNCHANGED <<db, statsTodo, tableStats>>
    PROVE  StatsSo(d)'
BY DEF StatsSo, Live

LEMMA IndexStatsFrame ==
    ASSUME NEW d, IndexStatsSo(d), UNCHANGED <<db, indexTodo, indexStats>>
    PROVE  IndexStatsSo(d)'
BY DEF IndexStatsSo, Live

LEMMA SchemaFrame ==
    ASSUME NEW d, ListedSo(d), WorkSo(d), TableSo(d), IndexesSo(d),
           UNCHANGED <<db, at, schemaTodo, coll, stats, tables, indexes, listed>>
    PROVE  ListedSo(d)' /\ WorkSo(d)' /\ TableSo(d)' /\ IndexesSo(d)'
<1>1. ListedSo(d)' /\ WorkSo(d)'
  BY DEF ListedSo, WorkSo, Live
<1>2. TableSo(d)'
  BY DEF TableSo, HasTable, OneTable
<1>3. IndexesSo(d)'
  BY DEF IndexesSo
<1> QED BY <1>1, <1>2, <1>3

LEMMA LiveDocs ==
    ASSUME TypeOK, NEW c \in Collections, Live(c)
    PROVE  Docs(c) = db[c].docs /\ IndexesOf(c) = db[c].indexes /\ db[c] \in Collection
BY DEF TypeOK, Live, Docs, IndexesOf

LEMMA NextTearInv ==
    TypeOK /\ PlaceInv /\ SchemaInv /\ TearInv /\ [Next]_vars => TearInv'
<1> SUFFICES ASSUME TypeOK, PlaceInv, SchemaInv, TearInv, [Next]_vars PROVE TearInv'
  OBVIOUS
<1>1. ASSUME NEW ok \in BOOLEAN, Parse(ok) \/ Ping(ok) PROVE TearInv'
  BY <1>1 DEF Parse, Ping, PlaceInv, TearInv
<1>2. ASSUME NEW ok \in BOOLEAN, StartCollect(ok) PROVE TearInv'
  <2>1. CASE ~ok
    BY <1>2, <2>1 DEF StartCollect, TearInv
  <2>2. CASE ok
    <3>1. /\ tables' = {} /\ indexes' = {} /\ tableStats' = {} /\ indexStats' = {}
          /\ at' = "list" /\ schemaTodo' = {} /\ listed' = {} /\ db' = db
          /\ statsTodo' = Listing /\ indexTodo' = Listing
      BY <1>2, <2>2 DEF StartCollect, DropResults
    <3>2. ASSUME NEW d \in Collections PROVE AllSo(d)'
      <4>1. StatsSo(d)' /\ IndexStatsSo(d)'
        BY <3>1, ListingFacts DEF StatsSo, IndexStatsSo, Live
      <4>2. ListedSo(d)' /\ WorkSo(d)' /\ TableSo(d)' /\ IndexesSo(d)'
        BY <3>1 DEF ListedSo, WorkSo, TableSo, HasTable, IndexesSo
      <4> QED BY <4>1, <4>2 DEF AllSo
    <3> QED BY <3>2 DEF TearInv
  <2> QED BY <2>1, <2>2
<1>3. ASSUME NEW c \in Collections, NEW ok \in BOOLEAN, TableStats(c, ok) PROVE TearInv'
  <2>1. /\ phase = "collecting" /\ c \in statsTodo
        /\ UNCHANGED <<db, phase, indexTodo, at, schemaTodo, coll, stats, tables, indexes,
                       indexStats, outcome, listed, touched>>
        /\ statsTodo' = statsTodo \ {c} /\ failed \subseteq failed' /\ (ok \/ c \in failed')
        /\ tableStats' = IF ok THEN tableStats \cup {[table |-> c, live |-> Docs(c)]} ELSE tableStats
    BY <1>3 DEF TableStats, AfterFailure, Fails, schemaVars
  <2>2. ASSUME NEW d \in Collections \ (touched \cup failed') PROVE AllSo(d)'
    <3>1. AllSo(d)
      BY <2>1, <2>2 DEF TearInv
    <3>2. IndexStatsSo(d)' /\ ListedSo(d)' /\ WorkSo(d)' /\ TableSo(d)' /\ IndexesSo(d)'
      BY <2>1, <3>1, IndexStatsFrame, SchemaFrame DEF AllSo
    <3>3. CASE d = c
      <4>1. ok /\ Live(d) /\ {s \in tableStats : s.table = d} = {}
        BY <2>1, <2>2, <3>1, <3>3 DEF AllSo, StatsSo
      <4>2. tableStats' = tableStats \cup {[table |-> d, live |-> db[d].docs]}
        BY <2>1, <3>3, <4>1, LiveDocs
      <4>3. {s \in tableStats' : s.table = d} = {[table |-> d, live |-> db[d].docs]}
        BY <4>1, <4>2
      <4> QED BY <2>1, <3>2, <3>3, <4>1, <4>3 DEF AllSo, StatsSo, Live
    <3>4. CASE d # c
      <4>1. {s \in tableStats' : s.table = d} = {s \in tableStats : s.table = d}
        BY <2>1, <3>4
      <4> QED BY <2>1, <3>1, <3>2, <3>4, <4>1 DEF AllSo, StatsSo, Live
    <3> QED BY <3>3, <3>4
  <2> QED BY <2>1, <2>2 DEF TearInv
<1>4. ASSUME NEW c \in Collections, NEW got \in SUBSET Indexes, NEW ok \in BOOLEAN,
             IndexStats(c, got, ok)
      PROVE  TearInv'
  <2> DEFINE new == {[table |-> c, index |-> i] : i \in got}
  <2>1. /\ phase = "collecting" /\ c \in indexTodo
        /\ UNCHANGED <<db, phase, statsTodo, at, schemaTodo, coll, stats, tables, indexes,
                       tableStats, outcome, listed, touched>>
        /\ indexTodo' = indexTodo \ {c} /\ failed \subseteq failed'
        /\ got = IndexesOf(c) \/ c \in failed'
        /\ indexStats' = indexStats \cup new
    BY <1>4 DEF IndexStats, AfterFailure, Fails, schemaVars
  <2>2. ASSUME NEW d \in Collections \ (touched \cup failed') PROVE AllSo(d)'
    <3>1. AllSo(d)
      BY <2>1, <2>2 DEF TearInv
    <3>2. StatsSo(d)' /\ ListedSo(d)' /\ WorkSo(d)' /\ TableSo(d)' /\ IndexesSo(d)'
      BY <2>1, <3>1, StatsFrame, SchemaFrame DEF AllSo
    <3>3. CASE d = c
      <4>1. Live(d) /\ {s \in indexStats : s.table = d} = {}
        BY <2>1, <3>1, <3>3 DEF AllSo, IndexStatsSo
      <4>2. got = db[d].indexes
        BY <2>1, <2>2, <3>3, <4>1, LiveDocs
      <4>3. \A s \in new : s.table = d
        BY <3>3
      <4>4. {s \in indexStats' : s.table = d} = new
        <5> HIDE DEF new
        <5> QED BY <2>1, <4>1, <4>3
      <4> QED BY <2>1, <3>2, <3>3, <4>1, <4>2, <4>4 DEF AllSo, IndexStatsSo, Live
    <3>4. CASE d # c
      <4>1. \A s \in new : s.table # d
        BY <3>4
      <4>2. {s \in indexStats' : s.table = d} = {s \in indexStats : s.table = d}
        <5> HIDE DEF new
        <5> QED BY <2>1, <4>1
      <4> QED BY <2>1, <3>1, <3>2, <3>4, <4>2 DEF AllSo, IndexStatsSo, Live
    <3> QED BY <3>3, <3>4
  <2> QED BY <2>1, <2>2 DEF TearInv
<1>5. ASSUME NEW ok \in BOOLEAN, ListForSchema(ok) PROVE TearInv'
  <2>1. CASE ~ok
    BY <1>5, <2>1 DEF ListForSchema, TearInv
  <2>2. CASE ok
    <3>1. /\ phase = "collecting" /\ at = "list" /\ tables = {} /\ indexes = {}
          /\ at' = "next" /\ schemaTodo' = Listing /\ listed' = Listing
          /\ UNCHANGED <<db, statsTodo, indexTodo, tableStats, indexStats, tables, indexes,
                         touched, failed>>
      BY <1>5, <2>2 DEF ListForSchema, PlaceInv, joinVars, resultVars
    <3>2. ASSUME NEW d \in Collections \ (touched \cup failed) PROVE AllSo(d)'
      <4>1. AllSo(d)
        BY <3>1 DEF TearInv
      <4>2. StatsSo(d)' /\ IndexStatsSo(d)'
        BY <3>1, <4>1, StatsFrame, IndexStatsFrame DEF AllSo
      <4>3. ListedSo(d)' /\ WorkSo(d)' /\ TableSo(d)' /\ IndexesSo(d)'
        BY <3>1, ListingFacts DEF ListedSo, WorkSo, TableSo, HasTable, IndexesSo, Live
      <4> QED BY <4>2, <4>3 DEF AllSo
    <3> QED BY <3>1, <3>2 DEF TearInv
  <2> QED BY <2>1, <2>2
<1>6. ASSUME NEW c \in Collections, NEW ok \in BOOLEAN, CollStats(c, ok) PROVE TearInv'
  <2>1. /\ phase = "collecting" /\ at = "next" /\ c \in schemaTodo /\ coll' = c /\ at' = "sample"
        /\ UNCHANGED <<db, phase, statsTodo, indexTodo, schemaTodo, tables, indexes, tableStats,
                       indexStats, outcome, listed, touched>>
        /\ failed \subseteq failed' /\ (ok \/ c \in failed')
        /\ stats' = IF ok THEN [count |-> Docs(c), sizes |-> IndexesOf(c)] ELSE None
    BY <1>6 DEF CollStats, Fails, joinVars, resultVars
  <2>2. ASSUME NEW d \in Collections \ (touched \cup failed') PROVE AllSo(d)'
    <3>1. AllSo(d)
      BY <2>1, <2>2 DEF TearInv
    <3>2. StatsSo(d)' /\ IndexStatsSo(d)'
      BY <2>1, <3>1, StatsFrame, IndexStatsFrame DEF AllSo
    <3>3. ListedSo(d)' /\ IndexesSo(d)' /\ TableSo(d)'
      BY <2>1, <3>1 DEF AllSo, ListedSo, IndexesSo, TableSo, HasTable, OneTable, Live
    <3>4. WorkSo(d)'
      <4>1. SUFFICES ASSUME d = c PROVE stats' = [count |-> db[d].docs, sizes |-> db[d].indexes]
        BY <2>1 DEF WorkSo
      <4>2. ok /\ Live(d)
        BY <2>1, <2>2, <3>1, <4>1 DEF AllSo, ListedSo, PlaceInv
      <4> QED BY <2>1, <4>1, <4>2, LiveDocs
    <3> QED BY <3>2, <3>3, <3>4 DEF AllSo
  <2> QED BY <2>1, <2>2 DEF TearInv
<1>7. ASSUME NEW n \in 0 .. SampleSize, Sample(n) PROVE TearInv'
  <2> DEFINE new == [name |-> coll, sampled |-> n,
                     count |-> IF stats = None THEN None ELSE stats.count]
  <2>1. /\ phase = "collecting" /\ at = "sample" /\ at' = "indexes" /\ coll \in schemaTodo
        /\ UNCHANGED <<db, phase, statsTodo, indexTodo, schemaTodo, coll, stats, indexes,
                       tableStats, indexStats, outcome, listed, touched>>
        /\ tables' = tables \cup {new} /\ failed \subseteq failed'
        /\ n = AtMost(SampleSize, Docs(coll)) \/ coll \in failed'
    BY <1>7 DEF Sample, SampleFailureIsFatal, KeepsTable, Fails, PlaceInv, joinVars
  <2>2. ASSUME NEW d \in Collections \ (touched \cup failed') PROVE AllSo(d)'
    <3>1. AllSo(d)
      BY <2>1, <2>2 DEF TearInv
    <3>2. StatsSo(d)' /\ IndexStatsSo(d)'
      BY <2>1, <3>1, StatsFrame, IndexStatsFrame DEF AllSo
    <3>3. ListedSo(d)' /\ IndexesSo(d)' /\ WorkSo(d)'
      BY <2>1, <3>1 DEF AllSo, ListedSo, IndexesSo, WorkSo, Live
    <3>4. TableSo(d)'
      <4>1. CASE d = coll
        <5>1. Live(d)
          BY <2>1, <3>1, <4>1 DEF AllSo, ListedSo, PlaceInv
        <5>2. stats = [count |-> db[d].docs, sizes |-> db[d].indexes]
          BY <2>1, <3>1, <4>1 DEF AllSo, WorkSo
        <5>3. stats # None /\ stats.count = db[d].docs /\ db[d].docs \in Nat
          <6>1. db[d] \in Collection
            BY <5>1, LiveDocs
          <6>2. db[d].docs \in Nat /\ db[d].indexes \in SUBSET Indexes
            BY <6>1, MongoAssumption DEF Collection
          <6>3. [count |-> db[d].docs, sizes |-> db[d].indexes] \in [count : Nat, sizes : SUBSET Indexes]
            BY <6>2
          <6> QED BY <5>2, <6>2, <6>3, MongoAssumption
        <5>4. n = AtMost(PickSampleSize(db[d].docs), db[d].docs)
          <6>1. SampleSize = PickSampleSize(db[d].docs) /\ Docs(d) = db[d].docs
            BY <5>1, <5>3, LiveDocs DEF SampleSize
          <6> QED BY <2>1, <2>2, <4>1, <6>1
        <5>5. GoodSample(n, db[d].docs) /\ n \in 0 .. MaxSamples
          <6>1. GoodSample(n, db[d].docs)
            BY <5>3, <5>4, PickFacts
          <6>2. SampleSize \in 0 .. MaxSamples /\ MaxSamples \in Nat
            BY SampleFacts, MongoAssumption
          <6> QED BY <1>7, <6>1, <6>2
        <5>6. new = [name |-> d, count |-> db[d].docs, sampled |-> n]
          BY <4>1, <5>3
        <5>7. \A t \in tables : t.name # d
          BY <2>1, <4>1 DEF SchemaInv, HasTable
        <5>8. {t \in tables' : t.name = d} = {[name |-> d, count |-> db[d].docs, sampled |-> n]}
          BY <2>1, <5>6, <5>7
        <5>9. OneTable(d)'
          <6>1. db' = db
            BY <2>1
          <6>2. \E k \in 0 .. MaxSamples :
                   /\ {t \in tables' : t.name = d} = {[name |-> d, count |-> db[d].docs, sampled |-> k]}
                   /\ GoodSample(k, db[d].docs)
            BY <5>5, <5>8
          <6> QED BY <6>1, <6>2 DEF OneTable, GoodSample
        <5> QED BY <5>9 DEF TableSo
      <4>2. CASE d # coll
        <5>1. HasTable(d)' => HasTable(d)
          BY <2>1, <4>2 DEF HasTable
        <5>2. new.name # d
          BY <4>2
        <5>3. {t \in tables' : t.name = d} = {t \in tables : t.name = d}
          <6> HIDE DEF new
          <6> QED BY <2>1, <5>2
        <5> QED BY <2>1, <3>1, <5>1, <5>3 DEF AllSo, TableSo, OneTable
      <4> QED BY <4>1, <4>2
    <3> QED BY <3>2, <3>3, <3>4 DEF AllSo
  <2> QED BY <2>1, <2>2 DEF TearInv
<1>8. ASSUME NEW got \in SUBSET Indexes, ListIndexes(got) PROVE TearInv'
  <2> DEFINE sizes == IF stats = None THEN {} ELSE stats.sizes
  <2> DEFINE new == {[table |-> coll, name |-> i, sized |-> i \in sizes] : i \in got}
  <2>1. /\ phase = "collecting" /\ at = "indexes" /\ at' = "next"
        /\ coll \in schemaTodo /\ coll \in listed
        /\ UNCHANGED <<db, phase, statsTodo, indexTodo, tables,
                       tableStats, indexStats, outcome, listed, touched>>
        /\ schemaTodo' = schemaTodo \ {coll} /\ indexes' = indexes \cup new
        /\ failed \subseteq failed' /\ (got = IndexesOf(coll) \/ coll \in failed')
    BY <1>8 DEF ListIndexes, AfterIndexes, Fails, PlaceInv, joinVars
  <2>2. ASSUME NEW d \in Collections \ (touched \cup failed') PROVE AllSo(d)'
    <3>1. AllSo(d)
      BY <2>1, <2>2 DEF TearInv
    <3>2. StatsSo(d)' /\ IndexStatsSo(d)'
      BY <2>1, <3>1, StatsFrame, IndexStatsFrame DEF AllSo
    <3>3. ListedSo(d)' /\ WorkSo(d)'
      BY <2>1, <3>1 DEF AllSo, ListedSo, WorkSo, Live
    <3>4. TableSo(d)'
      BY <2>1, <3>1 DEF AllSo, TableSo, HasTable, OneTable
    <3>5. IndexesSo(d)'
      <4>1. CASE d = coll
        <5>1. Live(d) /\ {i \in indexes : i.table = d} = {}
          BY <2>1, <3>1, <4>1 DEF AllSo, ListedSo, IndexesSo, PlaceInv
        <5>2. stats = [count |-> db[d].docs, sizes |-> db[d].indexes]
          BY <2>1, <3>1, <4>1 DEF AllSo, WorkSo
        <5>3. stats # None
          <6>1. db[d] \in Collection
            BY <5>1, LiveDocs
          <6>2. db[d].docs \in Nat /\ db[d].indexes \in SUBSET Indexes
            BY <6>1, MongoAssumption DEF Collection
          <6>3. [count |-> db[d].docs, sizes |-> db[d].indexes] \in [count : Nat, sizes : SUBSET Indexes]
            BY <6>2
          <6> QED BY <5>2, <6>3, MongoAssumption
        <5>4. sizes = db[d].indexes /\ got = db[d].indexes
          BY <2>1, <2>2, <4>1, <5>1, <5>2, <5>3, LiveDocs
        <5>5. new = {[table |-> d, name |-> i, sized |-> TRUE] : i \in db[d].indexes}
          <6> HIDE DEF sizes
          <6>1. \A i \in got : i \in sizes <=> TRUE
            BY <5>4
          <6>2. \A i \in got : [table |-> coll, name |-> i, sized |-> i \in sizes]
                                 = [table |-> d, name |-> i, sized |-> TRUE]
            BY <4>1, <6>1
          <6> QED BY <5>4, <6>2
        <5>6. \A i \in new : i.table = d
          BY <4>1
        <5>7. {i \in indexes' : i.table = d} = new
          <6> HIDE DEF new
          <6> QED BY <2>1, <5>1, <5>6
        <5> QED BY <2>1, <4>1, <5>5, <5>7 DEF IndexesSo
      <4>2. CASE d # coll
        <5>1. \A i \in new : i.table # d
          BY <4>2
        <5>2. {i \in indexes' : i.table = d} = {i \in indexes : i.table = d}
          <6> HIDE DEF new
          <6> QED BY <2>1, <5>1
        <5> QED BY <2>1, <3>1, <4>2, <5>2 DEF AllSo, IndexesSo
      <4> QED BY <4>1, <4>2
    <3> QED BY <3>2, <3>3, <3>4, <3>5 DEF AllSo
  <2> QED BY <2>1, <2>2 DEF TearInv
<1>9. ASSUME phase = "collecting" \/ outcome = "ok",
             UNCHANGED <<db, joinVars, schemaVars, resultVars, historyVars>>
      PROVE  TearInv'
  <2>1. ASSUME NEW d \in Collections \ (touched \cup failed) PROVE AllSo(d)'
    <3>1. AllSo(d)
      BY <1>9, <2>1 DEF TearInv
    <3> QED
      BY <1>9, <3>1, StatsFrame, IndexStatsFrame, SchemaFrame
         DEF AllSo, joinVars, schemaVars, resultVars, historyVars
  <2> QED BY <1>9, <2>1 DEF TearInv, historyVars
<1>10. CASE Deliver
  BY <1>9, <1>10 DEF Deliver
<1>11. ASSUME NEW c \in Collections, NEW to \in Collection \cup {None}, Change(c, to)
       PROVE  TearInv'
  <2>1. /\ phase = "collecting" /\ db' = [db EXCEPT ![c] = to] /\ touched' = touched \cup {c}
        /\ UNCHANGED <<phase, statsTodo, indexTodo, at, schemaTodo, coll, stats, tables, indexes,
                       tableStats, indexStats, outcome, listed, failed>>
    BY <1>11 DEF Change, joinVars, schemaVars, resultVars
  <2>2. ASSUME NEW d \in Collections \ (touched' \cup failed) PROVE AllSo(d)'
    <3>1. AllSo(d) /\ db'[d] = db[d]
      BY <2>1, <2>2 DEF TearInv, TypeOK
    <3>2. StatsSo(d)' /\ IndexStatsSo(d)'
      BY <2>1, <3>1 DEF AllSo, StatsSo, IndexStatsSo, Live
    <3>3. ListedSo(d)' /\ WorkSo(d)' /\ IndexesSo(d)'
      BY <2>1, <3>1 DEF AllSo, ListedSo, WorkSo, IndexesSo, Live
    <3>4. TableSo(d)'
      BY <2>1, <3>1 DEF AllSo, TableSo, HasTable, OneTable, GoodSample
    <3> QED BY <3>2, <3>3, <3>4 DEF AllSo
  <2> QED BY <2>1, <2>2 DEF TearInv
<1>12. CASE UNCHANGED vars
  <2>1. CASE phase = "collecting" \/ outcome = "ok"
    BY <1>9, <1>12, <2>1 DEF vars
  <2>2. CASE ~(phase = "collecting" \/ outcome = "ok")
    BY <1>12, <2>2 DEF vars, TearInv
  <2> QED BY <2>1, <2>2
<1> QED
  BY <1>1, <1>2, <1>3, <1>4, <1>5, <1>6, <1>7, <1>8, <1>10, <1>11, <1>12
     DEF Next, ConnectStep, CollectStep

LEMMA Invariant == Spec => []IInv
<1>1. Init => IInv
  <2> SUFFICES ASSUME Init PROVE IInv
    OBVIOUS
  <2>1. /\ db \in [Collections -> Collection \cup {None}]
        /\ phase = "new" /\ statsTodo = {} /\ indexTodo = {} /\ at = "list" /\ schemaTodo = {}
        /\ coll = None /\ stats = None /\ tables = {} /\ indexes = {} /\ tableStats = {}
        /\ indexStats = {} /\ outcome = "none" /\ listed = {} /\ listFailed = FALSE
        /\ touched = {} /\ failed = {} /\ changes = 0
    BY DEF Init
  <2>2. TypeOK
    <3>1. listFailed \in BOOLEAN
      BY <2>1, Zenon
    <3> QED BY <2>1, <3>1, MongoAssumption DEF TypeOK
  <2>3. PlaceInv /\ SchemaInv /\ TearInv
    BY <2>1 DEF PlaceInv, SchemaInv, HasTable, TearInv
  <2> QED BY <2>2, <2>3 DEF IInv
<1>2. IInv /\ [Next]_vars => IInv'
  BY NextTypeOK, NextPlaceInv, NextSchemaInv, NextTearInv DEF IInv
<1> QED
  BY <1>1, <1>2, PTL DEF Spec

(* Whatever fails or changes while it collects, MongoCollector keeps what it   *)
(* has collected within its types: nothing of a system collection, no sample   *)
(* beyond the limit.                                                         *)
THEOREM MongoTypeCorrect == Spec => []TypeOK
BY Invariant, PTL DEF IInv

(* MongoCollector::collect reads the database with many commands and lists it  *)
(* twice: for any number of collections, changes and failures, what it         *)
(* delivers is wrong only about collections that were changed or failed, and   *)
(* samples of the others have the size pick_sample_size promises.             *)
THEOREM PayloadTornOnlyByChange == Spec => []TornOnlyByChange
<1>1. IInv => TornOnlyByChange
  <2> SUFFICES ASSUME IInv, outcome = "ok", NEW c \in Collections \ (touched \cup failed)
               PROVE  IF c \in System \/ db[c] = None THEN Nothing(c) ELSE Complete(c)
    BY DEF TornOnlyByChange
  <2>1. AllSo(c)
    BY DEF IInv, TearInv
  <2>2. /\ at = "next" /\ statsTodo = {} /\ indexTodo = {} /\ schemaTodo = {}
        /\ c \in listed <=> Live(c)
    BY <2>1 DEF IInv, PlaceInv, AllSo, ListedSo
  <2>3. CASE c \in System \/ db[c] = None
    <3>1. ~Live(c) /\ c \notin listed
      BY <2>2, <2>3 DEF Live
    <3>2. \A t \in tables : t.name # c
      BY <2>2, <3>1 DEF IInv, SchemaInv, HasTable
    <3>3. \A i \in indexes : i.table # c
      BY <3>1 DEF IInv, SchemaInv
    <3>4. \A s \in tableStats : s.table # c
      BY <2>1, <3>1 DEF AllSo, StatsSo
    <3>5. \A s \in indexStats : s.table # c
      BY <2>1, <3>1 DEF AllSo, IndexStatsSo
    <3> QED BY <2>3, <3>2, <3>3, <3>4, <3>5 DEF Nothing
  <2>4. CASE ~(c \in System \/ db[c] = None)
    <3>1. Live(c) /\ c \in listed \ schemaTodo
      BY <2>2, <2>4 DEF Live
    <3>2. OneTable(c)
      BY <2>1, <3>1 DEF AllSo, TableSo, HasTable
    <3>3. {i \in indexes : i.table = c}
            = {[table |-> c, name |-> i, sized |-> TRUE] : i \in db[c].indexes}
      BY <2>1, <3>1 DEF AllSo, IndexesSo
    <3>4. {s \in tableStats : s.table = c} = {[table |-> c, live |-> db[c].docs]}
      BY <2>1, <2>2, <3>1 DEF AllSo, StatsSo
    <3>5. {s \in indexStats : s.table = c}
            = {[table |-> c, index |-> i] : i \in db[c].indexes}
      BY <2>1, <2>2, <3>1 DEF AllSo, IndexStatsSo
    <3>6. Complete(c)
      BY <3>2, <3>3, <3>4, <3>5 DEF Complete, OneTable, GoodSample
    <3> QED BY <2>4, <3>6
  <2> QED BY <2>3, <2>4
<1> QED
  BY <1>1, Invariant, PTL

(* A command that fails costs collect_schema no table, and no other            *)
(* collection anything; only a listing that fails ends the collection.         *)
THEOREM FailuresStayLocal == Spec => []FailureStaysLocal
<1>1. IInv => FailureStaysLocal
  <2> SUFFICES ASSUME IInv PROVE FailureStaysLocal
    OBVIOUS
  <2>1. outcome = "error" => listFailed
    BY DEF IInv, PlaceInv
  <2>2. ASSUME outcome = "ok"
        PROVE  /\ {t.name : t \in tables} = listed
               /\ \A t, u \in tables : t.name = u.name => t = u
               /\ \A i \in indexes : i.table \in listed
    <3>1. at = "next" /\ schemaTodo = {}
      BY <2>2 DEF IInv, PlaceInv
    <3>2. \A t \in tables : t.name \in listed
      BY <3>1 DEF IInv, SchemaInv, HasTable
    <3>3. \A c \in listed : \E t \in tables : t.name = c
      <4>1. listed \subseteq Collections
        BY DEF IInv, PlaceInv
      <4> QED BY <3>1, <4>1 DEF IInv, SchemaInv, HasTable
    <3>4. {t.name : t \in tables} = listed
      BY <3>2, <3>3
    <3> QED BY <3>4 DEF IInv, SchemaInv
  <2> QED BY <2>1, <2>2 DEF FailureStaysLocal
<1> QED
  BY <1>1, Invariant, PTL
=============================================================================
