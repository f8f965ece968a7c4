---------------------------- MODULE SchemaWalker ----------------------------
(***************************************************************************)
(* SchemaWalker of src/src/collector/mongodb/schema.rs: the accumulator     *)
(* that infers a collection's columns from a sample of BSON documents, one  *)
(* statistics record per path, within caps on depth, paths, array elements, *)
(* distinct values and samples.                                             *)
(*                                                                          *)
(* observe_path recurses in document order.  The recursion is the stack     *)
(* `todo`: a step is one call, its children go on top.                       *)
(*                                                                          *)
(* A path is the sequence of its segments; a key with a dot in it is the     *)
(* sequence of its parts, since the code joins with dots.  The hash that     *)
(* stands in for a random index in the reservoir is any index.  Every        *)
(* serialised value weighs one unit.                                         *)
(***************************************************************************)
EXTENDS Integers, FiniteSets, SequencesExt

CONSTANTS
    Values,              \* BSON values: see BsonAssumption
    Documents,           \* those a sampled document may be
    Strings,             \* the texts of scalars and the segments of paths
    MaxDocs,             \* bound: documents in the sample
    MaxDepth,            \* MAX_DEPTH
    MaxPaths,            \* MAX_PATHS_PER_COLLECTION
    MaxArrayElements,    \* MAX_ARRAY_ELEMENTS_PER_DOC
    DistinctCap,         \* DISTINCT_VALUE_CAP
    SampleSlots,         \* SAMPLE_VALUES_PER_PATH
    MaxDistinctTracked   \* MAX_DISTINCT_TRACKED_BYTES

ASSUME WalkerAssumption ==
    /\ MaxDocs \in Nat /\ MaxDepth \in Nat /\ MaxPaths \in Nat
    /\ MaxArrayElements \in Nat /\ DistinctCap \in Nat
    /\ SampleSlots \in Nat /\ MaxDistinctTracked \in Nat

-----------------------------------------------------------------------------
(* BSON values.  A value is a record with its type label, the text of a      *)
(* scalar, the fields of a document and the items of an array.               *)

Labels == {"double", "string", "document", "array", "binary", "undefined", "object_id",
           "bool", "date_time", "null", "regex", "javascript", "symbol", "int32", "int64",
           "timestamp", "decimal128", "db_pointer", "max_key", "min_key"}
Paths == Seq(Strings)

IsLeaf(value) == value.type \notin {"document", "array"}

ASSUME BsonAssumption ==
    /\ {"null", "[]"} \subseteq Strings
    /\ \A value \in Values :
        /\ value.type \in Labels
        /\ value.type = "document" => value.fields \in Seq([key : Paths, value : Values])
        /\ value.type = "array" => value.items \in Seq(Values)
        /\ IsLeaf(value) => value.text \in Strings
    /\ Documents \subseteq {value \in Values : value.type = "document"}

(* bson_to_json, then to_string: what distinct values are told apart by.     *)
(* Types that JSON does not distinguish fall together.                       *)
JsonOf(value) ==
    CASE value.type \in {"null", "undefined"} -> <<"null", "null">>
      [] value.type = "double" /\ value.text = "NaN" -> <<"null", "null">>
      [] value.type \in {"int32", "int64", "double"} -> <<"number", value.text>>
      [] value.type = "bool" -> <<"bool", value.text>>
      [] OTHER -> <<"string", value.text>>
Jsons == {"null", "number", "bool", "string"} \X Strings

-----------------------------------------------------------------------------
VARIABLES
    docsSampled,     \* docs_sampled
    paths,           \* paths: a function from the known paths to their PathStats
    nextPosition,    \* next_position
    distinctBytes,   \* distinct_bytes
    globallyCapped,  \* distinct_globally_capped
    truncated,       \* truncated_paths
    visited,         \* visited_in_doc of the document being observed
    todo,            \* the calls of observe_path to come, the next one first
    sample           \* history: the documents observed

walker == <<docsSampled, paths, nextPosition, distinctBytes, globallyCapped, truncated>>
vars == <<walker, visited, todo, sample>>

NoLength == -1   \* array_max_len is None

-----------------------------------------------------------------------------
(* The calls of observe_path.                                              *)

Call(path, value, depth, inArray) ==
    [path |-> path, value |-> value, depth |-> depth, inArray |-> inArray]

FieldCalls(document, path, depth, inArray) ==
    [i \in 1 .. Len(document.fields) |->
        Call(path \o document.fields[i].key, document.fields[i].value, depth, inArray)]

(* The elements of an array that are walked. *)
Walked(items) ==
    IF Len(items) <= MaxArrayElements THEN items ELSE SubSeq(items, 1, MaxArrayElements)

ElementCalls(array, path, depth) ==
    LET items == Walked(array.items)
    IN  [i \in 1 .. Len(items) |-> Call(path \o <<"[]">>, items[i], depth, TRUE)]

(* Beyond the depth limit a value is not entered.  The variant forgets the    *)
(* limit below arrays.                                                       *)
TooDeep_ArraysFree(call) == call.depth > MaxDepth /\ ~call.inArray
TooDeep(call) == call.depth > MaxDepth

(* The recursive calls that a call makes. *)
Children(call) ==
    CASE call.value.type = "document" ->
            FieldCalls(call.value, call.path, call.depth + 1, call.inArray)
      [] call.value.type = "array" ->
            ElementCalls(call.value, call.path, call.depth + 1)
      [] OTHER -> <<>>

-----------------------------------------------------------------------------
(* record_path.                                                            *)

(* New paths are refused at the cap.  The variant admits one path too many.  *)
Refused_OneTooLate(path) ==
    path \notin DOMAIN paths /\ Cardinality(DOMAIN paths) > MaxPaths
Refused(path) == path \notin DOMAIN paths /\ Cardinality(DOMAIN paths) >= MaxPaths

Entry(path, inArray) ==
    IF path \in DOMAIN paths THEN paths[path]
    ELSE [seen |-> 0, nulls |-> 0, types |-> {}, distinct |-> {}, capped |-> FALSE,
          samples |-> <<>>, samplesSeen |-> 0, maxLen |-> NoLength,
          inArray |-> inArray, position |-> nextPosition]

(* A path counts once per document.  The variant counts every occurrence.    *)
SeenGain_EveryOccurrence(path) == 1
SeenGain(path) == IF path \in visited THEN 0 ELSE 1

(* Distinct values are collected while neither the path nor the whole walk   *)
(* is capped and the path has room; a leaf that finds no room caps the path. *)
(* The variant has no cap per path.                                          *)
Tracks(stats, value) == IsLeaf(value) /\ ~stats.capped /\ ~globallyCapped
HasRoom_Always(stats) == TRUE
HasRoom(stats) == Cardinality(stats.distinct) < DistinctCap

DistinctAfter(stats, value) ==
    IF Tracks(stats, value) /\ HasRoom(stats)
    THEN stats.distinct \cup {JsonOf(value)} ELSE stats.distinct
BytesAfter(stats, value) ==
    IF DistinctAfter(stats, value) = stats.distinct THEN distinctBytes
    ELSE distinctBytes + 1

(* The reservoir: the first leaves fill it, later ones replace the slot that *)
(* the index falls on, if any.                                               *)
SamplesAfter(stats, value, index) ==
    IF ~IsLeaf(value) THEN stats.samples
    ELSE IF Len(stats.samples) < SampleSlots THEN Append(stats.samples, JsonOf(value))
    ELSE IF index < SampleSlots THEN [stats.samples EXCEPT ![index + 1] = JsonOf(value)]
    ELSE stats.samples

(* observe_path: the longest array at this path. *)
MaxLenAfter(stats, value) ==
    IF value.type # "array" THEN stats.maxLen
    ELSE IF Len(value.items) > stats.maxLen THEN Len(value.items) ELSE stats.maxLen

(* The statistics of a path after one more occurrence.                       *)
Observed(stats, call, label, index) ==
    [stats EXCEPT
        !.seen = @ + SeenGain(call.path),
        !.nulls = @ + IF call.value.type = "null" THEN 1 ELSE 0,
        !.types = @ \cup {label},
        !.inArray = @ \/ call.inArray,
        !.distinct = DistinctAfter(stats, call.value),
        !.capped = @ \/ (Tracks(stats, call.value) /\ ~HasRoom(stats)),
        !.samples = SamplesAfter(stats, call.value, index),
        !.samplesSeen = @ + IF IsLeaf(call.value) THEN 1 ELSE 0]

(* A path takes the next position when it is new.  The variant moves the      *)
(* counter at every occurrence.                                              *)
PositionAfter_EveryOccurrence(stats) == nextPosition + 1
PositionAfter(stats) ==
    IF stats.position = nextPosition THEN nextPosition + 1 ELSE nextPosition

RecordPath(call, label, index) ==
    LET stats == Entry(call.path, call.inArray)
        bytes == BytesAfter(stats, call.value)
        after == Observed(stats, call, label, index)
        final == IF TooDeep(call) THEN after
                 ELSE [after EXCEPT !.maxLen = MaxLenAfter(stats, call.value)]
    IN  /\ paths' = [p \in DOMAIN paths \cup {call.path} |->
                        IF p = call.path THEN final ELSE paths[p]]
        /\ nextPosition' = PositionAfter(stats)
        /\ visited' = visited \cup {call.path}
        /\ distinctBytes' = bytes
        /\ globallyCapped' = (globallyCapped \/ bytes > MaxDistinctTracked)

-----------------------------------------------------------------------------
Init ==
    /\ docsSampled = 0
    /\ paths = << >>
    /\ nextPosition = 1
    /\ distinctBytes = 0 /\ globallyCapped = FALSE
    /\ truncated = 0
    /\ visited = {} /\ todo = <<>> /\ sample = <<>>

(* observe_document: its fields are to be observed, at depth 1. *)
ObserveDocument(document) ==
    /\ todo = <<>> /\ docsSampled < MaxDocs
    /\ docsSampled' = docsSampled + 1
    /\ visited' = {}
    /\ todo' = FieldCalls(document, <<>>, 1, FALSE)
    /\ sample' = Append(sample, document)
    /\ UNCHANGED <<paths, nextPosition, distinctBytes, globallyCapped, truncated>>

(* One call of observe_path.  Beyond the depth limit the value is recorded   *)
(* under a label of its own and not entered.  A refused path is counted as   *)
(* truncated, but its children are visited all the same.                     *)
ObservePath(index) ==
    /\ todo # <<>>
    /\ LET call == Head(todo)
           label == IF TooDeep(call) THEN "<truncated>" ELSE call.value.type
       IN  /\ index \in 0 .. Entry(call.path, call.inArray).samplesSeen
           /\ IF Refused(call.path)
              THEN UNCHANGED <<paths, nextPosition, visited, distinctBytes, globallyCapped>>
              ELSE RecordPath(call, label, index)
           /\ truncated' = truncated + (IF TooDeep(call) THEN 1 ELSE 0)
                                     + (IF Refused(call.path) THEN 1 ELSE 0)
           /\ todo' = (IF TooDeep(call) THEN <<>> ELSE Children(call)) \o Tail(todo)
    /\ UNCHANGED <<docsSampled, sample>>

Next ==
    \/ \E document \in Documents : ObserveDocument(document)
    \/ \E index \in 0 .. SampleSlots : ObservePath(index)

Spec == Init /\ [][Next]_vars

-----------------------------------------------------------------------------
(* into_columns.                                                           *)

(* A column is nullable when a null was seen or a document lacked it.  The    *)
(* variant looks at nulls only.                                              *)
Nullable_NullsOnly(stats) == stats.nulls > 0
Nullable(stats) == stats.nulls > 0 \/ stats.seen < docsSampled

(* The flag of a distinct count that may be short.  The variant forgets the  *)
(* cap of the whole walk.                                                    *)
DistinctCapped_PathOnly(stats) == stats.capped
DistinctCapped(stats) == stats.capped \/ globallyCapped

(* The rates are fractions of max(1, docs_sampled) documents; only the       *)
(* numerators are kept here.                                                 *)
Column(path) ==
    LET stats == paths[path]
    IN  [presence |-> stats.seen,
         nulls |-> stats.nulls,
         nullable |-> Nullable(stats),
         dataType |-> IF Cardinality(stats.types) = 1
                      THEN CHOOSE t \in stats.types : TRUE ELSE "mixed",
         distinctCount |-> Cardinality(stats.distinct),
         distinctKnown |-> ~(globallyCapped /\ stats.distinct = {}),
         distinctCapped |-> DistinctCapped(stats),
         arrayMaxLen |-> stats.maxLen,
         position |-> stats.position]

-----------------------------------------------------------------------------
(* Properties.                                                             *)

Stats == [seen : Nat, nulls : Nat, types : SUBSET (Labels \cup {"<truncated>"}),
          distinct : SUBSET Jsons, capped : BOOLEAN, samples : Seq(Jsons),
          samplesSeen : Nat, maxLen : Nat \cup {NoLength}, inArray : BOOLEAN,
          position : Nat \ {0}]

TypeOK ==
    /\ docsSampled \in 0 .. MaxDocs
    /\ \A p \in DOMAIN paths : p \in Paths /\ paths[p] \in Stats
    /\ nextPosition \in Nat \ {0}
    /\ distinctBytes \in Nat /\ globallyCapped \in BOOLEAN
    /\ truncated \in Nat
    /\ visited \subseteq DOMAIN paths
    /\ \A i \in DOMAIN todo :
        /\ todo[i].path \in Paths /\ todo[i].value.type \in Labels
        /\ todo[i].depth \in 1 .. MaxDepth + 1 /\ todo[i].inArray \in BOOLEAN
    /\ Len(sample) = docsSampled

(* presence_rate lies between 0 and 1 and is never 0: a path counts once per *)
(* document, however often arrays or colliding keys make it occur in one.    *)
PresenceWithinSample == \A p \in DOMAIN paths : paths[p].seen \in 1 .. docsSampled

(* The positions of the columns are 1, 2, 3, ... without gap or repetition,   *)
(* although the counter is moved by a comparison with the entry's own field. *)
PositionsDense ==
    /\ nextPosition = Cardinality(DOMAIN paths) + 1
    /\ {paths[p].position : p \in DOMAIN paths} = 1 .. Cardinality(DOMAIN paths)

(* The module's claim that memory stays bounded: paths, values per path,     *)
(* samples per path and values in all.                                       *)
MemoryBounded ==
    /\ Cardinality(DOMAIN paths) <= MaxPaths
    /\ \A p \in DOMAIN paths :
        /\ Cardinality(paths[p].distinct) <= DistinctCap
        /\ Len(paths[p].samples) <= SampleSlots
    /\ distinctBytes <= MaxDistinctTracked + 1

(* null_rate is a fraction of the sampled documents. *)
NullRateIsFraction == \A p \in DOMAIN paths : paths[p].nulls <= docsSampled

-----------------------------------------------------------------------------
(* What the documents themselves show: their occurrences of paths, and counts *)
(* over them.                                                              *)

Calls == [path : Paths, value : Values, depth : Nat \ {0}, inArray : BOOLEAN]

(* What a call and the calls within it come to, in document order: itself,    *)
(* then those of its parts, as many levels down as there is room for.        *)
Walks ==
    LET walk[room \in 0 .. MaxDepth] ==
            [call \in Calls |->
                <<call>> \o (IF room = 0 THEN <<>>
                             ELSE FlattenSeq([i \in DOMAIN Children(call) |->
                                                walk[room - 1][Children(call)[i]]]))]
    IN walk

Occurrences(calls) ==
    FlattenSeq([i \in DOMAIN calls |-> Walks[MaxDepth + 1 - calls[i].depth][calls[i]]])

(* The occurrences of the sample, each with the number of its document. *)
Labelled(n, calls) == [i \in DOMAIN calls |-> [document |-> n, call |-> calls[i]]]

InSample ==
    FlattenSeq([n \in DOMAIN sample |->
        Labelled(n, Occurrences(FieldCalls(sample[n], <<>>, 1, FALSE)))])

LabelOf(call) == IF call.depth > MaxDepth THEN "<truncated>" ELSE call.value.type

(* Where among the occurrences the path is, and its leaves' values. *)
At(path, all) == {i \in DOMAIN all : all[i].call.path = path}
LeavesAt(path, all) == {i \in At(path, all) : IsLeaf(all[i].call.value)}
NullsAt(path, all) == {i \in At(path, all) : all[i].call.value.type = "null"}
JsonsAt(path, all) == {JsonOf(all[i].call.value) : i \in LeavesAt(path, all)}

(* The paths that the first i occurrences show, and how many. *)
PathsTo(i, all) == {all[j].call.path : j \in 1 .. i}
Shown(i, all) == Cardinality(PathsTo(i, all))

DocumentsAt(path, all) == {all[i].document : i \in At(path, all)}
TypesAt(path, all) == {LabelOf(all[i].call) : i \in At(path, all)}
LengthsAt(path, all) == {Len(all[i].call.value.items) :
                            i \in {j \in At(path, all) : LabelOf(all[j].call) = "array"}}

(* The arrays a path runs through: its `[]' ancestors. *)
Ancestors(path) ==
    {SubSeq(path, 1, n) : n \in {n \in 0 .. Len(path) - 1 : path[n + 1] = "[]"}}
Below(path) == Ancestors(path) # {}

StatsMatch(path, all) ==
    LET stats == paths[path]
        lengths == LengthsAt(path, all) \cup {NoLength}
    IN
    /\ stats.seen = Cardinality(DocumentsAt(path, all))
    /\ stats.nulls = Cardinality(NullsAt(path, all))
    /\ stats.types = TypesAt(path, all)
    /\ stats.inArray = \E i \in At(path, all) : all[i].call.inArray
    /\ ~Below(path) => stats.maxLen \in lengths /\ \A length \in lengths : length <= stats.maxLen
    /\ stats.samplesSeen = Cardinality(LeavesAt(path, all))

(* The position is the path's number in the order of first occurrence. *)
PositionMatches(path, all) ==
    \E i \in At(path, all) :
        /\ \A j \in At(path, all) : i <= j
        /\ paths[path].position = Shown(i, all)

(* The paths there is room for, in the order of first occurrence. *)
FirstPaths(all) == {all[i].call.path : i \in {j \in DOMAIN all : Shown(j, all) <= MaxPaths}}

(* Between two documents, what has been accumulated call by call is what the *)
(* sample says: the first paths of it, as many as fit, in order, in how many *)
(* documents, with how many nulls, of which types, and, outside arrays, with  *)
(* arrays of which length (below them see ArrayLengthIsAncestors).            *)
CountsMatchSample ==
    todo = <<>> =>
        LET all == InSample IN
        /\ DOMAIN paths = FirstPaths(all)
        /\ \A p \in DOMAIN paths : StatsMatch(p, all) /\ PositionMatches(p, all)

(* payload/mod.rs: array_max_len of a path below arrays is the length of the   *)
(* longest array met at one of its `[]' ancestors.                           *)
ArrayLengthIsAncestors ==
    todo = <<>> =>
        LET all == InSample IN
        \A p \in DOMAIN paths :
            LET lengths == UNION {LengthsAt(q, all) : q \in Ancestors(p)}
            IN  lengths # {} => Column(p).arrayMaxLen = Max(lengths)

(* What a finished column claims of its path is true of the sample.  A count   *)
(* of distinct values is exact unless it is flagged as capped, and a lower    *)
(* bound in any case; samples are values of the path, as many as there is     *)
(* room for; a column that is not nullable has a value in every document, and *)
(* never a null.                                                             *)
DistinctIsHonest(p, values) ==
    /\ paths[p].distinct \subseteq values
    /\ ~Column(p).distinctCapped => paths[p].distinct = values

SamplesAreHonest(p, values) ==
    LET samples == paths[p].samples
        leaves == paths[p].samplesSeen
    IN  /\ Range(samples) \subseteq values
        /\ Len(samples) = IF leaves < SampleSlots THEN leaves ELSE SampleSlots

AlwaysThere(p, all) ==
    /\ DocumentsAt(p, all) = 1 .. docsSampled
    /\ NullsAt(p, all) = {}

ColumnsAreHonest ==
    todo = <<>> =>
        LET all == InSample IN
        \A p \in DOMAIN paths :
            /\ DistinctIsHonest(p, JsonsAt(p, all))
            /\ SamplesAreHonest(p, JsonsAt(p, all))
            /\ ~Column(p).nullable => AlwaysThere(p, all)
=============================================================================
