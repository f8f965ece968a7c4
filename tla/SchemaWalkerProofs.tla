------------------------- MODULE SchemaWalkerProofs -------------------------
(***************************************************************************)
(* For any documents and any caps: what is accumulated stays within the caps, *)
(* the columns are numbered densely, and presence is a fraction; the state is *)
(* well typed; and what is kept of a path is what a count over the documents' *)
(* occurrences gives, so that the columns tell the truth about the sample.   *)
(***************************************************************************)
EXTENDS SchemaWalker, Recursion, SequenceTheorems

Fields == {"seen", "nulls", "types", "distinct", "capped", "samples", "samplesSeen",
           "maxLen", "inArray", "position"}

(* What the arithmetic of one PathStats needs.                               *)
WellFormed(stats) ==
    /\ DOMAIN stats = Fields
    /\ stats.seen \in Nat
    /\ IsFiniteSet(stats.distinct) /\ Cardinality(stats.distinct) <= DistinctCap
    /\ \E S : stats.samples \in Seq(S)
    /\ Len(stats.samples) <= SampleSlots

PathsOK ==
    /\ IsFiniteSet(DOMAIN paths) /\ Cardinality(DOMAIN paths) <= MaxPaths
    /\ \A p \in DOMAIN paths : WellFormed(paths[p])

(* A path not yet visited in this document lags behind the documents.        *)
PresenceInv ==
    /\ docsSampled \in Nat /\ (todo # <<>> => docsSampled >= 1)
    /\ visited \subseteq DOMAIN paths
    /\ \A p \in DOMAIN paths : /\ paths[p].seen \in 1 .. docsSampled
                               /\ p \notin visited => paths[p].seen < docsSampled

(* The walk is capped before its values exceed the ceiling by more than one. *)
BytesInv ==
    /\ distinctBytes \in Nat /\ distinctBytes <= MaxDistinctTracked + 1
    /\ distinctBytes > MaxDistinctTracked => globallyCapped

WalkerInv == PathsOK /\ PresenceInv /\ PositionsDense /\ BytesInv

-----------------------------------------------------------------------------
(* What one more occurrence does to the statistics of a path.                *)

LEMMA EntryWellFormed ==
    ASSUME PathsOK, NEW path, NEW inArray
    PROVE  WellFormed(Entry(path, inArray))
<1> USE WalkerAssumption
<1>1. CASE path \in DOMAIN paths
      BY <1>1 DEF PathsOK, Entry
<1>2. CASE path \notin DOMAIN paths
  <2> DEFINE e == Entry(path, inArray)
  <2>1. /\ DOMAIN e = Fields
        /\ e.seen = 0 /\ e.distinct = {} /\ e.samples = <<>>
        BY <1>2 DEF Entry, Fields
  <2>2. IsFiniteSet({}) /\ Cardinality({}) = 0
        BY FS_EmptySet
  <2>3. <<>> \in Seq({}) /\ Len(<<>>) = 0
        OBVIOUS
  <2> HIDE DEF e
  <2>4. QED  BY <2>1, <2>2, <2>3 DEF WellFormed, e
<1>3. QED  BY <1>1, <1>2

LEMMA DistinctWithinCap ==
    ASSUME NEW stats, WellFormed(stats), NEW value
    PROVE  /\ IsFiniteSet(DistinctAfter(stats, value))
           /\ Cardinality(DistinctAfter(stats, value)) <= DistinctCap
<1> USE WalkerAssumption
<1>1. CASE DistinctAfter(stats, value) = stats.distinct
      BY <1>1 DEF WellFormed
<1>2. CASE DistinctAfter(stats, value) # stats.distinct
  <2>1. /\ DistinctAfter(stats, value) = stats.distinct \cup {JsonOf(value)}
        /\ Cardinality(stats.distinct) < DistinctCap
        BY <1>2 DEF DistinctAfter, HasRoom
  <2>2. IsFiniteSet(stats.distinct) /\ Cardinality(stats.distinct) \in Nat
        BY FS_CardinalityType DEF WellFormed
  <2>3. IsFiniteSet(stats.distinct \cup {JsonOf(value)})
        /\ Cardinality(stats.distinct \cup {JsonOf(value)}) <= Cardinality(stats.distinct) + 1
        BY <2>2, FS_AddElement
  <2>4. Cardinality(stats.distinct \cup {JsonOf(value)}) \in Nat
        BY <2>3, FS_CardinalityType
  <2>5. QED  BY <2>1, <2>2, <2>3, <2>4
<1>3. QED  BY <1>1, <1>2

LEMMA SamplesWithinSlots ==
    ASSUME NEW stats, WellFormed(stats), NEW value, NEW index \in Nat
    PROVE  /\ \E S : SamplesAfter(stats, value, index) \in Seq(S)
           /\ Len(SamplesAfter(stats, value, index)) <= SampleSlots
<1> USE WalkerAssumption
<1>1. PICK S : stats.samples \in Seq(S)
      BY DEF WellFormed
<1> DEFINE json == JsonOf(value)
           T == S \cup {json}
<1>2. stats.samples \in Seq(T) /\ json \in T /\ Len(stats.samples) \in Nat
      BY <1>1
<1> HIDE DEF T, json
<1>3. CASE SamplesAfter(stats, value, index) = stats.samples
      BY <1>1, <1>3 DEF WellFormed
<1>4. CASE /\ SamplesAfter(stats, value, index) = Append(stats.samples, json)
           /\ Len(stats.samples) < SampleSlots
  <2>1. Append(stats.samples, json) \in Seq(T)
        /\ Len(Append(stats.samples, json)) = Len(stats.samples) + 1
        BY <1>2
  <2>2. QED  BY <1>2, <1>4, <2>1
<1>5. CASE SamplesAfter(stats, value, index) = [stats.samples EXCEPT ![index + 1] = json]
  <2>1. [stats.samples EXCEPT ![index + 1] = json] \in Seq(T)
        /\ Len([stats.samples EXCEPT ![index + 1] = json]) = Len(stats.samples)
    <3>1. CASE index + 1 \in 1 .. Len(stats.samples)
          BY <1>2, <3>1, ExceptSeq
    <3>2. CASE index + 1 \notin DOMAIN stats.samples
      <4>1. [stats.samples EXCEPT ![index + 1] = json] = stats.samples
            BY <1>2, <3>2
      <4>2. QED  BY <1>2, <4>1
    <3>3. QED  BY <1>2, <3>1, <3>2
  <2>2. QED  BY <1>5, <2>1 DEF WellFormed
<1>6. QED  BY <1>3, <1>4, <1>5 DEF SamplesAfter, json

(* The fields the invariants speak of, after an occurrence.                   *)
Carries(after, stats, call, index) ==
    /\ DOMAIN after = Fields
    /\ after.seen = stats.seen + SeenGain(call.path)
    /\ after.distinct = DistinctAfter(stats, call.value)
    /\ after.samples = SamplesAfter(stats, call.value, index)
    /\ after.position = stats.position

LEMMA ObservedFields ==
    ASSUME NEW stats, DOMAIN stats = Fields, NEW call, NEW label, NEW index, NEW length
    PROVE  /\ Carries(Observed(stats, call, label, index), stats, call, index)
           /\ Carries([Observed(stats, call, label, index) EXCEPT !.maxLen = length],
                      stats, call, index)
<1> DEFINE o == Observed(stats, call, label, index)
<1>1. Carries(o, stats, call, index)
      BY DEF Observed, Fields, Carries
<1> HIDE DEF o
<1>2. Carries([o EXCEPT !.maxLen = length], stats, call, index)
      BY <1>1 DEF Fields, Carries
<1>3. QED  BY <1>1, <1>2 DEF o

-----------------------------------------------------------------------------
LEMMA InitWalker == Init => WalkerInv
<1> SUFFICES ASSUME Init PROVE WalkerInv
    OBVIOUS
<1> USE WalkerAssumption
<1>1. DOMAIN paths = {} /\ IsFiniteSet({}) /\ Cardinality({}) = 0
      BY FS_EmptySet DEF Init
<1>2. PathsOK /\ PresenceInv /\ BytesInv
      BY <1>1 DEF Init, PathsOK, PresenceInv, BytesInv
<1>3. {paths[p].position : p \in DOMAIN paths} = {}
      BY <1>1
<1>4. PositionsDense
      BY <1>1, <1>3 DEF Init, PositionsDense
<1>5. QED  BY <1>2, <1>4 DEF WalkerInv

LEMMA NewDocument ==
    ASSUME WalkerInv, NEW document, ObserveDocument(document)
    PROVE  WalkerInv'
<1>1. UNCHANGED <<paths, nextPosition, distinctBytes, globallyCapped>>
      BY DEF ObserveDocument
<1>2. docsSampled' = docsSampled + 1 /\ visited' = {}
      BY DEF ObserveDocument
<1>3. PathsOK' /\ BytesInv' /\ PositionsDense'
      BY <1>1 DEF WalkerInv, PathsOK, WellFormed, BytesInv, PositionsDense
<1>4. PresenceInv'
      BY <1>1, <1>2 DEF WalkerInv, PresenceInv
<1>5. QED  BY <1>3, <1>4 DEF WalkerInv

-----------------------------------------------------------------------------
(* One occurrence of a path that is not refused.                             *)

(* The statistics of the path are updated, all others are kept.              *)
RecordedAs(path, final) ==
    paths' = [p \in DOMAIN paths \cup {path} |-> IF p = path THEN final ELSE paths[p]]

LEMMA RecordPaths ==
    ASSUME WalkerInv, NEW call, NEW label, NEW index \in Nat, RecordPath(call, label, index)
    PROVE  \E final :
              /\ RecordedAs(call.path, final)
              /\ WellFormed(final)
              /\ final.seen = Entry(call.path, call.inArray).seen + SeenGain(call.path)
              /\ final.position = Entry(call.path, call.inArray).position
<1> DEFINE stats == Entry(call.path, call.inArray)
           length == MaxLenAfter(stats, call.value)
           after == Observed(stats, call, label, index)
           final == IF TooDeep(call) THEN after ELSE [after EXCEPT !.maxLen = length]
<1>1. RecordedAs(call.path, final)
      BY DEF RecordPath, RecordedAs
<1>2. WellFormed(stats)
      BY EntryWellFormed DEF WalkerInv
<1> HIDE DEF stats, length
<1>4. Carries(final, stats, call, index)
  <2>1. DOMAIN stats = Fields
        BY <1>2 DEF WellFormed
  <2>2. Carries(after, stats, call, index)
        BY <2>1, ObservedFields
  <2>3. Carries([after EXCEPT !.maxLen = length], stats, call, index)
        BY <2>1, ObservedFields
  <2>4. QED  BY <2>2, <2>3
<1> HIDE DEF final
<1>5. final.seen \in Nat
      BY <1>2, <1>4 DEF WellFormed, SeenGain, Carries
<1>6. WellFormed(final)
  <2>1. IsFiniteSet(final.distinct) /\ Cardinality(final.distinct) <= DistinctCap
        BY <1>2, <1>4, DistinctWithinCap DEF Carries
  <2>2. (\E S : final.samples \in Seq(S)) /\ Len(final.samples) <= SampleSlots
        BY <1>2, <1>4, SamplesWithinSlots DEF Carries
  <2>3. QED  BY <1>4, <1>5, <2>1, <2>2 DEF WellFormed, Carries
<1>7. QED  BY <1>1, <1>4, <1>6 DEF stats, Carries

LEMMA PathsStayOK ==
    ASSUME PathsOK, NEW path, ~Refused(path), NEW final, RecordedAs(path, final),
           WellFormed(final)
    PROVE  PathsOK' /\ Cardinality(DOMAIN paths') \in Nat
           /\ Cardinality(DOMAIN paths') = Cardinality(DOMAIN paths)
                                           + (IF path \in DOMAIN paths THEN 0 ELSE 1)
<1> USE WalkerAssumption
<1>1. DOMAIN paths' = DOMAIN paths \cup {path}
      BY DEF RecordedAs
<1>2. IsFiniteSet(DOMAIN paths) /\ Cardinality(DOMAIN paths) \in Nat
      BY FS_CardinalityType DEF PathsOK
<1>3. IsFiniteSet(DOMAIN paths \cup {path})
      /\ Cardinality(DOMAIN paths \cup {path}) =
           IF path \in DOMAIN paths THEN Cardinality(DOMAIN paths)
                                    ELSE Cardinality(DOMAIN paths) + 1
      BY <1>2, FS_AddElement
<1>4. IsFiniteSet(DOMAIN paths') /\ Cardinality(DOMAIN paths') <= MaxPaths
  <2>1. CASE path \in DOMAIN paths
        BY <1>1, <1>3, <2>1 DEF PathsOK
  <2>2. CASE path \notin DOMAIN paths
        BY <1>1, <1>2, <1>3, <2>2 DEF Refused
  <2>3. QED  BY <2>1, <2>2
<1>5. ASSUME NEW p \in DOMAIN paths' PROVE WellFormed(paths'[p])
  <2>1. paths'[p] = IF p = path THEN final ELSE paths[p]
        BY <1>1, <1>5 DEF RecordedAs
  <2>2. p # path => p \in DOMAIN paths
        BY <1>1, <1>5
  <2>3. QED  BY <2>1, <2>2 DEF PathsOK
<1>6. PathsOK'
      BY <1>4, <1>5 DEF PathsOK, WellFormed
<1>7. QED  BY <1>1, <1>2, <1>3, <1>6

LEMMA PresenceKept ==
    ASSUME PresenceInv, todo # <<>>, NEW path, NEW inArray, NEW final,
           RecordedAs(path, final), final.seen = Entry(path, inArray).seen + SeenGain(path),
           visited' = visited \cup {path}, docsSampled' = docsSampled
    PROVE  PresenceInv'
<1>1. DOMAIN paths' = DOMAIN paths \cup {path} /\ docsSampled \in Nat /\ docsSampled >= 1
      BY DEF RecordedAs, PresenceInv
<1>2. final.seen \in 1 .. docsSampled
  <2>1. CASE path \notin DOMAIN paths
    <3>1. Entry(path, inArray).seen = 0 /\ SeenGain(path) = 1
          BY <2>1 DEF Entry, SeenGain, PresenceInv
    <3>2. QED  BY <1>1, <3>1
  <2>2. CASE path \in DOMAIN paths /\ path \in visited
        BY <2>2 DEF Entry, SeenGain, PresenceInv
  <2>3. CASE path \in DOMAIN paths /\ path \notin visited
        BY <1>1, <2>3 DEF Entry, SeenGain, PresenceInv
  <2>4. QED  BY <2>1, <2>2, <2>3
<1>3. ASSUME NEW p \in DOMAIN paths'
      PROVE  paths'[p].seen \in 1 .. docsSampled
             /\ (p \notin visited' => paths'[p].seen < docsSampled)
  <2>1. CASE p = path
        BY <1>1, <1>2, <2>1 DEF RecordedAs
  <2>2. CASE p # path
    <3>1. p \in DOMAIN paths /\ paths'[p] = paths[p]
          BY <1>1, <1>3, <2>2 DEF RecordedAs
    <3>2. QED  BY <2>2, <3>1 DEF PresenceInv
  <2>3. QED  BY <2>1, <2>2
<1>4. visited' \subseteq DOMAIN paths'
      BY <1>1 DEF PresenceInv
<1>5. QED  BY <1>1, <1>3, <1>4 DEF PresenceInv

LEMMA PositionsKept ==
    ASSUME PathsOK, PositionsDense, NEW path, NEW inArray, ~Refused(path), NEW final,
           RecordedAs(path, final), WellFormed(final),
           final.position = Entry(path, inArray).position,
           nextPosition' = PositionAfter(Entry(path, inArray))
    PROVE  PositionsDense'
<1> DEFINE n == Cardinality(DOMAIN paths)
<1>1. n \in Nat /\ nextPosition = n + 1
      BY FS_CardinalityType DEF PathsOK, PositionsDense
<1>2. DOMAIN paths' = DOMAIN paths \cup {path}
      BY DEF RecordedAs
<1>3. Cardinality(DOMAIN paths') = n + (IF path \in DOMAIN paths THEN 0 ELSE 1)
      BY PathsStayOK
<1>4. {paths[p].position : p \in DOMAIN paths} = 1 .. n
      BY DEF PositionsDense
<1> HIDE DEF n
<1>5. CASE path \in DOMAIN paths
  <2>1. final.position = paths[path].position /\ paths[path].position \in 1 .. n
        BY <1>4, <1>5 DEF Entry
  <2>2. nextPosition' = nextPosition
        BY <1>1, <1>5, <2>1 DEF PositionAfter, Entry
  <2>3. DOMAIN paths' = DOMAIN paths
        BY <1>2, <1>5
  <2>4. \A p \in DOMAIN paths : paths'[p].position = paths[p].position
        BY <2>1 DEF RecordedAs
  <2>5. {paths'[p].position : p \in DOMAIN paths'} = 1 .. n
        BY <1>4, <2>3, <2>4
  <2>6. Cardinality(DOMAIN paths') = n
        BY <1>1, <1>3, <1>5
  <2>7. QED  BY <1>1, <2>2, <2>5, <2>6 DEF PositionsDense
<1>6. CASE path \notin DOMAIN paths
  <2>1. Entry(path, inArray).position = n + 1
        BY <1>1, <1>6 DEF Entry
  <2>2. nextPosition' = n + 2
        BY <1>1, <2>1 DEF PositionAfter
  <2>3. paths'[path].position = n + 1
        BY <2>1 DEF RecordedAs
  <2>4. \A p \in DOMAIN paths : paths'[p] = paths[p]
        BY <1>6 DEF RecordedAs
  <2>5. {paths'[p].position : p \in DOMAIN paths'}
            = {paths[p].position : p \in DOMAIN paths} \cup {n + 1}
        BY <1>2, <2>3, <2>4
  <2>6. {paths'[p].position : p \in DOMAIN paths'} = 1 .. (n + 1)
    <3>1. (1 .. n) \cup {n + 1} = 1 .. (n + 1)
          BY <1>1
    <3>2. QED  BY <1>4, <2>5, <3>1
  <2>7. Cardinality(DOMAIN paths') = n + 1
        BY <1>1, <1>3, <1>6
  <2>8. QED  BY <1>1, <2>2, <2>6, <2>7 DEF PositionsDense
<1>7. QED  BY <1>5, <1>6

LEMMA BytesKept ==
    ASSUME BytesInv, NEW stats, NEW value,
           distinctBytes' = BytesAfter(stats, value),
           globallyCapped' = (globallyCapped \/ BytesAfter(stats, value) > MaxDistinctTracked)
    PROVE  BytesInv'
<1> USE WalkerAssumption
<1>1. CASE DistinctAfter(stats, value) = stats.distinct
      BY <1>1 DEF BytesAfter, BytesInv
<1>2. CASE DistinctAfter(stats, value) # stats.distinct
  <2>1. ~globallyCapped
        BY <1>2 DEF DistinctAfter, Tracks
  <2>2. distinctBytes <= MaxDistinctTracked
        BY <2>1 DEF BytesInv
  <2>3. BytesAfter(stats, value) = distinctBytes + 1
        BY <1>2 DEF BytesAfter
  <2>4. distinctBytes' \in Nat /\ distinctBytes' <= MaxDistinctTracked + 1
        BY <2>2, <2>3 DEF BytesInv
  <2>5. distinctBytes' > MaxDistinctTracked => globallyCapped'
        BY <2>3
  <2>6. QED  BY <2>4, <2>5 DEF BytesInv
<1>3. QED  BY <1>1, <1>2

-----------------------------------------------------------------------------
LEMMA CallKeeps ==
    ASSUME WalkerInv, NEW index \in Nat, ObservePath(index)
    PROVE  WalkerInv'
<1> DEFINE call == Head(todo)
           label == IF TooDeep(call) THEN "<truncated>" ELSE call.value.type
           stats == Entry(call.path, call.inArray)
<1>1. todo # <<>> /\ docsSampled' = docsSampled
      BY DEF ObservePath
<1>2. IF Refused(call.path)
      THEN UNCHANGED <<paths, nextPosition, visited, distinctBytes, globallyCapped>>
      ELSE RecordPath(call, label, index)
      BY DEF ObservePath
<1> HIDE DEF label
<1>3. CASE Refused(call.path)
  <2>1. UNCHANGED <<paths, nextPosition, visited, distinctBytes, globallyCapped>>
        BY <1>2, <1>3
  <2>2. PathsOK' /\ PositionsDense' /\ BytesInv'
        BY <2>1 DEF WalkerInv, PathsOK, WellFormed, PositionsDense, BytesInv
  <2>3. PresenceInv'
        BY <1>1, <2>1 DEF WalkerInv, PresenceInv
  <2>4. QED  BY <2>2, <2>3 DEF WalkerInv
<1>4. CASE ~Refused(call.path)
  <2>1. RecordPath(call, label, index)
        BY <1>2, <1>4
  <2>2. /\ nextPosition' = PositionAfter(stats)
        /\ visited' = visited \cup {call.path}
        /\ distinctBytes' = BytesAfter(stats, call.value)
        /\ globallyCapped' = (globallyCapped \/ BytesAfter(stats, call.value) > MaxDistinctTracked)
        BY <2>1 DEF RecordPath
  <2> HIDE DEF call
  <2>3. PICK final : /\ RecordedAs(call.path, final) /\ WellFormed(final)
                     /\ final.seen = stats.seen + SeenGain(call.path)
                     /\ final.position = stats.position
        BY <2>1, RecordPaths
  <2>4. PathsOK'
        BY <1>4, <2>3, PathsStayOK DEF WalkerInv
  <2>5. PresenceInv'
        BY <1>1, <2>2, <2>3, PresenceKept DEF WalkerInv
  <2>6. PositionsDense'
        BY <1>4, <2>2, <2>3, PositionsKept DEF WalkerInv
  <2>7. BytesInv'
        BY <2>2, BytesKept DEF WalkerInv
  <2>8. QED  BY <2>4, <2>5, <2>6, <2>7 DEF WalkerInv
<1>5. QED  BY <1>3, <1>4

LEMMA WalkerInvHolds == Spec => []WalkerInv
<1>1. ASSUME WalkerInv, [Next]_vars PROVE WalkerInv'
  <2>1. ASSUME NEW document \in Documents, ObserveDocument(document) PROVE WalkerInv'
        BY <1>1, <2>1, NewDocument
  <2>2. ASSUME NEW index \in 0 .. SampleSlots, ObservePath(index) PROVE WalkerInv'
        BY <1>1, <2>2, CallKeeps, WalkerAssumption
  <2>3. CASE UNCHANGED vars
    <3>1. UNCHANGED <<docsSampled, paths, nextPosition, distinctBytes, globallyCapped, visited, todo>>
          BY <2>3 DEF vars, walker
    <3>2. QED  BY <1>1, <3>1 DEF WalkerInv, PathsOK, WellFormed, PresenceInv, PositionsDense, BytesInv
  <2>4. QED  BY <1>1, <2>1, <2>2, <2>3 DEF Next
<1>2. QED  BY <1>1, InitWalker, PTL DEF Spec

-----------------------------------------------------------------------------
(* Whatever the documents, paths, values and samples stay within their caps.  *)
THEOREM MemoryAlwaysBounded == Spec => []MemoryBounded
<1>1. WalkerInv => MemoryBounded
      BY DEF WalkerInv, PathsOK, WellFormed, BytesInv, MemoryBounded
<1>2. QED  BY <1>1, WalkerInvHolds, PTL

(* A path is seen in at least one and at most all of the documents, in the    *)
(* middle of a document too.                                                 *)
THEOREM PresenceAlwaysWithinSample == Spec => []PresenceWithinSample
<1>1. WalkerInv => PresenceWithinSample
      BY DEF WalkerInv, PresenceInv, PresenceWithinSample
<1>2. QED  BY <1>1, WalkerInvHolds, PTL

(* The columns are numbered 1, 2, 3, ... in the order in which they appeared.  *)
THEOREM PositionsAlwaysDense == Spec => []PositionsDense
<1>1. WalkerInv => PositionsDense
      BY DEF WalkerInv
<1>2. QED  BY <1>1, WalkerInvHolds, PTL

-----------------------------------------------------------------------------
(* Calls, and the occurrences they come to.                                *)

(* The calls that are made: at most one level beyond the depth limit.        *)
Made == {call \in Calls : call.depth <= MaxDepth + 1}

LEMMA FieldCallsFacts ==
    ASSUME NEW document \in Values, document.type = "document", NEW path \in Paths,
           NEW depth \in Nat \ {0}, NEW inArray \in BOOLEAN
    PROVE  /\ FieldCalls(document, path, depth, inArray) \in Seq(Calls)
           /\ \A i \in DOMAIN FieldCalls(document, path, depth, inArray) :
                FieldCalls(document, path, depth, inArray)[i].depth = depth
<1> DEFINE fields == document.fields
           calls == FieldCalls(document, path, depth, inArray)
<1>1. fields \in Seq([key : Paths, value : Values])
  BY BsonAssumption
<1>2. calls = [i \in 1 .. Len(fields) |-> Call(path \o fields[i].key, fields[i].value, depth, inArray)]
  BY DEF FieldCalls
<1> HIDE DEF fields, calls
<1>3. ASSUME NEW i \in 1 .. Len(fields)
      PROVE  /\ Call(path \o fields[i].key, fields[i].value, depth, inArray) \in Calls
             /\ Call(path \o fields[i].key, fields[i].value, depth, inArray).depth = depth
  <2>1. fields[i].key \in Paths /\ fields[i].value \in Values
    <3> DEFINE Field == [key : Paths, value : Values]
    <3>1. fields \in Seq(Field)
      BY <1>1
    <3> HIDE DEF Field
    <3>2. fields[i] \in Field
      BY <3>1
    <3> QED BY <3>2 DEF Field
  <2>2. path \o fields[i].key \in Paths
    BY <2>1 DEF Paths
  <2> QED BY <2>1, <2>2 DEF Call, Calls
<1>4. Len(fields) \in Nat
  BY <1>1
<1> QED BY <1>2, <1>3, <1>4 DEF calls

LEMMA ElementCallsFacts ==
    ASSUME NEW array \in Values, array.type = "array", NEW path \in Paths, NEW depth \in Nat \ {0}
    PROVE  /\ ElementCalls(array, path, depth) \in Seq(Calls)
           /\ \A i \in DOMAIN ElementCalls(array, path, depth) :
                ElementCalls(array, path, depth)[i].depth = depth
<1> DEFINE items == Walked(array.items)
           calls == ElementCalls(array, path, depth)
<1>1. items \in Seq(Values)
  <2>1. array.items \in Seq(Values)
    BY BsonAssumption
  <2> QED BY <2>1, WalkerAssumption DEF Walked
<1>2. calls = [i \in 1 .. Len(items) |-> Call(path \o <<"[]">>, items[i], depth, TRUE)]
  BY DEF ElementCalls
<1> HIDE DEF items, calls
<1>3. path \o <<"[]">> \in Paths
  BY BsonAssumption DEF Paths
<1>4. ASSUME NEW i \in 1 .. Len(items)
      PROVE  /\ Call(path \o <<"[]">>, items[i], depth, TRUE) \in Calls
             /\ Call(path \o <<"[]">>, items[i], depth, TRUE).depth = depth
  BY <1>1, <1>3 DEF Call, Calls
<1>5. Len(items) \in Nat
  BY <1>1
<1>6. calls = [i \in 1 .. Len(items) |-> calls[i]] /\ \A i \in 1 .. Len(items) : calls[i] \in Calls
  BY <1>2, <1>4
<1>7. calls \in Seq(Calls) /\ DOMAIN calls = 1 .. Len(items)
  BY <1>5, <1>6, ElementsMakeSeq
<1> QED BY <1>2, <1>4, <1>7 DEF calls

LEMMA ChildrenFacts ==
    ASSUME NEW call \in Calls
    PROVE  /\ Children(call) \in Seq(Calls)
           /\ \A i \in DOMAIN Children(call) : Children(call)[i].depth = call.depth + 1
<1>1. /\ call.value \in Values /\ call.path \in Paths /\ call.inArray \in BOOLEAN
      /\ call.depth + 1 \in Nat \ {0}
  BY DEF Calls
<1>2. CASE call.value.type = "document"
  BY <1>1, <1>2, FieldCallsFacts DEF Children
<1>3. CASE call.value.type = "array"
  BY <1>1, <1>3, ElementCallsFacts DEF Children
<1>4. CASE call.value.type \notin {"document", "array"}
  BY <1>4 DEF Children
<1> QED BY <1>2, <1>3, <1>4

(* The levels of Walks, one from the other. *)
LEMMA WalksFacts ==
    /\ \A room \in 0 .. MaxDepth : Walks[room] \in Blocks(Calls, Calls)
    /\ \A call \in Calls : Walks[0][call] = <<call>>
    /\ \A room \in 1 .. MaxDepth, call \in Calls :
         Walks[room][call] = Joined(<<call>>, Spread(Children(call), Walks[room - 1]))
<1> DEFINE S == Blocks(Calls, Calls)
           a == [call \in Calls |-> <<call>>]
           Then(h) == [call \in Calls |-> Joined(<<call>>, Spread(Children(call), h))]
           step == [p \in S \X Nat |-> Then(p[1])]
<1>1. a \in S
  BY DEF Blocks
<1>2. \A h \in S : Then(h) \in S
  <2> SUFFICES ASSUME NEW h \in S PROVE Then(h) \in S
    OBVIOUS
  <2>1. ASSUME NEW call \in Calls
        PROVE  Joined(<<call>>, Spread(Children(call), h)) \in Seq(Calls)
    <3>1. Spread(Children(call), h) \in Seq(Calls)
      BY ChildrenFacts, SpreadFacts
    <3>2. <<call>> \in Seq(Calls)
      OBVIOUS
    <3> QED BY <3>1, <3>2, JoinedType
  <2> QED BY <2>1 DEF Blocks
<1> HIDE DEF Then
<1>3. step \in [S \X Nat -> S]
  BY <1>2
<1>4. \A h \in S, i \in Nat : step[<<h, i>>] = Then(h)
  OBVIOUS
<1> HIDE DEF S, a, step
<1>5. PICK h \in [0 .. MaxDepth -> S] : Follows(h, a, step, MaxDepth)
  BY <1>1, <1>3, WalkerAssumption, FollowsExists
<1>6. h[0] = a /\ \A i \in 1 .. MaxDepth : h[i] = Then(h[i - 1])
  <2>1. \A i \in 1 .. MaxDepth : h[i - 1] \in S /\ i \in Nat
    BY <1>5, WalkerAssumption
  <2> QED BY <1>4, <1>5, <2>1 DEF Follows
<1> DEFINE F(f) == [room \in 0 .. MaxDepth |->
                      [call \in Calls |->
                        <<call>> \o (IF room = 0 THEN <<>>
                                     ELSE FlattenSeq([i \in DOMAIN Children(call) |->
                                            f[room - 1][Children(call)[i]]]))]]
           G(f) == [room \in 0 .. MaxDepth |-> IF room = 0 THEN a ELSE Then(f[room - 1])]
<1>7. \A f : F(f) = G(f)
  <2> SUFFICES ASSUME NEW f PROVE F(f) = G(f)
    OBVIOUS
  <2> DEFINE L(room) == [call \in Calls |->
                        <<call>> \o (IF room = 0 THEN <<>>
                                     ELSE FlattenSeq([i \in DOMAIN Children(call) |->
                                            f[room - 1][Children(call)[i]]]))]
  <2>1. ASSUME NEW room \in 0 .. MaxDepth, room = 0 PROVE L(room) = a
    <3>1. \A call \in Calls : <<call>> \o <<>> = <<call>>
      OBVIOUS
    <3>2. L(room) = [call \in Calls |-> <<call>> \o <<>>]
      BY <2>1, Zenon
    <3> HIDE DEF L
    <3>3. L(room) = [call \in Calls |-> <<call>>]
      BY <3>1, <3>2
    <3> QED BY <3>3 DEF a
  <2>2. ASSUME NEW room \in 0 .. MaxDepth, room # 0 PROVE L(room) = Then(f[room - 1])
    BY <2>2, Zenon DEF Then, Joined, Spread
  <2>3. \A room \in 0 .. MaxDepth : L(room) = IF room = 0 THEN a ELSE Then(f[room - 1])
    BY <2>1, <2>2
  <2> HIDE DEF L, a
  <2>4. [room \in 0 .. MaxDepth |-> L(room)] = G(f)
    BY <2>3
  <2> QED BY <2>4 DEF L
<1>8. h = G(h)
  <2>1. ASSUME NEW room \in 0 .. MaxDepth
        PROVE  h[room] = IF room = 0 THEN a ELSE Then(h[room - 1])
    BY <1>6, WalkerAssumption
  <2>2. h = [room \in 0 .. MaxDepth |-> h[room]]
    BY <1>5
  <2> QED BY <2>1, <2>2
<1>9. h = F(h)
  BY <1>7, <1>8, Zenon
<1>10. Walks = F(Walks)
  <2> DEFINE c == CHOOSE f : f = F(f)
  <2>1. c = F(c)
    BY <1>9, Zenon
  <2> HIDE DEF F
  <2>2. Walks = c
    BY Zenon DEF Walks, F
  <2> QED BY <2>1, <2>2, Zenon
<1>11. Walks = G(Walks)
  BY <1>7, <1>10, Zenon
<1> HIDE DEF F
<1> DEFINE T == {n \in Nat : n <= MaxDepth => Walks[n] \in S}
<1>12. 0 \in 0 .. MaxDepth /\ Walks[0] = a
  BY <1>11, WalkerAssumption
<1>13. \A room \in 1 .. MaxDepth : Walks[room] = Then(Walks[room - 1])
  BY <1>11, WalkerAssumption
<1> HIDE DEF G
<1>14. 0 \in T
  BY <1>1, <1>12
<1>15. ASSUME NEW n \in Nat, n \in T PROVE n + 1 \in T
  <2> SUFFICES ASSUME n + 1 <= MaxDepth PROVE Walks[n + 1] \in S
    OBVIOUS
  <2>1. Walks[n] \in S /\ n + 1 \in 1 .. MaxDepth /\ (n + 1) - 1 = n
    BY <1>15, WalkerAssumption
  <2>2. Walks[n + 1] = Then(Walks[n])
    BY <1>13, <2>1
  <2> QED BY <1>2, <2>1, <2>2
<1>16. \A n \in Nat : n \in T
  BY <1>14, <1>15, SetInduction
<1>17. \A room \in 0 .. MaxDepth : Walks[room] \in Blocks(Calls, Calls)
  BY <1>16, WalkerAssumption DEF S
<1>18. \A room \in 1 .. MaxDepth, call \in Calls :
         Walks[room][call] = Joined(<<call>>, Spread(Children(call), Walks[room - 1]))
  BY <1>13 DEF Then
<1> QED BY <1>12, <1>17, <1>18 DEF a

(* What a call that is made comes to: itself, and unless it is too deep what  *)
(* its children come to.                                                     *)
Whole == [call \in Made |-> Walks[MaxDepth + 1 - call.depth][call]]
Entered(call) == IF TooDeep(call) THEN <<>> ELSE Children(call)

LEMMA WholeFacts ==
    /\ Whole \in Blocks(Made, Calls)
    /\ \A calls \in Seq(Made) : Occurrences(calls) = Spread(calls, Whole)
    /\ \A call \in Made : /\ Entered(call) \in Seq(Made)
                          /\ Whole[call] = Joined(<<call>>, Spread(Entered(call), Whole))
<1>1. \A call \in Made : MaxDepth + 1 - call.depth \in 0 .. MaxDepth
  BY WalkerAssumption DEF Made, Calls
<1>2. Whole \in Blocks(Made, Calls)
  <2>1. ASSUME NEW call \in Made PROVE Walks[MaxDepth + 1 - call.depth][call] \in Seq(Calls)
    <3>1. call \in Calls /\ Walks[MaxDepth + 1 - call.depth] \in Blocks(Calls, Calls)
      BY <1>1, WalksFacts DEF Made
    <3> QED BY <3>1 DEF Blocks
  <2> QED BY <2>1 DEF Whole, Blocks
<1>3. ASSUME NEW calls \in Seq(Made) PROVE Occurrences(calls) = Spread(calls, Whole)
  <2>1. \A i \in DOMAIN calls : Walks[MaxDepth + 1 - calls[i].depth][calls[i]] = Whole[calls[i]]
    BY DEF Whole
  <2>2. [i \in DOMAIN calls |-> Walks[MaxDepth + 1 - calls[i].depth][calls[i]]]
          = [i \in DOMAIN calls |-> Whole[calls[i]]]
    BY <2>1
  <2> QED BY <2>2, Zenon DEF Occurrences, Spread
<1>4. ASSUME NEW call \in Made
      PROVE  /\ Entered(call) \in Seq(Made)
             /\ Whole[call] = Joined(<<call>>, Spread(Entered(call), Whole))
  <2>1. call \in Calls /\ call.depth \in Nat /\ call.depth <= MaxDepth + 1
        /\ Whole[call] = Walks[MaxDepth + 1 - call.depth][call]
    BY DEF Made, Calls, Whole
  <2>2. CASE TooDeep(call)
    <3>1. MaxDepth + 1 - call.depth = 0
      BY <2>1, <2>2, WalkerAssumption DEF TooDeep
    <3>2. Whole[call] = <<call>>
      BY <2>1, <3>1, WalksFacts
    <3>3. Entered(call) = <<>> /\ <<>> \in Seq(Made) /\ <<call>> \in Seq(Made)
      BY <2>2 DEF Entered
    <3>4. Spread(<<>>, Whole) = <<>>
      BY <1>2, SpreadFacts
    <3>5. Joined(<<call>>, <<>>) = <<call>>
      BY <3>3, JoinedEmpty
    <3> QED BY <3>2, <3>3, <3>4, <3>5
  <2>3. CASE ~TooDeep(call)
    <3> DEFINE room == MaxDepth + 1 - call.depth
               children == Children(call)
    <3>1. room \in 1 .. MaxDepth /\ room - 1 = MaxDepth + 1 - (call.depth + 1)
          /\ call.depth + 1 <= MaxDepth + 1
      BY <1>1, <2>1, <2>3, WalkerAssumption DEF TooDeep, Calls
    <3>2. Whole[call] = Joined(<<call>>, Spread(children, Walks[room - 1]))
      BY <2>1, <3>1, WalksFacts
    <3>3. children \in Seq(Calls) /\ \A i \in DOMAIN children : children[i].depth = call.depth + 1
      BY <2>1, ChildrenFacts
    <3> HIDE DEF children
    <3>4. \A i \in DOMAIN children : children[i] \in Made
      BY <3>1, <3>3 DEF Made
    <3>5. children \in Seq(Made)
      BY <3>3, <3>4
    <3>6. \A i \in DOMAIN children : Whole[children[i]] = Walks[room - 1][children[i]]
      BY <3>1, <3>3, <3>4 DEF Whole
    <3> HIDE DEF room
    <3>7. Spread(children, Whole) = Spread(children, Walks[room - 1])
      BY <3>5, <3>6, SpreadSame
    <3>8. Entered(call) = children
      BY <2>3 DEF Entered, children
    <3> QED BY <3>2, <3>5, <3>7, <3>8
  <2> QED BY <2>2, <2>3
<1> QED BY <1>2, <1>3, <1>4

-----------------------------------------------------------------------------
(* Types.                                                                  *)

TypeInv ==
    /\ docsSampled \in 0 .. MaxDocs
    /\ sample \in Seq(Documents) /\ Len(sample) = docsSampled
    /\ \A p \in DOMAIN paths : p \in Paths /\ paths[p] \in Stats
    /\ nextPosition \in Nat \ {0}
    /\ distinctBytes \in Nat /\ globallyCapped \in BOOLEAN
    /\ truncated \in Nat
    /\ visited \subseteq DOMAIN paths
    /\ todo \in Seq(Made)

LEMMA JsonType ==
    ASSUME NEW value \in Values, IsLeaf(value)
    PROVE  JsonOf(value) \in Jsons
<1>1. value.text \in Strings /\ "null" \in Strings
  BY BsonAssumption
<1> QED BY <1>1 DEF JsonOf, Jsons

LEMMA EntryType ==
    ASSUME TypeInv, NEW path, NEW inArray \in BOOLEAN
    PROVE  Entry(path, inArray) \in Stats
<1>1. CASE path \in DOMAIN paths
  BY <1>1 DEF Entry, TypeInv
<1>2. CASE path \notin DOMAIN paths
  <2>1. NoLength \in Nat \cup {NoLength} /\ <<>> \in Seq(Jsons) /\ nextPosition \in Nat \ {0}
    BY DEF TypeInv
  <2>2. Entry(path, inArray) =
          [seen |-> 0, nulls |-> 0, types |-> {}, distinct |-> {}, capped |-> FALSE,
           samples |-> <<>>, samplesSeen |-> 0, maxLen |-> NoLength,
           inArray |-> inArray, position |-> nextPosition]
    BY <1>2 DEF Entry
  <2> QED BY <2>1, <2>2 DEF Stats
<1> QED BY <1>1, <1>2

LEMMA SamplesType ==
    ASSUME NEW stats \in Stats, NEW value \in Values, NEW index \in Nat
    PROVE  SamplesAfter(stats, value, index) \in Seq(Jsons)
<1>1. stats.samples \in Seq(Jsons) /\ (IsLeaf(value) => JsonOf(value) \in Jsons)
  BY JsonType DEF Stats
<1>2. \A json \in Jsons : Append(stats.samples, json) \in Seq(Jsons)
  BY <1>1
<1>3. \A json \in Jsons : [stats.samples EXCEPT ![index + 1] = json] \in Seq(Jsons)
  <2> TAKE json \in Jsons
  <2>1. CASE index + 1 \in 1 .. Len(stats.samples)
    BY <1>1, <2>1, ExceptSeq
  <2>2. CASE index + 1 \notin DOMAIN stats.samples
    <3>1. [stats.samples EXCEPT ![index + 1] = json] = stats.samples
      BY <1>1, <2>2
    <3> QED BY <1>1, <3>1
  <2> QED BY <1>1, <2>1, <2>2
<1> QED BY <1>1, <1>2, <1>3 DEF SamplesAfter

LEMMA MaxLenType ==
    ASSUME NEW stats \in Stats, NEW value \in Values
    PROVE  MaxLenAfter(stats, value) \in Nat \cup {NoLength}
<1>1. value.type = "array" => value.items \in Seq(Values)
  BY BsonAssumption
<1>2. value.type = "array" => Len(value.items) \in Nat
  BY <1>1
<1> QED BY <1>2 DEF MaxLenAfter, Stats

LEMMA ObservedType ==
    ASSUME NEW stats \in Stats, NEW call \in Calls, NEW label \in Labels \cup {"<truncated>"},
           NEW index \in Nat, NEW length \in Nat \cup {NoLength}
    PROVE  /\ Observed(stats, call, label, index) \in Stats
           /\ [Observed(stats, call, label, index) EXCEPT !.maxLen = length] \in Stats
<1> DEFINE value == call.value
           seen == stats.seen + SeenGain(call.path)
           nulls == stats.nulls + IF value.type = "null" THEN 1 ELSE 0
           types == stats.types \cup {label}
           inArray == stats.inArray \/ call.inArray
           distinct == DistinctAfter(stats, value)
           capped == stats.capped \/ (Tracks(stats, value) /\ ~HasRoom(stats))
           samples == SamplesAfter(stats, value, index)
           samplesSeen == stats.samplesSeen + IF IsLeaf(value) THEN 1 ELSE 0
<1>1. value \in Values /\ call.inArray \in BOOLEAN
  BY DEF Calls
<1>2. seen \in Nat /\ nulls \in Nat /\ samplesSeen \in Nat
  BY DEF Stats, SeenGain
<1>3. types \in SUBSET (Labels \cup {"<truncated>"})
  BY DEF Stats
<1>4. inArray \in BOOLEAN
  BY <1>1 DEF Stats
<1>5. capped \in BOOLEAN
  BY DEF Stats, Tracks, HasRoom, IsLeaf
<1>6. distinct \in SUBSET Jsons
  BY <1>1, JsonType DEF Stats, DistinctAfter, Tracks
<1>7. samples \in Seq(Jsons)
  BY <1>1, SamplesType
<1>8. Observed(stats, call, label, index)
        = [stats EXCEPT !.seen = seen, !.nulls = nulls, !.types = types, !.inArray = inArray,
                        !.distinct = distinct, !.capped = capped, !.samples = samples,
                        !.samplesSeen = samplesSeen]
  BY Zenon DEF Observed
<1> HIDE DEF seen, nulls, types, inArray, distinct, capped, samples, samplesSeen
<1>9. Observed(stats, call, label, index) \in Stats
  <2>1. stats.maxLen \in Nat \cup {NoLength} /\ stats.position \in Nat \ {0}
    BY DEF Stats
  <2>2. Observed(stats, call, label, index)
          = [seen |-> seen, nulls |-> nulls, types |-> types, distinct |-> distinct,
             capped |-> capped, samples |-> samples, samplesSeen |-> samplesSeen,
             maxLen |-> stats.maxLen, inArray |-> inArray, position |-> stats.position]
    BY <1>8 DEF Stats
  <2> QED BY <1>2, <1>3, <1>4, <1>5, <1>6, <1>7, <2>1, <2>2 DEF Stats
<1>10. \A s \in Stats : [s EXCEPT !.maxLen = length] \in Stats
  BY DEF Stats
<1> QED BY <1>9, <1>10

(* The calls of a document's fields. *)
FieldsOf(document) == FieldCalls(document, <<>>, 1, FALSE)

LEMMA FieldsOfType ==
    ASSUME NEW document \in Documents
    PROVE  FieldsOf(document) \in Seq(Made)
<1> DEFINE calls == FieldsOf(document)
<1>1. document \in Values /\ document.type = "document"
  BY BsonAssumption
<1>2. <<>> \in Paths /\ 1 \in Nat \ {0}
  BY DEF Paths
<1>3. calls \in Seq(Calls) /\ \A i \in DOMAIN calls : calls[i].depth = 1
  BY <1>1, <1>2, FieldCallsFacts DEF FieldsOf
<1> HIDE DEF calls
<1>4. \A i \in DOMAIN calls : calls[i] \in Made
  BY <1>3, WalkerAssumption DEF Made
<1>5. calls \in Seq(Made)
  BY <1>3, <1>4
<1> QED BY <1>5 DEF calls

LEMMA CallFacts ==
    ASSUME TypeInv, todo # <<>>
    PROVE  /\ Head(todo) \in Made /\ Head(todo) \in Calls
           /\ Head(todo).value \in Values /\ Head(todo).path \in Paths
           /\ LabelOf(Head(todo)) \in Labels \cup {"<truncated>"}
           /\ Tail(todo) \in Seq(Made)
           /\ todo = Joined(<<Head(todo)>>, Tail(todo))
<1>1. todo \in Seq(Made)
  BY DEF TypeInv
<1>2. Head(todo) \in Made /\ Tail(todo) \in Seq(Made) /\ todo = <<Head(todo)>> \o Tail(todo)
  BY <1>1
<1>3. /\ Head(todo) \in Calls /\ Head(todo).value \in Values /\ Head(todo).path \in Paths
  BY <1>2 DEF Made, Calls
<1>4. Head(todo).value.type \in Labels
  BY <1>3, BsonAssumption
<1> QED BY <1>2, <1>3, <1>4 DEF LabelOf, Joined

(* A call, in terms of what has been named. *)
LEMMA CallTaken ==
    ASSUME NEW index, ObservePath(index)
    PROVE  /\ todo # <<>> /\ docsSampled' = docsSampled /\ sample' = sample
           /\ todo' = Joined(Entered(Head(todo)), Tail(todo))
           /\ Refused(Head(todo).path) =>
                UNCHANGED <<paths, nextPosition, visited, distinctBytes, globallyCapped>>
           /\ ~Refused(Head(todo).path) => RecordPath(Head(todo), LabelOf(Head(todo)), index)
           /\ truncated' = truncated + (IF TooDeep(Head(todo)) THEN 1 ELSE 0)
                                     + (IF Refused(Head(todo).path) THEN 1 ELSE 0)
<1>1. (IF TooDeep(Head(todo)) THEN "<truncated>" ELSE Head(todo).value.type) = LabelOf(Head(todo))
  BY DEF TooDeep, LabelOf
<1> QED BY <1>1 DEF ObservePath, Entered, Joined

(* The statistics that RecordPath leaves. *)
Final(stats, call, index) ==
    IF TooDeep(call) THEN Observed(stats, call, LabelOf(call), index)
    ELSE [Observed(stats, call, LabelOf(call), index) EXCEPT !.maxLen = MaxLenAfter(stats, call.value)]

LEMMA Recorded ==
    ASSUME NEW call, NEW index, RecordPath(call, LabelOf(call), index)
    PROVE  LET stats == Entry(call.path, call.inArray) IN
           /\ RecordedAs(call.path, Final(stats, call, index))
           /\ nextPosition' = PositionAfter(stats)
           /\ visited' = visited \cup {call.path}
           /\ distinctBytes' = BytesAfter(stats, call.value)
           /\ globallyCapped' = (globallyCapped \/ BytesAfter(stats, call.value) > MaxDistinctTracked)
BY DEF RecordPath, RecordedAs, Final

LEMMA CallKeepsTypes ==
    ASSUME TypeInv, NEW index \in Nat, ObservePath(index)
    PROVE  TypeInv'
<1> DEFINE call == Head(todo)
           stats == Entry(call.path, call.inArray)
           final == Final(stats, call, index)
<1>1. todo # <<>>
  BY CallTaken
<1>2. /\ call \in Made /\ call \in Calls /\ call.value \in Values /\ call.path \in Paths
      /\ LabelOf(call) \in Labels \cup {"<truncated>"} /\ Tail(todo) \in Seq(Made)
  BY <1>1, CallFacts
<1>3. docsSampled' = docsSampled /\ sample' = sample
  BY CallTaken
<1>4. todo' \in Seq(Made)
  BY <1>2, CallTaken, WholeFacts, JoinedType
<1>5. truncated' \in Nat
  BY CallTaken DEF TypeInv
<1>6. CASE Refused(call.path)
  <2>1. UNCHANGED <<paths, nextPosition, visited, distinctBytes, globallyCapped>>
    BY <1>6, CallTaken
  <2> QED BY <1>3, <1>4, <1>5, <2>1 DEF TypeInv, Stats
<1>7. CASE ~Refused(call.path)
  <2>1. RecordPath(call, LabelOf(call), index)
    BY <1>7, CallTaken
  <2>2. /\ RecordedAs(call.path, final) /\ nextPosition' = PositionAfter(stats)
        /\ visited' = visited \cup {call.path}
        /\ distinctBytes' = BytesAfter(stats, call.value)
        /\ globallyCapped' = (globallyCapped \/ BytesAfter(stats, call.value) > MaxDistinctTracked)
    BY <2>1, Recorded
  <2>3. stats \in Stats
    BY <1>2, EntryType DEF Calls
  <2>4. MaxLenAfter(stats, call.value) \in Nat \cup {NoLength}
    BY <1>2, <2>3, MaxLenType
  <2> HIDE DEF stats, call
  <2>5. final \in Stats
    BY <1>2, <2>3, <2>4, ObservedType DEF Final
  <2> HIDE DEF final
  <2>6. ASSUME NEW p \in DOMAIN paths' PROVE p \in Paths /\ paths'[p] \in Stats
    <3>1. p \in DOMAIN paths \cup {call.path} /\ paths'[p] = IF p = call.path THEN final ELSE paths[p]
      BY <2>2, <2>6 DEF RecordedAs
    <3> QED BY <1>2, <2>5, <3>1 DEF TypeInv
  <2>7. nextPosition' \in Nat \ {0}
    BY <2>2 DEF PositionAfter, TypeInv
  <2>8. distinctBytes' \in Nat /\ globallyCapped' \in BOOLEAN
    BY <2>2, WalkerAssumption DEF BytesAfter, TypeInv
  <2>9. visited' \subseteq DOMAIN paths'
    BY <2>2 DEF RecordedAs, TypeInv
  <2>10. \A p \in DOMAIN paths' : p \in Paths /\ paths'[p] \in Stats
    BY <2>6
  <2> QED BY <1>3, <1>4, <1>5, <2>7, <2>8, <2>9, <2>10 DEF TypeInv, Stats
<1> QED BY <1>6, <1>7

LEMMA DocumentKeepsTypes ==
    ASSUME TypeInv, NEW document \in Documents, ObserveDocument(document)
    PROVE  TypeInv'
<1>1. /\ UNCHANGED <<paths, nextPosition, distinctBytes, globallyCapped, truncated>>
      /\ docsSampled < MaxDocs /\ docsSampled' = docsSampled + 1 /\ visited' = {}
      /\ sample' = Append(sample, document) /\ todo' = FieldsOf(document)
  BY DEF ObserveDocument, FieldsOf
<1>2. todo' \in Seq(Made)
  BY <1>1, FieldsOfType
<1>3. sample' \in Seq(Documents) /\ Len(sample') = docsSampled'
  BY <1>1 DEF TypeInv
<1>4. docsSampled' \in 0 .. MaxDocs
  BY <1>1, WalkerAssumption DEF TypeInv
<1> QED BY <1>1, <1>2, <1>3, <1>4 DEF TypeInv, Stats

LEMMA InitTypes == Init => TypeInv
<1> SUFFICES ASSUME Init PROVE TypeInv
  OBVIOUS
<1>1. <<>> \in Seq(Documents) /\ Len(<<>>) = 0
  OBVIOUS
<1>2. <<>> \in Seq(Made)
  OBVIOUS
<1>3. DOMAIN paths = {} /\ visited = {}
  BY DEF Init
<1>4. sample \in Seq(Documents) /\ Len(sample) = docsSampled /\ todo \in Seq(Made)
  BY <1>1, <1>2, Zenon DEF Init
<1>5. /\ docsSampled \in 0 .. MaxDocs /\ nextPosition \in Nat \ {0} /\ distinctBytes \in Nat
      /\ globallyCapped \in BOOLEAN /\ truncated \in Nat
  <2>1. /\ docsSampled = 0 /\ nextPosition = 1 /\ distinctBytes = 0 /\ globallyCapped = FALSE
        /\ truncated = 0
    BY Zenon DEF Init
  <2>2. docsSampled \in 0 .. MaxDocs
    BY <2>1, WalkerAssumption
  <2>3. nextPosition \in Nat \ {0} /\ distinctBytes \in Nat /\ truncated \in Nat
    BY <2>1
  <2>4. globallyCapped \in BOOLEAN
    BY <2>1
  <2> QED BY <2>2, <2>3, <2>4
<1>6. (\A p \in DOMAIN paths : p \in Paths /\ paths[p] \in Stats) /\ visited \subseteq DOMAIN paths
  BY <1>3
<1> QED BY <1>4, <1>5, <1>6 DEF TypeInv

LEMMA AlwaysTypeInv == Spec => []TypeInv
<1>1. ASSUME TypeInv, [Next]_vars PROVE TypeInv'
  <2>1. ASSUME NEW document \in Documents, ObserveDocument(document) PROVE TypeInv'
    BY <1>1, <2>1, DocumentKeepsTypes
  <2>2. ASSUME NEW index \in 0 .. SampleSlots, ObservePath(index) PROVE TypeInv'
    BY <1>1, <2>2, CallKeepsTypes, WalkerAssumption
  <2>3. CASE UNCHANGED vars
    BY <1>1, <2>3 DEF vars, walker, TypeInv, Stats
  <2> QED BY <1>1, <2>1, <2>2, <2>3 DEF Next
<1> QED BY <1>1, InitTypes, PTL DEF Spec

-----------------------------------------------------------------------------
(* One more observation.                                                   *)

Observation == [document : Nat \ {0}, call : Calls]

LEMMA AppendAt ==
    ASSUME NEW a \in Seq(Observation), NEW r \in Observation
    PROVE  LET b == Append(a, r)
               n == Len(a) + 1
           IN  /\ b \in Seq(Observation) /\ Len(b) = n /\ n \in Nat /\ b[n] = r
               /\ \A i \in 1 .. Len(a) : b[i] = a[i]
               /\ \A p : /\ At(p, a) \subseteq 1 .. Len(a)
                         /\ IsFiniteSet(At(p, a))
                         /\ At(p, b) = At(p, a) \cup IF r.call.path = p THEN {n} ELSE {}
<1> DEFINE b == Append(a, r)
           n == Len(a) + 1
<1>1. /\ b \in Seq(Observation) /\ Len(b) = n /\ n \in Nat /\ b[n] = r
      /\ \A i \in 1 .. Len(a) : b[i] = a[i]
  OBVIOUS
<1>2. DOMAIN b = 1 .. n /\ DOMAIN a = 1 .. Len(a) /\ Len(a) \in Nat
  BY <1>1
<1> HIDE DEF b
<1>3. ASSUME NEW p
      PROVE  /\ At(p, a) \subseteq 1 .. Len(a)
             /\ IsFiniteSet(At(p, a))
             /\ At(p, b) = At(p, a) \cup IF r.call.path = p THEN {n} ELSE {}
  <2>1. At(p, a) \subseteq 1 .. Len(a)
    BY <1>2 DEF At
  <2>2. IsFiniteSet(1 .. Len(a))
    BY <1>2, FS_Interval
  <2>3. IsFiniteSet(At(p, a))
    BY <2>1, <2>2, FS_Subset
  <2>4. At(p, b) = At(p, a) \cup IF r.call.path = p THEN {n} ELSE {}
    BY <1>1, <1>2 DEF At
  <2> QED BY <2>1, <2>3, <2>4
<1> QED BY <1>1, <1>3 DEF b

(* What an observation of another path does not change, *)
LEMMA AppendElsewhere ==
    ASSUME NEW a \in Seq(Observation), NEW r \in Observation, NEW p, r.call.path # p
    PROVE  LET b == Append(a, r) IN
           /\ At(p, b) = At(p, a) /\ \A i \in At(p, a) : b[i] = a[i]
           /\ DocumentsAt(p, b) = DocumentsAt(p, a) /\ TypesAt(p, b) = TypesAt(p, a)
           /\ NullsAt(p, b) = NullsAt(p, a) /\ LeavesAt(p, b) = LeavesAt(p, a)
           /\ JsonsAt(p, b) = JsonsAt(p, a) /\ LengthsAt(p, b) = LengthsAt(p, a)
<1> DEFINE b == Append(a, r)
<1>1. At(p, b) = At(p, a) /\ \A i \in At(p, a) : b[i] = a[i]
  <2>1. At(p, a) \subseteq 1 .. Len(a) /\ \A i \in 1 .. Len(a) : b[i] = a[i]
    BY AppendAt
  <2>2. At(p, b) = At(p, a) \cup IF r.call.path = p THEN {Len(a) + 1} ELSE {}
    BY AppendAt
  <2> QED BY <2>1, <2>2
<1> HIDE DEF b
<1>2. DocumentsAt(p, b) = DocumentsAt(p, a)
  BY <1>1 DEF DocumentsAt
<1>3. TypesAt(p, b) = TypesAt(p, a)
  BY <1>1 DEF TypesAt
<1>4. NullsAt(p, b) = NullsAt(p, a)
  BY <1>1 DEF NullsAt
<1>5. LeavesAt(p, b) = LeavesAt(p, a) /\ \A i \in LeavesAt(p, a) : b[i] = a[i]
  BY <1>1 DEF LeavesAt
<1>6. JsonsAt(p, b) = JsonsAt(p, a)
  BY <1>5 DEF JsonsAt
<1>7. LengthsAt(p, b) = LengthsAt(p, a)
  <2>1. {j \in At(p, b) : LabelOf(b[j].call) = "array"}
          = {j \in At(p, a) : LabelOf(a[j].call) = "array"}
    BY <1>1
  <2>2. \A j \in {k \in At(p, a) : LabelOf(a[k].call) = "array"} : b[j] = a[j]
    BY <1>1
  <2> QED BY <2>1, <2>2 DEF LengthsAt
<1> QED BY <1>1, <1>2, <1>3, <1>4, <1>5, <1>6, <1>7 DEF b

(* and what one of the path adds. *)
LEMMA AppendHere ==
    ASSUME NEW a \in Seq(Observation), NEW r \in Observation, NEW p, r.call.path = p
    PROVE  LET b == Append(a, r)
               n == Len(a) + 1
               value == r.call.value
           IN
           /\ DocumentsAt(p, b) = DocumentsAt(p, a) \cup {r.document}
           /\ TypesAt(p, b) = TypesAt(p, a) \cup {LabelOf(r.call)}
           /\ Cardinality(NullsAt(p, a)) \in Nat
           /\ Cardinality(NullsAt(p, b)) = Cardinality(NullsAt(p, a)) + IF value.type = "null" THEN 1 ELSE 0
           /\ Cardinality(LeavesAt(p, a)) \in Nat
           /\ Cardinality(LeavesAt(p, b)) = Cardinality(LeavesAt(p, a)) + IF IsLeaf(value) THEN 1 ELSE 0
           /\ JsonsAt(p, b) = JsonsAt(p, a) \cup IF IsLeaf(value) THEN {JsonOf(value)} ELSE {}
           /\ LengthsAt(p, b) = LengthsAt(p, a)
                \cup IF LabelOf(r.call) = "array" THEN {Len(value.items)} ELSE {}
<1> DEFINE b == Append(a, r)
           n == Len(a) + 1
           value == r.call.value
<1>1. /\ At(p, b) = At(p, a) \cup {n} /\ b[n] = r /\ n \notin At(p, a)
      /\ \A i \in At(p, a) : b[i] = a[i]
  <2>1. At(p, a) \subseteq 1 .. Len(a) /\ Len(a) \in Nat
    BY AppendAt
  <2> QED BY <2>1, AppendAt
<1>2. IsFiniteSet(At(p, a))
  BY AppendAt
<1> HIDE DEF b, n
<1>3. DocumentsAt(p, b) = DocumentsAt(p, a) \cup {r.document}
  BY <1>1 DEF DocumentsAt
<1>4. TypesAt(p, b) = TypesAt(p, a) \cup {LabelOf(r.call)}
  BY <1>1 DEF TypesAt
<1>5. NullsAt(p, b) = NullsAt(p, a) \cup IF value.type = "null" THEN {n} ELSE {}
  BY <1>1 DEF NullsAt
<1>6. LeavesAt(p, b) = LeavesAt(p, a) \cup IF IsLeaf(value) THEN {n} ELSE {}
  BY <1>1 DEF LeavesAt
<1>7. /\ IsFiniteSet(NullsAt(p, a)) /\ n \notin NullsAt(p, a)
      /\ IsFiniteSet(LeavesAt(p, a)) /\ n \notin LeavesAt(p, a)
      /\ Cardinality(NullsAt(p, a)) \in Nat /\ Cardinality(LeavesAt(p, a)) \in Nat
  <2>1. NullsAt(p, a) \subseteq At(p, a) /\ LeavesAt(p, a) \subseteq At(p, a)
    BY DEF NullsAt, LeavesAt
  <2>2. IsFiniteSet(NullsAt(p, a)) /\ IsFiniteSet(LeavesAt(p, a))
    BY <1>2, <2>1, FS_Subset
  <2> QED BY <1>1, <2>1, <2>2, FS_CardinalityType
<1>8. \A S : IsFiniteSet(S) /\ n \notin S =>
         Cardinality(S) \in Nat /\ Cardinality(S \cup {n}) = Cardinality(S) + 1
  BY FS_CardinalityType, FS_AddElement
<1>9. /\ Cardinality(NullsAt(p, a)) \in Nat
      /\ Cardinality(NullsAt(p, b)) = Cardinality(NullsAt(p, a)) + IF value.type = "null" THEN 1 ELSE 0
  <2>1. CASE value.type = "null"
    <3>1. NullsAt(p, b) = NullsAt(p, a) \cup {n}
      BY <1>5, <2>1
    <3> QED BY <1>7, <1>8, <2>1, <3>1
  <2>2. CASE ~(value.type = "null")
    <3>1. NullsAt(p, b) = NullsAt(p, a)
      BY <1>5, <2>2
    <3> QED BY <1>7, <2>2, <3>1
  <2> QED BY <2>1, <2>2
<1>10. /\ Cardinality(LeavesAt(p, a)) \in Nat
       /\ Cardinality(LeavesAt(p, b)) = Cardinality(LeavesAt(p, a)) + IF IsLeaf(value) THEN 1 ELSE 0
  <2>1. CASE IsLeaf(value)
    <3>1. LeavesAt(p, b) = LeavesAt(p, a) \cup {n}
      BY <1>6, <2>1
    <3> QED BY <1>7, <1>8, <2>1, <3>1
  <2>2. CASE ~(IsLeaf(value))
    <3>1. LeavesAt(p, b) = LeavesAt(p, a)
      BY <1>6, <2>2
    <3> QED BY <1>7, <2>2, <3>1
  <2> QED BY <2>1, <2>2
<1>11. JsonsAt(p, b) = JsonsAt(p, a) \cup IF IsLeaf(value) THEN {JsonOf(value)} ELSE {}
  <2>1. \A i \in LeavesAt(p, a) : b[i] = a[i]
    BY <1>1 DEF LeavesAt
  <2> QED BY <1>1, <1>6, <2>1 DEF JsonsAt
<1>12. LengthsAt(p, b) = LengthsAt(p, a)
         \cup IF LabelOf(r.call) = "array" THEN {Len(value.items)} ELSE {}
  <2> DEFINE Arrays(s) == {j \in At(p, s) : LabelOf(s[j].call) = "array"}
  <2>1. Arrays(b) = Arrays(a) \cup IF LabelOf(r.call) = "array" THEN {n} ELSE {}
    BY <1>1
  <2>2. \A j \in Arrays(a) : b[j] = a[j]
    BY <1>1
  <2>3. \A s : LengthsAt(p, s) = {Len(s[i].call.value.items) : i \in Arrays(s)}
    BY DEF LengthsAt
  <2> HIDE DEF Arrays
  <2> QED BY <1>1, <2>1, <2>2, <2>3
<1> QED BY <1>3, <1>4, <1>9, <1>10, <1>11, <1>12 DEF b

(* What the statistics of a path say of the observations, *)
Tallied(stats, path, all) ==
    /\ stats.seen = Cardinality(DocumentsAt(path, all))
    /\ stats.nulls = Cardinality(NullsAt(path, all))
    /\ stats.types = TypesAt(path, all)
    /\ stats.maxLen \in LengthsAt(path, all) \cup {NoLength}
    /\ \A length \in LengthsAt(path, all) \cup {NoLength} : length <= stats.maxLen
    /\ stats.samplesSeen = Cardinality(LeavesAt(path, all))

(* the values among them, which may be short of some, *)
Honest(stats, path, all, short) ==
    /\ stats.distinct \subseteq JsonsAt(path, all)
    /\ ~(stats.capped \/ short) => stats.distinct = JsonsAt(path, all)
    /\ Range(stats.samples) \subseteq JsonsAt(path, all)
    /\ Len(stats.samples) = IF stats.samplesSeen < SampleSlots THEN stats.samplesSeen ELSE SampleSlots

(* and that they go on saying it. *)
LEMMA FinalFields ==
    ASSUME NEW stats \in Stats, NEW call, NEW index
    PROVE  LET final == Final(stats, call, index) IN
           /\ final.seen = stats.seen + SeenGain(call.path)
           /\ final.nulls = stats.nulls + IF call.value.type = "null" THEN 1 ELSE 0
           /\ final.types = stats.types \cup {LabelOf(call)}
           /\ final.inArray = (stats.inArray \/ call.inArray)
           /\ final.distinct = DistinctAfter(stats, call.value)
           /\ final.capped = (stats.capped \/ (Tracks(stats, call.value) /\ ~HasRoom(stats)))
           /\ final.samples = SamplesAfter(stats, call.value, index)
           /\ final.samplesSeen = stats.samplesSeen + IF IsLeaf(call.value) THEN 1 ELSE 0
           /\ final.maxLen = IF TooDeep(call) THEN stats.maxLen ELSE MaxLenAfter(stats, call.value)
           /\ final.position = stats.position
<1> DEFINE o == Observed(stats, call, LabelOf(call), index)
           Fits(f) == /\ f.seen = stats.seen + SeenGain(call.path)
                      /\ f.nulls = stats.nulls + IF call.value.type = "null" THEN 1 ELSE 0
                      /\ f.types = stats.types \cup {LabelOf(call)}
                      /\ f.inArray = (stats.inArray \/ call.inArray)
                      /\ f.distinct = DistinctAfter(stats, call.value)
                      /\ f.capped = (stats.capped \/ (Tracks(stats, call.value) /\ ~HasRoom(stats)))
                      /\ f.samples = SamplesAfter(stats, call.value, index)
                      /\ f.samplesSeen = stats.samplesSeen + IF IsLeaf(call.value) THEN 1 ELSE 0
                      /\ f.position = stats.position
<1>1. DOMAIN stats = Fields
  BY DEF Stats, Fields
<1>2. DOMAIN o = Fields
  BY <1>1 DEF Observed
<1>3. Fits(o) /\ o.maxLen = stats.maxLen
  BY <1>1 DEF Observed, Fields
<1> HIDE DEF o
<1>4. \A length : /\ Fits([o EXCEPT !.maxLen = length])
                  /\ [o EXCEPT !.maxLen = length].maxLen = length
  BY <1>2, <1>3 DEF Fields
<1>5. Final(stats, call, index) =
        IF TooDeep(call) THEN o ELSE [o EXCEPT !.maxLen = MaxLenAfter(stats, call.value)]
  BY DEF Final, o
<1> QED BY <1>3, <1>4, <1>5

LEMMA TalliedKept ==
    ASSUME NEW a \in Seq(Observation), NEW r \in Observation, NEW stats \in Stats, NEW index,
           Tallied(stats, r.call.path, a),
           SeenGain(r.call.path) = IF r.document \in DocumentsAt(r.call.path, a) THEN 0 ELSE 1
    PROVE  Tallied(Final(stats, r.call, index), r.call.path, Append(a, r))
<1> DEFINE b == Append(a, r)
           p == r.call.path
           value == r.call.value
           final == Final(stats, r.call, index)
<1>1. IsFiniteSet(DocumentsAt(p, a))
  <2>1. IsFiniteSet(At(p, a))
    BY AppendAt
  <2> DEFINE f == [i \in At(p, a) |-> a[i].document]
  <2>2. {f[i] : i \in At(p, a)} = DocumentsAt(p, a)
    BY DEF DocumentsAt
  <2> HIDE DEF f
  <2>3. IsFiniteSet({f[i] : i \in At(p, a)})
    BY <2>1, FiniteImage
  <2> QED BY <2>2, <2>3
<1>2. final.seen = Cardinality(DocumentsAt(p, b))
  <2>1. DocumentsAt(p, b) = DocumentsAt(p, a) \cup {r.document}
    BY AppendHere
  <2>2. final.seen = stats.seen + SeenGain(p)
    BY FinalFields
  <2>3. stats.seen = Cardinality(DocumentsAt(p, a)) /\ stats.seen \in Nat
    BY DEF Tallied, Stats
  <2> HIDE DEF b, final, p
  <2>4. Cardinality(DocumentsAt(p, a) \cup {r.document}) =
          IF r.document \in DocumentsAt(p, a) THEN Cardinality(DocumentsAt(p, a))
          ELSE Cardinality(DocumentsAt(p, a)) + 1
    BY <1>1, FS_AddElement
  <2>5. SeenGain(p) = IF r.document \in DocumentsAt(p, a) THEN 0 ELSE 1
    BY DEF p
  <2> QED BY <2>1, <2>2, <2>3, <2>4, <2>5
<1>3. final.nulls = Cardinality(NullsAt(p, b))
  BY AppendHere, FinalFields DEF Tallied
<1>4. final.types = TypesAt(p, b)
  <2>1. TypesAt(p, b) = TypesAt(p, a) \cup {LabelOf(r.call)}
    BY AppendHere
  <2>2. final.types = stats.types \cup {LabelOf(r.call)}
    BY FinalFields
  <2> QED BY <2>1, <2>2 DEF Tallied
<1>5. final.samplesSeen = Cardinality(LeavesAt(p, b))
  BY AppendHere, FinalFields DEF Tallied
<1>6. /\ final.maxLen \in LengthsAt(p, b) \cup {NoLength}
      /\ \A length \in LengthsAt(p, b) \cup {NoLength} : length <= final.maxLen
  <2> DEFINE L == LengthsAt(p, a) \cup {NoLength}
  <2>1. LengthsAt(p, b) = LengthsAt(p, a)
          \cup IF LabelOf(r.call) = "array" THEN {Len(value.items)} ELSE {}
    BY AppendHere
  <2>2. stats.maxLen \in L /\ \A length \in L : length <= stats.maxLen
    BY DEF Tallied
  <2>3. stats.maxLen \in Int
    BY DEF Stats, NoLength
  <2>4. final.maxLen = IF TooDeep(r.call) THEN stats.maxLen ELSE MaxLenAfter(stats, value)
    BY FinalFields
  <2>5. LabelOf(r.call) = "array" <=> ~TooDeep(r.call) /\ value.type = "array"
    BY DEF LabelOf, TooDeep
  <2> HIDE DEF b, final, p
  <2>6. CASE LabelOf(r.call) = "array"
    <3>1. value.items \in Seq(Values)
      <4>1. value \in Values /\ value.type = "array"
        BY <2>5, <2>6 DEF Observation, Calls
      <4> QED BY <4>1, BsonAssumption
    <3>2. Len(value.items) \in Nat
      BY <3>1
    <3>3. final.maxLen = IF Len(value.items) > stats.maxLen THEN Len(value.items) ELSE stats.maxLen
      BY <2>4, <2>5, <2>6 DEF MaxLenAfter
    <3>4. LengthsAt(p, b) \cup {NoLength} = L \cup {Len(value.items)}
      BY <2>1, <2>6
    <3>5. \A length \in L : length <= stats.maxLen /\ length \in Int
      <4>1. \A length \in LengthsAt(p, a) : length \in Int
        <5> SUFFICES ASSUME NEW i \in At(p, a), LabelOf(a[i].call) = "array"
                     PROVE  Len(a[i].call.value.items) \in Int
          BY DEF LengthsAt
        <5>1. i \in 1 .. Len(a)
          BY AppendAt
        <5>2. a[i] \in Observation
          BY <5>1
        <5>3. a[i].call.value \in Values /\ a[i].call.value.type = "array"
          BY <5>2 DEF Observation, Calls, LabelOf
        <5>4. a[i].call.value.items \in Seq(Values)
          BY <5>3, BsonAssumption
        <5> QED BY <5>4
      <4> QED BY <2>2, <4>1 DEF NoLength
    <3>6. PICK M : M = L \cup {Len(value.items)}
      OBVIOUS
    <3>7. CASE Len(value.items) > stats.maxLen
      <4> HIDE DEF L
      <4>1. \A length \in M : length <= Len(value.items)
        BY <2>3, <3>2, <3>5, <3>6, <3>7
      <4> QED BY <3>3, <3>4, <3>6, <3>7, <4>1
    <3>8. CASE ~(Len(value.items) > stats.maxLen)
      <4> HIDE DEF L
      <4>1. \A length \in M : length <= stats.maxLen
        BY <2>3, <3>2, <3>5, <3>6, <3>8
      <4> QED BY <2>2, <3>3, <3>4, <3>6, <3>8, <4>1
    <3> QED BY <3>7, <3>8
  <2>7. CASE LabelOf(r.call) # "array"
    <3>1. final.maxLen = stats.maxLen
      BY <2>4, <2>5, <2>7 DEF MaxLenAfter
    <3>2. LengthsAt(p, b) \cup {NoLength} = L
      BY <2>1, <2>7
    <3> HIDE DEF L
    <3> QED BY <2>2, <3>1, <3>2
  <2> QED BY <2>6, <2>7
<1> QED BY <1>2, <1>3, <1>4, <1>5, <1>6 DEF Tallied

LEMMA HonestKept ==
    ASSUME NEW a \in Seq(Observation), NEW r \in Observation, NEW stats \in Stats, NEW index \in Nat,
           Honest(stats, r.call.path, a, globallyCapped), NEW short, globallyCapped => short
    PROVE  Honest(Final(stats, r.call, index), r.call.path, Append(a, r), short)
<1> DEFINE b == Append(a, r)
           p == r.call.path
           value == r.call.value
           json == JsonOf(value)
           final == Final(stats, r.call, index)
           now == JsonsAt(p, a)
           then == JsonsAt(p, b)
<1>1. then = now \cup IF IsLeaf(value) THEN {json} ELSE {}
  BY AppendHere
<1>2. /\ final.distinct = DistinctAfter(stats, value)
      /\ final.capped = (stats.capped \/ (Tracks(stats, value) /\ ~HasRoom(stats)))
      /\ final.samples = SamplesAfter(stats, value, index)
      /\ final.samplesSeen = stats.samplesSeen + IF IsLeaf(value) THEN 1 ELSE 0
  BY FinalFields
<1>3. /\ stats.distinct \subseteq now
      /\ ~(stats.capped \/ globallyCapped) => stats.distinct = now
      /\ Range(stats.samples) \subseteq now
      /\ Len(stats.samples) = IF stats.samplesSeen < SampleSlots THEN stats.samplesSeen ELSE SampleSlots
  BY DEF Honest
<1>4. stats.samples \in Seq(Jsons) /\ stats.samplesSeen \in Nat
  BY DEF Stats
<1> HIDE DEF b, p, value, json, final, now, then
<1>5. final.distinct \subseteq then /\ (~(final.capped \/ short) => final.distinct = then)
  BY <1>1, <1>2, <1>3 DEF DistinctAfter, Tracks, json
<1>6. Range(final.samples) \subseteq then
      /\ Len(final.samples) = IF final.samplesSeen < SampleSlots THEN final.samplesSeen ELSE SampleSlots
  <2>1. CASE ~IsLeaf(value)
    BY <1>1, <1>2, <1>3, <1>4, <2>1 DEF SamplesAfter
  <2>2. CASE IsLeaf(value) /\ Len(stats.samples) < SampleSlots
    <3> DEFINE longer == Append(stats.samples, json)
               T == Jsons \cup {json}
    <3>1. stats.samples \in Seq(T) /\ json \in T
      BY <1>4
    <3>2. /\ DOMAIN longer = 1 .. Len(stats.samples) + 1 /\ Len(longer) = Len(stats.samples) + 1
          /\ longer[Len(stats.samples) + 1] = json
          /\ \A i \in 1 .. Len(stats.samples) : longer[i] = stats.samples[i]
          /\ DOMAIN stats.samples = 1 .. Len(stats.samples) /\ Len(stats.samples) \in Nat
      <4> HIDE DEF T
      <4> QED BY <3>1
    <3> HIDE DEF longer
    <3>3. \A i \in DOMAIN longer : longer[i] \in Range(stats.samples) \cup {json}
      BY <3>2 DEF Range
    <3>4. Range(longer) \subseteq then
      BY <1>1, <1>3, <2>2, <3>3 DEF Range
    <3>5. final.samples = longer /\ final.samplesSeen = stats.samplesSeen + 1
      BY <1>2, <2>2 DEF SamplesAfter, longer, json
    <3> QED BY <1>3, <1>4, <2>2, <3>2, <3>4, <3>5, WalkerAssumption
  <2>3. CASE IsLeaf(value) /\ ~(Len(stats.samples) < SampleSlots)
    <3>1. Len(stats.samples) \in Nat /\ Len(stats.samples) = SampleSlots
      BY <1>3, <1>4, <2>3, WalkerAssumption
    <3>2. final.samplesSeen = stats.samplesSeen + 1 /\ ~(stats.samplesSeen < SampleSlots)
      BY <1>2, <1>3, <1>4, <2>3, WalkerAssumption
    <3>3. CASE index < SampleSlots
      <4> DEFINE other == [stats.samples EXCEPT ![index + 1] = json]
      <4>1. final.samples = other
        BY <1>2, <2>3, <3>3 DEF SamplesAfter, json
      <4>2. \A i \in DOMAIN stats.samples : other[i] \in Range(stats.samples) \cup {json}
        BY DEF Range
      <4>3. DOMAIN other = DOMAIN stats.samples
        OBVIOUS
      <4>4. Len(other) = Len(stats.samples)
        <5>1. index + 1 \in 1 .. Len(stats.samples)
          BY <3>1, <3>3
        <5> DEFINE T == Jsons \cup {json}
        <5>2. stats.samples \in Seq(T) /\ json \in T
          BY <1>4
        <5> HIDE DEF T
        <5> QED BY <5>1, <5>2, ExceptSeq
      <4> HIDE DEF other
      <4>5. Range(other) \subseteq then
        BY <1>1, <1>3, <2>3, <4>2, <4>3 DEF Range
      <4> QED BY <1>4, <3>1, <3>2, <4>1, <4>4, <4>5, WalkerAssumption
    <3>4. CASE ~(index < SampleSlots)
      <4>1. final.samples = stats.samples
        BY <1>2, <2>3, <3>4 DEF SamplesAfter
      <4>2. Range(stats.samples) \subseteq then
        BY <1>1, <1>3
      <4> QED BY <1>4, <3>1, <3>2, <4>1, <4>2, WalkerAssumption
    <3> QED BY <3>3, <3>4
  <2> QED BY <2>1, <2>2, <2>3
<1> QED BY <1>5, <1>6 DEF Honest, final, then, p, b

-----------------------------------------------------------------------------
(* The order in which the paths are shown.                                  *)

FirstAt(path, position, all) ==
    \E i \in At(path, all) :
        /\ \A j \in At(path, all) : i <= j
        /\ position = Shown(i, all)

LEMMA ShownFacts ==
    ASSUME NEW a \in Seq(Observation), NEW r \in Observation
    PROVE  LET b == Append(a, r)
               n == Len(a) + 1
           IN  /\ \A i \in 1 .. Len(a) : Shown(i, b) = Shown(i, a)
               /\ PathsTo(Len(b), b) = PathsTo(Len(a), a) \cup {r.call.path}
               /\ Shown(n, b) = Cardinality(PathsTo(Len(a), a) \cup {r.call.path})
               /\ IsFiniteSet(PathsTo(Len(a), a))
               /\ FirstPaths(a) \subseteq PathsTo(Len(a), a)
               /\ FirstPaths(b) = FirstPaths(a) \cup IF Shown(n, b) <= MaxPaths THEN {r.call.path} ELSE {}
<1> DEFINE b == Append(a, r)
           n == Len(a) + 1
<1>1. /\ Len(b) = n /\ b[n] = r /\ Len(a) \in Nat /\ DOMAIN b = 1 .. n /\ DOMAIN a = 1 .. Len(a)
      /\ \A i \in 1 .. Len(a) : b[i] = a[i]
  OBVIOUS
<1> HIDE DEF b
<1>2. \A i \in 1 .. Len(a) : PathsTo(i, b) = PathsTo(i, a)
  BY <1>1 DEF PathsTo
<1>3. PathsTo(n, b) = PathsTo(Len(a), a) \cup {r.call.path}
  <2>1. 1 .. n = (1 .. Len(a)) \cup {n}
    BY <1>1
  <2> QED BY <1>1, <2>1 DEF PathsTo
<1>4. IsFiniteSet(PathsTo(Len(a), a))
  <2> DEFINE f == [i \in 1 .. Len(a) |-> a[i].call.path]
  <2>1. IsFiniteSet(1 .. Len(a))
    BY <1>1, FS_Interval
  <2>2. IsFiniteSet({f[i] : i \in 1 .. Len(a)})
    BY <2>1, FiniteImage
  <2>3. {f[i] : i \in 1 .. Len(a)} = PathsTo(Len(a), a)
    BY DEF PathsTo
  <2> QED BY <2>2, <2>3
<1>5. \A i \in 1 .. Len(a) : Shown(i, b) = Shown(i, a)
  BY <1>2 DEF Shown
<1>6. Shown(n, b) = Cardinality(PathsTo(Len(a), a) \cup {r.call.path})
  BY <1>3 DEF Shown
<1>7. FirstPaths(a) \subseteq PathsTo(Len(a), a)
  BY <1>1 DEF FirstPaths, PathsTo
<1>8. FirstPaths(b) = FirstPaths(a) \cup IF Shown(n, b) <= MaxPaths THEN {r.call.path} ELSE {}
  <2> DEFINE Fit(s) == {j \in DOMAIN s : Shown(j, s) <= MaxPaths}
  <2>1. Fit(b) = Fit(a) \cup IF Shown(n, b) <= MaxPaths THEN {n} ELSE {}
    BY <1>1, <1>5
  <2>2. \A j \in Fit(a) : b[j] = a[j]
    BY <1>1
  <2>3. FirstPaths(a) = {a[i].call.path : i \in Fit(a)} /\ FirstPaths(b) = {b[i].call.path : i \in Fit(b)}
    BY DEF FirstPaths
  <2> HIDE DEF Fit
  <2> QED BY <1>1, <2>1, <2>2, <2>3
<1> QED BY <1>1, <1>3, <1>4, <1>5, <1>6, <1>7, <1>8 DEF b

LEMMA FirstStays ==
    ASSUME NEW a \in Seq(Observation), NEW r \in Observation, NEW p, NEW position,
           FirstAt(p, position, a)
    PROVE  FirstAt(p, position, Append(a, r))
<1> DEFINE b == Append(a, r)
<1>1. PICK i \in At(p, a) : (\A j \in At(p, a) : i <= j) /\ position = Shown(i, a)
  BY DEF FirstAt
<1>2. At(p, a) \subseteq 1 .. Len(a) /\ Len(a) + 1 \in Nat
  BY AppendAt
<1>3. At(p, b) = At(p, a) \cup IF r.call.path = p THEN {Len(a) + 1} ELSE {}
  BY AppendAt
<1>4. Shown(i, b) = Shown(i, a)
  BY <1>1, <1>2, ShownFacts
<1> HIDE DEF b
<1>5. i \in At(p, b) /\ \A j \in At(p, b) : i <= j
  BY <1>1, <1>2, <1>3
<1> QED BY <1>1, <1>4, <1>5 DEF FirstAt, b

(* The paths that are known, with one observation more. *)
LEMMA KnownPaths ==
    ASSUME NEW a \in Seq(Observation), NEW r \in Observation,
           NEW D, D = FirstPaths(a), Cardinality(D) < MaxPaths => D = PathsTo(Len(a), a)
    PROVE  LET b == Append(a, r)
               p == r.call.path
               full == p \notin D /\ Cardinality(D) >= MaxPaths
               E == IF full THEN D ELSE D \cup {p}
           IN  /\ E = FirstPaths(b)
               /\ Cardinality(E) < MaxPaths => E = PathsTo(Len(b), b)
               /\ p \notin D /\ ~full => /\ At(p, a) = {}
                                         /\ FirstAt(p, Cardinality(D) + 1, b)
<1> DEFINE b == Append(a, r)
           n == Len(a) + 1
           p == r.call.path
           A == PathsTo(Len(a), a)
<1>1. /\ PathsTo(Len(b), b) = A \cup {p} /\ Shown(n, b) = Cardinality(A \cup {p})
      /\ IsFiniteSet(A) /\ D \subseteq A
      /\ FirstPaths(b) = D \cup IF Shown(n, b) <= MaxPaths THEN {p} ELSE {}
  BY ShownFacts
<1>2. IsFiniteSet(D) /\ Cardinality(D) \in Nat /\ Cardinality(A) \in Nat
  BY <1>1, FS_Subset, FS_CardinalityType
<1>3. A = {a[j].call.path : j \in 1 .. Len(a)}
  BY DEF PathsTo
<1>4. IsFiniteSet(A \cup {p}) /\ IsFiniteSet(D \cup {p})
      /\ Cardinality(A \cup {p}) \in Nat /\ Cardinality(D \cup {p}) \in Nat
  BY <1>1, <1>2, FS_AddElement, FS_CardinalityType
<1>5. CASE p \in D
  <2>1. FirstPaths(b) = D /\ D \cup {p} = D /\ A \cup {p} = A
    BY <1>1, <1>5
  <2> QED BY <1>1, <1>5, <2>1
<1>6. CASE p \notin D /\ Cardinality(D) >= MaxPaths
  <2>1. Cardinality(D \cup {p}) = Cardinality(D) + 1
    BY <1>2, <1>6, FS_AddElement
  <2>2. Cardinality(D \cup {p}) <= Cardinality(A \cup {p})
    <3>1. D \cup {p} \subseteq A \cup {p}
      BY <1>1
    <3> HIDE DEF A, p
    <3> QED BY <1>4, <3>1, FS_Subset
  <2>3. ~(Shown(n, b) <= MaxPaths)
    BY <1>1, <1>2, <1>4, <1>6, <2>1, <2>2, WalkerAssumption
  <2>4. FirstPaths(b) = D
    BY <1>1, <2>3
  <2>5. ~(Cardinality(D) < MaxPaths)
    BY <1>2, <1>6, WalkerAssumption
  <2> QED BY <1>6, <2>4, <2>5
<1>7. CASE p \notin D /\ ~(Cardinality(D) >= MaxPaths)
  <2>1. D = A
    BY <1>2, <1>7, WalkerAssumption
  <2>2. Cardinality(D \cup {p}) = Cardinality(D) + 1
    BY <1>2, <1>7, FS_AddElement
  <2>3. Shown(n, b) = Cardinality(D) + 1 /\ Shown(n, b) <= MaxPaths
    BY <1>1, <1>2, <1>7, <2>1, <2>2, WalkerAssumption
  <2>4. FirstPaths(b) = D \cup {p} /\ PathsTo(Len(b), b) = D \cup {p}
    BY <1>1, <2>1, <2>3
  <2>5. At(p, a) = {}
    <3>1. At(p, a) \subseteq 1 .. Len(a)
      BY AppendAt
    <3>2. \A i \in At(p, a) : a[i].call.path = p
      BY DEF At
    <3>3. \A i \in 1 .. Len(a) : a[i].call.path \in A
      BY <1>3
    <3> QED BY <1>7, <2>1, <3>1, <3>2, <3>3
  <2>6. At(p, b) = {n}
    <3>1. At(p, b) = At(p, a) \cup IF r.call.path = p THEN {Len(a) + 1} ELSE {}
      BY AppendAt
    <3> QED BY <2>5, <3>1
  <2>7. FirstAt(p, Cardinality(D) + 1, b)
    <3>1. n <= n
      OBVIOUS
    <3> HIDE DEF n, b, p
    <3> QED BY <2>3, <2>6, <3>1 DEF FirstAt
  <2> QED BY <1>7, <2>4, <2>5, <2>7
<1> QED BY <1>5, <1>6, <1>7

-----------------------------------------------------------------------------
(* The accounts of the walk: after the observations, what is kept is true.    *)

Described(stats, path, all, short) ==
    /\ Tallied(stats, path, all)
    /\ stats.inArray = \E i \in At(path, all) : all[i].call.inArray
    /\ Honest(stats, path, all, short)
    /\ FirstAt(path, stats.position, all)

Accounted(all) ==
    /\ \A i \in DOMAIN all : all[i].document \in 1 .. docsSampled
    /\ \A p \in DOMAIN paths : p \in visited <=> docsSampled \in DocumentsAt(p, all)
    /\ DOMAIN paths = FirstPaths(all)
    /\ Cardinality(DOMAIN paths) < MaxPaths => DOMAIN paths = PathsTo(Len(all), all)
    /\ \A p \in DOMAIN paths : Described(paths[p], p, all, globallyCapped)

LEMMA DescribedElsewhere ==
    ASSUME NEW a \in Seq(Observation), NEW r \in Observation, NEW p, r.call.path # p,
           NEW stats, NEW short, NEW shorter, short => shorter, Described(stats, p, a, short)
    PROVE  Described(stats, p, Append(a, r), shorter)
<1> DEFINE b == Append(a, r)
<1>1. /\ At(p, b) = At(p, a) /\ \A i \in At(p, a) : b[i] = a[i]
      /\ DocumentsAt(p, b) = DocumentsAt(p, a) /\ TypesAt(p, b) = TypesAt(p, a)
      /\ NullsAt(p, b) = NullsAt(p, a) /\ LeavesAt(p, b) = LeavesAt(p, a)
      /\ JsonsAt(p, b) = JsonsAt(p, a) /\ LengthsAt(p, b) = LengthsAt(p, a)
  BY AppendElsewhere
<1>2. FirstAt(p, stats.position, b)
  BY FirstStays DEF Described
<1> HIDE DEF b
<1>3. Tallied(stats, p, b)
  BY <1>1 DEF Described, Tallied
<1>4. Honest(stats, p, b, shorter)
  BY <1>1 DEF Described, Honest
<1>5. stats.inArray = \E i \in At(p, b) : b[i].call.inArray
  BY <1>1 DEF Described
<1> QED BY <1>2, <1>3, <1>4, <1>5 DEF Described, b

(* A path that is new has nothing to tell yet. *)
LEMMA NewEntry ==
    ASSUME NEW a \in Seq(Observation), NEW p, NEW inArray, NEW short, p \notin DOMAIN paths, At(p, a) = {}
    PROVE  LET stats == Entry(p, inArray) IN
           /\ Tallied(stats, p, a) /\ Honest(stats, p, a, short)
           /\ stats.inArray = inArray /\ stats.position = nextPosition
<1> DEFINE stats == Entry(p, inArray)
<1>1. /\ stats.seen = 0 /\ stats.nulls = 0 /\ stats.types = {} /\ stats.distinct = {}
      /\ stats.samples = <<>> /\ stats.samplesSeen = 0 /\ stats.maxLen = NoLength
      /\ stats.inArray = inArray /\ stats.position = nextPosition
  BY DEF Entry
<1> HIDE DEF stats
<1>2. Cardinality({}) = 0
  BY FS_EmptySet
<1>3. /\ DocumentsAt(p, a) = {} /\ NullsAt(p, a) = {} /\ LeavesAt(p, a) = {} /\ TypesAt(p, a) = {}
  BY DEF DocumentsAt, NullsAt, LeavesAt, TypesAt
<1>4. LengthsAt(p, a) = {}
  BY DEF LengthsAt
<1>5. JsonsAt(p, a) = {}
  BY <1>3 DEF JsonsAt
<1>6. Tallied(stats, p, a)
  BY <1>1, <1>2, <1>3, <1>4 DEF Tallied, NoLength
<1>7. Range(<<>>) = {} /\ Len(<<>>) = 0
  BY DEF Range
<1>8. Len(stats.samples) = 0 /\ Range(stats.samples) = {}
  BY <1>1, <1>7, Zenon
<1>9. Honest(stats, p, a, short)
  BY <1>1, <1>5, <1>8, WalkerAssumption DEF Honest
<1> QED BY <1>1, <1>6, <1>9 DEF stats

LEMMA FinalDescribed ==
    ASSUME NEW a \in Seq(Observation), NEW r \in Observation, NEW stats \in Stats, NEW index \in Nat,
           NEW short, globallyCapped => short,
           Tallied(stats, r.call.path, a), Honest(stats, r.call.path, a, globallyCapped),
           SeenGain(r.call.path) = IF r.document \in DocumentsAt(r.call.path, a) THEN 0 ELSE 1,
           \/ stats.inArray = \E i \in At(r.call.path, a) : a[i].call.inArray
           \/ stats.inArray = r.call.inArray /\ At(r.call.path, a) = {},
           FirstAt(r.call.path, stats.position, Append(a, r))
    PROVE  Described(Final(stats, r.call, index), r.call.path, Append(a, r), short)
<1> DEFINE b == Append(a, r)
           n == Len(a) + 1
           p == r.call.path
           final == Final(stats, r.call, index)
<1>1. Tallied(final, p, b)
  BY TalliedKept
<1>2. Honest(final, p, b, short)
  BY HonestKept
<1>3. final.inArray = (stats.inArray \/ r.call.inArray) /\ final.position = stats.position
  BY FinalFields
<1>4. /\ At(p, b) = At(p, a) \cup {n} /\ b[n] = r
      /\ \A i \in At(p, a) : b[i] = a[i]
  <2>1. At(p, a) \subseteq 1 .. Len(a) /\ \A i \in 1 .. Len(a) : b[i] = a[i]
    BY AppendAt
  <2>2. b[n] = r /\ At(p, b) = At(p, a) \cup IF r.call.path = p THEN {n} ELSE {}
    BY AppendAt
  <2> QED BY <2>1, <2>2
<1>5. r.call.inArray \in BOOLEAN /\ stats.inArray \in BOOLEAN
  BY DEF Observation, Calls, Stats
<1> HIDE DEF b, n, final, p
<1>6. (\E i \in At(p, b) : b[i].call.inArray) <=> (\E i \in At(p, a) : a[i].call.inArray) \/ r.call.inArray
  BY <1>4
<1>7. final.inArray = \E i \in At(p, b) : b[i].call.inArray
  BY <1>3, <1>5, <1>6 DEF p
<1>8. FirstAt(p, final.position, b)
  BY <1>3 DEF p, b
<1> QED BY <1>1, <1>2, <1>7, <1>8 DEF Described, b, final, p

LEMMA AppendedDocuments ==
    ASSUME NEW a \in Seq(Observation), NEW r \in Observation
    PROVE  /\ DocumentsAt(r.call.path, Append(a, r))
                  = DocumentsAt(r.call.path, a) \cup {r.document}
           /\ \A q : r.call.path # q => DocumentsAt(q, Append(a, r)) = DocumentsAt(q, a)
<1>1. DocumentsAt(r.call.path, Append(a, r)) = DocumentsAt(r.call.path, a) \cup {r.document}
  BY AppendHere
<1>2. ASSUME NEW q, r.call.path # q
      PROVE  DocumentsAt(q, Append(a, r)) = DocumentsAt(q, a)
  BY <1>2, AppendElsewhere
<1> QED BY <1>1, <1>2

LEMMA CallAccounted ==
    ASSUME TypeInv, WalkerInv, NEW index \in Nat, ObservePath(index),
           NEW a \in Seq(Observation), Accounted(a),
           NEW r \in Observation, r = [document |-> docsSampled, call |-> Head(todo)]
    PROVE  Accounted(Append(a, r))'
<1> DEFINE b == Append(a, r)
           call == Head(todo)
           p == r.call.path
           D == DOMAIN paths
           stats == Entry(p, call.inArray)
           final == Final(stats, call, index)
<1>1. /\ todo # <<>> /\ docsSampled' = docsSampled
      /\ r.call = call /\ r.document = docsSampled /\ docsSampled \in Nat /\ docsSampled >= 1
  BY CallTaken DEF WalkerInv, PresenceInv
<1>2. \A i \in DOMAIN b : b[i].document \in 1 .. docsSampled
  <2>1. \A i \in DOMAIN a : a[i].document \in 1 .. docsSampled
    BY DEF Accounted
  <2> QED BY <1>1, <2>1
<1>3. /\ D = FirstPaths(a) /\ (Cardinality(D) < MaxPaths => D = PathsTo(Len(a), a))
      /\ \A q \in D : q \in visited <=> docsSampled \in DocumentsAt(q, a)
      /\ \A q \in D : Described(paths[q], q, a, globallyCapped)
  BY DEF Accounted
<1>4. Refused(p) <=> p \notin D /\ Cardinality(D) >= MaxPaths
  BY DEF Refused
<1>5. ASSUME NEW q, q # p
      PROVE  DocumentsAt(q, b) = DocumentsAt(q, a)
  <2>1. r.call.path # q
    BY <1>5
  <2> QED BY <2>1, AppendedDocuments, Zenon
<1>6. DocumentsAt(p, b) = DocumentsAt(p, a) \cup {docsSampled}
  <2>1. DocumentsAt(r.call.path, b) = DocumentsAt(r.call.path, a) \cup {r.document}
    BY AppendedDocuments, Zenon
  <2> QED BY <1>1, <2>1
<1>7. CASE Refused(p)
  <2>1. UNCHANGED <<paths, nextPosition, visited, distinctBytes, globallyCapped>>
    BY <1>1, <1>7, CallTaken
  <2>2. p \notin D
    BY <1>7 DEF Refused
  <2>3. D = FirstPaths(b) /\ (Cardinality(D) < MaxPaths => D = PathsTo(Len(b), b))
    BY <1>3, <1>4, <1>7, KnownPaths
  <2>4. \A q \in D : Described(paths[q], q, b, globallyCapped)
    BY <1>3, <2>2, DescribedElsewhere
  <2>5. \A q \in D : q \in visited <=> docsSampled \in DocumentsAt(q, b)
    BY <1>3, <1>5, <2>2
  <2> HIDE DEF b
  <2> QED BY <1>1, <1>2, <2>1, <2>3, <2>4, <2>5 DEF Accounted, b
<1>8. CASE ~Refused(p)
  <2>1. RecordPath(call, LabelOf(call), index)
    BY <1>1, <1>8, CallTaken
  <2>2. /\ RecordedAs(p, final) /\ visited' = visited \cup {p}
        /\ globallyCapped' = (globallyCapped \/ BytesAfter(stats, call.value) > MaxDistinctTracked)
    BY <1>1, <2>1, Recorded
  <2>3. DOMAIN paths' = D \cup {p} /\ paths'[p] = final /\ \A q \in D : q # p => paths'[q] = paths[q]
    BY <2>2 DEF RecordedAs
  <2>4. /\ D \cup {p} = FirstPaths(b)
        /\ Cardinality(D \cup {p}) < MaxPaths => D \cup {p} = PathsTo(Len(b), b)
        /\ p \notin D => At(p, a) = {} /\ FirstAt(p, Cardinality(D) + 1, b)
    BY <1>3, <1>4, <1>8, KnownPaths
  <2>5. stats \in Stats
    <3>1. call.inArray \in BOOLEAN
      BY <1>1 DEF Observation, Calls
    <3> QED BY <3>1, EntryType
  <2>6. nextPosition = Cardinality(D) + 1
    BY DEF WalkerInv, PositionsDense
  <2>7. SeenGain(p) = IF docsSampled \in DocumentsAt(p, a) THEN 0 ELSE 1
    <3>1. CASE p \in D
      BY <1>3, <3>1 DEF SeenGain
    <3>2. CASE p \notin D
      <4>1. DocumentsAt(p, a) = {}
        BY <2>4, <3>2 DEF DocumentsAt
      <4>2. p \notin visited
        BY <3>2 DEF TypeInv
      <4> QED BY <4>1, <4>2 DEF SeenGain
    <3> QED BY <3>1, <3>2
  <2>8. /\ Tallied(stats, p, a) /\ Honest(stats, p, a, globallyCapped)
        /\ \/ stats.inArray = \E i \in At(p, a) : a[i].call.inArray
           \/ stats.inArray = r.call.inArray /\ At(p, a) = {}
        /\ FirstAt(p, stats.position, b)
    <3>1. CASE p \in D
      <4>1. stats = paths[p]
        BY <3>1 DEF Entry
      <4>2. Described(stats, p, a, globallyCapped)
        BY <1>3, <3>1, <4>1
      <4>3. FirstAt(p, stats.position, b)
        BY <4>2, FirstStays DEF Described
      <4> HIDE DEF stats, b
      <4> QED BY <4>2, <4>3 DEF Described
    <3>2. CASE p \notin D
      <4>1. At(p, a) = {} /\ FirstAt(p, nextPosition, b)
        BY <2>4, <2>6, <3>2
      <4>2. /\ Tallied(stats, p, a) /\ Honest(stats, p, a, globallyCapped)
            /\ stats.inArray = call.inArray /\ stats.position = nextPosition
        BY <3>2, <4>1, NewEntry
      <4> HIDE DEF stats, b
      <4> QED BY <1>1, <4>1, <4>2
    <3> QED BY <3>1, <3>2
  <2>9. globallyCapped => globallyCapped'
    BY <2>2
  <2>10. Described(final, p, b, globallyCapped')
    <3> HIDE DEF stats
    <3>1. Described(Final(stats, r.call, index), r.call.path, Append(a, r), globallyCapped')
      BY <1>1, <2>5, <2>7, <2>8, <2>9, FinalDescribed
    <3> QED BY <1>1, <3>1
  <2>11. \A q \in D : q # p => Described(paths[q], q, b, globallyCapped')
    BY <1>3, <2>9, DescribedElsewhere
  <2>12. ASSUME NEW q \in DOMAIN paths'
         PROVE  /\ Described(paths'[q], q, b, globallyCapped')
                /\ q \in visited' <=> docsSampled \in DocumentsAt(q, b)
    <3> HIDE DEF b, final, p, D
    <3>1. CASE q = p
      BY <1>6, <2>2, <2>3, <2>10, <3>1
    <3>2. CASE q # p
      BY <1>3, <1>5, <2>2, <2>3, <2>11, <2>12, <3>2
    <3> QED BY <3>1, <3>2
  <2> HIDE DEF b, final, p, D, stats
  <2> QED BY <1>1, <1>2, <2>3, <2>4, <2>12 DEF Accounted, b
<1> QED BY <1>7, <1>8

LEMMA DocumentAccounted ==
    ASSUME TypeInv, NEW document, ObserveDocument(document),
           NEW a \in Seq(Observation), Accounted(a)
    PROVE  Accounted(a)'
<1>1. /\ UNCHANGED <<paths, globallyCapped>> /\ docsSampled' = docsSampled + 1 /\ visited' = {}
  BY DEF ObserveDocument
<1>2. docsSampled \in Nat
  BY WalkerAssumption DEF TypeInv
<1>3. \A i \in DOMAIN a : a[i].document \in 1 .. docsSampled
  BY DEF Accounted
<1>4. \A i \in DOMAIN a : a[i].document \in 1 .. docsSampled'
  BY <1>1, <1>2, <1>3
<1>5. \A p : docsSampled' \notin DocumentsAt(p, a)
  <2> TAKE p
  <2>1. \A i \in At(p, a) : i \in DOMAIN a
    BY DEF At
  <2> QED BY <1>1, <1>2, <1>3, <2>1 DEF DocumentsAt
<1> QED BY <1>1, <1>4, <1>5 DEF Accounted

-----------------------------------------------------------------------------
(* What has been observed, and what is to come, make up the sample.          *)

LEMMA LabelledFacts ==
    ASSUME NEW n \in Nat \ {0}
    PROVE  /\ Labelled(n, <<>>) = <<>>
           /\ \A s \in Seq(Calls) : Labelled(n, s) \in Seq(Observation)
           /\ \A c \in Calls, s \in Seq(Calls) :
                Labelled(n, Joined(<<c>>, s)) = Joined(<<[document |-> n, call |-> c]>>, Labelled(n, s))
<1>1. Labelled(n, <<>>) = <<>>
  BY DEF Labelled
<1>2. ASSUME NEW s \in Seq(Calls) PROVE Labelled(n, s) \in Seq(Observation) /\ Len(Labelled(n, s)) = Len(s)
  <2> DEFINE l == Labelled(n, s)
  <2>1. l = [i \in 1 .. Len(s) |-> l[i]] /\ \A i \in 1 .. Len(s) : l[i] \in Observation
    BY DEF Labelled, Observation
  <2>2. Len(s) \in Nat
    OBVIOUS
  <2> HIDE DEF l
  <2>3. l \in Seq(Observation) /\ Len(l) = Len(s)
    BY <2>1, <2>2, ElementsMakeSeq
  <2> QED BY <2>3 DEF l
<1>3. ASSUME NEW c \in Calls, NEW s \in Seq(Calls)
      PROVE  Labelled(n, Joined(<<c>>, s)) = Joined(<<[document |-> n, call |-> c]>>, Labelled(n, s))
  <2> DEFINE o == [document |-> n, call |-> c]
             t == Joined(<<c>>, s)
             l == Labelled(n, t)
             m == Labelled(n, s)
             j == Joined(<<o>>, m)
  <2>1. /\ t \in Seq(Calls) /\ Len(t) = 1 + Len(s) /\ Len(s) \in Nat /\ t[1] = c
        /\ \A i \in 1 .. Len(s) : t[i + 1] = s[i]
    BY DEF Joined
  <2>2. o \in Observation
    BY DEF Observation
  <2>3. l \in Seq(Observation) /\ Len(l) = Len(t) /\ m \in Seq(Observation) /\ Len(m) = Len(s)
    BY <1>2, <2>1
  <2>4. /\ \A i \in 1 .. Len(t) : l[i] = [document |-> n, call |-> t[i]]
        /\ \A i \in 1 .. Len(s) : m[i] = [document |-> n, call |-> s[i]]
    BY <2>1 DEF Labelled
  <2> HIDE DEF o, t, l, m
  <2>5. /\ j \in Seq(Observation) /\ Len(j) = 1 + Len(m) /\ j[1] = o
        /\ \A i \in 1 .. Len(m) : j[i + 1] = m[i]
    BY <2>2, <2>3 DEF Joined
  <2> HIDE DEF j
  <2>6. \A i \in 1 .. Len(l) : l[i] = j[i]
    <3> TAKE i \in 1 .. Len(l)
    <3>1. CASE i = 1
      BY <2>1, <2>3, <2>4, <2>5, <3>1 DEF o
    <3>2. CASE i # 1
      <4>1. i - 1 \in 1 .. Len(s) /\ (i - 1) + 1 = i
        BY <2>1, <2>3, <3>2
      <4>2. j[i] = m[i - 1] /\ t[i] = s[i - 1]
        BY <2>1, <2>3, <2>5, <4>1
      <4> QED BY <2>3, <2>4, <4>1, <4>2
    <3> QED BY <3>1, <3>2
  <2>7. l = j
    BY <2>1, <2>3, <2>5, <2>6, SeqEqual
  <2> QED BY <2>7 DEF o, t, l, m, j
<1> QED BY <1>1, <1>2, <1>3

(* The documents of the sample, each with its number. *)
Numbers(n) == [i \in 1 .. n |-> i]
Told(s) == [n \in Nat |-> IF n \in DOMAIN s THEN Labelled(n, Occurrences(FieldsOf(s[n]))) ELSE <<>>]
InAll(s) == Spread(Numbers(Len(s)), Told(s))

LEMMA OccurrencesType ==
    ASSUME NEW calls \in Seq(Made)
    PROVE  Occurrences(calls) \in Seq(Calls)
BY WholeFacts, SpreadFacts

LEMMA InAllFacts ==
    /\ InAll(<<>>) = <<>>
    /\ \A s \in Seq(Documents), document \in Documents :
         /\ InAll(s) \in Seq(Observation)
         /\ InAll(Append(s, document)) =
              Joined(InAll(s), Labelled(Len(s) + 1, Occurrences(FieldsOf(document))))
<1>1. \A s \in Seq(Documents) : Told(s) \in Blocks(Nat, Observation)
  <2> SUFFICES ASSUME NEW s \in Seq(Documents) PROVE Told(s) \in Blocks(Nat, Observation)
    OBVIOUS
  <2>1. ASSUME NEW n \in Nat, n \in DOMAIN s
        PROVE  Labelled(n, Occurrences(FieldsOf(s[n]))) \in Seq(Observation)
    <3>1. s[n] \in Documents /\ n \in Nat \ {0}
      BY <2>1
    <3>2. Occurrences(FieldsOf(s[n])) \in Seq(Calls)
      BY <3>1, FieldsOfType, OccurrencesType
    <3> QED BY <3>1, <3>2, LabelledFacts
  <2>2. <<>> \in Seq(Observation)
    OBVIOUS
  <2> QED BY <2>1, <2>2 DEF Told, Blocks
<1>2. \A n \in Nat : Numbers(n) \in Seq(Nat) /\ Len(Numbers(n)) = n
  BY DEF Numbers
<1>3. \A n \in Nat : Numbers(n + 1) = Append(Numbers(n), n + 1)
  <2> TAKE n \in Nat
  <2>1. \A i \in 1 .. n + 1 : Numbers(n + 1)[i] = Append(Numbers(n), n + 1)[i]
    BY <1>2 DEF Numbers
  <2>2. n + 1 \in Nat /\ Append(Numbers(n), n + 1) \in Seq(Nat) /\ Len(Append(Numbers(n), n + 1)) = n + 1
    BY <1>2
  <2> QED BY <1>2, <2>1, <2>2, SeqEqual
<1>4. InAll(<<>>) = <<>>
  <2>1. Numbers(0) = <<>> /\ <<>> \in Seq(Documents) /\ Len(<<>>) = 0
    BY DEF Numbers
  <2>2. Spread(<<>>, Told(<<>>)) = <<>>
    BY <1>1, <2>1, SpreadFacts
  <2> QED BY <2>1, <2>2, Zenon DEF InAll
<1>5. ASSUME NEW s \in Seq(Documents), NEW document \in Documents
      PROVE  /\ InAll(s) \in Seq(Observation)
             /\ InAll(Append(s, document)) =
                  Joined(InAll(s), Labelled(Len(s) + 1, Occurrences(FieldsOf(document))))
  <2> DEFINE t == Append(s, document)
             k == Len(s)
  <2>1. /\ t \in Seq(Documents) /\ Len(t) = k + 1 /\ k \in Nat /\ t[k + 1] = document
        /\ \A i \in 1 .. k : t[i] = s[i]
    OBVIOUS
  <2>2. DOMAIN t = 1 .. k + 1 /\ DOMAIN s = 1 .. k
    OBVIOUS
  <2> HIDE DEF t, k
  <2>3. Told(s) \in Blocks(Nat, Observation) /\ Told(t) \in Blocks(Nat, Observation)
    BY <1>1, <2>1
  <2>4. InAll(s) \in Seq(Observation)
    BY <1>2, <2>1, <2>3, SpreadFacts DEF InAll, k
  <2>5. InAll(t) = Joined(Spread(Numbers(k), Told(t)), Told(t)[k + 1])
    <3>1. Numbers(k + 1) = Append(Numbers(k), k + 1) /\ Numbers(k) \in Seq(Nat)
      BY <1>2, <1>3, <2>1
    <3>2. Len(t) = k + 1 /\ k + 1 \in Nat
      BY <2>1
    <3>3. \A u \in Seq(Nat), x \in Nat :
             Spread(Append(u, x), Told(t)) = Joined(Spread(u, Told(t)), Told(t)[x])
      BY <2>3, SpreadFacts
    <3> QED BY <3>1, <3>2, <3>3, Zenon DEF InAll
  <2>6. \A i \in DOMAIN Numbers(k) : Told(t)[Numbers(k)[i]] = Told(s)[Numbers(k)[i]]
    BY <2>2, <2>1 DEF Numbers, Told
  <2>7. Spread(Numbers(k), Told(t)) = Spread(Numbers(k), Told(s))
    BY <1>2, <2>1, <2>6, SpreadSame
  <2>8. Told(t)[k + 1] = Labelled(k + 1, Occurrences(FieldsOf(document)))
    BY <2>2, <2>1 DEF Told
  <2>9. Spread(Numbers(k), Told(s)) = InAll(s)
    BY DEF InAll, k
  <2> QED BY <2>4, <2>5, <2>7, <2>8, <2>9 DEF t, k
<1> QED BY <1>4, <1>5

Shows(s) == FlattenSeq([n \in DOMAIN s |-> Labelled(n, Occurrences(FieldCalls(s[n], <<>>, 1, FALSE)))])

LEMMA InSampleIs ==
    ASSUME NEW s \in Seq(Documents)
    PROVE  Shows(s) = InAll(s)
<1>1. DOMAIN s = 1 .. Len(s) /\ Len(s) \in Nat
  OBVIOUS
<1>2. DOMAIN Numbers(Len(s)) = DOMAIN s
  BY <1>1 DEF Numbers
<1>3. ASSUME NEW n \in DOMAIN s
      PROVE  Told(s)[Numbers(Len(s))[n]] = Labelled(n, Occurrences(FieldCalls(s[n], <<>>, 1, FALSE)))
  <2>1. n \in Nat /\ Numbers(Len(s))[n] = n
    BY <1>1, <1>3 DEF Numbers
  <2>2. Told(s)[n] = Labelled(n, Occurrences(FieldsOf(s[n])))
    BY <1>3, <2>1 DEF Told
  <2> QED BY <2>1, <2>2 DEF FieldsOf
<1>4. [n \in DOMAIN s |-> Labelled(n, Occurrences(FieldCalls(s[n], <<>>, 1, FALSE)))]
        = [n \in DOMAIN Numbers(Len(s)) |-> Told(s)[Numbers(Len(s))[n]]]
  BY <1>2, <1>3
<1> QED BY <1>4, Zenon DEF Shows, InAll, Spread

AccountInv ==
    \E all \in Seq(Observation) :
        /\ InSample = Joined(all, IF todo = <<>> THEN <<>> ELSE Labelled(docsSampled, Occurrences(todo)))
        /\ Accounted(all)

LEMMA CallObserves ==
    ASSUME TypeInv, WalkerInv, AccountInv, NEW index \in Nat, ObservePath(index)
    PROVE  AccountInv'
<1> DEFINE call == Head(todo)
           rest == Labelled(docsSampled, Occurrences(todo'))
<1>1. /\ todo # <<>> /\ docsSampled' = docsSampled /\ sample' = sample
      /\ todo' = Joined(Entered(call), Tail(todo))
      /\ docsSampled \in Nat \ {0}
  BY CallTaken DEF WalkerInv, PresenceInv
<1>2. /\ call \in Made /\ call \in Calls /\ Tail(todo) \in Seq(Made)
      /\ todo = Joined(<<call>>, Tail(todo)) /\ todo \in Seq(Made)
  BY <1>1, CallFacts DEF TypeInv
<1>3. PICK a \in Seq(Observation) :
        InSample = Joined(a, Labelled(docsSampled, Occurrences(todo))) /\ Accounted(a)
  BY <1>1 DEF AccountInv
<1>4. PICK r \in Observation : r = [document |-> docsSampled, call |-> call]
  BY <1>1, <1>2 DEF Observation
<1>5. Accounted(Append(a, r))'
  BY <1>3, <1>4, CallAccounted
<1>7. InSample' = InSample
  BY <1>1, Zenon DEF InSample
<1> HIDE DEF call
<1>8. /\ Occurrences(todo) = Joined(<<call>>, Occurrences(todo')) /\ Occurrences(todo') \in Seq(Calls)
  <2>1. Entered(call) \in Seq(Made) /\ todo' \in Seq(Made)
    BY <1>1, <1>2, WholeFacts, JoinedType
  <2>2. Whole \in Blocks(Made, Calls)
    BY WholeFacts
  <2>3. \A u, v \in Seq(Made) : /\ Spread(u, Whole) \in Seq(Calls)
                                /\ Spread(Joined(u, v), Whole) = Joined(Spread(u, Whole), Spread(v, Whole))
    BY <2>2, SpreadFacts, SpreadJoined
  <2>4. \A u \in Seq(Made) : Occurrences(u) = Spread(u, Whole)
    BY WholeFacts
  <2>5. <<call>> \in Seq(Made)
    BY <1>2
  <2>6. <<call>> \in Seq(Calls)
    BY <1>2
  <2>7. Occurrences(todo') = Joined(Spread(Entered(call), Whole), Spread(Tail(todo), Whole))
    BY <1>1, <1>2, <2>1, <2>3, <2>4, Zenon
  <2>8. Occurrences(todo) = Joined(Spread(<<call>>, Whole), Spread(Tail(todo), Whole))
    BY <1>2, <2>3, <2>4, <2>5, Zenon
  <2>9. Spread(<<call>>, Whole) = Joined(<<call>>, Spread(Entered(call), Whole))
    BY <1>2, <2>2, WholeFacts, SpreadOne
  <2>10. \A x, y, z \in Seq(Calls) : Joined(Joined(x, y), z) = Joined(x, Joined(y, z))
    BY DEF Joined
  <2>11. Spread(Entered(call), Whole) \in Seq(Calls) /\ Spread(Tail(todo), Whole) \in Seq(Calls)
    BY <1>2, <2>1, <2>3
  <2>12. Occurrences(todo') \in Seq(Calls)
    BY <2>1, OccurrencesType
  <2>13. Joined(Joined(<<call>>, Spread(Entered(call), Whole)), Spread(Tail(todo), Whole))
           = Joined(<<call>>, Joined(Spread(Entered(call), Whole), Spread(Tail(todo), Whole)))
    BY <2>6, <2>10, <2>11
  <2> QED BY <2>7, <2>8, <2>9, <2>12, <2>13
<1>9. /\ rest \in Seq(Observation) /\ Labelled(docsSampled, Occurrences(todo)) = Joined(<<r>>, rest)
  BY <1>1, <1>2, <1>4, <1>8, LabelledFacts
<1> HIDE DEF rest
<1>10. InSample' = Joined(Append(a, r), rest)
  <2>1. Joined(a, Joined(<<r>>, rest)) = Joined(Append(a, r), rest)
    BY <1>9, SMTT(30) DEF Joined
  <2> QED BY <1>3, <1>7, <1>9, <2>1
<1>11. rest = IF todo' = <<>> THEN <<>> ELSE Labelled(docsSampled', Occurrences(todo'))
  <2>1. CASE todo' # <<>>
    BY <1>1, <2>1 DEF rest
  <2>2. CASE todo' = <<>>
    <3>1. Occurrences(<<>>) = <<>>
      <4>1. <<>> \in Seq(Made)
        OBVIOUS
      <4> QED BY <4>1, WholeFacts, SpreadFacts
    <3> QED BY <1>1, <2>2, <3>1, LabelledFacts DEF rest
  <2> QED BY <2>1, <2>2
<1>12. Append(a, r) \in Seq(Observation)
  OBVIOUS
<1>13. PICK b \in Seq(Observation) : b = Append(a, r)
  BY <1>12
<1> QED BY <1>5, <1>10, <1>11, <1>13 DEF AccountInv

LEMMA DocumentObserves ==
    ASSUME TypeInv, AccountInv, NEW document \in Documents, ObserveDocument(document)
    PROVE  AccountInv'
<1> DEFINE rest == Labelled(docsSampled', Occurrences(todo'))
<1>1. /\ todo = <<>> /\ docsSampled' = docsSampled + 1 /\ sample' = Append(sample, document)
      /\ todo' = FieldsOf(document)
  BY DEF ObserveDocument, FieldsOf
<1>2. sample \in Seq(Documents) /\ Len(sample) = docsSampled /\ docsSampled \in Nat
  BY WalkerAssumption DEF TypeInv
<1>3. PICK a \in Seq(Observation) : InSample = Joined(a, <<>>) /\ Accounted(a)
  BY <1>1 DEF AccountInv
<1>4. Accounted(a)'
  BY <1>3, DocumentAccounted
<1>5. sample' \in Seq(Documents)
  BY <1>1, <1>2
<1>6. InSample = InAll(sample) /\ InSample' = InAll(sample')
  <2>1. InSample = Shows(sample) /\ InSample' = Shows(sample')
    BY Zenon DEF InSample, Shows
  <2> QED BY <1>2, <1>5, <2>1, InSampleIs
<1>7. InAll(sample') = Joined(InAll(sample), rest)
  BY <1>1, <1>2, InAllFacts
<1>8. InAll(sample) = a
  <2>1. InAll(sample) \in Seq(Observation)
    BY <1>2, InAllFacts
  <2> QED BY <1>3, <1>6, <2>1, JoinedEmpty
<1>9. InSample' = Joined(a, rest)
  BY <1>6, <1>7, <1>8
<1>10. rest = IF todo' = <<>> THEN <<>> ELSE Labelled(docsSampled', Occurrences(todo'))
  <2>1. CASE todo' = <<>>
    <3>1. <<>> \in Seq(Made)
      OBVIOUS
    <3>2. Occurrences(<<>>) = <<>>
      BY <3>1, WholeFacts, SpreadFacts
    <3> QED BY <1>1, <1>2, <2>1, <3>2, LabelledFacts
  <2> QED BY <2>1
<1> HIDE DEF rest
<1> QED BY <1>4, <1>9, <1>10 DEF AccountInv

LEMMA InitAccount == Init => AccountInv
<1> SUFFICES ASSUME Init PROVE AccountInv
  OBVIOUS
<1>1. docsSampled = 0 /\ DOMAIN paths = {} /\ visited = {}
  BY DEF Init
<1>2. todo = <<>> /\ sample = <<>>
  BY Zenon DEF Init
<1>3. <<>> \in Seq(Documents)
  OBVIOUS
<1>4. InSample = <<>>
  <2>1. InSample = Shows(<<>>)
    BY <1>2, Zenon DEF InSample, Shows
  <2> QED BY <1>3, <2>1, InSampleIs, InAllFacts
<1>5. <<>> \in Seq(Observation) /\ DOMAIN <<>> = {}
  OBVIOUS
<1>6. InSample = Joined(<<>>, <<>>)
  BY <1>4, <1>5, JoinedEmpty
<1>7. FirstPaths(<<>>) = {} /\ PathsTo(Len(<<>>), <<>>) = {}
  BY DEF FirstPaths, PathsTo
<1>8. Accounted(<<>>)
  BY <1>1, <1>5, <1>7 DEF Accounted
<1> QED BY <1>2, <1>5, <1>6, <1>8 DEF AccountInv

LEMMA AlwaysAccountInv == Spec => []AccountInv
<1>1. ASSUME TypeInv, WalkerInv, AccountInv, [Next]_vars PROVE AccountInv'
  <2>1. ASSUME NEW document \in Documents, ObserveDocument(document) PROVE AccountInv'
    BY <1>1, <2>1, DocumentObserves
  <2>2. ASSUME NEW index \in 0 .. SampleSlots, ObservePath(index) PROVE AccountInv'
    BY <1>1, <2>2, CallObserves, WalkerAssumption
  <2>3. CASE UNCHANGED vars
    BY <1>1, <2>3 DEF vars, walker, AccountInv, Accounted, InSample
  <2> QED BY <1>1, <2>1, <2>2, <2>3 DEF Next
<1> QED BY <1>1, InitAccount, AlwaysTypeInv, WalkerInvHolds, PTL DEF Spec

(* Between two documents, the accounts are those of the whole sample. *)
LEMMA AccountsAreComplete ==
    ASSUME AccountInv, todo = <<>>
    PROVE  InSample \in Seq(Observation) /\ Accounted(InSample)
<1>1. PICK all \in Seq(Observation) : InSample = Joined(all, <<>>) /\ Accounted(all)
  BY DEF AccountInv
<1>2. InSample = all
  BY <1>1, JoinedEmpty
<1> QED BY <1>1, <1>2

-----------------------------------------------------------------------------
(* Every value the walk holds is of its type, whatever the documents are.     *)
THEOREM WalkerTypeCorrect == Spec => []TypeOK
<1>1. TypeInv => TypeOK
  <2> SUFFICES ASSUME TypeInv PROVE TypeOK
    OBVIOUS
  <2>1. ASSUME NEW i \in DOMAIN todo
        PROVE  /\ todo[i].path \in Paths /\ todo[i].value.type \in Labels
               /\ todo[i].depth \in 1 .. MaxDepth + 1 /\ todo[i].inArray \in BOOLEAN
    <3>1. todo[i] \in Made
      BY <2>1 DEF TypeInv
    <3>2. todo[i] \in Calls /\ todo[i].depth <= MaxDepth + 1
      BY <3>1 DEF Made
    <3> QED BY <3>2, WalkerAssumption, BsonAssumption DEF Calls
  <2> QED BY <2>1 DEF TypeInv, TypeOK
<1> QED BY <1>1, AlwaysTypeInv, PTL

(* What is accumulated call by call is what a count over the sample gives:    *)
(* the first paths of it, as many as fit, in the order in which it shows      *)
(* them, with their documents, nulls, types, arrays and leaves.              *)
THEOREM CountsAlwaysMatchSample == Spec => []CountsMatchSample
<1>1. AccountInv => CountsMatchSample
  <2> SUFFICES ASSUME AccountInv, todo = <<>>
               PROVE  /\ DOMAIN paths = FirstPaths(InSample)
                      /\ \A p \in DOMAIN paths : StatsMatch(p, InSample) /\ PositionMatches(p, InSample)
    BY DEF CountsMatchSample
  <2>1. Accounted(InSample)
    BY AccountsAreComplete
  <2> QED BY <2>1 DEF Accounted, Described, Tallied, StatsMatch, FirstAt, PositionMatches
<1> QED BY <1>1, AlwaysAccountInv, PTL

(* A finished column claims no more than the sample shows, whatever capped its *)
(* path or the whole walk.                                                   *)
THEOREM ColumnsAlwaysHonest == Spec => []ColumnsAreHonest
<1>1. TypeInv /\ AccountInv => ColumnsAreHonest
  <2> SUFFICES ASSUME TypeInv, AccountInv, todo = <<>>, NEW p \in DOMAIN paths
               PROVE  /\ DistinctIsHonest(p, JsonsAt(p, InSample))
                      /\ SamplesAreHonest(p, JsonsAt(p, InSample))
                      /\ ~Column(p).nullable => AlwaysThere(p, InSample)
    BY DEF ColumnsAreHonest
  <2>1. Accounted(InSample) /\ InSample \in Seq(Observation)
    BY AccountsAreComplete
  <2>2. PICK all \in Seq(Observation) : all = InSample
    BY <2>1
  <2>3. /\ Described(paths[p], p, all, globallyCapped)
        /\ \A i \in DOMAIN all : all[i].document \in 1 .. docsSampled
    BY <2>1, <2>2 DEF Accounted
  <2>4. DistinctIsHonest(p, JsonsAt(p, all))
    <3>1. Column(p).distinctCapped = (paths[p].capped \/ globallyCapped)
      BY DEF Column, DistinctCapped
    <3> QED BY <2>3, <3>1 DEF Described, Honest, DistinctIsHonest
  <2>5. SamplesAreHonest(p, JsonsAt(p, all))
    BY <2>3 DEF Described, Honest, SamplesAreHonest
  <2>6. ASSUME ~Column(p).nullable PROVE AlwaysThere(p, all)
    <3>1. Column(p).nullable = Nullable(paths[p])
      BY DEF Column
    <3>2. ~(paths[p].nulls > 0) /\ ~(paths[p].seen < docsSampled)
      BY <2>6, <3>1 DEF Nullable
    <3>3. /\ paths[p].nulls = Cardinality(NullsAt(p, all)) /\ paths[p].nulls \in Nat
          /\ paths[p].seen = Cardinality(DocumentsAt(p, all)) /\ docsSampled \in Nat
      BY <2>3, WalkerAssumption DEF Described, Tallied, TypeInv, Stats
    <3>4. IsFiniteSet(At(p, all)) /\ NullsAt(p, all) \subseteq At(p, all)
      <4>1. At(p, all) \subseteq 1 .. Len(all) /\ Len(all) \in Nat
        BY DEF At
      <4>2. IsFiniteSet(1 .. Len(all))
        BY <4>1, FS_Interval
      <4> QED BY <4>1, <4>2, FS_Subset DEF NullsAt
    <3>5. NullsAt(p, all) = {}
      <4>1. IsFiniteSet(NullsAt(p, all)) /\ Cardinality(NullsAt(p, all)) = 0
        BY <3>2, <3>3, <3>4, FS_Subset
      <4> QED BY <4>1, FS_EmptySet
    <3>6. DocumentsAt(p, all) = 1 .. docsSampled
      <4>1. DocumentsAt(p, all) \subseteq 1 .. docsSampled
        BY <2>3 DEF DocumentsAt, At
      <4>2. IsFiniteSet(1 .. docsSampled) /\ Cardinality(1 .. docsSampled) = docsSampled
        BY <3>3, FS_Interval
      <4>3. /\ Cardinality(DocumentsAt(p, all)) <= docsSampled
            /\ Cardinality(DocumentsAt(p, all)) = docsSampled => DocumentsAt(p, all) = 1 .. docsSampled
        BY <4>1, <4>2, FS_Subset
      <4>4. Cardinality(DocumentsAt(p, all)) \in Nat
        BY <4>1, <4>2, FS_Subset, FS_CardinalityType
      <4> QED BY <3>2, <3>3, <4>3, <4>4
    <3> QED BY <3>5, <3>6 DEF AlwaysThere
  <2> QED BY <2>2, <2>4, <2>5, <2>6
<1> QED BY <1>1, AlwaysTypeInv, AlwaysAccountInv, PTL
=============================================================================
