---------------------------- MODULE ConfigProofs ----------------------------
(* Theorems about Config, for any files and environments, and any word.      *)
EXTENDS Config, Recursion

-----------------------------------------------------------------------------
(* The inductive invariant.                                                *)

InFile == input.source = "file"
Stood(f) == IF InFile THEN text[f] ELSE input.env[VarOf[f]]
Said(f) == IF InFile THEN Scalar(Stood(f)) ELSE Stood(f)

(* The interval that is to come of a duration. *)
RightInterval(n, w) ==
    LET asked == w.count * Seconds[w.suffix] IN
    IF w.given # "number" \/ w.count >= Word THEN n = DefaultInterval
    ELSE IF asked < Word THEN n = asked
    ELSE n < asked

(* A Config holds what its source says. *)
FromInput(c) ==
    /\ \A f \in Required : Stood(f) # None
    /\ c.key = Said("key") /\ c.secret = Said("secret") /\ c.url = Said("url")
    /\ c.interval \in Nat /\ RightInterval(c.interval, input.interval)
    /\ InFile => input.others = "typed" /\ IsScalar(Stood("secret"))
    /\ \A f \in Required : InFile /\ Ordinary(Stood(f)) => Said(f) = Stood(f)

(* Each step has its source, and what is built is not refused but for a defect. *)
PlaceInv ==
    /\ input \in Input
    /\ at # "done" => outcome = "none"
    /\ at \in {"expand", "parse"} => InFile
    /\ at \in {"validate", "create"} => FromInput(config)
    /\ at = "create" => Defect(config) = "none"
    /\ outcome \in Collectors => FromInput(config) /\ Defect(config) = "none"

IInv == PlaceInv /\ OutcomesAreTrue

-----------------------------------------------------------------------------
(* Durations.                                                              *)

(* A product that leaves the word comes back into it as a smaller number. *)
LEMMA DurationFacts ==
    ASSUME NEW w \in Written
    PROVE  FromDuration(w) \in Nat /\ RightInterval(FromDuration(w), w)
<1>1. CASE w.given # "number" \/ w.count >= Word
  BY <1>1, ConfigAssumption DEF RightInterval, FromDuration, Written
<1>2. CASE w.given = "number" /\ w.count < Word
  <2>1. Seconds[w.suffix] \in Nat
    BY DEF Seconds, Written
  <2>2. PICK asked \in Nat : asked = w.count * Seconds[w.suffix]
    BY <2>1 DEF Written
  <2>3. Word \in Nat /\ Word > 0
    BY <1>2, ConfigAssumption DEF Written
  <2>4. asked < Word => asked % Word = asked
    BY <2>2, <2>3
  <2>5. asked % Word < Word
    BY <2>2, <2>3
  <2>6. FromDuration(w) = asked % Word
    BY <1>2, <2>2 DEF FromDuration
  <2>7. asked % Word \in Nat
    BY <2>2, <2>3
  <2> QED
    BY <1>2, <2>2, <2>3, <2>4, <2>5, <2>6, <2>7 DEF RightInterval, Written
<1> QED BY <1>1, <1>2, ConfigAssumption DEF Written

LEMMA YamlFacts ==
    ASSUME NEW w \in Written, w.given = "nothing" \/ IsInteger(w)
    PROVE  FromYaml(w) \in Nat /\ RightInterval(FromYaml(w), w)
<1>1. CASE w.given = "nothing"
  BY <1>1, ConfigAssumption DEF RightInterval, FromYaml
<1>2. CASE IsInteger(w)
  <2>1. w.count * Seconds[w.suffix] = w.count
    BY <1>2 DEF IsInteger, Seconds, Written
  <2> QED
    BY <1>2, <2>1, ConfigAssumption DEF RightInterval, FromYaml, IsInteger, Written
<1> QED BY <1>1, <1>2

-----------------------------------------------------------------------------
(* What YAML reads in a value.                                             *)

LEMMA LeastFacts ==
    ASSUME NEW T, T \subseteq Nat, T # {}
    PROVE  Min(T) \in T /\ \A k \in T : Min(T) <= k
<1>1. \E m \in T : \A k \in T : m <= k
  BY LeastOfNats
<1> QED BY <1>1 DEF Min

(* What is cut out of a text is a text. *)
LEMMA CutFacts ==
    ASSUME NEW t \in Texts
    PROVE  /\ \A places \in SUBSET (DOMAIN t) : Before(t, places) \in Texts
           /\ Unindented(t) \in Texts
           /\ t # <<>> => Tail(t) \in Texts
<1>1. t \in Seq(Token) /\ DOMAIN t = 1 .. Len(t) /\ Len(t) \in Nat
  BY DEF Texts
<1>2. ASSUME NEW places \in SUBSET (DOMAIN t) PROVE Before(t, places) \in Texts
  <2>1. CASE places = {}
    BY <2>1 DEF Before
  <2>2. CASE places # {}
    <3>1. Min(places) \in 1 .. Len(t)
      BY <1>1, <2>2, LeastFacts
    <3>2. SubSeq(t, 1, Min(places) - 1) \in Seq(Token)
      BY <1>1, <3>1
    <3> QED BY <2>2, <3>2 DEF Before, Texts
  <2> QED BY <2>1, <2>2
<1>3. Unindented(t) \in Texts
  <2> DEFINE places == {i \in DOMAIN t : t[i].piece # "blank"}
  <2>1. CASE places = {}
    <3>1. <<>> \in Seq(Token)
      OBVIOUS
    <3> QED BY <2>1, <3>1 DEF Unindented, Texts
  <2>2. CASE places # {}
    <3>0. places \subseteq 1 .. Len(t) /\ places \subseteq Nat
      BY <1>1
    <3> HIDE DEF places
    <3>1. Min(places) \in 1 .. Len(t)
      BY <2>2, <3>0, LeastFacts
    <3>2. SubSeq(t, Min(places), Len(t)) \in Seq(Token)
      BY <1>1, <3>1
    <3>3. Unindented(t) = SubSeq(t, Min(places), Len(t))
      BY <2>2 DEF Unindented, places
    <3> QED BY <3>2, <3>3 DEF Texts
  <2> QED BY <2>1, <2>2
<1>4. t # <<>> => Tail(t) \in Texts
  BY <1>1 DEF Texts
<1> QED BY <1>2, <1>3, <1>4

LEMMA ScalarType == \A t \in Texts : Scalar(t) \in Texts
<1> SUFFICES ASSUME NEW t \in Texts PROVE Scalar(t) \in Texts
  OBVIOUS
<1>1. Node(t) \in Texts
  BY CutFacts DEF Node, Begins
<1>2. PICK node \in Texts : node = Node(t)
  BY <1>1
<1>3. CASE Begins(node, "quote")
  <2>1. PICK inside \in Texts : inside = Tail(node)
    BY <1>3, CutFacts DEF Begins
  <2>2. Places(inside, "quote") \in SUBSET (DOMAIN inside)
    BY DEF Places
  <2>3. Before(inside, Places(inside, "quote")) \in Texts
    BY <2>2, CutFacts
  <2> QED BY <1>2, <1>3, <2>1, <2>3 DEF Scalar
<1>4. CASE ~Begins(node, "quote")
  <2>1. Comments(node) \in SUBSET (DOMAIN node)
    BY DEF Comments, Places
  <2>2. Before(node, Comments(node)) \in Texts
    BY <2>1, CutFacts
  <2> QED BY <1>2, <1>4, <2>2 DEF Scalar
<1> QED BY <1>3, <1>4

(* Ordinary text is a scalar, and read as it is. *)
LEMMA OrdinaryFacts ==
    ASSUME NEW t \in Texts, Ordinary(t)
    PROVE  IsScalar(t) /\ ~IsNothing(t) /\ Scalar(t) = t
<1>1. /\ t \in Seq(Token) /\ DOMAIN t = 1 .. Len(t) /\ Len(t) \in Nat /\ t # <<>>
      /\ 1 \in DOMAIN t
  BY DEF Texts, Ordinary
<1>2. \A i \in DOMAIN t : t[i].piece \notin {"hash", "quote", "colon", "indicator", "anchor", "blank"}
  BY DEF Ordinary, Signs
<1>3. Unindented(t) = t
  <2> DEFINE places == {i \in DOMAIN t : t[i].piece # "blank"}
  <2>1. places = DOMAIN t
    BY <1>2
  <2>2. Min(places) = 1
    <3> HIDE DEF places
    <3>1. places \subseteq Nat /\ places # {} /\ 1 \in places /\ places = 1 .. Len(t)
      BY <1>1, <2>1
    <3>2. Min(places) \in places /\ Min(places) <= 1
      BY <3>1, LeastFacts
    <3> QED BY <3>1, <3>2
  <2>3. SubSeq(t, 1, Len(t)) = t
    BY <1>1
  <2> HIDE DEF places
  <2>4. places # {}
    BY <1>1, <2>1
  <2> QED BY <2>2, <2>3, <2>4 DEF Unindented, places
<1>4. ~Begins(t, "anchor") /\ ~Begins(t, "quote") /\ ~Begins(t, "indicator")
  BY <1>1, <1>2 DEF Begins
<1>5. Node(t) = t
  BY <1>3, <1>4 DEF Node
<1>6. Comments(t) = {} /\ Places(t, "colon") = {}
  BY <1>2 DEF Comments, Places
<1>7. Scalar(t) = t
  BY <1>4, <1>5, <1>6 DEF Scalar, Before
<1> QED BY <1>1, <1>4, <1>5, <1>6, <1>7 DEF IsScalar, IsNothing

-----------------------------------------------------------------------------
(* What the steps do.                                                      *)

LEMMA FieldFacts ==
    Required \subseteq Fields /\ \A f \in Required : f \in {"key", "secret", "url"}
BY DEF Fields, FieldOrder, Required, Range

LEMMA ParseBuilds ==
    ASSUME IInv, TypeOK, NEW e \in BOOLEAN, Parse(e)
    PROVE  IInv'
<1>1. /\ at = "parse" /\ InFile /\ outcome = "none"
      /\ input' = input /\ text' = text
  BY DEF IInv, PlaceInv, Parse
<1>2. CASE at' = "done"
  <2>1. outcome' = "unparsable" /\ config' = config
    BY <1>1, <1>2 DEF Parse, Refuse
  <2>2. \/ \E f \in Required : text[f] = None
        \/ \E f \in Fields : text[f] # None /\ (~IsScalar(text[f]) \/ IsNothing(text[f]))
        \/ input.interval.given # "nothing" /\ ~IsInteger(input.interval)
        \/ input.others # "typed"
    BY <1>1, <1>2, FieldFacts DEF Parse, Refuse
  <2>21. \A f \in Fields : text[f] # None /\ (~IsScalar(text[f]) \/ IsNothing(text[f]))
            => ~Ordinary(text[f])
    BY OrdinaryFacts DEF TypeOK
  <2>22. input.others # "typed" => input.others = "mistyped"
    BY DEF TypeOK, Input
  <2>3. PlaceInv'
    BY <1>1, <1>2, <2>1 DEF IInv, PlaceInv, InFile, Collectors
  <2>4. OutcomesAreTrue'
    BY <1>1, <1>2, <2>1, <2>2, <2>21, <2>22 DEF OutcomesAreTrue, Loaded, Collectors, InFile
  <2> QED BY <2>3, <2>4 DEF IInv
<1>3. CASE at' # "done"
  <2>1. /\ Required \cap {f \in Fields : text[f] = None} = {}
        /\ input.interval.given = "nothing" \/ IsInteger(input.interval)
        /\ \A f \in Fields : text[f] # None => IsScalar(text[f])
        /\ input.others = "typed"
        /\ at' = "validate" /\ outcome' = "none"
    BY <1>1, <1>3 DEF Parse, Refuse
  <2>11. \A f \in Required : text[f] # None /\ text[f] \in Texts
    BY <2>1, FieldFacts DEF TypeOK
  <2>13. \A f \in Required : Ordinary(text[f]) => Scalar(text[f]) = text[f]
    BY <2>11, OrdinaryFacts
  <2>14. IsScalar(text["secret"])
    BY <2>1, <2>11, FieldFacts DEF Required
  <2>12. /\ config'.key = Scalar(text["key"]) /\ config'.secret = Scalar(text["secret"])
        /\ config'.url = Scalar(text["url"])
        /\ config'.interval = FromYaml(input.interval)
    BY <1>3 DEF Parse, Refuse
  <2>2. config'.interval \in Nat /\ RightInterval(config'.interval, input.interval)
    BY <2>1, <2>12, YamlFacts DEF IInv, PlaceInv, Input
  <2>3. FromInput(config)'
    BY <1>1, <2>1, <2>11, <2>12, <2>13, <2>14, <2>2 DEF FromInput, Stood, Said, InFile, RightInterval
  <2>4. PlaceInv'
    BY <1>1, <2>1, <2>3 DEF IInv, PlaceInv, Collectors
  <2>5. OutcomesAreTrue'
    BY <2>1 DEF OutcomesAreTrue, Loaded, Collectors
  <2> QED BY <2>4, <2>5 DEF IInv
<1> QED BY <1>2, <1>3

LEMMA ReadEnvironmentBuilds ==
    ASSUME IInv, ReadEnvironment
    PROVE  IInv'
<1>1. /\ at = "start" /\ ~InFile /\ outcome = "none"
      /\ input' = input /\ text' = text
  BY DEF IInv, PlaceInv, ReadEnvironment, InFile
<1>2. CASE EnvDefect(input.env) # "none"
  <2>1. at' = "done" /\ outcome' = EnvDefect(input.env) /\ config' = config
    BY <1>2 DEF ReadEnvironment, Refuse
  <2>2. outcome' \in {"missing", "no secret"}
    BY <1>2, <2>1 DEF EnvDefect
  <2>4. outcome' = "missing" => input.env[VarOf["key"]] = None \/ input.env[VarOf["url"]] = None
    BY <2>1 DEF EnvDefect, VarOf
  <2>5. outcome' = "no secret" =>
          input.env[VarOf["secret"]] = None \/ IsBlank(input.env[VarOf["secret"]])
    BY <2>1 DEF EnvDefect, VarOf
  <2>6. PlaceInv'
    BY <1>1, <2>1, <2>2 DEF IInv, PlaceInv, Collectors
  <2>7. OutcomesAreTrue'
    BY <1>1, <2>1, <2>2, <2>4, <2>5 DEF OutcomesAreTrue, Loaded, Collectors, InFile
  <2> QED BY <2>6, <2>7 DEF IInv
<1>3. CASE EnvDefect(input.env) = "none"
  <2>1. at' = "validate" /\ outcome' = "none"
    BY <1>1, <1>3 DEF ReadEnvironment
  <2>11. \A f \in Required : input.env[VarOf[f]] # None
    <3>1. /\ input.env[VarOf["key"]] # None /\ input.env[VarOf["url"]] # None
          /\ input.env[VarOf["secret"]] # None
      BY <1>3 DEF EnvDefect, VarOf
    <3> QED BY <3>1 DEF Required
  <2>2. /\ config'.key = input.env[VarOf["key"]] /\ config'.secret = input.env[VarOf["secret"]]
        /\ config'.url = input.env[VarOf["url"]]
        /\ config'.interval = FromDuration(input.interval)
    BY <1>3 DEF ReadEnvironment, VarOf
  <2>3. config'.interval \in Nat /\ RightInterval(config'.interval, input.interval)
    BY <2>2, DurationFacts DEF IInv, PlaceInv, Input
  <2>4. FromInput(config)'
    BY <1>1, <2>11, <2>2, <2>3 DEF FromInput, Stood, Said, InFile, RightInterval
  <2>5. PlaceInv'
    BY <1>1, <2>1, <2>4 DEF IInv, PlaceInv, Collectors
  <2>6. OutcomesAreTrue'
    BY <2>1 DEF OutcomesAreTrue, Loaded, Collectors
  <2> QED BY <2>5, <2>6 DEF IInv
<1> QED BY <1>2, <1>3

(* What validate finds wrong with a Config is wrong with its source. *)
LEMMA DefectFacts ==
    ASSUME NEW c, FromInput(c)
    PROVE  /\ Defect(c) \in {"none", "invalid", "no secret", "unsupported"}
           /\ \A f \in Required : Stood(f) # None
           /\ Defect(c) = "none" =>
                /\ \A f \in Required : ~InFile \/ Ordinary(Stood(f)) => c[f] = Stood(f)
                /\ ~IsBlank(c.key) /\ ~IsBlank(c.secret)
                /\ FromUrl(UrlOf(c.url)) # "unsupported"
                /\ c.interval >= MinInterval
                /\ InFile => input.others = "typed" /\ IsScalar(Stood("secret"))
           /\ Defect(c) = "no secret" => IsBlank(Said("secret"))
           /\ Defect(c) = "invalid" =>
                IsBlank(Said("key")) \/ Said("url") = <<>> \/ c.interval < MinInterval
           /\ Defect(c) = "unsupported" => FromUrl(UrlOf(Said("url"))) = "unsupported"
<1>1. ~(c.interval < MinInterval) => c.interval >= MinInterval
  BY ConfigAssumption DEF FromInput
<1>2. Defect(c) = "none" => ~(c.interval < MinInterval)
  BY DEF Defect
<1>3. \A f \in Required : ~InFile \/ Ordinary(Stood(f)) => c[f] = Stood(f)
  <2>1. \A f \in Required : ~InFile \/ Ordinary(Stood(f)) => Said(f) = Stood(f)
    BY DEF FromInput, Said
  <2>2. \A f \in Required : c[f] = Said(f)
    BY DEF FromInput, Required
  <2> QED BY <2>1, <2>2
<1> QED BY <1>1, <1>2, <1>3 DEF Defect, FromInput

LEMMA CollectorFacts ==
    \A type : CollectorOf(type) \in Collectors \cup {"unsupported"}
BY DEF CollectorOf, Collectors

-----------------------------------------------------------------------------
(* The invariant holds.                                                    *)

LEMMA ValidateKeeps ==
    ASSUME IInv, Validate
    PROVE  IInv'
<1>1. /\ at = "validate" /\ outcome = "none" /\ FromInput(config)
      /\ input' = input /\ text' = text /\ config' = config
  BY DEF IInv, PlaceInv, Validate
<1>2. CASE Defect(config) = "none"
  <2>1. at' = "create" /\ outcome' = "none"
    BY <1>1, <1>2 DEF Validate
  <2>2. FromInput(config)' /\ (Defect(config) = "none")'
    BY <1>1, <1>2 DEF FromInput, Stood, Said, InFile, Defect
  <2>3. PlaceInv'
    BY <1>1, <2>1, <2>2 DEF IInv, PlaceInv, Collectors
  <2>4. /\ \A f \in Required : Stood(f) # None
        /\ \A f \in Required : ~InFile \/ Ordinary(Stood(f)) => config[f] = Stood(f)
        /\ ~IsBlank(config.key) /\ ~IsBlank(config.secret)
        /\ FromUrl(UrlOf(config.url)) # "unsupported"
        /\ config.interval >= MinInterval
        /\ InFile => input.others = "typed" /\ IsScalar(Stood("secret"))
    BY <1>1, <1>2, DefectFacts
  <2>5. OutcomesAreTrue'
    BY <1>1, <2>1, <2>4 DEF OutcomesAreTrue, Loaded, Collectors, Stood, InFile
  <2> QED BY <2>3, <2>5 DEF IInv
<1>3. CASE Defect(config) # "none"
  <2>1. at' = "done" /\ outcome' = Defect(config)
    BY <1>3 DEF Validate, Refuse
  <2>2. /\ outcome' \in {"invalid", "no secret", "unsupported"}
        /\ \A f \in Required : Stood(f) # None
        /\ outcome' = "no secret" => IsBlank(Said("secret"))
        /\ outcome' = "invalid" =>
             IsBlank(Said("key")) \/ Said("url") = <<>> \/ config.interval < MinInterval
        /\ outcome' = "unsupported" => FromUrl(UrlOf(Said("url"))) = "unsupported"
    BY <1>1, <1>3, <2>1, DefectFacts
  <2>3. PlaceInv'
    BY <1>1, <2>1, <2>2 DEF IInv, PlaceInv, Collectors
  <2>4. CollectorOf("unsupported") = "unsupported"
    BY DEF CollectorOf
  <2>5. OutcomesAreTrue'
    BY <1>1, <2>1, <2>2, <2>4 DEF OutcomesAreTrue, Loaded, Collectors, Stood, Said, InFile, Required
  <2> QED BY <2>3, <2>5 DEF IInv
<1> QED BY <1>2, <1>3

LEMMA CreateKeeps ==
    ASSUME IInv, CreateCollector
    PROVE  IInv'
<1>1. /\ at = "create" /\ FromInput(config) /\ Defect(config) = "none"
      /\ input' = input /\ text' = text /\ config' = config
  BY DEF IInv, PlaceInv, CreateCollector
<1>2. /\ at' = "done" /\ outcome' = CollectorOf(FromUrl(UrlOf(config.url)))
      /\ outcome' \in Collectors \cup {"unsupported"}
  BY CollectorFacts DEF CreateCollector, Refuse
<1>3. FromInput(config)' /\ (Defect(config) = "none")'
  BY <1>1 DEF FromInput, Stood, Said, InFile, Defect
<1>4. PlaceInv'
  BY <1>1, <1>2, <1>3 DEF IInv, PlaceInv
<1>5. /\ \A f \in Required : Stood(f) # None
      /\ \A f \in Required : ~InFile \/ Ordinary(Stood(f)) => config[f] = Stood(f)
      /\ ~IsBlank(config.key) /\ ~IsBlank(config.secret)
      /\ FromUrl(UrlOf(config.url)) # "unsupported"
      /\ config.interval >= MinInterval /\ config.url = Said("url")
      /\ InFile => input.others = "typed" /\ IsScalar(Stood("secret"))
  BY <1>1, DefectFacts DEF FromInput
<1>6. OutcomesAreTrue'
  <2>1. CASE outcome' \in Collectors
    BY <1>1, <1>2, <1>5, <2>1 DEF OutcomesAreTrue, Loaded, Collectors, Stood, InFile
  <2>2. CASE outcome' = "unsupported"
    BY <1>1, <1>2, <1>5, <2>2 DEF OutcomesAreTrue, Loaded, Collectors, Stood, Said, InFile
  <2> QED BY <1>2, <2>1, <2>2
<1> QED BY <1>4, <1>6 DEF IInv

(* Until a document is parsed nothing has been built or refused. *)
LEMMA EarlySteps ==
    ASSUME IInv, NEW ok \in BOOLEAN, ReadFile(ok) \/ Expand \/ EndExpand
    PROVE  IInv'
<1>1. /\ InFile /\ outcome = "none" /\ input' = input
      /\ \/ at' \in {"expand", "parse"} /\ outcome' = "none"
         \/ at' = "done" /\ outcome' = "unreadable"
  BY DEF IInv, PlaceInv, InFile, ReadFile, Expand, EndExpand, Refuse
<1>2. PlaceInv'
  BY <1>1 DEF IInv, PlaceInv, InFile, Collectors
<1>3. OutcomesAreTrue'
  BY <1>1 DEF OutcomesAreTrue, Loaded, Collectors
<1> QED BY <1>2, <1>3 DEF IInv

LEMMA InitIInv == Init => IInv
BY ConfigAssumption DEF Init, IInv, PlaceInv, OutcomesAreTrue, Loaded, Collectors

LEMMA NextIInv == IInv /\ TypeOK /\ [Next]_vars => IInv'
<1> SUFFICES ASSUME IInv, TypeOK, [Next]_vars PROVE IInv'
  OBVIOUS
<1>1. CASE \E ok \in BOOLEAN : ReadFile(ok)
  BY <1>1, EarlySteps
<1>2. CASE Expand \/ EndExpand
  BY <1>2, EarlySteps
<1>3. CASE \E nothingIsString \in BOOLEAN : Parse(nothingIsString)
  BY <1>3, ParseBuilds
<1>4. CASE ReadEnvironment
  BY <1>4, ReadEnvironmentBuilds
<1>5. CASE Validate
  BY <1>5, ValidateKeeps
<1>6. CASE CreateCollector
  BY <1>6, CreateKeeps
<1>7. CASE UNCHANGED vars
  <2>1. PlaceInv'
    BY <1>7 DEF vars, IInv, PlaceInv, FromInput, Stood, Said, InFile, Defect
  <2>2. OutcomesAreTrue'
    BY <1>7 DEF vars, IInv, OutcomesAreTrue, Loaded
  <2> QED BY <2>1, <2>2 DEF IInv
<1> QED BY <1>1, <1>2, <1>3, <1>4, <1>5, <1>6, <1>7 DEF Next

-----------------------------------------------------------------------------
(* Texts.                                                                  *)

Values == [Variables -> Texts \cup {None}]

(* What becomes of each token. *)
Named == [x \in Token |-> IF IsReference(x) THEN <<x.reference>> ELSE <<>>]
Stands(values) ==
    [x \in Token |-> IF IsReference(x) /\ values[x.reference] # None
                     THEN values[x.reference] ELSE <<x>>]
Gives(var, value) == [x \in Token |-> IF x.reference = var THEN value ELSE <<x>>]
Kept == [x \in Token |-> <<x>>]
TextIn(doc) == [f \in Fields |-> IF doc[f] = None THEN <<>> ELSE doc[f]]

LEMMA NoneIsNoVariable == "none" \notin Variables
BY DEF Variables, VarOf, Range

LEMMA OneToken == \A x \in Token : <<x>> \in Texts
BY DEF Texts

LEMMA BlockFacts ==
    /\ Named \in Blocks(Token, Variables)
    /\ \A values \in Values : Stands(values) \in Blocks(Token, Token)
    /\ \A var \in Variables, value \in Texts : Gives(var, value) \in Blocks(Token, Token)
    /\ Kept \in Blocks(Token, Token)
<1>1. Named \in Blocks(Token, Variables)
  <2>1. ASSUME NEW x \in Token
        PROVE  (IF IsReference(x) THEN <<x.reference>> ELSE <<>>) \in Seq(Variables)
    <3>1. IsReference(x) => x.reference \in Variables
      BY DEF IsReference, Token
    <3> QED BY <3>1
  <2> QED BY <2>1 DEF Named, Blocks
<1>2. ASSUME NEW values \in Values PROVE Stands(values) \in Blocks(Token, Token)
  <2>1. ASSUME NEW x \in Token
        PROVE  (IF IsReference(x) /\ values[x.reference] # None
                THEN values[x.reference] ELSE <<x>>) \in Texts
    <3>1. IsReference(x) => x.reference \in Variables
      BY DEF IsReference, Token
    <3> QED BY <3>1, OneToken DEF Values
  <2> QED BY <2>1 DEF Stands, Blocks, Texts
<1>3. ASSUME NEW var \in Variables, NEW value \in Texts
      PROVE  Gives(var, value) \in Blocks(Token, Token)
  <2>1. \A x \in Token : (IF x.reference = var THEN value ELSE <<x>>) \in Texts
    BY OneToken
  <2> QED BY <2>1 DEF Gives, Blocks, Texts
<1>4. Kept \in Blocks(Token, Token)
  BY OneToken DEF Kept, Blocks, Texts
<1> QED BY <1>1, <1>2, <1>3, <1>4

LEMMA TextsSpread ==
    ASSUME NEW t \in Texts
    PROVE  /\ References(t) = Spread(t, Named)
           /\ \A values : Substituted(t, values) = Spread(t, Stands(values))
           /\ \A var, value : Replaced(t, var, value) = Spread(t, Gives(var, value))
           /\ Spread(t, Kept) = t
<1>1. \A i \in DOMAIN t : t[i] \in Token
  BY DEF Texts
<1>2. [i \in DOMAIN t |-> IF IsReference(t[i]) THEN <<t[i].reference>> ELSE <<>>]
        = [i \in DOMAIN t |-> Named[t[i]]]
  BY <1>1 DEF Named
<1>3. ASSUME NEW values
      PROVE  [i \in DOMAIN t |-> IF IsReference(t[i]) /\ values[t[i].reference] # None
                                 THEN values[t[i].reference] ELSE <<t[i]>>]
               = [i \in DOMAIN t |-> Stands(values)[t[i]]]
  BY <1>1 DEF Stands
<1>4. References(t) = Spread(t, Named)
  BY <1>2, Zenon DEF References, Spread
<1>5. \A values : Substituted(t, values) = Spread(t, Stands(values))
  BY <1>3, Zenon DEF Substituted, Spread
<1>6. ASSUME NEW var, NEW value
      PROVE  Replaced(t, var, value) = Spread(t, Gives(var, value))
  <2>1. [i \in DOMAIN t |-> IF t[i].reference = var THEN value ELSE <<t[i]>>]
          = [i \in DOMAIN t |-> Gives(var, value)[t[i]]]
    BY <1>1 DEF Gives
  <2> QED BY <2>1, Zenon DEF Replaced, Spread
<1>7. Spread(t, Kept) = t
  BY SpreadNothing, Zenon DEF Kept, Texts
<1> QED BY <1>4, <1>5, <1>6, <1>7

LEMMA TextsType ==
    ASSUME NEW t \in Texts
    PROVE  /\ References(t) \in Seq(Variables)
           /\ \A values \in Values : Substituted(t, values) \in Texts
           /\ \A var \in Variables, value \in Texts : Replaced(t, var, value) \in Texts
<1>1. \A S, g : g \in Blocks(Token, S) => Spread(t, g) \in Seq(S)
  BY SpreadFacts DEF Texts
<1> QED BY <1>1, BlockFacts, TextsSpread DEF Texts

(* The texts of a document and the references in it, all in one. *)
LEMMA DocumentFacts ==
    ASSUME NEW doc \in [Fields -> Texts \cup {None}]
    PROVE  /\ AllText(doc) \in Texts
           /\ Captures(doc) = References(AllText(doc))
           /\ References(AllText(doc)) \in Seq(Variables)
           /\ \A f \in Fields : doc[f] # None =>
                \A i \in 1 .. Len(doc[f]) : IsReference(doc[f][i]) =>
                   \E k \in 1 .. Len(References(AllText(doc))) :
                       References(AllText(doc))[k] = doc[f][i].reference
<1> DEFINE names == [f \in Fields |-> Spread(TextIn(doc)[f], Named)]
           all == Spread(FieldOrder, TextIn(doc))
<1>1. /\ FieldOrder \in Seq(Fields) /\ DOMAIN FieldOrder = 1 .. 4 /\ Len(FieldOrder) = 4
      /\ \A f \in Fields : \E i \in 1 .. 4 : FieldOrder[i] = f
      /\ \A i \in 1 .. 4 : FieldOrder[i] \in Fields
  BY DEF FieldOrder, Fields, Range
<1>2. \A f \in Fields : TextIn(doc)[f] = (IF doc[f] = None THEN <<>> ELSE doc[f])
                        /\ TextIn(doc)[f] \in Texts
  BY DEF TextIn, Texts
<1>3. TextIn(doc) \in Blocks(Fields, Token)
  BY <1>2 DEF TextIn, Blocks, Texts
<1>4. AllText(doc) = all
  <2>1. [i \in DOMAIN FieldOrder |-> IF doc[FieldOrder[i]] = None THEN <<>> ELSE doc[FieldOrder[i]]]
          = [i \in DOMAIN FieldOrder |-> TextIn(doc)[FieldOrder[i]]]
    BY <1>1, <1>2
  <2> QED BY <2>1, Zenon DEF AllText, Spread
<1>5. all \in Texts
  BY <1>1, <1>3, SpreadFacts DEF Texts
<1>6. References(all) = Spread(all, Named) /\ References(all) \in Seq(Variables)
  BY <1>5, TextsSpread, TextsType
<1>7. Spread(all, Named) = Spread(FieldOrder, names)
  <2>1. \A f \in Fields : names[f] = Spread(TextIn(doc)[f], Named)
    OBVIOUS
  <2> HIDE DEF names
  <2> QED BY <1>1, <1>3, <2>1, SpreadTwice, BlockFacts
<1>8. Captures(doc) = Spread(FieldOrder, names)
  <2>1. ASSUME NEW i \in 1 .. 4
        PROVE  (IF doc[FieldOrder[i]] = None THEN <<>> ELSE References(doc[FieldOrder[i]]))
                 = names[FieldOrder[i]]
    <3>1. Spread(<<>>, Named) = <<>>
      BY BlockFacts, SpreadFacts
    <3>2. doc[FieldOrder[i]] # None =>
            References(doc[FieldOrder[i]]) = Spread(doc[FieldOrder[i]], Named)
      BY <1>1, TextsSpread
    <3> QED BY <1>1, <1>2, <3>1, <3>2
  <2> HIDE DEF names
  <2>2. [i \in DOMAIN FieldOrder |->
           IF doc[FieldOrder[i]] = None THEN <<>> ELSE References(doc[FieldOrder[i]])]
          = [i \in DOMAIN FieldOrder |-> names[FieldOrder[i]]]
    BY <1>1, <2>1
  <2> QED BY <2>2, Zenon DEF Captures, Spread
<1> HIDE DEF all, names
<1>9. ASSUME NEW f \in Fields, doc[f] # None, NEW i \in 1 .. Len(doc[f]), IsReference(doc[f][i])
      PROVE  \E k \in 1 .. Len(References(all)) : References(all)[k] = doc[f][i].reference
  <2>1. PICK n \in 1 .. 4 : FieldOrder[n] = f
    BY <1>1
  <2>2. TextIn(doc)[f] = doc[f] /\ doc[f][i] \in Token
    BY <1>2, <1>9 DEF Texts
  <2>3. PICK j \in 1 .. Len(all) : all[j] = doc[f][i]
    <3>1. \A m \in 1 .. Len(FieldOrder) : \A j \in 1 .. Len(TextIn(doc)[FieldOrder[m]]) :
             \E k \in 1 .. Len(all) : all[k] = TextIn(doc)[FieldOrder[m]][j]
      <4>1. FieldOrder \in Seq(Fields)
        BY <1>1
      <4> QED BY <1>3, <4>1, SpreadHas DEF all
    <3> QED BY <1>1, <2>1, <2>2, <3>1
  <2>4. \A k \in 1 .. Len(all) : \A l \in 1 .. Len(Named[all[k]]) :
           \E m \in 1 .. Len(Spread(all, Named)) : Spread(all, Named)[m] = Named[all[k]][l]
    BY <1>5, BlockFacts, SpreadHas DEF Texts
  <2>5. Named[all[j]] = <<doc[f][i].reference>>
    BY <1>9, <2>2, <2>3 DEF Named
  <2>6. 1 \in 1 .. Len(Named[all[j]]) /\ Named[all[j]][1] = doc[f][i].reference
    BY <2>5
  <2> QED BY <1>6, <2>4, <2>6
<1> QED BY <1>4, <1>5, <1>6, <1>7, <1>8, <1>9

(* What the variables come to, reference by reference. *)
LEMMA MeaningsFacts ==
    ASSUME NEW refs \in Seq(Variables), input.env \in Values
    PROVE  /\ \A k \in 0 .. Len(refs) : Meanings(refs)[k] \in Values
           /\ Meanings(refs)[0] = [v \in Variables |-> None]
           /\ \A k \in 1 .. Len(refs) :
                LET var == refs[Len(refs) - k + 1]
                    before == Meanings(refs)[k - 1]
                IN Meanings(refs)[k] =
                     IF input.env[var] = None THEN before
                     ELSE [before EXCEPT ![var] = Substituted(input.env[var], before)]
<1>1. PICK n \in Nat : n = Len(refs)
  OBVIOUS
<1> DEFINE Next1(m, k) ==
               IF input.env[refs[n - k + 1]] = None THEN m
               ELSE [m EXCEPT ![refs[n - k + 1]] = Substituted(input.env[refs[n - k + 1]], m)]
           none == [v \in Variables |-> None]
           step == [p \in Values \X Nat |-> IF p[2] \in 1 .. n THEN Next1(p[1], p[2]) ELSE p[1]]
           F(f) == [k \in 0 .. n |-> IF k = 0 THEN none ELSE Next1(f[k - 1], k)]
           c == CHOOSE f : f = F(f)
<1>2. \A k \in 1 .. n : refs[n - k + 1] \in Variables
  BY <1>1
<1>3. ASSUME NEW m \in Values, NEW k \in 1 .. n PROVE Next1(m, k) \in Values
  <2>1. PICK var \in Variables : var = refs[n - k + 1]
    BY <1>2
  <2>2. CASE input.env[var] = None
    BY <2>1, <2>2
  <2>3. CASE input.env[var] # None
    <3>1. input.env[var] \in Texts
      BY <2>3 DEF Values
    <3>2. Substituted(input.env[var], m) \in Texts
      BY <3>1, TextsType
    <3> QED BY <2>1, <2>3, <3>2 DEF Values
  <2> QED BY <2>2, <2>3
<1>4. none \in Values
  BY DEF Values
<1> HIDE DEF Next1, none
<1>5. step \in [Values \X Nat -> Values]
  BY <1>3
<1>6. \A m \in Values, k \in 1 .. n : step[<<m, k>>] = Next1(m, k)
  OBVIOUS
<1> HIDE DEF step
<1>7. PICK h \in [0 .. n -> Values] : Follows(h, none, step, n)
  BY <1>4, <1>5, FollowsExists
<1>8. h[0] = none /\ \A k \in 1 .. n : h[k] = Next1(h[k - 1], k)
  <2>1. \A k \in 1 .. n : h[k - 1] \in Values
    BY <1>7
  <2> QED BY <1>6, <1>7, <2>1 DEF Follows
<1>9. h = F(h)
  <2>1. \A k \in 0 .. n : h[k] = IF k = 0 THEN none ELSE Next1(h[k - 1], k)
    BY <1>8
  <2> QED BY <2>1
<1>10. c = F(c)
  BY <1>9, Zenon
<1>11. Meanings(refs) = c
  BY <1>1, Zenon DEF Meanings, Next1, none
<1> HIDE DEF c
<1>12. c[0] = none /\ \A k \in 1 .. n : c[k] = Next1(c[k - 1], k)
  BY <1>10
<1> DEFINE T == {k \in Nat : k <= n => c[k] = h[k]}
<1>13. 0 \in T
  BY <1>8, <1>12
<1>14. ASSUME NEW k \in Nat, k \in T PROVE k + 1 \in T
  <2> SUFFICES ASSUME k + 1 <= n PROVE c[k + 1] = h[k + 1]
    OBVIOUS
  <2>1. k + 1 \in 1 .. n /\ (k + 1) - 1 = k
    OBVIOUS
  <2>2. c[k + 1] = Next1(c[k], k + 1) /\ h[k + 1] = Next1(h[k], k + 1)
    BY <1>8, <1>12, <2>1
  <2> QED BY <1>14, <2>2
<1>15. \A k \in Nat : k \in T
  BY <1>13, <1>14, SetInduction
<1>16. \A k \in 0 .. n : c[k] \in Values
  BY <1>7, <1>15
<1> QED BY <1>1, <1>11, <1>12, <1>16 DEF Next1, none

(* One replacement brings a text one step nearer to its meaning. *)
LEMMA ReplacementKeepsMeaning ==
    ASSUME NEW t \in Texts, NEW var \in Variables, NEW value \in Texts, NEW m \in Values
    PROVE  Substituted(Replaced(t, var, value), m)
             = Substituted(t, [m EXCEPT ![var] = Substituted(value, m)])
<1> DEFINE w == [m EXCEPT ![var] = Substituted(value, m)]
           g == Gives(var, value)
           h == Stands(m)
           k == [x \in Token |-> Spread(g[x], h)]
<1>1. Substituted(value, m) = Spread(value, h) /\ Spread(value, h) \in Texts
  BY TextsSpread, TextsType
<1>2. w \in Values
  BY <1>1 DEF Values
<1>3. g \in Blocks(Token, Token) /\ h \in Blocks(Token, Token)
  BY BlockFacts
<1>4. Replaced(t, var, value) = Spread(t, g) /\ Replaced(t, var, value) \in Texts
  BY TextsSpread, TextsType
<1>5. Substituted(Replaced(t, var, value), m) = Spread(Spread(t, g), h)
  BY <1>4, TextsSpread
<1>6. Spread(Spread(t, g), h) = Spread(t, k)
  <2>1. t \in Seq(Token)
    BY DEF Texts
  <2>2. \A x \in Token : k[x] = Spread(g[x], h)
    OBVIOUS
  <2> HIDE DEF g, h, k
  <2> QED BY <1>3, <2>1, <2>2, SpreadTwice
<1>7. ASSUME NEW x \in Token PROVE k[x] = Stands(w)[x]
  <2>1. CASE x.reference = var
    <3>1. g[x] = value
      BY <2>1 DEF Gives
    <3>2. IsReference(x) /\ w[x.reference] = Spread(value, h) /\ w[x.reference] # None
      BY <1>1, <2>1, NoneIsNoVariable, ConfigAssumption DEF IsReference, Values
    <3> QED BY <3>1, <3>2 DEF Stands
  <2>2. CASE x.reference # var
    <3>1. g[x] = <<x>> /\ Spread(<<x>>, h) = h[x]
      BY <1>3, <2>2, SpreadOne DEF Gives
    <3>2. IsReference(x) => w[x.reference] = m[x.reference]
      BY <2>2 DEF IsReference, Token, Values
    <3> QED BY <3>1, <3>2 DEF Stands
  <2> QED BY <2>1, <2>2
<1> HIDE DEF k, w
<1>8. Spread(t, k) = Spread(t, Stands(w))
  <2>1. \A i \in DOMAIN t : k[t[i]] = Stands(w)[t[i]]
    BY <1>7 DEF Texts
  <2> QED BY <2>1, SpreadSame, Zenon DEF Texts
<1>9. Substituted(t, w) = Spread(t, Stands(w))
  BY TextsSpread
<1> QED BY <1>5, <1>6, <1>8, <1>9 DEF w

(* Where no reference has a value, the text is what it is. *)
LEMMA NothingToReplace ==
    ASSUME NEW t \in Texts, NEW m \in Values,
           \A i \in DOMAIN t : IsReference(t[i]) => m[t[i].reference] = None
    PROVE  Substituted(t, m) = t
<1>1. \A i \in DOMAIN t : Stands(m)[t[i]] = Kept[t[i]]
  <2>1. \A i \in DOMAIN t : t[i] \in Token
    BY DEF Texts
  <2> QED BY <2>1 DEF Stands, Kept
<1>2. Spread(t, Stands(m)) = Spread(t, Kept)
  BY <1>1, SpreadSame, Zenon DEF Texts
<1> QED BY <1>2, TextsSpread

(* The references come from those of the variables without references. *)
LEMMA PlainMeanings ==
    ASSUME NEW refs \in Seq(Variables), input.env \in Values, Plain,
           NEW t \in Texts,
           \A i \in 1 .. Len(t) : IsReference(t[i]) =>
              \E k \in 1 .. Len(refs) : refs[k] = t[i].reference
    PROVE  Substituted(t, Meanings(refs)[Len(refs)]) = AtOnce(t)
<1> DEFINE M(k) == Meanings(refs)[k]
           env == input.env
<1>1. PICK n \in Nat : n = Len(refs)
  OBVIOUS
<1>2. \A k \in 1 .. n : refs[n - k + 1] \in Variables
  BY <1>1
<1> DEFINE Right(k) == \A v \in Variables :
               M(k)[v] = IF \E j \in n - k + 1 .. n : refs[j] = v THEN env[v] ELSE None
           T == {k \in Nat : k <= n => Right(k)}
<1>3. /\ \A k \in 0 .. n : M(k) \in Values
      /\ M(0) = [v \in Variables |-> None]
      /\ \A k \in 1 .. n :
            M(k) = IF env[refs[n - k + 1]] = None THEN M(k - 1)
                   ELSE [M(k - 1) EXCEPT ![refs[n - k + 1]] =
                            Substituted(env[refs[n - k + 1]], M(k - 1))]
  BY <1>1, MeaningsFacts
<1> HIDE DEF M
<1>4. 0 \in T
  BY <1>3
<1>5. ASSUME NEW k \in Nat, k \in T PROVE k + 1 \in T
  <2> SUFFICES ASSUME k + 1 <= n, NEW v \in Variables
               PROVE  M(k + 1)[v] = IF \E j \in n - (k + 1) + 1 .. n : refs[j] = v
                                    THEN env[v] ELSE None
    OBVIOUS
  <2>1. n - (k + 1) + 1 = n - k /\ n - k \in 1 .. n /\ k + 1 \in 1 .. n /\ (k + 1) - 1 = k
        /\ k \in 0 .. n
    OBVIOUS
  <2>2. PICK var \in Variables : var = refs[n - k]
    BY <1>2, <2>1
  <2>3. M(k + 1) = IF env[var] = None THEN M(k)
                   ELSE [M(k) EXCEPT ![var] = Substituted(env[var], M(k))]
    BY <1>3, <2>1, <2>2
  <2>4. M(k)[v] = IF \E j \in n - k + 1 .. n : refs[j] = v THEN env[v] ELSE None
    BY <1>5
  <2>5. (\E j \in n - k .. n : refs[j] = v) <=>
          v = var \/ \E j \in n - k + 1 .. n : refs[j] = v
    BY <2>1, <2>2
  <2>6. env[var] # None => Substituted(env[var], M(k)) = env[var]
    <3> SUFFICES ASSUME env[var] # None PROVE Substituted(env[var], M(k)) = env[var]
      OBVIOUS
    <3>1. env[var] \in Texts /\ \A i \in DOMAIN env[var] : ~IsReference(env[var][i])
      BY DEF Plain, Values
    <3>2. M(k) \in Values
      BY <1>3, <2>1
    <3> QED BY <3>1, <3>2, NothingToReplace
  <2>7. M(k) \in Values
    BY <1>3, <2>1
  <2>8. M(k + 1)[v] = IF v = var THEN env[v] ELSE M(k)[v]
    <3>1. CASE env[var] = None
      BY <2>3, <2>4, <3>1
    <3>2. CASE env[var] # None
      BY <2>3, <2>6, <2>7, <3>2 DEF Values
    <3> QED BY <3>1, <3>2
  <2> QED BY <2>1, <2>4, <2>5, <2>8
<1>6. \A k \in Nat : k \in T
  BY <1>4, <1>5, SetInduction
<1>7. \A v \in Variables : (\E k \in 1 .. n : refs[k] = v) => M(n)[v] = env[v]
  <2>1. Right(n) /\ n - n + 1 = 1
    BY <1>6
  <2> QED BY <2>1
<1>8. \A i \in DOMAIN t : Stands(M(n))[t[i]] = Stands(env)[t[i]]
  <2>1. \A i \in DOMAIN t : i \in 1 .. Len(t) /\ t[i] \in Token
    BY DEF Texts
  <2>2. \A x \in Token : IsReference(x) => x.reference \in Variables
    BY DEF IsReference, Token
  <2> QED BY <1>1, <1>7, <2>1, <2>2 DEF Stands
<1>9. Spread(t, Stands(M(n))) = Spread(t, Stands(env))
  BY <1>8, SpreadSame DEF Texts
<1> QED BY <1>1, <1>9, TextsSpread DEF AtOnce, M

-----------------------------------------------------------------------------
(* The expansion of a document.                                            *)

Refs == References(AllText(input.file))
Meaning(k) == Meanings(Refs)[k]

(* The references still to replace are the last of the document's, and with   *)
(* what they will come to the text means what the document means.            *)
TextInv ==
    /\ TypeOK
    /\ \A f \in Fields : text[f] = None <=> input.file[f] = None
    /\ at = "start" => text = input.file
    /\ at = "expand" =>
          /\ Len(captures) <= Len(Refs)
          /\ \A j \in 1 .. Len(captures) : captures[j] = Refs[Len(Refs) - Len(captures) + j]
          /\ \A f \in Fields : input.file[f] # None =>
                Substituted(text[f], Meaning(Len(captures))) =
                Substituted(input.file[f], Meaning(Len(Refs)))
    /\ at = "parse" =>
          \A f \in Fields : input.file[f] # None =>
             text[f] = Substituted(input.file[f], Meaning(Len(Refs)))

LEMMA RefsFacts ==
    ASSUME input \in Input
    PROVE  /\ Refs \in Seq(Variables) /\ Len(Refs) \in Nat
           /\ Captures(input.file) = Refs
           /\ input.env \in Values /\ input.file \in [Fields -> Texts \cup {None}]
           /\ \A k \in 0 .. Len(Refs) : Meaning(k) \in Values
           /\ Meaning(0) = [v \in Variables |-> None]
<1>1. input.env \in Values /\ input.file \in [Fields -> Texts \cup {None}]
  BY DEF Input, Values
<1>2. Refs \in Seq(Variables) /\ Captures(input.file) = Refs
  BY <1>1, DocumentFacts DEF Refs
<1>3. Len(Refs) \in Nat
  BY <1>2
<1> QED BY <1>1, <1>2, <1>3, MeaningsFacts DEF Meaning

LEMMA ExpandKeepsText ==
    ASSUME TextInv, Expand
    PROVE  TextInv'
<1> DEFINE var == Head(captures)
           value == input.env[var]
           n == Len(Refs)
           k == Len(captures)
<1>1. /\ input \in Input /\ captures \in Seq(Variables) /\ captures # <<>> /\ at = "expand"
      /\ \A f \in Fields : text[f] = None \/ text[f] \in Texts
  BY DEF TextInv, TypeOK, Expand
<1>2. input' = input /\ at' = "expand" /\ Refs' = Refs /\ \A j : Meaning(j)' = Meaning(j)
  BY DEF Expand, Refs, Meaning, Meanings
<1>3. /\ n \in Nat /\ k \in 1 .. n /\ k - 1 \in 0 .. n
      /\ captures' \in Seq(Variables) /\ Len(captures') = k - 1
      /\ \A j \in 1 .. k - 1 : captures'[j] = captures[j + 1]
      /\ var \in Variables /\ var = Refs[n - k + 1]
  <2>1. n \in Nat /\ k \in Nat /\ k > 0 /\ k <= n /\ captures' = Tail(captures)
    BY <1>1, RefsFacts DEF TextInv, Expand
  <2>2. var = captures[1] /\ captures[1] \in Variables /\ captures[1] = Refs[n - k + 1]
    BY <1>1, <2>1 DEF TextInv
  <2> QED BY <1>1, <2>1, <2>2
<1>4. /\ Meaning(k - 1) \in Values
      /\ Meaning(k) = IF value = None THEN Meaning(k - 1)
                      ELSE [Meaning(k - 1) EXCEPT ![var] = Substituted(value, Meaning(k - 1))]
  <2>1. Refs \in Seq(Variables) /\ input.env \in Values /\ Meaning(k - 1) \in Values
    BY <1>1, <1>3, RefsFacts
  <2>2. \A i \in 1 .. n :
           Meaning(i) = IF input.env[Refs[n - i + 1]] = None THEN Meaning(i - 1)
                        ELSE [Meaning(i - 1) EXCEPT ![Refs[n - i + 1]] =
                                 Substituted(input.env[Refs[n - i + 1]], Meaning(i - 1))]
    BY <2>1, MeaningsFacts DEF Meaning
  <2> QED BY <1>3, <2>1, <2>2
<1>5. value = None \/ value \in Texts
  BY <1>1, <1>3, RefsFacts DEF Values
<1>6. \A f \in Fields : text'[f] = IF value = None \/ text[f] = None THEN text[f]
                                   ELSE Replaced(text[f], var, value)
  BY DEF Expand, ReplacesIn
<1> HIDE DEF var, value, n, k
<1>7. \A f \in Fields : (text'[f] = None \/ text'[f] \in Texts) /\ (text'[f] = None <=> text[f] = None)
  <2>1. \A f \in Fields : text[f] # None /\ value # None => Replaced(text[f], var, value) \in Texts
    BY <1>1, <1>3, <1>5, TextsType
  <2> QED BY <1>1, <1>6, <2>1, ConfigAssumption
<1>8. ASSUME NEW f \in Fields, input.file[f] # None
      PROVE  Substituted(text'[f], Meaning(k - 1)) = Substituted(input.file[f], Meaning(n))
  <2>1. text[f] \in Texts /\ text[f] # None
    BY <1>1, <1>8, ConfigAssumption DEF TextInv
  <2>2. Substituted(text[f], Meaning(k)) = Substituted(input.file[f], Meaning(n))
    BY <1>1, <1>8 DEF TextInv, n, k
  <2>3. CASE value = None
    BY <1>4, <1>6, <2>2, <2>3
  <2>4. CASE value # None
    <3>1. Substituted(Replaced(text[f], var, value), Meaning(k - 1)) = Substituted(text[f], Meaning(k))
      BY <1>3, <1>4, <1>5, <2>1, <2>4, ReplacementKeepsMeaning
    <3> QED BY <1>6, <2>1, <2>2, <2>4, <3>1
  <2> QED BY <2>3, <2>4
<1>9. TypeOK'
  BY <1>3, <1>7 DEF TextInv, TypeOK, Expand
<1>10. \A f \in Fields : text'[f] = None <=> input'.file[f] = None
  BY <1>2, <1>7 DEF TextInv
<1>11. \A j \in 1 .. Len(captures') : captures'[j] = Refs[n - Len(captures') + j]
  <2> SUFFICES ASSUME NEW j \in 1 .. k - 1 PROVE captures'[j] = Refs[n - (k - 1) + j]
    BY <1>3
  <2>1. j + 1 \in 1 .. k /\ n - (k - 1) + j = n - k + (j + 1)
    BY <1>3
  <2> QED BY <1>1, <1>3, <2>1 DEF TextInv, n, k
<1> QED BY <1>2, <1>3, <1>8, <1>9, <1>10, <1>11 DEF TextInv, n

LEMMA ParseKeepsText ==
    ASSUME TextInv, NEW e \in BOOLEAN, Parse(e)
    PROVE  TextInv'
<1>1. /\ UNCHANGED <<input, text, captures>> /\ at' \in {"validate", "done"} /\ TypeOK
  BY DEF Parse, Refuse, TextInv
<1>2. CASE at' = "done"
  BY <1>1, <1>2 DEF Parse, Refuse, TextInv, TypeOK, Errors
<1>3. CASE at' = "validate"
  <2>1. /\ Required \cap {f \in Fields : text[f] = None} = {}
        /\ input.interval.given = "nothing" \/ IsInteger(input.interval)
        /\ outcome' = outcome
        /\ config' = [key |-> Scalar(text["key"]), secret |-> Scalar(text["secret"]),
                      endpoint |-> IF "endpoint" \in {f \in Fields : text[f] = None}
                                   THEN DefaultEndpoint ELSE Scalar(text["endpoint"]),
                      url |-> Scalar(text["url"]), interval |-> FromYaml(input.interval)]
    BY <1>3 DEF Parse, Refuse
  <2>2. /\ "key" \in Fields /\ "secret" \in Fields /\ "url" \in Fields /\ "endpoint" \in Fields
        /\ "key" \in Required /\ "secret" \in Required /\ "url" \in Required
    BY DEF Fields, FieldOrder, Required, Range
  <2>3. text["key"] \in Texts /\ text["secret"] \in Texts /\ text["url"] \in Texts
        /\ (text["endpoint"] = None \/ text["endpoint"] \in Texts)
    BY <1>1, <2>1, <2>2 DEF TypeOK
  <2>4. FromYaml(input.interval) \in 0 .. Word - 1
    <3>1. input.interval \in Written
      BY <1>1 DEF TypeOK, Input
    <3> QED BY <2>1, <3>1, ConfigAssumption DEF FromYaml, IsInteger, Written
  <2>5. config' \in Configs
    BY <2>1, <2>2, <2>3, <2>4, ScalarType, ConfigAssumption DEF Configs
  <2> QED BY <1>1, <1>3, <2>1, <2>5 DEF TextInv, TypeOK
<1> QED BY <1>1, <1>2, <1>3

LEMMA ReadEnvironmentKeepsText ==
    ASSUME TextInv, ReadEnvironment
    PROVE  TextInv'
<1>1. UNCHANGED <<input, text, captures>> /\ at' \in {"validate", "done"} /\ TypeOK
  BY DEF ReadEnvironment, Refuse, TextInv
<1>2. CASE EnvDefect(input.env) # "none"
  <2>1. EnvDefect(input.env) \in Errors
    BY <1>2 DEF EnvDefect, Errors
  <2>2. at' = "done" /\ outcome' = EnvDefect(input.env) /\ config' = config
    BY <1>2 DEF ReadEnvironment, Refuse
  <2> QED BY <1>1, <2>1, <2>2 DEF TextInv, TypeOK
<1>3. CASE EnvDefect(input.env) = "none"
  <2> DEFINE endpoint == input.env["DATAPACE_ENDPOINT"]
  <2>1. /\ at' = "validate" /\ outcome' = outcome
        /\ config' = [key |-> input.env["DATAPACE_API_KEY"],
                      secret |-> input.env["DATAPACE_SIGNING_SECRET"],
                      endpoint |-> IF endpoint = None \/ IsBlank(endpoint)
                                   THEN DefaultEndpoint ELSE endpoint,
                      url |-> input.env["DATABASE_URL"], interval |-> FromDuration(input.interval)]
    BY <1>3 DEF ReadEnvironment
  <2>2. /\ input.env["DATAPACE_API_KEY"] # None /\ input.env["DATABASE_URL"] # None
        /\ input.env["DATAPACE_SIGNING_SECRET"] # None
    BY <1>3 DEF EnvDefect
  <2>3. {"DATAPACE_API_KEY", "DATAPACE_SIGNING_SECRET", "DATAPACE_ENDPOINT", "DATABASE_URL"}
          \subseteq Variables
    <3>1. /\ VarOf["key"] = "DATAPACE_API_KEY" /\ VarOf["secret"] = "DATAPACE_SIGNING_SECRET"
          /\ VarOf["endpoint"] = "DATAPACE_ENDPOINT" /\ VarOf["url"] = "DATABASE_URL"
          /\ DOMAIN VarOf = {"key", "secret", "endpoint", "url"}
      BY DEF VarOf
    <3> QED BY <3>1 DEF Variables, Range
  <2>4. input.env \in [Variables -> Texts \cup {None}] /\ input.interval \in Written
    BY <1>1 DEF TypeOK, Input
  <2>5. /\ input.env["DATAPACE_API_KEY"] \in Texts /\ input.env["DATABASE_URL"] \in Texts
        /\ input.env["DATAPACE_SIGNING_SECRET"] \in Texts
        /\ endpoint \in Texts \cup {None}
    BY <2>2, <2>3, <2>4
  <2>6. FromDuration(input.interval) \in 0 .. Word - 1
    <3>1. input.interval.count \in Nat /\ Seconds[input.interval.suffix] \in Nat
      BY <2>4 DEF Written, Seconds
    <3>2. PICK p \in Nat : p = input.interval.count * Seconds[input.interval.suffix]
      BY <3>1
    <3>3. Word \in Nat /\ Word > 0 /\ DefaultInterval \in 0 .. Word - 1
      BY ConfigAssumption
    <3>4. p % Word \in 0 .. Word - 1
      BY <3>2, <3>3
    <3> QED BY <3>2, <3>3, <3>4 DEF FromDuration
  <2> HIDE DEF endpoint
  <2>7. config' \in Configs
    BY <2>1, <2>5, <2>6, ConfigAssumption DEF Configs
  <2> QED BY <1>1, <2>1, <2>7 DEF TextInv, TypeOK
<1> QED BY <1>2, <1>3

LEMMA NextTextInv == TextInv /\ [Next]_vars => TextInv'
<1> SUFFICES ASSUME TextInv, [Next]_vars PROVE TextInv'
  OBVIOUS
<1>1. input \in Input /\ TypeOK
  BY DEF TextInv, TypeOK
<1>2. ASSUME NEW ok \in BOOLEAN, ReadFile(ok) PROVE TextInv'
  <2>1. input' = input /\ text' = text /\ config' = config /\ text = input.file
    BY <1>2 DEF ReadFile, TextInv
  <2>2. CASE ok
    <3>1. at' = "expand" /\ captures' = Refs /\ outcome' = outcome
      BY <1>1, <1>2, <2>2, RefsFacts DEF ReadFile
    <3>2. Refs \in Seq(Variables) /\ Len(Refs) \in Nat
      BY <1>1, RefsFacts
    <3>3. Refs' = Refs /\ \A j : Meaning(j)' = Meaning(j)
      BY <2>1 DEF Refs, Meaning, Meanings
    <3>4. TypeOK'
      BY <1>1, <2>1, <3>1, <3>2 DEF TypeOK
    <3> QED BY <2>1, <3>1, <3>2, <3>3, <3>4 DEF TextInv
  <2>3. CASE ~ok
    BY <1>1, <1>2, <2>1, <2>3 DEF ReadFile, Refuse, TextInv, TypeOK, Errors
  <2> QED BY <2>2, <2>3
<1>3. CASE Expand
  BY <1>3, ExpandKeepsText
<1>4. CASE EndExpand
  <2>1. /\ at = "expand" /\ at' = "parse" /\ captures = <<>> /\ Len(captures) = 0
        /\ UNCHANGED <<input, text, captures, config, outcome>>
    BY <1>4 DEF EndExpand
  <2>2. Refs' = Refs /\ \A j : Meaning(j)' = Meaning(j)
    BY <2>1 DEF Refs, Meaning, Meanings
  <2>3. ASSUME NEW f \in Fields, input.file[f] # None
        PROVE  text[f] = Substituted(input.file[f], Meaning(Len(Refs)))
    <3>1. text[f] \in Texts /\ Substituted(text[f], Meaning(0)) = Substituted(input.file[f], Meaning(Len(Refs)))
      BY <1>1, <2>1, <2>3 DEF TextInv, TypeOK
    <3>2. Meaning(0) \in Values /\ \A v \in Variables : Meaning(0)[v] = None
      BY <1>1, RefsFacts DEF Values
    <3>3. \A i \in DOMAIN text[f] : IsReference(text[f][i]) => Meaning(0)[text[f][i].reference] = None
      <4>1. \A i \in DOMAIN text[f] : text[f][i] \in Token
        BY <3>1 DEF Texts
      <4>2. \A x \in Token : IsReference(x) => x.reference \in Variables
        BY DEF IsReference, Token
      <4> QED BY <3>2, <4>1, <4>2
    <3>4. Substituted(text[f], Meaning(0)) = text[f]
      BY <3>1, <3>2, <3>3, NothingToReplace
    <3> QED BY <3>1, <3>4
  <2> QED BY <1>1, <2>1, <2>2, <2>3 DEF TextInv, TypeOK
<1>5. CASE \E nothingIsString \in BOOLEAN : Parse(nothingIsString)
  BY <1>5, ParseKeepsText
<1>6. CASE ReadEnvironment
  BY <1>6, ReadEnvironmentKeepsText
<1>7. CASE Validate
  <2>1. /\ UNCHANGED <<input, text, captures, config>> /\ at' \in {"create", "done"}
        /\ outcome' \in {outcome} \cup Errors
    BY <1>7 DEF Validate, Refuse, Defect, Errors
  <2> QED BY <1>1, <2>1 DEF TextInv, TypeOK
<1>8. CASE CreateCollector
  <2>1. /\ UNCHANGED <<input, text, captures, config>> /\ at' = "done"
        /\ outcome' \in Collectors \cup {"unsupported"}
    BY <1>8, CollectorFacts DEF CreateCollector, Refuse
  <2> QED BY <1>1, <2>1 DEF TextInv, TypeOK, Errors
<1>9. CASE UNCHANGED vars
  <2>1. UNCHANGED <<input, at, text, captures, config, outcome>>
    BY <1>9 DEF vars
  <2>2. Refs' = Refs /\ \A k : Meaning(k)' = Meaning(k)
    BY <2>1 DEF Refs, Meaning, Meanings
  <2> QED BY <2>1, <2>2 DEF TextInv, TypeOK
<1> QED BY <1>2, <1>3, <1>4, <1>5, <1>6, <1>7, <1>8, <1>9 DEF Next

LEMMA AlwaysTextInv == Spec => []TextInv
<1>1. Init => TextInv
  <2> SUFFICES ASSUME Init PROVE TextInv
    OBVIOUS
  <2>1. input \in Input /\ text = input.file /\ captures = <<>> /\ at = "start"
        /\ config = None /\ outcome = "none"
    BY ConfigAssumption DEF Init
  <2>2. <<>> \in Seq(Variables)
    OBVIOUS
  <2>3. \A f \in Fields : text[f] = None \/ text[f] \in Texts
    BY <2>1 DEF Input
  <2> QED BY <2>1, <2>2, <2>3 DEF TextInv, TypeOK
<1> QED BY <1>1, NextTextInv, PTL DEF Spec

LEMMA AlwaysIInv == Spec => []IInv
<1>1. TextInv => TypeOK
  BY DEF TextInv
<1> QED BY <1>1, InitIInv, NextIInv, AlwaysTextInv, PTL DEF Spec

-----------------------------------------------------------------------------
(* The rules of from_url.                                                  *)

LEMMA PostgresRulesFacts ==
    /\ Len(PostgresRules) = 5 /\ DOMAIN PostgresRules = 1 .. 5
    /\ \A i \in 1 .. 5 :
          /\ PostgresRules[i].starts = PostgresSchemes /\ PostgresRules[i].contains = {}
          /\ PostgresRules[i].type \in
                {"timescaledb", "cockroachdb", "yugabytedb", "redshift", "postgres"}
    /\ PostgresRules[5].besides = {}
BY DEF PostgresRules, Rule

LEMMA NativeRulesFacts ==
    /\ Len(NativeRules) = 12 /\ DOMAIN NativeRules = 1 .. 12
    /\ \A i \in 1 .. 2 : /\ NativeRules[i].starts = {"mysql", "mariadb"}
                         /\ NativeRules[i].contains = {}
    /\ /\ NativeRules[3].starts = MongoSchemes /\ NativeRules[3].contains = {}
       /\ NativeRules[3].besides = {} /\ NativeRules[3].type = "mongodb"
    /\ \A i \in 1 .. 12 : i # 3 => NativeRules[i].type \in
          {"tidb", "mysql", "sqlserver", "oracle", "db2", "redis", "elasticsearch", "clickhouse",
           "cosmosdb", "couchbase"}
BY DEF NativeRules, Rule

LEMMA ServiceRulesFacts ==
    /\ Len(ServiceRules) = 17 /\ DOMAIN ServiceRules = 1 .. 17
    /\ /\ ServiceRules[3].starts = {} /\ ServiceRules[3].contains = {"redshift.amazonaws.com"}
       /\ ServiceRules[3].type = "redshift"
    /\ \A i \in 1 .. 17 : i # 3 => ServiceRules[i].type \in
          {"snowflake", "bigquery", "dynamodb", "influxdb", "pinecone", "milvus", "weaviate",
           "qdrant", "chroma", "neo4j", "neptune", "arangodb", "janusgraph", "tigergraph",
           "dgraph", "memgraph"}
BY DEF ServiceRules, Rule

LEMMA RulesFacts ==
    /\ DOMAIN Rules = 1 .. 34 /\ Len(Rules) = 34
    /\ \A i \in 1 .. 5 : Rules[i] = PostgresRules[i]
    /\ \A i \in 1 .. 12 : Rules[5 + i] = NativeRules[i]
    /\ \A i \in 1 .. 17 : Rules[17 + i] = ServiceRules[i]
<1> DEFINE S == Range(PostgresRules) \cup Range(NativeRules) \cup Range(ServiceRules)
           both == Joined(PostgresRules, NativeRules)
<1>1. \A a, b \in Seq(S) :
         /\ Joined(a, b) \in Seq(S) /\ Len(Joined(a, b)) = Len(a) + Len(b)
         /\ DOMAIN Joined(a, b) = 1 .. Len(a) + Len(b)
         /\ \A k \in 1 .. Len(a) : Joined(a, b)[k] = a[k]
         /\ \A k \in 1 .. Len(b) : Joined(a, b)[Len(a) + k] = b[k]
  <2> HIDE DEF S
  <2> QED BY DEF Joined
<1>2. PostgresRules \in Seq(S) /\ NativeRules \in Seq(S) /\ ServiceRules \in Seq(S)
  <2>1. /\ PostgresRules = [i \in 1 .. 5 |-> PostgresRules[i]]
        /\ NativeRules = [i \in 1 .. 12 |-> NativeRules[i]]
        /\ ServiceRules = [i \in 1 .. 17 |-> ServiceRules[i]]
    BY DEF PostgresRules, NativeRules, ServiceRules
  <2>2. /\ \A i \in 1 .. 5 : PostgresRules[i] \in S
        /\ \A i \in 1 .. 12 : NativeRules[i] \in S
        /\ \A i \in 1 .. 17 : ServiceRules[i] \in S
    BY PostgresRulesFacts, NativeRulesFacts, ServiceRulesFacts DEF Range
  <2> HIDE DEF S
  <2> QED BY <2>1, <2>2
<1>3. Rules = Joined(both, ServiceRules)
  BY DEF Rules, Joined
<1> HIDE DEF S
<1>4. /\ both \in Seq(S) /\ Len(both) = 17
      /\ \A k \in 1 .. 5 : both[k] = PostgresRules[k]
      /\ \A k \in 1 .. 12 : both[5 + k] = NativeRules[k]
  <2>1. /\ both \in Seq(S) /\ Len(both) = Len(PostgresRules) + Len(NativeRules)
        /\ \A k \in 1 .. Len(PostgresRules) : both[k] = PostgresRules[k]
        /\ \A k \in 1 .. Len(NativeRules) : both[Len(PostgresRules) + k] = NativeRules[k]
    BY <1>1, <1>2, Zenon
  <2>2. Len(PostgresRules) = 5 /\ Len(NativeRules) = 12
    BY PostgresRulesFacts, NativeRulesFacts
  <2> HIDE DEF both
  <2> QED BY <2>1, <2>2
<1> HIDE DEF both
<1>5. /\ DOMAIN Rules = 1 .. 34 /\ Len(Rules) = 34
      /\ \A k \in 1 .. 17 : Rules[k] = both[k]
      /\ \A k \in 1 .. 17 : Rules[17 + k] = ServiceRules[k]
  <2> DEFINE all == Joined(both, ServiceRules)
  <2>1. both \in Seq(S) /\ ServiceRules \in Seq(S)
    BY <1>2, <1>4
  <2>2. /\ Len(all) = Len(both) + Len(ServiceRules)
        /\ DOMAIN all = 1 .. Len(both) + Len(ServiceRules)
        /\ \A k \in 1 .. Len(both) : all[k] = both[k]
        /\ \A k \in 1 .. Len(ServiceRules) : all[Len(both) + k] = ServiceRules[k]
    BY <1>1, <2>1, Zenon
  <2>3. Len(ServiceRules) = 17 /\ Len(both) = 17
    BY <1>4, ServiceRulesFacts
  <2> HIDE DEF all
  <2>4. Rules = all
    BY <1>3 DEF all
  <2> QED BY <2>2, <2>3, <2>4
<1>6. /\ \A i \in 1 .. 5 : Rules[i] = both[i]
      /\ \A i \in 1 .. 12 : Rules[5 + i] = both[5 + i]
  BY <1>5
<1> QED BY <1>4, <1>5, <1>6

(* The first rule that matches decides. *)
LEMMA FirstRule ==
    ASSUME NEW url
    PROVE  \/ /\ \A i \in 1 .. 34 : ~Matches(Rules[i], url)
              /\ FromUrl(url) = "unsupported"
           \/ \E first \in 1 .. 34 :
                 /\ Matches(Rules[first], url) /\ FromUrl(url) = Rules[first].type
                 /\ \A i \in 1 .. 34 : i < first => ~Matches(Rules[i], url)
<1> DEFINE I == {i \in 1 .. Len(Rules) : Matches(Rules[i], url)}
           first == SelectInSeq(Rules, LAMBDA rule : Matches(rule, url))
<1>1. FromUrl(url) = IF first = 0 THEN "unsupported" ELSE Rules[first].type
  BY DEF FromUrl
<1>2. first = IF I # {} THEN Min(I) ELSE 0
  BY DEF SelectInSeq
<1> HIDE DEF first
<1>3. CASE I = {}
  BY <1>1, <1>2, <1>3, RulesFacts
<1>4. CASE I # {}
  <2>1. I \subseteq 1 .. 34 /\ I \subseteq Nat
    BY RulesFacts
  <2>2. \E m \in I : \A i \in I : m <= i
    BY <1>4, <2>1, LeastOfNats
  <2>3. Min(I) \in I /\ \A i \in I : Min(I) <= i
    BY <2>2 DEF Min
  <2>4. first \in 1 .. 34 /\ Matches(Rules[first], url)
    BY <1>2, <1>4, <2>1, <2>3
  <2>5. ASSUME NEW i \in 1 .. 34, i < first PROVE ~Matches(Rules[i], url)
    <3>1. i \notin I
      BY <1>2, <1>4, <2>1, <2>3, <2>4, <2>5
    <3> QED BY <3>1, RulesFacts
  <2> QED BY <1>1, <2>4, <2>5
<1> QED BY <1>3, <1>4

(* The scheme decides, but for the address of Redshift. *)
LEMMA CollectorOfUrl ==
    ASSUME NEW url
    PROVE  /\ url.scheme \in PostgresSchemes => CollectorOf(FromUrl(url)) = "postgres"
           /\ CollectorOf(FromUrl(url)) = "mongodb" <=> url.scheme \in MongoSchemes
           /\ CollectorOf(FromUrl(url)) = "postgres" =>
                url.scheme \in PostgresSchemes \/ "redshift.amazonaws.com" \in url.marks
<1>1. \A i \in 1 .. 5 : Matches(Rules[i], url) => url.scheme \in PostgresSchemes
  BY RulesFacts, PostgresRulesFacts DEF Matches
<1>2. url.scheme \in PostgresSchemes => Matches(Rules[5], url)
  BY RulesFacts, PostgresRulesFacts DEF Matches
<1>3. Matches(Rules[8], url) <=> url.scheme \in MongoSchemes
  <2>1. Rules[8] = NativeRules[3]
    BY RulesFacts
  <2> QED BY <2>1, NativeRulesFacts DEF Matches
<1>4. \A i \in 6 .. 7 : Matches(Rules[i], url) => url.scheme \in {"mysql", "mariadb"}
  <2>1. Rules[6] = NativeRules[1] /\ Rules[7] = NativeRules[2]
    BY RulesFacts
  <2>2. \A i \in 6 .. 7 : i = 6 \/ i = 7
    OBVIOUS
  <2> QED BY <2>1, <2>2, NativeRulesFacts DEF Matches
<1>5. Matches(Rules[20], url) => "redshift.amazonaws.com" \in url.marks
  <2>1. Rules[20] = ServiceRules[3]
    BY RulesFacts
  <2> QED BY <2>1, ServiceRulesFacts DEF Matches
<1>6. \A i \in 1 .. 5 : CollectorOf(Rules[i].type) = "postgres"
  BY RulesFacts, PostgresRulesFacts DEF CollectorOf
<1>7. CollectorOf(Rules[8].type) = "mongodb" /\ CollectorOf("unsupported") = "unsupported"
  <2>1. Rules[8] = NativeRules[3]
    BY RulesFacts
  <2> QED BY <2>1, NativeRulesFacts DEF CollectorOf
<1>8. CollectorOf(Rules[20].type) = "postgres"
  <2>1. Rules[20] = ServiceRules[3]
    BY RulesFacts
  <2> QED BY <2>1, ServiceRulesFacts DEF CollectorOf
<1>9. ASSUME NEW i \in 6 .. 34, i # 8, i # 20 PROVE CollectorOf(Rules[i].type) = "unsupported"
  <2>1. CASE i <= 17
    <3>1. i - 5 \in 1 .. 12 /\ i - 5 # 3 /\ i = 5 + (i - 5)
      BY <1>9, <2>1
    <3>2. Rules[i] = NativeRules[i - 5]
      BY <3>1, RulesFacts
    <3> QED BY <3>1, <3>2, NativeRulesFacts DEF CollectorOf
  <2>2. CASE i > 17
    <3>1. i - 17 \in 1 .. 17 /\ i - 17 # 3 /\ i = 17 + (i - 17)
      BY <1>9, <2>2
    <3>2. Rules[i] = ServiceRules[i - 17]
      BY <3>1, RulesFacts
    <3> QED BY <3>1, <3>2, ServiceRulesFacts DEF CollectorOf
  <2> QED BY <2>1, <2>2
<1>10. PostgresSchemes \cap MongoSchemes = {} /\ {"mysql", "mariadb"} \cap MongoSchemes = {}
  BY DEF PostgresSchemes, MongoSchemes
<1>11. CASE FromUrl(url) = "unsupported" /\ \A i \in 1 .. 34 : ~Matches(Rules[i], url)
  BY <1>2, <1>3, <1>7, <1>11
<1>12. ASSUME NEW first \in 1 .. 34, Matches(Rules[first], url), FromUrl(url) = Rules[first].type,
              \A i \in 1 .. 34 : i < first => ~Matches(Rules[i], url)
       PROVE  /\ url.scheme \in PostgresSchemes => CollectorOf(FromUrl(url)) = "postgres"
              /\ CollectorOf(FromUrl(url)) = "mongodb" <=> url.scheme \in MongoSchemes
              /\ CollectorOf(FromUrl(url)) = "postgres" =>
                   url.scheme \in PostgresSchemes \/ "redshift.amazonaws.com" \in url.marks
  <2>1. CASE first \in 1 .. 5
    BY <1>1, <1>6, <1>10, <1>12, <2>1
  <2>2. url.scheme \in PostgresSchemes => first \in 1 .. 5
    BY <1>2, <1>12
  <2>3. url.scheme \in MongoSchemes => first <= 8
    BY <1>3, <1>12
  <2>4. CASE first = 8
    BY <1>3, <1>7, <1>10, <1>12, <2>4
  <2>5. CASE first = 20
    BY <1>5, <1>8, <1>12, <2>2, <2>3, <2>5
  <2>6. CASE first \in 6 .. 7
    BY <1>4, <1>9, <1>10, <1>12, <2>2, <2>6
  <2>7. CASE first \in 9 .. 34 /\ first # 20
    BY <1>9, <1>12, <2>2, <2>3, <2>7
  <2> QED BY <2>1, <2>4, <2>5, <2>6, <2>7
<1> QED BY <1>11, <1>12, FirstRule

(* The collector is the one of the Config's URL. *)
ChoiceInv ==
    /\ at \in {"start", "expand", "parse"} => config = None
    /\ at = "done" /\ config # None /\ Defect(config) = "none" =>
          outcome = CollectorOf(FromUrl(UrlOf(config.url)))

LEMMA NextChoiceInv == ChoiceInv /\ [Next]_vars => ChoiceInv'
<1> SUFFICES ASSUME ChoiceInv, [Next]_vars PROVE ChoiceInv'
  OBVIOUS
<1>1. CASE \E ok \in BOOLEAN : ReadFile(ok)
  BY <1>1 DEF ReadFile, Refuse, ChoiceInv
<1>2. CASE Expand
  BY <1>2 DEF Expand, ChoiceInv
<1>3. CASE EndExpand
  BY <1>3 DEF EndExpand, ChoiceInv
<1>4. CASE \E nothingIsString \in BOOLEAN : Parse(nothingIsString)
  BY <1>4 DEF Parse, Refuse, ChoiceInv
<1>5. CASE ReadEnvironment
  BY <1>5 DEF ReadEnvironment, Refuse, ChoiceInv
<1>6. CASE Validate
  <2>1. /\ config' = config
        /\ \/ at' = "create"
           \/ at' = "done" /\ Defect(config) # "none"
    BY <1>6 DEF Validate, Refuse
  <2> QED BY <2>1, Zenon DEF ChoiceInv
<1>7. CASE CreateCollector
  BY <1>7 DEF CreateCollector, Refuse, ChoiceInv
<1>8. CASE UNCHANGED vars
  BY <1>8 DEF vars, ChoiceInv
<1> QED BY <1>1, <1>2, <1>3, <1>4, <1>5, <1>6, <1>7, <1>8 DEF Next

-----------------------------------------------------------------------------
(* Theorems.                                                               *)

(* from_file, from_env, validate and create_collector: for any text in any    *)
(* field, references, signs of YAML's and all, what is loaded is what the     *)
(* source says, not blank and of a known type; and what is refused has        *)
(* something wrong that the error names, which ordinary text never is.        *)
THEOREM OutcomesAlwaysTrue == Spec => []OutcomesAreTrue
<1>1. IInv => OutcomesAreTrue
  BY DEF IInv
<1> QED BY <1>1, AlwaysIInv, PTL

(* parse_duration_secs and the file's integer: for every word the interval is  *)
(* what was asked for, the default, or, beyond the word, a shorter one.       *)
THEOREM IntervalAlwaysAsAsked == Spec => []IntervalAsAsked
<1>1. IInv => IntervalAsAsked
  BY DEF IInv, PlaceInv, IntervalAsAsked, Loaded, FromInput, RightInterval
<1> QED BY <1>1, AlwaysIInv, PTL

(* from_file and from_env: every reachable state is well typed, and a Config  *)
(* has an interval of a machine word, whatever was asked for.                *)
THEOREM ConfigTypeCorrect == Spec => []TypeOK
<1>1. TextInv => TypeOK
  BY DEF TextInv
<1> QED BY <1>1, AlwaysTextInv, PTL

(* expand_env_vars: for any document and any variables, references within the *)
(* values included, one replacement after another makes of the document what  *)
(* its references mean, and where the values hold none, all at once.          *)
THEOREM FileAlwaysMeansItsValues == Spec => []FileMeansItsValues
<1>1. ASSUME TextInv PROVE FileMeansItsValues
  <2> SUFFICES ASSUME at = "parse", NEW f \in Fields, input.file[f] # None
               PROVE  /\ text[f] = Substituted(input.file[f], Meanings(Refs)[Len(Refs)])
                      /\ Plain => text[f] = AtOnce(input.file[f])
    BY Zenon DEF FileMeansItsValues, Refs
  <2>1. text[f] = Substituted(input.file[f], Meaning(Len(Refs))) /\ input \in Input
    BY <1>1 DEF TextInv, TypeOK
  <2>2. input.file \in [Fields -> Texts \cup {None}] /\ input.env \in Values
        /\ Refs \in Seq(Variables) /\ input.file[f] \in Texts
    BY <2>1, RefsFacts
  <2>3. \A i \in 1 .. Len(input.file[f]) : IsReference(input.file[f][i]) =>
           \E k \in 1 .. Len(Refs) : Refs[k] = input.file[f][i].reference
    BY <2>2, DocumentFacts DEF Refs
  <2>4. Plain => Substituted(input.file[f], Meanings(Refs)[Len(Refs)]) = AtOnce(input.file[f])
    BY <2>2, <2>3, PlainMeanings
  <2> QED BY <2>1, <2>4 DEF Meaning
<1> QED BY <1>1, AlwaysTextInv, PTL

(* from_url and create_collector: for any URL, wherever the names of other    *)
(* products turn up in it, the scheme decides which collector connects, but   *)
(* for the address of Redshift.                                              *)
THEOREM CollectorAlwaysFollowsScheme == Spec => []CollectorFollowsScheme
<1>1. Init => ChoiceInv
  BY DEF Init, ChoiceInv
<1>2. ChoiceInv => CollectorFollowsScheme
  <2> SUFFICES ASSUME ChoiceInv, at = "done", config # None, Defect(config) = "none",
                      NEW url, url = UrlOf(config.url)
               PROVE  /\ url.scheme \in PostgresSchemes => outcome = "postgres"
                      /\ outcome = "mongodb" <=> url.scheme \in MongoSchemes
                      /\ outcome = "postgres" =>
                           url.scheme \in PostgresSchemes \/ "redshift.amazonaws.com" \in url.marks
    BY DEF CollectorFollowsScheme
  <2>1. outcome = CollectorOf(FromUrl(url))
    BY DEF ChoiceInv
  <2> QED BY <2>1, CollectorOfUrl, Zenon
<1> QED BY <1>1, <1>2, NextChoiceInv, PTL DEF Spec
=============================================================================
