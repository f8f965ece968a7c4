------------------------------- MODULE Config -------------------------------
(***************************************************************************)
(* How a configuration comes about: from_file and from_env of               *)
(* src/src/config/mod.rs, with the expansion of variables one reference at  *)
(* a time, what YAML reads in the expanded text and the validation both     *)
(* share, up to the collector that create_collector makes of the URL.  A    *)
(* text is a sequence of tokens: a reference ${VAR}, or a piece of text     *)
(* that is told apart from others.  The file is what stands behind its keys, *)
(* in the order of the document, each value on a line of its own: line      *)
(* breaks, single quotes and backslashes in values are left out.            *)
(***************************************************************************)
EXTENDS Integers, DatabaseType

CONSTANTS
    Inputs,          \* the inputs a process may find: see Input
    Pieces,          \* the pieces of text that are told apart
    Word,            \* 2^64: what an integer of the configuration stays below
    MinInterval,     \* validate: the shortest interval it accepts
    DefaultInterval,
    DefaultEndpoint, \* a text
    None             \* an unset variable, a missing key

VARIABLES
    input,     \* what the process finds
    at,        \* "start", "expand", "parse", "validate", "create", "done"
    text,      \* from_file: the document as far as it is expanded
    captures,  \* from_file: the references of the document still to replace
    config,    \* the Config that was built, or None
    outcome    \* "none", the error, or the collector that was chosen

vars == <<input, at, text, captures, config, outcome>>

Required == {"key", "secret", "url"}
FieldOrder == <<"key", "secret", "endpoint", "url">>
Fields == Range(FieldOrder)

(* The variable of the environment for each field. *)
VarOf == [key |-> "DATAPACE_API_KEY", secret |-> "DATAPACE_SIGNING_SECRET",
          endpoint |-> "DATAPACE_ENDPOINT", url |-> "DATABASE_URL"]
Variables == Range(VarOf)

(* What YAML gives a meaning of its own: a #, which begins a comment where    *)
(* white space or nothing is before it; a double quote; a colon with white    *)
(* space or nothing after it; a sign that no plain scalar begins with (@ ` %  *)
(* * [ { | > ...); an anchor or tag (&a !a), up to the white space after it.  *)
Signs == {"hash", "quote", "colon", "indicator", "anchor"}

(* A token is a reference, or the piece `piece' (among them "blank": white    *)
(* space, and the signs), a URL's scheme, or a URL's mark.                    *)
Token == [reference : Variables \cup {"none"}, piece : Pieces, scheme : STRING, marks : SUBSET STRING]
Texts == Seq(Token)

(* An interval as it is written: nothing, something else, or a number with    *)
(* its suffix.                                                               *)
Seconds == [none |-> 1, s |-> 1, m |-> 60, h |-> 3600]
Written == [given : {"nothing", "other", "number"}, count : Nat, suffix : DOMAIN Seconds]

(* What the file says for all its other keys is of their types, or is not: a   *)
(* provider, database type, metric, log level or format that serde does not   *)
(* know, a number that is none or too large.                                 *)
Input == [source : {"file", "env"}, env : [Variables -> Texts \cup {None}],
          file : [Fields -> Texts \cup {None}], interval : Written,
          others : {"typed", "mistyped"}]

Configs == [key : Texts, secret : Texts, endpoint : Texts, url : Texts, interval : 0 .. Word - 1]

Errors == {"unreadable", "unparsable", "missing", "no secret", "invalid", "unsupported"}
Collectors == {"postgres", "mongodb"}

ASSUME ConfigAssumption ==
    /\ Inputs \subseteq Input
    /\ Word \in Nat /\ MinInterval \in Nat /\ DefaultInterval \in 0 .. Word - 1
    /\ DefaultEndpoint \in Texts /\ None \notin Texts

TypeOK ==
    /\ input \in Input
    /\ at \in {"start", "expand", "parse", "validate", "create", "done"}
    /\ \A f \in Fields : text[f] = None \/ text[f] \in Texts
    /\ captures \in Seq(Variables)
    /\ config = None \/ config \in Configs
    /\ outcome \in {"none"} \cup Errors \cup Collectors

-----------------------------------------------------------------------------
(* Texts.                                                                  *)

IsReference(token) == token.reference # "none"

IsBlank(t) == \A i \in DOMAIN t : t[i].piece = "blank"

(* As from_url sees a URL: what it starts with, and what is in it anywhere. *)
UrlOf(t) ==
    [scheme |-> IF t = <<>> THEN "" ELSE t[1].scheme,
     marks |-> UNION {t[i].marks : i \in DOMAIN t}]

(* The references of a text, from left to right. *)
References(t) ==
    FlattenSeq([i \in DOMAIN t |-> IF IsReference(t[i]) THEN <<t[i].reference>> ELSE <<>>])

(* Every occurrence of ${var} gives way to the value. *)
Replaced(t, var, value) ==
    FlattenSeq([i \in DOMAIN t |-> IF t[i].reference = var THEN value ELSE <<t[i]>>])

-----------------------------------------------------------------------------
(* Decisions of the code, with the wrong variants the properties are tried on. *)

(* expand_env_vars: the references are those of the document as it was read,  *)
(* taken in its order.  The variant goes from the last to the first.         *)
Captures_Backwards(doc) ==
    Reverse(FlattenSeq([i \in DOMAIN FieldOrder |->
        IF doc[FieldOrder[i]] = None THEN <<>> ELSE References(doc[FieldOrder[i]])]))
Captures(doc) ==
    FlattenSeq([i \in DOMAIN FieldOrder |->
        IF doc[FieldOrder[i]] = None THEN <<>> ELSE References(doc[FieldOrder[i]])])

(* It replaces in what the replacements before have left.  The variant starts *)
(* from the document each time.                                              *)
ReplacesIn_Document == input.file
ReplacesIn == text

(* parse_duration_secs, in the machine's words; what cannot be read takes the *)
(* default.  The variants do not bring the product back into a word, and take *)
(* hours for minutes.                                                        *)
FromDuration_Unbounded(w) ==
    IF w.given = "number" /\ w.count < Word THEN w.count * Seconds[w.suffix] ELSE DefaultInterval
FromDuration_HoursAsMinutes(w) ==
    IF w.given = "number" /\ w.count < Word
    THEN (w.count * (IF w.suffix = "h" THEN 60 ELSE Seconds[w.suffix])) % Word
    ELSE DefaultInterval
FromDuration(w) ==
    IF w.given = "number" /\ w.count < Word
    THEN (w.count * Seconds[w.suffix]) % Word
    ELSE DefaultInterval

(* interval_secs of the file is a plain integer, or absent. *)
IsInteger(w) == w.given = "number" /\ w.suffix = "none" /\ w.count < Word
FromYaml(w) == IF w.given = "nothing" THEN DefaultInterval ELSE w.count

(* from_env: what it refuses before there is a Config.  The variant tells a   *)
(* secret of white space from an absent one.                                 *)
EnvDefect_Untrimmed(env) ==
    IF env["DATAPACE_API_KEY"] = None \/ env["DATABASE_URL"] = None THEN "missing"
    ELSE IF env["DATAPACE_SIGNING_SECRET"] = None THEN "missing"
    ELSE "none"
EnvDefect(env) ==
    IF env["DATAPACE_API_KEY"] = None \/ env["DATABASE_URL"] = None THEN "missing"
    ELSE IF env["DATAPACE_SIGNING_SECRET"] = None \/ IsBlank(env["DATAPACE_SIGNING_SECRET"])
    THEN "no secret"
    ELSE "none"

(* serde_yaml, on a value of the expanded text: what stands before the first   *)
(* of some places, and from the first that is not white space.               *)
Before(t, places) == IF places = {} THEN t ELSE SubSeq(t, 1, Min(places) - 1)
Unindented(t) ==
    LET places == {i \in DOMAIN t : t[i].piece # "blank"}
    IN  IF places = {} THEN <<>> ELSE SubSeq(t, Min(places), Len(t))
Places(t, sign) == {i \in DOMAIN t : t[i].piece = sign}
Comments(t) == {i \in Places(t, "hash") : i = 1 \/ t[i - 1].piece = "blank"}
Begins(t, sign) == t # <<>> /\ t[1].piece = sign

(* The value's node, without the anchor or tag it may have. *)
Node(t) ==
    IF Begins(Unindented(t), "anchor") THEN Unindented(Tail(Unindented(t))) ELSE Unindented(t)

(* A quoted scalar ends with the next quote, a plain one with its line or a   *)
(* comment.                                                                  *)
Scalar(t) ==
    IF Begins(Node(t), "quote") THEN Before(Tail(Node(t)), Places(Tail(Node(t)), "quote"))
    ELSE Before(Node(t), Comments(Node(t)))

(* A quote must be closed, with nothing after it (one that is not runs on into *)
(* the next lines, where YAML finds it at fault); a plain scalar begins with  *)
(* no indicator and no second anchor, and holds no colon.                    *)
IsScalar(t) ==
    IF Begins(Node(t), "quote")
    THEN \E i \in Places(Tail(Node(t)), "quote") :
            LET rest == SubSeq(Tail(Node(t)), i + 1, Len(Tail(Node(t))))
            IN  Len(Scalar(t)) = i - 1 /\ IsBlank(Before(rest, Comments(rest)))
    ELSE /\ ~Begins(Scalar(t), "indicator") /\ ~Begins(Scalar(t), "anchor")
         /\ Places(Scalar(t), "colon") = {}

IsNothing(t) == ~Begins(Node(t), "quote") /\ Scalar(t) = <<>>

(* validate, in its order.  The variant takes what is not empty for a secret. *)
Defect_Untrimmed(c) ==
    IF IsBlank(c.key) THEN "invalid"
    ELSE IF c.secret = <<>> THEN "no secret"
    ELSE IF c.url = <<>> THEN "invalid"
    ELSE IF FromUrl(UrlOf(c.url)) = "unsupported" THEN "unsupported"
    ELSE IF c.interval < MinInterval THEN "invalid"
    ELSE "none"
Defect(c) ==
    IF IsBlank(c.key) THEN "invalid"
    ELSE IF IsBlank(c.secret) THEN "no secret"
    ELSE IF c.url = <<>> THEN "invalid"
    ELSE IF FromUrl(UrlOf(c.url)) = "unsupported" THEN "unsupported"
    ELSE IF c.interval < MinInterval THEN "invalid"
    ELSE "none"

-----------------------------------------------------------------------------
Init ==
    /\ input \in Inputs
    /\ at = "start"
    /\ text = input.file
    /\ captures = <<>>
    /\ config = None
    /\ outcome = "none"

Refuse(error) == at' = "done" /\ outcome' = error

(* from_file: the file is read; the references are looked for once. *)
ReadFile(ok) ==
    /\ at = "start" /\ input.source = "file"
    /\ IF ok
       THEN at' = "expand" /\ captures' = Captures(input.file) /\ UNCHANGED outcome
       ELSE Refuse("unreadable") /\ UNCHANGED captures
    /\ UNCHANGED <<input, text, config>>

(* expand_env_vars: one round of its loop; an unset variable's reference stays. *)
Expand ==
    LET var == Head(captures) IN
    /\ at = "expand" /\ captures # <<>>
    /\ captures' = Tail(captures)
    /\ text' = IF input.env[var] = None THEN text
               ELSE [f \in Fields |-> IF ReplacesIn[f] = None THEN None
                                      ELSE Replaced(ReplacesIn[f], var, input.env[var])]
    /\ UNCHANGED <<input, at, config, outcome>>

EndExpand ==
    /\ at = "expand" /\ captures = <<>>
    /\ at' = "parse"
    /\ UNCHANGED <<input, text, captures, config, outcome>>

(* serde_yaml reads what the expansion has made of the document: a value that  *)
(* is no scalar, or a setting of another type, is an error; so is a missing   *)
(* key that has no default; an empty scalar is none or the empty string, as   *)
(* the library has it.                                                       *)
Parse(nothingIsString) ==
    LET absent == {f \in Fields : text[f] = None}
        parses == /\ Required \cap absent = {}
                  /\ \A f \in Fields \ absent :
                        IsScalar(text[f]) /\ (nothingIsString \/ ~IsNothing(text[f]))
                  /\ input.interval.given = "nothing" \/ IsInteger(input.interval)
                  /\ input.others = "typed"
    IN
    /\ at = "parse"
    /\ IF parses
       THEN /\ config' = [key |-> Scalar(text["key"]), secret |-> Scalar(text["secret"]),
                          endpoint |-> IF "endpoint" \in absent THEN DefaultEndpoint
                                       ELSE Scalar(text["endpoint"]),
                          url |-> Scalar(text["url"]), interval |-> FromYaml(input.interval)]
            /\ at' = "validate"
            /\ UNCHANGED outcome
       ELSE Refuse("unparsable") /\ UNCHANGED config
    /\ UNCHANGED <<input, text, captures>>

(* from_env, up to the Config. *)
ReadEnvironment ==
    LET env == input.env
        endpoint == env["DATAPACE_ENDPOINT"]
    IN
    /\ at = "start" /\ input.source = "env"
    /\ IF EnvDefect(env) = "none"
       THEN /\ config' = [key |-> env["DATAPACE_API_KEY"], secret |-> env["DATAPACE_SIGNING_SECRET"],
                          endpoint |-> IF endpoint = None \/ IsBlank(endpoint)
                                       THEN DefaultEndpoint ELSE endpoint,
                          url |-> env["DATABASE_URL"], interval |-> FromDuration(input.interval)]
            /\ at' = "validate"
            /\ UNCHANGED outcome
       ELSE Refuse(EnvDefect(env)) /\ UNCHANGED config
    /\ UNCHANGED <<input, text, captures>>

Validate ==
    /\ at = "validate"
    /\ IF Defect(config) = "none"
       THEN at' = "create" /\ UNCHANGED outcome
       ELSE Refuse(Defect(config))
    /\ UNCHANGED <<input, text, captures, config>>

(* create_collector detects the type again, and knows collectors for some. *)
CreateCollector ==
    /\ at = "create"
    /\ Refuse(CollectorOf(FromUrl(UrlOf(config.url))))
    /\ UNCHANGED <<input, text, captures, config>>

Next ==
    \/ \E ok \in BOOLEAN : ReadFile(ok)
    \/ Expand \/ EndExpand
    \/ \E nothingIsString \in BOOLEAN : Parse(nothingIsString)
    \/ ReadEnvironment
    \/ Validate
    \/ CreateCollector

Spec == Init /\ [][Next]_vars

-----------------------------------------------------------------------------
(* Properties.                                                             *)

Loaded == at = "create" \/ outcome \in Collectors

(* The values of the variables that are set hold no references themselves. *)
Plain == \A v \in Variables :
            input.env[v] # None => \A i \in DOMAIN input.env[v] : ~IsReference(input.env[v][i])

(* A text in which each reference that has a value stands for it. *)
Substituted(t, values) ==
    FlattenSeq([i \in DOMAIN t |->
        IF IsReference(t[i]) /\ values[t[i].reference] # None
        THEN values[t[i].reference] ELSE <<t[i]>>])

AtOnce(t) == Substituted(t, input.env)

(* What the variables come to when only the last k of the references are      *)
(* replaced: the first of those stands for its variable's value, in which     *)
(* only what is replaced later is still replaced.                            *)
Meanings(refs) ==
    LET meaning[k \in 0 .. Len(refs)] ==
            IF k = 0 THEN [v \in Variables |-> None]
            ELSE LET var == refs[Len(refs) - k + 1] IN
                 IF input.env[var] = None THEN meaning[k - 1]
                 ELSE [meaning[k - 1] EXCEPT ![var] = Substituted(input.env[var], meaning[k - 1])]
    IN meaning

AllText(doc) ==
    FlattenSeq([i \in DOMAIN FieldOrder |->
        IF doc[FieldOrder[i]] = None THEN <<>> ELSE doc[FieldOrder[i]]])

(* A reference of the file stands for its variable's value, wherever it is,    *)
(* as if all were replaced at once.  Only when a value holds references of its *)
(* own, say a password with ${...} in it, does the order matter, and then it  *)
(* is the document's: the references that come later reach into the value,    *)
(* those before do not.                                                      *)
FileMeansItsValues ==
    at = "parse" =>
        LET refs == References(AllText(input.file)) IN
        \A f \in Fields : input.file[f] # None =>
            /\ text[f] = Substituted(input.file[f], Meanings(refs)[Len(refs)])
            /\ Plain => text[f] = AtOnce(input.file[f])

(* The interval is the one that was asked for, in seconds; one that cannot be  *)
(* read gives way to the default, and one beyond a word to a shorter one.     *)
IntervalAsAsked ==
    Loaded =>
        LET w == input.interval
            asked == w.count * Seconds[w.suffix]
        IN IF w.given # "number" \/ w.count >= Word THEN config.interval = DefaultInterval
           ELSE IF asked < Word THEN config.interval = asked
           ELSE config.interval < asked

(* Text that YAML gives no meaning of its own. *)
Ordinary(t) == t # <<>> /\ \A i \in DOMAIN t : t[i].piece \notin Signs \cup {"blank"}

(* Nothing is lost or let through on the way, whichever way it came.  What is  *)
(* loaded has a key and a secret that are not blank, a URL of a type from_url *)
(* knows and an interval that is not too short, each what the source says: the *)
(* variable, or the value in the expanded file when it is ordinary text (a    *)
(* reference left standing is: see RefusesWithoutSecret).  And what is refused *)
(* has something wrong that the error names: no ordinary text in a file, and  *)
(* no endpoint, duration or other setting in the environment, is a reason.    *)
OutcomesAreTrue ==
    LET inFile == input.source = "file"
        Stands(f) == IF inFile THEN text[f] ELSE input.env[VarOf[f]]
        Missing(f) == Stands(f) = None
        Says(f) == IF inFile THEN Scalar(Stands(f)) ELSE Stands(f)
        Taken(f) == ~Missing(f) /\ (~inFile \/ Ordinary(Stands(f)))
    IN
    /\ Loaded =>
         /\ \A f \in Required : ~Missing(f) /\ (Taken(f) => config[f] = Stands(f))
         /\ ~IsBlank(config.key) /\ ~IsBlank(config.secret)
         /\ FromUrl(UrlOf(config.url)) # "unsupported"
         /\ config.interval >= MinInterval
         /\ inFile => input.others = "typed" /\ IsScalar(text["secret"])
    /\ outcome = "unparsable" =>
         /\ inFile
         /\ \/ \E f \in Required : Missing(f)
            \/ \E f \in Fields : ~Missing(f) /\ ~Taken(f)
            \/ input.interval.given # "nothing" /\ ~IsInteger(input.interval)
            \/ input.others = "mistyped"
    /\ outcome = "missing" => ~inFile /\ (Missing("key") \/ Missing("url"))
    /\ outcome = "no secret" => Missing("secret") \/ IsBlank(Says("secret"))
    /\ outcome = "invalid" =>
         \/ ~Missing("key") /\ IsBlank(Says("key"))
         \/ ~Missing("url") /\ Says("url") = <<>>
         \/ config.interval < MinInterval
    /\ outcome = "unsupported" => CollectorOf(FromUrl(UrlOf(Says("url")))) = "unsupported"

(* The scheme decides which collector connects: whatever the host, the user   *)
(* or the database is called, a PostgreSQL or MongoDB URL gets its own, and    *)
(* no other URL gets one but Redshift's address, which does under any scheme.  *)
CollectorFollowsScheme ==
    at = "done" /\ config # None /\ Defect(config) = "none" =>
        LET url == UrlOf(config.url) IN
        /\ url.scheme \in PostgresSchemes => outcome = "postgres"
        /\ outcome = "mongodb" <=> url.scheme \in MongoSchemes
        /\ outcome = "postgres" =>
             url.scheme \in PostgresSchemes \/ "redshift.amazonaws.com" \in url.marks

(* docs/CONFIGURATION.md: without the signing secret the agent does not start. *)
RefusesWithoutSecret ==
    input.env["DATAPACE_SIGNING_SECRET"] = None /\ input.file["secret"] # None
    /\ References(input.file["secret"]) = <<"DATAPACE_SIGNING_SECRET">>
        => ~Loaded
=============================================================================
