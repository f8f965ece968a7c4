------------------------------ MODULE ConfigMC ------------------------------
(***************************************************************************)
(* Config on families of inputs: URLs with every scheme and up to two      *)
(* marks; files and environments that are complete, blank or not there;     *)
(* values that hold references, and values that hold signs of YAML's, in    *)
(* quotes and without; and intervals around every limit.                    *)
(***************************************************************************)
EXTENDS Config

MCPieces == {"", "url", "key", "secret", "endpoint", "default", "blank"} \cup Signs
Piece(p) == [reference |-> "none", piece |-> p, scheme |-> "", marks |-> {}]
Ref(f) == [reference |-> VarOf[f], piece |-> "", scheme |-> "", marks |-> {}]
Url(s, m) == [reference |-> "none", piece |-> "url", scheme |-> s, marks |-> m]

MCSchemes == UNION {Rules[i].starts : i \in DOMAIN Rules} \cup {"http"}
MCMarks == UNION {Rules[i].besides \cup Rules[i].contains : i \in DOMAIN Rules}
SweptUrls == {Url(s, {}) : s \in MCSchemes} \cup {Url(s, {m}) : s \in MCSchemes, m \in MCMarks}
             \cup {Url(s, {m, "elastic"}) : s \in {"postgres", "https", "http"}, m \in MCMarks}

Key == Piece("key")
Secret == Piece("secret")
Endpoint == Piece("endpoint")
Default == Piece("default")
Blank == Piece("blank")
Quote == Piece("quote")
Quoted == <<Quote, Blank, Quote>>
Database == Url("postgres", {})

MCDefaultEndpoint == <<Default>>

Number(n, s) == [given |-> "number", count |-> n, suffix |-> s]
NoInterval == [given |-> "nothing", count |-> 0, suffix |-> "none"]
Garbled == [given |-> "other", count |-> 0, suffix |-> "none"]
MCIntervals == {NoInterval, Garbled} \cup
    {Number(n, s) : n \in {0, 1, 9, 10, 27, 28, 1666, 1667, Word - 1, Word}, s \in DOMAIN Seconds}

Environment(key, secret, endpoint, url) ==
    [v \in Variables |-> CASE v = VarOf["key"] -> key [] v = VarOf["secret"] -> secret
                           [] v = VarOf["endpoint"] -> endpoint [] v = VarOf["url"] -> url]
File(key, secret, endpoint, url) ==
    [f \in Fields |-> CASE f = "key" -> key [] f = "secret" -> secret
                        [] f = "endpoint" -> endpoint [] f = "url" -> url]

GoodEnv == Environment(<<Key>>, <<Secret>>, <<Endpoint>>, <<Database>>)
AllReferences == File(<<Ref("key")>>, <<Ref("secret")>>, <<Ref("endpoint")>>, <<Ref("url")>>)

In(s, env, file, w) == [source |-> s, env |-> env, file |-> file, interval |-> w, others |-> "typed"]
Sources == {"file", "env"}

Sweep == {In("env", [GoodEnv EXCEPT !["DATABASE_URL"] = <<u>>], AllReferences, NoInterval) : u \in SweptUrls}

Intervals == {In(s, GoodEnv, AllReferences, w) : s \in Sources, w \in MCIntervals}

Incomplete ==
    {In(s, Environment(k, p, e, <<Database>>), file, Number(5, "m")) :
        s \in Sources,
        k \in {None, <<>>, <<Blank>>, <<Key>>}, p \in {None, <<Blank>>, Quoted, <<Secret>>},
        e \in {None, <<Blank>>, Quoted, <<Endpoint>>},
        file \in {AllReferences, [AllReferences EXCEPT !["endpoint"] = None],
                  [AllReferences EXCEPT !["secret"] = None]}}

Nested == {In("file", Environment(k, s, <<Endpoint>>, <<Database>>), file, NoInterval) :
    k \in {None, <<Key>>, <<Ref("secret")>>, <<Key, Ref("key")>>, <<Ref("url"), Ref("secret")>>},
    s \in {None, <<Secret>>, Quoted, <<Ref("key"), Secret>>, <<Ref("endpoint")>>},
    file \in {AllReferences,
              File(<<Key, Ref("secret")>>, <<Ref("secret"), Ref("secret")>>, None, <<Ref("url")>>),
              File(<<Ref("key")>>, Quoted, <<Ref("key")>>, <<Ref("url"), Ref("secret")>>),
              File(<<Ref("secret")>>, <<Ref("key")>>, <<Endpoint>>, <<Database, Ref("key")>>)}}

BadUrls == {In(s, [GoodEnv EXCEPT !["DATABASE_URL"] = u], AllReferences, NoInterval) :
    s \in Sources, u \in {None, <<>>, <<Blank>>, <<Key>>}}

(* Secrets and URLs with a sign at the start, in the middle or at the end,    *)
(* and files that put the references in quotes, or a comment after them.      *)
Signed == {In(s, Environment(<<Key>>, secret, <<Endpoint>>, url), file, NoInterval) :
    s \in Sources,
    secret \in {<<Secret>>, <<Blank, Secret>>} \cup
        UNION {{<<x>>, <<x, Secret>>, <<Secret, x, Secret>>, <<Secret, Blank, x>>,
                <<x, Blank, x, Secret>>} : x \in {Piece(sign) : sign \in Signs}},
    url \in {<<Database>>, <<Blank, Database, Blank, Piece("hash")>>},
    file \in {AllReferences,
              [AllReferences EXCEPT !["secret"] = <<Quote, Ref("secret"), Quote>>],
              [AllReferences EXCEPT !["secret"] =
                  <<Piece("anchor"), Quote, Secret, Quote, Blank, Piece("hash"), Ref("secret")>>]}}

Mistyped == {[In(s, GoodEnv, AllReferences, NoInterval) EXCEPT !.others = "mistyped"] : s \in Sources}

MCInputs == Sweep \cup BadUrls \cup Intervals \cup Incomplete \cup Nested \cup Signed \cup Mistyped

=============================================================================
