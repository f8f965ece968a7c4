---------------------------- MODULE DatabaseType ----------------------------
(***************************************************************************)
(* DatabaseType::from_url of src/src/config/mod.rs and the factory of       *)
(* src/src/collector/mod.rs that acts on it.  A URL is its scheme and the   *)
(* marks the code looks for anywhere in it: a mark may be of the host, but  *)
(* as well of the database's name, the user's or the options.               *)
(***************************************************************************)
EXTENDS SequencesExt

PostgresSchemes == {"postgres", "postgresql"}
MongoSchemes == {"mongodb", "mongodb+srv"}

(* One `if' of from_url: the schemes it asks for, the marks it asks for       *)
(* besides (any of them; none if empty), the marks that do on their own.      *)
Rule(starts, besides, contains, type) ==
    [starts |-> starts, besides |-> besides, contains |-> contains, type |-> type]

PostgresRules == <<
    Rule(PostgresSchemes, {"timescale"}, {}, "timescaledb"),
    Rule(PostgresSchemes, {"cockroach"}, {}, "cockroachdb"),
    Rule(PostgresSchemes, {"yugabyte"}, {}, "yugabytedb"),
    Rule(PostgresSchemes, {"redshift.amazonaws.com", "redshift-serverless.amazonaws.com"}, {},
         "redshift"),
    Rule(PostgresSchemes, {}, {}, "postgres")>>

NativeRules == <<
    Rule({"mysql", "mariadb"}, {"tidb"}, {}, "tidb"),
    Rule({"mysql", "mariadb"}, {}, {}, "mysql"),
    Rule(MongoSchemes, {}, {}, "mongodb"),
    Rule({"sqlserver", "mssql"}, {}, {"database.windows.net"}, "sqlserver"),
    Rule({"oracle"}, {}, {"oraclecloud.com"}, "oracle"),
    Rule({"db2", "ibmdb"}, {}, {}, "db2"),
    Rule({"redis", "rediss"}, {}, {}, "redis"),
    Rule({"elasticsearch"}, {}, {}, "elasticsearch"),
    Rule({"https"}, {"elastic"}, {}, "elasticsearch"),
    Rule({"clickhouse"}, {}, {"clickhouse"}, "clickhouse"),
    Rule({}, {}, {"cosmos.azure.com", "cosmosdb"}, "cosmosdb"),
    Rule({"couchbase", "couchbases"}, {}, {}, "couchbase")>>

ServiceRules == <<
    Rule({}, {}, {"snowflakecomputing.com"}, "snowflake"),
    Rule({"bigquery"}, {}, {"bigquery.googleapis.com"}, "bigquery"),
    Rule({}, {}, {"redshift.amazonaws.com"}, "redshift"),
    Rule({}, {}, {"dynamodb"}, "dynamodb"),
    Rule({"influxdb"}, {}, {"influxdata"}, "influxdb"),
    Rule({}, {}, {"pinecone"}, "pinecone"),
    Rule({"milvus"}, {}, {"milvus"}, "milvus"),
    Rule({}, {}, {"weaviate"}, "weaviate"),
    Rule({}, {}, {"qdrant"}, "qdrant"),
    Rule({}, {}, {"chroma"}, "chroma"),
    Rule({"neo4j", "bolt"}, {}, {"neo4j"}, "neo4j"),
    Rule({}, {}, {"neptune.amazonaws.com"}, "neptune"),
    Rule({"arangodb"}, {}, {"arangodb"}, "arangodb"),
    Rule({}, {}, {"janusgraph"}, "janusgraph"),
    Rule({}, {}, {"tigergraph"}, "tigergraph"),
    Rule({}, {}, {"dgraph"}, "dgraph"),
    Rule({}, {}, {"memgraph"}, "memgraph")>>

(* The order in which from_url asks.  The variant asks for the services first. *)
Rules_ServicesFirst == ServiceRules \o PostgresRules \o NativeRules
Rules == PostgresRules \o NativeRules \o ServiceRules

Matches(rule, url) ==
    \/ /\ url.scheme \in rule.starts
       /\ rule.besides = {} \/ url.marks \cap rule.besides # {}
    \/ url.marks \cap rule.contains # {}

(* from_url: the type of the first rule that matches, or "unsupported". *)
FromUrl(url) ==
    LET first == SelectInSeq(Rules, LAMBDA rule : Matches(rule, url)) IN
    IF first = 0 THEN "unsupported" ELSE Rules[first].type

(* create_collector: which collector is made of the URL, if any. *)
CollectorOf(type) ==
    CASE type \in {"postgres", "timescaledb", "cockroachdb", "yugabytedb", "redshift",
                   "pgvector"} -> "postgres"
      [] type = "mongodb" -> "mongodb"
      [] OTHER -> "unsupported"
=============================================================================
