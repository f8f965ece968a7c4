------------------------- MODULE PostgresCollectorMC -------------------------
(***************************************************************************)
(* A database for PostgresCollector: two schemas with a table of the same    *)
(* name, whose primary keys PostgreSQL names alike too.                      *)
(***************************************************************************)
EXTENDS PostgresCollector

PublicUsers == <<"public", "users">>
AuditUsers == <<"audit", "users">>
UserTables == {PublicUsers, AuditUsers}

PrimaryKey(columns) == [name |-> "users_pkey", columns |-> columns, primary |-> TRUE]

(* A table gains a column; one was created after the role was granted its    *)
(* rights.                                                                   *)
UserShapes(table) ==
    IF table = PublicUsers
    THEN {[columns |-> <<"id">>, indexes |-> {PrimaryKey(<<"id">>)}, readable |-> TRUE],
          [columns |-> <<"id", "email">>, indexes |-> {PrimaryKey(<<"id">>)}, readable |-> TRUE]}
    ELSE {[columns |-> <<"at", "id">>, indexes |-> {PrimaryKey(<<"at", "id">>)}, readable |-> TRUE],
          [columns |-> <<"at", "id">>, indexes |-> {PrimaryKey(<<"at", "id">>)}, readable |-> FALSE]}
=============================================================================
