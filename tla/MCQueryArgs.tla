---- MODULE MCQueryArgs ----
(* The dialects, with the generated code's templates and the analysis paths *)
(* each of them has. *)
EXTENDS QueryArgs

Templates == [postgresql |-> {"pgx", "stdlib"}, duckdb |-> {"duckdb"}, mysql |-> {"stdlib"},
              clickhouse |-> {"stdlib"}, sqlite |-> {"stdlib"}]
Paths == [postgresql |-> {"legacy", "core"}, duckdb |-> {"core"}, mysql |-> {"legacy", "core"},
          clickhouse |-> {"core"}, sqlite |-> {"legacy", "core"}]
====
