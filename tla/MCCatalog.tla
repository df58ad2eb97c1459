---- MODULE MCCatalog ----
(* Small instances of Catalog for TLC. *)
EXTENDS Catalog

T(s, n) == [schema |-> s, name |-> n]

MyEnumName(table, col) == table \o "_" \o col

(* MySQL: two tables of two columns that may be enums. *)
MySQL == [engine |-> "mysql", schemas |-> {"public"}, droppable |-> {},
          tables |-> {"t", "u"}, columns |-> {"a", "b"}, colTypes |-> {T("", "int")},
          types |-> {}, newTypes |-> {}, labels |-> {"x"}, like |-> FALSE, notNulls |-> {FALSE},
          maxSchemas |-> 1, maxTypes |-> 3, maxStmtCols |-> 1, maxCols |-> 2]

(* PostgreSQL: two tables in two schemas, INHERITS and LIKE. *)
Tables == [engine |-> "postgresql", schemas |-> {"public", "s"}, droppable |-> {"s"},
           tables |-> {"t", "u"}, columns |-> {"a"}, colTypes |-> {T("", "int")},
           types |-> {}, newTypes |-> {}, labels |-> {}, like |-> TRUE, notNulls |-> BOOLEAN,
           maxSchemas |-> 2, maxTypes |-> 4, maxStmtCols |-> 1, maxCols |-> 1]

(* PostgreSQL: enums and composite types in two schemas, beside a table of *)
(* a type's name. *)
Types == [engine |-> "postgresql", schemas |-> {"public", "s"}, droppable |-> {},
          tables |-> {"feel"}, columns |-> {"a"}, colTypes |-> {T("", "mood")},
          types |-> {T("", "mood"), T("s", "mood")}, newTypes |-> {"feel"},
          labels |-> {"x"}, like |-> FALSE, notNulls |-> {FALSE},
          maxSchemas |-> 2, maxTypes |-> 2, maxStmtCols |-> 1, maxCols |-> 1]

AllLangs == {MySQL, Tables, Types}
====
