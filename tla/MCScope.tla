---- MODULE MCScope ----
(* A small instance of Scope for TLC. *)
EXTENDS Scope

Col(name, notNull) == [name |-> name, notNull |-> notNull]
TwoTables == [t |-> <<Col("a", TRUE), Col("b", FALSE)>>, u |-> <<Col("b", TRUE), Col("a", FALSE)>>]
OneColumn == [t |-> <<Col("a", TRUE)>>, u |-> <<Col("a", FALSE)>>]
====
