---- MODULE MCManagedDB ----
(* Small instances of ManagedDB for TLC: two goroutines of one process that *)
(* share a pool cache, and one goroutine of another process.                *)
EXTENDS ManagedDB, TLC

TwoProcs == [c \in Callers |-> IF c = "c" THEN "p2" ELSE "p1"]
TwoClients == [c \in Callers |-> IF c = "c" THEN "k2" ELSE "k1"]
OneName == [c \in Callers |-> "n"]
====
