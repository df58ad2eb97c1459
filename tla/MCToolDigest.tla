---- MODULE MCToolDigest ----
(* Two builds of one release that replace each other any number of times;  *)
(* two processes, each started again and again. *)
EXTENDS ToolDigest, TLC

CONSTANTS p1, p2

Stamps == [b1 |-> "t1", b2 |-> "t2"]
OneRelease == [b1 |-> "v1", b2 |-> "v1"]
Symmetry == Permutations({p1, p2})
====
