---- MODULE MCDiskCache ----
(* Small instances of DiskCache for TLC. *)
EXTENDS DiskCache, TLC

(* Two processes compile one plugin while a third restores a catalog, and  *)
(* all of them share a blob. *)
SharedOutputs == ("w" :> {"d"}) @@ ("c" :> {"d"})
SharedWork == ("p1" :> "w") @@ ("p2" :> "w") @@ ("p3" :> "c")
SharedKind == ("w" :> "compile") @@ ("c" :> "catalog")
====
