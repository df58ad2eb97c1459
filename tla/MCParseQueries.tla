---- MODULE MCParseQueries ----
(* Three statements, two of which may have one name, over a catalog with   *)
(* three queries. *)
EXTENDS ParseQueries

ThreeOutcomes == <<{"a"}, {"b", "skip", "error", "unauthenticated"}, {"a", "skip"}>>
ThreeLookups == <<<<"q">>, <<"q", "r">>, <<"r", "q">>>>
TwoSeeds == <<"q", "r", "q">>
OneChange == <<"d">>
====
