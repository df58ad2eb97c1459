---- MODULE MCCoreCatalog ----
(* Small instances of CoreCatalog for TLC. *)
EXTENDS CoreCatalog

Mood == Name("", "mood")
OtherMood == Name("s", "mood")
Array == Name("", "array")

TableT == {Name("public", "t")}
ViewV == {Name("public", "v")}
Def(name, expr, notNull) == [name |-> name, expr |-> expr, notNull |-> notNull]
ArrayDefs == {Def("a", <<Array, Array, Mood>>, TRUE), Def("b", <<Array, OtherMood>>, TRUE)}
JustArray == {<<Array, OtherMood>>}
JustMood == {Mood}
Citext == [citext |-> Name("", "mood")]
SeedArray == <<"array">>
====
