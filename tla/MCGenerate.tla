---- MODULE MCGenerate ----
(* Small instances of Generate for TLC. *)
EXTENDS Generate

A == <<"gen", "a.go">>
B == <<"gen", "b.go">>
C == <<"gen", "sub", "c.go">>
D == <<"out2", "d.go">>
M == <<"models", "models.go">>
Outside == <<"other", "u.go">>

(* Two of the pairs route the models file to one place.  The backend of    *)
(* the last may answer with a path outside its directory that is refused,  *)
(* and with one in a directory beside it that is not, out2 beside out.     *)
AllPaths == {A, B, C, D, M, Outside}
SharedModels == <<{{A}}, {{B, M}}, {{C, M}}, {{}, {D}, {D, Outside}}>>
Dirs == [i \in 1 .. 4 |-> [f \in AllPaths |->
            IF f = M THEN <<"models">> ELSE IF i = 4 THEN <<"out">> ELSE <<"gen">>]]

LongerNames == {<<"out2", "out">>}
====
