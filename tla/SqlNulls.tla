---- MODULE SqlNulls ----
(***************************************************************************)
(* What a database returns for the FROM clause and the expressions of a    *)
(* query, as far as NULL goes: the reference the analyzer's scope is       *)
(* checked against.  A slot is a column of a relation in FROM, by the      *)
(* relation's place and the column's place in it.  A row is the set of the *)
(* slots that are NULL in it, and an item of FROM is the columns it offers *)
(* and the rows it can put out, over every contents of the tables.  A      *)
(* column a join merged has the slots of both its copies and, as COALESCE  *)
(* of them, is NULL where all are.                                         *)
(***************************************************************************)
EXTENDS Naturals, Sequences, FiniteSets

IsNull(col, row) == col.slots \subseteq row
Slots(item) == UNION {c.slots : c \in item.cols}
Named(item, name) == {c \in item.cols : c.name = name}
NamesOf(item) == {c.name : c \in item.cols}

(* The relation in place i, with the given columns and possible rows,      *)
(* each the places of its NULL columns. *)
Relation(i, cols, rows) ==
    [cols |-> {[name |-> cols[k].name, slots |-> {<<i, k>>}] : k \in DOMAIN cols},
     rows |-> {{<<i, k>> : k \in row} : row \in rows}]

(* The rows a table may hold. *)
TableRows(cols) == SUBSET {k \in DOMAIN cols : ~cols[k].notNull}

(* The names a join merges have one column on each side. *)
CanMerge(L, R, names) ==
    \A n \in names : Cardinality(Named(L, n)) = 1 /\ Cardinality(Named(R, n)) = 1

(* A join that merges the named columns, and matches rows that agree on    *)
(* them; a NULL agrees with nothing.  An outer join keeps the rows without *)
(* a match, with NULL in every column of the other side. *)
JoinOf(L, R, kind, names) ==
    LET sided(n) == Named(L, n) \cup Named(R, n)
        merged == {[name |-> n, slots |-> UNION {c.slots : c \in sided(n)}] : n \in names}
        matches(l, r) == \A n \in names : \A c \in sided(n) : ~IsNull(c, l \cup r)
    IN [cols |-> merged \cup {c \in L.cols \cup R.cols : c.name \notin names},
        rows |-> {l \cup r : <<l, r>> \in {p \in L.rows \X R.rows : matches(p[1], p[2])}}
                 \cup (IF kind \in {"left", "full"} THEN {l \cup Slots(R) : l \in L.rows} ELSE {})
                 \cup (IF kind \in {"right", "full"} THEN {r \cup Slots(L) : r \in R.rows} ELSE {})]

(* The columns of names, of which there is one each, by grouping sets: in  *)
(* the rows of a set the others are NULL. *)
GroupedBy(item, names, sets) ==
    LET out(set) == UNION {c.slots : c \in {d \in item.cols : d.name \in names \ set}}
    IN [cols |-> {c \in item.cols : c.name \in names},
        rows |-> {row \cup out(set) : row \in item.rows, set \in sets}]
-----------------------------------------------------------------------------
(* Expressions, over values that are NULL or one of two others. *)
Null == "null"
Values(isNull) == IF isNull THEN {Null} ELSE {"no", "yes"}
Truth(b) == IF b THEN "yes" ELSE "no"

(* The value of an expression of the operands u and v; w is the condition  *)
(* of a CASE, the outcome of a cast or what a function or a division makes *)
(* of its arguments; an array has v for its one element. *)
And(u, v) == IF "no" \in {u, v} THEN "no" ELSE IF Null \in {u, v} THEN Null ELSE "yes"
Strict(u, v, value) == IF Null \in {u, v} THEN Null ELSE value
ValueOf(form, u, v, w) ==
    CASE form = "coalesce" -> IF u = Null THEN v ELSE u
      [] form = "operator" -> Strict(u, v, Truth(u = v))
      [] form = "between" -> And(Strict(u, v, Truth(u = v \/ u = "yes")),
                                 Strict(u, v, Truth(u = v \/ u = "no")))
      [] form = "and" -> And(u, v)
      [] form = "division" -> Strict(u, v, w)
      [] form = "any" -> Strict(u, v, Truth(u = v))
      [] form = "distinct" -> Truth(u # v)
      [] form = "nullif" -> IF u = v THEN Null ELSE u
      [] form = "case_else" -> IF w = "yes" THEN u ELSE v
      [] form = "case" -> IF w = "yes" THEN u ELSE Null
      [] form = "cast" -> u
      [] form = "try_cast" -> IF w = "yes" THEN u ELSE Null
      [] form = "strict" -> Strict(u, v, Truth(w = "yes"))
      [] form = "never_null" -> Truth(Null \in {u, v})
      [] form = "null_result" -> w

(* The rows of a query whose one column is x IN (query), a scalar query or *)
(* EXISTS (query); a query can have no row. *)
SubLinkRows(as, isNull, rows) ==
    CASE as = "in" -> {{}} \cup (IF TRUE \in isNull \/ {1} \in rows THEN {{1}} ELSE {})
      [] as = "scalar" -> {{}, {1}}
      [] as = "exists" -> {{}}

(* Whether it is NULL, in each way its operands can be, which are NULL as  *)
(* x and y say. *)
Forms == {"coalesce", "operator", "division", "between", "and", "any", "distinct", "nullif",
          "case_else", "case", "cast", "try_cast", "strict", "never_null", "null_result"}
NullOutcomes ==
    [form \in Forms, x, y \in BOOLEAN |->
        {ValueOf(form, u, v, w) = Null : u \in Values(x), v \in Values(y), w \in {"no", "yes", Null}}]
====
