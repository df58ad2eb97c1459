---- MODULE QueryArgs ----
(***************************************************************************)
(* From the placeholders of a preprocessed statement to the values the     *)
(* database binds to them: the compiler collects and orders the parameters *)
(* (internal/compiler), the Go code generator makes fields of them         *)
(* (internal/codegen/golang) and its templates expand slices and pass the  *)
(* fields as a list of arguments.  Which argument a placeholder takes is   *)
(* the database's rule.                                                    *)
(*                                                                         *)
(* A value is <<field, k>>: the k-th element of a slice, or with k = 0 the *)
(* whole of the field.                                                     *)
(***************************************************************************)
EXTENDS Preprocess

CONSTANTS
    Template,   \* for each engine, the templates its code may be generated with
    Path,       \* for each engine, how its queries may be analyzed
    ColumnNames,  \* columns that a parameter without a name is compared to
    MinLen, MaxLen   \* the shortest and the longest slice a caller passes

ASSUME QueryArgsAssumption ==
    /\ \A e \in Engines : Template[e] \subseteq {"stdlib", "pgx", "duckdb"}
    /\ \A e \in Engines : Path[e] \subseteq {"legacy", "core"}
    /\ MinLen \in Nat /\ MaxLen \in Nat

VARIABLE call    \* the call of the generated method, or <<>> before it

allVars == <<vars, call>>

----------------------------------------------------------------------------
(* The compiler. *)

NumbersOf(s) == {s.numbers[loc] : loc \in DOMAIN s.numbers}

(* uniqueParamRefs keeps, for each number, the reference the walk of the   *)
(* syntax tree meets first, which need not be the first of the text. *)
Kepts(s) == {f \in [NumbersOf(s) -> DOMAIN s.numbers] : \A n \in NumbersOf(s) : s.numbers[f[n]] = n}

(* Mutant: always by place. *)
ParamOrderByPlace(s, path, kept) == SetToSortSeq(NumbersOf(s), LAMBDA m, n : kept[m] < kept[n])

(* The order of the parameters: by number in the core, and otherwise by    *)
(* place for MySQL and where the user wrote "?". *)
ParamOrder(s, path, kept) ==
    IF path = "legacy" /\ (engine = "mysql" \/ ~s.dollar)
    THEN SetToSortSeq(NumbersOf(s), LAMBDA m, n : kept[m] < kept[n])
    ELSE SetToSortSeq(NumbersOf(s), LAMBDA m, n : m < n)

----------------------------------------------------------------------------
(* The generated code. *)

IsNamed(s, n) == FetchMerge(s, n, NewInferredParam(TRUE)).isNamed
IsSlice(s, n) == FetchMerge(s, n, NewInferredParam(TRUE)).param.slice

(* The name of a parameter: its own, or that of the column it is compared  *)
(* to. *)
ColumnName(s, n, column) == IF IsNamed(s, n) THEN s.pos[n] ELSE column[n]

(* columnsToStruct: a field for each parameter; one without a name gets a  *)
(* suffix if the name is taken, a named one takes the field of its name.   *)
(* (Where the types of the two differ, generation fails.) *)
Fields(s, order, column) ==
    LET Base(i) == ColumnName(s, order[i], column)
        seen(i) == Cardinality({j \in 1..(i - 1) : Base(j) = Base(i)})
    IN [i \in DOMAIN order |->
          <<Base(i), IF seen(i) > 0 /\ ~IsNamed(s, order[i]) THEN seen(i) + 1 ELSE 0>>]

(* The stdlib template appends the elements of a slice one by one. *)
Expands(s, n, template) == template = "stdlib" /\ IsSlice(s, n)

ValuesOf(s, n, field, template, len) ==
    IF Expands(s, n, template) THEN [k \in 1..len[field[1]] |-> <<field, k>>]
    ELSE <<<<field, 0>>>>

Args(s, order, fields, template, len) ==
    FlattenSeq([i \in DOMAIN order |-> ValuesOf(s, order[i], fields[i], template, len)])

(* The placeholders in the text of the query, as the preprocessor wrote    *)
(* them; "of" is the occurrence. *)
Written1(s) ==
    LET Form(o) == IF Marked(o) THEN "marker"
                   ELSE IF Style[engine] = "question" \/ (Kept(o) /\ ~o.explicit) THEN "anonymous"
                   ELSE "numbered"
        idx == SetToSortSeq(Placeholders(s), <)
    IN [i \in DOMAIN idx |-> [of |-> idx[i], form |-> Form(s.occs[idx[i]]),
                              name |-> s.occs[idx[i]].name, number |-> s.occs[idx[i]].number]]

(* strings.Replace(query, "/*SLICE:name*/?", ..., 1): the first marker of  *)
(* the name becomes as many "?" as the slice has elements, or NULL. *)
ReplaceMarker(items, name, n) ==
    LET k == SelectInSeq(items, LAMBDA it : it.form = "marker" /\ it.name = name)
    IN IF k = 0 THEN items
       ELSE SubSeq(items, 1, k - 1)
            \o [i \in 1..n |-> [items[k] EXCEPT !.form = "anonymous"]]
            \o SubSeq(items, k + 1, Len(items))

Sent(s, order, template, len) ==
    FoldLeft(LAMBDA items, n : IF Expands(s, n, template)
                               THEN ReplaceMarker(items, s.pos[n], len[s.pos[n]])
                               ELSE items,
             Written1(s), order)

----------------------------------------------------------------------------
(* The database: which argument each placeholder of the text takes.        *)
(* PostgreSQL, DuckDB and SQLite go by the number, MySQL and ClickHouse by *)
(* the place, and SQLite gives a "?" the number after the largest so far.  *)
(* A marker that was not replaced is a comment before a "?". *)

Largest(S) == IF S = {} THEN 0 ELSE Max(S)

Bind(items) ==
    FoldLeft(LAMBDA taken, it :
                 Append(taken, IF it.form = "numbered" THEN it.number ELSE Largest(ToSet(taken)) + 1),
             <<>>, items)

----------------------------------------------------------------------------

QueryInit == Init /\ call = <<>>

Preprocessing == Next /\ UNCHANGED call

(* The generated method is called with slices of the lengths len. *)
Query(s, template, path, kept, column, len) ==
    LET order == ParamOrder(s, path, kept)
        fields == Fields(s, order, column)
        items == Sent(s, order, template, len)
    IN /\ phase = "done"
       /\ call = <<>>
       /\ s.err = <<>> /\ ~s.paramErr
       /\ call' = [stmt |-> s, template |-> template, column |-> column, len |-> len,
                   order |-> order, fields |-> fields,
                   args |-> Args(s, order, fields, template, len),
                   items |-> items, bind |-> Bind(items)]
       /\ UNCHANGED vars

QueryNext ==
    \/ Preprocessing
    \/ \E s \in ToSet(stmts) :
         \E template \in Template[engine], path \in Path[engine], kept \in Kepts(s),
            column \in [{n \in NumbersOf(s) : ~IsNamed(s, n)} -> ColumnNames],
            len \in [{s.pos[n] : n \in {m \in DOMAIN s.pos : IsSlice(s, m)}} -> MinLen..MaxLen] :
                Query(s, template, path, kept, column, len)

QuerySpec == QueryInit /\ [][QueryNext]_allVars

----------------------------------------------------------------------------
(* Properties. *)

(* The argument the user meant: by name, by number, or a "?" of its own. *)
Meant(o, i) ==
    IF o.kind # "native" THEN <<"name", o.name>>
    ELSE IF o.explicit THEN <<"number", o.number>>
    ELSE <<"occurrence", i>>

(* Uses of slices, and of "?" in SQLite, that the generated code is made   *)
(* for.  A name is a slice or it is not.  The stdlib template does not     *)
(* expand slices of PostgreSQL.  In SQLite "?" takes the next number, so   *)
(* a slice is written once, is followed by no number that is new, and "?"  *)
(* and names are not mixed. *)
Foreseen(s, template) ==
    LET P == Placeholders(s)
        Slice(i) == s.occs[i].kind = "slice"
        Anonymous(i) == s.occs[i].kind = "native" /\ ~s.occs[i].explicit
    IN /\ \A i, j \in P : s.occs[i].name = s.occs[j].name => Slice(i) = Slice(j)
       /\ engine = "postgresql" /\ template = "stdlib" => \A i \in P : ~Slice(i)
       /\ engine = "sqlite" =>
            /\ (\E i \in P : Anonymous(i)) => \A i \in P : Anonymous(i)
            /\ \A i, j \in P : Slice(i) /\ i < j =>
                  \/ Slice(j) /\ s.occs[i].name # s.occs[j].name
                  \/ \E h \in P : h < i /\ s.occs[h].number = s.occs[j].number

(* The database wants as many arguments as the generated code passes. *)
RightNumber == Largest(ToSet(call.bind)) = Len(call.args)

(* A call passes as many arguments as the text it sends has parameters,    *)
(* when no name is written twice. *)
SlicesCounted ==
    call # <<>> /\ (\A i, j \in Placeholders(call.stmt) :
                        i # j => call.stmt.occs[i].name # call.stmt.occs[j].name)
        => RightNumber

(* A parameter without a name that is the first of the name it is given    *)
(* takes the field of the parameter that has this name. *)
Borrows(i, j) ==
    LET s == call.stmt
        n == s.occs[i].number
        Name(m) == ColumnName(s, m, call.column)
        place == CHOOSE k \in DOMAIN call.order : call.order[k] = n
    IN /\ ~IsNamed(s, n) /\ IsNamed(s, s.occs[j].number)
       /\ Name(n) = Name(s.occs[j].number)
       /\ \A k \in 1..(place - 1) : Name(call.order[k]) # Name(n)

(* Every placeholder is bound to the field of its own parameter, a slice   *)
(* to its elements in their order (an empty one to NULL, and to no         *)
(* argument), and two placeholders have one field exactly if the user      *)
(* meant one argument, or if one borrows the other's. *)
BindsItsOwn ==
    call # <<>> /\ Foreseen(call.stmt, call.template) =>
        LET s == call.stmt
            P == Placeholders(s)
            FieldOf(i) == call.fields[CHOOSE k \in DOMAIN call.order : call.order[k] = s.occs[i].number]
            At(i) == SelectSeq([k \in DOMAIN call.items |-> <<call.items[k].of, call.bind[k]>>],
                               LAMBDA b : b[1] = i)
        IN /\ RightNumber
           /\ \A i \in P : [k \in DOMAIN At(i) |-> call.args[At(i)[k][2]]]
                             = ValuesOf(s, s.occs[i].number, FieldOf(i), call.template, call.len)
           /\ \A i, j \in P : FieldOf(i) = FieldOf(j) <=>
                   \/ Meant(s.occs[i], i) = Meant(s.occs[j], j)
                   \/ Borrows(i, j) \/ Borrows(j, i)
====
