---- MODULE Scope ----
(***************************************************************************)
(* The scope the analysis core builds from the FROM clause of a query and  *)
(* what it says of each column: which column a name refers to and whether  *)
(* it can be NULL (internal/core/analyzer).  Joins of every kind nest in   *)
(* any shape, USING and NATURAL merge columns, grouping sets leave columns *)
(* out, and a query can be a relation of another, a branch of a set        *)
(* operation, the body of a common table expression or part of an          *)
(* expression.  INSERT, UPDATE and DELETE build a scope for RETURNING.     *)
(* Beside the scope the model keeps what the database does for the same    *)
(* statement, from SqlNulls.                                               *)
(*                                                                         *)
(* The FROM clause is walked as appendFromItem does: a join is applied     *)
(* once both its sides are bound, so the items bound so far are a stack,   *)
(* each the range of relations it covers.  The analyzers of nested         *)
(* statements are a stack too; what their WITH clauses define is kept in   *)
(* one map that a nested analyzer takes over from the one it is nested in, *)
(* and makes itself if that has none.                                      *)
(***************************************************************************)
EXTENDS SqlNulls, SequencesExt

CONSTANTS
    Tables,     \* the catalog's tables by name, each a sequence of columns
    CteNames,   \* names WITH gives
    Dialects,   \* the values functions.propagate_nullable has in the dialects
    Kinds,      \* kinds of join
    MaxRels,    \* relations bound in the whole statement
    MaxGrouped, \* relations of a statement with GROUP BY
    MaxDepth    \* statements nested in each other

ASSUME ScopeAssumption ==
    /\ Kinds \subseteq {"inner", "left", "right", "full"}
    /\ \A n \in DOMAIN Tables : \A k \in DOMAIN Tables[n] : Tables[n][k].notNull \in BOOLEAN
    /\ Dialects \subseteq BOOLEAN
    /\ MaxRels \in Nat /\ MaxGrouped \in Nat /\ MaxDepth \in Nat

VARIABLES
    rels,     \* scope.rels
    joined,   \* scope.joined
    items,    \* the items of FROM bound so far, a stack, with what they stand for
    group,    \* the columns grouped by, or NoGroup
    result,   \* the columns of the query when it is analyzed, or NoResult
    left,     \* those of the left branch of a set operation, or NoResult
    command,  \* "select", "insert", or "update", which stands for DELETE too
    ctes,     \* analyzer.ctes; NoCtes is nil
    meant,    \* the common table expressions the database knows here
    waiting,  \* the analyzers this one is nested in, the innermost last
    bound,    \* relations bound so far in the statement
    beyond    \* history: what the statement uses that the analyzer is wrong about

scope == <<rels, joined, items, group>>
names == <<ctes, meant>>
vars == <<scope, result, left, command, names, waiting, bound, beyond>>

NoGroup == {}
NoResult == [cols |-> <<>>, rows |-> {}]
NoCtes == [n \in {} |-> NoResult]
AllNames == UNION {{Tables[n][k].name : k \in DOMAIN Tables[n]} : n \in DOMAIN Tables}
-----------------------------------------------------------------------------
(* Resolution.                                                             *)

(* joinedAt: the outermost merged column of the name that covers relation  *)
(* i, or 0. *)
JoinedAt(i, name) ==
    Max({0} \cup {j \in DOMAIN joined : /\ joined[j].name = name
                                          /\ joined[j].from <= i /\ i <= joined[j].to})

(* Mutant: only the outermost merged column is asked. *)
HidesOutermost(i, name) == JoinedAt(i, name) # 0 /\ joined[JoinedAt(i, name)].dup = i

(* hides *)
Hides(i, name) == \E j \in DOMAIN joined : joined[j].name = name /\ joined[j].dup = i

(* columnType: whether column col of relation rel can be NULL. *)
ColumnNullable(rel, col) == ~col.notNull \/ rel.nullable \/ col.name \in rel.nulled

(* A column of relation i as a resolution, and joinedMatch. *)
OwnMatch(i, k) == [idx |-> i, nullable |-> ColumnNullable(rels[i], rels[i].cols[k])]
JoinedMatch(j) ==
    [idx |-> joined[j].rel,
     nullable |-> ColumnNullable([rels[joined[j].rel] EXCEPT !.nullable = FALSE], joined[j])]

(* resolveIn, for a bare name among relations from .. to: the matches it   *)
(* counts, one for each place in the walk that is not a further copy of    *)
(* the merged column seen last. *)
Places(name, from, to) ==
    UNION {{<<i, k>> : k \in {m \in DOMAIN rels[i].cols : rels[i].cols[m].name = name}} :
           i \in from .. to}
Before(p, q) == p[1] < q[1] \/ (p[1] = q[1] /\ p[2] < q[2])

(* Mutant: the copies of a merged column count one each. *)
CountedEach(name, from, to) == Places(name, from, to)

Counted(name, from, to) ==
    LET places == Places(name, from, to)
        at(p) == JoinedAt(p[1], name)
        seen(p) == {q \in places : Before(q, p) /\ at(q) # 0}
        last(p) == CHOOSE q \in seen(p) : \A r \in seen(p) : r = q \/ Before(r, q)
    IN {p \in places : at(p) = 0 \/ seen(p) = {} \/ at(last(p)) # at(p)}

MatchAt(name, p) ==
    IF JoinedAt(p[1], name) = 0 THEN OwnMatch(p[1], p[2]) ELSE JoinedMatch(JoinedAt(p[1], name))
Resolves(name, from, to) == Cardinality(Counted(name, from, to)) = 1
Resolve(name, from, to) == MatchAt(name, CHOOSE p \in Counted(name, from, to) : TRUE)

(* emitStar: the columns of a bare star, by their places. *)
StarPlaces ==
    {p \in UNION {{<<i, k>> : k \in DOMAIN rels[i].cols} : i \in DOMAIN rels} :
        ~Hides(p[1], rels[p[1]].cols[p[2]].name)}
Name(p) == rels[p[1]].cols[p[2]].name
Star == SetToSortSeq(StarPlaces, Before)
-----------------------------------------------------------------------------
(* The FROM clause.                                                        *)

Init ==
    /\ rels = <<>> /\ joined = <<>> /\ items = <<>>
    /\ group = NoGroup
    /\ result = NoResult /\ left = NoResult
    /\ command \in {"select", "insert", "update"}
    /\ ctes = NoCtes /\ meant = NoCtes
    /\ waiting = <<>>
    /\ bound = 0
    /\ beyond = {}

InFrom == result = NoResult /\ left = NoResult /\ group = NoGroup

(* An INSERT has its target in scope and nothing else. *)
MayBind == InFrom /\ bound < MaxRels /\ (command = "insert" => items = <<>>)

(* A relation of the given columns, bound at the end of the scope. *)
BoundRel(cols) == [cols |-> cols, nullable |-> FALSE, nulled |-> {}]
Item(from, to, ref) == [from |-> from, to |-> to, cols |-> ref.cols, rows |-> ref.rows]

(* The relation a name stands for among those WITH defined, or in the      *)
(* catalog. *)
RelationOf(n, with) ==
    IF n \in DOMAIN with THEN with[n]
    ELSE [cols |-> Tables[n], rows |-> TableRows(Tables[n])]

(* bindRangeVar, of a name the database knows: what the analyzer takes it  *)
(* for, and what it is.  What a statement changes is a table. *)
Bind(n) ==
    LET i == Len(rels) + 1
        is == RelationOf(n, meant) IN
    /\ MayBind
    /\ n \in DOMAIN Tables \cup DOMAIN meant
    /\ command # "select" /\ items = <<>> => n \in DOMAIN Tables
    /\ bound' = bound + 1
    /\ rels' = Append(rels, BoundRel(RelationOf(n, ctes).cols))
    /\ items' = Append(items, Item(i, i, Relation(i, is.cols, is.rows)))
    /\ beyond' = beyond \cup (IF RelationOf(n, ctes) # is THEN {"with"} ELSE {})
    /\ UNCHANGED <<joined, group, result, left, command, names, waiting>>

(* commonColumns: the names the left side offers that the right side       *)
(* resolves. *)
CommonColumns(l, r) ==
    {n \in AllNames : /\ \E i \in l.from .. l.to, p \in Places(n, l.from, l.to) :
                              p[1] = i /\ ~Hides(i, n)
                      /\ Resolves(n, r.from, r.to)}

(* mergeColumns, for one name. *)
Merge(kind, l, r, name) ==
    LET lm == Resolve(name, l.from, l.to)
        rm == Resolve(name, r.from, r.to)
        src == IF kind = "right" THEN rm ELSE lm
        other == IF kind = "right" THEN lm ELSE rm
    IN [name |-> name, from |-> l.from, to |-> r.to, rel |-> src.idx, dup |-> other.idx,
        notNull |-> ~(src.nullable \/ (kind = "full" /\ other.nullable))]

(* The relations an outer join makes nullable. *)
OuterSide(kind, l, r) ==
    CASE kind = "left" -> r.from .. r.to
      [] kind = "right" -> l.from .. l.to
      [] kind = "full" -> l.from .. r.to
      [] OTHER -> {}

(* markNullable *)
MarkedRels(outer) ==
    [i \in DOMAIN rels |-> [rels[i] EXCEPT !.nullable = @ \/ i \in outer]]

(* Mutant: the columns merged among them stay as they were. *)
MarkedRelsOnly(outer) == joined

MarkedJoined(outer) ==
    [j \in DOMAIN joined |->
        [joined[j] EXCEPT !.notNull = @ /\ ~(joined[j].from .. joined[j].to \subseteq outer)]]

(* appendJoin, of the two items bound last: ON when using is empty.  A     *)
(* name that does not resolve on both sides is an error of the query. *)
JoinItems(kind, using, l, r) ==
    LET outer == OuterSide(kind, l, r)
        merged == SetToSeq({Merge(kind, l, r, name) : name \in using})
        n == Len(items)
    IN /\ \A name \in using : Resolves(name, l.from, l.to) /\ Resolves(name, r.from, r.to)
       /\ CanMerge(l, r, using)
       /\ rels' = MarkedRels(outer)
       /\ joined' = MarkedJoined(outer) \o merged
       /\ items' = Append(SubSeq(items, 1, n - 2),
                          Item(l.from, r.to, JoinOf(l, r, kind, using)))
       /\ UNCHANGED <<group, result, left, command, names, waiting, bound, beyond>>

Join(kind, natural, using) ==
    LET l == items[Len(items) - 1]
        r == items[Len(items)]
    IN /\ InFrom
       /\ Len(items) >= IF command = "update" THEN 3 ELSE 2
       /\ natural => CanMerge(l, r, NamesOf(l) \cap NamesOf(r))
       /\ JoinItems(kind, IF natural THEN CommonColumns(l, r) ELSE using, l, r)
-----------------------------------------------------------------------------
(* GROUP BY, the target list, and the query as part of another.            *)

(* FROM as a whole: what a comma separates is joined without a condition.  *)
Whole ==
    FoldLeft(LAMBDA all, item : JoinOf(all, item, "inner", {}),
             [cols |-> {}, rows |-> {{}}], items)

(* The sets ROLLUP stands for, and those groupingSets lists for it and for *)
(* CUBE. *)
RollupSets(by) == {{by[i] : i \in 1 .. n} : n \in 0 .. Len(by)}
ListedSets(by) == {by, {}}

(* typeGroupingSet, of the listed sets; sets are what the database groups  *)
(* by. *)
GroupBy(listed, sets, from) ==
    LET by == UNION listed
        out == {n \in by : \E s \in listed : n \notin s}
        nulled(i) == {n \in out : Resolve(n, 1, Len(rels)).idx = i}
    IN /\ by # {} /\ \A n \in by : Resolves(n, 1, Len(rels))
       /\ group' = by
       /\ rels' = [i \in DOMAIN rels |-> [rels[i] EXCEPT !.nulled = @ \cup nulled(i)]]
       /\ items' = <<Item(1, Len(rels), GroupedBy(from, by, sets))>>
       /\ UNCHANGED <<joined, result, left, command, names, waiting, bound, beyond>>

(* GROUP BY with GROUPING SETS, of which plain columns are one, with ROLLUP *)
(* and with CUBE. *)
Group ==
    /\ InFrom /\ command = "select"
    /\ items # <<>> /\ Len(rels) <= MaxGrouped
    /\ \E from \in {Whole} :
         \/ \E sets \in SUBSET SUBSET AllNames : GroupBy(sets, sets, from)
         \/ \E x, y \in AllNames : GroupBy(ListedSets({x, y}), RollupSets(<<x, y>>), from)
         \/ \E by \in SUBSET AllNames : GroupBy(ListedSets(by), SUBSET by, from)

(* The query has columns cols and the given rows. *)
NoScope == rels' = <<>> /\ joined' = <<>> /\ items' = <<>> /\ group' = NoGroup
Analyzed(cols, rows) ==
    /\ result' = [cols |-> cols, rows |-> rows]
    /\ NoScope
    /\ UNCHANGED <<left, command, names, waiting, bound>>

(* The column of the item that a place in the scope is a copy of. *)
ColumnAt(item, p) == CHOOSE c \in item.cols : p \in c.slots

(* SELECT *, or RETURNING *. *)
ProjectStar ==
    /\ InFrom
    /\ items # <<>>
    /\ UNCHANGED beyond
    /\ \E from \in {Whole}, star \in {Star} :
         Analyzed([q \in DOMAIN star |-> [name |-> Name(star[q]),
                                         notNull |-> ~MatchAt(Name(star[q]), star[q]).nullable]],
                  {{q \in DOMAIN star : IsNull(ColumnAt(from, star[q]), row)} : row \in from.rows})

(* A column a target names: bare, or qualified by its relation. *)
BareRefs == {<<0, n>> : n \in {m \in AllNames : Resolves(m, 1, Len(rels))}}
QualifiedRefs ==
    {<<i, n>> \in (DOMAIN rels) \X AllNames : Cardinality(Places(n, i, i)) = 1}
Refs == IF group = NoGroup THEN BareRefs \cup QualifiedRefs
        ELSE {r \in BareRefs : r[2] \in group}
RefNullable(ref) ==
    IF ref[1] = 0 THEN Resolve(ref[2], 1, Len(rels)).nullable
    ELSE \E p \in Places(ref[2], ref[1], ref[1]) : OwnMatch(p[1], p[2]).nullable

(* The slots that are NULL in the rows in which the column is. *)
SlotsOf(item, ref) ==
    IF ref[1] = 0 THEN UNION {c.slots : c \in Named(item, ref[2])}
    ELSE Places(ref[2], ref[1], ref[1])

(* Whether the type of an expression can be NULL, by whether its operands  *)
(* can: a function each for COALESCE; an operator; IN and BETWEEN; AND and *)
(* OR; ARRAY[y] and = ANY of it; IS DISTINCT FROM; NULLIF; the results of  *)
(* CASE, of which a missing ELSE is one; a cast; a call of a function of   *)
(* the seed. *)
typeCoalesce(x, y) == x /\ y
typeAExpr(x, y) == x \/ y
typePredicateList(x, y) == x \/ y
typePredicate(x, y) == x \/ y
typeArrayExpr(y) == FALSE
typeQuantifiedExpr(x, array) == x \/ array
typeComparison(x, y) == FALSE
typeNullIf(x, y) == TRUE
typeFirstOf(x, y, nullable) == nullable \/ x \/ y
typeTypeCast(x, try) == x \/ try
typeFuncCall(neverNull, returnNullable, propagates, x, y) ==
    returnNullable \/ (~neverNull /\ (x \/ y) /\ propagates)

ExprNullable(form, propagates, x, y) ==
    CASE form = "coalesce" -> typeCoalesce(x, y)
      [] form \in {"operator", "division"} -> typeAExpr(x, y)
      [] form = "between" -> typePredicateList(x, y)
      [] form = "and" -> typePredicate(x, y)
      [] form = "any" -> typeQuantifiedExpr(x, typeArrayExpr(y))
      [] form = "distinct" -> typeComparison(x, y)
      [] form = "nullif" -> typeNullIf(x, y)
      [] form = "case_else" -> typeFirstOf(x, y, FALSE)
      [] form = "case" -> typeFirstOf(x, FALSE, TRUE)
      [] form = "cast" -> typeTypeCast(x, FALSE)
      [] form = "try_cast" -> typeTypeCast(x, TRUE)
      [] form = "strict" -> typeFuncCall(FALSE, FALSE, propagates, x, y)
      [] form = "never_null" -> typeFuncCall(TRUE, FALSE, propagates, x, y)
      [] form = "null_result" -> typeFuncCall(FALSE, TRUE, propagates, x, y)

(* The forms whose type leaves out a NULL that the database returns: an    *)
(* operator without a value for some operands that are not NULL; = ANY of  *)
(* an array that holds a NULL; a strict function of an argument that can   *)
(* be NULL, in a dialect without functions.propagate_nullable. *)
Beyond(form, propagates, x, y) ==
    \/ form = "division"
    \/ form = "any" /\ y
    \/ form = "strict" /\ ~propagates /\ (x \/ y)

(* projectTarget, for one column and for one expression of columns, in the *)
(* target list or in RETURNING.  The dialect is chosen where it is read:   *)
(* what a second choice could make different is beyond. *)
Column1(name, nullable) == <<[name |-> name, notNull |-> ~nullable]>>
Row1(null) == IF null THEN {1} ELSE {}
ProjectRef(from, ref) ==
    LET slots == SlotsOf(from, ref)
    IN /\ Analyzed(Column1(ref[2], RefNullable(ref)), {Row1(slots \subseteq row) : row \in from.rows})
       /\ UNCHANGED beyond
Operands(from, x, y) ==
    LET xs == SlotsOf(from, x)
        ys == SlotsOf(from, y)
    IN [x |-> RefNullable(x), y |-> RefNullable(y),
        isNull |-> {<<xs \subseteq row, ys \subseteq row>> : row \in from.rows}]
ExprTypes ==
    [o \in [x : BOOLEAN, y : BOOLEAN, isNull : SUBSET (BOOLEAN \X BOOLEAN)] |->
        {[nullable |-> ExprNullable(form, propagates, o.x, o.y),
          rows |-> {Row1(null) : null \in UNION {NullOutcomes[form, n[1], n[2]] : n \in o.isNull}},
          beyond |-> IF Beyond(form, propagates, o.x, o.y) THEN {"expression"} ELSE {}] :
             form \in Forms, propagates \in Dialects}]
ProjectExpr(type) ==
    /\ Analyzed(Column1("?", type.nullable), type.rows)
    /\ beyond' = beyond \cup type.beyond
Project ==
    /\ result = NoResult /\ left = NoResult
    /\ items # <<>>
    /\ \E from \in {Whole}, refs \in {Refs} :
         \/ \E ref \in refs : ProjectRef(from, ref)
         \/ \E type \in UNION {ExprTypes[Operands(from, x, y)] : x, y \in {ref \in refs : ref[1] = 0}} :
               ProjectExpr(type)
-----------------------------------------------------------------------------
(* Nested statements.                                                      *)

(* The analyzer waits with what it has, for one of these: a subquery in    *)
(* FROM, the body of a common table expression, a branch of a set          *)
(* operation; or for a subquery in its target list, whose value is all     *)
(* that is missing once the other operand, test, is typed. *)
NoTest == [nullable |-> FALSE, isNull |-> {}]
Waiting(as) ==
    [as |-> as, rels |-> rels, joined |-> joined, items |-> items, left |-> left,
     command |-> command, ctes |-> ctes, meant |-> meant, test |-> NoTest]
WaitingForValue(as, test) ==
    [Waiting(as) EXCEPT !.rels = <<>>, !.joined = <<>>, !.items = <<>>, !.test = test]

(* nested: an analyzer with an empty scope and the same map starts. *)
Nest(f, c) ==
    /\ result = NoResult /\ group = NoGroup
    /\ Len(waiting) < MaxDepth /\ bound < MaxRels
    /\ waiting' = Append(waiting, f)
    /\ NoScope
    /\ left' = NoResult
    /\ command' = c
    /\ UNCHANGED <<result, names, bound, beyond>>

Fresh == InFrom /\ items = <<>>

NestFrom == MayBind /\ (command = "select" \/ items # <<>>) /\ Nest(Waiting("from"), "select")
NestCte == Fresh /\ \E c \in {"select", "insert", "update"} : Nest(Waiting("cte"), c)
NestBranch == command = "select" /\ (Fresh \/ left # NoResult) /\ Nest(Waiting("branch"), "select")
NestSubLink ==
    /\ InFrom /\ items # <<>>
    /\ \/ \E ref \in BareRefs, from \in {Whole} :
             Nest(WaitingForValue("in", [nullable |-> RefNullable(ref),
                                         isNull |-> {SlotsOf(from, ref) \subseteq row : row \in from.rows}]),
                  "select")
       \/ \E as \in {"scalar", "exists"} : Nest(WaitingForValue(as, NoTest), "select")

(* The map of the analyzer that waited: the nested one has added to it,    *)
(* unless there was none. *)
CtesAfter(f) == IF f.ctes = NoCtes THEN NoCtes ELSE ctes

(* The nested statement is analyzed; what it is for decides what is left   *)
(* to do. *)
Return(as, f) ==
    /\ result # NoResult /\ waiting # <<>>
    /\ f = Last(waiting) /\ f.as = as
    /\ waiting' = Front(waiting)
    /\ command' = f.command

Renamed(name) == [result EXCEPT !.cols[1].name = name]

(* bindRangeSubselect and derivedRel: the query is a relation of the one   *)
(* around it, its first column renamed. *)
Derive(name) ==
    \E f \in ToSet(waiting) :
        /\ Return("from", f)
        /\ bound < MaxRels
        /\ bound' = bound + 1
        /\ LET i == Len(f.rels) + 1
           IN /\ rels' = Append(f.rels, BoundRel(Renamed(name).cols))
              /\ items' = Append(f.items, Item(i, i, Relation(i, Renamed(name).cols, result.rows)))
        /\ joined' = f.joined /\ group' = NoGroup
        /\ result' = NoResult /\ left' = f.left
        /\ ctes' = CtesAfter(f) /\ meant' = f.meant
        /\ UNCHANGED beyond

(* bindCTEs, for one of them.  A WITH gives a name once, which may be one  *)
(* of the statements around it or a table's. *)
Around == IF Len(waiting) = 1 THEN NoCtes ELSE waiting[Len(waiting) - 1].meant
With(map, n, rel) == [m \in DOMAIN map \cup {n} |-> IF m = n THEN rel ELSE map[m]]
DefineCte(n, name) ==
    \E f \in ToSet(waiting) :
        /\ Return("cte", f)
        /\ n \in DOMAIN f.meant => n \in DOMAIN Around /\ Around[n] = f.meant[n]
        /\ ctes' = With(CtesAfter(f), n, Renamed(name))
        /\ meant' = With(f.meant, n, Renamed(name))
        /\ rels' = f.rels /\ joined' = f.joined /\ items' = f.items
        /\ group' = NoGroup
        /\ result' = NoResult /\ left' = f.left
        /\ UNCHANGED <<bound, beyond>>

(* analyzeSetOperation, after its left branch and after its right one. *)
BranchDone(f) ==
    /\ Return("branch", f)
    /\ NoScope
    /\ ctes' = CtesAfter(f) /\ meant' = f.meant
    /\ UNCHANGED <<bound, beyond>>

LeftBranch ==
    \E f \in ToSet(waiting) :
        /\ BranchDone(f)
        /\ f.left = NoResult
        /\ left' = result
        /\ result' = NoResult

SetOperation(op) ==
    \E f \in ToSet(waiting) :
        LET weaker(q) == [f.left.cols[q] EXCEPT !.notNull =
                              @ /\ (op = "union" => result.cols[q].notNull)]
        IN /\ BranchDone(f)
           /\ f.left # NoResult
           /\ Len(f.left.cols) = Len(result.cols)
           /\ result' = [cols |-> [q \in DOMAIN f.left.cols |-> weaker(q)],
                         rows |-> CASE op = "union" -> f.left.rows \cup result.rows
                                    [] op = "intersect" -> f.left.rows \cap result.rows
                                    [] op = "except" -> f.left.rows]
           /\ left' = NoResult

(* typeSubLink; its value becomes the one column of the query around it. *)
typeSubLink(as, x, y) ==
    CASE as = "in" -> x \/ y
      [] as = "scalar" -> TRUE
      [] as = "exists" -> FALSE

SubLink(as) ==
    \E f \in ToSet(waiting) :
        /\ Return(as, f)
        /\ as # "exists" => Len(result.cols) = 1
        /\ result' = [cols |-> Column1("?", typeSubLink(as, f.test.nullable, ~result.cols[1].notNull)),
                      rows |-> SubLinkRows(as, f.test.isNull, result.rows)]
        /\ NoScope
        /\ left' = f.left
        /\ ctes' = CtesAfter(f) /\ meant' = f.meant
        /\ UNCHANGED <<bound, beyond>>

Next ==
    \/ \E n \in DOMAIN Tables \cup CteNames : Bind(n)
    \/ \E kind \in Kinds : Join(kind, TRUE, {})
    \/ \E kind \in Kinds, using \in SUBSET AllNames : Join(kind, FALSE, using)
    \/ Group
    \/ ProjectStar
    \/ Project
    \/ NestFrom
    \/ NestCte
    \/ NestBranch
    \/ NestSubLink
    \/ \E name \in AllNames : Derive(name)
    \/ \E n \in CteNames, name \in AllNames : DefineCte(n, name)
    \/ LeftBranch
    \/ \E as \in {"in", "scalar", "exists"} : SubLink(as)
    \/ \E op \in {"union", "intersect", "except"} : SetOperation(op)

Spec == Init /\ [][Next]_vars
-----------------------------------------------------------------------------
(* Properties.                                                             *)

(* A column the analyzer calls NOT NULL, which the generated code scans    *)
(* into a type without NULL, is not NULL in any row of any database:       *)
(* named bare, qualified or by a star, through every nesting of joins, and *)
(* as a result column of the query.  Four uses are excepted, for which the *)
(* analyzer is wrong: an operator that has no value for some operands, as  *)
(* division by zero; = ANY of an array with a NULL in it; a strict         *)
(* function, of a nullable argument, in the dialects that leave            *)
(* functions.propagate_nullable off; and a relation misread because a      *)
(* nested WITH gave its name. *)
NotNullHolds ==
  beyond = {} =>
    /\ \A q \in DOMAIN result.cols : result.cols[q].notNull => \A row \in result.rows : q \notin row
    /\ items # <<>> =>
         \E from \in {Whole} :
            /\ \A ref \in Refs :
                  ~RefNullable(ref) =>
                      \A slots \in {SlotsOf(from, ref)}, row \in from.rows : ~(slots \subseteq row)
            /\ group = NoGroup =>
                 \A p \in StarPlaces : ~MatchAt(Name(p), p).nullable
                                       => \A row \in from.rows : ~IsNull(ColumnAt(from, p), row)

(* A bare name is found, missing or ambiguous on a side of a join, and in  *)
(* the whole FROM clause, exactly when it is for the database, unless a    *)
(* nested WITH had a relation misread. *)
ResolvesAsSQL ==
    group = NoGroup /\ "with" \notin beyond =>
        /\ \A x \in DOMAIN items, n \in AllNames :
               Cardinality(Counted(n, items[x].from, items[x].to)) = Cardinality(Named(items[x], n))
        /\ \E from \in {Whole} : \A n \in AllNames :
               Cardinality(Counted(n, 1, Len(rels))) = Cardinality(Named(from, n))

(* What WITH defines is visible in its statement and in the ones nested in *)
(* it, and nowhere else: a name in FROM is the relation that it is for the *)
(* database. *)
WithIsLexical ==
    InFrom => \A n \in DOMAIN Tables \cup DOMAIN meant : RelationOf(n, ctes) = RelationOf(n, meant)

(* A bare star lists each column of the FROM clause once, merged columns   *)
(* included, and no other, unless a nested WITH had a relation misread. *)
StarListsOnce ==
    group = NoGroup /\ "with" \notin beyond =>
        \A c \in Whole.cols : Cardinality(c.slots \cap StarPlaces) = 1
====
