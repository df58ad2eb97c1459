---- MODULE CoreCatalog ----
(***************************************************************************)
(* The catalog of the analysis core (internal/core) while a schema is      *)
(* applied to it (internal/core/schema).  It is a database of its own:     *)
(* types are rows, one for each family and one for each family applied to  *)
(* an argument, interned under a key; relations and columns refer to them  *)
(* by oid.  The typeCache in front of it remembers what was read about a   *)
(* type and is never told of a DROP TYPE.  The finished database is kept   *)
(* in the disk cache, without the typeCache, for the next run.             *)
(*                                                                         *)
(* A type expression is the sequence of its family names, outermost first: *)
(* the array of mood is <<array, mood>>.  A name is a pair of a namespace, *)
(* "" when it is bare, and an identifier.                                  *)
(***************************************************************************)
EXTENDS Naturals, Sequences, FiniteSets, TLC, SequencesExt

CONSTANTS
    DefaultSchema,   \* where the dialect puts a type declared by a bare name
    SeedTypes,       \* families the dialect seeds, in order of their oids
    TypeNames,       \* names a CREATE TYPE or CREATE DOMAIN gives
    Defs,            \* column definitions: name, type expression, NOT NULL
    BaseExprs,       \* those a composite, range or domain is made of
    Tables,          \* what CREATE TABLE names: a namespace and an identifier
    Views,           \* what CREATE VIEW and CREATE TABLE AS name
    Extensions,      \* the families each extension adds, a function
    MaxTypes,        \* types ever created
    MaxClasses,      \* relations ever created
    MaxCols          \* columns a relation is ever given

ColNames == {d.name : d \in Defs}
Exprs == {d.expr : d \in Defs}
NotNulls == {d.notNull : d \in Defs}

RelNames == Tables \cup Views

Name(ns, id) == <<ns, id>>
ArrayName == "array"

(* One statement, of two columns, adds at most eight rows to sql_type. *)
Oids == 1 .. MaxTypes + 8

ASSUME CoreAssumption ==
    /\ SeedTypes \in Seq(STRING)
    /\ MaxTypes \in Nat /\ Len(SeedTypes) <= MaxTypes
    /\ MaxClasses \in Nat /\ MaxCols \in Nat
    /\ \A d \in Defs : d.expr # <<>> /\ d.notNull \in BOOLEAN

VARIABLES
    cat,         \* sql_namespace, sql_type, and the typeCache in front of them
    classes,     \* sql_class: a function from the oids of the live relations
    nextClass,   \* the next oid of sql_class
    attrs,       \* sql_attribute
    extensions,  \* the extensions loaded
    errs         \* a statement failed: merr is not empty

vars == <<cat, classes, nextClass, attrs, extensions, errs>>

(* The namespaces a bare type name is looked up in, in order. *)
SearchPath == <<"pg_catalog", "public", DefaultSchema>>
Defaults == {SearchPath[i] : i \in DOMAIN SearchPath}
-----------------------------------------------------------------------------
(* Types.  The operators take and return the value of cat.                 *)

Live(c) == DOMAIN c.types

Family(ns, id) ==
    [ns |-> ns, id |-> id, key |-> <<Name("", id)>>, family |-> 0, arg |-> 0,
     element |-> 0, base |-> 0, notNull |-> FALSE]

(* qualifiedName: types of the default namespaces are spelled bare. *)
QualifiedName(row) == Name(IF row.ns \in Defaults THEN "" ELSE row.ns, row.id)

(* familyOIDByQualifiedName, or 0. *)
FamilyOID(c, name) ==
    LET in(ns) == {o \in Live(c) : /\ c.types[o].ns = ns
                                   /\ c.types[o].id = name[2]
                                   /\ c.types[o].family = 0}
        hits == {i \in DOMAIN SearchPath : in(SearchPath[i]) # {}}
        pick(S) == IF S = {} THEN 0 ELSE CHOOSE o \in S : TRUE
    IN IF name[1] # "" THEN pick(in(name[1]))
       ELSE IF hits = {} THEN 0
       ELSE pick(in(SearchPath[CHOOSE i \in hits : \A j \in hits : i <= j]))

(* CreateTypeSpec: the row takes the next oid, its namespace is created. *)
Insert(c, row) ==
    [c EXCEPT !.types = @ @@ (c.next :> row), !.next = @ + 1, !.spaces = @ \cup {row.ns}]

(* LookupType puts what it reads in the typeCache. *)
Remember(c, o) ==
    IF o \in DOMAIN c.infos THEN c
    ELSE [c EXCEPT !.infos = @ @@ (o :> c.types[o])]

(* declaredTypeNamespace *)
DeclaredIn(name) == IF name[1] = "" THEN DefaultSchema ELSE name[1]

(* The family of internType: a name the catalog does not hold becomes a    *)
(* user type, or the array family, which goes to public. *)
InternFamily(c, name) ==
    LET found == FamilyOID(c, name)
        ns == IF name[2] = ArrayName THEN "public" ELSE DeclaredIn(name)
        d == IF found # 0 THEN c ELSE Insert(c, Family(ns, name[2]))
        oid == IF found # 0 THEN found ELSE c.next
    IN [cat |-> Remember(d, oid), oid |-> oid]

(* Mutant: the key by bare names. *)
KeyBare(c, fam, rest) == <<Name("", c.types[fam].id)>> \o rest

(* The canonical spelling of family fam applied to what rest spells. *)
Key(c, fam, rest) == <<QualifiedName(c.types[fam])>> \o rest

(* Mutant: looked up in the default schema. *)
InternInstanceInDefault(c, fam, arg, key) ==
    LET row == c.types[fam]
        rows == {o \in Live(c) : c.types[o].ns = DefaultSchema /\ c.types[o].key = key}
        new == [Family(row.ns, row.id) EXCEPT !.key = key, !.family = fam, !.arg = arg,
                    !.element = IF row.id = ArrayName THEN arg ELSE 0]
    IN IF rows # {} THEN [cat |-> c, oid |-> CHOOSE o \in rows : TRUE, key |-> key]
       ELSE [cat |-> Insert(c, new), oid |-> c.next, key |-> key]

(* The instance of internType: found by its key in the namespace of its    *)
(* family, or created there. *)
InternInstance(c, fam, arg, key) ==
    LET row == c.types[fam]
        rows == {o \in Live(c) : c.types[o].ns = row.ns /\ c.types[o].key = key}
        new == [Family(row.ns, row.id) EXCEPT !.key = key, !.family = fam, !.arg = arg,
                    !.element = IF row.id = ArrayName THEN arg ELSE 0]
    IN IF rows # {} THEN [cat |-> c, oid |-> CHOOSE o \in rows : TRUE, key |-> key]
       ELSE [cat |-> Insert(c, new), oid |-> c.next, key |-> key]

(* internType with write: the families from the outermost, then the        *)
(* instances from the innermost, whose argument is not there. *)
Intern(c, e) ==
    LET family(s, name) ==
            LET f == InternFamily(s.cat, name)
            IN [cat |-> f.cat, oids |-> Append(s.oids, f.oid)]
        apply(fam, s) ==
            IF s.oid = 0 THEN [cat |-> s.cat, oid |-> fam, key |-> Key(s.cat, fam, <<>>)]
            ELSE InternInstance(s.cat, fam, s.oid, Key(s.cat, fam, s.key))
        all == FoldLeft(family, [cat |-> c, oids |-> <<>>], e)
    IN FoldRight(apply, all.oids, [cat |-> all.cat, oid |-> 0, key |-> <<>>])

(* internType without write: the oid of the row e names, or 0. *)
Lookup(c, e) ==
    LET n == Len(e)
        oid == [i \in 1 .. n |-> FamilyOID(c, e[i])]
        key[i \in 1 .. n] == Key(c, oid[i], IF i = n THEN <<>> ELSE key[i + 1])
        rows == {o \in Live(c) : c.types[o].ns = c.types[oid[1]].ns /\ c.types[o].key = key[1]}
    IN IF \E i \in 1 .. n : oid[i] = 0 THEN 0
       ELSE IF n = 1 THEN oid[1]
       ELSE IF rows = {} THEN 0
       ELSE CHOOSE o \in rows : TRUE

(* TypeExprOf, for every oid: <<>> stands for its error.  The arguments of *)
(* a dropped instance are gone with its row. *)
Unknown == <<>>
Read(c) ==
    LET R[o \in {0} \cup Oids] ==
            LET row == IF o \in DOMAIN c.infos THEN c.infos[o] ELSE c.types[o]
            IN IF o \in DOMAIN c.exprs THEN c.exprs[o]
               ELSE IF o \notin Live(c) \cup DOMAIN c.infos THEN Unknown
               ELSE IF row.family = 0 \/ o \notin Live(c) THEN <<QualifiedName(row)>>
               ELSE IF R[row.arg] = Unknown THEN Unknown
               ELSE <<QualifiedName(row)>> \o R[row.arg]
    IN R

(* The rows TypeExprOf reads for o. *)
Parts(c, o) ==
    LET P[p \in {0} \cup Oids] ==
            IF p \notin Live(c) THEN {} ELSE {p} \cup P[IF c.types[p].family = 0 THEN 0 ELSE c.types[p].arg]
    IN P[o]

(* What the next run finds: the tables, and an empty typeCache. *)
Restored(c) == [c EXCEPT !.infos = <<>>, !.exprs = <<>>]

(* Mutant: one step only. *)
OverOnce(c, o) == {p \in Live(c) : p = o \/ c.types[p].element = o \/ c.types[p].base = o}

(* ListTypesOver and the recursion of dropType: o, the arrays and ranges   *)
(* of it and the domains on it, and so on.  Each has a larger oid. *)
Over(c, o) ==
    LET In[p \in {0} \cup Oids] ==
            p # 0 /\ p \in Live(c) /\ (p = o \/ In[c.types[p].element] \/ In[c.types[p].base])
    IN {p \in Live(c) : In[p]}

DropRows(c, S) == [c EXCEPT !.types = [o \in Live(c) \ S |-> @[o]]]
-----------------------------------------------------------------------------
(* Relations.                                                              *)

ClassOIDs(rel) == {k \in DOMAIN classes : classes[k].rel = rel}
Columns(k) == {a \in attrs : a.class = k}

(* Mutant: the columns are counted. *)
CountedNum(k) == Cardinality(Columns(k)) + 1

(* NextAttributeNum *)
NextAttributeNum(k) == Max({0} \cup {a.num : a \in Columns(k)}) + 1

(* The column of relation k a definition makes; expr is history, the type  *)
(* the column was declared with. *)
Column(k, num, def, type, notNull) ==
    [class |-> k, name |-> def.name, num |-> num, type |-> type,
     notNull |-> notNull, expr |-> def.expr]

(* columnTypeOID, typeNotNull and CreateAttributeSpec, which fails on a    *)
(* name that is taken. *)
AddAttribute(s, k, num, def) ==
    LET taken == \E a \in s.attrs : a.class = k /\ a.name = def.name
        after(t) ==
            [cat |-> Remember(t.cat, t.oid),
             attrs |-> s.attrs \cup
                 IF taken THEN {}
                 ELSE {Column(k, num, def, t.oid, def.notNull \/ t.cat.types[t.oid].notNull)},
             failed |-> taken]
    IN IF s.failed THEN s ELSE after(Intern(s.cat, def.expr))

(* The columns of a new relation k, one by one, from state s on. *)
AddAttributes(s, k, defs) ==
    LET after[i \in 0 .. Len(defs)] ==
            IF i = 0 THEN s ELSE AddAttribute(after[i - 1], k, i, defs[i])
    IN after[Len(defs)]

Now == [cat |-> cat, attrs |-> attrs, failed |-> FALSE]
Effect(after) ==
    /\ cat.next <= MaxTypes
    /\ \E s \in {after} :
          cat' = s.cat /\ attrs' = s.attrs /\ errs' = s.failed

(* parseCatalogCore applies the rest of the schema after an error and then *)
(* returns it: what a catalog with an error becomes is never used.         *)
Going == ~errs

(* The statement fails, or is one that does nothing. *)
Fail == errs' = TRUE /\ UNCHANGED <<cat, classes, nextClass, attrs, extensions>>
Skip == UNCHANGED vars

(* The relations live in old and a new one, under the next oid. *)
NewClass(old, rel, kind) ==
    /\ classes' = [k \in old \cup {nextClass} |->
                      IF k = nextClass THEN [rel |-> rel, kind |-> kind] ELSE classes[k]]
    /\ nextClass' = nextClass + 1

Init ==
    /\ cat = [types |-> [o \in 1 .. Len(SeedTypes) |-> Family("public", SeedTypes[o])],
              next |-> Len(SeedTypes) + 1, infos |-> <<>>, exprs |-> <<>>,
              spaces |-> {"public"}]
    /\ classes = <<>>
    /\ nextClass = 1
    /\ attrs = {}
    /\ extensions = {}
    /\ errs = FALSE

(* applyCreateTable: the relation, then its columns one by one.  A         *)
(* statement that fails keeps what it has written. *)
CreateTable(rel, defs, ifNotExists) ==
    LET start == [Now EXCEPT !.cat.spaces = @ \cup {rel[1]}]
    IN /\ Going
       /\ IF ClassOIDs(rel) # {}
          THEN IF ifNotExists THEN Skip ELSE Fail
          ELSE /\ nextClass <= MaxClasses
               /\ NewClass(DOMAIN classes, rel, "r")
               /\ Effect(AddAttributes(start, nextClass, defs))
               /\ UNCHANGED extensions

(* applyDropTable and DropClass *)
DropTable(rel, ifExists) ==
    /\ Going
    /\ IF ClassOIDs(rel) = {}
       THEN IF ifExists THEN Skip ELSE Fail
       ELSE \E k \in ClassOIDs(rel) :
               /\ classes' = [j \in DOMAIN classes \ {k} |-> classes[j]]
               /\ attrs' = attrs \ Columns(k)
               /\ UNCHANGED <<cat, nextClass, extensions, errs>>

(* lookupClass, as ALTER TABLE and RENAME use it. *)
WithClass(rel, missingOk, Do(_)) ==
    /\ Going
    /\ IF ClassOIDs(rel) = {}
       THEN IF missingOk THEN Skip ELSE Fail
       ELSE \E k \in ClassOIDs(rel) : Do(k)

(* ALTER TABLE ... ADD COLUMN *)
AddColumn(rel, def, missingOk) ==
    LET Do(k) ==
            /\ NextAttributeNum(k) <= MaxCols
            /\ Effect(AddAttribute(Now, k, NextAttributeNum(k), def))
            /\ UNCHANGED <<classes, nextClass, extensions>>
    IN WithClass(rel, missingOk, Do)

(* ALTER TABLE ... DROP COLUMN: a column that is not there is no error. *)
DropColumn(rel, name) ==
    LET Do(k) ==
            /\ attrs' = {a \in attrs : a.class # k \/ a.name # name}
            /\ UNCHANGED <<cat, classes, nextClass, extensions, errs>>
    IN WithClass(rel, FALSE, Do)

(* ALTER TABLE ... ALTER COLUMN ... TYPE: of the column only the type, and *)
(* NOT NULL where an engine reports the whole new definition with it. *)
AlterColumnType(rel, name, expr, notNull) ==
    LET retyped(k, t) ==
            {IF a.class = k /\ a.name = name
             THEN [a EXCEPT !.type = t.oid, !.expr = expr, !.notNull = a.notNull \/ notNull]
             ELSE a : a \in attrs}
        Do(k) ==
            /\ \E t \in {Intern(cat, expr)} :
                  Effect([cat |-> t.cat, attrs |-> retyped(k, t), failed |-> FALSE])
            /\ UNCHANGED <<classes, nextClass, extensions>>
    IN WithClass(rel, FALSE, Do)

(* ALTER TABLE ... ALTER COLUMN ... SET or DROP NOT NULL *)
SetNotNull(rel, name, notNull) ==
    LET Do(k) ==
            /\ attrs' = {IF a.class = k /\ a.name = name
                         THEN [a EXCEPT !.notNull = notNull] ELSE a : a \in attrs}
            /\ UNCHANGED <<cat, classes, nextClass, extensions, errs>>
    IN WithClass(rel, FALSE, Do)

(* applyRenameColumn: UNIQUE (class_oid, name) refuses a name in use. *)
RenameColumn(rel, name, newName) ==
    LET Do(k) ==
            IF /\ name # newName
               /\ {name, newName} \subseteq {a.name : a \in Columns(k)}
            THEN Fail
            ELSE /\ attrs' = {IF a.class = k /\ a.name = name
                              THEN [a EXCEPT !.name = newName] ELSE a : a \in attrs}
                 /\ UNCHANGED <<cat, classes, nextClass, extensions, errs>>
    IN WithClass(rel, FALSE, Do)

(* applyRenameTable: the namespace stays. *)
RenameTable(rel, newName) ==
    LET to == Name(rel[1], newName)
        Do(k) ==
            IF ClassOIDs(to) \ {k} # {} THEN Fail
            ELSE /\ classes' = [classes EXCEPT ![k].rel = to]
                 /\ UNCHANGED <<cat, nextClass, attrs, extensions, errs>>
    IN WithClass(rel, FALSE, Do)

(* applyView: the view, or the table made by CREATE TABLE AS, that shows   *)
(* every column of relation src.  A view that is replaced is dropped       *)
(* first.  The analysis reads the expression of each type. *)
CreateView(rel, src, kind, replace) ==
    LET old == ClassOIDs(rel)
        keep == {a \in attrs : a.class \notin old}
        shown(k) == {[a EXCEPT !.class = nextClass, !.notNull = kind = "v" /\ @,
                               !.num = Cardinality({b \in Columns(k) : b.num <= @})] :
                         a \in Columns(k)}
        known(k) == {o \in UNION {Parts(cat, a.type) : a \in Columns(k)} : Read(cat)[o] # Unknown}
    IN /\ Going
       /\ IF old # {} /\ ~replace THEN Fail
          ELSE IF ClassOIDs(src) \ old = {}
          THEN /\ classes' = [j \in DOMAIN classes \ old |-> classes[j]]
               /\ attrs' = keep
               /\ errs' = TRUE
               /\ UNCHANGED <<cat, nextClass, extensions>>
          ELSE \E k \in ClassOIDs(src) \ old :
               /\ nextClass <= MaxClasses
               /\ NewClass(DOMAIN classes \ old, rel, kind)
               /\ attrs' = keep \cup shown(k)
               /\ cat' = [cat EXCEPT !.spaces = @ \cup {rel[1]},
                                     !.exprs = @ @@ [o \in known(k) |-> Read(cat)[o]],
                                     !.infos = @ @@ [o \in known(k) \ DOMAIN @ |-> cat.types[o]]]
               /\ UNCHANGED <<extensions, errs>>

(* A declaration: c is the catalog with the types it is made of interned.  *)
(* A type that exists already is left alone; one that interning has just   *)
(* registered runs into UNIQUE (namespace_oid, expr). *)
Declare(name, c, made(_)) ==
    LET row == Family(DeclaredIn(name), name[2])
        taken == FamilyOID(c, Name(row.ns, row.id)) # 0
    IN /\ Going
       /\ IF FamilyOID(cat, name) # 0 THEN Skip
          ELSE /\ cat.next <= MaxTypes
               /\ cat' = IF taken THEN c ELSE Insert(c, made(row))
               /\ errs' = (errs \/ taken)
               /\ UNCHANGED <<classes, nextClass, attrs, extensions>>

(* applyCreateEnum *)
CreateType(name) == Declare(name, cat, LAMBDA f : f)

(* applyCompositeType, of one field. *)
CreateComposite(name, field) ==
    \E t \in {Intern(cat, field)} :
        Declare(name, t.cat, LAMBDA f : [f EXCEPT !.arg = t.oid])

(* applyCreateDomain *)
CreateDomain(name, base, notNull) ==
    \E t \in {Intern(cat, base)} :
        Declare(name, Remember(t.cat, t.oid),
                LAMBDA f : [f EXCEPT !.base = t.oid, !.notNull = notNull])

(* applyCreateRange *)
CreateRange(name, subtype) ==
    \E t \in {Intern(cat, subtype)} :
        Declare(name, t.cat, LAMBDA f : [f EXCEPT !.element = t.oid])

(* What the database itself refuses: to drop a type that a column, or      *)
(* another declared type, is made of. *)
InUse(o) ==
    LET over == Over(cat, o) IN
    \/ \E a \in attrs : \E i \in DOMAIN a.expr : FamilyOID(cat, a.expr[i]) \in over
    \/ \E p \in Live(cat) \ {o} :
           cat.types[p].family = 0 /\ (p \in over \/ cat.types[p].arg \in over)

(* applyDropType, of a type nothing in the schema uses. *)
DropType(name, ifExists) ==
    LET o == FamilyOID(cat, name) IN
    /\ Going
    /\ IF o = 0 THEN IF ifExists THEN Skip ELSE Fail
       ELSE /\ o > Len(SeedTypes)
            /\ ~InUse(o)
            /\ cat' = DropRows(cat, Over(cat, o))
            /\ UNCHANGED <<classes, nextClass, attrs, extensions, errs>>

(* LoadExtension and the types it brings, once. *)
LoadExtension(ext) ==
    /\ Going
    /\ IF ext \in extensions THEN Skip
       ELSE /\ cat.next <= MaxTypes
            /\ extensions' = extensions \cup {ext}
            /\ cat' = IF FamilyOID(cat, Extensions[ext]) # 0 THEN cat
                      ELSE Insert(cat, Family(DeclaredIn(Extensions[ext]), Extensions[ext][2]))
            /\ UNCHANGED <<classes, nextClass, attrs, errs>>

CreateStmt ==
    \/ \E rel \in Tables, d \in Defs, b \in BOOLEAN : CreateTable(rel, <<d>>, b)
    \/ \E rel \in Tables, d, e \in Defs : CreateTable(rel, <<d, e>>, FALSE)
    \/ \E rel \in Views, src \in RelNames, b \in BOOLEAN : CreateView(rel, src, "v", b)
    \/ \E rel \in Views, src \in RelNames : CreateView(rel, src, "r", FALSE)

TableStmt(rel) ==
    \/ \E b \in BOOLEAN : DropTable(rel, b)
    \/ \E d \in Defs, b \in BOOLEAN : AddColumn(rel, d, b)
    \/ \E a \in ColNames : DropColumn(rel, a)
    \/ \E a \in ColNames, e \in Exprs, b \in BOOLEAN : AlterColumnType(rel, a, e, b)
    \/ \E a \in ColNames, b \in NotNulls : SetNotNull(rel, a, b)
    \/ \E a, b \in ColNames : RenameColumn(rel, a, b)
    \/ \E to \in RelNames : RenameTable(rel, to[2])

TypeStmt(name) ==
    \/ CreateType(name)
    \/ \E e \in BaseExprs : CreateComposite(name, e) \/ CreateRange(name, e)
    \/ \E e \in BaseExprs, b \in NotNulls : CreateDomain(name, e, b)
    \/ \E b \in BOOLEAN : DropType(name, b)

Next ==
    \/ CreateStmt
    \/ \E rel \in RelNames : TableStmt(rel)
    \/ \E name \in TypeNames : TypeStmt(name)
    \/ \E ext \in DOMAIN Extensions : LoadExtension(ext)

Spec == Init /\ [][Next]_vars
-----------------------------------------------------------------------------
(* Properties.                                                             *)

(* No type has two rows: what TypeExprOf reads back identifies the row,    *)
(* through every order of declarations, uses and drops. *)
InternedOnce ==
    LET R == Read(Restored(cat))
        known == {o \in Live(cat) : R[o] # Unknown}
    IN Cardinality({R[o] : o \in known}) = Cardinality(known)

(* "the array of one schema's mood is a row apart from the array of        *)
(* another's": the row of a column reads back as the type the column was   *)
(* declared with, and LookupTypeExpr, which analysis uses and which writes *)
(* nothing, finds that row again. *)
ColumnsResolve ==
    LET canonical(e) == [i \in DOMAIN e |-> QualifiedName(cat.types[FamilyOID(cat, e[i])])] IN
    \A a \in attrs : a.type \in Live(cat) =>
        /\ Lookup(cat, a.expr) = a.type
        /\ Read(cat)[a.type] = canonical(a.expr)

(* ADD COLUMN after DROP COLUMN never runs into UNIQUE (class_oid, num),   *)
(* and no two columns of a relation share a name. *)
ColumnsDistinct ==
    \A a, b \in attrs : a.class = b.class /\ (a.num = b.num \/ a.name = b.name) => a = b

(* "The result is the same every time": the type of each column reads the  *)
(* same in the run that built the catalog, whose typeCache has seen every  *)
(* statement, and in a later run that restores it. *)
RestoreAgrees ==
    ~errs => \A a \in attrs : Read(cat)[a.type] = Read(Restored(cat))[a.type]
====
