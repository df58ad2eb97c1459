------------------------------ MODULE Catalog ------------------------------
(***************************************************************************)
(* The in-memory catalog that sqlc builds from a schema's DDL              *)
(* (internal/sql/catalog).  Compiler.parseCatalogLegacy parses the schema  *)
(* files and calls Catalog.Update once per statement; an error of a        *)
(* statement is collected and the next statement is still applied, so the  *)
(* catalog lives on in whatever state the failing statement left it.       *)
(*                                                                         *)
(* A catalog value c is a record                                           *)
(*   schemas : the []*Schema, in order (names may repeat)                  *)
(*   cols    : the heap of Column structs, identified by their pointers;   *)
(*             a table holds pointers, and INHERITS makes two tables hold  *)
(*             the same one                                                *)
(*   err     : the statement being applied has returned an error           *)
(*                                                                         *)
(* Every handler is an operator from a catalog to the catalog it leaves    *)
(* behind, error or not.  "" is the empty string of the Go code, index 0   *)
(* its "not found".                                                        *)
(***************************************************************************)
EXTENDS Naturals, Sequences, FiniteSets, SequencesExt

CONSTANTS
    Langs,          \* parts of the language that schemas are written in, see below
    DefaultSchema,  \* Catalog.DefaultSchema
    TableSchemas,   \* how a table name is qualified: "" or a schema name
    EnumName(_, _)  \* fmt.Sprintf("%s_%s", table, column)

VARIABLES
    lang,   \* the part of the language the schema is written in
    cat,    \* the catalog
    failed  \* a statement has returned an error, so generate will fail

vars == <<lang, cat, failed>>

Engine == lang.engine             \* "postgresql" or "mysql": whose parser emits the statements
SchemaNames == lang.schemas       \* schema names that statements mention
Droppable == lang.droppable       \* schemas that DROP SCHEMA names
TableNames == lang.tables
ColNames == lang.columns
ColTypes == lang.colTypes         \* type names that column definitions use
TypeRefs == lang.types            \* type names that CREATE, ALTER and DROP TYPE use
NewTypeNames == lang.newTypes     \* new names in ALTER TYPE ... RENAME TO
Labels == lang.labels             \* enum labels
LikeTables == lang.like           \* whether CREATE TABLE ... LIKE occurs in the schema
NotNulls == lang.notNulls         \* IsNotNull of column definitions: a subset of BOOLEAN
MaxSchemas == lang.maxSchemas     \* bounds on the explored catalogs
MaxTypes == lang.maxTypes
MaxStmtCols == lang.maxStmtCols
MaxCols == lang.maxCols

ASSUME LangsAssumption ==
    \A l \in Langs :
        /\ l.engine \in {"postgresql", "mysql"}
        /\ DefaultSchema \in l.schemas /\ "" \notin l.schemas /\ l.droppable \subseteq l.schemas
        /\ l.colTypes \cup l.types \subseteq [schema : STRING, name : STRING]
        /\ l.notNulls \subseteq BOOLEAN
        /\ TableSchemas \subseteq l.schemas \cup {""}
        /\ {l.maxSchemas, l.maxTypes, l.maxStmtCols, l.maxCols} \subseteq Nat \ {0}

Fail(c) == [c EXCEPT !.err = TRUE]

(* Op applied to the items in order, from value s on. *)
Loop(s, items, Op(_, _)) ==
    LET after[i \in 0 .. Len(items)] == IF i = 0 THEN s ELSE Op(after[i - 1], items[i])
    IN  after[Len(items)]

(* Applies Op to the items in order and stops at the first error. *)
Each(c, items, Op(_, _)) == Loop(c, items, LAMBDA d, x : IF d.err THEN d ELSE Op(d, x))

---------------------------------------------------------------------------
(* Lookup *)

Ns(schema) == IF schema = "" THEN DefaultSchema ELSE schema

getSchema(c, name) == SelectInSeq(c.schemas, LAMBDA s : s.name = name)

schemaTable(s, name) == SelectInSeq(s.tables, LAMBDA t : t.rel.name = name)

schemaType(s, name) == SelectInSeq(s.types, LAMBDA t : t.name = name)

(* Catalog.getTable: where the table is; t = 0 when there is none. *)
getTable(c, rel) ==
    LET i == getSchema(c, Ns(rel.schema))
    IN  [s |-> i, t |-> IF i = 0 THEN 0 ELSE schemaTable(c.schemas[i], rel.name)]

tableAt(c, at) == c.schemas[at.s].tables[at.t]

(* Table.isExistColumn: the first column of that name. *)
isExistColumn(c, at, name) ==
    SelectInSeq(tableAt(c, at).cols, LAMBDA id : c.cols[id].name = name)

checkMissing(c, missingOk) == IF missingOk THEN c ELSE Fail(c)

(* The places of columns in tables: schema, table, column. *)
Places(c) ==
    UNION {UNION {{<<i, j, k>> : k \in DOMAIN c.schemas[i].tables[j].cols} :
                      j \in DOMAIN c.schemas[i].tables} :
               i \in DOMAIN c.schemas}

(* The pointer at a place. *)
At(c, p) == c.schemas[p[1]].tables[p[2]].cols[p[3]]

(* The order in which renameType and alterTypeSetSchema walk over schemas, *)
(* tables and columns. *)
Before(p, q) ==
    \/ p[1] < q[1]
    \/ p[1] = q[1] /\ p[2] < q[2]
    \/ p[1] = q[1] /\ p[2] = q[2] /\ p[3] < q[3]

(* Where the walk meets a column for the first time. *)
Firsts(c) == {p \in Places(c) : \A q \in Places(c) : At(c, q) = At(c, p) => ~Before(q, p)}

First(c, id) == CHOOSE p \in Firsts(c) : At(c, p) = id

(* What the garbage collector leaves: the columns some table points to,    *)
(* numbered in the order of the walk (only the identity of a pointer       *)
(* matters). *)
Collect(c) ==
    LET firsts == Firsts(c)
        rank(p) == Cardinality({q \in firsts : ~Before(p, q)})
        new(id) == rank(CHOOSE p \in firsts : At(c, p) = id)
        table(t) == [t EXCEPT !.cols = [k \in DOMAIN t.cols |-> new(t.cols[k])]]
        schema(s) == [s EXCEPT !.tables = [j \in DOMAIN s.tables |-> table(s.tables[j])]]
    IN  [c EXCEPT !.cols = [n \in 1 .. Cardinality(firsts) |->
                               c.cols[At(c, CHOOSE p \in firsts : rank(p) = n)]],
                  !.schemas = [i \in DOMAIN c.schemas |-> schema(c.schemas[i])]]

---------------------------------------------------------------------------
(* Schemas *)

createSchema(c, name, ifNotExists) ==
    LET exists == getSchema(c, name) # 0
    IN  CASE exists /\ name = DefaultSchema -> c
          [] exists /\ name # DefaultSchema /\ ~ifNotExists -> Fail(c)
          [] OTHER -> [c EXCEPT !.schemas =
                          Append(@, [name |-> name, tables |-> <<>>, types |-> <<>>])]

(* The loop keeps the LAST schema of that name, getSchema the first. *)
removeSchema(c, name, missingOk) ==
    LET idx == SelectLastInSeq(c.schemas, LAMBDA s : s.name = name)
    IN  IF idx = 0 THEN checkMissing(c, missingOk)
                   ELSE [c EXCEPT !.schemas = RemoveAt(@, idx)]

dropSchema(c, names, missingOk) ==
    Each(c, names, LAMBDA d, name : removeSchema(d, name, missingOk))

---------------------------------------------------------------------------
(* Types *)

(* createEnum and createCompositeType, which differ in the type they add. *)
createType(c, tn, kind, vals) ==
    LET i == getSchema(c, Ns(tn.schema))
    IN  IF \/ i = 0
           \/ schemaTable(c.schemas[i], tn.name) # 0
           \/ schemaType(c.schemas[i], tn.name) # 0
        THEN Fail(c)
        ELSE [c EXCEPT !.schemas[i].types =
                 Append(@, [kind |-> kind, name |-> tn.name, vals |-> vals])]

removeType(c, tn, ifExists) ==
    LET i == getSchema(c, Ns(tn.schema))
        k == IF i = 0 THEN 0 ELSE schemaType(c.schemas[i], tn.name)
    IN  IF k = 0 THEN checkMissing(c, ifExists)
                 ELSE [c EXCEPT !.schemas[i].types = RemoveAt(@, k)]

dropType(c, names, ifExists) ==
    Each(c, names, LAMBDA d, tn : removeType(d, tn, ifExists))

(* renameType.  stmt.Type is compared with every column's type in the      *)
(* order of the walk.  When the caller passed the address of a column's own    *)
(* type (alias is that column's pointer, else 0), the comparand changes as *)
(* soon as that column is renamed, so the columns after it keep the old    *)
(* name.                                                                   *)
renameType(c, tn, newName, alias) ==
    LET i == getSchema(c, Ns(tn.schema))
        k == IF i = 0 THEN 0 ELSE schemaType(c.schemas[i], tn.name)
        hit(id) == /\ c.cols[id].type = tn
                   /\ alias # 0 => \E p \in Places(c) : At(c, p) = id /\ ~Before(First(c, alias), p)
    IN  IF \/ k = 0
           \/ schemaTable(c.schemas[i], newName) # 0
           \/ schemaType(c.schemas[i], newName) # 0
        THEN Fail(c)
        ELSE [c EXCEPT
                !.schemas[i].types[k].name = newName,
                !.cols = [id \in DOMAIN c.cols |->
                    IF hit(id)
                    THEN [c.cols[id] EXCEPT !.type.name = newName]
                    ELSE c.cols[id]]]

alterTypeSetSchema(c, tn, newSchema) ==
    LET i == getSchema(c, Ns(tn.schema))
        k == IF i = 0 THEN 0 ELSE schemaType(c.schemas[i], tn.name)
        n == getSchema(c, newSchema)
    IN  IF \/ k = 0
           \/ n = 0
           \/ schemaTable(c.schemas[n], tn.name) # 0
           \/ schemaType(c.schemas[n], tn.name) # 0
        THEN Fail(c)
        ELSE [c EXCEPT
                !.schemas[i].types = RemoveAt(@, k),
                !.schemas[n].types = Append(@, c.schemas[i].types[k]),
                !.cols = [id \in DOMAIN c.cols |->
                    IF c.cols[id].type = tn
                    THEN [c.cols[id] EXCEPT !.type.schema = newSchema]
                    ELSE c.cols[id]]]

(* The enum a type statement is about; 0 when there is none. *)
enumAt(c, tn) ==
    LET i == getSchema(c, Ns(tn.schema))
        k == IF i = 0 THEN 0 ELSE schemaType(c.schemas[i], tn.name)
    IN  [s |-> i, k |-> IF k # 0 /\ c.schemas[i].types[k].kind = "enum" THEN k ELSE 0]

(* neighbor = "" when the statement names none. *)
alterTypeAddValue(c, tn, val, neighbor, isAfter, skipIfExists) ==
    LET at == enumAt(c, tn)
        vals == c.schemas[at.s].types[at.k].vals
        n == SelectInSeq(vals, LAMBDA v : v = neighbor)
        insertIndex == CASE neighbor = "" -> Len(vals) + 1
                         [] neighbor # "" /\ isAfter -> n + 1
                         [] OTHER -> n
    IN  CASE at.k = 0 -> Fail(c)
          [] at.k # 0 /\ Contains(vals, val) -> checkMissing(c, skipIfExists)
          [] at.k # 0 /\ ~Contains(vals, val) /\ neighbor # "" /\ n = 0 -> Fail(c)
          [] OTHER -> [c EXCEPT !.schemas[at.s].types[at.k].vals =
                          InsertAt(@, insertIndex, val)]

alterTypeRenameValue(c, tn, old, new) ==
    LET at == enumAt(c, tn)
        vals == c.schemas[at.s].types[at.k].vals
        n == SelectInSeq(vals, LAMBDA v : v = old)
    IN  IF at.k = 0 \/ n = 0 \/ Contains(vals, new)
        THEN Fail(c)
        ELSE [c EXCEPT !.schemas[at.s].types[at.k].vals[n] = new]

---------------------------------------------------------------------------
(* Tables *)

(* defineColumn: the Column struct of a definition.  An enum column of     *)
(* MySQL is linked to a type named after the table and the column, in the  *)
(* default schema whatever the table's schema is.                          *)
linkedName(table, col) == [schema |-> "", name |-> EnumName(table, col)]

columnOf(table, def) ==
    [name    |-> def.name,
     type    |-> IF def.vals # <<>> THEN linkedName(table, def.name) ELSE def.type,
     notNull |-> def.notNull,
     linked  |-> def.vals # <<>>]

defineLinked(c, table, def) ==
    IF def.vals # <<>>
    THEN createType(c, linkedName(table, def.name), "enum", def.vals)
    ELSE c

(* A table under construction: the catalog, the columns collected so far,  *)
(* and for the inherited names what the maps seen and coltype hold.        *)
Building(c, ids) == [c |-> c, ids |-> ids, seen |-> <<>>]

(* New Column structs, at the end of the table under construction. *)
Allocate(b, new) ==
    [b EXCEPT !.c.cols = @ \o new,
              !.ids = @ \o [k \in DOMAIN new |-> Len(b.c.cols) + k]]

(* Mutant: the last definition decides. *)
MergeSeenLast(b, name, type, notNull) ==
    IF b.seen[name].type # type
    THEN [b EXCEPT !.c = Fail(@)]
    ELSE [b EXCEPT !.seen[name].notNull = notNull]

MergeSeen(b, name, type, notNull) ==
    IF b.seen[name].type # type
    THEN [b EXCEPT !.c = Fail(@)]
    ELSE [b EXCEPT !.seen[name].notNull = @ \/ notNull]

(* The child's table points to the parent's own Column structs. *)
inheritColumn(b, id) ==
    LET col == b.c.cols[id]
    IN  CASE b.c.err -> b
          [] ~b.c.err /\ col.name \in DOMAIN b.seen ->
                MergeSeen(b, col.name, col.type, col.notNull)
          [] OTHER ->
                [b EXCEPT !.ids = Append(@, id),
                          !.seen = [n \in DOMAIN @ \cup {col.name} |->
                              IF n = col.name THEN [type |-> col.type, notNull |-> col.notNull]
                                              ELSE b.seen[n]]]

declareColumn(b, table, def) ==
    LET d == defineLinked(b.c, table, def)
    IN  CASE b.c.err -> b
          [] ~b.c.err /\ def.name \in DOMAIN b.seen ->
                MergeSeen(b, def.name, def.type, def.notNull)
          [] ~b.c.err /\ def.name \notin DOMAIN b.seen /\ d.err -> [b EXCEPT !.c = d]
          [] OTHER -> Allocate([b EXCEPT !.c = d], <<columnOf(table, def)>>)

(* The last loop: "If one of the merged columns was not null, mark the     *)
(* column as not null", through the pointers the table holds.              *)
markNotNull(b) ==
    [b.c EXCEPT !.cols = [id \in DOMAIN @ |->
        IF id \in Range(b.ids) /\ b.c.cols[id].name \in DOMAIN b.seen
        THEN [b.c.cols[id] EXCEPT !.notNull = b.seen[b.c.cols[id].name].notNull]
        ELSE b.c.cols[id]]]

(* The columns of a new table: those of the parents, of the LIKE table,    *)
(* and its own.                                                            *)
collectColumns(c, stmt, parents, refers) ==
    LET inherited == Loop(Building(c, <<>>), parents,
                          LAMBDA b, p : Loop(b, tableAt(c, p).cols, inheritColumn))
        like(b, ids) == Allocate(b, [k \in DOMAIN ids |-> c.cols[ids[k]]])
        liked == IF refers = <<>> THEN inherited ELSE like(inherited, tableAt(c, refers[1]).cols)
    IN  Loop(liked, stmt.cols, LAMBDA b, def : declareColumn(b, stmt.rel.name, def))

(* stmt: rel, ifNotExists, inherits (names, looked up in the new table's   *)
(* own schema), refer (<<>> or the one LIKE table), cols.                  *)
createTable(c, stmt) ==
    LET at      == getTable(c, stmt.rel)
        parents == [k \in DOMAIN stmt.inherits |->
                        [s |-> at.s, t |-> schemaTable(c.schemas[at.s], stmt.inherits[k])]]
        refers  == [k \in DOMAIN stmt.refer |-> getTable(c, stmt.refer[k])]
        built   == collectColumns(c, stmt, parents, refers)
    IN  CASE at.s = 0 -> Fail(c)
          [] at.t # 0 -> checkMissing(c, stmt.ifNotExists)
          [] at.s # 0 /\ at.t = 0 /\ \E p \in Range(parents \o refers) : p.t = 0 -> Fail(c)
          [] OTHER ->
                IF built.c.err
                THEN built.c
                ELSE [markNotNull(built) EXCEPT !.schemas[at.s].tables =
                         Append(@, [rel |-> stmt.rel, cols |-> built.ids])]

(* createView and createTableAs: the columns are those of the query;       *)
(* <<>> stands for a query whose columns cannot be computed.               *)
addRelation(c, rel, defs, replace) ==
    LET at == getTable(c, rel)
        b  == Allocate(Building(c, <<>>), [k \in DOMAIN defs |-> columnOf(rel.name, defs[k])])
        tbl == [rel |-> rel, cols |-> b.ids]
    IN  CASE defs = <<>> \/ at.s = 0 \/ (at.t # 0 /\ ~replace) -> Fail(c)
          [] defs # <<>> /\ at.t # 0 /\ replace -> [b.c EXCEPT !.schemas[at.s].tables[at.t] = tbl]
          [] OTHER -> [b.c EXCEPT !.schemas[at.s].tables = Append(@, tbl)]

(* The types of the table's enum columns are dropped before it. *)
removeTable(c, rel, ifExists) ==
    LET at == getTable(c, rel)
        e  == Each(c, tableAt(c, at).cols, LAMBDA d, id :
                  IF c.cols[id].linked THEN removeType(d, c.cols[id].type, FALSE) ELSE d)
    IN  CASE at.t = 0 -> checkMissing(c, ifExists)
          [] at.t # 0 /\ e.err -> e
          [] OTHER -> [e EXCEPT !.schemas[at.s].tables = RemoveAt(@, at.t)]

dropTable(c, rels, ifExists) ==
    Each(c, rels, LAMBDA d, rel : removeTable(d, rel, ifExists))

(* Mutant: the table keeps the schema name it had. *)
alterTableSetSchemaStale(c, rel, newSchema, missingOk) ==
    LET at == getTable(c, rel)
        n  == getSchema(c, newSchema)
    IN  CASE at.t = 0 -> checkMissing(c, missingOk)
          [] at.t # 0 /\ n = 0 -> Fail(c)
          [] at.t # 0 /\ n # 0 /\ schemaTable(c.schemas[n], rel.name) # 0 -> Fail(c)
          [] OTHER -> [c EXCEPT !.schemas[at.s].tables = RemoveAt(@, at.t),
                                !.schemas[n].tables = Append(@, tableAt(c, at))]

(* The table's name is its Rel.Schema's from here on, also when the new    *)
(* schema is then found missing or to hold a table of this name.           *)
alterTableSetSchema(c, rel, newSchema, missingOk) ==
    LET at    == getTable(c, rel)
        moved == [c EXCEPT !.schemas[at.s].tables[at.t].rel.schema = newSchema]
        n     == getSchema(c, newSchema)
    IN  CASE at.t = 0 -> checkMissing(c, missingOk)
          [] at.t # 0 /\ n = 0 -> Fail(moved)
          [] at.t # 0 /\ n # 0 /\ schemaTable(c.schemas[n], rel.name) # 0 -> Fail(moved)
          [] OTHER -> [moved EXCEPT
                          !.schemas[at.s].tables = RemoveAt(@, at.t),
                          !.schemas[n].tables = Append(@, tableAt(moved, at))]

(* A rename that leaves the linked type alone. *)
writeColumnName(c, rel, col, newName, name, missingOk) ==
    LET at  == getTable(c, rel)
        ids == tableAt(c, at).cols
        idx == SelectLastInSeq(ids, LAMBDA id : c.cols[id].name = col)
    IN  CASE at.t = 0 -> checkMissing(c, missingOk)
          [] at.t # 0 /\ (idx = 0 \/ isExistColumn(c, at, newName) # 0) -> Fail(c)
          [] OTHER -> [c EXCEPT !.cols[ids[idx]].name = name]

(* Mutant: the linked type keeps its name. *)
renameColumnOnly(c, rel, col, newName, missingOk) ==
    writeColumnName(c, rel, col, newName, newName, missingOk)

renameColumn(c, rel, col, newName, missingOk) ==
    LET at  == getTable(c, rel)
        ids == tableAt(c, at).cols
        idx == SelectLastInSeq(ids, LAMBDA id : c.cols[id].name = col)
        d   == [c EXCEPT !.cols[ids[idx]].name = newName]
    IN  CASE at.t = 0 -> checkMissing(c, missingOk)
          [] at.t # 0 /\ (idx = 0 \/ isExistColumn(c, at, newName) # 0) -> Fail(c)
          [] OTHER ->
                IF d.cols[ids[idx]].linked
                THEN renameType(d, d.cols[ids[idx]].type,
                                EnumName(tableAt(d, at).rel.name, newName), ids[idx])
                ELSE d

(* Mutant: a table of the new name is not looked for. *)
renameTableUnchecked(c, rel, newName, missingOk) ==
    LET at == getTable(c, rel)
    IN  IF at.t = 0 THEN checkMissing(c, missingOk)
        ELSE [c EXCEPT !.schemas[at.s].tables[at.t].rel.name = newName]

renameTable(c, rel, newName, missingOk) ==
    LET at == getTable(c, rel)
        d  == [c EXCEPT !.schemas[at.s].tables[at.t].rel.name = newName]
    IN  CASE at.t = 0 -> checkMissing(c, missingOk)
          [] at.t # 0 /\ schemaTable(c.schemas[at.s], newName) # 0 -> Fail(c)
          [] OTHER -> Each(d, tableAt(d, at).cols, LAMBDA e, id :
                IF e.cols[id].linked
                THEN renameType(e, e.cols[id].type, EnumName(newName, e.cols[id].name), id)
                ELSE e)

---------------------------------------------------------------------------
(* ALTER TABLE *)

addColumn(c, at, cmd) ==
    LET tbl == tableAt(c, at)
        d   == defineLinked(c, tbl.rel.name, cmd.def)
        b   == Allocate(Building(d, tbl.cols), <<columnOf(tbl.rel.name, cmd.def)>>)
    IN  CASE isExistColumn(c, at, cmd.def.name) # 0 -> checkMissing(c, cmd.missingOk)
          [] isExistColumn(c, at, cmd.def.name) = 0 /\ d.err -> d
          [] OTHER -> [b.c EXCEPT !.schemas[at.s].tables[at.t].cols = b.ids]

dropColumn(c, at, cmd) ==
    LET k  == isExistColumn(c, at, cmd.name)
        id == tableAt(c, at).cols[k]
        d  == IF c.cols[id].linked THEN removeType(c, c.cols[id].type, FALSE) ELSE c
    IN  CASE k = 0 -> checkMissing(c, cmd.missingOk)
          [] k # 0 /\ d.err -> d
          [] OTHER -> [d EXCEPT !.schemas[at.s].tables[at.t].cols = RemoveAt(@, k)]

(* A write through the table's pointer to the column. *)
alterColumn(c, at, cmd, Write(_)) ==
    LET k == isExistColumn(c, at, cmd.name)
    IN  IF k = 0 THEN checkMissing(c, cmd.missingOk)
                 ELSE [c EXCEPT !.cols[tableAt(c, at).cols[k]] = Write(@)]

alterColumnType(c, at, cmd) ==
    alterColumn(c, at, cmd, LAMBDA col : [col EXCEPT !.type = cmd.type])

dropNotNull(c, at, cmd) == alterColumn(c, at, cmd, LAMBDA col : [col EXCEPT !.notNull = FALSE])

setNotNull(c, at, cmd) == alterColumn(c, at, cmd, LAMBDA col : [col EXCEPT !.notNull = TRUE])

alterTableCmd(c, at, cmd) ==
    CASE cmd.op = "AddColumn"       -> addColumn(c, at, cmd)
      [] cmd.op = "AlterColumnType" -> alterColumnType(c, at, cmd)
      [] cmd.op = "DropColumn"      -> dropColumn(c, at, cmd)
      [] cmd.op = "DropNotNull"     -> dropNotNull(c, at, cmd)
      [] cmd.op = "SetNotNull"      -> setNotNull(c, at, cmd)
      [] cmd.op = "Other"           -> c

isStmtImplemented(cmds) == \E cmd \in Range(cmds) : cmd.op # "Other"

alterTable(c, rel, cmds, missingOk) ==
    LET at == getTable(c, rel)
    IN  CASE ~isStmtImplemented(cmds) -> c
          [] isStmtImplemented(cmds) /\ at.t = 0 -> checkMissing(c, missingOk)
          [] OTHER -> Each(c, cmds, LAMBDA d, cmd : alterTableCmd(d, at, cmd))

---------------------------------------------------------------------------
(* The statements the engines' parsers emit *)

Rels == [schema : TableSchemas, name : TableNames]

(* ALTER ... IF EXISTS: the MySQL parser keeps it for DROP COLUMN only. *)
MissingOk == IF Engine = "mysql" THEN {FALSE} ELSE BOOLEAN

EnumVals == IF Engine = "mysql" THEN {<<>>} \cup {<<v>> : v \in Labels} ELSE {<<>>}

ColDefs == [name : ColNames, type : ColTypes, notNull : NotNulls, vals : EnumVals]

QueryCols == {d \in ColDefs : d.vals = <<>>}

(* Column lists a database accepts: no name twice. *)
DefLists(Defs) ==
    {ds \in BoundedSeq(Defs, MaxStmtCols) :
        \A i, j \in DOMAIN ds : ds[i].name = ds[j].name => i = j}

(* MODIFY and CHANGE COLUMN of MySQL: drop the column and add the new one. *)
Cmds ==
    LET names == [op : {"DropColumn"}, name : ColNames, missingOk : BOOLEAN]
        adds  == [op : {"AddColumn"}, def : ColDefs, missingOk : MissingOk]
        other == [op : {"Other"}]
        change(n, d) == <<[op |-> "DropColumn", name |-> n, missingOk |-> FALSE],
                          [op |-> "AddColumn", def |-> d, missingOk |-> FALSE]>>
        alters == [op : {"AlterColumnType"}, name : ColNames, type : ColTypes,
                   missingOk : {FALSE}]
        nulls  == [op : {"SetNotNull", "DropNotNull"}, name : ColNames, missingOk : {FALSE}]
    IN  {<<cmd>> : cmd \in names \cup adds \cup other}
            \cup IF Engine = "mysql"
                 THEN {change(n, d) : n \in ColNames, d \in ColDefs}
                 ELSE {<<cmd>> : cmd \in alters \cup nulls}

(* Two different parents or one LIKE table at most; MySQL's LIKE excludes  *)
(* a column list, and every other CREATE TABLE of MySQL has one.           *)
CreateTableStmts ==
    {stmt \in
        [rel : Rels, ifNotExists : BOOLEAN,
         inherits : IF Engine = "mysql" THEN {<<>>}
                    ELSE {ps \in BoundedSeq(TableNames, 2) : IsInjective(ps)},
         refer : IF LikeTables THEN BoundedSeq(Rels, 1) ELSE {<<>>},
         cols : DefLists(ColDefs)] :
        /\ stmt.refer = <<>> \/ stmt.inherits = <<>>
        /\ Engine = "mysql" => (stmt.refer = <<>>) # (stmt.cols = <<>>)}

---------------------------------------------------------------------------
(* Catalog.Update *)

Init ==
    /\ lang \in Langs
    /\ cat = [schemas |-> <<[name |-> DefaultSchema, tables |-> <<>>, types |-> <<>>]>>,
              cols |-> <<>>, err |-> FALSE]
    /\ failed = FALSE

Bounded(c) ==
    /\ Len(c.schemas) <= MaxSchemas
    /\ Len(FlattenSeq([i \in DOMAIN c.schemas |-> c.schemas[i].types])) <= MaxTypes
    /\ \A i \in DOMAIN c.schemas : \A t \in Range(c.schemas[i].tables) : Len(t.cols) <= MaxCols

(* One statement has been applied and left the catalog c. *)
Update(c) ==
    /\ Bounded(c)
    /\ cat' = IF c = Fail(cat) THEN cat ELSE [Collect(c) EXCEPT !.err = FALSE]
    /\ failed' = (failed \/ c.err)
    /\ UNCHANGED lang

CreateSchema == \E n \in SchemaNames, ine \in BOOLEAN : Update(createSchema(cat, n, ine))

DropSchema == \E n \in Droppable, ok \in BOOLEAN : Update(dropSchema(cat, <<n>>, ok))

CreateTable == \E stmt \in CreateTableStmts : Update(createTable(cat, stmt))

CreateTableAs == \E rel \in Rels, defs \in DefLists(QueryCols) :
    Update(addRelation(cat, rel, defs, FALSE))

CreateView == \E rel \in Rels, defs \in DefLists(QueryCols), replace \in BOOLEAN :
    Update(addRelation(cat, rel, defs, replace))

DropTable == \E rels \in {<<r>> : r \in Rels} \cup {<<r, q>> : r, q \in Rels}, ok \in BOOLEAN :
    Update(dropTable(cat, rels, ok))

AlterTable == \E rel \in Rels, cmds \in Cmds, ok \in MissingOk :
    Update(alterTable(cat, rel, cmds, ok))

RenameColumn == \E rel \in Rels, col, new \in ColNames, ok \in MissingOk :
    Update(renameColumn(cat, rel, col, new, ok))

RenameTable == \E rel \in Rels, new \in TableNames, ok \in MissingOk :
    Update(renameTable(cat, rel, new, ok))

(* RENAME TABLE a TO b, c TO d: Update walks an ast.List of statements. *)
RenameTables ==
    /\ Engine = "mysql"
    /\ \E r, q \in Rels, n, m \in TableNames :
        Update(Each(cat, <<<<r, n>>, <<q, m>>>>, LAMBDA d, x : renameTable(d, x[1], x[2], FALSE)))

AlterTableSetSchema ==
    /\ Engine = "postgresql"
    /\ \E rel \in Rels, n \in SchemaNames, ok \in BOOLEAN :
        Update(alterTableSetSchema(cat, rel, n, ok))

CreateEnum ==
    /\ Engine = "postgresql"
    /\ \E tn \in TypeRefs, v \in Labels : Update(createType(cat, tn, "enum", <<v>>))

CreateCompositeType ==
    /\ Engine = "postgresql"
    /\ \E tn \in TypeRefs : Update(createType(cat, tn, "composite", <<>>))

DropType ==
    /\ Engine = "postgresql"
    /\ \E tns \in {<<t>> : t \in TypeRefs} \cup {<<t, u>> : t, u \in TypeRefs}, ok \in BOOLEAN :
        Update(dropType(cat, tns, ok))

RenameType ==
    /\ Engine = "postgresql"
    /\ \E tn \in TypeRefs, n \in NewTypeNames : Update(renameType(cat, tn, n, 0))

AlterTypeSetSchema ==
    /\ Engine = "postgresql"
    /\ \E tn \in TypeRefs, n \in SchemaNames : Update(alterTypeSetSchema(cat, tn, n))

AlterTypeAddValue ==
    /\ Engine = "postgresql"
    /\ \E tn \in TypeRefs, v \in Labels, w \in Labels \cup {""}, after, skip \in BOOLEAN :
        Update(alterTypeAddValue(cat, tn, v, w, after, skip))

AlterTypeRenameValue ==
    /\ Engine = "postgresql"
    /\ \E tn \in TypeRefs, v, w \in Labels : Update(alterTypeRenameValue(cat, tn, v, w))

Next ==
    \/ CreateSchema \/ DropSchema
    \/ CreateTable \/ CreateTableAs \/ CreateView \/ DropTable
    \/ AlterTable \/ RenameColumn \/ RenameTable \/ RenameTables \/ AlterTableSetSchema
    \/ CreateEnum \/ CreateCompositeType \/ DropType \/ RenameType \/ AlterTypeSetSchema
    \/ AlterTypeAddValue \/ AlterTypeRenameValue

Spec == Init /\ [][Next]_vars

---------------------------------------------------------------------------
(* Properties *)

(* No schema ever holds two tables, or two types, of one name, whatever    *)
(* CREATE, RENAME, SET SCHEMA and failing statements came before: getTable *)
(* and getType return the first match and would never reach the second.    *)
(* Where there is no INHERITS, through which a rename reaches tables that  *)
(* nobody checked, the same goes for the columns of a table.               *)
NamesUnique ==
    \A s \in Range(cat.schemas) :
        /\ IsInjective([j \in DOMAIN s.tables |-> s.tables[j].rel.name])
        /\ IsInjective([k \in DOMAIN s.types |-> s.types[k].name])
        /\ Engine = "mysql" =>
              \A t \in Range(s.tables) :
                  IsInjective([k \in DOMAIN t.cols |-> cat.cols[t.cols[k]].name])

(* While no statement has failed, a table's own Rel.Schema, which code     *)
(* generation reads, names the schema that lists the table.                *)
RelSchemaAgrees ==
    ~failed =>
        \A s \in Range(cat.schemas) : \A t \in Range(s.tables) : Ns(t.rel.schema) = s.name

Resolves(c, tn) ==
    LET i == getSchema(c, Ns(tn.schema)) IN i # 0 /\ schemaType(c.schemas[i], tn.name) # 0

(* While no statement has failed, the enum of every linked column exists   *)
(* and carries the table's and the column's present names, through any     *)
(* order of renames, MODIFY and DROP.                                      *)
LinkedTypesFollow ==
    ~failed =>
        \A s \in Range(cat.schemas) : \A t \in Range(s.tables) : \A id \in Range(t.cols) :
            cat.cols[id].linked =>
                /\ Resolves(cat, cat.cols[id].type)
                /\ cat.cols[id].type = linkedName(t.rel.name, cat.cols[id].name)

(* The column an existing table points to, in the next state, by its       *)
(* place (pointers are renumbered).                                        *)
ColumnAfter(i, j, k) == cat'.cols[cat'.schemas[i].tables[j].cols[k]]

(* The step added a table: CREATE TABLE, CREATE TABLE AS or CREATE VIEW. *)
TableAdded ==
    /\ DOMAIN cat'.schemas = DOMAIN cat.schemas
    /\ \A i \in DOMAIN cat.schemas : Len(cat'.schemas[i].tables) >= Len(cat.schemas[i].tables)
    /\ \E i \in DOMAIN cat.schemas : Len(cat'.schemas[i].tables) > Len(cat.schemas[i].tables)

(* CREATE TABLE leaves every existing column as it was, except that a      *)
(* merged INHERITS column may become NOT NULL; it never relaxes one.       *)
CreateOnlyTightens ==
    [][TableAdded =>
        \A i \in DOMAIN cat.schemas : \A j \in DOMAIN cat.schemas[i].tables :
            LET ids == cat.schemas[i].tables[j].cols
            IN  \A k \in DOMAIN ids :
                    ColumnAfter(i, j, k) \in
                        {cat.cols[ids[k]], [cat.cols[ids[k]] EXCEPT !.notNull = TRUE]}]_vars

=============================================================================
