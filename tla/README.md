# A verification development for sqlc

sqlc reads a configuration, a schema and queries, and generates code. This
directory holds TLA+ models of the parts of it whose correctness depends on
order, sharing or failure, TLC runs that check them on small instances, and
TLAPS proofs for all instances. `PROJECT.json` relates every definition to the
lines of source it translates, lists the runs, the mutants that show each
property can fail, the findings, the hazards and the theorems.

To repeat: `tlc -config <run>.cfg <module>` for a run, `tlapm <module>Proofs.tla`
for the proofs.

## 1. Inventory

How a run of `sqlc generate` goes: `cmd/generate.go` reads the configuration and
calls `processQuerySets`, which starts a goroutine per *pair* (a query set and a
backend). Each makes a `compiler.Compiler`, which parses the schema files into a
catalog (`sql/catalog`, or the SQLite-backed `core` one), then preprocesses,
parses and analyses the queries, against the catalog or a managed database
(`dbmanager`), with results kept in an on-disk cache (`cache`). The backend
(`codegen/golang`, a process or a WASM plugin) answers with files; when all
pairs are done they are written.

| component | state | operations | hard part | what makes it correct |
|---|---|---|---|---|
| Catalog (`sql/catalog`) | schemas, tables, columns (shared by pointer), types | one handler per DDL statement | failing statements leave partial changes; columns shared by INHERITS; enums owned by columns; aliasing in `renameType` | unique names; tables know their schema; enums follow their columns; a statement changes only what it is about |
| Disk cache (`cache`) | files under `cas/`, `ac/`, `tmp/` shared by all sqlc processes | Get, Put, Contains, Filename, GetTree, PutTree | no locks, crashes between system calls, eviction races, no fsync | nothing partial visible; entries backed by blobs; hits are what was stored; damage heals |
| Users of the cache (`analyzer`, `core/cache.go`, `ext/wasm`) | – | look up, recompute, store | errors that cost the run or only the entry | same |
| Generate (`cmd/process.go`, `cmd/generate.go`, `cmd/cmd.go`) | output map, mutex, `errored`, a buffer per pair | start, parse, generate, collect, report, write | goroutines, early returns under a lock, failure of some pairs | all or nothing; complete; ordered reports; termination |
| Compiler (`compiler`) | catalog, queries, errors | parse, resolve, expand, analyse | concurrent analysis of statements | results in source order |
| Managed databases (`dbmanager`, `pgx/poolcache`) | databases on a server, pools | create, migrate, reuse | two processes, crash during migration, replies that are lost, check-then-act on pools | a database that is used is fully migrated; every pool is closed |
| Core catalog, connections (`core/db.go`, `core/catalog.go`) | a pool of connections, prepared statements, a transaction | begin, prepare, run, commit, close | one connection while the catalog is built; goroutines that prepare one query at once | no use of a closed statement, one statement per query, no self-deadlock |
| Core catalog, contents (`core/types.go`, `core/schema`) | rows for types, relations and columns; a cache of types in front | one handler per DDL statement, interning of types, restore from disk | names that mean different types in different schemas; drops behind the cache | a type has one row; columns read back as declared; a restored catalog says the same |
| Core analyzer (`core/analyzer`) | the scope of a query, the common table expressions | bind, join, merge, group, project, derive, return | nested outer joins, USING and NATURAL; a map shared with nested statements | what is called NOT NULL never is NULL; names resolve as in SQL |
| Preprocessing, named parameters (`sql/preprocess`, `sql/named`) | the output text, the edits, and per statement the parameters and tables of offsets | scan, number, rewrite | positions after a rewrite; numbers given beside numbers written | every offset leads back; one number per argument, without gaps |
| Arguments of generated code (`compiler/analyze.go`, `codegen/golang`) | parameters, fields, the arguments of a call | deduplicate, sort, make fields, pass | order of placeholders against order of arguments; slices that grow at run time | each placeholder gets the argument the user meant |
| Digest of the tool (`cache/tool.go`) | a memo file shared by all processes | stat, read the memo, hash, write it | a binary replaced under running processes | results of one build are not used by another |
| Source edits (`source`), migrations, metadata | – | pure text | off-by-one | equals a reference |
| Engines, codegen, config, protobuf, tools | – | parsers, templates, decoding | – | left to tests |

## 2. Plan

Done: `DiskCache`, `Generate`, `Catalog`; `ManagedDB`, `StmtCache` and
`ParseQueries` with the abstract `SourceOrder`; `CoreCatalog`; `Scope` with the
reference `SqlNulls`; `Preprocess` and `QueryArgs`, which composes it with its
users; `ToolDigest`. Proved: every safety property that the passing runs check of
`DiskCache`, `Generate`, `ManagedDB`, `ParseQueries` (the refinement of `SourceOrder` included),
`Preprocess` and `ToolDigest`; of `Catalog` all but `LinkedTypesFollow`;
`ColumnsDistinct` of `CoreCatalog`.

Next, in this order:

1. Proofs: the other properties of `CoreCatalog`, for which the recursion of
   `Intern` and `Read` becomes recursive functions as the loops of `Catalog` did.
2. An abstract specification of the cache as a map from actions to results that
   `DiskCache` implements while power lasts.
3. LATERAL and correlated queries, MERGE and ON CONFLICT in `Scope`.
4. Composition of `DiskCache` and `ParseQueries`: today the outcome of a restore
   is a choice.
5. The lexer of the preprocessor, and the loading of plugins.

## 3. The models

### DiskCache

State: `cas` and `ac` give each file's condition (absent, whole, torn with the
right size, short); a process has a program counter `pc`, the outputs its loop
has still to visit `todo`, the present one `cur`, its staging file `tmp` and the
answer of its run `got`. One action per system call that another process can
come between: `AcGet`, `AcStat`, `AcEvict` are `ActionCache.Get`; `CasGet`,
`CasEvict` are `CAS.Get` (and `GetTree`, which writes only to a private
directory); `PutStat`, `CreateTemp`, `WriteTemp`, `PutRename` are `CAS.Put` (and
`PutTree`); `AcPut`, `AcRename` and again the two staging actions are
`ActionCache.Put`; `Filename` and `OpenFile` are `restore`. `PutFails` and
`GetFails` are the error returns, `Crash` the death of a process and `PowerLoss`
that of the machine, after which any file may be lost, torn or short, since
`Put` does not sync. The constant `Kind` says which of four users an action
belongs to: they differ in what a cache error costs and in whether the hash is
checked on a hit. `lost` remembers a power loss for the properties.

Abstracted: a digest stands for its contents (the hash is taken to be
injective), the output names are left out, and MkdirAll is part of the step
after it. The digest of the binary, part of every key, is the subject of
`ToolDigest`.

### ToolDigest

A binary is a build with a size and a modification time; `Rebuild` installs
another under running processes, an earlier one with its old size and time
included. A process starts (`Exec`), then stats its path,
reads the memo, and on a miss hashes the file and writes the memo, each a step
others come between, and each of which may fail. With the digest it looks a
result up or computes and stores it, tagged with the build that made it.
`excused`, `raced` and `misled` are history: the processes whose binary was
replaced before they had hashed it, or could not be read; whether there ever was
one; and the builds whose stamp such a process saved with the hash it had read.
Abstracted: two builds never have one size and modification time; the memo file
is written whole (the cache's rename).

### Generate

The main goroutine (`main`, `next`) starts pairs as long as fewer than `Limit`
run, waits, then copies the buffers or writes the files; a pair (`pc`) parses,
generates, locks, adds its files one by one and unlocks. Contents are
represented by the pair that made them. `Fail` writes the pair's buffer and sets
`errored`. A path is the sequence of its elements; `Refused` is the two checks of
`ProcessResult`, of which `HasPrefix` compares characters, so that an element
may go on where the directory ends (`Longer`). The early returns for a refused
path keep the mutex, and so does `Add`. Parsing and code generation are one step each that
succeeds or fails.

### Catalog

`cat` holds the ordered schemas with their tables and types, and the heap `cols`
of Column structs by pointer, for INHERITS shares them. Every handler of
`Catalog.Update` is an operator from a catalog to the catalog it leaves, with
`err` set if it returned an error; the actions apply one statement each, as
`parseCatalogLegacy` does, and go on after a failing one (`failed` remembers
it). `lang` selects the statements: MySQL's parser emits enum columns,
MODIFY, CHANGE and RENAME TABLE lists; PostgreSQL's schemas to move
to, INHERITS or LIKE, and types. The loops of the handlers are `Loop` (a recursive
function over the items) and `Each`, which stops at the first error as the code's
early returns do; `collectColumns` is the part of CREATE TABLE that gathers columns
from INHERITS, LIKE and the definitions. `Collect` renumbers the pointers after a
statement by the first place (schema, table, column) that holds each, and drops
what no table points to, which keeps the state space finite.

Abstracted: functions, extensions and comments; the attributes of a column that
no property tells apart; the module of a virtual table; the columns of a view or
CREATE TABLE AS are given, not computed from the query.

### ManagedDB

The server (`db`: how many migrations each database has seen, or absent) is
shared by processes; each process has a singleflight group (`flight`), each
client a pool cache (`made`, `pools`, `released`, `shut`). A caller is a
goroutine: `Open`, `NewPool` and `Store` are the three parts of
`poolcache.Open` between which the lock is not held; `Enter`, `Check`, `Create`,
`Connect`, `Migrate`, `Drop` and `Finish` are the statements of
`CreateDatabase`, each of which may fail as the server or the network may.
`Retry` is `Analyzer.Analyze` asking again at the next query. `Crash` kills a
process and leaves its database behind. An error does not say that the server did
nothing: a `Create` whose reply is lost, or whose process dies, leaves a CREATE
that the server may run yet (`creates`, `LateCreate`), a DROP likewise (`drops`,
`LateDrop`), and a `Migrate` whose reply is lost has been applied and leads to the
DROP all the same. `maker` and `spoiled` are history: the process that made the
last database of the name, and whether a crash or a lost reply concerned it. One
migration script is applied whole or not at all, for PostgreSQL runs a
multi-statement `Exec` in one transaction. Left out: a script that is applied after
its caller has gone; its database is spoiled already. The two goroutines of one
client that `LeakBounded` is about are those a user of `poolcache` may have; in
sqlc each pair has a client of its own and asks from one goroutine.

### StmtCache, ParseQueries, SourceOrder

`StmtCache` is `core/db.go`: `prepared` in its three critical parts (`Look`
under the read lock, `Prepare` without a lock, `Publish` under the lock), the
calls around it (`Call`, `Run`, `Rows`, `Fallback` and the failures), and
`Begin`, `EndTx`, `Close`. A handle says which goroutine prepared it for which
query and on what; `live` holds those not closed. `free` counts connections: one
while a catalog is built, `Limit` for a file.

`ParseQueries` composes it with its users. The caller either restores a cached
catalog (falling back to building one if that fails) or builds it: `BeginSetup`,
the queries of the seed inside the transaction, `CommitSetup`, then the schema
outside it, statement by statement with errors remembered. Then
`analyzeStatements`: `Spawn`, the goroutines with their lookups, `Wait`, and the
loop of `parseQueries` as `Merge`, `MergeDone`, `Reported`. Everything ends in
`CloseCatalog`.

`SourceOrder` is what is promised: the report is determined by the outcomes
alone (`IsReport`: which statements it lists, each once, in source order). `InSourceOrder` is its specification with the results of the goroutines
that have returned substituted for `outcome`.

Abstracted: what an analysis comes to is chosen from `Outcome`; the texts of the
catalog's queries are constants, some of which run through `QueryRowContext`.

### CoreCatalog

`cat` is sql_type (`types`, by oid), the next oid, the namespaces, and the
`typeCache` (`infos` by `LookupType`, `exprs` by `TypeExprOf`), which a DROP TYPE
does not tell. The operators `InternFamily`, `Key`, `InternInstance`, `Intern`,
`Lookup`, `Read` and `Over` are the functions of `core/types.go` on that value.
The actions are the statements `schema.Apply` handles; a failing one keeps what
it has written, and `errs` ends the behaviour, for a catalog with an error is
never used. A type expression is the sequence of its family names. `expr` in a
column is history: the type it was declared with.

Abstracted: arguments that are not types (lengths, precisions), labels of enums,
functions, operators and casts. A composite has one field. `InUse` keeps DROP
TYPE to what the database itself would accept, since a schema is one that was
applied to a database.

### Scope, SqlNulls

`rels` and `joined` are the fields of the analyzer's `scope`; an action binds a
relation, joins the last two items of FROM, groups, or projects. Nested
statements are analyzers of their own: `Nest` suspends the present one in
`waiting`, and when the nested one has its `result`, that becomes a relation of
FROM (`Derive`), a common table expression (`DefineCte`), a branch of a set
operation (`LeftBranch`, `SetOperation`) or a value (`SubLink`). `command` tells
SELECT from INSERT and from UPDATE and DELETE, whose scope starts with the target
and serves RETURNING. `ctes` is the analyzer's map of common table expressions,
which nested analyzers share once it exists (`CtesAfter`); `meant` is what the
database would know. Each item of FROM also carries the columns and possible rows
of `SqlNulls`: a row is the set of its NULL columns, over every contents of the
tables. `typeCoalesce`, `typeAExpr` and the other operators named after
functions of `expr.go` give the nullability of an expression; `ValueOf` computes
the expression on three-valued operands. `beyond` is history: it collects the uses
for which the analyzer is known to be wrong (`Beyond`: an operator without a value
for some operands, = ANY of an array with a NULL in it, a strict function of a
nullable argument where NULL is not propagated; and a relation misread because a
nested WITH gave its name), and the properties say which of them they except.

Abstracted: types and overloads; an operator or function of the seed is strict,
never NULL or possibly NULL, as its seed row says, and `Dialects` holds the values
that `functions.propagate_nullable` has in the dialects: TRUE in ClickHouse and
DuckDB, FALSE in the others. An array has one element. GROUP BY has one item, a
grouping set, ROLLUP or CUBE. A target list has one item, or is a star.

### Preprocess, QueryArgs

A file is the sequence of its constructs (`sqlc.arg`, `@x`, `$1`, `?`, ...) with
real lengths, one character of other text between them. `Scan` finds the next
one; `Begin`, `SkipAdd`, `AddAgain`, `AddNew`, `EndNumber` are `number` with
`ParamSet`; `Replace` and `EndStmt` write the output with its edits and tables;
`Reject` copies a statement with an error. `text` gives for each character of the
output the offset it came from, which is what `Origin` has to compute.

`QueryArgs` goes on with a statement: the engine numbers what it parsed, the
references are made unique and sorted (`compiler/analyze.go`), become fields
(`codegen/golang/result.go`), and generated code expands slices and passes the
arguments; the database then binds placeholders by its own rules. A parameter
without a name has that of the column it is compared to, which `QueryNext`
chooses from `ColumnNames`; it may be that of a named parameter.

Abstracted: the lexer, names longer than a letter, the case of names, and the
types of parameters. `?1` is written for SQLite and DuckDB only: the scanner takes
it for MySQL and ClickHouse too, whose parsers then refuse it.

## 4. The runs

| run | result | distinct states | shows |
|---|---|---|---|
| `cache` | pass | 334,762 | three processes that share a blob, two an entry, two faults: nothing partial, entries backed, hits whole, good blobs stay; the results are in the cache in the end |
| `catalog` | pass | 36,978 | unique names, `Rel.Schema`, enums follow their tables and columns, CREATE TABLE only tightens |
| `generate` | pass | 8,185 | all or nothing, completeness, order of reports, termination |
| `generate_unsafe` | violation | | a refused path leaves the mutex locked and hangs the run |
| `managed` | pass | 461,121 | one builder, nothing half-built without an owner or a fault that concerned it, finished databases stay unless a reply was lost, bounded leak of pools, every call returns |
| `analyze` | pass | 69,357 | no closed statement is run, one statement per query, the report of `SourceOrder`, termination |
| `core` | pass | 227,330 | types interned once, columns read back as declared, distinct columns, restore agrees |
| `nullability` | pass | 179,846 | NOT NULL holds but for the excepted uses, names and stars resolve as in SQL |
| `with_leaks` | violation | | what a nested WITH defines is visible in the statement around it |
| `args` | pass | 603,571 | offsets lead back, placeholders and errors are found again, numbers are right, narg decides, each placeholder gets its argument |
| `args_sqlite` | violation | | a slice of two elements shifts SQLite's numbered parameters |
| `tool` | pass | 893,984 | a process works under the hash of its own binary; stale results need a race |

The three violations are disagreements with a comment (`with_leaks`), a golden
file (`generate_unsafe`) and the documentation (`args_sqlite`) of the repository;
`PROJECT.json` quotes them under "findings".

Bounds. *Cache*: two processes on one entry give every race of look-up,
eviction and store; the third stores the same blob under another policy for
errors. Two faults allow a crash in the middle of the recovery from a power loss.
Runs repeat without bound. An action has one output here, and the plugin is compiled, which goes through
both caches; that safety holds for any outputs and for fetched plugins too is
proved. *Generate*: four pairs with a limit of three make the
group block; two pairs share a path, and one may be refused, answer with no
files, or with one in a directory whose name only begins like its own, which the
code accepts. *Catalog*: three languages, chosen initially: MySQL, PostgreSQL's tables, and
its types, since all of it together is beyond TLC. Two tables, two schemas or two
columns are what a clash needs; `MaxSchemas`, `MaxTypes`, `MaxCols` bound the
catalog and `MaxStmtCols` a statement, and sequences of statements are unbounded.
`Droppable` keeps the default schema out of DROP SCHEMA. MySQL's part leaves
LIKE out, for with it `LinkedTypesFollow` is false (section 6). *Managed*: two
goroutines of one process and one of
another are the least that has both a shared flight and a race of processes; two
migrations give a database that is neither empty nor finished; two attempts for each
caller, so that a later call meets what a fault left. There is one fault, for the
check of liveness is slow; the safety properties hold for two as well (1,117,918
states), and the number of faults, processes and callers is not bounded in the
proofs.
*Analyze*: three statements on two goroutines make the group block, two of them
may share a name, and the middle one has every outcome; three catalog queries,
of which two goroutines prepare one at once; two failures. *Core*: one type name
in two schemas, arrays of arrays of it, two columns, one table and one view;
`MaxTypes` oids allow a drop and a re-creation, `MaxCols` an ADD after a DROP.
Columns are declared NOT NULL; those of CREATE TABLE AS are not, and SET NOT NULL
changes them. *Nullability*: `MaxRels` relations in the whole statement allow two
joins of any kind in both shapes, or a join with a derived or common table; a
GROUP BY has two of them at most (`MaxGrouped`), of which a join can merge columns; the
two tables differ in which of two common columns is NOT NULL, and in their order.
A statement is nested in one other, which is too shallow for the leak of
`with_leaks`, so that its exception never occurs here. The dialect is chosen where it
is read, at the call of a function: a statement in which two choices would make a
difference is `beyond` already. *With_leaks*: one column per table, two levels of nesting,
and no expressions (`Dialects` is empty), which the leak does not need.
*Args*: three
constructs in two statements, two names, numbers up to two: a shared name, a
number written before or after it, a statement before the one with the error;
slices of no, one and two elements; columns of two names, one of them also that
of a parameter. `args_sqlite` has slices of one and two elements only (`MinLen`): the disagreement
it shows needs no empty one. *Tool*: two processes, each started again and again,
and two builds that replace each other any number of times.

Deadlock is checked in `cache`. The catalog, core and nullability runs
leave it unchecked because the bounds may disable every statement, the others
because the program ends; that it does end is checked as a liveness property.

Fairness. `Generate`: every goroutine that can run does (the Go scheduler), and
parsing and backends return. `DiskCache`: a process takes its next step, and a
process that keeps computing succeeds now and then (strong fairness on the
successful `Compute`): `Heals` is about results that can be computed. Faults
carry no fairness and are bounded, which says "when faults are over".
`ManagedDB`: a goroutine takes its next step (weak fairness); retries, closing
and crashes need not happen. `ParseQueries`: weak fairness for the caller and
for the end of an analysis; strong fairness for a goroutine's work with the
catalog, for database/sql queues the requests for a connection in order, so a
goroutine whose connection is free again and again is served.

## 5. The proofs

`DiskCacheProofs` proves `TypeOK`, `NoPartialEntries`, `EntryBacked`,
`ServedIsWhole` and the action property `BlobsStay` for any numbers of
processes, actions, blobs and faults, from the assumptions in `DiskCache` (an
action has at least one output, each process has an action, each action a kind).
The argument: `EntryBacked` alone is not inductive, since a process checks the
blobs before it renames the entry into place. `Relies(p)` says for each program
counter what p has already established about the blobs it has visited; while no
power was lost blobs never leave, because a process evicts only what it found
corrupt, which without a power loss never exists, so no process can falsify what
another relies on. The invariant is `IInv`: types, `Staged` (what is renamed
has been written), `Named` (only catalogs are opened by name), `Sound` while no
power was lost, and `ServedIsWhole`.

`GenerateProofs` proves `TypeOK`, `AllOrNothing`, `Complete` and
`ReportedInOrder` for any number of pairs, any limit and any responses.
`Barrier` says that the main goroutine passes `Wait` only when all pairs are
done, and writes only if none failed; `Written` that what is on disk is what the
map holds; `Collected` that the output map holds exactly what finished pairs and
partly done ones have added; `Reporting` that the copied buffers are those below
`next`, in order. `Complete` and `ReportedInOrder` follow from these at the end.

`ManagedDBProofs` proves `TypeOK`, `OneBuilder`, `HalfIsOwned` and the action
properties `FullStays` and `OkGivesSchema` for any processes, callers, databases,
numbers of migrations and faults, assuming that every caller has a process, a
client and a database and that there is at least one migration. `OneBuilder` is
not inductive: that a second caller cannot create the database while the first
builds it needs `Builders` (the database of a builder exists, the builder's process
made it, and it is short of migrations unless a reply was lost), and that a caller
who finished well left it whole needs `OkIsReady` and `Outcomes` (what `result` may be
at each point). `Leaders` ties a leading caller to its process's flight, so that one
process has one leader for a name. `Doubtful` is about faults: who builds what a
fault concerned is about to drop it, and a DROP that may run late has a database
that exists, is spoiled and has no builder; so no CREATE can succeed before it
has run or the database is gone, and it never meets a later database of the name.
`IInv` is the conjunction. `FullStays` follows: a database becomes absent by a
builder's `Drop` or by `LateDrop`, and by `Builders` and `Doubtful` both remove
only what is not full or was spoiled.
`LeakBounded` counts, so it needs that a client has finitely many callers. Its
invariant `PInv` counts the pools lost together with the callers that looked
before a pool was stored and have yet to store theirs (`Opening`): each of them
may still lose one, and the first to store loses none, so the sum stays below the
number of callers.

`ParseQueriesProofs` proves `UseIsAlive` and `SingleStmt` for any number of
statements, goroutines, connections, queries and failures. The invariant `SInv`:
`Typed`; `Phases` (where the caller and the goroutines may be at each phase, so
that nobody is in a call when a transaction ends or the catalog is closed, and
nobody but the caller while one is open); `KeptLive` (every kept statement is
open); `Preparing` (a statement about to be published is its preparer's own);
`UsesKept` (one about to be run is the kept one); `SingleStmt`. `UsesKept` and
`KeptLive` give `UseIsAlive`.

It also proves `InSourceOrder`, that `ParseQueries` implements `SourceOrder`. The
invariant `OInv` adds what the caller's loops have done: every statement has an
outcome from `Wait` on, `merr` and `queries` list in order the errors and the kept
statements below `next`, `names` are the names met so far, no report exists before
it is made, and an analysis failed for want of the catalog only if a fault
happened. Then the return of an analysis is `Analyze`, `Reported` is `Finish`, a
failed setup is `GiveUp`, and every other step stutters.

`PreprocessProofs` proves `NumbersApart` for any dialects, names, numbers and
lengths of statements and files. The invariant `NInv`: `Typed`; `NamedOccs` (what
has no name is what the user wrote as a placeholder); `NativesKept` (the user's
numbers stand in `positionToName` without a name, and no two `?` share one);
`NameHasNumber` (a name has one number, that number has the name, and every
occurrence passed has the number of its name); `EachItsOwn` (without named
support all numbers differ); `Fresh` (a statement starts without names). When the
statement is recorded, these give `Apart` for it.

Four further invariants, each on top of the ones before, prove its other properties:

- `GInv` for `NoGaps` and `NargDecides`: all numbers behind `nextArgNum` are taken
  (`ArgnFollows`), every number taken is that of a placeholder (`PosUsed`), a
  statement without a numbering error has numbers 1..m once it is numbered
  (`PosDense`), and what is known of a name says nullable exactly when a
  `sqlc.narg` of it has been passed (`NullsMerged`).
- `TInv` for `MapsBack`: the edits follow each other, between two of them the
  source is ahead of the output by a constant, and inside one every character stands
  for the start of the construct it replaced (`Tracked`); the length of the
  output and the last shift give how far the source was read. `Origin` walks
  the edits, and induction over them shows it returns what `text` says.
- `EInv` for `ErrorShown`: the statements of the output follow each other, and the
  offset of an error is in its own statement, at its first bad construct.
- `PInv` for `FoundAgain`: every construct rewritten is at one offset of its
  statement, the one the engine reports, and exactly the tables of its kind
  have that offset; offsets behind are those of earlier source text, so no later
  statement can be mistaken for it.

`CoreCatalogProofs` proves `ColumnsDistinct` for any number of types, relations
and columns and definitions in a CREATE TABLE. `CInv`: oids of relations and of
the columns' relations are below `nextClass`, so a new relation starts without
columns; the columns are finitely many, so that a new number, one above the
greatest, exists and is free; and they are distinct. CREATE TABLE adds its
columns by a recursive function (`AddAttributes`).

`CatalogProofs` proves `NamesUnique`, `RelSchemaAgrees` and the action property
`CreateOnlyTightens` for schemas of any dialect, any names, any numbers of
schemas, tables, columns, labels and types and any sequence of statements, failing
ones included, from `LangsAssumption` (which dialects there are and what their
schemas may name). The invariant is `CInv`: the catalog is in `Fits`, the catalogs
that are typed (`Catalogs`), where names are unique (`Unique`), every table's
pointers lead into the heap (`Pointers`), and, unless a statement failed, tables
know their schema (`Agreed`). For MySQL it also says that a table's column names
are unique (`ColumnsUnique`) and that no two tables share a column (`Disjoint`),
which the first needs, since RENAME COLUMN writes through a pointer and checks
only the table it was asked about. PostgreSQL shares columns by INHERITS, and
there the property does not hold. One lemma per handler says that a statement
applied to a catalog of `Fits` leaves one of `Fits`, whether it succeeds or fails
half way; the error of a half-done SET SCHEMA is what `Agreed` excepts. A handler
that loops is treated by `LoopStays` (what every step keeps, the loop keeps) and
`LoopTracks` (the same with what was read so far). Last, `CollectFits`: the new
number of a pointer is the rank of its first place, so different columns get
different numbers, all tables keep their columns, and the invariant survives the
renumbering.

For `CreateOnlyTightens` the lemmas say more. Every handler leaves a catalog of
`After(c)`: if it added a table, the others are the same and no column differs but
by becoming NOT NULL (`Tight`). All but the ones that create a table or a schema,
drop a schema or move a table leave one of `Within(c)`, with the same schemas and
in each no more tables, so the property asks nothing of them. For CREATE TABLE,
`Merged` goes along with the table under construction: the columns of the catalog
are untouched until the last loop, and what `seen` holds for an inherited column
is NOT NULL if the column is, so the write through the shared pointer
(`markNotNull`) cannot relax it. `Renumbered` carries this over `Collect`: every
place has the column it had.

The provers cannot instantiate an induction theorem with a predicate. Induction
over the recursive functions (`Origin`, `AddAttributes`, `Loop`) is done for a set of
numbers instead: the numbers that satisfy the claim form a set that contains 0 and
is closed under successor up to n (`ByInduction`, from the least element of a set
of naturals, which the library states without a predicate).

`ToolDigestProofs` proves `DigestIsOwn` and `StaleNeedsRace` for any number of
processes and builds. `TInv`: `Typed`; `Known` (stamps seen are those of builds);
`MemoRight` (the memo pairs a stamp with the hash of the build of that stamp, or
the build is in `misled`);
`StatRight` and `Undisturbed` (what a process saw is its own build, unless it was
replaced before); `Clean` (a stored result is of the build its digest names,
unless a race was recorded).

Type invariants are proved where the other proofs rest on them (`TypeOK` of
`DiskCache`, `Generate`, `ManagedDB`; `Typed` elsewhere) and are not runs of their
own.

Refuted, so neither checked nor proved to hold: `RefusalReported`, `WithIsLexical`
and `SlicesCounted`, the properties of the violation runs.

Only model-checked: the liveness properties (`Heals`, `Terminates`, `Returns`),
which need fairness; `BindsItsOwn` of `QueryArgs` and the properties of `Scope`,
whose operators fold over sequences, which the provers do not see through; of
`CoreCatalog` `InternedOnce`, `ColumnsResolve` and `RestoreAgrees`, which rest on
the folds and the recursion of `Intern` and `Read`; and `LinkedTypesFollow` of
`Catalog`, which is a statement about the run's dialects, not about all: in MySQL
a LIKE copies a column with the enum it is linked to, and DROP SCHEMA takes enums
that columns elsewhere are linked to; neither occurs in the run's MySQL schemas.

## 6. Observed, without a run of its own

Behaviour of the code the models have (or leave out, where said) that a reader
of the properties should know of:

- `CREATE TABLE u LIKE t` (MySQL, `catalog/table.go:305`) copies the columns and
  shares the enums of t: DROP TABLE t takes them from u.
- ALTER TYPE RENAME and SET SCHEMA (`catalog/types.go:362`) reach only columns
  that spell the type as the statement does.
- A child table that redeclares an inherited column NOT NULL makes the parent's
  column NOT NULL (`catalog/table.go:335`), for they share the struct.
- `CreateDatabase` takes any database of the right name for a finished one
  (`dbmanager/client.go:99`): one left by a crash, by a DROP that failed or a
  CREATE whose reply was lost (line 103, which returns without a DROP), or being
  migrated by another process. `OkGivesSchema` names these exceptions. A last
  migration that was committed while its reply was lost (line 119) has its
  finished database dropped, the exception of `FullStays`.
- `QueryRowContext` falls back to the pool when preparing fails
  (`core/db.go:109`); inside the transaction of setup the pool has no
  connection to give and the call waits for ever. With `FailsInTx = TRUE`
  `Terminates` fails.
- In the core catalog: a view keeps NOT NULL after the table drops it; ADD COLUMN
  IF NOT EXISTS of a column that exists is an error; ALTER COLUMN TYPE to a NOT NULL domain
  leaves the column's NOT NULL as it was; DROP TYPE ... CASCADE drops no columns;
  `public` and the default schema are both spelled bare, so a type of one name
  in each has one spelling; the model keeps to instances without such a pair.
- An operator of NOT NULL operands is NOT NULL, although MySQL, SQLite and DuckDB
  divide by zero to NULL (`analyzer/expr.go:338`). PostgreSQL, MySQL, SQLite, MSSQL
  and GoogleSQL leave `functions.propagate_nullable` off, so `upper(x)` is NOT NULL
  though x can be NULL (`analyzer/expr.go:1157`). Both are exceptions of
  `NotNullHolds`; no document says otherwise, so neither has a run.
- `x = ANY(ARRAY[y])` is NOT NULL for a NOT NULL x though y can be NULL: the code asks
  whether the array is nullable, which an array constructor's type never is
  (`analyzer/expr.go:512`, `696`). The comment above it (lines 500-502) says that the
  comparison is NULL "when the values may hold a NULL". Another exception of `NotNullHolds`.
- `ProcessResult` compares paths as strings (`cmd/generate.go:246`), so that a file
  `gen2/a.go` passes for a pair whose directory is `gen`, although the comment says
  "contained inside the output directory". `HasPrefix` of `Generate` does the same.
- A call with an empty slice is sent with NULL for it (`templates/stdlib/queryCode.tmpl:141`),
  where `docs/howto/select.md:291` announces an error. `BindsItsOwn` takes the code's view.
- With `omit_unused_structs` an enum used only as an array, by an argument or by a
  query of one column, is left out (`codegen/golang/gen.go:396`): the type kept
  is `[]Mood`, whose prefix is cut for the fields of result structs only.
- In the older catalog: CREATE SCHEMA IF NOT EXISTS of a schema that exists
  appends a second one (`catalog/schema.go:112`); a CREATE TABLE that fails leaves
  the enums of its columns.
- `CAS.Filename` promises that "the file at this path never changes"
  (`cache/cas.go:45`), but `Put` renames without a sync and compares sizes only:
  after a power loss a torn catalog of the right size is opened by name and
  served. `ServedIsWhole` names this exception.
- A process whose binary is replaced before it is hashed stores its results under
  the digest of the new build (`cache/tool.go:67`), though a comment says that a
  build "never reuses stale entries" (`cache/digest.go:69`). `StaleNeedsRace`
  names this exception. The memo it saves pairs the stamp of the old build with the
  hash of the new one; if the old build is put back with its size and time, even an
  undisturbed process works under the wrong hash, the exception of `DigestIsOwn`.
- Files that cannot be read or parsed (`compiler/compile.go:174-193`) add errors
  before the analyses start; `ParseQueries` begins after them.
- When writing the files of a run fails midway (`cmd/cmd.go:205`), old and new
  files are mixed; `AllOrNothing` is about the decision to write.
- The stdlib template with pq passes a PostgreSQL slice element by element
  (`templates/stdlib/queryCode.tmpl:134`), where the query has one array
  parameter (`preprocess/preprocess.go:388`).
- SQLite: an unnumbered `?` beside names takes the number after the largest so
  far, in the database and in sqlc by different counts; a `sqlc.slice` name used
  twice leaves the second marker in the text.
- A native placeholder whose inferred name is that of a later named parameter
  shares its field (`codegen/golang/result.go:412`): in `x = $1 AND y = @x` both take
  one argument. `BindsItsOwn` names this exception (`Borrows`). Where the types of
  the two differ, generation fails.
- The target of INSERT, UPDATE and DELETE is looked up among the common table
  expressions first (`analyzer/scope.go:387`), and the aliases of columns after a
  table name are ignored.
- Lexer (not modelled): in dialects without nested comments `/*/` opens a comment
  that the next `*/` closes (`preprocess/lexer.go:119`).
- `singleflight` of the plugin loader (`ext/wasm/wasm.go:62`) is keyed by the
  checksum alone.

## 7. Not modelled

The expression resolution against the older catalog, the parsers, the code
generators and the configuration are pure functions over large syntax trees,
better served by the repository's golden tests. They and generated code
(protocol buffers, syntax tree walks, conversions between syntax trees) are most
of the repository's lines, which is why the models cover a small share of them.

Of the parts modelled: in the core catalog CREATE FUNCTION, operators and casts;
in the analyzer types, overloads, parameters, MERGE, ON CONFLICT, LATERAL and
correlated queries, functions in FROM, recursive common table expressions,
several GROUP BY items, hidden columns and the join defaults of ClickHouse; in
the preprocessor the lexer. The singleflight of the plugin loader shares the first
caller's context with the others and is not modelled. `PROJECT.json` lists each
component with its reason.
