---- MODULE ParseQueries ----
(***************************************************************************)
(* Compiler.parseQueries and analyzeStatements (internal/compiler) over    *)
(* the core catalog: the catalog is restored from the disk cache, or is    *)
(* seeded inside one transaction and then given the schema; the statements *)
(* are analyzed by up to Limit goroutines that read the catalog through    *)
(* its StmtCache, and the results are merged in the order of the           *)
(* statements.                                                             *)
(*                                                                         *)
(* Goroutine 0 is the caller, goroutine i analyzes statement i.  An        *)
(* analysis comes to a member of Outcome[i], provided the catalog answers  *)
(* each of its Lookups[i].                                                 *)
(***************************************************************************)
EXTENDS StmtCache, Sequences, FiniteSets

CONSTANTS
    M,         \* number of statements
    Limit,     \* GOMAXPROCS: errgroup.SetLimit
    Outcome,   \* what each statement may come to: "skip", "error",
               \* "unauthenticated" or the name of its query
    Lookups,   \* the catalog queries of each analysis, in order
    Seeds,     \* the catalog queries of setup, in order
    Schema,    \* those of the schema's statements
    Dialect    \* the one of restore

ASSUME StmtsAssumption ==
    /\ M \in Nat
    /\ Limit \in Nat \ {0}
    /\ Goroutines = 0 .. M
    /\ Lookups \in [1 .. M -> Seq(Queries)]
    /\ Seeds \in Seq(Queries) /\ Schema \in Seq(Queries) /\ Dialect \in Queries
    /\ Outcome \in [1 .. M -> SUBSET (STRING \ {"none", "running"})]

VARIABLES
    main,      \* where the caller is
    todo,      \* what each goroutine has still to ask the catalog
    results,   \* queries[i] and errs[i], "none" until both are written
    next,      \* the loop variable of the loop the caller is in
    queries,   \* q: the statements whose query is kept, in order
    names,     \* set
    merr,      \* the statements reported as errors, in order
    report

mainVars == <<main, next, queries, names, merr, report>>
vars == <<stmtVars, main, todo, results, next, queries, names, merr, report>>

Stmts == 1 .. M
NoReport == [status |-> "none", of |-> <<>>]
NoCatalog == [status |-> "no catalog", of |-> <<>>]

(* Statement i has a goroutine that has not returned. *)
Running == {i \in Stmts : results[i] = "running"}

Init ==
    /\ \/ StmtInit(1) /\ main = "begin"         \* openDB, pinPool
       \/ StmtInit(Limit) /\ main = "restore"   \* openFile
    /\ todo = [g \in Goroutines |->
                  IF g # 0 THEN Lookups[g] ELSE IF main = "begin" THEN Seeds ELSE <<Dialect>>]
    /\ results = [i \in Stmts |-> "none"]
    /\ next = 1
    /\ queries = <<>>
    /\ names = {}
    /\ merr = <<>>
    /\ report = NoReport
-----------------------------------------------------------------------------
(* A goroutine with something left to ask asks it. *)
Ask(g) ==
    /\ g = 0 => main \in {"restore", "setup", "apply"}
    /\ g # 0 => results[g] = "running"
    /\ todo[g] # <<>>
    /\ Call(g, Head(todo[g]))
    /\ todo' = [todo EXCEPT ![g] = Tail(@)]
    /\ UNCHANGED <<mainVars, results>>

Lookup(g) == CallStep(g) /\ UNCHANGED <<mainVars, todo, results>>

(* The answer of the catalog: the analysis goes on. *)
Answered(g) ==
    /\ at[g] = "answered"
    /\ Return(g)
    /\ UNCHANGED <<cacheVars, free, errors, mainVars, todo, results>>

(* The catalog failed: parseQueryCore returns the error. *)
LookupFailed(i) ==
    /\ i # 0 /\ at[i] = "failed"
    /\ Return(i)
    /\ results' = [results EXCEPT ![i] = "error"]
    /\ UNCHANGED <<cacheVars, free, errors, mainVars, todo>>

(* The analysis is over: queries[i] and errs[i] are written, by nobody     *)
(* else. *)
Analyzed(i) ==
    /\ results[i] = "running" /\ at[i] = "idle" /\ todo[i] = <<>>
    /\ \E o \in Outcome[i] : results' = [results EXCEPT ![i] = o]
    /\ UNCHANGED <<stmtVars, mainVars, todo>>
-----------------------------------------------------------------------------
(* core.New: begin, the seeds, commit; or rollback and db.Close.           *)

BeginSetup ==
    /\ main = "begin"
    /\ Begin
    /\ main' = "setup"
    /\ UNCHANGED <<todo, results, next, queries, names, merr, report>>

CommitSetup ==
    /\ main = "setup" /\ at[0] = "idle" /\ todo[0] = <<>>
    /\ EndTx /\ UNCHANGED <<callVars, errors>>
    /\ main' = "apply"
    /\ todo' = [todo EXCEPT ![0] = Schema]
    /\ UNCHANGED <<results, next, queries, names, merr, report>>

(* What the caller is doing fails, by the catalog or on its own. *)
CallerFails ==
    \/ at[0] = "failed" /\ UNCHANGED errors
    \/ at[0] = "idle" /\ errors < MaxErrors /\ errors' = errors + 1

(* bootstrap or an option returns an error. *)
SetupFailed ==
    /\ main = "setup"
    /\ CallerFails
    /\ EndTx /\ Return(0)
    /\ main' = "end"
    /\ report' = NoCatalog
    /\ UNCHANGED <<todo, results, next, queries, names, merr>>

(* parseCatalogCore: a statement of the schema that fails is remembered    *)
(* and the next one applied. *)
ApplyFailed ==
    /\ main = "apply"
    /\ CallerFails
    /\ Return(0)
    /\ report' = NoCatalog
    /\ UNCHANGED <<cacheVars, free, main, todo, results, next, queries, names, merr>>

Applied ==
    /\ main = "apply" /\ at[0] = "idle" /\ todo[0] = <<>>
    /\ main' = IF report = NoReport THEN "spawn" ELSE "close"
    /\ UNCHANGED <<stmtVars, todo, results, next, queries, names, merr, report>>

(* restore: the file opened by name has told its dialect, *)
Restored ==
    /\ main = "restore" /\ at[0] = "idle" /\ todo[0] = <<>>
    /\ main' = "spawn"
    /\ UNCHANGED <<stmtVars, todo, results, next, queries, names, merr, report>>

(* or it has none: it is closed and NewCached builds the catalog, over a   *)
(* pool of one connection. *)
RestoreFailed ==
    /\ main = "restore"
    /\ CallerFails
    /\ Close /\ Return(0)
    /\ free' = 1
    /\ main' = "begin"
    /\ todo' = [todo EXCEPT ![0] = Seeds]
    /\ UNCHANGED <<results, next, queries, names, merr, report>>

(* g.Go blocks while Limit goroutines run; one worker is the serial loop.  *)
Spawn ==
    /\ main = "spawn"
    /\ \/ /\ next <= M
          /\ Cardinality(Running) < Limit
          /\ results' = [results EXCEPT ![next] = "running"]
          /\ next' = next + 1
          /\ UNCHANGED main
       \/ /\ next > M
          /\ main' = "wait"
          /\ UNCHANGED <<results, next>>
    /\ UNCHANGED <<stmtVars, todo, queries, names, merr, report>>

(* Mutant: the loop over the results starts without g.Wait. *)
NoWait ==
    /\ main = "wait"
    /\ main' = "merge"
    /\ next' = 1
    /\ UNCHANGED <<stmtVars, todo, results, queries, names, merr, report>>

(* g.Wait *)
Wait ==
    /\ main = "wait"
    /\ Running = {}
    /\ main' = "merge"
    /\ next' = 1
    /\ UNCHANGED <<stmtVars, todo, results, queries, names, merr, report>>

(* The loop of parseQueries over the statements. *)
Merge ==
    LET r == results[next]
        bad == r \in {"error", "unauthenticated"} \/ r \in names
    IN /\ main = "merge"
       /\ next <= M
       /\ merr' = IF bad THEN Append(merr, next) ELSE merr
       /\ IF bad \/ r = "skip"
          THEN UNCHANGED <<queries, names>>
          ELSE queries' = Append(queries, next) /\ names' = names \cup {r}
       /\ main' = IF r = "unauthenticated" THEN "report" ELSE main
       /\ next' = next + 1
       /\ UNCHANGED <<stmtVars, todo, results, report>>

MergeDone ==
    /\ main = "merge"
    /\ next > M
    /\ main' = "report"
    /\ UNCHANGED <<stmtVars, todo, results, next, queries, names, merr, report>>

(* parseQueries returns. *)
Reported ==
    /\ main = "report"
    /\ report' = IF merr # <<>> THEN [status |-> "errors", of |-> merr]
                 ELSE IF queries = <<>> THEN [status |-> "no queries", of |-> <<>>]
                 ELSE [status |-> "queries", of |-> queries]
    /\ main' = "close"
    /\ UNCHANGED <<stmtVars, todo, results, next, queries, names, merr>>

(* Catalog.Close *)
CloseCatalog ==
    /\ main = "close"
    /\ Close /\ UNCHANGED <<free, callVars, errors>>
    /\ main' = "end"
    /\ UNCHANGED <<todo, results, next, queries, names, merr, report>>

Main ==
    \/ BeginSetup \/ CommitSetup \/ SetupFailed \/ ApplyFailed \/ Applied
    \/ Restored \/ RestoreFailed \/ Spawn \/ Wait
    \/ Merge \/ MergeDone \/ Reported \/ CloseCatalog

Work(g) == Ask(g) \/ Lookup(g) \/ Answered(g)

Worker(i) == LookupFailed(i) \/ Analyzed(i)

Next == Main \/ (\E g \in Goroutines : Work(g)) \/ (\E i \in Stmts : Worker(i))

Spec == Init /\ [][Next]_vars

(* The caller and the goroutines run; the pool serves a goroutine that     *)
(* keeps waiting for a connection, for database/sql queues the requests.   *)
FairSpec ==
    /\ Spec
    /\ WF_vars(Main)
    /\ \A g \in Goroutines : SF_vars(Work(g))
    /\ \A i \in Stmts : WF_vars(Worker(i))
-----------------------------------------------------------------------------
(* analyzeStatements and parseQueries implement the abstract report: the   *)
(* queries and errors are those of the statements in source order, with    *)
(* every outcome in the place of its own statement and none missing,       *)
(* whatever the order in which the goroutines finish.                      *)
Known == [i \in Stmts |-> IF results[i] = "running" THEN "none" ELSE results[i]]
Order == INSTANCE SourceOrder WITH outcome <- Known, Faulty <- MaxErrors > 0
InSourceOrder == Order!Spec

(* parseQueries returns: no goroutine waits forever for a connection of    *)
(* the pool, neither in the transaction of setup nor in analysis. *)
Terminates == <>(main = "end")
====
