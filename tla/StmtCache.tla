---- MODULE StmtCache ----
(***************************************************************************)
(* The prepared statements of the core catalog (internal/core/db.go): one  *)
(* *sql.Stmt per distinct query, shared by the goroutines that analyze     *)
(* statements, over a pool of connections that has a single one while the  *)
(* catalog is built in memory.  A transaction holds a connection of its    *)
(* own and keeps its own statements.                                       *)
(*                                                                         *)
(* A handle <<q, g, t>> is the statement goroutine g prepared for query q, *)
(* on the transaction (t = TRUE) or on the pool.  The pool and the driver  *)
(* are database/sql's: a call takes a free connection or waits for one,    *)
(* and a transaction closes its statements when it ends.                   *)
(***************************************************************************)
EXTENDS Naturals

CONSTANTS
    Queries,      \* the SQL texts the catalog runs
    Goroutines,
    RowQueries,   \* those run by QueryRowContext
    MaxErrors,    \* connections that cannot be opened, and failures of setup
    FailsInTx     \* whether preparing can fail on the transaction's connection

ASSUME ErrorsAssumption ==
    /\ MaxErrors \in Nat
    /\ FailsInTx \in BOOLEAN
    /\ RowQueries \subseteq Queries

VARIABLES
    tx,        \* a transaction is open: stmtCache.tx
    stmts,     \* stmtCache.stmts
    txStmts,   \* stmtCache.txStmts
    live,      \* handles prepared and not closed since
    free,      \* connections of the pool nobody holds
    at,        \* where each goroutine's call is
    ask,       \* the query of the call
    onTx,      \* the call saw the transaction open
    use,       \* the handle the call will run
    errors     \* failures so far

cacheVars == <<tx, stmts, txStmts, live>>
callVars == <<at, ask, onTx, use>>
stmtVars == <<tx, stmts, txStmts, live, free, at, ask, onTx, use, errors>>

Handles == Queries \X Goroutines \X BOOLEAN
TxHandles == {h \in Handles : h[3] = TRUE}
NoStmt == <<>>
NoQuery == "none"

Labels == {"idle", "look", "prepare", "publish", "run", "rows", "fallback",
           "answered", "failed"}

StmtInit(conns) ==
    /\ tx = FALSE
    /\ stmts = [q \in Queries |-> NoStmt]
    /\ txStmts = [q \in Queries |-> NoStmt]
    /\ live = {}
    /\ free = conns
    /\ at = [g \in Goroutines |-> "idle"]
    /\ ask = [g \in Goroutines |-> NoQuery]
    /\ onTx = [g \in Goroutines |-> FALSE]
    /\ use = [g \in Goroutines |-> NoStmt]
    /\ errors = 0

Move(g, label) == at' = [at EXCEPT ![g] = label]

(* ExecContext, QueryContext or QueryRowContext is called. *)
Call(g, q) ==
    /\ at[g] = "idle"
    /\ ask' = [ask EXCEPT ![g] = q]
    /\ Move(g, "look")
    /\ UNCHANGED <<cacheVars, free, onTx, use, errors>>

(* Mutant: the transaction is not looked at. *)
LookPastTx(g) ==
    LET found == stmts[ask[g]] IN
    /\ at[g] = "look"
    /\ IF found # NoStmt
       THEN Move(g, "run") /\ use' = [use EXCEPT ![g] = found]
       ELSE Move(g, "prepare") /\ UNCHANGED use
    /\ UNCHANGED <<cacheVars, onTx, free, ask, errors>>

(* prepared, under the read lock: the transaction and its statements, or   *)
(* the shared ones. *)
Look(g) ==
    LET found == IF tx THEN txStmts[ask[g]] ELSE stmts[ask[g]] IN
    /\ at[g] = "look"
    /\ onTx' = [onTx EXCEPT ![g] = tx]
    /\ IF found # NoStmt
       THEN Move(g, "run") /\ use' = [use EXCEPT ![g] = found]
       ELSE Move(g, "prepare") /\ UNCHANGED use
    /\ UNCHANGED <<cacheVars, free, ask, errors>>

(* PrepareContext, no lock held: on the transaction's connection, or on a  *)
(* connection of the pool that is given back at once. *)
Prepare(g) ==
    /\ at[g] = "prepare"
    /\ onTx[g] \/ free > 0
    /\ use' = [use EXCEPT ![g] = <<ask[g], g, onTx[g]>>]
    /\ live' = live \cup {<<ask[g], g, onTx[g]>>}
    /\ Move(g, "publish")
    /\ UNCHANGED <<tx, stmts, txStmts, free, ask, onTx, errors>>

(* PrepareContext fails.  ExecContext and QueryContext return the error;   *)
(* QueryRowContext asks the pool again, to have a Row that carries it. *)
PrepareFails(g) ==
    /\ at[g] = "prepare"
    /\ IF onTx[g] THEN FailsInTx ELSE free > 0
    /\ errors < MaxErrors
    /\ errors' = errors + 1
    /\ Move(g, IF ask[g] \in RowQueries THEN "fallback" ELSE "failed")
    /\ UNCHANGED <<cacheVars, free, ask, onTx, use>>

(* QueryRowContext on the pool, which may answer after all. *)
Fallback(g) ==
    /\ at[g] = "fallback"
    /\ free > 0
    /\ Move(g, "failed") \/ Move(g, "answered")
    /\ UNCHANGED <<cacheVars, free, ask, onTx, use, errors>>

(* Mutant: the loser of the race replaces the winner's statement. *)
PublishLast(g) ==
    LET q == ask[g] IN
    /\ at[g] = "publish"
    /\ IF onTx[g]
       THEN txStmts' = [txStmts EXCEPT ![q] = use[g]] /\ UNCHANGED <<stmts, live>>
       ELSE /\ stmts' = [stmts EXCEPT ![q] = use[g]]
            /\ live' = live \ {stmts[q]}
            /\ UNCHANGED txStmts
    /\ Move(g, "run")
    /\ UNCHANGED <<tx, use, free, ask, onTx, errors>>

(* Mutant: the loser forgets to close its statement. *)
PublishLeaves(g) ==
    LET q == ask[g] IN
    /\ at[g] = "publish"
    /\ IF onTx[g]
       THEN txStmts' = [txStmts EXCEPT ![q] = use[g]] /\ UNCHANGED <<stmts, use>>
       ELSE /\ stmts' = [stmts EXCEPT ![q] = IF @ = NoStmt THEN use[g] ELSE @]
            /\ use' = [use EXCEPT ![g] = stmts'[q]]
            /\ UNCHANGED txStmts
    /\ Move(g, "run")
    /\ UNCHANGED <<tx, live, free, ask, onTx, errors>>

(* prepared, under the lock: the first statement of a query is kept, a     *)
(* later one is closed and the first one used in its place; a statement of *)
(* a transaction that has ended is returned as it is. *)
Publish(g) ==
    LET q == ask[g]
        kept == IF onTx[g] THEN txStmts[q] ELSE stmts[q]
        stale == onTx[g] /\ ~tx
        mine == use[g]
    IN /\ at[g] = "publish"
       /\ IF stale \/ kept # NoStmt
          THEN UNCHANGED <<stmts, txStmts>>
          ELSE IF onTx[g]
          THEN txStmts' = [txStmts EXCEPT ![q] = mine] /\ UNCHANGED stmts
          ELSE stmts' = [stmts EXCEPT ![q] = mine] /\ UNCHANGED txStmts
       /\ IF ~stale /\ kept # NoStmt
          THEN live' = live \ {mine} /\ use' = [use EXCEPT ![g] = kept]
          ELSE UNCHANGED <<live, use>>
       /\ Move(g, "run")
       /\ UNCHANGED <<tx, free, ask, onTx, errors>>

(* The statement runs, holding a connection until its rows are read. *)
Run(g) ==
    /\ at[g] = "run"
    /\ use[g] \in live
    /\ onTx[g] \/ free > 0
    /\ free' = IF onTx[g] THEN free ELSE free - 1
    /\ Move(g, "rows")
    /\ UNCHANGED <<cacheVars, ask, onTx, use, errors>>

(* A closed statement answers with an error, and so does a live one when   *)
(* the pool cannot open a connection for it. *)
RunFails(g) ==
    /\ at[g] = "run"
    /\ \/ use[g] \notin live /\ UNCHANGED errors
       \/ ~onTx[g] /\ free > 0 /\ errors < MaxErrors /\ errors' = errors + 1
    /\ Move(g, "failed")
    /\ UNCHANGED <<cacheVars, free, ask, onTx, use>>

(* The rows are closed. *)
Rows(g) ==
    /\ at[g] = "rows"
    /\ free' = IF onTx[g] THEN free ELSE free + 1
    /\ Move(g, "answered")
    /\ UNCHANGED <<cacheVars, ask, onTx, use, errors>>

CallStep(g) ==
    \/ Look(g) \/ Prepare(g) \/ PrepareFails(g) \/ Fallback(g) \/ Publish(g)
    \/ Run(g) \/ RunFails(g) \/ Rows(g)

(* The caller has seen the answer and the goroutine may call again. *)
Return(g) ==
    /\ at' = [at EXCEPT ![g] = "idle"]
    /\ ask' = [ask EXCEPT ![g] = NoQuery]
    /\ onTx' = [onTx EXCEPT ![g] = FALSE]
    /\ use' = [use EXCEPT ![g] = NoStmt]

(* begin: BeginTx takes a connection and keeps it. *)
Begin ==
    /\ free > 0
    /\ free' = free - 1
    /\ tx' = TRUE
    /\ txStmts' = [q \in Queries |-> NoStmt]
    /\ UNCHANGED <<stmts, live, callVars, errors>>

(* endTx, and the Commit or Rollback that follows it. *)
EndTx ==
    /\ free' = IF tx THEN free + 1 ELSE free
    /\ tx' = FALSE
    /\ txStmts' = [q \in Queries |-> NoStmt]
    /\ live' = live \ TxHandles
    /\ UNCHANGED stmts

(* Close: rollback, then every statement is closed and forgotten.  The     *)
(* pool is closed with them. *)
Close ==
    /\ tx' = FALSE
    /\ txStmts' = [q \in Queries |-> NoStmt]
    /\ live' = live \ (TxHandles \cup {stmts[q] : q \in Queries})
    /\ stmts' = [q \in Queries |-> NoStmt]
-----------------------------------------------------------------------------
(* No goroutine is about to run a statement that another one has closed:   *)
(* the loser of a race to prepare a query adopts the winner's statement.   *)
UseIsAlive ==
    \A g \in Goroutines : at[g] \in {"run", "rows"} => use[g] \in live

(* "each query has a single statement", and Close releases them all: every *)
(* open statement is the one kept for its query, or is still in the hands  *)
(* of the goroutine that prepared it.                                      *)
SingleStmt ==
    \A h \in live :
        \/ h \in {stmts[h[1]], txStmts[h[1]]}
        \/ \E g \in Goroutines : at[g] = "publish" /\ use[g] = h
====
