-------------------------- MODULE ParseQueriesProofs --------------------------
(***************************************************************************)
(* Proofs about the prepared statements of the catalog under parseQueries, *)
(* for any number of statements, goroutines and queries.                   *)
(***************************************************************************)
EXTENDS ParseQueries, TLAPS

(* The types of what the argument reads. *)
Typed ==
    /\ tx \in BOOLEAN
    /\ stmts \in [Queries -> Handles \cup {NoStmt}]
    /\ txStmts \in [Queries -> Handles \cup {NoStmt}]
    /\ live \subseteq Handles
    /\ at \in [Goroutines -> Labels]
    /\ ask \in [Goroutines -> Queries \cup {NoQuery}]
    /\ onTx \in [Goroutines -> BOOLEAN]
    /\ use \in [Goroutines -> Handles \cup {NoStmt}]
    /\ todo \in [Goroutines -> Seq(Queries)]
    /\ DOMAIN results = Stmts
    /\ next \in Nat

(* When the caller itself uses the catalog, and when no analysis runs. *)
Calling == {"restore", "setup", "apply"}
Alone == Calling \cup {"begin", "merge", "report", "close", "end"}

(* The transaction belongs to setup, a call to a running analysis or to    *)
(* the caller before there is one, and past Wait no analysis runs. *)
Phases ==
    /\ tx <=> main = "setup"
    /\ at[0] # "idle" => main \in Calling
    /\ \A i \in Stmts : at[i] # "idle" => results[i] = "running"
    /\ main \in Alone => \A i \in Stmts : results[i] # "running"
    /\ \A g \in Goroutines : onTx[g] => tx /\ at[g] # "idle"
    /\ \A g \in Goroutines : at[g] # "idle" => ask[g] \in Queries

(* The statement kept for the query a goroutine asks, as it sees it. *)
KeptFor(g) == IF onTx[g] THEN txStmts[ask[g]] ELSE stmts[ask[g]]

(* A kept statement is open, and is one of its query. *)
KeptLive ==
    \A q \in Queries :
        /\ stmts[q] # NoStmt => /\ stmts[q] \in live
                                /\ \E g \in Goroutines : stmts[q] = <<q, g, FALSE>>
        /\ txStmts[q] # NoStmt => /\ tx /\ txStmts[q] \in live
                                  /\ \E g \in Goroutines : txStmts[q] = <<q, g, TRUE>>

(* Between the lookup and the second lock, what a goroutine prepares is    *)
(* its own and is kept for nobody. *)
Preparing ==
    \A g \in Goroutines :
        /\ at[g] \in {"prepare", "publish"} => KeptFor(g) # <<ask[g], g, onTx[g]>>
        /\ at[g] = "publish" => use[g] = <<ask[g], g, onTx[g]>> /\ use[g] \in live

(* What a goroutine runs is the statement kept for its query. *)
UsesKept ==
    \A g \in Goroutines :
        at[g] \in {"run", "rows"} => use[g] = KeptFor(g) /\ use[g] # NoStmt

SInv == Typed /\ Phases /\ KeptLive /\ Preparing /\ UsesKept /\ SingleStmt
--------------------------------------------------------------------------------
LEMMA InitSInv == Init => SInv
<1> SUFFICES ASSUME Init PROVE SInv
    OBVIOUS
<1>1. Goroutines = 0 .. M /\ M \in Nat
    BY StmtsAssumption
<1>2. todo \in [Goroutines -> Seq(Queries)]
  <2>1. <<Dialect>> \in Seq(Queries) /\ Seeds \in Seq(Queries)
      BY StmtsAssumption
  <2>2. \A g \in Goroutines : g # 0 => Lookups[g] \in Seq(Queries)
      BY <1>1, StmtsAssumption
  <2> QED BY <2>1, <2>2 DEF Init
<1>3. Typed
    BY <1>2 DEF Init, StmtInit, Typed, Labels
<1>4. \A g \in Goroutines : at[g] = "idle" /\ onTx[g] = FALSE
    BY DEF Init, StmtInit
<1>5. Phases
    BY <1>1, <1>4 DEF Init, StmtInit, Phases, Stmts
<1>6. KeptLive /\ SingleStmt
    BY DEF Init, StmtInit, KeptLive, SingleStmt
<1> QED BY <1>3, <1>4, <1>5, <1>6 DEF SInv, Preparing, UsesKept

LEMMA HandleIsTriple ==
    \A h \in Handles : h # NoStmt /\ h[1] \in Queries
<1> SUFFICES ASSUME NEW h \in Handles PROVE h # NoStmt /\ h[1] \in Queries
    OBVIOUS
<1>1. PICK q \in Queries, g \in Goroutines, t \in BOOLEAN : h = <<q, g, t>>
    BY DEF Handles
<1>2. h[1] = q /\ Len(h) = 3
    BY <1>1
<1>3. Len(NoStmt) = 0
    BY DEF NoStmt
<1> QED BY <1>2, <1>3

(* A step that leaves the statements and the calls alone. *)
LEMMA CallsSame ==
    ASSUME SInv, UNCHANGED stmtVars, Typed', Phases'
    PROVE  SInv'
<1>1. UNCHANGED <<tx, stmts, txStmts, live, at, ask, onTx, use>>
    BY DEF stmtVars
<1>2. KeptLive' /\ SingleStmt'
    BY <1>1 DEF SInv, KeptLive, SingleStmt
<1>3. Preparing' /\ UsesKept'
    BY <1>1 DEF SInv, Preparing, UsesKept, KeptFor
<1> QED BY <1>2, <1>3 DEF SInv

(* A step of one call that leaves the statements alone, and ends nowhere   *)
(* near a statement unless it runs the one it was to run. *)
LEMMA CallMoves ==
    ASSUME SInv, NEW g \in Goroutines, UNCHANGED cacheVars, Typed', Phases',
           \A d \in Goroutines : d # g => /\ at'[d] = at[d] /\ ask'[d] = ask[d]
                                          /\ onTx'[d] = onTx[d] /\ use'[d] = use[d],
           at[g] # "publish",
           \/ at'[g] \notin {"prepare", "publish", "run", "rows"}
           \/ /\ at[g] = "run" /\ at'[g] = "rows"
              /\ ask'[g] = ask[g] /\ onTx'[g] = onTx[g] /\ use'[g] = use[g]
    PROVE  SInv'
<1>1. UNCHANGED <<tx, stmts, txStmts, live>>
    BY DEF cacheVars
<1>2. KeptLive'
    BY <1>1 DEF SInv, KeptLive
<1>3. SingleStmt'
  <2> SUFFICES ASSUME NEW h \in live,
                      h \notin {stmts[h[1]], txStmts[h[1]]}
               PROVE  \E d \in Goroutines : at'[d] = "publish" /\ use'[d] = h
      BY <1>1 DEF SingleStmt
  <2>1. PICK d \in Goroutines : at[d] = "publish" /\ use[d] = h
      BY DEF SInv, SingleStmt
  <2> QED BY <2>1
<1>4. Preparing' /\ UsesKept'
  <2>1. \A d \in Goroutines : d # g => (KeptFor(d)' = KeptFor(d))
      BY <1>1 DEF KeptFor
  <2>2. at[g] = "run" /\ at'[g] = "rows" /\ ask'[g] = ask[g] /\ onTx'[g] = onTx[g]
           => KeptFor(g)' = KeptFor(g)
      BY <1>1 DEF KeptFor
  <2> QED BY <1>1, <2>1, <2>2 DEF SInv, Preparing, UsesKept
<1> QED BY <1>2, <1>3, <1>4 DEF SInv

LEMMA AskSInv == ASSUME SInv, NEW g \in Goroutines, Ask(g) PROVE SInv'
<1>1. /\ at[g] = "idle" /\ todo[g] \in Seq(Queries) /\ todo[g] # <<>>
      /\ at' = [at EXCEPT ![g] = "look"]
      /\ ask' = [ask EXCEPT ![g] = Head(todo[g])]
      /\ UNCHANGED <<cacheVars, onTx, use, main, results, next>>
      /\ todo' = [todo EXCEPT ![g] = Tail(@)]
    BY DEF Ask, Call, Move, mainVars, SInv, Typed
<1>2. Head(todo[g]) \in Queries /\ Tail(todo[g]) \in Seq(Queries)
    BY <1>1
<1>3. UNCHANGED <<tx, stmts, txStmts, live>>
    BY <1>1 DEF cacheVars
<1>4. Typed'
  <2>1. at' \in [Goroutines -> Labels] /\ ask' \in [Goroutines -> Queries \cup {NoQuery}]
      BY <1>1, <1>2 DEF SInv, Typed, Labels
  <2>2. todo' \in [Goroutines -> Seq(Queries)]
      BY <1>1, <1>2 DEF SInv, Typed
  <2> QED BY <1>1, <1>3, <2>1, <2>2 DEF SInv, Typed
<1>5. \A d \in Goroutines : /\ d # g => at'[d] = at[d] /\ ask'[d] = ask[d]
                            /\ onTx'[d] = onTx[d] /\ use'[d] = use[d]
    BY <1>1 DEF SInv, Typed
<1>6. at'[g] = "look" /\ ask'[g] \in Queries
    BY <1>1, <1>2 DEF SInv, Typed
<1>7. Phases'
  <2>1. at'[0] # "idle" => main \in Calling
    <3>1. g = 0 => main \in Calling
        BY DEF Ask, Calling
    <3>2. 0 \in Goroutines
        BY StmtsAssumption
    <3> QED BY <1>5, <3>1, <3>2 DEF SInv, Phases
  <2>0. \A i \in Stmts : i \in Goroutines /\ i # 0
      BY StmtsAssumption DEF Stmts
  <2>2. \A i \in Stmts : at'[i] # "idle" => results[i] = "running"
    <3>1. g # 0 => results[g] = "running"
        BY DEF Ask
    <3> QED BY <1>5, <2>0, <3>1 DEF SInv, Phases
  <2> QED BY <1>1, <1>3, <1>5, <1>6, <2>1, <2>2 DEF SInv, Phases
<1> QED BY <1>1, <1>4, <1>5, <1>6, <1>7, CallMoves

(* What every step of a call has in common: it is not idle before or after, *)
(* and only its own place moves. *)
LEMMA MovedPhases ==
    ASSUME SInv, NEW g \in Goroutines, at[g] # "idle", UNCHANGED <<tx, ask, main, results>>,
           \A d \in Goroutines : d # g => at'[d] = at[d] /\ onTx'[d] = onTx[d],
           onTx'[g] => tx, at'[g] # "idle"
    PROVE  Phases'
<1>1. 0 \in Goroutines /\ \A i \in Stmts : i \in Goroutines
    BY StmtsAssumption DEF Stmts
<1> QED BY <1>1 DEF SInv, Phases

LEMMA MovedTyped ==
    ASSUME SInv, NEW g \in Goroutines, NEW label \in Labels, at' = [at EXCEPT ![g] = label],
           UNCHANGED <<cacheVars, ask, onTx, use, todo, results, next>>
    PROVE  Typed' /\ \A d \in Goroutines : d # g => at'[d] = at[d]
BY DEF SInv, Typed, cacheVars

(* The steps of a call that only move it on. *)
LEMMA OnwardSInv ==
    ASSUME SInv, NEW g \in Goroutines,
           PrepareFails(g) \/ Fallback(g) \/ Run(g) \/ RunFails(g) \/ Rows(g),
           UNCHANGED <<mainVars, todo, results>>
    PROVE  SInv'
<1>1. /\ UNCHANGED <<cacheVars, ask, onTx, use, main, todo, results, next>>
      /\ at[g] \notin {"idle", "publish"}
    BY DEF PrepareFails, Fallback, Run, RunFails, Rows, mainVars
<1>2. PICK label \in {"failed", "fallback", "answered", "rows"} :
          /\ at' = [at EXCEPT ![g] = label]
          /\ label = "rows" => at[g] = "run"
    BY DEF PrepareFails, Fallback, Run, RunFails, Rows, Move
<1>3. label \in Labels
    BY DEF Labels
<1>4. Typed' /\ \A d \in Goroutines : d # g => at'[d] = at[d]
    BY <1>1, <1>2, <1>3, MovedTyped
<1>5. at'[g] = label
    BY <1>2 DEF SInv, Typed
<1>6. Phases'
    BY <1>1, <1>4, <1>5, MovedPhases DEF cacheVars, SInv, Phases
<1> QED BY <1>1, <1>2, <1>4, <1>5, <1>6, CallMoves

(* prepared, the lookup. *)
LEMMA LookSInv ==
    ASSUME SInv, NEW g \in Goroutines, Look(g), UNCHANGED <<mainVars, todo, results>>
    PROVE  SInv'
<1> DEFINE found == IF tx THEN txStmts[ask[g]] ELSE stmts[ask[g]]
<1>1. /\ UNCHANGED <<tx, stmts, txStmts, live, ask, main, todo, results, next>>
      /\ at[g] = "look" /\ onTx' = [onTx EXCEPT ![g] = tx]
    BY DEF Look, mainVars, cacheVars
<1>2. \/ found # NoStmt /\ at' = [at EXCEPT ![g] = "run"] /\ use' = [use EXCEPT ![g] = found]
      \/ found = NoStmt /\ at' = [at EXCEPT ![g] = "prepare"] /\ UNCHANGED use
    BY DEF Look, Move
<1>3. ask[g] \in Queries
    BY <1>1 DEF SInv, Phases
<1>4. found \in Handles \cup {NoStmt}
    BY <1>3 DEF SInv, Typed
<1>5. Typed'
  <2>1. onTx' \in [Goroutines -> BOOLEAN]
      BY <1>1 DEF SInv, Typed
  <2>2. at' \in [Goroutines -> Labels] /\ use' \in [Goroutines -> Handles \cup {NoStmt}]
      BY <1>2, <1>4 DEF SInv, Typed, Labels
  <2> QED BY <1>1, <2>1, <2>2 DEF SInv, Typed
<1>6. \A d \in Goroutines : d # g => at'[d] = at[d] /\ onTx'[d] = onTx[d] /\ use'[d] = use[d]
    BY <1>1, <1>2 DEF SInv, Typed
<1>7. onTx'[g] = tx
    BY <1>1 DEF SInv, Typed
<1>8. Phases'
  <2>1. at'[g] # "idle"
      BY <1>2 DEF SInv, Typed
  <2> QED BY <1>1, <1>6, <1>7, <2>1, MovedPhases
<1>9. KeptLive'
    BY <1>1 DEF SInv, KeptLive
<1>10. SingleStmt'
  <2> SUFFICES ASSUME NEW h \in live, h \notin {stmts[h[1]], txStmts[h[1]]}
               PROVE  \E d \in Goroutines : at'[d] = "publish" /\ use'[d] = h
      BY <1>1 DEF SingleStmt
  <2>1. PICK d \in Goroutines : at[d] = "publish" /\ use[d] = h
      BY DEF SInv, SingleStmt
  <2> QED BY <1>1, <1>6, <2>1
<1>11. KeptFor(g)' = found /\ \A d \in Goroutines : d # g => KeptFor(d)' = KeptFor(d)
    BY <1>1, <1>6, <1>7 DEF KeptFor
<1>12. Preparing'
  <2>1. at'[g] = "prepare" => found = NoStmt
      BY <1>2 DEF SInv, Typed
  <2>2. at'[g] # "publish"
      BY <1>2 DEF SInv, Typed
  <2>3. NoStmt # <<ask[g], g, tx>>
      BY DEF NoStmt
  <2> QED BY <1>1, <1>6, <1>7, <1>11, <2>1, <2>2, <2>3 DEF SInv, Preparing
<1>13. UsesKept'
  <2>1. at'[g] \in {"run", "rows"} => use'[g] = found /\ found # NoStmt
      BY <1>2 DEF SInv, Typed
  <2> QED BY <1>6, <1>11, <2>1 DEF SInv, UsesKept
<1> QED BY <1>5, <1>8, <1>9, <1>10, <1>12, <1>13 DEF SInv

(* PrepareContext: the new statement is in its goroutine's hands. *)
LEMMA PrepareSInv ==
    ASSUME SInv, NEW g \in Goroutines, Prepare(g), UNCHANGED <<mainVars, todo, results>>
    PROVE  SInv'
<1> DEFINE new == <<ask[g], g, onTx[g]>>
<1>1. /\ UNCHANGED <<tx, stmts, txStmts, ask, onTx, main, todo, results, next>>
      /\ at[g] = "prepare" /\ at' = [at EXCEPT ![g] = "publish"]
      /\ use' = [use EXCEPT ![g] = new] /\ live' = live \cup {new}
    BY DEF Prepare, Move, mainVars
<1>2. ask[g] \in Queries /\ onTx[g] \in BOOLEAN
    BY <1>1 DEF SInv, Phases, Typed
<1>3. new \in Handles
    BY <1>2 DEF Handles
<1>4. Typed'
  <2>1. at' \in [Goroutines -> Labels] /\ use' \in [Goroutines -> Handles \cup {NoStmt}]
      BY <1>1, <1>3 DEF SInv, Typed, Labels
  <2> QED BY <1>1, <1>3, <2>1 DEF SInv, Typed
<1>5. /\ \A d \in Goroutines : d # g => at'[d] = at[d] /\ use'[d] = use[d]
      /\ at'[g] = "publish" /\ use'[g] = new
    BY <1>1 DEF SInv, Typed
<1>6. Phases'
    BY <1>1, <1>5, MovedPhases DEF SInv, Phases
<1>7. KeptLive'
    BY <1>1 DEF SInv, KeptLive
<1>8. \A d \in Goroutines : KeptFor(d)' = KeptFor(d)
    BY <1>1 DEF KeptFor
<1>9. Preparing' /\ UsesKept'
    BY <1>1, <1>5, <1>8 DEF SInv, Preparing, UsesKept
<1>10. SingleStmt'
  <2> SUFFICES ASSUME NEW h \in live', h \notin {stmts[h[1]], txStmts[h[1]]}
               PROVE  \E d \in Goroutines : at'[d] = "publish" /\ use'[d] = h
      BY <1>1 DEF SingleStmt
  <2>1. CASE h = new
      BY <1>5, <2>1
  <2>2. CASE h \in live
    <3>1. PICK d \in Goroutines : at[d] = "publish" /\ use[d] = h
        BY <2>2 DEF SInv, SingleStmt
    <3> QED BY <1>1, <1>5, <3>1
  <2> QED BY <1>1, <2>1, <2>2
<1> QED BY <1>4, <1>6, <1>7, <1>9, <1>10 DEF SInv

(* prepared, the second lock: the first statement of a query is kept and   *)
(* the one that lost the race is closed, which nobody else uses. *)
LEMMA PublishSInv ==
    ASSUME SInv, NEW g \in Goroutines, Publish(g), UNCHANGED <<mainVars, todo, results>>
    PROVE  SInv'
<1> DEFINE q == ask[g]
           new == <<ask[g], g, onTx[g]>>
           kept == IF onTx[g] THEN txStmts[q] ELSE stmts[q]
<1>1. /\ UNCHANGED <<tx, ask, onTx, main, todo, results, next>>
      /\ at[g] = "publish" /\ at' = [at EXCEPT ![g] = "run"]
    BY DEF Publish, Move, mainVars
<1>2. q \in Queries /\ onTx[g] \in BOOLEAN /\ (onTx[g] => tx)
    BY <1>1 DEF SInv, Phases, Typed
<1>3. use[g] = new /\ new \in live /\ new \in Handles /\ kept # new /\ kept = KeptFor(g)
    BY <1>1 DEF SInv, Preparing, Typed, KeptFor
<1>4. /\ \A d \in Goroutines : d # g => at'[d] = at[d]
      /\ at'[g] = "run"
    BY <1>1 DEF SInv, Typed
<1>5. Phases'
    BY <1>1, <1>2, <1>4, MovedPhases DEF SInv, Phases
<1>6. at' \in [Goroutines -> Labels]
    BY <1>1 DEF SInv, Typed, Labels
<1>7. new # NoStmt
    BY DEF NoStmt
<1>8. CASE kept # NoStmt
  <2>1. /\ UNCHANGED <<stmts, txStmts>> /\ live' = live \ {new}
        /\ use' = [use EXCEPT ![g] = kept]
      BY <1>2, <1>3, <1>8 DEF Publish
  <2>2. kept \in Handles /\ kept \in live
      BY <1>2, <1>8 DEF SInv, Typed, KeptLive
  <2>3. Typed'
    <3>1. use' \in [Goroutines -> Handles \cup {NoStmt}]
        BY <2>1, <2>2 DEF SInv, Typed
    <3> QED BY <1>1, <1>6, <2>1, <3>1 DEF SInv, Typed
  <2>4. /\ \A d \in Goroutines : d # g => use'[d] = use[d]
        /\ use'[g] = kept
      BY <2>1 DEF SInv, Typed
  <2>5. \A d \in Goroutines : KeptFor(d)' = KeptFor(d)
      BY <1>1, <2>1 DEF KeptFor
  <2>6. ASSUME NEW r \in Queries PROVE stmts[r] # new /\ txStmts[r] # new
    <3>1. CASE stmts[r] = new
      <4>1. PICK d \in Goroutines : <<q, g, onTx[g]>> = <<r, d, FALSE>>
          BY <1>7, <3>1 DEF SInv, KeptLive
      <4>2. q = r /\ onTx[g] = FALSE
          BY <4>1
      <4> QED BY <1>3, <3>1, <4>2
    <3>2. CASE txStmts[r] = new
      <4>1. PICK d \in Goroutines : <<q, g, onTx[g]>> = <<r, d, TRUE>>
          BY <1>7, <3>2 DEF SInv, KeptLive
      <4>2. q = r /\ onTx[g] = TRUE
          BY <4>1
      <4> QED BY <1>3, <3>2, <4>2
    <3> QED BY <3>1, <3>2
  <2>7. KeptLive'
      BY <1>1, <2>1, <2>6 DEF SInv, KeptLive
  <2>8. Preparing'
    <3>1. \A d \in Goroutines : d # g /\ at[d] = "publish" => use[d] # new
        BY DEF SInv, Preparing
    <3> QED BY <1>1, <1>4, <2>1, <2>4, <2>5, <3>1 DEF SInv, Preparing
  <2>9. UsesKept'
      BY <1>3, <1>4, <1>8, <2>4, <2>5 DEF SInv, UsesKept
  <2>10. SingleStmt'
    <3> SUFFICES ASSUME NEW h \in live, h # new, h \notin {stmts[h[1]], txStmts[h[1]]}
                 PROVE  \E d \in Goroutines : at'[d] = "publish" /\ use'[d] = h
        BY <2>1 DEF SingleStmt
    <3>1. PICK d \in Goroutines : at[d] = "publish" /\ use[d] = h
        BY DEF SInv, SingleStmt
    <3> QED BY <1>3, <1>4, <2>4, <3>1
  <2> QED BY <1>5, <2>3, <2>7, <2>8, <2>9, <2>10 DEF SInv
<1>9. CASE kept = NoStmt
  <2>1. /\ UNCHANGED <<live, use>>
        /\ IF onTx[g]
           THEN txStmts' = [txStmts EXCEPT ![q] = new] /\ UNCHANGED stmts
           ELSE stmts' = [stmts EXCEPT ![q] = new] /\ UNCHANGED txStmts
      BY <1>2, <1>3, <1>9 DEF Publish
  <2>2. /\ \A r \in Queries : r # q => stmts'[r] = stmts[r] /\ txStmts'[r] = txStmts[r]
        /\ onTx[g] => txStmts'[q] = new /\ stmts'[q] = stmts[q] /\ txStmts[q] = NoStmt
        /\ ~onTx[g] => stmts'[q] = new /\ txStmts'[q] = txStmts[q] /\ stmts[q] = NoStmt
      BY <1>2, <1>9, <2>1 DEF SInv, Typed
  <2>3. Typed'
    <3>1. /\ stmts' \in [Queries -> Handles \cup {NoStmt}]
          /\ txStmts' \in [Queries -> Handles \cup {NoStmt}]
        BY <1>3, <2>1 DEF SInv, Typed
    <3> QED BY <1>1, <1>6, <2>1, <3>1 DEF SInv, Typed
  <2>4. KeptLive'
    <3> SUFFICES ASSUME NEW r \in Queries
                 PROVE  /\ stmts'[r] # NoStmt =>
                              /\ stmts'[r] \in live'
                              /\ \E d \in Goroutines : stmts'[r] = <<r, d, FALSE>>
                        /\ txStmts'[r] # NoStmt =>
                              /\ tx' /\ txStmts'[r] \in live'
                              /\ \E d \in Goroutines : txStmts'[r] = <<r, d, TRUE>>
        BY DEF KeptLive
    <3>0. KeptLive /\ live' = live /\ tx' = tx
        BY <1>1, <1>2, <1>3, <2>1 DEF SInv
    <3>1. CASE r # q
        BY <2>2, <3>0, <3>1 DEF KeptLive
    <3>2. CASE r = q /\ onTx[g]
      <4>1. onTx[g] = TRUE
          BY <1>2, <3>2
      <4>2. txStmts'[r] = <<r, g, TRUE>>
          BY <2>2, <3>2, <4>1
      <4>3. txStmts'[r] \in live' /\ stmts'[r] = stmts[r]
          BY <1>3, <2>2, <3>0, <3>2
      <4> QED BY <1>2, <3>0, <3>2, <4>2, <4>3 DEF KeptLive
    <3>3. CASE r = q /\ ~onTx[g]
      <4>1. onTx[g] = FALSE
          BY <1>2, <3>3
      <4>2. stmts'[r] = <<r, g, FALSE>>
          BY <2>2, <3>3, <4>1
      <4>3. stmts'[r] \in live' /\ txStmts'[r] = txStmts[r]
          BY <1>3, <2>2, <3>0, <3>3
      <4> QED BY <3>0, <4>2, <4>3 DEF KeptLive
    <3> QED BY <3>1, <3>2, <3>3
  <2>5. \A d \in Goroutines : ask[d] \in Queries =>
            KeptFor(d)' = KeptFor(d) \/ (KeptFor(d) = NoStmt /\ KeptFor(d)' = new)
      BY <1>1, <1>9, <2>2 DEF KeptFor, SInv, Typed
  <2>6. Preparing'
    <3> SUFFICES ASSUME NEW d \in Goroutines, at'[d] \in {"prepare", "publish"}
                 PROVE  /\ KeptFor(d)' # <<ask[d], d, onTx[d]>>
                        /\ at'[d] = "publish" =>
                              use'[d] = <<ask[d], d, onTx[d]>> /\ use'[d] \in live'
        BY <1>1 DEF Preparing
    <3>1. d # g /\ at[d] = at'[d] /\ ask[d] \in Queries
        BY <1>4 DEF SInv, Phases
    <3>2. new # <<ask[d], d, onTx[d]>>
        BY <3>1
    <3> QED BY <2>1, <2>5, <3>1, <3>2 DEF SInv, Preparing
  <2>7. UsesKept'
    <3> SUFFICES ASSUME NEW d \in Goroutines, at'[d] \in {"run", "rows"}
                 PROVE  use'[d] = KeptFor(d)' /\ use'[d] # NoStmt
        BY DEF UsesKept
    <3>1. CASE d = g
      <4>1. KeptFor(g)' = new
          BY <1>1, <2>2 DEF KeptFor
      <4>2. new # NoStmt
          BY DEF NoStmt
      <4> QED BY <1>3, <2>1, <3>1, <4>1, <4>2
    <3>2. CASE d # g
      <4>1. at[d] \in {"run", "rows"} /\ ask[d] \in Queries
          BY <1>4, <3>2 DEF SInv, Phases
      <4> QED BY <2>1, <2>5, <4>1 DEF SInv, UsesKept
    <3> QED BY <3>1, <3>2
  <2>8. SingleStmt'
    <3> SUFFICES ASSUME NEW h \in live
                 PROVE  \/ h \in {stmts'[h[1]], txStmts'[h[1]]}
                        \/ \E d \in Goroutines : at'[d] = "publish" /\ use'[d] = h
        BY <2>1 DEF SingleStmt
    <3>1. h \in Handles /\ h[1] \in Queries /\ h # NoStmt
        BY DEF SInv, Typed, Handles, NoStmt
    <3>2. CASE h = new
        BY <1>2, <2>2, <3>2
    <3>3. CASE h # new /\ h \in {stmts[h[1]], txStmts[h[1]]}
        BY <2>2, <3>1, <3>3
    <3>4. CASE h # new /\ h \notin {stmts[h[1]], txStmts[h[1]]}
      <4>1. PICK d \in Goroutines : at[d] = "publish" /\ use[d] = h
          BY <3>4 DEF SInv, SingleStmt
      <4> QED BY <1>3, <1>4, <2>1, <3>4, <4>1
    <3> QED BY <3>2, <3>3, <3>4
  <2> QED BY <1>5, <2>3, <2>4, <2>6, <2>7, <2>8 DEF SInv
<1> QED BY <1>8, <1>9

(* A call has returned: its goroutine is idle. *)
LEMMA ReturnSInv ==
    ASSUME SInv, NEW g \in Goroutines, Return(g), at[g] \in {"answered", "failed"},
           UNCHANGED <<cacheVars, main, todo, next>>, DOMAIN results' = Stmts,
           \A i \in Stmts : \/ results'[i] = results[i]
                            \/ i = g /\ results'[i] # "running"
    PROVE  SInv'
<1>1. /\ at' = [at EXCEPT ![g] = "idle"] /\ ask' = [ask EXCEPT ![g] = NoQuery]
      /\ onTx' = [onTx EXCEPT ![g] = FALSE] /\ use' = [use EXCEPT ![g] = NoStmt]
      /\ UNCHANGED <<tx, stmts, txStmts, live>>
    BY DEF Return, cacheVars
<1>2. Typed'
  <2>1. at' \in [Goroutines -> Labels] /\ ask' \in [Goroutines -> Queries \cup {NoQuery}]
      BY <1>1 DEF SInv, Typed, Labels
  <2>2. onTx' \in [Goroutines -> BOOLEAN] /\ use' \in [Goroutines -> Handles \cup {NoStmt}]
      BY <1>1 DEF SInv, Typed
  <2> QED BY <1>1, <2>1, <2>2 DEF SInv, Typed
<1>3. /\ \A d \in Goroutines : d # g => /\ at'[d] = at[d] /\ ask'[d] = ask[d]
                                        /\ onTx'[d] = onTx[d] /\ use'[d] = use[d]
      /\ at'[g] = "idle" /\ onTx'[g] = FALSE
    BY <1>1 DEF SInv, Typed
<1>4. Phases'
  <2>1. 0 \in Goroutines /\ \A i \in Stmts : i \in Goroutines
      BY StmtsAssumption DEF Stmts
  <2> QED BY <1>1, <1>3, <2>1 DEF SInv, Phases
<1> QED BY <1>2, <1>3, <1>4, CallMoves

(* An analysis ends with its outcome. *)
LEMMA AnalyzedSInv == ASSUME SInv, NEW i \in Stmts, Analyzed(i) PROVE SInv'
<1>1. PICK o \in Outcome[i] : results' = [results EXCEPT ![i] = o]
    BY DEF Analyzed
<1>2. /\ results[i] = "running" /\ at[i] = "idle"
      /\ UNCHANGED <<stmtVars, main, todo, next>>
    BY DEF Analyzed, mainVars
<1>3. UNCHANGED <<tx, stmts, txStmts, live, at, ask, onTx, use>>
    BY <1>2 DEF stmtVars
<1>4. Typed'
    BY <1>1, <1>2, <1>3 DEF SInv, Typed
<1>5. o # "running"
    BY StmtsAssumption DEF Stmts
<1>6. \A j \in Stmts : j # i => results'[j] = results[j]
    BY <1>1 DEF SInv, Typed
<1>7. Phases'
    BY <1>2, <1>3, <1>5, <1>6 DEF SInv, Phases
<1> QED BY <1>2, <1>4, <1>7, CallsSame

(* The loops of the caller, which touch no statement. *)
LEMMA LoopSInv ==
    ASSUME SInv, Applied \/ Restored \/ Spawn \/ Wait \/ Merge \/ MergeDone \/ Reported
    PROVE  SInv'
<1>1. UNCHANGED <<stmtVars, todo>>
    BY DEF Applied, Restored, Spawn, Wait, Merge, MergeDone, Reported
<1>2. UNCHANGED <<tx, stmts, txStmts, live, at, ask, onTx, use>>
    BY <1>1 DEF stmtVars
<1>3. Typed'
  <2>1. next' \in Nat
    <3>1. next' = next \/ next' = next + 1 \/ next' = 1
        BY DEF Applied, Restored, Spawn, Wait, Merge, MergeDone, Reported
    <3> QED BY <3>1 DEF SInv, Typed
  <2>2. DOMAIN results' = Stmts
      BY DEF SInv, Typed, Applied, Restored, Spawn, Wait, Merge, MergeDone, Reported
  <2> QED BY <1>1, <1>2, <2>1, <2>2 DEF SInv, Typed
<1>4. CASE Spawn
  <2>1. CASE results' = [results EXCEPT ![next] = "running"] /\ UNCHANGED main /\ main = "spawn"
    <3>1. \A i \in Stmts : results'[i] # results[i] => results'[i] = "running"
        BY <2>1 DEF SInv, Typed
    <3>2. Phases'
        BY <1>2, <2>1, <3>1 DEF SInv, Phases, Alone, Calling
    <3> QED BY <1>1, <1>3, <3>2, CallsSame
  <2>2. CASE UNCHANGED results /\ main' = "wait" /\ main = "spawn"
    <3>1. Phases'
        BY <1>2, <2>2 DEF SInv, Phases, Alone, Calling
    <3> QED BY <1>1, <1>3, <3>1, CallsSame
  <2> QED BY <1>4, <2>1, <2>2 DEF Spawn
<1>5. CASE Wait
  <2>1. \A i \in Stmts : results[i] # "running"
      BY <1>5 DEF Wait, Running
  <2>2. Phases'
      BY <1>2, <1>5, <2>1 DEF SInv, Phases, Wait, Calling
  <2> QED BY <1>1, <1>3, <2>2, CallsSame
<1>6. CASE Applied \/ Restored \/ Merge \/ MergeDone \/ Reported
  <2>1. /\ UNCHANGED results /\ main # "setup" /\ main' # "setup"
        /\ main \in Alone /\ (main' = main \/ at[0] = "idle")
      BY <1>6 DEF Applied, Restored, Merge, MergeDone, Reported, Alone, Calling, SInv, Phases
  <2>2. Phases'
      BY <1>2, <2>1 DEF SInv, Phases
  <2> QED BY <1>1, <1>3, <2>2, CallsSame
<1> QED BY <1>4, <1>5, <1>6

(* A step of the caller while no goroutine uses a statement. *)
LEMMA NobodyCalls ==
    ASSUME SInv, Typed', Phases', KeptLive',
           \A g \in Goroutines : at[g] \in {"idle", "failed"} /\ at'[g] \in {"idle", "failed"},
           \A h \in live' : h \in {stmts'[h[1]], txStmts'[h[1]]}
    PROVE  SInv'
<1>1. Preparing' /\ UsesKept'
    BY DEF Preparing, UsesKept
<1>2. SingleStmt'
    BY DEF SingleStmt
<1> QED BY <1>1, <1>2 DEF SInv

(* The transaction of setup, what fails before analysis, Catalog.Close. *)
LEMMA SetupSInv ==
    ASSUME SInv, \/ BeginSetup \/ CommitSetup \/ SetupFailed \/ ApplyFailed
                 \/ RestoreFailed \/ CloseCatalog
    PROVE  SInv'
<1>1. 0 \in Goroutines /\ \A g \in Goroutines : g = 0 \/ g \in Stmts
    BY StmtsAssumption DEF Stmts
<1>2. /\ main \in {"begin", "close"} \cup Calling
      /\ at[0] \in {"idle", "failed"}
      /\ UNCHANGED <<results, next>>
    BY DEF BeginSetup, CommitSetup, SetupFailed, ApplyFailed, RestoreFailed, CloseCatalog,
           CallerFails, Calling, SInv, Phases
<1>3. todo' \in [Goroutines -> Seq(Queries)]
  <2>1. todo' \in {todo, [todo EXCEPT ![0] = Schema], [todo EXCEPT ![0] = Seeds]}
      BY DEF BeginSetup, CommitSetup, SetupFailed, ApplyFailed, RestoreFailed, CloseCatalog
  <2>2. Schema \in Seq(Queries) /\ Seeds \in Seq(Queries)
      BY StmtsAssumption
  <2> QED BY <2>1, <2>2 DEF SInv, Typed
<1>4. \A i \in Stmts : at[i] = "idle" /\ results[i] # "running"
    BY <1>2 DEF SInv, Phases, Alone, Calling
<1>5. \A g \in Goroutines : at[g] \in {"idle", "failed"}
    BY <1>1, <1>2, <1>4
<1>6. \A h \in live : h \in {stmts[h[1]], txStmts[h[1]]} /\ h[1] \in Queries /\ h \in Handles
    BY <1>5 DEF SInv, SingleStmt, Typed, Handles
<1>7. \A r \in Queries : /\ txStmts[r] \in live => txStmts[r] \in TxHandles
                         /\ stmts[r] \notin TxHandles
  <2> TAKE r \in Queries
  <2>1. txStmts[r] \in live => txStmts[r] \in TxHandles
    <3> SUFFICES ASSUME txStmts[r] \in live PROVE txStmts[r] \in TxHandles
        OBVIOUS
    <3>1. txStmts[r] \in Handles /\ txStmts[r] # NoStmt
        BY HandleIsTriple DEF SInv, Typed
    <3>2. PICK g \in Goroutines : txStmts[r] = <<r, g, TRUE>>
        BY <3>1 DEF SInv, KeptLive
    <3>3. \A h \in Handles : h[3] = TRUE => h \in TxHandles
        BY DEF TxHandles
    <3>4. txStmts[r][3] = TRUE
        BY <3>2
    <3> QED BY <3>1, <3>3, <3>4
  <2>2. stmts[r] \notin TxHandles
    <3> SUFFICES ASSUME stmts[r] \in TxHandles PROVE FALSE
        OBVIOUS
    <3>1. stmts[r] \in Handles /\ stmts[r] # NoStmt /\ stmts[r][3] = TRUE
        BY HandleIsTriple DEF TxHandles
    <3>2. PICK g \in Goroutines : stmts[r] = <<r, g, FALSE>>
        BY <3>1 DEF SInv, KeptLive
    <3> QED BY <3>1, <3>2
  <2> QED BY <2>1, <2>2
<1>8. CASE BeginSetup
  <2>1. /\ UNCHANGED <<stmts, live, at, ask, onTx, use>> /\ tx' = TRUE /\ main' = "setup"
        /\ txStmts' = [r \in Queries |-> NoStmt] /\ ~tx
      BY <1>8 DEF BeginSetup, Begin, callVars, SInv, Phases
  <2>2. Typed'
      BY <1>2, <1>3, <2>1 DEF SInv, Typed
  <2>3. Phases'
      BY <1>2, <1>4, <1>8, <2>1 DEF SInv, Phases, BeginSetup, Calling
  <2>4. KeptLive'
      BY <2>1 DEF SInv, KeptLive
  <2>5. \A h \in live' : h \in {stmts'[h[1]], txStmts'[h[1]]}
    <3>1. \A r \in Queries : txStmts[r] = NoStmt
        BY <2>1 DEF SInv, KeptLive
    <3> QED BY <1>6, <2>1, <3>1, HandleIsTriple
  <2> QED BY <1>5, <2>1, <2>2, <2>3, <2>4, <2>5, NobodyCalls
<1>9. CASE CommitSetup \/ SetupFailed
  <2>1. /\ UNCHANGED stmts /\ tx' = FALSE /\ main = "setup" /\ main' \in {"apply", "end"}
        /\ txStmts' = [r \in Queries |-> NoStmt] /\ live' = live \ TxHandles
      BY <1>9 DEF CommitSetup, SetupFailed, EndTx
  <2>2. \/ UNCHANGED <<at, ask, onTx, use>> /\ at[0] = "idle"
        \/ Return(0)
      BY <1>9 DEF CommitSetup, SetupFailed, callVars
  <2>3. /\ at' \in [Goroutines -> Labels] /\ ask' \in [Goroutines -> Queries \cup {NoQuery}]
        /\ onTx' \in [Goroutines -> BOOLEAN] /\ use' \in [Goroutines -> Handles \cup {NoStmt}]
        /\ at'[0] = "idle" /\ \A g \in Goroutines : g # 0 => at'[g] = at[g]
      BY <1>1, <2>2 DEF Return, SInv, Typed, Labels
  <2>4. Typed'
      BY <1>2, <1>3, <2>1, <2>3 DEF SInv, Typed
  <2>5. \A g \in Goroutines : at'[g] = "idle"
      BY <1>1, <1>4, <2>3
  <2>6. \A g \in Goroutines : ~onTx'[g]
    <3>1. \A g \in Goroutines : at[g] = "idle" => ~onTx[g]
        BY DEF SInv, Phases
    <3> QED BY <1>1, <1>4, <2>2, <3>1 DEF Return, SInv, Typed
  <2>7. Phases'
    <3>1. \A i \in Stmts : i \in Goroutines
        BY StmtsAssumption DEF Stmts
    <3>2. tx' = FALSE /\ main' # "setup"
        BY <2>1
    <3> QED BY <1>1, <1>2, <1>4, <2>5, <2>6, <3>1, <3>2 DEF Phases
  <2>8. KeptLive'
      BY <1>7, <2>1 DEF SInv, KeptLive
  <2>9. \A h \in live' : h \in {stmts'[h[1]], txStmts'[h[1]]}
      BY <1>6, <1>7, <2>1
  <2> QED BY <1>5, <2>4, <2>5, <2>7, <2>8, <2>9, NobodyCalls
<1>10. CASE ApplyFailed \/ RestoreFailed
  <2>1. /\ Return(0) /\ main \in {"apply", "restore"} /\ main' \in {"apply", "begin"}
        /\ ~tx /\ tx' = FALSE
      BY <1>10 DEF ApplyFailed, RestoreFailed, Close, cacheVars, SInv, Phases
  <2>2. \A r \in Queries : txStmts[r] = NoStmt
      BY <2>1 DEF SInv, KeptLive
  <2>3. \/ UNCHANGED <<stmts, txStmts, live>>
        \/ /\ stmts' = [r \in Queries |-> NoStmt] /\ txStmts' = [r \in Queries |-> NoStmt]
           /\ live' = live \ (TxHandles \cup {stmts[r] : r \in Queries})
      BY <1>10 DEF ApplyFailed, RestoreFailed, Close, cacheVars
  <2>4. UNCHANGED <<stmts, txStmts, live>> \/ live' = {}
      BY <1>6, <1>7, <2>3
  <2>5. /\ at' \in [Goroutines -> Labels] /\ ask' \in [Goroutines -> Queries \cup {NoQuery}]
        /\ onTx' \in [Goroutines -> BOOLEAN] /\ use' \in [Goroutines -> Handles \cup {NoStmt}]
        /\ at'[0] = "idle" /\ \A g \in Goroutines : g # 0 => at'[g] = at[g]
      BY <1>1, <2>1 DEF Return, SInv, Typed, Labels
  <2>6. Typed'
      BY <1>2, <1>3, <2>1, <2>3, <2>5 DEF SInv, Typed
  <2>7. \A g \in Goroutines : at'[g] = "idle"
      BY <1>1, <1>4, <2>5
  <2>8. \A g \in Goroutines : ~onTx'[g]
    <3>1. \A g \in Goroutines : at[g] = "idle" => ~onTx[g]
        BY DEF SInv, Phases
    <3> QED BY <1>1, <1>4, <2>1, <3>1 DEF Return, SInv, Typed
  <2>9. Phases'
    <3>1. \A i \in Stmts : i \in Goroutines
        BY StmtsAssumption DEF Stmts
    <3>2. tx' = FALSE /\ main' # "setup"
        BY <2>1
    <3> QED BY <1>1, <1>2, <1>4, <2>7, <2>8, <3>1, <3>2 DEF Phases
  <2>10. KeptLive'
      BY <2>1, <2>2, <2>3 DEF SInv, KeptLive
  <2>11. \A h \in live' : h \in {stmts'[h[1]], txStmts'[h[1]]}
      BY <1>6, <2>4
  <2> QED BY <1>5, <2>6, <2>7, <2>9, <2>10, <2>11, NobodyCalls
<1>11. CASE CloseCatalog
  <2>1. /\ UNCHANGED <<at, ask, onTx, use>> /\ tx' = FALSE /\ main = "close" /\ main' = "end"
        /\ txStmts' = [r \in Queries |-> NoStmt] /\ stmts' = [r \in Queries |-> NoStmt]
        /\ live' = live \ (TxHandles \cup {stmts[r] : r \in Queries})
      BY <1>11 DEF CloseCatalog, Close, callVars
  <2>2. live' = {}
      BY <1>6, <1>7, <2>1
  <2>3. Typed'
      BY <1>2, <1>3, <2>1, <2>2 DEF SInv, Typed
  <2>4. Phases'
      BY <1>2, <1>4, <2>1 DEF SInv, Phases, Calling
  <2>5. KeptLive'
      BY <2>1 DEF KeptLive
  <2> QED BY <1>5, <2>1, <2>2, <2>3, <2>4, <2>5, NobodyCalls
<1> QED BY <1>8, <1>9, <1>10, <1>11

(* SInv is inductive. *)
LEMMA NextSInv == SInv /\ [Next]_vars => SInv'
<1> SUFFICES ASSUME SInv, [Next]_vars PROVE SInv'
    OBVIOUS
<1>1. CASE Main
    BY <1>1, SetupSInv, LoopSInv DEF Main
<1>2. ASSUME NEW g \in Goroutines, Work(g) PROVE SInv'
  <2>1. CASE Ask(g)
      BY <2>1, AskSInv
  <2>2. CASE Lookup(g)
      BY <2>2, LookSInv, PrepareSInv, PublishSInv, OnwardSInv DEF Lookup, CallStep
  <2>3. CASE Answered(g)
    <3>1. /\ Return(g) /\ at[g] \in {"answered", "failed"}
          /\ UNCHANGED <<cacheVars, main, todo, next, results>>
        BY <2>3 DEF Answered, mainVars
    <3>2. DOMAIN results' = Stmts /\ \A i \in Stmts : results'[i] = results[i]
        BY <3>1 DEF SInv, Typed
    <3> QED BY <3>1, <3>2, ReturnSInv
  <2> QED BY <1>2, <2>1, <2>2, <2>3 DEF Work
<1>3. ASSUME NEW i \in Stmts, Worker(i) PROVE SInv'
  <2>1. CASE Analyzed(i)
      BY <2>1, AnalyzedSInv
  <2>2. CASE LookupFailed(i)
    <3>1. /\ Return(i) /\ at[i] \in {"answered", "failed"}
          /\ UNCHANGED <<cacheVars, main, todo, next>>
          /\ results' = [results EXCEPT ![i] = "error"]
        BY <2>2 DEF LookupFailed, mainVars
    <3>2. /\ DOMAIN results' = Stmts
          /\ \A j \in Stmts : \/ results'[j] = results[j]
                              \/ j = i /\ results'[j] # "running"
        BY <3>1 DEF SInv, Typed
    <3>3. i \in Goroutines
        BY StmtsAssumption DEF Stmts
    <3> QED BY <3>1, <3>2, <3>3, ReturnSInv
  <2> QED BY <1>3, <2>1, <2>2 DEF Worker
<1>4. CASE UNCHANGED vars
  <2>1. UNCHANGED <<stmtVars, main, todo, results, next>>
      BY <1>4 DEF vars
  <2>2. UNCHANGED <<tx, stmts, txStmts, live, at, ask, onTx, use>>
      BY <2>1 DEF stmtVars
  <2>3. Typed' /\ Phases'
      BY <2>1, <2>2 DEF SInv, Typed, Phases
  <2> QED BY <2>1, <2>3, CallsSame
<1> QED BY <1>1, <1>2, <1>3, <1>4 DEF Next

LEMMA AlwaysSInv == Spec => []SInv
BY InitSInv, NextSInv, PTL DEF Spec
--------------------------------------------------------------------------------
(* No goroutine runs a statement that another one closed: whoever loses    *)
(* the race to prepare a query runs the winner's, and the statements of    *)
(* the transaction are run by nobody once it ends.                         *)
THEOREM UseIsAliveAlways == Spec => []UseIsAlive
<1>1. SInv => UseIsAlive
  <2> SUFFICES ASSUME SInv, NEW g \in Goroutines, at[g] \in {"run", "rows"}
               PROVE  use[g] \in live
      BY DEF UseIsAlive
  <2>1. use[g] = KeptFor(g) /\ use[g] # NoStmt /\ ask[g] \in Queries
      BY DEF SInv, UsesKept, Phases
  <2> QED BY <2>1 DEF SInv, KeptLive, KeptFor
<1> QED BY AlwaysSInv, <1>1, PTL

(* Every open statement is the one kept for its query, or in the hands of  *)
(* the goroutine that has just prepared it: none leaks.                    *)
THEOREM SingleStmtAlways == Spec => []SingleStmt
<1>1. SInv => SingleStmt
    BY DEF SInv
<1> QED BY AlwaysSInv, <1>1, PTL
--------------------------------------------------------------------------------
(***************************************************************************)
(* The refinement of SourceOrder.  It needs what the loops of the caller   *)
(* have done so far, and that only a catalog that can fail does.           *)
(***************************************************************************)

(* No statement up to n is kept under the name of another. *)
Named(n) == {results[j] : j \in 1 .. n} \ Order!Problems

(* The loop over the results has gone through the statements up to n. *)
Merged(n) ==
    /\ Order!InOrder(merr, {i \in Order!Wrong : i <= n})
    /\ Order!InOrder(queries, {i \in Order!Kept : i <= n})

NothingMerged == merr = <<>> /\ queries = <<>> /\ names = {}
AllKnown == \A i \in Stmts : results[i] \notin {"none", "running"}

(* What has failed did so within the bound. *)
Failures ==
    /\ errors \in 0 .. MaxErrors
    /\ \A g \in Goroutines : at[g] \in {"fallback", "failed"} => errors > 0

(* There is no report before the caller makes one. *)
Reports ==
    /\ main \in {"restore", "begin", "setup", "spawn", "wait", "merge", "report"}
          => report = NoReport
    /\ main = "apply" => report \in {NoReport, NoCatalog}

(* The caller's loops: every statement is given a goroutine, all have      *)
(* their outcome from Wait on, and the first ones are merged. *)
Loops ==
    /\ main \in Alone \cup {"spawn", "wait"}
    /\ main \in {"restore", "begin", "setup", "apply"}
          => NothingMerged /\ next = 1 /\ \A i \in Stmts : results[i] = "none"
    /\ main = "spawn"
          => /\ NothingMerged /\ next \in 1 .. M + 1
             /\ \A i \in Stmts : results[i] = "none" <=> i >= next
    /\ main = "wait" => NothingMerged /\ \A i \in Stmts : results[i] # "none"
    /\ main = "merge"
          => /\ AllKnown /\ next \in 1 .. M + 1 /\ Merged(next - 1)
             /\ names = Named(next - 1)
             /\ \A j \in 1 .. next - 1 : results[j] # "unauthenticated"
    /\ main = "report" => AllKnown /\ Merged(M)

OInv == Failures /\ Reports /\ Loops
--------------------------------------------------------------------------------
LEMMA SameOutcomes ==
    ASSUME UNCHANGED results
    PROVE  /\ Known' = Known
           /\ Order!Wrong' = Order!Wrong /\ Order!Kept' = Order!Kept
           /\ \A n : Named(n)' = Named(n)
<1>1. Known' = Known
    BY DEF Known
<1>2. Order!Reached' = Order!Reached
    BY <1>1 DEF Order!Reached
<1>3. Order!Kept' = Order!Kept
    BY <1>1, <1>2 DEF Order!Kept
<1>4. Order!Wrong' = Order!Wrong
    BY <1>1, <1>2, <1>3 DEF Order!Wrong
<1>5. \A n : Named(n)' = Named(n)
    BY DEF Named, Order!Problems
<1> QED BY <1>1, <1>3, <1>4, <1>5

(* Steps of the calls and of the analyses leave the caller's loops alone.  *)
LEMMA SameLoops ==
    ASSUME OInv, UNCHANGED <<mainVars, results>>
    PROVE  Loops' /\ Reports'
<1>1. UNCHANGED <<main, results, next, merr, queries, names, report>>
    BY DEF mainVars
<1>2. Reports'
    BY <1>1 DEF OInv, Reports
<1>3. \A n : Merged(n)' <=> Merged(n)
    BY <1>1, SameOutcomes DEF Merged, Order!InOrder
<1>4. NothingMerged' = NothingMerged /\ AllKnown' = AllKnown
    BY <1>1 DEF NothingMerged, AllKnown
<1> QED BY <1>1, <1>2, <1>3, <1>4, SameOutcomes DEF OInv, Loops

LEMMA InitOInv == Init => OInv
<1> SUFFICES ASSUME Init PROVE OInv
    OBVIOUS
<1>1. /\ main \in {"begin", "restore"} /\ errors = 0
      /\ \A g \in Goroutines : at[g] = "idle"
    BY DEF Init, StmtInit
<1>2. Failures
    BY <1>1, ErrorsAssumption DEF Failures
<1>3. Reports
    BY <1>1 DEF Init, Reports
<1>4. Loops
    BY <1>1 DEF Init, Loops, NothingMerged, Alone, Calling
<1> QED BY <1>2, <1>3, <1>4 DEF OInv

(* A call fails when the catalog does, and it does so within the bound.    *)
LEMMA CallFailures ==
    ASSUME SInv, Failures, NEW g \in Goroutines, Ask(g) \/ Lookup(g)
    PROVE  Failures'
<1>1. PICK label : at' = [at EXCEPT ![g] = label]
    BY DEF Ask, Call, Lookup, CallStep, Look, Prepare, PrepareFails, Fallback, Publish, Run,
           RunFails, Rows, Move
<1>2. \A d \in Goroutines : at'[d] = IF d = g THEN label ELSE at[d]
    BY <1>1 DEF SInv, Typed
<1>3. errors \in Nat /\ MaxErrors \in Nat
    BY ErrorsAssumption DEF Failures
<1>4. CASE Ask(g)
    BY <1>2, <1>3, <1>4 DEF Ask, Call, Move, Failures, SInv, Typed
<1>5. CASE Look(g) \/ Prepare(g) \/ Publish(g) \/ Run(g) \/ Rows(g)
  <2>1. at'[g] \notin {"fallback", "failed"} /\ errors' = errors
      BY <1>5 DEF Look, Prepare, Publish, Run, Rows, Move, SInv, Typed
  <2> QED BY <1>2, <2>1 DEF Failures
<1>6. CASE PrepareFails(g)
    BY <1>2, <1>3, <1>6 DEF PrepareFails, Failures
<1>7. CASE Fallback(g)
    BY <1>2, <1>7 DEF Fallback, Failures
<1>8. CASE RunFails(g)
  <2>1. use[g] \in live
    <3>1. at[g] = "run" /\ ask[g] \in Queries
        BY <1>8 DEF RunFails, SInv, Phases
    <3>2. use[g] = KeptFor(g) /\ use[g] # NoStmt
        BY <3>1 DEF SInv, UsesKept
    <3> QED BY <3>1, <3>2 DEF SInv, KeptLive, KeptFor
  <2> QED BY <1>2, <1>3, <1>8, <2>1 DEF RunFails, Failures
<1> QED BY <1>4, <1>5, <1>6, <1>7, <1>8 DEF Lookup, CallStep

(* A goroutine that has seen its answer. *)
LEMMA ReturnFailures ==
    ASSUME SInv, Failures, NEW g \in Goroutines, Return(g),
           errors' = errors \/ (errors < MaxErrors /\ errors' = errors + 1)
    PROVE  Failures'
<1>1. \A d \in Goroutines : at'[d] = IF d = g THEN "idle" ELSE at[d]
    BY DEF Return, SInv, Typed
<1>2. errors \in Nat /\ MaxErrors \in Nat
    BY ErrorsAssumption DEF Failures
<1> QED BY <1>1, <1>2 DEF Failures

LEMMA CallOInv == ASSUME SInv, OInv, NEW g \in Goroutines, Work(g) PROVE OInv'
<1>1. UNCHANGED <<mainVars, results>>
    BY DEF Work, Ask, Lookup, Answered
<1>2. Failures'
  <2>1. CASE Ask(g) \/ Lookup(g)
      BY <2>1, CallFailures DEF OInv
  <2>2. CASE Answered(g)
      BY <2>2, ReturnFailures DEF Answered, OInv
  <2> QED BY <2>1, <2>2 DEF Work
<1> QED BY <1>1, <1>2, SameLoops DEF OInv

(* An analysis comes to its outcome while the caller spawns or waits. *)
LEMMA WorkerOInv ==
    ASSUME SInv, OInv, NEW i \in Stmts, Worker(i)
    PROVE  /\ OInv'
           /\ results[i] = "running" /\ main \in {"spawn", "wait"}
           /\ \E o \in Outcome[i] \cup (IF MaxErrors > 0 THEN {"error"} ELSE {}) :
                 o \notin {"none", "running"} /\ results' = [results EXCEPT ![i] = o]
<1> DEFINE Faults == IF MaxErrors > 0 THEN {"error"} ELSE {}
<1>1. i \in Goroutines /\ i # 0
    BY StmtsAssumption DEF Stmts
<1>2. UNCHANGED mainVars
    BY DEF Worker, LookupFailed, Analyzed
<1>3. UNCHANGED <<main, next, merr, queries, names, report>>
    BY <1>2 DEF mainVars
<1>4. results[i] = "running"
    BY <1>1 DEF Worker, LookupFailed, Analyzed, SInv, Phases
<1>5. main \in {"spawn", "wait"}
  <2>1. main \notin Alone
      BY <1>4 DEF SInv, Phases
  <2> QED BY <2>1 DEF OInv, Loops
<1>6. PICK o \in Outcome[i] \cup Faults :
          o \notin {"none", "running"} /\ results' = [results EXCEPT ![i] = o]
  <2>1. CASE Analyzed(i)
      BY <2>1, StmtsAssumption DEF Analyzed, Stmts
  <2>2. CASE LookupFailed(i)
    <3>1. errors > 0 /\ errors \in 0 .. MaxErrors
        BY <1>1, <2>2 DEF LookupFailed, OInv, Failures
    <3>2. MaxErrors > 0
        BY <3>1, ErrorsAssumption
    <3> QED BY <2>2, <3>2 DEF LookupFailed
  <2> QED BY <2>1, <2>2 DEF Worker
<1>7. Failures'
  <2>1. CASE Analyzed(i)
      BY <2>1 DEF Analyzed, stmtVars, OInv, Failures
  <2>2. CASE LookupFailed(i)
      BY <1>1, <2>2, ReturnFailures DEF LookupFailed, OInv
  <2> QED BY <2>1, <2>2 DEF Worker
<1>8. Reports'
    BY <1>3 DEF OInv, Reports
<1>9. Loops'
  <2>1. \A j \in Stmts : results'[j] = "none" <=> results[j] = "none"
      BY <1>4, <1>6 DEF SInv, Typed
  <2>2. NothingMerged' = NothingMerged
      BY <1>3 DEF NothingMerged
  <2> QED BY <1>3, <1>5, <2>1, <2>2 DEF OInv, Loops
<1> QED BY <1>4, <1>5, <1>6, <1>7, <1>8, <1>9 DEF OInv

(* What core.New, the schema, Catalog.Close and the two ends of the        *)
(* caller's calls do to the loops. *)
LEMMA SetupOInv ==
    ASSUME SInv, OInv,
           \/ BeginSetup \/ CommitSetup \/ SetupFailed \/ ApplyFailed \/ RestoreFailed
           \/ CloseCatalog \/ Applied \/ Restored
    PROVE  OInv'
<1>1. UNCHANGED <<results, next, merr, queries, names>>
    BY DEF BeginSetup, CommitSetup, SetupFailed, ApplyFailed, RestoreFailed, CloseCatalog,
           Applied, Restored
<1>2. 0 \in Goroutines /\ errors \in 0 .. MaxErrors /\ MaxErrors \in Nat
    BY StmtsAssumption, ErrorsAssumption DEF OInv, Failures
<1>3. Failures'
  <2>1. CASE BeginSetup \/ CommitSetup \/ CloseCatalog \/ Applied \/ Restored
    <3>1. UNCHANGED <<at, errors>>
        BY <2>1 DEF BeginSetup, Begin, CommitSetup, CloseCatalog, Applied, Restored, callVars,
               stmtVars
    <3> QED BY <3>1 DEF OInv, Failures
  <2>2. CASE SetupFailed \/ ApplyFailed \/ RestoreFailed
    <3>1. /\ Return(0)
          /\ errors' = errors \/ (errors < MaxErrors /\ errors' = errors + 1)
        BY <2>2 DEF SetupFailed, ApplyFailed, RestoreFailed, CallerFails
    <3> QED BY <1>2, <3>1, ReturnFailures DEF OInv
  <2> QED BY <2>1, <2>2
<1>4. Reports'
    BY DEF BeginSetup, CommitSetup, SetupFailed, ApplyFailed, RestoreFailed, CloseCatalog,
           Applied, Restored, OInv, Reports
<1>5. Loops'
  <2>1. NothingMerged' = NothingMerged /\ M \in Nat
      BY <1>1, StmtsAssumption DEF NothingMerged
  <2>2. CASE main \in {"restore", "begin", "setup", "apply"}
    <3>1. main' \in {"begin", "setup", "apply", "spawn", "close", "end"}
        BY <2>2 DEF BeginSetup, CommitSetup, SetupFailed, ApplyFailed, RestoreFailed,
               CloseCatalog, Applied, Restored
    <3>2. NothingMerged /\ next = 1 /\ \A i \in Stmts : results[i] = "none"
        BY <2>2 DEF OInv, Loops
    <3>3. \A i \in Stmts : i >= 1
        BY <2>1 DEF Stmts
    <3> QED BY <1>1, <2>1, <3>1, <3>2, <3>3 DEF Loops, Alone, Calling
  <2>3. CASE main = "close"
    <3>1. main' = "end"
        BY <2>3 DEF BeginSetup, CommitSetup, SetupFailed, ApplyFailed, RestoreFailed,
               CloseCatalog, Applied, Restored
    <3> QED BY <3>1 DEF Loops, Alone, Calling
  <2> QED BY <2>2, <2>3 DEF BeginSetup, CommitSetup, SetupFailed, ApplyFailed, RestoreFailed,
             CloseCatalog, Applied, Restored
<1> QED BY <1>3, <1>4, <1>5 DEF OInv

(* The steps of the loops that ask nothing of the catalog. *)
LEMMA LoopFailures ==
    ASSUME OInv, UNCHANGED stmtVars
    PROVE  Failures'
BY DEF OInv, Failures, stmtVars

(* g.Go starts an analysis, whose outcome is not known before or after. *)
LEMMA SpawnOInv == ASSUME SInv, OInv, Spawn PROVE OInv' /\ Known' = Known
<1>1. /\ main = "spawn" /\ UNCHANGED <<stmtVars, merr, queries, names, report>>
      /\ next \in Nat /\ M \in Nat
    BY StmtsAssumption DEF Spawn, SInv, Typed
<1>2. NothingMerged' = NothingMerged
    BY <1>1 DEF NothingMerged
<1>3. /\ NothingMerged /\ next \in 1 .. M + 1
      /\ \A i \in Stmts : results[i] = "none" <=> i >= next
    BY <1>1 DEF OInv, Loops
<1>4. CASE next > M
  <2>1. main' = "wait" /\ UNCHANGED results
      BY <1>1, <1>4 DEF Spawn
  <2>2. Loops'
      BY <1>1, <1>2, <1>3, <1>4, <2>1 DEF Loops, Alone, Calling, Stmts
  <2>3. Reports'
      BY <1>1, <2>1 DEF OInv, Reports
  <2> QED BY <1>1, <2>1, <2>2, <2>3, LoopFailures, SameOutcomes DEF OInv
<1>5. CASE next <= M
  <2>1. /\ results' = [results EXCEPT ![next] = "running"] /\ next' = next + 1
        /\ UNCHANGED main
      BY <1>1, <1>5 DEF Spawn
  <2>2. next \in Stmts /\ results[next] = "none" /\ DOMAIN results = Stmts
      BY <1>1, <1>3, <1>5 DEF SInv, Typed, Stmts
  <2>3. \A i \in Stmts : results'[i] = IF i = next THEN "running" ELSE results[i]
      BY <2>1, <2>2
  <2>4. Loops'
    <3>1. \A i \in Stmts : results'[i] = "none" <=> i >= next'
        BY <1>1, <1>3, <2>1, <2>3 DEF Stmts
    <3> QED BY <1>1, <1>2, <1>3, <1>5, <2>1, <3>1 DEF Loops, Alone, Calling
  <2>5. Reports'
      BY <1>1, <2>1 DEF OInv, Reports
  <2>6. Known' = Known
      BY <2>2, <2>3 DEF Known
  <2> QED BY <1>1, <2>4, <2>5, <2>6, LoopFailures DEF OInv
<1> QED BY <1>1, <1>4, <1>5

(* g.Wait *)
LEMMA WaitOInv == ASSUME SInv, OInv, Wait PROVE OInv'
<1>1. /\ main = "wait" /\ main' = "merge" /\ next' = 1
      /\ UNCHANGED <<stmtVars, results, merr, queries, names, report>>
      /\ \A i \in Stmts : results[i] # "running"
    BY DEF Wait, Running
<1>2. NothingMerged /\ \A i \in Stmts : results[i] # "none"
    BY <1>1 DEF OInv, Loops
<1>3. AllKnown'
    BY <1>1, <1>2 DEF AllKnown
<1>4. Merged(0)'
  <2>1. Order!InOrder(<<>>, {})
      BY DEF Order!InOrder
  <2>2. \A i \in Order!Wrong \cup Order!Kept : i \in Nat /\ i > 0
      BY StmtsAssumption DEF Order!Wrong, Order!Kept, Order!Reached
  <2>3. {i \in Order!Wrong : i <= 0} = {} /\ {i \in Order!Kept : i <= 0} = {}
      BY <2>2
  <2> QED BY <1>1, <1>2, <2>1, <2>3, SameOutcomes DEF Merged, NothingMerged
<1>5. names' = Named(0)'
    BY <1>1, <1>2 DEF Named, NothingMerged
<1>6. Loops'
    BY <1>1, <1>3, <1>4, <1>5, StmtsAssumption DEF Loops, Alone, Calling
<1>7. Reports'
    BY <1>1 DEF OInv, Reports
<1> QED BY <1>1, <1>6, <1>7, LoopFailures DEF OInv

(* The next statement in source order goes to the end of its list.         *)
LEMMA ListOneMore ==
    ASSUME NEW S \in SUBSET Nat, NEW n \in Nat, NEW s,
           Order!InOrder(s, {i \in S : i <= n - 1})
    PROVE  /\ n \in S => Order!InOrder(Append(s, n), {i \in S : i <= n})
           /\ n \notin S => Order!InOrder(s, {i \in S : i <= n})
<1> DEFINE before == {i \in S : i <= n - 1}
           upto == {i \in S : i <= n}
<1>1. /\ s \in Seq(before)
      /\ \A i \in before : \E k \in 1 .. Len(s) : s[k] = i
      /\ \A k, l \in 1 .. Len(s) : k < l => s[k] < s[l]
    BY DEF Order!InOrder
<1>2. ASSUME n \notin S PROVE Order!InOrder(s, upto)
  <2>1. \A i \in S : i <= n - 1 <=> i <= n
      BY <1>2
  <2>2. before = upto
      BY <2>1
  <2> QED BY <2>2
<1>3. ASSUME n \in S PROVE Order!InOrder(Append(s, n), upto)
  <2> DEFINE t == Append(s, n)
  <2>0. \A i \in S : i \in Nat /\ (i <= n <=> i = n \/ i <= n - 1)
      OBVIOUS
  <2>2. before \subseteq upto /\ n \in upto /\ \A i \in upto : i = n \/ i \in before
      BY <1>3, <2>0
  <2>7. \A i \in before : i < n
      BY <2>0
  <2> HIDE DEF before, upto
  <2>1. Len(s) \in Nat /\ \A k \in 1 .. Len(s) : s[k] \in before
      BY <1>1
  <2>3. t \in Seq(upto) /\ Len(t) = Len(s) + 1
    <3>1. s \in [1 .. Len(s) -> upto]
      <4>1. s \in [1 .. Len(s) -> before]
          BY <1>1
      <4> QED BY <2>2, <4>1
    <3>2. s \in Seq(upto)
        BY <2>1, <3>1
    <3> QED BY <2>2, <3>2
  <2>4. t[Len(s) + 1] = n /\ \A k \in 1 .. Len(s) : t[k] = s[k]
      BY <1>1, <2>1
  <2>5. \A i \in upto : \E k \in 1 .. Len(t) : t[k] = i
    <3> SUFFICES ASSUME NEW i \in upto PROVE \E k \in 1 .. Len(t) : t[k] = i
        OBVIOUS
    <3>1. CASE i = n
        BY <2>1, <2>3, <2>4, <3>1
    <3>2. CASE i \in before
      <4>1. PICK k \in 1 .. Len(s) : s[k] = i
          BY <1>1, <3>2
      <4> QED BY <2>1, <2>3, <2>4, <4>1
    <3> QED BY <2>2, <3>1, <3>2
  <2>6. ASSUME NEW k \in 1 .. Len(t), NEW l \in 1 .. Len(t), k < l PROVE t[k] < t[l]
    <3>1. k \in 1 .. Len(s)
        BY <2>1, <2>3, <2>6
    <3>2. CASE l = Len(s) + 1
        BY <2>1, <2>4, <2>7, <3>1, <3>2
    <3>3. CASE l \in 1 .. Len(s)
        BY <1>1, <2>4, <2>6, <3>1, <3>3
    <3> QED BY <2>1, <2>3, <3>2, <3>3
  <2> QED BY <2>3, <2>5, <2>6 DEF Order!InOrder
<1> QED BY <1>2, <1>3

(* What the report will say of the statements, in terms of their results.  *)
LEMMA SaidOf ==
    ASSUME SInv, AllKnown
    PROVE  /\ Order!Kept \subseteq Stmts /\ Order!Wrong \subseteq Stmts
           /\ \A n \in Stmts :
                 (\A j \in 1 .. n - 1 : results[j] # "unauthenticated")
                 => /\ n \in Order!Kept
                          <=> results[n] \notin Order!Problems \cup Named(n - 1)
                    /\ n \in Order!Wrong
                          <=> n \notin Order!Kept /\ results[n] # "skip"
<1>1. Known = [i \in Stmts |-> results[i]]
    BY DEF Known, AllKnown
<1>2. M \in Nat
    BY StmtsAssumption
<1>3. Order!Kept \subseteq Stmts /\ Order!Wrong \subseteq Stmts
    BY DEF Order!Kept, Order!Wrong, Order!Reached, Stmts
<1>4. ASSUME NEW n \in Stmts, \A j \in 1 .. n - 1 : results[j] # "unauthenticated"
      PROVE  /\ n \in Order!Kept <=> results[n] \notin Order!Problems \cup Named(n - 1)
             /\ n \in Order!Wrong <=> n \notin Order!Kept /\ results[n] # "skip"
  <2>1. \A j \in 1 .. n - 1 : j \in Stmts
      BY <1>2 DEF Stmts
  <2>2. n \in Order!Reached
      BY <1>1, <1>4, <2>1 DEF Order!Reached, Stmts
  <2>3. n \in Order!Kept <=> /\ results[n] \notin Order!Problems
                            /\ \A j \in 1 .. n - 1 : results[j] # results[n]
      BY <1>1, <2>1, <2>2 DEF Order!Kept
  <2>4. n \in Order!Wrong <=> n \notin Order!Kept /\ results[n] # "skip"
      BY <1>1, <2>2 DEF Order!Wrong
  <2> QED BY <2>3, <2>4 DEF Named
<1> QED BY <1>3, <1>4

(* The loop over the results. *)
LEMMA MergeOInv == ASSUME SInv, OInv, Merge PROVE OInv'
<1>0. PICK n : n = next
    OBVIOUS
<1> DEFINE r == results[n]
           bad == r \in {"error", "unauthenticated"} \/ r \in names
<1>1. /\ main = "merge" /\ n <= M /\ M \in Nat
      /\ UNCHANGED <<stmtVars, results, report>> /\ next' = n + 1
      /\ merr' = IF bad THEN Append(merr, n) ELSE merr
      /\ main' = IF r = "unauthenticated" THEN "report" ELSE "merge"
    BY <1>0, StmtsAssumption DEF Merge
<1>2. IF bad \/ r = "skip" THEN queries' = queries /\ names' = names
      ELSE queries' = Append(queries, n) /\ names' = names \cup {r}
    BY <1>0 DEF Merge
<1>3. /\ AllKnown /\ n \in Stmts /\ Merged(n - 1) /\ names = Named(n - 1)
      /\ \A j \in 1 .. n - 1 : results[j] # "unauthenticated"
    BY <1>0, <1>1 DEF OInv, Loops, Stmts
<1>4. /\ Order!Kept \subseteq Stmts /\ Order!Wrong \subseteq Stmts
      /\ n \in Order!Kept <=> r \notin Order!Problems \cup names
      /\ n \in Order!Wrong <=> n \notin Order!Kept /\ r # "skip"
    BY <1>3, SaidOf
<1>5. \A x \in names : x \notin Order!Problems
    BY <1>3 DEF Named
<1>6. (bad <=> n \in Order!Wrong) /\ (bad \/ r = "skip" <=> n \notin Order!Kept)
    BY <1>4, <1>5 DEF Order!Problems
<1>7. Merged(n)'
  <2>1. n \in Nat /\ Order!Kept \in SUBSET Nat /\ Order!Wrong \in SUBSET Nat
      BY <1>3, <1>4 DEF Stmts
  <2>2. Order!InOrder(merr', {i \in Order!Wrong : i <= n})
      BY <1>1, <1>3, <1>6, <2>1, ListOneMore DEF Merged
  <2>3. Order!InOrder(queries', {i \in Order!Kept : i <= n})
      BY <1>2, <1>3, <1>6, <2>1, ListOneMore DEF Merged
  <2> QED BY <1>1, <2>2, <2>3, SameOutcomes DEF Merged
<1>8. AllKnown'
    BY <1>1, <1>3 DEF AllKnown
<1>9. CASE r = "unauthenticated"
  <2>1. \A i \in Order!Wrong \cup Order!Kept : i <= n
    <3>1. Known[n] = "unauthenticated"
        BY <1>3, <1>9 DEF Known
    <3>2. \A i \in Order!Reached : i \in Nat /\ i <= n
        BY <1>3, <3>1 DEF Order!Reached, Stmts
    <3> QED BY <3>2 DEF Order!Wrong, Order!Kept
  <2>2. Merged(M)'
    <3>1. /\ {i \in Order!Wrong : i <= M} = {i \in Order!Wrong : i <= n}
          /\ {i \in Order!Kept : i <= M} = {i \in Order!Kept : i <= n}
      <4>1. \A i \in Order!Wrong \cup Order!Kept : i <= M /\ i <= n
          BY <1>1, <1>4, <2>1 DEF Stmts
      <4> QED BY <4>1
    <3> QED BY <1>1, <1>7, <3>1, SameOutcomes DEF Merged
  <2>3. Loops'
      BY <1>1, <1>8, <1>9, <2>2 DEF Loops, Alone, Calling
  <2>4. Reports'
      BY <1>1, <1>9 DEF OInv, Reports
  <2> QED BY <1>1, <2>3, <2>4, LoopFailures DEF OInv
<1>10. CASE r # "unauthenticated"
  <2>1. names' = Named(n)'
    <3>1. Named(n) = Named(n - 1) \cup ({r} \ Order!Problems)
      <4>1. 1 .. n = (1 .. n - 1) \cup {n}
          BY <1>3 DEF Stmts
      <4> QED BY <4>1 DEF Named
    <3>2. Named(n)' = Named(n)
        BY <1>1, SameOutcomes
    <3> QED BY <1>2, <1>3, <1>4, <1>6, <3>1, <3>2
  <2>2. \A j \in 1 .. n : results'[j] # "unauthenticated"
      BY <1>1, <1>3, <1>10 DEF Stmts
  <2>3. next' \in 1 .. M + 1 /\ next' - 1 = n
      BY <1>1, <1>3 DEF Stmts
  <2>4. Loops'
      BY <1>1, <1>7, <1>8, <1>10, <2>1, <2>2, <2>3 DEF Loops, Alone, Calling
  <2>5. Reports'
      BY <1>1, <1>10 DEF OInv, Reports
  <2> QED BY <1>1, <2>4, <2>5, LoopFailures DEF OInv
<1> QED BY <1>9, <1>10

LEMMA MergeDoneOInv == ASSUME SInv, OInv, MergeDone PROVE OInv'
<1>1. /\ main = "merge" /\ main' = "report" /\ next > M /\ M \in Nat
      /\ UNCHANGED <<stmtVars, results, merr, queries, names, report>>
    BY StmtsAssumption DEF MergeDone
<1>2. AllKnown /\ Merged(M)
  <2>1. next \in 1 .. M + 1 /\ Merged(next - 1) /\ AllKnown
      BY <1>1 DEF OInv, Loops
  <2>2. next - 1 = M
      BY <1>1, <2>1
  <2> QED BY <2>1, <2>2
<1>3. AllKnown' /\ Merged(M)'
    BY <1>1, <1>2, SameOutcomes DEF AllKnown, Merged
<1>4. Loops' /\ Reports'
    BY <1>1, <1>3 DEF OInv, Reports, Loops, Alone, Calling
<1> QED BY <1>1, <1>4, LoopFailures DEF OInv

(* What parseQueries returns is the report of the outcomes. *)
LEMMA ReportedOInv ==
    ASSUME SInv, OInv, Reported
    PROVE  OInv' /\ AllKnown /\ report = NoReport /\ Order!IsReport(report')
<1>1. /\ main = "report" /\ main' = "close" /\ UNCHANGED <<stmtVars, results>>
    BY DEF Reported
<1>2. AllKnown /\ Merged(M) /\ report = NoReport
    BY <1>1 DEF OInv, Reports, Loops
<1>3. Order!InOrder(merr, Order!Wrong) /\ Order!InOrder(queries, Order!Kept)
  <2>1. /\ {i \in Order!Wrong : i <= M} = Order!Wrong
        /\ {i \in Order!Kept : i <= M} = Order!Kept
      BY <1>2, SaidOf, StmtsAssumption DEF Stmts
  <2> QED BY <1>2, <2>1 DEF Merged
<1>4. (merr = <<>> <=> Order!Wrong = {}) /\ (queries = <<>> <=> Order!Kept = {})
  <2>1. \A s, S : Order!InOrder(s, S) => (s = <<>> <=> S = {})
    <3> SUFFICES ASSUME NEW s, NEW S, Order!InOrder(s, S) PROVE s = <<>> <=> S = {}
        OBVIOUS
    <3>1. s \in Seq(S) /\ \A i \in S : \E k \in 1 .. Len(s) : s[k] = i
        BY DEF Order!InOrder
    <3>2. s = <<>> => S = {}
        BY <3>1
    <3>3. s # <<>> => s[1] \in S
        BY <3>1
    <3> QED BY <3>2, <3>3
  <2> QED BY <1>3, <2>1
<1>5. Order!IsReport(report')
  <2>1. report' = IF merr # <<>> THEN [status |-> "errors", of |-> merr]
                  ELSE IF queries = <<>> THEN [status |-> "no queries", of |-> <<>>]
                  ELSE [status |-> "queries", of |-> queries]
      BY DEF Reported
  <2> QED BY <1>3, <1>4, <2>1 DEF Order!IsReport
<1>6. Loops' /\ Reports'
    BY <1>1 DEF Reports, Loops, Alone, Calling
<1> QED BY <1>1, <1>2, <1>5, <1>6, LoopFailures DEF OInv
--------------------------------------------------------------------------------
(* Every step of parseQueries keeps the invariant, and is a step of        *)
(* SourceOrder or changes nothing of what it sees. *)
LEMMA CallerSimulates ==
    ASSUME SInv, OInv, Main
    PROVE  OInv' /\ [Order!Next]_<<Known, report>>
<1>1. CASE BeginSetup \/ CommitSetup \/ CloseCatalog \/ Applied \/ Restored \/ RestoreFailed
  <2>1. UNCHANGED <<results, report>>
      BY <1>1 DEF BeginSetup, CommitSetup, CloseCatalog, Applied, Restored, RestoreFailed
  <2> QED BY <1>1, <2>1, SetupOInv, SameOutcomes
<1>2. CASE SetupFailed \/ ApplyFailed
  <2>1. report' = NoCatalog /\ UNCHANGED results
      BY <1>2 DEF SetupFailed, ApplyFailed
  <2>2. report \in {NoReport, NoCatalog}
      BY <1>2 DEF SetupFailed, ApplyFailed, OInv, Reports
  <2>3. MaxErrors > 0
    <3>1. at[0] = "failed" \/ errors < MaxErrors
        BY <1>2 DEF SetupFailed, ApplyFailed, CallerFails
    <3>2. errors \in 0 .. MaxErrors /\ (at[0] = "failed" => errors > 0)
        BY StmtsAssumption DEF OInv, Failures
    <3> QED BY <3>1, <3>2, ErrorsAssumption
  <2>4. UNCHANGED <<Known, report>> \/ Order!GiveUp
      BY <2>1, <2>2, <2>3, SameOutcomes
      DEF Order!GiveUp, NoReport, NoCatalog, Order!NoReport, Order!NoCatalog
  <2> QED BY <1>2, <2>4, SetupOInv DEF Order!Next
<1>3. CASE Spawn
  <2>1. UNCHANGED report
      BY <1>3 DEF Spawn
  <2> QED BY <1>3, <2>1, SpawnOInv
<1>4. CASE Wait \/ Merge \/ MergeDone
  <2>1. UNCHANGED <<results, report>>
      BY <1>4 DEF Wait, Merge, MergeDone
  <2> QED BY <1>4, <2>1, WaitOInv, MergeOInv, MergeDoneOInv, SameOutcomes
<1>5. CASE Reported
  <2>1. /\ OInv' /\ AllKnown /\ report = NoReport /\ Order!IsReport(report')
        /\ UNCHANGED results
      BY <1>5, ReportedOInv DEF Reported
  <2>2. \A i \in 1 .. M : Known[i] # "none"
      BY <2>1 DEF Known, AllKnown, Stmts
  <2>3. Order!Finish
      BY <2>1, <2>2, SameOutcomes DEF Order!Finish, NoReport, Order!NoReport
  <2> QED BY <2>1, <2>3 DEF Order!Next
<1> QED BY <1>1, <1>2, <1>3, <1>4, <1>5 DEF Main

LEMMA WorkerSimulates ==
    ASSUME SInv, OInv, NEW i \in Stmts, Worker(i)
    PROVE  OInv' /\ Order!Next
<1>1. /\ OInv' /\ results[i] = "running" /\ main \in {"spawn", "wait"}
    BY WorkerOInv
<1>2. PICK o \in Outcome[i] \cup (IF MaxErrors > 0 THEN {"error"} ELSE {}) :
          o \notin {"none", "running"} /\ results' = [results EXCEPT ![i] = o]
    BY WorkerOInv
<1>3. Known[i] = "none" /\ Known' = [Known EXCEPT ![i] = o]
  <2>1. \A j \in Stmts : results'[j] = IF j = i THEN o ELSE results[j]
      BY <1>2 DEF SInv, Typed
  <2> QED BY <1>1, <1>2, <2>1 DEF Known
<1>4. report = NoReport /\ UNCHANGED report
    BY <1>1 DEF OInv, Reports, Worker, LookupFailed, Analyzed, mainVars
<1>5. Order!Analyze(i)
    BY <1>2, <1>3, <1>4 DEF Order!Analyze, NoReport, Order!NoReport
<1> QED BY <1>1, <1>5 DEF Order!Next, Stmts

LEMMA StepSimulates ==
    SInv /\ OInv /\ [Next]_vars => OInv' /\ [Order!Next]_<<Known, report>>
<1> SUFFICES ASSUME SInv, OInv, [Next]_vars
             PROVE  OInv' /\ [Order!Next]_<<Known, report>>
    OBVIOUS
<1>1. CASE Main
    BY <1>1, CallerSimulates
<1>2. ASSUME NEW g \in Goroutines, Work(g)
      PROVE  OInv' /\ [Order!Next]_<<Known, report>>
  <2>1. UNCHANGED <<results, report>>
      BY <1>2 DEF Work, Ask, Lookup, Answered, mainVars
  <2> QED BY <1>2, <2>1, CallOInv, SameOutcomes
<1>3. ASSUME NEW i \in Stmts, Worker(i)
      PROVE  OInv' /\ [Order!Next]_<<Known, report>>
    BY <1>3, WorkerSimulates
<1>4. CASE UNCHANGED vars
  <2>1. UNCHANGED <<stmtVars, mainVars, results, report>>
      BY <1>4 DEF vars, mainVars
  <2> QED BY <2>1, LoopFailures, SameLoops, SameOutcomes DEF OInv
<1> QED BY <1>1, <1>2, <1>3, <1>4 DEF Next

(* parseQueries implements the abstract report: whatever the order in      *)
(* which the goroutines finish, whatever fails on the way, what it returns *)
(* is made of all the outcomes, in source order, first of a name kept.     *)
THEOREM InSourceOrderAlways == Spec => InSourceOrder
<1>1. Init => Order!Init
    BY DEF Init, Order!Init, Known, Stmts, NoReport, Order!NoReport
<1> QED BY <1>1, InitOInv, StepSimulates, AlwaysSInv, PTL DEF Spec, InSourceOrder, Order!Spec
================================================================================
