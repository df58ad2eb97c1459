---- MODULE ManagedDB ----
(***************************************************************************)
(* Managed databases: ManagedClient.CreateDatabase (internal/dbmanager)    *)
(* and the pool cache it opens its server connection from                  *)
(* (internal/pgx/poolcache), as the analyzer of PostgreSQL, `sqlc vet`,    *)
(* `sqlc verify` and `sqlc createdb` call them.                            *)
(*                                                                         *)
(* A caller is a goroutine of a process.  It opens a pool, enters the      *)
(* process-wide singleflight group under the name of its database and, as  *)
(* the leader of the flight, looks the database up, creates it, connects   *)
(* and applies the migrations; a failure drops the database again.  The    *)
(* server is shared by the processes, the singleflight group is not.       *)
(*                                                                         *)
(* An error the code is given does not say that the server did nothing: a  *)
(* reply may be lost, or the context cancelled, and the statement runs all *)
(* the same, at once or after its caller has gone on.                      *)
(***************************************************************************)
EXTENDS Integers, FiniteSets

CONSTANTS
    Procs,        \* running sqlc processes
    Clients,      \* ManagedClient values, each with its pool cache
    Callers,      \* goroutines that call CreateDatabase
    Names,        \* database names, a prefix and the hash of the migrations
    ProcOf, ClientOf, NameOf,   \* the caller's process, client and database
    N,            \* number of migration scripts that are not blank
    MaxFaults,    \* crashes and lost replies
    MaxAttempts   \* calls one caller makes: Analyze retries at its next query

ASSUME OwnersAssumption ==
    /\ ProcOf \in [Callers -> Procs]
    /\ ClientOf \in [Callers -> Clients]
    /\ NameOf \in [Callers -> Names]

ASSUME CallersAssumption == IsFiniteSet(Callers)

ASSUME BoundsAssumption ==
    /\ N \in Nat \ {0}
    /\ MaxFaults \in Nat
    /\ MaxAttempts \in Nat

VARIABLES
    db,        \* the server: how many migrations each database has seen
    maker,     \* the process that last created the database (history)
    spoiled,   \* a crash or a lost reply concerned the last database of the
               \* name (history)
    creates,   \* processes whose CREATE the server may still run
    drops,     \* databases whose DROP the server may still run
    flight,    \* the leader in each process's singleflight group, by name
    pc, result, attempt,
    made,      \* pools a client has created, numbered from 1
    pools,     \* the pool in the client's cache, 0 for none
    released,  \* pools the client has closed
    shut,      \* poolcache.Cache.closed
    mine,      \* the pool a caller has made and not stored yet, or 0
    faults

serverVars == <<db, maker, spoiled, creates, drops>>
poolVars == <<made, pools, released, shut, mine>>
vars == <<db, maker, spoiled, creates, drops, flight, pc, result, attempt,
          made, pools, released, shut, mine, faults>>

Absent == -1
NoOne == "no one"
Nobody == "nobody"

ASSUME NoOneAssumption == NoOne \notin Callers /\ Nobody \notin Procs

PCs == {"idle", "newpool", "store", "flight", "wait", "check", "create",
        "connect", "migrate", "drop", "finish", "ok", "err", "dead"}

(* The caller created its database and has neither finished nor dropped it. *)
Building(c) == pc[c] \in {"connect", "migrate", "drop"}

(* The caller is the leader of a flight. *)
Leading(c) == pc[c] \in {"check", "create", "connect", "migrate", "drop", "finish"}

Goto(c, label) == pc' = [pc EXCEPT ![c] = label]

Init ==
    /\ db = [n \in Names |-> Absent]
    /\ maker = [n \in Names |-> Nobody]
    /\ spoiled = [n \in Names |-> FALSE]
    /\ creates = [n \in Names |-> {}]
    /\ drops = {}
    /\ flight = [p \in Procs |-> [n \in Names |-> NoOne]]
    /\ pc = [c \in Callers |-> "idle"]
    /\ result = [c \in Callers |-> "none"]
    /\ attempt = [c \in Callers |-> 0]
    /\ made = [k \in Clients |-> 0]
    /\ pools = [k \in Clients |-> 0]
    /\ released = [k \in Clients |-> {}]
    /\ shut = [k \in Clients |-> FALSE]
    /\ mine = [c \in Callers |-> 0]
    /\ faults = 0

-----------------------------------------------------------------------------
(* The pool cache.                                                         *)

(* The lookup of the pool cache is skipped. *)
OpenAnew(c) ==
    /\ pc[c] = "idle"
    /\ attempt' = [attempt EXCEPT ![c] = @ + 1]
    /\ Goto(c, IF shut[ClientOf[c]] THEN "err" ELSE "newpool")
    /\ UNCHANGED <<serverVars, poolVars, flight, result, faults>>

(* Open: the closed flag and the lookup. *)
Open(c) ==
    LET k == ClientOf[c] IN
    /\ pc[c] = "idle"
    /\ attempt' = [attempt EXCEPT ![c] = @ + 1]
    /\ Goto(c, IF shut[k] THEN "err"
               ELSE IF pools[k] # 0 THEN "flight"
               ELSE "newpool")
    /\ UNCHANGED <<serverVars, poolVars, flight, result, faults>>

(* Open, the lock released: pgxpool.New makes a pool or reports an error. *)
NewPool(c) ==
    LET k == ClientOf[c] IN
    /\ pc[c] = "newpool"
    /\ \/ /\ made' = [made EXCEPT ![k] = @ + 1]
          /\ mine' = [mine EXCEPT ![c] = made[k] + 1]
          /\ Goto(c, "store")
       \/ Goto(c, "err") /\ UNCHANGED <<made, mine>>
    /\ UNCHANGED <<serverVars, flight, result, attempt, pools, released, shut, faults>>

(* Open, the lock taken again: the pool goes into the map, over any other. *)
Store(c) ==
    /\ pc[c] = "store"
    /\ pools' = [pools EXCEPT ![ClientOf[c]] = mine[c]]
    /\ mine' = [mine EXCEPT ![c] = 0]
    /\ Goto(c, "flight")
    /\ UNCHANGED <<serverVars, flight, result, attempt, made, released, shut, faults>>

(* Close: Compiler.Close, once no caller of the client is at work. *)
Close(k) ==
    /\ ~shut[k]
    /\ \A c \in Callers : ClientOf[c] = k => pc[c] \in {"ok", "err"}
    /\ released' = [released EXCEPT ![k] = @ \cup ({pools[k]} \ {0})]
    /\ shut' = [shut EXCEPT ![k] = TRUE]
    /\ pools' = [pools EXCEPT ![k] = 0]
    /\ UNCHANGED <<serverVars, flight, pc, result, attempt, made, mine, faults>>

-----------------------------------------------------------------------------
(* CreateDatabase.                                                         *)

(* No singleflight: every caller of a process does the work itself. *)
EnterAlways(c) ==
    LET p == ProcOf[c]
        n == NameOf[c]
    IN /\ pc[c] = "flight"
       /\ Goto(c, "check")
       /\ flight' = [flight EXCEPT ![p][n] = c]
       /\ UNCHANGED <<serverVars, poolVars, result, attempt, faults>>

(* flight.Do: the first caller of a name leads, the others wait. *)
Enter(c) ==
    LET p == ProcOf[c]
        n == NameOf[c]
    IN /\ pc[c] = "flight"
       /\ IF flight[p][n] = NoOne
          THEN Goto(c, "check") /\ flight' = [flight EXCEPT ![p][n] = c]
          ELSE Goto(c, "wait") /\ UNCHANGED flight
       /\ UNCHANGED <<serverVars, poolVars, result, attempt, faults>>

(* SELECT datname: a row ends the flight; no row, or an error, goes on. *)
Check(c) ==
    /\ pc[c] = "check"
    /\ \/ /\ db[NameOf[c]] # Absent
          /\ result' = [result EXCEPT ![c] = "ok"]
          /\ Goto(c, "finish")
       \/ Goto(c, "create") /\ UNCHANGED result
    /\ UNCHANGED <<serverVars, poolVars, flight, attempt, faults>>

(* CREATE DATABASE IF NOT EXISTS, say: an existing database is taken over. *)
CreateTakesOver(c) ==
    LET n == NameOf[c] IN
    /\ pc[c] = "create"
    /\ db' = [db EXCEPT ![n] = 0]
    /\ maker' = [maker EXCEPT ![n] = ProcOf[c]]
    /\ spoiled' = [spoiled EXCEPT ![n] = FALSE]
    /\ Goto(c, "connect")
    /\ UNCHANGED <<creates, drops, poolVars, flight, attempt, faults, result>>

(* CREATE DATABASE fails when the database exists, and may fail anyway.    *)
(* The error returns without a DROP, and a CREATE whose reply was lost may *)
(* have run or run yet.                                                    *)
Create(c) ==
    LET n == NameOf[c] IN
    /\ pc[c] = "create"
    /\ \/ /\ db[n] = Absent
          /\ db' = [db EXCEPT ![n] = 0]
          /\ maker' = [maker EXCEPT ![n] = ProcOf[c]]
          /\ spoiled' = [spoiled EXCEPT ![n] = FALSE]
          /\ Goto(c, "connect")
          /\ UNCHANGED <<result, creates, faults>>
       \/ /\ result' = [result EXCEPT ![c] = "err"]
          /\ Goto(c, "finish")
          /\ \/ UNCHANGED <<creates, faults>>
             \/ /\ faults < MaxFaults
                /\ faults' = faults + 1
                /\ creates' = [creates EXCEPT ![n] = @ \cup {ProcOf[c]}]
          /\ UNCHANGED <<db, maker, spoiled>>
    /\ UNCHANGED <<drops, poolVars, flight, attempt>>

(* A failed connection returns without the DROP. *)
ConnectKeepsDatabase(c) ==
    /\ pc[c] = "connect"
    /\ \/ Goto(c, "migrate") /\ UNCHANGED result
       \/ Goto(c, "finish") /\ result' = [result EXCEPT ![c] = "err"]
    /\ UNCHANGED <<serverVars, poolVars, flight, attempt, faults>>

(* pgx.Connect to the new database. *)
Connect(c) ==
    /\ pc[c] = "connect"
    /\ Goto(c, "migrate") \/ Goto(c, "drop")
    /\ UNCHANGED <<serverVars, poolVars, flight, result, attempt, faults>>

(* One migration script, which the server applies whole or not at all: an  *)
(* error may still be that of a script that was applied, the last included.*)
Migrate(c) ==
    LET n == NameOf[c]
        applied == db' = [db EXCEPT ![n] = @ + 1]
    IN
    /\ pc[c] = "migrate"
    /\ \/ /\ applied
          /\ IF db[n] + 1 = N
             THEN Goto(c, "finish") /\ result' = [result EXCEPT ![c] = "ok"]
             ELSE UNCHANGED <<pc, result>>
          /\ UNCHANGED <<spoiled, faults>>
       \/ Goto(c, "drop") /\ UNCHANGED <<db, result, spoiled, faults>>
       \/ /\ faults < MaxFaults
          /\ faults' = faults + 1
          /\ applied
          /\ spoiled' = [spoiled EXCEPT ![n] = TRUE]
          /\ Goto(c, "drop")
          /\ UNCHANGED result
    /\ UNCHANGED <<maker, creates, drops, poolVars, flight, attempt>>

(* DROP DATABASE ... WITH (FORCE), whose own error is ignored: it may run  *)
(* later or never. *)
Drop(c) ==
    LET n == NameOf[c] IN
    /\ pc[c] = "drop"
    /\ \/ db' = [db EXCEPT ![n] = Absent] /\ UNCHANGED <<spoiled, drops, faults>>
       \/ /\ faults < MaxFaults
          /\ faults' = faults + 1
          /\ spoiled' = [spoiled EXCEPT ![n] = TRUE]
          /\ drops' = drops \cup {n}
          /\ UNCHANGED db
    /\ result' = [result EXCEPT ![c] = "err"]
    /\ Goto(c, "finish")
    /\ UNCHANGED <<maker, creates, poolVars, flight, attempt>>

(* The server runs a CREATE or a DROP that its caller has given up. *)
LateCreate(n) ==
    \E p \in creates[n] :
        /\ db[n] = Absent
        /\ db' = [db EXCEPT ![n] = 0]
        /\ maker' = [maker EXCEPT ![n] = p]
        /\ spoiled' = [spoiled EXCEPT ![n] = TRUE]
        /\ creates' = [creates EXCEPT ![n] = @ \ {p}]
        /\ UNCHANGED <<drops, poolVars, flight, pc, result, attempt, faults>>

LateDrop(n) ==
    /\ n \in drops
    /\ db' = [db EXCEPT ![n] = Absent]
    /\ drops' = drops \ {n}
    /\ UNCHANGED <<maker, spoiled, creates, poolVars, flight, pc, result, attempt, faults>>

(* The leader returns without telling those who wait. *)
FinishAlone(c) ==
    LET p == ProcOf[c]
        n == NameOf[c]
    IN /\ pc[c] = "finish"
       /\ Goto(c, result[c])
       /\ result' = [result EXCEPT ![c] = "none"]
       /\ flight' = [flight EXCEPT ![p][n] = NoOne]
       /\ UNCHANGED <<serverVars, poolVars, attempt, faults>>

(* The flight ends: its leader and all who waited return its outcome. *)
Finish(c) ==
    LET p == ProcOf[c]
        n == NameOf[c]
        served(d) == \/ d = c
                     \/ pc[d] = "wait" /\ ProcOf[d] = p /\ NameOf[d] = n
    IN /\ pc[c] = "finish"
       /\ pc' = [d \in Callers |-> IF served(d) THEN result[c] ELSE pc[d]]
       /\ result' = [result EXCEPT ![c] = "none"]
       /\ flight' = [flight EXCEPT ![p][n] = NoOne]
       /\ UNCHANGED <<serverVars, poolVars, attempt, faults>>

(* Analyzer.Analyze: no pool yet, so the next query asks again. *)
Retry(c) ==
    /\ pc[c] = "err"
    /\ attempt[c] < MaxAttempts
    /\ Goto(c, "idle")
    /\ UNCHANGED <<serverVars, poolVars, flight, result, attempt, faults>>

(* A process is killed.  What it was building stays on the server, and a   *)
(* CREATE or DROP that it had sent may still run. *)
Crash(p) ==
    /\ faults < MaxFaults
    /\ \E c \in Callers : ProcOf[c] = p /\ pc[c] # "dead"
    /\ faults' = faults + 1
    /\ pc' = [c \in Callers |-> IF ProcOf[c] = p THEN "dead" ELSE pc[c]]
    /\ spoiled' = [n \in Names |->
           spoiled[n] \/ \E c \in Callers :
                             ProcOf[c] = p /\ NameOf[c] = n /\ Building(c)]
    /\ creates' = [n \in Names |->
           IF \E c \in Callers : ProcOf[c] = p /\ NameOf[c] = n /\ pc[c] = "create"
           THEN creates[n] \cup {p} ELSE creates[n]]
    /\ drops' = drops \cup {n \in Names : \E c \in Callers :
                                ProcOf[c] = p /\ NameOf[c] = n /\ pc[c] = "drop"}
    /\ flight' = [flight EXCEPT ![p] = [n \in Names |-> NoOne]]
    /\ result' = [c \in Callers |-> IF ProcOf[c] = p THEN "none" ELSE result[c]]
    /\ UNCHANGED <<db, maker, poolVars, attempt>>

Step(c) ==
    \/ Open(c) \/ NewPool(c) \/ Store(c) \/ Enter(c) \/ Check(c) \/ Create(c)
    \/ Connect(c) \/ Migrate(c) \/ Drop(c) \/ Finish(c)

Next ==
    \/ \E c \in Callers : Step(c) \/ Retry(c)
    \/ \E k \in Clients : Close(k)
    \/ \E n \in Names : LateCreate(n) \/ LateDrop(n)
    \/ \E p \in Procs : Crash(p)

Spec == Init /\ [][Next]_vars

(* A goroutine that can run does run; a retry needs a further query. *)
FairSpec == Spec /\ \A c \in Callers : WF_vars(Step(c))
-----------------------------------------------------------------------------
(* Properties.                                                             *)

(* Every variable keeps its type. *)
TypeOK ==
    /\ db \in [Names -> -1 .. N]
    /\ maker \in [Names -> Procs \cup {Nobody}]
    /\ spoiled \in [Names -> BOOLEAN]
    /\ creates \in [Names -> SUBSET Procs]
    /\ drops \in SUBSET Names
    /\ flight \in [Procs -> [Names -> Callers \cup {NoOne}]]
    /\ pc \in [Callers -> PCs]
    /\ result \in [Callers -> {"none", "ok", "err"}]
    /\ attempt \in [Callers -> Nat]
    /\ made \in [Clients -> Nat]
    /\ pools \in [Clients -> Nat]
    /\ released \in [Clients -> SUBSET Nat]
    /\ shut \in [Clients -> BOOLEAN]
    /\ mine \in [Callers -> Nat]
    /\ faults \in 0 .. MaxFaults

(* At most one caller of all processes migrates or drops a database: the   *)
(* server's CREATE DATABASE arbitrates between the processes that          *)
(* singleflight does not.                                                  *)
OneBuilder ==
    \A c, d \in Callers :
        Building(c) /\ Building(d) /\ NameOf[c] = NameOf[d] => c = d

(* A database short of migrations is being built by a caller, or a crash   *)
(* or a lost reply (of its CREATE, of a script or of its DROP) concerned   *)
(* it: every error path after a CREATE that was answered undoes it.        *)
HalfIsOwned ==
    \A n \in Names : db[n] \in 0 .. N - 1 =>
        spoiled[n] \/ \E c \in Callers : NameOf[c] = n /\ Building(c)

(* DROP DATABASE ... WITH (FORCE), run at once or late, never removes a    *)
(* database whose migrations were all applied, however the processes       *)
(* interleave, unless the reply of one of those migrations was lost: then  *)
(* its own builder takes it for a failure and drops it.                    *)
FullStays ==
    [][\A n \in Names : db[n] = N /\ ~spoiled[n] => db'[n] = N]_vars

(* A caller is told the database is ready only if it has every migration,  *)
(* or a crash or a lost reply concerned it, or another process made it:    *)
(* within one process the singleflight group closes the window between     *)
(* SELECT and CREATE.                                                      *)
OkGivesSchema ==
    [][\A c \in Callers : pc'[c] = "ok" /\ pc[c] # "ok" =>
          LET n == NameOf[c]
          IN db'[n] = N \/ spoiled[n] \/ maker[n] # ProcOf[c]]_vars

(* Every pool a client made is released by Close, sits in its cache, is on *)
(* its way there or was overwritten in a race of Open: fewer of the last   *)
(* than callers, whatever the number of calls.  A dead process has none.   *)
LeakBounded ==
    \A k \in Clients :
        LET users == {c \in Callers : ClientOf[c] = k}
            lost == (1 .. made[k]) \ (released[k] \cup {pools[k]} \cup {mine[c] : c \in users})
        IN (\E c \in users : pc[c] # "dead") => Cardinality(lost) < Cardinality(users)

(* Every call of CreateDatabase returns, unless its process dies: nobody   *)
(* waits for a flight that has no leader.                                  *)
Returns == \A c \in Callers : pc[c] = "idle" ~> pc[c] \in {"ok", "err", "dead"}
====
