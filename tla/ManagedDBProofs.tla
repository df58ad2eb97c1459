---------------------------- MODULE ManagedDBProofs ----------------------------
(***************************************************************************)
(* Proofs about ManagedDB, for any number of processes, callers, databases *)
(* and migrations, and any number of crashes and lost replies.             *)
(***************************************************************************)
EXTENDS ManagedDB, FiniteSetTheorems, TLAPS

(* The leader of a flight that ends has an outcome to report. *)
Outcomes == \A c \in Callers : pc[c] = "finish" => result[c] \in {"ok", "err"}

(* What a caller is building is there, its own process made it, and it has *)
(* all its migrations only if the reply of one of them was lost. *)
Builders ==
    \A c \in Callers : Building(c) =>
        /\ db[NameOf[c]] \in 0 .. N - 1 \/ (db[NameOf[c]] = N /\ spoiled[NameOf[c]])
        /\ maker[NameOf[c]] = ProcOf[c]

(* singleflight: who leads is registered as the leader of its name. *)
Leaders == \A c \in Callers : Leading(c) => flight[ProcOf[c]][NameOf[c]] = c

(* Who builds a database that a fault concerned is about to drop it, and a *)
(* DROP that may run late has such a database to itself. *)
Doubtful ==
    /\ \A c \in Callers : Building(c) /\ spoiled[NameOf[c]] => pc[c] = "drop"
    /\ \A n \in drops : /\ spoiled[n] /\ db[n] # Absent
                         /\ \A c \in Callers : Building(c) => NameOf[c] # n

(* What the leader of a flight may report as ready. *)
Ready(c) ==
    LET n == NameOf[c] IN db[n] = N \/ spoiled[n] \/ maker[n] # ProcOf[c]
OkIsReady == \A c \in Callers : pc[c] = "finish" /\ result[c] = "ok" => Ready(c)

IInv ==
    /\ TypeOK /\ Outcomes /\ Builders /\ OneBuilder /\ Leaders
    /\ HalfIsOwned /\ Doubtful /\ OkIsReady

--------------------------------------------------------------------------------
(* At the start there is no database, no flight and no pool. *)
LEMMA InitIInv == Init => IInv
<1> SUFFICES ASSUME Init PROVE IInv
    OBVIOUS
<1>1. TypeOK
    BY BoundsAssumption DEF Init, TypeOK, PCs, Absent
<1>2. \A c \in Callers : ~Building(c) /\ ~Leading(c) /\ pc[c] # "finish"
    BY DEF Init, Building, Leading
<1>3. drops = {} /\ \A n \in Names : db[n] \notin 0 .. N - 1 /\ ~spoiled[n]
    BY BoundsAssumption DEF Init, Absent
<1> QED BY <1>1, <1>2, <1>3
    DEF IInv, Outcomes, Builders, OneBuilder, Leaders, HalfIsOwned, Doubtful, OkIsReady

(* The labels of a leader, and the callers of one name in one process: two *)
(* of them that lead are the same. *)
LEMMA OneLeader ==
    ASSUME IInv, NEW c \in Callers, NEW d \in Callers, Leading(c), Leading(d),
           ProcOf[c] = ProcOf[d], NameOf[c] = NameOf[d]
    PROVE  c = d
BY DEF IInv, Leaders

(* A step that leaves the server and the flights alone, and takes nobody   *)
(* into or out of a flight, keeps everything. *)
LEMMA Aside ==
    ASSUME IInv, TypeOK', UNCHANGED <<db, maker, spoiled, drops, flight, result>>,
           \A d \in Callers : pc'[d] = pc[d] \/ (~Leading(d) /\ ~Leading(d)')
    PROVE  IInv'
<1>1. \A d \in Callers : Leading(d)' => pc'[d] = pc[d] /\ Leading(d)
    BY DEF Leading
<1>2. \A d \in Callers : /\ Building(d)' <=> Building(d)
                         /\ Building(d) => pc'[d] = pc[d]
                         /\ pc'[d] = "finish" <=> pc[d] = "finish"
    BY DEF Leading, Building
<1>3. Outcomes' /\ Builders' /\ OneBuilder' /\ HalfIsOwned' /\ Doubtful' /\ OkIsReady'
    BY <1>2 DEF IInv, Outcomes, Builders, OneBuilder, HalfIsOwned, Doubtful, OkIsReady, Ready
<1>4. Leaders'
    BY <1>1 DEF IInv, Leaders
<1> QED BY <1>3, <1>4 DEF IInv

(* The steps of the pool cache, and the retry of a call that failed. *)
LEMMA PoolIInv ==
    ASSUME IInv, NEW c \in Callers, Open(c) \/ NewPool(c) \/ Store(c) \/ Retry(c)
    PROVE  IInv'
<1> USE DEF serverVars, poolVars, Goto
<1>1. TypeOK /\ ClientOf[c] \in Clients
    BY OwnersAssumption DEF IInv
<1>2. TypeOK'
  <2>1. CASE Open(c)    BY <1>1, <2>1 DEF TypeOK, Open, PCs
  <2>2. CASE NewPool(c)
    <3>1. made[ClientOf[c]] + 1 \in Nat
        BY <1>1 DEF TypeOK
    <3>2. made' \in [Clients -> Nat] /\ mine' \in [Callers -> Nat]
      <4>1. CASE UNCHANGED <<made, mine>>
          BY <1>1, <4>1 DEF TypeOK
      <4>2. CASE /\ made' = [made EXCEPT ![ClientOf[c]] = made[ClientOf[c]] + 1]
                 /\ mine' = [mine EXCEPT ![c] = made[ClientOf[c]] + 1]
          BY <1>1, <3>1, <4>2 DEF TypeOK
      <4> QED BY <2>2, <4>1, <4>2 DEF NewPool
    <3>3. pc' \in [Callers -> PCs]
        BY <1>1, <2>2 DEF TypeOK, NewPool, PCs
    <3> QED BY <1>1, <2>2, <3>2, <3>3 DEF TypeOK, NewPool
  <2>3. CASE Store(c)   BY <1>1, <2>3 DEF TypeOK, Store, PCs
  <2>4. CASE Retry(c)   BY <1>1, <2>4 DEF TypeOK, Retry, PCs
  <2> QED BY <2>1, <2>2, <2>3, <2>4
<1>3. UNCHANGED <<db, maker, spoiled, drops, flight, result>>
    BY DEF Open, NewPool, Store, Retry
<1>4. /\ pc[c] \in {"idle", "newpool", "store", "err"}
      /\ \E label \in {"idle", "newpool", "store", "flight", "err"} :
             pc' = [pc EXCEPT ![c] = label]
    BY DEF Open, NewPool, Store, Retry
<1>5. \A d \in Callers : pc'[d] = pc[d] \/ (~Leading(d) /\ ~Leading(d)')
    BY <1>1, <1>4 DEF TypeOK, Leading
<1> QED BY <1>2, <1>3, <1>5, Aside

(* Cache.Close *)
LEMMA CloseIInv == ASSUME IInv, NEW k \in Clients, Close(k) PROVE IInv'
<1>1. TypeOK'
  <2>1. pools[k] \in Nat /\ released[k] \in SUBSET Nat
      BY DEF IInv, TypeOK
  <2>2. released[k] \cup ({pools[k]} \ {0}) \in SUBSET Nat
      BY <2>1
  <2>3. released' \in [Clients -> SUBSET Nat] /\ pools' \in [Clients -> Nat]
      BY <2>2 DEF IInv, TypeOK, Close
  <2>4. shut' \in [Clients -> BOOLEAN]
      BY DEF IInv, TypeOK, Close
  <2>5. UNCHANGED <<db, maker, spoiled, creates, drops, flight, pc, result, attempt, made, mine, faults>>
      BY DEF Close, serverVars
  <2> QED BY <2>3, <2>4, <2>5 DEF IInv, TypeOK
<1>2. UNCHANGED <<db, maker, spoiled, drops, flight, result, pc>>
    BY DEF Close, serverVars
<1> QED BY <1>1, <1>2, Aside

(* flight.Do: a name that has a leader gets no second one. *)
LEMMA EnterIInv == ASSUME IInv, NEW c \in Callers, Enter(c) PROVE IInv'
<1> USE DEF serverVars, poolVars, Goto
<1>1. TypeOK /\ ProcOf[c] \in Procs /\ NameOf[c] \in Names /\ pc[c] = "flight"
    BY OwnersAssumption DEF IInv, Enter
<1>2. UNCHANGED <<db, maker, spoiled, drops, result>>
    BY DEF Enter
<1>3. TypeOK'
  <2>1. pc' \in [Callers -> PCs]
    <3>1. \E label \in {"check", "wait"} : pc' = [pc EXCEPT ![c] = label]
        BY DEF Enter
    <3> QED BY <1>1, <3>1 DEF TypeOK, PCs
  <2>2. flight' \in [Procs -> [Names -> Callers \cup {NoOne}]]
    <3>1. [flight[ProcOf[c]] EXCEPT ![NameOf[c]] = c] \in [Names -> Callers \cup {NoOne}]
        BY <1>1 DEF TypeOK
    <3> QED BY <1>1, <3>1 DEF TypeOK, Enter
  <2> QED BY <1>1, <1>2, <2>1, <2>2 DEF TypeOK, Enter
<1>4. CASE flight[ProcOf[c]][NameOf[c]] # NoOne
  <2>1. UNCHANGED flight /\ pc' = [pc EXCEPT ![c] = "wait"]
      BY <1>4 DEF Enter
  <2>2. \A d \in Callers : pc'[d] = pc[d] \/ (~Leading(d) /\ ~Leading(d)')
      BY <1>1, <2>1 DEF TypeOK, Leading
  <2> QED BY <1>2, <1>3, <2>1, <2>2, Aside
<1>5. CASE flight[ProcOf[c]][NameOf[c]] = NoOne
  <2>1. /\ pc' = [pc EXCEPT ![c] = "check"]
        /\ flight' = [flight EXCEPT ![ProcOf[c]][NameOf[c]] = c]
      BY <1>5 DEF Enter
  <2>2. \A d \in Callers : d # c => pc'[d] = pc[d]
      BY <1>1, <2>1 DEF TypeOK
  <2>3. pc'[c] = "check"
      BY <1>1, <2>1 DEF TypeOK
  <2>4. \A d \in Callers : /\ Building(d)' <=> Building(d)
                           /\ Building(d) => pc'[d] = pc[d]
                           /\ pc'[d] = "finish" <=> pc[d] = "finish"
      BY <1>1, <2>2, <2>3 DEF Building
  <2>5. Leaders'
    <3> SUFFICES ASSUME NEW d \in Callers, Leading(d)'
                 PROVE  flight'[ProcOf[d]][NameOf[d]] = d
        BY DEF Leaders
    <3>1. CASE d = c
        BY <1>1, <2>1, <3>1 DEF TypeOK
    <3>2. CASE d # c
      <4>1. flight[ProcOf[d]][NameOf[d]] = d
          BY <2>2, <3>2 DEF IInv, Leaders, Leading
      <4>2. ProcOf[d] # ProcOf[c] \/ NameOf[d] # NameOf[c]
          BY <1>5, <4>1, NoOneAssumption
      <4> QED BY <1>1, <2>1, <4>1, <4>2, OwnersAssumption DEF TypeOK
    <3> QED BY <3>1, <3>2
  <2>6. Outcomes' /\ Builders' /\ OneBuilder' /\ HalfIsOwned' /\ Doubtful' /\ OkIsReady'
      BY <1>2, <2>4
      DEF IInv, Outcomes, Builders, OneBuilder, HalfIsOwned, Doubtful, OkIsReady, Ready
  <2> QED BY <1>3, <2>5, <2>6 DEF IInv
<1> QED BY <1>4, <1>5

(* A step of a leader that stays one keeps it registered. *)
LEMMA LeadersKept ==
    ASSUME IInv, NEW c \in Callers, Leading(c), UNCHANGED flight,
           \A d \in Callers : d # c => pc'[d] = pc[d]
    PROVE  Leaders'
<1>1. \A d \in Callers : Leading(d)' => Leading(d)
    BY DEF Leading
<1> QED BY <1>1 DEF IInv, Leaders

(* SELECT datname: what is found is whole, spoiled, or the work of another *)
(* process, for this one has no second leader. *)
LEMMA CheckIInv == ASSUME IInv, NEW c \in Callers, Check(c) PROVE IInv'
<1> USE DEF serverVars, poolVars, Goto
<1>1. TypeOK /\ NameOf[c] \in Names /\ pc[c] = "check" /\ Leading(c)
    BY OwnersAssumption DEF IInv, Check, Leading
<1>2. UNCHANGED <<db, maker, spoiled, drops, flight>>
    BY DEF Check
<1>3. TypeOK'
    BY <1>1 DEF TypeOK, Check, PCs
<1>4. \A d \in Callers : d # c => pc'[d] = pc[d] /\ result'[d] = result[d]
    BY <1>1 DEF TypeOK, Check
<1>5. \/ pc'[c] = "finish" /\ result'[c] = "ok" /\ db[NameOf[c]] # Absent
      \/ pc'[c] = "create"
    BY <1>1 DEF TypeOK, Check
<1>6. \A d \in Callers : /\ Building(d)' <=> Building(d)
                         /\ Building(d) => pc'[d] = pc[d]
    BY <1>1, <1>4, <1>5 DEF Building
<1>7. db[NameOf[c]] # Absent => Ready(c)
  <2>0. db[NameOf[c]] = Absent \/ db[NameOf[c]] \in 0 .. N - 1 \/ db[NameOf[c]] = N
    <3>1. db[NameOf[c]] \in -1 .. N
        BY <1>1 DEF TypeOK
    <3> QED BY <3>1, BoundsAssumption DEF Absent
  <2> SUFFICES ASSUME db[NameOf[c]] \in 0 .. N - 1, ~spoiled[NameOf[c]]
               PROVE  maker[NameOf[c]] # ProcOf[c]
      BY <2>0 DEF Ready
  <2>1. PICK d \in Callers : NameOf[d] = NameOf[c] /\ Building(d)
      BY <1>1 DEF IInv, HalfIsOwned
  <2>2. d # c /\ Leading(d)
      BY <1>1, <2>1 DEF Building, Leading
  <2>3. ProcOf[d] # ProcOf[c]
      BY <1>1, <2>1, <2>2, OneLeader
  <2> QED BY <2>1, <2>3 DEF IInv, Builders
<1>8. OkIsReady' /\ Outcomes'
    BY <1>2, <1>4, <1>5, <1>7 DEF IInv, OkIsReady, Outcomes, Ready
<1>9. Leaders'
    BY <1>1, <1>2, <1>4, LeadersKept
<1>10. Builders' /\ OneBuilder' /\ HalfIsOwned' /\ Doubtful'
    BY <1>2, <1>6 DEF IInv, Builders, OneBuilder, HalfIsOwned, Doubtful
<1> QED BY <1>3, <1>8, <1>9, <1>10 DEF IInv

(* CREATE DATABASE succeeds for one caller of all processes, so the        *)
(* database it made has no other builder. *)
LEMMA CreateIInv == ASSUME IInv, NEW c \in Callers, Create(c) PROVE IInv'
<1> USE DEF serverVars, poolVars, Goto
<1>1. TypeOK /\ NameOf[c] \in Names /\ ProcOf[c] \in Procs /\ pc[c] = "create" /\ Leading(c)
    BY OwnersAssumption DEF IInv, Create, Leading
<1>2. UNCHANGED <<drops, flight>>
    BY DEF Create
<1>3. TypeOK'
  <2>1. /\ db' = db \/ db' = [db EXCEPT ![NameOf[c]] = 0]
        /\ maker' = maker \/ maker' = [maker EXCEPT ![NameOf[c]] = ProcOf[c]]
        /\ result' = result \/ result' = [result EXCEPT ![c] = "err"]
        /\ \E label \in {"connect", "finish"} : pc' = [pc EXCEPT ![c] = label]
        /\ spoiled' = spoiled \/ spoiled' = [spoiled EXCEPT ![NameOf[c]] = FALSE]
        /\ creates' = creates \/ creates' = [creates EXCEPT ![NameOf[c]] = @ \cup {ProcOf[c]}]
        /\ faults' = faults \/ (faults < MaxFaults /\ faults' = faults + 1)
        /\ UNCHANGED <<drops, flight, attempt, made, pools, released, shut, mine>>
      BY DEF Create
  <2>2. db' \in [Names -> -1 .. N]
    <3>1. 0 \in -1 .. N
        BY BoundsAssumption
    <3> QED BY <1>1, <2>1, <3>1 DEF TypeOK
  <2>3. maker' \in [Names -> Procs \cup {Nobody}]
      BY <1>1, <2>1 DEF TypeOK
  <2>4. pc' \in [Callers -> PCs]
      BY <1>1, <2>1 DEF TypeOK, PCs
  <2>5. result' \in [Callers -> {"none", "ok", "err"}]
      BY <1>1, <2>1 DEF TypeOK
  <2>6. spoiled' \in [Names -> BOOLEAN] /\ faults' \in 0 .. MaxFaults
    <3>1. spoiled' \in [Names -> BOOLEAN]
        BY <1>1, <2>1, Zenon DEF TypeOK
    <3>2. faults' \in 0 .. MaxFaults
        BY <1>1, <2>1, BoundsAssumption DEF TypeOK
    <3> QED BY <3>1, <3>2
  <2>7. creates' \in [Names -> SUBSET Procs]
    <3>1. creates[NameOf[c]] \cup {ProcOf[c]} \in SUBSET Procs
        BY <1>1 DEF TypeOK
    <3> QED BY <1>1, <2>1, <3>1 DEF TypeOK
  <2> QED BY <1>1, <2>1, <2>2, <2>3, <2>4, <2>5, <2>6, <2>7 DEF TypeOK
<1>4. \A d \in Callers : d # c => pc'[d] = pc[d] /\ result'[d] = result[d]
    BY <1>1 DEF TypeOK, Create
<1>5. Leaders'
    BY <1>1, <1>2, <1>4, LeadersKept
<1>6. CASE UNCHANGED <<db, maker, spoiled>> /\ pc'[c] = "finish" /\ result'[c] = "err"
  <2>1. \A d \in Callers : /\ Building(d)' <=> Building(d)
                           /\ Building(d) => pc'[d] = pc[d]
      BY <1>1, <1>4, <1>6 DEF Building
  <2>2. Outcomes' /\ OkIsReady'
      BY <1>2, <1>4, <1>6 DEF IInv, Outcomes, OkIsReady, Ready
  <2>3. Builders' /\ OneBuilder' /\ HalfIsOwned' /\ Doubtful'
      BY <1>2, <1>6, <2>1 DEF IInv, Builders, OneBuilder, HalfIsOwned, Doubtful
  <2> QED BY <1>3, <1>5, <2>2, <2>3 DEF IInv
<1>7. CASE /\ db[NameOf[c]] = Absent
           /\ db' = [db EXCEPT ![NameOf[c]] = 0]
           /\ maker' = [maker EXCEPT ![NameOf[c]] = ProcOf[c]]
           /\ spoiled' = [spoiled EXCEPT ![NameOf[c]] = FALSE]
           /\ pc'[c] = "connect"
  <2>1. \A n \in Names : n # NameOf[c] => /\ db'[n] = db[n] /\ maker'[n] = maker[n]
                                           /\ spoiled'[n] = spoiled[n]
      BY <1>1, <1>7 DEF TypeOK
  <2>2. /\ db'[NameOf[c]] = 0 /\ maker'[NameOf[c]] = ProcOf[c] /\ ~spoiled'[NameOf[c]]
        /\ Building(c)' /\ ~Building(c)
      BY <1>1, <1>7 DEF TypeOK, Building
  <2>3. \A d \in Callers : d # c => (Building(d)' <=> Building(d)) /\ pc'[d] = pc[d]
      BY <1>4 DEF Building
  <2>4. \A d \in Callers : Building(d) => NameOf[d] # NameOf[c]
      BY <1>1, <1>7, BoundsAssumption DEF IInv, Builders, Absent
  <2>5. NameOf[c] \notin drops /\ \A n \in drops : n \in Names
      BY <1>1, <1>7 DEF IInv, Doubtful, TypeOK
  <2>6. Builders'
      BY <1>1, <2>1, <2>2, <2>3, <2>4, OwnersAssumption, BoundsAssumption DEF IInv, Builders
  <2>7. OneBuilder'
      BY <2>3, <2>4 DEF IInv, OneBuilder
  <2>8. HalfIsOwned'
    <3> SUFFICES ASSUME NEW n \in Names, db'[n] \in 0 .. N - 1, ~spoiled'[n]
                 PROVE  \E d \in Callers : NameOf[d] = n /\ Building(d)'
        BY DEF HalfIsOwned
    <3>1. CASE n = NameOf[c]
        BY <2>2, <3>1
    <3>2. CASE n # NameOf[c]
      <4>1. PICK d \in Callers : NameOf[d] = n /\ Building(d)
          BY <2>1, <3>2 DEF IInv, HalfIsOwned
      <4>2. Building(d)'
          BY <2>3, <3>2, <4>1
      <4> QED BY <4>1, <4>2
    <3> QED BY <3>1, <3>2
  <2>9. Doubtful'
    <3>1. \A d \in Callers : Building(d)' /\ spoiled'[NameOf[d]] => pc'[d] = "drop"
        BY <2>1, <2>2, <2>3, OwnersAssumption DEF IInv, Doubtful
    <3>2. \A n \in drops : /\ spoiled'[n] /\ db'[n] # Absent
                           /\ \A d \in Callers : Building(d)' => NameOf[d] # n
        BY <2>1, <2>2, <2>3, <2>5 DEF IInv, Doubtful
    <3> QED BY <1>2, <3>1, <3>2 DEF Doubtful
  <2>10. Outcomes'
      BY <1>4, <1>7 DEF IInv, Outcomes
  <2>11. OkIsReady'
    <3> SUFFICES ASSUME NEW d \in Callers, pc'[d] = "finish", result'[d] = "ok"
                 PROVE  Ready(d)'
        BY DEF OkIsReady
    <3>1. d # c
        BY <1>7
    <3>2. pc[d] = "finish" /\ Ready(d)
        BY <1>4, <3>1 DEF IInv, OkIsReady
    <3>3. CASE NameOf[d] # NameOf[c]
        BY <2>1, <3>2, <3>3, OwnersAssumption DEF Ready
    <3>4. CASE NameOf[d] = NameOf[c]
      <4>1. ProcOf[d] # ProcOf[c]
          BY <1>1, <3>1, <3>2, <3>4, OneLeader DEF Leading
      <4> QED BY <2>2, <3>4, <4>1 DEF Ready
    <3> QED BY <3>3, <3>4
  <2> QED BY <1>3, <1>5, <2>6, <2>7, <2>8, <2>9, <2>10, <2>11 DEF IInv
<1>8. \/ UNCHANGED <<db, maker, spoiled>> /\ pc'[c] = "finish" /\ result'[c] = "err"
      \/ /\ db[NameOf[c]] = Absent
         /\ db' = [db EXCEPT ![NameOf[c]] = 0]
         /\ maker' = [maker EXCEPT ![NameOf[c]] = ProcOf[c]]
         /\ spoiled' = [spoiled EXCEPT ![NameOf[c]] = FALSE]
         /\ pc'[c] = "connect"
    BY <1>1 DEF Create, TypeOK
<1> QED BY <1>6, <1>7, <1>8

(* pgx.Connect, and a migration that fails: the caller still builds. *)
LEMMA StillBuilding ==
    ASSUME IInv, NEW c \in Callers, TypeOK', UNCHANGED <<db, maker, spoiled, drops, flight, result>>,
           pc[c] \in {"connect", "migrate"}, Building(c)', \A d \in Callers : d # c => pc'[d] = pc[d]
    PROVE  IInv'
<1>1. \A d \in Callers : /\ Building(d)' <=> Building(d)
                         /\ d # c => pc'[d] = pc[d]
                         /\ pc'[d] = "finish" <=> pc[d] = "finish"
    BY DEF Building
<1>2. Leaders' /\ Building(c) /\ pc[c] # "drop"
    BY LeadersKept DEF Building, Leading
<1>3. Outcomes' /\ Builders' /\ OneBuilder' /\ HalfIsOwned' /\ Doubtful' /\ OkIsReady'
    BY <1>1, <1>2 DEF IInv, Outcomes, Builders, OneBuilder, HalfIsOwned, Doubtful, OkIsReady, Ready
<1> QED BY <1>2, <1>3 DEF IInv

LEMMA ConnectIInv == ASSUME IInv, NEW c \in Callers, Connect(c) PROVE IInv'
<1> USE DEF serverVars, poolVars, Goto
<1>1. TypeOK
    BY DEF IInv
<1>2. TypeOK'
    BY <1>1 DEF TypeOK, Connect, PCs
<1>3. pc[c] = "connect" /\ Building(c)' /\ \A d \in Callers : d # c => pc'[d] = pc[d]
    BY <1>1 DEF TypeOK, Connect, Building
<1>4. UNCHANGED <<db, maker, spoiled, drops, flight, result>>
    BY DEF Connect
<1> QED BY <1>2, <1>3, <1>4, StillBuilding

(* A migration: the last one leaves the database whole and unattended. *)
LEMMA MigrateIInv == ASSUME IInv, NEW c \in Callers, Migrate(c) PROVE IInv'
<1> USE DEF serverVars, poolVars, Goto
<1>1. /\ TypeOK /\ NameOf[c] \in Names /\ pc[c] = "migrate" /\ Building(c) /\ Leading(c)
      /\ ~spoiled[NameOf[c]] /\ maker[NameOf[c]] = ProcOf[c] /\ db[NameOf[c]] \in 0 .. N - 1
  <2>1. NameOf[c] \in Names /\ pc[c] = "migrate" /\ Building(c) /\ Leading(c)
      BY OwnersAssumption DEF Migrate, Leading, Building
  <2> QED BY <2>1 DEF IInv, Builders, Doubtful
<1>2. UNCHANGED <<maker, drops, flight>>
    BY DEF Migrate
<1>3. \A d \in Callers : d # c => pc'[d] = pc[d] /\ result'[d] = result[d]
    BY <1>1 DEF TypeOK, Migrate
<1>4. Leaders'
    BY <1>1, <1>2, <1>3, LeadersKept
<1>5. TypeOK'
  <2>1. db[NameOf[c]] + 1 \in -1 .. N
      BY <1>1, BoundsAssumption
  <2>2. db' \in [Names -> -1 .. N]
      BY <1>1, <2>1 DEF TypeOK, Migrate
  <2>3. pc' \in [Callers -> PCs] /\ result' \in [Callers -> {"none", "ok", "err"}]
      BY <1>1 DEF TypeOK, Migrate, PCs
  <2>4. spoiled' \in [Names -> BOOLEAN] /\ faults' \in 0 .. MaxFaults
    <3>1. /\ spoiled' = spoiled \/ spoiled' = [spoiled EXCEPT ![NameOf[c]] = TRUE]
          /\ faults' = faults \/ (faults < MaxFaults /\ faults' = faults + 1)
        BY DEF Migrate
    <3>2. spoiled' \in [Names -> BOOLEAN]
        BY <1>1, <3>1 DEF TypeOK
    <3>3. faults' \in 0 .. MaxFaults
        BY <1>1, <3>1, BoundsAssumption DEF TypeOK
    <3> QED BY <3>2, <3>3
  <2> QED BY <1>1, <2>2, <2>3, <2>4 DEF TypeOK, Migrate
<1>6. CASE pc'[c] = "drop" /\ UNCHANGED <<db, result, spoiled>>
  <2>1. Building(c)'
      BY <1>6 DEF Building
  <2> QED BY <1>1, <1>2, <1>3, <1>5, <1>6, <2>1, StillBuilding
<1>7. CASE /\ db' = [db EXCEPT ![NameOf[c]] = @ + 1]
           /\ \/ /\ spoiled' = spoiled
                 /\ IF db[NameOf[c]] + 1 = N
                    THEN pc'[c] = "finish" /\ result'[c] = "ok"
                    ELSE pc'[c] = "migrate" /\ result'[c] = result[c]
              \/ /\ spoiled' = [spoiled EXCEPT ![NameOf[c]] = TRUE]
                 /\ pc'[c] = "drop" /\ result'[c] = result[c]
  <2>1. \A n \in Names : n # NameOf[c] => db'[n] = db[n] /\ spoiled'[n] = spoiled[n]
      BY <1>1, <1>7 DEF TypeOK
  <2>2. db'[NameOf[c]] = db[NameOf[c]] + 1
      BY <1>1, <1>7 DEF TypeOK
  <2>3. \A d \in Callers : d # c => /\ Building(d)' <=> Building(d)
                                    /\ Building(d) => NameOf[d] # NameOf[c]
      BY <1>1, <1>3 DEF IInv, OneBuilder, Building
  <2>4. Building(c)' => \/ db'[NameOf[c]] \in 0 .. N - 1
                        \/ db'[NameOf[c]] = N /\ spoiled'[NameOf[c]]
    <3>1. CASE pc'[c] = "drop" /\ spoiled' = [spoiled EXCEPT ![NameOf[c]] = TRUE]
      <4>1. spoiled'[NameOf[c]]
          BY <1>1, <3>1 DEF TypeOK
      <4> QED BY <1>1, <2>2, <4>1, BoundsAssumption
    <3>2. CASE pc'[c] = "migrate" /\ db[NameOf[c]] + 1 # N
        BY <1>1, <2>2, <3>2, BoundsAssumption
    <3> QED BY <1>7, <3>1, <3>2 DEF Building
  <2>5. ~Building(c)' => db'[NameOf[c]] = N
      BY <1>7, <2>2 DEF Building
  <2>6. NameOf[c] \notin drops /\ \A n \in drops : n \in Names
      BY <1>1 DEF IInv, Doubtful, TypeOK
  <2>7. Builders'
      BY <1>1, <1>2, <2>1, <2>3, <2>4, OwnersAssumption DEF IInv, Builders
  <2>8. OneBuilder'
      BY <2>3 DEF IInv, OneBuilder
  <2>9. HalfIsOwned'
    <3> SUFFICES ASSUME NEW n \in Names, db'[n] \in 0 .. N - 1, ~spoiled'[n]
                 PROVE  \E d \in Callers : NameOf[d] = n /\ Building(d)'
        BY DEF HalfIsOwned
    <3>1. CASE n = NameOf[c]
        BY <2>5, <3>1, BoundsAssumption
    <3>2. CASE n # NameOf[c]
      <4>1. PICK d \in Callers : NameOf[d] = n /\ Building(d)
          BY <2>1, <3>2 DEF IInv, HalfIsOwned
      <4> QED BY <2>3, <3>2, <4>1
    <3> QED BY <3>1, <3>2
  <2>10. Doubtful'
    <3>1. ASSUME NEW d \in Callers, Building(d)', spoiled'[NameOf[d]] PROVE pc'[d] = "drop"
      <4>1. CASE d = c
          BY <1>1, <1>7, <3>1, <4>1
      <4>2. CASE d # c
          BY <1>3, <2>1, <2>3, <3>1, <4>2, OwnersAssumption DEF IInv, Doubtful
      <4> QED BY <4>1, <4>2
    <3>2. \A n \in drops : /\ spoiled'[n] /\ db'[n] # Absent
                           /\ \A d \in Callers : Building(d)' => NameOf[d] # n
        BY <2>1, <2>3, <2>6 DEF IInv, Doubtful
    <3> QED BY <1>2, <3>1, <3>2 DEF Doubtful
  <2>11. Outcomes'
      BY <1>3, <1>7 DEF IInv, Outcomes
  <2>12. OkIsReady'
    <3> SUFFICES ASSUME NEW d \in Callers, pc'[d] = "finish", result'[d] = "ok"
                 PROVE  Ready(d)'
        BY DEF OkIsReady
    <3>1. CASE d = c
        BY <1>7, <2>2, <3>1 DEF Ready
    <3>2. CASE d # c
      <4>1. pc[d] = "finish" /\ Ready(d)
          BY <1>3, <3>2 DEF IInv, OkIsReady
      <4>2. CASE NameOf[d] # NameOf[c]
          BY <1>2, <2>1, <4>1, <4>2, OwnersAssumption DEF Ready
      <4>3. CASE NameOf[d] = NameOf[c]
        <5>1. ProcOf[d] # ProcOf[c]
            BY <1>1, <3>2, <4>1, <4>3, OneLeader DEF Leading
        <5> QED BY <1>1, <1>2, <4>3, <5>1 DEF Ready
      <4> QED BY <4>2, <4>3
    <3> QED BY <3>1, <3>2
  <2> QED BY <1>4, <1>5, <2>7, <2>8, <2>9, <2>10, <2>11, <2>12 DEF IInv
<1>8. \/ pc'[c] = "drop" /\ UNCHANGED <<db, result, spoiled>>
      \/ /\ db' = [db EXCEPT ![NameOf[c]] = @ + 1]
         /\ \/ /\ spoiled' = spoiled
               /\ IF db[NameOf[c]] + 1 = N
                  THEN pc'[c] = "finish" /\ result'[c] = "ok"
                  ELSE pc'[c] = "migrate" /\ result'[c] = result[c]
            \/ /\ spoiled' = [spoiled EXCEPT ![NameOf[c]] = TRUE]
               /\ pc'[c] = "drop" /\ result'[c] = result[c]
    BY <1>1 DEF TypeOK, Migrate
<1> QED BY <1>6, <1>7, <1>8

(* DROP DATABASE: what the caller made is gone, or is spoiled. *)
LEMMA DropIInv == ASSUME IInv, NEW c \in Callers, Drop(c) PROVE IInv'
<1> USE DEF serverVars, poolVars, Goto
<1>1. /\ TypeOK /\ NameOf[c] \in Names /\ pc[c] = "drop" /\ Building(c) /\ Leading(c)
      /\ maker[NameOf[c]] = ProcOf[c] /\ db[NameOf[c]] # Absent
  <2>1. NameOf[c] \in Names /\ pc[c] = "drop" /\ Building(c) /\ Leading(c)
      BY OwnersAssumption DEF Drop, Leading, Building
  <2> QED BY <2>1, BoundsAssumption DEF IInv, Builders, Absent
<1>2. UNCHANGED <<maker, flight>>
    BY DEF Drop
<1>3. \A d \in Callers : d # c => pc'[d] = pc[d] /\ result'[d] = result[d]
    BY <1>1 DEF TypeOK, Drop
<1>4. pc'[c] = "finish" /\ result'[c] = "err"
    BY <1>1 DEF TypeOK, Drop
<1>5. Leaders'
    BY <1>1, <1>2, <1>3, LeadersKept
<1>6. TypeOK'
  <2>1. Absent \in -1 .. N
      BY BoundsAssumption DEF Absent
  <2>2. db' \in [Names -> -1 .. N] /\ spoiled' \in [Names -> BOOLEAN]
      BY <1>1, <2>1 DEF TypeOK, Drop
  <2>3. faults' \in 0 .. MaxFaults /\ drops' \in SUBSET Names
      BY <1>1, BoundsAssumption DEF TypeOK, Drop
  <2>4. pc' \in [Callers -> PCs] /\ result' \in [Callers -> {"none", "ok", "err"}]
      BY <1>1 DEF TypeOK, Drop, PCs
  <2> QED BY <1>1, <2>2, <2>3, <2>4 DEF TypeOK, Drop
<1>7. /\ \A n \in Names : n # NameOf[c] => db'[n] = db[n] /\ spoiled'[n] = spoiled[n]
      /\ \/ /\ db'[NameOf[c]] = Absent /\ spoiled'[NameOf[c]] = spoiled[NameOf[c]]
            /\ drops' = drops
         \/ /\ db'[NameOf[c]] = db[NameOf[c]] /\ spoiled'[NameOf[c]]
            /\ drops' = drops \cup {NameOf[c]}
  <2>1. CASE db' = [db EXCEPT ![NameOf[c]] = Absent] /\ UNCHANGED <<spoiled, drops>>
      BY <1>1, <2>1 DEF TypeOK
  <2>2. CASE /\ UNCHANGED db /\ spoiled' = [spoiled EXCEPT ![NameOf[c]] = TRUE]
             /\ drops' = drops \cup {NameOf[c]}
      BY <1>1, <2>2 DEF TypeOK
  <2> QED BY <2>1, <2>2 DEF Drop
<1>8. ~Building(c)' /\ \A d \in Callers : d # c => /\ Building(d)' <=> Building(d)
                                                   /\ Building(d) => NameOf[d] # NameOf[c]
    BY <1>1, <1>3, <1>4 DEF IInv, OneBuilder, Building
<1>9. NameOf[c] \notin drops /\ \A n \in drops : n \in Names
    BY <1>1 DEF IInv, Doubtful, TypeOK
<1>10. Builders'
    BY <1>2, <1>7, <1>8, OwnersAssumption DEF IInv, Builders
<1>11. OneBuilder'
    BY <1>8 DEF IInv, OneBuilder
<1>12. HalfIsOwned'
  <2> SUFFICES ASSUME NEW n \in Names, db'[n] \in 0 .. N - 1, ~spoiled'[n]
               PROVE  \E d \in Callers : NameOf[d] = n /\ Building(d)'
      BY DEF HalfIsOwned
  <2>1. n # NameOf[c]
      BY <1>7, BoundsAssumption DEF Absent
  <2>2. PICK d \in Callers : NameOf[d] = n /\ Building(d)
      BY <1>7, <2>1 DEF IInv, HalfIsOwned
  <2> QED BY <1>8, <2>1, <2>2
<1>13. Doubtful'
  <2>1. \A d \in Callers : Building(d)' /\ spoiled'[NameOf[d]] => pc'[d] = "drop"
      BY <1>3, <1>7, <1>8, OwnersAssumption DEF IInv, Doubtful
  <2>2. ASSUME NEW n \in drops'
        PROVE  /\ spoiled'[n] /\ db'[n] # Absent
               /\ \A d \in Callers : Building(d)' => NameOf[d] # n
    <3>1. CASE n = NameOf[c]
        BY <1>1, <1>7, <1>8, <1>9, <2>2, <3>1
    <3>2. CASE n # NameOf[c]
        BY <1>7, <1>8, <1>9, <2>2, <3>2 DEF IInv, Doubtful
    <3> QED BY <3>1, <3>2
  <2> QED BY <2>1, <2>2 DEF Doubtful
<1>14. Outcomes'
    BY <1>3, <1>4 DEF IInv, Outcomes
<1>15. OkIsReady'
  <2> SUFFICES ASSUME NEW d \in Callers, pc'[d] = "finish", result'[d] = "ok"
               PROVE  Ready(d)'
      BY DEF OkIsReady
  <2>1. d # c
      BY <1>4
  <2>2. pc[d] = "finish" /\ Ready(d)
      BY <1>3, <2>1 DEF IInv, OkIsReady
  <2>3. CASE NameOf[d] # NameOf[c]
      BY <1>2, <1>7, <2>2, <2>3, OwnersAssumption DEF Ready
  <2>4. CASE NameOf[d] = NameOf[c]
    <3>1. ProcOf[d] # ProcOf[c]
        BY <1>1, <2>1, <2>2, <2>4, OneLeader DEF Leading
    <3> QED BY <1>1, <1>2, <2>4, <3>1 DEF Ready
  <2> QED BY <2>3, <2>4
<1> QED BY <1>5, <1>6, <1>10, <1>11, <1>12, <1>13, <1>14, <1>15 DEF IInv

(* The flight ends: its leader and those who waited leave it. *)
LEMMA FinishIInv == ASSUME IInv, NEW c \in Callers, Finish(c) PROVE IInv'
<1> USE DEF serverVars, poolVars
<1>1. /\ TypeOK /\ NameOf[c] \in Names /\ ProcOf[c] \in Procs
      /\ pc[c] = "finish" /\ Leading(c) /\ result[c] \in {"ok", "err"}
    BY OwnersAssumption DEF IInv, Finish, Leading, Outcomes
<1>2. /\ UNCHANGED <<db, maker, spoiled, creates, drops>>
      /\ result' = [result EXCEPT ![c] = "none"]
      /\ flight' = [flight EXCEPT ![ProcOf[c]][NameOf[c]] = NoOne]
    BY DEF Finish
<1>3. \A d \in Callers :
         \/ pc'[d] = pc[d] /\ d # c
         \/ pc'[d] = result[c] /\ (d = c \/ pc[d] = "wait")
    BY DEF Finish
<1>4. TypeOK'
  <2>1. pc' \in [Callers -> PCs]
      BY <1>1 DEF TypeOK, Finish, PCs
  <2>2. result' \in [Callers -> {"none", "ok", "err"}]
      BY <1>1, <1>2 DEF TypeOK
  <2>3. flight' \in [Procs -> [Names -> Callers \cup {NoOne}]]
      BY <1>1, <1>2 DEF TypeOK
  <2>4. UNCHANGED <<attempt, made, pools, released, shut, mine, faults>>
      BY DEF Finish
  <2> QED BY <1>1, <1>2, <2>1, <2>2, <2>3, <2>4 DEF TypeOK
<1>5. \A d \in Callers : /\ Building(d)' <=> Building(d)
                         /\ Building(d) => pc'[d] = pc[d]
                         /\ Leading(d)' => Leading(d) /\ d # c
                         /\ pc'[d] = "finish" => pc[d] = "finish" /\ d # c
    BY <1>1, <1>3 DEF Building, Leading
<1>6. Leaders'
  <2> SUFFICES ASSUME NEW d \in Callers, Leading(d)'
               PROVE  flight'[ProcOf[d]][NameOf[d]] = d
      BY DEF Leaders
  <2>1. Leading(d) /\ d # c /\ flight[ProcOf[d]][NameOf[d]] = d
      BY <1>5 DEF IInv, Leaders
  <2>2. ProcOf[d] # ProcOf[c] \/ NameOf[d] # NameOf[c]
      BY <1>1, <2>1, OneLeader
  <2> QED BY <1>1, <1>2, <2>1, <2>2, OwnersAssumption DEF TypeOK
<1>7. Outcomes' /\ OkIsReady'
    BY <1>1, <1>2, <1>5 DEF IInv, Outcomes, OkIsReady, Ready, TypeOK
<1>8. Builders' /\ OneBuilder' /\ HalfIsOwned' /\ Doubtful'
    BY <1>2, <1>5 DEF IInv, Builders, OneBuilder, HalfIsOwned, Doubtful
<1> QED BY <1>4, <1>6, <1>7, <1>8 DEF IInv

(* A killed process leaves what it was building, which is spoiled. *)
LEMMA CrashIInv == ASSUME IInv, NEW p \in Procs, Crash(p) PROVE IInv'
<1> USE DEF serverVars, poolVars
<1>1. TypeOK
    BY DEF IInv
<1>2. UNCHANGED <<db, maker, attempt, made, pools, released, shut, mine>>
    BY DEF Crash
<1>3. \A d \in Callers : /\ ProcOf[d] = p => pc'[d] = "dead" /\ result'[d] = "none"
                         /\ ProcOf[d] # p => pc'[d] = pc[d] /\ result'[d] = result[d]
    BY DEF Crash
<1>4. \A n \in Names : spoiled'[n] <=>
         spoiled[n] \/ \E d \in Callers : ProcOf[d] = p /\ NameOf[d] = n /\ Building(d)
    BY DEF Crash
<1>5. \A d \in Callers : /\ Building(d)' <=> Building(d) /\ ProcOf[d] # p
                         /\ Leading(d)' <=> Leading(d) /\ ProcOf[d] # p
    BY <1>3 DEF Building, Leading
<1>6. TypeOK'
  <2>1. pc' \in [Callers -> PCs]
      BY <1>1 DEF TypeOK, Crash, PCs
  <2>2. result' \in [Callers -> {"none", "ok", "err"}]
      BY <1>1 DEF TypeOK, Crash
  <2>3. spoiled' \in [Names -> BOOLEAN]
    <3>1. \A n \in Names : spoiled[n] \in BOOLEAN
        BY <1>1 DEF TypeOK
    <3> QED BY <3>1, Zenon DEF Crash
  <2>4. flight' \in [Procs -> [Names -> Callers \cup {NoOne}]]
      BY <1>1 DEF TypeOK, Crash
  <2>5. faults' \in 0 .. MaxFaults /\ drops' \in SUBSET Names
      BY <1>1, BoundsAssumption DEF TypeOK, Crash
  <2>6. creates' \in [Names -> SUBSET Procs]
    <3>1. \A n \in Names : creates[n] \in SUBSET Procs /\ creates[n] \cup {p} \in SUBSET Procs
        BY <1>1 DEF TypeOK
    <3> QED BY <3>1, Zenon DEF Crash
  <2> QED BY <1>1, <1>2, <2>1, <2>2, <2>3, <2>4, <2>5, <2>6 DEF TypeOK
<1>7. Leaders'
  <2>1. \A d \in Callers : ProcOf[d] # p => flight'[ProcOf[d]] = flight[ProcOf[d]]
      BY <1>1, OwnersAssumption DEF TypeOK, Crash
  <2> QED BY <1>5, <2>1 DEF IInv, Leaders
<1>8. Builders' /\ OneBuilder'
    BY <1>2, <1>4, <1>5, OwnersAssumption DEF IInv, Builders, OneBuilder
<1>9. HalfIsOwned'
  <2> SUFFICES ASSUME NEW n \in Names, db'[n] \in 0 .. N - 1, ~spoiled'[n]
               PROVE  \E d \in Callers : NameOf[d] = n /\ Building(d)'
      BY DEF HalfIsOwned
  <2>1. PICK d \in Callers : NameOf[d] = n /\ Building(d)
      BY <1>2, <1>4 DEF IInv, HalfIsOwned
  <2>2. ProcOf[d] # p
      BY <1>4, <2>1
  <2> QED BY <1>5, <2>1, <2>2
<1>10. Doubtful'
  <2>1. ASSUME NEW d \in Callers, Building(d)', spoiled'[NameOf[d]] PROVE pc'[d] = "drop"
    <3>1. Building(d) /\ ProcOf[d] # p /\ pc'[d] = pc[d]
        BY <1>3, <1>5, <2>1
    <3>2. spoiled[NameOf[d]]
        BY <1>4, <2>1, <3>1, OwnersAssumption DEF IInv, OneBuilder
    <3> QED BY <3>1, <3>2 DEF IInv, Doubtful
  <2>2. ASSUME NEW n \in drops'
        PROVE  /\ spoiled'[n] /\ db'[n] # Absent
               /\ \A d \in Callers : Building(d)' => NameOf[d] # n
    <3>1. CASE n \in drops
        BY <1>1, <1>2, <1>4, <1>5, <3>1 DEF IInv, Doubtful, TypeOK
    <3>2. CASE n \notin drops
      <4>1. PICK d \in Callers : ProcOf[d] = p /\ NameOf[d] = n /\ pc[d] = "drop"
          BY <2>2, <3>2 DEF Crash
      <4>2. Building(d) /\ n \in Names
          BY <4>1, OwnersAssumption DEF Building
      <4>3. spoiled'[n]
          BY <1>4, <4>1, <4>2
      <4>4. db'[n] # Absent
          BY <1>2, <4>1, <4>2, BoundsAssumption DEF IInv, Builders, Absent
      <4>5. \A e \in Callers : Building(e)' => NameOf[e] # n
          BY <1>5, <4>1, <4>2 DEF IInv, OneBuilder
      <4> QED BY <4>3, <4>4, <4>5
    <3> QED BY <3>1, <3>2
  <2> QED BY <2>1, <2>2 DEF Doubtful
<1>11. Outcomes'
    BY <1>3 DEF IInv, Outcomes
<1>12. OkIsReady'
    BY <1>2, <1>3, <1>4, OwnersAssumption DEF IInv, OkIsReady, Ready
<1> QED BY <1>6, <1>7, <1>8, <1>9, <1>10, <1>11, <1>12 DEF IInv

(* A statement that runs late finds a database nobody builds, or none. *)
LEMMA LateIInv == ASSUME IInv, NEW n \in Names, LateCreate(n) \/ LateDrop(n) PROVE IInv'
<1> USE DEF poolVars
<1>1. /\ TypeOK /\ UNCHANGED <<flight, pc, result>>
      /\ \A d \in Callers : /\ Building(d)' <=> Building(d)
                            /\ Leading(d)' <=> Leading(d)
    BY DEF IInv, LateCreate, LateDrop, Building, Leading
<1>2. TypeOK'
  <2>1. 0 \in -1 .. N /\ Absent \in -1 .. N
      BY BoundsAssumption DEF Absent
  <2>2. CASE LateDrop(n)
      BY <1>1, <2>1, <2>2 DEF TypeOK, LateDrop
  <2>3. CASE LateCreate(n)
    <3>1. PICK p \in creates[n] :
             /\ db' = [db EXCEPT ![n] = 0] /\ maker' = [maker EXCEPT ![n] = p]
             /\ spoiled' = [spoiled EXCEPT ![n] = TRUE]
             /\ creates' = [creates EXCEPT ![n] = @ \ {p}]
        BY <2>3 DEF LateCreate
    <3>2. p \in Procs /\ creates[n] \ {p} \in SUBSET Procs
        BY <1>1 DEF TypeOK
    <3>3. /\ db' \in [Names -> -1 .. N] /\ maker' \in [Names -> Procs \cup {Nobody}]
          /\ spoiled' \in [Names -> BOOLEAN]
        BY <1>1, <2>1, <3>1, <3>2 DEF TypeOK
    <3>4. creates' \in [Names -> SUBSET Procs]
        BY <1>1, <3>1, <3>2 DEF TypeOK
    <3> QED BY <1>1, <2>3, <3>3, <3>4 DEF TypeOK, LateCreate
  <2> QED BY <2>2, <2>3
<1>3. /\ \A m \in Names : m # n => db'[m] = db[m] /\ maker'[m] = maker[m] /\ spoiled'[m] = spoiled[m]
      /\ spoiled'[n] /\ drops' \subseteq drops
      /\ n \in drops' => db'[n] # Absent
      /\ \A d \in Callers : Building(d) => NameOf[d] # n
  <2>1. CASE LateDrop(n)
      BY <1>1, <2>1 DEF IInv, TypeOK, LateDrop, Doubtful
  <2>2. CASE LateCreate(n)
    <3>1. db[n] = Absent /\ db'[n] = 0 /\ spoiled'[n] /\ drops' = drops
        BY <1>1, <2>2 DEF TypeOK, LateCreate
    <3>2. n \notin drops
        BY <3>1 DEF IInv, Doubtful
    <3>3. \A d \in Callers : Building(d) => NameOf[d] # n
        BY <3>1, BoundsAssumption DEF IInv, Builders, Absent
    <3>4. \A m \in Names : m # n => db'[m] = db[m] /\ maker'[m] = maker[m] /\ spoiled'[m] = spoiled[m]
        BY <1>1, <2>2 DEF TypeOK, LateCreate
    <3> QED BY <3>1, <3>2, <3>3, <3>4
  <2> QED BY <2>1, <2>2
<1>4. Outcomes' /\ Leaders' /\ OneBuilder'
    BY <1>1 DEF IInv, Outcomes, Leaders, OneBuilder
<1>5. Builders'
    BY <1>1, <1>3, OwnersAssumption DEF IInv, Builders
<1>6. HalfIsOwned'
    BY <1>1, <1>3 DEF IInv, HalfIsOwned
<1>7. OkIsReady'
    BY <1>1, <1>3, OwnersAssumption DEF IInv, OkIsReady, Ready
<1>8. Doubtful'
  <2>1. \A d \in Callers : Building(d)' /\ spoiled'[NameOf[d]] => pc'[d] = "drop"
      BY <1>1, <1>3, OwnersAssumption DEF IInv, Doubtful
  <2>2. \A m \in drops' : /\ spoiled'[m] /\ db'[m] # Absent
                          /\ \A d \in Callers : Building(d)' => NameOf[d] # m
      BY <1>1, <1>3 DEF IInv, Doubtful, TypeOK
  <2> QED BY <2>1, <2>2 DEF Doubtful
<1> QED BY <1>2, <1>4, <1>5, <1>6, <1>7, <1>8 DEF IInv

(* IInv is inductive. *)
LEMMA NextIInv == IInv /\ [Next]_vars => IInv'
<1> SUFFICES ASSUME IInv, [Next]_vars PROVE IInv'
    OBVIOUS
<1>1. ASSUME NEW c \in Callers, Step(c) \/ Retry(c) PROVE IInv'
    BY <1>1, PoolIInv, EnterIInv, CheckIInv, CreateIInv, ConnectIInv, MigrateIInv,
       DropIInv, FinishIInv DEF Step
<1>2. ASSUME NEW k \in Clients, Close(k) PROVE IInv'
    BY <1>2, CloseIInv
<1>3. ASSUME NEW p \in Procs, Crash(p) PROVE IInv'
    BY <1>3, CrashIInv
<1>4. CASE UNCHANGED vars
  <2>1. TypeOK'
      BY <1>4 DEF IInv, TypeOK, vars
  <2> QED BY <1>4, <2>1, Aside DEF vars
<1>5. ASSUME NEW n \in Names, LateCreate(n) \/ LateDrop(n) PROVE IInv'
    BY <1>5, LateIInv
<1> QED BY <1>1, <1>2, <1>3, <1>4, <1>5 DEF Next

LEMMA AlwaysIInv == Spec => []IInv
BY InitIInv, NextIInv, PTL DEF Spec
--------------------------------------------------------------------------------
(* The variables of CreateDatabase and of the pool cache are well typed:   *)
(* no database gets more than the N migrations.                            *)
THEOREM TypeCorrect == Spec => []TypeOK
<1>1. IInv => TypeOK
    BY DEF IInv
<1> QED BY AlwaysIInv, <1>1, PTL

(* Of all callers in all processes at most one migrates or drops a         *)
(* database.                                                               *)
THEOREM OneBuilderAlways == Spec => []OneBuilder
<1>1. IInv => OneBuilder
    BY DEF IInv
<1> QED BY AlwaysIInv, <1>1, PTL

(* A database short of migrations is in the hands of the caller that       *)
(* builds it, or a crash or a lost reply concerned it.                     *)
THEOREM HalfIsOwnedAlways == Spec => []HalfIsOwned
<1>1. IInv => HalfIsOwned
    BY DEF IInv
<1> QED BY AlwaysIInv, <1>1, PTL

(* No step changes a database that has all its migrations and was not the  *)
(* object of a fault. *)
LEMMA StepFullStays ==
    IInv /\ [Next]_vars =>
        [\A n \in Names : db[n] = N /\ ~spoiled[n] => db'[n] = N]_vars
<1> SUFFICES ASSUME IInv, Next, NEW n \in Names, db[n] = N, ~spoiled[n] PROVE db'[n] = N
    BY DEF vars
<1>1. CASE UNCHANGED db
    BY <1>1
<1>2. ASSUME NEW c \in Callers, Create(c) \/ Migrate(c) \/ Drop(c) PROVE db'[n] = N
  <2>1. NameOf[c] = n => ~Building(c)
      BY BoundsAssumption DEF IInv, Builders
  <2>2. \/ UNCHANGED db
        \/ \E v : db' = [db EXCEPT ![NameOf[c]] = v] /\ NameOf[c] # n
      BY <1>2, <2>1, BoundsAssumption DEF Create, Migrate, Drop, Building, Absent
  <2> QED BY <2>2 DEF IInv, TypeOK
<1>3. ASSUME NEW m \in Names, LateCreate(m) \/ LateDrop(m) PROVE db'[n] = N
  <2>1. m # n
      BY <1>3, BoundsAssumption DEF IInv, Doubtful, LateCreate, LateDrop, Absent
  <2>2. \E v : db' = [db EXCEPT ![m] = v]
      BY <1>3 DEF LateCreate, LateDrop
  <2> QED BY <2>1, <2>2 DEF IInv, TypeOK
<1>4. \/ UNCHANGED db
      \/ \E c \in Callers : Create(c) \/ Migrate(c) \/ Drop(c)
      \/ \E m \in Names : LateCreate(m) \/ LateDrop(m)
    BY DEF Next, Step, Open, NewPool, Store, Enter, Check, Connect, Finish, Retry, Close,
           Crash, serverVars
<1> QED BY <1>1, <1>2, <1>3, <1>4

(* DROP DATABASE ... WITH (FORCE), at once or late, never hits a finished  *)
(* database, unless the reply of one of its migrations was lost.           *)
THEOREM FullStaysAlways == Spec => FullStays
<1>1. IInv /\ [Next]_vars =>
          [\A n \in Names : db[n] = N /\ ~spoiled[n] => db'[n] = N]_vars
    BY StepFullStays
<1> QED BY AlwaysIInv, <1>1, PTL DEF Spec, FullStays

(* A call that returns ok has what OkGivesSchema says. *)
OkStep ==
    \A c \in Callers : pc'[c] = "ok" /\ pc[c] # "ok" =>
        LET n == NameOf[c] IN db'[n] = N \/ spoiled[n] \/ maker[n] # ProcOf[c]

LEMMA StepOk == IInv /\ [Next]_vars => [OkStep]_vars
<1> SUFFICES ASSUME IInv, Next, NEW d \in Callers, pc'[d] = "ok", pc[d] # "ok"
             PROVE  db'[NameOf[d]] = N \/ spoiled[NameOf[d]] \/ maker[NameOf[d]] # ProcOf[d]
    BY DEF vars, OkStep
<1>1. pc \in [Callers -> PCs]
    BY DEF IInv, TypeOK
<1>2. ASSUME NEW c \in Callers, Finish(c)
      PROVE  db'[NameOf[d]] = N \/ spoiled[NameOf[d]] \/ maker[NameOf[d]] # ProcOf[d]
  <2>1. /\ pc[c] = "finish" /\ result[c] = "ok" /\ UNCHANGED db
        /\ ProcOf[d] = ProcOf[c] /\ NameOf[d] = NameOf[c]
      BY <1>2 DEF Finish, serverVars
  <2>2. Ready(c)
      BY <2>1 DEF IInv, OkIsReady
  <2> QED BY <2>1, <2>2 DEF Ready
<1>3. \E c \in Callers : Finish(c)
  <2>1. ASSUME NEW c \in Callers, Step(c) \/ Retry(c), ~Finish(c) PROVE FALSE
    <3>1. \E label : label # "ok" /\ (pc' = [pc EXCEPT ![c] = label] \/ UNCHANGED pc)
        BY <2>1 DEF Step, Retry, Open, NewPool, Store, Enter, Check, Create, Connect,
                    Migrate, Drop, Goto
    <3> QED BY <1>1, <3>1
  <2>2. ASSUME NEW k \in Clients, Close(k) PROVE FALSE
      BY <2>2 DEF Close
  <2>3. ASSUME NEW p \in Procs, Crash(p) PROVE FALSE
      BY <2>3 DEF Crash
  <2>4. ASSUME NEW n \in Names, LateCreate(n) \/ LateDrop(n) PROVE FALSE
      BY <2>4 DEF LateCreate, LateDrop
  <2> QED BY <2>1, <2>2, <2>3, <2>4 DEF Next, Step
<1> QED BY <1>2, <1>3

(* Within a process no caller is told that a database is ready while       *)
(* another is still building it.                                           *)
THEOREM OkGivesSchemaAlways == Spec => OkGivesSchema
<1>1. IInv /\ [Next]_vars => [OkStep]_vars
    BY StepOk
<1> QED BY AlwaysIInv, <1>1, PTL DEF Spec, OkGivesSchema, OkStep
--------------------------------------------------------------------------------
(***************************************************************************)
(* The leak of the pool cache.  A pool is lost when Open stores another    *)
(* over it, and only a caller that looked before the first pool was stored *)
(* can do so: each such caller costs at most one.                          *)
(***************************************************************************)
Users(k) == {c \in Callers : ClientOf[c] = k}

(* Callers that found no pool and have not stored theirs. *)
Opening(k) == {c \in Users(k) : pc[c] \in {"newpool", "store"}}

Lost(k) ==
    (1 .. made[k]) \ (released[k] \cup {pools[k]} \cup {mine[c] : c \in Users(k)})

(* Before the first pool is stored none is lost; from then on a caller can *)
(* lose one only by ceasing to be one of those that may. *)
LostPools(k) ==
    IF pools[k] = 0 /\ ~shut[k] THEN Lost(k) = {}
    ELSE Users(k) # {} =>
            Cardinality(Lost(k)) + Cardinality(Opening(k)) < Cardinality(Users(k))

PInv ==
    /\ \A c \in Callers : /\ mine[c] # 0 => pc[c] \in {"store", "dead"}
                          /\ pc[c] = "store" => mine[c] # 0
    /\ \A k \in Clients : shut[k] => Opening(k) = {}
    /\ \A k \in Clients : LostPools(k)
--------------------------------------------------------------------------------
LEMMA CountsAreNaturals ==
    ASSUME IInv, NEW k \in Clients
    PROVE  /\ IsFiniteSet(Users(k)) /\ IsFiniteSet(Opening(k)) /\ IsFiniteSet(Lost(k))
           /\ Cardinality(Users(k)) \in Nat /\ Cardinality(Opening(k)) \in Nat
           /\ Cardinality(Lost(k)) \in Nat
           /\ Cardinality(Opening(k)) <= Cardinality(Users(k))
<1>1. IsFiniteSet(Users(k))
    BY CallersAssumption, FS_Subset DEF Users
<1>2. IsFiniteSet(Opening(k)) /\ Cardinality(Opening(k)) <= Cardinality(Users(k))
  <2>1. Opening(k) \in SUBSET Users(k)
      BY DEF Opening
  <2> QED BY <1>1, <2>1, FS_Subset
<1>3. IsFiniteSet(Lost(k))
  <2>1. made[k] \in Int /\ Lost(k) \in SUBSET (1 .. made[k])
      BY DEF IInv, TypeOK, Lost
  <2>2. IsFiniteSet(1 .. made[k])
      BY <2>1, FS_Interval
  <2> QED BY <2>1, <2>2, FS_Subset
<1> QED BY <1>1, <1>2, <1>3, FS_CardinalityType

(* No more pools lost, and no more callers that may lose one. *)
LEMMA NoMoreLost ==
    ASSUME IInv, IInv', NEW k \in Clients, LostPools(k),
           pools'[k] = pools[k], shut'[k] = shut[k],
           Lost(k)' \subseteq Lost(k), Opening(k)' \subseteq Opening(k)
    PROVE  LostPools(k)'
<1>1. /\ Cardinality(Lost(k)') <= Cardinality(Lost(k))
      /\ Cardinality(Opening(k)') <= Cardinality(Opening(k))
      /\ Cardinality(Lost(k)') \in Nat /\ Cardinality(Opening(k)') \in Nat
  <2>1. IsFiniteSet(Lost(k)) /\ IsFiniteSet(Opening(k))
      BY CountsAreNaturals
  <2>2. Lost(k)' \in SUBSET Lost(k) /\ Opening(k)' \in SUBSET Opening(k)
      OBVIOUS
  <2> QED BY <2>1, <2>2, FS_Subset, FS_CardinalityType
<1>2. Users(k)' = Users(k)
    BY DEF Users
<1>3. CASE pools[k] = 0 /\ ~shut[k]
    BY <1>3 DEF LostPools
<1>4. CASE ~(pools[k] = 0 /\ ~shut[k])
  <2> SUFFICES ASSUME Users(k) # {}
               PROVE  Cardinality(Lost(k)') + Cardinality(Opening(k)') < Cardinality(Users(k))
      BY <1>2, <1>4 DEF LostPools
  <2>1. Cardinality(Lost(k)) + Cardinality(Opening(k)) < Cardinality(Users(k))
      BY <1>4 DEF LostPools
  <2>2. /\ Cardinality(Lost(k)) \in Nat /\ Cardinality(Opening(k)) \in Nat
        /\ Cardinality(Users(k)) \in Nat
      BY CountsAreNaturals
  <2> QED BY <1>1, <2>1, <2>2
<1> QED BY <1>3, <1>4

(* What CreateDatabase, a retry and a crash do to the pools: nothing. *)
LEMMA SamePools ==
    ASSUME IInv, IInv', PInv, UNCHANGED poolVars,
           \A c \in Callers : \/ pc'[c] = pc[c] \/ pc'[c] = "dead"
                              \/ /\ pc[c] \notin {"store", "dead"}
                                 /\ pc'[c] \notin {"newpool", "store"}
    PROVE  PInv'
<1>1. UNCHANGED <<made, pools, released, shut, mine>>
    BY DEF poolVars
<1>2. \A c \in Callers : /\ mine'[c] # 0 => pc'[c] \in {"store", "dead"}
                         /\ pc'[c] = "store" => mine'[c] # 0
    BY <1>1 DEF PInv
<1>3. ASSUME NEW k \in Clients PROVE Lost(k)' = Lost(k) /\ Opening(k)' \subseteq Opening(k)
    BY <1>1 DEF Lost, Opening, Users
<1>4. \A k \in Clients : shut'[k] => Opening(k)' = {}
    BY <1>1, <1>3 DEF PInv
<1>5. ASSUME NEW k \in Clients PROVE LostPools(k)'
    BY <1>1, <1>3, NoMoreLost DEF PInv
<1> QED BY <1>2, <1>4, <1>5 DEF PInv

LEMMA InitPInv == Init => PInv
<1> SUFFICES ASSUME Init PROVE PInv
    OBVIOUS
<1>1. \A c \in Callers : mine[c] = 0 /\ pc[c] = "idle"
    BY DEF Init
<1>2. \A k \in Clients : ~shut[k] /\ pools[k] = 0 /\ made[k] = 0
    BY DEF Init
<1>3. \A k \in Clients : Lost(k) = {}
    BY <1>2 DEF Lost
<1> QED BY <1>1, <1>2, <1>3 DEF PInv, LostPools

(* Open finds a pool, a closed cache, or that it may have to make one.     *)
LEMMA OpenPInv == ASSUME IInv, IInv', PInv, NEW c \in Callers, Open(c) PROVE PInv'
<1>1. /\ pc[c] = "idle" /\ UNCHANGED <<made, pools, released, shut, mine>>
      /\ pc' = [pc EXCEPT ![c] = IF shut[ClientOf[c]] THEN "err"
                                 ELSE IF pools[ClientOf[c]] # 0 THEN "flight"
                                 ELSE "newpool"]
    BY DEF Open, Goto, poolVars
<1>2. pc'[c] \notin {"store", "dead"} /\ \A d \in Callers : d # c => pc'[d] = pc[d]
    BY <1>1 DEF IInv, TypeOK
<1>3. \A d \in Callers : /\ mine'[d] # 0 => pc'[d] \in {"store", "dead"}
                         /\ pc'[d] = "store" => mine'[d] # 0
    BY <1>1, <1>2 DEF PInv
<1>4. ASSUME NEW k \in Clients PROVE Lost(k)' = Lost(k)
    BY <1>1 DEF Lost, Users
<1>5. ASSUME NEW k \in Clients, ~(k = ClientOf[c] /\ pools[k] = 0 /\ ~shut[k])
      PROVE  Opening(k)' \subseteq Opening(k)
  <2>1. k = ClientOf[c] => pc'[c] \notin {"newpool", "store"}
      BY <1>1, <1>5 DEF IInv, TypeOK
  <2> QED BY <1>2, <2>1 DEF Opening, Users
<1>6. \A k \in Clients : shut'[k] => Opening(k)' = {}
    BY <1>1, <1>5 DEF PInv
<1>7. ASSUME NEW k \in Clients PROVE LostPools(k)'
  <2>1. CASE k = ClientOf[c] /\ pools[k] = 0 /\ ~shut[k]
      BY <1>1, <1>4, <2>1 DEF PInv, LostPools
  <2>2. CASE ~(k = ClientOf[c] /\ pools[k] = 0 /\ ~shut[k])
      BY <1>1, <1>4, <1>5, <2>2, NoMoreLost DEF PInv
  <2> QED BY <2>1, <2>2
<1> QED BY <1>3, <1>6, <1>7 DEF PInv

(* A new pool is in the hands of the caller that made it. *)
LEMMA NewPoolPInv == ASSUME IInv, IInv', PInv, NEW c \in Callers, NewPool(c) PROVE PInv'
<1> DEFINE u == ClientOf[c]
<1>1. /\ pc[c] = "newpool" /\ mine[c] = 0 /\ u \in Clients /\ c \in Users(u)
      /\ UNCHANGED <<pools, released, shut>>
    BY OwnersAssumption DEF NewPool, PInv, Users
<1>2. \/ /\ made' = [made EXCEPT ![u] = @ + 1] /\ mine' = [mine EXCEPT ![c] = made[u] + 1]
         /\ pc' = [pc EXCEPT ![c] = "store"]
      \/ UNCHANGED <<made, mine>> /\ pc' = [pc EXCEPT ![c] = "err"]
    BY DEF NewPool, Goto
<1>3. \A d \in Callers : d # c => pc'[d] = pc[d] /\ mine'[d] = mine[d]
    BY <1>2 DEF IInv, TypeOK
<1>4. \A d \in Callers : /\ mine'[d] # 0 => pc'[d] \in {"store", "dead"}
                         /\ pc'[d] = "store" => mine'[d] # 0
  <2>1. mine'[c] # 0 <=> pc'[c] = "store"
      BY <1>1, <1>2 DEF IInv, TypeOK
  <2> QED BY <1>3, <2>1 DEF PInv
<1>5. ASSUME NEW k \in Clients PROVE Opening(k)' \subseteq Opening(k)
    BY <1>1, <1>3 DEF Opening, Users
<1>6. ASSUME NEW k \in Clients PROVE Lost(k)' \subseteq Lost(k)
  <2>1. CASE k # u \/ UNCHANGED <<made, mine>>
    <3>1. made'[k] = made[k] /\ \A d \in Users(k) : mine'[d] = mine[d]
        BY <1>2, <1>3, <2>1 DEF IInv, TypeOK, Users
    <3> QED BY <1>1, <3>1 DEF Lost, Users
  <2>2. CASE k = u /\ made' = [made EXCEPT ![u] = @ + 1] /\ mine' = [mine EXCEPT ![c] = made[u] + 1]
    <3>1. made[u] \in Nat /\ made'[u] = made[u] + 1 /\ mine'[c] = made[u] + 1
        BY <1>1, <2>2 DEF IInv, TypeOK
    <3>2. ASSUME NEW x \in Lost(u)' PROVE x \in Lost(u)
      <4>1. /\ x \in 1 .. made[u] + 1 /\ x \notin released[u] /\ x # pools[u]
            /\ \A d \in Users(u) : x # mine'[d]
          BY <1>1, <3>1, <3>2 DEF Lost, Users
      <4>2. x \in 1 .. made[u]
          BY <1>1, <3>1, <4>1
      <4>3. \A d \in Users(u) : x # mine[d]
          BY <1>1, <1>3, <4>1 DEF Users
      <4> QED BY <4>1, <4>2, <4>3 DEF Lost
    <3> QED BY <2>2, <3>2
  <2> QED BY <1>2, <2>1, <2>2
<1>7. \A k \in Clients : shut'[k] => Opening(k)' = {}
    BY <1>1, <1>5 DEF PInv
<1>8. ASSUME NEW k \in Clients PROVE LostPools(k)'
    BY <1>1, <1>5, <1>6, NoMoreLost DEF PInv
<1> QED BY <1>4, <1>7, <1>8 DEF PInv

(* Storing a pool loses at most the one it replaces, and the caller is no  *)
(* longer one that may lose another. *)
LEMMA StorePInv == ASSUME IInv, IInv', PInv, NEW c \in Callers, Store(c) PROVE PInv'
<1> DEFINE u == ClientOf[c]
<1>1. /\ pc[c] = "store" /\ u \in Clients /\ c \in Users(u) /\ c \in Opening(u)
      /\ UNCHANGED <<made, released, shut>>
      /\ pools' = [pools EXCEPT ![u] = mine[c]] /\ mine' = [mine EXCEPT ![c] = 0]
      /\ pc' = [pc EXCEPT ![c] = "flight"]
    BY OwnersAssumption DEF Store, Goto, Users, Opening
<1>2. /\ \A d \in Callers : d # c => pc'[d] = pc[d] /\ mine'[d] = mine[d]
      /\ pc'[c] = "flight" /\ mine'[c] = 0 /\ pools'[u] = mine[c]
      /\ \A k \in Clients : k # u => pools'[k] = pools[k]
    BY <1>1 DEF IInv, TypeOK
<1>3. \A d \in Callers : /\ mine'[d] # 0 => pc'[d] \in {"store", "dead"}
                         /\ pc'[d] = "store" => mine'[d] # 0
    BY <1>2 DEF PInv
<1>4. ~shut[u]
    BY <1>1 DEF PInv
<1>5. ASSUME NEW k \in Clients PROVE Opening(k)' = Opening(k) \ {c}
    BY <1>2 DEF Opening, Users
<1>6. \A k \in Clients : shut'[k] => Opening(k)' = {}
    BY <1>1, <1>5 DEF PInv
<1>7. ASSUME NEW k \in Clients, k # u PROVE LostPools(k)'
  <2>1. \A d \in Users(k) : mine'[d] = mine[d]
      BY <1>2, <1>7 DEF Users
  <2>2. Lost(k)' = Lost(k)
      BY <1>1, <1>2, <1>7, <2>1 DEF Lost, Users
  <2> QED BY <1>1, <1>2, <1>5, <1>7, <2>2, NoMoreLost DEF PInv
<1>8. LostPools(u)'
  <2>1. Lost(u)' \subseteq Lost(u) \cup {pools[u]}
    <3> SUFFICES ASSUME NEW x \in Lost(u)', x # pools[u] PROVE x \in Lost(u)
        OBVIOUS
    <3>1. /\ x \in 1 .. made[u] /\ x \notin released[u] /\ x # mine[c]
          /\ \A d \in Users(u) : x # mine'[d]
        BY <1>1, <1>2 DEF Lost, Users
    <3>2. \A d \in Users(u) : x # mine[d]
        BY <1>2, <3>1 DEF Users
    <3> QED BY <3>1, <3>2 DEF Lost
  <2>2. Users(u)' = Users(u) /\ shut'[u] = shut[u]
      BY <1>1 DEF Users
  <2>3. /\ IsFiniteSet(Lost(u)) /\ IsFiniteSet(Opening(u)) /\ IsFiniteSet(Lost(u)')
        /\ Cardinality(Lost(u)) \in Nat /\ Cardinality(Opening(u)) \in Nat
        /\ Cardinality(Users(u)) \in Nat /\ Cardinality(Opening(u)) <= Cardinality(Users(u))
    <3>1. IsFiniteSet(Lost(u)')
      <4>1. made'[u] \in Int /\ Lost(u)' \in SUBSET (1 .. made'[u])
          BY <1>1 DEF IInv, TypeOK, Lost
      <4>2. IsFiniteSet(1 .. made'[u])
          BY <4>1, FS_Interval
      <4> QED BY <4>1, <4>2, FS_Subset
    <3> QED BY <1>1, <3>1, CountsAreNaturals
  <2>4. Cardinality(Opening(u)') = Cardinality(Opening(u)) - 1
      BY <1>1, <1>5, <2>3, FS_RemoveElement
  <2>5. CASE pools[u] = 0
    <3>1. Lost(u)' = {}
      <4>1. Lost(u) = {}
          BY <1>1, <1>4, <2>5 DEF PInv, LostPools
      <4>2. \A x \in Lost(u)' : x # 0
          BY DEF Lost
      <4> QED BY <2>1, <2>5, <4>1, <4>2
    <3>2. Cardinality(Lost(u)') = 0
        BY <3>1, FS_EmptySet
    <3>3. Cardinality(Lost(u)') + Cardinality(Opening(u)') < Cardinality(Users(u))
        BY <2>3, <2>4, <3>2
    <3> QED BY <2>2, <3>1, <3>3 DEF LostPools
  <2>6. CASE pools[u] # 0
    <3>1. Cardinality(Lost(u)) + Cardinality(Opening(u)) < Cardinality(Users(u))
        BY <1>1, <2>6 DEF PInv, LostPools
    <3>2. /\ IsFiniteSet(Lost(u) \cup {pools[u]})
          /\ Cardinality(Lost(u) \cup {pools[u]}) <= Cardinality(Lost(u)) + 1
      <4>1. Cardinality(Lost(u) \cup {pools[u]})
              = IF pools[u] \in Lost(u) THEN Cardinality(Lost(u)) ELSE Cardinality(Lost(u)) + 1
          BY <2>3, FS_AddElement
      <4>2. IsFiniteSet(Lost(u) \cup {pools[u]})
          BY <2>3, FS_AddElement
      <4> QED BY <2>3, <4>1, <4>2
    <3>3. /\ Cardinality(Lost(u)') <= Cardinality(Lost(u) \cup {pools[u]})
          /\ Cardinality(Lost(u)') \in Nat
          /\ Cardinality(Lost(u) \cup {pools[u]}) \in Nat
      <4>1. Lost(u)' \in SUBSET (Lost(u) \cup {pools[u]})
          BY <2>1
      <4> QED BY <2>3, <3>2, <4>1, FS_Subset, FS_CardinalityType
    <3>4. Cardinality(Lost(u)') + Cardinality(Opening(u)') < Cardinality(Users(u))
        BY <2>3, <2>4, <3>1, <3>2, <3>3
    <3>5. pools'[u] # 0
        BY <1>1, <1>2 DEF PInv
    <3> QED BY <2>2, <3>4, <3>5 DEF LostPools
  <2> QED BY <2>5, <2>6
<1> QED BY <1>3, <1>6, <1>7, <1>8 DEF PInv

(* Cache.Close comes when nobody of the client is in Open.                 *)
LEMMA ClosePInv == ASSUME IInv, IInv', PInv, NEW u \in Clients, Close(u) PROVE PInv'
<1>1. /\ \A c \in Users(u) : pc[c] \in {"ok", "err"}
      /\ UNCHANGED <<made, mine, pc>> /\ ~shut[u]
      /\ released' = [released EXCEPT ![u] = @ \cup ({pools[u]} \ {0})]
      /\ shut' = [shut EXCEPT ![u] = TRUE] /\ pools' = [pools EXCEPT ![u] = 0]
    BY DEF Close, Users
<1>2. Opening(u) = {}
    BY <1>1 DEF Opening
<1>3. \A k \in Clients : Opening(k)' = Opening(k)
    BY <1>1 DEF Opening, Users
<1>4. \A k \in Clients : k # u => shut'[k] = shut[k] /\ pools'[k] = pools[k]
                                  /\ released'[k] = released[k]
    BY <1>1 DEF IInv, TypeOK
<1>5. \A k \in Clients : shut'[k] => Opening(k)' = {}
    BY <1>2, <1>3, <1>4 DEF PInv
<1>6. ASSUME NEW k \in Clients, k # u PROVE LostPools(k)'
  <2>1. Lost(k)' = Lost(k)
      BY <1>1, <1>4, <1>6 DEF Lost, Users
  <2> QED BY <1>3, <1>4, <1>6, <2>1, NoMoreLost DEF PInv
<1>7. LostPools(u)'
  <2>1. shut'[u] /\ pools'[u] = 0 /\ released'[u] = released[u] \cup ({pools[u]} \ {0})
      BY <1>1 DEF IInv, TypeOK
  <2>2. Lost(u)' = Lost(u)
    <3>1. \A x \in 1 .. made[u] : x \notin released'[u] \cup {pools'[u]}
                                    <=> x \notin released[u] \cup {pools[u]}
        BY <2>1 DEF IInv, TypeOK
    <3> QED BY <1>1, <3>1 DEF Lost, Users
  <2>3. Users(u)' = Users(u) /\ Opening(u)' = {}
      BY <1>2, <1>3 DEF Users
  <2>4. Users(u) # {} => Cardinality(Lost(u)) + 0 < Cardinality(Users(u))
    <3>1. CASE pools[u] = 0
      <4>1. Cardinality(Lost(u)) = 0
          BY <1>1, <3>1, FS_EmptySet DEF PInv, LostPools
      <4>2. /\ Cardinality(Users(u)) \in Nat
            /\ Users(u) # {} => Cardinality(Users(u)) # 0
          BY CountsAreNaturals, FS_EmptySet
      <4> QED BY <4>1, <4>2
    <3>2. CASE pools[u] # 0
        BY <1>2, <3>2, FS_EmptySet DEF PInv, LostPools
    <3> QED BY <3>1, <3>2
  <2> QED BY <2>1, <2>2, <2>3, <2>4, FS_EmptySet DEF LostPools
<1> QED BY <1>1, <1>5, <1>6, <1>7 DEF PInv

LEMMA NextPInv == IInv /\ IInv' /\ PInv /\ [Next]_vars => PInv'
<1> SUFFICES ASSUME IInv, IInv', PInv, [Next]_vars PROVE PInv'
    OBVIOUS
<1>1. pc \in [Callers -> PCs]
    BY DEF IInv, TypeOK
<1>2. ASSUME NEW c \in Callers, Step(c) \/ Retry(c) PROVE PInv'
  <2>1. CASE Open(c) \/ NewPool(c) \/ Store(c)
      BY <2>1, OpenPInv, NewPoolPInv, StorePInv
  <2>2. CASE Finish(c)
    <3>1. result[c] \in {"ok", "err"} /\ UNCHANGED poolVars
        BY <2>2 DEF Finish, IInv, Outcomes
    <3>2. \A d \in Callers : pc'[d] = pc[d] \/ (pc[d] \in {"wait", "finish"} /\ pc'[d] = result[c])
        BY <2>2 DEF Finish
    <3> QED BY <3>1, <3>2, SamePools
  <2>3. CASE Enter(c) \/ Check(c) \/ Create(c) \/ Connect(c) \/ Migrate(c) \/ Drop(c) \/ Retry(c)
    <3>1. UNCHANGED poolVars /\ pc[c] \notin {"store", "dead"}
        BY <2>3 DEF Enter, Check, Create, Connect, Migrate, Drop, Retry
    <3>2. \/ UNCHANGED pc
          \/ \E label : label \notin {"newpool", "store"} /\ pc' = [pc EXCEPT ![c] = label]
        BY <2>3 DEF Enter, Check, Create, Connect, Migrate, Drop, Retry, Goto
    <3> QED BY <1>1, <3>1, <3>2, SamePools
  <2> QED BY <1>2, <2>1, <2>2, <2>3 DEF Step
<1>3. ASSUME NEW k \in Clients, Close(k) PROVE PInv'
    BY <1>3, ClosePInv
<1>4. ASSUME NEW p \in Procs, Crash(p) PROVE PInv'
  <2>1. UNCHANGED poolVars /\ \A d \in Callers : pc'[d] = pc[d] \/ pc'[d] = "dead"
      BY <1>4 DEF Crash
  <2> QED BY <2>1, SamePools
<1>5. CASE UNCHANGED vars
  <2>1. UNCHANGED poolVars /\ UNCHANGED pc
      BY <1>5 DEF vars, poolVars
  <2> QED BY <2>1, SamePools
<1>6. ASSUME NEW n \in Names, LateCreate(n) \/ LateDrop(n) PROVE PInv'
  <2>1. UNCHANGED poolVars /\ UNCHANGED pc
      BY <1>6 DEF LateCreate, LateDrop
  <2> QED BY <2>1, SamePools
<1> QED BY <1>2, <1>3, <1>4, <1>5, <1>6 DEF Next

LEMMA AlwaysPInv == Spec => []PInv
BY InitIInv, NextIInv, InitPInv, NextPInv, PTL DEF Spec

(* A client loses fewer pools than it has callers, however many calls they *)
(* make: Open may store over another's pool only while the first ones race.*)
THEOREM LeakBoundedAlways == Spec => []LeakBounded
<1>1. IInv /\ PInv => LeakBounded
  <2> SUFFICES ASSUME IInv, PInv, NEW k \in Clients, NEW c \in Users(k)
               PROVE  Cardinality(Lost(k)) < Cardinality(Users(k))
      BY DEF LeakBounded, Lost, Users
  <2>1. /\ Cardinality(Users(k)) \in Nat /\ Cardinality(Lost(k)) \in Nat
        /\ Cardinality(Opening(k)) \in Nat /\ Cardinality(Users(k)) # 0
      BY CountsAreNaturals, FS_EmptySet
  <2>2. CASE pools[k] = 0 /\ ~shut[k]
    <3>1. Cardinality(Lost(k)) = 0
        BY <2>2, FS_EmptySet DEF PInv, LostPools
    <3> QED BY <2>1, <3>1
  <2>3. CASE ~(pools[k] = 0 /\ ~shut[k])
      BY <2>1, <2>3 DEF PInv, LostPools
  <2> QED BY <2>2, <2>3
<1> QED BY AlwaysIInv, AlwaysPInv, <1>1, PTL
================================================================================
