----------------------------- MODULE DiskCache -----------------------------
(***************************************************************************)
(* sqlc's on-disk cache (internal/cache) and the code that uses it: the    *)
(* cached query analyzer (internal/analyzer), the cached core catalog      *)
(* (internal/core/cache.go) and the WASM plugin loader (internal/ext/wasm).*)
(* Any number of sqlc processes share the directory without locks, a       *)
(* process may die between any two system calls, an I/O call may fail, and *)
(* the machine may lose power, which may lose or tear every file, for Put  *)
(* never calls fsync.                                                      *)
(*                                                                         *)
(* A digest stands for the blob it is the hash of.  The file at            *)
(* cas/<xx>/<hash> is "absent", "whole", "torn" (the right size and other  *)
(* contents) or "short" (another size); the file at ac/<xx>/<hash> is      *)
(* "absent", "entry" (the JSON of the action's outputs) or "torn" (it does *)
(* not decode).  An action determines its outputs: "Two actions with the   *)
(* same digest are assumed to produce the same outputs".                   *)
(***************************************************************************)
EXTENDS Naturals, FiniteSets

CONSTANTS
    Procs,      \* the sqlc processes
    Actions,    \* the action digests
    Digests,    \* the blobs' digests
    Outputs,    \* ActionResult.Outputs of each action, as a set of digests
    Work,       \* the action each process performs, run after run
    Kind,       \* what an action is: an "analysis" of a query, a "catalog" to
                \* open, the "fetch" of a plugin or the "compile" of one
    MaxFaults   \* bound on crashes, I/O errors and power losses

ASSUME OutputsAssumption == Outputs \in [Actions -> (SUBSET Digests) \ {{}}]
ASSUME WorkAssumption == Work \in [Procs -> Actions]
ASSUME KindAssumption == Kind \in [Actions -> {"analysis", "catalog", "fetch", "compile"}]
ASSUME FaultsAssumption == MaxFaults \in Nat

VARIABLES
    cas,    \* the blob files
    ac,     \* the action entry files
    pc,     \* where each process is
    todo,   \* the outputs its present loop has still to visit
    cur,    \* the output the step at hand is about
    tmp,    \* the contents of its staging file under tmp/
    got,    \* what its run answers with: "none" yet, an error ("failed"), a
            \* "computed" result, or a cached one that is "whole" or "torn"
    faults, \* faults so far
    lost    \* the machine has lost power

vars == <<cas, ac, pc, todo, cur, tmp, got, faults, lost>>

disk == <<cas, ac>>
fate == <<faults, lost>>

Labels == {"idle", "acGet", "acStat", "acEvict", "casGet", "casEvict", "filename",
           "open", "compute", "put", "putTemp", "putWrite", "putRename",
           "acPut", "acTemp", "acWrite", "acRename", "done"}
BlobState == {"absent", "whole", "torn", "short"}
EntryState == {"absent", "entry", "torn"}

(* A fetch has its content address in the configuration: it goes to the    *)
(* CAS directly and keeps no action entry.  A catalog is opened by name.   *)
(* The plugin loader reports a cache error where the others go on.         *)
Fetch(p) == Kind[Work[p]] = "fetch"
ByName(p) == Kind[Work[p]] = "catalog"
Plugin(p) == Kind[Work[p]] \in {"fetch", "compile"}

(* CAS.Contains with a digest that carries a size: the size is all it checks. *)
Contains(d) == cas[d] \in {"whole", "torn"}

Init ==
    /\ cas = [d \in Digests |-> "absent"]
    /\ ac = [a \in Actions |-> "absent"]
    /\ pc = [p \in Procs |-> "idle"]
    /\ todo = [p \in Procs |-> {}]
    /\ cur = [p \in Procs |-> CHOOSE d \in Digests : TRUE]
    /\ tmp = [p \in Procs |-> "none"]
    /\ got = [p \in Procs |-> "none"]
    /\ faults = 0
    /\ lost = FALSE

Goto(p, label) == pc' = [pc EXCEPT ![p] = label]

Visit(p, label) ==
    /\ Goto(p, label)
    /\ todo' = [todo EXCEPT ![p] = Outputs[Work[p]]]

Answer(p, result) == got' = [got EXCEPT ![p] = result]

---------------------------------------------------------------------------
(* A run begins: CachedAnalyzer.analyze, NewCached, loadAndCompileWASM. *)
Start(p) ==
    /\ pc[p] = "idle"
    /\ Visit(p, IF Fetch(p) THEN "casGet" ELSE "acGet")
    /\ Answer(p, "none")
    /\ UNCHANGED <<disk, cur, tmp, fate>>

(* ActionCache.Get: read and decode the entry. *)
AcGet(p) ==
    /\ pc[p] = "acGet"
    /\ Visit(p, CASE ac[Work[p]] = "absent" -> "compute"
                  [] ac[Work[p]] = "torn"   -> "acEvict"
                  [] ac[Work[p]] = "entry"  -> "acStat")
    /\ UNCHANGED <<disk, cur, tmp, got, fate>>

(* ActionCache.Get: every output must still be in the CAS. *)
AcStat(p) ==
    /\ pc[p] = "acStat"
    /\ \E d \in todo[p] :
        IF ~Contains(d)
        THEN Goto(p, "acEvict") /\ UNCHANGED todo
        ELSE IF todo[p] = {d}
             THEN Visit(p, IF ByName(p) THEN "filename" ELSE "casGet")
             ELSE todo' = [todo EXCEPT ![p] = @ \ {d}] /\ UNCHANGED pc
    /\ UNCHANGED <<disk, cur, tmp, got, fate>>

(* ActionCache.Get removes the entry it found bad, whatever is there now. *)
AcEvict(p) ==
    /\ pc[p] = "acEvict"
    /\ ac' = [ac EXCEPT ![Work[p]] = "absent"]
    /\ Goto(p, "compute")
    /\ UNCHANGED <<cas, todo, cur, tmp, got, fate>>

(* Mutant: CAS.Get that trusts the size and does not hash. *)
CasGetUnhashed(p) ==
    /\ pc[p] = "casGet"
    /\ \E d \in todo[p] :
        /\ cur' = [cur EXCEPT ![p] = d]
        /\ todo' = [todo EXCEPT ![p] = @ \ {d}]
        /\ CASE ~Contains(d) -> Goto(p, "compute") /\ UNCHANGED got
             [] Contains(d) /\ todo[p] = {d} -> Goto(p, "done") /\ Answer(p, cas[d])
             [] Contains(d) /\ todo[p] # {d} -> UNCHANGED <<pc, got>>
    /\ UNCHANGED <<disk, tmp, fate>>

(* CAS.Get of an output: read it and hash what was read.  GetTree, which   *)
(* materializes the outputs in a fresh directory of its own, does the same *)
(* for each of them.                                                       *)
CasGet(p) ==
    /\ pc[p] = "casGet"
    /\ \E d \in todo[p] :
        /\ cur' = [cur EXCEPT ![p] = d]
        /\ todo' = [todo EXCEPT ![p] = @ \ {d}]
        /\ CASE cas[d] = "absent" -> Goto(p, "compute") /\ UNCHANGED got
             [] cas[d] \in {"torn", "short"} -> Goto(p, "casEvict") /\ UNCHANGED got
             [] cas[d] = "whole" /\ todo[p] = {d} -> Goto(p, "done") /\ Answer(p, "whole")
             [] cas[d] = "whole" /\ todo[p] # {d} -> UNCHANGED <<pc, got>>
    /\ UNCHANGED <<disk, tmp, fate>>

(* Mutant: CAS.Get that reports a corrupt blob as missing and leaves it. *)
CasEvictNothing(p) ==
    /\ pc[p] = "casEvict"
    /\ Goto(p, "compute")
    /\ UNCHANGED <<disk, todo, cur, tmp, got, fate>>

(* CAS.Get removes the blob it found corrupt, whatever is there now. *)
CasEvict(p) ==
    /\ pc[p] = "casEvict"
    /\ cas' = [cas EXCEPT ![cur[p]] = "absent"]
    /\ Goto(p, "compute")
    /\ UNCHANGED <<ac, todo, cur, tmp, got, fate>>

(* restore: CAS.Filename, which is Contains. *)
Filename(p) ==
    /\ pc[p] = "filename"
    /\ \E d \in todo[p] :
        /\ cur' = [cur EXCEPT ![p] = d]
        /\ Goto(p, IF Contains(d) THEN "open" ELSE "compute")
    /\ UNCHANGED <<disk, todo, tmp, got, fate>>

(* restore: open the blob where it lies and read the dialect's row, the    *)
(* only row that is looked at.  SQLite may or may not meet the tear.       *)
OpenFile(p) ==
    /\ pc[p] = "open"
    /\ \/ /\ cas[cur[p]] # "absent"
          /\ Goto(p, "done")
          /\ Answer(p, IF cas[cur[p]] = "whole" THEN "whole" ELSE "torn")
       \/ /\ cas[cur[p]] # "whole"
          /\ Goto(p, "compute")
          /\ UNCHANGED got
    /\ UNCHANGED <<disk, todo, cur, tmp, fate>>

(* A miss: do the work.  A failing analysis is answered and not stored. *)
Compute(p) ==
    /\ pc[p] = "compute"
    /\ \/ Visit(p, "put") /\ Answer(p, "computed")
       \/ Visit(p, "done") /\ Answer(p, "failed")
    /\ UNCHANGED <<disk, cur, tmp, fate>>

(* CAS.Put: an entry of the right size is left as it is. *)
PutStat(p) ==
    /\ pc[p] = "put"
    /\ IF todo[p] = {}
       THEN Visit(p, IF Fetch(p) THEN "done" ELSE "acPut") /\ UNCHANGED cur
       ELSE \E d \in todo[p] :
                IF Contains(d)
                THEN todo' = [todo EXCEPT ![p] = @ \ {d}] /\ UNCHANGED <<pc, cur>>
                ELSE /\ cur' = [cur EXCEPT ![p] = d]
                     /\ Goto(p, "putTemp")
                     /\ UNCHANGED todo
    /\ UNCHANGED <<disk, tmp, got, fate>>

(* Mutant: the file is renamed into place before it is written. *)
CreateTempInPlace(p) ==
    /\ pc[p] \in {"putTemp", "acTemp"}
    /\ tmp' = [tmp EXCEPT ![p] = "short"]
    /\ Goto(p, IF pc[p] = "putTemp" THEN "putRename" ELSE "acRename")
    /\ UNCHANGED <<disk, todo, cur, got, fate>>

(* createTemp: a name of its own, opened with O_EXCL. *)
CreateTemp(p) ==
    /\ pc[p] \in {"putTemp", "acTemp"}
    /\ tmp' = [tmp EXCEPT ![p] = "short"]
    /\ Goto(p, IF pc[p] = "putTemp" THEN "putWrite" ELSE "acWrite")
    /\ UNCHANGED <<disk, todo, cur, got, fate>>

(* Write and Close the staging file. *)
WriteTemp(p) ==
    /\ pc[p] \in {"putWrite", "acWrite"}
    /\ tmp' = [tmp EXCEPT ![p] = "whole"]
    /\ Goto(p, IF pc[p] = "putWrite" THEN "putRename" ELSE "acRename")
    /\ UNCHANGED <<disk, todo, cur, got, fate>>

(* Rename the staging file into place, replacing what is there. *)
PutRename(p) ==
    /\ pc[p] = "putRename"
    /\ cas' = [cas EXCEPT ![cur[p]] = tmp[p]]
    /\ tmp' = [tmp EXCEPT ![p] = "none"]
    /\ todo' = [todo EXCEPT ![p] = @ \ {cur[p]}]
    /\ Goto(p, "put")
    /\ UNCHANGED <<ac, cur, got, fate>>

(* ActionCache.Put: all outputs must be in the CAS. *)
AcPut(p) ==
    /\ pc[p] = "acPut"
    /\ IF todo[p] = {}
       THEN Goto(p, "acTemp") /\ UNCHANGED todo
       ELSE \E d \in todo[p] :
                IF Contains(d)
                THEN todo' = [todo EXCEPT ![p] = @ \ {d}] /\ UNCHANGED pc
                ELSE Goto(p, "done") /\ UNCHANGED todo
    /\ UNCHANGED <<disk, cur, tmp, got, fate>>

AcRename(p) ==
    /\ pc[p] = "acRename"
    /\ ac' = [ac EXCEPT ![Work[p]] = IF tmp[p] = "whole" THEN "entry" ELSE "torn"]
    /\ tmp' = [tmp EXCEPT ![p] = "none"]
    /\ Goto(p, "done")
    /\ UNCHANGED <<cas, todo, cur, got, fate>>

(* The run has answered; a later run of the same action may begin. *)
Exit(p) ==
    /\ pc[p] = "done"
    /\ Goto(p, "idle")
    /\ todo' = [todo EXCEPT ![p] = {}]
    /\ UNCHANGED <<disk, cur, tmp, got, fate>>

---------------------------------------------------------------------------
(* Faults *)

Fault == faults < MaxFaults /\ faults' = faults + 1

(* Mutant: the error of CAS.Put is dropped and the entry written. *)
PutFailsUnnoticed(p) ==
    /\ Fault
    /\ pc[p] \in {"putTemp", "putWrite", "putRename"}
    /\ Goto(p, "acTemp")
    /\ tmp' = [tmp EXCEPT ![p] = "none"]
    /\ UNCHANGED <<disk, todo, cur, got, lost>>

(* Mutant: Put cleans up by the name of the blob, not of the staging file. *)
PutFailsRemovesBlob(p) ==
    /\ Fault
    /\ pc[p] \in {"putTemp", "putWrite", "putRename"}
    /\ Goto(p, "done")
    /\ tmp' = [tmp EXCEPT ![p] = "none"]
    /\ cas' = [cas EXCEPT ![cur[p]] = "absent"]
    /\ UNCHANGED <<ac, todo, cur, got, lost>>

(* createTemp, Write, Close or Rename fails: Put removes the staging file  *)
(* and returns the error, which costs the entry and, for a fetch, the run. *)
PutFails(p) ==
    /\ Fault
    /\ pc[p] \in {"putTemp", "putWrite", "putRename", "acTemp", "acWrite", "acRename"}
    /\ Goto(p, "done")
    /\ tmp' = [tmp EXCEPT ![p] = "none"]
    /\ IF Fetch(p) THEN Answer(p, "failed") ELSE UNCHANGED got
    /\ UNCHANGED <<disk, todo, cur, lost>>

(* A file cannot be read, opened or removed.  An entry whose output cannot *)
(* be examined is evicted like one whose output is gone.                   *)
GetFails(p) ==
    /\ Fault
    /\ \/ /\ pc[p] \in {"acGet", "casGet"} /\ Plugin(p)
          /\ Goto(p, "done") /\ Answer(p, "failed")
       \/ /\ pc[p] \in {"acGet", "casGet", "open"} /\ ~Plugin(p)
          /\ Goto(p, "compute") /\ UNCHANGED got
       \/ /\ pc[p] = "acStat"
          /\ Goto(p, "acEvict") /\ UNCHANGED got
       \/ /\ pc[p] \in {"filename", "acEvict", "casEvict"}
          /\ Goto(p, "compute") /\ UNCHANGED got
    /\ UNCHANGED <<disk, todo, cur, tmp, lost>>

(* The process dies; its staging file stays behind under a name that       *)
(* nobody else will use.                                                   *)
Crash(p) ==
    /\ Fault
    /\ pc[p] # "idle"
    /\ Goto(p, "idle")
    /\ todo' = [todo EXCEPT ![p] = {}]
    /\ tmp' = [tmp EXCEPT ![p] = "none"]
    /\ Answer(p, "none")
    /\ UNCHANGED <<disk, cur, lost>>

(* Nothing was synced: any file may come back lost, torn or short. *)
PowerLoss ==
    /\ Fault
    /\ lost' = TRUE
    /\ \E bad \in SUBSET {d \in Digests : cas[d] # "absent"}, damage \in {"absent", "torn", "short"} :
        cas' = [d \in Digests |-> IF d \in bad THEN damage ELSE cas[d]]
    /\ \E bad \in SUBSET {a \in Actions : ac[a] # "absent"}, damage \in {"absent", "torn"} :
        ac' = [a \in Actions |-> IF a \in bad THEN damage ELSE ac[a]]
    /\ pc' = [p \in Procs |-> "idle"]
    /\ todo' = [p \in Procs |-> {}]
    /\ tmp' = [p \in Procs |-> "none"]
    /\ got' = [p \in Procs |-> "none"]
    /\ UNCHANGED cur

Step(p) ==
    \/ Start(p) \/ AcGet(p) \/ AcStat(p) \/ AcEvict(p)
    \/ CasGet(p) \/ CasEvict(p) \/ Filename(p) \/ OpenFile(p) \/ Compute(p)
    \/ PutStat(p) \/ CreateTemp(p) \/ WriteTemp(p) \/ PutRename(p)
    \/ AcPut(p) \/ AcRename(p) \/ Exit(p)

Next == (\E p \in Procs : Step(p) \/ PutFails(p) \/ GetFails(p) \/ Crash(p)) \/ PowerLoss

Spec == Init /\ [][Next]_vars

(* A running process is scheduled, and analyses succeed infinitely often.  *)
FairSpec ==
    /\ Spec
    /\ \A p \in Procs : WF_vars(Step(p)) /\ SF_vars(Compute(p) /\ pc'[p] = "put")

---------------------------------------------------------------------------
(* Every file, label and answer is one the code can produce. *)
TypeOK ==
    /\ cas \in [Digests -> BlobState]
    /\ ac \in [Actions -> EntryState]
    /\ pc \in [Procs -> Labels]
    /\ todo \in [Procs -> SUBSET Digests]
    /\ cur \in [Procs -> Digests]
    /\ tmp \in [Procs -> {"none", "short", "whole"}]
    /\ got \in [Procs -> {"none", "failed", "computed", "whole", "torn"}]
    /\ faults \in 0 .. MaxFaults
    /\ lost \in BOOLEAN

(* "concurrent sqlc processes never observe partial entries" (CAS.Put) and *)
(* "a partial entry" (ActionCache.Put): as long as the machine does not    *)
(* lose power, no process that dies or fails half way through a Put leaves *)
(* a torn or short file under cas/ or ac/.                                 *)
NoPartialEntries ==
    ~lost => /\ \A d \in Digests : cas[d] \in {"absent", "whole"}
             /\ \A a \in Actions : ac[a] \in {"absent", "entry"}

(* "All outputs must already be in the CAS" (ActionCache.Put): an action   *)
(* entry never names a blob that is not there, in any interleaving of the  *)
(* processes that look, evict and store.                                   *)
EntryBacked ==
    ~lost => \A a \in Actions :
                ac[a] = "entry" => \A d \in Outputs[a] : cas[d] = "whole"

(* What a run gets out of the cache is what was put in it.  Only a catalog *)
(* is served without its hash being checked, and only a power loss can     *)
(* have damaged it.                                                        *)
ServedIsWhole ==
    \A p \in Procs : got[p] = "torn" => ByName(p) /\ lost

(* A blob once stored stays stored: only a corrupt blob is evicted by      *)
(* CAS.Get, and Put and Rename put the same contents where they were.      *)
BlobsStay ==
    [][\A d \in Digests : cas[d] = "whole" /\ ~lost' => cas'[d] = "whole"]_vars

(* The result of an action is in the cache, whole. *)
Cached(a) ==
    /\ Kind[a] = "fetch" \/ ac[a] = "entry"
    /\ \A d \in Outputs[a] : cas[d] = "whole"

(* The cache heals: whatever was lost, torn or evicted, by whatever race   *)
(* of processes, when faults are over the results that are fetched through *)
(* CAS.Get are all in the cache in the end and stay there.                 *)
Heals == <>[](\A p \in Procs : ~ByName(p) => Cached(Work[p]))

=============================================================================
