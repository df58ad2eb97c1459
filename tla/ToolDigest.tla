---- MODULE ToolDigest ----
(***************************************************************************)
(* The sqlc binary as an input of every cached action (internal/cache/     *)
(* tool.go): its hash is remembered in a file of the cache together with   *)
(* the path, size and modification time it was computed for, and read from *)
(* the path of the executable when that does not match.  Several processes *)
(* do so without a lock while the binary may be replaced.                  *)
(*                                                                         *)
(* A build stands for its contents, so a build is also its own hash; the   *)
(* action cache is a map from the digest of one action to the build that   *)
(* computed its result (DiskCache has the files behind it).                *)
(***************************************************************************)
EXTENDS Naturals, FiniteSets

CONSTANTS
    Procs,      \* processes
    Builds,     \* binaries that are installed at the path, in any order
    Stamp,      \* for each build, its size and modification time
    Release,    \* for each build, its version (info.Version)
    NoBuild     \* no build: nothing cached, no memo

ASSUME BuildsAssumption ==
    /\ NoBuild \notin Builds
    /\ \A b \in Builds : Stamp[b] # NoBuild
    /\ \A b \in Builds : Release[b] \notin Builds /\ Release[b] # NoBuild
    /\ \A b, c \in Builds : Stamp[b] = Stamp[c] => b = c

VARIABLES
    installed,   \* the build at the path of the executable
    memo,        \* the file "tool": a stamp and a hash
    pc,          \* "new", "stat", "memo", "hash", "save", "ready", "done" for each process
    runs,        \* the build a process executes
    stat,        \* the stamp it saw
    digest,      \* its tool.digest
    cached,      \* for each digest, the build that made the result kept under it
    got,         \* the build that made the result a process uses
    excused,     \* processes whose binary was replaced before they hashed it, or unreadable
    raced,       \* whether there ever was one
    misled       \* builds under whose stamp such a process has saved a memo

vars == <<installed, memo, pc, runs, stat, digest, cached, got, excused, raced, misled>>

NoMemo == [stamp |-> NoBuild, sha |-> NoBuild]
Digests == Builds \cup {Release[b] : b \in Builds}
Starting == {p \in Procs : pc[p] \in {"stat", "memo", "hash"}}

Init ==
    /\ installed \in Builds
    /\ memo = NoMemo
    /\ pc = [p \in Procs |-> "new"]
    /\ runs = [p \in Procs |-> NoBuild]
    /\ stat = [p \in Procs |-> NoBuild]
    /\ digest = [p \in Procs |-> NoBuild]
    /\ cached = [d \in Digests |-> NoBuild]
    /\ got = [p \in Procs |-> NoBuild]
    /\ excused = {}
    /\ raced = FALSE
    /\ misled = {}

(* A process is started from what is installed. *)
Exec(p) ==
    /\ pc[p] = "new"
    /\ pc' = [pc EXCEPT ![p] = "stat"]
    /\ runs' = [runs EXCEPT ![p] = installed]
    /\ UNCHANGED <<installed, memo, stat, digest, cached, got, excused, raced, misled>>

(* The binary is rebuilt, upgraded, or rolled back to an earlier build     *)
(* with the size and time it had.  os.Executable goes on naming the path,  *)
(* which now is another file. *)
Rebuild(b) ==
    /\ b \in Builds \ {installed}
    /\ installed' = b
    /\ excused' = excused \cup Starting
    /\ raced' = (raced \/ Starting # {})
    /\ UNCHANGED <<memo, pc, runs, stat, digest, cached, got, misled>>

(* os.Executable, os.Stat or reading the file fails: the version stands in *)
(* for the hash. *)
Fallback(p) ==
    /\ pc[p] \in {"stat", "hash"}
    /\ digest' = [digest EXCEPT ![p] = Release[runs[p]]]
    /\ pc' = [pc EXCEPT ![p] = "ready"]
    /\ excused' = excused \cup {p}
    /\ raced' = TRUE
    /\ UNCHANGED <<installed, memo, runs, stat, cached, got, misled>>

Stat(p) ==
    /\ pc[p] = "stat"
    /\ stat' = [stat EXCEPT ![p] = Stamp[installed]]
    /\ pc' = [pc EXCEPT ![p] = "memo"]
    /\ UNCHANGED <<installed, memo, runs, digest, cached, got, excused, raced, misled>>

(* Mutant: any memo is good. *)
MatchesAny(p) == memo.sha # NoBuild

Matches(p) == memo.stamp = stat[p] /\ memo.sha # NoBuild

(* The memo is read: it is for this binary, or it is not, is missing or    *)
(* cannot be decoded. *)
ReadMemo(p) ==
    /\ pc[p] = "memo"
    /\ \/ /\ Matches(p)
          /\ digest' = [digest EXCEPT ![p] = memo.sha]
          /\ pc' = [pc EXCEPT ![p] = "ready"]
       \/ /\ ~Matches(p)
          /\ pc' = [pc EXCEPT ![p] = "hash"]
          /\ UNCHANGED digest
    /\ UNCHANGED <<installed, memo, runs, stat, cached, got, excused, raced, misled>>

(* The file at the path is opened and hashed. *)
Hash(p) ==
    /\ pc[p] = "hash"
    /\ digest' = [digest EXCEPT ![p] = installed]
    /\ pc' = [pc EXCEPT ![p] = "save"]
    /\ UNCHANGED <<installed, memo, runs, stat, cached, got, excused, raced, misled>>

(* The memo is renamed into place, or one of the steps before fails. *)
Save(p) ==
    /\ pc[p] = "save"
    /\ \/ /\ memo' = [stamp |-> stat[p], sha |-> digest[p]]
          /\ misled' = IF p \in excused
                       THEN misled \cup {b \in Builds : Stamp[b] = stat[p]}
                       ELSE misled
       \/ UNCHANGED <<memo, misled>>
    /\ pc' = [pc EXCEPT ![p] = "ready"]
    /\ UNCHANGED <<installed, runs, stat, digest, cached, got, excused, raced>>

(* Mutant: the version is enough. *)
VersionKey(p) == Release[runs[p]]

(* NewAction: the digest of the tool is the first input of the action. *)
ActionKey(p) == digest[p]

(* The result is taken from the cache, or computed and kept there. *)
Act(p) ==
    /\ pc[p] = "ready"
    /\ LET d == ActionKey(p)
       IN IF cached[d] # NoBuild
          THEN got' = [got EXCEPT ![p] = cached[d]] /\ UNCHANGED cached
          ELSE /\ got' = [got EXCEPT ![p] = runs[p]]
               /\ cached' = [cached EXCEPT ![d] = runs[p]]
    /\ pc' = [pc EXCEPT ![p] = "done"]
    /\ UNCHANGED <<installed, memo, runs, stat, digest, excused, raced, misled>>

(* The process ends or is killed, and is started again. *)
Exit(p) ==
    /\ pc[p] # "new"
    /\ pc' = [pc EXCEPT ![p] = "new"]
    /\ runs' = [runs EXCEPT ![p] = NoBuild]
    /\ stat' = [stat EXCEPT ![p] = NoBuild]
    /\ digest' = [digest EXCEPT ![p] = NoBuild]
    /\ got' = [got EXCEPT ![p] = NoBuild]
    /\ excused' = excused \ {p}
    /\ UNCHANGED <<installed, memo, cached, raced, misled>>

Next ==
    \/ \E b \in Builds : Rebuild(b)
    \/ \E p \in Procs :
          \/ Exec(p) \/ Fallback(p) \/ Stat(p) \/ ReadMemo(p) \/ Hash(p)
          \/ Save(p) \/ Act(p) \/ Exit(p)

Spec == Init /\ [][Next]_vars

----------------------------------------------------------------------------

(* A rebuilt sqlc never reuses stale entries (digest.go:69): what a        *)
(* process takes from the cache was computed by its own build. *)
NeverStale == \A p \in Procs : got[p] # NoBuild => got[p] = runs[p]

(* It reuses one only after some process had its binary replaced between   *)
(* its start and the hashing, or could not read it. *)
StaleNeedsRace == ~raced => NeverStale

(* Whatever happens while others start, a process that could read its      *)
(* binary and did not see it replaced works under its own hash: the memo   *)
(* never gives it another's.  The exception is a build that is put back    *)
(* after a disturbed process saw its stamp, hashed its successor and saved *)
(* the two together. *)
DigestIsOwn ==
    \A p \in Procs \ excused :
        pc[p] \in {"save", "ready", "done"} => digest[p] = runs[p] \/ runs[p] \in misled
====
