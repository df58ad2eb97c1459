-------------------------- MODULE ToolDigestProofs --------------------------
(***************************************************************************)
(* Proofs about the hash of the binary, for any number of processes and    *)
(* builds.                                                                 *)
(***************************************************************************)
EXTENDS ToolDigest, TLAPS

Labels == {"new", "stat", "memo", "hash", "save", "ready", "done"}

Typed ==
    /\ installed \in Builds
    /\ misled \subseteq Builds
    /\ pc \in [Procs -> Labels]
    /\ runs \in [Procs -> Builds \cup {NoBuild}]
    /\ DOMAIN stat = Procs
    /\ digest \in [Procs -> Digests \cup {NoBuild}]
    /\ cached \in [Digests -> Builds \cup {NoBuild}]
    /\ DOMAIN got = Procs
    /\ raced \in BOOLEAN

(* A process that runs knows its build, and one that works its digest. *)
Known ==
    \A p \in Procs :
        /\ pc[p] # "new" => runs[p] \in Builds
        /\ pc[p] = "save" => digest[p] \in Builds
        /\ pc[p] \in {"ready", "done"} => digest[p] \in Digests
        /\ pc[p] # "done" => got[p] = NoBuild

(* A stamp is that of a build, and stands beside its hash unless a         *)
(* disturbed process put them together. *)
Consistent(stamp, sha) ==
    \E b \in Builds : stamp = Stamp[b] /\ (sha = b \/ b \in misled)

MemoRight == memo.sha # NoBuild => memo.sha \in Builds /\ Consistent(memo.stamp, memo.sha)

StatRight ==
    \A p \in Procs :
        /\ pc[p] \in {"memo", "hash", "save"} => \E b \in Builds : stat[p] = Stamp[b]
        /\ pc[p] = "save" /\ p \notin excused => stat[p] = Stamp[digest[p]]

(* A process that did not see its binary replaced runs what is installed   *)
(* until it has hashed it. *)
Undisturbed ==
    \A p \in Procs \ excused :
        /\ pc[p] \in {"stat", "memo", "hash"} => runs[p] = installed
        /\ pc[p] \in {"memo", "hash"} => stat[p] = Stamp[installed]

(* Without a race every entry was made by the build it is kept under. *)
Clean ==
    ~raced =>
        /\ excused = {} /\ misled = {}
        /\ \A d \in Digests : cached[d] # NoBuild => cached[d] = d
        /\ NeverStale

TInv == Typed /\ Known /\ MemoRight /\ StatRight /\ Undisturbed /\ DigestIsOwn /\ Clean
-----------------------------------------------------------------------------

LEMMA InitHolds == Init => TInv
<1>. SUFFICES ASSUME Init PROVE TInv
  OBVIOUS
<1>1. Typed
  <2>1. raced \in BOOLEAN
    BY Zenon DEF Init
  <2>. QED
    BY <2>1 DEF Init, Typed, Labels
<1>2. Known
  BY DEF Init, Known
<1>3. MemoRight /\ StatRight
  BY DEF Init, MemoRight, StatRight, NoMemo
<1>4. Undisturbed /\ DigestIsOwn
  BY DEF Init, Undisturbed, DigestIsOwn
<1>5. Clean
  BY DEF Init, Clean, NeverStale
<1>. QED
  BY <1>1, <1>2, <1>3, <1>4, <1>5 DEF TInv

LEMMA ExecHolds == ASSUME TInv, NEW p \in Procs, Exec(p) PROVE TInv'
<1>1. Typed' /\ Known'
  BY DEF TInv, Typed, Known, Exec, Labels
<1>2. MemoRight' /\ StatRight'
  BY DEF TInv, Typed, MemoRight, StatRight, Consistent, Exec
<1>3. Undisturbed' /\ DigestIsOwn'
  BY DEF TInv, Typed, Undisturbed, DigestIsOwn, Exec
<1>4. Clean'
  BY DEF TInv, Typed, Known, Clean, NeverStale, Exec
<1>. QED
  BY <1>1, <1>2, <1>3, <1>4 DEF TInv

(* Whoever is starting is disturbed. *)
LEMMA RebuildHolds == ASSUME TInv, NEW b \in Builds, Rebuild(b) PROVE TInv'
<1>1. /\ installed' = b
      /\ excused' = excused \cup Starting /\ raced' = (raced \/ Starting # {})
      /\ UNCHANGED <<memo, pc, runs, stat, digest, cached, got, misled>>
  BY DEF Rebuild
<1>2. Typed' /\ Known'
  BY <1>1 DEF TInv, Typed, Known
<1>3. MemoRight' /\ StatRight'
  BY <1>1 DEF TInv, MemoRight, StatRight, Consistent
<1>4. Undisturbed' /\ DigestIsOwn'
  BY <1>1 DEF TInv, Undisturbed, DigestIsOwn, Starting
<1>5. Clean'
  BY <1>1 DEF TInv, Typed, Clean, NeverStale
<1>. QED
  BY <1>2, <1>3, <1>4, <1>5 DEF TInv

LEMMA FallbackHolds == ASSUME TInv, NEW p \in Procs, Fallback(p) PROVE TInv'
<1>1. Typed' /\ Known'
  <2>1. runs[p] \in Builds
    BY DEF TInv, Known, Fallback
  <2>2. Release[runs[p]] \in Digests
    BY <2>1 DEF Digests
  <2>. QED
    BY <2>2 DEF TInv, Typed, Known, Fallback, Labels
<1>2. MemoRight' /\ StatRight'
  BY DEF TInv, Typed, MemoRight, StatRight, Consistent, Fallback
<1>3. Undisturbed' /\ DigestIsOwn'
  BY DEF TInv, Typed, Undisturbed, DigestIsOwn, Fallback
<1>4. Clean'
  BY DEF Clean, Fallback
<1>. QED
  BY <1>1, <1>2, <1>3, <1>4 DEF TInv

LEMMA StatHolds == ASSUME TInv, NEW p \in Procs, Stat(p) PROVE TInv'
<1>1. Typed' /\ Known'
  BY DEF TInv, Typed, Known, Stat, Labels
<1>2. MemoRight' /\ StatRight'
  BY DEF TInv, Typed, MemoRight, StatRight, Consistent, Stat
<1>3. Undisturbed' /\ DigestIsOwn'
  BY DEF TInv, Typed, Undisturbed, DigestIsOwn, Stat
<1>4. Clean'
  BY DEF TInv, Typed, Clean, NeverStale, Stat
<1>. QED
  BY <1>1, <1>2, <1>3, <1>4 DEF TInv

LEMMA ReadMemoHolds == ASSUME TInv, NEW p \in Procs, ReadMemo(p) PROVE TInv'
<1>1. /\ pc[p] = "memo" /\ UNCHANGED <<installed, memo, runs, stat, cached, got, excused, raced, misled>>
  BY DEF ReadMemo
<1>2. CASE /\ Matches(p) /\ digest' = [digest EXCEPT ![p] = memo.sha]
           /\ pc' = [pc EXCEPT ![p] = "ready"]
  <2>1. memo.sha \in Builds /\ memo.sha \in Digests
    BY <1>2 DEF TInv, MemoRight, Matches, Digests
  <2>2. Typed' /\ Known'
    BY <1>1, <1>2, <2>1 DEF TInv, Typed, Known, Labels
  <2>3. MemoRight' /\ StatRight'
    BY <1>1, <1>2 DEF TInv, Typed, MemoRight, StatRight, Consistent
  <2>4. p \notin excused => memo.sha = runs[p] \/ runs[p] \in misled
    <3>. SUFFICES ASSUME p \notin excused PROVE memo.sha = runs[p] \/ runs[p] \in misled
      OBVIOUS
    <3>1. memo.stamp = Stamp[runs[p]] /\ runs[p] \in Builds
      BY <1>1, <1>2 DEF TInv, Typed, Undisturbed, Matches
    <3>2. PICK b \in Builds : memo.stamp = Stamp[b] /\ (memo.sha = b \/ b \in misled)
      BY <1>2, <2>1, BuildsAssumption DEF TInv, MemoRight, Consistent, Matches
    <3>3. b = runs[p]
      BY <3>1, <3>2, BuildsAssumption
    <3>. QED
      BY <3>2, <3>3
  <2>5. Undisturbed' /\ DigestIsOwn'
    BY <1>1, <1>2, <2>4 DEF TInv, Typed, Undisturbed, DigestIsOwn
  <2>6. Clean'
    BY <1>1 DEF TInv, Clean, NeverStale
  <2>. QED
    BY <2>2, <2>3, <2>5, <2>6 DEF TInv
<1>3. CASE pc' = [pc EXCEPT ![p] = "hash"] /\ digest' = digest
  <2>1. Typed' /\ Known'
    BY <1>1, <1>3 DEF TInv, Typed, Known, Labels
  <2>2. MemoRight' /\ StatRight'
    BY <1>1, <1>3 DEF TInv, Typed, MemoRight, StatRight, Consistent
  <2>3. Undisturbed' /\ DigestIsOwn'
    BY <1>1, <1>3 DEF TInv, Typed, Undisturbed, DigestIsOwn
  <2>4. Clean'
    BY <1>1 DEF TInv, Clean, NeverStale
  <2>. QED
    BY <2>1, <2>2, <2>3, <2>4 DEF TInv
<1>. QED
  BY <1>2, <1>3 DEF ReadMemo

LEMMA HashHolds == ASSUME TInv, NEW p \in Procs, Hash(p) PROVE TInv'
<1>1. Typed' /\ Known'
  BY DEF TInv, Typed, Known, Hash, Labels, Digests
<1>2. MemoRight' /\ StatRight'
  BY DEF TInv, Typed, MemoRight, StatRight, Undisturbed, Consistent, Hash
<1>3. Undisturbed' /\ DigestIsOwn'
  BY DEF TInv, Typed, Undisturbed, DigestIsOwn, Hash
<1>4. Clean'
  BY DEF TInv, Typed, Clean, NeverStale, Hash
<1>. QED
  BY <1>1, <1>2, <1>3, <1>4 DEF TInv

(* What an undisturbed process saves is a stamp and its hash. *)
LEMMA SaveHolds == ASSUME TInv, NEW p \in Procs, Save(p) PROVE TInv'
<1>1. /\ pc[p] = "save" /\ pc' = [pc EXCEPT ![p] = "ready"]
      /\ UNCHANGED <<installed, runs, stat, digest, cached, got, excused, raced>>
      /\ misled \subseteq misled' /\ (p \notin excused => misled' = misled)
      /\ misled' \subseteq Builds
  BY DEF Save, TInv, Typed
<1>2. Typed' /\ Known'
  BY <1>1 DEF TInv, Typed, Known, Labels, Digests
<1>3. MemoRight'
  <2>1. digest[p] \in Builds
    BY <1>1 DEF TInv, Known
  <2>2. CASE UNCHANGED memo
    BY <1>1, <2>2 DEF TInv, MemoRight, Consistent
  <2>3. CASE /\ memo' = [stamp |-> stat[p], sha |-> digest[p]]
             /\ misled' = IF p \in excused
                          THEN misled \cup {b \in Builds : Stamp[b] = stat[p]}
                          ELSE misled
    <3>1. PICK b \in Builds : stat[p] = Stamp[b]
      BY <1>1 DEF TInv, StatRight
    <3>2. p \in excused => b \in misled'
      BY <2>3, <3>1
    <3>3. p \notin excused => stat[p] = Stamp[digest[p]]
      BY <1>1 DEF TInv, StatRight
    <3>4. Consistent(stat[p], digest[p])'
      BY <1>1, <2>1, <3>1, <3>2, <3>3 DEF Consistent
    <3>5. memo'.stamp = stat'[p] /\ memo'.sha = digest'[p]
      BY <1>1, <2>3
    <3>. QED
      BY <1>1, <2>1, <3>4, <3>5 DEF MemoRight
  <2>. QED
    BY <2>2, <2>3 DEF Save
<1>4. StatRight'
  BY <1>1 DEF TInv, Typed, StatRight
<1>5. Undisturbed' /\ DigestIsOwn'
  BY <1>1 DEF TInv, Typed, Undisturbed, DigestIsOwn
<1>6. Clean'
  BY <1>1 DEF TInv, Typed, Clean, NeverStale
<1>. QED
  BY <1>2, <1>3, <1>4, <1>5, <1>6 DEF TInv

LEMMA ActHolds == ASSUME TInv, NEW p \in Procs, Act(p) PROVE TInv'
<1>. DEFINE d == digest[p]
<1>1. /\ pc[p] = "ready" /\ pc' = [pc EXCEPT ![p] = "done"]
      /\ d \in Digests /\ runs[p] \in Builds
      /\ UNCHANGED <<installed, memo, runs, stat, digest, excused, raced, misled>>
  BY DEF TInv, Known, Act
<1>2. \/ cached[d] # NoBuild /\ got' = [got EXCEPT ![p] = cached[d]] /\ cached' = cached
      \/ got' = [got EXCEPT ![p] = runs[p]] /\ cached' = [cached EXCEPT ![d] = runs[p]]
  BY DEF Act, ActionKey
<1>3. Typed' /\ Known'
  BY <1>1, <1>2 DEF TInv, Typed, Known, Labels
<1>4. MemoRight' /\ StatRight'
  BY <1>1 DEF TInv, Typed, MemoRight, StatRight, Consistent
<1>5. Undisturbed' /\ DigestIsOwn'
  BY <1>1 DEF TInv, Typed, Undisturbed, DigestIsOwn
<1>6. Clean'
  <2>. SUFFICES ASSUME ~raced PROVE Clean'
    BY <1>1 DEF Clean
  <2>1. d = runs[p]
    BY <1>1 DEF TInv, Clean, DigestIsOwn
  <2>. QED
    BY <1>1, <1>2, <2>1 DEF TInv, Typed, Clean, NeverStale
<1>. QED
  BY <1>3, <1>4, <1>5, <1>6 DEF TInv

LEMMA ExitHolds == ASSUME TInv, NEW p \in Procs, Exit(p) PROVE TInv'
<1>1. Typed' /\ Known'
  BY DEF TInv, Typed, Known, Exit, Labels
<1>2. MemoRight' /\ StatRight'
  BY DEF TInv, Typed, MemoRight, StatRight, Consistent, Exit
<1>3. Undisturbed' /\ DigestIsOwn'
  BY DEF TInv, Typed, Undisturbed, DigestIsOwn, Exit
<1>4. Clean'
  BY DEF TInv, Typed, Clean, NeverStale, Exit
<1>. QED
  BY <1>1, <1>2, <1>3, <1>4 DEF TInv

LEMMA InvHolds == Spec => []TInv
<1>1. TInv /\ UNCHANGED vars => TInv'
  BY DEF vars, TInv, Typed, Known, MemoRight, StatRight, Consistent, Undisturbed, DigestIsOwn,
         Clean, NeverStale
<1>2. TInv /\ [Next]_vars => TInv'
  BY <1>1, ExecHolds, RebuildHolds, FallbackHolds, StatHolds, ReadMemoHolds, HashHolds,
     SaveHolds, ActHolds, ExitHolds DEF Next
<1>. QED
  BY InitHolds, <1>2, PTL DEF Spec
-----------------------------------------------------------------------------

(* Whatever other processes leave in the memo and whenever the binary is   *)
(* replaced, a process whose own start was not disturbed by a replacement  *)
(* works under the hash of the build it runs, unless its build was put     *)
(* back after a disturbed process saved a memo under its stamp             *)
(* (computeToolDigest). *)
THEOREM DigestIsOwnAlways == Spec => []DigestIsOwn
<1>1. TInv => DigestIsOwn
  BY DEF TInv
<1>. QED
  BY <1>1, InvHolds, PTL

(* A result of another build is used only after a start was disturbed or a *)
(* binary could not be read (NewAction, computeToolDigest). *)
THEOREM StaleNeedsRaceAlways == Spec => []StaleNeedsRace
<1>1. TInv => StaleNeedsRace
  BY DEF TInv, Clean, StaleNeedsRace
<1>. QED
  BY <1>1, InvHolds, PTL
=============================================================================
