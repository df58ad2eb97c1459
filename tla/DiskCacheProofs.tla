--------------------------- MODULE DiskCacheProofs ---------------------------
(***************************************************************************)
(* Proofs about DiskCache, for any number of processes, actions and blobs  *)
(* and any assignment of work to processes.                                *)
(***************************************************************************)
EXTENDS DiskCache, TLAPS

(* Type correctness *)

(* The digest that Init gives cur exists: an action has an output. *)
LEMMA SomeDigest ==
    ASSUME NEW p \in Procs
    PROVE  (CHOOSE d \in Digests : TRUE) \in Digests
<1>1. Outputs[Work[p]] \subseteq Digests /\ Outputs[Work[p]] # {}
    BY OutputsAssumption, WorkAssumption
<1>2. \E d \in Digests : TRUE
    BY <1>1
<1> QED BY <1>2

(* What is renamed into place has been written and closed: without this    *)
(* the type of cas is not preserved by PutRename.                          *)
Staged == \A p \in Procs : pc[p] \in {"putRename", "acRename"} => tmp[p] = "whole"

(* Only catalogs are opened by name. *)
Named == \A p \in Procs : pc[p] \in {"filename", "open"} => ByName(p)

TInv == TypeOK /\ Staged /\ Named

(* An empty cache and idle processes satisfy the typing invariant. *)
LEMMA InitTInv == Init => TInv
<1> SUFFICES ASSUME Init PROVE TInv
    OBVIOUS
<1>1. cur \in [Procs -> Digests]
    BY SomeDigest DEF Init
<1>2. /\ cas = [d \in Digests |-> "absent"]
      /\ ac = [a \in Actions |-> "absent"]
      /\ pc = [p \in Procs |-> "idle"]
      /\ todo = [p \in Procs |-> {}]
      /\ tmp = [p \in Procs |-> "none"]
      /\ got = [p \in Procs |-> "none"]
      /\ faults = 0 /\ lost = FALSE
    BY DEF Init
<1>3. faults \in 0 .. MaxFaults
    BY <1>2, FaultsAssumption
<1>4. cas \in [Digests -> BlobState] /\ ac \in [Actions -> EntryState] /\ Staged /\ Named
    BY <1>2 DEF Staged, Named, BlobState, EntryState
<1>5. /\ pc \in [Procs -> Labels]
      /\ todo \in [Procs -> SUBSET Digests]
      /\ tmp \in [Procs -> {"none", "short", "whole"}]
      /\ got \in [Procs -> {"none", "failed", "computed", "whole", "torn"}]
    BY <1>2 DEF Labels
<1> QED BY <1>1, <1>2, <1>3, <1>4, <1>5 DEF TInv, TypeOK

(* Every step of a process and every fault keeps the typing invariant. *)
LEMMA NextTInv == TInv /\ [Next]_vars => TInv'
<1> SUFFICES ASSUME TInv, [Next]_vars PROVE TInv'
    OBVIOUS
<1> USE OutputsAssumption, WorkAssumption, FaultsAssumption
    DEF TInv, TypeOK, Staged, Named, BlobState, EntryState, Labels, disk, fate, Goto, Visit, Answer
<1>1. ASSUME NEW p \in Procs, Step(p) PROVE TInv'
  <2>1. CASE Start(p)     BY <2>1 DEF Start
  <2>2. CASE AcGet(p)     BY <2>2 DEF AcGet
  <2>3. CASE AcStat(p)    BY <2>3 DEF AcStat
  <2>4. CASE AcEvict(p)   BY <2>4 DEF AcEvict
  <2>5. CASE CasGet(p)
    <3>1. PICK d \in todo[p] :
            /\ cur' = [cur EXCEPT ![p] = d]
            /\ todo' = [todo EXCEPT ![p] = @ \ {d}]
            /\ \/ Goto(p, "compute") /\ UNCHANGED got
               \/ Goto(p, "casEvict") /\ UNCHANGED got
               \/ Goto(p, "done") /\ Answer(p, "whole")
               \/ UNCHANGED <<pc, got>>
        BY <2>5 DEF CasGet
    <3>2. UNCHANGED <<cas, ac, tmp, faults, lost>>
        BY <2>5 DEF CasGet
    <3> QED BY <3>1, <3>2
  <2>6. CASE CasEvict(p)  BY <2>6 DEF CasEvict
  <2>7. CASE Filename(p)  BY <2>7 DEF Filename
  <2>8. CASE OpenFile(p)  BY <2>8 DEF OpenFile
  <2>9. CASE Compute(p)   BY <2>9 DEF Compute
  <2>10. CASE PutStat(p)
    <3>1. CASE todo[p] = {}
      <4>1. /\ pc' = [pc EXCEPT ![p] = IF Fetch(p) THEN "done" ELSE "acPut"]
            /\ todo' = [todo EXCEPT ![p] = Outputs[Work[p]]]
            /\ UNCHANGED <<cas, ac, cur, tmp, got, faults, lost>>
          BY <2>10, <3>1 DEF PutStat
      <4> QED BY <4>1
    <3>2. CASE todo[p] # {}
      <4>1. PICK d \in todo[p] :
              \/ todo' = [todo EXCEPT ![p] = @ \ {d}] /\ UNCHANGED <<pc, cur>>
              \/ /\ cur' = [cur EXCEPT ![p] = d]
                 /\ pc' = [pc EXCEPT ![p] = "putTemp"]
                 /\ UNCHANGED todo
          BY <2>10, <3>2 DEF PutStat
      <4>2. UNCHANGED <<cas, ac, tmp, got, faults, lost>>
          BY <2>10 DEF PutStat
      <4>3. d \in Digests
          BY <4>1
      <4> QED BY <4>1, <4>2, <4>3
    <3> QED BY <3>1, <3>2
  <2>11. CASE CreateTemp(p) BY <2>11 DEF CreateTemp
  <2>12. CASE WriteTemp(p)  BY <2>12 DEF WriteTemp
  <2>13. CASE PutRename(p)  BY <2>13 DEF PutRename
  <2>14. CASE AcPut(p)    BY <2>14 DEF AcPut
  <2>15. CASE AcRename(p) BY <2>15 DEF AcRename
  <2>16. CASE Exit(p)     BY <2>16 DEF Exit
  <2> QED BY <1>1, <2>1, <2>2, <2>3, <2>4, <2>5, <2>6, <2>7, <2>8, <2>9, <2>10,
             <2>11, <2>12, <2>13, <2>14, <2>15, <2>16 DEF Step
<1>2. ASSUME NEW p \in Procs, PutFails(p) PROVE TInv'
    BY <1>2 DEF PutFails, Fault
<1>3. ASSUME NEW p \in Procs, GetFails(p) PROVE TInv'
    BY <1>3 DEF GetFails, Fault
<1>4. ASSUME NEW p \in Procs, Crash(p) PROVE TInv'
    BY <1>4 DEF Crash, Fault
<1>5. CASE PowerLoss
    BY <1>5 DEF PowerLoss, Fault
<1>6. CASE UNCHANGED vars
    BY <1>6 DEF vars
<1> QED BY <1>1, <1>2, <1>3, <1>4, <1>5, <1>6 DEF Next

(* The state of the cache is well typed in every behaviour. *)
THEOREM TypeCorrect == Spec => []TypeOK
<1>1. TInv => TypeOK
    BY DEF TInv
<1> QED BY InitTInv, NextTInv, <1>1, PTL DEF Spec


---------------------------------------------------------------------------
(* Without a power loss *)

Storing == {"put", "putTemp", "putWrite", "putRename"}
Recording == {"acPut", "acTemp", "acWrite", "acRename"}

(* What a process relies on at each point of a run. *)
Relies(p) ==
    /\ pc[p] # "casEvict"
    /\ pc[p] = "open" => cas[cur[p]] = "whole"
    /\ pc[p] \in Storing => \A d \in Outputs[Work[p]] \ todo[p] : cas[d] = "whole"
    /\ pc[p] \in Recording => \A d \in Outputs[Work[p]] : cas[d] = "whole"

(* The inductive invariant of a machine that has not lost power. *)
Sound ==
    /\ \A d \in Digests : cas[d] \in {"absent", "whole"}
    /\ \A a \in Actions : ac[a] \in {"absent", "entry"}
    /\ \A a \in Actions : ac[a] = "entry" => \A d \in Outputs[a] : cas[d] = "whole"
    /\ \A p \in Procs : Relies(p)

BlobsKept == \A d \in Digests : cas[d] = "whole" => cas'[d] = "whole"

(* No step takes a blob away, and each leaves whole blobs or none. *)
LEMMA StepKeepsBlobs ==
    ASSUME TInv, Sound, NEW p \in Procs, Step(p) \/ PutFails(p) \/ GetFails(p) \/ Crash(p)
    PROVE  /\ BlobsKept
           /\ \A d \in Digests : cas'[d] \in {"absent", "whole"}
<1>1. CASE PutRename(p)
    BY <1>1 DEF PutRename, TInv, TypeOK, Staged, Sound, BlobsKept
<1>2. CASE CasEvict(p)
    BY <1>2 DEF CasEvict, Sound, Relies
<1>3. CASE UNCHANGED cas
    BY <1>3 DEF Sound, BlobsKept
<1>4. PutRename(p) \/ CasEvict(p) \/ UNCHANGED cas
    BY DEF Step, Start, AcGet, AcStat, AcEvict, CasGet, Filename, OpenFile, Compute, PutStat,
           CreateTemp, WriteTemp, AcPut, AcRename, Exit, PutFails, GetFails, Crash, disk
<1> QED BY <1>1, <1>2, <1>3, <1>4

(* What a process relies on is not taken from it by another's step. *)
LEMMA OthersRely ==
    ASSUME TInv, Sound, BlobsKept, NEW q \in Procs,
           pc'[q] = pc[q], todo'[q] = todo[q], cur'[q] = cur[q]
    PROVE  Relies(q)'
<1>1. cur[q] \in Digests /\ Outputs[Work[q]] \subseteq Digests
    BY OutputsAssumption, WorkAssumption DEF TInv, TypeOK
<1>2. Relies(q)
    BY DEF Sound
<1> QED BY <1>1, <1>2 DEF Relies, BlobsKept

(* A step that leaves the action entries alone, or removes one. *)
LEMMA SoundFromRelies ==
    ASSUME TInv, Sound, NEW p \in Procs,
           Step(p) \/ PutFails(p) \/ GetFails(p) \/ Crash(p),
           \A a \in Actions : ac'[a] \in {ac[a], "absent"},
           \A q \in Procs \ {p} : pc'[q] = pc[q] /\ todo'[q] = todo[q] /\ cur'[q] = cur[q],
           Relies(p)'
    PROVE  Sound'
<1>1. BlobsKept /\ \A d \in Digests : cas'[d] \in {"absent", "whole"}
    BY StepKeepsBlobs
<1>2. \A q \in Procs : Relies(q)'
    BY <1>1, OthersRely
<1>3. \A a \in Actions : Outputs[a] \subseteq Digests
    BY OutputsAssumption
<1>4. \A a \in Actions : ac'[a] \in {"absent", "entry"}
    BY DEF Sound
<1>5. \A a \in Actions : ac'[a] = "entry" => \A d \in Outputs[a] : cas'[d] = "whole"
    BY <1>1, <1>3 DEF Sound, BlobsKept
<1> QED BY <1>1, <1>2, <1>4, <1>5 DEF Sound

(* Sound is preserved by every step of a run. *)
LEMMA StepSound ==
    ASSUME TInv, Sound, NEW p \in Procs, Step(p)
    PROVE  Sound'
<1>0. Relies(p) /\ Work[p] \in Actions /\ Outputs[Work[p]] \subseteq Digests
    BY OutputsAssumption, WorkAssumption DEF Sound
<1>1. CASE Start(p)
    BY <1>0, <1>1, SoundFromRelies
    DEF Start, Visit, Goto, disk, TInv, TypeOK, Relies, Storing, Recording
<1>2. CASE AcGet(p)
    BY <1>0, <1>2, SoundFromRelies
    DEF AcGet, Visit, Goto, disk, TInv, TypeOK, Relies, Storing, Recording, Sound
<1>3. CASE AcStat(p)
    BY <1>0, <1>3, SoundFromRelies
    DEF AcStat, Visit, Goto, disk, TInv, TypeOK, Relies, Storing, Recording
<1>4. CASE AcEvict(p)
    BY <1>0, <1>4, SoundFromRelies
    DEF AcEvict, Goto, disk, TInv, TypeOK, Relies, Storing, Recording
<1>5. CASE CasGet(p)
  <2>1. PICK d \in todo[p] :
          /\ cur' = [cur EXCEPT ![p] = d]
          /\ todo' = [todo EXCEPT ![p] = @ \ {d}]
          /\ \/ pc' = [pc EXCEPT ![p] = "compute"]
             \/ pc' = [pc EXCEPT ![p] = "casEvict"] /\ cas[d] \in {"torn", "short"}
             \/ pc' = [pc EXCEPT ![p] = "done"]
             \/ UNCHANGED pc
      BY <1>5 DEF CasGet, Goto, TInv, TypeOK, BlobState
  <2>2. pc[p] = "casGet" /\ UNCHANGED <<cas, ac>>
      BY <1>5 DEF CasGet, disk
  <2>3. cas[d] \in {"absent", "whole"}
      BY <2>1 DEF TInv, TypeOK, Sound
  <2>4. pc'[p] \in {"compute", "done", "casGet"}
      BY <2>1, <2>2, <2>3 DEF TInv, TypeOK
  <2>5. Relies(p)'
      BY <2>4 DEF Relies, Storing, Recording
  <2> QED BY <2>1, <2>2, <2>5, SoundFromRelies DEF TInv, TypeOK
<1>6. CASE CasEvict(p)
    BY <1>0, <1>6 DEF CasEvict, Relies
<1>7. CASE Filename(p)
    BY <1>0, <1>7, SoundFromRelies
    DEF Filename, Contains, Goto, disk, TInv, TypeOK, Relies, Storing, Recording, Sound
<1>8. CASE OpenFile(p)
    BY <1>0, <1>8, SoundFromRelies
    DEF OpenFile, Goto, disk, TInv, TypeOK, Relies, Storing, Recording
<1>9. CASE Compute(p)
    BY <1>0, <1>9, SoundFromRelies
    DEF Compute, Visit, Goto, disk, TInv, TypeOK, Relies, Storing, Recording
<1>10. CASE PutStat(p)
    BY <1>0, <1>10, SoundFromRelies
    DEF PutStat, Contains, Visit, Goto, disk, TInv, TypeOK, Relies, Storing, Recording, Sound
<1>11. CASE CreateTemp(p)
    BY <1>0, <1>11, SoundFromRelies
    DEF CreateTemp, Goto, disk, TInv, TypeOK, Relies, Storing, Recording
<1>12. CASE WriteTemp(p)
    BY <1>0, <1>12, SoundFromRelies
    DEF WriteTemp, Goto, disk, TInv, TypeOK, Relies, Storing, Recording
<1>13. CASE PutRename(p)
    BY <1>0, <1>13, SoundFromRelies
    DEF PutRename, Goto, TInv, TypeOK, Staged, Relies, Storing, Recording
<1>14. CASE AcPut(p)
    BY <1>0, <1>14, SoundFromRelies
    DEF AcPut, Goto, disk, TInv, TypeOK, Relies, Storing, Recording
<1>15. CASE AcRename(p)
    BY <1>0, <1>15, OthersRely
    DEF AcRename, Goto, TInv, TypeOK, Staged, Relies, Storing, Recording, Sound, BlobsKept
<1>16. CASE Exit(p)
    BY <1>0, <1>16, SoundFromRelies
    DEF Exit, Goto, disk, TInv, TypeOK, Relies, Storing, Recording
<1> QED BY <1>1, <1>2, <1>3, <1>4, <1>5, <1>6, <1>7, <1>8, <1>9, <1>10, <1>11, <1>12,
           <1>13, <1>14, <1>15, <1>16 DEF Step

(* Neither a failing call nor the death of a process breaks Sound. *)
LEMMA FaultSound ==
    ASSUME TInv, Sound, NEW p \in Procs, PutFails(p) \/ GetFails(p) \/ Crash(p)
    PROVE  Sound'
<1>1. CASE PutFails(p)
    BY <1>1, SoundFromRelies
    DEF PutFails, Goto, disk, TInv, TypeOK, Relies, Storing, Recording
<1>2. CASE GetFails(p)
    BY <1>2, SoundFromRelies
    DEF GetFails, Goto, disk, TInv, TypeOK, Relies, Storing, Recording
<1>3. CASE Crash(p)
    BY <1>3, SoundFromRelies
    DEF Crash, Goto, disk, TInv, TypeOK, Relies, Storing, Recording
<1> QED BY <1>1, <1>2, <1>3

(* The power is only ever lost in PowerLoss, and it stays lost. *)
LEMMA LostStays ==
    ASSUME NEW p \in Procs, Step(p) \/ PutFails(p) \/ GetFails(p) \/ Crash(p)
    PROVE  lost' = lost
BY DEF Step, Start, AcGet, AcStat, AcEvict, CasGet, CasEvict, Filename, OpenFile, Compute,
       PutStat, CreateTemp, WriteTemp, PutRename, AcPut, AcRename, Exit, PutFails, GetFails,
       Crash, fate

(* A run is given a torn catalog only if the machine has lost power. *)
LEMMA StepServes ==
    ASSUME TInv, ~lost => Sound, ServedIsWhole, NEW p \in Procs,
           Step(p) \/ PutFails(p) \/ GetFails(p) \/ Crash(p)
    PROVE  ServedIsWhole'
<1>1. lost' = lost
    BY LostStays
<1>2. CASE OpenFile(p)
  <2>1. pc[p] = "open" /\ ByName(p)
      BY <1>2 DEF OpenFile, TInv, Named
  <2>2. ~lost => cas[cur[p]] = "whole"
      BY <2>1 DEF Sound, Relies
  <2>3. got' = got \/ got' = [got EXCEPT ![p] = IF cas[cur[p]] = "whole" THEN "whole" ELSE "torn"]
      BY <1>2 DEF OpenFile, Answer
  <2> QED BY <1>1, <2>1, <2>2, <2>3 DEF ServedIsWhole, TInv, TypeOK, ByName
<1>3. CASE got' = got
    BY <1>1, <1>3 DEF ServedIsWhole, ByName
<1>4. CASE \E r \in {"none", "failed", "computed", "whole"} : got' = [got EXCEPT ![p] = r]
    BY <1>1, <1>4 DEF ServedIsWhole, TInv, TypeOK, ByName
<1>5. ASSUME ~OpenFile(p), ~CasGet(p)
      PROVE  \/ got' = got
             \/ \E r \in {"none", "failed", "computed", "whole"} : got' = [got EXCEPT ![p] = r]
    BY <1>5 DEF Step, Start, AcGet, AcStat, AcEvict, CasEvict, Filename, Compute,
           PutStat, CreateTemp, WriteTemp, PutRename, AcPut, AcRename, Exit, PutFails, GetFails,
           Crash, Answer
<1>6. ASSUME CasGet(p)
      PROVE  \/ got' = got
             \/ \E r \in {"none", "failed", "computed", "whole"} : got' = [got EXCEPT ![p] = r]
  <2>1. PICK d \in todo[p] :
          CASE cas[d] = "absent" -> Goto(p, "compute") /\ UNCHANGED got
            [] cas[d] \in {"torn", "short"} -> Goto(p, "casEvict") /\ UNCHANGED got
            [] cas[d] = "whole" /\ todo[p] = {d} -> Goto(p, "done") /\ Answer(p, "whole")
            [] cas[d] = "whole" /\ todo[p] # {d} -> UNCHANGED <<pc, got>>
      BY <1>6 DEF CasGet
  <2>2. cas[d] \in BlobState
      BY DEF TInv, TypeOK
  <2> QED BY <2>1, <2>2 DEF BlobState, Answer
<1> QED BY <1>2, <1>3, <1>4, <1>5, <1>6

(* The inductive invariant *)
IInv == TInv /\ (~lost => Sound) /\ ServedIsWhole

(* An empty cache satisfies the inductive invariant. *)
LEMMA InitIInv == Init => IInv
<1> SUFFICES ASSUME Init PROVE IInv
    OBVIOUS
<1>1. TInv
    BY InitTInv
<1>2. Sound /\ ServedIsWhole
    BY DEF Init, Sound, ServedIsWhole, Relies, Storing, Recording
<1> QED BY <1>1, <1>2 DEF IInv

(* Steps, failing calls, crashes and power losses keep the invariant. *)
LEMMA NextIInv == IInv /\ [Next]_vars => IInv'
<1> SUFFICES ASSUME IInv, [Next]_vars PROVE IInv'
    OBVIOUS
<1>1. TInv'
    BY NextTInv DEF IInv
<1>2. ASSUME NEW p \in Procs, Step(p) \/ PutFails(p) \/ GetFails(p) \/ Crash(p)
      PROVE  IInv'
    BY <1>1, <1>2, StepSound, FaultSound, LostStays, StepServes DEF IInv
<1>3. CASE PowerLoss
    BY <1>1, <1>3 DEF PowerLoss, IInv, ServedIsWhole
<1>4. CASE UNCHANGED vars
    BY <1>1, <1>4 DEF vars, IInv, Sound, ServedIsWhole, Relies, ByName
<1> QED BY <1>2, <1>3, <1>4 DEF Next

(* The inductive invariant holds in every reachable state. *)
LEMMA Inductive == Spec => []IInv
BY InitIInv, NextIInv, PTL DEF Spec

(* No interleaving, crash or failing call leaves a partial file in the     *)
(* cache unless the machine loses power (CAS.Put and ActionCache.Put).     *)
THEOREM NeverPartial == Spec => []NoPartialEntries
<1>1. IInv => NoPartialEntries
    BY DEF IInv, Sound, NoPartialEntries
<1> QED BY Inductive, <1>1, PTL

(* An action entry's outputs are all in the CAS (ActionCache.Put). *)
THEOREM AlwaysBacked == Spec => []EntryBacked
<1>1. IInv => EntryBacked
    BY DEF IInv, Sound, EntryBacked
<1> QED BY Inductive, <1>1, PTL

(* What a hit hands out is what was stored; the exception is a catalog on  *)
(* a machine that has lost power (CAS.Get, restore).                       *)
THEOREM HitsAreWhole == Spec => []ServedIsWhole
<1>1. IInv => ServedIsWhole
    BY DEF IInv
<1> QED BY Inductive, <1>1, PTL

(* CAS.Get evicts no blob that is whole, whoever raced with it. *)
THEOREM BlobsNeverLeave == Spec => BlobsStay
<1>1. IInv /\ [Next]_vars =>
          [\A d \in Digests : cas[d] = "whole" /\ ~lost' => cas'[d] = "whole"]_vars
  <2> SUFFICES ASSUME IInv, Next, NEW d \in Digests, cas[d] = "whole", ~lost'
               PROVE  cas'[d] = "whole"
      BY DEF vars
  <2>1. ASSUME NEW p \in Procs, Step(p) \/ PutFails(p) \/ GetFails(p) \/ Crash(p)
        PROVE  cas'[d] = "whole"
      BY <2>1, LostStays, StepKeepsBlobs DEF IInv, BlobsKept
  <2>2. CASE PowerLoss
      BY <2>2 DEF PowerLoss
  <2> QED BY <2>1, <2>2 DEF Next
<1> QED BY Inductive, <1>1, PTL DEF Spec, BlobsStay

=============================================================================
