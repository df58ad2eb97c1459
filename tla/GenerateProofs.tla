---------------------------- MODULE GenerateProofs ----------------------------
(***************************************************************************)
(* Proofs about Generate, for any number of pairs, any limit and any       *)
(* responses of the backends.                                              *)
(***************************************************************************)
EXTENDS Generate, TLAPS

(* Type correctness *)

(* The state that processQuerySets sets up has its type. *)
LEMMA InitTypeOK == Init => TypeOK
<1> SUFFICES ASSUME Init PROVE TypeOK
    OBVIOUS
<1>1. next \in 1 .. N + 1
    BY SizesAssumption DEF Init
<1>2. stderr \in Seq(Pairs)
    BY DEF Init
<1> QED BY <1>1, <1>2 DEF Init, TypeOK

(* Every step of the main goroutine and of a pair keeps the types. *)
LEMMA NextTypeOK == TypeOK /\ [Next]_vars => TypeOK'
<1> SUFFICES ASSUME TypeOK, [Next]_vars PROVE TypeOK'
    OBVIOUS
<1> USE DEF TypeOK, Goto, Fail, Exit, pairs, report
<1>1. CASE Go
  <2>1. next \in Pairs /\ next' \in 1 .. N + 1
      BY <1>1, SizesAssumption DEF Go, Pairs
  <2> QED BY <1>1, <2>1 DEF Go
<1>2. CASE Wait
  <2>1. next' \in 1 .. N + 1
      BY <1>2, SizesAssumption DEF Wait
  <2> QED BY <1>2, <2>1 DEF Wait
<1>3. CASE Copy
  <2>1. next \in Pairs /\ next' \in 1 .. N + 1
      BY <1>3, SizesAssumption DEF Copy, Pairs
  <2>2. stderr' \in Seq(Pairs)
      BY <1>3, <2>1, SMTT(30) DEF Copy
  <2> QED BY <1>3, <2>1, <2>2 DEF Copy
<1>4. CASE Errored    BY <1>4 DEF Errored
<1>5. CASE WriteFile  BY <1>5 DEF WriteFile, Unwritten
<1>6. CASE Success    BY <1>6 DEF Success
<1>7. ASSUME NEW i \in Pairs, Pair(i) PROVE TypeOK'
  <2>1. CASE Parse(i)   BY <2>1 DEF Parse
  <2>2. CASE Codegen(i)
    <3>1. Responses[i] \subseteq SUBSET Paths
        BY FilesAssumption DEF Pairs
    <3>2. UNCHANGED <<main, next, lock, output, stderr, disk, status>>
        BY <2>2 DEF Codegen
    <3>3. CASE Fail(i, "codegen") /\ UNCHANGED <<files, todo>>
        BY <3>2, <3>3
    <3>4. ASSUME NEW response \in Responses[i], Goto(i, "lock"), UNCHANGED <<buf, errored>>,
                 files' = [files EXCEPT ![i] = response],
                 todo' = [todo EXCEPT ![i] = response]
          PROVE  TypeOK'
        BY <3>1, <3>2, <3>4
    <3> QED BY <2>2, <3>3, <3>4 DEF Codegen
  <2>3. CASE Lock(i)    BY <2>3 DEF Lock
  <2>4. CASE Add(i)
    <3>1. PICK f \in todo[i] :
            \/ /\ output' = [output EXCEPT ![f] = i]
               /\ todo' = [todo EXCEPT ![i] = @ \ {f}]
               /\ UNCHANGED <<pc, buf, errored>>
            \/ Fail(i, "path") /\ UNCHANGED <<output, todo>>
        BY <2>4 DEF Add
    <3>2. UNCHANGED <<main, next, files, lock, stderr, disk, status>>
        BY <2>4 DEF Add
    <3>3. CASE Fail(i, "path") /\ UNCHANGED <<output, todo>>
        BY <3>2, <3>3
    <3>4. CASE /\ output' = [output EXCEPT ![f] = i]
               /\ todo' = [todo EXCEPT ![i] = @ \ {f}]
               /\ UNCHANGED <<pc, buf, errored>>
        BY <3>2, <3>4
    <3> QED BY <3>1, <3>3, <3>4
  <2>5. CASE Unlock(i)  BY <2>5 DEF Unlock
  <2> QED BY <1>7, <2>1, <2>2, <2>3, <2>4, <2>5 DEF Pair
<1>8. CASE UNCHANGED vars BY <1>8 DEF vars
<1> QED BY <1>1, <1>2, <1>3, <1>4, <1>5, <1>6, <1>7, <1>8 DEF Next, Main

(* The variables of a run of processQuerySets are well typed. *)
THEOREM TypeCorrect == Spec => []TypeOK
BY InitTypeOK, NextTypeOK, PTL DEF Spec

---------------------------------------------------------------------------
(* The flag and the barrier *)

(* errored is set by whoever complains, and main passes Wait only when     *)
(* everybody has ended; it goes on to write only when nobody complained.   *)
Barrier ==
    /\ \A i \in Pairs : buf[i] # "none" => errored /\ pc[i] = "done"
    /\ main = "go" => \A i \in Pairs : i >= next => pc[i] = "new"
    /\ main # "go" => \A i \in Pairs : pc[i] = "done"
    /\ main = "write" \/ status = "ok" => ~errored
    /\ main = "go" => status = "none"
    /\ main \in {"go", "copy"} => \A f \in Paths : disk[f] = 0
    /\ \A f \in Paths : disk[f] # 0 => ~errored

(* What is written is what the map holds. *)
Written == \A f \in Paths : disk[f] \in {0, output[f]}

BInv == TypeOK /\ Barrier /\ Written

(* Nothing is started, collected or written at the beginning. *)
LEMMA InitBInv == Init => BInv
<1> SUFFICES ASSUME Init PROVE BInv
    OBVIOUS
<1>1. TypeOK
    BY InitTypeOK
<1>2. Barrier /\ Written
    BY FilesAssumption DEF Init, Barrier, Written
<1> QED BY <1>1, <1>2 DEF BInv

(* No step lets the main goroutine past Wait too early. *)
LEMMA NextBInv == BInv /\ [Next]_vars => BInv'
<1> SUFFICES ASSUME BInv, [Next]_vars PROVE BInv'
    OBVIOUS
<1>0. TypeOK'
    BY NextTypeOK DEF BInv
<1> USE FilesAssumption DEF BInv, Barrier, Written, TypeOK, Goto, Fail, Exit, pairs, report
<1>1. CASE Go
  <2>1. next \in Pairs
      BY <1>1, SizesAssumption DEF Go, Pairs
  <2>2. \A i \in Pairs : i >= next + 1 => i >= next /\ i # next
      BY SizesAssumption DEF Pairs
  <2>3. pc[next] = "new" /\ buf[next] = "none"
      BY <1>1, <2>1, SizesAssumption DEF Go, Pairs
  <2> QED BY <1>0, <1>1, <2>1, <2>2, <2>3 DEF Go
<1>2. CASE Wait       BY <1>0, <1>2 DEF Wait
<1>3. CASE Copy       BY <1>0, <1>3 DEF Copy
<1>4. CASE Errored    BY <1>0, <1>4 DEF Errored
<1>5. CASE WriteFile  BY <1>0, <1>5 DEF WriteFile, Unwritten
<1>6. CASE Success    BY <1>0, <1>6 DEF Success
<1>7. ASSUME NEW i \in Pairs, Pair(i) PROVE BInv'
  <2>0. pc[i] # "done" /\ main = "go"
      BY <1>7 DEF Pair, Parse, Codegen, Lock, Add, Unlock
  <2>1. CASE Parse(i)   BY <1>0, <2>0, <2>1 DEF Parse
  <2>2. CASE Codegen(i) BY <1>0, <2>0, <2>2 DEF Codegen
  <2>3. CASE Lock(i)    BY <1>0, <2>0, <2>3 DEF Lock
  <2>4. CASE Add(i)
    <3>1. PICK f \in todo[i] :
            \/ /\ output' = [output EXCEPT ![f] = i]
               /\ UNCHANGED <<pc, buf, errored>>
            \/ Fail(i, "path") /\ UNCHANGED output
        BY <2>4 DEF Add
    <3>2. UNCHANGED <<main, next, disk, status>>
        BY <2>4 DEF Add
    <3>3. \A g \in Paths : disk[g] = 0
        BY <2>0
    <3>4. CASE Fail(i, "path") /\ UNCHANGED output
        BY <1>0, <2>0, <2>4, <3>2, <3>3, <3>4 DEF Add
    <3>5. CASE /\ output' = [output EXCEPT ![f] = i]
               /\ UNCHANGED <<pc, buf, errored>>
        BY <1>0, <2>0, <3>2, <3>3, <3>5
    <3> QED BY <3>1, <3>4, <3>5
  <2>5. CASE Unlock(i)  BY <1>0, <2>0, <2>5 DEF Unlock
  <2> QED BY <1>7, <2>1, <2>2, <2>3, <2>4, <2>5 DEF Pair
<1>8. CASE UNCHANGED vars BY <1>0, <1>8 DEF vars
<1> QED BY <1>1, <1>2, <1>3, <1>4, <1>5, <1>6, <1>7, <1>8 DEF Next, Main

(* The barrier holds in every reachable state. *)
LEMMA BInductive == Spec => []BInv
BY InitBInv, NextBInv, PTL DEF Spec

(* genCmd touches no file unless every pair has succeeded. *)
THEOREM NothingHalfDone == Spec => []AllOrNothing
<1>1. BInv => AllOrNothing
    BY DEF BInv, Barrier, AllOrNothing, TypeOK
<1> QED BY BInductive, <1>1, PTL

---------------------------------------------------------------------------
(* Completeness of the output *)

(* What is in the map came with a response, and what came with the         *)
(* response of a pair that has ended well is in the map.                   *)
Collected ==
    /\ \A f \in Paths : output[f] # 0 => f \in files[output[f]]
    /\ \A i \in Pairs : pc[i] \in {"new", "parse", "codegen"} => files[i] = {}
    /\ \A i \in Pairs : todo[i] \subseteq files[i]
    /\ \A i \in Pairs : buf[i] = "none" => \A f \in files[i] \ todo[i] : output[f] # 0
    /\ \A i \in Pairs : pc[i] = "done" /\ buf[i] = "none" => todo[i] = {}
    /\ status = "ok" => main = "exit" /\ \A f \in Paths : output[f] # 0 => disk[f] = output[f]

(* The map and the lists of files are empty at the beginning. *)
LEMMA InitCollected == Init => Collected
BY DEF Init, Collected

(* Every step accounts for the files of the pairs. *)
LEMMA NextCollected == BInv /\ Collected /\ [Next]_vars => Collected'
<1> SUFFICES ASSUME BInv, Collected, [Next]_vars PROVE Collected'
    OBVIOUS
<1>0. TypeOK /\ TypeOK' /\ Barrier /\ 0 \notin Pairs
    BY NextTypeOK, SizesAssumption DEF BInv, Pairs
<1> USE DEF Collected, TypeOK, Goto, Fail, Exit, pairs, report
<1>1. CASE Go
  <2>1. next \in Pairs /\ pc[next] = "new"
      BY <1>0, <1>1, SizesAssumption DEF Go, Pairs, Barrier
  <2> QED BY <1>0, <1>1, <2>1 DEF Go
<1>2. CASE Wait       BY <1>2 DEF Wait
<1>3. CASE Copy       BY <1>3 DEF Copy
<1>4. CASE Errored    BY <1>4 DEF Errored
<1>5. CASE WriteFile  BY <1>5 DEF WriteFile
<1>6. CASE Success    BY <1>0, <1>6 DEF Success, Unwritten
<1>7. ASSUME NEW i \in Pairs, Pair(i) PROVE Collected'
  <2>0. pc[i] # "done" /\ buf[i] = "none" /\ main = "go" /\ status = "none"
      BY <1>0, <1>7 DEF Pair, Parse, Codegen, Lock, Add, Unlock, Barrier
  <2>1. CASE Parse(i)   BY <1>0, <2>0, <2>1, SMTT(30) DEF Parse
  <2>2. CASE Codegen(i)
    <3>1. \A f \in Paths : output[f] # i
        BY <1>0, <2>2 DEF Codegen
    <3> QED BY <1>0, <2>0, <2>2, <3>1, SMTT(30) DEF Codegen
  <2>3. CASE Lock(i)    BY <1>0, <2>0, <2>3 DEF Lock
  <2>4. CASE Add(i)
    <3>1. PICK f \in todo[i] :
            \/ /\ output' = [output EXCEPT ![f] = i]
               /\ todo' = [todo EXCEPT ![i] = @ \ {f}]
               /\ UNCHANGED <<pc, buf>>
            \/ Fail(i, "path") /\ UNCHANGED <<output, todo>>
        BY <2>4 DEF Add
    <3>2. UNCHANGED <<main, files, status>>
        BY <2>4 DEF Add
    <3>3. CASE Fail(i, "path") /\ UNCHANGED <<output, todo>>
        BY <1>0, <2>0, <3>2, <3>3
    <3>4. CASE /\ output' = [output EXCEPT ![f] = i]
               /\ todo' = [todo EXCEPT ![i] = @ \ {f}]
               /\ UNCHANGED <<pc, buf>>
        BY <1>0, <2>0, <2>4, <3>2, <3>4 DEF Add
    <3> QED BY <3>1, <3>3, <3>4
  <2>5. CASE Unlock(i)  BY <1>0, <2>0, <2>5 DEF Unlock
  <2> QED BY <1>7, <2>1, <2>2, <2>3, <2>4, <2>5 DEF Pair
<1>8. CASE UNCHANGED vars BY <1>8 DEF vars
<1> QED BY <1>1, <1>2, <1>3, <1>4, <1>5, <1>6, <1>7, <1>8 DEF Next, Main

(* A run that ends well has written every file of every pair, and nothing  *)
(* else.                                                                   *)
THEOREM OutputComplete == Spec => []Complete
<1>1. BInv /\ Collected => Complete
    BY DEF BInv, Barrier, Written, Collected, Complete, TypeOK
<1> QED BY BInductive, InitCollected, NextCollected, <1>1, PTL DEF Spec

---------------------------------------------------------------------------
(* The report *)

(* The buffers of the pairs before n that complained have been copied. *)
Copied(n) ==
    /\ \A k \in 1 .. Len(stderr) : stderr[k] < n /\ buf[stderr[k]] # "none"
    /\ \A i \in Pairs : i < n /\ buf[i] # "none" => \E k \in 1 .. Len(stderr) : stderr[k] = i

Reporting ==
    /\ \A k, l \in 1 .. Len(stderr) : k < l => stderr[k] < stderr[l]
    /\ main = "go" => stderr = <<>>
    /\ main = "copy" => Copied(next)
    /\ main \in {"go", "copy", "write"} => status = "none"
    /\ status = "errored" => Copied(N + 1)

(* Nothing is reported at the beginning. *)
LEMMA InitReporting == Init => Reporting
BY DEF Init, Reporting

(* Every step keeps the report complete and ordered up to next. *)
LEMMA NextReporting == BInv /\ Reporting /\ [Next]_vars => Reporting'
<1> SUFFICES ASSUME BInv, Reporting, [Next]_vars PROVE Reporting'
    OBVIOUS
<1>0. TypeOK /\ TypeOK' /\ Barrier
    BY NextTypeOK DEF BInv
<1> USE DEF Reporting, Exit, pairs, report
<1>1. CASE Go         BY <1>1 DEF Go
<1>2. CASE Wait
  <2>1. stderr' = <<>> /\ next' = 1 /\ \A i \in Pairs : ~(i < 1)
      BY <1>2, SizesAssumption DEF Wait, Pairs
  <2> QED BY <1>2, <2>1 DEF Wait, Copied
<1>3. CASE Copy
  <2>1. next \in Pairs /\ stderr \in Seq(Pairs) /\ Pairs \subseteq Nat
      BY <1>0, <1>3, SizesAssumption DEF Copy, Pairs, TypeOK
  <2>2. Copied(next) /\ status = "none" /\ buf' = buf
      BY <1>3 DEF Copy
  <2>r. \A k \in 1 .. Len(stderr) : stderr[k] \in Pairs
      BY <2>1
  <2>n. \A i \in Pairs : (i < next + 1) <=> (i < next \/ i = next)
      BY <2>1
  <2>3. CASE main' = "exit"
      BY <1>3, <2>2, <2>3 DEF Copy
  <2>4. CASE main' # "exit" /\ buf[next] = "none"
    <3>1. stderr' = stderr /\ next' = next + 1 /\ status' = "none" /\ main' = "copy"
        BY <1>3, <2>2, <2>4 DEF Copy
    <3>2. Copied(next)'
        BY <2>1, <2>2, <2>r, <2>n, <2>4, <3>1 DEF Copied
    <3> QED BY <3>1, <3>2
  <2>5. CASE main' # "exit" /\ buf[next] # "none"
    <3>1. stderr' = Append(stderr, next) /\ next' = next + 1 /\ status' = "none" /\ main' = "copy"
        BY <1>3, <2>2, <2>5 DEF Copy
    <3>2. /\ Len(stderr') = Len(stderr) + 1
          /\ \A k \in 1 .. Len(stderr) : stderr'[k] = stderr[k]
          /\ stderr'[Len(stderr) + 1] = next
          /\ Len(stderr) \in Nat
        BY <2>1, <3>1
    <3>3. \A k \in 1 .. Len(stderr) + 1 : k = Len(stderr) + 1 \/ k \in 1 .. Len(stderr)
        BY <3>2
    <3>4. Copied(next)'
      <4>1. \A k \in 1 .. Len(stderr') : stderr'[k] < next + 1 /\ buf[stderr'[k]] # "none"
          BY <2>1, <2>2, <2>r, <2>n, <2>5, <3>2, <3>3 DEF Copied
      <4>2. ASSUME NEW i \in Pairs, i < next + 1, buf[i] # "none"
            PROVE  \E k \in 1 .. Len(stderr') : stderr'[k] = i
        <5>1. CASE i = next
            BY <3>2, <5>1
        <5>2. CASE i < next
          <6>1. PICK k \in 1 .. Len(stderr) : stderr[k] = i
              BY <2>2, <4>2, <5>2 DEF Copied
          <6>2. k \in 1 .. Len(stderr') /\ stderr'[k] = i
              BY <3>2, <6>1
          <6> QED BY <6>2
        <5> QED BY <2>n, <4>2, <5>1, <5>2
      <4> QED BY <2>2, <3>1, <4>1, <4>2 DEF Copied
    <3>5. \A k, l \in 1 .. Len(stderr') : k < l => stderr'[k] < stderr'[l]
        BY <2>1, <2>2, <2>r, <3>1, <3>2, <3>3 DEF Copied
    <3> QED BY <3>1, <3>4, <3>5
  <2> QED BY <2>3, <2>4, <2>5
<1>4. CASE Errored
  <2>1. next = N + 1
      BY <1>0, <1>4, SizesAssumption DEF Errored, TypeOK
  <2>2. Copied(N + 1)'
      BY <1>4, <2>1 DEF Errored, Copied
  <2> QED BY <1>4, <2>2 DEF Errored
<1>5. CASE WriteFile  BY <1>5 DEF WriteFile
<1>6. CASE Success    BY <1>6 DEF Success
<1>7. ASSUME NEW i \in Pairs, Pair(i) PROVE Reporting'
  <2>1. main = "go" /\ UNCHANGED <<main, next, stderr, status>>
      BY <1>0, <1>7 DEF Pair, Parse, Codegen, Lock, Add, Unlock, Barrier
  <2> QED BY <2>1
<1>8. CASE UNCHANGED vars BY <1>8 DEF vars, Copied
<1> QED BY <1>1, <1>2, <1>3, <1>4, <1>5, <1>6, <1>7, <1>8 DEF Next, Main

(* The failures are reported completely and in the order of the            *)
(* configuration, whatever order the goroutines ended in.                  *)
THEOREM ReportComplete == Spec => []ReportedInOrder
<1>1. BInv /\ Reporting => ReportedInOrder
  <2> SUFFICES ASSUME BInv, Reporting, status = "errored" PROVE ReportedInOrder
      BY DEF ReportedInOrder
  <2>1. stderr \in Seq(Pairs) /\ DOMAIN stderr = 1 .. Len(stderr)
      BY DEF BInv, TypeOK
  <2>2. \A i \in Pairs : i < N + 1
      BY SizesAssumption DEF Pairs
  <2>3. \A k \in 1 .. Len(stderr) : stderr[k] \in Pairs
      BY <2>1
  <2> QED BY <2>1, <2>2, <2>3 DEF Reporting, Copied, ReportedInOrder
<1> QED BY BInductive, InitReporting, NextReporting, <1>1, PTL DEF Spec

=============================================================================
