------------------------------ MODULE Generate ------------------------------
(***************************************************************************)
(* `sqlc generate`: processQuerySets runs one goroutine per output pair (a *)
(* query set and a backend) in an errgroup of limited size; the goroutines *)
(* share the generator's output map, guarded by a mutex, and the flag      *)
(* errored; each has a stderr buffer of its own.  When all have ended the  *)
(* main goroutine copies the buffers to stderr, or hands the output map to *)
(* genCmd, which writes the files.                                         *)
(*                                                                         *)
(* The backend of pair i answers with one of the sets of files in          *)
(* Responses[i], each file named by the path ProcessResult computes for it *)
(* (cleaned by filepath.Join, the routing of the models file included).  A *)
(* path is the sequence of its elements; Longer are the pairs of elements  *)
(* of which the first is the second with more characters at its end, such  *)
(* as gen2 and gen.  A file's contents are represented by the pair that    *)
(* made it, and 0 is what was on disk before.                              *)
(*                                                                         *)
(* errored is a plain bool written by several goroutines without a lock.   *)
(* All write the same value, and Wait orders the writes before the read.   *)
(***************************************************************************)
EXTENDS Naturals, Sequences, FiniteSets

CONSTANTS
    N,         \* the number of pairs, Len(Pairs(conf))
    Limit,     \* grp.SetLimit(GOMAXPROCS)
    Paths,     \* file paths
    Responses, \* the sets of files each pair's backend may answer with
    OutDir,    \* where a pair's file belongs: absout, or modelsAbsout for the
               \* models file of a pair that routes it
    Dotted,    \* path elements with ".." in them
    Longer     \* pairs of elements, the first longer than the second

ASSUME SizesAssumption == N \in Nat /\ Limit \in Nat \ {0}
ASSUME FilesAssumption == Responses \in [1 .. N -> SUBSET SUBSET Paths]

VARIABLES
    main,     \* where the main goroutine is
    next,     \* the pair it looks at: to start, or to copy the buffer of
    pc,       \* where each pair's goroutine is
    files,    \* the files of its backend's response
    todo,     \* those it has still to add to the map
    lock,     \* the holder of generator.m, or 0
    output,   \* generator.output; 0 where a path is not a key
    buf,      \* stderrs: what each pair complains of, "none" if of nothing
    errored,
    stderr,   \* the pairs whose buffers have been copied out, in order
    disk,     \* the files in the output directories
    status    \* how the program ends: "ok", "errored", or an I/O "error"

vars == <<main, next, pc, files, todo, lock, output, buf, errored, stderr, disk, status>>

pairs == <<pc, files, todo, lock, output, buf, errored>>
report == <<stderr, disk, status>>

Pairs == 1 .. N

Running == {i \in Pairs : pc[i] \notin {"new", "done"}}

Init ==
    /\ main = "go" /\ next = 1
    /\ pc = [i \in Pairs |-> "new"]
    /\ files = [i \in Pairs |-> {}]
    /\ todo = [i \in Pairs |-> {}]
    /\ lock = 0
    /\ output = [f \in Paths |-> 0]
    /\ buf = [i \in Pairs |-> "none"]
    /\ errored = FALSE
    /\ stderr = <<>>
    /\ disk = [f \in Paths |-> 0]
    /\ status = "none"

Goto(i, label) == pc' = [pc EXCEPT ![i] = label]

---------------------------------------------------------------------------
(* strings.HasPrefix of two paths: the last element of the directory may   *)
(* go on in the path. *)
HasPrefix(path, dir) ==
    LET n == Len(dir) IN
    /\ Len(path) >= n
    /\ \A k \in 1 .. n - 1 : path[k] = dir[k]
    /\ n > 0 => path[n] = dir[n] \/ <<path[n], dir[n]>> \in Longer

(* The two checks of ProcessResult. *)
Refused(i, f) ==
    \/ \E k \in DOMAIN f : f[k] \in Dotted
    \/ ~HasPrefix(f, OutDir[i][f])

(* grp.Go blocks while Limit goroutines are running. *)
Go ==
    /\ main = "go" /\ next <= N
    /\ Cardinality(Running) < Limit
    /\ Goto(next, "parse")
    /\ next' = next + 1
    /\ UNCHANGED <<main, files, todo, lock, output, buf, errored, report>>

(* Mutant: the flag is left alone. *)
FailUnflagged(i, complaint) ==
    /\ buf' = [buf EXCEPT ![i] = complaint]
    /\ Goto(i, "done")
    /\ UNCHANGED errored

(* The goroutine reports in its own buffer and ends. *)
Fail(i, complaint) ==
    /\ buf' = [buf EXCEPT ![i] = complaint]
    /\ errored' = TRUE
    /\ Goto(i, "done")

(* parse: the compiler, the schema and the queries. *)
Parse(i) ==
    /\ pc[i] = "parse"
    /\ \/ Goto(i, "codegen") /\ UNCHANGED <<buf, errored>>
       \/ Fail(i, "parse")
    /\ UNCHANGED <<main, next, files, todo, lock, output, report>>

(* ProcessResult: the backend's answer. *)
Codegen(i) ==
    /\ pc[i] = "codegen"
    /\ \/ /\ Goto(i, "lock")
          /\ \E response \in Responses[i] :
                /\ files' = [files EXCEPT ![i] = response]
                /\ todo' = [todo EXCEPT ![i] = response]
          /\ UNCHANGED <<buf, errored>>
       \/ Fail(i, "codegen") /\ UNCHANGED <<files, todo>>
    /\ UNCHANGED <<main, next, lock, output, report>>

Lock(i) ==
    /\ pc[i] = "lock" /\ lock = 0
    /\ lock' = i
    /\ Goto(i, "add")
    /\ UNCHANGED <<main, next, files, todo, output, buf, errored, report>>

(* Mutant: the models file ends the loop (a break for the continue). *)
AddStops(i) ==
    /\ pc[i] = "add"
    /\ \E f \in todo[i] : /\ ~Refused(i, f)
                          /\ output' = [output EXCEPT ![f] = i]
                          /\ todo' = [todo EXCEPT ![i] = {}]
    /\ UNCHANGED <<main, next, pc, files, lock, buf, errored, report>>

(* Add a file, in the order of a map's iteration.  The return for a path   *)
(* that is refused does not release the lock.                              *)
Add(i) ==
    /\ pc[i] = "add"
    /\ \E f \in todo[i] :
        \/ /\ ~Refused(i, f)
           /\ output' = [output EXCEPT ![f] = i]
           /\ todo' = [todo EXCEPT ![i] = @ \ {f}]
           /\ UNCHANGED <<pc, buf, errored>>
        \/ /\ Refused(i, f)
           /\ Fail(i, "path")
           /\ UNCHANGED <<output, todo>>
    /\ UNCHANGED <<main, next, files, lock, report>>

(* Mutant: the lock is not released. *)
UnlockForgotten(i) ==
    /\ pc[i] = "add" /\ todo[i] = {}
    /\ Goto(i, "done")
    /\ UNCHANGED <<main, next, files, todo, lock, output, buf, errored, report>>

Unlock(i) ==
    /\ pc[i] = "add" /\ todo[i] = {}
    /\ lock' = 0
    /\ Goto(i, "done")
    /\ UNCHANGED <<main, next, files, todo, output, buf, errored, report>>

---------------------------------------------------------------------------
(* grp.Wait, which returns nil for every goroutine does. *)
Wait ==
    /\ main = "go" /\ next > N
    /\ \A i \in Pairs : pc[i] = "done"
    /\ main' = IF errored THEN "copy" ELSE "write"
    /\ next' = 1
    /\ UNCHANGED <<pairs, report>>

Exit(code) == main' = "exit" /\ status' = code

(* Mutant: the first buffer with something in it is all that is copied. *)
CopyFirst ==
    /\ main = "copy" /\ next <= N
    /\ \/ /\ stderr' = IF buf[next] = "none" THEN stderr ELSE Append(stderr, next)
          /\ next' = IF buf[next] = "none" THEN next + 1 ELSE N + 1
          /\ UNCHANGED <<main, status>>
       \/ Exit("error") /\ UNCHANGED <<next, stderr>>
    /\ UNCHANGED <<pairs, disk>>

(* io.Copy of the next buffer, which may fail. *)
Copy ==
    /\ main = "copy" /\ next <= N
    /\ \/ /\ stderr' = IF buf[next] = "none" THEN stderr ELSE Append(stderr, next)
          /\ next' = next + 1
          /\ UNCHANGED <<main, status>>
       \/ Exit("error") /\ UNCHANGED <<next, stderr>>
    /\ UNCHANGED <<pairs, disk>>

(* Generate returns "errored", and genCmd exits with no output to write. *)
Errored ==
    /\ main = "copy" /\ next > N
    /\ Exit("errored")
    /\ UNCHANGED <<pairs, next, stderr, disk>>

Unwritten == {f \in Paths : output[f] # 0 /\ disk[f] # output[f]}

(* genCmd: os.WriteFile of the files one by one, of which any may fail. *)
WriteFile ==
    /\ main = "write"
    /\ \E f \in Unwritten :
        \/ disk' = [disk EXCEPT ![f] = output[f]] /\ UNCHANGED <<main, status>>
        \/ Exit("error") /\ UNCHANGED disk
    /\ UNCHANGED <<pairs, next, stderr>>

Success ==
    /\ main = "write" /\ Unwritten = {}
    /\ Exit("ok")
    /\ UNCHANGED <<pairs, next, stderr, disk>>

Pair(i) == Parse(i) \/ Codegen(i) \/ Lock(i) \/ Add(i) \/ Unlock(i)
Main == Go \/ Wait \/ Copy \/ Errored \/ WriteFile \/ Success

Next == Main \/ \E i \in Pairs : Pair(i)

Spec == Init /\ [][Next]_vars

(* The scheduler runs every goroutine that can run; parsing and the        *)
(* backends return.                                                        *)
FairSpec == Spec /\ WF_vars(Main) /\ \A i \in Pairs : WF_vars(Pair(i))

---------------------------------------------------------------------------
(* The state has the shape of the variables of processQuerySets. *)
TypeOK ==
    /\ main \in {"go", "copy", "write", "exit"}
    /\ next \in 1 .. N + 1
    /\ pc \in [Pairs -> {"new", "parse", "codegen", "lock", "add", "done"}]
    /\ files \in [Pairs -> SUBSET Paths]
    /\ todo \in [Pairs -> SUBSET Paths]
    /\ lock \in Pairs \cup {0}
    /\ output \in [Paths -> Pairs \cup {0}]
    /\ buf \in [Pairs -> {"none", "parse", "codegen", "path"}]
    /\ errored \in BOOLEAN
    /\ stderr \in Seq(Pairs)
    /\ disk \in [Paths -> Pairs \cup {0}]
    /\ status \in {"none", "ok", "errored", "error"}

(* No file is touched unless every pair has succeeded, whatever the others *)
(* had already put in the map when one failed.                             *)
AllOrNothing ==
    (\E f \in Paths : disk[f] # 0) => \A i \in Pairs : pc[i] = "done" /\ buf[i] = "none"

(* A run that ends well has written exactly the files of all the pairs,    *)
(* each with the contents one of its pairs gave it.                        *)
Complete ==
    status = "ok" => \A f \in Paths :
        /\ disk[f] # 0 => f \in files[disk[f]]
        /\ disk[f] = 0 => \A i \in Pairs : f \notin files[i]

(* A run that ends with "errored" has reported the failure of each pair    *)
(* that failed, and of no other, in the order of the configuration,        *)
(* whatever order they failed in.                                          *)
ReportedInOrder ==
    status = "errored" =>
        /\ {stderr[k] : k \in DOMAIN stderr} = {i \in Pairs : buf[i] # "none"}
        /\ \A k \in DOMAIN stderr, l \in DOMAIN stderr : k < l => stderr[k] < stderr[l]

(* The program ends: no goroutine waits for the lock, or for a place in    *)
(* the group, for ever.  The exception is the run in which a path was      *)
(* refused.                                                                *)
Terminates == <>(main = "exit" \/ \E i \in Pairs : buf[i] = "path")

(* The golden output of an unsafe path is "error generating code: invalid  *)
(* file output path": the refusal is reported.  See run generate_unsafe.   *)
RefusalReported == (\E i \in Pairs : buf[i] = "path") ~> (main = "exit")

=============================================================================
