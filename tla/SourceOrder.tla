---- MODULE SourceOrder ----
(***************************************************************************)
(* What Compiler.parseQueries promises of the statements of a query set:   *)
(* "queries and errors come out in source order however they were          *)
(* produced" (internal/compiler/compile.go).  Statements are analyzed in   *)
(* any order; the report is a function of their outcomes alone, made once  *)
(* they are all known: of every query name the first statement is kept, a  *)
(* later one is an error, and an authentication error ends the report.     *)
(***************************************************************************)
EXTENDS Naturals, Sequences

CONSTANTS
    M,         \* number of statements
    Outcome,   \* what each may come to: "skip", "error", "unauthenticated"
               \* or the name of its query
    Faulty     \* an analysis may also fail for want of the catalog

VARIABLES
    outcome,   \* of each statement, "none" while it is not known
    report     \* NoReport before there is one

NoReport == [status |-> "none", of |-> <<>>]
NoCatalog == [status |-> "no catalog", of |-> <<>>]
Problems == {"skip", "error", "unauthenticated"}

(* The statements the report accounts for: none past one that is not       *)
(* authenticated. *)
Reached == {i \in 1 .. M : \A j \in 1 .. i - 1 : outcome[j] # "unauthenticated"}

(* The first statement of each query name. *)
Kept ==
    {i \in Reached : /\ outcome[i] \notin Problems
                     /\ \A j \in 1 .. i - 1 : outcome[j] # outcome[i]}

Wrong == {i \in Reached \ Kept : outcome[i] # "skip"}

(* s lists the statements of S, each once, in source order. *)
InOrder(s, S) ==
    /\ s \in Seq(S)
    /\ \A i \in S : \E k \in 1 .. Len(s) : s[k] = i
    /\ \A k, l \in 1 .. Len(s) : k < l => s[k] < s[l]

(* What r may be: errors hide the queries, and a report of neither is an   *)
(* error as well. *)
IsReport(r) ==
    \/ Wrong # {} /\ r = [status |-> "errors", of |-> r.of] /\ InOrder(r.of, Wrong)
    \/ Wrong = {} /\ Kept = {} /\ r = [status |-> "no queries", of |-> <<>>]
    \/ /\ Wrong = {} /\ Kept # {}
       /\ r = [status |-> "queries", of |-> r.of] /\ InOrder(r.of, Kept)

Init == outcome = [i \in 1 .. M |-> "none"] /\ report = NoReport

(* A statement is analyzed: its outcome is one of its own. *)
Analyze(i) ==
    /\ report = NoReport /\ outcome[i] = "none"
    /\ \E o \in Outcome[i] \cup (IF Faulty THEN {"error"} ELSE {}) :
           outcome' = [outcome EXCEPT ![i] = o]
    /\ UNCHANGED report

Finish ==
    /\ report = NoReport
    /\ \A i \in 1 .. M : outcome[i] # "none"
    /\ IsReport(report')
    /\ UNCHANGED outcome

GiveUp ==
    /\ Faulty /\ report = NoReport
    /\ report' = NoCatalog
    /\ UNCHANGED outcome

Next == Finish \/ GiveUp \/ \E i \in 1 .. M : Analyze(i)

Spec == Init /\ [][Next]_<<outcome, report>>
====
