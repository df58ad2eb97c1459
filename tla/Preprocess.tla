---- MODULE Preprocess ----
(***************************************************************************)
(* The preprocessor (internal/sql/preprocess): sqlc.arg(x), sqlc.narg(x),  *)
(* sqlc.slice(x), sqlc.embed(x) and @x are replaced by the placeholders of *)
(* the engine before its parser sees the query, and everything the         *)
(* compiler needs to know of them afterwards is kept beside the text:      *)
(* numbers, names and NULLs of the parameters (internal/sql/named), where  *)
(* each placeholder is, and how to get back to what the user wrote.        *)
(*                                                                         *)
(* A file is given by its occurrences, scanned one by one; the text        *)
(* between two of them is one character.  Names are one letter long, and   *)
(* the lengths of source and replacement are those of the real texts.      *)
(* Offsets count from 0, as in the code.                                   *)
(***************************************************************************)
EXTENDS Integers, SequencesExt

CONSTANTS
    Engines,     \* the dialects a file may be written in
    Names,       \* names of parameters
    Forms,       \* forms of occurrences the file may have
    MaxNumber,   \* the largest number a user writes in a placeholder
    MaxOccs,     \* occurrences in the file
    MaxStmts     \* statements in the file

ASSUME EnginesAssumption == Engines \subseteq {"postgresql", "duckdb", "mysql", "clickhouse", "sqlite"}
ASSUME NamesAssumption == "" \notin Names
ASSUME BoundsAssumption == MaxNumber \in Nat /\ MaxOccs \in Nat /\ MaxStmts \in Nat

VARIABLES
    engine,
    phase,     \* "scan", "number", "rewrite", "done"
    from,      \* the offset in the source where the statement starts
    occs,      \* the statement's occurrences
    at,        \* how many of them the present loop has handled
    named,     \* ParamSet.namedParams
    locs,      \* the first of each of ParamSet.namedLocs
    pos,       \* ParamSet.positionToName
    argn,      \* ParamSet.argn
    start,     \* Statement.Start
    numbers,   \* Statement.Numbers
    slices,    \* Statement.Slices
    embeds,    \* the locations of Statement.Embeds
    edits,     \* Result.edits
    stmts,     \* Result.stmts
    text       \* for each offset of Result.Text, the source offset it stands for

params == <<named, locs, pos, argn>>
tables == <<start, numbers, slices, embeds>>
vars == <<engine, phase, from, occs, at, named, locs, pos, argn,
          start, numbers, slices, embeds, edits, stmts, text>>

EmptyMap == [n \in {} |-> 0]
With(f, k, v) == [n \in DOMAIN f \cup {k} |-> IF n = k THEN v ELSE f[n]]

----------------------------------------------------------------------------
(* What can be written. *)

Style == [postgresql |-> "dollar", duckdb |-> "dollar", mysql |-> "question",
          clickhouse |-> "question", sqlite |-> "ordinal"]

(* MySQL and ClickHouse take an argument for each "?". *)
HasNamedSupport == Style[engine] # "question"

AtSign == engine \in {"postgresql", "duckdb", "sqlite"}
Question == engine # "postgresql"

(* Who writes numbers; scan would take ?1 from the others too, but MySQL    *)
(* and ClickHouse have no such placeholder and their parsers refuse it. *)
Explicit == engine \in {"postgresql", "duckdb", "sqlite"}
NoSlice == engine = "duckdb"

Construct(kind, name, number, explicit, len) ==
    [kind |-> kind, name |-> name, number |-> number, explicit |-> explicit, len |-> len]

(* The calls scan recognizes, with their lengths for a name of one letter;  *)
(* "at" is @x, and $x in DuckDB.  A call of kind "bad" is one that sqlcCall *)
(* reports an error for. *)
Calls ==
    {[form |-> "arg", kind |-> "arg", len |-> 11],
     [form |-> "at", kind |-> "arg", len |-> 2],
     [form |-> "narg", kind |-> "narg", len |-> 12],
     [form |-> "slice", kind |-> IF NoSlice THEN "bad" ELSE "slice", len |-> 13],
     [form |-> "embed", kind |-> "embed", len |-> 13],
     [form |-> "unknown", kind |-> "bad", len |-> 11]}

(* What may be written: a call with a name, $1 or ?1, and "?". *)
CallWritten(e) == e.form \in Forms /\ (e.form = "at" => AtSign)
NamedConstructs ==
    {Construct(d.kind, x, 0, FALSE, d.len) : d \in {e \in Calls : CallWritten(e)}, x \in Names}
NumberedConstructs ==
    IF Explicit /\ "numbered" \in Forms
    THEN {Construct("native", "", n, TRUE, 2) : n \in 0..MaxNumber} ELSE {}
AnonymousConstructs ==
    IF Question /\ "anonymous" \in Forms THEN {Construct("native", "", 0, FALSE, 1)} ELSE {}

Constructs == NamedConstructs \cup NumberedConstructs \cup AnonymousConstructs

EndOf(o) == o.start + o.len
Prev == IF at = 0 THEN from ELSE EndOf(occs[at])
ScanAt == IF occs = <<>> THEN from ELSE EndOf(occs[Len(occs)])
Bad(o) == o.kind = "bad"
Copied(a, b) == [k \in 1..(b - a) |-> a + k - 1]

----------------------------------------------------------------------------
(* named.Param: the bits of nullability are a set. *)

NewParam(o) == [null |-> IF o.kind = "narg" THEN {"nullable"} ELSE {},
                slice |-> o.kind = "slice"]
NewInferredParam(notNull) ==
    [null |-> {IF notNull THEN "inferredNotNull" ELSE "inferredNull"}, slice |-> FALSE]

(* Mutant: the later of the two wins. *)
MergeLast(a, b) == b

mergeParam(a, b) == [null |-> a.null \cup b.null, slice |-> a.slice \/ b.slice]

NotNull(p) ==
    /\ "nullable" \notin p.null
    /\ "inferredNotNull" \in p.null

(* FetchMerge for number n of statement s. *)
FetchMerge(s, n, inferred) ==
    IF n \notin DOMAIN s.pos \/ s.pos[n] = ""
    THEN [param |-> inferred, isNamed |-> FALSE]
    ELSE [param |-> mergeParam(s.named[s.pos[n]], inferred), isNamed |-> TRUE]

----------------------------------------------------------------------------
(* The actions. *)

Init ==
    /\ engine \in Engines
    /\ phase = "scan"
    /\ from = 0 /\ occs = <<>> /\ at = 0
    /\ named = EmptyMap /\ locs = EmptyMap /\ pos = EmptyMap /\ argn = 1
    /\ start = 0 /\ numbers = EmptyMap /\ slices = {} /\ embeds = {}
    /\ edits = <<>> /\ stmts = <<>> /\ text = <<>>

InFile == FoldLeft(LAMBDA n, s : n + Len(s.occs), Len(occs), stmts)

(* The lexer comes upon the next construct, one character after the last. *)
Scan(c) ==
    /\ phase = "scan"
    /\ Len(stmts) < MaxStmts
    /\ InFile < MaxOccs
    /\ occs' = Append(occs, [kind |-> c.kind, name |-> c.name, number |-> c.number,
                             explicit |-> c.explicit, len |-> c.len,
                             start |-> ScanAt + 1])
    /\ UNCHANGED <<engine, phase, from, at, params, tables, edits, stmts, text>>

(* validatePlaceholders. *)
Written(os) == {os[i].number : i \in {j \in DOMAIN os : os[j].kind = "native" /\ os[j].explicit}}
Unnumbered(os) == \E i \in DOMAIN os : os[i].kind = "native" /\ ~os[i].explicit
Mixed(os) == Written(os) # {} /\ Unnumbered(os)

(* Mutant: a gap is not seen. *)
GapIgnored(os) == FALSE

Gap(os) == \E n \in 1..Cardinality(Written(os)) : n \notin Written(os)
ParamErr(os) == Mixed(os) \/ Gap(os)
Dollar(os) == ~Mixed(os) /\ ~Unnumbered(os)

Statement(os, end, err) ==
    [start |-> start, end |-> end, occs |-> os, numbers |-> numbers, slices |-> slices,
     embeds |-> embeds, named |-> named, pos |-> pos, dollar |-> Dollar(os),
     paramErr |-> ParamErr(os), err |-> err]

(* What a new statement starts from. *)
Restart(end) ==
    /\ phase' = "scan"
    /\ from' = end
    /\ occs' = <<>> /\ at' = 0
    /\ named' = EmptyMap /\ locs' = EmptyMap /\ pos' = EmptyMap /\ argn' = 1
    /\ start' = Len(text') /\ numbers' = EmptyMap /\ slices' = {} /\ embeds' = {}

(* Mutant: the error keeps its place in the source. *)
ErrorAtSource == occs[SelectInSeq(occs, Bad)].start

(* Where the first error of the statement is, in the output. *)
ErrorAt == start + (occs[SelectInSeq(occs, Bad)].start - from)

(* A statement with an error is copied as it is. *)
Reject ==
    /\ phase = "scan"
    /\ SelectInSeq(occs, Bad) # 0
    /\ text' = text \o Copied(from, ScanAt + 1)
    /\ stmts' = Append(stmts, [Statement(occs, Len(text'), <<ErrorAt>>) EXCEPT
                                   !.dollar = TRUE, !.paramErr = FALSE])
    /\ Restart(ScanAt + 1)
    /\ UNCHANGED <<engine, edits>>

(* How many of the first i occurrences the user wrote as placeholders. *)
Count(i) == Cardinality({j \in 1..i : occs[j].kind = "native"})

(* number, first half: in a dialect with numbers those of the user are kept, *)
(* and are taken when the set of parameters is made (NewParamSet). *)
Begin ==
    /\ phase = "scan"
    /\ Len(stmts) < MaxStmts
    /\ SelectInSeq(occs, Bad) = 0
    /\ LET Given(i) == IF occs[i].explicit THEN occs[i].number ELSE Count(i)
           natives == {i \in DOMAIN occs : occs[i].kind = "native" /\ HasNamedSupport}
       IN /\ occs' = [i \in DOMAIN occs |->
                        IF i \in natives THEN [occs[i] EXCEPT !.number = Given(i)] ELSE occs[i]]
          /\ pos' = [n \in {Given(i) : i \in natives} |-> ""]
    /\ phase' = "number"
    /\ UNCHANGED <<engine, from, at, named, locs, argn, tables, edits, stmts, text>>

----------------------------------------------------------------------------
(* number, second half: ParamSet.Add for one occurrence after the other. *)

Next1 == occs[at + 1]
Adds(o) == o.kind # "embed" /\ (o.kind # "native" \/ ~HasNamedSupport)

SkipAdd ==
    /\ phase = "number" /\ at < Len(occs)
    /\ ~Adds(Next1)
    /\ at' = at + 1
    /\ UNCHANGED <<engine, phase, from, occs, params, tables, edits, stmts, text>>

Merged(o) == With(named, o.name,
                  IF o.name \in DOMAIN named THEN mergeParam(named[o.name], NewParam(o))
                                             ELSE NewParam(o))

(* A name that has a number keeps it. *)
AddAgain ==
    /\ phase = "number" /\ at < Len(occs)
    /\ Adds(Next1)
    /\ Next1.name \in DOMAIN named /\ HasNamedSupport
    /\ named' = Merged(Next1)
    /\ occs' = [occs EXCEPT ![at + 1].number = locs[Next1.name]]
    /\ at' = at + 1
    /\ UNCHANGED <<engine, phase, from, locs, pos, argn, tables, edits, stmts, text>>

(* Mutant: the numbers the user wrote are not looked at. *)
NextArgNumBlind(n) ==
    /\ n >= argn /\ n \notin {m \in DOMAIN pos : pos[m] # ""}
    /\ \A m \in argn..(n - 1) : m \in DOMAIN pos /\ pos[m] # ""

(* nextArgNum *)
NextArgNum(n) == n \notin DOMAIN pos /\ n >= argn /\ \A m \in argn..(n - 1) : m \in DOMAIN pos

Numbers == 0..(MaxOccs + MaxNumber + 1)

AddNew ==
    /\ phase = "number" /\ at < Len(occs)
    /\ Adds(Next1)
    /\ Next1.name \notin DOMAIN named \/ ~HasNamedSupport
    /\ named' = Merged(Next1)
    /\ \E n \in Numbers :
          /\ NextArgNum(n)
          /\ argn' = n
          /\ pos' = With(pos, n, Next1.name)
          /\ locs' = IF Next1.name \in DOMAIN locs THEN locs ELSE With(locs, Next1.name, n)
          /\ occs' = [occs EXCEPT ![at + 1].number = n]
    /\ at' = at + 1
    /\ UNCHANGED <<engine, phase, from, tables, edits, stmts, text>>

EndNumber ==
    /\ phase = "number" /\ at = Len(occs)
    /\ phase' = "rewrite"
    /\ at' = 0
    /\ UNCHANGED <<engine, from, occs, params, tables, edits, stmts, text>>

----------------------------------------------------------------------------
(* The rewriting. *)

Marked(o) == o.kind = "slice" /\ Style[engine] # "dollar"

(* Mutant: the marker is forgotten. *)
NoMarkerLen(o) == 0

(* sliceMarkerLen, for a name of one letter: "/*SLICE:x*/". *)
SliceMarkerLen(o) == IF Marked(o) THEN 11 ELSE 0

(* The replacement is the text that was there. *)
Kept(o) == o.kind = "native" /\ (o.explicit \/ Style[engine] # "dollar")

(* The length of the replacement: "x.*", "/*SLICE:x*/?", "?", "$1" or "?1". *)
ReplacementLen(o) ==
    IF o.kind = "embed" THEN 3
    ELSE IF Marked(o) THEN 12
    ELSE IF Style[engine] = "question" THEN 1
    ELSE 2

Replace ==
    LET o == Next1
        written == text \o Copied(Prev, o.start)
        newStart == Len(written)
        placed == newStart + SliceMarkerLen(o)
        replacement == IF Kept(o) THEN Copied(o.start, EndOf(o))
                       ELSE [k \in 1..ReplacementLen(o) |-> o.start]
    IN /\ phase = "rewrite" /\ at < Len(occs)
       /\ text' = written \o replacement
       /\ edits' = IF Kept(o) THEN edits
                   ELSE Append(edits, [oldStart |-> o.start, oldEnd |-> EndOf(o),
                                       newStart |-> newStart,
                                       newEnd |-> newStart + Len(replacement)])
       /\ numbers' = IF o.kind = "embed" THEN numbers ELSE With(numbers, placed, o.number)
       /\ slices' = IF o.kind = "slice" THEN slices \cup {placed} ELSE slices
       /\ embeds' = IF o.kind = "embed" THEN embeds \cup {newStart} ELSE embeds
       /\ at' = at + 1
       /\ UNCHANGED <<engine, phase, from, occs, params, start, stmts>>

EndStmt ==
    /\ phase = "rewrite" /\ at = Len(occs)
    /\ text' = text \o Copied(Prev, Prev + 1)
    /\ stmts' = Append(stmts, Statement(occs, Len(text'), <<>>))
    /\ Restart(Prev + 1)
    /\ UNCHANGED <<engine, edits>>

(* The rest of the file is white space: it is copied and is no statement. *)
Finish ==
    /\ phase = "scan" /\ occs = <<>>
    /\ text' = text \o Copied(from, from + 1)
    /\ phase' = "done"
    /\ UNCHANGED <<engine, from, occs, at, params, tables, edits, stmts>>

Next ==
    \/ \E c \in Constructs : Scan(c)
    \/ Reject
    \/ Begin
    \/ SkipAdd
    \/ AddAgain
    \/ AddNew
    \/ EndNumber
    \/ Replace
    \/ EndStmt
    \/ Finish

Spec == Init /\ [][Next]_vars

----------------------------------------------------------------------------
(* What the compiler asks of the result. *)

(* Mutant: an edit that ends where the location begins is not passed. *)
OriginShort(loc) ==
    LET Pass(s, e) ==
          IF s.found \/ loc < e.newStart THEN [found |-> TRUE, off |-> s.off]
          ELSE IF loc <= e.newEnd THEN [found |-> TRUE, off |-> e.oldStart]
          ELSE [found |-> FALSE,
                off |-> s.off + (e.oldEnd - e.oldStart) - (e.newEnd - e.newStart)]
        after[i \in 0..Len(edits)] ==
          IF i = 0 THEN [found |-> FALSE, off |-> loc] ELSE Pass(after[i - 1], edits[i])
    IN after[Len(edits)].off

(* Origin: the offset in the source of an offset in the output, from one   *)
(* edit to the next. *)
Origin(loc) ==
    LET Pass(s, e) ==
          IF s.found \/ loc < e.newStart THEN [found |-> TRUE, off |-> s.off]
          ELSE IF loc < e.newEnd THEN [found |-> TRUE, off |-> e.oldStart]
          ELSE [found |-> FALSE,
                off |-> s.off + (e.oldEnd - e.oldStart) - (e.newEnd - e.newStart)]
        after[i \in 0..Len(edits)] ==
          IF i = 0 THEN [found |-> FALSE, off |-> loc] ELSE Pass(after[i - 1], edits[i])
    IN after[Len(edits)].off

(* Result.Statement, as an index; 0 stands for the empty one it makes up. *)
StatementAt(loc) == SelectInSeq(stmts, LAMBDA s : loc < s.end)

----------------------------------------------------------------------------
(* Properties. *)

Offsets == 0..(Len(text) - 1)
Accepted == {s \in ToSet(stmts) : s.err = <<>>}
Placeholders(s) == {i \in DOMAIN s.occs : s.occs[i].kind # "embed"}

(* What makes two placeholders one argument: the name, or the number the   *)
(* user wrote; a "?" is always another one, and where names are not        *)
(* supported everything is. *)
Key(s, i) ==
    LET o == s.occs[i]
    IN IF ~HasNamedSupport \/ (o.kind = "native" /\ ~o.explicit) THEN <<"occurrence", i>>
       ELSE IF o.kind = "native" THEN <<"number", o.number>>
       ELSE <<"name", o.name>>

Apart(s) ==
    \A i, j \in Placeholders(s) :
        s.occs[i].number = s.occs[j].number <=> Key(s, i) = Key(s, j)

(* Two placeholders of a statement have one number exactly when the user   *)
(* meant one argument: names share numbers, and the numbers sqlc gives     *)
(* never meet those the user wrote. *)
NumbersApart ==
    \A s \in {t \in Accepted : ~t.paramErr} : Apart(s)

(* The numbers of a statement are 1, 2, ... without a gap, which is what   *)
(* lets generated code pass its arguments in a list. *)
NoGaps ==
    \A s \in {t \in Accepted : ~t.paramErr} :
        LET used == {s.occs[i].number : i \in Placeholders(s)}
        IN used = 1..Cardinality(used)

(* One sqlc.narg makes every use of the name nullable, wherever it is      *)
(* written, and without one the inference decides. *)
NargDecides ==
    \A s \in Accepted : \A i \in Placeholders(s) : \A inferred \in BOOLEAN :
        LET o == s.occs[i]
            asked == \E j \in Placeholders(s) : s.occs[j].kind = "narg" /\ s.occs[j].name = o.name
        IN o.kind # "native" =>
               LET got == FetchMerge(s, o.number, NewInferredParam(inferred))
               IN got.isNamed /\ NotNull(got.param) = (inferred /\ ~asked)

(* Every offset of the output leads back to the source: a copied character *)
(* to itself, a replaced one to the construct it stands for. *)
MapsBack == \A loc \in Offsets : Origin(loc) = text[loc + 1]

(* Where the engine will find the placeholder of an occurrence: the "?"    *)
(* after the marker of a slice, or the first character of the replacement. *)
FoundAt(o) ==
    LET own == {loc \in Offsets : text[loc + 1] = o.start}
    IN IF Marked(o) THEN Max(own) ELSE Min(own)

(* renumberParams, validate.Slice and EmbedSet.Find look a node up by its  *)
(* location: each finds its own statement and what was recorded there. *)
FoundAgain ==
    \A k \in DOMAIN stmts : \A i \in DOMAIN stmts[k].occs :
        LET s == stmts[k]
            o == s.occs[i]
        IN s.err = <<>> =>
              /\ StatementAt(FoundAt(o)) = k
              /\ o.kind = "embed" <=> FoundAt(o) \in s.embeds
              /\ o.kind = "slice" <=> FoundAt(o) \in s.slices
              /\ o.kind # "embed" => FoundAt(o) \in DOMAIN s.numbers /\ s.numbers[FoundAt(o)] = o.number

(* The error of a statement is shown at its first bad construct, in its    *)
(* own statement, whatever was rewritten before it. *)
ErrorShown ==
    \A k \in DOMAIN stmts : stmts[k].err # <<>> =>
        /\ Origin(stmts[k].err[1]) = stmts[k].occs[SelectInSeq(stmts[k].occs, Bad)].start
        /\ StatementAt(stmts[k].err[1]) = k
====
