-------------------------- MODULE PreprocessProofs --------------------------
(***************************************************************************)
(* Proofs about the numbering of parameters, the way from an offset of the *)
(* output back to the source, and where errors and placeholders are found  *)
(* in the output, for any dialects, names, numbers a user writes, and      *)
(* lengths of statements and files.                                        *)
(***************************************************************************)
EXTENDS Preprocess, FiniteSetTheorems, TLAPS

Kinds == {"arg", "narg", "slice", "embed", "bad", "native"}

Occurrence == [kind : Kinds, name : Names \cup {""}, number : Nat, explicit : BOOLEAN,
               len : Nat, start : Int]

(* The types of what the argument reads. *)
Typed ==
    /\ engine \in Engines
    /\ occs \in Seq(Occurrence)
    /\ at \in 0..Len(occs)
    /\ DOMAIN pos \subseteq Nat
    /\ from \in Int
    /\ stmts \in Seq(ToSet(stmts))

IsNative(o) == o.kind = "native"
Anonymous(o) == IsNative(o) /\ ~o.explicit

(* What has a name is what the user did not write as a placeholder. *)
NamedOccs == \A i \in DOMAIN occs : IsNative(occs[i]) <=> occs[i].name = ""

(* The occurrences the numbering has passed. *)
Passed(i) == i \in DOMAIN occs /\ (phase = "rewrite" \/ i <= at)
Numbering == phase \in {"number", "rewrite"}

(* With named support the user's numbers have no name, and two of "?" are  *)
(* not one number. *)
NativesKept ==
    Numbering /\ HasNamedSupport =>
        /\ \A i \in DOMAIN occs : IsNative(occs[i]) =>
               occs[i].number \in DOMAIN pos /\ pos[occs[i].number] = ""
        /\ \A i, j \in DOMAIN occs : i # j /\ Anonymous(occs[i]) /\ Anonymous(occs[j]) =>
               occs[i].number # occs[j].number

(* A name has one number, and the number has that name. *)
NameHasNumber ==
    Numbering /\ HasNamedSupport =>
        /\ \A n \in DOMAIN named : n \in Names /\ n \in DOMAIN locs
                                   /\ locs[n] \in DOMAIN pos /\ pos[locs[n]] = n
        /\ DOMAIN locs = DOMAIN named
        /\ \A i \in DOMAIN occs : Passed(i) /\ Adds(occs[i]) =>
               occs[i].name \in DOMAIN named /\ occs[i].number = locs[occs[i].name]

(* Without it each placeholder has a number of its own. *)
EachItsOwn ==
    Numbering /\ ~HasNamedSupport =>
        /\ \A i \in DOMAIN occs : Passed(i) /\ Adds(occs[i]) => occs[i].number \in DOMAIN pos
        /\ \A i, j \in DOMAIN occs :
               Passed(i) /\ Passed(j) /\ Adds(occs[i]) /\ Adds(occs[j]) /\ i # j =>
                   occs[i].number # occs[j].number

(* A new statement starts with no names. *)
Fresh == phase = "scan" => named = EmptyMap /\ locs = EmptyMap /\ at = 0

NInv == Typed /\ NamedOccs /\ NativesKept /\ NameHasNumber /\ EachItsOwn /\ Fresh /\ NumbersApart
-----------------------------------------------------------------------------

(* Appending to a sequence adds one element to its set. *)
LEMMA AppendAdds ==
    ASSUME NEW s, s \in Seq(ToSet(s)), NEW e
    PROVE  /\ Append(s, e) \in Seq(ToSet(Append(s, e)))
           /\ ToSet(Append(s, e)) = ToSet(s) \cup {e}
<1>1. s \in Seq(ToSet(s) \cup {e})
  OBVIOUS
<1>2. ToSet(Append(s, e)) = ToSet(s) \cup {e}
  BY <1>1 DEF ToSet
<1>. QED
  BY <1>1, <1>2

(* Every construct the lexer finds is an occurrence without a place, and   *)
(* has a name unless the user wrote a placeholder. *)
LEMMA ConstructType ==
    ASSUME NEW c \in Constructs
    PROVE  /\ c.kind \in Kinds /\ c.name \in Names \cup {""} /\ c.number \in Nat
           /\ c.explicit \in BOOLEAN /\ c.len \in Nat
           /\ (c.kind = "native") <=> (c.name = "")
<1>1. CASE c \in NamedConstructs
  <2>1. PICK d \in Calls, x \in Names : c = Construct(d.kind, x, 0, FALSE, d.len)
    BY <1>1 DEF NamedConstructs, Construct
  <2>2. d.kind \in Kinds \ {"native"} /\ d.len \in Nat
    BY DEF Calls, Kinds
  <2>. QED
    BY <2>1, <2>2, NamesAssumption DEF Construct
<1>2. CASE c \in NumberedConstructs
  <2>1. PICK n \in 0..MaxNumber : c = Construct("native", "", n, TRUE, 2)
    BY <1>2 DEF NumberedConstructs
  <2>2. n \in Nat
    BY BoundsAssumption
  <2>. QED
    BY <2>1, <2>2 DEF Construct, Kinds
<1>3. CASE c \in AnonymousConstructs
  <2>1. c = Construct("native", "", 0, FALSE, 1)
    BY <1>3 DEF AnonymousConstructs
  <2>. QED
    BY <2>1 DEF Construct, Kinds
<1>. QED
  BY <1>1, <1>2, <1>3 DEF Constructs

(* Counting the user's placeholders up to each of them, no two come out    *)
(* the same. *)
LEMMA CountsApart ==
    ASSUME occs \in Seq(Occurrence),
           NEW i \in DOMAIN occs, NEW j \in DOMAIN occs, i < j, IsNative(occs[j])
    PROVE  Count(i) \in Nat /\ Count(j) \in Nat /\ Count(i) < Count(j)
<1>. DEFINE A == {k \in 1..i : occs[k].kind = "native"}
            B == {k \in 1..j : occs[k].kind = "native"}
<1>1. i \in Nat /\ j \in Nat
  OBVIOUS
<1>2. A \subseteq B /\ j \in B /\ j \notin A
  BY <1>1 DEF IsNative
<1>3. IsFiniteSet(B)
  <2>1. IsFiniteSet(1..j)
    BY <1>1, FS_Interval
  <2>. QED
    BY <2>1, FS_Subset, B \in SUBSET (1..j)
<1>4. IsFiniteSet(A) /\ Cardinality(A) <= Cardinality(B) /\ Cardinality(A) # Cardinality(B)
  BY <1>2, <1>3, FS_Subset
<1>5. Cardinality(A) \in Nat /\ Cardinality(B) \in Nat
  BY <1>3, <1>4, FS_CardinalityType
<1>. QED
  BY <1>4, <1>5 DEF Count

LEMMA CountType ==
    ASSUME occs \in Seq(Occurrence), NEW i \in DOMAIN occs
    PROVE  Count(i) \in Nat
<1>1. IsFiniteSet(1..i)
  BY FS_Interval
<1>2. IsFiniteSet({k \in 1..i : occs[k].kind = "native"})
  BY <1>1, FS_Subset
<1>. QED
  BY <1>2, FS_CardinalityType DEF Count

(* What is apart stays so: the dialect does not change. *)
LEMMA ApartStays ==
    ASSUME engine' = engine, NEW s, Apart(s)
    PROVE  Apart(s)'
<1>1. HasNamedSupport' <=> HasNamedSupport
  BY DEF HasNamedSupport
<1>2. \A i : Key(s, i)' = Key(s, i)
  BY <1>1 DEF Key
<1>3. Placeholders(s)' = Placeholders(s)
  BY DEF Placeholders
<1>. QED
  BY <1>2, <1>3 DEF Apart

(* A statement that is added has its numbers apart if it is accepted. *)
LEMMA ApartAdded ==
    ASSUME NumbersApart, engine' = engine, stmts \in Seq(ToSet(stmts)),
           NEW s, stmts' = Append(stmts, s), s.err = <<>> /\ ~s.paramErr => Apart(s)
    PROVE  NumbersApart'
<1>1. ToSet(stmts)' = ToSet(stmts) \cup {s}
  BY AppendAdds
<1>2. \A t : Apart(t) => Apart(t)'
  BY ApartStays
<1>. QED
  BY <1>1, <1>2 DEF NumbersApart, Accepted
-----------------------------------------------------------------------------

(* The dialect stays. *)
LEMMA AddsSame ==
    ASSUME engine' = engine
    PROVE  (HasNamedSupport' <=> HasNamedSupport) /\ \A o : Adds(o)' <=> Adds(o)
<1>1. HasNamedSupport' <=> HasNamedSupport
  BY DEF HasNamedSupport
<1>. QED
  BY <1>1 DEF Adds

LEMMA OccurrenceParts ==
    ASSUME NEW o \in Occurrence
    PROVE  /\ o.kind \in Kinds /\ o.name \in Names \cup {""} /\ o.number \in Nat
           /\ o.explicit \in BOOLEAN /\ o.len \in Nat /\ o.start \in Int
  BY Zenon DEF Occurrence

LEMMA ScanAtType ==
    ASSUME NInv
    PROVE  ScanAt \in Int
<1>1. CASE occs = <<>>
  BY <1>1 DEF NInv, Typed, ScanAt
<1>2. CASE occs # <<>>
  <2>1. occs[Len(occs)] \in Occurrence
    BY <1>2 DEF NInv, Typed
  <2>2. occs[Len(occs)].start \in Int /\ occs[Len(occs)].len \in Nat
    BY <2>1, OccurrenceParts, Zenon
  <2>. QED
    BY <1>2, <2>2 DEF ScanAt, EndOf
<1>. QED
  BY <1>1, <1>2

(* Nothing the numbering argument reads changes. *)
LEMMA Unread ==
    ASSUME NInv, UNCHANGED <<engine, phase, occs, at, named, locs, pos, argn, from, stmts>>
    PROVE  NInv'
<1>1. (Typed /\ NamedOccs /\ Fresh)'
  BY DEF NInv, Typed, NamedOccs, Fresh
<1>2. NativesKept'
  BY DEF NInv, NativesKept, Numbering, HasNamedSupport
<1>3. NameHasNumber'
  BY AddsSame DEF NInv, NameHasNumber, Numbering, Passed
<1>4. EachItsOwn'
  BY AddsSame DEF NInv, EachItsOwn, Numbering, Passed
<1>5. NumbersApart'
  BY ApartStays DEF NInv, NumbersApart, Accepted
<1>. QED
  BY <1>1, <1>2, <1>3, <1>4, <1>5 DEF NInv

LEMMA InitHolds == Init => NInv
<1>. SUFFICES ASSUME Init PROVE NInv
  OBVIOUS
<1>1. Typed
  BY DEF Init, Typed, ToSet
<1>2. NamedOccs /\ NativesKept /\ NameHasNumber /\ EachItsOwn /\ Fresh
  BY DEF Init, NamedOccs, NativesKept, NameHasNumber, EachItsOwn, Fresh, Numbering
<1>3. NumbersApart
  BY DEF Init, NumbersApart, Accepted, ToSet
<1>. QED
  BY <1>1, <1>2, <1>3 DEF NInv

LEMMA ScanHolds ==
    ASSUME NInv, NEW c \in Constructs, Scan(c)
    PROVE  NInv'
<1>. DEFINE o == [kind |-> c.kind, name |-> c.name, number |-> c.number,
                  explicit |-> c.explicit, len |-> c.len, start |-> ScanAt + 1]
<1>1. ScanAt + 1 \in Int
  BY ScanAtType
<1>2. o \in Occurrence
  <2>1. /\ c.kind \in Kinds /\ c.name \in Names \cup {""} /\ c.number \in Nat
        /\ c.explicit \in BOOLEAN /\ c.len \in Nat
    BY ConstructType
  <2>. QED
    BY <1>1, <2>1, Zenon DEF Occurrence
<1>3. occs' = Append(occs, o) /\ occs \in Seq(Occurrence) /\ phase = "scan" /\ phase' = "scan"
  BY DEF NInv, Typed, Scan
<1>4. Typed'
  <2>1. occs' \in Seq(Occurrence) /\ Len(occs') = Len(occs) + 1
    BY <1>2, <1>3
  <2>. QED
    BY <2>1 DEF NInv, Typed, Scan, params
<1>5. NamedOccs'
  <2>1. (o.kind = "native") <=> (o.name = "")
    BY ConstructType
  <2>2. \A i \in DOMAIN occs' : IF i \in DOMAIN occs THEN occs'[i] = occs[i] ELSE occs'[i] = o
    BY <1>2, <1>3
  <2>. QED
    BY <2>1, <2>2 DEF NInv, NamedOccs, IsNative
<1>6. (NativesKept /\ NameHasNumber /\ EachItsOwn)'
  BY <1>3 DEF NativesKept, NameHasNumber, EachItsOwn, Numbering
<1>7. Fresh'
  BY <1>3 DEF NInv, Fresh, Scan, params
<1>8. NumbersApart'
  BY ApartStays DEF NInv, NumbersApart, Accepted, Scan
<1>. QED
  BY <1>4, <1>5, <1>6, <1>7, <1>8 DEF NInv

(* A statement has been added and the next one begins. *)
LEMMA RestartHolds ==
    ASSUME NInv, NEW end \in Int, Restart(end), engine' = engine,
           NEW s, stmts' = Append(stmts, s), s.err = <<>> /\ ~s.paramErr => Apart(s)
    PROVE  NInv'
<1>1. Typed'
  <2>1. stmts' \in Seq(ToSet(stmts'))
    BY AppendAdds DEF NInv, Typed
  <2>. QED
    BY <2>1 DEF NInv, Typed, Restart, EmptyMap
<1>2. (NamedOccs /\ NativesKept /\ NameHasNumber /\ EachItsOwn /\ Fresh)'
  BY DEF Restart, NamedOccs, NativesKept, NameHasNumber, EachItsOwn, Fresh, Numbering
<1>3. NumbersApart'
  BY ApartAdded DEF NInv, Typed
<1>. QED
  BY <1>1, <1>2, <1>3 DEF NInv

LEMMA RejectHolds == NInv /\ Reject => NInv'
<1>. SUFFICES ASSUME NInv, Reject PROVE NInv'
  OBVIOUS
<1>. DEFINE s == [Statement(occs, Len(text'), <<ErrorAt>>) EXCEPT !.dollar = TRUE, !.paramErr = FALSE]
<1>1. s.err # <<>>
  BY DEF Statement
<1>2. ScanAt + 1 \in Int
  BY ScanAtType
<1>3. Restart(ScanAt + 1) /\ engine' = engine /\ stmts' = Append(stmts, s)
  BY DEF Reject
<1>. QED
  BY <1>1, <1>2, <1>3, RestartHolds

(* Giving an occurrence its number changes nothing else of it. *)
LEMMA SetNumber ==
    ASSUME NEW os \in Seq(Occurrence), NEW k \in DOMAIN os, NEW n \in Nat,
           NEW new, new = [os EXCEPT ![k].number = n]
    PROVE  /\ new \in Seq(Occurrence) /\ Len(new) = Len(os) /\ DOMAIN new = DOMAIN os
           /\ \A i \in DOMAIN os : i # k => new[i] = os[i]
           /\ new[k].number = n /\ new[k].kind = os[k].kind /\ new[k].name = os[k].name
           /\ new[k].explicit = os[k].explicit
           /\ new[k].start = os[k].start /\ new[k].len = os[k].len
<1>. DEFINE o == [os[k] EXCEPT !.number = n]
<1>1. os[k] \in Occurrence
  OBVIOUS
<1>2. o \in Occurrence
  BY <1>1, Zenon DEF Occurrence
<1>3. /\ o.number = n /\ o.kind = os[k].kind /\ o.name = os[k].name
      /\ o.explicit = os[k].explicit /\ o.start = os[k].start /\ o.len = os[k].len
  BY <1>1 DEF Occurrence
<1>4. new = [os EXCEPT ![k] = o]
  OBVIOUS
<1>. HIDE DEF o
<1>. QED
  BY <1>2, <1>3, <1>4

LEMMA BeginHolds == NInv /\ Begin => NInv'
<1>. SUFFICES ASSUME NInv, Begin PROVE NInv'
  OBVIOUS
<1>. DEFINE Given(i) == IF occs[i].explicit THEN occs[i].number ELSE Count(i)
            natives == {i \in DOMAIN occs : occs[i].kind = "native" /\ HasNamedSupport}
<1>1. /\ occs' = [i \in DOMAIN occs |->
                    IF i \in natives THEN [occs[i] EXCEPT !.number = Given(i)] ELSE occs[i]]
      /\ pos' = [n \in {Given(i) : i \in natives} |-> ""]
      /\ phase = "scan" /\ phase' = "number" /\ engine' = engine /\ at' = at /\ from' = from
      /\ named' = named /\ locs' = locs /\ stmts' = stmts
  BY DEF Begin
<1>2. occs \in Seq(Occurrence) /\ \A i \in DOMAIN occs : occs[i] \in Occurrence
  BY DEF NInv, Typed
<1>3. \A i \in DOMAIN occs : Given(i) \in Nat
  BY <1>2, CountType, OccurrenceParts
<1>4. \A i \in DOMAIN occs :
         /\ occs'[i] \in Occurrence
         /\ occs'[i].kind = occs[i].kind /\ occs'[i].name = occs[i].name
         /\ occs'[i].explicit = occs[i].explicit
         /\ occs'[i].number = IF i \in natives THEN Given(i) ELSE occs[i].number
  <2>1. TAKE i \in DOMAIN occs
  <2>2. CASE i \in natives
    <3>1. occs'[i] = [occs[i] EXCEPT !.number = Given(i)]
      BY <1>1, <2>2
    <3>2. Given(i) \in Nat /\ occs[i] \in Occurrence
      BY <1>2, <1>3
    <3>. HIDE DEF Given
    <3>3. [occs[i] EXCEPT !.number = Given(i)] \in Occurrence
      BY <3>2, Zenon DEF Occurrence
    <3>. QED
      BY <2>2, <3>1, <3>2, <3>3 DEF Occurrence
  <2>3. CASE i \notin natives
    BY <1>1, <1>2, <2>3
  <2>. QED
    BY <2>2, <2>3
<1>5. occs' \in Seq(Occurrence) /\ DOMAIN occs' = DOMAIN occs /\ Len(occs') = Len(occs)
  <2>1. DOMAIN occs = 1..Len(occs) /\ Len(occs) \in Nat
    BY <1>2
  <2>2. occs' = [i \in 1..Len(occs) |-> occs'[i]]
    BY <1>1, <2>1
  <2>. QED
    BY <1>4, <2>1, <2>2
<1>6. Typed'
  <2>1. DOMAIN pos' \subseteq Nat
    BY <1>1, <1>3
  <2>. QED
    BY <1>1, <1>5, <2>1 DEF NInv, Typed
<1>7. NamedOccs'
  BY <1>4, <1>5 DEF NInv, NamedOccs, IsNative
<1>8. NativesKept'
  <2>. SUFFICES ASSUME HasNamedSupport'
                PROVE  /\ \A i \in DOMAIN occs' : IsNative(occs'[i]) =>
                              occs'[i].number \in DOMAIN pos' /\ pos'[occs'[i].number] = ""
                       /\ \A i, j \in DOMAIN occs' :
                              i # j /\ Anonymous(occs'[i]) /\ Anonymous(occs'[j]) =>
                                  occs'[i].number # occs'[j].number
    BY DEF NativesKept
  <2>1. HasNamedSupport
    BY <1>1, AddsSame
  <2>2. ASSUME NEW i \in DOMAIN occs', IsNative(occs'[i])
        PROVE  i \in natives /\ occs'[i].number = Given(i)
    BY <1>4, <1>5, <2>1, <2>2 DEF IsNative
  <2>3. ASSUME NEW i \in DOMAIN occs', NEW j \in DOMAIN occs', i < j,
               Anonymous(occs'[i]), Anonymous(occs'[j])
        PROVE  occs'[i].number # occs'[j].number
    <3>1. Given(i) = Count(i) /\ Given(j) = Count(j) /\ IsNative(occs[j])
      BY <1>4, <1>5, <2>3 DEF Anonymous, IsNative
    <3>2. Count(i) # Count(j)
      BY <1>2, <1>5, <2>3, <3>1, CountsApart
    <3>. QED
      BY <2>2, <2>3, <3>1, <3>2 DEF Anonymous
  <2>4. \A i, j \in DOMAIN occs' : i # j => i < j \/ j < i
    BY <1>5
  <2>5. \A i \in DOMAIN occs' : IsNative(occs'[i]) =>
            occs'[i].number \in DOMAIN pos' /\ pos'[occs'[i].number] = ""
    <3>1. \A i \in natives : Given(i) \in DOMAIN pos' /\ pos'[Given(i)] = ""
      BY <1>1
    <3>2. \A i \in DOMAIN occs' : IsNative(occs'[i]) => i \in natives /\ occs'[i].number = Given(i)
      BY <2>2
    <3>. HIDE DEF Given, natives
    <3>. QED
      BY <3>1, <3>2
  <2>. QED
    BY <2>3, <2>4, <2>5
<1>9. at' = 0 /\ named' = EmptyMap /\ locs' = EmptyMap
  BY <1>1 DEF NInv, Fresh
<1>10. (NameHasNumber /\ EachItsOwn)'
  <2>1. \A i \in DOMAIN occs' : ~(Passed(i)')
    <3>1. DOMAIN occs' = 1..Len(occs') /\ Len(occs') \in Nat
      BY <1>5
    <3>2. phase' # "rewrite"
      BY <1>1
    <3>3. \A i \in 1..Len(occs') : ~(i <= 0)
      BY <3>1
    <3>. QED
      BY <1>9, <3>1, <3>2, <3>3 DEF Passed
  <2>. QED
    BY <2>1, <1>9 DEF NameHasNumber, EachItsOwn, EmptyMap
<1>11. Fresh'
  BY <1>1 DEF Fresh
<1>12. NumbersApart'
  BY <1>1, ApartStays DEF NInv, NumbersApart, Accepted
<1>. QED
  BY <1>6, <1>7, <1>8, <1>10, <1>11, <1>12 DEF NInv

LEMMA SkipAddHolds == NInv /\ SkipAdd => NInv'
<1>. SUFFICES ASSUME NInv, SkipAdd PROVE NInv'
  OBVIOUS
<1>1. /\ phase = "number" /\ at < Len(occs) /\ ~Adds(occs[at + 1]) /\ at' = at + 1
      /\ UNCHANGED <<engine, phase, from, occs, named, locs, pos, stmts>>
  BY DEF SkipAdd, Next1, params
<1>2. Typed'
  <2>1. at + 1 \in 0..Len(occs)
    BY <1>1 DEF NInv, Typed
  <2>. QED
    BY <1>1, <2>1 DEF NInv, Typed
<1>3. (NamedOccs /\ NativesKept /\ Fresh)'
  BY <1>1, AddsSame DEF NInv, NamedOccs, NativesKept, Numbering, Fresh
<1>4. \A i \in DOMAIN occs : Passed(i)' /\ Adds(occs[i]) => Passed(i)
  <2>1. \A i \in DOMAIN occs : i \in Nat /\ at \in Nat
    BY DEF NInv, Typed
  <2>. QED
    BY <1>1, <2>1 DEF Passed
<1>5. (NameHasNumber /\ EachItsOwn)'
  BY <1>1, <1>4, AddsSame DEF NInv, NameHasNumber, EachItsOwn, Numbering
<1>6. NumbersApart'
  BY <1>1, ApartStays DEF NInv, NumbersApart, Accepted
<1>. QED
  BY <1>2, <1>3, <1>5, <1>6 DEF NInv

(* The occurrence that is numbered next: k is its index and n its number. *)
LEMMA Numbered ==
    ASSUME NInv, phase = "number", at < Len(occs), Adds(occs[at + 1]),
           NEW n \in Nat, occs' = [occs EXCEPT ![at + 1].number = n],
           at' = at + 1, engine' = engine, phase' = phase
    PROVE  /\ at + 1 \in DOMAIN occs
           /\ occs' \in Seq(Occurrence) /\ Len(occs') = Len(occs) /\ DOMAIN occs' = DOMAIN occs
           /\ \A i \in DOMAIN occs : i # at + 1 => occs'[i] = occs[i]
           /\ occs'[at + 1].number = n
           /\ \A i \in DOMAIN occs : /\ occs'[i].kind = occs[i].kind
                                    /\ occs'[i].name = occs[i].name
                                    /\ occs'[i].explicit = occs[i].explicit
           /\ \A i \in DOMAIN occs : Adds(occs[i])' <=> Adds(occs[i])
           /\ \A i \in DOMAIN occs : Passed(i)' <=> Passed(i) \/ i = at + 1
           /\ HasNamedSupport => occs[at + 1].name \in Names /\ ~IsNative(occs[at + 1])
           /\ NamedOccs'
<1>1. at + 1 \in DOMAIN occs /\ at \in Nat /\ occs \in Seq(Occurrence)
  BY DEF NInv, Typed
<1>2. /\ occs' \in Seq(Occurrence) /\ Len(occs') = Len(occs) /\ DOMAIN occs' = DOMAIN occs
      /\ \A i \in DOMAIN occs : i # at + 1 => occs'[i] = occs[i]
      /\ occs'[at + 1].number = n
      /\ \A i \in DOMAIN occs : /\ occs'[i].kind = occs[i].kind
                               /\ occs'[i].name = occs[i].name
                               /\ occs'[i].explicit = occs[i].explicit
  BY <1>1, SetNumber
<1>3. \A i \in DOMAIN occs : Adds(occs[i])' <=> Adds(occs[i])
  BY <1>2, AddsSame DEF Adds
<1>4. \A i \in DOMAIN occs : Passed(i)' <=> Passed(i) \/ i = at + 1
  <2>1. \A i \in DOMAIN occs : i \in Nat
    BY <1>1
  <2>. QED
    BY <1>1, <1>2, <2>1 DEF Passed
<1>5. HasNamedSupport => occs[at + 1].name \in Names /\ ~IsNative(occs[at + 1])
  <2>1. occs[at + 1] \in Occurrence
    BY <1>1
  <2>2. occs[at + 1].name \in Names \cup {""}
    BY <2>1, OccurrenceParts, Zenon
  <2>. QED
    BY <1>1, <2>2 DEF NInv, NamedOccs, Adds, IsNative
<1>6. NamedOccs'
  <2>1. \A i \in DOMAIN occs : IsNative(occs[i]) <=> (occs[i].name = "")
    BY DEF NInv, NamedOccs
  <2>2. DOMAIN occs' = DOMAIN occs
        /\ \A i \in DOMAIN occs : occs'[i].kind = occs[i].kind /\ occs'[i].name = occs[i].name
    BY <1>2
  <2>3. ASSUME NEW i \in DOMAIN occs' PROVE IsNative(occs'[i]) <=> (occs'[i].name = "")
    <3>1. i \in DOMAIN occs /\ occs'[i].kind = occs[i].kind /\ occs'[i].name = occs[i].name
      BY <2>2
    <3>. QED
      BY <2>1, <3>1 DEF IsNative
  <2>. QED
    BY <2>3 DEF NamedOccs
<1>. QED
  BY <1>1, <1>2, <1>3, <1>4, <1>5, <1>6

LEMMA AddAgainHolds == NInv /\ AddAgain => NInv'
<1>. SUFFICES ASSUME NInv, AddAgain PROVE NInv'
  OBVIOUS
<1>. DEFINE k == at + 1
            x == occs[k].name
<1>1. /\ phase = "number" /\ at < Len(occs) /\ Adds(occs[k]) /\ x \in DOMAIN named
      /\ HasNamedSupport /\ at' = k /\ occs' = [occs EXCEPT ![k].number = locs[x]]
      /\ named' = Merged(occs[k])
      /\ UNCHANGED <<engine, phase, from, locs, pos, stmts>>
  BY DEF AddAgain, Next1
<1>2. /\ x \in DOMAIN locs /\ locs[x] \in DOMAIN pos /\ pos[locs[x]] = x /\ locs[x] \in Nat
      /\ DOMAIN named' = DOMAIN named
  BY <1>1 DEF NInv, NameHasNumber, Numbering, Typed, Merged, With
<1>3. /\ k \in DOMAIN occs
      /\ occs' \in Seq(Occurrence) /\ Len(occs') = Len(occs) /\ DOMAIN occs' = DOMAIN occs
      /\ \A i \in DOMAIN occs : i # k => occs'[i] = occs[i]
      /\ occs'[k].number = locs[x]
      /\ \A i \in DOMAIN occs : /\ occs'[i].kind = occs[i].kind
                               /\ occs'[i].name = occs[i].name
                               /\ occs'[i].explicit = occs[i].explicit
      /\ \A i \in DOMAIN occs : Adds(occs[i])' <=> Adds(occs[i])
      /\ \A i \in DOMAIN occs : Passed(i)' <=> Passed(i) \/ i = k
      /\ x \in Names /\ ~IsNative(occs[k])
      /\ NamedOccs'
  BY <1>1, <1>2, Numbered
<1>. HIDE DEF k
<1>4. Typed'
  BY <1>1, <1>3 DEF NInv, Typed, k
<1>5. NativesKept'
  <2>. SUFFICES ASSUME HasNamedSupport
                PROVE  /\ \A i \in DOMAIN occs' : IsNative(occs'[i]) =>
                              occs'[i].number \in DOMAIN pos' /\ pos'[occs'[i].number] = ""
                       /\ \A i, j \in DOMAIN occs' :
                              i # j /\ Anonymous(occs'[i]) /\ Anonymous(occs'[j]) =>
                                  occs'[i].number # occs'[j].number
    BY <1>1, <1>3, AddsSame DEF NativesKept
  <2>1. \A i \in DOMAIN occs' : IsNative(occs'[i]) => i # k /\ occs'[i] = occs[i]
    BY <1>1, <1>3 DEF IsNative
  <2>2. phase = "number" /\ pos' = pos /\ DOMAIN occs' = DOMAIN occs
    BY <1>1, <1>3
  <2>. QED
    BY <2>1, <2>2 DEF NInv, NativesKept, Numbering, Anonymous
<1>6. NameHasNumber'
  BY <1>1, <1>2, <1>3, AddsSame DEF NInv, NameHasNumber, Numbering
<1>7. EachItsOwn' /\ Fresh'
  BY <1>1, AddsSame DEF EachItsOwn, Fresh
<1>8. NumbersApart'
  BY <1>1, ApartStays DEF NInv, NumbersApart, Accepted
<1>. QED
  BY <1>3, <1>4, <1>5, <1>6, <1>7, <1>8 DEF NInv

LEMMA AddNewHolds == NInv /\ AddNew => NInv'
<1>. SUFFICES ASSUME NInv, AddNew PROVE NInv'
  OBVIOUS
<1>. DEFINE k == at + 1
            x == occs[k].name
<1>1. PICK n \in Numbers :
         /\ NextArgNum(n) /\ pos' = With(pos, n, x)
         /\ locs' = IF x \in DOMAIN locs THEN locs ELSE With(locs, x, n)
         /\ occs' = [occs EXCEPT ![k].number = n]
  BY DEF AddNew, Next1
<1>2. /\ phase = "number" /\ at < Len(occs) /\ Adds(occs[k])
      /\ x \notin DOMAIN named \/ ~HasNamedSupport
      /\ at' = k /\ named' = Merged(occs[k])
      /\ UNCHANGED <<engine, phase, from, stmts>>
  BY DEF AddNew, Next1
<1>3. n \in Nat /\ n \notin DOMAIN pos
  BY <1>1, BoundsAssumption DEF Numbers, NextArgNum
<1>4. /\ k \in DOMAIN occs
      /\ occs' \in Seq(Occurrence) /\ Len(occs') = Len(occs) /\ DOMAIN occs' = DOMAIN occs
      /\ \A i \in DOMAIN occs : i # k => occs'[i] = occs[i]
      /\ occs'[k].number = n
      /\ \A i \in DOMAIN occs : /\ occs'[i].kind = occs[i].kind
                               /\ occs'[i].name = occs[i].name
                               /\ occs'[i].explicit = occs[i].explicit
      /\ \A i \in DOMAIN occs : Adds(occs[i])' <=> Adds(occs[i])
      /\ \A i \in DOMAIN occs : Passed(i)' <=> Passed(i) \/ i = k
      /\ HasNamedSupport => x \in Names /\ ~IsNative(occs[k])
      /\ NamedOccs'
  BY <1>1, <1>2, <1>3, Numbered
<1>5. /\ DOMAIN pos' = DOMAIN pos \cup {n} /\ pos'[n] = x
      /\ \A m \in DOMAIN pos : pos'[m] = pos[m]
      /\ DOMAIN named' = DOMAIN named \cup {x}
  BY <1>1, <1>2, <1>3 DEF With, Merged
<1>. HIDE DEF k, x
<1>6. Typed'
  BY <1>2, <1>3, <1>4, <1>5 DEF NInv, Typed, k
<1>7. NativesKept'
  <2>. SUFFICES ASSUME HasNamedSupport
                PROVE  /\ \A i \in DOMAIN occs' : IsNative(occs'[i]) =>
                              occs'[i].number \in DOMAIN pos' /\ pos'[occs'[i].number] = ""
                       /\ \A i, j \in DOMAIN occs' :
                              i # j /\ Anonymous(occs'[i]) /\ Anonymous(occs'[j]) =>
                                  occs'[i].number # occs'[j].number
    BY <1>2, <1>3, <1>4, <1>5, AddsSame DEF NativesKept
  <2>1. \A i \in DOMAIN occs' : IsNative(occs'[i]) => i # k /\ occs'[i] = occs[i]
    BY <1>2, <1>3, <1>4, <1>5 DEF IsNative
  <2>2. /\ \A i \in DOMAIN occs : IsNative(occs[i]) =>
               occs[i].number \in DOMAIN pos /\ pos[occs[i].number] = ""
        /\ \A i, j \in DOMAIN occs : i # j /\ Anonymous(occs[i]) /\ Anonymous(occs[j]) =>
               occs[i].number # occs[j].number
    BY <1>2 DEF NInv, NativesKept, Numbering
  <2>3. \A i \in DOMAIN occs' : IsNative(occs'[i]) =>
           occs'[i].number \in DOMAIN pos' /\ pos'[occs'[i].number] = ""
    BY <1>4, <1>5, <2>1, <2>2
  <2>4. \A i, j \in DOMAIN occs' : i # j /\ Anonymous(occs'[i]) /\ Anonymous(occs'[j]) =>
           occs'[i].number # occs'[j].number
    BY <1>4, <2>1, <2>2 DEF Anonymous
  <2>. QED
    BY <2>3, <2>4
<1>8. NameHasNumber'
  <2>. SUFFICES ASSUME HasNamedSupport PROVE NameHasNumber'
    BY <1>2, AddsSame DEF NameHasNumber
  <2>1. /\ x \notin DOMAIN locs /\ DOMAIN locs' = DOMAIN locs \cup {x} /\ locs'[x] = n
        /\ \A y \in DOMAIN locs : locs'[y] = locs[y]
    BY <1>1, <1>2 DEF NInv, NameHasNumber, Numbering, With
  <2>2. \A y \in DOMAIN named' : y \in Names /\ y \in DOMAIN locs'
                                 /\ locs'[y] \in DOMAIN pos' /\ pos'[locs'[y]] = y
    BY <1>2, <1>3, <1>4, <1>5, <2>1 DEF NInv, NameHasNumber, Numbering
  <2>3. DOMAIN locs' = DOMAIN named'
    BY <1>2, <1>5, <2>1 DEF NInv, NameHasNumber, Numbering
  <2>4. \A i \in DOMAIN occs' : Passed(i)' /\ Adds(occs[i])' =>
           occs'[i].name \in DOMAIN named' /\ occs'[i].number = locs'[occs'[i].name]
    BY <1>2, <1>4, <1>5, <2>1 DEF NInv, NameHasNumber, Numbering, x
  <2>. QED
    BY <2>2, <2>3, <2>4 DEF NameHasNumber
<1>9. EachItsOwn'
  BY <1>2, <1>3, <1>4, <1>5, AddsSame DEF NInv, EachItsOwn, Numbering
<1>10. Fresh'
  BY <1>2 DEF Fresh
<1>11. NumbersApart'
  BY <1>2, ApartStays DEF NInv, NumbersApart, Accepted
<1>. QED
  BY <1>4, <1>6, <1>7, <1>8, <1>9, <1>10, <1>11 DEF NInv

LEMMA EndNumberHolds == NInv /\ EndNumber => NInv'
<1>. SUFFICES ASSUME NInv, EndNumber PROVE NInv'
  OBVIOUS
<1>1. /\ phase = "number" /\ at = Len(occs) /\ phase' = "rewrite" /\ at' = 0
      /\ UNCHANGED <<engine, from, occs, named, locs, pos, stmts>>
  BY DEF EndNumber, params
<1>2. Typed'
  <2>1. 0 \in 0..Len(occs)
    BY DEF NInv, Typed
  <2>. QED
    BY <1>1, <2>1 DEF NInv, Typed
<1>3. (NamedOccs /\ NativesKept /\ Fresh)'
  BY <1>1, AddsSame DEF NInv, NamedOccs, NativesKept, Numbering, Fresh
<1>4. \A i \in DOMAIN occs : Passed(i)
  <2>1. DOMAIN occs = 1..Len(occs) /\ Len(occs) \in Nat
    BY DEF NInv, Typed
  <2>. QED
    BY <1>1, <2>1 DEF Passed
<1>5. (NameHasNumber /\ EachItsOwn)'
  BY <1>1, <1>4, AddsSame DEF NInv, NameHasNumber, EachItsOwn, Numbering
<1>6. NumbersApart'
  BY <1>1, ApartStays DEF NInv, NumbersApart, Accepted
<1>. QED
  BY <1>2, <1>3, <1>5, <1>6 DEF NInv

(* When all are numbered, the numbers are apart. *)
LEMMA NumberedApart ==
    ASSUME NInv, phase = "rewrite", NEW s, s.occs = occs, ~ParamErr(occs)
    PROVE  Apart(s)
<1>. SUFFICES ASSUME NEW i \in Placeholders(s), NEW j \in Placeholders(s)
              PROVE  occs[i].number = occs[j].number <=> Key(s, i) = Key(s, j)
  BY DEF Apart
<1>1. /\ i \in DOMAIN occs /\ j \in DOMAIN occs
      /\ occs[i].kind # "embed" /\ occs[j].kind # "embed" /\ Passed(i) /\ Passed(j)
  BY DEF Placeholders, Passed
<1>2. CASE ~HasNamedSupport
  <2>1. Adds(occs[i]) /\ Adds(occs[j])
    BY <1>1, <1>2 DEF Adds
  <2>2. occs[i].number = occs[j].number <=> i = j
    BY <1>1, <1>2, <2>1 DEF NInv, EachItsOwn, Numbering
  <2>. QED
    BY <1>2, <2>2 DEF Key
<1>3. CASE HasNamedSupport
  <2>1. \A m \in {i, j} : ~IsNative(occs[m]) =>
           /\ occs[m].name \in Names /\ occs[m].number \in DOMAIN pos
           /\ pos[occs[m].number] = occs[m].name
           /\ occs[m].number = locs[occs[m].name]
    BY <1>1, <1>3 DEF NInv, NameHasNumber, Numbering, Adds, IsNative
  <2>2. \A m \in {i, j} : IsNative(occs[m]) => pos[occs[m].number] = ""
    BY <1>1, <1>3 DEF NInv, NativesKept, Numbering
  <2>3. CASE ~IsNative(occs[i]) /\ ~IsNative(occs[j])
    <3>1. Key(s, i) = <<"name", occs[i].name>> /\ Key(s, j) = <<"name", occs[j].name>>
      BY <1>3, <2>3 DEF Key, IsNative
    <3>. QED
      BY <2>1, <2>3, <3>1
  <2>4. CASE IsNative(occs[i]) /\ IsNative(occs[j])
    <3>1. CASE occs[i].explicit /\ occs[j].explicit
      <4>1. Key(s, i) = <<"number", occs[i].number>> /\ Key(s, j) = <<"number", occs[j].number>>
        BY <1>3, <2>4, <3>1 DEF Key, IsNative
      <4>. QED
        BY <4>1
    <3>2. CASE ~occs[i].explicit /\ ~occs[j].explicit
      <4>1. Key(s, i) = <<"occurrence", i>> /\ Key(s, j) = <<"occurrence", j>>
        BY <2>4, <3>2 DEF Key, IsNative
      <4>2. occs[i].number = occs[j].number <=> i = j
        BY <1>1, <1>3, <2>4, <3>2 DEF NInv, NativesKept, Numbering, Anonymous
      <4>. QED
        BY <4>1, <4>2
    <3>3. ASSUME NEW a \in {i, j}, NEW b \in {i, j}, occs[a].explicit, ~occs[b].explicit
          PROVE  FALSE
      <4>1. occs[a].number \in Written(occs)
        BY <1>1, <2>4, <3>3 DEF Written, IsNative
      <4>2. Unnumbered(occs)
        BY <1>1, <2>4, <3>3 DEF Unnumbered, IsNative
      <4>. QED
        BY <4>1, <4>2 DEF ParamErr, Mixed
    <3>. QED
      BY <3>1, <3>2, <3>3
  <2>5. ASSUME NEW a \in {i, j}, NEW b \in {i, j}, IsNative(occs[a]), ~IsNative(occs[b])
        PROVE  occs[a].number # occs[b].number /\ Key(s, a) # Key(s, b)
    <3>1. occs[a].number # occs[b].number
      BY <2>1, <2>2, <2>5, NamesAssumption
    <3>2. Key(s, b) = <<"name", occs[b].name>>
      BY <1>3, <2>5 DEF Key, IsNative
    <3>3. Key(s, a) = <<"number", occs[a].number>> \/ Key(s, a) = <<"occurrence", a>>
      BY <1>3, <2>5 DEF Key, IsNative
    <3>. QED
      BY <3>1, <3>2, <3>3
  <2>. QED
    BY <2>3, <2>4, <2>5
<1>. QED
  BY <1>2, <1>3

LEMMA EndStmtHolds == NInv /\ EndStmt => NInv'
<1>. SUFFICES ASSUME NInv, EndStmt PROVE NInv'
  OBVIOUS
<1>. DEFINE s == Statement(occs, Len(text'), <<>>)
<1>1. s.occs = occs /\ s.paramErr = ParamErr(occs)
  BY DEF Statement
<1>2. ~s.paramErr => Apart(s)
  BY <1>1, NumberedApart DEF EndStmt
<1>3. Prev + 1 \in Int
  <2>1. CASE at = 0
    BY <2>1 DEF NInv, Typed, Prev
  <2>2. CASE at # 0
    <3>1. occs[at] \in Occurrence
      BY <2>2 DEF NInv, Typed
    <3>2. occs[at].start \in Int /\ occs[at].len \in Nat
      BY <3>1, OccurrenceParts, Zenon
    <3>. QED
      BY <2>2, <3>2 DEF Prev, EndOf
  <2>. QED
    BY <2>1, <2>2
<1>4. Restart(Prev + 1) /\ engine' = engine /\ stmts' = Append(stmts, s)
  BY DEF EndStmt
<1>. HIDE DEF s
<1>. QED
  BY <1>2, <1>3, <1>4, RestartHolds

LEMMA ReplaceHolds == NInv /\ Replace => NInv'
<1>. SUFFICES ASSUME NInv, Replace PROVE NInv'
  OBVIOUS
<1>1. /\ phase = "rewrite" /\ at < Len(occs) /\ at' = at + 1
      /\ UNCHANGED <<engine, phase, from, occs, named, locs, pos, stmts>>
  BY DEF Replace, params
<1>2. Typed'
  <2>1. at + 1 \in 0..Len(occs)
    BY <1>1 DEF NInv, Typed
  <2>. QED
    BY <1>1, <2>1 DEF NInv, Typed
<1>3. (NamedOccs /\ NativesKept /\ Fresh)'
  BY <1>1, AddsSame DEF NInv, NamedOccs, NativesKept, Numbering, Fresh
<1>4. \A i \in DOMAIN occs : Passed(i)
  BY <1>1 DEF Passed
<1>5. (NameHasNumber /\ EachItsOwn)'
  BY <1>1, <1>4, AddsSame DEF NInv, NameHasNumber, EachItsOwn, Numbering
<1>6. NumbersApart'
  BY <1>1, ApartStays DEF NInv, NumbersApart, Accepted
<1>. QED
  BY <1>2, <1>3, <1>5, <1>6 DEF NInv

LEMMA FinishHolds == NInv /\ Finish => NInv'
<1>. SUFFICES ASSUME NInv, Finish PROVE NInv'
  OBVIOUS
<1>1. /\ phase' = "done"
      /\ UNCHANGED <<engine, from, occs, at, named, locs, pos, stmts>>
  BY DEF Finish, params
<1>2. (Typed /\ NamedOccs /\ Fresh)'
  BY <1>1 DEF NInv, Typed, NamedOccs, Fresh
<1>3. (NativesKept /\ NameHasNumber /\ EachItsOwn)'
  BY <1>1 DEF NativesKept, NameHasNumber, EachItsOwn, Numbering
<1>4. NumbersApart'
  BY <1>1, ApartStays DEF NInv, NumbersApart, Accepted
<1>. QED
  BY <1>2, <1>3, <1>4 DEF NInv

LEMMA NInvStep == NInv /\ [Next]_vars => NInv'
<1>. SUFFICES ASSUME NInv, [Next]_vars PROVE NInv'
  OBVIOUS
<1>1. CASE \E c \in Constructs : Scan(c)
  BY <1>1, ScanHolds
<1>2. CASE Reject
  BY <1>2, RejectHolds
<1>3. CASE Begin
  BY <1>3, BeginHolds
<1>4. CASE SkipAdd
  BY <1>4, SkipAddHolds
<1>5. CASE AddAgain
  BY <1>5, AddAgainHolds
<1>6. CASE AddNew
  BY <1>6, AddNewHolds
<1>7. CASE EndNumber
  BY <1>7, EndNumberHolds
<1>8. CASE Replace
  BY <1>8, ReplaceHolds
<1>9. CASE EndStmt
  BY <1>9, EndStmtHolds
<1>10. CASE Finish
  BY <1>10, FinishHolds
<1>11. CASE UNCHANGED vars
  BY <1>11, Unread DEF vars
<1>. QED
  BY <1>1, <1>2, <1>3, <1>4, <1>5, <1>6, <1>7, <1>8, <1>9, <1>10, <1>11 DEF Next
-----------------------------------------------------------------------------

(* In every statement sqlc accepts, two placeholders have one number       *)
(* exactly when the user meant one argument, whatever is written in it and *)
(* however long it is: number and ParamSet.Add never give away a number    *)
(* the user wrote, nor one number to two names. *)
THEOREM NumbersApartAlways == Spec => []NumbersApart
<1>1. NInv => NumbersApart
  BY DEF NInv
<1>. QED
  BY <1>1, InitHolds, NInvStep, PTL DEF Spec
-----------------------------------------------------------------------------
(* The numbers are 1, 2, ..., and what is known of a name is kept with it. *)

(* What is in ParamSet.positionToName: the placeholders that have been     *)
(* added, and from the start the user's own. *)
Placed(i) ==
    /\ i \in DOMAIN occs /\ occs[i].kind # "embed"
    /\ Passed(i) \/ (IsNative(occs[i]) /\ HasNamedSupport)

ExplicitSupported ==
    \A i \in DOMAIN occs : IsNative(occs[i]) /\ occs[i].explicit => HasNamedSupport

(* nextArgNum never goes back, and has left nothing out behind it. *)
ArgnFollows ==
    /\ argn \in Nat /\ argn # 0
    /\ phase = "scan" => argn = 1
    /\ Numbering => \A n \in 1..(argn - 1) : n \in DOMAIN pos

PosUsed == Numbering => \A n \in DOMAIN pos : \E i \in DOMAIN occs : Placed(i) /\ occs[i].number = n

PosDense == Numbering /\ ~ParamErr(occs) => \E m \in Nat : DOMAIN pos = 1..m

NamesNumbered ==
    Numbering => \A i \in DOMAIN occs : Passed(i) /\ Adds(occs[i]) =>
        /\ occs[i].number \in DOMAIN pos /\ pos[occs[i].number] = occs[i].name
        /\ occs[i].name \in DOMAIN named

(* A sqlc.narg among those that have been added. *)
Asked(x) == \E j \in DOMAIN occs : Passed(j) /\ occs[j].kind = "narg" /\ occs[j].name = x

NullsMerged ==
    Numbering => \A x \in DOMAIN named : named[x].null = IF Asked(x) THEN {"nullable"} ELSE {}

GInv == /\ ExplicitSupported /\ ArgnFollows /\ PosUsed /\ PosDense
        /\ NamesNumbered /\ NullsMerged /\ NoGaps /\ NargDecides

(* What NoGaps and NargDecides say of one statement. *)
NoGapsIn(s) ==
    LET used == {s.occs[i].number : i \in Placeholders(s)} IN used = 1..Cardinality(used)

NargIn(s) ==
    \A i \in Placeholders(s) : \A inferred \in BOOLEAN :
        LET o == s.occs[i]
            asked == \E j \in Placeholders(s) : s.occs[j].kind = "narg" /\ s.occs[j].name = o.name
        IN o.kind # "native" =>
               LET got == FetchMerge(s, o.number, NewInferredParam(inferred))
               IN got.isNamed /\ NotNull(got.param) = (inferred /\ ~asked)

LEMMA StatementAdded ==
    ASSUME NoGaps, NargDecides, stmts \in Seq(ToSet(stmts)),
           NEW s, stmts' = Append(stmts, s),
           s.err = <<>> => NargIn(s),
           s.err = <<>> /\ ~s.paramErr => NoGapsIn(s)
    PROVE  NoGaps' /\ NargDecides'
<1>1. ToSet(stmts)' = ToSet(stmts) \cup {s}
  BY AppendAdds
<1>2. Accepted' \subseteq Accepted \cup {s} /\ (s \in Accepted' => s.err = <<>>)
  BY <1>1 DEF Accepted
<1>3. NoGaps'
  <2>1. \A t \in Accepted : ~t.paramErr => NoGapsIn(t)
    BY DEF NoGaps, NoGapsIn
  <2>2. \A t \in Accepted' : ~t.paramErr => NoGapsIn(t)
    BY <1>2, <2>1
  <2>3. \A t : NoGapsIn(t)' <=> NoGapsIn(t)
    BY DEF NoGapsIn, Placeholders
  <2>. QED
    BY <2>2, <2>3 DEF NoGaps, NoGapsIn
<1>4. NargDecides'
  <2>1. \A t \in Accepted : NargIn(t)
    BY DEF NargDecides, NargIn
  <2>2. \A t \in Accepted' : NargIn(t)
    BY <1>2, <2>1
  <2>3. \A t : NargIn(t)' <=> NargIn(t)
    BY DEF NargIn, Placeholders
  <2>. QED
    BY <2>2, <2>3 DEF NargDecides, NargIn
<1>. QED
  BY <1>3, <1>4

LEMMA NoStatementAdded ==
    ASSUME NoGaps, NargDecides, stmts' = stmts
    PROVE  NoGaps' /\ NargDecides'
<1>1. Accepted' = Accepted
  BY DEF Accepted
<1>2. \A t : Placeholders(t)' = Placeholders(t)
  BY DEF Placeholders
<1>3. NoGaps'
  BY <1>1, <1>2 DEF NoGaps
<1>4. NargDecides'
  BY <1>1, <1>2 DEF NargDecides
<1>. QED
  BY <1>3, <1>4

(* The steps that leave the numbering alone. *)
LEMMA GUnread ==
    ASSUME NInv, GInv, UNCHANGED <<engine, occs, named, locs, pos, argn, stmts>>,
           phase' # phase => phase' = "done", phase' = "scan" => phase = "scan",
           Numbering' => Numbering /\ \A i \in DOMAIN occs : Passed(i)' <=> Passed(i)
    PROVE  GInv'
<1>1. ExplicitSupported'
  BY AddsSame DEF GInv, ExplicitSupported, IsNative
<1>2. ArgnFollows'
  BY DEF GInv, ArgnFollows
<1>3. PosUsed'
  BY AddsSame DEF GInv, PosUsed, Placed
<1>4. PosDense'
  BY DEF GInv, PosDense, ParamErr, Mixed, Gap, Written, Unnumbered
<1>5. NamesNumbered' /\ NullsMerged'
  BY AddsSame DEF GInv, NamesNumbered, NullsMerged, Asked
<1>6. NoGaps' /\ NargDecides'
  BY NoStatementAdded DEF GInv
<1>. QED
  BY <1>1, <1>2, <1>3, <1>4, <1>5, <1>6 DEF GInv

LEMMA InitG == Init => GInv
<1>. SUFFICES ASSUME Init PROVE GInv
  OBVIOUS
<1>1. occs = <<>> /\ stmts = <<>> /\ argn = 1 /\ phase = "scan"
  BY DEF Init
<1>2. ExplicitSupported /\ ArgnFollows /\ PosUsed /\ PosDense /\ NamesNumbered /\ NullsMerged
  BY <1>1 DEF ExplicitSupported, ArgnFollows, PosUsed, PosDense, NamesNumbered, NullsMerged, Numbering
<1>3. Accepted = {}
  BY <1>1 DEF Accepted, ToSet
<1>. QED
  BY <1>2, <1>3 DEF GInv, NoGaps, NargDecides

(* Only a dialect with numbers has placeholders that show one. *)
LEMMA ExplicitConstruct ==
    ASSUME engine \in Engines, NEW c \in Constructs, c.kind = "native", c.explicit
    PROVE  HasNamedSupport
<1>1. CASE c \in NamedConstructs
  <2>1. PICK d \in Calls, x \in Names : c = Construct(d.kind, x, 0, FALSE, d.len)
    BY <1>1 DEF NamedConstructs, Construct
  <2>. QED
    BY <2>1 DEF Construct
<1>2. CASE c \in NumberedConstructs
  <2>1. Explicit
    BY <1>2 DEF NumberedConstructs
  <2>. QED
    BY <2>1 DEF Explicit, HasNamedSupport, Style
<1>3. CASE c \in AnonymousConstructs
  <2>1. c = Construct("native", "", 0, FALSE, 1)
    BY <1>3 DEF AnonymousConstructs
  <2>. QED
    BY <2>1 DEF Construct
<1>. QED
  BY <1>1, <1>2, <1>3 DEF Constructs

LEMMA ScanG ==
    ASSUME NInv, GInv, NEW c \in Constructs, Scan(c)
    PROVE  GInv'
<1>. DEFINE o == [kind |-> c.kind, name |-> c.name, number |-> c.number,
                  explicit |-> c.explicit, len |-> c.len, start |-> ScanAt + 1]
<1>1. occs' = Append(occs, o) /\ occs \in Seq(Occurrence) /\ phase = "scan" /\ phase' = "scan"
      /\ UNCHANGED <<engine, argn, stmts>>
  BY DEF NInv, Typed, Scan, params
<1>2. ExplicitSupported'
  <2>1. o.kind = c.kind /\ o.explicit = c.explicit
    OBVIOUS
  <2>. HIDE DEF o
  <2>2. \A i \in DOMAIN occs' : IF i \in DOMAIN occs THEN occs'[i] = occs[i] ELSE occs'[i] = o
    BY <1>1
  <2>3. IsNative(o) /\ o.explicit => HasNamedSupport
    BY <2>1, ExplicitConstruct DEF NInv, Typed, IsNative
  <2>. QED
    BY <1>1, <2>2, <2>3, AddsSame DEF GInv, ExplicitSupported
<1>3. ArgnFollows' /\ PosUsed' /\ PosDense' /\ NamesNumbered' /\ NullsMerged'
  BY <1>1 DEF GInv, ArgnFollows, PosUsed, PosDense, NamesNumbered, NullsMerged, Numbering
<1>4. NoGaps' /\ NargDecides'
  BY <1>1, NoStatementAdded DEF GInv
<1>. QED
  BY <1>2, <1>3, <1>4 DEF GInv

(* A statement has been added and the next one begins. *)
LEMMA RestartG ==
    ASSUME NInv, GInv, NEW end, Restart(end), engine' = engine,
           NEW s, stmts' = Append(stmts, s),
           s.err = <<>> => NargIn(s),
           s.err = <<>> /\ ~s.paramErr => NoGapsIn(s)
    PROVE  GInv'
<1>1. occs' = <<>> /\ argn' = 1 /\ phase' = "scan"
  BY DEF Restart
<1>2. (ExplicitSupported /\ ArgnFollows /\ PosUsed /\ PosDense /\ NamesNumbered /\ NullsMerged)'
  BY <1>1 DEF ExplicitSupported, ArgnFollows, PosUsed, PosDense, NamesNumbered, NullsMerged, Numbering
<1>3. NoGaps' /\ NargDecides'
  BY StatementAdded DEF NInv, Typed, GInv
<1>. QED
  BY <1>2, <1>3 DEF GInv

LEMMA RejectG == NInv /\ GInv /\ Reject => GInv'
<1>. SUFFICES ASSUME NInv, GInv, Reject PROVE GInv'
  OBVIOUS
<1>. DEFINE s == [Statement(occs, Len(text'), <<ErrorAt>>) EXCEPT !.dollar = TRUE, !.paramErr = FALSE]
<1>1. s.err # <<>>
  BY DEF Statement
<1>2. Restart(ScanAt + 1) /\ engine' = engine /\ stmts' = Append(stmts, s)
  BY DEF Reject
<1>. HIDE DEF s
<1>. QED
  BY <1>1, <1>2, RestartG
-----------------------------------------------------------------------------
(* The user's own numbers. *)

LEMMA FiniteImage ==
    ASSUME NEW S, IsFiniteSet(S), NEW f
    PROVE  IsFiniteSet({f[a] : a \in S})
<1>. DEFINE T == {f[a] : a \in S}
            g == [a \in S |-> f[a]]
<1>1. g \in Surjection(S, T)
  BY DEF Surjection
<1>. HIDE DEF T, g
<1>. QED
  BY <1>1, FS_Surjection DEF T

LEMMA NativesFinite ==
    ASSUME NEW os, os \in Seq(Occurrence), NEW N \in SUBSET (DOMAIN os)
    PROVE  IsFiniteSet(N) /\ Cardinality(N) \in Nat
<1>1. IsFiniteSet(DOMAIN os)
  <2>1. DOMAIN os = 1..Len(os) /\ Len(os) \in Nat
    OBVIOUS
  <2>. QED
    BY <2>1, FS_Interval
<1>. QED
  BY <1>1, FS_Subset, FS_CardinalityType

(* Explicit numbers without a gap are 1, 2, ...: a 0 among them leaves a   *)
(* gap. *)
LEMMA WrittenDense ==
    ASSUME NEW os, os \in Seq(Occurrence), ~Gap(os)
    PROVE  \E m \in Nat : Written(os) = 1..m
<1>. DEFINE N == {j \in DOMAIN os : os[j].kind = "native" /\ os[j].explicit}
            f == [j \in DOMAIN os |-> os[j].number]
            W == {f[j] : j \in N}
<1>1. Written(os) = W
  BY DEF Written
<1>2. IsFiniteSet(W)
  <2>1. IsFiniteSet(N)
    BY NativesFinite
  <2>. HIDE DEF N, f
  <2>. QED
    BY <2>1, FiniteImage
<1>. HIDE DEF W
<1>3. PICK m \in Nat : m = Cardinality(W)
  BY <1>2, FS_CardinalityType
<1>4. 1..m \in SUBSET W
  BY <1>1, <1>3 DEF Gap
<1>5. Cardinality(1..m) = m
  BY FS_Interval
<1>6. 1..m = W
  BY <1>2, <1>3, <1>4, <1>5, FS_Subset
<1>. QED
  BY <1>1, <1>6

(* Counting the user's placeholders gives 1, 2, ... *)
LEMMA CountsFill ==
    ASSUME occs \in Seq(Occurrence)
    PROVE  \E m \in Nat : {Count(i) : i \in {j \in DOMAIN occs : occs[j].kind = "native"}} = 1..m
<1>. DEFINE N == {j \in DOMAIN occs : occs[j].kind = "native"}
            upTo(i) == {k \in 1..i : occs[k].kind = "native"}
            f == [i \in N |-> Count(i)]
<1>1. IsFiniteSet(N) /\ Cardinality(N) \in Nat
  BY NativesFinite
<1>2. PICK m \in Nat : m = Cardinality(N)
  BY <1>1
<1>3. ASSUME NEW i \in N PROVE Count(i) \in 1..m
  <2>1. upTo(i) \in SUBSET N /\ i \in upTo(i)
    OBVIOUS
  <2>. HIDE DEF N, upTo
  <2>2. IsFiniteSet(upTo(i)) /\ Cardinality(upTo(i)) <= m
    BY <1>1, <1>2, <2>1, FS_Subset
  <2>3. Cardinality(upTo(i)) \in Nat /\ Cardinality(upTo(i)) # 0
    BY <2>1, <2>2, FS_CardinalityType, FS_EmptySet
  <2>. QED
    BY <2>2, <2>3 DEF Count, upTo
<1>4. ASSUME NEW i \in N, NEW j \in N, i # j PROVE Count(i) # Count(j)
  <2>1. i < j \/ j < i
    BY <1>4
  <2>2. \A a, b \in N : a < b => Count(a) # Count(b)
    <3>1. TAKE a, b \in N
    <3>2. HAVE a < b
    <3>3. Count(a) \in Nat /\ Count(b) \in Nat /\ Count(a) < Count(b)
      BY <3>2, CountsApart DEF IsNative
    <3>. QED
      BY <3>3
  <2>. QED
    BY <2>1, <2>2
<1>5. f \in Injection(N, 1..m)
  <2>. HIDE DEF N
  <2>. QED
    BY <1>3, <1>4 DEF Injection, IsInjective
<1>6. IsFiniteSet(1..m) /\ Cardinality(1..m) = m
  BY FS_Interval
<1>7. f \in Surjection(N, 1..m)
  <2>. HIDE DEF N, f
  <2>. QED
    BY <1>2, <1>5, <1>6, FS_Injection
<1>8. \A n : n \in {Count(i) : i \in N} <=> n \in 1..m
  <2>1. \A n \in 1..m : \E i \in N : f[i] = n
    <3>. HIDE DEF N, f
    <3>. QED
      BY <1>7 DEF Surjection
  <2>. HIDE DEF N
  <2>. QED
    BY <1>3, <2>1
<1>9. {Count(i) : i \in N} = 1..m
  <2>. HIDE DEF N
  <2>. QED
    BY <1>8
<1>. QED
  BY <1>9

(* What validatePlaceholders reads. *)
LEMMA ParamErrSame ==
    ASSUME DOMAIN occs' = DOMAIN occs,
           \A i \in DOMAIN occs :
               /\ occs'[i].kind = occs[i].kind /\ occs'[i].explicit = occs[i].explicit
               /\ occs[i].kind = "native" /\ occs[i].explicit => occs'[i].number = occs[i].number
    PROVE  /\ Written(occs') = Written(occs) /\ (Unnumbered(occs') <=> Unnumbered(occs))
           /\ Mixed(occs') <=> Mixed(occs)
           /\ Gap(occs') <=> Gap(occs)
           /\ ParamErr(occs') <=> ParamErr(occs)
<1>1. \A n : n \in Written(occs') <=> n \in Written(occs)
  BY DEF Written
<1>2. Written(occs') = Written(occs)
  <2>. DEFINE A == Written(occs') 
              B == Written(occs)
  <2>1. \A n : n \in A <=> n \in B
    BY <1>1
  <2>2. A = {n \in A \cup B : n \in A} /\ B = {n \in A \cup B : n \in B}
    BY DEF Written
  <2>. HIDE DEF A, B
  <2>3. A = B
    BY <2>1, <2>2
  <2>. QED
    BY <2>3 DEF A, B
<1>3. Unnumbered(occs') <=> Unnumbered(occs)
  BY DEF Unnumbered
<1>. QED
  BY <1>2, <1>3 DEF Mixed, Gap, ParamErr
-----------------------------------------------------------------------------

LEMMA BeginG == NInv /\ GInv /\ Begin => GInv'
<1>. SUFFICES ASSUME NInv, GInv, Begin PROVE GInv'
  OBVIOUS
<1>. DEFINE Given(i) == IF occs[i].explicit THEN occs[i].number ELSE Count(i)
            natives == {i \in DOMAIN occs : occs[i].kind = "native" /\ HasNamedSupport}
<1>1. /\ occs' = [i \in DOMAIN occs |->
                    IF i \in natives THEN [occs[i] EXCEPT !.number = Given(i)] ELSE occs[i]]
      /\ pos' = [n \in {Given(i) : i \in natives} |-> ""]
      /\ phase = "scan" /\ phase' = "number" /\ engine' = engine /\ at' = at
      /\ named' = named /\ argn' = argn /\ stmts' = stmts
  BY DEF Begin
<1>2. occs \in Seq(Occurrence) /\ \A i \in DOMAIN occs : occs[i] \in Occurrence
  BY DEF NInv, Typed
<1>3. DOMAIN pos' = {Given(i) : i \in natives}
  BY <1>1
<1>4. DOMAIN occs' = DOMAIN occs /\ \A i \in DOMAIN occs :
         /\ occs'[i].kind = occs[i].kind /\ occs'[i].name = occs[i].name
         /\ occs'[i].explicit = occs[i].explicit
         /\ occs'[i].number = IF i \in natives THEN Given(i) ELSE occs[i].number
  <2>1. DOMAIN occs' = DOMAIN occs
    BY <1>1
  <2>2. ASSUME NEW i \in DOMAIN occs
        PROVE  /\ occs'[i].kind = occs[i].kind /\ occs'[i].name = occs[i].name
               /\ occs'[i].explicit = occs[i].explicit
               /\ occs'[i].number = IF i \in natives THEN Given(i) ELSE occs[i].number
    <3>1. CASE i \in natives
      <4>1. occs'[i] = [occs[i] EXCEPT !.number = Given(i)]
        BY <1>1, <3>1
      <4>. HIDE DEF Given
      <4>. QED
        BY <1>2, <3>1, <4>1 DEF Occurrence
    <3>2. CASE i \notin natives
      BY <1>1, <3>2
    <3>. QED
      BY <3>1, <3>2
  <2>. QED
    BY <2>1, <2>2
<1>5. /\ Written(occs') = Written(occs) /\ (Unnumbered(occs') <=> Unnumbered(occs))
      /\ Mixed(occs') <=> Mixed(occs)
      /\ Gap(occs') <=> Gap(occs)
      /\ ParamErr(occs') <=> ParamErr(occs)
  BY <1>4, ParamErrSame
<1>6. at' = 0 /\ named' = EmptyMap /\ argn' = 1
  BY <1>1 DEF NInv, Fresh, GInv, ArgnFollows
<1>7. \A i \in DOMAIN occs' : ~(Passed(i)')
  <2>1. \A i \in DOMAIN occs' : ~(i <= 0)
    <3>1. DOMAIN occs = 1..Len(occs) /\ Len(occs) \in Nat
      BY <1>2
    <3>. QED
      BY <1>4, <3>1
  <2>2. phase' # "rewrite"
    BY <1>1
  <2>. QED
    BY <1>6, <2>1, <2>2 DEF Passed
<1>8. ExplicitSupported'
  BY <1>1, <1>4, AddsSame DEF GInv, ExplicitSupported, IsNative
<1>9. ArgnFollows'
  <2>1. \A n \in 1..(1 - 1) : FALSE
    OBVIOUS
  <2>2. argn' = 1 /\ argn' \in Nat /\ argn' # 0
    BY <1>6
  <2>. QED
    BY <2>1, <2>2 DEF ArgnFollows
<1>10. PosUsed'
  <2>. SUFFICES ASSUME NEW n \in DOMAIN pos'
                PROVE  \E i \in DOMAIN occs' : Placed(i)' /\ occs'[i].number = n
    BY DEF PosUsed
  <2>1. PICK i \in natives : n = Given(i)
    BY <1>3
  <2>2. occs'[i].number = n /\ IsNative(occs'[i]) /\ HasNamedSupport /\ occs'[i].kind # "embed"
    BY <1>4, <2>1 DEF IsNative
  <2>3. Placed(i)'
    BY <1>1, <1>4, <2>2, AddsSame DEF Placed
  <2>. QED
    BY <1>4, <2>2, <2>3
<1>11. PosDense'
  <2>. SUFFICES ASSUME ~ParamErr(occs') PROVE \E m \in Nat : DOMAIN pos' = 1..m
    BY DEF PosDense
  <2>1. ~Mixed(occs) /\ ~Gap(occs)
    BY <1>5 DEF ParamErr
  <2>2. CASE ~HasNamedSupport
    <3>1. DOMAIN pos' = 1..0
      BY <1>3, <2>2
    <3>. QED
      BY <3>1
  <2>3. CASE HasNamedSupport /\ Unnumbered(occs)
    <3>1. Written(occs) = {}
      BY <2>1, <2>3 DEF Mixed
    <3>2. \A i \in DOMAIN occs : occs[i].kind = "native" => ~occs[i].explicit
      BY <3>1 DEF Written
    <3>3. natives = {j \in DOMAIN occs : occs[j].kind = "native"}
      BY <2>3
    <3>4. \A i \in natives : Given(i) = Count(i)
      BY <3>2
    <3>5. PICK m \in Nat : {Count(i) : i \in natives} = 1..m
      BY <1>2, <3>3, CountsFill
    <3>. HIDE DEF Given, natives
    <3>6. {Given(i) : i \in natives} = {Count(i) : i \in natives}
      BY <3>4
    <3>. QED
      BY <1>3, <3>5, <3>6
  <2>4. CASE HasNamedSupport /\ ~Unnumbered(occs)
    <3>1. natives = {j \in DOMAIN occs : occs[j].kind = "native" /\ occs[j].explicit}
      BY <2>4 DEF Unnumbered
    <3>2. \A i \in natives : Given(i) = occs[i].number
      BY <3>1
    <3>3. Written(occs) = {occs[i].number : i \in natives}
      BY <3>1 DEF Written
    <3>. HIDE DEF Given, natives
    <3>4. DOMAIN pos' = Written(occs)
      BY <1>3, <3>2, <3>3
    <3>. QED
      BY <1>2, <2>1, <3>4, WrittenDense
  <2>. QED
    BY <2>2, <2>3, <2>4
<1>12. NamesNumbered' /\ NullsMerged'
  BY <1>6, <1>7 DEF NamesNumbered, NullsMerged, EmptyMap
<1>13. NoGaps' /\ NargDecides'
  BY <1>1, NoStatementAdded DEF GInv
<1>. QED
  BY <1>8, <1>9, <1>10, <1>11, <1>12, <1>13 DEF GInv

LEMMA SkipAddG == NInv /\ GInv /\ SkipAdd => GInv'
<1>. SUFFICES ASSUME NInv, GInv, SkipAdd PROVE GInv'
  OBVIOUS
<1>. DEFINE k == at + 1
<1>1. /\ phase = "number" /\ at < Len(occs) /\ ~Adds(occs[k]) /\ at' = k
      /\ UNCHANGED <<engine, phase, occs, named, locs, pos, argn, stmts>>
  BY DEF SkipAdd, Next1, params
<1>2. at \in Nat /\ k \in DOMAIN occs /\ \A i \in DOMAIN occs : i \in Nat
  BY <1>1 DEF NInv, Typed
<1>3. \A i \in DOMAIN occs : Passed(i)' <=> Passed(i) \/ i = k
  BY <1>1, <1>2 DEF Passed
<1>. HIDE DEF k
<1>4. Numbering
  BY <1>1 DEF Numbering
<1>5. ExplicitSupported' /\ ArgnFollows'
  BY <1>1, <1>4, AddsSame DEF GInv, ExplicitSupported, ArgnFollows
<1>6. PosUsed'
  <2>1. \A i \in DOMAIN occs : Placed(i) => Placed(i)'
    BY <1>1, <1>3, AddsSame DEF Placed
  <2>. QED
    BY <1>1, <1>4, <2>1 DEF GInv, PosUsed
<1>7. PosDense'
  BY <1>1, <1>4 DEF GInv, PosDense
<1>8. NamesNumbered'
  BY <1>1, <1>3, <1>4, AddsSame DEF GInv, NamesNumbered
<1>9. NullsMerged'
  <2>1. occs[k].kind # "narg"
    BY <1>1 DEF Adds
  <2>2. \A x : Asked(x)' <=> Asked(x)
    BY <1>1, <1>3, <2>1 DEF Asked
  <2>. QED
    BY <1>1, <1>4, <2>2 DEF GInv, NullsMerged
<1>10. NoGaps' /\ NargDecides'
  BY <1>1, NoStatementAdded DEF GInv
<1>. QED
  BY <1>5, <1>6, <1>7, <1>8, <1>9, <1>10 DEF GInv

(* What both halves of ParamSet.Add do to the nullability kept for a name. *)
LEMMA NullsKept ==
    ASSUME NInv, GInv, Numbering, NEW k \in DOMAIN occs, Adds(occs[k]),
           named' = Merged(occs[k]), DOMAIN occs' = DOMAIN occs,
           \A i \in DOMAIN occs : occs'[i].kind = occs[i].kind /\ occs'[i].name = occs[i].name,
           \A i \in DOMAIN occs : Passed(i)' <=> Passed(i) \/ i = k
    PROVE  NullsMerged' /\ DOMAIN named' = DOMAIN named \cup {occs[k].name}
<1>0. PICK x : x = occs[k].name
  OBVIOUS
<1>1. DOMAIN named' = DOMAIN named \cup {x}
  BY <1>0 DEF Merged, With
<1>2. \A y : Asked(y)' <=> Asked(y) \/ (occs[k].kind = "narg" /\ y = x)
  BY <1>0 DEF Asked
<1>3. \A y \in DOMAIN named : named[y].null = IF Asked(y) THEN {"nullable"} ELSE {}
  BY DEF GInv, NullsMerged
<1>4. x \notin DOMAIN named => ~Asked(x)
  BY <1>0 DEF Asked, GInv, NamesNumbered, Adds
<1>5. \A y \in DOMAIN named : y # x => named'[y] = named[y]
  BY <1>0 DEF Merged, With
<1>6. named'[x].null = IF Asked(x)' THEN {"nullable"} ELSE {}
  <2>1. CASE x \in DOMAIN named
    <3>1. named'[x] = mergeParam(named[x], NewParam(occs[k]))
      BY <1>0, <2>1 DEF Merged, With
    <3>2. named'[x].null = named[x].null \cup IF occs[k].kind = "narg" THEN {"nullable"} ELSE {}
      BY <3>1 DEF mergeParam, NewParam
    <3>. QED
      BY <1>2, <1>3, <2>1, <3>2
  <2>2. CASE x \notin DOMAIN named
    <3>1. named'[x] = NewParam(occs[k])
      BY <1>0, <2>2 DEF Merged, With
    <3>2. named'[x].null = IF occs[k].kind = "narg" THEN {"nullable"} ELSE {}
      BY <3>1 DEF NewParam
    <3>. QED
      BY <1>2, <1>4, <2>2, <3>2
  <2>. QED
    BY <2>1, <2>2
<1>7. \A y \in DOMAIN named' : named'[y].null = IF Asked(y)' THEN {"nullable"} ELSE {}
  <2>1. TAKE y \in DOMAIN named'
  <2>2. CASE y = x
    BY <1>6, <2>2
  <2>3. CASE y # x
    <3>1. y \in DOMAIN named /\ named'[y] = named[y] /\ (Asked(y)' <=> Asked(y))
      BY <1>1, <1>2, <1>5, <2>3
    <3>. QED
      BY <1>3, <3>1
  <2>. QED
    BY <2>2, <2>3
<1>8. NullsMerged'
  BY <1>7 DEF NullsMerged
<1>. QED
  BY <1>0, <1>1, <1>8

(* The number of the occurrence that is added next is none the user wrote. *)
LEMMA ErrorsKept ==
    ASSUME NInv, GInv, NEW k \in DOMAIN occs, Adds(occs[k]), DOMAIN occs' = DOMAIN occs,
           \A i \in DOMAIN occs : i # k => occs'[i] = occs[i],
           \A i \in DOMAIN occs : /\ occs'[i].kind = occs[i].kind
                                  /\ occs'[i].explicit = occs[i].explicit
    PROVE  (ParamErr(occs') <=> ParamErr(occs)) /\ (engine' = engine => ExplicitSupported')
<1>1. ~(occs[k].kind = "native" /\ occs[k].explicit)
  BY DEF Adds, GInv, ExplicitSupported, IsNative
<1>2. \A i \in DOMAIN occs :
         occs[i].kind = "native" /\ occs[i].explicit => occs'[i].number = occs[i].number
  BY <1>1
<1>3. ParamErr(occs') <=> ParamErr(occs)
  BY <1>2, ParamErrSame
<1>4. ASSUME engine' = engine PROVE ExplicitSupported'
  BY <1>4, AddsSame DEF GInv, ExplicitSupported, IsNative
<1>. QED
  BY <1>3, <1>4

LEMMA AddAgainG == NInv /\ GInv /\ AddAgain => GInv'
<1>. SUFFICES ASSUME NInv, GInv, AddAgain PROVE GInv'
  OBVIOUS
<1>. DEFINE k == at + 1
            x == occs[k].name
<1>1. /\ phase = "number" /\ at < Len(occs) /\ Adds(occs[k]) /\ x \in DOMAIN named
      /\ HasNamedSupport /\ at' = k /\ occs' = [occs EXCEPT ![k].number = locs[x]]
      /\ named' = Merged(occs[k])
      /\ UNCHANGED <<engine, phase, locs, pos, argn, stmts>>
  BY DEF AddAgain, Next1
<1>2. x \in DOMAIN locs /\ locs[x] \in DOMAIN pos /\ pos[locs[x]] = x /\ locs[x] \in Nat
  BY <1>1 DEF NInv, NameHasNumber, Numbering, Typed
<1>3. /\ k \in DOMAIN occs /\ DOMAIN occs' = DOMAIN occs
      /\ \A i \in DOMAIN occs : i # k => occs'[i] = occs[i]
      /\ occs'[k].number = locs[x]
      /\ \A i \in DOMAIN occs : /\ occs'[i].kind = occs[i].kind
                               /\ occs'[i].name = occs[i].name
                               /\ occs'[i].explicit = occs[i].explicit
      /\ \A i \in DOMAIN occs : Adds(occs[i])' <=> Adds(occs[i])
      /\ \A i \in DOMAIN occs : Passed(i)' <=> Passed(i) \/ i = k
      /\ ~IsNative(occs[k])
  BY <1>1, <1>2, Numbered
<1>0. ~Passed(k)
  BY <1>1 DEF NInv, Typed, Passed
<1>. HIDE DEF k
<1>4. Numbering
  BY <1>1 DEF Numbering
<1>5. (ParamErr(occs') <=> ParamErr(occs)) /\ ExplicitSupported'
  BY <1>1, <1>3, ErrorsKept
<1>6. ArgnFollows' /\ PosDense'
  BY <1>1, <1>4, <1>5 DEF GInv, ArgnFollows, PosDense
<1>7. PosUsed'
  <2>1. \A i \in DOMAIN occs : Placed(i) => Placed(i)' /\ occs'[i] = occs[i]
    BY <1>0, <1>1, <1>3, AddsSame DEF Placed, IsNative
  <2>. QED
    BY <1>1, <1>3, <1>4, <2>1 DEF GInv, PosUsed
<1>8. NullsMerged' /\ DOMAIN named' = DOMAIN named \cup {x}
  BY <1>1, <1>3, <1>4, NullsKept
<1>9. NamesNumbered'
  BY <1>1, <1>2, <1>3, <1>4, <1>8 DEF GInv, NamesNumbered
<1>10. NoGaps' /\ NargDecides'
  BY <1>1, NoStatementAdded DEF GInv
<1>. QED
  BY <1>5, <1>6, <1>7, <1>8, <1>9, <1>10 DEF GInv

LEMMA AddNewG == NInv /\ GInv /\ AddNew => GInv'
<1>. SUFFICES ASSUME NInv, GInv, AddNew PROVE GInv'
  OBVIOUS
<1>. DEFINE k == at + 1
            x == occs[k].name
<1>1. PICK n \in Numbers :
         /\ NextArgNum(n) /\ argn' = n /\ pos' = With(pos, n, x)
         /\ occs' = [occs EXCEPT ![k].number = n]
  BY DEF AddNew, Next1
<1>2. /\ phase = "number" /\ at < Len(occs) /\ Adds(occs[k])
      /\ at' = k /\ named' = Merged(occs[k])
      /\ UNCHANGED <<engine, phase, stmts>>
  BY DEF AddNew, Next1
<1>3. /\ n \in Nat /\ n \notin DOMAIN pos /\ n >= argn
      /\ \A m \in argn..(n - 1) : m \in DOMAIN pos
  BY <1>1, BoundsAssumption DEF Numbers, NextArgNum
<1>4. /\ k \in DOMAIN occs /\ DOMAIN occs' = DOMAIN occs
      /\ \A i \in DOMAIN occs : i # k => occs'[i] = occs[i]
      /\ occs'[k].number = n
      /\ \A i \in DOMAIN occs : /\ occs'[i].kind = occs[i].kind
                               /\ occs'[i].name = occs[i].name
                               /\ occs'[i].explicit = occs[i].explicit
      /\ \A i \in DOMAIN occs : Adds(occs[i])' <=> Adds(occs[i])
      /\ \A i \in DOMAIN occs : Passed(i)' <=> Passed(i) \/ i = k
  BY <1>1, <1>2, <1>3, Numbered
<1>5. /\ DOMAIN pos' = DOMAIN pos \cup {n} /\ pos'[n] = x
      /\ \A m \in DOMAIN pos : pos'[m] = pos[m]
  BY <1>1, <1>3 DEF With
<1>0. ~Passed(k)
  BY <1>2 DEF NInv, Typed, Passed
<1>. HIDE DEF k
<1>6. Numbering
  BY <1>2 DEF Numbering
<1>7. (ParamErr(occs') <=> ParamErr(occs)) /\ ExplicitSupported'
  BY <1>2, <1>4, ErrorsKept
<1>8. argn \in Nat /\ argn # 0 /\ \A m \in 1..(argn - 1) : m \in DOMAIN pos
  BY <1>6 DEF GInv, ArgnFollows
<1>9. \A m \in 1..(n - 1) : m \in DOMAIN pos
  BY <1>3, <1>8
<1>10. ArgnFollows'
  <2>1. n # 0
    BY <1>3, <1>8
  <2>. QED
    BY <1>1, <1>2, <1>3, <1>5, <1>9, <2>1 DEF ArgnFollows
<1>11. PosDense'
  <2>. SUFFICES ASSUME ~ParamErr(occs') PROVE \E m \in Nat : DOMAIN pos' = 1..m
    BY DEF PosDense
  <2>1. PICK m \in Nat : DOMAIN pos = 1..m
    BY <1>6, <1>7 DEF GInv, PosDense
  <2>2. n = m + 1
    <3>1. n > m
      BY <1>3, <1>8, <2>1
    <3>2. n = 1 \/ n - 1 \in 1..m
      BY <1>3, <1>8, <1>9, <2>1
    <3>. QED
      BY <1>3, <3>1, <3>2
  <2>3. DOMAIN pos' = 1..(m + 1)
    BY <1>5, <2>1, <2>2
  <2>. QED
    BY <2>3
<1>12. PosUsed'
  <2>. SUFFICES ASSUME NEW m \in DOMAIN pos'
                PROVE  \E i \in DOMAIN occs' : Placed(i)' /\ occs'[i].number = m
    BY DEF PosUsed
  <2>1. CASE m = n
    <3>1. PICK j : j = k
      OBVIOUS
    <3>2. Placed(j)'
      BY <1>4, <1>2, <3>1 DEF Placed, Adds
    <3>. QED
      BY <1>4, <2>1, <3>1, <3>2
  <2>2. CASE m # n
    <3>1. PICK i \in DOMAIN occs : Placed(i) /\ occs[i].number = m
      BY <1>5, <1>6, <2>2 DEF GInv, PosUsed
    <3>2. i # k
      BY <1>0, <1>2, <3>1 DEF Placed, Adds, IsNative
    <3>3. Placed(i)'
      BY <1>2, <1>4, <3>1, <3>2, AddsSame DEF Placed
    <3>. QED
      BY <1>4, <3>1, <3>2, <3>3
  <2>. QED
    BY <2>1, <2>2
<1>13. NullsMerged' /\ DOMAIN named' = DOMAIN named \cup {x}
  BY <1>2, <1>4, <1>6, NullsKept
<1>14. NamesNumbered'
  BY <1>2, <1>4, <1>5, <1>6, <1>13 DEF GInv, NamesNumbered
<1>15. NoGaps' /\ NargDecides'
  BY <1>2, NoStatementAdded DEF GInv
<1>. QED
  BY <1>7, <1>10, <1>11, <1>12, <1>13, <1>14, <1>15 DEF GInv

LEMMA EndNumberG == NInv /\ GInv /\ EndNumber => GInv'
<1>. SUFFICES ASSUME NInv, GInv, EndNumber PROVE GInv'
  OBVIOUS
<1>1. /\ phase = "number" /\ at = Len(occs) /\ phase' = "rewrite"
      /\ UNCHANGED <<engine, occs, named, locs, pos, argn, stmts>>
  BY DEF EndNumber, params
<1>2. \A i \in DOMAIN occs : Passed(i)
  <2>1. DOMAIN occs = 1..Len(occs) /\ Len(occs) \in Nat
    BY DEF NInv, Typed
  <2>. QED
    BY <1>1, <2>1 DEF Passed
<1>3. \A i \in DOMAIN occs : Passed(i)'
  BY <1>1 DEF Passed
<1>4. Numbering /\ Numbering'
  BY <1>1 DEF Numbering
<1>5. ExplicitSupported' /\ ArgnFollows'
  BY <1>1, <1>4, AddsSame DEF GInv, ExplicitSupported, ArgnFollows
<1>6. PosUsed'
  BY <1>1, <1>2, <1>3, <1>4, AddsSame DEF GInv, PosUsed, Placed
<1>7. PosDense'
  BY <1>1, <1>4 DEF GInv, PosDense
<1>8. NamesNumbered' /\ NullsMerged'
  BY <1>1, <1>2, <1>3, <1>4, AddsSame DEF GInv, NamesNumbered, NullsMerged, Asked
<1>9. NoGaps' /\ NargDecides'
  BY <1>1, NoStatementAdded DEF GInv
<1>. QED
  BY <1>5, <1>6, <1>7, <1>8, <1>9 DEF GInv

(* When all are numbered, the numbers in use are those of positionToName. *)
LEMMA NumberedDense ==
    ASSUME NInv, GInv, phase = "rewrite", NEW s, s.occs = occs, ~ParamErr(occs)
    PROVE  NoGapsIn(s)
<1>. DEFINE used == {s.occs[i].number : i \in Placeholders(s)}
<1>1. PICK m \in Nat : DOMAIN pos = 1..m
  BY DEF GInv, PosDense, Numbering
<1>2. \A i \in DOMAIN occs : Passed(i)
  BY DEF Passed
<1>3. ASSUME NEW i \in Placeholders(s) PROVE s.occs[i].number \in DOMAIN pos
  <2>1. i \in DOMAIN occs /\ occs[i].kind # "embed"
    BY DEF Placeholders
  <2>2. CASE Adds(occs[i])
    BY <1>2, <2>1, <2>2 DEF GInv, NamesNumbered, Numbering
  <2>3. CASE ~Adds(occs[i])
    BY <2>1, <2>3 DEF NInv, NativesKept, Numbering, Adds, IsNative
  <2>. QED
    BY <2>2, <2>3
<1>4. ASSUME NEW n \in DOMAIN pos PROVE n \in used
  <2>1. PICK i \in DOMAIN occs : Placed(i) /\ occs[i].number = n
    BY DEF GInv, PosUsed, Numbering
  <2>2. i \in Placeholders(s)
    BY <2>1 DEF Placed, Placeholders
  <2>. QED
    BY <2>1, <2>2
<1>5. used = 1..m
  <2>1. \A n \in used : n \in 1..m
    BY <1>1, <1>3
  <2>2. \A n \in 1..m : n \in used
    BY <1>1, <1>4
  <2>. HIDE DEF used
  <2>. QED
    BY <2>1, <2>2
<1>6. Cardinality(1..m) = m
  BY FS_Interval
<1>. QED
  BY <1>5, <1>6 DEF NoGapsIn

(* And FetchMerge finds each name with what was asked of it. *)
LEMMA NumberedNarg ==
    ASSUME NInv, GInv, phase = "rewrite", NEW s,
           s.occs = occs, s.pos = pos, s.named = named
    PROVE  NargIn(s)
<1>. SUFFICES ASSUME NEW i \in Placeholders(s), NEW inferred \in BOOLEAN, occs[i].kind # "native"
              PROVE  LET asked == \E j \in Placeholders(s) :
                                      s.occs[j].kind = "narg" /\ s.occs[j].name = occs[i].name
                         got == FetchMerge(s, occs[i].number, NewInferredParam(inferred))
                     IN got.isNamed /\ NotNull(got.param) = (inferred /\ ~asked)
  BY DEF NargIn
<1>. DEFINE x == occs[i].name
            asked == \E j \in Placeholders(s) : s.occs[j].kind = "narg" /\ s.occs[j].name = x
            got == FetchMerge(s, occs[i].number, NewInferredParam(inferred))
<1>1. i \in DOMAIN occs /\ Adds(occs[i])
  BY DEF Placeholders, Adds
<1>2. \A j \in DOMAIN occs : Passed(j)
  BY DEF Passed
<1>3. occs[i].number \in DOMAIN pos /\ pos[occs[i].number] = x /\ x \in DOMAIN named
  BY <1>1, <1>2 DEF GInv, NamesNumbered, Numbering
<1>4. x # ""
  BY <1>1 DEF NInv, NamedOccs, IsNative
<1>5. asked <=> Asked(x)
  BY <1>2 DEF Asked, Placeholders
<1>6. named[x].null = IF asked THEN {"nullable"} ELSE {}
  BY <1>3, <1>5 DEF GInv, NullsMerged, Numbering
<1>7. got = [param |-> mergeParam(named[x], NewInferredParam(inferred)), isNamed |-> TRUE]
  BY <1>3, <1>4 DEF FetchMerge
<1>. HIDE DEF x, asked
<1>8. mergeParam(named[x], NewInferredParam(inferred)).null
        = named[x].null \cup {IF inferred THEN "inferredNotNull" ELSE "inferredNull"}
  BY DEF mergeParam, NewInferredParam
<1>9. NotNull(mergeParam(named[x], NewInferredParam(inferred))) <=> inferred /\ ~asked
  BY <1>6, <1>8 DEF NotNull
<1>10. got.isNamed /\ (NotNull(got.param) <=> inferred /\ ~asked)
  BY <1>7, <1>9
<1>. QED
  BY <1>10 DEF NotNull, asked, x

LEMMA EndStmtG == NInv /\ GInv /\ EndStmt => GInv'
<1>. SUFFICES ASSUME NInv, GInv, EndStmt PROVE GInv'
  OBVIOUS
<1>. DEFINE s == Statement(occs, Len(text'), <<>>)
<1>1. s.occs = occs /\ s.paramErr = ParamErr(occs) /\ s.pos = pos /\ s.named = named
  BY DEF Statement
<1>2. Restart(Prev + 1) /\ engine' = engine /\ stmts' = Append(stmts, s) /\ phase = "rewrite"
  BY DEF EndStmt
<1>. HIDE DEF s
<1>3. NargIn(s) /\ (~s.paramErr => NoGapsIn(s))
  BY <1>1, <1>2, NumberedDense, NumberedNarg
<1>. QED
  BY <1>2, <1>3, RestartG

LEMMA GInvStep == NInv /\ GInv /\ [Next]_vars => GInv'
<1>. SUFFICES ASSUME NInv, GInv, [Next]_vars PROVE GInv'
  OBVIOUS
<1>1. CASE \E c \in Constructs : Scan(c)
  BY <1>1, ScanG
<1>2. CASE Reject
  BY <1>2, RejectG
<1>3. CASE Begin
  BY <1>3, BeginG
<1>4. CASE SkipAdd
  BY <1>4, SkipAddG
<1>5. CASE AddAgain
  BY <1>5, AddAgainG
<1>6. CASE AddNew
  BY <1>6, AddNewG
<1>7. CASE EndNumber
  BY <1>7, EndNumberG
<1>8. CASE Replace
  <2>1. phase = "rewrite" /\ UNCHANGED <<engine, phase, occs, named, locs, pos, argn, stmts>>
    BY <1>8 DEF Replace, params
  <2>2. Numbering /\ \A i \in DOMAIN occs : Passed(i)' <=> Passed(i)
    BY <2>1 DEF Numbering, Passed
  <2>. QED
    BY <2>1, <2>2, GUnread
<1>9. CASE EndStmt
  BY <1>9, EndStmtG
<1>10. CASE Finish
  <2>1. phase' = "done" /\ UNCHANGED <<engine, occs, named, locs, pos, argn, stmts>>
    BY <1>10 DEF Finish, params
  <2>2. ~Numbering'
    BY <2>1 DEF Numbering
  <2>. QED
    BY <2>1, <2>2, GUnread
<1>11. CASE UNCHANGED vars
  <2>1. UNCHANGED <<engine, phase, occs, at, named, locs, pos, argn, stmts>>
    BY <1>11 DEF vars
  <2>2. (Numbering' <=> Numbering) /\ \A i \in DOMAIN occs : Passed(i)' <=> Passed(i)
    BY <2>1 DEF Numbering, Passed
  <2>. QED
    BY <2>1, <2>2, GUnread
<1>. QED
  BY <1>1, <1>2, <1>3, <1>4, <1>5, <1>6, <1>7, <1>8, <1>9, <1>10, <1>11 DEF Next

(* In every statement sqlc accepts the numbers of the placeholders are 1,  *)
(* 2, ... without a gap, whether the user wrote numbers, "?" or names, in  *)
(* any mixture validatePlaceholders lets pass: nextArgNum fills up behind  *)
(* the user's numbers, and generated code can pass its arguments in order. *)
THEOREM NoGapsAlways == Spec => []NoGaps
<1>1. NInv /\ GInv => NoGaps
  BY DEF GInv
<1>. QED
  BY <1>1, InitHolds, InitG, NInvStep, GInvStep, PTL DEF Spec

(* One sqlc.narg, anywhere in the statement and in whatever order, makes   *)
(* every use of its name nullable; without one FetchMerge leaves the       *)
(* decision to the inference. *)
THEOREM NargDecidesAlways == Spec => []NargDecides
<1>1. NInv /\ GInv => NargDecides
  BY DEF GInv
<1>. QED
  BY <1>1, InitHolds, InitG, NInvStep, GInvStep, PTL DEF Spec
-----------------------------------------------------------------------------
(* The way back to the source. *)

(* How far the source is ahead of the output after edit i, and where the   *)
(* edit ends. *)
Shift(es, i) == IF i = 0 THEN 0 ELSE es[i].oldEnd - es[i].newEnd
EndsAt(es, i) == IF i = 0 THEN 0 ELSE es[i].newEnd

Edit == [oldStart : Int, oldEnd : Int, newStart : Int, newEnd : Int]

EditsInOrder(es) ==
    \A i \in 1..Len(es) :
        /\ EndsAt(es, i - 1) <= es[i].newStart /\ es[i].newStart <= es[i].newEnd
        /\ es[i].newStart + Shift(es, i - 1) = es[i].oldStart

(* What is not in an edit has been copied. *)
Copies(es, t) ==
    \A p \in 0..(Len(t) - 1) : \A i \in 0..Len(es) :
        EndsAt(es, i) <= p /\ (i # Len(es) => p < es[i + 1].newStart) =>
            t[p + 1] = p + Shift(es, i)

StandsFor(es, t) ==
    \A i \in 1..Len(es) : \A p \in es[i].newStart..(es[i].newEnd - 1) : t[p + 1] = es[i].oldStart

Tracked(es, t) ==
    /\ es \in Seq(Edit) /\ t \in Seq(Int)
    /\ EditsInOrder(es)
    /\ EndsAt(es, Len(es)) <= Len(t)
    /\ Copies(es, t)
    /\ StandsFor(es, t)

(* How far the source has been read. *)
ReadTo == IF phase = "rewrite" THEN Prev ELSE from

OccsInOrder ==
    /\ \A i \in DOMAIN occs : /\ occs[i].start = (IF i = 1 THEN from ELSE EndOf(occs[i - 1])) + 1
                              /\ from < occs[i].start /\ occs[i].len # 0
                              /\ EndOf(occs[i]) <= ScanAt
    /\ \A i, j \in DOMAIN occs : i < j => EndOf(occs[i]) < occs[j].start

TInv ==
    /\ Tracked(edits, text)
    /\ phase # "done" => Len(text) + Shift(edits, Len(edits)) = ReadTo
    /\ OccsInOrder
-----------------------------------------------------------------------------
(* Facts about numbers and texts. *)

LEMMA LeastNat ==
    ASSUME NEW T \in SUBSET Nat, T # {}
    PROVE  \E n \in T : \A m \in T : n <= m
<1> DEFINE R == {ss \in Nat \X Nat : ss[1] < ss[2]}
<1>1. IsWellFoundedOn(R, Nat)
    BY NatLessThanWellFounded DEF OpToRel
<1>2. \E n \in T : \A m \in T : <<m, n>> \notin R
  <2> HIDE DEF R
  <2> QED BY <1>1, WFMin
<1>3. PICK n \in T : \A m \in T : <<m, n>> \notin R
    BY <1>2
<1>4. \A m \in T : ~(m < n)
    BY <1>3
<1> QED BY <1>4

(* Induction up to n, for a set of numbers. *)
LEMMA ByInduction ==
    ASSUME NEW n \in Nat, NEW T, 0 \in T,
           \A i \in 0 .. n : i # n /\ i \in T => i + 1 \in T
    PROVE  \A i \in 0 .. n : i \in T
<1> DEFINE Out == {i \in 0 .. n : i \notin T}
<1> SUFFICES ASSUME Out # {} PROVE FALSE
    OBVIOUS
<1>1. PICK i \in Out : \A j \in Out : i <= j
  <2>1. Out \in SUBSET Nat
      OBVIOUS
  <2> HIDE DEF Out
  <2> QED BY <2>1, LeastNat
<1>2. i # 0 /\ i \in 0 .. n /\ i \notin T
    OBVIOUS
<1>3. i - 1 \in 0 .. n /\ i - 1 # n /\ i - 1 \in T
    BY <1>1, <1>2
<1> QED BY <1>2, <1>3

LEMMA CopiedIs ==
    ASSUME NEW a \in Int, NEW b \in Int, a <= b
    PROVE  /\ Copied(a, b) \in Seq(Int) /\ Len(Copied(a, b)) = b - a
           /\ \A k \in 1..(b - a) : Copied(a, b)[k] = a + k - 1
<1>1. b - a \in Nat
  OBVIOUS
<1>. QED
  BY <1>1 DEF Copied

LEMMA RepeatedIs ==
    ASSUME NEW a \in Int, NEW c \in Nat, NEW r, r = [k \in 1..c |-> a]
    PROVE  r \in Seq(Int) /\ Len(r) = c /\ \A k \in 1..c : r[k] = a
OBVIOUS

LEMMA Joined ==
    ASSUME NEW t \in Seq(Int), NEW u \in Seq(Int)
    PROVE  /\ t \o u \in Seq(Int) /\ Len(t \o u) = Len(t) + Len(u)
           /\ \A p \in 0..(Len(t) - 1) : (t \o u)[p + 1] = t[p + 1]
           /\ \A p \in Len(t)..(Len(t) + Len(u) - 1) :
                  p - Len(t) + 1 \in 1..Len(u) /\ (t \o u)[p + 1] = u[p - Len(t) + 1]
<1>1. t \o u \in Seq(Int) /\ Len(t \o u) = Len(t) + Len(u) /\ Len(t) \in Nat /\ Len(u) \in Nat
  OBVIOUS
<1>2. \A k \in 1..(Len(t) + Len(u)) : (t \o u)[k] = IF k <= Len(t) THEN t[k] ELSE u[k - Len(t)]
  OBVIOUS
<1>3. ASSUME NEW p \in 0..(Len(t) - 1) PROVE (t \o u)[p + 1] = t[p + 1]
  BY <1>1, <1>2
<1>4. ASSUME NEW p \in Len(t)..(Len(t) + Len(u) - 1)
      PROVE  p - Len(t) + 1 \in 1..Len(u) /\ (t \o u)[p + 1] = u[p - Len(t) + 1]
  <2>1. p + 1 \in 1..(Len(t) + Len(u)) /\ ~(p + 1 <= Len(t)) /\ p + 1 - Len(t) = p - Len(t) + 1
    BY <1>1
  <2>2. p - Len(t) + 1 \in 1..Len(u)
    BY <1>1
  <2>. QED
    BY <1>2, <2>1, <2>2
<1>. QED
  BY <1>1, <1>3, <1>4

LEMMA EditParts ==
    ASSUME NEW es, es \in Seq(Edit)
    PROVE  /\ Len(es) \in Nat
           /\ \A i \in 1..Len(es) : /\ es[i].oldStart \in Int /\ es[i].oldEnd \in Int
                                     /\ es[i].newStart \in Int /\ es[i].newEnd \in Int
           /\ \A i \in 0..Len(es) : Shift(es, i) \in Int /\ EndsAt(es, i) \in Int
<1>1. Len(es) \in Nat /\ \A i \in 1..Len(es) : es[i] \in Edit
  OBVIOUS
<1>2. \A i \in 1..Len(es) : /\ es[i].oldStart \in Int /\ es[i].oldEnd \in Int
                             /\ es[i].newStart \in Int /\ es[i].newEnd \in Int
  BY <1>1 DEF Edit
<1>3. ASSUME NEW i \in 0..Len(es) PROVE Shift(es, i) \in Int /\ EndsAt(es, i) \in Int
  <2>1. CASE i = 0
    BY <2>1 DEF Shift, EndsAt
  <2>2. CASE i # 0
    <3>1. i \in 1..Len(es)
      BY <1>1, <2>2
    <3>. QED
      BY <1>2, <2>2, <3>1 DEF Shift, EndsAt
  <2>. QED
    BY <2>1, <2>2
<1>. QED
  BY <1>1, <1>2, <1>3

(* The edits begin and end within the output there is. *)
LEMMA EditsEnd ==
    ASSUME NEW es, es \in Seq(Edit), EditsInOrder(es)
    PROVE  /\ \A i \in 0..Len(es) : 0 <= EndsAt(es, i) /\ EndsAt(es, i) <= EndsAt(es, Len(es))
           /\ \A i \in 1..Len(es) : es[i].newStart >= 0 /\ es[i].newEnd <= EndsAt(es, Len(es))
<1>0. PICK n \in Nat : n = Len(es)
  OBVIOUS
<1>1. \A i \in 0..n : EndsAt(es, i) \in Int
  BY <1>0, EditParts
<1>2. ASSUME NEW i \in 1..n
      PROVE  /\ EndsAt(es, i - 1) <= es[i].newStart /\ es[i].newStart <= EndsAt(es, i)
             /\ EndsAt(es, i) = es[i].newEnd
             /\ EndsAt(es, i - 1) <= EndsAt(es, i)
             /\ es[i].newStart \in Int /\ EndsAt(es, i) \in Int /\ EndsAt(es, i - 1) \in Int
  <2>1. i # 0 /\ i - 1 \in 0..n /\ i \in 0..n
    OBVIOUS
  <2>2. es[i].newStart \in Int /\ es[i].newEnd \in Int
    BY <1>0, EditParts
  <2>3. EndsAt(es, i) = es[i].newEnd
    BY <2>1 DEF EndsAt
  <2>4. EndsAt(es, i - 1) <= es[i].newStart /\ es[i].newStart <= es[i].newEnd
    BY <1>0 DEF EditsInOrder
  <2>. QED
    BY <1>1, <2>1, <2>2, <2>3, <2>4
<1>. DEFINE Up == {i \in 0..n : 0 <= EndsAt(es, i)}
            Down == {i \in 0..n : EndsAt(es, n - i) <= EndsAt(es, n)}
<1>3. \A i \in 0..n : i \in Up
  <2>1. 0 \in Up
    BY DEF EndsAt
  <2>2. ASSUME NEW i \in 0..n, i # n, i \in Up PROVE i + 1 \in Up
    <3>1. i + 1 \in 1..n /\ (i + 1) - 1 = i
      BY <2>2
    <3>2. EndsAt(es, i) <= EndsAt(es, i + 1) /\ EndsAt(es, i) \in Int /\ EndsAt(es, i + 1) \in Int
      BY <1>2, <3>1
    <3>. QED
      BY <2>2, <3>1, <3>2
  <2>. HIDE DEF Up
  <2>3. \A i \in 0..n : i # n /\ i \in Up => i + 1 \in Up
    BY <2>2
  <2>. QED
    BY <2>1, <2>3, ByInduction, Zenon
<1>4. \A i \in 0..n : i \in Down
  <2>1. 0 \in Down
    <3>1. n - 0 = n /\ EndsAt(es, n) <= EndsAt(es, n)
      BY <1>1
    <3>. QED
      BY <3>1
  <2>2. ASSUME NEW i \in 0..n, i # n, i \in Down PROVE i + 1 \in Down
    <3>1. n - i \in 1..n /\ (n - i) - 1 = n - (i + 1) /\ i + 1 \in 0..n
      BY <2>2
    <3>2. /\ EndsAt(es, n - (i + 1)) <= EndsAt(es, n - i)
          /\ EndsAt(es, n - (i + 1)) \in Int /\ EndsAt(es, n - i) \in Int
      BY <1>2, <3>1
    <3>3. EndsAt(es, n) \in Int /\ EndsAt(es, n - i) <= EndsAt(es, n)
      BY <1>1, <2>2
    <3>. QED
      BY <3>1, <3>2, <3>3
  <2>. HIDE DEF Down
  <2>3. \A i \in 0..n : i # n /\ i \in Down => i + 1 \in Down
    BY <2>2
  <2>. QED
    BY <2>1, <2>3, ByInduction, Zenon
<1>5. ASSUME NEW i \in 0..n PROVE 0 <= EndsAt(es, i) /\ EndsAt(es, i) <= EndsAt(es, n)
  <2>0. n - i \in 0..n /\ n - (n - i) = i
    OBVIOUS
  <2>1. n - i \in Down /\ n - (n - i) = i
    BY <1>4, <2>0
  <2>. QED
    BY <1>3, <2>1
<1>6. ASSUME NEW i \in 1..n PROVE es[i].newStart >= 0 /\ es[i].newEnd <= EndsAt(es, n)
  <2>1. i \in 0..n /\ i - 1 \in 0..n
    OBVIOUS
  <2>2. 0 <= EndsAt(es, i - 1) /\ EndsAt(es, i) <= EndsAt(es, n)
    BY <1>5, <2>1
  <2>. QED
    BY <1>2, <2>2
<1>. QED
  BY <1>0, <1>5, <1>6

(* The places of n edits in an output of length l. *)
Bounded(es, n, l) ==
    /\ \A i \in 0..n : Shift(es, i) \in Int /\ EndsAt(es, i) \in Int /\ 0 <= EndsAt(es, i)
    /\ \A i \in 1..n : /\ es[i].newStart \in Int /\ es[i].newEnd \in Int /\ es[i].newStart >= 0
                       /\ es[i].newStart <= es[i].newEnd /\ es[i].newEnd <= l
    /\ EndsAt(es, n) <= l

LEMMA TrackedBounds ==
    ASSUME NEW es, NEW t, Tracked(es, t), NEW n \in Nat, NEW l \in Nat, n = Len(es), l = Len(t)
    PROVE  Bounded(es, n, l)
<1>1. es \in Seq(Edit) /\ EditsInOrder(es) /\ EndsAt(es, n) <= l
  BY DEF Tracked
<1>2. \A i \in 0..n : Shift(es, i) \in Int /\ EndsAt(es, i) \in Int /\ 0 <= EndsAt(es, i)
  BY <1>1, EditParts, EditsEnd
<1>3. ASSUME NEW i \in 1..n
      PROVE  /\ es[i].newStart \in Int /\ es[i].newEnd \in Int /\ es[i].newStart >= 0
             /\ es[i].newStart <= es[i].newEnd /\ es[i].newEnd <= l
  <2>1. es[i].newStart \in Int /\ es[i].newEnd \in Int
    BY <1>1, EditParts
  <2>2. es[i].newStart >= 0 /\ es[i].newEnd <= EndsAt(es, n)
    BY <1>1, EditsEnd
  <2>3. es[i].newStart <= es[i].newEnd
    BY <1>1 DEF EditsInOrder
  <2>4. EndsAt(es, n) \in Int
    BY <1>2
  <2>. QED
    BY <1>1, <2>1, <2>2, <2>3, <2>4
<1>. QED
  BY <1>1, <1>2, <1>3 DEF Bounded

(* Text is copied. *)
LEMMA CopyTracked ==
    ASSUME NEW es, NEW t, Tracked(es, t), NEW a \in Int, NEW b \in Int, a <= b,
           Len(t) + Shift(es, Len(es)) = a
    PROVE  /\ Tracked(es, t \o Copied(a, b))
           /\ Len(t \o Copied(a, b)) + Shift(es, Len(es)) = b
<1>. DEFINE u == Copied(a, b)
            v == t \o u
<1>1. es \in Seq(Edit) /\ t \in Seq(Int) /\ EditsInOrder(es) /\ EndsAt(es, Len(es)) <= Len(t)
  BY DEF Tracked
<1>2. PICK n \in Nat, l \in Nat : n = Len(es) /\ l = Len(t)
  BY <1>1
<1>3. u \in Seq(Int) /\ Len(u) = b - a /\ \A k \in 1..(b - a) : u[k] = a + k - 1
  BY CopiedIs
<1>. HIDE DEF u
<1>4. /\ v \in Seq(Int) /\ Len(v) = l + (b - a)
      /\ \A p \in 0..(l - 1) : v[p + 1] = t[p + 1]
      /\ \A p \in l..(l + (b - a) - 1) :
             p - l + 1 \in 1..(b - a) /\ v[p + 1] = u[p - l + 1]
  <2>1. /\ v \in Seq(Int) /\ Len(v) = Len(t) + Len(u)
        /\ \A p \in 0..(Len(t) - 1) : v[p + 1] = t[p + 1]
        /\ \A p \in Len(t)..(Len(t) + Len(u) - 1) :
               p - Len(t) + 1 \in 1..Len(u) /\ v[p + 1] = u[p - Len(t) + 1]
    BY <1>1, <1>3, Joined
  <2>. HIDE DEF v
  <2>. QED
    BY <1>2, <1>3, <2>1
<1>. HIDE DEF v
<1>5. Bounded(es, n, l)
  BY <1>2, TrackedBounds
<1>6. Copies(es, v)
  <2>. SUFFICES ASSUME NEW p \in 0..(Len(v) - 1), NEW i \in 0..n,
                       EndsAt(es, i) <= p, i # n => p < es[i + 1].newStart
                PROVE  v[p + 1] = p + Shift(es, i)
    BY <1>2 DEF Copies
  <2>1. CASE p < l
    <3>1. p \in 0..(l - 1)
      BY <1>4, <2>1
    <3>2. t[p + 1] = p + Shift(es, i)
      BY <1>2, <3>1 DEF Tracked, Copies
    <3>. QED
      BY <1>4, <3>1, <3>2
  <2>2. CASE ~(p < l)
    <3>1. i = n
      <4>. SUFFICES ASSUME i # n PROVE FALSE
        OBVIOUS
      <4>1. i + 1 \in 1..n
        OBVIOUS
      <4>2. /\ es[i + 1].newStart \in Int /\ es[i + 1].newEnd \in Int
            /\ es[i + 1].newStart <= es[i + 1].newEnd /\ es[i + 1].newEnd <= l
        BY <1>5, <4>1 DEF Bounded
      <4>. QED
        BY <2>2, <4>2
    <3>2. p \in l..(l + (b - a) - 1)
      BY <1>4, <2>2
    <3>3. v[p + 1] = a + (p - l + 1) - 1
      BY <1>3, <1>4, <3>2
    <3>4. l + Shift(es, n) = a /\ Shift(es, n) \in Int
      BY <1>2, <1>5 DEF Bounded
    <3>. QED
      BY <3>1, <3>2, <3>3, <3>4
  <2>. QED
    BY <2>1, <2>2
<1>7. StandsFor(es, v)
  <2>. SUFFICES ASSUME NEW i \in 1..n, NEW p \in es[i].newStart..(es[i].newEnd - 1)
                PROVE  v[p + 1] = es[i].oldStart
    BY <1>2 DEF StandsFor
  <2>0. /\ es[i].newStart \in Int /\ es[i].newEnd \in Int /\ es[i].newStart >= 0
        /\ es[i].newEnd <= l
    BY <1>5 DEF Bounded
  <2>1. p \in 0..(l - 1)
    BY <2>0
  <2>2. t[p + 1] = es[i].oldStart
    BY <1>2 DEF Tracked, StandsFor
  <2>. QED
    BY <1>4, <2>1, <2>2
<1>8. EndsAt(es, Len(es)) <= Len(v)
  <2>1. EndsAt(es, n) <= l /\ EndsAt(es, n) \in Int
    BY <1>5 DEF Bounded
  <2>. QED
    BY <1>2, <1>4, <2>1
<1>9. Len(v) + Shift(es, Len(es)) = b
  <2>1. l + Shift(es, n) = a /\ Shift(es, n) \in Int
    BY <1>2, <1>5 DEF Bounded
  <2>. QED
    BY <1>2, <1>4, <2>1
<1>10. Tracked(es, v)
  BY <1>1, <1>4, <1>6, <1>7, <1>8 DEF Tracked
<1>. QED
  BY <1>9, <1>10 DEF u, v

(* A replacement of c characters that stands for offset a, and its edit. *)
IsRun(r, c, a) == r = [k \in 1..c |-> a]
IsEdit(e, a, b, t, c) ==
    e = [oldStart |-> a, oldEnd |-> b, newStart |-> Len(t), newEnd |-> Len(t) + c]

LEMMA AtMostTrans ==
    ASSUME NEW x \in Int, NEW y \in Int, NEW z \in Int, x <= y, y <= z
    PROVE  x <= z
OBVIOUS

(* A construct is replaced. *)
LEMMA EditTracked ==
    ASSUME NEW es, NEW t, Tracked(es, t), NEW a \in Int, NEW b \in Int, NEW c \in Nat,
           Len(t) + Shift(es, Len(es)) = a, NEW r, IsRun(r, c, a), NEW e, IsEdit(e, a, b, t, c)
    PROVE  /\ Tracked(Append(es, e), t \o r)
           /\ Len(t \o r) + Shift(Append(es, e), Len(Append(es, e))) = b
<1>. DEFINE fs == Append(es, e)
            v == t \o r
<1>1. es \in Seq(Edit) /\ t \in Seq(Int) /\ EditsInOrder(es) /\ EndsAt(es, Len(es)) <= Len(t)
  BY DEF Tracked
<1>2. PICK n \in Nat, l \in Nat : n = Len(es) /\ l = Len(t)
  BY <1>1
<1>3. r \in Seq(Int) /\ Len(r) = c /\ \A k \in 1..c : r[k] = a
  BY RepeatedIs DEF IsRun
<1>4. /\ v \in Seq(Int) /\ Len(v) = l + c
      /\ \A p \in 0..(l - 1) : v[p + 1] = t[p + 1]
      /\ \A p \in l..(l + c - 1) : p - l + 1 \in 1..c /\ v[p + 1] = r[p - l + 1]
  <2>1. /\ v \in Seq(Int) /\ Len(v) = Len(t) + Len(r)
        /\ \A p \in 0..(Len(t) - 1) : v[p + 1] = t[p + 1]
        /\ \A p \in Len(t)..(Len(t) + Len(r) - 1) :
               p - Len(t) + 1 \in 1..Len(r) /\ v[p + 1] = r[p - Len(t) + 1]
    BY <1>1, <1>3, Joined
  <2>. HIDE DEF v
  <2>. QED
    BY <1>2, <1>3, <2>1
<1>. HIDE DEF v
<1>5. Bounded(es, n, l)
  BY <1>2, TrackedBounds
<1>6. e \in Edit /\ e.oldStart = a /\ e.oldEnd = b /\ e.newStart = l /\ e.newEnd = l + c
  BY <1>2 DEF Edit, IsEdit
<1>7. /\ fs \in Seq(Edit) /\ Len(fs) = n + 1 /\ fs[n + 1] = e
      /\ \A i \in 1..n : fs[i] = es[i]
  BY <1>1, <1>2, <1>6
<1>. HIDE DEF fs
<1>8. /\ \A i \in 0..n : Shift(fs, i) = Shift(es, i) /\ EndsAt(fs, i) = EndsAt(es, i)
      /\ Shift(fs, n + 1) = b - (l + c) /\ EndsAt(fs, n + 1) = l + c
  <2>1. \A i \in 0..n : Shift(fs, i) = Shift(es, i) /\ EndsAt(fs, i) = EndsAt(es, i)
    BY <1>7 DEF Shift, EndsAt
  <2>2. n + 1 # 0
    OBVIOUS
  <2>3. Shift(fs, n + 1) = e.oldEnd - e.newEnd /\ EndsAt(fs, n + 1) = e.newEnd
    BY <1>7, <2>2 DEF Shift, EndsAt
  <2>. QED
    BY <1>6, <2>1, <2>3
<1>9. EditsInOrder(fs)
  <2>. SUFFICES ASSUME NEW i \in 1..(n + 1)
                PROVE  /\ EndsAt(fs, i - 1) <= fs[i].newStart /\ fs[i].newStart <= fs[i].newEnd
                       /\ fs[i].newStart + Shift(fs, i - 1) = fs[i].oldStart
    BY <1>7 DEF EditsInOrder
  <2>1. CASE i \in 1..n
    <3>1. i - 1 \in 0..n
      OBVIOUS
    <3>. QED
      BY <1>1, <1>2, <1>7, <1>8, <2>1, <3>1 DEF EditsInOrder
  <2>2. CASE i = n + 1
    <3>1. i - 1 = n /\ n \in 0..n
      BY <2>2
    <3>2. EndsAt(es, n) <= l /\ l + Shift(es, n) = a
      BY <1>1, <1>2
    <3>3. EndsAt(fs, i - 1) = EndsAt(es, n) /\ Shift(fs, i - 1) = Shift(es, n) /\ fs[i] = e
      BY <1>7, <1>8, <2>2, <3>1
    <3>4. l <= l + c
      OBVIOUS
    <3>. QED
      BY <1>6, <3>2, <3>3, <3>4
  <2>. QED
    BY <2>1, <2>2
<1>10. Copies(fs, v)
  <2>. SUFFICES ASSUME NEW p \in 0..(Len(v) - 1), NEW i \in 0..(n + 1),
                       EndsAt(fs, i) <= p, i # n + 1 => p < fs[i + 1].newStart
                PROVE  v[p + 1] = p + Shift(fs, i)
    BY <1>7 DEF Copies
  <2>1. i \in 0..n
    BY <1>4, <1>8
  <2>2. CASE p < l
    <3>1. p \in 0..(l - 1)
      BY <1>4, <2>2
    <3>2. EndsAt(es, i) <= p /\ (i # n => p < es[i + 1].newStart)
      <4>1. i # n => i + 1 \in 1..n
        BY <2>1
      <4>. QED
        BY <1>7, <1>8, <2>1, <4>1
    <3>3. t[p + 1] = p + Shift(es, i)
      BY <1>2, <2>1, <3>1, <3>2 DEF Tracked, Copies
    <3>. QED
      BY <1>4, <1>8, <2>1, <3>1, <3>3
  <2>3. CASE ~(p < l)
    <3>1. i + 1 \in 1..(n + 1) /\ i # n + 1
      BY <2>1
    <3>2. fs[i + 1].newStart <= l
      <4>1. CASE i = n
        BY <1>6, <1>7, <4>1
      <4>2. CASE i # n
        <5>1. i + 1 \in 1..n
          BY <2>1, <4>2
        <5>2. /\ es[i + 1].newStart \in Int /\ es[i + 1].newEnd \in Int
              /\ es[i + 1].newStart <= es[i + 1].newEnd /\ es[i + 1].newEnd <= l
          BY <1>5, <5>1 DEF Bounded
        <5>3. fs[i + 1] = es[i + 1]
          BY <1>7, <5>1
        <5>4. es[i + 1].newStart <= l
          <6>1. PICK x \in Int, y \in Int : x = es[i + 1].newStart /\ y = es[i + 1].newEnd
            BY <5>2
          <6>2. x <= y /\ y <= l
            BY <5>2, <6>1
          <6>3. x <= l
            BY <6>2, AtMostTrans
          <6>. QED
            BY <6>1, <6>3
        <5>. QED
          BY <5>3, <5>4
      <4>. QED
        BY <4>1, <4>2
    <3>3. fs[i + 1].newStart \in Int
      BY <1>7, <3>1, EditParts
    <3>. QED
      BY <2>3, <3>1, <3>2, <3>3
  <2>. QED
    BY <2>2, <2>3
<1>11. StandsFor(fs, v)
  <2>. SUFFICES ASSUME NEW i \in 1..(n + 1), NEW p \in fs[i].newStart..(fs[i].newEnd - 1)
                PROVE  v[p + 1] = fs[i].oldStart
    BY <1>7 DEF StandsFor
  <2>1. CASE i \in 1..n
    <3>0. /\ es[i].newStart \in Int /\ es[i].newEnd \in Int /\ es[i].newStart >= 0
          /\ es[i].newEnd <= l /\ fs[i] = es[i]
      BY <1>5, <1>7, <2>1 DEF Bounded
    <3>1. p \in 0..(l - 1)
      BY <3>0
    <3>2. t[p + 1] = es[i].oldStart
      BY <1>2, <1>7, <2>1 DEF Tracked, StandsFor
    <3>. QED
      BY <1>4, <1>7, <2>1, <3>1, <3>2
  <2>2. CASE i = n + 1
    <3>1. p \in l..(l + c - 1)
      BY <1>6, <1>7, <2>2
    <3>. QED
      BY <1>3, <1>4, <1>6, <1>7, <2>2, <3>1
  <2>. QED
    BY <2>1, <2>2
<1>12. EndsAt(fs, Len(fs)) <= Len(v) /\ Len(v) + Shift(fs, Len(fs)) = b
  BY <1>4, <1>7, <1>8
<1>13. Tracked(fs, v)
  BY <1>4, <1>7, <1>9, <1>10, <1>11, <1>12 DEF Tracked
<1>. QED
  BY <1>12, <1>13 DEF fs, v

(* The loop of Origin: it has passed the edits that end before loc, or has *)
(* found the answer. *)
LEMMA OriginIs ==
    ASSUME Tracked(edits, text), NEW loc \in Offsets
    PROVE  Origin(loc) = text[loc + 1]
<1>0. PICK n \in Nat, l \in Nat : n = Len(edits) /\ l = Len(text)
  BY DEF Tracked
<1>. DEFINE Pass(s, e) ==
                IF s.found \/ loc < e.newStart THEN [found |-> TRUE, off |-> s.off]
                ELSE IF loc < e.newEnd THEN [found |-> TRUE, off |-> e.oldStart]
                ELSE [found |-> FALSE,
                      off |-> s.off + (e.oldEnd - e.oldStart) - (e.newEnd - e.newStart)]
            first == [found |-> FALSE, off |-> loc]
            Follows(g, i) == g = [j \in 0..i |-> IF j = 0 THEN first ELSE Pass(g[j - 1], edits[j])]
            Some == {i \in 0..n : \E g : Follows(g, i)}
<1>1. \E g : Follows(g, n)
  <2>. HIDE DEF Pass, first
  <2>1. 0 \in Some
    <3>. DEFINE g == [j \in 0..0 |-> first]
    <3>1. Follows(g, 0) /\ 0 \in 0..n
      OBVIOUS
    <3>. QED
      BY <3>1
  <2>2. ASSUME NEW i \in 0..n, i # n, i \in Some PROVE i + 1 \in Some
    <3>1. PICK g : Follows(g, i)
      BY <2>2
    <3>. DEFINE h == [j \in 0..(i + 1) |-> IF j \in 0..i THEN g[j] ELSE Pass(g[i], edits[i + 1])]
    <3>2. ASSUME NEW j \in 0..(i + 1)
          PROVE  h[j] = IF j = 0 THEN first ELSE Pass(h[j - 1], edits[j])
      <4>1. CASE j \in 0..i
        <5>1. h[j] = g[j] /\ (j # 0 => h[j - 1] = g[j - 1])
          BY <4>1
        <5>2. g[j] = IF j = 0 THEN first ELSE Pass(g[j - 1], edits[j])
          BY <3>1, <4>1
        <5>. QED
          BY <5>1, <5>2
      <4>2. CASE j = i + 1
        <5>1. h[j] = Pass(g[i], edits[j]) /\ h[j - 1] = g[i] /\ j # 0
          BY <4>2
        <5>. QED
          BY <5>1
      <4>. QED
        BY <4>1, <4>2
    <3>3. Follows(h, i + 1)
      BY <3>2
    <3>4. i + 1 \in 0..n
      BY <2>2
    <3>. QED
      BY <3>3, <3>4
  <2>. HIDE DEF Some
  <2>3. \A i \in 0..n : i # n /\ i \in Some => i + 1 \in Some
    BY <2>2
  <2>4. \A i \in 0..n : i \in Some
    BY <2>1, <2>3, ByInduction, Zenon
  <2>5. n \in Some
    BY <2>4
  <2>. QED
    BY <2>5 DEF Some
<1>. DEFINE a == CHOOSE g : Follows(g, n)
<1>2. Origin(loc) = a[n].off
  BY <1>0 DEF Origin
<1>3. Follows(a, n)
  BY <1>1
<1>. HIDE DEF a
<1>4. \A i \in 0..n : a[i] = IF i = 0 THEN first ELSE Pass(a[i - 1], edits[i])
  BY <1>3
<1>5. loc \in 0..(l - 1) /\ loc \in Int
  BY <1>0 DEF Offsets
<1>6. Bounded(edits, n, l)
  BY <1>0, TrackedBounds
<1>. DEFINE Fine == {i \in 0..n : \/ /\ a[i].found = FALSE /\ a[i].off = loc + Shift(edits, i)
                                     /\ EndsAt(edits, i) <= loc
                                  \/ a[i].found = TRUE /\ a[i].off = text[loc + 1]}
<1>7. n \in Fine
  <2>1. 0 \in Fine
    <3>1. a[0] = first
      <4>. HIDE DEF Pass, first
      <4>1. 0 \in 0..n
        OBVIOUS
      <4>. QED
        BY <1>4, <4>1
    <3>2. Shift(edits, 0) = 0 /\ EndsAt(edits, 0) = 0
      BY DEF Shift, EndsAt
    <3>. QED
      BY <1>5, <3>1, <3>2
  <2>2. ASSUME NEW i \in 0..n, i # n, i \in Fine PROVE i + 1 \in Fine
    <3>0. i + 1 \in 0..n /\ i + 1 \in 1..n /\ (i + 1) - 1 = i /\ i + 1 # 0
      BY <2>2
    <3>1. PICK e : e = edits[i + 1]
      OBVIOUS
    <3>2. a[i + 1] = Pass(a[i], e)
      <4>. HIDE DEF Pass, first
      <4>. QED
        BY <1>4, <3>0, <3>1
    <3>3. /\ e.newStart \in Int /\ e.newEnd \in Int /\ e.oldStart \in Int /\ e.oldEnd \in Int
          /\ e.newStart + Shift(edits, i) = e.oldStart
          /\ Shift(edits, i) \in Int /\ Shift(edits, i + 1) = e.oldEnd - e.newEnd
          /\ EndsAt(edits, i + 1) = e.newEnd
      <4>1. /\ e.newStart \in Int /\ e.newEnd \in Int /\ e.oldStart \in Int /\ e.oldEnd \in Int
            /\ Shift(edits, i) \in Int
        BY <1>0, <3>0, <3>1, EditParts DEF Tracked
      <4>2. e.newStart + Shift(edits, i) = e.oldStart
        BY <1>0, <3>0, <3>1 DEF Tracked, EditsInOrder
      <4>3. Shift(edits, i + 1) = e.oldEnd - e.newEnd /\ EndsAt(edits, i + 1) = e.newEnd
        BY <3>0, <3>1 DEF Shift, EndsAt
      <4>. QED
        BY <4>1, <4>2, <4>3
    <3>4. CASE a[i].found = TRUE /\ a[i].off = text[loc + 1]
      <4>1. a[i + 1] = [found |-> TRUE, off |-> a[i].off]
        BY <3>2, <3>4
      <4>. QED
        BY <3>0, <3>4, <4>1
    <3>5. CASE /\ a[i].found = FALSE /\ a[i].off = loc + Shift(edits, i)
               /\ EndsAt(edits, i) <= loc
      <4>1. CASE loc < e.newStart
        <5>1. a[i + 1] = [found |-> TRUE, off |-> a[i].off]
          BY <3>2, <4>1
        <5>2. text[loc + 1] = loc + Shift(edits, i)
          BY <1>0, <1>5, <3>1, <3>5, <4>1 DEF Tracked, Copies
        <5>. QED
          BY <3>0, <3>5, <5>1, <5>2
      <4>2. CASE ~(loc < e.newStart) /\ loc < e.newEnd
        <5>1. a[i + 1] = [found |-> TRUE, off |-> e.oldStart]
          BY <3>2, <3>5, <4>2
        <5>2. loc \in e.newStart..(e.newEnd - 1)
          BY <1>5, <3>3, <4>2
        <5>3. text[loc + 1] = e.oldStart
          BY <1>0, <3>0, <3>1, <5>2 DEF Tracked, StandsFor
        <5>. QED
          BY <3>0, <5>1, <5>3
      <4>3. CASE ~(loc < e.newStart) /\ ~(loc < e.newEnd)
        <5>1. a[i + 1] = [found |-> FALSE,
                          off |-> a[i].off + (e.oldEnd - e.oldStart) - (e.newEnd - e.newStart)]
          BY <3>2, <3>5, <4>3
        <5>2. loc + Shift(edits, i) + (e.oldEnd - e.oldStart) - (e.newEnd - e.newStart)
                = loc + Shift(edits, i + 1)
          BY <1>5, <3>3
        <5>3. EndsAt(edits, i + 1) <= loc
          BY <1>5, <3>3, <4>3
        <5>. QED
          BY <3>0, <3>5, <5>1, <5>2, <5>3
      <4>. QED
        BY <4>1, <4>2, <4>3
    <3>. QED
      BY <2>2, <3>4, <3>5
  <2>. HIDE DEF Fine
  <2>3. \A i \in 0..n : i # n /\ i \in Fine => i + 1 \in Fine
    BY <2>2
  <2>4. \A i \in 0..n : i \in Fine
    BY <2>1, <2>3, ByInduction, Zenon
  <2>. QED
    BY <2>4
<1>8. a[n].off = text[loc + 1]
  <2>1. CASE a[n].off = loc + Shift(edits, n) /\ EndsAt(edits, n) <= loc
    BY <1>0, <1>5, <2>1 DEF Tracked, Copies
  <2>. QED
    BY <1>7, <2>1
<1>. QED
  BY <1>2, <1>8
-----------------------------------------------------------------------------

LEMMA OccParts ==
    ASSUME occs \in Seq(Occurrence)
    PROVE  /\ Len(occs) \in Nat /\ DOMAIN occs = 1..Len(occs)
           /\ \A i \in DOMAIN occs : /\ occs[i].start \in Int /\ occs[i].len \in Nat
                                     /\ EndOf(occs[i]) \in Int
<1>1. Len(occs) \in Nat /\ DOMAIN occs = 1..Len(occs) /\ \A i \in DOMAIN occs : occs[i] \in Occurrence
  OBVIOUS
<1>2. \A i \in DOMAIN occs : occs[i].start \in Int /\ occs[i].len \in Nat
  BY <1>1, OccurrenceParts, Zenon
<1>. QED
  BY <1>1, <1>2 DEF EndOf

(* The lexer does not go back. *)
LEMMA ScanAtEnd ==
    ASSUME NInv, OccsInOrder
    PROVE  from \in Int /\ ScanAt \in Int /\ from <= ScanAt
<1>1. from \in Int /\ ScanAt \in Int
  BY ScanAtType DEF NInv, Typed
<1>2. CASE occs = <<>>
  BY <1>1, <1>2 DEF ScanAt
<1>3. CASE occs # <<>>
  <2>1. Len(occs) \in DOMAIN occs
    BY <1>3 DEF NInv, Typed
  <2>2. /\ occs[Len(occs)].start \in Int /\ occs[Len(occs)].len \in Nat
        /\ from < occs[Len(occs)].start
    BY <2>1, OccParts DEF NInv, Typed, OccsInOrder
  <2>3. ScanAt = occs[Len(occs)].start + occs[Len(occs)].len
    BY <1>3 DEF ScanAt, EndOf
  <2>. QED
    BY <1>1, <2>2, <2>3
<1>. QED
  BY <1>2, <1>3

LEMMA OrderKept ==
    ASSUME OccsInOrder, occs \in Seq(Occurrence), occs' \in Seq(Occurrence),
           Len(occs') = Len(occs), from' = from,
           \A i \in DOMAIN occs : occs'[i].start = occs[i].start /\ occs'[i].len = occs[i].len
    PROVE  OccsInOrder'
<1>1. DOMAIN occs' = DOMAIN occs /\ DOMAIN occs = 1..Len(occs) /\ Len(occs) \in Nat
  OBVIOUS
<1>2. \A i \in DOMAIN occs : EndOf(occs'[i]) = EndOf(occs[i])
  BY DEF EndOf
<1>3. ScanAt' = ScanAt
  <2>1. CASE Len(occs) = 0
    BY <2>1 DEF ScanAt
  <2>2. CASE Len(occs) # 0
    <3>1. Len(occs) \in DOMAIN occs /\ occs # <<>> /\ occs' # <<>>
      BY <1>1, <2>2
    <3>. QED
      BY <1>2, <3>1 DEF ScanAt
  <2>. QED
    BY <2>1, <2>2
<1>4. ASSUME NEW i \in DOMAIN occs'
      PROVE  /\ occs'[i].start = (IF i = 1 THEN from' ELSE EndOf(occs'[i - 1])) + 1
             /\ from' < occs'[i].start /\ occs'[i].len # 0 /\ EndOf(occs'[i]) <= ScanAt'
  <2>1. i # 1 => i - 1 \in DOMAIN occs
    BY <1>1
  <2>2. /\ occs[i].start = (IF i = 1 THEN from ELSE EndOf(occs[i - 1])) + 1
        /\ from < occs[i].start /\ occs[i].len # 0 /\ EndOf(occs[i]) <= ScanAt
    BY <1>1 DEF OccsInOrder
  <2>. QED
    BY <1>1, <1>2, <1>3, <2>1, <2>2
<1>5. \A i, j \in DOMAIN occs' : i < j => EndOf(occs'[i]) < occs'[j].start
  BY <1>1, <1>2 DEF OccsInOrder
<1>. QED
  BY <1>4, <1>5 DEF OccsInOrder

(* The steps that give numbers. *)
LEMMA TUnread ==
    ASSUME NInv, TInv, UNCHANGED <<from, edits, text>>, occs' \in Seq(Occurrence),
           Len(occs') = Len(occs),
           \A i \in DOMAIN occs : occs'[i].start = occs[i].start /\ occs'[i].len = occs[i].len,
           phase # "done", ReadTo' = ReadTo
    PROVE  TInv'
<1>1. OccsInOrder'
  BY OrderKept DEF NInv, Typed, TInv
<1>. QED
  BY <1>1 DEF TInv

LEMMA InitT == Init => TInv
<1>. SUFFICES ASSUME Init PROVE TInv
  OBVIOUS
<1>1. text = <<>> /\ edits = <<>> /\ from = 0 /\ occs = <<>> /\ phase = "scan" /\ at = 0
  BY DEF Init
<1>2. Len(text) = 0 /\ Len(edits) = 0 /\ Shift(edits, 0) = 0 /\ EndsAt(edits, 0) = 0
  BY <1>1 DEF Shift, EndsAt
<1>3. Tracked(edits, text)
  <2>1. EditsInOrder(edits) /\ Copies(edits, text) /\ StandsFor(edits, text)
    BY <1>2 DEF EditsInOrder, Copies, StandsFor
  <2>. QED
    BY <1>1, <1>2, <2>1 DEF Tracked
<1>4. OccsInOrder
  BY <1>1 DEF OccsInOrder
<1>. QED
  BY <1>1, <1>2, <1>3, <1>4 DEF TInv, ReadTo

LEMMA ConstructLen == ASSUME NEW c \in Constructs PROVE c.len # 0
<1>1. CASE c \in NamedConstructs
  <2>1. PICK d \in Calls, x \in Names : c = Construct(d.kind, x, 0, FALSE, d.len)
    BY <1>1 DEF NamedConstructs, Construct
  <2>2. d.len # 0
    BY DEF Calls
  <2>. QED
    BY <2>1, <2>2 DEF Construct
<1>2. CASE c \in NumberedConstructs
  <2>1. PICK n \in 0..MaxNumber : c = Construct("native", "", n, TRUE, 2)
    BY <1>2 DEF NumberedConstructs
  <2>2. c.len = 2
    BY <2>1, Zenon DEF Construct
  <2>. QED
    BY <2>2
<1>3. CASE c \in AnonymousConstructs
  <2>1. c = Construct("native", "", 0, FALSE, 1)
    BY <1>3 DEF AnonymousConstructs
  <2>2. c.len = 1
    BY <2>1, Zenon DEF Construct
  <2>. QED
    BY <2>2
<1>. QED
  BY <1>1, <1>2, <1>3 DEF Constructs

LEMMA ScanT ==
    ASSUME NInv, TInv, NEW c \in Constructs, Scan(c)
    PROVE  TInv'
<1>1. PICK o : o = [kind |-> c.kind, name |-> c.name, number |-> c.number,
                    explicit |-> c.explicit, len |-> c.len, start |-> ScanAt + 1]
  OBVIOUS
<1>2. occs' = Append(occs, o) /\ phase = "scan" /\ UNCHANGED <<phase, from, edits, text>>
  BY <1>1 DEF Scan
<1>3. PICK n \in Nat, z \in Int : n = Len(occs) /\ z = ScanAt /\ from \in Int /\ from <= z
  BY ScanAtEnd DEF NInv, Typed, TInv
<1>4. o.start = z + 1 /\ o.len \in Nat /\ o.len # 0 /\ EndOf(o) = z + 1 + o.len
  <2>1. c.len \in Nat
    BY ConstructType
  <2>. QED
    BY <1>1, <1>3, <2>1, ConstructLen DEF EndOf
<1>5. /\ DOMAIN occs = 1..n /\ DOMAIN occs' = 1..(n + 1) /\ Len(occs') = n + 1
      /\ occs'[n + 1] = o /\ \A i \in 1..n : occs'[i] = occs[i]
  BY <1>2, <1>3 DEF NInv, Typed
<1>6. ScanAt' = EndOf(o)
  BY <1>2, <1>5 DEF ScanAt, EndOf
<1>7. \A i \in 1..n : /\ EndOf(occs[i]) \in Int /\ EndOf(occs[i]) <= z
                       /\ occs[i].start \in Int /\ from < occs[i].start /\ occs[i].len # 0
  BY <1>3, <1>5, OccParts DEF NInv, Typed, TInv, OccsInOrder
<1>8. ASSUME NEW i \in DOMAIN occs'
      PROVE  /\ occs'[i].start = (IF i = 1 THEN from' ELSE EndOf(occs'[i - 1])) + 1
             /\ from' < occs'[i].start /\ occs'[i].len # 0 /\ EndOf(occs'[i]) <= ScanAt'
  <2>1. CASE i \in 1..n
    <3>1. occs[i].start = (IF i = 1 THEN from ELSE EndOf(occs[i - 1])) + 1
      BY <1>5, <2>1 DEF TInv, OccsInOrder
    <3>2. i # 1 => occs'[i - 1] = occs[i - 1]
      BY <1>5, <2>1
    <3>3. EndOf(occs[i]) <= EndOf(o)
      BY <1>4, <1>7, <2>1
    <3>. QED
      BY <1>2, <1>5, <1>6, <1>7, <2>1, <3>1, <3>2, <3>3
  <2>2. CASE i = n + 1
    <3>1. z = IF i = 1 THEN from ELSE EndOf(occs'[i - 1])
      <4>1. CASE n = 0
        <5>1. occs \in Seq(Occurrence) /\ Len(occs) = 0
          BY <1>3, <4>1 DEF NInv, Typed
        <5>2. occs = <<>>
          BY <5>1
        <5>3. i = 1
          BY <2>2, <4>1
        <5>. QED
          BY <1>3, <5>2, <5>3 DEF ScanAt
      <4>2. CASE n # 0
        <5>1. n \in 1..n /\ i - 1 = n /\ i # 1 /\ occs # <<>>
          BY <1>3, <2>2, <4>2
        <5>. QED
          BY <1>3, <1>5, <5>1 DEF ScanAt
      <4>. QED
        BY <4>1, <4>2
    <3>2. o.start = (IF i = 1 THEN from ELSE EndOf(occs'[i - 1])) + 1
      BY <1>4, <3>1
    <3>3. from < o.start /\ EndOf(o) <= EndOf(o)
      BY <1>3, <1>4
    <3>. QED
      BY <1>2, <1>4, <1>5, <1>6, <2>2, <3>2, <3>3
  <2>. QED
    BY <1>5, <2>1, <2>2
<1>9. ASSUME NEW i \in DOMAIN occs', NEW j \in DOMAIN occs', i < j
      PROVE  EndOf(occs'[i]) < occs'[j].start
  <2>1. i \in 1..n
    BY <1>5, <1>9
  <2>2. CASE j \in 1..n
    BY <1>5, <1>9, <2>1, <2>2 DEF TInv, OccsInOrder
  <2>3. CASE j = n + 1
    BY <1>4, <1>5, <1>7, <2>1, <2>3
  <2>. QED
    BY <1>5, <2>2, <2>3
<1>10. OccsInOrder'
  BY <1>8, <1>9 DEF OccsInOrder
<1>11. ReadTo' = ReadTo
  BY <1>2 DEF ReadTo
<1>. QED
  BY <1>2, <1>10, <1>11 DEF TInv

(* A statement ends and the next one begins where it ended. *)
LEMMA RestartT ==
    ASSUME NEW end, Restart(end), Tracked(edits', text'),
           Len(text') + Shift(edits', Len(edits')) = end
    PROVE  TInv'
<1>1. occs' = <<>> /\ phase' = "scan" /\ from' = end
  BY DEF Restart
<1>2. OccsInOrder'
  BY <1>1 DEF OccsInOrder
<1>. QED
  BY <1>1, <1>2 DEF TInv, ReadTo

LEMMA RejectT == NInv /\ TInv /\ Reject => TInv'
<1>. SUFFICES ASSUME NInv, TInv, Reject PROVE TInv'
  OBVIOUS
<1>1. /\ phase = "scan" /\ text' = text \o Copied(from, ScanAt + 1) /\ Restart(ScanAt + 1)
      /\ edits' = edits
  BY DEF Reject
<1>2. from \in Int /\ ScanAt + 1 \in Int /\ from <= ScanAt + 1
  BY ScanAtEnd DEF TInv
<1>3. Tracked(edits, text) /\ Len(text) + Shift(edits, Len(edits)) = from
  BY <1>1 DEF TInv, ReadTo
<1>4. /\ Tracked(edits, text \o Copied(from, ScanAt + 1))
      /\ Len(text \o Copied(from, ScanAt + 1)) + Shift(edits, Len(edits)) = ScanAt + 1
  BY <1>2, <1>3, CopyTracked
<1>. QED
  BY <1>1, <1>4, RestartT

LEMMA BeginT == NInv /\ TInv /\ Begin => TInv'
<1>. SUFFICES ASSUME NInv, TInv, Begin PROVE TInv'
  OBVIOUS
<1>. DEFINE Given(i) == IF occs[i].explicit THEN occs[i].number ELSE Count(i)
            natives == {i \in DOMAIN occs : occs[i].kind = "native" /\ HasNamedSupport}
<1>1. /\ occs' = [i \in DOMAIN occs |->
                    IF i \in natives THEN [occs[i] EXCEPT !.number = Given(i)] ELSE occs[i]]
      /\ phase = "scan" /\ phase' = "number" /\ UNCHANGED <<from, edits, text>>
  BY DEF Begin, tables
<1>2. occs \in Seq(Occurrence) /\ \A i \in DOMAIN occs : occs[i] \in Occurrence
  BY DEF NInv, Typed
<1>3. \A i \in DOMAIN occs : occs'[i].start = occs[i].start /\ occs'[i].len = occs[i].len
  <2>1. TAKE i \in DOMAIN occs
  <2>2. CASE i \in natives
    <3>1. occs'[i] = [occs[i] EXCEPT !.number = Given(i)]
      BY <1>1, <2>2
    <3>. HIDE DEF Given
    <3>. QED
      BY <1>2, <3>1 DEF Occurrence
  <2>3. CASE i \notin natives
    BY <1>1, <2>3
  <2>. QED
    BY <2>2, <2>3
<1>4. occs' \in Seq(Occurrence) /\ Len(occs') = Len(occs)
  <2>1. NInv'
    BY BeginHolds
  <2>2. occs' \in Seq(Occurrence) /\ DOMAIN occs' = DOMAIN occs
    BY <1>1, <2>1 DEF NInv, Typed
  <2>. QED
    BY <1>2, <2>2
<1>5. ReadTo' = ReadTo
  BY <1>1 DEF ReadTo
<1>. QED
  BY <1>1, <1>3, <1>4, <1>5, TUnread

(* ParamSet.Add: only the number of one occurrence changes. *)
LEMMA AddT ==
    ASSUME NInv, TInv, phase = "number", UNCHANGED <<phase, from, edits, text>>,
           NEW k \in DOMAIN occs, NEW n \in Nat, occs' = [occs EXCEPT ![k].number = n]
    PROVE  TInv'
<1>1. occs \in Seq(Occurrence)
  BY DEF NInv, Typed
<1>2. /\ occs' \in Seq(Occurrence) /\ Len(occs') = Len(occs)
      /\ \A i \in DOMAIN occs : occs'[i].start = occs[i].start /\ occs'[i].len = occs[i].len
  BY <1>1, SetNumber
<1>3. ReadTo' = ReadTo
  BY DEF ReadTo
<1>. QED
  BY <1>2, <1>3, TUnread

LEMMA NumberT == NInv /\ TInv /\ (SkipAdd \/ AddAgain \/ AddNew \/ EndNumber) => TInv'
<1>. SUFFICES ASSUME NInv, TInv, SkipAdd \/ AddAgain \/ AddNew \/ EndNumber PROVE TInv'
  OBVIOUS
<1>1. occs \in Seq(Occurrence) /\ at \in 0..Len(occs)
  BY DEF NInv, Typed
<1>2. CASE SkipAdd
  <2>1. phase = "number" /\ UNCHANGED <<phase, from, occs, edits, text>>
    BY <1>2 DEF SkipAdd
  <2>2. ReadTo' = ReadTo
    BY <2>1 DEF ReadTo
  <2>. QED
    BY <1>1, <2>1, <2>2, TUnread
<1>3. CASE AddAgain
  <2>. DEFINE k == at + 1
              x == occs[k].name
  <2>1. /\ phase = "number" /\ at < Len(occs) /\ x \in DOMAIN named /\ HasNamedSupport
        /\ occs' = [occs EXCEPT ![k].number = locs[x]]
        /\ UNCHANGED <<phase, from, edits, text>>
    BY <1>3 DEF AddAgain, Next1, tables
  <2>2. k \in DOMAIN occs
    BY <1>1, <2>1
  <2>3. locs[x] \in Nat
    BY <2>1 DEF NInv, NameHasNumber, Numbering, Typed
  <2>. QED
    BY <2>1, <2>2, <2>3, AddT
<1>4. CASE AddNew
  <2>. DEFINE k == at + 1
  <2>1. PICK n \in Numbers : occs' = [occs EXCEPT ![k].number = n]
    BY <1>4 DEF AddNew
  <2>2. phase = "number" /\ at < Len(occs) /\ UNCHANGED <<phase, from, edits, text>>
    BY <1>4 DEF AddNew, tables
  <2>3. k \in DOMAIN occs
    BY <1>1, <2>2
  <2>4. n \in Nat
    BY BoundsAssumption DEF Numbers
  <2>. QED
    BY <2>1, <2>2, <2>3, <2>4, AddT
<1>5. CASE EndNumber
  <2>1. /\ phase = "number" /\ phase' = "rewrite" /\ at' = 0
        /\ UNCHANGED <<from, occs, edits, text>>
    BY <1>5 DEF EndNumber
  <2>2. ReadTo' = ReadTo
    BY <2>1 DEF ReadTo, Prev
  <2>. QED
    BY <1>1, <2>1, <2>2, TUnread
<1>. QED
  BY <1>2, <1>3, <1>4, <1>5

(* The next construct of the rewriting, one character after the last. *)
LEMMA NextStart ==
    ASSUME NInv, OccsInOrder, phase = "rewrite", at < Len(occs), NEW o, o = occs[at + 1]
    PROVE  /\ at + 1 \in DOMAIN occs /\ at \in Nat /\ at + 1 # 0
           /\ Prev \in Int /\ o.start = Prev + 1 /\ o.start \in Int
           /\ o.len \in Nat /\ o.len # 0 /\ EndOf(o) \in Int /\ EndOf(o) = o.start + o.len
<1>1. occs \in Seq(Occurrence) /\ at \in Nat /\ at + 1 \in DOMAIN occs /\ from \in Int
  BY DEF NInv, Typed
<1>2. o.start \in Int /\ o.len \in Nat /\ EndOf(o) \in Int /\ o.len # 0
  BY <1>1, OccParts DEF OccsInOrder
<1>3. o.start = Prev + 1 /\ Prev \in Int
  <2>1. o.start = (IF at + 1 = 1 THEN from ELSE EndOf(occs[(at + 1) - 1])) + 1
    BY <1>1 DEF OccsInOrder
  <2>2. CASE at = 0
    BY <1>1, <2>1, <2>2 DEF Prev
  <2>3. CASE at # 0
    <3>1. at + 1 # 1 /\ (at + 1) - 1 = at /\ at \in DOMAIN occs
      BY <1>1, <2>3
    <3>2. EndOf(occs[at]) \in Int
      BY <1>1, <3>1, OccParts
    <3>. QED
      BY <2>1, <2>3, <3>1, <3>2 DEF Prev
  <2>. QED
    BY <2>2, <2>3
<1>4. EndOf(o) = o.start + o.len /\ at + 1 # 0
  BY <1>1 DEF EndOf
<1>. QED
  BY <1>1, <1>2, <1>3, <1>4

LEMMA ReplaceT == NInv /\ TInv /\ Replace => TInv'
<1>. SUFFICES ASSUME NInv, TInv, Replace PROVE TInv'
  OBVIOUS
<1>1. PICK o : o = occs[at + 1]
  OBVIOUS
<1>. DEFINE written == text \o Copied(Prev, o.start)
            repeated == [k \in 1..ReplacementLen(o) |-> o.start]
            e == [oldStart |-> o.start, oldEnd |-> EndOf(o), newStart |-> Len(written),
                  newEnd |-> Len(written) + ReplacementLen(o)]
<1>2. phase = "rewrite" /\ at < Len(occs) /\ at' = at + 1 /\ UNCHANGED <<phase, from, occs>>
  BY DEF Replace
<1>3. /\ at + 1 \in DOMAIN occs /\ at \in Nat /\ at + 1 # 0
      /\ Prev \in Int /\ o.start = Prev + 1 /\ o.start \in Int
      /\ o.len \in Nat /\ EndOf(o) \in Int /\ EndOf(o) = o.start + o.len
  BY <1>1, <1>2, NextStart DEF TInv
<1>4. Tracked(edits, text) /\ Len(text) + Shift(edits, Len(edits)) = Prev
  BY <1>2 DEF TInv, ReadTo
<1>5. Tracked(edits, written) /\ Len(written) + Shift(edits, Len(edits)) = o.start
  <2>1. Prev <= o.start
    BY <1>3
  <2>. QED
    BY <1>3, <1>4, <2>1, CopyTracked
<1>6. Tracked(edits', text') /\ Len(text') + Shift(edits', Len(edits')) = EndOf(o)
  <2>1. CASE Kept(o)
    <3>1. text' = written \o Copied(o.start, EndOf(o)) /\ edits' = edits
      BY <1>1, <2>1 DEF Replace, Next1
    <3>2. o.start <= EndOf(o)
      BY <1>3
    <3>. HIDE DEF written
    <3>. QED
      BY <1>3, <1>5, <3>1, <3>2, CopyTracked
  <2>2. CASE ~Kept(o)
    <3>1. ReplacementLen(o) \in Nat
      BY DEF ReplacementLen
    <3>2. Len(repeated) = ReplacementLen(o)
      BY <3>1
    <3>3. text' = written \o repeated
      BY <1>1, <2>2 DEF Replace, Next1
    <3>4. edits' = Append(edits, e)
      <4>1. edits' = Append(edits, [oldStart |-> o.start, oldEnd |-> EndOf(o),
                                    newStart |-> Len(written),
                                    newEnd |-> Len(written) + Len(repeated)])
        BY <1>1, <2>2 DEF Replace, Next1
      <4>. QED
        BY <3>2, <4>1
    <3>5. PICK c \in Nat : c = ReplacementLen(o)
      BY <3>1
    <3>6. PICK w, r, f : w = written /\ r = repeated /\ f = e
      OBVIOUS
    <3>7. /\ r = [k \in 1..c |-> o.start]
          /\ f = [oldStart |-> o.start, oldEnd |-> EndOf(o), newStart |-> Len(w),
                  newEnd |-> Len(w) + c]
      BY <3>5, <3>6
    <3>. HIDE DEF written, repeated, e
    <3>8. /\ Tracked(Append(edits, f), w \o r)
          /\ Len(w \o r) + Shift(Append(edits, f), Len(Append(edits, f))) = EndOf(o)
      <4>1. Tracked(edits, w) /\ Len(w) + Shift(edits, Len(edits)) = o.start
        BY <1>5, <3>6
      <4>2. PICK a \in Int, b \in Int : a = o.start /\ b = EndOf(o)
        BY <1>3
      <4>3. IsRun(r, c, a) /\ IsEdit(f, a, b, w, c) /\ Len(w) + Shift(edits, Len(edits)) = a
        BY <3>7, <4>1, <4>2 DEF IsRun, IsEdit
      <4>. QED
        BY <4>1, <4>2, <4>3, EditTracked
    <3>. QED
      BY <3>3, <3>4, <3>6, <3>8
  <2>. QED
    BY <2>1, <2>2
<1>7. ReadTo' = EndOf(o)
  BY <1>1, <1>2, <1>3 DEF ReadTo, Prev
<1>8. OccsInOrder'
  BY <1>2 DEF TInv, OccsInOrder, ScanAt
<1>. QED
  BY <1>2, <1>6, <1>7, <1>8 DEF TInv

LEMMA PrevType == ASSUME NInv PROVE Prev \in Int
<1>1. occs \in Seq(Occurrence) /\ at \in 0..Len(occs) /\ from \in Int
  BY DEF NInv, Typed
<1>2. CASE at = 0
  BY <1>1, <1>2 DEF Prev
<1>3. CASE at # 0
  <2>1. at \in DOMAIN occs
    BY <1>1, <1>3
  <2>. QED
    BY <1>1, <1>3, <2>1, OccParts DEF Prev
<1>. QED
  BY <1>2, <1>3

LEMMA EndStmtT == NInv /\ TInv /\ EndStmt => TInv'
<1>. SUFFICES ASSUME NInv, TInv, EndStmt PROVE TInv'
  OBVIOUS
<1>1. /\ phase = "rewrite" /\ text' = text \o Copied(Prev, Prev + 1) /\ Restart(Prev + 1)
      /\ edits' = edits
  BY DEF EndStmt
<1>2. Prev \in Int /\ Prev + 1 \in Int /\ Prev <= Prev + 1
  BY PrevType
<1>3. Tracked(edits, text) /\ Len(text) + Shift(edits, Len(edits)) = Prev
  BY <1>1 DEF TInv, ReadTo
<1>4. /\ Tracked(edits, text \o Copied(Prev, Prev + 1))
      /\ Len(text \o Copied(Prev, Prev + 1)) + Shift(edits, Len(edits)) = Prev + 1
  BY <1>2, <1>3, CopyTracked
<1>. QED
  BY <1>1, <1>4, RestartT

LEMMA FinishT == NInv /\ TInv /\ Finish => TInv'
<1>. SUFFICES ASSUME NInv, TInv, Finish PROVE TInv'
  OBVIOUS
<1>1. /\ phase = "scan" /\ text' = text \o Copied(from, from + 1) /\ phase' = "done"
      /\ UNCHANGED <<from, occs, edits>>
  BY DEF Finish
<1>2. from \in Int /\ from + 1 \in Int /\ from <= from + 1
  BY DEF NInv, Typed
<1>3. Tracked(edits, text) /\ Len(text) + Shift(edits, Len(edits)) = from
  BY <1>1 DEF TInv, ReadTo
<1>4. Tracked(edits, text \o Copied(from, from + 1))
  BY <1>2, <1>3, CopyTracked
<1>5. OccsInOrder'
  BY <1>1 DEF TInv, OccsInOrder, ScanAt
<1>. QED
  BY <1>1, <1>4, <1>5 DEF TInv

LEMMA TInvStep == NInv /\ TInv /\ [Next]_vars => TInv'
<1>. SUFFICES ASSUME NInv, TInv, [Next]_vars PROVE TInv'
  OBVIOUS
<1>1. CASE \E c \in Constructs : Scan(c)
  BY <1>1, ScanT
<1>2. CASE Reject \/ Begin
  BY <1>2, RejectT, BeginT
<1>3. CASE SkipAdd \/ AddAgain \/ AddNew \/ EndNumber
  BY <1>3, NumberT
<1>4. CASE Replace \/ EndStmt \/ Finish
  BY <1>4, ReplaceT, EndStmtT, FinishT
<1>5. CASE UNCHANGED vars
  BY <1>5 DEF vars, TInv, ReadTo, Prev, OccsInOrder, ScanAt
<1>. QED
  BY <1>1, <1>2, <1>3, <1>4, <1>5 DEF Next

(* Every offset of the rewritten text leads Origin back to the source: a   *)
(* copied character to itself and a replaced one to its construct, for any *)
(* number of statements and of replacements, longer or shorter than what   *)
(* they stand for. *)
THEOREM MapsBackAlways == Spec => []MapsBack
<1>1. TInv => MapsBack
  BY OriginIs DEF TInv, MapsBack
<1>. QED
  BY <1>1, InitHolds, InitT, NInvStep, TInvStep, PTL DEF Spec
-----------------------------------------------------------------------------
(* Where things are in the output. *)

(* The engine finds o at offset q of t. *)
PlacedAt(o, q, t) ==
    /\ q \in 0..(Len(t) - 1) /\ t[q + 1] = o.start
    /\ \A p \in 0..(Len(t) - 1) : t[p + 1] = o.start => IF Marked(o) THEN p <= q ELSE q <= p

(* What the tables of a statement say of o is said of offset q. *)
Recorded(o, q, emb, sli, num) ==
    /\ o.kind = "embed" <=> q \in emb
    /\ o.kind = "slice" <=> q \in sli
    /\ o.kind # "embed" => q \in DOMAIN num /\ num[q] = o.number

(* The statements of the output follow each other. *)
StmtsInOrder ==
    /\ start \in Nat /\ start <= Len(text)
    /\ phase \in {"scan", "number"} => start = Len(text)
    /\ \A k \in DOMAIN stmts : /\ stmts[k].start \in Nat /\ stmts[k].end \in Nat
                               /\ stmts[k].start < stmts[k].end /\ stmts[k].end <= start
    /\ \A j, k \in DOMAIN stmts : j < k => stmts[j].end <= stmts[k].start

(* The error of a statement is in its text, at the first bad construct. *)
ErrorsPlaced ==
    \A k \in DOMAIN stmts : stmts[k].err # <<>> =>
        /\ stmts[k].err[1] \in stmts[k].start..(stmts[k].end - 1)
        /\ text[stmts[k].err[1] + 1] = stmts[k].occs[SelectInSeq(stmts[k].occs, Bad)].start

(* The output stands for what has been read, the tables are about it. *)
TextRead == phase # "done" => \A p \in 0..(Len(text) - 1) : text[p + 1] < ReadTo
TablesBehind == embeds \cup slices \subseteq 0..(Len(text) - 1)

OccsPlaced ==
    phase = "rewrite" =>
        \A i \in 1..at : \E q \in start..(Len(text) - 1) :
            PlacedAt(occs[i], q, text) /\ Recorded(occs[i], q, embeds, slices, numbers)

StmtPlaced(s) ==
    \A i \in DOMAIN s.occs :
        /\ s.occs[i].start \in Int /\ (phase # "done" => s.occs[i].start < from)
        /\ \E q \in s.start..(s.end - 1) :
               PlacedAt(s.occs[i], q, text) /\ Recorded(s.occs[i], q, s.embeds, s.slices, s.numbers)

StmtsPlaced == \A k \in DOMAIN stmts : stmts[k].err = <<>> => StmtPlaced(stmts[k])

EInv == StmtsInOrder /\ ErrorsPlaced
PInv == TextRead /\ TablesBehind /\ OccsPlaced /\ StmtsPlaced
-----------------------------------------------------------------------------
(* Result.Statement finds the statement an offset is in. *)
LEMMA StatementIs ==
    ASSUME stmts \in Seq(ToSet(stmts)), StmtsInOrder, NEW k \in DOMAIN stmts,
           NEW q \in stmts[k].start..(stmts[k].end - 1)
    PROVE  StatementAt(q) = k
<1>. DEFINE I == {i \in 1..Len(stmts) : q < stmts[i].end}
<1>1. DOMAIN stmts = 1..Len(stmts) /\ Len(stmts) \in Nat /\ k \in Nat
  OBVIOUS
<1>2. stmts[k].start \in Nat /\ stmts[k].end \in Nat
  BY DEF StmtsInOrder
<1>3. k \in I
  BY <1>1, <1>2
<1>4. ASSUME NEW i \in I PROVE k <= i
  <2>. SUFFICES ASSUME i < k PROVE FALSE
    BY <1>1
  <2>1. i \in DOMAIN stmts /\ stmts[i].end \in Nat
    BY <1>1 DEF StmtsInOrder
  <2>2. stmts[i].end <= stmts[k].start
    BY <2>1 DEF StmtsInOrder
  <2>. QED
    BY <1>2, <2>1, <2>2
<1>5. Min(I) = k
  <2>1. \A i \in I : (\A j \in I : i <= j) => i = k
    BY <1>1, <1>3, <1>4
  <2>. HIDE DEF I
  <2>. QED
    BY <1>3, <1>4, <2>1 DEF Min
<1>. QED
  BY <1>3, <1>5 DEF StatementAt, SelectInSeq

LEMMA FirstBad ==
    ASSUME occs \in Seq(Occurrence), SelectInSeq(occs, Bad) # 0
    PROVE  SelectInSeq(occs, Bad) \in DOMAIN occs
<1>. DEFINE I == {i \in 1..Len(occs) : Bad(occs[i])}
<1>1. SelectInSeq(occs, Bad) = Min(I) /\ I # {}
  BY DEF SelectInSeq
<1>2. I \in SUBSET Nat /\ I \subseteq DOMAIN occs
  OBVIOUS
<1>. HIDE DEF I
<1>3. \E n \in I : \A m \in I : n <= m
  BY <1>1, <1>2, LeastNat
<1>4. Min(I) \in I
  BY <1>3 DEF Min
<1>. QED
  BY <1>1, <1>2, <1>4

(* v is t and more, which stands for what comes after r. *)
Longer(t, v, r) ==
    /\ t \in Seq(Int) /\ v \in Seq(Int) /\ Len(t) <= Len(v)
    /\ \A p \in 0..(Len(t) - 1) : v[p + 1] = t[p + 1]
    /\ \A p \in Len(t)..(Len(v) - 1) : r <= v[p + 1]

(* v is t with source from a to b copied, or with c characters that stand for a. *)
CopiedOn(v, t, a, b) == v = t \o Copied(a, b)
RunOn(v, t, c, a) == v = t \o [k \in 1..c |-> a]

LEMMA CopyLonger ==
    ASSUME NEW t \in Seq(Int), NEW a \in Int, NEW b \in Int, a <= b, NEW v, CopiedOn(v, t, a, b)
    PROVE  /\ Longer(t, v, a) /\ Len(v) = Len(t) + (b - a)
           /\ \A p \in Len(t)..(Len(v) - 1) : v[p + 1] = a + (p - Len(t))
<1>. DEFINE u == Copied(a, b)
<1>1. u \in Seq(Int) /\ Len(u) = b - a /\ \A k \in 1..(b - a) : u[k] = a + k - 1
  BY CopiedIs
<1>. HIDE DEF u
<1>2. v = t \o u
  BY DEF u, CopiedOn
<1>3. PICK n \in Nat, c \in Nat : n = Len(t) /\ c = b - a
  OBVIOUS
<1>4. /\ v \in Seq(Int) /\ Len(v) = n + c
      /\ \A p \in 0..(n - 1) : v[p + 1] = t[p + 1]
      /\ \A p \in n..(n + c - 1) : p - n + 1 \in 1..c /\ v[p + 1] = u[p - n + 1]
  <2>1. /\ v \in Seq(Int) /\ Len(v) = Len(t) + Len(u)
        /\ \A p \in 0..(Len(t) - 1) : v[p + 1] = t[p + 1]
        /\ \A p \in Len(t)..(Len(t) + Len(u) - 1) :
               p - Len(t) + 1 \in 1..Len(u) /\ v[p + 1] = u[p - Len(t) + 1]
    BY <1>1, <1>2, Joined
  <2>. QED
    BY <1>1, <1>3, <2>1
<1>5. ASSUME NEW p \in n..(n + c - 1) PROVE v[p + 1] = a + (p - n) /\ a <= a + (p - n)
  <2>1. v[p + 1] = u[p - n + 1] /\ p - n + 1 \in 1..c
    BY <1>4
  <2>2. u[p - n + 1] = a + (p - n + 1) - 1
    BY <1>1, <1>3, <2>1
  <2>. QED
    BY <2>1, <2>2
<1>6. Len(t) <= Len(v)
  BY <1>3, <1>4
<1>7. Longer(t, v, a)
  BY <1>3, <1>4, <1>5, <1>6 DEF Longer
<1>. QED
  BY <1>3, <1>4, <1>5, <1>7

LEMMA RunLonger ==
    ASSUME NEW t \in Seq(Int), NEW a \in Int, NEW c \in Nat, NEW v, RunOn(v, t, c, a)
    PROVE  /\ Longer(t, v, a) /\ Len(v) = Len(t) + c
           /\ \A p \in Len(t)..(Len(v) - 1) : v[p + 1] = a
<1>0. PICK u : u = [k \in 1..c |-> a] /\ v = t \o u
  BY DEF RunOn
<1>1. u \in Seq(Int) /\ Len(u) = c /\ \A k \in 1..c : u[k] = a
  BY <1>0, RepeatedIs
<1>2. PICK n \in Nat : n = Len(t)
  OBVIOUS
<1>3. /\ v \in Seq(Int) /\ Len(v) = n + c
      /\ \A p \in 0..(n - 1) : v[p + 1] = t[p + 1]
      /\ \A p \in n..(n + c - 1) : p - n + 1 \in 1..c /\ v[p + 1] = u[p - n + 1]
  <2>1. /\ v \in Seq(Int) /\ Len(v) = Len(t) + Len(u)
        /\ \A p \in 0..(Len(t) - 1) : v[p + 1] = t[p + 1]
        /\ \A p \in Len(t)..(Len(t) + Len(u) - 1) :
               p - Len(t) + 1 \in 1..Len(u) /\ v[p + 1] = u[p - Len(t) + 1]
    BY <1>0, <1>1, Joined
  <2>. QED
    BY <1>1, <1>2, <2>1
<1>4. ASSUME NEW p \in n..(n + c - 1) PROVE v[p + 1] = a /\ a <= a
  BY <1>1, <1>3
<1>5. Len(t) <= Len(v)
  BY <1>2, <1>3
<1>6. Longer(t, v, a)
  BY <1>2, <1>3, <1>4, <1>5 DEF Longer
<1>. QED
  BY <1>2, <1>3, <1>4, <1>6

LEMMA LongerTrans ==
    ASSUME NEW t, NEW v, NEW w, NEW r \in Int, NEW x \in Int, r <= x,
           Longer(t, v, r), Longer(v, w, x)
    PROVE  Longer(t, w, r)
<1>1. t \in Seq(Int) /\ v \in Seq(Int) /\ w \in Seq(Int)
  BY DEF Longer
<1>2. PICK l \in Nat, m \in Nat, n \in Nat : l = Len(t) /\ m = Len(v) /\ n = Len(w)
  BY <1>1
<1>3. l <= m /\ m <= n
  BY <1>2 DEF Longer
<1>4. ASSUME NEW p \in 0..(l - 1) PROVE w[p + 1] = t[p + 1]
  <2>1. p \in 0..(m - 1)
    BY <1>3
  <2>. QED
    BY <1>2, <2>1 DEF Longer
<1>5. ASSUME NEW p \in l..(n - 1) PROVE r <= w[p + 1]
  <2>0. w[p + 1] \in Int
    BY <1>1, <1>2
  <2>1. CASE p < m
    <3>1. p \in 0..(m - 1) /\ p \in l..(m - 1)
      BY <2>1
    <3>. QED
      BY <1>2, <3>1 DEF Longer
  <2>2. CASE ~(p < m)
    <3>1. p \in m..(n - 1)
      BY <2>2
    <3>2. x <= w[p + 1]
      BY <1>2, <3>1 DEF Longer
    <3>. QED
      BY <2>0, <3>2, AtMostTrans
  <2>. QED
    BY <2>1, <2>2
<1>. QED
  BY <1>1, <1>2, <1>3, <1>4, <1>5 DEF Longer

(* The steps that do not write. *)
LEMMA ESame ==
    ASSUME EInv, UNCHANGED <<text, stmts, start>>,
           phase' \in {"scan", "number"} => phase \in {"scan", "number"}
    PROVE  EInv'
<1>1. StmtsInOrder'
  BY DEF EInv, StmtsInOrder
<1>2. ErrorsPlaced'
  BY DEF EInv, ErrorsPlaced
<1>. QED
  BY <1>1, <1>2 DEF EInv

(* Text grows inside a statement. *)
LEMMA ELonger ==
    ASSUME EInv, NEW r, Longer(text, text', r), UNCHANGED <<stmts, start>>,
           phase' \notin {"scan", "number"}
    PROVE  EInv'
<1>2. /\ Len(text) <= Len(text') /\ Len(text) \in Nat /\ Len(text') \in Nat
      /\ \A p \in 0..(Len(text) - 1) : text'[p + 1] = text[p + 1]
  BY DEF Longer
<1>3. StmtsInOrder'
  <2>1. start' \in Nat /\ start' <= Len(text')
    BY <1>2 DEF EInv, StmtsInOrder
  <2>. QED
    BY <2>1 DEF EInv, StmtsInOrder
<1>4. ASSUME NEW k \in DOMAIN stmts, stmts[k].err # <<>>
      PROVE  text'[stmts[k].err[1] + 1] = text[stmts[k].err[1] + 1]
  <2>1. PICK q \in stmts[k].start..(stmts[k].end - 1) : q = stmts[k].err[1]
    BY <1>4 DEF EInv, ErrorsPlaced
  <2>2. /\ stmts[k].start \in Nat /\ stmts[k].end \in Nat /\ stmts[k].end <= start
        /\ start \in Nat /\ start <= Len(text)
    BY DEF EInv, StmtsInOrder
  <2>3. q \in 0..(Len(text) - 1)
    <3>1. PICK a \in Nat, b \in Nat : a = stmts[k].start /\ b = stmts[k].end
      BY <2>2
    <3>2. q \in a..(b - 1)
      BY <2>1, <3>1
    <3>3. b <= start /\ start <= Len(text) /\ start \in Int /\ Len(text) \in Int
      BY <1>2, <2>2, <3>1
    <3>4. b <= Len(text)
      BY <3>3, AtMostTrans
    <3>. QED
      BY <1>2, <3>2, <3>4
  <2>. QED
    BY <1>2, <2>1, <2>3
<1>5. ErrorsPlaced'
  BY <1>4 DEF EInv, ErrorsPlaced
<1>. QED
  BY <1>3, <1>5 DEF EInv

(* A statement ends where the text does, and the next one begins. *)
LEMMA ERestart ==
    ASSUME NInv, EInv, NEW r, Longer(text, text', r), Len(text) < Len(text'),
           NEW end, Restart(end), NEW s, stmts' = Append(stmts, s),
           s.start = start, s.end = Len(text'),
           s.err # <<>> => /\ s.err[1] \in s.start..(s.end - 1)
                           /\ text'[s.err[1] + 1] = s.occs[SelectInSeq(s.occs, Bad)].start
    PROVE  EInv'
<1>1. stmts \in Seq(ToSet(stmts))
  BY DEF NInv, Typed
<1>2. /\ Len(text) < Len(text') /\ Len(text) \in Nat /\ Len(text') \in Nat
      /\ \A p \in 0..(Len(text) - 1) : text'[p + 1] = text[p + 1]
  BY DEF Longer
<1>3. PICK n \in Nat, l \in Nat : n = Len(stmts) /\ l = Len(text')
  BY <1>1, <1>2
<1>4. /\ DOMAIN stmts = 1..n /\ DOMAIN stmts' = 1..(n + 1) /\ stmts'[n + 1] = s
      /\ \A k \in 1..n : stmts'[k] = stmts[k]
  <2>1. stmts \in Seq(ToSet(stmts) \cup {s})
    BY <1>1
  <2>. QED
    BY <1>3, <2>1
<1>5. start \in Nat /\ start <= Len(text) /\ start < l /\ start' = l
  BY <1>2, <1>3 DEF EInv, StmtsInOrder, Restart
<1>6. ASSUME NEW k \in 1..n
      PROVE  /\ stmts[k].start \in Nat /\ stmts[k].end \in Nat
             /\ stmts[k].start < stmts[k].end /\ stmts[k].end <= start
  BY <1>4 DEF EInv, StmtsInOrder
<1>7. StmtsInOrder'
  <2>1. start' \in Nat /\ start' = Len(text') /\ start' <= Len(text')
    BY <1>3, <1>5
  <2>2. ASSUME NEW k \in DOMAIN stmts'
        PROVE  /\ stmts'[k].start \in Nat /\ stmts'[k].end \in Nat
               /\ stmts'[k].start < stmts'[k].end /\ stmts'[k].end <= start'
    <3>1. CASE k \in 1..n
      BY <1>4, <1>5, <1>6, <3>1
    <3>2. CASE k = n + 1
      BY <1>3, <1>4, <1>5, <3>2
    <3>. QED
      BY <1>4, <3>1, <3>2
  <2>3. ASSUME NEW j \in DOMAIN stmts', NEW k \in DOMAIN stmts', j < k
        PROVE  stmts'[j].end <= stmts'[k].start
    <3>0. j \in 1..n
      BY <1>4, <2>3
    <3>1. CASE k \in 1..n
      BY <1>4, <2>3, <3>0, <3>1 DEF EInv, StmtsInOrder
    <3>2. CASE k = n + 1
      BY <1>4, <1>6, <3>0, <3>2
    <3>. QED
      BY <1>4, <3>1, <3>2
  <2>. QED
    BY <2>1, <2>2, <2>3 DEF StmtsInOrder
<1>8. ErrorsPlaced'
  <2>. SUFFICES ASSUME NEW k \in DOMAIN stmts', stmts'[k].err # <<>>
                PROVE  /\ stmts'[k].err[1] \in stmts'[k].start..(stmts'[k].end - 1)
                       /\ text'[stmts'[k].err[1] + 1]
                            = stmts'[k].occs[SelectInSeq(stmts'[k].occs, Bad)].start
    BY DEF ErrorsPlaced
  <2>1. CASE k \in 1..n
    <3>1. stmts'[k] = stmts[k] /\ k \in DOMAIN stmts /\ stmts[k].err # <<>>
      BY <1>4, <2>1
    <3>2. PICK q : /\ q \in stmts[k].start..(stmts[k].end - 1) /\ q = stmts[k].err[1]
                   /\ text[q + 1] = stmts[k].occs[SelectInSeq(stmts[k].occs, Bad)].start
      BY <3>1 DEF EInv, ErrorsPlaced
    <3>3. q \in 0..(Len(text) - 1)
      <4>1. PICK a \in Nat, b \in Nat : a = stmts[k].start /\ b = stmts[k].end /\ b <= start
        BY <1>6, <2>1
      <4>2. q \in a..(b - 1)
        BY <3>2, <4>1
      <4>3. b <= start /\ start <= Len(text) /\ start \in Int /\ Len(text) \in Int
        BY <1>2, <1>5, <4>1
      <4>4. b <= Len(text)
        BY <4>3, AtMostTrans
      <4>. QED
        BY <1>2, <4>2, <4>4
    <3>4. text'[q + 1] = text[q + 1]
      BY <1>2, <3>3
    <3>. QED
      BY <3>1, <3>2, <3>4
  <2>2. CASE k = n + 1
    BY <1>4, <2>2
  <2>3. k \in 1..(n + 1)
    BY <1>4
  <2>4. k \in 1..n \/ k = n + 1
    BY <2>3
  <2>. QED
    BY <2>1, <2>2, <2>4
<1>. QED
  BY <1>7, <1>8 DEF EInv

LEMMA InitE == Init => EInv
<1>. SUFFICES ASSUME Init PROVE EInv
  OBVIOUS
<1>1. text = <<>> /\ stmts = <<>> /\ start = 0
  BY DEF Init
<1>2. Len(text) = 0 /\ DOMAIN stmts = {}
  BY <1>1
<1>. QED
  BY <1>1, <1>2 DEF EInv, StmtsInOrder, ErrorsPlaced

(* What is written with a construct. *)
LEMMA ReplaceGrows ==
    ASSUME NInv, TInv, Replace, NEW o, o = occs[at + 1]
    PROVE  /\ Longer(text, text', Prev)
           /\ Prev \in Int /\ o.start = Prev + 1 /\ o.start \in Int
           /\ Len(text') > Len(text) + 1
           /\ \A p \in 0..(Len(text') - 1) : text'[p + 1] < EndOf(o) \/ p < Len(text)
           /\ text'[Len(text) + 1] = Prev
           /\ Kept(o) => \A p \in (Len(text) + 1)..(Len(text') - 1) :
                            text'[p + 1] = o.start + (p - (Len(text) + 1))
           /\ ~Kept(o) => /\ Len(text') = Len(text) + 1 + ReplacementLen(o)
                          /\ \A p \in (Len(text) + 1)..(Len(text') - 1) : text'[p + 1] = o.start
<1>1. /\ at + 1 \in DOMAIN occs /\ Prev \in Int /\ o.start = Prev + 1 /\ o.start \in Int
      /\ o.len \in Nat /\ o.len # 0 /\ EndOf(o) \in Int /\ EndOf(o) = o.start + o.len
  BY NextStart DEF TInv, Replace
<1>2. text \in Seq(Int)
  BY DEF TInv, Tracked
<1>3. PICK w : w = text \o Copied(Prev, o.start)
  OBVIOUS
<1>4. PICK n \in Nat, a \in Int, b \in Int, e \in Int :
          n = Len(text) /\ a = Prev /\ b = o.start /\ e = EndOf(o) /\ b = a + 1 /\ a <= b /\ b < e
  BY <1>1, <1>2
<1>5. /\ Longer(text, w, a) /\ Len(w) = n + 1 /\ w \in Seq(Int)
      /\ \A p \in n..n : w[p + 1] = a
  <2>1. /\ Longer(text, w, a) /\ Len(w) = Len(text) + (b - a)
        /\ \A p \in Len(text)..(Len(w) - 1) : w[p + 1] = a + (p - Len(text))
    <3>1. CopiedOn(w, text, a, b)
      BY <1>3, <1>4 DEF CopiedOn
    <3>2. a <= b
      BY <1>4
    <3>. QED
      BY <1>2, <3>1, <3>2, CopyLonger
  <2>2. Len(w) = n + 1
    BY <1>4, <2>1
  <2>. QED
    BY <1>4, <2>1, <2>2 DEF Longer
<1>6. /\ Longer(w, text', b) /\ Len(text') \in Nat /\ Len(text') > n + 1
      /\ Kept(o) => \A p \in (n + 1)..(Len(text') - 1) : text'[p + 1] = b + (p - (n + 1))
      /\ ~Kept(o) => /\ Len(text') = n + 1 + ReplacementLen(o)
                     /\ \A p \in (n + 1)..(Len(text') - 1) : text'[p + 1] = b
      /\ Kept(o) => Len(text') = n + 1 + (e - b)
  <2>1. CASE Kept(o)
    <3>1. text' = w \o Copied(b, e)
      BY <1>3, <1>4, <2>1 DEF Replace, Next1
    <3>2. /\ Longer(w, text', b) /\ Len(text') = Len(w) + (e - b)
          /\ \A p \in Len(w)..(Len(text') - 1) : text'[p + 1] = b + (p - Len(w))
      <4>1. b <= e /\ CopiedOn(text', w, b, e)
        BY <1>4, <3>1 DEF CopiedOn
      <4>2. w \in Seq(Int)
        BY <1>5
      <4>. QED
        BY <4>1, <4>2, CopyLonger
    <3>3. Len(text') = n + 1 + (e - b) /\ Len(text') \in Nat /\ Len(text') > n + 1
      BY <1>4, <1>5, <3>2
    <3>. QED
      BY <1>5, <2>1, <3>2, <3>3
  <2>2. CASE ~Kept(o)
    <3>1. PICK c \in Nat : c = ReplacementLen(o) /\ c # 0
      BY DEF ReplacementLen
    <3>3. RunOn(text', w, c, b)
      BY <1>3, <1>4, <2>2, <3>1 DEF Replace, Next1, RunOn
    <3>4. /\ Longer(w, text', b) /\ Len(text') = Len(w) + c
          /\ \A p \in Len(w)..(Len(text') - 1) : text'[p + 1] = b
      <4>1. w \in Seq(Int)
        BY <1>5
      <4>. QED
        BY <3>3, <4>1, RunLonger
    <3>5. Len(text') = n + 1 + c /\ Len(text') \in Nat /\ Len(text') > n + 1
      BY <1>5, <3>1, <3>4
    <3>. QED
      BY <1>5, <2>2, <3>1, <3>4, <3>5
  <2>. QED
    BY <2>1, <2>2
<1>7. Longer(text, text', a)
  BY <1>4, <1>5, <1>6, LongerTrans
<1>8. text'[n + 1] = a
  <2>1. n \in n..n /\ n \in 0..((n + 1) - 1)
    OBVIOUS
  <2>2. w[n + 1] = a
    BY <1>5, <2>1
  <2>. QED
    BY <1>5, <1>6, <2>1, <2>2 DEF Longer
<1>9. ASSUME NEW p \in 0..(Len(text') - 1) PROVE text'[p + 1] < e \/ p < n
  <2>1. CASE p = n
    BY <1>4, <1>8, <2>1
  <2>2. CASE p > n
    <3>1. p \in (n + 1)..(Len(text') - 1)
      BY <1>6, <2>2
    <3>2. CASE Kept(o)
      BY <1>4, <1>6, <3>1, <3>2
    <3>3. CASE ~Kept(o)
      BY <1>4, <1>6, <3>1, <3>3
    <3>. QED
      BY <3>2, <3>3
  <2>. QED
    BY <1>6, <2>1, <2>2
<1>. QED
  BY <1>1, <1>4, <1>6, <1>7, <1>8, <1>9

(* A rejected statement is copied whole, its error with it. *)
LEMMA RejectGrows ==
    ASSUME NInv, TInv, Reject
    PROVE  /\ Longer(text, text', from) /\ from \in Int /\ ScanAt \in Int /\ from <= ScanAt
           /\ Len(text') = Len(text) + (ScanAt + 1 - from)
           /\ \A p \in Len(text)..(Len(text') - 1) : text'[p + 1] = from + (p - Len(text))
<1>1. from \in Int /\ ScanAt \in Int /\ from <= ScanAt
  BY ScanAtEnd DEF TInv
<1>2. PICK a \in Int, b \in Int : a = from /\ b = ScanAt + 1 /\ a <= b
  BY <1>1
<1>3. CopiedOn(text', text, a, b) /\ a <= b
  BY <1>2 DEF Reject, CopiedOn
<1>4. text \in Seq(Int)
  BY DEF TInv, Tracked
<1>5. /\ Longer(text, text', a) /\ Len(text') = Len(text) + (b - a)
      /\ \A p \in Len(text)..(Len(text') - 1) : text'[p + 1] = a + (p - Len(text))
  BY <1>3, <1>4, CopyLonger
<1>. QED
  BY <1>1, <1>2, <1>5

LEMMA RejectE == NInv /\ TInv /\ EInv /\ Reject => EInv'
<1>. SUFFICES ASSUME NInv, TInv, EInv, Reject PROVE EInv'
  OBVIOUS
<1>1. PICK s : s = [Statement(occs, Len(text'), <<ErrorAt>>) EXCEPT
                        !.dollar = TRUE, !.paramErr = FALSE]
  OBVIOUS
<1>2. /\ s.start = start /\ s.end = Len(text') /\ s.occs = occs /\ s.err = <<ErrorAt>>
  BY <1>1 DEF Statement
<1>3. /\ phase = "scan" /\ SelectInSeq(occs, Bad) # 0 /\ Restart(ScanAt + 1)
      /\ stmts' = Append(stmts, s)
  BY <1>1 DEF Reject
<1>4. PICK f \in Int, z \in Int : f = from /\ z = ScanAt /\ f <= z
  BY RejectGrows
<1>5. /\ Longer(text, text', f) /\ Len(text') = Len(text) + (z + 1 - f)
      /\ \A p \in Len(text)..(Len(text') - 1) : text'[p + 1] = f + (p - Len(text))
  BY <1>4, RejectGrows
<1>6. PICK l \in Nat, m \in Nat : l = Len(text) /\ m = Len(text')
  <2>1. Longer(text, text', f)
    BY <1>5
  <2>2. Len(text) \in Nat /\ Len(text') \in Nat
    BY <2>1 DEF Longer
  <2>. QED
    BY <2>2
<1>7. PICK k \in DOMAIN occs : k = SelectInSeq(occs, Bad)
  BY <1>3, FirstBad DEF NInv, Typed
<1>8. PICK b \in Int : b = occs[k].start /\ f < b /\ b <= z
  <2>1. /\ occs[k].start \in Int /\ occs[k].len \in Nat /\ f < occs[k].start
        /\ EndOf(occs[k]) <= z
    BY <1>4, OccParts DEF NInv, Typed, TInv, OccsInOrder
  <2>. QED
    BY <2>1 DEF EndOf
<1>9. ErrorAt = l + (b - f)
  <2>1. start = l
    BY <1>3, <1>6 DEF EInv, StmtsInOrder
  <2>. QED
    BY <1>4, <1>7, <1>8, <2>1 DEF ErrorAt
<1>10. ErrorAt \in start..(m - 1) /\ text'[ErrorAt + 1] = b
  <2>0. m = l + (z + 1 - f) /\ start = l
    BY <1>3, <1>5, <1>6 DEF EInv, StmtsInOrder
  <2>1. l + (b - f) \in l..(m - 1)
    BY <1>8, <2>0
  <2>2. text'[l + (b - f) + 1] = f + ((l + (b - f)) - l)
    BY <1>5, <1>6, <2>1
  <2>3. f + ((l + (b - f)) - l) = b
    OBVIOUS
  <2>. QED
    BY <1>9, <2>0, <2>1, <2>2, <2>3
<1>11. s.err[1] = ErrorAt
  BY <1>2
<1>12. Len(text) < Len(text')
  BY <1>4, <1>5, <1>6
<1>13. /\ s.err[1] \in s.start..(s.end - 1)
       /\ text'[s.err[1] + 1] = s.occs[SelectInSeq(s.occs, Bad)].start
  BY <1>2, <1>6, <1>7, <1>8, <1>10, <1>11
<1>. QED
  BY <1>2, <1>3, <1>5, <1>12, <1>13, ERestart

(* What ends a statement. *)
LEMMA EndStmtGrows ==
    ASSUME NInv, TInv, EndStmt
    PROVE  /\ Longer(text, text', Prev) /\ Prev \in Int /\ Len(text') = Len(text) + 1
           /\ text'[Len(text) + 1] = Prev
<1>1. PICK a \in Int : a = Prev
  BY PrevType
<1>2. CopiedOn(text', text, a, a + 1) /\ a <= a + 1 /\ a + 1 \in Int
  BY <1>1 DEF EndStmt, CopiedOn
<1>3. text \in Seq(Int) /\ Len(text) \in Nat
  BY DEF TInv, Tracked
<1>4. /\ Longer(text, text', a) /\ Len(text') = Len(text) + (a + 1 - a)
      /\ \A p \in Len(text)..(Len(text') - 1) : text'[p + 1] = a + (p - Len(text))
  BY <1>2, <1>3, CopyLonger
<1>5. Len(text') = Len(text) + 1
  BY <1>3, <1>4
<1>6. Len(text) \in Len(text)..(Len(text') - 1)
  BY <1>3, <1>5
<1>7. text'[Len(text) + 1] = a + (Len(text) - Len(text))
  BY <1>4, <1>6
<1>. QED
  BY <1>1, <1>3, <1>4, <1>5, <1>7

LEMMA FinishGrows ==
    ASSUME NInv, TInv, Finish
    PROVE  Longer(text, text', from) /\ from \in Int
<1>1. PICK a \in Int : a = from
  BY DEF NInv, Typed
<1>2. CopiedOn(text', text, a, a + 1) /\ a <= a + 1 /\ a + 1 \in Int
  BY <1>1 DEF Finish, CopiedOn
<1>3. text \in Seq(Int)
  BY DEF TInv, Tracked
<1>. QED
  BY <1>1, <1>2, <1>3, CopyLonger

LEMMA EndStmtE == NInv /\ TInv /\ EInv /\ EndStmt => EInv'
<1>. SUFFICES ASSUME NInv, TInv, EInv, EndStmt PROVE EInv'
  OBVIOUS
<1>1. PICK s : s = Statement(occs, Len(text'), <<>>)
  OBVIOUS
<1>2. s.start = start /\ s.end = Len(text') /\ s.err = <<>>
  BY <1>1 DEF Statement
<1>3. Restart(Prev + 1) /\ stmts' = Append(stmts, s)
  BY <1>1 DEF EndStmt
<1>4. Longer(text, text', Prev) /\ Len(text') = Len(text) + 1
  BY EndStmtGrows
<1>5. Len(text) < Len(text')
  BY <1>4 DEF Longer
<1>. QED
  BY <1>2, <1>3, <1>4, <1>5, ERestart

LEMMA EInvStep == NInv /\ TInv /\ EInv /\ [Next]_vars => EInv'
<1>. SUFFICES ASSUME NInv, TInv, EInv, [Next]_vars PROVE EInv'
  OBVIOUS
<1>1. CASE \E c \in Constructs : Scan(c)
  BY <1>1, ESame DEF Scan, tables
<1>2. CASE Begin
  BY <1>2, ESame DEF Begin, tables
<1>3. CASE SkipAdd \/ AddAgain \/ AddNew \/ EndNumber
  BY <1>3, ESame DEF SkipAdd, AddAgain, AddNew, EndNumber, tables
<1>4. CASE Reject \/ EndStmt
  BY <1>4, RejectE, EndStmtE
<1>5. CASE Replace
  <2>1. Longer(text, text', Prev)
    BY <1>5, ReplaceGrows
  <2>. QED
    BY <1>5, <2>1, ELonger DEF Replace
<1>6. CASE Finish
  <2>1. Longer(text, text', from)
    BY <1>6, FinishGrows
  <2>. QED
    BY <1>6, <2>1, ELonger DEF Finish, tables
<1>7. CASE UNCHANGED vars
  BY <1>7, ESame DEF vars
<1>. QED
  BY <1>1, <1>2, <1>3, <1>4, <1>5, <1>6, <1>7 DEF Next

(* Whatever was rewritten before it, the error of a rejected statement is  *)
(* found in that statement, and leads back to its first bad construct. *)
THEOREM ErrorShownAlways == Spec => []ErrorShown
<1>1. NInv /\ TInv /\ EInv => ErrorShown
  <2>. SUFFICES ASSUME NInv, TInv, EInv, NEW k \in DOMAIN stmts, stmts[k].err # <<>>
                PROVE  /\ Origin(stmts[k].err[1])
                            = stmts[k].occs[SelectInSeq(stmts[k].occs, Bad)].start
                       /\ StatementAt(stmts[k].err[1]) = k
    BY DEF ErrorShown
  <2>1. PICK q : /\ q \in stmts[k].start..(stmts[k].end - 1) /\ q = stmts[k].err[1]
                 /\ text[q + 1] = stmts[k].occs[SelectInSeq(stmts[k].occs, Bad)].start
    BY DEF EInv, ErrorsPlaced
  <2>2. StatementAt(q) = k
    BY <2>1, StatementIs DEF NInv, Typed, EInv
  <2>3. q \in Offsets
    <3>1. PICK a \in Nat, b \in Nat : a = stmts[k].start /\ b = stmts[k].end /\ b <= start
      BY DEF EInv, StmtsInOrder
    <3>2. start \in Int /\ start <= Len(text) /\ Len(text) \in Int
      BY DEF EInv, StmtsInOrder, TInv, Tracked
    <3>3. b <= Len(text)
      BY <3>1, <3>2, AtMostTrans
    <3>4. q \in a..(b - 1)
      BY <2>1, <3>1
    <3>. QED
      BY <3>2, <3>3, <3>4 DEF Offsets
  <2>4. Origin(q) = text[q + 1]
    BY <2>3, OriginIs DEF TInv
  <2>. QED
    BY <2>1, <2>2, <2>4
<1>. QED
  BY <1>1, InitHolds, InitT, InitE, NInvStep, TInvStep, EInvStep, PTL DEF Spec
-----------------------------------------------------------------------------
(* Where the engine finds what was recorded. *)

LEMMA FoundIs ==
    ASSUME text \in Seq(Int), NEW o, NEW q, PlacedAt(o, q, text)
    PROVE  FoundAt(o) = q
<1>. DEFINE own == {loc \in Offsets : text[loc + 1] = o.start}
<1>1. q \in own /\ own \subseteq Int
  BY DEF PlacedAt, Offsets
<1>2. CASE Marked(o)
  <2>1. \A p \in own : q >= p
    BY <1>2 DEF PlacedAt, Offsets
  <2>2. \A p \in own : (\A x \in own : p >= x) => p = q
    BY <1>1, <2>1
  <2>3. FoundAt(o) = Max(own)
    BY <1>2 DEF FoundAt
  <2>. HIDE DEF own
  <2>. QED
    BY <1>1, <2>1, <2>2, <2>3 DEF Max
<1>3. CASE ~Marked(o)
  <2>1. \A p \in own : q <= p
    BY <1>3 DEF PlacedAt, Offsets
  <2>2. \A p \in own : (\A x \in own : p <= x) => p = q
    BY <1>1, <2>1
  <2>3. FoundAt(o) = Min(own)
    BY <1>3 DEF FoundAt
  <2>. HIDE DEF own
  <2>. QED
    BY <1>1, <2>1, <2>2, <2>3 DEF Min
<1>. QED
  BY <1>2, <1>3

(* What is written later is elsewhere. *)
LEMMA PlacedStays ==
    ASSUME NEW o, NEW q, PlacedAt(o, q, text), engine' = engine, o.start \in Int,
           NEW r \in Int, Longer(text, text', r), o.start < r
    PROVE  PlacedAt(o, q, text)'
<1>1. PICK l \in Nat, m \in Nat : l = Len(text) /\ m = Len(text') /\ l <= m
  BY DEF Longer
<1>2. q \in 0..(l - 1) /\ text[q + 1] = o.start
  BY <1>1 DEF PlacedAt
<1>3. q \in 0..(m - 1) /\ text'[q + 1] = o.start
  BY <1>1, <1>2 DEF Longer
<1>4. Marked(o)' <=> Marked(o)
  BY DEF Marked
<1>5. ASSUME NEW p \in 0..(m - 1), text'[p + 1] = o.start
      PROVE  IF Marked(o) THEN p <= q ELSE q <= p
  <2>1. p < l
    <3>. SUFFICES ASSUME ~(p < l) PROVE FALSE
      OBVIOUS
    <3>1. p \in l..(m - 1)
      OBVIOUS
    <3>2. r <= text'[p + 1]
      BY <1>1, <3>1 DEF Longer
    <3>. QED
      BY <1>5, <3>2
  <2>2. p \in 0..(l - 1)
    BY <2>1
  <2>3. text[p + 1] = o.start
    BY <1>1, <1>5, <2>2 DEF Longer
  <2>. QED
    BY <1>1, <2>2, <2>3 DEF PlacedAt
<1>. QED
  BY <1>1, <1>3, <1>4, <1>5 DEF PlacedAt

LEMMA StmtKept ==
    ASSUME phase # "done", engine' = engine, NEW r \in Int, Longer(text, text', r),
           from \in Int, from <= r, phase' # "done" => from' \in Int /\ from <= from'
    PROVE  \A s : StmtPlaced(s) => StmtPlaced(s)'
<1>. SUFFICES ASSUME NEW s, StmtPlaced(s), NEW i \in DOMAIN s.occs
              PROVE  /\ s.occs[i].start \in Int /\ (phase' # "done" => s.occs[i].start < from')
                     /\ \E q \in s.start..(s.end - 1) :
                            /\ PlacedAt(s.occs[i], q, text)'
                            /\ Recorded(s.occs[i], q, s.embeds, s.slices, s.numbers)
  BY DEF StmtPlaced, Recorded
<1>1. PICK o : o = s.occs[i]
  OBVIOUS
<1>2. o.start \in Int /\ o.start < from
  BY <1>1 DEF StmtPlaced
<1>3. PICK q \in s.start..(s.end - 1) :
          PlacedAt(o, q, text) /\ Recorded(o, q, s.embeds, s.slices, s.numbers)
  BY <1>1 DEF StmtPlaced
<1>4. o.start < r
  BY <1>2
<1>5. PlacedAt(o, q, text)'
  BY <1>2, <1>3, <1>4, PlacedStays
<1>6. phase' # "done" => o.start < from'
  BY <1>2
<1>. QED
  BY <1>1, <1>2, <1>3, <1>5, <1>6

(* The occurrences that have been rewritten are behind. *)
LEMMA BehindPrev ==
    ASSUME NInv, OccsInOrder
    PROVE  /\ Prev \in Int /\ from \in Int /\ from <= Prev
           /\ \A i \in 1..at : i \in DOMAIN occs /\ occs[i].start \in Int /\ occs[i].start < Prev
<1>1. occs \in Seq(Occurrence) /\ at \in 0..Len(occs) /\ from \in Int /\ DOMAIN occs = 1..Len(occs)
  BY DEF NInv, Typed
<1>2. CASE at = 0
  BY <1>1, <1>2 DEF Prev
<1>3. CASE at # 0
  <2>1. PICK a \in DOMAIN occs : a = at
    BY <1>1, <1>3
  <2>2. PICK x \in Int, n \in Nat : x = occs[a].start /\ n = occs[a].len /\ from < x /\ n # 0
    BY <1>1, OccParts DEF OccsInOrder
  <2>3. Prev = x + n
    BY <1>3, <2>1, <2>2 DEF Prev, EndOf
  <2>4. ASSUME NEW i \in 1..at
        PROVE  i \in DOMAIN occs /\ occs[i].start \in Int /\ occs[i].start < Prev
    <3>1. i \in DOMAIN occs
      BY <1>1
    <3>2. CASE i = a
      BY <2>2, <2>3, <3>1, <3>2
    <3>3. CASE i # a
      <4>1. i < a
        BY <1>1, <2>1, <3>3
      <4>2. EndOf(occs[i]) < x
        BY <2>2, <3>1, <4>1 DEF OccsInOrder
      <4>3. PICK y \in Int, m \in Nat : y = occs[i].start /\ m = occs[i].len
        BY <1>1, <3>1, OccParts
      <4>4. y + m < x
        BY <4>2, <4>3 DEF EndOf
      <4>. QED
        BY <2>2, <2>3, <3>1, <4>3, <4>4
    <3>. QED
      BY <3>2, <3>3
  <2>5. Prev \in Int /\ from <= Prev
    BY <1>1, <2>2, <2>3
  <2>. QED
    BY <1>1, <2>4, <2>5
<1>. QED
  BY <1>2, <1>3

LEMMA InitP == Init => PInv
<1>. SUFFICES ASSUME Init PROVE PInv
  OBVIOUS
<1>1. /\ text = <<>> /\ stmts = <<>> /\ embeds = {} /\ slices = {} /\ phase = "scan"
      /\ Len(text) = 0 /\ DOMAIN stmts = {}
  BY DEF Init
<1>. QED
  BY <1>1 DEF PInv, TextRead, TablesBehind, OccsPlaced, StmtsPlaced

(* The steps that do not write. *)
LEMMA PSame ==
    ASSUME PInv, UNCHANGED <<engine, text, stmts, start, from, embeds, slices, numbers>>,
           phase # "done" => ReadTo' = ReadTo, phase' # "done" => phase # "done",
           phase' = "rewrite" => at' = 0 \/ UNCHANGED <<phase, at, occs>>
    PROVE  PInv'
<1>1. TextRead'
  BY DEF PInv, TextRead
<1>2. TablesBehind'
  BY DEF PInv, TablesBehind
<1>3. \A o, q : PlacedAt(o, q, text)' <=> PlacedAt(o, q, text)
  BY DEF PlacedAt, Marked
<1>4. OccsPlaced'
  <2>1. CASE at' = 0
    BY <2>1 DEF OccsPlaced
  <2>2. CASE UNCHANGED <<phase, at, occs>>
    BY <1>3, <2>2 DEF PInv, OccsPlaced, Recorded
  <2>3. CASE phase' # "rewrite"
    BY <2>3 DEF OccsPlaced
  <2>. QED
    BY <2>1, <2>2, <2>3
<1>5. \A s : StmtPlaced(s) => StmtPlaced(s)'
  BY <1>3 DEF StmtPlaced, Recorded
<1>6. StmtsPlaced'
  BY <1>5 DEF PInv, StmtsPlaced
<1>. QED
  BY <1>1, <1>2, <1>4, <1>6 DEF PInv

(* A construct is written: it is found behind the marker of a slice, or    *)
(* where its replacement begins. *)
LEMMA NewPlaced ==
    ASSUME NInv, TInv, TextRead, Replace, NEW o, o = occs[at + 1],
           NEW q, q = Len(text) + 1 + SliceMarkerLen(o)
    PROVE  q \in (Len(text) + 1)..(Len(text') - 1) /\ PlacedAt(o, q, text')
<1>1. PICK r \in Int, b \in Int : r = Prev /\ b = o.start /\ b = r + 1
  BY ReplaceGrows
<1>2. Longer(text, text', r) /\ Len(text') > Len(text) + 1
  BY <1>1, ReplaceGrows
<1>3. PICK n \in Nat, m \in Nat : n = Len(text) /\ m = Len(text') /\ m > n + 1
  <2>1. Len(text) \in Nat /\ Len(text') \in Nat
    BY <1>2 DEF Longer
  <2>. QED
    BY <1>2, <2>1
<1>4. /\ text'[n + 1] = r
      /\ Kept(o) => \A p \in (n + 1)..(m - 1) : text'[p + 1] = b + (p - (n + 1))
      /\ ~Kept(o) => /\ m = n + 1 + ReplacementLen(o)
                     /\ \A p \in (n + 1)..(m - 1) : text'[p + 1] = b
  BY <1>1, <1>3, ReplaceGrows
<1>5. CASE Marked(o)
  <2>1. ~Kept(o) /\ ReplacementLen(o) = 12 /\ SliceMarkerLen(o) = 11
    BY <1>5 DEF Marked, Kept, ReplacementLen, SliceMarkerLen
  <2>2. m = n + 13 /\ q = n + 12
    BY <1>3, <1>4, <2>1
  <2>3. text'[q + 1] = b
    <3>1. q \in (n + 1)..(m - 1)
      BY <2>2
    <3>. QED
      BY <1>4, <2>1, <3>1
  <2>. QED
    BY <1>1, <1>3, <1>5, <2>2, <2>3 DEF PlacedAt
<1>6. CASE ~Marked(o)
  <2>1. q = n + 1 /\ n + 1 \in (n + 1)..(m - 1)
    BY <1>3, <1>6 DEF SliceMarkerLen
  <2>2. text'[q + 1] = b
    <3>1. CASE Kept(o)
      <4>1. text'[(n + 1) + 1] = b + ((n + 1) - (n + 1))
        BY <1>4, <2>1, <3>1
      <4>. QED
        BY <2>1, <4>1
    <3>2. CASE ~Kept(o)
      BY <1>4, <2>1, <3>2
    <3>. QED
      BY <3>1, <3>2
  <2>3. ASSUME NEW p \in 0..(m - 1), text'[p + 1] = b PROVE q <= p
    <3>. SUFFICES ASSUME p < n + 1 PROVE FALSE
      BY <2>1
    <3>1. CASE p = n
      BY <1>1, <1>4, <2>3, <3>1
    <3>2. CASE p < n
      <4>1. p \in 0..(n - 1)
        BY <3>2
      <4>2. text'[p + 1] = text[p + 1]
        BY <1>2, <1>3, <4>1 DEF Longer
      <4>3. text[p + 1] < r
        BY <1>1, <1>3, <4>1 DEF TextRead, ReadTo, Replace
      <4>. QED
        BY <1>1, <2>3, <4>2, <4>3
    <3>. QED
      BY <3>1, <3>2
  <2>. QED
    BY <1>1, <1>3, <1>6, <2>1, <2>2, <2>3 DEF PlacedAt
<1>. QED
  BY <1>5, <1>6

LEMMA ReplaceP == NInv /\ TInv /\ EInv /\ PInv /\ Replace => PInv'
<1>. SUFFICES ASSUME NInv, TInv, EInv, PInv, Replace PROVE PInv'
  OBVIOUS
<1>1. PICK o : o = occs[at + 1]
  OBVIOUS
<1>2. PICK r \in Int, b \in Int, e \in Int :
          r = Prev /\ b = o.start /\ e = EndOf(o) /\ b = r + 1 /\ b < e
  <2>1. /\ Prev \in Int /\ o.start = Prev + 1 /\ o.start \in Int
        /\ o.len \in Nat /\ o.len # 0 /\ EndOf(o) \in Int /\ EndOf(o) = o.start + o.len
    BY <1>1, NextStart DEF TInv, Replace
  <2>. QED
    BY <2>1
<1>3. /\ Longer(text, text', r) /\ Len(text') > Len(text) + 1
      /\ \A p \in 0..(Len(text') - 1) : text'[p + 1] < e \/ p < Len(text)
  BY <1>1, <1>2, ReplaceGrows
<1>4. PICK n \in Nat, m \in Nat : n = Len(text) /\ m = Len(text') /\ m > n + 1
  <2>1. Len(text) \in Nat /\ Len(text') \in Nat
    BY <1>3 DEF Longer
  <2>. QED
    BY <1>3, <2>1
<1>5. /\ phase = "rewrite" /\ phase' = "rewrite" /\ at' = at + 1 /\ at \in Nat
      /\ UNCHANGED <<engine, from, occs, start, stmts>>
  BY DEF Replace, NInv, Typed
<1>6. PICK q : q = n + 1 + SliceMarkerLen(o)
  OBVIOUS
<1>7. q \in (n + 1)..(m - 1) /\ PlacedAt(o, q, text')
  BY <1>1, <1>4, <1>6, NewPlaced DEF PInv
<1>8. /\ numbers' = IF o.kind = "embed" THEN numbers ELSE With(numbers, q, o.number)
      /\ slices' = IF o.kind = "slice" THEN slices \cup {q} ELSE slices
      /\ embeds' = IF o.kind = "embed" THEN embeds \cup {n + 1} ELSE embeds
  <2>1. Len(text \o Copied(r, b)) = n + 1
    <3>1. PICK w : w = text \o Copied(r, b)
      OBVIOUS
    <3>2. CopiedOn(w, text, r, b) /\ text \in Seq(Int) /\ r <= b
      BY <1>2, <1>3, <3>1 DEF CopiedOn, Longer
    <3>3. Len(w) = Len(text) + (b - r)
      BY <3>2, CopyLonger
    <3>. QED
      BY <1>2, <1>4, <3>1, <3>3
  <2>. QED
    BY <1>1, <1>2, <1>6, <2>1 DEF Replace, Next1
<1>9. TextRead'
  <2>1. ReadTo' = e
    BY <1>1, <1>2, <1>5 DEF ReadTo, Prev
  <2>2. ASSUME NEW p \in 0..(m - 1) PROVE text'[p + 1] < e
    <3>1. CASE p < n
      <4>1. p \in 0..(n - 1)
        BY <3>1
      <4>2. text'[p + 1] = text[p + 1] /\ text[p + 1] \in Int
        BY <1>3, <1>4, <4>1 DEF Longer
      <4>3. text[p + 1] < r
        BY <1>2, <1>4, <1>5, <4>1 DEF PInv, TextRead, ReadTo
      <4>. QED
        BY <1>2, <4>2, <4>3
    <3>2. CASE ~(p < n)
      BY <1>3, <1>4, <3>2
    <3>. QED
      BY <3>1, <3>2
  <2>. QED
    BY <1>4, <2>1, <2>2 DEF TextRead
<1>10. embeds \cup slices \subseteq 0..(n - 1)
  BY <1>4 DEF PInv, TablesBehind
<1>11. TablesBehind'
  <2>1. 0..(n - 1) \subseteq 0..(m - 1) /\ q \in 0..(m - 1) /\ n + 1 \in 0..(m - 1)
    BY <1>4, <1>7
  <2>. QED
    BY <1>4, <1>8, <1>10, <2>1 DEF TablesBehind
<1>12. start \in Nat /\ start <= n
  BY <1>4 DEF EInv, StmtsInOrder
<1>13. OccsPlaced'
  <2>. SUFFICES ASSUME NEW i \in 1..(at + 1)
                PROVE  \E x \in start..(m - 1) : /\ PlacedAt(occs[i], x, text)'
                                                 /\ Recorded(occs[i], x, embeds, slices, numbers)'
    BY <1>4, <1>5 DEF OccsPlaced
  <2>1. CASE i \in 1..at
    <3>1. PICK x \in start..(n - 1) :
              PlacedAt(occs[i], x, text) /\ Recorded(occs[i], x, embeds, slices, numbers)
      BY <1>4, <1>5, <2>1 DEF PInv, OccsPlaced
    <3>2. PICK d : d = occs[i] /\ d.start \in Int /\ d.start < r
      BY <1>2, <2>1, BehindPrev DEF TInv
    <3>3. PlacedAt(d, x, text) /\ engine' = engine /\ Longer(text, text', r)
      BY <1>3, <1>5, <3>1, <3>2
    <3>4. PlacedAt(d, x, text)'
      BY <3>2, <3>3, PlacedStays
    <3>5. x # q /\ x # n + 1 /\ x \in start..(m - 1)
      BY <1>4, <1>7, <1>12
    <3>6. Recorded(d, x, embeds', slices', numbers')
      BY <1>8, <3>1, <3>2, <3>5 DEF Recorded, With
    <3>7. occs'[i] = d
      BY <1>5, <3>2
    <3>. QED
      BY <3>2, <3>4, <3>5, <3>6, <3>7
  <2>2. CASE i = at + 1
    <3>1. PlacedAt(o, q, text)'
      BY <1>5, <1>7 DEF PlacedAt, Marked
    <3>2. o.kind = "embed" => q = n + 1
      BY <1>6 DEF SliceMarkerLen, Marked
    <3>3. q \notin embeds /\ q \notin slices /\ n + 1 \notin embeds
      BY <1>7, <1>10
    <3>4. Recorded(o, q, embeds', slices', numbers')
      BY <1>8, <3>2, <3>3 DEF Recorded, With
    <3>5. q \in start..(m - 1)
      BY <1>7, <1>12
    <3>6. occs'[i] = o
      BY <1>1, <1>5, <2>2
    <3>. QED
      BY <3>1, <3>4, <3>5, <3>6
  <2>. QED
    BY <1>5, <2>1, <2>2
<1>14. StmtsPlaced'
  <2>1. from \in Int /\ from <= r
    BY <1>2, BehindPrev DEF TInv
  <2>2. phase # "done" /\ from' \in Int /\ from <= from'
    BY <1>5, <2>1
  <2>3. \A s : StmtPlaced(s) => StmtPlaced(s)'
    BY <1>3, <1>5, <2>1, <2>2, StmtKept
  <2>. QED
    BY <1>5, <2>3 DEF PInv, StmtsPlaced
<1>. QED
  BY <1>9, <1>11, <1>13, <1>14 DEF PInv

(* A statement has been added and the next one begins. *)
LEMMA PRestart ==
    ASSUME NInv, PInv, phase # "done", engine' = engine, NEW r \in Int, r = ReadTo,
           from \in Int, from <= r, Longer(text, text', r),
           NEW end \in Int, r < end, Restart(end),
           \A p \in Len(text)..(Len(text') - 1) : text'[p + 1] < end,
           NEW s, stmts' = Append(stmts, s), s.err = <<>> => StmtPlaced(s)'
    PROVE  PInv'
<1>1. PICK n \in Nat, m \in Nat : n = Len(text) /\ m = Len(text') /\ n <= m
  BY DEF Longer
<1>2. /\ phase' = "scan" /\ from' = end /\ embeds' = {} /\ slices' = {}
  BY DEF Restart
<1>3. TextRead'
  <2>1. ASSUME NEW p \in 0..(m - 1) PROVE text'[p + 1] < end
    <3>1. CASE p < n
      <4>1. p \in 0..(n - 1)
        BY <3>1
      <4>2. text'[p + 1] = text[p + 1] /\ text[p + 1] \in Int
        BY <1>1, <4>1 DEF Longer
      <4>3. text[p + 1] < r
        BY <1>1, <4>1 DEF PInv, TextRead
      <4>. QED
        BY <4>2, <4>3
    <3>2. CASE ~(p < n)
      <4>1. p \in n..(m - 1)
        BY <3>2
      <4>. QED
        BY <1>1, <4>1
    <3>. QED
      BY <3>1, <3>2
  <2>2. ReadTo' = end
    BY <1>2 DEF ReadTo
  <2>. QED
    BY <1>1, <2>1, <2>2 DEF TextRead
<1>4. TablesBehind' /\ OccsPlaced'
  BY <1>2 DEF TablesBehind, OccsPlaced
<1>5. StmtsPlaced'
  <2>1. from' \in Int /\ from <= from'
    BY <1>2
  <2>2. \A t : StmtPlaced(t) => StmtPlaced(t)'
    BY <2>1, StmtKept
  <2>3. stmts \in Seq(ToSet(stmts) \cup {s}) /\ Len(stmts) \in Nat
    BY DEF NInv, Typed
  <2>4. /\ DOMAIN stmts = 1..Len(stmts) /\ DOMAIN stmts' = 1..(Len(stmts) + 1)
        /\ stmts'[Len(stmts) + 1] = s /\ \A k \in 1..Len(stmts) : stmts'[k] = stmts[k]
    BY <2>3
  <2>5. ASSUME NEW k \in DOMAIN stmts', stmts'[k].err = <<>> PROVE StmtPlaced(stmts[k])'
    <3>1. PICK t : t = stmts'[k]
      OBVIOUS
    <3>2. StmtPlaced(t)'
      <4>1. CASE k \in 1..Len(stmts)
        <5>1. t = stmts[k] /\ k \in DOMAIN stmts
          BY <2>4, <3>1, <4>1
        <5>2. StmtPlaced(t)
          BY <2>5, <3>1, <5>1 DEF PInv, StmtsPlaced
        <5>. QED
          BY <2>2, <5>2
      <4>2. CASE k = Len(stmts) + 1
        <5>1. t = s /\ s.err = <<>>
          BY <2>4, <2>5, <3>1, <4>2
        <5>. QED
          BY <5>1
      <4>3. k \in 1..(Len(stmts) + 1)
        BY <2>4
      <4>. QED
        BY <2>3, <4>1, <4>2, <4>3
    <3>. QED
      BY <3>1, <3>2
  <2>. QED
    BY <2>5 DEF StmtsPlaced
<1>. QED
  BY <1>3, <1>4, <1>5 DEF PInv

LEMMA RejectP == NInv /\ TInv /\ PInv /\ Reject => PInv'
<1>. SUFFICES ASSUME NInv, TInv, PInv, Reject PROVE PInv'
  OBVIOUS
<1>1. PICK s : s = [Statement(occs, Len(text'), <<ErrorAt>>) EXCEPT
                        !.dollar = TRUE, !.paramErr = FALSE]
  OBVIOUS
<1>2. s.err # <<>>
  BY <1>1 DEF Statement
<1>3. /\ phase = "scan" /\ stmts' = Append(stmts, s) /\ engine' = engine
  BY <1>1 DEF Reject
<1>4. PICK r \in Int, end \in Int : r = from /\ end = ScanAt + 1 /\ r < end
  BY RejectGrows
<1>5. /\ Longer(text, text', r) /\ Len(text') = Len(text) + (end - r)
      /\ \A p \in Len(text)..(Len(text') - 1) : text'[p + 1] = r + (p - Len(text))
  <2>1. Len(text') = Len(text) + (ScanAt + 1 - from)
    BY RejectGrows
  <2>. QED
    BY <1>4, <2>1, RejectGrows
<1>6. Len(text) \in Nat /\ Len(text') \in Nat
  <2>1. Longer(text, text', r)
    BY <1>5
  <2>. QED
    BY <2>1 DEF Longer
<1>7. ASSUME NEW p \in Len(text)..(Len(text') - 1) PROVE text'[p + 1] < end
  <2>1. text'[p + 1] = r + (p - Len(text))
    BY <1>5
  <2>2. p < Len(text) + (end - r)
    BY <1>5, <1>6
  <2>. QED
    BY <1>6, <2>1, <2>2
<1>8. r = ReadTo /\ Restart(end) /\ from \in Int /\ from <= r
  BY <1>3, <1>4 DEF ReadTo, Reject
<1>9. Longer(text, text', r)
  BY <1>5
<1>. QED
  BY <1>2, <1>3, <1>4, <1>7, <1>8, <1>9, PRestart

LEMMA EndStmtP == NInv /\ TInv /\ EInv /\ PInv /\ EndStmt => PInv'
<1>. SUFFICES ASSUME NInv, TInv, EInv, PInv, EndStmt PROVE PInv'
  OBVIOUS
<1>1. PICK s : s = Statement(occs, Len(text'), <<>>)
  OBVIOUS
<1>2. /\ s.start = start /\ s.end = Len(text') /\ s.occs = occs
      /\ s.embeds = embeds /\ s.slices = slices /\ s.numbers = numbers
  BY <1>1 DEF Statement
<1>3. /\ phase = "rewrite" /\ at = Len(occs) /\ stmts' = Append(stmts, s) /\ engine' = engine
  BY <1>1 DEF EndStmt
<1>4. PICK r \in Int : r = Prev /\ from \in Int /\ from <= r
  BY BehindPrev DEF TInv
<1>5. Longer(text, text', r) /\ Len(text') = Len(text) + 1 /\ text'[Len(text) + 1] = r
  BY <1>4, EndStmtGrows
<1>6. Len(text) \in Nat
  BY <1>5 DEF Longer
<1>7. ASSUME NEW p \in Len(text)..(Len(text') - 1) PROVE text'[p + 1] < r + 1
  <2>1. p = Len(text)
    BY <1>5, <1>6
  <2>. QED
    BY <1>5, <2>1
<1>8. r = ReadTo /\ Restart(r + 1) /\ r < r + 1 /\ r + 1 \in Int
  BY <1>3, <1>4 DEF ReadTo, EndStmt
<1>9. StmtPlaced(s)'
  <2>. SUFFICES ASSUME NEW i \in DOMAIN occs
                PROVE  /\ occs[i].start \in Int /\ occs[i].start < from'
                       /\ \E q \in start..(Len(text') - 1) :
                              /\ PlacedAt(s.occs[i], q, text)'
                              /\ Recorded(occs[i], q, embeds, slices, numbers)
    BY <1>2 DEF StmtPlaced, Recorded
  <2>1. i \in 1..at
    BY <1>3 DEF NInv, Typed
  <2>2. PICK d : d = occs[i] /\ d.start \in Int /\ d.start < r
    BY <1>4, <2>1, BehindPrev DEF TInv
  <2>3. PICK q \in start..(Len(text) - 1) :
            PlacedAt(d, q, text) /\ Recorded(d, q, embeds, slices, numbers)
    BY <1>3, <2>1, <2>2 DEF PInv, OccsPlaced
  <2>4. PlacedAt(d, q, text)'
    BY <1>3, <1>5, <2>2, <2>3, PlacedStays
  <2>5. q \in start..(Len(text') - 1)
    <3>1. start \in Nat
      BY DEF EInv, StmtsInOrder
    <3>. QED
      BY <1>5, <1>6, <3>1
  <2>6. from' = r + 1 /\ d.start < r + 1
    BY <1>8, <2>2 DEF Restart
  <2>. QED
    BY <1>2, <2>2, <2>3, <2>4, <2>5, <2>6
<1>. QED
  BY <1>3, <1>4, <1>5, <1>7, <1>8, <1>9, PRestart

LEMMA FinishP == NInv /\ TInv /\ PInv /\ Finish => PInv'
<1>. SUFFICES ASSUME NInv, TInv, PInv, Finish PROVE PInv'
  OBVIOUS
<1>1. /\ phase = "scan" /\ phase' = "done"
      /\ UNCHANGED <<engine, stmts, embeds, slices>>
  BY DEF Finish, tables
<1>2. PICK r \in Int : r = from /\ Longer(text, text', r) /\ from \in Int /\ from <= r
  BY FinishGrows
<1>3. TextRead' /\ OccsPlaced'
  BY <1>1 DEF TextRead, OccsPlaced
<1>4. TablesBehind'
  <2>1. Len(text) \in Nat /\ Len(text') \in Nat /\ Len(text) <= Len(text')
    BY <1>2 DEF Longer
  <2>2. 0..(Len(text) - 1) \subseteq 0..(Len(text') - 1)
    BY <2>1
  <2>. QED
    BY <1>1, <2>2 DEF PInv, TablesBehind
<1>5. \A s : StmtPlaced(s) => StmtPlaced(s)'
  BY <1>1, <1>2, StmtKept
<1>6. StmtsPlaced'
  BY <1>1, <1>5 DEF PInv, StmtsPlaced
<1>. QED
  BY <1>3, <1>4, <1>6 DEF PInv

LEMMA PInvStep == NInv /\ TInv /\ EInv /\ PInv /\ [Next]_vars => PInv'
<1>. SUFFICES ASSUME NInv, TInv, EInv, PInv, [Next]_vars PROVE PInv'
  OBVIOUS
<1>1. CASE \E c \in Constructs : Scan(c)
  BY <1>1, PSame DEF Scan, tables, ReadTo
<1>2. CASE Begin
  BY <1>2, PSame DEF Begin, tables, ReadTo
<1>3. CASE SkipAdd \/ AddAgain \/ AddNew
  BY <1>3, PSame DEF SkipAdd, AddAgain, AddNew, tables, ReadTo
<1>4. CASE EndNumber
  BY <1>4, PSame DEF EndNumber, tables, ReadTo, Prev
<1>5. CASE Reject \/ Replace \/ EndStmt \/ Finish
  BY <1>5, RejectP, ReplaceP, EndStmtP, FinishP
<1>6. CASE UNCHANGED vars
  BY <1>6, PSame DEF vars, ReadTo, Prev
<1>. QED
  BY <1>1, <1>2, <1>3, <1>4, <1>5, <1>6 DEF Next

(* However much is rewritten before and after it, what the engine finds in *)
(* the output is looked up in its own statement, and what was recorded of  *)
(* it there is that of its own construct and of no other. *)
THEOREM FoundAgainAlways == Spec => []FoundAgain
<1>1. NInv /\ TInv /\ EInv /\ PInv => FoundAgain
  <2>. SUFFICES ASSUME NInv, TInv, EInv, PInv, NEW k \in DOMAIN stmts,
                       NEW i \in DOMAIN stmts[k].occs, stmts[k].err = <<>>
                PROVE  LET s == stmts[k]
                           o == s.occs[i]
                       IN /\ StatementAt(FoundAt(o)) = k
                          /\ o.kind = "embed" <=> FoundAt(o) \in s.embeds
                          /\ o.kind = "slice" <=> FoundAt(o) \in s.slices
                          /\ o.kind # "embed" => /\ FoundAt(o) \in DOMAIN s.numbers
                                                 /\ s.numbers[FoundAt(o)] = o.number
    BY DEF FoundAgain
  <2>1. PICK s, o : s = stmts[k] /\ o = stmts[k].occs[i]
    OBVIOUS
  <2>2. PICK q \in s.start..(s.end - 1) :
            PlacedAt(o, q, text) /\ Recorded(o, q, s.embeds, s.slices, s.numbers)
    BY <2>1 DEF PInv, StmtsPlaced, StmtPlaced
  <2>3. FoundAt(o) = q
    BY <2>2, FoundIs DEF TInv, Tracked
  <2>4. StatementAt(q) = k
    BY <2>1, <2>2, StatementIs DEF NInv, Typed, EInv
  <2>. QED
    BY <2>1, <2>2, <2>3, <2>4 DEF Recorded
<1>. QED
  BY <1>1, InitHolds, InitT, InitE, InitP, NInvStep, TInvStep, EInvStep, PInvStep, PTL DEF Spec
=============================================================================
