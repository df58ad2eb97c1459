--------------------------- MODULE CoreCatalogProofs ---------------------------
(***************************************************************************)
(* Proofs about the columns of the core catalog, for any schema: any       *)
(* number of types, relations and columns, and CREATE TABLE with any       *)
(* number of definitions.                                                  *)
(***************************************************************************)
EXTENDS CoreCatalog, FiniteSetTheorems, TLAPS

(* The fields of a column. *)
Shaped(a) ==
    a = [class |-> a.class, name |-> a.name, num |-> a.num, type |-> a.type,
         notNull |-> a.notNull, expr |-> a.expr]

(* The columns S, of relations below n. *)
ColumnsOf(S, n) ==
    /\ IsFiniteSet(S)
    /\ \A a \in S : Shaped(a) /\ a.class \in Nat /\ a.class < n /\ a.num \in Nat

Distinct(S) ==
    \A a, b \in S : a.class = b.class /\ (a.num = b.num \/ a.name = b.name) => a = b

(* The oids of the relations and of the columns' relations have all been   *)
(* given out, so the next relation starts without columns. *)
CInv ==
    /\ nextClass \in Nat
    /\ \A k \in DOMAIN classes : k \in Nat /\ k < nextClass
    /\ ColumnsOf(attrs, nextClass)
    /\ Distinct(attrs)
--------------------------------------------------------------------------------
(* Facts about numbers and finite sets.                                    *)

LEMMA LeastNat ==
    ASSUME NEW T \in SUBSET Nat, T # {}
    PROVE  \E n \in T : \A m \in T : n <= m
<1> DEFINE R == {ss \in Nat \X Nat : ss[1] < ss[2]}
<1>1. IsWellFoundedOn(R, Nat)
    BY NatLessThanWellFounded DEF OpToRel
<1>2. \E n \in T : \A m \in T : <<m, n>> \notin R
  <2> HIDE DEF R
  <2> QED BY <1>1, WFMin
<1>3. PICK n \in T : \A m \in T : <<m, n>> \notin R
    BY <1>2
<1>4. \A m \in T : ~(m < n)
    BY <1>3
<1> QED BY <1>4

(* Induction up to n, for a set of numbers. *)
LEMMA ByInduction ==
    ASSUME NEW n \in Nat, NEW T, 0 \in T,
           \A i \in 0 .. n : i # n /\ i \in T => i + 1 \in T
    PROVE  \A i \in 0 .. n : i \in T
<1> DEFINE Out == {i \in 0 .. n : i \notin T}
<1> SUFFICES ASSUME Out # {} PROVE FALSE
    OBVIOUS
<1>1. PICK i \in Out : \A j \in Out : i <= j
  <2>1. Out \in SUBSET Nat
      OBVIOUS
  <2> HIDE DEF Out
  <2> QED BY <2>1, LeastNat
<1>2. i # 0 /\ i \in 0 .. n /\ i \notin T
    OBVIOUS
<1>3. i - 1 \in 0 .. n /\ i - 1 # n /\ i - 1 \in T
    BY <1>1, <1>2
<1> QED BY <1>2, <1>3

(* A finite set of numbers with one in it has a greatest. *)
LEMMA GreatestNat ==
    ASSUME NEW S \in SUBSET Nat, IsFiniteSet(S), S # {}
    PROVE  \E x \in S : \A y \in S : x >= y
<1>0. PICK n \in Nat : ExistsSurjection(1 .. n, S)
    BY FS_NatSurjection
<1>1. PICK f : f \in Surjection(1 .. n, S)
    BY <1>0 DEF ExistsSurjection
<1>2. /\ \A i \in 1 .. n : f[i] \in S /\ f[i] \in Nat
      /\ \A y \in S : \E i \in 1 .. n : f[i] = y
    BY <1>1 DEF Surjection
<1> DEFINE T == {i \in 0 .. n : \E b \in Nat : \A j \in 1 .. i : f[j] <= b}
<1>3. n \in T
  <2>1. 0 \in T
      OBVIOUS
  <2>2. ASSUME NEW i \in 0 .. n, i # n, i \in T PROVE i + 1 \in T
    <3>1. PICK b \in Nat : \A j \in 1 .. i : f[j] <= b
        BY <2>2
    <3>0. i + 1 \in 1 .. n
        BY <2>2
    <3>2. f[i + 1] \in Nat
        BY <1>2, <3>0
    <3>3. PICK c \in Nat : b <= c /\ f[i + 1] <= c
        BY <3>2
    <3>4. \A j \in 1 .. i + 1 : f[j] <= c
      <4> SUFFICES ASSUME NEW j \in 1 .. i + 1 PROVE f[j] <= c
          OBVIOUS
      <4>1. CASE j = i + 1
          BY <3>3, <4>1
      <4>2. CASE j # i + 1
        <5>1. j \in 1 .. i /\ j \in 1 .. n
            BY <2>2, <4>2
        <5>2. f[j] \in Nat /\ f[j] <= b
            BY <1>2, <3>1, <5>1
        <5> QED BY <3>3, <5>2
      <4> QED BY <4>1, <4>2
    <3> QED BY <3>0, <3>4
  <2> HIDE DEF T
  <2> QED BY <2>1, <2>2, ByInduction
<1> DEFINE Bounds == {b \in Nat : \A y \in S : y <= b}
<1>4. Bounds # {}
  <2>1. PICK b \in Nat : \A j \in 1 .. n : f[j] <= b
      BY <1>3
  <2>2. \A y \in S : y <= b
      BY <1>2, <2>1
  <2> QED BY <2>2
<1>5. PICK b \in Bounds : \A c \in Bounds : b <= c
  <2>1. Bounds \in SUBSET Nat
      OBVIOUS
  <2> HIDE DEF Bounds
  <2> QED BY <1>4, <2>1, LeastNat
<1>6. b \in S
  <2> SUFFICES ASSUME b \notin S PROVE FALSE
      OBVIOUS
  <2>1. b \in Nat /\ \A y \in S : y \in Nat /\ y <= b /\ y # b
      BY <1>5
  <2>2. b # 0
    <3>1. PICK y \in S : TRUE
        OBVIOUS
    <3>2. y \in Nat /\ y <= b /\ y # b
        BY <2>1
    <3> QED BY <3>2
  <2>3. b - 1 \in Nat /\ \A y \in S : y <= b - 1
      BY <2>1, <2>2
  <2> QED BY <1>5, <2>1, <2>3
<1> QED BY <1>5, <1>6

(* The image of a finite set under a function. *)
LEMMA FiniteImage ==
    ASSUME NEW S, IsFiniteSet(S), NEW f
    PROVE  IsFiniteSet({f[a] : a \in S})
<1> DEFINE T == {f[a] : a \in S}
           g == [a \in S |-> f[a]]
<1>1. g \in Surjection(S, T)
    BY DEF Surjection
<1> HIDE DEF T, g
<1> QED BY <1>1, FS_Surjection DEF T
--------------------------------------------------------------------------------
(* Facts about sets of columns.                                            *)

LEMMA FewerColumns ==
    ASSUME NEW S, NEW n \in Nat, ColumnsOf(S, n), Distinct(S), NEW T \in SUBSET S
    PROVE  ColumnsOf(T, n) /\ Distinct(T)
<1>1. IsFiniteSet(T)
    BY FS_Subset DEF ColumnsOf
<1> QED BY <1>1 DEF ColumnsOf, Distinct

(* Columns that are changed in fields other than their relation, place and *)
(* name. *)
LEMMA Altered ==
    ASSUME NEW S, NEW n \in Nat, ColumnsOf(S, n), Distinct(S), NEW f,
           \A a \in S : /\ Shaped(f[a]) /\ f[a].class = a.class /\ f[a].num = a.num
                        /\ f[a].name = a.name
    PROVE  ColumnsOf({f[a] : a \in S}, n) /\ Distinct({f[a] : a \in S})
<1>1. IsFiniteSet({f[a] : a \in S})
    BY FiniteImage DEF ColumnsOf
<1>2. ColumnsOf({f[a] : a \in S}, n)
    BY <1>1 DEF ColumnsOf
<1>3. Distinct({f[a] : a \in S})
    BY DEF Distinct
<1> QED BY <1>2, <1>3

(* CreateAttributeSpec: a column past the last place of its relation, of a *)
(* name that is not taken. *)
LEMMA AttributeAdded ==
    ASSUME NEW s, NEW n \in Nat, ColumnsOf(s.attrs, n), Distinct(s.attrs),
           NEW k \in Nat, k < n, NEW num \in Nat, NEW def,
           \A a \in s.attrs : a.class = k => a.num < num
    PROVE  LET t == AddAttribute(s, k, num, def) IN
           /\ ColumnsOf(t.attrs, n) /\ Distinct(t.attrs)
           /\ \A a \in t.attrs : a.class = k => a.num <= num
<1> DEFINE t == AddAttribute(s, k, num, def)
           taken == \E a \in s.attrs : a.class = k /\ a.name = def.name
           i == Intern(s.cat, def.expr)
           new == Column(k, num, def, i.oid, def.notNull \/ i.cat.types[i.oid].notNull)
<1>1. t.attrs = IF s.failed \/ taken THEN s.attrs ELSE s.attrs \cup {new}
  <2>1. CASE s.failed
      BY <2>1 DEF AddAttribute
  <2>2. CASE ~s.failed
    <3>1. t.attrs = s.attrs \cup IF taken THEN {} ELSE {new}
        BY <2>2 DEF AddAttribute
    <3> QED BY <2>2, <3>1
  <2> QED BY <2>1, <2>2
<1>2. Shaped(new) /\ new.class = k /\ new.num = num /\ new.name = def.name
    BY DEF Column, Shaped
<1>3. \A a \in s.attrs : a.class \in Nat /\ a.num \in Nat
    BY DEF ColumnsOf
<1>4. CASE s.failed \/ taken
  <2>1. t.attrs = s.attrs
      BY <1>1, <1>4
  <2> QED BY <1>3, <2>1
<1>5. CASE ~(s.failed \/ taken)
  <2> HIDE DEF new, t
  <2>1. t.attrs = s.attrs \cup {new}
      BY <1>1, <1>5
  <2>2. IsFiniteSet(t.attrs)
      BY <2>1, FS_AddElement DEF ColumnsOf
  <2>3. ColumnsOf(t.attrs, n)
      BY <1>2, <2>1, <2>2 DEF ColumnsOf
  <2>4. \A a \in s.attrs : a.class = k => a.num < num /\ a.name # def.name
      BY <1>5
  <2>5. Distinct(t.attrs)
      BY <1>2, <1>3, <2>1, <2>4 DEF Distinct
  <2>6. \A a \in t.attrs : a.class = k => a.num <= num
      BY <1>2, <1>3, <2>1
  <2> QED BY <2>3, <2>5, <2>6 DEF t
<1> QED BY <1>4, <1>5

(* The columns of CREATE TABLE, of a relation that had none. *)
LEMMA AttributesAdded ==
    ASSUME NEW s, NEW n \in Nat, ColumnsOf(s.attrs, n), Distinct(s.attrs),
           NEW k \in Nat, k < n, \A a \in s.attrs : a.class # k,
           NEW defs, Len(defs) \in Nat
    PROVE  LET t == AddAttributes(s, k, defs) IN ColumnsOf(t.attrs, n) /\ Distinct(t.attrs)
<1>0. PICK N \in Nat : N = Len(defs)
    OBVIOUS
<1> DEFINE Follows(g, i) ==
               g = [j \in 0 .. i |-> IF j = 0 THEN s ELSE AddAttribute(g[j - 1], k, j, defs[j])]
           Some == {i \in 0 .. N : \E g : Follows(g, i)}
<1>1. \E g : Follows(g, N)
  <2>1. 0 \in Some
    <3> DEFINE g == [j \in 0 .. 0 |-> s]
    <3>1. Follows(g, 0) /\ 0 \in 0 .. N
        OBVIOUS
    <3> QED BY <3>1
  <2>2. ASSUME NEW i \in 0 .. N, i # N, i \in Some PROVE i + 1 \in Some
    <3>1. PICK g : Follows(g, i)
        BY <2>2
    <3> DEFINE h == [j \in 0 .. i + 1 |-> IF j \in 0 .. i THEN g[j]
                                          ELSE AddAttribute(g[i], k, i + 1, defs[i + 1])]
    <3>2. \A j \in 0 .. i + 1 :
              h[j] = IF j = 0 THEN s ELSE AddAttribute(h[j - 1], k, j, defs[j])
      <4> SUFFICES ASSUME NEW j \in 0 .. i + 1
                   PROVE  h[j] = IF j = 0 THEN s ELSE AddAttribute(h[j - 1], k, j, defs[j])
          OBVIOUS
      <4>1. CASE j \in 0 .. i
        <5>1. h[j] = g[j] /\ (j # 0 => h[j - 1] = g[j - 1])
            BY <4>1
        <5>2. g[j] = IF j = 0 THEN s ELSE AddAttribute(g[j - 1], k, j, defs[j])
            BY <3>1, <4>1
        <5> QED BY <5>1, <5>2
      <4>2. CASE j = i + 1
        <5>1. h[j] = AddAttribute(g[i], k, j, defs[j]) /\ h[j - 1] = g[i] /\ j # 0
            BY <4>2
        <5> QED BY <5>1
      <4> QED BY <4>1, <4>2
    <3>3. Follows(h, i + 1)
        BY <3>2
    <3>4. i + 1 \in 0 .. N
        BY <2>2
    <3> QED BY <3>3, <3>4
  <2> HIDE DEF Some
  <2>3. \A i \in 0 .. N : i # N /\ i \in Some => i + 1 \in Some
      BY <2>2
  <2>4. \A i \in 0 .. N : i \in Some
      BY <2>1, <2>3, ByInduction, Zenon
  <2>5. N \in Some
      BY <2>4
  <2> QED BY <2>5 DEF Some
<1> DEFINE a == CHOOSE g : Follows(g, N)
<1>2. AddAttributes(s, k, defs) = a[N]
    BY <1>0 DEF AddAttributes
<1>3. Follows(a, N)
    BY <1>1
<1> HIDE DEF a
<1>4. \A i \in 0 .. N : a[i] = IF i = 0 THEN s ELSE AddAttribute(a[i - 1], k, i, defs[i])
    BY <1>3
<1> DEFINE Fine == {i \in 0 .. N :
                       /\ ColumnsOf(a[i].attrs, n) /\ Distinct(a[i].attrs)
                       /\ \A b \in a[i].attrs : b.class = k => b.num <= i}
<1>5. N \in Fine
  <2>1. 0 \in Fine
    <3>1. a[0] = s
        BY <1>4
    <3> QED BY <3>1
  <2>2. ASSUME NEW i \in 0 .. N, i # N, i \in Fine PROVE i + 1 \in Fine
    <3>1. i + 1 \in 0 .. N /\ i + 1 \in Nat
        BY <2>2
    <3>2. a[i + 1] = AddAttribute(a[i], k, i + 1, defs[i + 1])
        BY <1>4, <3>1
    <3>3. \A b \in a[i].attrs : b.class = k => b.num < i + 1
        BY <2>2 DEF ColumnsOf
    <3>4. ColumnsOf(a[i].attrs, n) /\ Distinct(a[i].attrs)
        BY <2>2
    <3>5. /\ ColumnsOf(a[i + 1].attrs, n) /\ Distinct(a[i + 1].attrs)
          /\ \A b \in a[i + 1].attrs : b.class = k => b.num <= i + 1
        BY <3>1, <3>2, <3>3, <3>4, AttributeAdded
    <3> QED BY <3>1, <3>5
  <2> HIDE DEF Fine
  <2>3. \A i \in 0 .. N : i # N /\ i \in Fine => i + 1 \in Fine
      BY <2>2
  <2>4. \A i \in 0 .. N : i \in Fine
      BY <2>1, <2>3, ByInduction, Zenon
  <2> QED BY <2>4
<1> QED BY <1>2, <1>5
--------------------------------------------------------------------------------
(* One lemma per statement.                                                *)

LEMMA InitCInv == Init => CInv
<1> SUFFICES ASSUME Init PROVE CInv
    OBVIOUS
<1>1. attrs = {} /\ nextClass = 1 /\ classes = <<>>
    BY DEF Init
<1>2. ColumnsOf(attrs, nextClass) /\ Distinct(attrs)
    BY <1>1, FS_EmptySet DEF ColumnsOf, Distinct
<1> QED BY <1>1, <1>2 DEF CInv

LEMMA SameColumns ==
    ASSUME CInv, UNCHANGED <<classes, nextClass, attrs>>
    PROVE  CInv'
BY DEF CInv, ColumnsOf, Distinct, Shaped

(* The steps that only change the columns of the relations there are. *)
LEMMA ColumnsChanged ==
    ASSUME CInv, UNCHANGED <<classes, nextClass>>, ColumnsOf(attrs', nextClass), Distinct(attrs')
    PROVE  CInv'
BY DEF CInv

LEMMA MoreRelations ==
    ASSUME NEW S, NEW n \in Nat, ColumnsOf(S, n)
    PROVE  ColumnsOf(S, n + 1)
BY DEF ColumnsOf

(* CREATE TABLE: the oid of the relation is new, and so are its columns.   *)
LEMMA CreateTableCInv ==
    ASSUME CInv, NEW rel, NEW defs, Len(defs) \in Nat, NEW b, CreateTable(rel, defs, b)
    PROVE  CInv'
<1>1. CASE ClassOIDs(rel) # {}
  <2>1. UNCHANGED <<classes, nextClass, attrs>>
      BY <1>1 DEF CreateTable, Skip, Fail, vars
  <2> QED BY <2>1, SameColumns
<1>2. CASE ClassOIDs(rel) = {}
  <2> DEFINE start == [Now EXCEPT !.cat.spaces = @ \cup {rel[1]}]
             done == AddAttributes(start, nextClass, defs)
  <2>1. NewClass(DOMAIN classes, rel, "r") /\ Effect(done)
      BY <1>2 DEF CreateTable
  <2>2. start.attrs = attrs
      BY DEF Now
  <2>3. /\ nextClass \in Nat /\ nextClass + 1 \in Nat /\ nextClass < nextClass + 1
        /\ ColumnsOf(attrs, nextClass + 1) /\ Distinct(attrs)
        /\ \A a \in attrs : a.class # nextClass
      BY MoreRelations DEF CInv, ColumnsOf
  <2>4. ColumnsOf(done.attrs, nextClass + 1) /\ Distinct(done.attrs)
    <3> HIDE DEF start
    <3> QED BY <2>2, <2>3, AttributesAdded
  <2>5. attrs' = done.attrs
      BY <2>1 DEF Effect
  <2>6. /\ nextClass' = nextClass + 1
        /\ \A j \in DOMAIN classes' : j \in DOMAIN classes \/ j = nextClass
      BY <2>1 DEF NewClass
  <2>7. \A j \in DOMAIN classes' : j \in Nat /\ j < nextClass'
      BY <2>3, <2>6 DEF CInv
  <2> HIDE DEF done
  <2> QED BY <2>3, <2>4, <2>5, <2>6, <2>7 DEF CInv
<1> QED BY <1>1, <1>2

LEMMA DropTableCInv == ASSUME CInv, NEW rel, NEW b, DropTable(rel, b) PROVE CInv'
<1>1. CASE ClassOIDs(rel) = {}
  <2>1. UNCHANGED <<classes, nextClass, attrs>>
      BY <1>1 DEF DropTable, Skip, Fail, vars
  <2> QED BY <2>1, SameColumns
<1>2. CASE ClassOIDs(rel) # {}
  <2>1. PICK k \in ClassOIDs(rel) :
            /\ classes' = [j \in DOMAIN classes \ {k} |-> classes[j]]
            /\ attrs' = attrs \ Columns(k) /\ UNCHANGED nextClass
      BY <1>2 DEF DropTable
  <2>2. nextClass \in Nat /\ attrs' \in SUBSET attrs
      BY <2>1 DEF CInv
  <2>3. ColumnsOf(attrs', nextClass) /\ Distinct(attrs')
      BY <2>2, FewerColumns DEF CInv
  <2>4. \A j \in DOMAIN classes' : j \in DOMAIN classes
      BY <2>1
  <2> QED BY <2>1, <2>3, <2>4 DEF CInv
<1> QED BY <1>1, <1>2

(* A statement about a relation that does not exist, or an error. *)
LEMMA AboutNothing == ASSUME CInv, Skip \/ Fail PROVE CInv'
<1>1. UNCHANGED <<classes, nextClass, attrs>>
    BY DEF Skip, Fail, vars
<1> QED BY <1>1, SameColumns

(* NextAttributeNum is past every column there is, dropped ones or not.    *)
LEMMA NextNumIsNew ==
    ASSUME CInv, NEW k
    PROVE  /\ NextAttributeNum(k) \in Nat
           /\ \A a \in attrs : a.class = k => a.num < NextAttributeNum(k)
<1> DEFINE f == [a \in attrs |-> a.num]
           used == {f[a] : a \in Columns(k)}
           S == used \cup {0}
<1>1. IsFiniteSet(S)
  <2>1. IsFiniteSet(Columns(k))
      BY FS_Subset DEF CInv, ColumnsOf, Columns
  <2>2. IsFiniteSet(used)
    <3> HIDE DEF f
    <3> QED BY <2>1, FiniteImage
  <2> HIDE DEF used
  <2> QED BY <2>2, FS_AddElement
<1>2. \A a \in Columns(k) : a \in attrs /\ f[a] = a.num /\ a.num \in Nat
    BY DEF Columns, CInv, ColumnsOf
<1>3. S \in SUBSET Nat /\ 0 \in S
  <2>1. \A x \in used : x \in Nat
      BY <1>2
  <2> HIDE DEF used
  <2> QED BY <2>1
<1>4. {0} \cup {a.num : a \in Columns(k)} = S
  <2>1. \A x : x \in {a.num : a \in Columns(k)} <=> x \in used
      BY <1>2
  <2> HIDE DEF used
  <2> QED BY <2>1
<1>5. \E x \in S : \A y \in S : x >= y
  <2> HIDE DEF S
  <2>1. S # {}
      BY <1>3
  <2> QED BY <1>1, <1>3, <2>1, GreatestNat
<1>6. Max(S) \in S /\ \A y \in S : Max(S) >= y
  <2> HIDE DEF S
  <2> QED BY <1>5 DEF Max
<1>7. NextAttributeNum(k) = Max(S) + 1
    BY <1>4 DEF NextAttributeNum
<1>8. \A a \in attrs : a.class = k => a.num \in S
    BY <1>2 DEF Columns
<1> HIDE DEF S
<1>9. PICK m \in Nat : m = Max(S)
    BY <1>3, <1>6
<1>10. ASSUME NEW a \in attrs, a.class = k PROVE a.num < NextAttributeNum(k)
  <2>1. a.num \in Nat /\ m >= a.num
      BY <1>3, <1>6, <1>8, <1>9, <1>10
  <2> QED BY <1>7, <1>9, <2>1
<1>11. NextAttributeNum(k) \in Nat
    BY <1>7, <1>9
<1> QED BY <1>10, <1>11

(* ALTER TABLE ... ADD COLUMN *)
LEMMA AddColumnCInv == ASSUME CInv, NEW rel, NEW def, NEW b, AddColumn(rel, def, b) PROVE CInv'
<1>1. CASE ClassOIDs(rel) = {}
    BY <1>1, AboutNothing DEF AddColumn, WithClass
<1>2. CASE ClassOIDs(rel) # {}
  <2>1. PICK k \in ClassOIDs(rel) :
            /\ Effect(AddAttribute(Now, k, NextAttributeNum(k), def))
            /\ UNCHANGED <<classes, nextClass>>
      BY <1>2 DEF AddColumn, WithClass
  <2>2. k \in Nat /\ k < nextClass /\ nextClass \in Nat
      BY DEF CInv, ClassOIDs
  <2>3. Now.attrs = attrs
      BY DEF Now
  <2> DEFINE num == NextAttributeNum(k)
             done == AddAttribute(Now, k, num, def)
  <2>4. num \in Nat /\ \A a \in attrs : a.class = k => a.num < num
      BY NextNumIsNew
  <2>5. ColumnsOf(done.attrs, nextClass) /\ Distinct(done.attrs)
    <3> HIDE DEF num
    <3> QED BY <2>2, <2>3, <2>4, AttributeAdded DEF CInv
  <2>6. attrs' = done.attrs
      BY <2>1 DEF Effect
  <2> HIDE DEF done
  <2> QED BY <2>1, <2>5, <2>6, ColumnsChanged
<1> QED BY <1>1, <1>2

LEMMA DropColumnCInv == ASSUME CInv, NEW rel, NEW name, DropColumn(rel, name) PROVE CInv'
<1>1. CASE ClassOIDs(rel) = {}
    BY <1>1, AboutNothing DEF DropColumn, WithClass
<1>2. CASE ClassOIDs(rel) # {}
  <2>1. PICK k \in ClassOIDs(rel) :
            /\ attrs' = {a \in attrs : a.class # k \/ a.name # name}
            /\ UNCHANGED <<classes, nextClass>>
      BY <1>2 DEF DropColumn, WithClass
  <2>2. nextClass \in Nat /\ attrs' \in SUBSET attrs
      BY <2>1 DEF CInv
  <2>3. ColumnsOf(attrs', nextClass) /\ Distinct(attrs')
      BY <2>2, FewerColumns DEF CInv
  <2> QED BY <2>1, <2>3, ColumnsChanged
<1> QED BY <1>1, <1>2

(* ALTER COLUMN ... TYPE *)
LEMMA AlterColumnTypeCInv ==
    ASSUME CInv, NEW rel, NEW name, NEW expr, NEW notNull,
           AlterColumnType(rel, name, expr, notNull)
    PROVE  CInv'
<1>1. CASE ClassOIDs(rel) = {}
    BY <1>1, AboutNothing DEF AlterColumnType, WithClass
<1>2. CASE ClassOIDs(rel) # {}
  <2> DEFINE retyped(k, t) ==
                 {IF a.class = k /\ a.name = name
                  THEN [a EXCEPT !.type = t.oid, !.expr = expr, !.notNull = a.notNull \/ notNull]
                  ELSE a : a \in attrs}
             kept(k, t) == [cat |-> t.cat, attrs |-> retyped(k, t), failed |-> FALSE]
  <2>0. PICK k \in ClassOIDs(rel) :
            /\ \E t \in {Intern(cat, expr)} : Effect(kept(k, t))
            /\ UNCHANGED <<classes, nextClass>>
      BY <1>2 DEF AlterColumnType, WithClass
  <2>00. PICK t : Effect(kept(k, t))
      BY <2>0
  <2>1. attrs' = retyped(k, t) /\ UNCHANGED <<classes, nextClass>>
    <3>1. kept(k, t).attrs = retyped(k, t)
        OBVIOUS
    <3> HIDE DEF kept, retyped
    <3> QED BY <2>0, <2>00, <3>1 DEF Effect
  <2> DEFINE f == [a \in attrs |->
                     IF a.class = k /\ a.name = name
                     THEN [a EXCEPT !.type = t.oid, !.expr = expr, !.notNull = a.notNull \/ notNull]
                     ELSE a]
  <2>2. attrs' = {f[a] : a \in attrs}
      BY <2>1
  <2>3. \A a \in attrs : /\ Shaped(f[a]) /\ f[a].class = a.class /\ f[a].num = a.num
                         /\ f[a].name = a.name
    <3> SUFFICES ASSUME NEW a \in attrs
                 PROVE  /\ Shaped(f[a]) /\ f[a].class = a.class /\ f[a].num = a.num
                        /\ f[a].name = a.name
        OBVIOUS
    <3>1. Shaped(a)
        BY DEF CInv, ColumnsOf
    <3>2. [a EXCEPT !.type = t.oid]
             = [class |-> a.class, name |-> a.name, num |-> a.num, type |-> t.oid,
                notNull |-> a.notNull, expr |-> a.expr]
        BY <3>1 DEF Shaped
    <3>3. [[a EXCEPT !.type = t.oid] EXCEPT !.expr = expr]
             = [class |-> a.class, name |-> a.name, num |-> a.num, type |-> t.oid,
                notNull |-> a.notNull, expr |-> expr]
      <4> DEFINE c == [a EXCEPT !.type = t.oid]
      <4>1. /\ c.class = a.class /\ c.name = a.name /\ c.num = a.num /\ c.type = t.oid
            /\ c.notNull = a.notNull /\ Shaped(c)
          BY <3>2 DEF Shaped
      <4> HIDE DEF c
      <4>2. [c EXCEPT !.expr = expr]
               = [class |-> c.class, name |-> c.name, num |-> c.num, type |-> c.type,
                  notNull |-> c.notNull, expr |-> expr]
          BY <4>1 DEF Shaped
      <4> QED BY <4>1, <4>2 DEF c
    <3> DEFINE typed == [[a EXCEPT !.type = t.oid] EXCEPT !.expr = expr]
               new == [typed EXCEPT !.notNull = a.notNull \/ notNull]
    <3>4. [a EXCEPT !.type = t.oid, !.expr = expr, !.notNull = a.notNull \/ notNull] = new
        OBVIOUS
    <3>5. /\ Shaped(new) /\ new.class = a.class /\ new.num = a.num /\ new.name = a.name
      <4>1. /\ typed.class = a.class /\ typed.name = a.name /\ typed.num = a.num
            /\ Shaped(typed)
          BY <3>3 DEF Shaped
      <4> HIDE DEF typed
      <4>2. new = [class |-> typed.class, name |-> typed.name, num |-> typed.num, type |-> typed.type,
                   notNull |-> a.notNull \/ notNull, expr |-> typed.expr]
          BY <4>1 DEF Shaped
      <4> HIDE DEF new
      <4> QED BY <4>1, <4>2 DEF Shaped
    <3> HIDE DEF new
    <3> QED BY <3>1, <3>4, <3>5
  <2>4. ColumnsOf(attrs', nextClass) /\ Distinct(attrs')
    <3> HIDE DEF f
    <3> QED BY <2>2, <2>3, Altered DEF CInv
  <2> QED BY <2>1, <2>4, ColumnsChanged
<1> QED BY <1>1, <1>2

(* ALTER COLUMN ... SET or DROP NOT NULL *)
LEMMA SetNotNullCInv ==
    ASSUME CInv, NEW rel, NEW name, NEW notNull, SetNotNull(rel, name, notNull)
    PROVE  CInv'
<1>1. CASE ClassOIDs(rel) = {}
    BY <1>1, AboutNothing DEF SetNotNull, WithClass
<1>2. CASE ClassOIDs(rel) # {}
  <2>1. PICK k \in ClassOIDs(rel) :
            /\ attrs' = {IF a.class = k /\ a.name = name
                         THEN [a EXCEPT !.notNull = notNull] ELSE a : a \in attrs}
            /\ UNCHANGED <<classes, nextClass>>
      BY <1>2 DEF SetNotNull, WithClass
  <2> DEFINE f == [a \in attrs |-> IF a.class = k /\ a.name = name
                                   THEN [a EXCEPT !.notNull = notNull] ELSE a]
  <2>2. attrs' = {f[a] : a \in attrs}
      BY <2>1
  <2>3. \A a \in attrs : /\ Shaped(f[a]) /\ f[a].class = a.class /\ f[a].num = a.num
                         /\ f[a].name = a.name
    <3> SUFFICES ASSUME NEW a \in attrs
                 PROVE  /\ Shaped(f[a]) /\ f[a].class = a.class /\ f[a].num = a.num
                        /\ f[a].name = a.name
        OBVIOUS
    <3>1. Shaped(a)
        BY DEF CInv, ColumnsOf
    <3>2. [a EXCEPT !.notNull = notNull]
             = [class |-> a.class, name |-> a.name, num |-> a.num, type |-> a.type,
                notNull |-> notNull, expr |-> a.expr]
        BY <3>1 DEF Shaped
    <3> QED BY <3>1, <3>2 DEF Shaped
  <2>4. ColumnsOf(attrs', nextClass) /\ Distinct(attrs')
    <3> HIDE DEF f
    <3> QED BY <2>2, <2>3, Altered DEF CInv
  <2> QED BY <2>1, <2>4, ColumnsChanged
<1> QED BY <1>1, <1>2

(* RENAME COLUMN: the new name is nobody's, or the column is not there. *)
LEMMA RenameColumnCInv ==
    ASSUME CInv, NEW rel, NEW name, NEW newName, RenameColumn(rel, name, newName)
    PROVE  CInv'
<1>1. CASE ClassOIDs(rel) = {}
    BY <1>1, AboutNothing DEF RenameColumn, WithClass
<1>2. CASE ClassOIDs(rel) # {}
  <2> DEFINE Refused(k) == name # newName /\ {name, newName} \subseteq {a.name : a \in Columns(k)}
  <2>1. PICK k \in ClassOIDs(rel) :
            IF Refused(k) THEN Fail
            ELSE /\ attrs' = {IF a.class = k /\ a.name = name
                              THEN [a EXCEPT !.name = newName] ELSE a : a \in attrs}
                 /\ UNCHANGED <<cat, classes, nextClass, extensions, errs>>
      BY <1>2 DEF RenameColumn, WithClass
  <2>2. CASE Refused(k)
      BY <2>1, <2>2, AboutNothing
  <2>3. CASE ~Refused(k)
    <3> DEFINE f == [a \in attrs |-> IF a.class = k /\ a.name = name
                                     THEN [a EXCEPT !.name = newName] ELSE a]
    <3>1. attrs' = {f[a] : a \in attrs} /\ UNCHANGED <<classes, nextClass>>
        BY <2>1, <2>3
    <3>2. ASSUME NEW a \in attrs
          PROVE  /\ Shaped(f[a]) /\ f[a].class = a.class /\ f[a].num = a.num
                 /\ f[a].name = IF a.class = k /\ a.name = name THEN newName ELSE a.name
      <4>1. Shaped(a)
          BY DEF CInv, ColumnsOf
      <4>2. [a EXCEPT !.name = newName]
               = [class |-> a.class, name |-> newName, num |-> a.num, type |-> a.type,
                  notNull |-> a.notNull, expr |-> a.expr]
          BY <4>1 DEF Shaped
      <4> QED BY <4>1, <4>2 DEF Shaped
    <3>3. \A a, b \in attrs :
              /\ a.class = k /\ b.class = k /\ a.name = name /\ b.name = newName
              => a = b
        BY <2>3 DEF Columns, CInv, Distinct
    <3> HIDE DEF f
    <3>4. ColumnsOf(attrs', nextClass)
      <4>1. IsFiniteSet(attrs')
          BY <3>1, FiniteImage DEF CInv, ColumnsOf
      <4> QED BY <3>1, <3>2, <4>1 DEF CInv, ColumnsOf
    <3>5. Distinct(attrs')
      <4> SUFFICES ASSUME NEW a \in attrs, NEW b \in attrs, f[a].class = f[b].class,
                          f[a].num = f[b].num \/ f[a].name = f[b].name
                   PROVE  f[a] = f[b]
          BY <3>1 DEF Distinct
      <4>1. a.class = b.class
          BY <3>2
      <4>2. CASE f[a].num = f[b].num
        <5>1. a.num = b.num
            BY <3>2, <4>2
        <5> QED BY <4>1, <5>1 DEF CInv, Distinct
      <4>3. CASE f[a].name = f[b].name
          BY <3>2, <3>3, <4>1, <4>3 DEF CInv, Distinct
      <4> QED BY <4>2, <4>3
    <3> QED BY <3>1, <3>4, <3>5, ColumnsChanged
  <2> HIDE DEF Refused
  <2> QED BY <2>2, <2>3
<1> QED BY <1>1, <1>2

LEMMA RenameTableCInv == ASSUME CInv, NEW rel, NEW new, RenameTable(rel, new) PROVE CInv'
<1>1. CASE ClassOIDs(rel) = {}
    BY <1>1, AboutNothing DEF RenameTable, WithClass
<1>2. CASE ClassOIDs(rel) # {}
  <2> DEFINE to == Name(rel[1], new)
  <2>1. PICK k \in ClassOIDs(rel) :
            \/ Fail
            \/ classes' = [classes EXCEPT ![k].rel = to] /\ UNCHANGED <<nextClass, attrs>>
      BY <1>2 DEF RenameTable, WithClass
  <2>2. CASE Fail
      BY <2>2, AboutNothing
  <2>3. CASE classes' = [classes EXCEPT ![k].rel = to] /\ UNCHANGED <<nextClass, attrs>>
    <3>1. DOMAIN classes' = DOMAIN classes
        BY <2>3
    <3>2. ColumnsOf(attrs', nextClass') /\ Distinct(attrs')
        BY <2>3 DEF CInv
    <3> QED BY <2>3, <3>1, <3>2 DEF CInv
  <2> QED BY <2>1, <2>2, <2>3
<1> QED BY <1>1, <1>2

(* The place of a column among those of its relation. *)
LEMMA RankIncreases ==
    ASSUME CInv, NEW k
    PROVE  LET rank(a) == Cardinality({b \in Columns(k) : b.num <= a.num}) IN
           /\ \A a \in Columns(k) : rank(a) \in Nat
           /\ \A a, b \in Columns(k) : rank(a) = rank(b) => a = b
<1> DEFINE upTo(a) == {b \in Columns(k) : b.num <= a.num}
<1>1. IsFiniteSet(Columns(k))
    BY FS_Subset DEF CInv, ColumnsOf, Columns
<1>2. \A a \in Columns(k) : a.num \in Nat /\ a.class = k /\ a \in attrs
    BY DEF CInv, ColumnsOf, Columns
<1>3. \A a \in Columns(k) : IsFiniteSet(upTo(a)) /\ Cardinality(upTo(a)) \in Nat
    BY <1>1, FS_Subset, FS_CardinalityType
<1>4. ASSUME NEW a \in Columns(k), NEW b \in Columns(k), a.num < b.num
      PROVE  Cardinality(upTo(a)) # Cardinality(upTo(b))
  <2>1. upTo(a) \in SUBSET upTo(b)
      BY <1>2, <1>4
  <2>2. b \in upTo(b) /\ b \notin upTo(a)
      BY <1>2, <1>4
  <2>3. upTo(a) # upTo(b)
      BY <2>2
  <2> HIDE DEF upTo
  <2> QED BY <1>3, <2>1, <2>3, FS_Subset
<1>5. ASSUME NEW a \in Columns(k), NEW b \in Columns(k), Cardinality(upTo(a)) = Cardinality(upTo(b))
      PROVE  a = b
  <2>1. ~(a.num < b.num) /\ ~(b.num < a.num)
      BY <1>4, <1>5
  <2>2. a.num = b.num
      BY <1>2, <2>1
  <2> QED BY <1>2, <2>2 DEF CInv, Distinct
<1> QED BY <1>3, <1>5

LEMMA ThreeFields ==
    ASSUME NEW a, Shaped(a), NEW c, NEW b, NEW n
    PROVE  [a EXCEPT !.class = c, !.notNull = b, !.num = n]
             = [class |-> c, name |-> a.name, num |-> n, type |-> a.type,
                notNull |-> b, expr |-> a.expr]
<1>1. PICK r : r = [a EXCEPT !.class = c]
    OBVIOUS
<1>2. r = [class |-> c, name |-> a.name, num |-> a.num, type |-> a.type,
           notNull |-> a.notNull, expr |-> a.expr]
    BY <1>1 DEF Shaped
<1>3. PICK s : s = [r EXCEPT !.notNull = b]
    OBVIOUS
<1>4. s = [class |-> c, name |-> a.name, num |-> a.num, type |-> a.type,
           notNull |-> b, expr |-> a.expr]
    BY <1>2, <1>3
<1>5. [s EXCEPT !.num = n] = [class |-> c, name |-> a.name, num |-> n, type |-> a.type,
                              notNull |-> b, expr |-> a.expr]
    BY <1>4
<1> QED BY <1>1, <1>3, <1>5

(* CREATE VIEW and CREATE TABLE AS: the columns are those of another       *)
(* relation, numbered anew. *)
LEMMA CreateViewCInv ==
    ASSUME CInv, NEW rel, NEW src, NEW kind, NEW replace, CreateView(rel, src, kind, replace)
    PROVE  CInv'
<1> DEFINE old == ClassOIDs(rel)
           keep == {a \in attrs : a.class \notin old}
           rank(k, a) == Cardinality({b \in Columns(k) : b.num <= a.num})
           shown(k) == {[a EXCEPT !.class = nextClass, !.notNull = kind = "v" /\ @,
                                  !.num = Cardinality({b \in Columns(k) : b.num <= @})] :
                            a \in Columns(k)}
<1>1. CASE old # {} /\ ~replace
    BY <1>1, AboutNothing DEF CreateView
<1>0. nextClass \in Nat /\ ColumnsOf(keep, nextClass) /\ Distinct(keep)
  <2>1. nextClass \in Nat /\ keep \in SUBSET attrs
      BY DEF CInv
  <2> HIDE DEF keep
  <2> QED BY <2>1, FewerColumns DEF CInv
<1>2. CASE ~(old # {} /\ ~replace) /\ ClassOIDs(src) \ old = {}
  <2>1. /\ classes' = [j \in DOMAIN classes \ old |-> classes[j]]
        /\ attrs' = keep /\ UNCHANGED nextClass
      BY <1>2 DEF CreateView
  <2>2. \A j \in DOMAIN classes' : j \in DOMAIN classes
      BY <2>1
  <2> HIDE DEF keep
  <2> QED BY <1>0, <2>1, <2>2 DEF CInv
<1>3. CASE ~(old # {} /\ ~replace) /\ ClassOIDs(src) \ old # {}
  <2>1. PICK k \in ClassOIDs(src) \ old :
            /\ NewClass(DOMAIN classes \ old, rel, kind)
            /\ attrs' = keep \cup shown(k)
      BY <1>3 DEF CreateView
  <2> DEFINE made(a) == [a EXCEPT !.class = nextClass, !.notNull = kind = "v" /\ @,
                                  !.num = Cardinality({b \in Columns(k) : b.num <= @})]
             f == [a \in Columns(k) |-> made(a)]
             new == {f[a] : a \in Columns(k)}
  <2>2. shown(k) = new
      OBVIOUS
  <2>3. ASSUME NEW a \in Columns(k)
        PROVE  /\ Shaped(f[a]) /\ f[a].class = nextClass /\ f[a].num = rank(k, a)
               /\ f[a].name = a.name
    <3>1. Shaped(a)
        BY DEF CInv, ColumnsOf, Columns
    <3>2. PICK b : b = (kind = "v" /\ a.notNull)
        OBVIOUS
    <3>3. f[a] = [a EXCEPT !.class = nextClass, !.notNull = b, !.num = rank(k, a)]
        BY <3>2
    <3>4. f[a] = [class |-> nextClass, name |-> a.name, num |-> rank(k, a), type |-> a.type,
                  notNull |-> b, expr |-> a.expr]
      <4>1. PICK n : n = rank(k, a)
          OBVIOUS
      <4> HIDE DEF rank, f
      <4>2. [a EXCEPT !.class = nextClass, !.notNull = b, !.num = n]
               = [class |-> nextClass, name |-> a.name, num |-> n, type |-> a.type,
                  notNull |-> b, expr |-> a.expr]
          BY <3>1, ThreeFields
      <4> QED BY <3>3, <4>1, <4>2
    <3> HIDE DEF f, rank
    <3> QED BY <3>4 DEF Shaped
  <2>4. /\ \A a \in Columns(k) : rank(k, a) \in Nat
        /\ \A a, b \in Columns(k) : rank(k, a) = rank(k, b) => a = b
      BY RankIncreases
  <2>5. IsFiniteSet(new)
    <3>1. IsFiniteSet(Columns(k))
        BY FS_Subset DEF CInv, ColumnsOf, Columns
    <3> HIDE DEF f
    <3> QED BY <3>1, FiniteImage
  <2>6. nextClass' = nextClass + 1 /\ \A j \in DOMAIN classes' : j \in DOMAIN classes \/ j = nextClass
      BY <2>1 DEF NewClass
  <2>7. \A a, b \in Columns(k) : a.name = b.name => a = b
      BY DEF CInv, Distinct, Columns
  <2> HIDE DEF f, rank, keep, shown, old
  <2>8. ColumnsOf(new, nextClass + 1) /\ Distinct(new)
    <3>1. ColumnsOf(new, nextClass + 1)
        BY <1>0, <2>3, <2>4, <2>5 DEF ColumnsOf
    <3>2. Distinct(new)
        BY <2>3, <2>4, <2>7 DEF Distinct
    <3> QED BY <3>1, <3>2
  <2>9. \A a \in new : a.class = nextClass
      BY <2>3
  <2> HIDE DEF new
  <2>10. \A a \in keep : a.class # nextClass
      BY <1>0 DEF ColumnsOf
  <2>11. attrs' = keep \cup new
      BY <2>1, <2>2
  <2>12. ColumnsOf(attrs', nextClass + 1) /\ Distinct(attrs')
    <3>1. IsFiniteSet(attrs')
        BY <1>0, <2>5, <2>11, FS_Union DEF ColumnsOf
    <3>2. ColumnsOf(keep, nextClass + 1)
        BY <1>0, MoreRelations
    <3>3. ColumnsOf(attrs', nextClass + 1)
        BY <2>8, <2>11, <3>1, <3>2 DEF ColumnsOf
    <3>4. Distinct(attrs')
        BY <1>0, <2>8, <2>9, <2>10, <2>11 DEF Distinct
    <3> QED BY <3>3, <3>4
  <2>13. nextClass' \in Nat /\ \A j \in DOMAIN classes' : j \in Nat /\ j < nextClass'
      BY <1>0, <2>6 DEF CInv
  <2> QED BY <2>6, <2>12, <2>13 DEF CInv
<1> QED BY <1>1, <1>2, <1>3

(* The statements about types and extensions leave the relations alone. *)
LEMMA TypeStmtCInv == ASSUME CInv, NEW name, TypeStmt(name) PROVE CInv'
<1>1. UNCHANGED <<classes, nextClass, attrs>>
    BY DEF TypeStmt, CreateType, CreateComposite, CreateRange, CreateDomain, DropType,
           Declare, Skip, Fail, vars
<1> QED BY <1>1, SameColumns

LEMMA LoadExtensionCInv == ASSUME CInv, NEW ext, LoadExtension(ext) PROVE CInv'
<1>1. UNCHANGED <<classes, nextClass, attrs>>
    BY DEF LoadExtension, Skip, vars
<1> QED BY <1>1, SameColumns

LEMMA CreateStmtCInv == ASSUME CInv, CreateStmt PROVE CInv'
<1>1. ASSUME NEW rel \in Tables, NEW d \in Defs, NEW b \in BOOLEAN, CreateTable(rel, <<d>>, b)
      PROVE  CInv'
  <2>1. Len(<<d>>) \in Nat
      OBVIOUS
  <2> QED BY <1>1, <2>1, CreateTableCInv
<1>2. ASSUME NEW rel \in Tables, NEW d \in Defs, NEW e \in Defs, CreateTable(rel, <<d, e>>, FALSE)
      PROVE  CInv'
  <2>1. Len(<<d, e>>) \in Nat
      OBVIOUS
  <2> QED BY <1>2, <2>1, CreateTableCInv
<1>3. ASSUME NEW rel, NEW src, NEW kind, NEW b, CreateView(rel, src, kind, b) PROVE CInv'
    BY <1>3, CreateViewCInv
<1> QED BY <1>1, <1>2, <1>3 DEF CreateStmt

LEMMA TableStmtCInv == ASSUME CInv, NEW rel, TableStmt(rel) PROVE CInv'
BY DropTableCInv, AddColumnCInv, DropColumnCInv, AlterColumnTypeCInv, SetNotNullCInv,
   RenameColumnCInv, RenameTableCInv DEF TableStmt

LEMMA NextCInv == CInv /\ [Next]_vars => CInv'
<1>1. ASSUME CInv, UNCHANGED vars PROVE CInv'
    BY <1>1, SameColumns DEF vars
<1>2. ASSUME CInv, Next PROVE CInv'
    BY <1>2, CreateStmtCInv, TableStmtCInv, TypeStmtCInv, LoadExtensionCInv DEF Next
<1> QED BY <1>1, <1>2
--------------------------------------------------------------------------------
(* No sequence of statements makes two columns of a relation share their   *)
(* place or their name: neither the columns of a CREATE TABLE of any       *)
(* length, nor an ADD COLUMN after a DROP COLUMN, nor a view's, numbered   *)
(* by rank, runs into UNIQUE (class_oid, num).                             *)
THEOREM ColumnsDistinctAlways == Spec => []ColumnsDistinct
<1>1. CInv => ColumnsDistinct
    BY DEF CInv, Distinct, ColumnsDistinct
<1> QED BY <1>1, InitCInv, NextCInv, PTL DEF Spec
================================================================================
