--------------------------- MODULE CatalogProofs ---------------------------
(***************************************************************************)
(* Proofs about the in-memory catalog, for schemas of any dialect, with    *)
(* any names, numbers of schemas, tables, columns and types, and any       *)
(* sequence of statements, failing ones included.                          *)
(***************************************************************************)
EXTENDS Catalog, FiniteSetTheorems, SequenceTheorems, TLAPS

(* The values of cat. *)
Unqualified == ""
SchemaRefs ==
    SchemaNames \cup TableSchemas \cup {Unqualified} \cup {r.schema : r \in ColTypes \cup TypeRefs}
TypeNames ==
    {r.name : r \in ColTypes \cup TypeRefs} \cup NewTypeNames
        \cup {EnumName(t, a) : t \in TableNames, a \in ColNames}
TypeName == [schema : SchemaRefs, name : TypeNames]

Column == [name : ColNames, type : TypeName, notNull : BOOLEAN, linked : BOOLEAN]
Table == [rel : [schema : SchemaRefs, name : TableNames], cols : Seq(Nat)]
Type == [kind : {"enum", "composite"}, name : TypeNames, vals : Seq(Labels)]
Schema == [name : SchemaNames, tables : Seq(Table), types : Seq(Type)]
Catalogs == [schemas : Seq(Schema), cols : Seq(Column), err : BOOLEAN]
--------------------------------------------------------------------------------
(* Facts about numbers, sequences and loops.                               *)

LEMMA LeastNat ==
    ASSUME NEW T \in SUBSET Nat, T # {}
    PROVE  \E n \in T : \A m \in T : n <= m
<1> DEFINE R == {ss \in Nat \X Nat : ss[1] < ss[2]}
<1>1. IsWellFoundedOn(R, Nat)
    BY NatLessThanWellFounded DEF OpToRel
<1>2. \E n \in T : \A m \in T : <<m, n>> \notin R
  <2> HIDE DEF R
  <2> QED BY <1>1, WFMin
<1>3. PICK n \in T : \A m \in T : <<m, n>> \notin R
    BY <1>2
<1>4. \A m \in T : ~(m < n)
    BY <1>3
<1> QED BY <1>4

(* Induction up to n, for a set of numbers. *)
LEMMA ByInduction ==
    ASSUME NEW n \in Nat, NEW T, 0 \in T,
           \A i \in 0 .. n : i # n /\ i \in T => i + 1 \in T
    PROVE  \A i \in 0 .. n : i \in T
<1> DEFINE Out == {i \in 0 .. n : i \notin T}
<1> SUFFICES ASSUME Out # {} PROVE FALSE
    OBVIOUS
<1>1. PICK i \in Out : \A j \in Out : i <= j
  <2>1. Out \in SUBSET Nat
      OBVIOUS
  <2> HIDE DEF Out
  <2> QED BY <2>1, LeastNat
<1>2. i # 0 /\ i \in 0 .. n /\ i \notin T
    OBVIOUS
<1>3. i - 1 \in 0 .. n /\ i - 1 # n /\ i - 1 \in T
    BY <1>1, <1>2
<1> QED BY <1>2, <1>3

LEMMA MinIs ==
    ASSUME NEW n \in Nat, NEW I \in SUBSET (1 .. n), I # {}
    PROVE  Min(I) \in I /\ \A x \in I : Min(I) <= x
<1>1. I \in SUBSET Nat
    OBVIOUS
<1>2. \E x \in I : \A y \in I : x <= y
    BY <1>1, LeastNat
<1> QED BY <1>2 DEF Min

LEMMA MaxIs ==
    ASSUME NEW n \in Nat, NEW I \in SUBSET (1 .. n), I # {}
    PROVE  Max(I) \in I /\ \A x \in I : x <= Max(I)
<1> DEFINE J == {n - x : x \in I}
<1>0. PICK z \in I : TRUE
    OBVIOUS
<1>1. J \in SUBSET Nat /\ J # {}
  <2>1. \A x \in I : x \in 1 .. n /\ n - x \in Nat
      OBVIOUS
  <2>2. n - z \in J
      OBVIOUS
  <2> QED BY <2>1, <2>2
<1>2. PICK j \in J : \A k \in J : j <= k
  <2> HIDE DEF J
  <2> QED BY <1>1, LeastNat
<1>3. PICK x \in I : j = n - x
    OBVIOUS
<1>4. \A y \in I : x >= y
  <2> SUFFICES ASSUME NEW y \in I PROVE x >= y
      OBVIOUS
  <2>1. n - y \in J
      OBVIOUS
  <2>2. j <= n - y
      BY <1>2, <2>1
  <2>3. x \in Nat /\ y \in Nat
      OBVIOUS
  <2> QED BY <1>3, <2>2, <2>3
<1>5. \E m \in I : \A y \in I : m >= y
    BY <1>4
<1>6. Max(I) \in I /\ \A y \in I : Max(I) >= y
    BY <1>5 DEF Max
<1> QED BY <1>6

Longer(t, s, e, T) ==
    /\ t \in Seq(T) /\ Len(t) = Len(s) + 1 /\ s \in Seq(T)
    /\ \A k \in DOMAIN t : (k = Len(s) + 1 /\ t[k] = e) \/ (k \in DOMAIN s /\ t[k] = s[k])
    /\ t[Len(s) + 1] = e
    /\ \A k \in DOMAIN s : k \in DOMAIN t /\ t[k] = s[k]

Past(k, i) == IF k < i THEN k ELSE k + 1
Shorter(t, s, i, T) ==
    /\ t \in Seq(T) /\ Len(t) = Len(s) - 1
    /\ \A k \in DOMAIN t : Past(k, i) \in DOMAIN s /\ Past(k, i) # i /\ t[k] = s[Past(k, i)]
    /\ \A k, l \in DOMAIN t : Past(k, i) = Past(l, i) => k = l

LEMMA AppendIs ==
    ASSUME NEW T, NEW s \in Seq(T), NEW e \in T
    PROVE  Longer(Append(s, e), s, e, T)
<1> DEFINE t == Append(s, e)
<1>1. /\ t \in Seq(T) /\ Len(t) = Len(s) + 1 /\ t[Len(s) + 1] = e
      /\ \A k \in 1 .. Len(s) : t[k] = s[k]
    OBVIOUS
<1> HIDE DEF t
<1>2. DOMAIN t = 1 .. Len(s) + 1 /\ DOMAIN s = 1 .. Len(s) /\ Len(s) \in Nat
    BY <1>1
<1>3. \A k \in 1 .. Len(s) + 1 : k = Len(s) + 1 \/ k \in 1 .. Len(s)
    BY <1>2
<1>4. 1 .. Len(s) \subseteq 1 .. Len(s) + 1
    BY <1>2
<1>5. \A k \in DOMAIN t : (k = Len(s) + 1 /\ t[k] = e) \/ (k \in DOMAIN s /\ t[k] = s[k])
  <2> SUFFICES ASSUME NEW k \in DOMAIN t
               PROVE  (k = Len(s) + 1 /\ t[k] = e) \/ (k \in DOMAIN s /\ t[k] = s[k])
      OBVIOUS
  <2>1. k \in 1 .. Len(s) + 1
      BY <1>2
  <2> QED BY <1>1, <1>2, <1>3, <2>1
<1>6. \A k \in DOMAIN s : k \in DOMAIN t /\ t[k] = s[k]
    BY <1>1, <1>2, <1>4
<1>7. Longer(t, s, e, T)
    BY <1>1, <1>5, <1>6 DEF Longer
<1> QED BY <1>7 DEF t

LEMMA RemoveIs ==
    ASSUME NEW T, NEW s \in Seq(T), NEW i \in 1 .. Len(s)
    PROVE  Shorter(RemoveAt(s, i), s, i, T)
<1> DEFINE a == SubSeq(s, 1, i - 1)
           b == SubSeq(s, i + 1, Len(s))
<1>1. /\ a \in Seq(T) /\ Len(a) = i - 1
      /\ \A k \in 1 .. i - 1 : a[k] = s[k]
    OBVIOUS
<1>2. /\ b \in Seq(T) /\ Len(b) = Len(s) - i
      /\ \A k \in 1 .. Len(s) - i : b[k] = s[i + k]
    OBVIOUS
<1>3. RemoveAt(s, i) = a \o b
    BY DEF RemoveAt
<1> HIDE DEF a, b
<1>4. /\ a \o b \in Seq(T) /\ Len(a \o b) = Len(s) - 1
      /\ \A k \in 1 .. Len(s) - 1 : (a \o b)[k] = IF k < i THEN a[k] ELSE b[k - (i - 1)]
  <2>1. /\ a \o b \in Seq(T) /\ Len(a \o b) = Len(a) + Len(b)
        /\ \A k \in 1 .. Len(a) + Len(b) :
               (a \o b)[k] = IF k <= Len(a) THEN a[k] ELSE b[k - Len(a)]
      BY <1>1, <1>2, ConcatProperties, Zenon
  <2>2. Len(s) \in Nat /\ i \in 1 .. Len(s)
      OBVIOUS
  <2>3. Len(a) + Len(b) = Len(s) - 1
      BY <1>1, <1>2, <2>2
  <2>4. \A k \in 1 .. Len(s) - 1 : k <= Len(a) <=> k < i
      BY <1>1, <2>2
  <2> QED BY <1>1, <2>1, <2>3, <2>4
<1>5. ASSUME NEW k \in 1 .. Len(s) - 1
      PROVE  RemoveAt(s, i)[k] = s[IF k < i THEN k ELSE k + 1]
  <2>1. CASE k < i
      BY <1>1, <1>3, <1>4, <2>1
  <2>2. CASE ~(k < i)
    <3>1. k - (i - 1) \in 1 .. Len(s) - i /\ i + (k - (i - 1)) = k + 1
        BY <2>2
    <3> QED BY <1>2, <1>3, <1>4, <2>2, <3>1
  <2> QED BY <2>1, <2>2
<1> DEFINE t == RemoveAt(s, i)
<1>6. t \in Seq(T) /\ Len(t) = Len(s) - 1 /\ DOMAIN t = 1 .. Len(s) - 1
    BY <1>3, <1>4
<1>7. \A k \in 1 .. Len(s) - 1 : t[k] = s[Past(k, i)]
    BY <1>5 DEF Past
<1> HIDE DEF t
<1>8. /\ \A k \in 1 .. Len(s) - 1 : Past(k, i) \in 1 .. Len(s) /\ Past(k, i) # i
      /\ \A k, l \in 1 .. Len(s) - 1 : Past(k, i) = Past(l, i) => k = l
    BY DEF Past
<1>9. Shorter(t, s, i, T)
  <2>1. DOMAIN s = 1 .. Len(s)
      OBVIOUS
  <2>2. \A k \in DOMAIN t : Past(k, i) \in DOMAIN s /\ Past(k, i) # i /\ t[k] = s[Past(k, i)]
    <3> SUFFICES ASSUME NEW k \in DOMAIN t
                 PROVE  Past(k, i) \in DOMAIN s /\ Past(k, i) # i /\ t[k] = s[Past(k, i)]
        OBVIOUS
    <3>1. k \in 1 .. Len(s) - 1
        BY <1>6
    <3> QED BY <1>7, <1>8, <2>1, <3>1
  <2>3. \A k, l \in DOMAIN t : Past(k, i) = Past(l, i) => k = l
    <3> SUFFICES ASSUME NEW k \in DOMAIN t, NEW l \in DOMAIN t PROVE Past(k, i) = Past(l, i) => k = l
        OBVIOUS
    <3>1. k \in 1 .. Len(s) - 1 /\ l \in 1 .. Len(s) - 1
        BY <1>6
    <3> QED BY <1>8, <3>1
  <2> QED BY <1>6, <2>2, <2>3 DEF Shorter
<1> QED BY <1>9 DEF t

Joined(t, a, b, T) ==
    /\ t \in Seq(T) /\ Len(t) = Len(a) + Len(b)
    /\ \A k \in DOMAIN t : \/ (k \in DOMAIN a /\ t[k] = a[k])
                          \/ (k \notin DOMAIN a /\ k - Len(a) \in DOMAIN b /\ t[k] = b[k - Len(a)])
    /\ \A k \in DOMAIN a : k \in DOMAIN t /\ t[k] = a[k]
    /\ \A k \in DOMAIN b : Len(a) + k \in DOMAIN t /\ t[Len(a) + k] = b[k]

LEMMA JoinIs ==
    ASSUME NEW T, NEW a \in Seq(T), NEW b \in Seq(T)
    PROVE  Joined(a \o b, a, b, T)
<1> DEFINE t == a \o b
<1>1. /\ t \in Seq(T) /\ Len(t) = Len(a) + Len(b)
      /\ \A k \in 1 .. Len(a) + Len(b) : t[k] = IF k <= Len(a) THEN a[k] ELSE b[k - Len(a)]
    BY ConcatProperties, Zenon
<1>2. /\ Len(a) \in Nat /\ Len(b) \in Nat
      /\ DOMAIN a = 1 .. Len(a) /\ DOMAIN b = 1 .. Len(b)
    OBVIOUS
<1> HIDE DEF t
<1>3. DOMAIN t = 1 .. Len(a) + Len(b)
    BY <1>1
<1>4. ASSUME NEW k \in DOMAIN t
      PROVE  \/ (k \in DOMAIN a /\ t[k] = a[k])
             \/ (k \notin DOMAIN a /\ k - Len(a) \in DOMAIN b /\ t[k] = b[k - Len(a)])
  <2>1. k \in 1 .. Len(a) + Len(b)
      BY <1>3
  <2>2. CASE k <= Len(a)
    <3>1. k \in 1 .. Len(a)
        BY <1>2, <2>1, <2>2
    <3> QED BY <1>1, <1>2, <2>1, <2>2, <3>1
  <2>3. CASE ~(k <= Len(a))
    <3>1. k \notin 1 .. Len(a) /\ k - Len(a) \in 1 .. Len(b)
        BY <1>2, <2>1, <2>3
    <3> QED BY <1>1, <1>2, <2>1, <2>3, <3>1
  <2> QED BY <2>2, <2>3
<1>5. ASSUME NEW k \in DOMAIN a PROVE k \in DOMAIN t /\ t[k] = a[k]
  <2>1. k \in 1 .. Len(a) + Len(b) /\ k <= Len(a)
      BY <1>2
  <2> QED BY <1>1, <1>3, <2>1
<1>6. ASSUME NEW k \in DOMAIN b PROVE Len(a) + k \in DOMAIN t /\ t[Len(a) + k] = b[k]
  <2>1. Len(a) + k \in 1 .. Len(a) + Len(b) /\ ~(Len(a) + k <= Len(a)) /\ (Len(a) + k) - Len(a) = k
      BY <1>2
  <2> QED BY <1>1, <1>3, <2>1
<1>7. Joined(t, a, b, T)
    BY <1>1, <1>4, <1>5, <1>6 DEF Joined
<1> QED BY <1>7 DEF t

LEMMA PlusOne ==
    ASSUME NEW T, NEW s \in Seq(T), NEW e \in T
    PROVE  Append(s, e) \in Seq(T) /\ \A k \in DOMAIN Append(s, e) :
               (k \in DOMAIN s /\ Append(s, e)[k] = s[k]) \/ Append(s, e)[k] = e
BY AppendIs DEF Longer

(* g records a loop from s in S on whose steps are the functions F. *)
Records(g, S, s, N, F) ==
    g \in [0 .. N -> S] /\ \A i \in 0 .. N : g[i] = IF i = 0 THEN s ELSE F[i][g[i - 1]]

(* A loop whose steps stay in a set can be recorded, and stays there. *)
LEMMA LoopIs ==
    ASSUME NEW S, NEW s \in S, NEW N \in Nat, NEW F \in [1 .. N -> [S -> S]]
    PROVE  \E g : Records(g, S, s, N, F)
<1> DEFINE Follows(g, i) == \A j \in 0 .. i : g[j] = IF j = 0 THEN s ELSE F[j][g[j - 1]]
           Some == {i \in 0 .. N : \E g \in [0 .. i -> S] : Follows(g, i)}
<1>1. 0 \in Some
  <2> DEFINE g == [j \in 0 .. 0 |-> s]
  <2>1. g \in [0 .. 0 -> S] /\ Follows(g, 0) /\ 0 \in 0 .. N
      OBVIOUS
  <2> QED BY <2>1
<1>2. ASSUME NEW i \in 0 .. N, i # N, i \in Some PROVE i + 1 \in Some
  <2>1. PICK g \in [0 .. i -> S] : Follows(g, i)
      BY <1>2
  <2>2. i + 1 \in 1 .. N /\ i + 1 \in 0 .. N /\ i \in 0 .. i
      BY <1>2
  <2>3. F[i + 1][g[i]] \in S
      BY <2>2
  <2> DEFINE h == [j \in 0 .. i + 1 |-> IF j = i + 1 THEN F[i + 1][g[i]] ELSE g[j]]
  <2>4. h \in [0 .. i + 1 -> S]
      BY <2>3
  <2>5. ASSUME NEW j \in 0 .. i + 1 PROVE h[j] = IF j = 0 THEN s ELSE F[j][h[j - 1]]
    <3>1. CASE j = i + 1
      <4>1. h[j] = F[j][g[i]] /\ h[j - 1] = g[i] /\ j # 0
          BY <3>1
      <4> QED BY <4>1
    <3>2. CASE j # i + 1
      <4>1. j \in 0 .. i /\ h[j] = g[j] /\ (j # 0 => h[j - 1] = g[j - 1])
          BY <3>2
      <4>2. g[j] = IF j = 0 THEN s ELSE F[j][g[j - 1]]
          BY <2>1, <4>1
      <4> QED BY <4>1, <4>2
    <3> QED BY <3>1, <3>2
  <2> HIDE DEF h
  <2> QED BY <2>2, <2>4, <2>5
<1> HIDE DEF Some
<1>3. \A i \in 0 .. N : i # N /\ i \in Some => i + 1 \in Some
    BY <1>2
<1>4. \A i \in 0 .. N : i \in Some
    BY <1>1, <1>3, ByInduction, Zenon
<1>5. N \in Some
    BY <1>4
<1>6. PICK g \in [0 .. N -> S] : Follows(g, N)
    BY <1>5 DEF Some
<1> QED BY <1>6 DEF Records

Obeys(h, S, s, N, F) ==
    h[0] = s /\ \A i \in 1 .. N : h[i - 1] \in S => h[i] = F[i][h[i - 1]]

LEMMA LoopStays ==
    ASSUME NEW S, NEW s \in S, NEW N \in Nat, NEW F \in [1 .. N -> [S -> S]], NEW h,
           Obeys(h, S, s, N, F)
    PROVE  h[N] \in S
<1> DEFINE In == {i \in 0 .. N : h[i] \in S}
<1>1. 0 \in In
    BY DEF Obeys
<1>2. ASSUME NEW i \in 0 .. N, i # N, i \in In PROVE i + 1 \in In
  <2>1. i + 1 \in 1 .. N /\ (i + 1) - 1 = i
      BY <1>2
  <2>2. h[i + 1] = F[i + 1][h[i]]
      BY <1>2, <2>1 DEF Obeys
  <2> QED BY <1>2, <2>1, <2>2
<1> HIDE DEF In
<1>3. \A i \in 0 .. N : i # N /\ i \in In => i + 1 \in In
    BY <1>2
<1>4. \A i \in 0 .. N : i \in In
    BY <1>1, <1>3, ByInduction, Zenon
<1> QED BY <1>4 DEF In
--------------------------------------------------------------------------------
(* The invariant, of the catalog a statement works on.                     *)

UniqueTables(ts) == \A j, k \in DOMAIN ts : ts[j].rel.name = ts[k].rel.name => j = k
UniqueTypes(ts) == \A j, k \in DOMAIN ts : ts[j].name = ts[k].name => j = k

Unique(c) ==
    \A i \in DOMAIN c.schemas : UniqueTables(c.schemas[i].tables) /\ UniqueTypes(c.schemas[i].types)

(* Tables point to columns that exist. *)
PointsInto(ts, n) == \A j \in DOMAIN ts : \A k \in DOMAIN ts[j].cols : ts[j].cols[k] \in 1 .. n
Pointers(c) == \A i \in DOMAIN c.schemas : PointsInto(c.schemas[i].tables, Len(c.cols))

(* No column is in two places. *)
Apart(t, u) == \A k \in DOMAIN t.cols, l \in DOMAIN u.cols : t.cols[k] # u.cols[l]
Disjoint(c) ==
    \A i, m \in DOMAIN c.schemas :
        \A j \in DOMAIN c.schemas[i].tables, n \in DOMAIN c.schemas[m].tables :
            i # m \/ j # n => Apart(c.schemas[i].tables[j], c.schemas[m].tables[n])

(* The columns of a table have different names. *)
UniqueColumns(ids, cols) == \A k, l \in DOMAIN ids : cols[ids[k]].name = cols[ids[l]].name => k = l
ColumnsUnique(c) ==
    \A i \in DOMAIN c.schemas : \A j \in DOMAIN c.schemas[i].tables :
        UniqueColumns(c.schemas[i].tables[j].cols, c.cols)

(* Tables know the schema that lists them. *)
ListedIn(ts, name) == \A j \in DOMAIN ts : Ns(ts[j].rel.schema) = name
Agreed(c) == \A i \in DOMAIN c.schemas : ListedIn(c.schemas[i].tables, c.schemas[i].name)

(* Where nothing is inherited no pointer is shared; and as long as no      *)
(* statement failed tables know their schema. *)
Fits ==
    {c \in Catalogs :
        /\ Unique(c) /\ Pointers(c)
        /\ Engine = "mysql" => Disjoint(c) /\ ColumnsUnique(c)
        /\ failed \/ c.err \/ Agreed(c)}

CInv ==
    /\ lang \in Langs /\ failed \in BOOLEAN
    /\ cat \in Fits /\ ~cat.err
--------------------------------------------------------------------------------
(* Changes to a catalog.                                                   *)

LEMMA FailFits == ASSUME NEW c \in Fits PROVE Fail(c) \in Fits
<1>1. /\ Fail(c) \in Catalogs /\ Fail(c).err
      /\ Fail(c).schemas = c.schemas /\ Fail(c).cols = c.cols
    BY DEF Fail, Fits, Catalogs
<1> QED BY <1>1 DEF Fits, Unique, Pointers, Disjoint, ColumnsUnique

LEMMA MissingFits ==
    ASSUME NEW c \in Fits, NEW missingOk \in BOOLEAN
    PROVE  checkMissing(c, missingOk) \in Fits
BY FailFits DEF checkMissing

(* c with another schema at i. *)
WithSchema(c, i, s) == [c EXCEPT !.schemas[i] = s]

LEMMA WithSchemaIs ==
    ASSUME NEW c \in Catalogs, NEW i \in DOMAIN c.schemas, NEW s \in Schema
    PROVE  /\ WithSchema(c, i, s) \in Catalogs
           /\ WithSchema(c, i, s).cols = c.cols
           /\ WithSchema(c, i, s).err = c.err
           /\ DOMAIN WithSchema(c, i, s).schemas = DOMAIN c.schemas
           /\ \A m \in DOMAIN c.schemas :
                  WithSchema(c, i, s).schemas[m] = IF m = i THEN s ELSE c.schemas[m]
<1>1. [c.schemas EXCEPT ![i] = s] \in Seq(Schema)
    BY DEF Catalogs
<1>2. WithSchema(c, i, s) = [c EXCEPT !.schemas = [c.schemas EXCEPT ![i] = s]]
    BY DEF WithSchema
<1> QED BY <1>1, <1>2 DEF Catalogs

(* A change of types that keeps their names unique. *)
LEMMA TypesFit ==
    ASSUME NEW c \in Fits, NEW d \in Catalogs, d.err = c.err,
           DOMAIN d.schemas = DOMAIN c.schemas,
           \A i \in DOMAIN c.schemas : /\ d.schemas[i].name = c.schemas[i].name
                                       /\ d.schemas[i].tables = c.schemas[i].tables
                                       /\ UniqueTypes(d.schemas[i].types),
           Len(d.cols) = Len(c.cols),
           \A id \in 1 .. Len(c.cols) : d.cols[id].name = c.cols[id].name
    PROVE  d \in Fits
<1>1. Unique(d) /\ Pointers(d)
    BY DEF Fits, Unique, Pointers
<1>2. Disjoint(c) => Disjoint(d)
    BY DEF Disjoint
<1>3. ColumnsUnique(c) => ColumnsUnique(d)
  <2> SUFFICES ASSUME ColumnsUnique(c), NEW i \in DOMAIN c.schemas,
                      NEW j \in DOMAIN c.schemas[i].tables
               PROVE  UniqueColumns(c.schemas[i].tables[j].cols, d.cols)
      BY DEF ColumnsUnique
  <2>1. UniqueColumns(c.schemas[i].tables[j].cols, c.cols)
      BY DEF ColumnsUnique
  <2>2. \A k \in DOMAIN c.schemas[i].tables[j].cols :
            c.schemas[i].tables[j].cols[k] \in 1 .. Len(c.cols)
      BY DEF Fits, Pointers, PointsInto
  <2> QED BY <2>1, <2>2 DEF UniqueColumns
<1>4. Agreed(c) => Agreed(d)
    BY DEF Agreed
<1> QED BY <1>1, <1>2, <1>3, <1>4 DEF Fits
--------------------------------------------------------------------------------
(* Lookups.                                                                *)

LEMMA SchemaFound ==
    ASSUME NEW c \in Catalogs, NEW name
    PROVE  /\ getSchema(c, name) \in 0 .. Len(c.schemas)
           /\ getSchema(c, name) # 0 =>
                  /\ getSchema(c, name) \in DOMAIN c.schemas
                  /\ c.schemas[getSchema(c, name)].name = name
           /\ getSchema(c, name) = 0 => \A i \in DOMAIN c.schemas : c.schemas[i].name # name
<1> DEFINE I == {i \in 1 .. Len(c.schemas) : c.schemas[i].name = name}
<1>1. getSchema(c, name) = IF I # {} THEN Min(I) ELSE 0
    BY DEF getSchema, SelectInSeq
<1>2. Len(c.schemas) \in Nat /\ DOMAIN c.schemas = 1 .. Len(c.schemas)
    BY DEF Catalogs
<1>3. I # {} => Min(I) \in I
    BY <1>2, MinIs
<1> QED BY <1>1, <1>2, <1>3

LEMMA TableFound ==
    ASSUME NEW s \in Schema, NEW name
    PROVE  /\ schemaTable(s, name) \in 0 .. Len(s.tables)
           /\ schemaTable(s, name) # 0 =>
                  /\ schemaTable(s, name) \in DOMAIN s.tables
                  /\ s.tables[schemaTable(s, name)].rel.name = name
           /\ schemaTable(s, name) = 0 => \A j \in DOMAIN s.tables : s.tables[j].rel.name # name
<1> DEFINE I == {j \in 1 .. Len(s.tables) : s.tables[j].rel.name = name}
<1>1. schemaTable(s, name) = IF I # {} THEN Min(I) ELSE 0
    BY DEF schemaTable, SelectInSeq
<1>2. Len(s.tables) \in Nat /\ DOMAIN s.tables = 1 .. Len(s.tables)
    BY DEF Schema
<1>3. I # {} => Min(I) \in I
    BY <1>2, MinIs
<1> QED BY <1>1, <1>2, <1>3

LEMMA TypeFound ==
    ASSUME NEW s \in Schema, NEW name
    PROVE  /\ schemaType(s, name) \in 0 .. Len(s.types)
           /\ schemaType(s, name) # 0 =>
                  /\ schemaType(s, name) \in DOMAIN s.types
                  /\ s.types[schemaType(s, name)].name = name
           /\ schemaType(s, name) = 0 => \A k \in DOMAIN s.types : s.types[k].name # name
<1> DEFINE I == {k \in 1 .. Len(s.types) : s.types[k].name = name}
<1>1. schemaType(s, name) = IF I # {} THEN Min(I) ELSE 0
    BY DEF schemaType, SelectInSeq
<1>2. Len(s.types) \in Nat /\ DOMAIN s.types = 1 .. Len(s.types)
    BY DEF Schema
<1>3. I # {} => Min(I) \in I
    BY <1>2, MinIs
<1> QED BY <1>1, <1>2, <1>3

LEMMA TableAt ==
    ASSUME NEW c \in Catalogs, NEW rel
    PROVE  LET at == getTable(c, rel)
           IN  /\ at.s = getSchema(c, Ns(rel.schema))
               /\ at.t # 0 =>
                      /\ at.s \in DOMAIN c.schemas /\ c.schemas[at.s].name = Ns(rel.schema)
                      /\ at.t \in DOMAIN c.schemas[at.s].tables
                      /\ tableAt(c, at) = c.schemas[at.s].tables[at.t]
                      /\ tableAt(c, at) \in Table
                      /\ tableAt(c, at).rel.name = rel.name
               /\ at.t = 0 /\ at.s # 0 =>
                      /\ at.s \in DOMAIN c.schemas /\ c.schemas[at.s].name = Ns(rel.schema)
                      /\ \A j \in DOMAIN c.schemas[at.s].tables :
                             c.schemas[at.s].tables[j].rel.name # rel.name
<1> DEFINE i == getSchema(c, Ns(rel.schema))
           t == schemaTable(c.schemas[i], rel.name)
<1>1. getTable(c, rel) = [s |-> i, t |-> IF i = 0 THEN 0 ELSE t]
    BY DEF getTable
<1>2. CASE i = 0
    BY <1>1, <1>2
<1>3. CASE i # 0
  <2>1. i \in DOMAIN c.schemas /\ c.schemas[i].name = Ns(rel.schema)
      BY <1>3, SchemaFound
  <2>2. c.schemas[i] \in Schema
      BY <2>1 DEF Catalogs
  <2>3. /\ t # 0 => t \in DOMAIN c.schemas[i].tables /\ c.schemas[i].tables[t].rel.name = rel.name
        /\ t = 0 => \A j \in DOMAIN c.schemas[i].tables : c.schemas[i].tables[j].rel.name # rel.name
      BY <2>2, TableFound
  <2> HIDE DEF i, t
  <2>4. t # 0 => c.schemas[i].tables[t] \in Table
    <3>1. c.schemas[i].tables \in Seq(Table)
        BY <2>2 DEF Schema
    <3> QED BY <2>3, <3>1
  <2>5. getTable(c, rel).s = i /\ getTable(c, rel).t = t
      BY <1>1, <1>3
  <2> QED BY <1>3, <2>1, <2>3, <2>4, <2>5 DEF tableAt, i
<1> QED BY <1>2, <1>3
--------------------------------------------------------------------------------
(* Statements about types.                                                 *)

(* d differs from c in its types and in those of the columns only. *)
KeepsTables(c, d) ==
    /\ DOMAIN d.schemas = DOMAIN c.schemas
    /\ \A i \in DOMAIN c.schemas : /\ d.schemas[i].name = c.schemas[i].name
                                   /\ d.schemas[i].tables = c.schemas[i].tables
    /\ Len(d.cols) = Len(c.cols)
    /\ \A id \in 1 .. Len(c.cols) : d.cols[id].name = c.cols[id].name

KeepsColumns(c, d) == KeepsTables(c, d) /\ d.cols = c.cols

LEMMA FailKeeps ==
    ASSUME NEW c \in Catalogs
    PROVE  /\ KeepsColumns(c, c) /\ KeepsColumns(c, Fail(c)) /\ Fail(c).err
           /\ \A missingOk : KeepsColumns(c, checkMissing(c, missingOk))
BY DEF Catalogs, Fail, checkMissing, KeepsColumns, KeepsTables

(* The catalogs with the schemas of b and, in each of them, no more tables. *)
Within(b) ==
    {d \in Fits : /\ DOMAIN d.schemas = DOMAIN b.schemas
                  /\ \A i \in DOMAIN b.schemas :
                        Len(d.schemas[i].tables) <= Len(b.schemas[i].tables)}

LEMMA TableCounts ==
    ASSUME NEW c \in Fits, NEW i \in DOMAIN c.schemas
    PROVE  Len(c.schemas[i].tables) \in Nat
<1>1. c.schemas[i] \in Schema
    BY DEF Fits, Catalogs
<1> QED BY <1>1 DEF Schema

LEMMA WithinKept ==
    ASSUME NEW b, NEW c \in Within(b), NEW d \in Fits, DOMAIN d.schemas = DOMAIN c.schemas,
           \A i \in DOMAIN c.schemas : Len(d.schemas[i].tables) = Len(c.schemas[i].tables)
    PROVE  d \in Within(b)
BY DEF Within

LEMMA WithinSelf ==
    ASSUME NEW c \in Fits
    PROVE  /\ c \in Within(c) /\ Fail(c) \in Within(c)
           /\ \A missingOk \in BOOLEAN : checkMissing(c, missingOk) \in Within(c)
<1>1. c \in Within(c)
    BY TableCounts DEF Within
<1>2. Fail(c) \in Fits /\ Fail(c).schemas = c.schemas
    BY FailFits DEF Fail, Fits, Catalogs
<1>3. Fail(c) \in Within(c)
    BY <1>1, <1>2, WithinKept
<1> QED BY <1>1, <1>3 DEF checkMissing

LEMMA WithinOn ==
    ASSUME NEW b \in Fits, NEW c \in Within(b), NEW d \in Within(c)
    PROVE  d \in Within(b)
<1>1. c \in Fits /\ d \in Fits /\ DOMAIN c.schemas = DOMAIN b.schemas /\ DOMAIN d.schemas = DOMAIN b.schemas
    BY DEF Within
<1>2. ASSUME NEW i \in DOMAIN b.schemas
      PROVE  Len(d.schemas[i].tables) <= Len(b.schemas[i].tables)
  <2>1. /\ Len(b.schemas[i].tables) \in Nat /\ Len(c.schemas[i].tables) \in Nat
        /\ Len(d.schemas[i].tables) \in Nat
      BY <1>1, TableCounts
  <2>2. /\ Len(c.schemas[i].tables) <= Len(b.schemas[i].tables)
        /\ Len(d.schemas[i].tables) <= Len(c.schemas[i].tables)
      BY <1>1 DEF Within
  <2> DEFINE x == Len(b.schemas[i].tables)
             y == Len(c.schemas[i].tables)
             z == Len(d.schemas[i].tables)
  <2>3. x \in Nat /\ y \in Nat /\ z \in Nat /\ y <= x /\ z <= y
      BY <2>1, <2>2
  <2> HIDE DEF x, y, z
  <2>4. z <= x
      BY <2>3
  <2> QED BY <2>4 DEF x, z
<1> QED BY <1>1, <1>2 DEF Within

LEMMA KeepsWithin ==
    ASSUME NEW b, NEW c \in Within(b), NEW d \in Fits, KeepsTables(c, d)
    PROVE  d \in Within(b)
BY WithinKept DEF KeepsTables

(* From c to d a table was added, and none lost. *)
Adds(c, d) ==
    /\ DOMAIN d.schemas = DOMAIN c.schemas
    /\ \A i \in DOMAIN c.schemas : Len(d.schemas[i].tables) >= Len(c.schemas[i].tables)
    /\ \E i \in DOMAIN c.schemas : Len(d.schemas[i].tables) > Len(c.schemas[i].tables)

(* The columns of c are as they were, or have become NOT NULL. *)
Tightened(c, d) ==
    \A id \in 1 .. Len(c.cols) :
        id \in 1 .. Len(d.cols) /\ d.cols[id] \in {c.cols[id], [c.cols[id] EXCEPT !.notNull = TRUE]}

(* And its tables are those of d. *)
Tight(c, d) ==
    /\ \A i \in DOMAIN c.schemas : \A j \in DOMAIN c.schemas[i].tables :
           j \in DOMAIN d.schemas[i].tables /\ d.schemas[i].tables[j] = c.schemas[i].tables[j]
    /\ Tightened(c, d)

(* The catalogs that a statement may leave of c. *)
After(c) == {d \in Fits : Adds(c, d) => Tight(c, d)}

LEMMA WithinAfter ==
    ASSUME NEW c \in Fits, NEW d \in Within(c)
    PROVE  d \in After(c)
<1>1. d \in Fits /\ DOMAIN d.schemas = DOMAIN c.schemas
    BY DEF Within
<1>2. ~Adds(c, d)
  <2> SUFFICES ASSUME NEW i \in DOMAIN c.schemas
               PROVE  ~(Len(d.schemas[i].tables) > Len(c.schemas[i].tables))
      BY DEF Adds
  <2> DEFINE x == Len(c.schemas[i].tables)
             y == Len(d.schemas[i].tables)
  <2>1. x \in Nat /\ y \in Nat /\ y <= x
      BY <1>1, TableCounts DEF Within
  <2> HIDE DEF x, y
  <2>2. ~(y > x)
      BY <2>1
  <2> QED BY <2>2 DEF x, y
<1> QED BY <1>1, <1>2 DEF After

(* The types of one schema become ts. *)
LEMMA TypesSet ==
    ASSUME NEW c \in Fits, NEW i \in DOMAIN c.schemas, NEW ts \in Seq(Type), UniqueTypes(ts)
    PROVE  /\ [c EXCEPT !.schemas[i].types = ts] \in Fits
           /\ KeepsColumns(c, [c EXCEPT !.schemas[i].types = ts])
           /\ [c EXCEPT !.schemas[i].types = ts].err = c.err
<1> DEFINE s == [c.schemas[i] EXCEPT !.types = ts]
           d == [c EXCEPT !.schemas[i].types = ts]
<1>1. c \in Catalogs
    BY DEF Fits
<1>2. c.schemas[i] \in Schema
    BY <1>1 DEF Catalogs
<1>3. /\ s \in Schema /\ s.types = ts
      /\ s.name = c.schemas[i].name /\ s.tables = c.schemas[i].tables
    BY <1>2 DEF Schema
<1>4. d = WithSchema(c, i, s)
    BY DEF WithSchema
<1> HIDE DEF s
<1>5. /\ d \in Catalogs /\ d.cols = c.cols /\ d.err = c.err
      /\ DOMAIN d.schemas = DOMAIN c.schemas
      /\ \A m \in DOMAIN c.schemas : d.schemas[m] = IF m = i THEN s ELSE c.schemas[m]
  <2> HIDE DEF d
  <2> QED BY <1>1, <1>3, <1>4, WithSchemaIs
<1> HIDE DEF d
<1>6. \A m \in DOMAIN c.schemas : UniqueTypes(c.schemas[m].types)
    BY DEF Fits, Unique
<1>7. KeepsColumns(c, d)
    BY <1>3, <1>5 DEF KeepsColumns, KeepsTables
<1>8. d \in Fits
    BY <1>3, <1>5, <1>6, TypesFit
<1> QED BY <1>5, <1>7, <1>8 DEF d

LEMMA CreateTypeFits ==
    ASSUME NEW c \in Fits, NEW tn, tn.name \in TypeNames,
           NEW kind \in {"enum", "composite"}, NEW vals \in Seq(Labels)
    PROVE  createType(c, tn, kind, vals) \in Fits /\ KeepsColumns(c, createType(c, tn, kind, vals))
<1> DEFINE i == getSchema(c, Ns(tn.schema))
           new == [kind |-> kind, name |-> tn.name, vals |-> vals]
           old == c.schemas[i].types
           ts == Append(old, new)
<1>1. c \in Catalogs
    BY DEF Fits
<1>2. CASE createType(c, tn, kind, vals) = Fail(c)
    BY <1>1, <1>2, FailFits, FailKeeps
<1>3. CASE /\ i # 0 /\ schemaType(c.schemas[i], tn.name) = 0
           /\ createType(c, tn, kind, vals) = [c EXCEPT !.schemas[i].types = ts]
  <2>1. i \in DOMAIN c.schemas
      BY <1>1, <1>3, SchemaFound
  <2>2. c.schemas[i] \in Schema
      BY <1>1, <2>1 DEF Catalogs
  <2>3. \A k \in DOMAIN old : old[k].name # tn.name
      BY <1>3, <2>2, TypeFound
  <2>4. old \in Seq(Type) /\ new \in Type /\ new.name = tn.name
      BY <2>2 DEF Schema, Type
  <2>5. UniqueTypes(old)
      BY <2>1 DEF Fits, Unique
  <2> HIDE DEF i, new
  <2> HIDE DEF old
  <2>6. Longer(ts, old, new, Type)
      BY <2>4, AppendIs
  <2> HIDE DEF ts
  <2>7. ts \in Seq(Type) /\ UniqueTypes(ts)
      BY <2>3, <2>4, <2>5, <2>6 DEF UniqueTypes, Longer
  <2> QED BY <1>3, <2>1, <2>7, TypesSet
<1> QED BY <1>2, <1>3 DEF createType

LEMMA RemoveTypeFits ==
    ASSUME NEW c \in Fits, NEW tn, NEW ifExists \in BOOLEAN
    PROVE  removeType(c, tn, ifExists) \in Fits /\ KeepsColumns(c, removeType(c, tn, ifExists))
<1> DEFINE i == getSchema(c, Ns(tn.schema))
           k == schemaType(c.schemas[i], tn.name)
           old == c.schemas[i].types
           ts == RemoveAt(old, k)
<1>1. c \in Catalogs
    BY DEF Fits
<1>2. CASE removeType(c, tn, ifExists) = checkMissing(c, ifExists)
    BY <1>1, <1>2, MissingFits, FailKeeps
<1>3. CASE i # 0 /\ k # 0 /\ removeType(c, tn, ifExists) = [c EXCEPT !.schemas[i].types = ts]
  <2>1. i \in DOMAIN c.schemas
      BY <1>1, <1>3, SchemaFound
  <2>2. c.schemas[i] \in Schema
      BY <1>1, <2>1 DEF Catalogs
  <2>3. k \in DOMAIN old
      BY <1>3, <2>2, TypeFound
  <2>4. old \in Seq(Type) /\ k \in 1 .. Len(old)
      BY <2>2, <2>3 DEF Schema
  <2>5. UniqueTypes(old)
      BY <2>1 DEF Fits, Unique
  <2> HIDE DEF i, k, old
  <2>6. Shorter(ts, old, k, Type)
      BY <2>4, RemoveIs
  <2> HIDE DEF ts
  <2>7. ts \in Seq(Type) /\ UniqueTypes(ts)
      BY <2>5, <2>6 DEF UniqueTypes, Shorter
  <2> QED BY <1>3, <2>1, <2>7, TypesSet DEF ts
<1> QED BY <1>2, <1>3 DEF removeType
LEMMA DropTypeFits ==
    ASSUME NEW c \in Fits, NEW names, Len(names) \in Nat, NEW ifExists \in BOOLEAN
    PROVE  dropType(c, names, ifExists) \in Within(c)
<1>a. c \in Within(c)
    BY WithinSelf
<1>b. ASSUME NEW d \in Within(c), NEW x PROVE removeType(d, x, ifExists) \in Within(c)
  <2>1. d \in Fits
      BY DEF Within
  <2> QED BY <2>1, RemoveTypeFits, KeepsWithin DEF KeepsColumns
<1> DEFINE N == Len(names)
           S == Within(c)
           Step(d, x) == IF d.err THEN d ELSE removeType(d, x, ifExists)
           F == [i \in 1 .. N |-> [d \in S |-> Step(d, names[i])]]
           h == CHOOSE f : f = [i \in 0 .. N |-> IF i = 0 THEN c ELSE Step(f[i - 1], names[i])]
<1>1. F \in [1 .. N -> [S -> S]] /\ N \in Nat
    BY <1>b
<1>2. dropType(c, names, ifExists) = h[N]
    BY DEF dropType, Each, Loop
<1> HIDE DEF F, N, h
<1>3. PICK g : Records(g, S, c, N, F)
    BY <1>1, <1>a, LoopIs
<1>4. g = [i \in 0 .. N |-> IF i = 0 THEN c ELSE Step(g[i - 1], names[i])]
  <2> HIDE DEF Step
  <2>1. \A i \in 1 .. N : i - 1 \in 0 .. N /\ g[i - 1] \in S
      BY <1>1, <1>3 DEF Records
  <2>2. \A i \in 1 .. N : F[i][g[i - 1]] = Step(g[i - 1], names[i])
      BY <2>1 DEF F
  <2>3. \A i \in 0 .. N : g[i] = IF i = 0 THEN c ELSE Step(g[i - 1], names[i])
      BY <1>1, <1>3, <2>2 DEF Records
  <2>4. g = [i \in 0 .. N |-> g[i]]
      BY <1>3 DEF Records
  <2> QED BY <2>3, <2>4
<1> HIDE DEF Step
<1>5. h = [i \in 0 .. N |-> IF i = 0 THEN c ELSE Step(h[i - 1], names[i])]
    BY <1>4 DEF h
<1>6. Obeys(h, S, c, N, F)
    BY <1>1, <1>5 DEF F, Obeys
<1>7. h[N] \in S
    BY <1>1, <1>6, <1>a, LoopStays
<1> QED BY <1>2, <1>7

(* The type at k becomes another one. *)
LEMMA TypeSet ==
    ASSUME NEW c \in Fits, NEW i \in DOMAIN c.schemas, NEW k \in DOMAIN c.schemas[i].types,
           NEW new \in Type,
           \A l \in DOMAIN c.schemas[i].types : c.schemas[i].types[l].name = new.name => l = k
    PROVE  /\ [c EXCEPT !.schemas[i].types[k] = new] \in Fits
           /\ KeepsColumns(c, [c EXCEPT !.schemas[i].types[k] = new])
<1> DEFINE old == c.schemas[i].types
           ts == [old EXCEPT ![k] = new]
<1>1. c.schemas[i] \in Schema /\ UniqueTypes(old)
    BY DEF Fits, Catalogs, Unique
<1>2. old \in Seq(Type)
    BY <1>1 DEF Schema
<1>3. [c EXCEPT !.schemas[i].types[k] = new] = [c EXCEPT !.schemas[i].types = ts]
    OBVIOUS
<1>4. k \in DOMAIN old /\ \A l \in DOMAIN old : old[l].name = new.name => l = k
    OBVIOUS
<1> HIDE DEF old
<1>5. ts \in Seq(Type)
    BY <1>2, <1>4
<1>6. UniqueTypes(ts)
    BY <1>1, <1>2, <1>4 DEF UniqueTypes
<1> HIDE DEF ts
<1> QED BY <1>3, <1>5, <1>6, TypesSet

(* The columns' types change. *)
LEMMA ColumnTypesSet ==
    ASSUME NEW c \in Fits, NEW cs \in [DOMAIN c.cols -> Column],
           \A id \in DOMAIN c.cols : cs[id].name = c.cols[id].name
    PROVE  [c EXCEPT !.cols = cs] \in Fits /\ KeepsTables(c, [c EXCEPT !.cols = cs])
<1> DEFINE d == [c EXCEPT !.cols = cs]
<1>1. c.cols \in Seq(Column) /\ c \in Catalogs
    BY DEF Fits, Catalogs
<1>2. cs \in Seq(Column) /\ Len(cs) = Len(c.cols) /\ DOMAIN cs = 1 .. Len(c.cols)
    BY <1>1
<1>3. /\ d \in Catalogs /\ d.schemas = c.schemas /\ d.cols = cs /\ d.err = c.err
    BY <1>1, <1>2 DEF Catalogs
<1> HIDE DEF d
<1>4. KeepsTables(c, d)
    BY <1>1, <1>2, <1>3 DEF KeepsTables
<1>5. \A i \in DOMAIN c.schemas : UniqueTypes(c.schemas[i].types)
    BY DEF Fits, Unique
<1>6. d \in Fits
    BY <1>2, <1>3, <1>4, <1>5, TypesFit DEF KeepsTables
<1> QED BY <1>4, <1>6 DEF d

LEMMA ColumnRetyped ==
    ASSUME NEW col \in Column
    PROVE  /\ \A name \in TypeNames : /\ [col EXCEPT !.type.name = name] \in Column
                                      /\ [col EXCEPT !.type.name = name].name = col.name
           /\ \A schema \in SchemaRefs : /\ [col EXCEPT !.type.schema = schema] \in Column
                                         /\ [col EXCEPT !.type.schema = schema].name = col.name
<1>1. col.type \in TypeName
    BY DEF Column
<1>2. ASSUME NEW new \in TypeName
      PROVE  [col EXCEPT !.type = new] \in Column /\ [col EXCEPT !.type = new].name = col.name
    BY DEF Column
<1>3. ASSUME NEW name \in TypeNames
      PROVE  [col.type EXCEPT !.name = name] \in TypeName
    BY <1>1 DEF TypeName
<1>4. ASSUME NEW schema \in SchemaRefs
      PROVE  [col.type EXCEPT !.schema = schema] \in TypeName
    BY <1>1 DEF TypeName
<1>5. \A name : [col EXCEPT !.type.name = name] = [col EXCEPT !.type = [col.type EXCEPT !.name = name]]
    OBVIOUS
<1>6. \A schema :
          [col EXCEPT !.type.schema = schema] = [col EXCEPT !.type = [col.type EXCEPT !.schema = schema]]
    OBVIOUS
<1>7. \A name \in TypeNames : /\ [col EXCEPT !.type.name = name] \in Column
                              /\ [col EXCEPT !.type.name = name].name = col.name
    BY <1>2, <1>3, <1>5
<1>8. \A schema \in SchemaRefs : /\ [col EXCEPT !.type.schema = schema] \in Column
                                 /\ [col EXCEPT !.type.schema = schema].name = col.name
    BY <1>2, <1>4, <1>6
<1> QED BY <1>7, <1>8

LEMMA RenameTypeFits ==
    ASSUME NEW c \in Fits, NEW tn, NEW newName \in TypeNames, NEW alias
    PROVE  /\ renameType(c, tn, newName, alias) \in Fits
           /\ KeepsTables(c, renameType(c, tn, newName, alias))
<1> DEFINE i == getSchema(c, Ns(tn.schema))
           k == schemaType(c.schemas[i], tn.name)
           hit(id) == /\ c.cols[id].type = tn
                      /\ alias # 0 => \E p \in Places(c) :
                                          At(c, p) = id /\ ~Before(First(c, alias), p)
           new == [c.schemas[i].types[k] EXCEPT !.name = newName]
           d == [c EXCEPT !.schemas[i].types[k] = new]
           cs == [id \in DOMAIN c.cols |->
                    IF hit(id) THEN [c.cols[id] EXCEPT !.type.name = newName] ELSE c.cols[id]]
<1>1. c \in Catalogs /\ c.cols \in Seq(Column)
    BY DEF Fits, Catalogs
<1>2. CASE renameType(c, tn, newName, alias) = Fail(c)
    BY <1>1, <1>2, FailFits, FailKeeps DEF KeepsColumns
<1>3. CASE /\ i # 0 /\ k # 0 /\ schemaType(c.schemas[i], newName) = 0
           /\ renameType(c, tn, newName, alias) =
                  [c EXCEPT !.schemas[i].types[k].name = newName, !.cols = cs]
  <2>1. i \in DOMAIN c.schemas
      BY <1>1, <1>3, SchemaFound
  <2>2. c.schemas[i] \in Schema
      BY <1>1, <2>1 DEF Catalogs
  <2>3. k \in DOMAIN c.schemas[i].types
      BY <1>3, <2>2, TypeFound
  <2>4. \A l \in DOMAIN c.schemas[i].types : c.schemas[i].types[l].name # newName
      BY <1>3, <2>2, TypeFound
  <2>5. \A id \in DOMAIN c.cols :
            /\ c.cols[id] \in Column /\ [c.cols[id] EXCEPT !.type.name = newName] \in Column
            /\ [c.cols[id] EXCEPT !.type.name = newName].name = c.cols[id].name
      BY <1>1, ColumnRetyped
  <2>6. [c EXCEPT !.schemas[i].types[k].name = newName, !.cols = cs] = [d EXCEPT !.cols = cs]
      OBVIOUS
  <2> HIDE DEF hit, i, k
  <2>7. cs \in [DOMAIN c.cols -> Column] /\ \A id \in DOMAIN c.cols : cs[id].name = c.cols[id].name
      BY <2>5
  <2> HIDE DEF cs
  <2>8. new \in Type /\ new.name = newName
    <3>1. c.schemas[i].types[k] \in Type
        BY <2>2, <2>3 DEF Schema
    <3> QED BY <3>1 DEF Type
  <2> HIDE DEF new
  <2>9. d \in Fits /\ KeepsColumns(c, d)
      BY <2>1, <2>3, <2>4, <2>8, TypeSet
  <2> HIDE DEF d
  <2>10. [d EXCEPT !.cols = cs] \in Fits /\ KeepsTables(d, [d EXCEPT !.cols = cs])
      BY <2>7, <2>9, ColumnTypesSet DEF KeepsColumns
  <2> QED BY <1>3, <2>6, <2>9, <2>10 DEF KeepsColumns, KeepsTables
<1> QED BY <1>2, <1>3 DEF renameType

LEMMA AlterTypeSetSchemaFits ==
    ASSUME NEW c \in Fits, NEW tn, NEW newSchema \in SchemaNames
    PROVE  alterTypeSetSchema(c, tn, newSchema) \in Within(c)
<1> DEFINE i == getSchema(c, Ns(tn.schema))
           k == schemaType(c.schemas[i], tn.name)
           n == getSchema(c, newSchema)
           e == c.schemas[i].types[k]
           cs == [id \in DOMAIN c.cols |->
                    IF c.cols[id].type = tn
                    THEN [c.cols[id] EXCEPT !.type.schema = newSchema]
                    ELSE c.cols[id]]
           short == RemoveAt(c.schemas[i].types, k)
           long == Append(c.schemas[n].types, e)
           d == [c EXCEPT !.schemas[i].types = short]
           f == [d EXCEPT !.schemas[n].types = long]
<1>1. c \in Catalogs /\ c.cols \in Seq(Column)
    BY DEF Fits, Catalogs
<1>2. CASE alterTypeSetSchema(c, tn, newSchema) = Fail(c)
    BY <1>2, WithinSelf
<1>3. CASE /\ i # 0 /\ k # 0 /\ n # 0 /\ schemaType(c.schemas[n], tn.name) = 0
           /\ alterTypeSetSchema(c, tn, newSchema) =
                  [c EXCEPT !.schemas[i].types = RemoveAt(@, k),
                            !.schemas[n].types = Append(@, c.schemas[i].types[k]),
                            !.cols = cs]
  <2>1. i \in DOMAIN c.schemas /\ n \in DOMAIN c.schemas
      BY <1>1, <1>3, SchemaFound
  <2>2. c.schemas[i] \in Schema /\ c.schemas[n] \in Schema
      BY <1>1, <2>1 DEF Catalogs
  <2>3. k \in DOMAIN c.schemas[i].types /\ e.name = tn.name
      BY <1>3, <2>2, TypeFound
  <2>4. \A l \in DOMAIN c.schemas[n].types : c.schemas[n].types[l].name # tn.name
      BY <1>3, <2>2, TypeFound
  <2>5. i # n
      BY <1>3
  <2>6. \A id \in DOMAIN c.cols :
            /\ c.cols[id] \in Column /\ [c.cols[id] EXCEPT !.type.schema = newSchema] \in Column
            /\ [c.cols[id] EXCEPT !.type.schema = newSchema].name = c.cols[id].name
    <3>1. newSchema \in SchemaRefs
        BY DEF SchemaRefs
    <3> QED BY <1>1, <3>1, ColumnRetyped
  <2>7. alterTypeSetSchema(c, tn, newSchema) = [f EXCEPT !.cols = cs]
      BY <1>3, <2>1, <2>5
  <2> HIDE DEF i, k, n
  <2>8. cs \in [DOMAIN c.cols -> Column] /\ \A id \in DOMAIN c.cols : cs[id].name = c.cols[id].name
      BY <2>6
  <2> HIDE DEF cs
  <2>9. /\ c.schemas[i].types \in Seq(Type) /\ c.schemas[n].types \in Seq(Type)
        /\ k \in 1 .. Len(c.schemas[i].types) /\ e \in Type
      BY <2>2, <2>3 DEF Schema
  <2>10. UniqueTypes(c.schemas[i].types) /\ UniqueTypes(c.schemas[n].types)
      BY <2>1 DEF Fits, Unique
  <2>11. Shorter(short, c.schemas[i].types, k, Type)
      BY <2>9, RemoveIs
  <2> HIDE DEF short, e
  <2>12. Longer(long, c.schemas[n].types, e, Type)
      BY <2>9, AppendIs
  <2> HIDE DEF long
  <2>13. short \in Seq(Type) /\ UniqueTypes(short)
      BY <2>10, <2>11 DEF UniqueTypes, Shorter
  <2>14. long \in Seq(Type) /\ UniqueTypes(long)
      BY <2>3, <2>4, <2>10, <2>12 DEF UniqueTypes, Longer
  <2>15. d \in Fits /\ KeepsColumns(c, d)
      BY <2>1, <2>13, TypesSet
  <2> HIDE DEF d
  <2>16. f \in Fits /\ KeepsColumns(d, f)
      BY <2>1, <2>14, <2>15, TypesSet DEF KeepsColumns, KeepsTables
  <2> HIDE DEF f
  <2>17. [f EXCEPT !.cols = cs] \in Fits /\ KeepsTables(f, [f EXCEPT !.cols = cs])
      BY <2>8, <2>15, <2>16, ColumnTypesSet DEF KeepsColumns
  <2>18. d \in Within(c) /\ f \in Within(c)
      BY <2>15, <2>16, WithinSelf, KeepsWithin DEF KeepsColumns
  <2>19. [f EXCEPT !.cols = cs] \in Within(c)
      BY <2>17, <2>18, KeepsWithin
  <2> QED BY <2>7, <2>19
<1> QED BY <1>2, <1>3 DEF alterTypeSetSchema

LEMMA InsertIs ==
    ASSUME NEW T, NEW s \in Seq(T), NEW i \in 1 .. Len(s) + 1, NEW e \in T
    PROVE  InsertAt(s, i, e) \in Seq(T)
<1>1. Len(s) \in Nat
    OBVIOUS
<1>2. SubSeq(s, 1, i - 1) \in Seq(T) /\ SubSeq(s, i, Len(s)) \in Seq(T)
    BY <1>1
<1>3. <<e>> \in Seq(T)
    OBVIOUS
<1> QED BY <1>2, <1>3 DEF InsertAt

LEMMA ExceptIs ==
    ASSUME NEW T, NEW s \in Seq(T), NEW i, NEW e \in T
    PROVE  [s EXCEPT ![i] = e] \in Seq(T)
<1>1. CASE i \in DOMAIN s
    BY <1>1
<1>2. CASE i \notin DOMAIN s
  <2>1. [s EXCEPT ![i] = e] = [k \in DOMAIN s |-> s[k]]
      BY <1>2
  <2>2. s = [k \in DOMAIN s |-> s[k]]
      OBVIOUS
  <2> QED BY <2>1, <2>2
<1> QED BY <1>1, <1>2

LEMMA MinOrNone ==
    ASSUME NEW n \in Nat, NEW I \in SUBSET (1 .. n)
    PROVE  (IF I # {} THEN Min(I) ELSE 0) \in 0 .. n
<1>1. I # {} => Min(I) \in I
    BY MinIs
<1>2. I # {} => Min(I) \in 1 .. n
    BY <1>1
<1> QED BY <1>2

LEMMA EnumFound ==
    ASSUME NEW c \in Fits, NEW tn, enumAt(c, tn).k # 0
    PROVE  LET at == enumAt(c, tn)
           IN  /\ at.s \in DOMAIN c.schemas /\ at.k \in DOMAIN c.schemas[at.s].types
               /\ c.schemas[at.s].types[at.k] \in Type
               /\ \A l \in DOMAIN c.schemas[at.s].types :
                      c.schemas[at.s].types[l].name = c.schemas[at.s].types[at.k].name => l = at.k
<1> DEFINE i == getSchema(c, Ns(tn.schema))
           k == schemaType(c.schemas[i], tn.name)
<1>1. i # 0 /\ k # 0 /\ enumAt(c, tn).s = i /\ enumAt(c, tn).k = k
    BY DEF enumAt
<1>2. i \in DOMAIN c.schemas
    BY <1>1, SchemaFound DEF Fits
<1>3. c.schemas[i] \in Schema /\ UniqueTypes(c.schemas[i].types)
    BY <1>2 DEF Fits, Catalogs, Unique
<1>4. k \in DOMAIN c.schemas[i].types
    BY <1>1, <1>3, TypeFound
<1> HIDE DEF i, k
<1>5. c.schemas[i].types[k] \in Type
    BY <1>3, <1>4 DEF Schema
<1> QED BY <1>1, <1>2, <1>3, <1>4, <1>5 DEF UniqueTypes

(* The labels of an enum change. *)
SetLabels(c, at, vals) == [c EXCEPT !.schemas[at.s].types[at.k].vals = vals]

LEMMA LabelsSet ==
    ASSUME NEW c \in Fits, NEW tn, enumAt(c, tn).k # 0, NEW vals \in Seq(Labels)
    PROVE  SetLabels(c, enumAt(c, tn), vals) \in Within(c)
<1> DEFINE i == enumAt(c, tn).s
           k == enumAt(c, tn).k
           old == c.schemas[i].types[k]
           new == [old EXCEPT !.vals = vals]
<1>1. /\ i \in DOMAIN c.schemas /\ k \in DOMAIN c.schemas[i].types /\ old \in Type
      /\ \A l \in DOMAIN c.schemas[i].types : c.schemas[i].types[l].name = old.name => l = k
    BY EnumFound
<1>2. new \in Type /\ new.name = old.name
    BY <1>1 DEF Type
<1>3. SetLabels(c, enumAt(c, tn), vals) = [c EXCEPT !.schemas[i].types[k] = new]
    BY <1>1 DEF SetLabels
<1> HIDE DEF new, i, k
<1> DEFINE d == [c EXCEPT !.schemas[i].types[k] = new]
<1>4. d \in Fits /\ KeepsColumns(c, d)
    BY <1>1, <1>2, TypeSet
<1> HIDE DEF d
<1>5. d \in Within(c)
    BY <1>4, WithinSelf, KeepsWithin DEF KeepsColumns
<1> QED BY <1>3, <1>5 DEF i, k, d

LEMMA AlterTypeAddValueFits ==
    ASSUME NEW c \in Fits, NEW tn, NEW val \in Labels, NEW neighbor,
           NEW isAfter \in BOOLEAN, NEW skipIfExists \in BOOLEAN
    PROVE  alterTypeAddValue(c, tn, val, neighbor, isAfter, skipIfExists) \in Within(c)
<1> DEFINE at == enumAt(c, tn)
           vals == c.schemas[at.s].types[at.k].vals
           n == SelectInSeq(vals, LAMBDA v : v = neighbor)
           insertIndex == CASE neighbor = "" -> Len(vals) + 1
                            [] neighbor # "" /\ isAfter -> n + 1
                            [] OTHER -> n
           d == alterTypeAddValue(c, tn, val, neighbor, isAfter, skipIfExists)
           new == InsertAt(vals, insertIndex, val)
<1>1. CASE d = Fail(c) \/ d = checkMissing(c, skipIfExists)
    BY <1>1, WithinSelf
<1>2. CASE /\ at.k # 0 /\ (neighbor = "" \/ n # 0)
           /\ d = [c EXCEPT !.schemas[at.s].types[at.k].vals = InsertAt(@, insertIndex, val)]
  <2>1. vals \in Seq(Labels)
      BY <1>2, EnumFound DEF Type
  <2>2. at.k # 0
      BY <1>2
  <2>4. d = SetLabels(c, at, new)
      BY <1>2 DEF SetLabels
  <2> HIDE DEF at, vals
  <2>3. insertIndex \in 1 .. Len(vals) + 1
    <3>1. n \in 0 .. Len(vals) /\ Len(vals) \in Nat
      <4> DEFINE I == {m \in 1 .. Len(vals) : vals[m] = neighbor}
      <4>1. n = IF I # {} THEN Min(I) ELSE 0
          BY DEF SelectInSeq
      <4>2. Len(vals) \in Nat /\ I \in SUBSET (1 .. Len(vals))
          BY <2>1
      <4> HIDE DEF I, n
      <4> QED BY <4>1, <4>2, MinOrNone
    <3> HIDE DEF n
    <3>2. neighbor = "" \/ n # 0
        BY <1>2
    <3>3. neighbor = "" => insertIndex = Len(vals) + 1
        OBVIOUS
    <3>4. neighbor # "" => n # 0 /\ (insertIndex = n + 1 \/ insertIndex = n)
        BY <3>2
    <3>5. insertIndex = Len(vals) + 1 \/ (n # 0 /\ (insertIndex = n + 1 \/ insertIndex = n))
        BY <3>3, <3>4
    <3> HIDE DEF insertIndex
    <3> QED BY <3>1, <3>5
  <2> HIDE DEF insertIndex
  <2>5. new \in Seq(Labels)
      BY <2>1, <2>3, InsertIs
  <2> HIDE DEF new, d
  <2> QED BY <2>2, <2>4, <2>5, LabelsSet DEF at, d
<1> QED BY <1>1, <1>2 DEF alterTypeAddValue

LEMMA AlterTypeRenameValueFits ==
    ASSUME NEW c \in Fits, NEW tn, NEW old \in Labels, NEW new \in Labels
    PROVE  alterTypeRenameValue(c, tn, old, new) \in Within(c)
<1> DEFINE at == enumAt(c, tn)
           vals == c.schemas[at.s].types[at.k].vals
           n == SelectInSeq(vals, LAMBDA v : v = old)
           d == alterTypeRenameValue(c, tn, old, new)
<1>1. CASE d = Fail(c)
    BY <1>1, WithinSelf
<1>2. CASE at.k # 0 /\ d = [c EXCEPT !.schemas[at.s].types[at.k].vals[n] = new]
  <2>1. vals \in Seq(Labels)
      BY <1>2, EnumFound DEF Type
  <2>2. at.k # 0
      BY <1>2
  <2>3. d = SetLabels(c, at, [vals EXCEPT ![n] = new])
      BY <1>2 DEF SetLabels
  <2> HIDE DEF at, vals, n, d
  <2>4. [vals EXCEPT ![n] = new] \in Seq(Labels)
      BY <2>1, ExceptIs
  <2> QED BY <2>2, <2>3, <2>4, LabelsSet DEF at, d
<1> QED BY <1>1, <1>2 DEF alterTypeRenameValue

--------------------------------------------------------------------------------
(* Changes of columns and of tables.                                       *)

(* The columns change, none of them its name, and new ones may follow. *)
LEMMA ColumnsSet ==
    ASSUME NEW c \in Fits, NEW cs \in Seq(Column), Len(cs) >= Len(c.cols),
           \A id \in 1 .. Len(c.cols) : cs[id].name = c.cols[id].name
    PROVE  /\ [c EXCEPT !.cols = cs] \in Fits
           /\ [c EXCEPT !.cols = cs].schemas = c.schemas
           /\ [c EXCEPT !.cols = cs].cols = cs
           /\ [c EXCEPT !.cols = cs].err = c.err
<1> DEFINE d == [c EXCEPT !.cols = cs]
<1>1. c \in Catalogs
    BY DEF Fits
<1>2. d \in Catalogs /\ d.schemas = c.schemas /\ d.cols = cs /\ d.err = c.err
    BY <1>1 DEF Catalogs
<1> HIDE DEF d
<1>3. Len(c.cols) \in Nat /\ Len(cs) \in Nat
    BY <1>1 DEF Catalogs
<1>4. \A id : id \in 1 .. Len(c.cols) => id \in 1 .. Len(cs)
    BY <1>3
<1>5. Pointers(d)
    BY <1>2, <1>4 DEF Fits, Pointers, PointsInto
<1>6. ColumnsUnique(c) => ColumnsUnique(d)
  <2> SUFFICES ASSUME ColumnsUnique(c), NEW i \in DOMAIN c.schemas,
                      NEW j \in DOMAIN c.schemas[i].tables
               PROVE  UniqueColumns(c.schemas[i].tables[j].cols, cs)
      BY <1>2 DEF ColumnsUnique
  <2>1. UniqueColumns(c.schemas[i].tables[j].cols, c.cols)
      BY DEF ColumnsUnique
  <2>2. \A k \in DOMAIN c.schemas[i].tables[j].cols :
            c.schemas[i].tables[j].cols[k] \in 1 .. Len(c.cols)
      BY DEF Fits, Pointers, PointsInto
  <2> QED BY <2>1, <2>2 DEF UniqueColumns
<1>7. d \in Fits
    BY <1>2, <1>5, <1>6 DEF Fits, Unique, Disjoint, Agreed
<1> QED BY <1>2, <1>7 DEF d

(* The tables of one schema become ts. *)
WithTables(c, i, ts) == [c EXCEPT !.schemas[i].tables = ts]

LEMMA WithTablesIs ==
    ASSUME NEW c \in Catalogs, NEW i \in DOMAIN c.schemas, NEW ts \in Seq(Table)
    PROVE  /\ WithTables(c, i, ts) \in Catalogs
           /\ WithTables(c, i, ts).cols = c.cols /\ WithTables(c, i, ts).err = c.err
           /\ DOMAIN WithTables(c, i, ts).schemas = DOMAIN c.schemas
           /\ \A m \in DOMAIN c.schemas :
                  /\ WithTables(c, i, ts).schemas[m].name = c.schemas[m].name
                  /\ WithTables(c, i, ts).schemas[m].types = c.schemas[m].types
                  /\ m # i => WithTables(c, i, ts).schemas[m] = c.schemas[m]
           /\ WithTables(c, i, ts).schemas[i].tables = ts
<1> DEFINE s == [c.schemas[i] EXCEPT !.tables = ts]
           d == WithTables(c, i, ts)
<1>1. c.schemas[i] \in Schema
    BY DEF Catalogs
<1>2. s \in Schema /\ s.tables = ts /\ s.name = c.schemas[i].name /\ s.types = c.schemas[i].types
    BY <1>1 DEF Schema
<1>3. d = WithSchema(c, i, s)
    BY DEF WithSchema, WithTables
<1> HIDE DEF s, d
<1>4. /\ d \in Catalogs /\ d.cols = c.cols /\ d.err = c.err
      /\ DOMAIN d.schemas = DOMAIN c.schemas
      /\ \A m \in DOMAIN c.schemas : d.schemas[m] = IF m = i THEN s ELSE c.schemas[m]
    BY <1>2, <1>3, WithSchemaIs
<1>5. d.schemas[i] = s /\ \A m \in DOMAIN c.schemas : m # i => d.schemas[m] = c.schemas[m]
    BY <1>4
<1>6. \A m \in DOMAIN c.schemas : d.schemas[m].name = c.schemas[m].name /\ d.schemas[m].types = c.schemas[m].types
    BY <1>2, <1>5
<1>7. d.schemas[i].tables = ts
    BY <1>2, <1>5
<1> QED BY <1>4, <1>5, <1>6, <1>7 DEF d

(* What a list of tables needs, in schema i of c. *)
Sound(c, i, ts) ==
    /\ ts \in Seq(Table) /\ UniqueTables(ts) /\ PointsInto(ts, Len(c.cols))
    /\ Engine = "mysql" =>
          /\ \A j, n \in DOMAIN ts : j # n => Apart(ts[j], ts[n])
          /\ \A j \in DOMAIN ts, m \in DOMAIN c.schemas : \A n \in DOMAIN c.schemas[m].tables :
                 m # i => Apart(ts[j], c.schemas[m].tables[n])
          /\ \A j \in DOMAIN ts : UniqueColumns(ts[j].cols, c.cols)
    /\ failed \/ c.err \/ ListedIn(ts, c.schemas[i].name)

LEMMA TablesSet ==
    ASSUME NEW c \in Fits, NEW i \in DOMAIN c.schemas, NEW ts, Sound(c, i, ts)
    PROVE  WithTables(c, i, ts) \in Fits
<1> DEFINE d == WithTables(c, i, ts)
<1>1. c \in Catalogs /\ ts \in Seq(Table)
    BY DEF Fits, Sound
<1>2. /\ d \in Catalogs /\ d.cols = c.cols /\ d.err = c.err
      /\ DOMAIN d.schemas = DOMAIN c.schemas
      /\ \A m \in DOMAIN c.schemas :
             /\ d.schemas[m].name = c.schemas[m].name
             /\ d.schemas[m].types = c.schemas[m].types
             /\ m # i => d.schemas[m] = c.schemas[m]
      /\ d.schemas[i].tables = ts
    BY <1>1, WithTablesIs
<1> HIDE DEF d
<1>3. Unique(d)
  <2> SUFFICES ASSUME NEW m \in DOMAIN c.schemas
               PROVE  UniqueTables(d.schemas[m].tables) /\ UniqueTypes(d.schemas[m].types)
      BY <1>2 DEF Unique
  <2>1. UniqueTables(c.schemas[m].tables) /\ UniqueTypes(c.schemas[m].types)
      BY DEF Fits, Unique
  <2> QED BY <1>2, <2>1 DEF Sound
<1>4. Pointers(d)
  <2> SUFFICES ASSUME NEW m \in DOMAIN c.schemas
               PROVE  PointsInto(d.schemas[m].tables, Len(c.cols))
      BY <1>2 DEF Pointers
  <2>1. PointsInto(c.schemas[m].tables, Len(c.cols))
      BY DEF Fits, Pointers
  <2> QED BY <1>2, <2>1 DEF Sound
<1>5. ASSUME Engine = "mysql" PROVE Disjoint(d)
  <2> SUFFICES ASSUME NEW m \in DOMAIN c.schemas, NEW p \in DOMAIN c.schemas,
                      NEW j \in DOMAIN d.schemas[m].tables, NEW n \in DOMAIN d.schemas[p].tables,
                      m # p \/ j # n
               PROVE  Apart(d.schemas[m].tables[j], d.schemas[p].tables[n])
      BY <1>2 DEF Disjoint
  <2>1. Disjoint(c)
      BY <1>5 DEF Fits
  <2>2. CASE m # i /\ p # i
      BY <1>2, <2>1, <2>2 DEF Disjoint
  <2>3. CASE m = i /\ p = i
      BY <1>2, <1>5, <2>3 DEF Sound
  <2>4. CASE m = i /\ p # i
      BY <1>2, <1>5, <2>4 DEF Sound
  <2>5. CASE m # i /\ p = i
    <3>1. Apart(d.schemas[p].tables[n], d.schemas[m].tables[j])
        BY <1>2, <1>5, <2>5 DEF Sound
    <3> QED BY <3>1 DEF Apart
  <2> QED BY <2>2, <2>3, <2>4, <2>5
<1>6. ASSUME Engine = "mysql" PROVE ColumnsUnique(d)
  <2> SUFFICES ASSUME NEW m \in DOMAIN c.schemas, NEW j \in DOMAIN d.schemas[m].tables
               PROVE  UniqueColumns(d.schemas[m].tables[j].cols, c.cols)
      BY <1>2 DEF ColumnsUnique
  <2>1. ColumnsUnique(c)
      BY <1>6 DEF Fits
  <2>2. CASE m = i
      BY <1>2, <1>6, <2>2 DEF Sound
  <2>3. CASE m # i
      BY <1>2, <2>1, <2>3 DEF ColumnsUnique
  <2> QED BY <2>2, <2>3
<1>7. failed \/ d.err \/ Agreed(d)
  <2> SUFFICES ASSUME ~failed, ~c.err, NEW m \in DOMAIN c.schemas
               PROVE  ListedIn(d.schemas[m].tables, d.schemas[m].name)
      BY <1>2 DEF Agreed
  <2>1. ListedIn(c.schemas[m].tables, c.schemas[m].name)
      BY DEF Fits, Agreed
  <2> QED BY <1>2, <2>1 DEF Sound
<1>8. d \in Fits
    BY <1>2, <1>3, <1>4, <1>5, <1>6, <1>7 DEF Fits
<1> QED BY <1>8 DEF d

(* No table points to the column. *)
Unused(c, id) ==
    \A i \in DOMAIN c.schemas : \A j \in DOMAIN c.schemas[i].tables :
        \A k \in DOMAIN c.schemas[i].tables[j].cols : c.schemas[i].tables[j].cols[k] # id
Holds(t, id) == \E k \in DOMAIN t.cols : t.cols[k] = id

(* w may be a table of schema i, whatever its name. *)
Suits(c, i, w) ==
    /\ w \in Table /\ \A k \in DOMAIN w.cols : w.cols[k] \in 1 .. Len(c.cols)
    /\ Engine = "mysql" => UniqueColumns(w.cols, c.cols)
    /\ failed \/ c.err \/ Ns(w.rel.schema) = c.schemas[i].name

LEMMA OldTables ==
    ASSUME NEW c \in Fits, NEW i \in DOMAIN c.schemas
    PROVE  LET old == c.schemas[i].tables
           IN  /\ old \in Seq(Table) /\ UniqueTables(old)
               /\ \A j \in DOMAIN old : Suits(c, i, old[j])
               /\ Engine = "mysql" =>
                      \A j \in DOMAIN old :
                          /\ \A n \in DOMAIN old : j # n => Apart(old[j], old[n])
                          /\ \A m \in DOMAIN c.schemas : \A n \in DOMAIN c.schemas[m].tables :
                                 m # i => Apart(old[j], c.schemas[m].tables[n])
<1> DEFINE old == c.schemas[i].tables
<1>1. c.schemas[i] \in Schema
    BY DEF Fits, Catalogs
<1>2. old \in Seq(Table)
    BY <1>1 DEF Schema
<1>3. UniqueTables(old)
    BY DEF Fits, Unique
<1>4. PointsInto(old, Len(c.cols))
    BY DEF Fits, Pointers
<1>5. ASSUME Engine = "mysql" PROVE Disjoint(c) /\ ColumnsUnique(c)
    BY <1>5 DEF Fits
<1>6. ASSUME ~failed, ~c.err PROVE ListedIn(old, c.schemas[i].name)
    BY <1>6 DEF Fits, Agreed
<1>7. ASSUME NEW j \in DOMAIN old PROVE Suits(c, i, old[j])
  <2>1. old[j] \in Table
      BY <1>2
  <2>2. \A k \in DOMAIN old[j].cols : old[j].cols[k] \in 1 .. Len(c.cols)
      BY <1>4 DEF PointsInto
  <2>3. Engine = "mysql" => UniqueColumns(old[j].cols, c.cols)
      BY <1>5 DEF ColumnsUnique
  <2>4. failed \/ c.err \/ Ns(old[j].rel.schema) = c.schemas[i].name
      BY <1>6 DEF ListedIn
  <2> QED BY <2>1, <2>2, <2>3, <2>4 DEF Suits
<1>8. ASSUME Engine = "mysql", NEW j \in DOMAIN old
      PROVE  /\ \A n \in DOMAIN old : j # n => Apart(old[j], old[n])
             /\ \A m \in DOMAIN c.schemas : \A n \in DOMAIN c.schemas[m].tables :
                    m # i => Apart(old[j], c.schemas[m].tables[n])
    BY <1>5, <1>8 DEF Disjoint
<1> QED BY <1>2, <1>3, <1>7, <1>8

(* The catalogs with a table at t of schema i, and no more tables than base. *)
Holding(base, i, t) == {c \in Within(base) : i \in DOMAIN c.schemas /\ t \in DOMAIN c.schemas[i].tables}

LEMMA KeepsHolding ==
    ASSUME NEW base, NEW i, NEW t, NEW c \in Holding(base, i, t), NEW d \in Fits, KeepsTables(c, d)
    PROVE  d \in Holding(base, i, t)
<1>1. d \in Within(base)
    BY KeepsWithin DEF Holding
<1> QED BY <1>1 DEF Holding, KeepsTables

LEMMA TableReplaced ==
    ASSUME NEW base, NEW c \in Within(base), NEW i \in DOMAIN c.schemas,
           NEW t \in DOMAIN c.schemas[i].tables,
           NEW w, Suits(c, i, w),
           \A l \in DOMAIN c.schemas[i].tables : c.schemas[i].tables[l].rel.name = w.rel.name => l = t,
           Engine = "mysql" =>
               \A k \in DOMAIN w.cols : Holds(c.schemas[i].tables[t], w.cols[k]) \/ Unused(c, w.cols[k])
    PROVE  [c EXCEPT !.schemas[i].tables[t] = w] \in Holding(base, i, t)
<1>0. c \in Fits
    BY DEF Within
<1> DEFINE old == c.schemas[i].tables
           ts == [old EXCEPT ![t] = w]
<1>1. /\ old \in Seq(Table) /\ UniqueTables(old)
      /\ \A j \in DOMAIN old : Suits(c, i, old[j])
      /\ Engine = "mysql" =>
             \A j \in DOMAIN old :
                 /\ \A n \in DOMAIN old : j # n => Apart(old[j], old[n])
                 /\ \A m \in DOMAIN c.schemas : \A n \in DOMAIN c.schemas[m].tables :
                        m # i => Apart(old[j], c.schemas[m].tables[n])
    BY <1>0, OldTables
<1>2. [c EXCEPT !.schemas[i].tables[t] = w] = WithTables(c, i, ts)
    BY DEF WithTables
<1>3. t \in DOMAIN old /\ \A l \in DOMAIN old : old[l].rel.name = w.rel.name => l = t
    OBVIOUS
<1>4. ASSUME Engine = "mysql", NEW m \in DOMAIN c.schemas, NEW n \in DOMAIN c.schemas[m].tables,
             m # i \/ n # t
      PROVE  Apart(w, c.schemas[m].tables[n])
  <2> SUFFICES ASSUME NEW k \in DOMAIN w.cols, NEW l \in DOMAIN c.schemas[m].tables[n].cols
               PROVE  w.cols[k] # c.schemas[m].tables[n].cols[l]
      BY DEF Apart
  <2>1. CASE Unused(c, w.cols[k])
      BY <2>1 DEF Unused
  <2>2. CASE Holds(c.schemas[i].tables[t], w.cols[k])
    <3>1. Apart(old[t], c.schemas[m].tables[n])
      <4>1. CASE m = i
          BY <1>1, <1>3, <1>4, <4>1
      <4>2. CASE m # i
        <5> HIDE DEF old
        <5> QED BY <1>1, <1>3, <1>4, <4>2
      <4> QED BY <4>1, <4>2
    <3> QED BY <2>2, <3>1 DEF Apart, Holds
  <2> QED BY <1>4, <2>1, <2>2
<1>5. ASSUME Engine = "mysql", NEW n \in DOMAIN old, n # t PROVE Apart(w, old[n]) /\ Apart(old[n], w)
  <2>1. Apart(w, old[n])
      BY <1>4, <1>5
  <2> QED BY <2>1 DEF Apart
<1> HIDE DEF old
<1>6. /\ ts \in Seq(Table) /\ DOMAIN ts = DOMAIN old
      /\ \A j \in DOMAIN old : ts[j] = IF j = t THEN w ELSE old[j]
    BY <1>1, <1>3 DEF Suits
<1> HIDE DEF ts
<1>7. UniqueTables(ts)
    BY <1>1, <1>3, <1>6 DEF UniqueTables
<1>8. \A j \in DOMAIN ts : Suits(c, i, ts[j])
    BY <1>1, <1>6
<1>9. PointsInto(ts, Len(c.cols))
    BY <1>8 DEF Suits, PointsInto
<1>10. failed \/ c.err \/ ListedIn(ts, c.schemas[i].name)
    BY <1>8 DEF Suits, ListedIn
<1>11. Engine = "mysql" => \A j \in DOMAIN ts : UniqueColumns(ts[j].cols, c.cols)
    BY <1>8 DEF Suits
<1>12. Engine = "mysql" => \A j, n \in DOMAIN ts : j # n => Apart(ts[j], ts[n])
    BY <1>1, <1>5, <1>6
<1>13. Engine = "mysql" =>
          \A j \in DOMAIN ts, m \in DOMAIN c.schemas : \A n \in DOMAIN c.schemas[m].tables :
              m # i => Apart(ts[j], c.schemas[m].tables[n])
    BY <1>1, <1>4, <1>6
<1>14. Sound(c, i, ts)
    BY <1>6, <1>7, <1>9, <1>10, <1>11, <1>12, <1>13 DEF Sound
<1>15. WithTables(c, i, ts) \in Fits
    BY <1>0, <1>14, TablesSet
<1>16. c \in Catalogs
    BY <1>0 DEF Fits
<1> DEFINE d == WithTables(c, i, ts)
<1>17. /\ DOMAIN d.schemas = DOMAIN c.schemas /\ d.schemas[i].tables = ts
       /\ \A m \in DOMAIN c.schemas : m # i => d.schemas[m] = c.schemas[m]
    BY <1>6, <1>16, WithTablesIs
<1> HIDE DEF d
<1>18. Len(ts) = Len(old)
    BY <1>1, <1>6
<1>19. \A m \in DOMAIN c.schemas : Len(d.schemas[m].tables) = Len(c.schemas[m].tables)
    BY <1>17, <1>18 DEF old
<1>20. d \in Within(base)
    BY <1>15, <1>17, <1>19, WithinKept DEF d
<1>21. d \in Holding(base, i, t)
    BY <1>3, <1>6, <1>17, <1>20 DEF Holding
<1> QED BY <1>2, <1>21 DEF d

LEMMA TableAppended ==
    ASSUME NEW c \in Fits, NEW i \in DOMAIN c.schemas, NEW w, Suits(c, i, w),
           \A l \in DOMAIN c.schemas[i].tables : c.schemas[i].tables[l].rel.name # w.rel.name,
           Engine = "mysql" => \A k \in DOMAIN w.cols : Unused(c, w.cols[k])
    PROVE  [c EXCEPT !.schemas[i].tables = Append(@, w)] \in Fits
<1> DEFINE old == c.schemas[i].tables
           ts == Append(old, w)
<1>1. /\ old \in Seq(Table) /\ UniqueTables(old)
      /\ \A j \in DOMAIN old : Suits(c, i, old[j])
      /\ Engine = "mysql" =>
             \A j \in DOMAIN old :
                 /\ \A n \in DOMAIN old : j # n => Apart(old[j], old[n])
                 /\ \A m \in DOMAIN c.schemas : \A n \in DOMAIN c.schemas[m].tables :
                        m # i => Apart(old[j], c.schemas[m].tables[n])
    BY OldTables
<1>2. [c EXCEPT !.schemas[i].tables = Append(@, w)] = WithTables(c, i, ts)
    BY DEF WithTables
<1>3. \A l \in DOMAIN old : old[l].rel.name # w.rel.name
    OBVIOUS
<1>4. ASSUME Engine = "mysql", NEW m \in DOMAIN c.schemas, NEW n \in DOMAIN c.schemas[m].tables
      PROVE  Apart(w, c.schemas[m].tables[n])
    BY <1>4 DEF Apart, Unused
<1>5. ASSUME Engine = "mysql", NEW n \in DOMAIN old PROVE Apart(w, old[n]) /\ Apart(old[n], w)
  <2>1. Apart(w, old[n])
      BY <1>4, <1>5
  <2> QED BY <2>1 DEF Apart
<1> HIDE DEF old
<1>6. Longer(ts, old, w, Table)
    BY <1>1, AppendIs DEF Suits
<1> HIDE DEF ts
<1>7. \A j \in DOMAIN ts : (j = Len(old) + 1 /\ ts[j] = w) \/ (j \in DOMAIN old /\ ts[j] = old[j])
    BY <1>6 DEF Longer
<1>8. ts \in Seq(Table) /\ UniqueTables(ts)
    BY <1>1, <1>3, <1>6, <1>7 DEF UniqueTables, Longer
<1>9. \A j \in DOMAIN ts : Suits(c, i, ts[j])
    BY <1>1, <1>7
<1>10. PointsInto(ts, Len(c.cols))
    BY <1>9 DEF Suits, PointsInto
<1>11. failed \/ c.err \/ ListedIn(ts, c.schemas[i].name)
    BY <1>9 DEF Suits, ListedIn
<1>12. Engine = "mysql" => \A j \in DOMAIN ts : UniqueColumns(ts[j].cols, c.cols)
    BY <1>9 DEF Suits
<1>13. Engine = "mysql" => \A j, n \in DOMAIN ts : j # n => Apart(ts[j], ts[n])
    BY <1>1, <1>5, <1>7
<1>14. Engine = "mysql" =>
          \A j \in DOMAIN ts, m \in DOMAIN c.schemas : \A n \in DOMAIN c.schemas[m].tables :
              m # i => Apart(ts[j], c.schemas[m].tables[n])
    BY <1>1, <1>4, <1>7
<1>15. Sound(c, i, ts)
    BY <1>8, <1>10, <1>11, <1>12, <1>13, <1>14 DEF Sound
<1>16. WithTables(c, i, ts) \in Fits
    BY <1>15, TablesSet
<1> QED BY <1>2, <1>16

LEMMA TableRemoved ==
    ASSUME NEW c \in Fits, NEW i \in DOMAIN c.schemas, NEW t \in DOMAIN c.schemas[i].tables
    PROVE  /\ [c EXCEPT !.schemas[i].tables = RemoveAt(@, t)] \in Fits
           /\ [c EXCEPT !.schemas[i].tables = RemoveAt(@, t)]
                  = WithTables(c, i, RemoveAt(c.schemas[i].tables, t))
<1> DEFINE old == c.schemas[i].tables
           ts == RemoveAt(old, t)
<1>1. /\ old \in Seq(Table) /\ UniqueTables(old)
      /\ \A j \in DOMAIN old : Suits(c, i, old[j])
      /\ Engine = "mysql" =>
             \A j \in DOMAIN old :
                 /\ \A n \in DOMAIN old : j # n => Apart(old[j], old[n])
                 /\ \A m \in DOMAIN c.schemas : \A n \in DOMAIN c.schemas[m].tables :
                        m # i => Apart(old[j], c.schemas[m].tables[n])
    BY OldTables
<1>2. [c EXCEPT !.schemas[i].tables = RemoveAt(@, t)] = WithTables(c, i, ts)
    BY DEF WithTables
<1>3. t \in 1 .. Len(old)
    BY <1>1
<1> HIDE DEF old
<1>4. Shorter(ts, old, t, Table)
    BY <1>1, <1>3, RemoveIs
<1>5. WithTables(c, i, ts) = WithTables(c, i, RemoveAt(c.schemas[i].tables, t))
    BY DEF old
<1> HIDE DEF ts
<1>6. /\ \A j \in DOMAIN ts : Past(j, t) \in DOMAIN old /\ ts[j] = old[Past(j, t)]
      /\ \A j, n \in DOMAIN ts : Past(j, t) = Past(n, t) => j = n
    BY <1>4 DEF Shorter
<1>7. ts \in Seq(Table) /\ UniqueTables(ts)
    BY <1>1, <1>4, <1>6 DEF UniqueTables, Shorter
<1>8. \A j \in DOMAIN ts : Suits(c, i, ts[j])
    BY <1>1, <1>6
<1>9. PointsInto(ts, Len(c.cols))
    BY <1>8 DEF Suits, PointsInto
<1>10. failed \/ c.err \/ ListedIn(ts, c.schemas[i].name)
    BY <1>8 DEF Suits, ListedIn
<1>11. Engine = "mysql" => \A j \in DOMAIN ts : UniqueColumns(ts[j].cols, c.cols)
    BY <1>8 DEF Suits
<1>12. Engine = "mysql" => \A j, n \in DOMAIN ts : j # n => Apart(ts[j], ts[n])
    BY <1>1, <1>6
<1>13. Engine = "mysql" =>
          \A j \in DOMAIN ts, m \in DOMAIN c.schemas : \A n \in DOMAIN c.schemas[m].tables :
              m # i => Apart(ts[j], c.schemas[m].tables[n])
    BY <1>1, <1>6
<1>14. Sound(c, i, ts)
    BY <1>7, <1>9, <1>10, <1>11, <1>12, <1>13 DEF Sound
<1>15. WithTables(c, i, ts) \in Fits
    BY <1>14, TablesSet
<1> QED BY <1>2, <1>5, <1>15

--------------------------------------------------------------------------------
(* ALTER TABLE.                                                            *)

(* Column definitions. *)
Def == [name : ColNames, type : TypeName, notNull : BOOLEAN, vals : Seq(Labels)]

LEMMA DefsTyped == ASSUME lang \in Langs PROVE ColDefs \subseteq Def
<1> SUFFICES ASSUME NEW d \in ColDefs PROVE d \in Def
    OBVIOUS
<1>1. d.type \in [schema : STRING, name : STRING] /\ NotNulls \subseteq BOOLEAN
  <2>1. ColTypes \cup TypeRefs \subseteq [schema : STRING, name : STRING] /\ NotNulls \subseteq BOOLEAN
      BY LangsAssumption, Zenon DEF ColTypes, TypeRefs, NotNulls
  <2>2. d.type \in ColTypes
      BY DEF ColDefs
  <2> QED BY <2>1, <2>2
<1>2. d.type \in ColTypes /\ d.name \in ColNames /\ d.notNull \in NotNulls /\ d.vals \in EnumVals
    BY DEF ColDefs
<1>3. d.type.schema \in SchemaRefs /\ d.type.name \in TypeNames
  <2>1. d.type \in ColTypes \cup TypeRefs
      BY <1>2
  <2>2. /\ d.type.schema \in {r.schema : r \in ColTypes \cup TypeRefs}
        /\ d.type.name \in {r.name : r \in ColTypes \cup TypeRefs}
      BY <2>1
  <2> QED BY <2>2 DEF SchemaRefs, TypeNames
<1>4. d.type \in TypeName
    BY <1>1, <1>3 DEF TypeName
<1>5. d.vals \in Seq(Labels)
  <2>1. d.vals = <<>> \/ \E v \in Labels : d.vals = <<v>>
      BY <1>2, Zenon DEF EnumVals
  <2>2. <<>> \in Seq(Labels) /\ \A v \in Labels : <<v>> \in Seq(Labels)
      OBVIOUS
  <2> QED BY <2>1, <2>2
<1>6. d = [name |-> d.name, type |-> d.type, notNull |-> d.notNull, vals |-> d.vals]
    BY DEF ColDefs
<1> QED BY <1>1, <1>2, <1>4, <1>5, <1>6 DEF Def

LEMMA LinkedNameTyped ==
    ASSUME NEW table \in TableNames, NEW col \in ColNames
    PROVE  linkedName(table, col) \in TypeName /\ linkedName(table, col).name \in TypeNames
<1> DEFINE none == Unqualified
<1>1. none \in SchemaRefs
    BY DEF SchemaRefs
<1>2. EnumName(table, col) \in TypeNames
  <2>1. EnumName(table, col) \in {EnumName(t, a) : t \in TableNames, a \in ColNames}
      OBVIOUS
  <2> QED BY <2>1 DEF TypeNames
<1>3. linkedName(table, col) = [schema |-> none, name |-> EnumName(table, col)]
    BY Zenon DEF linkedName, Unqualified
<1> HIDE DEF none
<1> QED BY <1>1, <1>2, <1>3 DEF TypeName

LEMMA ColumnOfTyped ==
    ASSUME NEW table \in TableNames, NEW def \in Def
    PROVE  columnOf(table, def) \in Column /\ columnOf(table, def).name = def.name
<1>1. def.name \in ColNames /\ def.type \in TypeName /\ def.notNull \in BOOLEAN
    BY DEF Def
<1>2. linkedName(table, def.name) \in TypeName
    BY <1>1, LinkedNameTyped
<1> QED BY <1>1, <1>2 DEF columnOf, Column

LEMMA DefineLinkedFits ==
    ASSUME NEW c \in Fits, NEW table \in TableNames, NEW def \in Def
    PROVE  defineLinked(c, table, def) \in Fits /\ KeepsColumns(c, defineLinked(c, table, def))
<1>1. def.name \in ColNames /\ def.vals \in Seq(Labels) /\ c \in Catalogs
    BY DEF Def, Fits
<1>2. linkedName(table, def.name).name \in TypeNames
    BY <1>1, LinkedNameTyped
<1>3. CASE def.vals # <<>>
    BY <1>1, <1>2, <1>3, CreateTypeFits DEF defineLinked
<1>4. CASE def.vals = <<>>
    BY <1>1, <1>4, FailKeeps DEF defineLinked
<1> QED BY <1>3, <1>4

(* r is a table under construction after Allocate. *)
Allocated(r, c, ids, seen, new) ==
    /\ r.c \in Fits /\ r.c.schemas = c.schemas /\ r.c.err = c.err /\ r.seen = seen
    /\ Joined(r.c.cols, c.cols, new, Column)
    /\ Joined(r.ids, ids, [k \in DOMAIN new |-> Len(c.cols) + k], Nat)
    /\ r = [c |-> r.c, ids |-> r.ids, seen |-> r.seen]

LEMMA AllocateIs ==
    ASSUME NEW c \in Fits, NEW ids \in Seq(Nat), NEW seen, NEW new \in Seq(Column)
    PROVE  Allocated(Allocate([c |-> c, ids |-> ids, seen |-> seen], new), c, ids, seen, new)
<1> DEFINE b == [c |-> c, ids |-> ids, seen |-> seen]
           r == Allocate(b, new)
           cs == c.cols \o new
           news == [k \in DOMAIN new |-> Len(c.cols) + k]
           is == ids \o news
           d == [c EXCEPT !.cols = cs]
<1>1. c \in Catalogs
    BY DEF Fits
<1>2. c.cols \in Seq(Column) /\ Len(c.cols) \in Nat
    BY <1>1 DEF Catalogs
<1>3. news \in Seq(Nat)
  <2>1. Len(new) \in Nat /\ DOMAIN new = 1 .. Len(new)
      OBVIOUS
  <2>2. \A k \in 1 .. Len(new) : Len(c.cols) + k \in Nat
      BY <1>2, <2>1
  <2>3. news = [k \in 1 .. Len(new) |-> Len(c.cols) + k]
      BY <2>1
  <2> HIDE DEF news
  <2> QED BY <2>1, <2>2, <2>3
<1>4. r = [c |-> d, ids |-> is, seen |-> seen]
  <2>1. b.c = c /\ b.ids = ids /\ b.seen = seen /\ b = [c |-> c, ids |-> ids, seen |-> seen]
      OBVIOUS
  <2>2. r = [b EXCEPT !.c.cols = @ \o new,
                      !.ids = @ \o [k \in DOMAIN new |-> Len(b.c.cols) + k]]
      BY DEF Allocate
  <2> HIDE DEF b
  <2>3. [k \in DOMAIN new |-> Len(b.c.cols) + k] = news
      BY <2>1
  <2> HIDE DEF news, r
  <2> QED BY <2>1, <2>2, <2>3
<1>5. Joined(cs, c.cols, new, Column)
    BY <1>2, JoinIs
<1>6. Joined(is, ids, news, Nat)
    BY <1>3, JoinIs
<1> HIDE DEF r, cs
<1>7. /\ cs \in Seq(Column) /\ Len(cs) >= Len(c.cols)
      /\ \A id \in 1 .. Len(c.cols) : cs[id].name = c.cols[id].name
  <2>1. DOMAIN c.cols = 1 .. Len(c.cols) /\ Len(new) \in Nat
      BY <1>2
  <2> QED BY <1>2, <1>5, <2>1 DEF Joined
<1>8. d \in Fits /\ d.schemas = c.schemas /\ d.cols = cs /\ d.err = c.err
    BY <1>7, ColumnsSet
<1> HIDE DEF d, is, news
<1>9. Allocated(r, c, ids, seen, new)
    BY <1>4, <1>5, <1>6, <1>8 DEF Allocated, news
<1> QED BY <1>9 DEF r

LEMMA ColumnFound ==
    ASSUME NEW c \in Catalogs, NEW at, tableAt(c, at) \in Table, NEW name
    PROVE  LET k == isExistColumn(c, at, name)
               ids == tableAt(c, at).cols
           IN  /\ k # 0 => k \in DOMAIN ids /\ k \in 1 .. Len(ids) /\ c.cols[ids[k]].name = name
               /\ k = 0 => \A l \in DOMAIN ids : c.cols[ids[l]].name # name
<1> DEFINE ids == tableAt(c, at).cols
           I == {k \in 1 .. Len(ids) : c.cols[ids[k]].name = name}
<1>1. isExistColumn(c, at, name) = IF I # {} THEN Min(I) ELSE 0
    BY DEF isExistColumn, SelectInSeq
<1>2. Len(ids) \in Nat /\ DOMAIN ids = 1 .. Len(ids)
    BY DEF Table
<1> HIDE DEF ids
<1>3. I # {} => Min(I) \in I
    BY <1>2, MinIs
<1>4. CASE I # {}
  <2>1. isExistColumn(c, at, name) \in I
      BY <1>1, <1>3, <1>4
  <2>2. isExistColumn(c, at, name) # 0
      BY <1>2, <2>1
  <2> QED BY <1>2, <2>1, <2>2 DEF ids
<1>5. CASE I = {}
    BY <1>1, <1>2, <1>5 DEF ids
<1> QED BY <1>4, <1>5

(* d has the tables of c. *)
SameTables(c, d) ==
    /\ DOMAIN d.schemas = DOMAIN c.schemas
    /\ \A i \in DOMAIN c.schemas : /\ d.schemas[i].name = c.schemas[i].name
                                   /\ d.schemas[i].tables = c.schemas[i].tables

LEMMA FreshUnused ==
    ASSUME NEW c \in Fits, NEW d, SameTables(c, d), NEW id, id \notin 1 .. Len(c.cols)
    PROVE  Unused(d, id)
BY DEF Fits, Pointers, PointsInto, Unused, SameTables

LEMMA Held ==
    ASSUME NEW base, NEW at, NEW c \in Holding(base, at.s, at.t)
    PROVE  /\ c \in Fits /\ c \in Catalogs /\ at.s \in DOMAIN c.schemas
           /\ at.t \in DOMAIN c.schemas[at.s].tables
           /\ tableAt(c, at) = c.schemas[at.s].tables[at.t]
           /\ tableAt(c, at) \in Table /\ Suits(c, at.s, tableAt(c, at))
           /\ \A l \in DOMAIN c.schemas[at.s].tables :
                  c.schemas[at.s].tables[l].rel.name = tableAt(c, at).rel.name => l = at.t
<1>1. c \in Fits /\ at.s \in DOMAIN c.schemas /\ at.t \in DOMAIN c.schemas[at.s].tables
    BY DEF Holding, Within
<1>2. /\ UniqueTables(c.schemas[at.s].tables)
      /\ Suits(c, at.s, c.schemas[at.s].tables[at.t])
    BY <1>1, OldTables
<1> QED BY <1>1, <1>2 DEF Fits, Suits, UniqueTables, tableAt

(* The columns of a table become ids. *)
LEMMA PointersSet ==
    ASSUME NEW base, NEW at, NEW c \in Holding(base, at.s, at.t), NEW ids \in Seq(Nat),
           \A k \in DOMAIN ids : ids[k] \in 1 .. Len(c.cols),
           Engine = "mysql" => UniqueColumns(ids, c.cols),
           Engine = "mysql" =>
               \A k \in DOMAIN ids : Holds(tableAt(c, at), ids[k]) \/ Unused(c, ids[k])
    PROVE  [c EXCEPT !.schemas[at.s].tables[at.t].cols = ids] \in Holding(base, at.s, at.t)
<1> DEFINE i == at.s
           t == at.t
           old == tableAt(c, at)
           w == [old EXCEPT !.cols = ids]
<1>1. /\ c \in Fits /\ i \in DOMAIN c.schemas /\ t \in DOMAIN c.schemas[i].tables
      /\ old = c.schemas[i].tables[t]
      /\ old \in Table /\ Suits(c, i, old)
      /\ \A l \in DOMAIN c.schemas[i].tables : c.schemas[i].tables[l].rel.name = old.rel.name => l = t
    BY Held
<1>2. [c EXCEPT !.schemas[i].tables[t].cols = ids] = [c EXCEPT !.schemas[i].tables[t] = w]
    BY <1>1
<1>3. w \in Table /\ w.cols = ids /\ w.rel = old.rel
    BY <1>1 DEF Table
<1>4. Engine = "mysql" =>
          \A k \in DOMAIN ids : Holds(c.schemas[i].tables[t], ids[k]) \/ Unused(c, ids[k])
    BY <1>1
<1> HIDE DEF w, old, i, t
<1>5. Suits(c, i, w)
    BY <1>1, <1>3 DEF Suits
<1>6. c \in Within(base)
    BY DEF Holding
<1>7. [c EXCEPT !.schemas[i].tables[t] = w] \in Holding(base, i, t)
    BY <1>1, <1>3, <1>4, <1>5, <1>6, TableReplaced
<1> QED BY <1>2, <1>7 DEF i, t

LEMMA AddColumnFits ==
    ASSUME NEW base, NEW at, NEW c \in Holding(base, at.s, at.t), NEW cmd, cmd.def \in Def, cmd.missingOk \in BOOLEAN
    PROVE  addColumn(c, at, cmd) \in Holding(base, at.s, at.t)
<1> DEFINE def == cmd.def
           tbl == tableAt(c, at)
           d == defineLinked(c, tbl.rel.name, def)
           new == columnOf(tbl.rel.name, def)
           b == Allocate(Building(d, tbl.cols), <<new>>)
<1>1. /\ c \in Fits /\ c \in Catalogs /\ at.s \in DOMAIN c.schemas
      /\ at.t \in DOMAIN c.schemas[at.s].tables
      /\ tbl = c.schemas[at.s].tables[at.t] /\ tbl \in Table /\ Suits(c, at.s, tbl)
    BY Held
<1>2. tbl.rel.name \in TableNames /\ tbl.cols \in Seq(Nat)
    BY <1>1 DEF Table
<1>3. d \in Fits /\ KeepsColumns(c, d) /\ d \in Holding(base, at.s, at.t)
  <2>1. d \in Fits /\ KeepsColumns(c, d)
      BY <1>1, <1>2, DefineLinkedFits
  <2> QED BY <2>1, KeepsHolding DEF KeepsColumns
<1>4. new \in Column /\ new.name = def.name
    BY <1>2, ColumnOfTyped
<1>5. CASE addColumn(c, at, cmd) = checkMissing(c, cmd.missingOk)
  <2>1. checkMissing(c, cmd.missingOk) \in Fits /\ KeepsTables(c, checkMissing(c, cmd.missingOk))
      BY <1>1, MissingFits, FailKeeps DEF KeepsColumns
  <2> QED BY <1>5, <2>1, KeepsHolding
<1>6. CASE addColumn(c, at, cmd) = d
    BY <1>3, <1>6
<1>7. CASE /\ isExistColumn(c, at, def.name) = 0
           /\ addColumn(c, at, cmd) = [b.c EXCEPT !.schemas[at.s].tables[at.t].cols = b.ids]
  <2>1. \A l \in DOMAIN tbl.cols : c.cols[tbl.cols[l]].name # def.name
      BY <1>1, <1>7, ColumnFound
  <2>2. Allocated(b, d, tbl.cols, <<>>, <<new>>)
    <3>1. <<new>> \in Seq(Column)
        BY <1>4
    <3> HIDE DEF d, tbl, new
    <3> QED BY <1>2, <1>3, <3>1, AllocateIs DEF Building
  <2> DEFINE e == b.c
             ids == b.ids
             n == Len(c.cols)
  <2> HIDE DEF b, d, new, tbl, def
  <2>3. /\ n \in Nat /\ Len(e.cols) = n + 1 /\ e.cols[n + 1] = new
        /\ \A id \in 1 .. n : e.cols[id] = c.cols[id]
    <3>1. n \in Nat /\ d.cols = c.cols /\ DOMAIN c.cols = 1 .. n
        BY <1>1, <1>3 DEF Catalogs, KeepsColumns
    <3>2. Len(<<new>>) = 1 /\ 1 \in DOMAIN <<new>> /\ <<new>>[1] = new
        OBVIOUS
    <3> QED BY <2>2, <3>1, <3>2 DEF Allocated, Joined
  <2>4. /\ ids \in Seq(Nat)
        /\ \A k \in DOMAIN ids : \/ (k \in DOMAIN tbl.cols /\ ids[k] = tbl.cols[k])
                                 \/ (k = Len(tbl.cols) + 1 /\ k \notin DOMAIN tbl.cols /\ ids[k] = n + 1)
    <3> DEFINE news == [k \in DOMAIN <<new>> |-> Len(d.cols) + k]
    <3>1. Joined(ids, tbl.cols, news, Nat)
        BY <2>2 DEF Allocated
    <3>2. DOMAIN news = {1} /\ news[1] = n + 1
        BY <1>3 DEF KeepsColumns
    <3> HIDE DEF news
    <3>3. Len(tbl.cols) \in Nat /\ DOMAIN ids = 1 .. Len(ids) /\ Len(ids) \in Nat
        BY <1>2, <3>1 DEF Joined
    <3>4. ASSUME NEW k \in DOMAIN ids, k - Len(tbl.cols) \in {1}
          PROVE  k = Len(tbl.cols) + 1 /\ k - Len(tbl.cols) = 1
        BY <3>3, <3>4
    <3> QED BY <3>1, <3>2, <3>4 DEF Joined
  <2>5. SameTables(c, e)
      BY <1>3, <2>2 DEF Allocated, SameTables, KeepsColumns, KeepsTables
  <2>6. e \in Holding(base, at.s, at.t) /\ tableAt(e, at) = tbl
    <3>1. e \in Fits
        BY <2>2 DEF Allocated
    <3>2. c \in Within(base)
        BY DEF Holding
    <3> HIDE DEF e
    <3>3. e \in Within(base)
        BY <2>5, <3>1, <3>2, WithinKept DEF SameTables
    <3> QED BY <1>1, <2>5, <3>3 DEF Holding, SameTables, tableAt
  <2>7. \A k \in DOMAIN tbl.cols : tbl.cols[k] \in 1 .. n
      BY <1>1 DEF Suits
  <2>8. \A k \in DOMAIN ids : ids[k] \in 1 .. Len(e.cols)
      BY <2>3, <2>4, <2>7
  <2>9. Engine = "mysql" => UniqueColumns(ids, e.cols)
    <3> SUFFICES ASSUME Engine = "mysql", NEW k \in DOMAIN ids, NEW l \in DOMAIN ids,
                        e.cols[ids[k]].name = e.cols[ids[l]].name
                 PROVE  k = l
        BY DEF UniqueColumns
    <3>1. UniqueColumns(tbl.cols, c.cols)
        BY <1>1 DEF Suits
    <3>2. \A m \in DOMAIN ids : \/ (m \in DOMAIN tbl.cols /\ e.cols[ids[m]] = c.cols[tbl.cols[m]])
                                \/ (m = Len(tbl.cols) + 1 /\ e.cols[ids[m]].name = def.name)
        BY <1>4, <2>3, <2>4, <2>7
    <3> QED BY <2>1, <3>1, <3>2 DEF UniqueColumns
  <2>10. \A k \in DOMAIN ids : Holds(tbl, ids[k]) \/ Unused(e, ids[k])
    <3>1. Unused(e, n + 1)
      <4>1. n + 1 \notin 1 .. n
          BY <2>3
      <4> HIDE DEF e
      <4> QED BY <1>1, <2>5, <4>1, FreshUnused DEF n
    <3> QED BY <2>4, <3>1 DEF Holds
  <2> HIDE DEF e, ids, n
  <2>11. [e EXCEPT !.schemas[at.s].tables[at.t].cols = ids] \in Holding(base, at.s, at.t)
      BY <2>4, <2>6, <2>8, <2>9, <2>10, PointersSet
  <2> QED BY <1>7, <2>11 DEF e, ids, b, d, new, tbl, def
<1> QED BY <1>5, <1>6, <1>7 DEF addColumn

LEMMA DropColumnFits ==
    ASSUME NEW base, NEW at, NEW c \in Holding(base, at.s, at.t), NEW cmd, cmd.missingOk \in BOOLEAN
    PROVE  dropColumn(c, at, cmd) \in Holding(base, at.s, at.t)
<1> DEFINE k == isExistColumn(c, at, cmd.name)
           tbl == tableAt(c, at)
           id == tbl.cols[k]
           d == IF c.cols[id].linked THEN removeType(c, c.cols[id].type, FALSE) ELSE c
           ids == RemoveAt(tbl.cols, k)
<1>1. /\ c \in Fits /\ c \in Catalogs /\ at.s \in DOMAIN c.schemas
      /\ at.t \in DOMAIN c.schemas[at.s].tables
      /\ tbl = c.schemas[at.s].tables[at.t] /\ tbl \in Table /\ Suits(c, at.s, tbl)
    BY Held
<1>2. tbl.cols \in Seq(Nat)
    BY <1>1 DEF Table
<1>3. d \in Fits /\ KeepsColumns(c, d) /\ d \in Holding(base, at.s, at.t)
  <2>1. d \in Fits /\ KeepsColumns(c, d)
      BY <1>1, RemoveTypeFits, FailKeeps
  <2> HIDE DEF d
  <2> QED BY <2>1, KeepsHolding DEF KeepsColumns
<1>4. CASE dropColumn(c, at, cmd) = checkMissing(c, cmd.missingOk)
  <2>1. checkMissing(c, cmd.missingOk) \in Fits /\ KeepsTables(c, checkMissing(c, cmd.missingOk))
      BY <1>1, MissingFits, FailKeeps DEF KeepsColumns
  <2> QED BY <1>4, <2>1, KeepsHolding
<1>5. CASE dropColumn(c, at, cmd) = d
    BY <1>3, <1>5
<1>6. CASE /\ k # 0
           /\ dropColumn(c, at, cmd) = [d EXCEPT !.schemas[at.s].tables[at.t].cols = RemoveAt(@, k)]
  <2>1. k \in 1 .. Len(tbl.cols)
      BY <1>1, <1>6, ColumnFound
  <2>2. tableAt(d, at) = tbl
      BY <1>1, <1>3 DEF KeepsColumns, KeepsTables, tableAt
  <2>3. dropColumn(c, at, cmd) = [d EXCEPT !.schemas[at.s].tables[at.t].cols = ids]
      BY <1>6, <2>2 DEF tableAt
  <2> HIDE DEF d, k, tbl
  <2>4. Shorter(ids, tbl.cols, k, Nat)
      BY <1>2, <2>1, RemoveIs
  <2> HIDE DEF ids
  <2>5. /\ ids \in Seq(Nat)
        /\ \A l \in DOMAIN ids : Past(l, k) \in DOMAIN tbl.cols /\ ids[l] = tbl.cols[Past(l, k)]
        /\ \A l, m \in DOMAIN ids : Past(l, k) = Past(m, k) => l = m
      BY <2>4 DEF Shorter
  <2>6. d.cols = c.cols
      BY <1>3 DEF KeepsColumns
  <2>7. \A l \in DOMAIN ids : ids[l] \in 1 .. Len(d.cols)
      BY <1>1, <2>5, <2>6 DEF Suits
  <2>8. Engine = "mysql" => UniqueColumns(ids, d.cols)
    <3>1. Engine = "mysql" => UniqueColumns(tbl.cols, d.cols)
        BY <1>1, <2>6 DEF Suits
    <3> QED BY <2>5, <3>1 DEF UniqueColumns
  <2>9. \A l \in DOMAIN ids : Holds(tbl, ids[l])
      BY <2>5 DEF Holds
  <2>10. [d EXCEPT !.schemas[at.s].tables[at.t].cols = ids] \in Holding(base, at.s, at.t)
      BY <1>3, <2>2, <2>5, <2>7, <2>8, <2>9, PointersSet
  <2> QED BY <2>3, <2>10
<1> QED BY <1>4, <1>5, <1>6 DEF dropColumn

(* A column is overwritten by one of the same name. *)
LEMMA ColumnWritten ==
    ASSUME NEW base, NEW at, NEW c \in Holding(base, at.s, at.t), NEW id \in DOMAIN c.cols,
           NEW col \in Column, col.name = c.cols[id].name
    PROVE  [c EXCEPT !.cols[id] = col] \in Holding(base, at.s, at.t)
<1> DEFINE cs == [c.cols EXCEPT ![id] = col]
           d == [c EXCEPT !.cols = cs]
<1>1. c \in Fits /\ c \in Catalogs
    BY DEF Holding, Within, Fits
<1>2. c.cols \in Seq(Column)
    BY <1>1 DEF Catalogs
<1>3. cs \in Seq(Column) /\ Len(cs) = Len(c.cols) /\ Len(c.cols) \in Nat
    BY <1>2
<1>4. \A k \in 1 .. Len(c.cols) : cs[k].name = c.cols[k].name
    BY <1>2
<1>5. [c EXCEPT !.cols[id] = col] = d
    OBVIOUS
<1> HIDE DEF cs
<1>6. d \in Fits /\ d.schemas = c.schemas
    BY <1>1, <1>3, <1>4, ColumnsSet
<1> HIDE DEF d
<1>7. d \in Within(base)
    BY <1>6, WithinKept DEF Holding
<1> QED BY <1>5, <1>6, <1>7 DEF Holding

(* The column a command is about. *)
LEMMA ColumnNamed ==
    ASSUME NEW base, NEW at, NEW c \in Holding(base, at.s, at.t), NEW name, isExistColumn(c, at, name) # 0
    PROVE  LET id == tableAt(c, at).cols[isExistColumn(c, at, name)]
           IN  id \in DOMAIN c.cols /\ c.cols[id] \in Column
<1>1. /\ c \in Catalogs /\ tableAt(c, at) \in Table /\ Suits(c, at.s, tableAt(c, at))
    BY Held
<1>2. isExistColumn(c, at, name) \in DOMAIN tableAt(c, at).cols
    BY <1>1, ColumnFound
<1>3. c.cols \in Seq(Column) /\ DOMAIN c.cols = 1 .. Len(c.cols)
    BY <1>1 DEF Catalogs
<1> QED BY <1>1, <1>2, <1>3 DEF Suits

LEMMA MissingHolds ==
    ASSUME NEW base, NEW at, NEW c \in Holding(base, at.s, at.t), NEW missingOk \in BOOLEAN
    PROVE  checkMissing(c, missingOk) \in Holding(base, at.s, at.t)
<1>1. c \in Fits /\ c \in Catalogs
    BY DEF Holding, Within, Fits
<1>2. checkMissing(c, missingOk) \in Fits /\ KeepsTables(c, checkMissing(c, missingOk))
    BY <1>1, MissingFits, FailKeeps DEF KeepsColumns
<1> QED BY <1>2, KeepsHolding

LEMMA AlterColumnFits ==
    ASSUME NEW base, NEW at, NEW c \in Holding(base, at.s, at.t), NEW cmd, cmd.missingOk \in BOOLEAN,
           NEW d, \/ d = dropNotNull(c, at, cmd) \/ d = setNotNull(c, at, cmd)
                  \/ cmd.type \in TypeName /\ d = alterColumnType(c, at, cmd)
    PROVE  d \in Holding(base, at.s, at.t)
<1> DEFINE k == isExistColumn(c, at, cmd.name)
           id == tableAt(c, at).cols[k]
           col == c.cols[id]
<1>1. CASE k = 0
    BY <1>1, MissingHolds DEF alterColumnType, dropNotNull, setNotNull, alterColumn
<1>2. CASE k # 0
  <2>1. id \in DOMAIN c.cols /\ col \in Column
      BY <1>2, ColumnNamed
  <2>2. /\ alterColumnType(c, at, cmd) = [c EXCEPT !.cols[id] = [col EXCEPT !.type = cmd.type]]
        /\ dropNotNull(c, at, cmd) = [c EXCEPT !.cols[id] = [col EXCEPT !.notNull = FALSE]]
        /\ setNotNull(c, at, cmd) = [c EXCEPT !.cols[id] = [col EXCEPT !.notNull = TRUE]]
      BY <1>2 DEF alterColumnType, dropNotNull, setNotNull, alterColumn
  <2>3. /\ cmd.type \in TypeName =>
               [col EXCEPT !.type = cmd.type] \in Column /\ [col EXCEPT !.type = cmd.type].name = col.name
        /\ \A v \in BOOLEAN :
               [col EXCEPT !.notNull = v] \in Column /\ [col EXCEPT !.notNull = v].name = col.name
      BY <2>1 DEF Column
  <2> HIDE DEF id, k
  <2>4. \A v \in BOOLEAN : [c EXCEPT !.cols[id] = [col EXCEPT !.notNull = v]] \in Holding(base, at.s, at.t)
      BY <2>1, <2>3, ColumnWritten
  <2>5. cmd.type \in TypeName =>
            [c EXCEPT !.cols[id] = [col EXCEPT !.type = cmd.type]] \in Holding(base, at.s, at.t)
      BY <2>1, <2>3, ColumnWritten
  <2>6. /\ dropNotNull(c, at, cmd) \in Holding(base, at.s, at.t)
        /\ setNotNull(c, at, cmd) \in Holding(base, at.s, at.t)
      BY <2>2, <2>4
  <2> QED BY <2>2, <2>5, <2>6
<1> QED BY <1>1, <1>2

(* The commands of ALTER TABLE. *)
Command(cmd) ==
    /\ cmd.op \in {"AddColumn", "AlterColumnType", "DropColumn", "DropNotNull", "SetNotNull", "Other"}
    /\ cmd.op # "Other" => cmd.missingOk \in BOOLEAN
    /\ cmd.op = "AddColumn" => cmd.def \in Def
    /\ cmd.op = "AlterColumnType" => cmd.type \in TypeName

LEMMA AlterTableCmdFits ==
    ASSUME NEW base, NEW at, NEW c \in Holding(base, at.s, at.t), NEW cmd, Command(cmd)
    PROVE  alterTableCmd(c, at, cmd) \in Holding(base, at.s, at.t)
<1>1. CASE cmd.op = "AddColumn"
    BY <1>1, AddColumnFits DEF Command, alterTableCmd
<1> DEFINE H == Holding(base, at.s, at.t)
<1>a. ASSUME cmd.missingOk \in BOOLEAN
      PROVE  /\ dropColumn(c, at, cmd) \in H
             /\ cmd.type \in TypeName => alterColumnType(c, at, cmd) \in H
             /\ dropNotNull(c, at, cmd) \in H /\ setNotNull(c, at, cmd) \in H
  <2>1. dropColumn(c, at, cmd) \in H
      BY <1>a, DropColumnFits
  <2>2. ASSUME cmd.type \in TypeName PROVE alterColumnType(c, at, cmd) \in H
    <3> DEFINE d == alterColumnType(c, at, cmd)
    <3>1. cmd.type \in TypeName /\ d = alterColumnType(c, at, cmd)
        BY <2>2
    <3> HIDE DEF d
    <3>2. d \in H
        BY <1>a, <3>1, AlterColumnFits
    <3> QED BY <3>2 DEF d
  <2>3. dropNotNull(c, at, cmd) \in H
      BY <1>a, AlterColumnFits
  <2>4. setNotNull(c, at, cmd) \in H
      BY <1>a, AlterColumnFits
  <2> QED BY <2>1, <2>2, <2>3, <2>4
<1>2. CASE cmd.op = "AlterColumnType"
    BY <1>2, <1>a DEF Command, alterTableCmd
<1>3. CASE cmd.op = "DropColumn"
    BY <1>3, <1>a DEF Command, alterTableCmd
<1>4. CASE cmd.op = "DropNotNull"
    BY <1>4, <1>a DEF Command, alterTableCmd
<1>5. CASE cmd.op = "SetNotNull"
    BY <1>5, <1>a DEF Command, alterTableCmd
<1>6. CASE cmd.op = "Other"
    BY <1>6 DEF alterTableCmd
<1> QED BY <1>1, <1>2, <1>3, <1>4, <1>5, <1>6 DEF Command

LEMMA CommandsHold ==
    ASSUME NEW base, NEW at, NEW c \in Holding(base, at.s, at.t), NEW cmds,
           Len(cmds) \in Nat, \A k \in 1 .. Len(cmds) : Command(cmds[k])
    PROVE  Each(c, cmds, LAMBDA d, cmd : alterTableCmd(d, at, cmd)) \in Holding(base, at.s, at.t)
<1> DEFINE N == Len(cmds)
           S == Holding(base, at.s, at.t)
           Step(d, x) == IF d.err THEN d ELSE alterTableCmd(d, at, x)
           F == [i \in 1 .. N |-> [d \in S |-> Step(d, cmds[i])]]
           h == CHOOSE f : f = [i \in 0 .. N |-> IF i = 0 THEN c ELSE Step(f[i - 1], cmds[i])]
<1>1. F \in [1 .. N -> [S -> S]] /\ N \in Nat
    BY AlterTableCmdFits
<1>2. Each(c, cmds, LAMBDA d, cmd : alterTableCmd(d, at, cmd)) = h[N]
    BY DEF Each, Loop
<1> HIDE DEF F, N, h
<1>3. PICK g : Records(g, S, c, N, F)
    BY <1>1, LoopIs
<1>4. g = [i \in 0 .. N |-> IF i = 0 THEN c ELSE Step(g[i - 1], cmds[i])]
  <2> HIDE DEF Step
  <2>1. \A i \in 1 .. N : i - 1 \in 0 .. N /\ g[i - 1] \in S
      BY <1>1, <1>3 DEF Records
  <2>2. \A i \in 1 .. N : F[i][g[i - 1]] = Step(g[i - 1], cmds[i])
      BY <2>1 DEF F
  <2>3. \A i \in 0 .. N : g[i] = IF i = 0 THEN c ELSE Step(g[i - 1], cmds[i])
      BY <1>1, <1>3, <2>2 DEF Records
  <2>4. g = [i \in 0 .. N |-> g[i]]
      BY <1>3 DEF Records
  <2> QED BY <2>3, <2>4
<1> HIDE DEF Step
<1>5. h = [i \in 0 .. N |-> IF i = 0 THEN c ELSE Step(h[i - 1], cmds[i])]
    BY <1>4 DEF h
<1>6. Obeys(h, S, c, N, F)
    BY <1>1, <1>5 DEF F, Obeys
<1>7. h[N] \in S
    BY <1>1, <1>6, LoopStays
<1> QED BY <1>2, <1>7

LEMMA AlterTableFits ==
    ASSUME NEW c \in Fits, NEW rel, NEW cmds, NEW missingOk \in BOOLEAN,
           Len(cmds) \in Nat, \A k \in 1 .. Len(cmds) : Command(cmds[k])
    PROVE  alterTable(c, rel, cmds, missingOk) \in Within(c)
<1> DEFINE at == getTable(c, rel)
           e == Each(c, cmds, LAMBDA d, cmd : alterTableCmd(d, at, cmd))
<1>1. CASE alterTable(c, rel, cmds, missingOk) = c \/ alterTable(c, rel, cmds, missingOk) = checkMissing(c, missingOk)
    BY <1>1, WithinSelf
<1>2. CASE at.t # 0 /\ alterTable(c, rel, cmds, missingOk) = e
  <2>1. at.s \in DOMAIN c.schemas /\ at.t \in DOMAIN c.schemas[at.s].tables
      BY <1>2, TableAt DEF Fits
  <2> HIDE DEF at
  <2>2. c \in Holding(c, at.s, at.t)
      BY <2>1, WithinSelf DEF Holding
  <2>3. e \in Holding(c, at.s, at.t)
      BY <2>2, CommandsHold
  <2> QED BY <1>2, <2>3 DEF Holding
<1> QED BY <1>1, <1>2 DEF alterTable

--------------------------------------------------------------------------------
(* CREATE TABLE.                                                           *)

(* Where the columns of a table under construction come from. *)
Extends(r, c, ids, new) ==
    /\ r.ids \in Seq(Nat) /\ Len(r.c.cols) = Len(c.cols) + Len(new)
    /\ Len(c.cols) \in Nat /\ Len(new) \in Nat
    /\ \A id \in 1 .. Len(c.cols) : id \in 1 .. Len(r.c.cols) /\ r.c.cols[id] = c.cols[id]
    /\ \A k \in DOMAIN r.ids :
          \/ (/\ k \in DOMAIN ids /\ r.ids[k] = ids[k] /\ r.ids[k] \in 1 .. Len(c.cols)
              /\ r.c.cols[r.ids[k]] = c.cols[ids[k]])
          \/ (/\ k \notin DOMAIN ids /\ k - Len(ids) \in DOMAIN new
              /\ r.ids[k] \in 1 .. Len(r.c.cols) /\ r.ids[k] \notin 1 .. Len(c.cols)
              /\ r.c.cols[r.ids[k]] = new[k - Len(ids)])

LEMMA AllocatedExtends ==
    ASSUME NEW c \in Fits, NEW ids \in Seq(Nat), NEW new \in Seq(Column), NEW seen, NEW r,
           Allocated(r, c, ids, seen, new), \A k \in DOMAIN ids : ids[k] \in 1 .. Len(c.cols)
    PROVE  Extends(r, c, ids, new)
<1> DEFINE n == Len(c.cols)
           news == [k \in DOMAIN new |-> n + k]
           cs == r.c.cols
           is == r.ids
<1>1. c.cols \in Seq(Column) /\ n \in Nat /\ DOMAIN c.cols = 1 .. n
    BY DEF Fits, Catalogs
<1>2. Len(new) \in Nat /\ DOMAIN new = 1 .. Len(new) /\ DOMAIN news = DOMAIN new
    OBVIOUS
<1>3. Joined(cs, c.cols, new, Column) /\ Joined(is, ids, news, Nat)
    BY DEF Allocated
<1> HIDE DEF n, cs, is
<1>4. /\ Len(cs) = n + Len(new)
      /\ \A id \in 1 .. n : cs[id] = c.cols[id]
      /\ \A k \in DOMAIN new : cs[n + k] = new[k]
    BY <1>1, <1>3 DEF Joined, n
<1>5. ASSUME NEW k \in DOMAIN is
      PROVE  \/ (k \in DOMAIN ids /\ is[k] = ids[k])
             \/ (k \notin DOMAIN ids /\ k - Len(ids) \in DOMAIN new /\ is[k] = n + (k - Len(ids)))
  <2> DEFINE l == k - Len(ids)
  <2>1. \/ (k \in DOMAIN ids /\ is[k] = ids[k])
        \/ (k \notin DOMAIN ids /\ l \in DOMAIN news /\ is[k] = news[l])
    <3> HIDE DEF news
    <3> QED BY <1>3 DEF Joined
  <2> HIDE DEF l
  <2>2. l \in DOMAIN new => news[l] = n + l
      OBVIOUS
  <2> HIDE DEF news
  <2>3. \/ (k \in DOMAIN ids /\ is[k] = ids[k])
        \/ (k \notin DOMAIN ids /\ l \in DOMAIN new /\ is[k] = n + l)
      BY <1>2, <2>1, <2>2
  <2> QED BY <2>3 DEF l
<1>6. ASSUME NEW k \in DOMAIN is
      PROVE  \/ (/\ k \in DOMAIN ids /\ is[k] = ids[k] /\ is[k] \in 1 .. n
                 /\ cs[is[k]] = c.cols[ids[k]])
             \/ (/\ k \notin DOMAIN ids /\ k - Len(ids) \in DOMAIN new
                 /\ is[k] \in 1 .. Len(cs) /\ is[k] \notin 1 .. n
                 /\ cs[is[k]] = new[k - Len(ids)])
  <2> DEFINE l == k - Len(ids)
  <2>1. CASE k \in DOMAIN ids /\ is[k] = ids[k]
      BY <1>4, <2>1 DEF n
  <2>2. CASE k \notin DOMAIN ids /\ l \in DOMAIN new /\ is[k] = n + l
    <3> HIDE DEF l
    <3>1. n + l \in 1 .. Len(cs) /\ n + l \notin 1 .. n
        BY <1>1, <1>2, <1>4, <2>2
    <3> QED BY <1>4, <2>2, <3>1 DEF l
  <2> QED BY <1>5, <2>1, <2>2
<1>7. \A id \in 1 .. n : id \in 1 .. Len(cs) /\ cs[id] = c.cols[id]
    BY <1>1, <1>2, <1>4
<1>8. is \in Seq(Nat)
    BY <1>3 DEF Joined
<1> QED BY <1>1, <1>2, <1>4, <1>6, <1>7, <1>8 DEF Extends, n, cs, is

(* The columns of c are as they were, and what is seen of the inherited    *)
(* ones is NOT NULL if they are. *)
Merged(c, b) ==
    /\ \A id \in 1 .. Len(c.cols) : b.c.cols[id] = c.cols[id]
    /\ \A k \in DOMAIN b.ids :
          b.ids[k] \in 1 .. Len(c.cols) =>
              LET col == c.cols[b.ids[k]]
              IN  col.name \in DOMAIN b.seen /\ (col.notNull => b.seen[col.name].notNull)

(* The tables under construction that start from c. *)
Seens == UNION {[X -> [type : TypeName, notNull : BOOLEAN]] : X \in SUBSET ColNames}
Under(c) ==
    {b \in [c : Fits, ids : Seq(Nat), seen : Seens] :
        /\ SameTables(c, b.c) /\ Len(b.c.cols) >= Len(c.cols)
        /\ \A k \in DOMAIN b.ids : b.ids[k] \in 1 .. Len(b.c.cols)
        /\ Engine = "mysql" => \A k \in DOMAIN b.ids : b.ids[k] \notin 1 .. Len(c.cols)
        /\ Merged(c, b)}

LEMMA BuildingUnder ==
    ASSUME NEW c \in Fits
    PROVE  Building(c, <<>>) \in Under(c) /\ Building(c, <<>>).ids = <<>>
<1> DEFINE none == <<>>
<1>1. none \in Seens
  <2>1. none \in [{} -> [type : TypeName, notNull : BOOLEAN]]
      OBVIOUS
  <2>2. {} \in SUBSET ColNames
      OBVIOUS
  <2> QED BY <2>1, <2>2 DEF Seens
<1>2. none \in Seq(Nat) /\ \A k \in DOMAIN none : FALSE
    OBVIOUS
<1>3. Building(c, <<>>) = [c |-> c, ids |-> none, seen |-> none]
    BY DEF Building
<1>4. SameTables(c, c) /\ Len(c.cols) >= Len(c.cols)
    BY DEF SameTables, Fits, Catalogs
<1> HIDE DEF none
<1>5. [c |-> c, ids |-> none, seen |-> none] \in Under(c)
    BY <1>1, <1>2, <1>4 DEF Under, Merged
<1> QED BY <1>3, <1>5 DEF none

LEMMA UnderSet ==
    ASSUME NEW c \in Fits, NEW b \in Under(c), NEW d \in Fits, KeepsColumns(b.c, d)
    PROVE  [b EXCEPT !.c = d] \in Under(c)
<1>1. /\ b \in [c : Fits, ids : Seq(Nat), seen : Seens]
      /\ SameTables(c, b.c) /\ Len(b.c.cols) >= Len(c.cols)
      /\ \A k \in DOMAIN b.ids : b.ids[k] \in 1 .. Len(b.c.cols)
      /\ Engine = "mysql" => \A k \in DOMAIN b.ids : b.ids[k] \notin 1 .. Len(c.cols)
      /\ Merged(c, b)
    BY DEF Under
<1> DEFINE e == [b EXCEPT !.c = d]
<1>2. /\ e \in [c : Fits, ids : Seq(Nat), seen : Seens]
      /\ e.c = d /\ e.ids = b.ids /\ e.seen = b.seen
    BY <1>1
<1> HIDE DEF e
<1>3. SameTables(c, d) /\ d.cols = b.c.cols
    BY <1>1 DEF KeepsColumns, KeepsTables, SameTables
<1>4. Merged(c, e)
    BY <1>1, <1>2, <1>3 DEF Merged
<1>5. e \in Under(c)
    BY <1>1, <1>2, <1>3, <1>4 DEF Under
<1> QED BY <1>5 DEF e

LEMMA MergeSeenUnder ==
    ASSUME NEW c \in Fits, NEW b \in Under(c), NEW name \in DOMAIN b.seen, NEW type,
           NEW notNull \in BOOLEAN
    PROVE  /\ MergeSeen(b, name, type, notNull) \in Under(c)
           /\ MergeSeen(b, name, type, notNull).ids = b.ids
           /\ MergeSeen(b, name, type, notNull).c.cols = b.c.cols
<1>1. b \in [c : Fits, ids : Seq(Nat), seen : Seens] /\ b.c \in Catalogs
    BY DEF Under, Fits
<1>2. CASE b.seen[name].type # type
  <2>1. Fail(b.c) \in Fits /\ KeepsColumns(b.c, Fail(b.c))
      BY <1>1, FailFits, FailKeeps
  <2>2. [b EXCEPT !.c = Fail(b.c)] \in Under(c)
      BY <2>1, UnderSet
  <2>3. MergeSeen(b, name, type, notNull) = [b EXCEPT !.c = Fail(b.c)]
      BY <1>2 DEF MergeSeen
  <2> QED BY <1>1, <2>1, <2>2, <2>3 DEF KeepsColumns
<1>3. CASE b.seen[name].type = type
  <2>1. PICK X \in SUBSET ColNames : b.seen \in [X -> [type : TypeName, notNull : BOOLEAN]]
      BY <1>1 DEF Seens
  <2> DEFINE v == b.seen[name].notNull \/ notNull
             s == [b.seen EXCEPT ![name] = [b.seen[name] EXCEPT !.notNull = v]]
             e == [b EXCEPT !.seen = s]
  <2>2. b.seen[name] \in [type : TypeName, notNull : BOOLEAN]
      BY <2>1
  <2>3. [b.seen[name] EXCEPT !.notNull = v] \in [type : TypeName, notNull : BOOLEAN]
      BY <2>2
  <2>4. s \in [X -> [type : TypeName, notNull : BOOLEAN]]
      BY <2>1, <2>3
  <2>5. MergeSeen(b, name, type, notNull) = e
      BY <1>3 DEF MergeSeen
  <2>a. /\ DOMAIN s = DOMAIN b.seen
        /\ \A n \in DOMAIN b.seen : b.seen[n].notNull => s[n].notNull
      BY <2>1, <2>2
  <2> HIDE DEF s
  <2>6. s \in Seens
      BY <2>4 DEF Seens
  <2>7. /\ e \in [c : Fits, ids : Seq(Nat), seen : Seens] /\ e.c = b.c /\ e.ids = b.ids
        /\ e.seen = s
      BY <1>1, <2>6
  <2> HIDE DEF e
  <2>8. Merged(c, e)
      BY <2>7, <2>a DEF Under, Merged
  <2>9. e \in Under(c)
      BY <2>7, <2>8 DEF Under
  <2> QED BY <2>5, <2>7, <2>9
<1> QED BY <1>2, <1>3

LEMMA InheritColumnUnder ==
    ASSUME NEW c \in Fits, NEW b \in Under(c), NEW id \in 1 .. Len(c.cols), Engine # "mysql"
    PROVE  inheritColumn(b, id) \in Under(c)
<1> DEFINE col == b.c.cols[id]
           rec == [type |-> col.type, notNull |-> col.notNull]
           ids == Append(b.ids, id)
           seen == [n \in DOMAIN b.seen \cup {col.name} |-> IF n = col.name THEN rec ELSE b.seen[n]]
           e == [b EXCEPT !.ids = ids, !.seen = seen]
<1>1. /\ b \in [c : Fits, ids : Seq(Nat), seen : Seens]
      /\ SameTables(c, b.c) /\ Len(b.c.cols) >= Len(c.cols)
      /\ \A k \in DOMAIN b.ids : b.ids[k] \in 1 .. Len(b.c.cols)
      /\ Merged(c, b)
    BY DEF Under
<1>2. b.c.cols \in Seq(Column) /\ c.cols \in Seq(Column)
    BY <1>1 DEF Fits, Catalogs
<1>3. id \in 1 .. Len(b.c.cols) /\ id \in Nat
    BY <1>1, <1>2
<1>4. col \in Column
    BY <1>2, <1>3
<1>5. CASE inheritColumn(b, id) = b
    BY <1>5
<1>6. CASE /\ col.name \in DOMAIN b.seen
           /\ inheritColumn(b, id) = MergeSeen(b, col.name, col.type, col.notNull)
    BY <1>4, <1>6, MergeSeenUnder DEF Column
<1>7. CASE /\ col.name \notin DOMAIN b.seen
           /\ inheritColumn(b, id) = e
  <2>a. /\ DOMAIN seen = DOMAIN b.seen \cup {col.name}
        /\ \A n \in DOMAIN b.seen : seen[n] = b.seen[n]
        /\ seen[col.name].notNull = col.notNull
      BY <1>7
  <2>1. seen \in Seens
    <3>1. PICK X \in SUBSET ColNames : b.seen \in [X -> [type : TypeName, notNull : BOOLEAN]]
        BY <1>1 DEF Seens
    <3>2. rec \in [type : TypeName, notNull : BOOLEAN] /\ col.name \in ColNames
        BY <1>4 DEF Column
    <3> DEFINE a == col.name
               Y == X \cup {a}
    <3> HIDE DEF rec, col
    <3>3. seen = [x \in Y |-> IF x = a THEN rec ELSE b.seen[x]]
        BY <3>1
    <3> HIDE DEF seen
    <3>4. seen \in [Y -> [type : TypeName, notNull : BOOLEAN]]
        BY <3>1, <3>2, <3>3
    <3>5. Y \in SUBSET ColNames
        BY <3>2
    <3> QED BY <3>4, <3>5 DEF Seens
  <2> HIDE DEF seen
  <2>2. ids \in Seq(Nat) /\ \A k \in DOMAIN ids : (k \in DOMAIN b.ids /\ ids[k] = b.ids[k]) \/ ids[k] = id
      BY <1>1, <1>3, PlusOne
  <2> HIDE DEF ids
  <2>3. /\ e \in [c : Fits, ids : Seq(Nat), seen : Seens] /\ e.c = b.c /\ e.ids = ids
        /\ e.seen = seen
      BY <1>1, <2>1, <2>2
  <2> HIDE DEF e
  <2>4. \A k \in DOMAIN ids : ids[k] \in 1 .. Len(b.c.cols)
      BY <1>1, <1>3, <2>2
  <2>b. Merged(c, e)
    <3>1. col = c.cols[id]
        BY <1>1 DEF Merged
    <3> HIDE DEF col
    <3>2. ASSUME NEW k \in DOMAIN ids, ids[k] \in 1 .. Len(c.cols)
          PROVE  /\ c.cols[ids[k]].name \in DOMAIN seen
                 /\ c.cols[ids[k]].notNull => seen[c.cols[ids[k]].name].notNull
      <4>1. CASE k \in DOMAIN b.ids /\ ids[k] = b.ids[k]
          BY <1>1, <2>a, <3>2, <4>1 DEF Merged
      <4>2. CASE ids[k] = id
          BY <2>a, <3>1, <4>2
      <4> QED BY <2>2, <4>1, <4>2
    <3> QED BY <1>1, <2>3, <3>2 DEF Merged
  <2>5. e \in Under(c)
      BY <1>1, <2>3, <2>4, <2>b DEF Under
  <2> QED BY <1>7, <2>5
<1> QED BY <1>5, <1>6, <1>7 DEF inheritColumn

(* The columns of one parent. *)
InheritTable(b, ids) == Loop(b, ids, inheritColumn)

LEMMA InheritTableUnder ==
    ASSUME NEW c \in Fits, NEW b \in Under(c), Engine # "mysql", NEW ids, Len(ids) \in Nat,
           \A k \in 1 .. Len(ids) : ids[k] \in 1 .. Len(c.cols)
    PROVE  InheritTable(b, ids) \in Under(c)
<1> DEFINE N == Len(ids)
           S == Under(c)
           Step(d, x) == inheritColumn(d, x)
           F == [i \in 1 .. N |-> [d \in S |-> Step(d, ids[i])]]
           h == CHOOSE f : f = [i \in 0 .. N |-> IF i = 0 THEN b ELSE Step(f[i - 1], ids[i])]
<1>1. F \in [1 .. N -> [S -> S]] /\ N \in Nat
    BY InheritColumnUnder
<1>2. InheritTable(b, ids) = h[N]
    BY DEF InheritTable, Loop
<1> HIDE DEF F, N, h
<1>3. PICK g : Records(g, S, b, N, F)
    BY <1>1, LoopIs
<1>4. g = [i \in 0 .. N |-> IF i = 0 THEN b ELSE Step(g[i - 1], ids[i])]
  <2> HIDE DEF Step
  <2>1. \A i \in 1 .. N : i - 1 \in 0 .. N /\ g[i - 1] \in S
      BY <1>1, <1>3 DEF Records
  <2>2. \A i \in 1 .. N : F[i][g[i - 1]] = Step(g[i - 1], ids[i])
      BY <2>1 DEF F
  <2>3. \A i \in 0 .. N : g[i] = IF i = 0 THEN b ELSE Step(g[i - 1], ids[i])
      BY <1>1, <1>3, <2>2 DEF Records
  <2>4. g = [i \in 0 .. N |-> g[i]]
      BY <1>3 DEF Records
  <2> QED BY <2>3, <2>4
<1> HIDE DEF Step
<1>5. h = [i \in 0 .. N |-> IF i = 0 THEN b ELSE Step(h[i - 1], ids[i])]
    BY <1>4 DEF h
<1>6. Obeys(h, S, b, N, F)
    BY <1>1, <1>5 DEF F, Obeys
<1>7. h[N] \in S
    BY <1>1, <1>6, LoopStays
<1> QED BY <1>2, <1>7

LEMMA InheritedUnder ==
    ASSUME NEW c \in Fits, NEW parents, Len(parents) \in Nat, Engine = "mysql" => Len(parents) = 0,
           \A k \in 1 .. Len(parents) : /\ parents[k].s \in DOMAIN c.schemas
                                        /\ parents[k].t \in DOMAIN c.schemas[parents[k].s].tables
    PROVE  Loop(Building(c, <<>>), parents, LAMBDA b, p : Loop(b, tableAt(c, p).cols, inheritColumn))
               \in {b \in Under(c) : Engine = "mysql" => b.ids = <<>>}
<1> DEFINE empty == Building(c, <<>>)
           Under0 == {b \in Under(c) : Engine = "mysql" => b.ids = <<>>}
           loop == Loop(empty, parents, LAMBDA b, p : Loop(b, tableAt(c, p).cols, inheritColumn))
<1>a. empty \in Under0
    BY BuildingUnder
<1>b. ASSUME NEW k \in 1 .. Len(parents), NEW d \in Under0
      PROVE  InheritTable(d, tableAt(c, parents[k]).cols) \in Under0
  <2> DEFINE at == parents[k]
  <2>1. c \in Holding(c, at.s, at.t)
      BY WithinSelf DEF Holding
  <2> HIDE DEF at
  <2>2. tableAt(c, at) \in Table /\ Suits(c, at.s, tableAt(c, at))
      BY <2>1, Held
  <2> DEFINE ids == tableAt(c, at).cols
  <2>3. Len(ids) \in Nat /\ \A l \in 1 .. Len(ids) : ids[l] \in 1 .. Len(c.cols)
      BY <2>2 DEF Table, Suits
  <2>4. Engine # "mysql"
      BY <1>b
  <2> HIDE DEF ids
  <2>5. InheritTable(d, ids) \in Under(c)
      BY <2>3, <2>4, InheritTableUnder
  <2> QED BY <2>4, <2>5 DEF ids, at
<1> DEFINE N == Len(parents)
           S == Under0
           Step(d, x) == InheritTable(d, tableAt(c, x).cols)
           F == [i \in 1 .. N |-> [d \in S |-> Step(d, parents[i])]]
           h == CHOOSE f : f = [i \in 0 .. N |-> IF i = 0 THEN empty ELSE Step(f[i - 1], parents[i])]
<1> HIDE DEF empty, Under0
<1>1. F \in [1 .. N -> [S -> S]] /\ N \in Nat
    BY <1>b
<1>2. loop = h[N]
    BY DEF InheritTable, Loop
<1> HIDE DEF F, N, h
<1>3. PICK g : Records(g, S, empty, N, F)
    BY <1>1, <1>a, LoopIs
<1>4. g = [i \in 0 .. N |-> IF i = 0 THEN empty ELSE Step(g[i - 1], parents[i])]
  <2> HIDE DEF Step
  <2>1. \A i \in 1 .. N : i - 1 \in 0 .. N /\ g[i - 1] \in S
      BY <1>1, <1>3 DEF Records
  <2>2. \A i \in 1 .. N : F[i][g[i - 1]] = Step(g[i - 1], parents[i])
      BY <2>1 DEF F
  <2>3. \A i \in 0 .. N : g[i] = IF i = 0 THEN empty ELSE Step(g[i - 1], parents[i])
      BY <1>1, <1>3, <2>2 DEF Records
  <2>4. g = [i \in 0 .. N |-> g[i]]
      BY <1>3 DEF Records
  <2> QED BY <2>3, <2>4
<1> HIDE DEF Step
<1>5. h = [i \in 0 .. N |-> IF i = 0 THEN empty ELSE Step(h[i - 1], parents[i])]
    BY <1>4 DEF h
<1>6. Obeys(h, S, empty, N, F)
    BY <1>1, <1>5 DEF F, Obeys
<1>7. h[N] \in S
    BY <1>1, <1>6, <1>a, LoopStays
<1> QED BY <1>2, <1>7 DEF empty, Under0

(* A loop whose steps carry In[i - 1] into In[i]. *)
LEMMA LoopTracks ==
    ASSUME NEW S, NEW s \in S, NEW N \in Nat, NEW F \in [1 .. N -> [S -> S]], NEW h,
           Obeys(h, S, s, N, F), NEW In, s \in In[0],
           \A i \in 1 .. N : \A d \in S : d \in In[i - 1] => F[i][d] \in In[i]
    PROVE  h[N] \in S /\ h[N] \in In[N]
<1> DEFINE Good == {i \in 0 .. N : h[i] \in S /\ h[i] \in In[i]}
<1>1. 0 \in Good
    BY DEF Obeys
<1>2. ASSUME NEW i \in 0 .. N, i # N, i \in Good PROVE i + 1 \in Good
  <2>1. i + 1 \in 1 .. N /\ i + 1 \in 0 .. N /\ (i + 1) - 1 = i
      BY <1>2
  <2>2. h[i + 1] = F[i + 1][h[i]]
      BY <1>2, <2>1 DEF Obeys
  <2>3. F[i + 1][h[i]] \in S
      BY <1>2, <2>1
  <2>4. F[i + 1][h[i]] \in In[i + 1]
      BY <1>2, <2>1
  <2> QED BY <2>1, <2>2, <2>3, <2>4
<1> HIDE DEF Good
<1>3. \A i \in 0 .. N : i # N /\ i \in Good => i + 1 \in Good
    BY <1>2
<1>4. \A i \in 0 .. N : i \in Good
    BY <1>1, <1>3, ByInduction, Zenon
<1> QED BY <1>4 DEF Good

(* The names of a table under construction are distinct, and not among *)
(* those of the definitions that follow the i-th. *)
Distinct(b, defs, i) ==
    Engine = "mysql" /\ ~b.c.err =>
        /\ UniqueColumns(b.ids, b.c.cols)
        /\ \A k \in DOMAIN b.ids, l \in 1 .. Len(defs) : l > i => b.c.cols[b.ids[k]].name # defs[l].name

(* b has a new column at its end. *)
LEMMA AllocateUnder ==
    ASSUME NEW c \in Fits, NEW b \in Under(c), NEW new \in Seq(Column)
    PROVE  /\ Allocate(b, new) \in Under(c) /\ Extends(Allocate(b, new), b.c, b.ids, new)
           /\ Allocate(b, new).c.err = b.c.err
<1> DEFINE e == Allocate(b, new)
<1>1. /\ b \in [c : Fits, ids : Seq(Nat), seen : Seens]
      /\ SameTables(c, b.c) /\ Len(b.c.cols) >= Len(c.cols)
      /\ \A k \in DOMAIN b.ids : b.ids[k] \in 1 .. Len(b.c.cols)
      /\ Engine = "mysql" => \A k \in DOMAIN b.ids : b.ids[k] \notin 1 .. Len(c.cols)
      /\ Merged(c, b)
    BY DEF Under
<1>2. b = [c |-> b.c, ids |-> b.ids, seen |-> b.seen]
    BY <1>1
<1>3. Allocated(e, b.c, b.ids, b.seen, new)
  <2>1. Allocated(Allocate([c |-> b.c, ids |-> b.ids, seen |-> b.seen], new), b.c, b.ids, b.seen, new)
      BY <1>1, AllocateIs
  <2> QED BY <1>2, <2>1
<1> HIDE DEF e
<1>4. Extends(e, b.c, b.ids, new)
    BY <1>1, <1>3, AllocatedExtends
<1>5. e \in [c : Fits, ids : Seq(Nat), seen : Seens]
  <2>1. e = [c |-> e.c, ids |-> e.ids, seen |-> e.seen]
      BY <1>3 DEF Allocated
  <2>2. e.c \in Fits /\ e.ids \in Seq(Nat) /\ e.seen \in Seens
      BY <1>1, <1>3, <1>4 DEF Allocated, Extends
  <2> QED BY <2>1, <2>2
<1>6. SameTables(c, e.c) /\ Len(e.c.cols) >= Len(c.cols)
  <2>1. Len(c.cols) \in Nat
      BY DEF Fits, Catalogs
  <2> QED BY <1>1, <1>3, <1>4, <2>1 DEF SameTables, Allocated, Extends
<1>7. \A k \in DOMAIN e.ids : e.ids[k] \in 1 .. Len(e.c.cols)
    BY <1>4 DEF Extends
<1>8. ASSUME Engine = "mysql", NEW k \in DOMAIN e.ids PROVE e.ids[k] \notin 1 .. Len(c.cols)
  <2>1. Len(c.cols) \in Nat /\ Len(b.c.cols) \in Nat
      BY <1>1 DEF Fits, Catalogs
  <2>2. CASE k \in DOMAIN b.ids /\ e.ids[k] = b.ids[k]
      BY <1>1, <1>8, <2>2
  <2>3. CASE e.ids[k] \notin 1 .. Len(b.c.cols)
    <3>1. \A id : id \in 1 .. Len(c.cols) => id \in 1 .. Len(b.c.cols)
        BY <1>1, <2>1
    <3> QED BY <2>3, <3>1
  <2> QED BY <1>4, <1>8, <2>2, <2>3 DEF Extends
<1>9. Merged(c, e)
  <2>1. Len(c.cols) \in Nat /\ Len(b.c.cols) \in Nat
      BY <1>1 DEF Fits, Catalogs
  <2>2. \A id : id \in 1 .. Len(c.cols) => id \in 1 .. Len(b.c.cols)
      BY <1>1, <2>1
  <2>3. \A id \in 1 .. Len(c.cols) : e.c.cols[id] = c.cols[id]
      BY <1>1, <1>4, <2>2 DEF Extends, Merged
  <2>4. \A k \in DOMAIN e.ids :
            e.ids[k] \in 1 .. Len(c.cols) => k \in DOMAIN b.ids /\ e.ids[k] = b.ids[k]
      BY <1>4, <2>2 DEF Extends
  <2>5. e.seen = b.seen
      BY <1>3 DEF Allocated
  <2> QED BY <1>1, <2>3, <2>4, <2>5 DEF Merged
<1>10. e \in Under(c)
    BY <1>5, <1>6, <1>7, <1>8, <1>9 DEF Under
<1> QED BY <1>3, <1>4, <1>10 DEF e, Allocated

LEMMA DeclareColumnUnder ==
    ASSUME NEW c \in Fits, NEW b \in Under(c), NEW table \in TableNames, NEW def \in Def
    PROVE  /\ declareColumn(b, table, def) \in Under(c)
           /\ \A defs, i :
                  /\ i \in 1 .. Len(defs) /\ Len(defs) \in Nat
                  /\ \A k, l \in 1 .. Len(defs) : defs[k].name = defs[l].name => k = l
                  /\ Distinct(b, defs, i - 1) /\ def = defs[i]
                  => Distinct(declareColumn(b, table, def), defs, i)
<1> DEFINE d == defineLinked(b.c, table, def)
           e == [b EXCEPT !.c = d]
           new == columnOf(table, def)
           f == declareColumn(b, table, def)
<1>1. b \in [c : Fits, ids : Seq(Nat), seen : Seens]
    BY DEF Under
<1>2. d \in Fits /\ KeepsColumns(b.c, d)
    BY <1>1, DefineLinkedFits
<1>3. new \in Column /\ new.name = def.name
    BY ColumnOfTyped
<1>4. /\ e \in Under(c) /\ e.c = d /\ e.ids = b.ids
  <2>1. e.c = d /\ e.ids = b.ids
      BY <1>1
  <2> HIDE DEF d
  <2> QED BY <1>2, <2>1, UnderSet
<1> DEFINE Tracks(x) ==
               \A defs, i :
                  /\ i \in 1 .. Len(defs) /\ Len(defs) \in Nat
                  /\ \A k, l \in 1 .. Len(defs) : defs[k].name = defs[l].name => k = l
                  /\ Distinct(b, defs, i - 1) /\ def = defs[i]
                  => Distinct(x, defs, i)
<1>5. ASSUME NEW x, x.c.err \/ (x.ids = b.ids /\ x.c.cols = b.c.cols /\ x.c.err = b.c.err)
      PROVE  Tracks(x)
  <2> SUFFICES ASSUME NEW defs, NEW i \in 1 .. Len(defs), Len(defs) \in Nat,
                      Distinct(b, defs, i - 1)
               PROVE  Distinct(x, defs, i)
      OBVIOUS
  <2>1. \A l \in 1 .. Len(defs) : l > i => l > i - 1
      OBVIOUS
  <2> QED BY <1>5, <2>1 DEF Distinct
<1>6. CASE f = b
    BY <1>5, <1>6
<1>7. CASE /\ def.name \in DOMAIN b.seen
           /\ f = MergeSeen(b, def.name, def.type, def.notNull)
  <2>1. def.notNull \in BOOLEAN
      BY DEF Def
  <2>2. f \in Under(c) /\ f.ids = b.ids /\ f.c.cols = b.c.cols
      BY <1>7, <2>1, MergeSeenUnder
  <2>3. f.c.err \/ f.c.err = b.c.err
    <3>1. b.seen[def.name].type # def.type => f.c.err
        BY <1>1, <1>7 DEF MergeSeen, Fail, Fits, Catalogs
    <3>2. b.seen[def.name].type = def.type => f.c = b.c
        BY <1>1, <1>7 DEF MergeSeen
    <3> QED BY <3>1, <3>2
  <2> HIDE DEF f
  <2>4. Tracks(f)
      BY <1>5, <2>2, <2>3
  <2> QED BY <2>2, <2>4 DEF f
<1>8. CASE d.err /\ f = e
  <2>1. e.c.err
      BY <1>4, <1>8
  <2> HIDE DEF f, e
  <2>2. Tracks(e)
      BY <1>5, <2>1
  <2> QED BY <1>4, <1>8, <2>2 DEF f
<1>9. CASE f = Allocate(e, <<new>>) /\ ~b.c.err
  <2>1. <<new>> \in Seq(Column) /\ Len(<<new>>) = 1 /\ DOMAIN <<new>> = {1} /\ <<new>>[1] = new
      BY <1>3
  <2> DEFINE news == <<new>>
  <2> HIDE DEF f, e, news, new
  <2>2. f \in Under(c) /\ Extends(f, e.c, e.ids, news)
      BY <1>4, <1>9, <2>1, AllocateUnder DEF news
  <2>3. d.cols = b.c.cols
      BY <1>2 DEF KeepsColumns
  <2>4. \A k \in DOMAIN f.ids :
            \/ (k \in DOMAIN b.ids /\ f.c.cols[f.ids[k]] = b.c.cols[b.ids[k]])
            \/ (k - Len(b.ids) = 1 /\ f.c.cols[f.ids[k]].name = def.name)
      BY <1>3, <1>4, <2>1, <2>2, <2>3 DEF Extends, news
  <2>5. Len(b.ids) \in Nat /\ \A k \in DOMAIN f.ids : k \in Nat
      BY <1>1, <2>2 DEF Extends
  <2>6. Tracks(f)
    <3> SUFFICES ASSUME NEW defs, NEW i \in 1 .. Len(defs), Len(defs) \in Nat,
                        \A k, l \in 1 .. Len(defs) : defs[k].name = defs[l].name => k = l,
                        Distinct(b, defs, i - 1), def = defs[i], Engine = "mysql"
                 PROVE  /\ UniqueColumns(f.ids, f.c.cols)
                        /\ \A k \in DOMAIN f.ids, l \in 1 .. Len(defs) :
                               l > i => f.c.cols[f.ids[k]].name # defs[l].name
        BY DEF Distinct
    <3>1. /\ UniqueColumns(b.ids, b.c.cols)
          /\ \A k \in DOMAIN b.ids, l \in 1 .. Len(defs) :
                 l > i - 1 => b.c.cols[b.ids[k]].name # defs[l].name
        BY <1>9 DEF Distinct
    <3>2. \A k \in DOMAIN b.ids : b.c.cols[b.ids[k]].name # def.name
        BY <3>1
    <3>3. UniqueColumns(f.ids, f.c.cols)
      <4> SUFFICES ASSUME NEW k \in DOMAIN f.ids, NEW l \in DOMAIN f.ids,
                          f.c.cols[f.ids[k]].name = f.c.cols[f.ids[l]].name
                   PROVE  k = l
          BY DEF UniqueColumns
      <4>1. CASE k \in DOMAIN b.ids /\ f.c.cols[f.ids[k]] = b.c.cols[b.ids[k]]
          BY <2>4, <3>1, <3>2, <4>1 DEF UniqueColumns
      <4>2. CASE k - Len(b.ids) = 1 /\ f.c.cols[f.ids[k]].name = def.name
        <5>1. l - Len(b.ids) = 1
            BY <2>4, <3>2, <4>2
        <5> QED BY <2>5, <4>2, <5>1
      <4> QED BY <2>4, <4>1, <4>2
    <3>4. ASSUME NEW k \in DOMAIN f.ids, NEW l \in 1 .. Len(defs), l > i
          PROVE  f.c.cols[f.ids[k]].name # defs[l].name
      <4>1. l > i - 1 /\ l # i
          BY <3>4
      <4>2. defs[l].name # def.name
          BY <4>1
      <4> QED BY <2>4, <3>1, <4>1, <4>2
    <3> QED BY <3>3, <3>4
  <2> QED BY <2>2, <2>6 DEF f
<1> QED BY <1>4, <1>6, <1>7, <1>8, <1>9 DEF declareColumn

LEMMA DeclaredUnder ==
    ASSUME NEW c \in Fits, NEW b \in Under(c), NEW table \in TableNames, NEW defs,
           Len(defs) \in Nat, \A k \in 1 .. Len(defs) : defs[k] \in Def,
           \A k, l \in 1 .. Len(defs) : defs[k].name = defs[l].name => k = l,
           Distinct(b, defs, 0)
    PROVE  LET built == Loop(b, defs, LAMBDA x, def : declareColumn(x, table, def))
           IN  built \in Under(c) /\ Distinct(built, defs, Len(defs))
<1> DEFINE loop == Loop(b, defs, LAMBDA x, def : declareColumn(x, table, def))
<1> DEFINE N == Len(defs)
           S == Under(c)
           Step(d, x) == declareColumn(d, table, x)
           F == [i \in 1 .. N |-> [d \in S |-> Step(d, defs[i])]]
           h == CHOOSE f : f = [i \in 0 .. N |-> IF i = 0 THEN b ELSE Step(f[i - 1], defs[i])]
<1>1. F \in [1 .. N -> [S -> S]] /\ N \in Nat
    BY DeclareColumnUnder
<1>2. loop = h[N]
    BY DEF Loop
<1> HIDE DEF F, N, h
<1>3. PICK g : Records(g, S, b, N, F)
    BY <1>1, LoopIs
<1>4. g = [i \in 0 .. N |-> IF i = 0 THEN b ELSE Step(g[i - 1], defs[i])]
  <2> HIDE DEF Step
  <2>1. \A i \in 1 .. N : i - 1 \in 0 .. N /\ g[i - 1] \in S
      BY <1>1, <1>3 DEF Records
  <2>2. \A i \in 1 .. N : F[i][g[i - 1]] = Step(g[i - 1], defs[i])
      BY <2>1 DEF F
  <2>3. \A i \in 0 .. N : g[i] = IF i = 0 THEN b ELSE Step(g[i - 1], defs[i])
      BY <1>1, <1>3, <2>2 DEF Records
  <2>4. g = [i \in 0 .. N |-> g[i]]
      BY <1>3 DEF Records
  <2> QED BY <2>3, <2>4
<1> HIDE DEF Step
<1>5. h = [i \in 0 .. N |-> IF i = 0 THEN b ELSE Step(h[i - 1], defs[i])]
    BY <1>4 DEF h
<1>6. Obeys(h, S, b, N, F)
    BY <1>1, <1>5 DEF F, Obeys
<1> DEFINE In == [i \in 0 .. N |-> {d \in Under(c) : Distinct(d, defs, i)}]
<1>7. ASSUME NEW i \in 1 .. N, NEW d \in S, d \in In[i - 1] PROVE F[i][d] \in In[i]
  <2>1. i - 1 \in 0 .. N /\ i \in 0 .. N
      BY <1>1
  <2>2. F[i][d] = declareColumn(d, table, defs[i]) /\ F[i][d] \in S
      BY <1>1 DEF F, Step
  <2>3. Distinct(d, defs, i - 1)
      BY <1>7, <2>1
  <2>4. Distinct(declareColumn(d, table, defs[i]), defs, i)
      BY <2>3, DeclareColumnUnder DEF N
  <2> QED BY <2>1, <2>2, <2>4
<1>8. b \in In[0]
    BY <1>1
<1> HIDE DEF In
<1>9. h[N] \in S /\ h[N] \in In[N]
    BY <1>1, <1>6, <1>7, <1>8, LoopTracks
<1>10. h[N] \in Under(c) /\ Distinct(h[N], defs, N)
    BY <1>1, <1>9 DEF In
<1> QED BY <1>2, <1>10 DEF N

(* The columns of the LIKE table are copied. *)
LEMMA LikedUnder ==
    ASSUME NEW c \in Fits, NEW b \in Under(c), NEW at, c \in Holding(c, at.s, at.t),
           Engine = "mysql" => b.ids = <<>>
    PROVE  LET ids == tableAt(c, at).cols
               liked == Allocate(b, [k \in DOMAIN ids |-> c.cols[ids[k]]])
           IN  /\ liked \in Under(c) /\ liked.c.err = b.c.err
               /\ Engine = "mysql" => UniqueColumns(liked.ids, liked.c.cols)
<1> DEFINE ids == tableAt(c, at).cols
           new == [k \in DOMAIN ids |-> c.cols[ids[k]]]
           liked == Allocate(b, new)
<1>1. /\ c \in Catalogs /\ tableAt(c, at) \in Table /\ Suits(c, at.s, tableAt(c, at))
    BY Held
<1>2. ids \in Seq(Nat) /\ \A k \in DOMAIN ids : ids[k] \in 1 .. Len(c.cols)
    BY <1>1 DEF Table, Suits
<1>3. Engine = "mysql" => UniqueColumns(ids, c.cols)
    BY <1>1 DEF Suits
<1>4. c.cols \in Seq(Column)
    BY <1>1 DEF Catalogs
<1> HIDE DEF ids
<1>5. new \in Seq(Column) /\ DOMAIN new = DOMAIN ids /\ \A k \in DOMAIN ids : new[k] = c.cols[ids[k]]
  <2>1. \A k \in DOMAIN ids : c.cols[ids[k]] \in Column
      BY <1>2, <1>4
  <2>2. DOMAIN ids = 1 .. Len(ids) /\ Len(ids) \in Nat
      BY <1>2
  <2> QED BY <2>1, <2>2
<1> HIDE DEF new
<1>6. liked \in Under(c) /\ Extends(liked, b.c, b.ids, new) /\ liked.c.err = b.c.err
    BY <1>5, AllocateUnder
<1> HIDE DEF liked
<1>7. ASSUME Engine = "mysql" PROVE UniqueColumns(liked.ids, liked.c.cols)
  <2>1. b.ids = <<>> /\ Len(b.ids) = 0 /\ DOMAIN b.ids = {}
      BY <1>7
  <2>2. \A k \in DOMAIN liked.ids : /\ k - Len(b.ids) \in DOMAIN new
                                    /\ liked.c.cols[liked.ids[k]] = new[k - Len(b.ids)]
      BY <1>6, <2>1 DEF Extends
  <2>3. \A k \in DOMAIN liked.ids : k \in Nat
      BY <1>6 DEF Extends
  <2>4. \A k \in DOMAIN liked.ids : k \in DOMAIN ids /\ liked.c.cols[liked.ids[k]] = c.cols[ids[k]]
      BY <1>5, <2>1, <2>2, <2>3
  <2>5. UniqueColumns(ids, c.cols)
      BY <1>3, <1>7
  <2> QED BY <2>4, <2>5 DEF UniqueColumns
<1> QED BY <1>6, <1>7 DEF liked, new, ids

(* A table is added to the tables of c. *)
LEMMA TightAppended ==
    ASSUME NEW c \in Fits, NEW d \in Fits, SameTables(c, d), Tightened(c, d),
           NEW i \in DOMAIN c.schemas, NEW w \in Table,
           [d EXCEPT !.schemas[i].tables = Append(@, w)] \in Fits
    PROVE  [d EXCEPT !.schemas[i].tables = Append(@, w)] \in After(c)
<1> DEFINE old == d.schemas[i].tables
           ts == Append(old, w)
           e == WithTables(d, i, ts)
<1>1. [d EXCEPT !.schemas[i].tables = Append(@, w)] = e
    BY DEF WithTables
<1>2. i \in DOMAIN d.schemas /\ old = c.schemas[i].tables
    BY DEF SameTables
<1>3. d \in Catalogs /\ old \in Seq(Table)
    BY <1>2, OldTables DEF Fits
<1>4. Longer(ts, old, w, Table)
  <2> HIDE DEF old
  <2> QED BY <1>3, AppendIs
<1> HIDE DEF ts
<1>5. ts \in Seq(Table) /\ \A j \in DOMAIN old : j \in DOMAIN ts /\ ts[j] = old[j]
    BY <1>4 DEF Longer
<1>6. /\ e.cols = d.cols /\ e.schemas[i].tables = ts
      /\ \A m \in DOMAIN d.schemas : m # i => e.schemas[m] = d.schemas[m]
    BY <1>2, <1>3, <1>5, WithTablesIs
<1> HIDE DEF e
<1>7. \A m \in DOMAIN c.schemas : \A j \in DOMAIN c.schemas[m].tables :
          j \in DOMAIN e.schemas[m].tables /\ e.schemas[m].tables[j] = c.schemas[m].tables[j]
  <2> SUFFICES ASSUME NEW m \in DOMAIN c.schemas, NEW j \in DOMAIN c.schemas[m].tables
               PROVE  j \in DOMAIN e.schemas[m].tables /\ e.schemas[m].tables[j] = c.schemas[m].tables[j]
      OBVIOUS
  <2>1. CASE m = i
      BY <1>2, <1>5, <1>6, <2>1
  <2>2. CASE m # i
      BY <1>6, <2>2 DEF SameTables
  <2> QED BY <2>1, <2>2
<1>8. Tight(c, e)
    BY <1>6, <1>7 DEF Tight, Tightened
<1> QED BY <1>1, <1>8 DEF After

LEMMA MarkNotNullFits ==
    ASSUME NEW c \in Fits, NEW b \in Under(c)
    PROVE  /\ markNotNull(b) \in Fits /\ markNotNull(b).schemas = b.c.schemas
           /\ markNotNull(b).err = b.c.err /\ Len(markNotNull(b).cols) = Len(b.c.cols)
           /\ \A id \in 1 .. Len(b.c.cols) : markNotNull(b).cols[id].name = b.c.cols[id].name
           /\ Tightened(c, markNotNull(b))
<1> DEFINE e == b.c
           mark(id) == [e.cols[id] EXCEPT !.notNull = b.seen[e.cols[id].name].notNull]
           cs == [id \in DOMAIN e.cols |->
                    IF id \in Range(b.ids) /\ e.cols[id].name \in DOMAIN b.seen
                    THEN mark(id) ELSE e.cols[id]]
<1>1. e \in Fits /\ b.seen \in Seens
    BY DEF Under
<1>2. e.cols \in Seq(Column) /\ e \in Catalogs
    BY <1>1 DEF Fits, Catalogs
<1>3. markNotNull(b) = [e EXCEPT !.cols = cs]
    BY DEF markNotNull
<1> HIDE DEF e
<1>4. ASSUME NEW id \in DOMAIN e.cols, e.cols[id].name \in DOMAIN b.seen
      PROVE  mark(id) \in Column /\ mark(id).name = e.cols[id].name
  <2>1. PICK X \in SUBSET ColNames : b.seen \in [X -> [type : TypeName, notNull : BOOLEAN]]
      BY <1>1 DEF Seens
  <2>2. b.seen[e.cols[id].name].notNull \in BOOLEAN
      BY <1>4, <2>1
  <2>3. e.cols[id] \in Column
      BY <1>2
  <2> QED BY <2>2, <2>3 DEF Column
<1>a. ASSUME NEW id \in 1 .. Len(c.cols), id \in DOMAIN e.cols
      PROVE  cs[id] \in {c.cols[id], [c.cols[id] EXCEPT !.notNull = TRUE]}
  <2> DEFINE col == c.cols[id]
  <2>1. e.cols[id] = col /\ cs[id] \in {e.cols[id], mark(id)}
      BY <1>a DEF Under, Merged, e
  <2>2. CASE cs[id] = col
      BY <2>2
  <2>3. CASE id \in Range(b.ids) /\ col.name \in DOMAIN b.seen /\ cs[id] = mark(id)
    <3> DEFINE v == b.seen[col.name].notNull
    <3>1. PICK X \in SUBSET ColNames : b.seen \in [X -> [type : TypeName, notNull : BOOLEAN]]
        BY <1>1 DEF Seens
    <3>2. v \in BOOLEAN /\ col \in Column
        BY <1>2, <1>a, <2>1, <2>3, <3>1
    <3>3. PICK k \in DOMAIN b.ids : b.ids[k] = id
        BY <2>3 DEF Range
    <3>4. col.notNull => v
        BY <3>3 DEF Under, Merged
    <3>5. mark(id) = [col EXCEPT !.notNull = v]
        BY <2>1
    <3> HIDE DEF mark, cs, v, col
    <3>6. CASE v
        BY <2>3, <3>2, <3>5, <3>6 DEF col
    <3>7. CASE ~v
      <4>1. [col EXCEPT !.notNull = v] = col
          BY <3>2, <3>4, <3>7 DEF Column
      <4> QED BY <2>3, <3>5, <4>1 DEF col
    <3> QED BY <3>2, <3>6, <3>7
  <2>4. cs[id] = col \/ (id \in Range(b.ids) /\ col.name \in DOMAIN b.seen /\ cs[id] = mark(id))
      BY <1>a, <2>1
  <2> HIDE DEF cs, mark, col
  <2> QED BY <2>2, <2>3, <2>4 DEF col
<1> HIDE DEF mark
<1>5. \A id \in DOMAIN e.cols : cs[id] \in Column /\ cs[id].name = e.cols[id].name
    BY <1>2, <1>4
<1>6. DOMAIN cs = DOMAIN e.cols /\ cs = [id \in DOMAIN cs |-> cs[id]]
    OBVIOUS
<1> HIDE DEF cs
<1>7. cs \in Seq(Column) /\ Len(cs) = Len(e.cols) /\ Len(e.cols) \in Nat
  <2>1. DOMAIN e.cols = 1 .. Len(e.cols) /\ Len(e.cols) \in Nat
      BY <1>2
  <2>2. cs \in [1 .. Len(e.cols) -> Column]
      BY <1>5, <1>6, <2>1
  <2> QED BY <2>1, <2>2
<1>8. \A id \in 1 .. Len(e.cols) : cs[id].name = e.cols[id].name
    BY <1>2, <1>5
<1>9. /\ [e EXCEPT !.cols = cs] \in Fits /\ [e EXCEPT !.cols = cs].schemas = e.schemas
      /\ [e EXCEPT !.cols = cs].cols = cs /\ [e EXCEPT !.cols = cs].err = e.err
    BY <1>1, <1>7, <1>8, ColumnsSet
<1>10. Tightened(c, [e EXCEPT !.cols = cs])
  <2> SUFFICES ASSUME NEW id \in 1 .. Len(c.cols)
               PROVE  /\ id \in 1 .. Len(cs)
                      /\ cs[id] \in {c.cols[id], [c.cols[id] EXCEPT !.notNull = TRUE]}
      BY <1>9 DEF Tightened
  <2>1. Len(e.cols) >= Len(c.cols) /\ Len(c.cols) \in Nat
      BY DEF Under, Fits, Catalogs, e
  <2>2. id \in 1 .. Len(e.cols)
      BY <1>7, <2>1
  <2>3. id \in DOMAIN e.cols
      BY <1>2, <2>2
  <2> QED BY <1>7, <1>a, <2>2, <2>3
<1> QED BY <1>3, <1>7, <1>8, <1>9, <1>10 DEF e

(* The statements of CREATE TABLE. *)
Statement(stmt) ==
    /\ stmt.rel \in [schema : SchemaRefs, name : TableNames] /\ stmt.ifNotExists \in BOOLEAN
    /\ stmt.inherits \in Seq(TableNames)
    /\ Engine = "mysql" => stmt.inherits = <<>>
    /\ stmt.refer \in Seq(Rels)
    /\ stmt.cols \in Seq(Def)
    /\ \A k, l \in 1 .. Len(stmt.cols) : stmt.cols[k].name = stmt.cols[l].name => k = l
    /\ Engine = "mysql" => stmt.refer = <<>> \/ stmt.cols = <<>>

(* Every item of either list has the property that all items of both have. *)
LEMMA RangeJoined ==
    ASSUME NEW A, NEW a, NEW B, NEW b, NEW S, NEW T,
           a \in [1 .. A -> S], b \in [1 .. B -> T], A \in Nat, B \in Nat
    PROVE  /\ \A k \in 1 .. A : a[k] \in Range(a \o b)
           /\ \A k \in 1 .. B : b[k] \in Range(a \o b)
<1> DEFINE U == S \cup T
           t == a \o b
<1>1. a \in Seq(U) /\ b \in Seq(U) /\ DOMAIN a = 1 .. A /\ DOMAIN b = 1 .. B /\ Len(a) = A
    OBVIOUS
<1> HIDE DEF U
<1>2. Joined(t, a, b, U)
    BY <1>1, JoinIs
<1> HIDE DEF t
<1>3. /\ \A k \in 1 .. A : k \in DOMAIN t /\ t[k] = a[k]
      /\ \A k \in 1 .. B : A + k \in DOMAIN t /\ t[A + k] = b[k]
    BY <1>1, <1>2 DEF Joined
<1>4. \A k \in DOMAIN t : t[k] \in Range(t)
    BY DEF Range
<1>5. \A k \in 1 .. B : b[k] \in Range(t)
    BY <1>3, <1>4
<1> QED BY <1>3, <1>4, <1>5 DEF t

(* The table built from b is added. *)
LEMMA BuiltAdded ==
    ASSUME NEW c \in Fits, NEW i \in DOMAIN c.schemas, NEW b \in Under(c),
           Engine = "mysql" => UniqueColumns(b.ids, b.c.cols),
           NEW rel \in [schema : SchemaRefs, name : TableNames],
           Ns(rel.schema) = c.schemas[i].name,
           \A j \in DOMAIN c.schemas[i].tables : c.schemas[i].tables[j].rel.name # rel.name
    PROVE  [markNotNull(b) EXCEPT !.schemas[i].tables = Append(@, [rel |-> rel, cols |-> b.ids])] \in After(c)
<1> DEFINE d == markNotNull(b)
           w == [rel |-> rel, cols |-> b.ids]
<1>1. /\ b.ids \in Seq(Nat) /\ SameTables(c, b.c)
      /\ \A k \in DOMAIN b.ids : b.ids[k] \in 1 .. Len(b.c.cols)
      /\ Engine = "mysql" => \A k \in DOMAIN b.ids : b.ids[k] \notin 1 .. Len(c.cols)
    BY DEF Under
<1>2. /\ d \in Fits /\ d.schemas = b.c.schemas /\ Len(d.cols) = Len(b.c.cols)
      /\ \A id \in 1 .. Len(b.c.cols) : d.cols[id].name = b.c.cols[id].name
      /\ Tightened(c, d)
    BY MarkNotNullFits
<1> HIDE DEF d
<1>3. SameTables(c, d) /\ i \in DOMAIN d.schemas
    BY <1>1, <1>2 DEF SameTables
<1>4. w \in Table /\ w.cols = b.ids /\ w.rel = rel
    BY <1>1 DEF Table
<1> HIDE DEF w
<1>5. Engine = "mysql" => UniqueColumns(w.cols, d.cols)
  <2>1. \A k \in DOMAIN b.ids : d.cols[b.ids[k]].name = b.c.cols[b.ids[k]].name
      BY <1>1, <1>2
  <2> QED BY <1>4, <2>1 DEF UniqueColumns
<1>6. Suits(d, i, w)
    BY <1>1, <1>2, <1>3, <1>4, <1>5 DEF Suits, SameTables
<1>7. \A l \in DOMAIN d.schemas[i].tables : d.schemas[i].tables[l].rel.name # w.rel.name
    BY <1>3, <1>4 DEF SameTables
<1>8. Engine = "mysql" => \A k \in DOMAIN w.cols : Unused(d, w.cols[k])
    BY <1>1, <1>3, <1>4, FreshUnused
<1>9. [d EXCEPT !.schemas[i].tables = Append(@, w)] \in Fits
    BY <1>2, <1>3, <1>6, <1>7, <1>8, TableAppended
<1>10. [d EXCEPT !.schemas[i].tables = Append(@, w)] \in After(c)
    BY <1>2, <1>3, <1>4, <1>9, TightAppended
<1> QED BY <1>10 DEF d, w

LEMMA CollectedUnder ==
    ASSUME NEW c \in Fits, NEW stmt, Statement(stmt), NEW parents, NEW refers,
           Len(parents) \in Nat, Engine = "mysql" => Len(parents) = 0,
           \A k \in 1 .. Len(parents) : /\ parents[k].s \in DOMAIN c.schemas
                                        /\ parents[k].t \in DOMAIN c.schemas[parents[k].s].tables,
           refers = <<>> \/ c \in Holding(c, refers[1].s, refers[1].t),
           refers = <<>> <=> stmt.refer = <<>>
    PROVE  LET built == collectColumns(c, stmt, parents, refers)
           IN  /\ built \in Under(c)
               /\ Engine = "mysql" /\ ~built.c.err => UniqueColumns(built.ids, built.c.cols)
<1> DEFINE inherited == Loop(Building(c, <<>>), parents,
                             LAMBDA b, p : Loop(b, tableAt(c, p).cols, inheritColumn))
           like(b, ids) == Allocate(b, [k \in DOMAIN ids |-> c.cols[ids[k]]])
           liked == IF refers = <<>> THEN inherited ELSE like(inherited, tableAt(c, refers[1]).cols)
           built == Loop(liked, stmt.cols, LAMBDA b, def : declareColumn(b, stmt.rel.name, def))
<1>1. inherited \in Under(c) /\ (Engine = "mysql" => inherited.ids = <<>>)
  <2>1. inherited \in {b \in Under(c) : Engine = "mysql" => b.ids = <<>>}
      BY InheritedUnder
  <2> HIDE DEF inherited
  <2> QED BY <2>1
<1> HIDE DEF inherited
<1>2. liked \in Under(c) /\ Distinct(liked, stmt.cols, 0)
  <2>1. CASE refers = <<>>
    <3>1. liked = inherited
        BY <2>1
    <3>2. Engine = "mysql" => DOMAIN liked.ids = {}
        BY <1>1, <3>1
    <3> HIDE DEF liked
    <3> QED BY <1>1, <3>1, <3>2 DEF Distinct, UniqueColumns
  <2>2. CASE refers # <<>>
    <3> DEFINE lt == refers[1]
    <3>1. c \in Holding(c, lt.s, lt.t)
        BY <2>2
    <3>2. liked = like(inherited, tableAt(c, lt).cols)
        BY <2>2
    <3> HIDE DEF lt, liked
    <3>3. /\ liked \in Under(c)
          /\ Engine = "mysql" => UniqueColumns(liked.ids, liked.c.cols)
        BY <1>1, <3>1, <3>2, LikedUnder
    <3>4. Engine = "mysql" => Len(stmt.cols) = 0
        BY <2>2 DEF Statement
    <3> QED BY <3>3, <3>4 DEF Distinct
  <2> QED BY <2>1, <2>2
<1> HIDE DEF liked
<1>3. built \in Under(c) /\ Distinct(built, stmt.cols, Len(stmt.cols))
  <2>1. /\ stmt.rel.name \in TableNames /\ Len(stmt.cols) \in Nat
        /\ \A k \in 1 .. Len(stmt.cols) : stmt.cols[k] \in Def
        /\ \A k, l \in 1 .. Len(stmt.cols) : stmt.cols[k].name = stmt.cols[l].name => k = l
      BY DEF Statement
  <2> QED BY <1>2, <2>1, DeclaredUnder
<1>4. collectColumns(c, stmt, parents, refers) = built
    BY DEF collectColumns, liked, inherited
<1> HIDE DEF built
<1> QED BY <1>3, <1>4 DEF Distinct

LEMMA CreateTableFits ==
    ASSUME NEW c \in Fits, NEW stmt, Statement(stmt)
    PROVE  createTable(c, stmt) \in After(c)
<1> DEFINE at == getTable(c, stmt.rel)
           parents == [k \in DOMAIN stmt.inherits |->
                           [s |-> at.s, t |-> schemaTable(c.schemas[at.s], stmt.inherits[k])]]
           refers == [k \in DOMAIN stmt.refer |-> getTable(c, stmt.refer[k])]
           built == collectColumns(c, stmt, parents, refers)
           all == parents \o refers
           d == createTable(c, stmt)
<1>1. c \in Catalogs
    BY DEF Fits
<1>2. CASE d = Fail(c) \/ d = checkMissing(c, stmt.ifNotExists)
  <2>1. Fail(c) \in Within(c) /\ checkMissing(c, stmt.ifNotExists) \in Within(c)
      BY WithinSelf DEF Statement
  <2> HIDE DEF d
  <2>2. d \in Within(c)
      BY <1>2, <2>1
  <2> QED BY <2>2, WithinAfter DEF d
<1>3. CASE /\ at.s # 0 /\ at.t = 0 /\ ~(\E p \in Range(all) : p.t = 0)
           /\ d = IF built.c.err THEN built.c
                  ELSE [markNotNull(built) EXCEPT !.schemas[at.s].tables =
                           Append(@, [rel |-> stmt.rel, cols |-> built.ids])]
  <2>1. /\ at.s \in DOMAIN c.schemas /\ c.schemas[at.s].name = Ns(stmt.rel.schema)
        /\ \A j \in DOMAIN c.schemas[at.s].tables : c.schemas[at.s].tables[j].rel.name # stmt.rel.name
      BY <1>1, <1>3, TableAt
  <2> HIDE DEF at, d
  <2>2. /\ Len(stmt.inherits) \in Nat /\ DOMAIN stmt.inherits = 1 .. Len(stmt.inherits)
        /\ Len(stmt.refer) \in Nat /\ DOMAIN stmt.refer = 1 .. Len(stmt.refer)
        /\ Engine = "mysql" => Len(stmt.inherits) = 0
      BY DEF Statement
  <2>3. /\ DOMAIN parents = 1 .. Len(stmt.inherits) /\ Len(parents) = Len(stmt.inherits)
        /\ \A k \in 1 .. Len(stmt.inherits) :
               /\ parents[k].s = at.s
               /\ parents[k].t = schemaTable(c.schemas[at.s], stmt.inherits[k])
      BY <2>2
  <2>4. /\ DOMAIN refers = 1 .. Len(stmt.refer)
        /\ \A k \in 1 .. Len(stmt.refer) : refers[k] = getTable(c, stmt.refer[k])
      BY <2>2
  <2>5. /\ \A k \in 1 .. Len(stmt.inherits) : parents[k].t # 0
        /\ \A k \in 1 .. Len(stmt.refer) : refers[k].t # 0
    <3>1. /\ parents \in [1 .. Len(stmt.inherits) -> Range(parents)]
          /\ refers \in [1 .. Len(stmt.refer) -> Range(refers)]
        BY <2>2, <2>3, <2>4 DEF Range
    <3> HIDE DEF parents, refers
    <3>2. /\ \A k \in 1 .. Len(stmt.inherits) : parents[k] \in Range(all)
          /\ \A k \in 1 .. Len(stmt.refer) : refers[k] \in Range(all)
        BY <2>2, <3>1, RangeJoined
    <3> HIDE DEF all
    <3> QED BY <1>3, <3>2
  <2>6. refers = <<>> <=> stmt.refer = <<>>
      BY <2>2, <2>4
  <2> HIDE DEF parents, refers, all
  <2>7. \A k \in 1 .. Len(parents) : /\ parents[k].s \in DOMAIN c.schemas
                                     /\ parents[k].t \in DOMAIN c.schemas[parents[k].s].tables
    <3>1. c.schemas[at.s] \in Schema
        BY <1>1, <2>1 DEF Catalogs
    <3>2. \A k \in 1 .. Len(stmt.inherits) :
              schemaTable(c.schemas[at.s], stmt.inherits[k]) \in DOMAIN c.schemas[at.s].tables
        BY <2>3, <2>5, <3>1, TableFound
    <3> QED BY <2>1, <2>3, <3>2
  <2>8. refers = <<>> \/ c \in Holding(c, refers[1].s, refers[1].t)
    <3> SUFFICES ASSUME refers # <<>> PROVE c \in Holding(c, refers[1].s, refers[1].t)
        OBVIOUS
    <3>1. 1 \in 1 .. Len(stmt.refer)
        BY <2>6 DEF Statement
    <3>2. refers[1] = getTable(c, stmt.refer[1]) /\ refers[1].t # 0
        BY <2>4, <2>5, <3>1
    <3> QED BY <1>1, <3>2, TableAt, WithinSelf DEF Holding
  <2>9. /\ built \in Under(c)
        /\ Engine = "mysql" /\ ~built.c.err => UniqueColumns(built.ids, built.c.cols)
      BY <2>2, <2>3, <2>6, <2>7, <2>8, CollectedUnder
  <2> HIDE DEF built
  <2>10. CASE built.c.err
    <3>1. built.c \in Within(c)
        BY <2>9, WithinSelf, WithinKept DEF Under, SameTables
    <3>2. built.c \in After(c)
        BY <3>1, WithinAfter
    <3> QED BY <1>3, <2>10, <3>2 DEF d
  <2>11. CASE ~built.c.err
    <3>1. Engine = "mysql" => UniqueColumns(built.ids, built.c.cols)
        BY <2>9, <2>11
    <3>2. stmt.rel \in [schema : SchemaRefs, name : TableNames]
        BY DEF Statement
    <3>3. [markNotNull(built) EXCEPT !.schemas[at.s].tables =
               Append(@, [rel |-> stmt.rel, cols |-> built.ids])] \in After(c)
        BY <2>1, <2>9, <3>1, <3>2, BuiltAdded
    <3> QED BY <1>3, <2>11, <3>3 DEF d
  <2> QED BY <2>10, <2>11
<1>4. d = CASE at.s = 0 -> Fail(c)
            [] at.t # 0 -> checkMissing(c, stmt.ifNotExists)
            [] at.s # 0 /\ at.t = 0 /\ \E p \in Range(all) : p.t = 0 -> Fail(c)
            [] OTHER ->
                  IF built.c.err
                  THEN built.c
                  ELSE [markNotNull(built) EXCEPT !.schemas[at.s].tables =
                           Append(@, [rel |-> stmt.rel, cols |-> built.ids])]
    BY DEF createTable
<1>5. at.s = 0 => at.t = 0
    BY DEF getTable
<1> DEFINE missing == \E p \in Range(all) : p.t = 0
           added == [markNotNull(built) EXCEPT !.schemas[at.s].tables =
                        Append(@, [rel |-> stmt.rel, cols |-> built.ids])]
<1>6. d = CASE at.s = 0 -> Fail(c)
            [] at.t # 0 -> checkMissing(c, stmt.ifNotExists)
            [] at.s # 0 /\ at.t = 0 /\ missing -> Fail(c)
            [] OTHER -> IF built.c.err THEN built.c ELSE added
    BY <1>4
<1>7. CASE at.s # 0 /\ at.t = 0 /\ ~missing
  <2>1. d = IF built.c.err THEN built.c ELSE added
    <3> HIDE DEF at, all, built, added, missing, d
    <3> QED BY <1>6, <1>7
  <2> QED BY <1>3, <1>7, <2>1
<1>8. CASE ~(at.s # 0 /\ at.t = 0 /\ ~missing)
  <2> HIDE DEF at, all, built, added, missing, d
  <2> QED BY <1>2, <1>5, <1>6, <1>8
<1> QED BY <1>7, <1>8

(* CREATE VIEW and CREATE TABLE AS. *)
LEMMA AddRelationFits ==
    ASSUME NEW c \in Fits, NEW rel \in [schema : SchemaRefs, name : TableNames],
           NEW defs \in Seq(Def), NEW replace \in BOOLEAN,
           \A k, l \in 1 .. Len(defs) : defs[k].name = defs[l].name => k = l
    PROVE  addRelation(c, rel, defs, replace) \in After(c)
<1> DEFINE at == getTable(c, rel)
           new == [k \in DOMAIN defs |-> columnOf(rel.name, defs[k])]
           b == Allocate(Building(c, <<>>), new)
           tbl == [rel |-> rel, cols |-> b.ids]
           d == addRelation(c, rel, defs, replace)
<1>1. c \in Catalogs
    BY DEF Fits
<1>2. d = CASE defs = <<>> \/ at.s = 0 \/ (at.t # 0 /\ ~replace) -> Fail(c)
            [] defs # <<>> /\ at.t # 0 /\ replace -> [b.c EXCEPT !.schemas[at.s].tables[at.t] = tbl]
            [] OTHER -> [b.c EXCEPT !.schemas[at.s].tables = Append(@, tbl)]
    BY DEF addRelation
<1>3. at.s = 0 => at.t = 0
    BY DEF getTable
<1>4. /\ at.t # 0 =>
             /\ at.s \in DOMAIN c.schemas /\ c.schemas[at.s].name = Ns(rel.schema)
             /\ at.t \in DOMAIN c.schemas[at.s].tables
             /\ c.schemas[at.s].tables[at.t].rel.name = rel.name
      /\ at.t = 0 /\ at.s # 0 =>
             /\ at.s \in DOMAIN c.schemas /\ c.schemas[at.s].name = Ns(rel.schema)
             /\ \A j \in DOMAIN c.schemas[at.s].tables : c.schemas[at.s].tables[j].rel.name # rel.name
  <2>1. CASE at.t # 0
    <3>1. /\ at.s \in DOMAIN c.schemas /\ c.schemas[at.s].name = Ns(rel.schema)
          /\ at.t \in DOMAIN c.schemas[at.s].tables
          /\ tableAt(c, at) = c.schemas[at.s].tables[at.t] /\ tableAt(c, at).rel.name = rel.name
        BY <1>1, <2>1, TableAt
    <3> HIDE DEF at
    <3> QED BY <2>1, <3>1
  <2>2. CASE at.t = 0 /\ at.s # 0
    <3>1. /\ at.s \in DOMAIN c.schemas /\ c.schemas[at.s].name = Ns(rel.schema)
          /\ \A j \in DOMAIN c.schemas[at.s].tables : c.schemas[at.s].tables[j].rel.name # rel.name
        BY <1>1, <2>2, TableAt
    <3> HIDE DEF at
    <3> QED BY <2>2, <3>1
  <2>3. CASE at.t = 0 /\ at.s = 0
    <3> HIDE DEF at
    <3> QED BY <2>3
  <2> HIDE DEF at
  <2> QED BY <2>1, <2>2, <2>3
<1> HIDE DEF d, at
<1>5. /\ new \in Seq(Column) /\ DOMAIN new = 1 .. Len(defs) /\ Len(defs) \in Nat
      /\ \A k \in 1 .. Len(defs) : new[k].name = defs[k].name
  <2>1. DOMAIN defs = 1 .. Len(defs) /\ Len(defs) \in Nat
      OBVIOUS
  <2>2. \A k \in 1 .. Len(defs) : /\ columnOf(rel.name, defs[k]) \in Column
                                  /\ columnOf(rel.name, defs[k]).name = defs[k].name
      BY ColumnOfTyped
  <2> QED BY <2>1, <2>2
<1> HIDE DEF new
<1>6. /\ Building(c, <<>>) \in Under(c) /\ Building(c, <<>>).ids = <<>>
      /\ Building(c, <<>>).c = c
    BY BuildingUnder DEF Building
<1>7. b \in Under(c) /\ Extends(b, c, <<>>, new)
    BY <1>5, <1>6, AllocateUnder
<1> HIDE DEF b
<1>8. Engine = "mysql" => UniqueColumns(b.ids, b.c.cols)
  <2>1. \A k \in DOMAIN b.ids : k \in 1 .. Len(defs) /\ b.c.cols[b.ids[k]].name = defs[k].name
    <3>1. Len(<<>>) = 0 /\ \A k : k \notin DOMAIN <<>>
        OBVIOUS
    <3>2. \A k \in DOMAIN b.ids : /\ k - 0 \in DOMAIN new /\ k \in Nat
                                  /\ b.c.cols[b.ids[k]] = new[k - 0]
        BY <1>7, <3>1 DEF Extends
    <3>3. \A k \in DOMAIN b.ids : k \in DOMAIN new /\ b.c.cols[b.ids[k]] = new[k]
        BY <3>2
    <3> QED BY <1>5, <3>3
  <2> QED BY <2>1 DEF UniqueColumns
<1>9. /\ b.c \in Fits /\ SameTables(c, b.c) /\ b.ids \in Seq(Nat)
      /\ \A k \in DOMAIN b.ids : b.ids[k] \in 1 .. Len(b.c.cols)
      /\ Engine = "mysql" => \A k \in DOMAIN b.ids : b.ids[k] \notin 1 .. Len(c.cols)
    BY <1>7 DEF Under
<1>10. tbl \in Table /\ tbl.cols = b.ids /\ tbl.rel = rel
    BY <1>9 DEF Table
<1> HIDE DEF tbl
<1>11. ASSUME at.s # 0 PROVE Suits(b.c, at.s, tbl)
  <2>1. at.s \in DOMAIN c.schemas /\ c.schemas[at.s].name = Ns(rel.schema)
      BY <1>4, <1>11
  <2>2. b.c.schemas[at.s].name = Ns(rel.schema)
      BY <1>9, <2>1 DEF SameTables
  <2> QED BY <1>8, <1>9, <1>10, <2>2 DEF Suits
<1>12. Engine = "mysql" => \A k \in DOMAIN tbl.cols : Unused(b.c, tbl.cols[k])
    BY <1>9, <1>10, FreshUnused
<1>13. CASE defs = <<>> \/ at.s = 0 \/ (at.t # 0 /\ ~replace)
  <2> DEFINE other == defs # <<>> /\ at.t # 0 /\ replace
             seen == [b.c EXCEPT !.schemas[at.s].tables[at.t] = tbl]
             added == [b.c EXCEPT !.schemas[at.s].tables = Append(@, tbl)]
  <2>1. ~other
      BY <1>3, <1>13
  <2>2. d = CASE defs = <<>> \/ at.s = 0 \/ (at.t # 0 /\ ~replace) -> Fail(c)
              [] other -> seen
              [] OTHER -> added
      BY <1>2
  <2> HIDE DEF other, seen, added
  <2>3. d = Fail(c)
      BY <1>13, <2>1, <2>2
  <2> QED BY <2>3, WithinSelf, WithinAfter DEF d
<1>14. CASE defs # <<>> /\ at.t # 0 /\ replace
  <2>1. /\ at.s # 0 /\ at.s \in DOMAIN b.c.schemas /\ at.t \in DOMAIN b.c.schemas[at.s].tables
        /\ b.c.schemas[at.s].tables = c.schemas[at.s].tables
        /\ c.schemas[at.s].tables[at.t].rel.name = rel.name
      BY <1>3, <1>4, <1>9, <1>14 DEF SameTables
  <2>2. \A l \in DOMAIN b.c.schemas[at.s].tables :
            b.c.schemas[at.s].tables[l].rel.name = tbl.rel.name => l = at.t
    <3>1. UniqueTables(b.c.schemas[at.s].tables)
        BY <1>9, <2>1 DEF Fits, Unique
    <3> QED BY <1>10, <2>1, <3>1 DEF UniqueTables
  <2>3. b.c \in Within(c)
      BY <1>9, WithinSelf, WithinKept DEF SameTables
  <2>4. [b.c EXCEPT !.schemas[at.s].tables[at.t] = tbl] \in Holding(c, at.s, at.t)
      BY <1>9, <1>11, <1>12, <2>1, <2>2, <2>3, TableReplaced
  <2>5. [b.c EXCEPT !.schemas[at.s].tables[at.t] = tbl] \in After(c)
      BY <2>4, WithinAfter DEF Holding
  <2> QED BY <1>2, <1>3, <1>14, <2>5 DEF d
<1>15. CASE defs # <<>> /\ at.s # 0 /\ at.t = 0
  <2>1. /\ at.s \in DOMAIN b.c.schemas
        /\ \A l \in DOMAIN b.c.schemas[at.s].tables : b.c.schemas[at.s].tables[l].rel.name # tbl.rel.name
      BY <1>4, <1>9, <1>10, <1>15 DEF SameTables
  <2>2. [b.c EXCEPT !.schemas[at.s].tables = Append(@, tbl)] \in Fits
      BY <1>9, <1>11, <1>12, <1>15, <2>1, TableAppended
  <2>3. Tightened(c, b.c)
    <3>1. Len(b.c.cols) >= Len(c.cols) /\ Len(c.cols) \in Nat /\ Len(b.c.cols) \in Nat
        BY <1>7, <1>9 DEF Under, Fits, Catalogs
    <3>2. \A id \in 1 .. Len(c.cols) : b.c.cols[id] = c.cols[id]
        BY <1>7 DEF Under, Merged
    <3> QED BY <3>1, <3>2 DEF Tightened
  <2>4. [b.c EXCEPT !.schemas[at.s].tables = Append(@, tbl)] \in After(c)
      BY <1>9, <1>10, <2>1, <2>2, <2>3, TightAppended DEF SameTables
  <2> QED BY <1>2, <1>15, <2>4 DEF d
<1> QED BY <1>3, <1>13, <1>14, <1>15

--------------------------------------------------------------------------------
(* DROP TABLE.                                                             *)

LEMMA RemovedWithin ==
    ASSUME NEW c \in Fits, NEW i \in DOMAIN c.schemas, NEW t \in DOMAIN c.schemas[i].tables,
           NEW d, d = [c EXCEPT !.schemas[i].tables = RemoveAt(@, t)]
    PROVE  d \in Within(c)
<1> DEFINE old == c.schemas[i].tables
           ts == RemoveAt(old, t)
<1>1. d \in Fits /\ d = WithTables(c, i, ts) /\ c \in Catalogs
    BY TableRemoved DEF Fits
<1>2. old \in Seq(Table) /\ t \in 1 .. Len(old)
    BY OldTables
<1>3. ts \in Seq(Table) /\ Len(ts) = Len(old) - 1 /\ Len(old) \in Nat
  <2> HIDE DEF old
  <2> QED BY <1>2, RemoveIs DEF Shorter
<1> HIDE DEF ts
<1>4. /\ DOMAIN d.schemas = DOMAIN c.schemas /\ d.schemas[i].tables = ts
      /\ \A m \in DOMAIN c.schemas : m # i => d.schemas[m] = c.schemas[m]
  <2> DEFINE e == WithTables(c, i, ts)
  <2>1. /\ DOMAIN e.schemas = DOMAIN c.schemas /\ e.schemas[i].tables = ts
        /\ \A m \in DOMAIN c.schemas : m # i => e.schemas[m] = c.schemas[m]
      BY <1>1, <1>3, WithTablesIs
  <2>2. d = e
      BY <1>1
  <2> HIDE DEF e
  <2> QED BY <2>1, <2>2, Zenon
<1>5. ASSUME NEW m \in DOMAIN c.schemas
      PROVE  Len(d.schemas[m].tables) <= Len(c.schemas[m].tables)
  <2>1. CASE m = i
    <3>1. Len(ts) <= Len(old)
      <4> HIDE DEF old
      <4> QED BY <1>3
    <3> QED BY <1>4, <2>1, <3>1
  <2>2. CASE m # i
    <3> DEFINE x == Len(c.schemas[m].tables)
    <3>1. x \in Nat /\ Len(d.schemas[m].tables) = x
        BY <1>4, <2>2, TableCounts
    <3> HIDE DEF x
    <3>2. x <= x
        BY <3>1
    <3> QED BY <3>1, <3>2 DEF x
  <2> QED BY <2>1, <2>2
<1> QED BY <1>1, <1>4, <1>5 DEF Within

LEMMA KeepsOn ==
    ASSUME NEW c \in Catalogs, NEW d, NEW e
    PROVE  /\ KeepsTables(c, d) /\ KeepsTables(d, e) => KeepsTables(c, e)
           /\ KeepsColumns(c, d) /\ KeepsColumns(d, e) => KeepsColumns(c, e)
<1>1. KeepsTables(c, d) /\ KeepsTables(d, e) => KeepsTables(c, e)
    BY DEF KeepsTables
<1> QED BY <1>1 DEF KeepsColumns

(* The enum types of the columns are removed. *)
LEMMA LinkedRemoved ==
    ASSUME NEW c \in Fits, NEW ids, Len(ids) \in Nat
    PROVE  Each(c, ids, LAMBDA d, id : IF c.cols[id].linked THEN removeType(d, c.cols[id].type, FALSE) ELSE d)
               \in {d \in Fits : KeepsColumns(c, d)}
<1> DEFINE N == Len(ids)
           S == {d \in Fits : KeepsColumns(c, d)}
           Step(d, x) == IF d.err THEN d ELSE (IF c.cols[x].linked THEN removeType(d, c.cols[x].type, FALSE) ELSE d)
           F == [i \in 1 .. N |-> [d \in S |-> Step(d, ids[i])]]
           h == CHOOSE f : f = [i \in 0 .. N |-> IF i = 0 THEN c ELSE Step(f[i - 1], ids[i])]
<1>0. c \in S /\ N \in Nat /\ \A i \in 1 .. N : \A d \in S : Step(d, ids[i]) \in S
  <2>1. c \in Catalogs
      BY DEF Fits
  <2>2. \A i \in 1 .. N : \A d \in S :
            /\ removeType(d, c.cols[ids[i]].type, FALSE) \in Fits
            /\ KeepsColumns(d, removeType(d, c.cols[ids[i]].type, FALSE))
      BY RemoveTypeFits
  <2>3. \A d \in S : \A e \in Fits : KeepsColumns(d, e) => e \in S
      BY <2>1, KeepsOn
  <2> HIDE DEF N
  <2>4. \A i \in 1 .. N : \A d \in S : Step(d, ids[i]) \in S
    <3> SUFFICES ASSUME NEW i \in 1 .. N, NEW d \in S PROVE Step(d, ids[i]) \in S
        OBVIOUS
    <3>1. removeType(d, c.cols[ids[i]].type, FALSE) \in S
        BY <2>2, <2>3
    <3> HIDE DEF S
    <3> QED BY <3>1
  <2> QED BY <2>1, <2>4, FailKeeps DEF N
<1>1. F \in [1 .. N -> [S -> S]] /\ N \in Nat
    BY <1>0
<1>2. Each(c, ids, LAMBDA d, id : IF c.cols[id].linked THEN removeType(d, c.cols[id].type, FALSE) ELSE d) = h[N]
    BY DEF Each, Loop
<1> HIDE DEF F, N, h
<1>3. PICK g : Records(g, S, c, N, F)
    BY <1>0, <1>1, LoopIs
<1>4. g = [i \in 0 .. N |-> IF i = 0 THEN c ELSE Step(g[i - 1], ids[i])]
  <2> HIDE DEF Step
  <2>1. \A i \in 1 .. N : i - 1 \in 0 .. N /\ g[i - 1] \in S
      BY <1>1, <1>3 DEF Records
  <2>2. \A i \in 1 .. N : F[i][g[i - 1]] = Step(g[i - 1], ids[i])
      BY <2>1 DEF F
  <2>3. \A i \in 0 .. N : g[i] = IF i = 0 THEN c ELSE Step(g[i - 1], ids[i])
      BY <1>1, <1>3, <2>2 DEF Records
  <2>4. g = [i \in 0 .. N |-> g[i]]
      BY <1>3 DEF Records
  <2> QED BY <2>3, <2>4
<1> HIDE DEF Step
<1>5. h = [i \in 0 .. N |-> IF i = 0 THEN c ELSE Step(h[i - 1], ids[i])]
    BY <1>4 DEF h
<1>6. Obeys(h, S, c, N, F)
    BY <1>1, <1>5 DEF F, Obeys
<1>7. h[N] \in S
    BY <1>0, <1>1, <1>6, LoopStays
<1> QED BY <1>2, <1>7

LEMMA RemoveTableFits ==
    ASSUME NEW c \in Fits, NEW rel, NEW ifExists \in BOOLEAN
    PROVE  removeTable(c, rel, ifExists) \in Within(c)
<1> DEFINE at == getTable(c, rel)
           e == Each(c, tableAt(c, at).cols, LAMBDA d, id :
                    IF c.cols[id].linked THEN removeType(d, c.cols[id].type, FALSE) ELSE d)
           gone == [e EXCEPT !.schemas[at.s].tables = RemoveAt(@, at.t)]
           r == removeTable(c, rel, ifExists)
<1>1. r = CASE at.t = 0 -> checkMissing(c, ifExists)
            [] at.t # 0 /\ e.err -> e
            [] OTHER -> gone
    BY DEF removeTable
<1>2. c \in Catalogs
    BY DEF Fits
<1>3. CASE at.t = 0
  <2> HIDE DEF at, e, gone, r
  <2>1. r = checkMissing(c, ifExists)
      BY <1>1, <1>3
  <2> QED BY <2>1, WithinSelf DEF r
<1>4. CASE at.t # 0
  <2>1. /\ at.s \in DOMAIN c.schemas /\ at.t \in DOMAIN c.schemas[at.s].tables
        /\ tableAt(c, at) \in Table
      BY <1>2, <1>4, TableAt
  <2> HIDE DEF at
  <2>2. Len(tableAt(c, at).cols) \in Nat
      BY <2>1 DEF Table
  <2>3. e \in Fits /\ KeepsColumns(c, e)
      BY <2>2, LinkedRemoved
  <2> HIDE DEF e
  <2>4. at.s \in DOMAIN e.schemas /\ at.t \in DOMAIN e.schemas[at.s].tables
      BY <2>1, <2>3 DEF KeepsColumns, KeepsTables
  <2>5. gone \in Within(e)
      BY <2>3, <2>4, RemovedWithin
  <2> HIDE DEF gone, r
  <2>6. r = e \/ r = gone
      BY <1>1, <1>4
  <2>7. e \in Within(c)
      BY <2>3, WithinSelf, KeepsWithin DEF KeepsColumns
  <2>8. gone \in Within(c)
      BY <2>5, <2>7, WithinOn
  <2> QED BY <2>6, <2>7, <2>8 DEF r
<1> QED BY <1>3, <1>4

LEMMA DropTableFits ==
    ASSUME NEW c \in Fits, NEW rels, Len(rels) \in Nat, NEW ifExists \in BOOLEAN
    PROVE  dropTable(c, rels, ifExists) \in Within(c)
<1>a. c \in Within(c)
    BY WithinSelf
<1>b. ASSUME NEW d \in Within(c), NEW x PROVE removeTable(d, x, ifExists) \in Within(c)
  <2>1. d \in Fits
      BY DEF Within
  <2>2. removeTable(d, x, ifExists) \in Within(d)
      BY <2>1, RemoveTableFits
  <2> QED BY <2>2, WithinOn
<1> DEFINE N == Len(rels)
           S == Within(c)
           Step(d, x) == IF d.err THEN d ELSE removeTable(d, x, ifExists)
           F == [i \in 1 .. N |-> [d \in S |-> Step(d, rels[i])]]
           h == CHOOSE f : f = [i \in 0 .. N |-> IF i = 0 THEN c ELSE Step(f[i - 1], rels[i])]
<1>1. F \in [1 .. N -> [S -> S]] /\ N \in Nat
    BY <1>b
<1>2. dropTable(c, rels, ifExists) = h[N]
    BY DEF dropTable, Each, Loop
<1> HIDE DEF F, N, h
<1>3. PICK g : Records(g, S, c, N, F)
    BY <1>1, <1>a, LoopIs
<1>4. g = [i \in 0 .. N |-> IF i = 0 THEN c ELSE Step(g[i - 1], rels[i])]
  <2> HIDE DEF Step
  <2>1. \A i \in 1 .. N : i - 1 \in 0 .. N /\ g[i - 1] \in S
      BY <1>1, <1>3 DEF Records
  <2>2. \A i \in 1 .. N : F[i][g[i - 1]] = Step(g[i - 1], rels[i])
      BY <2>1 DEF F
  <2>3. \A i \in 0 .. N : g[i] = IF i = 0 THEN c ELSE Step(g[i - 1], rels[i])
      BY <1>1, <1>3, <2>2 DEF Records
  <2>4. g = [i \in 0 .. N |-> g[i]]
      BY <1>3 DEF Records
  <2> QED BY <2>3, <2>4
<1> HIDE DEF Step
<1>5. h = [i \in 0 .. N |-> IF i = 0 THEN c ELSE Step(h[i - 1], rels[i])]
    BY <1>4 DEF h
<1>6. Obeys(h, S, c, N, F)
    BY <1>1, <1>5 DEF F, Obeys
<1>7. h[N] \in S
    BY <1>1, <1>6, <1>a, LoopStays
<1> QED BY <1>2, <1>7

--------------------------------------------------------------------------------
(* ALTER TABLE ... SET SCHEMA.                                             *)

LEMMA Qualified ==
    ASSUME lang \in Langs, NEW name \in SchemaNames
    PROVE  Ns(name) = name
BY LangsAssumption, Zenon DEF Ns, SchemaNames

(* What is removed does not matter. *)
LEMMA RemovedSame ==
    ASSUME NEW T, NEW s \in Seq(T), NEW i \in 1 .. Len(s), NEW e \in T
    PROVE  RemoveAt([s EXCEPT ![i] = e], i) = RemoveAt(s, i)
<1> DEFINE r == [s EXCEPT ![i] = e]
           a == RemoveAt(r, i)
           b == RemoveAt(s, i)
<1>1. /\ r \in Seq(T) /\ Len(r) = Len(s) /\ i \in 1 .. Len(r)
      /\ \A k \in DOMAIN s : k # i => r[k] = s[k]
    OBVIOUS
<1> HIDE DEF r
<1>2. Shorter(a, r, i, T) /\ Shorter(b, s, i, T)
    BY <1>1, RemoveIs
<1> HIDE DEF a, b
<1>3. a \in Seq(T) /\ b \in Seq(T) /\ Len(a) = Len(b) /\ DOMAIN a = DOMAIN b
    BY <1>1, <1>2 DEF Shorter
<1>4. DOMAIN r = DOMAIN s
    BY <1>1
<1>5. \A k \in DOMAIN a : a[k] = b[k]
    BY <1>1, <1>2, <1>3, <1>4 DEF Shorter
<1>6. a = b
  <2>1. a = [k \in DOMAIN a |-> a[k]] /\ b = [k \in DOMAIN a |-> b[k]]
      BY <1>3
  <2> QED BY <1>5, <2>1
<1> QED BY <1>6 DEF a, b, r

LEMMA AlterTableSetSchemaFits ==
    ASSUME NEW c \in Fits, NEW rel, NEW newSchema \in SchemaNames, NEW missingOk \in BOOLEAN,
           lang \in Langs, Engine # "mysql"
    PROVE  alterTableSetSchema(c, rel, newSchema, missingOk) \in After(c)
<1> DEFINE at == getTable(c, rel)
           moved == [c EXCEPT !.schemas[at.s].tables[at.t].rel.schema = newSchema]
           n == getSchema(c, newSchema)
           there == schemaTable(c.schemas[n], rel.name)
           done == [moved EXCEPT !.schemas[at.s].tables = RemoveAt(@, at.t),
                                 !.schemas[n].tables = Append(@, tableAt(moved, at))]
           r == alterTableSetSchema(c, rel, newSchema, missingOk)
<1>1. r = CASE at.t = 0 -> checkMissing(c, missingOk)
            [] at.t # 0 /\ n = 0 -> Fail(moved)
            [] at.t # 0 /\ n # 0 /\ there # 0 -> Fail(moved)
            [] OTHER -> done
    BY DEF alterTableSetSchema
<1>2. c \in Catalogs
    BY DEF Fits
<1>3. CASE at.t = 0
  <2> HIDE DEF at, moved, n, there, done, r
  <2>1. r = checkMissing(c, missingOk)
      BY <1>1, <1>3
  <2> QED BY <2>1, WithinSelf, WithinAfter DEF r
<1>4. CASE at.t # 0
  <2>1. /\ at.s \in DOMAIN c.schemas /\ at.t \in DOMAIN c.schemas[at.s].tables
        /\ tableAt(c, at) = c.schemas[at.s].tables[at.t] /\ tableAt(c, at) \in Table
        /\ tableAt(c, at).rel.name = rel.name
      BY <1>2, <1>4, TableAt
  <2>2. r = Fail(moved) \/ (n # 0 /\ there = 0 /\ r = done)
    <3> HIDE DEF at, moved, n, there, done, r
    <3> QED BY <1>1, <1>4
  <2> HIDE DEF at
  <2> DEFINE x == c.schemas[at.s].tables
             old == tableAt(c, at)
             w == [old EXCEPT !.rel.schema = newSchema]
  <2>3. /\ c.schemas[at.s] \in Schema /\ x \in Seq(Table) /\ at.t \in 1 .. Len(x)
        /\ c \in Holding(c, at.s, at.t)
    <3>1. c.schemas[at.s] \in Schema
        BY <1>2, <2>1 DEF Catalogs
    <3>2. x \in Seq(Table)
        BY <3>1 DEF Schema
    <3>3. at.t \in 1 .. Len(x)
        BY <2>1, <3>2
    <3> QED BY <2>1, <3>1, <3>2, <3>3, WithinSelf DEF Holding
  <2>4. newSchema \in SchemaRefs
      BY DEF SchemaRefs
  <2>5. w \in Table /\ w.cols = old.cols /\ w.rel.name = rel.name /\ w.rel.schema = newSchema
      BY <2>1, <2>4 DEF Table
  <2>6. moved = [c EXCEPT !.schemas[at.s].tables[at.t] = w]
      BY <1>2, <2>1
  <2>7. Suits(c, at.s, old) /\ \A l \in DOMAIN x : x[l].rel.name = old.rel.name => l = at.t
      BY <2>3, Held
  <2> HIDE DEF r, done
  <2>8. CASE r = Fail(moved)
    <3> DEFINE f == Fail(c)
    <3>1. f \in Within(c)
        BY WithinSelf
    <3>2. /\ f.schemas = c.schemas /\ f.cols = c.cols /\ f.err
          /\ Fail(moved) = [f EXCEPT !.schemas[at.s].tables[at.t] = w]
      <4> HIDE DEF w, moved
      <4> QED BY <1>2, <2>6 DEF Fail, Catalogs
    <3> HIDE DEF f, old, w
    <3>3. Suits(f, at.s, w)
        BY <2>5, <2>7, <3>2 DEF Suits
    <3>4. \A l \in DOMAIN f.schemas[at.s].tables : f.schemas[at.s].tables[l].rel.name = w.rel.name => l = at.t
        BY <2>1, <2>5, <2>7, <3>2 DEF old
    <3>5. [f EXCEPT !.schemas[at.s].tables[at.t] = w] \in Holding(c, at.s, at.t)
        BY <2>1, <3>1, <3>2, <3>3, <3>4, TableReplaced
    <3>6. Fail(moved) \in After(c)
        BY <3>2, <3>5, WithinAfter DEF Holding
    <3> QED BY <2>8, <3>6 DEF r
  <2>9. CASE n # 0 /\ there = 0 /\ r = done
    <3> DEFINE y == RemoveAt(x, at.t)
               g == [c EXCEPT !.schemas[at.s].tables = RemoveAt(@, at.t)]
    <3>1. n \in DOMAIN c.schemas /\ c.schemas[n].name = newSchema
        BY <1>2, <2>9, SchemaFound
    <3>2. c.schemas[n] \in Schema
        BY <1>2, <3>1 DEF Catalogs
    <3>3. \A l \in DOMAIN c.schemas[n].tables : c.schemas[n].tables[l].rel.name # rel.name
        BY <2>9, <3>2, TableFound
    <3>4. n # at.s
        BY <2>1, <3>3
    <3>5. g \in Fits /\ g = WithTables(c, at.s, y)
        BY <2>1, TableRemoved
    <3>6. y \in Seq(Table)
        BY <2>3, RemoveIs DEF Shorter
    <3>7. RemoveAt([x EXCEPT ![at.t] = w], at.t) = y
        BY <2>3, <2>5, RemovedSame
    <3> HIDE DEF n, old, w
    <3>8. /\ moved.schemas[at.s].tables = [x EXCEPT ![at.t] = w] /\ tableAt(moved, at) = w
          /\ moved.schemas[n] = c.schemas[n]
      <4> DEFINE z == [x EXCEPT ![at.t] = w]
      <4>1. moved = WithTables(c, at.s, z)
          BY <2>6 DEF WithTables
      <4>2. z \in Seq(Table) /\ z[at.t] = w
          BY <2>1, <2>3, <2>5, ExceptIs
      <4> HIDE DEF z, moved
      <4>3. moved.schemas[at.s].tables = z /\ moved.schemas[n] = c.schemas[n]
          BY <1>2, <2>1, <3>1, <3>4, <4>1, <4>2, WithTablesIs
      <4> QED BY <4>2, <4>3 DEF tableAt, z
    <3>9. done = [g EXCEPT !.schemas[n].tables = Append(@, w)]
      <4>1. done = [moved EXCEPT !.schemas[at.s].tables = y,
                                 !.schemas[n].tables = Append(@, w)]
        <5> HIDE DEF moved, x, y
        <5> QED BY <3>7, <3>8 DEF done
      <4>2. moved = [c EXCEPT !.schemas[at.s] = [@ EXCEPT !.tables = [x EXCEPT ![at.t] = w]]]
          BY <2>6
      <4> DEFINE z == [x EXCEPT ![at.t] = w]
      <4> HIDE DEF x, y, z, moved
      <4>3. g = [c EXCEPT !.schemas[at.s] = [@ EXCEPT !.tables = y]]
          BY DEF y, x
      <4> HIDE DEF g
      <4>4. moved = [c EXCEPT !.schemas[at.s] = [@ EXCEPT !.tables = z]]
          BY <4>2 DEF z
      <4>5. /\ c = [schemas |-> c.schemas, cols |-> c.cols, err |-> c.err]
            /\ c.schemas = [m \in DOMAIN c.schemas |-> c.schemas[m]]
          BY <1>2 DEF Catalogs
      <4>6. c.schemas[at.s] = [name |-> c.schemas[at.s].name, tables |-> x, types |-> c.schemas[at.s].types]
          BY <2>3 DEF Schema, x
      <4> DEFINE a == [c.schemas[at.s] EXCEPT !.tables = z]
                 b == [c.schemas[at.s] EXCEPT !.tables = y]
                 f == [c.schemas[n] EXCEPT !.tables = Append(@, w)]
      <4>7. [a EXCEPT !.tables = y] = b
          BY <4>6
      <4> HIDE DEF a, b, f
      <4>8. moved = [c EXCEPT !.schemas[at.s] = a] /\ g = [c EXCEPT !.schemas[at.s] = b]
          BY <4>3, <4>4 DEF a, b
      <4>9. moved.schemas[at.s] = a /\ moved.schemas[n] = c.schemas[n] /\ g.schemas[n] = c.schemas[n]
          BY <2>1, <3>1, <3>4, <4>5, <4>8
      <4>10. done = [moved EXCEPT !.schemas[at.s] = b, !.schemas[n] = f]
        <5> DEFINE p == [moved EXCEPT !.schemas[at.s].tables = y]
        <5>1. done = [p EXCEPT !.schemas[n].tables = Append(moved.schemas[n].tables, w)]
            BY <4>1
        <5>2. p = [moved EXCEPT !.schemas[at.s] = b]
            BY <4>7, <4>9
        <5> HIDE DEF p
        <5>3. p.schemas[n] = c.schemas[n]
            BY <3>1, <3>4, <4>5, <4>8, <4>9, <5>2
        <5>4. done = [p EXCEPT !.schemas[n] = f]
            BY <4>9, <5>1, <5>3 DEF f
        <5> QED BY <5>2, <5>4
      <4>11. [g EXCEPT !.schemas[n].tables = Append(@, w)] = [g EXCEPT !.schemas[n] = f]
          BY <4>9 DEF f
      <4>12. [moved EXCEPT !.schemas[at.s] = b, !.schemas[n] = f] = [g EXCEPT !.schemas[n] = f]
          BY <2>1, <3>1, <3>4, <4>5, <4>8
      <4> QED BY <4>10, <4>11, <4>12
    <3> HIDE DEF y, g, moved
    <3>10. /\ n \in DOMAIN g.schemas /\ g.schemas[n] = c.schemas[n]
           /\ g.cols = c.cols /\ g.err = c.err
        BY <1>2, <2>1, <3>1, <3>4, <3>5, <3>6, WithTablesIs
    <3>11. Suits(g, n, w)
      <4>1. Ns(newSchema) = newSchema
          BY Qualified
      <4> QED BY <2>5, <2>7, <3>1, <3>10, <4>1 DEF Suits
    <3>12. [g EXCEPT !.schemas[n].tables = Append(@, w)] \in Fits
        BY <2>5, <3>3, <3>5, <3>10, <3>11, TableAppended
    <3> DEFINE end == [g EXCEPT !.schemas[n].tables = Append(@, w)]
    <3>13. ~Adds(c, end)
      <4> SUFFICES Len(end.schemas[at.s].tables) < Len(x) /\ Len(end.schemas[at.s].tables) \in Nat
          BY <2>1, <2>3 DEF Adds
      <4>1. end.schemas[at.s] = g.schemas[at.s] /\ g.schemas[at.s].tables = y
        <5>1. g.schemas[at.s].tables = y /\ g \in Catalogs
            BY <1>2, <2>1, <3>5, <3>6, WithTablesIs
        <5>2. end.schemas[at.s] = g.schemas[at.s]
            BY <3>4, <3>10, <5>1 DEF Catalogs
        <5> QED BY <5>1, <5>2
      <4>2. Len(y) = Len(x) - 1 /\ Len(x) \in Nat
        <5> HIDE DEF x
        <5> QED BY <2>3, RemoveIs DEF Shorter, y
      <4>3. end.schemas[at.s].tables = y
          BY <4>1
      <4> HIDE DEF end, x
      <4> QED BY <4>2, <4>3
    <3> QED BY <2>9, <3>9, <3>12, <3>13 DEF r, After
  <2> QED BY <2>2, <2>8, <2>9
<1> QED BY <1>3, <1>4

--------------------------------------------------------------------------------
(* RENAME COLUMN and RENAME TABLE.                                         *)

(* Renaming a column through one table's pointer: no other table of a      *)
(* MySQL schema points to it. *)
LEMMA ColumnRenamed ==
    ASSUME NEW base, NEW at, NEW c \in Holding(base, at.s, at.t), NEW k \in DOMAIN tableAt(c, at).cols,
           NEW newName \in ColNames,
           \A l \in DOMAIN tableAt(c, at).cols : c.cols[tableAt(c, at).cols[l]].name # newName
    PROVE  [c EXCEPT !.cols[tableAt(c, at).cols[k]].name = newName] \in Holding(base, at.s, at.t)
<1> DEFINE ids == tableAt(c, at).cols
           id == ids[k]
           w == [c.cols[id] EXCEPT !.name = newName]
           cs == [c.cols EXCEPT ![id] = w]
           d == [c EXCEPT !.cols = cs]
<1>1. /\ c \in Fits /\ c \in Catalogs /\ at.s \in DOMAIN c.schemas
      /\ at.t \in DOMAIN c.schemas[at.s].tables
      /\ tableAt(c, at) = c.schemas[at.s].tables[at.t] /\ tableAt(c, at) \in Table
      /\ Suits(c, at.s, tableAt(c, at))
    BY Held
<1>2. /\ id \in 1 .. Len(c.cols) /\ c.cols \in Seq(Column) /\ Len(c.cols) \in Nat
      /\ DOMAIN c.cols = 1 .. Len(c.cols)
  <2>1. c.cols \in Seq(Column)
      BY <1>1 DEF Catalogs
  <2>2. id \in 1 .. Len(c.cols)
      BY <1>1 DEF Suits
  <2> HIDE DEF id
  <2> QED BY <2>1, <2>2
<1>3. c.cols[id] \in Column
    BY <1>2
<1>4. [c EXCEPT !.cols[ids[k]].name = newName] = d
    OBVIOUS
<1>5. w \in Column /\ w.name = newName
    BY <1>3 DEF Column
<1> HIDE DEF w, id
<1>6. /\ cs \in Seq(Column) /\ Len(cs) = Len(c.cols) /\ cs[id] = w
      /\ \A x \in 1 .. Len(c.cols) : x # id => cs[x] = c.cols[x]
    BY <1>2, <1>5
<1> HIDE DEF cs
<1>7. d \in Catalogs /\ d.schemas = c.schemas /\ d.cols = cs /\ d.err = c.err
    BY <1>1, <1>6 DEF Catalogs
<1> HIDE DEF d
<1>8. Unique(d) /\ Pointers(d) /\ (Disjoint(c) => Disjoint(d)) /\ (failed \/ d.err \/ Agreed(d))
    BY <1>1, <1>6, <1>7 DEF Fits, Unique, Pointers, Disjoint, Agreed
<1>9. ASSUME Engine = "mysql", NEW i \in DOMAIN c.schemas, NEW j \in DOMAIN c.schemas[i].tables
      PROVE  UniqueColumns(c.schemas[i].tables[j].cols, cs)
  <2> DEFINE is == c.schemas[i].tables[j].cols
  <2>1. UniqueColumns(is, c.cols) /\ \A l \in DOMAIN is : is[l] \in 1 .. Len(c.cols)
      BY <1>1, <1>9 DEF Fits, ColumnsUnique, Pointers, PointsInto
  <2>2. CASE i = at.s /\ j = at.t
    <3>1. is = ids /\ \A l \in DOMAIN is : c.cols[is[l]].name # newName
        BY <1>1, <2>2
    <3> HIDE DEF is, ids
    <3>2. \A l \in DOMAIN is : is[l] # id => cs[is[l]].name = c.cols[is[l]].name
        BY <1>6, <2>1
    <3>3. \A l \in DOMAIN is : is[l] = id => cs[is[l]].name = newName
        BY <1>5, <1>6
    <3>4. ASSUME NEW l \in DOMAIN is, NEW m \in DOMAIN is, cs[is[l]].name = cs[is[m]].name
          PROVE  c.cols[is[l]].name = c.cols[is[m]].name
        BY <3>1, <3>2, <3>3, <3>4
    <3>5. UniqueColumns(is, cs)
        BY <2>1, <3>4 DEF UniqueColumns
    <3> QED BY <3>5 DEF is
  <2>3. CASE i # at.s \/ j # at.t
    <3>1. Apart(c.schemas[at.s].tables[at.t], c.schemas[i].tables[j])
        BY <1>1, <1>9, <2>3 DEF Fits, Disjoint
    <3>2. \A l \in DOMAIN is : is[l] # id
        BY <1>1, <3>1 DEF Apart, id
    <3> HIDE DEF is
    <3>3. \A l \in DOMAIN is : cs[is[l]] = c.cols[is[l]]
        BY <1>6, <2>1, <3>2
    <3>4. UniqueColumns(is, cs)
        BY <2>1, <3>3 DEF UniqueColumns
    <3> QED BY <3>4 DEF is
  <2> QED BY <2>2, <2>3
<1>10. Engine = "mysql" => Disjoint(d) /\ ColumnsUnique(d)
    BY <1>1, <1>7, <1>8, <1>9 DEF ColumnsUnique, Fits
<1>11. d \in Fits /\ c \in Within(base)
    BY <1>1, <1>7, <1>8, <1>10 DEF Fits, Holding
<1>12. d \in Within(base)
    BY <1>7, <1>11, WithinKept
<1>13. d \in Holding(base, at.s, at.t)
    BY <1>1, <1>7, <1>12 DEF Holding
<1> QED BY <1>4, <1>13

LastNamed(c, ids, name) == SelectLastInSeq(ids, LAMBDA id : c.cols[id].name = name)

LEMMA LastFound ==
    ASSUME NEW c \in Catalogs, NEW ids \in Seq(Nat), NEW name
    PROVE  LastNamed(c, ids, name) # 0 => LastNamed(c, ids, name) \in DOMAIN ids
<1> DEFINE I == {k \in 1 .. Len(ids) : c.cols[ids[k]].name = name}
<1>1. LastNamed(c, ids, name) = IF I # {} THEN Max(I) ELSE 0
    BY DEF LastNamed, SelectLastInSeq
<1>2. Len(ids) \in Nat /\ DOMAIN ids = 1 .. Len(ids)
    OBVIOUS
<1>3. I # {} => Max(I) \in I
    BY <1>2, MaxIs
<1> QED BY <1>1, <1>2, <1>3

LEMMA RenameColumnFits ==
    ASSUME NEW c \in Fits, NEW rel, NEW col, NEW newName \in ColNames, NEW missingOk \in BOOLEAN
    PROVE  renameColumn(c, rel, col, newName, missingOk) \in Within(c)
<1> DEFINE at == getTable(c, rel)
           ids == tableAt(c, at).cols
           idx == SelectLastInSeq(ids, LAMBDA id : c.cols[id].name = col)
           exists == isExistColumn(c, at, newName)
           d == [c EXCEPT !.cols[ids[idx]].name = newName]
           e == renameType(d, d.cols[ids[idx]].type,
                           EnumName(tableAt(d, at).rel.name, newName), ids[idx])
           linked == d.cols[ids[idx]].linked
           r == renameColumn(c, rel, col, newName, missingOk)
<1>1. r = CASE at.t = 0 -> checkMissing(c, missingOk)
            [] at.t # 0 /\ (idx = 0 \/ exists # 0) -> Fail(c)
            [] OTHER -> IF linked THEN e ELSE d
    BY DEF renameColumn
<1>2. c \in Catalogs
    BY DEF Fits
<1>3. CASE at.t = 0
  <2> HIDE DEF at, ids, idx, exists, d, e, linked, r
  <2>1. r = checkMissing(c, missingOk)
      BY <1>1, <1>3
  <2> QED BY <2>1, WithinSelf DEF r
<1>4. CASE at.t # 0
  <2>1. /\ at.s \in DOMAIN c.schemas /\ at.t \in DOMAIN c.schemas[at.s].tables
        /\ tableAt(c, at) \in Table
      BY <1>2, <1>4, TableAt
  <2>2. r = Fail(c) \/ (idx # 0 /\ exists = 0 /\ (r = e \/ r = d))
    <3> HIDE DEF at, ids, idx, exists, d, e, linked, r
    <3> QED BY <1>1, <1>4
  <2> HIDE DEF at, r
  <2>3. CASE r = Fail(c)
      BY <2>3, WithinSelf DEF r
  <2>4. CASE idx # 0 /\ exists = 0 /\ (r = e \/ r = d)
    <3>1. c \in Holding(c, at.s, at.t) /\ ids \in Seq(Nat)
        BY <2>1, WithinSelf DEF Holding, Table
    <3>2. idx \in DOMAIN ids
      <4>1. idx = LastNamed(c, ids, col)
          BY DEF LastNamed
      <4> HIDE DEF ids, idx
      <4> QED BY <1>2, <2>4, <3>1, <4>1, LastFound
    <3>3. \A l \in DOMAIN ids : c.cols[ids[l]].name # newName
        BY <1>2, <2>1, <2>4, ColumnFound
    <3> HIDE DEF idx
    <3>4. d \in Holding(c, at.s, at.t)
        BY <3>1, <3>2, <3>3, ColumnRenamed
    <3> HIDE DEF d
    <3>5. d \in Fits /\ tableAt(d, at).rel.name \in TableNames
        BY <3>4, Held DEF Table
    <3>6. EnumName(tableAt(d, at).rel.name, newName) \in TypeNames
        BY <3>5 DEF TypeNames
    <3>7. e \in Fits /\ KeepsTables(d, e)
        BY <3>5, <3>6, RenameTypeFits
    <3> HIDE DEF e
    <3>8. d \in Within(c) /\ e \in Within(c)
        BY <3>4, <3>7, KeepsWithin DEF Holding
    <3> QED BY <2>4, <3>8 DEF r
  <2> QED BY <2>2, <2>3, <2>4
<1> QED BY <1>3, <1>4

(* The enum types of a renamed table's columns follow. *)
LEMMA LinkedRenamed ==
    ASSUME NEW c \in Fits, NEW newName \in TableNames, NEW ids, Len(ids) \in Nat,
           \A k \in 1 .. Len(ids) : ids[k] \in 1 .. Len(c.cols)
    PROVE  Each(c, ids, LAMBDA e, id : IF e.cols[id].linked THEN renameType(e, e.cols[id].type, EnumName(newName, e.cols[id].name), id) ELSE e)
               \in {d \in Fits : KeepsTables(c, d)}
<1> DEFINE N == Len(ids)
           S == {d \in Fits : KeepsTables(c, d)}
           Step(d, x) == IF d.err THEN d ELSE (IF d.cols[x].linked THEN renameType(d, d.cols[x].type, EnumName(newName, d.cols[x].name), x) ELSE d)
           F == [i \in 1 .. N |-> [d \in S |-> Step(d, ids[i])]]
           h == CHOOSE f : f = [i \in 0 .. N |-> IF i = 0 THEN c ELSE Step(f[i - 1], ids[i])]
<1>0. c \in S /\ N \in Nat /\ \A i \in 1 .. N : \A d \in S : Step(d, ids[i]) \in S
  <2>1. c \in Catalogs
      BY DEF Fits
  <2>2. c \in S
      BY <2>1, FailKeeps DEF KeepsColumns
  <2> SUFFICES ASSUME NEW i \in 1 .. N, NEW d \in S PROVE Step(d, ids[i]) \in S
      BY <2>2
  <2> DEFINE new == renameType(d, d.cols[ids[i]].type, EnumName(newName, d.cols[ids[i]].name), ids[i])
  <2>3. d \in Fits /\ d \in Catalogs /\ KeepsTables(c, d)
      BY DEF Fits
  <2>4. EnumName(newName, d.cols[ids[i]].name) \in TypeNames
    <3>1. d.cols \in Seq(Column) /\ ids[i] \in 1 .. Len(d.cols)
        BY <2>3 DEF Catalogs, KeepsTables
    <3>2. d.cols[ids[i]] \in Column
        BY <3>1
    <3>3. d.cols[ids[i]].name \in ColNames
        BY <3>2 DEF Column
    <3> QED BY <3>3 DEF TypeNames
  <2>5. new \in Fits /\ KeepsTables(d, new)
      BY <2>3, <2>4, RenameTypeFits
  <2> HIDE DEF new
  <2>6. KeepsTables(c, new)
      BY <2>1, <2>3, <2>5, KeepsOn
  <2>7. new \in S
      BY <2>5, <2>6
  <2> HIDE DEF S
  <2> QED BY <2>7 DEF new
<1>1. F \in [1 .. N -> [S -> S]] /\ N \in Nat
    BY <1>0
<1>2. Each(c, ids, LAMBDA e, id : IF e.cols[id].linked THEN renameType(e, e.cols[id].type, EnumName(newName, e.cols[id].name), id) ELSE e) = h[N]
    BY DEF Each, Loop
<1> HIDE DEF F, N, h
<1>3. PICK g : Records(g, S, c, N, F)
    BY <1>0, <1>1, LoopIs
<1>4. g = [i \in 0 .. N |-> IF i = 0 THEN c ELSE Step(g[i - 1], ids[i])]
  <2> HIDE DEF Step
  <2>1. \A i \in 1 .. N : i - 1 \in 0 .. N /\ g[i - 1] \in S
      BY <1>1, <1>3 DEF Records
  <2>2. \A i \in 1 .. N : F[i][g[i - 1]] = Step(g[i - 1], ids[i])
      BY <2>1 DEF F
  <2>3. \A i \in 0 .. N : g[i] = IF i = 0 THEN c ELSE Step(g[i - 1], ids[i])
      BY <1>1, <1>3, <2>2 DEF Records
  <2>4. g = [i \in 0 .. N |-> g[i]]
      BY <1>3 DEF Records
  <2> QED BY <2>3, <2>4
<1> HIDE DEF Step
<1>5. h = [i \in 0 .. N |-> IF i = 0 THEN c ELSE Step(h[i - 1], ids[i])]
    BY <1>4 DEF h
<1>6. Obeys(h, S, c, N, F)
    BY <1>1, <1>5 DEF F, Obeys
<1>7. h[N] \in S
    BY <1>0, <1>1, <1>6, LoopStays
<1> QED BY <1>2, <1>7

LEMMA RenameTableFits ==
    ASSUME NEW c \in Fits, NEW rel, NEW newName \in TableNames, NEW missingOk \in BOOLEAN
    PROVE  renameTable(c, rel, newName, missingOk) \in Within(c)
<1> DEFINE at == getTable(c, rel)
           d == [c EXCEPT !.schemas[at.s].tables[at.t].rel.name = newName]
           there == schemaTable(c.schemas[at.s], newName)
           e == Each(d, tableAt(d, at).cols, LAMBDA e, id :
                    IF e.cols[id].linked
                    THEN renameType(e, e.cols[id].type, EnumName(newName, e.cols[id].name), id)
                    ELSE e)
           r == renameTable(c, rel, newName, missingOk)
<1>1. r = CASE at.t = 0 -> checkMissing(c, missingOk)
            [] at.t # 0 /\ there # 0 -> Fail(c)
            [] OTHER -> e
    BY DEF renameTable
<1>2. c \in Catalogs
    BY DEF Fits
<1>3. CASE at.t = 0
  <2> HIDE DEF at, d, there, e, r
  <2>1. r = checkMissing(c, missingOk)
      BY <1>1, <1>3
  <2> QED BY <2>1, WithinSelf DEF r
<1>4. CASE at.t # 0
  <2>1. /\ at.s \in DOMAIN c.schemas /\ at.t \in DOMAIN c.schemas[at.s].tables
      BY <1>2, <1>4, TableAt
  <2>2. r = Fail(c) \/ (there = 0 /\ r = e)
    <3> HIDE DEF at, d, there, e, r
    <3> QED BY <1>1, <1>4
  <2> HIDE DEF at, r
  <2>3. CASE r = Fail(c)
      BY <2>3, WithinSelf DEF r
  <2>4. CASE there = 0 /\ r = e
    <3> DEFINE old == tableAt(c, at)
               w == [old EXCEPT !.rel.name = newName]
    <3>1. c \in Holding(c, at.s, at.t) /\ c.schemas[at.s] \in Schema
        BY <1>2, <2>1, WithinSelf DEF Holding, Catalogs
    <3>2. old = c.schemas[at.s].tables[at.t] /\ old \in Table /\ Suits(c, at.s, old)
        BY <3>1, Held
    <3>3. \A l \in DOMAIN c.schemas[at.s].tables : c.schemas[at.s].tables[l].rel.name # newName
        BY <2>4, <3>1, TableFound
    <3>4. d = [c EXCEPT !.schemas[at.s].tables[at.t] = w]
        BY <3>2
    <3>5. w \in Table /\ w.cols = old.cols /\ w.rel.name = newName /\ w.rel.schema = old.rel.schema
        BY <3>2 DEF Table
    <3> HIDE DEF w, old, d
    <3>6. Suits(c, at.s, w)
        BY <3>2, <3>5 DEF Suits
    <3>7. \A k \in DOMAIN w.cols : Holds(c.schemas[at.s].tables[at.t], w.cols[k])
        BY <3>2, <3>5 DEF Holds
    <3>8. [c EXCEPT !.schemas[at.s].tables[at.t] = w] \in Holding(c, at.s, at.t)
        BY <2>1, WithinSelf, <3>3, <3>5, <3>6, <3>7, TableReplaced
    <3>9. d \in Holding(c, at.s, at.t)
        BY <3>4, <3>8
    <3>10. d \in Fits /\ tableAt(d, at) \in Table /\ Suits(d, at.s, tableAt(d, at))
        BY <3>9, Held
    <3>11. /\ Len(tableAt(d, at).cols) \in Nat
           /\ \A k \in 1 .. Len(tableAt(d, at).cols) : tableAt(d, at).cols[k] \in 1 .. Len(d.cols)
      <4> DEFINE ids == tableAt(d, at).cols
      <4>1. ids \in Seq(Nat) /\ \A k \in DOMAIN ids : ids[k] \in 1 .. Len(d.cols)
          BY <3>10 DEF Suits, Table
      <4> HIDE DEF ids
      <4>2. Len(ids) \in Nat /\ \A k \in 1 .. Len(ids) : ids[k] \in 1 .. Len(d.cols)
          BY <4>1
      <4> QED BY <4>2 DEF ids
    <3>12. e \in Fits /\ KeepsTables(d, e)
        BY <3>10, <3>11, LinkedRenamed
    <3> HIDE DEF e
    <3>13. e \in Within(c)
        BY <3>9, <3>12, KeepsWithin DEF Holding
    <3> QED BY <2>4, <3>13 DEF r
  <2> QED BY <2>2, <2>3, <2>4
<1> QED BY <1>3, <1>4

LEMMA RenameTablesFits ==
    ASSUME NEW c \in Fits, NEW items, Len(items) \in Nat,
           \A k \in 1 .. Len(items) : items[k][2] \in TableNames
    PROVE  Each(c, items, LAMBDA d, x : renameTable(d, x[1], x[2], FALSE)) \in Within(c)
<1>a. c \in Within(c)
    BY WithinSelf
<1>b. ASSUME NEW d \in Within(c), NEW x, x[2] \in TableNames PROVE renameTable(d, x[1], x[2], FALSE) \in Within(c)
  <2>1. d \in Fits
      BY DEF Within
  <2>2. renameTable(d, x[1], x[2], FALSE) \in Within(d)
      BY <1>b, <2>1, RenameTableFits
  <2> QED BY <2>2, WithinOn
<1> DEFINE N == Len(items)
           S == Within(c)
           Step(d, x) == IF d.err THEN d ELSE renameTable(d, x[1], x[2], FALSE)
           F == [i \in 1 .. N |-> [d \in S |-> Step(d, items[i])]]
           h == CHOOSE f : f = [i \in 0 .. N |-> IF i = 0 THEN c ELSE Step(f[i - 1], items[i])]
<1>1. F \in [1 .. N -> [S -> S]] /\ N \in Nat
    BY <1>b
<1>2. Each(c, items, LAMBDA d, x : renameTable(d, x[1], x[2], FALSE)) = h[N]
    BY DEF Each, Loop
<1> HIDE DEF F, N, h
<1>3. PICK g : Records(g, S, c, N, F)
    BY <1>1, <1>a, LoopIs
<1>4. g = [i \in 0 .. N |-> IF i = 0 THEN c ELSE Step(g[i - 1], items[i])]
  <2> HIDE DEF Step
  <2>1. \A i \in 1 .. N : i - 1 \in 0 .. N /\ g[i - 1] \in S
      BY <1>1, <1>3 DEF Records
  <2>2. \A i \in 1 .. N : F[i][g[i - 1]] = Step(g[i - 1], items[i])
      BY <2>1 DEF F
  <2>3. \A i \in 0 .. N : g[i] = IF i = 0 THEN c ELSE Step(g[i - 1], items[i])
      BY <1>1, <1>3, <2>2 DEF Records
  <2>4. g = [i \in 0 .. N |-> g[i]]
      BY <1>3 DEF Records
  <2> QED BY <2>3, <2>4
<1> HIDE DEF Step
<1>5. h = [i \in 0 .. N |-> IF i = 0 THEN c ELSE Step(h[i - 1], items[i])]
    BY <1>4 DEF h
<1>6. Obeys(h, S, c, N, F)
    BY <1>1, <1>5 DEF F, Obeys
<1>7. h[N] \in S
    BY <1>1, <1>6, <1>a, LoopStays
<1> QED BY <1>2, <1>7

--------------------------------------------------------------------------------
(* CREATE SCHEMA and DROP SCHEMA.                                          *)

Bare(s) == s.tables = <<>> /\ s.types = <<>>

(* The schemas become ss: each is bare, or the one that was at P. *)
LEMMA SchemasSet ==
    ASSUME NEW c \in Fits, NEW ss \in Seq(Schema), NEW P,
           \A i \in DOMAIN ss : Bare(ss[i]) \/ (P[i] \in DOMAIN c.schemas /\ ss[i] = c.schemas[P[i]]),
           \A i, m \in DOMAIN ss : P[i] = P[m] => i = m
    PROVE  [c EXCEPT !.schemas = ss] \in Fits
<1> DEFINE d == [c EXCEPT !.schemas = ss]
<1>1. d \in Catalogs /\ d.schemas = ss /\ d.cols = c.cols /\ d.err = c.err
    BY DEF Fits, Catalogs
<1> HIDE DEF d
<1>2. \A i \in DOMAIN ss : Bare(ss[i]) =>
          (\A j : j \notin DOMAIN ss[i].tables) /\ (\A j : j \notin DOMAIN ss[i].types)
    BY DEF Bare
<1>3. Unique(d)
  <2> SUFFICES ASSUME NEW i \in DOMAIN ss
               PROVE  UniqueTables(ss[i].tables) /\ UniqueTypes(ss[i].types)
      BY <1>1 DEF Unique
  <2>1. CASE Bare(ss[i])
      BY <1>2, <2>1 DEF UniqueTables, UniqueTypes
  <2>2. CASE P[i] \in DOMAIN c.schemas /\ ss[i] = c.schemas[P[i]]
      BY <2>2 DEF Fits, Unique
  <2> QED BY <2>1, <2>2
<1>4. Pointers(d)
  <2> SUFFICES ASSUME NEW i \in DOMAIN ss PROVE PointsInto(ss[i].tables, Len(c.cols))
      BY <1>1 DEF Pointers
  <2>1. CASE Bare(ss[i])
      BY <1>2, <2>1 DEF PointsInto
  <2>2. CASE P[i] \in DOMAIN c.schemas /\ ss[i] = c.schemas[P[i]]
      BY <2>2 DEF Fits, Pointers
  <2> QED BY <2>1, <2>2
<1>5. ASSUME Disjoint(c) PROVE Disjoint(d)
  <2> SUFFICES ASSUME NEW i \in DOMAIN ss, NEW m \in DOMAIN ss, NEW j \in DOMAIN ss[i].tables,
                      NEW n \in DOMAIN ss[m].tables, i # m \/ j # n
               PROVE  Apart(ss[i].tables[j], ss[m].tables[n])
      BY <1>1 DEF Disjoint
  <2>1. /\ P[i] \in DOMAIN c.schemas /\ ss[i] = c.schemas[P[i]]
        /\ P[m] \in DOMAIN c.schemas /\ ss[m] = c.schemas[P[m]]
      BY <1>2
  <2>2. P[i] # P[m] \/ j # n
      OBVIOUS
  <2> QED BY <1>5, <2>1, <2>2 DEF Disjoint
<1>6. ASSUME ColumnsUnique(c) PROVE ColumnsUnique(d)
    BY <1>1, <1>2, <1>6 DEF ColumnsUnique
<1>7. ASSUME Agreed(c) PROVE Agreed(d)
  <2> SUFFICES ASSUME NEW i \in DOMAIN ss PROVE ListedIn(ss[i].tables, ss[i].name)
      BY <1>1 DEF Agreed
  <2>1. CASE Bare(ss[i])
      BY <1>2, <2>1 DEF ListedIn
  <2>2. CASE P[i] \in DOMAIN c.schemas /\ ss[i] = c.schemas[P[i]]
      BY <1>7, <2>2 DEF Agreed
  <2> QED BY <2>1, <2>2
<1>8. d \in Fits
    BY <1>1, <1>3, <1>4, <1>5, <1>6, <1>7 DEF Fits
<1> QED BY <1>8 DEF d

LEMMA CreateSchemaFits ==
    ASSUME NEW c \in Fits, NEW name \in SchemaNames, NEW ifNotExists \in BOOLEAN
    PROVE  createSchema(c, name, ifNotExists) \in After(c)
<1> DEFINE s == [name |-> name, tables |-> <<>>, types |-> <<>>]
           ss == Append(c.schemas, s)
           d == [c EXCEPT !.schemas = ss]
           P == [i \in DOMAIN ss |-> i]
<1>1. c.schemas \in Seq(Schema)
    BY DEF Fits, Catalogs
<1>2. s \in Schema /\ Bare(s)
    BY DEF Schema, Bare
<1> HIDE DEF s
<1>3. Longer(ss, c.schemas, s, Schema)
    BY <1>1, <1>2, AppendIs
<1>4. \A i \in DOMAIN ss : P[i] = i
    OBVIOUS
<1>5. \/ createSchema(c, name, ifNotExists) = c
      \/ createSchema(c, name, ifNotExists) = Fail(c)
      \/ createSchema(c, name, ifNotExists) = d
    BY DEF createSchema, s
<1> HIDE DEF ss, P
<1>6. \A i \in DOMAIN ss : Bare(ss[i]) \/ (P[i] \in DOMAIN c.schemas /\ ss[i] = c.schemas[P[i]])
    BY <1>2, <1>3, <1>4 DEF Longer
<1>7. ss \in Seq(Schema) /\ \A i, m \in DOMAIN ss : P[i] = P[m] => i = m
    BY <1>3, <1>4 DEF Longer
<1>8. d \in Fits
    BY <1>6, <1>7, SchemasSet
<1>9. ~Adds(c, d)
  <2>1. d.schemas = ss
      BY DEF Fits, Catalogs
  <2>2. DOMAIN ss # DOMAIN c.schemas
    <3> DEFINE n == Len(c.schemas)
    <3>1. n \in Nat /\ DOMAIN c.schemas = 1 .. n /\ DOMAIN ss = 1 .. n + 1
        BY <1>1, <1>3 DEF Longer
    <3> HIDE DEF n
    <3>2. n + 1 \in 1 .. n + 1 /\ n + 1 \notin 1 .. n
        BY <3>1
    <3> QED BY <3>1, <3>2
  <2> QED BY <2>1, <2>2 DEF Adds
<1> HIDE DEF d
<1>10. d \in After(c) /\ c \in After(c) /\ Fail(c) \in After(c)
    BY <1>8, <1>9, WithinSelf, WithinAfter DEF After
<1> QED BY <1>5, <1>10

(* The catalogs of fewer schemas than c, and those with its own. *)
Fewer(c) == {d \in Fits : d.schemas = c.schemas \/ Len(d.schemas) < Len(c.schemas)}

LEMMA FewerAfter ==
    ASSUME NEW c \in Fits, NEW d \in Fewer(c)
    PROVE  d \in After(c)
<1>1. CASE d.schemas = c.schemas
  <2>1. d \in Within(c)
      BY <1>1, WithinSelf, WithinKept DEF Fewer
  <2> QED BY <2>1, WithinAfter
<1>2. CASE Len(d.schemas) < Len(c.schemas)
  <2> DEFINE m == Len(d.schemas)
             n == Len(c.schemas)
  <2>1. /\ d \in Fits /\ m \in Nat /\ n \in Nat /\ m < n
        /\ DOMAIN d.schemas = 1 .. m /\ DOMAIN c.schemas = 1 .. n
      BY <1>2 DEF Fewer, Fits, Catalogs
  <2> HIDE DEF m, n
  <2>2. n \in 1 .. n /\ n \notin 1 .. m
      BY <2>1
  <2> QED BY <2>1, <2>2 DEF After, Adds
<1> QED BY <1>1, <1>2 DEF Fewer

LEMMA RemoveSchemaFits ==
    ASSUME NEW c \in Fits, NEW name, NEW missingOk \in BOOLEAN
    PROVE  removeSchema(c, name, missingOk) \in Fewer(c)
<1> DEFINE I == {i \in 1 .. Len(c.schemas) : c.schemas[i].name = name}
           idx == Max(I)
           ss == RemoveAt(c.schemas, idx)
           P == [i \in DOMAIN ss |-> Past(i, idx)]
           d == [c EXCEPT !.schemas = ss]
<1>1. c.schemas \in Seq(Schema) /\ Len(c.schemas) \in Nat
    BY DEF Fits, Catalogs
<1>2. I # {} => idx \in 1 .. Len(c.schemas)
    BY <1>1, MaxIs
<1>3. removeSchema(c, name, missingOk) =
          IF (IF I # {} THEN idx ELSE 0) = 0 THEN checkMissing(c, missingOk)
          ELSE [c EXCEPT !.schemas = RemoveAt(@, IF I # {} THEN idx ELSE 0)]
    BY DEF removeSchema, SelectLastInSeq
<1>4. CASE I = {}
  <2>1. removeSchema(c, name, missingOk) = checkMissing(c, missingOk)
      BY <1>3, <1>4
  <2>2. checkMissing(c, missingOk).schemas = c.schemas
      BY DEF checkMissing, Fail, Fits, Catalogs
  <2> QED BY <2>1, <2>2, MissingFits DEF Fewer
<1>5. CASE I # {}
  <2>1. idx \in 1 .. Len(c.schemas) /\ idx # 0
      BY <1>1, <1>2, <1>5
  <2>2. removeSchema(c, name, missingOk) = d
    <3> HIDE DEF idx, I
    <3> QED BY <1>3, <1>5, <2>1
  <2>3. Shorter(ss, c.schemas, idx, Schema)
    <3> HIDE DEF idx
    <3> QED BY <1>1, <2>1, RemoveIs
  <2>4. \A i \in DOMAIN ss : P[i] = Past(i, idx)
      OBVIOUS
  <2> HIDE DEF ss, P, idx
  <2>5. /\ ss \in Seq(Schema)
        /\ \A i \in DOMAIN ss : P[i] \in DOMAIN c.schemas /\ ss[i] = c.schemas[P[i]]
        /\ \A i, m \in DOMAIN ss : P[i] = P[m] => i = m
      BY <2>3, <2>4 DEF Shorter
  <2>6. d \in Fits
      BY <2>5, SchemasSet
  <2>7. d.schemas = ss
      BY DEF Fits, Catalogs
  <2>8. Len(ss) < Len(c.schemas)
      BY <1>1, <2>3 DEF Shorter
  <2> HIDE DEF d
  <2> QED BY <2>2, <2>6, <2>7, <2>8 DEF Fewer
<1> QED BY <1>4, <1>5

LEMMA DropSchemaFits ==
    ASSUME NEW c \in Fits, NEW names, Len(names) \in Nat, NEW missingOk \in BOOLEAN
    PROVE  dropSchema(c, names, missingOk) \in After(c)
<1>a. c \in Fewer(c)
    BY DEF Fewer
<1>b. ASSUME NEW d \in Fewer(c), NEW x PROVE removeSchema(d, x, missingOk) \in Fewer(c)
  <2> DEFINE e == removeSchema(d, x, missingOk)
  <2>1. d \in Fits
      BY DEF Fewer
  <2>2. e \in Fewer(d)
      BY <2>1, RemoveSchemaFits
  <2> HIDE DEF e
  <2> DEFINE k == Len(e.schemas)
             m == Len(d.schemas)
             n == Len(c.schemas)
  <2>3. e \in Fits /\ k \in Nat /\ m \in Nat /\ n \in Nat
      BY <2>1, <2>2 DEF Fewer, Fits, Catalogs
  <2>4. (e.schemas = d.schemas \/ k < m) /\ (d.schemas = c.schemas \/ m < n)
      BY <2>2 DEF Fewer
  <2>5. e.schemas = c.schemas \/ k < n
    <3>1. (e.schemas = d.schemas => k = m) /\ (d.schemas = c.schemas => m = n)
        OBVIOUS
    <3> HIDE DEF k, m, n
    <3> QED BY <2>3, <2>4, <3>1
  <2>6. e \in Fewer(c)
      BY <2>3, <2>5 DEF Fewer
  <2> QED BY <2>6 DEF e
<1> DEFINE N == Len(names)
           S == Fewer(c)
           Step(d, x) == IF d.err THEN d ELSE removeSchema(d, x, missingOk)
           F == [i \in 1 .. N |-> [d \in S |-> Step(d, names[i])]]
           h == CHOOSE f : f = [i \in 0 .. N |-> IF i = 0 THEN c ELSE Step(f[i - 1], names[i])]
<1>1. F \in [1 .. N -> [S -> S]] /\ N \in Nat
    BY <1>b
<1>2. dropSchema(c, names, missingOk) = h[N]
    BY DEF dropSchema, Each, Loop
<1> HIDE DEF F, N, h
<1>3. PICK g : Records(g, S, c, N, F)
    BY <1>1, <1>a, LoopIs
<1>4. g = [i \in 0 .. N |-> IF i = 0 THEN c ELSE Step(g[i - 1], names[i])]
  <2> HIDE DEF Step
  <2>1. \A i \in 1 .. N : i - 1 \in 0 .. N /\ g[i - 1] \in S
      BY <1>1, <1>3 DEF Records
  <2>2. \A i \in 1 .. N : F[i][g[i - 1]] = Step(g[i - 1], names[i])
      BY <2>1 DEF F
  <2>3. \A i \in 0 .. N : g[i] = IF i = 0 THEN c ELSE Step(g[i - 1], names[i])
      BY <1>1, <1>3, <2>2 DEF Records
  <2>4. g = [i \in 0 .. N |-> g[i]]
      BY <1>3 DEF Records
  <2> QED BY <2>3, <2>4
<1> HIDE DEF Step
<1>5. h = [i \in 0 .. N |-> IF i = 0 THEN c ELSE Step(h[i - 1], names[i])]
    BY <1>4 DEF h
<1>6. Obeys(h, S, c, N, F)
    BY <1>1, <1>5 DEF F, Obeys
<1>7. h[N] \in S
    BY <1>1, <1>6, <1>a, LoopStays
<1> QED BY <1>2, <1>7, FewerAfter

--------------------------------------------------------------------------------
(* What the garbage collector leaves.                                      *)

Triples == Nat \X Nat \X Nat

LEMMA BeforeOrders ==
    ASSUME NEW p \in Triples, NEW q \in Triples, NEW r \in Triples
    PROVE  /\ ~Before(p, p) /\ (p = q \/ Before(p, q) \/ Before(q, p))
           /\ Before(p, q) /\ Before(q, r) => Before(p, r)
           /\ Before(p, q) => ~Before(q, p)
<1>1. /\ p = <<p[1], p[2], p[3]>> /\ p[1] \in Nat /\ p[2] \in Nat /\ p[3] \in Nat
      /\ q = <<q[1], q[2], q[3]>> /\ q[1] \in Nat /\ q[2] \in Nat /\ q[3] \in Nat
      /\ r = <<r[1], r[2], r[3]>> /\ r[1] \in Nat /\ r[2] \in Nat /\ r[3] \in Nat
    BY DEF Triples
<1>2. p[1] = q[1] /\ p[2] = q[2] /\ p[3] = q[3] => p = q
    BY <1>1
<1> QED BY <1>1, <1>2 DEF Before

(* Places numbered in their order. *)
Rank(S) == [p \in S |-> Cardinality({q \in S : ~Before(p, q)})]

LEMMA RankNumbers ==
    ASSUME NEW S \in SUBSET Triples, IsFiniteSet(S)
    PROVE  /\ Cardinality(S) \in Nat
           /\ Rank(S) \in [S -> 1 .. Cardinality(S)]
           /\ \A p, q \in S : Rank(S)[p] = Rank(S)[q] => p = q
           /\ \A n \in 1 .. Cardinality(S) : \E p \in S : Rank(S)[p] = n
<1> DEFINE M == Cardinality(S)
           Upto(p) == {q \in S : ~Before(p, q)}
           R == Rank(S)
<1>1. M \in Nat
    BY FS_CardinalityType
<1>2. \A p \in S : R[p] = Cardinality(Upto(p))
    BY DEF Rank
<1>3. ASSUME NEW p \in S
      PROVE  IsFiniteSet(Upto(p)) /\ Cardinality(Upto(p)) \in 1 .. M
  <2>1. Upto(p) \in SUBSET S /\ p \in Upto(p)
      BY BeforeOrders
  <2> HIDE DEF Upto
  <2>2. IsFiniteSet(Upto(p)) /\ Cardinality(Upto(p)) <= M
      BY <2>1, FS_Subset
  <2>3. Cardinality(Upto(p)) \in Nat
      BY <2>2, FS_CardinalityType
  <2>4. Cardinality(Upto(p)) # 0
      BY <2>1, <2>2, FS_EmptySet
  <2> QED BY <1>1, <2>2, <2>3, <2>4
<1>4. R \in [S -> 1 .. M]
    BY <1>2, <1>3 DEF Rank
<1>5. ASSUME NEW p \in S, NEW q \in S, Before(p, q)
      PROVE  Cardinality(Upto(p)) # Cardinality(Upto(q))
  <2>1. Upto(p) \in SUBSET Upto(q)
      BY <1>5, BeforeOrders
  <2>2. q \in Upto(q) /\ q \notin Upto(p)
      BY <1>5, BeforeOrders
  <2> HIDE DEF Upto
  <2> QED BY <1>3, <2>1, <2>2, FS_Subset
<1>6. \A p, q \in S : R[p] = R[q] => p = q
  <2> HIDE DEF Upto, R
  <2> QED BY <1>2, <1>5, BeforeOrders
<1> HIDE DEF R, M
<1>7. R \in Injection(S, 1 .. M)
    BY <1>4, <1>6 DEF Injection, IsInjective
<1>8. IsFiniteSet(1 .. M) /\ Cardinality(1 .. M) = M
  <2>1. 1 \in Int /\ M \in Int
      BY <1>1
  <2>2. IsFiniteSet(1 .. M) /\ Cardinality(1 .. M) = IF 1 > M THEN 0 ELSE M - 1 + 1
      BY <2>1, FS_Interval
  <2> QED BY <1>1, <2>2
<1>9. R \in Surjection(S, 1 .. M)
    BY <1>7, <1>8, FS_Injection DEF M
<1>10. \A n \in 1 .. M : \E p \in S : R[p] = n
    BY <1>9 DEF Surjection
<1> QED BY <1>1, <1>4, <1>6, <1>10 DEF R, M

LEMMA PlacesAre ==
    ASSUME NEW c \in Fits
    PROVE  /\ \A i \in DOMAIN c.schemas : \A j \in DOMAIN c.schemas[i].tables :
                  \A k \in DOMAIN c.schemas[i].tables[j].cols :
                      /\ <<i, j, k>> \in Places(c)
                      /\ At(c, <<i, j, k>>) = c.schemas[i].tables[j].cols[k]
           /\ \A p \in Places(c) : p \in Triples /\ At(c, p) \in 1 .. Len(c.cols)
<1>1. ASSUME NEW i \in DOMAIN c.schemas, NEW j \in DOMAIN c.schemas[i].tables,
             NEW k \in DOMAIN c.schemas[i].tables[j].cols
      PROVE  /\ <<i, j, k>> \in Places(c) /\ <<i, j, k>> \in Triples
             /\ At(c, <<i, j, k>>) = c.schemas[i].tables[j].cols[k]
             /\ At(c, <<i, j, k>>) \in 1 .. Len(c.cols)
  <2>1. <<i, j, k>> \in Places(c)
      BY DEF Places
  <2>2. i \in Nat /\ c.schemas[i] \in Schema
      BY DEF Fits, Catalogs
  <2>3. c.schemas[i].tables \in Seq(Table)
      BY <2>2 DEF Schema
  <2>4. j \in Nat /\ c.schemas[i].tables[j] \in Table
      BY <2>3
  <2>5. c.schemas[i].tables[j].cols \in Seq(Nat)
      BY <2>4 DEF Table
  <2>6. k \in Nat
      BY <2>5
  <2>7. At(c, <<i, j, k>>) = c.schemas[i].tables[j].cols[k]
      BY DEF At
  <2>8. c.schemas[i].tables[j].cols[k] \in 1 .. Len(c.cols)
      BY DEF Fits, Pointers, PointsInto
  <2> QED BY <2>1, <2>2, <2>4, <2>6, <2>7, <2>8 DEF Triples
<1>2. ASSUME NEW p \in Places(c)
      PROVE  p \in Triples /\ At(c, p) \in 1 .. Len(c.cols)
  <2>1. PICK i \in DOMAIN c.schemas :
            p \in UNION {{<<i, j, k>> : k \in DOMAIN c.schemas[i].tables[j].cols} :
                             j \in DOMAIN c.schemas[i].tables}
      BY <1>2, Zenon DEF Places
  <2>2. PICK j \in DOMAIN c.schemas[i].tables :
            p \in {<<i, j, k>> : k \in DOMAIN c.schemas[i].tables[j].cols}
      BY <2>1, Zenon
  <2>3. PICK k \in DOMAIN c.schemas[i].tables[j].cols : p = <<i, j, k>>
      BY <2>2
  <2> QED BY <1>1, <2>3
<1> QED BY <1>1, <1>2

(* The walk meets every column of a table, each for the first time once. *)
LEMMA FirstsAre ==
    ASSUME NEW c \in Fits
    PROVE  /\ Firsts(c) \in SUBSET Triples /\ IsFiniteSet(Firsts(c))
           /\ \A p \in Firsts(c) : At(c, p) \in 1 .. Len(c.cols)
           /\ \A p, q \in Firsts(c) : At(c, p) = At(c, q) => p = q
           /\ \A p \in Places(c) : \E q \in Firsts(c) : At(c, q) = At(c, p)
<1> DEFINE F == Firsts(c)
           I == 1 .. Len(c.cols)
           f == [p \in F |-> At(c, p)]
<1>1. \A p \in Places(c) : p \in Triples /\ At(c, p) \in I
    BY PlacesAre
<1>2. F \in SUBSET Places(c)
    BY DEF Firsts
<1>3. F \in SUBSET Triples /\ \A p \in F : At(c, p) \in I
    BY <1>1, <1>2
<1>4. \A p, q \in F : At(c, p) = At(c, q) => p = q
  <2>1. \A p, q \in F : At(c, p) = At(c, q) => ~Before(p, q) /\ ~Before(q, p)
      BY DEF Firsts
  <2> HIDE DEF F
  <2> QED BY <1>3, <2>1, BeforeOrders
<1>5. IsFiniteSet(F)
  <2>1. Len(c.cols) \in Nat
      BY DEF Fits, Catalogs
  <2>2. IsFiniteSet(I)
      BY <2>1, FS_Interval
  <2>3. f \in [F -> I] /\ \A p \in F : f[p] = At(c, p)
      BY <1>3
  <2> HIDE DEF f, F, I
  <2>4. f \in Injection(F, I)
      BY <1>4, <2>3 DEF Injection, IsInjective
  <2> QED BY <2>2, <2>4, FS_Injection
<1>6. ASSUME NEW p \in Places(c) PROVE \E q \in F : At(c, q) = At(c, p)
  <2> DEFINE Q == {q \in Places(c) : At(c, q) = At(c, p)}
             X == {q[1] : q \in Q}
  <2>1. Q \in SUBSET Triples /\ p \in Q
      BY <1>1
  <2>2. X \in SUBSET Nat /\ X # {}
      BY <2>1 DEF Triples
  <2>3. PICK x \in X : \A m \in X : x <= m
    <3> HIDE DEF X
    <3> QED BY <2>2, LeastNat
  <2> DEFINE Y == {q[2] : q \in {q \in Q : q[1] = x}}
  <2>4. Y \in SUBSET Nat /\ Y # {}
      BY <2>1, <2>3 DEF Triples
  <2>5. PICK y \in Y : \A m \in Y : y <= m
    <3> HIDE DEF Y
    <3> QED BY <2>4, LeastNat
  <2> DEFINE Z == {q[3] : q \in {q \in Q : q[1] = x /\ q[2] = y}}
  <2>6. Z \in SUBSET Nat /\ Z # {}
      BY <2>1, <2>5 DEF Triples
  <2>7. PICK z \in Z : \A m \in Z : z <= m
    <3> HIDE DEF Z
    <3> QED BY <2>6, LeastNat
  <2>8. PICK q \in Q : q[1] = x /\ q[2] = y /\ q[3] = z
      BY <2>7
  <2>9. ASSUME NEW r \in Q PROVE ~Before(r, q)
    <3>1. /\ r[1] \in Nat /\ r[2] \in Nat /\ r[3] \in Nat
          /\ q[1] \in Nat /\ q[2] \in Nat /\ q[3] \in Nat
        BY <2>1 DEF Triples
    <3>2. x <= r[1]
        BY <2>3
    <3>3. r[1] = x => y <= r[2]
        BY <2>5
    <3>4. r[1] = x /\ r[2] = y => z <= r[3]
        BY <2>7
    <3> HIDE DEF Q, X, Y, Z
    <3> QED BY <2>8, <3>1, <3>2, <3>3, <3>4 DEF Before
  <2>10. q \in F /\ At(c, q) = At(c, p)
      BY <2>9 DEF Firsts
  <2> QED BY <2>10
<1> QED BY <1>3, <1>4, <1>5, <1>6

LEMMA SameLength ==
    ASSUME NEW T, NEW s \in Seq(T), NEW t \in Seq(T), DOMAIN s = DOMAIN t
    PROVE  Len(s) = Len(t)
<1> DEFINE m == Len(s)
           n == Len(t)
<1>1. m \in Nat /\ n \in Nat /\ 1 .. m = 1 .. n
    OBVIOUS
<1> HIDE DEF m, n
<1>2. (m > n => m \in 1 .. m /\ m \notin 1 .. n) /\ (n > m => n \in 1 .. n /\ n \notin 1 .. m)
    BY <1>1
<1>3. m = n
    BY <1>1, <1>2
<1> QED BY <1>3 DEF m, n

(* Every place has the column it had. *)
Renumbered(c, e) ==
    /\ DOMAIN e.schemas = DOMAIN c.schemas
    /\ \A i \in DOMAIN c.schemas :
           /\ Len(e.schemas[i].tables) = Len(c.schemas[i].tables)
           /\ \A j \in DOMAIN c.schemas[i].tables :
                  \A k \in DOMAIN c.schemas[i].tables[j].cols :
                      e.cols[e.schemas[i].tables[j].cols[k]] = c.cols[c.schemas[i].tables[j].cols[k]]

(* Columns get new numbers, different ones different numbers, and nothing *)
(* else changes. *)
LEMMA RenumberedFits ==
    ASSUME NEW c \in Fits, NEW e \in Catalogs, NEW New, e.err = c.err,
           DOMAIN e.schemas = DOMAIN c.schemas,
           \A i \in DOMAIN c.schemas :
               /\ e.schemas[i].name = c.schemas[i].name /\ e.schemas[i].types = c.schemas[i].types
               /\ DOMAIN e.schemas[i].tables = DOMAIN c.schemas[i].tables
               /\ \A j \in DOMAIN c.schemas[i].tables :
                      /\ e.schemas[i].tables[j].rel = c.schemas[i].tables[j].rel
                      /\ DOMAIN e.schemas[i].tables[j].cols = DOMAIN c.schemas[i].tables[j].cols
                      /\ \A k \in DOMAIN c.schemas[i].tables[j].cols :
                             e.schemas[i].tables[j].cols[k] = New[c.schemas[i].tables[j].cols[k]],
           \A p \in Places(c) : /\ New[At(c, p)] \in 1 .. Len(e.cols)
                                /\ e.cols[New[At(c, p)]] = c.cols[At(c, p)],
           \A p, q \in Places(c) : New[At(c, p)] = New[At(c, q)] => At(c, p) = At(c, q)
    PROVE  e \in Fits /\ Renumbered(c, e)
<1> DEFINE tab(d, i, j) == d.schemas[i].tables[j]
<1>1. \A i \in DOMAIN c.schemas : \A j \in DOMAIN c.schemas[i].tables :
          \A k \in DOMAIN c.schemas[i].tables[j].cols :
              /\ <<i, j, k>> \in Places(c)
              /\ At(c, <<i, j, k>>) = c.schemas[i].tables[j].cols[k]
    BY PlacesAre
<1>2. ASSUME NEW i \in DOMAIN c.schemas, NEW j \in DOMAIN c.schemas[i].tables,
             NEW k \in DOMAIN c.schemas[i].tables[j].cols
      PROVE  /\ tab(e, i, j).cols[k] \in 1 .. Len(e.cols)
             /\ e.cols[tab(e, i, j).cols[k]] = c.cols[tab(c, i, j).cols[k]]
             /\ tab(e, i, j).cols[k] = New[tab(c, i, j).cols[k]]
  <2>1. <<i, j, k>> \in Places(c) /\ At(c, <<i, j, k>>) = tab(c, i, j).cols[k]
      BY <1>1
  <2>2. tab(e, i, j).cols[k] = New[tab(c, i, j).cols[k]]
      OBVIOUS
  <2>3. /\ New[tab(c, i, j).cols[k]] \in 1 .. Len(e.cols)
        /\ e.cols[New[tab(c, i, j).cols[k]]] = c.cols[tab(c, i, j).cols[k]]
      BY <2>1
  <2> QED BY <2>2, <2>3
<1>3. ASSUME NEW i \in DOMAIN c.schemas, NEW j \in DOMAIN c.schemas[i].tables,
             NEW k \in DOMAIN c.schemas[i].tables[j].cols,
             NEW m \in DOMAIN c.schemas, NEW n \in DOMAIN c.schemas[m].tables,
             NEW l \in DOMAIN c.schemas[m].tables[n].cols,
             tab(e, i, j).cols[k] = tab(e, m, n).cols[l]
      PROVE  tab(c, i, j).cols[k] = tab(c, m, n).cols[l]
  <2>1. /\ <<i, j, k>> \in Places(c) /\ At(c, <<i, j, k>>) = tab(c, i, j).cols[k]
        /\ <<m, n, l>> \in Places(c) /\ At(c, <<m, n, l>>) = tab(c, m, n).cols[l]
      BY <1>1
  <2>2. New[tab(c, i, j).cols[k]] = New[tab(c, m, n).cols[l]]
      BY <1>2, <1>3
  <2> QED BY <2>1, <2>2
<1>4. Unique(e)
  <2>1. \A i \in DOMAIN c.schemas : UniqueTables(c.schemas[i].tables) /\ UniqueTypes(c.schemas[i].types)
      BY DEF Fits, Unique
  <2>2. \A i \in DOMAIN c.schemas : UniqueTables(e.schemas[i].tables)
      BY <2>1 DEF UniqueTables
  <2> QED BY <2>1, <2>2 DEF Unique
<1>5. Pointers(e)
    BY <1>2 DEF Pointers, PointsInto
<1>6. ASSUME Disjoint(c) PROVE Disjoint(e)
  <2> SUFFICES ASSUME NEW i \in DOMAIN c.schemas, NEW m \in DOMAIN c.schemas,
                      NEW j \in DOMAIN c.schemas[i].tables, NEW n \in DOMAIN c.schemas[m].tables,
                      i # m \/ j # n
               PROVE  Apart(tab(e, i, j), tab(e, m, n))
      BY DEF Disjoint
  <2>1. Apart(tab(c, i, j), tab(c, m, n))
      BY <1>6 DEF Disjoint
  <2>2. /\ DOMAIN tab(e, i, j).cols = DOMAIN tab(c, i, j).cols
        /\ DOMAIN tab(e, m, n).cols = DOMAIN tab(c, m, n).cols
      OBVIOUS
  <2>3. ASSUME NEW k \in DOMAIN tab(c, i, j).cols, NEW l \in DOMAIN tab(c, m, n).cols
        PROVE  tab(e, i, j).cols[k] # tab(e, m, n).cols[l]
    <3>1. tab(c, i, j).cols[k] # tab(c, m, n).cols[l]
        BY <2>1 DEF Apart
    <3> QED BY <1>3, <3>1
  <2> QED BY <2>2, <2>3 DEF Apart
<1>7. ASSUME ColumnsUnique(c) PROVE ColumnsUnique(e)
  <2> SUFFICES ASSUME NEW i \in DOMAIN c.schemas, NEW j \in DOMAIN c.schemas[i].tables
               PROVE  UniqueColumns(tab(e, i, j).cols, e.cols)
      BY DEF ColumnsUnique
  <2>1. UniqueColumns(tab(c, i, j).cols, c.cols)
      BY <1>7 DEF ColumnsUnique
  <2>2. DOMAIN tab(e, i, j).cols = DOMAIN tab(c, i, j).cols
      OBVIOUS
  <2>3. \A k \in DOMAIN tab(c, i, j).cols :
            e.cols[tab(e, i, j).cols[k]] = c.cols[tab(c, i, j).cols[k]]
      BY <1>2
  <2> QED BY <2>1, <2>2, <2>3 DEF UniqueColumns
<1>8. ASSUME Agreed(c) PROVE Agreed(e)
    BY <1>8 DEF Agreed, ListedIn
<1>9. e \in Fits
    BY <1>4, <1>5, <1>6, <1>7, <1>8 DEF Fits
<1>10. ASSUME NEW i \in DOMAIN c.schemas PROVE Len(e.schemas[i].tables) = Len(c.schemas[i].tables)
  <2>1. c.schemas[i] \in Schema /\ e.schemas[i] \in Schema
      BY DEF Fits, Catalogs
  <2>2. c.schemas[i].tables \in Seq(Table) /\ e.schemas[i].tables \in Seq(Table)
      BY <2>1 DEF Schema
  <2>3. DOMAIN e.schemas[i].tables = DOMAIN c.schemas[i].tables
      OBVIOUS
  <2> QED BY <2>2, <2>3, SameLength
<1>11. Renumbered(c, e)
    BY <1>2, <1>10 DEF Renumbered
<1> QED BY <1>9, <1>11

LEMMA CollectFits ==
    ASSUME NEW c \in Fits
    PROVE  Collect(c) \in Fits /\ Collect(c).err = c.err /\ Renumbered(c, Collect(c))
<1> DEFINE F == Firsts(c)
           M == Cardinality(F)
           R == Rank(F)
           rank(p) == Cardinality({q \in F : ~Before(p, q)})
           pick(id) == CHOOSE p \in F : At(c, p) = id
           new(id) == rank(pick(id))
           table(t) == [t EXCEPT !.cols = [k \in DOMAIN t.cols |-> new(t.cols[k])]]
           schema(s) == [s EXCEPT !.tables = [j \in DOMAIN s.tables |-> table(s.tables[j])]]
           from(n) == CHOOSE p \in F : rank(p) = n
           cs == [n \in 1 .. M |-> c.cols[At(c, from(n))]]
           ss == [i \in DOMAIN c.schemas |-> schema(c.schemas[i])]
           New == [id \in 1 .. Len(c.cols) |-> new(id)]
           e == Collect(c)
<1>1. e = [c EXCEPT !.cols = cs, !.schemas = ss]
    BY DEF Collect
<1>2. c \in Catalogs /\ c.cols \in Seq(Column) /\ c.schemas \in Seq(Schema)
    BY DEF Fits, Catalogs
<1>3. /\ F \in SUBSET Triples /\ IsFiniteSet(F)
      /\ \A p \in F : At(c, p) \in 1 .. Len(c.cols)
      /\ \A p, q \in F : At(c, p) = At(c, q) => p = q
      /\ \A p \in Places(c) : \E q \in F : At(c, q) = At(c, p)
    BY FirstsAre
<1>4. \A p \in F : R[p] = rank(p)
    BY DEF Rank
<1> HIDE DEF F
<1>5. /\ M \in Nat
      /\ R \in [F -> 1 .. M]
      /\ \A p, q \in F : R[p] = R[q] => p = q
      /\ \A n \in 1 .. M : \E p \in F : R[p] = n
    BY <1>3, RankNumbers
<1> HIDE DEF M, R, rank
<1>6. \A n \in 1 .. M : from(n) \in F /\ rank(from(n)) = n
  <2> SUFFICES ASSUME NEW n \in 1 .. M PROVE from(n) \in F /\ rank(from(n)) = n
      OBVIOUS
  <2>1. \E p \in F : rank(p) = n
      BY <1>4, <1>5
  <2> QED BY <2>1
<1>7. ASSUME NEW q \in F PROVE rank(q) \in 1 .. M /\ from(rank(q)) = q
  <2>1. rank(q) \in 1 .. M
      BY <1>4, <1>5
  <2>2. from(rank(q)) \in F /\ rank(from(rank(q))) = rank(q)
      BY <1>6, <2>1
  <2> HIDE DEF from
  <2> QED BY <1>4, <1>5, <2>1, <2>2
<1>8. ASSUME NEW p \in Places(c)
      PROVE  pick(At(c, p)) \in F /\ At(c, pick(At(c, p))) = At(c, p)
  <2>1. \E q \in F : At(c, q) = At(c, p)
      BY <1>3
  <2> QED BY <2>1
<1> HIDE DEF from, pick
<1>9. cs \in Seq(Column) /\ Len(cs) = M /\ \A n \in 1 .. M : cs[n] = c.cols[At(c, from(n))]
  <2>1. \A n \in 1 .. M : At(c, from(n)) \in 1 .. Len(c.cols)
      BY <1>3, <1>6
  <2>2. \A n \in 1 .. M : c.cols[At(c, from(n))] \in Column
      BY <1>2, <2>1
  <2> QED BY <1>5, <2>2
<1> HIDE DEF cs
<1>10. \A p \in Places(c) : At(c, p) \in 1 .. Len(c.cols)
    BY PlacesAre
<1>11. ASSUME NEW p \in Places(c)
       PROVE  /\ New[At(c, p)] = rank(pick(At(c, p))) /\ new(At(c, p)) = New[At(c, p)]
              /\ New[At(c, p)] \in 1 .. M /\ cs[New[At(c, p)]] = c.cols[At(c, p)]
  <2>1. New[At(c, p)] = rank(pick(At(c, p))) /\ new(At(c, p)) = New[At(c, p)]
      BY <1>10
  <2> HIDE DEF New, new
  <2> QED BY <1>7, <1>8, <1>9, <2>1
<1>12. ASSUME NEW p \in Places(c), NEW q \in Places(c), New[At(c, p)] = New[At(c, q)]
       PROVE  At(c, p) = At(c, q)
  <2> HIDE DEF New, new
  <2>1. pick(At(c, p)) = pick(At(c, q))
      BY <1>7, <1>8, <1>11, <1>12
  <2> QED BY <1>8, <2>1
<1> HIDE DEF New, new
<1>13. ASSUME NEW i \in DOMAIN c.schemas
       PROVE  /\ ss[i] \in Schema
              /\ ss[i].name = c.schemas[i].name /\ ss[i].types = c.schemas[i].types
              /\ DOMAIN ss[i].tables = DOMAIN c.schemas[i].tables
              /\ \A j \in DOMAIN c.schemas[i].tables :
                     ss[i].tables[j] = table(c.schemas[i].tables[j])
              /\ \A j \in DOMAIN c.schemas[i].tables :
                     /\ ss[i].tables[j].rel = c.schemas[i].tables[j].rel
                     /\ DOMAIN ss[i].tables[j].cols = DOMAIN c.schemas[i].tables[j].cols
                     /\ \A k \in DOMAIN c.schemas[i].tables[j].cols :
                            ss[i].tables[j].cols[k] = New[c.schemas[i].tables[j].cols[k]]
  <2> DEFINE s == c.schemas[i]
             ts == [j \in DOMAIN s.tables |-> table(s.tables[j])]
  <2>1. s \in Schema /\ s.tables \in Seq(Table)
    <3>1. s \in Schema
        BY <1>2
    <3> HIDE DEF s
    <3> QED BY <3>1 DEF Schema
  <2>2. ASSUME NEW j \in DOMAIN s.tables
        PROVE  /\ table(s.tables[j]) \in Table
               /\ table(s.tables[j]).rel = s.tables[j].rel
               /\ DOMAIN table(s.tables[j]).cols = DOMAIN s.tables[j].cols
               /\ \A k \in DOMAIN s.tables[j].cols :
                      table(s.tables[j]).cols[k] = New[s.tables[j].cols[k]]
    <3> DEFINE t == s.tables[j]
               ks == [k \in DOMAIN t.cols |-> new(t.cols[k])]
    <3>1. t \in Table /\ t.cols \in Seq(Nat)
      <4>1. t \in Table
          BY <2>1
      <4> HIDE DEF t
      <4> QED BY <4>1 DEF Table
    <3>2. \A k \in DOMAIN t.cols : new(t.cols[k]) = New[t.cols[k]] /\ New[t.cols[k]] \in Nat
      <4>1. \A k \in DOMAIN t.cols : <<i, j, k>> \in Places(c) /\ At(c, <<i, j, k>>) = t.cols[k]
          BY PlacesAre
      <4>2. \A p \in Places(c) : new(At(c, p)) = New[At(c, p)] /\ New[At(c, p)] \in Nat
          BY <1>5, <1>11
      <4> HIDE DEF t
      <4> QED BY <4>1, <4>2
    <3> HIDE DEF t, s
    <3>3. /\ ks \in Seq(Nat) /\ DOMAIN ks = DOMAIN t.cols
          /\ \A k \in DOMAIN t.cols : ks[k] = New[t.cols[k]]
      <4>1. DOMAIN t.cols = 1 .. Len(t.cols) /\ Len(t.cols) \in Nat
          BY <3>1
      <4> QED BY <3>2, <4>1
    <3>4. table(t) = [t EXCEPT !.cols = ks]
        OBVIOUS
    <3> HIDE DEF ks, table
    <3>5. table(t) \in Table /\ table(t).rel = t.rel /\ table(t).cols = ks
        BY <3>1, <3>3, <3>4 DEF Table
    <3> QED BY <3>3, <3>5 DEF t
  <2> HIDE DEF table
  <2>3. ss[i] = [s EXCEPT !.tables = ts]
      OBVIOUS
  <2>4. ts \in Seq(Table) /\ DOMAIN ts = DOMAIN s.tables
        /\ \A j \in DOMAIN s.tables : ts[j] = table(s.tables[j])
    <3>1. DOMAIN s.tables = 1 .. Len(s.tables) /\ Len(s.tables) \in Nat
        BY <2>1
    <3> HIDE DEF s
    <3> QED BY <2>2, <3>1
  <2> HIDE DEF ts, ss, s
  <2>5. ss[i] \in Schema /\ ss[i].name = s.name /\ ss[i].types = s.types /\ ss[i].tables = ts
      BY <2>1, <2>3, <2>4 DEF Schema
  <2>6. \A j \in DOMAIN s.tables :
            /\ ss[i].tables[j] = table(s.tables[j])
            /\ ss[i].tables[j].rel = s.tables[j].rel
            /\ DOMAIN ss[i].tables[j].cols = DOMAIN s.tables[j].cols
            /\ \A k \in DOMAIN s.tables[j].cols :
                   ss[i].tables[j].cols[k] = New[s.tables[j].cols[k]]
      BY <2>2, <2>4, <2>5
  <2> QED BY <2>4, <2>5, <2>6 DEF s
<1>14. ss \in Seq(Schema) /\ DOMAIN ss = DOMAIN c.schemas
  <2>1. DOMAIN c.schemas = 1 .. Len(c.schemas) /\ Len(c.schemas) \in Nat
      BY <1>2
  <2>2. DOMAIN ss = DOMAIN c.schemas /\ ss = [i \in DOMAIN c.schemas |-> ss[i]]
      OBVIOUS
  <2> HIDE DEF ss
  <2> QED BY <1>13, <2>1, <2>2
<1> HIDE DEF ss, e
<1>15. e \in Catalogs /\ e.schemas = ss /\ e.cols = cs /\ e.err = c.err
    BY <1>1, <1>2, <1>9, <1>14 DEF Catalogs
<1>16. e \in Fits /\ Renumbered(c, e)
  <2>1. DOMAIN e.schemas = DOMAIN c.schemas
      BY <1>14, <1>15
  <2>2. \A i \in DOMAIN c.schemas :
               /\ e.schemas[i].name = c.schemas[i].name /\ e.schemas[i].types = c.schemas[i].types
               /\ DOMAIN e.schemas[i].tables = DOMAIN c.schemas[i].tables
               /\ \A j \in DOMAIN c.schemas[i].tables :
                      /\ e.schemas[i].tables[j].rel = c.schemas[i].tables[j].rel
                      /\ DOMAIN e.schemas[i].tables[j].cols = DOMAIN c.schemas[i].tables[j].cols
                      /\ \A k \in DOMAIN c.schemas[i].tables[j].cols :
                             e.schemas[i].tables[j].cols[k] = New[c.schemas[i].tables[j].cols[k]]
      BY <1>13, <1>15
  <2>3. \A p \in Places(c) : /\ New[At(c, p)] \in 1 .. Len(e.cols)
                             /\ e.cols[New[At(c, p)]] = c.cols[At(c, p)]
      BY <1>9, <1>11, <1>15
  <2> QED BY <1>12, <1>15, <2>1, <2>2, <2>3, RenumberedFits
<1> QED BY <1>15, <1>16 DEF e

--------------------------------------------------------------------------------
(* The statements the parsers emit.                                        *)

LEMMA TypeRefsTyped == ASSUME lang \in Langs PROVE ColTypes \cup TypeRefs \subseteq TypeName
<1> SUFFICES ASSUME NEW t \in ColTypes \cup TypeRefs PROVE t \in TypeName
    OBVIOUS
<1>1. ColTypes \cup TypeRefs \subseteq [schema : STRING, name : STRING]
    BY LangsAssumption, Zenon DEF ColTypes, TypeRefs
<1>2. t.schema \in SchemaRefs /\ t.name \in TypeNames
  <2>1. /\ t.schema \in {r.schema : r \in ColTypes \cup TypeRefs}
        /\ t.name \in {r.name : r \in ColTypes \cup TypeRefs}
      OBVIOUS
  <2> QED BY <2>1 DEF SchemaRefs, TypeNames
<1>3. t = [schema |-> t.schema, name |-> t.name]
    BY <1>1
<1> QED BY <1>2, <1>3 DEF TypeName

LEMMA RelsTyped == Rels \subseteq [schema : SchemaRefs, name : TableNames]
BY DEF Rels, SchemaRefs

LEMMA BoundedTyped ==
    ASSUME NEW S, NEW T, S \subseteq T, NEW n, NEW s \in BoundedSeq(S, n)
    PROVE  s \in Seq(T)
<1>1. PICK m \in 0 .. n : s \in [1 .. m -> S]
    BY Zenon DEF BoundedSeq, SeqOf
<1> QED BY <1>1

LEMMA DefListsTyped ==
    ASSUME lang \in Langs, NEW Defs, Defs \subseteq ColDefs, NEW ds \in DefLists(Defs)
    PROVE  ds \in Seq(Def) /\ \A k, l \in 1 .. Len(ds) : ds[k].name = ds[l].name => k = l
<1>1. Defs \subseteq Def
    BY DefsTyped
<1>2. /\ ds \in BoundedSeq(Defs, MaxStmtCols)
      /\ \A i, j \in DOMAIN ds : ds[i].name = ds[j].name => i = j
    BY DEF DefLists
<1>3. ds \in Seq(Def)
    BY <1>1, <1>2, BoundedTyped
<1>4. DOMAIN ds = 1 .. Len(ds)
    BY <1>3
<1> QED BY <1>2, <1>3, <1>4

LEMMA StatementsTyped ==
    ASSUME lang \in Langs, NEW stmt \in CreateTableStmts
    PROVE  Statement(stmt)
<1> DEFINE Inherits == IF Engine = "mysql" THEN {<<>>}
                       ELSE {ps \in BoundedSeq(TableNames, 2) : IsInjective(ps)}
           Refer == IF LikeTables THEN BoundedSeq(Rels, 1) ELSE {<<>>}
<1>1. /\ stmt \in [rel : Rels, ifNotExists : BOOLEAN, inherits : Inherits, refer : Refer,
                   cols : DefLists(ColDefs)]
      /\ Engine = "mysql" => (stmt.refer = <<>>) # (stmt.cols = <<>>)
    BY DEF CreateTableStmts
<1>2. \A x \in Inherits : x \in Seq(TableNames) /\ (Engine = "mysql" => x = <<>>)
  <2>1. \A x \in BoundedSeq(TableNames, 2) : x \in Seq(TableNames)
      BY BoundedTyped
  <2>2. <<>> \in Seq(TableNames)
      OBVIOUS
  <2> QED BY <2>1, <2>2
<1>3. \A x \in Refer : x \in Seq(Rels)
  <2>1. \A x \in BoundedSeq(Rels, 1) : x \in Seq(Rels)
      BY BoundedTyped
  <2>2. <<>> \in Seq(Rels)
      OBVIOUS
  <2> QED BY <2>1, <2>2
<1> HIDE DEF Inherits, Refer
<1>4. /\ stmt.rel \in Rels /\ stmt.ifNotExists \in BOOLEAN /\ stmt.inherits \in Inherits
      /\ stmt.refer \in Refer /\ stmt.cols \in DefLists(ColDefs)
    BY <1>1
<1>5. /\ stmt.cols \in Seq(Def)
      /\ \A k, l \in 1 .. Len(stmt.cols) : stmt.cols[k].name = stmt.cols[l].name => k = l
    BY <1>4, DefListsTyped
<1>6. Engine = "mysql" => stmt.refer = <<>> \/ stmt.cols = <<>>
    BY <1>1
<1>7. stmt.rel \in [schema : SchemaRefs, name : TableNames]
    BY <1>4, RelsTyped
<1> QED BY <1>2, <1>3, <1>4, <1>5, <1>6, <1>7 DEF Statement

LEMMA CommandsTyped ==
    ASSUME lang \in Langs, NEW cmds \in Cmds
    PROVE  Len(cmds) \in Nat /\ \A k \in 1 .. Len(cmds) : Command(cmds[k])
<1> DEFINE names == [op : {"DropColumn"}, name : ColNames, missingOk : BOOLEAN]
           adds  == [op : {"AddColumn"}, def : ColDefs, missingOk : MissingOk]
           other == [op : {"Other"}]
           drop(n) == [op |-> "DropColumn", name |-> n, missingOk |-> FALSE]
           add(d) == [op |-> "AddColumn", def |-> d, missingOk |-> FALSE]
           alters == [op : {"AlterColumnType"}, name : ColNames, type : ColTypes,
                      missingOk : {FALSE}]
           nulls  == [op : {"SetNotNull", "DropNotNull"}, name : ColNames, missingOk : {FALSE}]
           one == names \cup adds \cup other \cup alters \cup nulls
<1>1. ColDefs \subseteq Def /\ ColTypes \subseteq TypeName /\ MissingOk \subseteq BOOLEAN
    BY DefsTyped, TypeRefsTyped DEF MissingOk
<1>2. \A cmd \in one : Command(cmd)
  <2>1. \A cmd \in names : Command(cmd)
      BY DEF Command
  <2>2. \A cmd \in adds : Command(cmd)
      BY <1>1 DEF Command
  <2>3. \A cmd \in other : Command(cmd)
      BY DEF Command
  <2>4. \A cmd \in alters : Command(cmd)
      BY <1>1 DEF Command
  <2>5. \A cmd \in nulls : Command(cmd)
      BY DEF Command
  <2> HIDE DEF names, adds, other, alters, nulls
  <2> QED BY <2>1, <2>2, <2>3, <2>4, <2>5
<1>3. \A n \in ColNames, d \in ColDefs : Command(drop(n)) /\ Command(add(d))
    BY <1>1 DEF Command
<1>4. \/ \E cmd \in one : cmds = <<cmd>>
      \/ \E n \in ColNames, d \in ColDefs : cmds = <<drop(n), add(d)>>
  <2>1. \/ \E cmd \in names \cup adds \cup other : cmds = <<cmd>>
        \/ \E cmd \in alters \cup nulls : cmds = <<cmd>>
        \/ \E n \in ColNames, d \in ColDefs : cmds = <<drop(n), add(d)>>
    <3>1. Cmds = {<<cmd>> : cmd \in names \cup adds \cup other}
                     \cup (IF Engine = "mysql"
                           THEN {<<drop(n), add(d)>> : n \in ColNames, d \in ColDefs}
                           ELSE {<<cmd>> : cmd \in alters \cup nulls})
        BY DEF Cmds
    <3> HIDE DEF names, adds, other, alters, nulls, drop, add
    <3> QED BY <3>1
  <2> HIDE DEF names, adds, other, alters, nulls, drop, add
  <2> QED BY <2>1
<1> HIDE DEF one, drop, add
<1>5. CASE \E cmd \in one : cmds = <<cmd>>
    BY <1>2, <1>5
<1>6. CASE \E n \in ColNames, d \in ColDefs : cmds = <<drop(n), add(d)>>
  <2>1. PICK n \in ColNames, d \in ColDefs : cmds = <<drop(n), add(d)>>
      BY <1>6
  <2>2. Len(cmds) = 2 /\ cmds[1] = drop(n) /\ cmds[2] = add(d)
      BY <2>1
  <2>3. \A k \in 1 .. 2 : k = 1 \/ k = 2
      OBVIOUS
  <2> QED BY <1>3, <2>2, <2>3
<1> QED BY <1>4, <1>5, <1>6

--------------------------------------------------------------------------------
(* The invariant.                                                          *)

LEMMA StateSets ==
    ASSUME lang' = lang
    PROVE  Catalogs' = Catalogs /\ Engine' = Engine
<1>1. /\ SchemaNames' = SchemaNames /\ TableNames' = TableNames /\ ColNames' = ColNames
      /\ ColTypes' = ColTypes /\ TypeRefs' = TypeRefs /\ NewTypeNames' = NewTypeNames
      /\ Labels' = Labels /\ Engine' = Engine
    BY DEF SchemaNames, TableNames, ColNames, ColTypes, TypeRefs, NewTypeNames, Labels, Engine
<1>2. SchemaRefs' = SchemaRefs
    BY <1>1 DEF SchemaRefs
<1>3. TypeNames' = TypeNames
    BY <1>1 DEF TypeNames
<1>4. TypeName' = TypeName
    BY <1>2, <1>3 DEF TypeName
<1>5. Column' = Column
    BY <1>1, <1>4 DEF Column
<1>6. Table' = Table
    BY <1>1, <1>2 DEF Table
<1>7. Type' = Type
    BY <1>1, <1>3 DEF Type
<1>8. Schema' = Schema
    BY <1>1, <1>6, <1>7 DEF Schema
<1> QED BY <1>1, <1>5, <1>8 DEF Catalogs

(* A statement that left a catalog of Fits behind keeps the invariant: an  *)
(* error makes failed true, and the next statement starts without one. *)
LEMMA UpdateKeeps ==
    ASSUME CInv, NEW c \in Fits, Update(c)
    PROVE  CInv'
<1> DEFINE v == IF c = Fail(cat) THEN cat ELSE [Collect(c) EXCEPT !.err = FALSE]
           Good(d) == /\ d \in Catalogs /\ ~d.err /\ Unique(d) /\ Pointers(d)
                      /\ Engine = "mysql" => Disjoint(d) /\ ColumnsUnique(d)
                      /\ failed \/ c.err \/ Agreed(d)
<1>1. lang' = lang /\ cat' = v /\ failed' = (failed \/ c.err)
    BY DEF Update
<1>2. Good(v)
  <2>1. CASE c = Fail(cat)
    <3>1. Good(cat)
        BY DEF CInv, Fits
    <3> HIDE DEF Good
    <3> QED BY <2>1, <3>1
  <2>2. CASE c # Fail(cat)
    <3> DEFINE g == Collect(c)
               w == [g EXCEPT !.err = FALSE]
    <3>1. g \in Fits /\ g.err = c.err
        BY CollectFits
    <3> HIDE DEF g
    <3>2. w \in Catalogs /\ w.schemas = g.schemas /\ w.cols = g.cols /\ w.err = FALSE
        BY <3>1 DEF Fits, Catalogs
    <3> HIDE DEF w
    <3>3. Unique(w) /\ Pointers(w)
        BY <3>1, <3>2 DEF Fits, Unique, Pointers
    <3>4. Engine = "mysql" => Disjoint(w) /\ ColumnsUnique(w)
        BY <3>1, <3>2 DEF Fits, Disjoint, ColumnsUnique
    <3>5. failed \/ c.err \/ Agreed(w)
        BY <3>1, <3>2 DEF Fits, Agreed
    <3>6. Good(w)
        BY <3>2, <3>3, <3>4, <3>5
    <3> HIDE DEF Good
    <3> QED BY <2>2, <3>6 DEF g, w
  <2> HIDE DEF v, Good
  <2> QED BY <2>1, <2>2
<1>3. failed' \in BOOLEAN
  <2>1. c.err \in BOOLEAN /\ failed \in BOOLEAN
      BY DEF Fits, Catalogs, CInv
  <2> HIDE DEF v
  <2> QED BY <1>1, <2>1
<1> HIDE DEF v
<1>4. Catalogs' = Catalogs /\ Engine' = Engine
    BY <1>1, StateSets
<1>5. /\ cat' \in Catalogs' /\ ~cat'.err /\ Unique(cat') /\ Pointers(cat')
      /\ Engine' = "mysql" => Disjoint(cat') /\ ColumnsUnique(cat')
      /\ failed' \/ cat'.err \/ Agreed(cat')
    BY <1>1, <1>2, <1>4
<1>6. cat' \in Fits'
    BY <1>5 DEF Fits
<1> QED BY <1>1, <1>3, <1>5, <1>6 DEF CInv

(* A table that a statement added left all columns as they were, or made   *)
(* them NOT NULL. *)
LEMMA UpdateTightens ==
    ASSUME CInv, NEW c \in After(cat), Update(c), TableAdded,
           NEW i \in DOMAIN cat.schemas, NEW j \in DOMAIN cat.schemas[i].tables,
           NEW k \in DOMAIN cat.schemas[i].tables[j].cols
    PROVE  ColumnAfter(i, j, k) \in
               {cat.cols[cat.schemas[i].tables[j].cols[k]],
                [cat.cols[cat.schemas[i].tables[j].cols[k]] EXCEPT !.notNull = TRUE]}
<1> DEFINE id == cat.schemas[i].tables[j].cols[k]
           g == Collect(c)
           w == [g EXCEPT !.err = FALSE]
<1>1. cat' = IF c = Fail(cat) THEN cat ELSE w
    BY DEF Update
<1>2. c \in Fits /\ (Adds(cat, c) => Tight(cat, c))
    BY DEF After
<1>3. g \in Fits /\ Renumbered(c, g)
    BY <1>2, CollectFits
<1> HIDE DEF g
<1>4. w.schemas = g.schemas /\ w.cols = g.cols
    BY <1>3 DEF Fits, Catalogs
<1> HIDE DEF w
<1>5. CASE c = Fail(cat)
    BY <1>1, <1>5 DEF ColumnAfter
<1>6. CASE c # Fail(cat)
  <2>1. cat'.schemas = g.schemas /\ cat'.cols = g.cols
      BY <1>1, <1>4, <1>6
  <2>2. DOMAIN c.schemas = DOMAIN cat.schemas
      BY <1>3, <2>1 DEF TableAdded, Renumbered
  <2>3. \A m \in DOMAIN cat.schemas : Len(g.schemas[m].tables) = Len(c.schemas[m].tables)
      BY <1>3, <2>2 DEF Renumbered
  <2>4. Adds(cat, c)
      BY <2>1, <2>2, <2>3 DEF TableAdded, Adds
  <2>5. /\ j \in DOMAIN c.schemas[i].tables /\ c.schemas[i].tables[j] = cat.schemas[i].tables[j]
        /\ Tightened(cat, c)
      BY <1>2, <2>4 DEF Tight
  <2>6. g.cols[g.schemas[i].tables[j].cols[k]] = c.cols[id]
      BY <1>3, <2>2, <2>5 DEF Renumbered
  <2>7. id \in 1 .. Len(cat.cols)
      BY DEF CInv, Fits, Pointers, PointsInto
  <2>8. ColumnAfter(i, j, k) = c.cols[id]
      BY <2>1, <2>6 DEF ColumnAfter
  <2> QED BY <2>5, <2>7, <2>8 DEF Tightened
<1> QED BY <1>5, <1>6

(* Every statement is one of the handlers, and each leaves what it may. *)
LEMMA StatementLeaves ==
    ASSUME CInv, Next
    PROVE  \E c \in After(cat) : Update(c)
<1>1. lang \in Langs /\ cat \in Fits
    BY DEF CInv
<1>2. MissingOk \subseteq BOOLEAN
    BY DEF MissingOk
<1>3. \A c \in Within(cat) : c \in After(cat)
    BY <1>1, WithinAfter
<1>0. \A c \in Fits : KeepsTables(cat, c) => c \in After(cat)
    BY <1>1, <1>3, WithinSelf, KeepsWithin
<1>4. CASE CreateSchema
  <2>1. PICK n \in SchemaNames, ine \in BOOLEAN : Update(createSchema(cat, n, ine))
      BY <1>4 DEF CreateSchema
  <2>2. createSchema(cat, n, ine) \in After(cat)
      BY <1>1, <1>2, <2>1, CreateSchemaFits
  <2> QED BY <2>1, <2>2
<1>5. CASE DropSchema
  <2>1. PICK n \in Droppable, ok \in BOOLEAN : Update(dropSchema(cat, <<n>>, ok))
      BY <1>5 DEF DropSchema
  <2>2. Len(<<n>>) \in Nat
      OBVIOUS
  <2>3. dropSchema(cat, <<n>>, ok) \in After(cat)
      BY <1>1, <1>2, <2>1, <2>2, DropSchemaFits
  <2> QED BY <2>1, <2>3
<1>6. CASE CreateTable
  <2>1. PICK stmt \in CreateTableStmts : Update(createTable(cat, stmt))
      BY <1>6 DEF CreateTable
  <2>2. Statement(stmt)
      BY <1>1, StatementsTyped
  <2>3. createTable(cat, stmt) \in After(cat)
      BY <1>1, <1>2, <2>1, <2>2, CreateTableFits
  <2> QED BY <2>1, <2>3
<1>7. CASE CreateTableAs
  <2>1. PICK rel \in Rels, defs \in DefLists(QueryCols) : Update(addRelation(cat, rel, defs, FALSE))
      BY <1>7 DEF CreateTableAs
  <2>2. rel \in [schema : SchemaRefs, name : TableNames]
      BY RelsTyped
  <2>3. QueryCols \subseteq ColDefs
      BY DEF QueryCols
  <2>4. defs \in Seq(Def) /\ \A k, l \in 1 .. Len(defs) : defs[k].name = defs[l].name => k = l
      BY <1>1, <2>3, DefListsTyped
  <2>5. addRelation(cat, rel, defs, FALSE) \in After(cat)
      BY <1>1, <1>2, <2>1, <2>2, <2>4, AddRelationFits
  <2> QED BY <2>1, <2>5
<1>8. CASE CreateView
  <2>1. PICK rel \in Rels, defs \in DefLists(QueryCols), replace \in BOOLEAN : Update(addRelation(cat, rel, defs, replace))
      BY <1>8 DEF CreateView
  <2>2. rel \in [schema : SchemaRefs, name : TableNames]
      BY RelsTyped
  <2>3. QueryCols \subseteq ColDefs
      BY DEF QueryCols
  <2>4. defs \in Seq(Def) /\ \A k, l \in 1 .. Len(defs) : defs[k].name = defs[l].name => k = l
      BY <1>1, <2>3, DefListsTyped
  <2>5. addRelation(cat, rel, defs, replace) \in After(cat)
      BY <1>1, <1>2, <2>1, <2>2, <2>4, AddRelationFits
  <2> QED BY <2>1, <2>5
<1>9. CASE DropTable
  <2>1. PICK rels \in {<<r>> : r \in Rels} \cup {<<r, q>> : r, q \in Rels}, ok \in BOOLEAN : Update(dropTable(cat, rels, ok))
      BY <1>9 DEF DropTable
  <2>2. Len(rels) \in Nat
      OBVIOUS
  <2>3. dropTable(cat, rels, ok) \in After(cat)
      BY <1>1, <1>2, <2>1, <2>2, <1>3, DropTableFits
  <2> QED BY <2>1, <2>3
<1>10. CASE AlterTable
  <2>1. PICK rel \in Rels, cmds \in Cmds, ok \in MissingOk : Update(alterTable(cat, rel, cmds, ok))
      BY <1>10 DEF AlterTable
  <2>2. ok \in BOOLEAN /\ Len(cmds) \in Nat /\ \A k \in 1 .. Len(cmds) : Command(cmds[k])
      BY <1>1, <1>2, CommandsTyped
  <2>3. alterTable(cat, rel, cmds, ok) \in After(cat)
      BY <1>1, <1>2, <2>1, <2>2, <1>3, AlterTableFits
  <2> QED BY <2>1, <2>3
<1>11. CASE RenameColumn
  <2>1. PICK rel \in Rels, col \in ColNames, new \in ColNames, ok \in MissingOk : Update(renameColumn(cat, rel, col, new, ok))
      BY <1>11 DEF RenameColumn
  <2>2. renameColumn(cat, rel, col, new, ok) \in After(cat)
      BY <1>1, <1>2, <2>1, <1>3, RenameColumnFits
  <2> QED BY <2>1, <2>2
<1>12. CASE RenameTable
  <2>1. PICK rel \in Rels, new \in TableNames, ok \in MissingOk : Update(renameTable(cat, rel, new, ok))
      BY <1>12 DEF RenameTable
  <2>2. renameTable(cat, rel, new, ok) \in After(cat)
      BY <1>1, <1>2, <2>1, <1>3, RenameTableFits
  <2> QED BY <2>1, <2>2
<1>13. CASE RenameTables
  <2>1. PICK r \in Rels, q \in Rels, n \in TableNames, m \in TableNames : Update(Each(cat, <<<<r, n>>, <<q, m>>>>, LAMBDA d, x : renameTable(d, x[1], x[2], FALSE)))
      BY <1>13 DEF RenameTables
  <2> DEFINE items == <<<<r, n>>, <<q, m>>>>
  <2>2. Len(items) \in Nat /\ \A k \in 1 .. Len(items) : items[k][2] \in TableNames
      OBVIOUS
  <2>3. Each(cat, <<<<r, n>>, <<q, m>>>>, LAMBDA d, x : renameTable(d, x[1], x[2], FALSE)) \in After(cat)
      BY <1>1, <1>2, <2>1, <2>2, <1>3, RenameTablesFits
  <2> QED BY <2>1, <2>3
<1>14. CASE AlterTableSetSchema
  <2>1. PICK rel \in Rels, n \in SchemaNames, ok \in BOOLEAN : Update(alterTableSetSchema(cat, rel, n, ok))
      BY <1>14 DEF AlterTableSetSchema
  <2>2. Engine # "mysql"
      BY <1>14 DEF AlterTableSetSchema
  <2>3. alterTableSetSchema(cat, rel, n, ok) \in After(cat)
      BY <1>1, <1>2, <2>1, <2>2, AlterTableSetSchemaFits
  <2> QED BY <2>1, <2>3
<1>15. CASE CreateEnum
  <2>1. PICK tn \in TypeRefs, v \in Labels : Update(createType(cat, tn, "enum", <<v>>))
      BY <1>15 DEF CreateEnum
  <2>2. tn.name \in TypeNames
      BY DEF TypeNames
  <2>3. <<v>> \in Seq(Labels)
      OBVIOUS
  <2>4. createType(cat, tn, "enum", <<v>>) \in After(cat)
      BY <1>1, <1>2, <2>1, <2>2, <2>3, <1>0, CreateTypeFits DEF KeepsColumns
  <2> QED BY <2>1, <2>4
<1>16. CASE CreateCompositeType
  <2>1. PICK tn \in TypeRefs : Update(createType(cat, tn, "composite", <<>>))
      BY <1>16 DEF CreateCompositeType
  <2>2. tn.name \in TypeNames
      BY DEF TypeNames
  <2>3. <<>> \in Seq(Labels)
      OBVIOUS
  <2>4. createType(cat, tn, "composite", <<>>) \in After(cat)
      BY <1>1, <1>2, <2>1, <2>2, <2>3, <1>0, CreateTypeFits DEF KeepsColumns
  <2> QED BY <2>1, <2>4
<1>17. CASE DropType
  <2>1. PICK tns \in {<<t>> : t \in TypeRefs} \cup {<<t, u>> : t, u \in TypeRefs}, ok \in BOOLEAN : Update(dropType(cat, tns, ok))
      BY <1>17 DEF DropType
  <2>2. Len(tns) \in Nat
      OBVIOUS
  <2>3. dropType(cat, tns, ok) \in After(cat)
      BY <1>1, <1>2, <2>1, <2>2, <1>3, DropTypeFits
  <2> QED BY <2>1, <2>3
<1>18. CASE RenameType
  <2>1. PICK tn \in TypeRefs, n \in NewTypeNames : Update(renameType(cat, tn, n, 0))
      BY <1>18 DEF RenameType
  <2>2. n \in TypeNames
      BY DEF TypeNames
  <2>3. renameType(cat, tn, n, 0) \in After(cat)
      BY <1>1, <1>2, <2>1, <2>2, <1>0, RenameTypeFits
  <2> QED BY <2>1, <2>3
<1>19. CASE AlterTypeSetSchema
  <2>1. PICK tn \in TypeRefs, n \in SchemaNames : Update(alterTypeSetSchema(cat, tn, n))
      BY <1>19 DEF AlterTypeSetSchema
  <2>2. alterTypeSetSchema(cat, tn, n) \in After(cat)
      BY <1>1, <1>2, <2>1, <1>3, AlterTypeSetSchemaFits
  <2> QED BY <2>1, <2>2
<1>20. CASE AlterTypeAddValue
  <2>1. PICK tn \in TypeRefs, v \in Labels, w \in Labels \cup {Unqualified}, after \in BOOLEAN, skip \in BOOLEAN : Update(alterTypeAddValue(cat, tn, v, w, after, skip))
      BY <1>20 DEF AlterTypeAddValue, Unqualified
  <2>2. alterTypeAddValue(cat, tn, v, w, after, skip) \in After(cat)
      BY <1>1, <1>2, <2>1, <1>3, AlterTypeAddValueFits
  <2> QED BY <2>1, <2>2
<1>21. CASE AlterTypeRenameValue
  <2>1. PICK tn \in TypeRefs, v \in Labels, w \in Labels : Update(alterTypeRenameValue(cat, tn, v, w))
      BY <1>21 DEF AlterTypeRenameValue
  <2>2. alterTypeRenameValue(cat, tn, v, w) \in After(cat)
      BY <1>1, <1>2, <2>1, <1>3, AlterTypeRenameValueFits
  <2> QED BY <2>1, <2>2
<1> QED BY <1>4, <1>5, <1>6, <1>7, <1>8, <1>9, <1>10, <1>11, <1>12, <1>13, <1>14, <1>15, <1>16, <1>17, <1>18, <1>19, <1>20, <1>21 DEF Next

LEMMA StatementKeeps ==
    ASSUME CInv, Next
    PROVE  CInv'
<1>1. PICK c \in After(cat) : Update(c)
    BY StatementLeaves
<1>2. c \in Fits
    BY DEF After
<1> QED BY <1>1, <1>2, UpdateKeeps

(* The invariant holds at the start and after every statement. *)
LEMMA CatalogInvariant == Spec => []CInv
<1>1. Init => CInv
  <2> SUFFICES ASSUME Init PROVE CInv
      OBVIOUS
  <2> DEFINE s == [name |-> DefaultSchema, tables |-> <<>>, types |-> <<>>]
             ss == <<s>>
  <2>1. lang \in Langs /\ failed = FALSE /\ cat = [schemas |-> ss, cols |-> <<>>, err |-> FALSE]
      BY DEF Init
  <2>2. DefaultSchema \in SchemaNames
      BY <2>1, LangsAssumption, Zenon DEF SchemaNames
  <2>3. s \in Schema /\ s.tables = <<>> /\ s.types = <<>>
      BY <2>2 DEF Schema
  <2> HIDE DEF s
  <2>4. ss \in Seq(Schema) /\ DOMAIN ss = {1} /\ ss[1] = s
      BY <2>3
  <2> HIDE DEF ss
  <2>5. cat \in Catalogs /\ cat.schemas = ss /\ cat.cols = <<>> /\ cat.err = FALSE
      BY <2>1, <2>4 DEF Catalogs
  <2>6. \A i \in DOMAIN cat.schemas : /\ \A j : j \notin DOMAIN cat.schemas[i].tables
                                      /\ \A j : j \notin DOMAIN cat.schemas[i].types
      BY <2>3, <2>4, <2>5
  <2>7. cat \in Fits
      BY <2>5, <2>6 DEF Fits, Unique, UniqueTables, UniqueTypes, Pointers, PointsInto, Disjoint,
                        ColumnsUnique, Agreed, ListedIn
  <2> QED BY <2>1, <2>5, <2>7 DEF CInv
<1>2. CInv /\ [Next]_vars => CInv'
  <2>1. CInv /\ Next => CInv'
      BY StatementKeeps
  <2>2. CInv /\ UNCHANGED vars => CInv'
    <3> SUFFICES ASSUME CInv, UNCHANGED vars PROVE CInv'
        OBVIOUS
    <3>1. lang' = lang /\ cat' = cat /\ failed' = failed
        BY DEF vars
    <3>2. Catalogs' = Catalogs /\ Engine' = Engine
        BY <3>1, StateSets
    <3>3. /\ cat \in Catalogs /\ Unique(cat) /\ Pointers(cat)
          /\ Engine = "mysql" => Disjoint(cat) /\ ColumnsUnique(cat)
          /\ failed \/ cat.err \/ Agreed(cat)
        BY DEF CInv, Fits
    <3>4. cat' \in Fits'
        BY <3>1, <3>2, <3>3 DEF Fits
    <3> QED BY <3>1, <3>4 DEF CInv
  <2> QED BY <2>1, <2>2
<1> QED BY <1>1, <1>2, PTL DEF Spec

(* getTable and getType return the first match: no second one exists, in   *)
(* any schema, after any statements, failing ones, renames and moves       *)
(* included; nor, in a MySQL schema, a second column of a name in a table. *)
THEOREM NamesUniqueAlways == Spec => []NamesUnique
<1>1. CInv => NamesUnique
  <2> SUFFICES ASSUME CInv, NEW s \in Range(cat.schemas)
               PROVE  /\ IsInjective([j \in DOMAIN s.tables |-> s.tables[j].rel.name])
                      /\ IsInjective([k \in DOMAIN s.types |-> s.types[k].name])
                      /\ Engine = "mysql" =>
                            \A t \in Range(s.tables) :
                                IsInjective([k \in DOMAIN t.cols |-> cat.cols[t.cols[k]].name])
      BY DEF NamesUnique
  <2>1. PICK i \in DOMAIN cat.schemas : s = cat.schemas[i]
      BY DEF Range
  <2>2. UniqueTables(s.tables) /\ UniqueTypes(s.types)
      BY <2>1 DEF CInv, Fits, Unique
  <2>3. ASSUME Engine = "mysql", NEW t \in Range(s.tables)
        PROVE  IsInjective([k \in DOMAIN t.cols |-> cat.cols[t.cols[k]].name])
    <3>1. PICK j \in DOMAIN cat.schemas[i].tables : t = cat.schemas[i].tables[j]
        BY <2>1 DEF Range
    <3>2. UniqueColumns(t.cols, cat.cols)
        BY <2>3, <3>1 DEF CInv, Fits, ColumnsUnique
    <3> QED BY <3>2 DEF UniqueColumns, IsInjective
  <2>4. IsInjective([j \in DOMAIN s.tables |-> s.tables[j].rel.name])
      BY <2>2 DEF UniqueTables, IsInjective
  <2>5. IsInjective([k \in DOMAIN s.types |-> s.types[k].name])
      BY <2>2 DEF UniqueTypes, IsInjective
  <2> QED BY <2>3, <2>4, <2>5
<1> QED BY <1>1, CatalogInvariant, PTL

(* While no statement has failed, the schema that code generation reads    *)
(* from a table's Rel is the one that lists the table: SET SCHEMA writes   *)
(* the name before it looks, and only a failing statement leaves the two   *)
(* apart. *)
THEOREM RelSchemaAgreesAlways == Spec => []RelSchemaAgrees
<1>1. CInv => RelSchemaAgrees
  <2> SUFFICES ASSUME CInv, ~failed, NEW s \in Range(cat.schemas), NEW t \in Range(s.tables)
               PROVE  Ns(t.rel.schema) = s.name
      BY DEF RelSchemaAgrees
  <2>1. PICK i \in DOMAIN cat.schemas : s = cat.schemas[i]
      BY DEF Range
  <2>2. PICK j \in DOMAIN s.tables : t = s.tables[j]
      BY DEF Range
  <2>3. Agreed(cat)
      BY DEF CInv, Fits
  <2> QED BY <2>1, <2>2, <2>3 DEF Agreed, ListedIn
<1> QED BY <1>1, CatalogInvariant, PTL

(* CREATE TABLE, CREATE TABLE AS and CREATE VIEW leave every column of the *)
(* tables that exist as it was, except that a merge of INHERITS writes NOT *)
(* NULL through the pointers the new table shares, and never takes it away. *)
THEOREM CreateOnlyTightensAlways == Spec => CreateOnlyTightens
<1> DEFINE Kept == \A i \in DOMAIN cat.schemas : \A j \in DOMAIN cat.schemas[i].tables :
                       LET ids == cat.schemas[i].tables[j].cols
                       IN  \A k \in DOMAIN ids :
                               ColumnAfter(i, j, k) \in
                                   {cat.cols[ids[k]], [cat.cols[ids[k]] EXCEPT !.notNull = TRUE]}
<1>1. CInv /\ [Next]_vars => [TableAdded => Kept]_vars
  <2> SUFFICES ASSUME CInv, Next, TableAdded,
                      NEW i \in DOMAIN cat.schemas, NEW j \in DOMAIN cat.schemas[i].tables,
                      NEW k \in DOMAIN cat.schemas[i].tables[j].cols
               PROVE  ColumnAfter(i, j, k) \in
                          {cat.cols[cat.schemas[i].tables[j].cols[k]],
                           [cat.cols[cat.schemas[i].tables[j].cols[k]] EXCEPT !.notNull = TRUE]}
      OBVIOUS
  <2>1. PICK c \in After(cat) : Update(c)
      BY StatementLeaves
  <2> QED BY <2>1, UpdateTightens
<1> QED BY <1>1, CatalogInvariant, PTL DEF Spec, CreateOnlyTightens

================================================================================
