--------------------------- MODULE MigrationProofs ---------------------------
(***************************************************************************)
(* Proofs about Migration: the types of its variables, and that a publish, *)
(* whatever fails and wherever it is cut off, changes no table that        *)
(* neither of the two models names.                                        *)
(***************************************************************************)
EXTENDS Migration, FiniteSetTheorems, SequenceTheorems, TLAPS

IsSeq(s) == s \in Seq(ToSet(s))

IsTable(t) == t = [exists |-> TRUE, cols |-> t.cols, idx |-> t.idx]

\* The columns of a table have different names.
GoodTable(t) == t = NoTable \/ (IsTable(t) /\ \A x, y \in t.cols : x.name = y.name => x = y)
GoodSchema(d) == \A n \in DOMAIN d : GoodTable(d[n])

\* Where statement s is accepted, the columns keep different names.
Keeps(s) == \A d : GoodSchema(d) /\ s.table \in DOMAIN d /\ Accepts(d, s) => GoodSchema(Execute(d, s))

\* An atom's statement and its undo statement work on the same tables, on all
\* of M and on none but N.
Works(a, M, N) ==
  /\ Touches(a.undo) = Touches(a.do)
  /\ M \subseteq Touches(a.do) /\ Touches(a.do) \subseteq N
  /\ Keeps(a.do) /\ Keeps(a.undo)

\* So do all atoms of a list.
Within(atoms, M, N) == IsSeq(atoms) /\ \A a \in ToSet(atoms) : Works(a, M, N)

Names(m) == { m[i].name : i \in DOMAIN m }

\* What is still to be executed and what is to be undone come from one list of
\* atoms; while a publish runs, these work on tables of its two models.
PlanInv ==
  \E A : /\ plan \in Seq(A) /\ undo \in Seq({ a.undo : a \in A })
         /\ phase # "idle" =>
              \A a \in A : Works(a, {}, Names(published) \cup Names(next))

MigrationInv == TypeOK /\ PlanInv /\ OtherTablesUntouched /\ GoodSchema(db) /\ GoodSchema(base)

-----------------------------------------------------------------------------
(* Sequences *)

\* Induction without a predicate: a set that is closed under successor has no
\* first gap, or adding one would map what lies below the gap into less.
LEMMA Induction ==
  ASSUME NEW n \in Nat, NEW T, 0 \in T, \A i \in 0..(n - 1) : i \in T => i + 1 \in T
  PROVE  n \in T
<1> SUFFICES ASSUME n \notin T PROVE FALSE
  OBVIOUS
<1> DEFINE S == T \cap 0..(n - 1)
           f == [i \in S |-> i + 1]
<1>1. 0 \in S /\ n > 0
  OBVIOUS
<1>2. IsFiniteSet(S)
  <2>1. IsFiniteSet(0..(n - 1))
    BY FS_Interval
  <2>2. S \in SUBSET (0..(n - 1))
    OBVIOUS
  <2> QED
    BY <2>1, <2>2, FS_Subset
<1>3. f \in [S -> S \ {0}]
  OBVIOUS
<1>4. PICK i, j \in S : i # j /\ f[i] = f[j]
  <2> HIDE DEF S, f
  <2>1. IsFiniteSet(S \ {0}) /\ Cardinality(S \ {0}) = Cardinality(S) - 1
    BY <1>1, <1>2, FS_RemoveElement
  <2>2. Cardinality(S) \in Nat
    BY <1>2, FS_CardinalityType
  <2>3. Cardinality(S \ {0}) < Cardinality(S)
    BY <2>1, <2>2
  <2> QED
    BY <1>2, <1>3, <2>1, <2>3, FS_PigeonHole
<1> QED
  BY <1>4

\* The recursive function in FlattenSeq is what its equation says.
LEMMA FlattenDef ==
  ASSUME NEW ss, Len(ss) \in Nat, Len(ss) # 0
  PROVE  \E f : /\ f = [i \in 1..Len(ss) |-> IF i = 1 THEN ss[i] ELSE f[i - 1] \o ss[i]]
                /\ FlattenSeq(ss) = f[Len(ss)]
<1> DEFINE flatten[i \in 1..Len(ss)] == IF i = 1 THEN ss[i] ELSE flatten[i - 1] \o ss[i]
           Is(k, f) == f = [i \in 1..k |-> IF i = 1 THEN ss[i] ELSE f[i - 1] \o ss[i]]
           T == { k \in Nat : \E f : Is(k, f) }
<1>1. 0 \in T
  <2>1. Is(0, [i \in 1..0 |-> 0])
    OBVIOUS
  <2> QED
    BY <2>1
<1>2. ASSUME NEW k \in 0..(Len(ss) - 1), k \in T PROVE k + 1 \in T
  <2>1. PICK f : Is(k, f)
    BY <1>2
  <2> DEFINE g == [i \in 1..(k + 1) |-> IF i = k + 1 THEN IF i = 1 THEN ss[i] ELSE f[k] \o ss[i] ELSE f[i]]
  <2>2. \A i \in 1..k : f[i] = IF i = 1 THEN ss[i] ELSE f[i - 1] \o ss[i]
    BY <2>1
  <2>3. ASSUME NEW i \in 1..(k + 1) PROVE g[i] = IF i = 1 THEN ss[i] ELSE g[i - 1] \o ss[i]
    <3>1. CASE i = 1
      BY <2>2, <3>1
    <3>2. CASE i # 1
      <4>1. i - 1 \in 1..k /\ g[i - 1] = f[i - 1]
        BY <3>2
      <4>2. CASE i = k + 1
        <5>1. k = i - 1
          BY <4>2
        <5>2. g[i] = f[k] \o ss[i]
          BY <3>2, <4>2, Zenon
        <5> QED
          BY <3>2, <4>1, <5>1, <5>2, Zenon
      <4>3. CASE i # k + 1
        <5>1. i \in 1..k /\ g[i] = f[i]
          BY <4>3
        <5>2. f[i] = f[i - 1] \o ss[i]
          BY <2>2, <3>2, <5>1
        <5> QED
          BY <3>2, <4>1, <5>1, <5>2
      <4> QED
        BY <4>2, <4>3
    <3> QED
      BY <3>1, <3>2
  <2>4. Is(k + 1, g)
    BY <2>3
  <2> HIDE DEF g, Is
  <2> QED
    BY <2>4
<1>3. Len(ss) \in T
  <2> HIDE DEF T
  <2> QED
    BY <1>1, <1>2, Induction
<1>4. \E f : f = [i \in 1..Len(ss) |-> IF i = 1 THEN ss[i] ELSE f[i - 1] \o ss[i]]
  BY <1>3
<1>5. flatten = [i \in 1..Len(ss) |-> IF i = 1 THEN ss[i] ELSE flatten[i - 1] \o ss[i]]
  BY <1>4, Zenon
<1>6. FlattenSeq(ss) = flatten[Len(ss)]
  BY DEF FlattenSeq
<1> HIDE DEF flatten
<1> QED
  BY <1>5, <1>6

LEMMA SeqFacts ==
  /\ IsSeq(<<>>) /\ ToSet(<<>>) = {}
  /\ \A x : IsSeq(<<x>>) /\ ToSet(<<x>>) = {x}
  /\ \A s, S : s \in Seq(S) => IsSeq(s) /\ ToSet(s) \subseteq S
  /\ \A s : IsSeq(s) => /\ Len(s) \in Nat /\ DOMAIN s = 1..Len(s)
                         /\ ToSet(s) = { s[i] : i \in 1..Len(s) }
<1>1. ASSUME NEW s, NEW S, s \in Seq(S) PROVE IsSeq(s) /\ ToSet(s) \subseteq S
  BY <1>1, LenProperties DEF IsSeq, ToSet
<1>2. ASSUME NEW s, IsSeq(s) PROVE Len(s) \in Nat /\ DOMAIN s = 1..Len(s) /\ ToSet(s) = { s[i] : i \in 1..Len(s) }
  BY <1>2, LenProperties DEF IsSeq, ToSet
<1>3. IsSeq(<<>>) /\ ToSet(<<>>) = {}
  BY DEF IsSeq, ToSet
<1>4. ASSUME NEW x PROVE IsSeq(<<x>>) /\ ToSet(<<x>>) = {x}
  BY DEF IsSeq, ToSet
<1> QED
  BY <1>1, <1>2, <1>3, <1>4

LEMMA ConcatFacts ==
  ASSUME NEW s, NEW t, IsSeq(s), IsSeq(t)
  PROVE  IsSeq(s \o t) /\ ToSet(s \o t) = ToSet(s) \cup ToSet(t)
<1> DEFINE S == ToSet(s) \cup ToSet(t)
<1>1. s \in Seq(S) /\ t \in Seq(S)
  BY SeqMonotonic DEF IsSeq
<1> HIDE DEF S
<1>2. /\ s \o t \in Seq(S) /\ Len(s \o t) = Len(s) + Len(t) /\ Len(s) \in Nat /\ Len(t) \in Nat
      /\ \A i \in 1..(Len(s) + Len(t)) : (s \o t)[i] = IF i <= Len(s) THEN s[i] ELSE t[i - Len(s)]
  BY <1>1, ConcatProperties, LenProperties
<1>3. IsSeq(s \o t) /\ ToSet(s \o t) \subseteq S
  BY <1>2, SeqFacts
<1>4. ToSet(s \o t) = { (s \o t)[i] : i \in 1..(Len(s) + Len(t)) }
  BY <1>2, <1>3, SeqFacts
<1>5. ASSUME NEW i \in 1..Len(s) PROVE s[i] \in ToSet(s \o t)
  BY <1>2, <1>4
<1>6. ASSUME NEW i \in 1..Len(t) PROVE t[i] \in ToSet(s \o t)
  <2>1. Len(s) + i \in 1..(Len(s) + Len(t)) /\ ~ (Len(s) + i <= Len(s)) /\ (Len(s) + i) - Len(s) = i
    BY <1>2
  <2>2. (s \o t)[Len(s) + i] = t[i]
    BY <1>2, <2>1
  <2> QED
    BY <1>4, <2>1, <2>2
<1>7. ToSet(s) \subseteq ToSet(s \o t) /\ ToSet(t) \subseteq ToSet(s \o t)
  BY <1>5, <1>6, SeqFacts
<1> QED
  BY <1>3, <1>7 DEF S

LEMMA FlattenFacts ==
  ASSUME NEW ss, IsSeq(ss), \A i \in DOMAIN ss : IsSeq(ss[i])
  PROVE  IsSeq(FlattenSeq(ss)) /\ ToSet(FlattenSeq(ss)) = UNION { ToSet(ss[i]) : i \in DOMAIN ss }
<1>0. Len(ss) \in Nat /\ DOMAIN ss = 1..Len(ss)
  BY SeqFacts
<1>1. CASE Len(ss) = 0
  <2>1. FlattenSeq(ss) = ss /\ DOMAIN ss = {}
    BY <1>0, <1>1 DEF FlattenSeq
  <2> QED
    BY <2>1 DEF ToSet
<1>2. CASE Len(ss) # 0
  <2>1. PICK f : /\ f = [i \in 1..Len(ss) |-> IF i = 1 THEN ss[i] ELSE f[i - 1] \o ss[i]]
                 /\ FlattenSeq(ss) = f[Len(ss)]
    BY <1>0, <1>2, FlattenDef
  <2> DEFINE Good(k) == IsSeq(f[k]) /\ ToSet(f[k]) = UNION { ToSet(ss[i]) : i \in 1..k }
             T == { k \in Nat : Good(k + 1) }
  <2>2. f[1] = ss[1]
    BY <1>0, <1>2, <2>1
  <2>3. \A k \in 1..(Len(ss) - 1) : f[k + 1] = f[k] \o ss[k + 1]
    <3>1. ASSUME NEW k \in 1..(Len(ss) - 1) PROVE f[k + 1] = f[k] \o ss[k + 1]
      <4>1. k + 1 \in 1..Len(ss) /\ k + 1 # 1 /\ (k + 1) - 1 = k
        BY <1>0
      <4>2. \A i \in 1..Len(ss) : f[i] = IF i = 1 THEN ss[i] ELSE f[i - 1] \o ss[i]
        BY <2>1, Zenon
      <4>3. f[k + 1] = f[(k + 1) - 1] \o ss[k + 1]
        BY <4>1, <4>2, Zenon
      <4> QED
        BY <4>1, <4>3, Zenon
    <3> QED
      BY <3>1
  <2>4. 0 \in T
    <3>1. 1..1 = {1} /\ 1 \in DOMAIN ss
      BY <1>0, <1>2
    <3>2. Good(1)
      BY <2>2, <3>1
    <3> QED
      BY <3>2
  <2>5. ASSUME NEW k \in 0..((Len(ss) - 1) - 1), k \in T PROVE k + 1 \in T
    <3>1. Good(k + 1) /\ k + 1 \in 1..(Len(ss) - 1) /\ k + 1 \in Nat /\ (k + 1) + 1 \in DOMAIN ss
      BY <1>0, <2>5
    <3>2. f[(k + 1) + 1] = f[k + 1] \o ss[(k + 1) + 1]
      BY <2>3, <3>1
    <3>3. 1..((k + 1) + 1) = (1..(k + 1)) \cup {(k + 1) + 1}
      BY <3>1
    <3>4. IsSeq(f[(k + 1) + 1]) /\ ToSet(f[(k + 1) + 1]) = ToSet(f[k + 1]) \cup ToSet(ss[(k + 1) + 1])
      BY <3>1, <3>2, ConcatFacts
    <3>5. Good((k + 1) + 1)
      BY <3>1, <3>3, <3>4
    <3> QED
      BY <3>1, <3>5
  <2>6. Len(ss) - 1 \in T
    <3>1. Len(ss) - 1 \in Nat
      BY <1>0, <1>2
    <3> HIDE DEF T
    <3> QED
      BY <2>4, <2>5, <3>1, Induction
  <2>7. Good(Len(ss))
    BY <1>0, <2>6
  <2> QED
    BY <1>0, <2>1, <2>7
<1> QED
  BY <1>0, <1>1, <1>2

-----------------------------------------------------------------------------
(* What a statement makes of a table whose columns have different names *)

LEMMA TableExcept ==
  ASSUME NEW t, IsTable(t)
  PROVE  /\ \A b, u : u = [t EXCEPT !.cols = b] => u = [exists |-> TRUE, cols |-> b, idx |-> t.idx]
         /\ \A j, u : u = [t EXCEPT !.idx = j] => u = [exists |-> TRUE, cols |-> t.cols, idx |-> j]
<1>1. PICK x, a, i : t = [exists |-> x, cols |-> a, idx |-> i] /\ x = TRUE /\ a = t.cols /\ i = t.idx
  BY DEF IsTable
<1>2. ASSUME NEW b, NEW u, u = [t EXCEPT !.cols = b] PROVE u = [exists |-> x, cols |-> b, idx |-> i]
  <2>1. t = [exists |-> x, cols |-> a, idx |-> i]
    BY <1>1
  <2> QED
    BY <1>2, <2>1
<1>3. ASSUME NEW j, NEW u, u = [t EXCEPT !.idx = j] PROVE u = [exists |-> x, cols |-> a, idx |-> j]
  <2>1. t = [exists |-> x, cols |-> a, idx |-> i]
    BY <1>1
  <2> QED
    BY <1>3, <2>1
<1> QED
  BY <1>1, <1>2, <1>3, Zenon

LEMMA TableExceptBoth ==
  ASSUME NEW t, IsTable(t), NEW b, NEW j, NEW u, u = [t EXCEPT !.cols = b, !.idx = j]
  PROVE  u = [exists |-> TRUE, cols |-> b, idx |-> j]
<1>1. PICK x, a, i : t = [exists |-> x, cols |-> a, idx |-> i] /\ x = TRUE
  BY DEF IsTable
<1>2. u = [exists |-> x, cols |-> b, idx |-> j]
  <2>1. t = [exists |-> x, cols |-> a, idx |-> i]
    BY <1>1
  <2> QED
    BY <2>1
<1> QED
  BY <1>1, <1>2, Zenon

\* What a statement makes of the columns and the indexes of its table.
LEMMA AlteredFacts ==
  ASSUME NEW t, IsTable(t), NEW s, s.op \in {"addcol", "dropcol", "addindex", "dropindex"}
  PROVE  \E b, j :
           /\ Altered(t, s) = [exists |-> TRUE, cols |-> b, idx |-> j]
           /\ s.op = "addcol" => b = t.cols \cup {s.col} /\ j = t.idx
           /\ s.op = "dropcol" => /\ \A c : c \in b <=> c \in t.cols /\ c.name # s.name
                                  /\ \A x : x \in j <=> x \in t.idx /\ x.col # s.name
           /\ s.op = "addindex" => b = t.cols /\ j = t.idx \cup {[index |-> s.index, col |-> s.name]}
           /\ s.op = "dropindex" => b = t.cols /\ \A x : x \in j <=> x \in t.idx /\ x.index # s.index
<1> DEFINE u == Altered(t, s)
           left == { c \in t.cols : c.name # s.name }
           indexed == { x \in t.idx : x.col # s.name }
           more == t.idx \cup {[index |-> s.index, col |-> s.name]}
           fewer == { x \in t.idx : x.index # s.index }
           all == t.cols \cup {s.col}
<1>1. /\ s.op = "addcol" => u = [t EXCEPT !.cols = all]
      /\ s.op = "dropcol" => u = [t EXCEPT !.cols = left, !.idx = indexed]
      /\ s.op = "addindex" => u = [t EXCEPT !.idx = more]
      /\ s.op = "dropindex" => u = [t EXCEPT !.idx = fewer]
  BY DEF Altered
<1>2. /\ \A c : c \in left <=> c \in t.cols /\ c.name # s.name
      /\ \A x : x \in indexed <=> x \in t.idx /\ x.col # s.name
      /\ \A x : x \in fewer <=> x \in t.idx /\ x.index # s.index
  OBVIOUS
<1> HIDE DEF u, left, indexed, fewer
<1>3. CASE s.op = "addcol"
  <2> HIDE DEF all
  <2>1. u = [t EXCEPT !.cols = all]
    BY <1>1, <1>3
  <2>2. u = [exists |-> TRUE, cols |-> all, idx |-> t.idx]
    BY <2>1, TableExcept, Zenon
  <2> QED
    BY <1>3, <2>2 DEF u, all
<1>4. CASE s.op = "dropcol"
  <2>1. u = [t EXCEPT !.cols = left, !.idx = indexed]
    BY <1>1, <1>4
  <2>2. u = [exists |-> TRUE, cols |-> left, idx |-> indexed]
    BY <2>1, TableExceptBoth, Zenon
  <2> QED
    BY <1>2, <1>4, <2>2 DEF u
<1>5. CASE s.op = "addindex"
  <2> HIDE DEF more
  <2>1. u = [t EXCEPT !.idx = more]
    BY <1>1, <1>5
  <2>2. u = [exists |-> TRUE, cols |-> t.cols, idx |-> more]
    BY <2>1, TableExcept, Zenon
  <2> QED
    BY <1>5, <2>2 DEF u, more
<1>6. CASE s.op = "dropindex"
  <2>1. u = [t EXCEPT !.idx = fewer]
    BY <1>1, <1>6
  <2>2. u = [exists |-> TRUE, cols |-> t.cols, idx |-> fewer]
    BY <2>1, TableExcept, Zenon
  <2> QED
    BY <1>2, <1>6, <2>2 DEF u
<1> QED
  BY <1>3, <1>4, <1>5, <1>6

\* The changed column takes the place of the old one and keeps its values, and
\* the indexes of the one become indexes of the other.
LEMMA ChangedFacts ==
  ASSUME NEW t, IsTable(t), NEW s, s.op = "change", HasColumn(t, s.name)
  PROVE  \E old, b, j :
           /\ Altered(t, s) = [exists |-> TRUE, cols |-> b, idx |-> j]
           /\ old \in t.cols /\ old.name = s.name
           /\ b = (t.cols \ {old}) \cup { [s.col EXCEPT !.holds = old.holds] }
           /\ j = { IF x.col = s.name THEN [x EXCEPT !.col = s.col.name] ELSE x : x \in t.idx }
<1> DEFINE u == Altered(t, s)
           old == CHOOSE x \in t.cols : x.name = s.name
           b == (t.cols \ {old}) \cup { [s.col EXCEPT !.holds = old.holds] }
           j == { IF x.col = s.name THEN [x EXCEPT !.col = s.col.name] ELSE x : x \in t.idx }
<1>1. u = [t EXCEPT !.cols = b, !.idx = j]
  BY DEF Altered, Changed
<1>2. old \in t.cols /\ old.name = s.name
  BY DEF HasColumn
<1> HIDE DEF u, b, j
<1>3. u = [exists |-> TRUE, cols |-> b, idx |-> j]
  BY <1>1, TableExceptBoth, Zenon
<1> HIDE DEF old
<1> QED
  BY <1>2, <1>3 DEF u, b, j

\* A statement on one table: what it makes of that table, where it is accepted.
LEMMA KeepsAltered ==
  ASSUME NEW s, s.op # "rename",
         \A d : GoodSchema(d) /\ s.table \in DOMAIN d /\ Accepts(d, s) => GoodTable(Altered(d[s.table], s))
  PROVE  Keeps(s)
<1> SUFFICES ASSUME NEW d, GoodSchema(d), s.table \in DOMAIN d, Accepts(d, s), NEW n \in DOMAIN d
             PROVE  GoodTable(Execute(d, s)[n])
  BY DEF Keeps, GoodSchema, Execute
<1>1. Touches(s) = {s.table}
  BY DEF Touches
<1>2. Execute(d, s)[n] = IF n = s.table THEN Altered(d[n], s) ELSE d[n]
  BY <1>1 DEF Execute
<1> QED
  BY <1>2 DEF GoodSchema

LEMMA ColumnsOfGood ==
  ASSUME NEW t, GoodTable(t), t.exists
  PROVE  IsTable(t) /\ \A x, y \in t.cols : x.name = y.name => x = y
BY DEF GoodTable, NoTable

LEMMA CreateAndDropKeep ==
  ASSUME NEW t
  PROVE  (\A fresh : Keeps(BuildCreateTableSQL(t, fresh))) /\ Keeps(BuildDeleteTableSQL(t))
<1>1. ASSUME NEW fresh PROVE Keeps(BuildCreateTableSQL(t, fresh))
  <2> DEFINE s == BuildCreateTableSQL(t, fresh)
  <2>1. s.op = "create" /\ s.names = [i \in DOMAIN t.cols |-> t.cols[i].name]
    BY DEF BuildCreateTableSQL
  <2>2. s.body.cols = { DbColumn(c, c.nullable, IF fresh THEN c.uuid ELSE Lost) : c \in ToSet(t.cols) }
    BY DEF BuildCreateTableSQL
  <2>3. IsTable(s.body)
    BY DEF BuildCreateTableSQL, IsTable
  <2> HIDE DEF s
  <2>4. ASSUME NEW d, Accepts(d, s) PROVE GoodTable(Altered(d[s.table], s))
    <3>1. \A i, j \in DOMAIN s.names : s.names[i] = s.names[j] => i = j
      BY <2>1, <2>4 DEF Accepts
    <3>2. \A i, j \in DOMAIN t.cols : t.cols[i].name = t.cols[j].name => i = j
      BY <2>1, <3>1
    <3>3. \A b, c \in ToSet(t.cols) : b.name = c.name => b = c
      BY <3>2 DEF ToSet
    <3>4. \A x, y \in s.body.cols : x.name = y.name => x = y
      BY <2>2, <3>3 DEF DbColumn
    <3>5. Altered(d[s.table], s) = s.body
      BY <2>1 DEF Altered
    <3> QED
      BY <2>3, <3>4, <3>5 DEF GoodTable
  <2>5. Keeps(s)
    BY <2>1, <2>4, KeepsAltered
  <2> QED
    BY <2>5 DEF s
<1>2. Keeps(BuildDeleteTableSQL(t))
  <2> DEFINE s == BuildDeleteTableSQL(t)
  <2>1. s.op = "drop"
    BY DEF BuildDeleteTableSQL
  <2> HIDE DEF s
  <2>2. \A d : GoodTable(Altered(d[s.table], s))
    BY <2>1 DEF Altered, GoodTable
  <2>3. Keeps(s)
    BY <2>1, <2>2, KeepsAltered
  <2> QED
    BY <2>3 DEF s
<1> QED
  BY <1>1, <1>2

LEMMA RenameKeeps ==
  ASSUME NEW from, NEW to
  PROVE  Keeps(RenameTable(from, to))
<1> DEFINE s == RenameTable(from, to)
<1>1. s.op = "rename"
  BY DEF RenameTable
<1> HIDE DEF s
<1>2. ASSUME NEW d, GoodSchema(d), s.table \in DOMAIN d, NEW n \in DOMAIN d PROVE GoodTable(Execute(d, s)[n])
  <2>1. Altered(d[n], s) = NoTable
    BY <1>1 DEF Altered
  <2>2. Execute(d, s)[n] \in {NoTable, d[s.table], d[n]}
    BY <2>1 DEF Execute
  <2> QED
    BY <1>2, <2>2 DEF GoodSchema, GoodTable
<1>3. \A d : DOMAIN Execute(d, s) = DOMAIN d
  BY DEF Execute
<1>4. Keeps(s)
  BY <1>2, <1>3 DEF Keeps, GoodSchema
<1> QED
  BY <1>4 DEF s

LEMMA ColumnsKeep ==
  ASSUME NEW T
  PROVE  /\ \A col : Keeps(AddColumn(T, col))
         /\ \A name : Keeps(DropColumn(T, name))
<1>1. ASSUME NEW s, s.op \in {"addcol", "dropcol"} PROVE Keeps(s)
  <2>1. ASSUME NEW d, GoodSchema(d), s.table \in DOMAIN d, Accepts(d, s) PROVE GoodTable(Altered(d[s.table], s))
    <3> DEFINE t == d[s.table]
    <3>1. t.exists /\ (s.op = "addcol" => ~ HasColumn(t, s.col.name))
      BY <1>1, <2>1 DEF Accepts
    <3>2. IsTable(t) /\ \A x, y \in t.cols : x.name = y.name => x = y
      BY <2>1, <3>1, ColumnsOfGood DEF GoodSchema
    <3> HIDE DEF t
    <3>3. PICK b, j : /\ Altered(t, s) = [exists |-> TRUE, cols |-> b, idx |-> j]
                      /\ s.op = "addcol" => b = t.cols \cup {s.col}
                      /\ s.op = "dropcol" => \A c \in b : c \in t.cols
      BY <1>1, <3>2, AlteredFacts
    <3>4. \A x, y \in b : x.name = y.name => x = y
      BY <1>1, <3>1, <3>2, <3>3 DEF HasColumn
    <3>5. GoodTable(Altered(t, s))
      BY <3>3, <3>4 DEF GoodTable, IsTable
    <3> QED
      BY <3>5 DEF t
  <2> QED
    BY <1>1, <2>1, KeepsAltered
<1> QED
  BY <1>1 DEF AddColumn, DropColumn

LEMMA IndexesKeep ==
  ASSUME NEW T, NEW c
  PROVE  Keeps(CreateIndex(T, c)) /\ Keeps(DropIndex(T, c))
<1>1. ASSUME NEW s, s.op \in {"addindex", "dropindex"} PROVE Keeps(s)
  <2>1. ASSUME NEW d, GoodSchema(d), s.table \in DOMAIN d, Accepts(d, s) PROVE GoodTable(Altered(d[s.table], s))
    <3> DEFINE t == d[s.table]
    <3>1. t.exists
      BY <1>1, <2>1 DEF Accepts
    <3>2. IsTable(t) /\ \A x, y \in t.cols : x.name = y.name => x = y
      BY <2>1, <3>1, ColumnsOfGood DEF GoodSchema
    <3> HIDE DEF t
    <3>3. \E j : Altered(t, s) = [exists |-> TRUE, cols |-> t.cols, idx |-> j]
      BY <1>1, <3>2, AlteredFacts
    <3>4. GoodTable(Altered(t, s))
      BY <3>2, <3>3 DEF GoodTable, IsTable
    <3> QED
      BY <3>4 DEF t
  <2> QED
    BY <1>1, <2>1, KeepsAltered
<1> QED
  BY <1>1 DEF CreateIndex, DropIndex

\* The changed column replaces the one of its old name; its new name is new.
LEMMA ChangeKeeps ==
  ASSUME NEW T, NEW name, NEW col, \A h : [col EXCEPT !.holds = h].name = col.name
  PROVE  Keeps(ChangeColumn(T, name, col))
<1> DEFINE s == ChangeColumn(T, name, col)
<1>1. s.op = "change" /\ s.name = name /\ s.col = col
  BY DEF ChangeColumn
<1> HIDE DEF s
<1>2. ASSUME NEW d, GoodSchema(d), s.table \in DOMAIN d, Accepts(d, s) PROVE GoodTable(Altered(d[s.table], s))
  <2> DEFINE t == d[s.table]
  <2>1. t.exists /\ HasColumn(t, s.name) /\ (col.name # name => ~ HasColumn(t, col.name))
    BY <1>1, <1>2 DEF Accepts
  <2>2. IsTable(t) /\ \A x, y \in t.cols : x.name = y.name => x = y
    BY <1>2, <2>1, ColumnsOfGood DEF GoodSchema
  <2> HIDE DEF t
  <2>3. PICK old, b, j : /\ Altered(t, s) = [exists |-> TRUE, cols |-> b, idx |-> j]
                         /\ old \in t.cols /\ old.name = s.name
                         /\ b = (t.cols \ {old}) \cup { [s.col EXCEPT !.holds = old.holds] }
    BY <1>1, <2>1, <2>2, ChangedFacts
  <2>4. \A x, y \in b : x.name = y.name => x = y
    <3> DEFINE new == [s.col EXCEPT !.holds = old.holds]
    <3>1. new.name = col.name /\ b = (t.cols \ {old}) \cup {new}
      BY <1>1, <2>3
    <3> HIDE DEF new
    <3> QED
      BY <1>1, <2>1, <2>2, <2>3, <3>1 DEF HasColumn
  <2>5. GoodTable(Altered(t, s))
    BY <2>3, <2>4 DEF GoodTable, IsTable
  <2> QED
    BY <2>5 DEF t
<1>3. Keeps(s)
  BY <1>1, <1>2, KeepsAltered
<1> QED
  BY <1>3 DEF s

LEMMA ChangesKeep ==
  ASSUME NEW T, NEW name, NEW c, NEW nullable, NEW holds
  PROVE  /\ Keeps(ChangeColumn(T, name, DbColumn(c, nullable, holds)))
         /\ \A other : Keeps(ChangeColumn(T, name, [DbColumn(c, nullable, holds) EXCEPT !.name = other]))
<1>1. \A other, h : /\ [DbColumn(c, nullable, holds) EXCEPT !.holds = h].name = DbColumn(c, nullable, holds).name
                    /\ [[DbColumn(c, nullable, holds) EXCEPT !.name = other] EXCEPT !.holds = h].name
                         = [DbColumn(c, nullable, holds) EXCEPT !.name = other].name
  BY DEF DbColumn
<1> QED
  BY <1>1, ChangeKeeps

-----------------------------------------------------------------------------
(* Which tables the statements of a plan work on *)

LEMMA WithinFacts ==
  ASSUME NEW K, NEW N
  PROVE  /\ Within(<<>>, K, N)
         /\ \A a : Works(a, K, N) => Within(<<a>>, K, N)
         /\ \A s, t : Within(s, K, N) /\ Within(t, K, N) => Within(s \o t, K, N)
BY SeqFacts, ConcatFacts DEF Within

LEMMA WithinWhen ==
  ASSUME NEW K, NEW N, NEW condition, NEW a, Works(a, K, N)
  PROVE  Within(When(condition, a), K, N)
BY WithinFacts DEF When

LEMMA WithinFlatten ==
  ASSUME NEW K, NEW N, NEW n \in Nat, NEW ss, ss = [i \in 1..n |-> ss[i]],
         \A i \in 1..n : Within(ss[i], K, N)
  PROVE  Within(FlattenSeq(ss), K, N)
<1>1. IsSeq(ss) /\ DOMAIN ss = 1..n
  BY DEF IsSeq, ToSet
<1>2. IsSeq(FlattenSeq(ss)) /\ ToSet(FlattenSeq(ss)) = UNION { ToSet(ss[i]) : i \in DOMAIN ss }
  BY <1>1, FlattenFacts DEF Within
<1> QED
  BY <1>1, <1>2 DEF Within

\* Those of a sequence that a condition on them selects.
LEMMA Selected ==
  ASSUME NEW s, IsSeq(s), NEW ss, ss = [i \in DOMAIN s |-> ss[i]],
         \A i \in DOMAIN s : ss[i] \in {<<>>, <<s[i]>>}
  PROVE  IsSeq(FlattenSeq(ss)) /\ ToSet(FlattenSeq(ss)) \subseteq ToSet(s)
<1>1. DOMAIN s = 1..Len(s) /\ Len(s) \in Nat
  BY SeqFacts
<1>2. IsSeq(ss) /\ DOMAIN ss = DOMAIN s
  BY <1>1 DEF IsSeq, ToSet
<1>3. \A i \in DOMAIN ss : IsSeq(ss[i]) /\ ToSet(ss[i]) \subseteq {s[i]}
  BY <1>2, SeqFacts
<1>4. IsSeq(FlattenSeq(ss)) /\ ToSet(FlattenSeq(ss)) = UNION { ToSet(ss[i]) : i \in DOMAIN ss }
  BY <1>2, <1>3, FlattenFacts
<1> QED
  BY <1>2, <1>3, <1>4 DEF ToSet

LEMMA ColumnsSelected ==
  ASSUME NEW o, NEW n, IsSeq(o.cols), IsSeq(n.cols)
  PROVE  IsSeq(DeleteColumns(o, n)) /\ IsSeq(AddColumns(o, n)) /\ IsSeq(ModifyColumns(o, n))
<1>1. IsSeq(DeleteColumns(o, n))
  <2> DEFINE ss == [i \in DOMAIN o.cols |-> When(o.cols[i].uuid \notin Uuids(n.cols), o.cols[i])]
  <2>1. ss = [i \in DOMAIN o.cols |-> ss[i]] /\ \A i \in DOMAIN o.cols : ss[i] \in {<<>>, <<o.cols[i]>>}
    BY DEF When
  <2>2. DeleteColumns(o, n) = FlattenSeq(ss)
    BY DEF DeleteColumns, ForEach
  <2> HIDE DEF ss
  <2> QED
    BY <2>1, <2>2, Selected
<1>2. IsSeq(AddColumns(o, n))
  <2> DEFINE ss == [i \in DOMAIN n.cols |-> When(n.cols[i].uuid \notin Uuids(o.cols), n.cols[i])]
  <2>1. ss = [i \in DOMAIN n.cols |-> ss[i]] /\ \A i \in DOMAIN n.cols : ss[i] \in {<<>>, <<n.cols[i]>>}
    BY DEF When
  <2>2. AddColumns(o, n) = FlattenSeq(ss)
    BY DEF AddColumns, ForEach
  <2> HIDE DEF ss
  <2> QED
    BY <2>1, <2>2, Selected
<1>3. IsSeq(ModifyColumns(o, n))
  <2> DEFINE ss == [i \in DOMAIN n.cols |->
                      When(/\ n.cols[i].uuid \in Uuids(o.cols)
                           /\ columnDifferent(findColumn(n.cols[i].uuid, o.cols), n.cols[i]), n.cols[i])]
  <2>1. ss = [i \in DOMAIN n.cols |-> ss[i]] /\ \A i \in DOMAIN n.cols : ss[i] \in {<<>>, <<n.cols[i]>>}
    BY DEF When
  <2>2. ModifyColumns(o, n) = FlattenSeq(ss)
    BY DEF ModifyColumns, ForEach
  <2> HIDE DEF ss
  <2> QED
    BY <2>1, <2>2, Selected
<1> QED
  BY <1>1, <1>2, <1>3

\* Every statement of a modified table names the new table, but for the rename.
LEMMA ModifyWithin ==
  ASSUME NEW o, NEW n, IsSeq(o.cols), IsSeq(n.cols)
  PROVE  Within(BuildModifyTableAtoms(o, n), {n.name}, {o.name, n.name})
<1> DEFINE K == {n.name}
           N == {o.name, n.name}
<1>a. \A b, c : Within(When(b, Atom(DropIndex(n.name, c), CreateIndex(n.name, c))), K, N)
  <2>1. \A c : Works(Atom(DropIndex(n.name, c), CreateIndex(n.name, c)), K, N)
    BY IndexesKeep DEF Works, Atom, DropIndex, CreateIndex, Touches
  <2> HIDE DEF K, N
  <2> QED
    BY <2>1, WithinWhen
<1>b. \A b, c : Within(When(b, Atom(CreateIndex(n.name, c), DropIndex(n.name, c))), K, N)
  <2>1. \A c : Works(Atom(CreateIndex(n.name, c), DropIndex(n.name, c)), K, N)
    BY IndexesKeep DEF Works, Atom, DropIndex, CreateIndex, Touches
  <2> HIDE DEF K, N
  <2> QED
    BY <2>1, WithinWhen
<1>c. \A x, y : /\ Within(<<Atom(DropColumn(n.name, x), AddColumn(n.name, y))>>, K, N)
                /\ Within(<<Atom(AddColumn(n.name, y), DropColumn(n.name, x))>>, K, N)
  <2>1. \A x, y : /\ Works(Atom(DropColumn(n.name, x), AddColumn(n.name, y)), K, N)
                  /\ Works(Atom(AddColumn(n.name, y), DropColumn(n.name, x)), K, N)
    BY ColumnsKeep DEF Works, Atom, DropColumn, AddColumn, Touches
  <2> HIDE DEF K, N
  <2> QED
    BY <2>1, WithinFacts
<1>d. ASSUME NEW c, NEW d, NEW b1, NEW b2, NEW h1, NEW h2
      PROVE  /\ \A b : Within(When(b, Atom(ChangeColumn(n.name, c.name, DbColumn(d, b1, h1)),
                                           ChangeColumn(n.name, d.name, DbColumn(c, b2, h2)))), K, N)
             /\ \A b : Within(When(b, Atom(ChangeColumn(n.name, d.name, DbColumn(d, b1, h1)),
                                           ChangeColumn(n.name, d.name,
                                                        [DbColumn(c, b2, h2) EXCEPT !.name = d.name]))), K, N)
  <2>1. \A x, y, v, w : Keeps(ChangeColumn(n.name, x, y)) /\ Keeps(ChangeColumn(n.name, v, w))
                          => Works(Atom(ChangeColumn(n.name, x, y), ChangeColumn(n.name, v, w)), K, N)
    BY DEF Works, Atom, ChangeColumn, Touches
  <2> HIDE DEF K, N
  <2> QED
    BY <2>1, ChangesKeep, WithinWhen
<1>1. \A c : Within(deleteColumnAtoms(n.name, c), K, N)
  <2> HIDE DEF K, N
  <2> QED
    BY <1>a, <1>c, WithinFacts DEF deleteColumnAtoms
<1>2. \A c : Within(addColumnAtoms(n.name, c), K, N)
  <2> HIDE DEF K, N
  <2> QED
    BY <1>b, <1>c, WithinFacts DEF addColumnAtoms
<1>3. ASSUME NEW c, NEW d PROVE Within(modifyColumnAtoms(n.name, c, d), K, N)
  <2> DEFINE A1 == When(c.index, Atom(DropIndex(n.name, c), CreateIndex(n.name, c)))
             A2 == When(c.name # d.name \/ c.type # d.type \/ c.unsigned # d.unsigned,
                        Atom(ChangeColumn(n.name, c.name, DbColumn(d, TRUE, d.uuid)),
                             ChangeColumn(n.name, d.name, DbColumn(c, TRUE, c.uuid))))
             A3 == When(c.nullable # d.nullable,
                        Atom(ChangeColumn(n.name, d.name, DbColumn(d, d.nullable, d.uuid)),
                             ChangeColumn(n.name, d.name,
                                          [DbColumn(c, ~d.nullable, c.uuid) EXCEPT !.name = d.name])))
             A4 == When(d.index, Atom(CreateIndex(n.name, d), DropIndex(n.name, d)))
  <2> HIDE DEF K, N
  <2>1. Within(A1, K, N) /\ Within(A4, K, N)
    BY <1>a, <1>b
  <2>2. Within(A2, K, N) /\ Within(A3, K, N)
    BY <1>d
  <2>3. modifyColumnAtoms(n.name, c, d) = A1 \o A2 \o A3 \o A4
    BY DEF modifyColumnAtoms
  <2> HIDE DEF A1, A2, A3, A4
  <2> QED
    BY <2>1, <2>2, <2>3, WithinFacts
<1>4. Within(When(o.name # n.name, Atom(RenameTable(o.name, n.name), RenameTable(n.name, o.name))), K, N)
  <2>1. Works(Atom(RenameTable(o.name, n.name), RenameTable(n.name, o.name)), K, N)
    BY RenameKeeps DEF Works, Atom, RenameTable, Touches
  <2> HIDE DEF K, N
  <2> QED
    BY <2>1, WithinWhen
<1>5. Within(ForEach(DeleteColumns(o, n), LAMBDA c : deleteColumnAtoms(n.name, c)), K, N)
  <2> DEFINE cs == DeleteColumns(o, n)
             ss == [i \in DOMAIN cs |-> deleteColumnAtoms(n.name, cs[i])]
  <2>1. DOMAIN cs = 1..Len(cs) /\ Len(cs) \in Nat
    BY ColumnsSelected, SeqFacts
  <2>2. Within(FlattenSeq(ss), K, N)
    BY <1>1, <2>1, WithinFlatten
  <2> QED
    BY <2>2 DEF ForEach
<1>6. Within(ForEach(AddColumns(o, n), LAMBDA c : addColumnAtoms(n.name, c)), K, N)
  <2> DEFINE cs == AddColumns(o, n)
             ss == [i \in DOMAIN cs |-> addColumnAtoms(n.name, cs[i])]
  <2>1. DOMAIN cs = 1..Len(cs) /\ Len(cs) \in Nat
    BY ColumnsSelected, SeqFacts
  <2>2. Within(FlattenSeq(ss), K, N)
    BY <1>2, <2>1, WithinFlatten
  <2> QED
    BY <2>2 DEF ForEach
<1>7. Within(ForEach(ModifyColumns(o, n), LAMBDA c : modifyColumnAtoms(n.name, findColumn(c.uuid, o.cols), c)), K, N)
  <2> DEFINE cs == ModifyColumns(o, n)
             ss == [i \in DOMAIN cs |-> modifyColumnAtoms(n.name, findColumn(cs[i].uuid, o.cols), cs[i])]
  <2>1. DOMAIN cs = 1..Len(cs) /\ Len(cs) \in Nat
    BY ColumnsSelected, SeqFacts
  <2>2. Within(FlattenSeq(ss), K, N)
    BY <1>3, <2>1, WithinFlatten
  <2> QED
    BY <2>2 DEF ForEach
<1> HIDE DEF K, N
<1> QED
  BY <1>4, <1>5, <1>6, <1>7, WithinFacts DEF BuildModifyTableAtoms, K, N

LEMMA TablesSelected ==
  ASSUME NEW p, NEW m, IsSeq(p), IsSeq(m)
  PROVE  /\ IsSeq(DeletedTables(p, m)) /\ ToSet(DeletedTables(p, m)) \subseteq ToSet(p)
         /\ IsSeq(AddedTables(p, m)) /\ ToSet(AddedTables(p, m)) \subseteq ToSet(m)
         /\ IsSeq(ModifiedTables(p, m)) /\ ToSet(ModifiedTables(p, m)) \subseteq ToSet(m)
         /\ \A t \in ToSet(ModifiedTables(p, m)) : t.uuid \in Uuids(p)
<1>1. IsSeq(DeletedTables(p, m)) /\ ToSet(DeletedTables(p, m)) \subseteq ToSet(p)
  <2> DEFINE ss == [i \in DOMAIN p |-> When(p[i].uuid \notin Uuids(m), p[i])]
  <2>1. ss = [i \in DOMAIN p |-> ss[i]] /\ \A i \in DOMAIN p : ss[i] \in {<<>>, <<p[i]>>}
    BY DEF When
  <2>2. DeletedTables(p, m) = FlattenSeq(ss)
    BY DEF DeletedTables, ForEach
  <2> HIDE DEF ss
  <2> QED
    BY <2>1, <2>2, Selected
<1>2. IsSeq(AddedTables(p, m)) /\ ToSet(AddedTables(p, m)) \subseteq ToSet(m)
  <2> DEFINE ss == [i \in DOMAIN m |-> When(m[i].uuid \notin Uuids(p), m[i])]
  <2>1. ss = [i \in DOMAIN m |-> ss[i]] /\ \A i \in DOMAIN m : ss[i] \in {<<>>, <<m[i]>>}
    BY DEF When
  <2>2. AddedTables(p, m) = FlattenSeq(ss)
    BY DEF AddedTables, ForEach
  <2> HIDE DEF ss
  <2> QED
    BY <2>1, <2>2, Selected
<1>3. /\ IsSeq(ModifiedTables(p, m)) /\ ToSet(ModifiedTables(p, m)) \subseteq ToSet(m)
      /\ \A t \in ToSet(ModifiedTables(p, m)) : t.uuid \in Uuids(p)
  <2> DEFINE ss == [i \in DOMAIN m |->
                      When(/\ m[i].uuid \in Uuids(p)
                           /\ tableDifferent(findTable(m[i].uuid, p), m[i]), m[i])]
  <2>1. ss = [i \in DOMAIN m |-> ss[i]] /\ \A i \in DOMAIN m : ss[i] \in {<<>>, <<m[i]>>}
    BY DEF When
  <2>2. ModifiedTables(p, m) = FlattenSeq(ss)
    BY DEF ModifiedTables, ForEach
  <2>3. \A i \in DOMAIN m : IsSeq(ss[i]) /\ \A t \in ToSet(ss[i]) : t.uuid \in Uuids(p)
    BY SeqFacts DEF When
  <2> HIDE DEF ss
  <2>4. IsSeq(ss) /\ DOMAIN ss = DOMAIN m
    <3>1. DOMAIN m = 1..Len(m) /\ Len(m) \in Nat
      BY SeqFacts
    <3> QED
      BY <2>1, <3>1 DEF IsSeq, ToSet
  <2>5. ToSet(FlattenSeq(ss)) = UNION { ToSet(ss[i]) : i \in DOMAIN ss }
    BY <2>3, <2>4, FlattenFacts
  <2> QED
    BY <2>1, <2>2, <2>3, <2>4, <2>5, Selected
<1> QED
  BY <1>1, <1>2, <1>3

\* The whole migration works on tables of the two models.
LEMMA PlanWithin ==
  ASSUME NEW p \in Models, NEW m \in Models
  PROVE  Within(MigrationPlan(p, m), {}, Names(p) \cup Names(m))
<1> DEFINE N == Names(p) \cup Names(m)
<1>0. /\ IsSeq(p) /\ IsSeq(m)
      /\ \A t \in ToSet(p) : IsSeq(t.cols) /\ t.name \in N
      /\ \A t \in ToSet(m) : IsSeq(t.cols) /\ t.name \in N
  BY ModelsAssumption DEF IsSeq, Names, ToSet
<1>1. Within(ForEach(DeletedTables(p, m), LAMBDA t : <<Atom(BuildDeleteTableSQL(t), BuildCreateTableSQL(t, FALSE))>>), {}, N)
  <2> DEFINE ts == DeletedTables(p, m)
             ss == [i \in DOMAIN ts |-> <<Atom(BuildDeleteTableSQL(ts[i]), BuildCreateTableSQL(ts[i], FALSE))>>]
  <2>1. DOMAIN ts = 1..Len(ts) /\ Len(ts) \in Nat /\ \A i \in DOMAIN ts : ts[i].name \in N
    <3>1. IsSeq(ts) /\ ToSet(ts) \subseteq ToSet(p)
      BY <1>0, TablesSelected
    <3>2. DOMAIN ts = 1..Len(ts) /\ Len(ts) \in Nat /\ \A i \in DOMAIN ts : ts[i] \in ToSet(ts)
      BY <3>1, SeqFacts DEF ToSet
    <3> QED
      BY <1>0, <3>1, <3>2
  <2>2. \A t : t.name \in N => Within(<<Atom(BuildDeleteTableSQL(t), BuildCreateTableSQL(t, FALSE))>>, {}, N)
    <3>1. \A t : t.name \in N => Works(Atom(BuildDeleteTableSQL(t), BuildCreateTableSQL(t, FALSE)), {}, N)
      BY CreateAndDropKeep DEF Works, Atom, BuildDeleteTableSQL, BuildCreateTableSQL, Touches
    <3> HIDE DEF N
    <3> QED
      BY <3>1, WithinFacts
  <2>3. Within(FlattenSeq(ss), {}, N)
    <3> HIDE DEF N, ts
    <3> QED
      BY <2>1, <2>2, WithinFlatten
  <2> QED
    BY <2>3 DEF ForEach
<1>2. Within(ForEach(AddedTables(p, m), LAMBDA t : <<Atom(BuildCreateTableSQL(t, TRUE), BuildDeleteTableSQL(t))>>), {}, N)
  <2> DEFINE ts == AddedTables(p, m)
             ss == [i \in DOMAIN ts |-> <<Atom(BuildCreateTableSQL(ts[i], TRUE), BuildDeleteTableSQL(ts[i]))>>]
  <2>1. DOMAIN ts = 1..Len(ts) /\ Len(ts) \in Nat /\ \A i \in DOMAIN ts : ts[i].name \in N
    <3>1. IsSeq(ts) /\ ToSet(ts) \subseteq ToSet(m)
      BY <1>0, TablesSelected
    <3>2. DOMAIN ts = 1..Len(ts) /\ Len(ts) \in Nat /\ \A i \in DOMAIN ts : ts[i] \in ToSet(ts)
      BY <3>1, SeqFacts DEF ToSet
    <3> QED
      BY <1>0, <3>1, <3>2
  <2>2. \A t : t.name \in N => Within(<<Atom(BuildCreateTableSQL(t, TRUE), BuildDeleteTableSQL(t))>>, {}, N)
    <3>1. \A t : t.name \in N => Works(Atom(BuildCreateTableSQL(t, TRUE), BuildDeleteTableSQL(t)), {}, N)
      BY CreateAndDropKeep DEF Works, Atom, BuildDeleteTableSQL, BuildCreateTableSQL, Touches
    <3> HIDE DEF N
    <3> QED
      BY <3>1, WithinFacts
  <2>3. Within(FlattenSeq(ss), {}, N)
    <3> HIDE DEF N, ts
    <3> QED
      BY <2>1, <2>2, WithinFlatten
  <2> QED
    BY <2>3 DEF ForEach
<1>3. Within(ForEach(ModifiedTables(p, m), LAMBDA t : BuildModifyTableAtoms(findTable(t.uuid, p), t)), {}, N)
  <2> DEFINE ts == ModifiedTables(p, m)
             ss == [i \in DOMAIN ts |-> BuildModifyTableAtoms(findTable(ts[i].uuid, p), ts[i])]
  <2>1. DOMAIN ts = 1..Len(ts) /\ Len(ts) \in Nat /\ \A i \in DOMAIN ts : ts[i] \in ToSet(m) /\ ts[i].uuid \in Uuids(p)
    <3>1. IsSeq(ts) /\ ToSet(ts) \subseteq ToSet(m) /\ \A t \in ToSet(ts) : t.uuid \in Uuids(p)
      BY <1>0, TablesSelected
    <3>2. DOMAIN ts = 1..Len(ts) /\ Len(ts) \in Nat /\ \A i \in DOMAIN ts : ts[i] \in ToSet(ts)
      BY <3>1, SeqFacts DEF ToSet
    <3> QED
      BY <3>1, <3>2
  <2>2. ASSUME NEW t \in ToSet(m), t.uuid \in Uuids(p) PROVE Within(BuildModifyTableAtoms(findTable(t.uuid, p), t), {}, N)
    <3> DEFINE o == findTable(t.uuid, p)
    <3>1. \E x \in ToSet(p) : x.uuid = t.uuid
      BY <2>2 DEF Uuids, ToSet
    <3>2. o \in ToSet(p)
      BY <3>1 DEF findTable
    <3> HIDE DEF o
    <3>3. Within(BuildModifyTableAtoms(o, t), {t.name}, {o.name, t.name}) /\ {o.name, t.name} \subseteq N
      BY <1>0, <3>2, ModifyWithin
    <3>4. Within(BuildModifyTableAtoms(o, t), {}, N)
      BY <3>3 DEF Within, Works
    <3> QED
      BY <3>4 DEF o
  <2>3. Within(FlattenSeq(ss), {}, N)
    <3> HIDE DEF N, ts
    <3> QED
      BY <2>1, <2>2, WithinFlatten
  <2> QED
    BY <2>3 DEF ForEach
<1> HIDE DEF N
<1> QED
  BY <1>1, <1>2, <1>3, WithinFacts, Zenon DEF MigrationPlan, N

-----------------------------------------------------------------------------
(* The publish *)

\* MySQL: a statement changes the tables it names.
LEMMA ExecuteFrame ==
  ASSUME NEW d, NEW s
  PROVE  /\ DOMAIN Execute(d, s) = DOMAIN d
         /\ \A n \in DOMAIN d : n \notin Touches(s) => Execute(d, s)[n] = d[n]
BY DEF Execute, Touches

LEMMA NamesAreTables ==
  ASSUME TypeOK
  PROVE  Names(published) \cup Names(next) \subseteq TableNames
BY UuidsAssumption DEF TypeOK, Names, ToSet

LEMMA ExecuteStep ==
  ASSUME MigrationInv, ExecuteStatement
  PROVE  MigrationInv'
<1> USE DEF ExecuteStatement, bookkeeping
<1>1. PICK A : /\ plan \in Seq(A) /\ undo \in Seq({ a.undo : a \in A })
               /\ phase # "idle" =>
                    \A a \in A : Works(a, {}, Names(published) \cup Names(next))
  BY DEF MigrationInv, PlanInv
<1>2. /\ Head(plan) \in A /\ Tail(plan) \in Seq(A) /\ Head(plan).undo \in { a.undo : a \in A }
      /\ Append(undo, Head(plan).undo) \in Seq({ a.undo : a \in A })
      /\ Len(undo) \in Nat /\ Len(Append(undo, Head(plan).undo)) = Len(undo) + 1
  <2>1. Head(plan) \in A /\ Tail(plan) \in Seq(A)
    BY <1>1, HeadTailProperties
  <2> QED
    BY <1>1, <2>1, AppendProperties, LenProperties
<1>3. PlanInv'
  BY <1>1, <1>2 DEF PlanInv
<1>4. /\ DOMAIN db' = DOMAIN db
      /\ \A n \in TableNames : n \notin Names(published) \cup Names(next) => db'[n] = db[n]
      /\ GoodSchema(db')
  <2>1. Works(Head(plan), {}, Names(published) \cup Names(next))
    BY <1>1, <1>2
  <2>2. Head(plan).do.table \in DOMAIN db
    BY <2>1, NamesAreTables DEF Works, Touches, MigrationInv, TypeOK
  <2> QED
    BY <2>1, <2>2, ExecuteFrame DEF Works, Keeps, MigrationInv, TypeOK
<1>5. TypeOK'
  BY <1>2, <1>4 DEF MigrationInv, TypeOK
<1>6. OtherTablesUntouched'
  BY <1>4 DEF MigrationInv, OtherTablesUntouched, Names
<1> QED
  BY <1>3, <1>4, <1>5, <1>6 DEF MigrationInv

LEMMA UndoStep ==
  ASSUME MigrationInv, UndoStatement
  PROVE  MigrationInv'
<1> USE DEF UndoStatement, bookkeeping
<1>1. PICK A : /\ plan \in Seq(A) /\ undo \in Seq({ a.undo : a \in A })
               /\ phase # "idle" =>
                    \A a \in A : Works(a, {}, Names(published) \cup Names(next))
  BY DEF MigrationInv, PlanInv
<1>2. Len(undo) \in Nat /\ undone + 1 \in 1..Len(undo) /\ NextUndo \in { a.undo : a \in A }
  <2>1. Len(undo) \in Nat /\ undone + 1 \in 1..Len(undo)
    BY <1>1, LenProperties DEF MigrationInv, TypeOK
  <2> QED
    BY <1>1, <2>1, ElementOfSeq DEF NextUndo
<1>3. PlanInv'
  BY <1>1 DEF PlanInv
<1>4. /\ DOMAIN db' = DOMAIN db
      /\ \A n \in TableNames : n \notin Names(published) \cup Names(next) => db'[n] = db[n]
      /\ GoodSchema(db')
  <2>1. PICK a \in A : NextUndo = a.undo
    BY <1>2
  <2>2. Works(a, {}, Names(published) \cup Names(next))
    BY <1>1
  <2>3. NextUndo.table \in DOMAIN db
    BY <2>1, <2>2, NamesAreTables DEF Works, Touches, MigrationInv, TypeOK
  <2> QED
    BY <2>1, <2>2, <2>3, ExecuteFrame DEF Works, Keeps, MigrationInv, TypeOK
<1>5. TypeOK'
  BY <1>2, <1>4 DEF MigrationInv, TypeOK
<1>6. OtherTablesUntouched'
  BY <1>4 DEF MigrationInv, OtherTablesUntouched, Names
<1> QED
  BY <1>3, <1>4, <1>5, <1>6 DEF MigrationInv

LEMMA StartStep ==
  ASSUME MigrationInv, NEW m \in Models, StartPublish(m)
  PROVE  MigrationInv'
<1> USE DEF StartPublish
<1>1. Within(plan', {}, Names(published') \cup Names(next'))
  BY PlanWithin DEF MigrationInv, TypeOK
<1>2. PlanInv'
  <2> DEFINE A == ToSet(plan')
  <2>1. plan' \in Seq(A) /\ undo' \in Seq({ a.undo : a \in A })
    BY <1>1, EmptySeq DEF Within, IsSeq
  <2>2. \A a \in A : Works(a, {}, Names(published') \cup Names(next'))
    BY <1>1 DEF Within
  <2> HIDE DEF A
  <2> QED
    BY <2>1, <2>2 DEF PlanInv, Names
<1>3. TypeOK'
  <2>1. /\ DOMAIN db' = TableNames /\ DOMAIN base' = TableNames
        /\ published' \in Models /\ next' \in Models /\ phase' \in Phases
        /\ skipped' \in BOOLEAN /\ disturbed' \in BOOLEAN
    BY DEF MigrationInv, TypeOK, Phases
  <2>2. undone' \in 0..Len(undo') /\ publishes' \in 0..MaxPublishes /\ faults' \in 0..MaxFaults
    BY BoundsAssumption, EmptySeq DEF MigrationInv, TypeOK
  <2> QED
    BY <2>1, <2>2 DEF TypeOK
<1>4. OtherTablesUntouched'
  BY DEF OtherTablesUntouched
<1> QED
  BY <1>2, <1>3, <1>4 DEF MigrationInv


\* The steps that execute nothing.
LEMMA QuietStep ==
  ASSUME MigrationInv,
         StatementFails \/ UndoFails \/ RollbackEnds \/ PublishFails \/ MigrationEnds \/ SavePublished
           \/ Interrupted \/ UNCHANGED vars
  PROVE  MigrationInv'
<1> USE DEF StatementFails, UndoFails, RollbackEnds, PublishFails, MigrationEnds, SavePublished, Interrupted, vars,
            bookkeeping
<1>1. UNCHANGED <<db, base, undo>> /\ plan' \in {plan, <<>>}
  OBVIOUS
<1>2. phase' # "idle" => phase # "idle" /\ UNCHANGED <<published, next>>
  OBVIOUS
<1>3. PICK A : /\ plan \in Seq(A) /\ undo \in Seq({ a.undo : a \in A })
               /\ phase # "idle" =>
                    \A a \in A : Works(a, {}, Names(published) \cup Names(next))
  BY DEF MigrationInv, PlanInv
<1>4. PlanInv'
  <2>1. plan' \in Seq(A) /\ undo' \in Seq({ a.undo : a \in A })
    BY <1>1, <1>3, EmptySeq
  <2>2. phase' # "idle" =>
          \A a \in A : Works(a, {}, Names(published') \cup Names(next'))
    BY <1>2, <1>3
  <2> QED
    BY <2>1, <2>2 DEF PlanInv, Names
<1>5. OtherTablesUntouched'
  BY <1>1, <1>2 DEF MigrationInv, OtherTablesUntouched
<1>6. Len(undo) \in Nat
  BY <1>3, LenProperties
<1>7. TypeOK'
  <2>1. /\ DOMAIN db' = TableNames /\ DOMAIN base' = TableNames
        /\ published' \in Models /\ next' \in Models /\ phase' \in Phases
    BY <1>1 DEF MigrationInv, TypeOK, Phases
  <2>2. skipped' \in BOOLEAN /\ disturbed' \in BOOLEAN
    BY Zenon DEF MigrationInv, TypeOK
  <2>3. undone' \in 0..Len(undo') /\ publishes' \in 0..MaxPublishes /\ faults' \in 0..MaxFaults
    BY <1>1, <1>6, BoundsAssumption DEF MigrationInv, TypeOK
  <2> QED
    BY <2>1, <2>2, <2>3 DEF TypeOK
<1> QED
  BY <1>4, <1>5, <1>7 DEF MigrationInv

\* What is executed and undone works on tables of the two models, in every state.
THEOREM MigrationInvariant == Spec => []MigrationInv
<1>1. Init => MigrationInv
  <2> SUFFICES ASSUME Init PROVE MigrationInv
    OBVIOUS
  <2> USE DEF Init
  <2>1. TypeOK
    <3>1. undone \in 0..Len(undo) /\ publishes \in 0..MaxPublishes /\ faults \in 0..MaxFaults
      BY BoundsAssumption, EmptySeq
    <3> QED
      BY <3>1, ModelsAssumption DEF TypeOK, Phases
  <2>2. PlanInv
    BY EmptySeq DEF PlanInv
  <2>3. OtherTablesUntouched
    BY DEF OtherTablesUntouched
  <2>4. GoodSchema(db) /\ GoodSchema(base)
    BY DEF GoodSchema, GoodTable
  <2> QED
    BY <2>1, <2>2, <2>3, <2>4 DEF MigrationInv
<1>2. MigrationInv /\ [Next]_vars => MigrationInv'
  BY StartStep, ExecuteStep, UndoStep, QuietStep DEF Next, Finished
<1> QED
  BY <1>1, <1>2, PTL DEF Spec

\* The variables of a publish keep their types; the undo list is never read
\* beyond its end.
THEOREM MigrationTypes == Spec => []TypeOK
<1>1. MigrationInv => TypeOK
  BY DEF MigrationInv
<1> QED
  BY <1>1, MigrationInvariant, PTL

\* Applications share one database: whatever Migrage executes, whatever of it
\* fails or is undone, and wherever the process dies, a table that neither the
\* published nor the next model names stays as it was.
THEOREM OtherTablesStay == Spec => []OtherTablesUntouched
<1>1. MigrationInv => OtherTablesUntouched
  BY DEF MigrationInv
<1> QED
  BY <1>1, MigrationInvariant, PTL
==============================================================================
