------------------------ MODULE MigrationSchemaProofs ------------------------
(***************************************************************************)
(* For any models: as long as no publish failed, the schema is what the    *)
(* published model says.  First what a run of statements makes of a        *)
(* schema, one statement, one column and one table at a time; then that    *)
(* the plan of two models leads from the schema of the one to that of the  *)
(* other; last the invariant that a publish under way has come part of it. *)
(***************************************************************************)
EXTENDS MigrationProofs

-----------------------------------------------------------------------------
(* Runs of statements *)

\* Statement s is accepted in schema d and makes it e.
Step(d, s, e) == Accepts(d, s) /\ e = Execute(d, s)

\* The statements of the atoms are accepted one after the other, from d to e.
Runs(d, atoms, e) ==
  \E f : /\ f[0] = d /\ f[Len(atoms)] = e
         /\ \A i \in 1..Len(atoms) : Step(f[i - 1], atoms[i].do, f[i])

LEMMA RunsShort ==
  /\ \A d, e : Runs(d, <<>>, e) <=> e = d
  /\ \A d, e, a : Runs(d, <<a>>, e) => Step(d, a.do, e)
<1>1. ASSUME NEW d, NEW e, Runs(d, <<>>, e) PROVE e = d
  BY <1>1 DEF Runs
<1>2. ASSUME NEW d PROVE Runs(d, <<>>, d)
  <2> DEFINE f == [i \in {0} |-> d]
  <2>1. f[0] = d /\ Len(<<>>) = 0 /\ 1..0 = {}
    OBVIOUS
  <2> HIDE DEF f
  <2> QED
    BY <2>1 DEF Runs
<1>3. ASSUME NEW d, NEW e, NEW a, Runs(d, <<a>>, e) PROVE Step(d, a.do, e)
  <2> DEFINE s == <<a>>
  <2>1. Len(s) = 1 /\ s[1] = a /\ 1 \in 1..1 /\ 1 - 1 = 0
    OBVIOUS
  <2>2. Runs(d, s, e)
    BY <1>3
  <2> HIDE DEF s
  <2>3. PICK f : f[0] = d /\ f[Len(s)] = e /\ \A i \in 1..Len(s) : Step(f[i - 1], s[i].do, f[i])
    BY <2>2 DEF Runs
  <2> QED
    BY <2>1, <2>3
<1> QED
  BY <1>1, <1>2, <1>3

LEMMA RunsWhen ==
  ASSUME NEW d, NEW e, NEW condition, NEW a, Runs(d, When(condition, a), e)
  PROVE  /\ condition => Step(d, a.do, e)
         /\ ~ condition => e = d
BY RunsShort DEF When

\* A run of s and then t passes a schema between them.
LEMMA RunsConcat ==
  ASSUME NEW d, NEW e, NEW s, NEW t, IsSeq(s), IsSeq(t), Runs(d, s \o t, e)
  PROVE  \E m : Runs(d, s, m) /\ Runs(m, t, e)
<1>0. Len(s) \in Nat /\ Len(t) \in Nat
  BY SeqFacts
<1>1. /\ Len(s \o t) = Len(s) + Len(t)
      /\ \A i \in 1..(Len(s) + Len(t)) : (s \o t)[i] = IF i <= Len(s) THEN s[i] ELSE t[i - Len(s)]
  <2> DEFINE S == ToSet(s) \cup ToSet(t)
  <2>1. s \in Seq(S) /\ t \in Seq(S)
    BY SeqMonotonic DEF IsSeq
  <2> HIDE DEF S
  <2> QED
    BY <2>1, ConcatProperties
<1>2. PICK f : /\ f[0] = d /\ f[Len(s \o t)] = e
               /\ \A i \in 1..Len(s \o t) : Step(f[i - 1], (s \o t)[i].do, f[i])
  BY DEF Runs
<1>3. Runs(d, s, f[Len(s)])
  <2>1. ASSUME NEW i \in 1..Len(s) PROVE Step(f[i - 1], s[i].do, f[i])
    <3>1. i \in 1..(Len(s) + Len(t)) /\ i <= Len(s)
      BY <1>0
    <3>2. (s \o t)[i] = s[i]
      BY <1>1, <3>1
    <3> QED
      BY <1>1, <1>2, <3>1, <3>2
  <2> QED
    BY <1>2, <2>1 DEF Runs
<1>4. Runs(f[Len(s)], t, e)
  <2> DEFINE g == [i \in 0..Len(t) |-> f[Len(s) + i]]
  <2>1. g[0] = f[Len(s)] /\ g[Len(t)] = e
    BY <1>0, <1>1, <1>2
  <2>2. ASSUME NEW i \in 1..Len(t) PROVE Step(g[i - 1], t[i].do, g[i])
    <3> DEFINE j == Len(s) + i
    <3>1. j \in 1..(Len(s) + Len(t)) /\ ~ (j <= Len(s)) /\ j - Len(s) = i /\ j - 1 = Len(s) + (i - 1)
      BY <1>0
    <3>2. (s \o t)[j] = t[i]
      BY <1>1, <3>1
    <3>3. g[i - 1] = f[j - 1] /\ g[i] = f[j]
      BY <3>1
    <3> HIDE DEF j, g
    <3>4. Step(f[j - 1], (s \o t)[j].do, f[j])
      BY <1>1, <1>2, <3>1
    <3> QED
      BY <3>2, <3>3, <3>4
  <2> HIDE DEF g
  <2> QED
    BY <2>1, <2>2 DEF Runs
<1> QED
  BY <1>3, <1>4

\* The flattened sequence g[n] is built by concatenation, one part after the other.
Built(g, n, ss) ==
  /\ g[0] = <<>> /\ g[n] = FlattenSeq(ss)
  /\ \A k \in 0..n : IsSeq(g[k])
  /\ \A k \in 0..(n - 1) : g[k + 1] = g[k] \o ss[k + 1]

LEMMA FlattenSteps ==
  ASSUME NEW n \in Nat, NEW ss, ss = [i \in 1..n |-> ss[i]], \A i \in 1..n : IsSeq(ss[i])
  PROVE  \E g : Built(g, n, ss)
<1>0. DOMAIN ss = 1..n /\ IsSeq(ss) /\ Len(ss) = n
  <2>1. DOMAIN ss = 1..n /\ IsSeq(ss)
    BY DEF IsSeq, ToSet
  <2>2. Len(ss) \in Nat /\ DOMAIN ss = 1..Len(ss)
    BY <2>1, SeqFacts
  <2> QED
    BY <2>1, <2>2
<1>1. CASE n = 0
  <2> DEFINE g == [i \in {0} |-> <<>>]
  <2>1. FlattenSeq(ss) = ss /\ ss = <<>>
    BY <1>0, <1>1 DEF FlattenSeq
  <2>2. g[0] = <<>> /\ g[n] = FlattenSeq(ss) /\ 0..n = {0} /\ 0..(n - 1) = {}
    BY <1>1, <2>1
  <2> HIDE DEF g
  <2>3. Built(g, n, ss)
    BY <2>2, SeqFacts DEF Built
  <2> QED
    BY <2>3
<1>2. CASE n # 0
  <2>1. PICK f : f = [i \in 1..n |-> IF i = 1 THEN ss[i] ELSE f[i - 1] \o ss[i]] /\ FlattenSeq(ss) = f[n]
    BY <1>0, <1>2, FlattenDef
  <2> DEFINE g == [i \in 0..n |-> IF i = 0 THEN <<>> ELSE f[i]]
             T == { k \in 0..n : IsSeq(g[k]) }
  <2>2. \A i \in 1..n : f[i] = IF i = 1 THEN ss[i] ELSE f[i - 1] \o ss[i]
    BY <2>1, Zenon
  <2>3. g[0] = <<>> /\ g[n] = FlattenSeq(ss)
    BY <1>2, <2>1
  <2>4. ASSUME NEW k \in 0..(n - 1) PROVE g[k + 1] = g[k] \o ss[k + 1]
    <3>1. k + 1 \in 1..n /\ g[k + 1] = f[k + 1] /\ (k + 1) - 1 = k
      OBVIOUS
    <3>2. CASE k = 0
      <4>1. f[k + 1] = ss[k + 1] /\ g[k] = <<>>
        BY <2>2, <3>1, <3>2
      <4>2. ss[k + 1] \in Seq(ToSet(ss[k + 1]))
        BY <3>1 DEF IsSeq
      <4>3. <<>> \o ss[k + 1] = ss[k + 1]
        BY <4>2, ConcatEmptySeq
      <4> QED
        BY <3>1, <4>1, <4>3, Zenon
    <3>3. CASE k # 0
      <4>1. k + 1 # 1 /\ g[k] = f[k]
        BY <3>3
      <4>2. f[k + 1] = f[(k + 1) - 1] \o ss[k + 1]
        BY <2>2, <3>1, <4>1, Zenon
      <4> QED
        BY <3>1, <4>1, <4>2, Zenon
    <3> QED
      BY <3>2, <3>3
  <2> HIDE DEF g
  <2>5. ASSUME NEW k \in 0..n PROVE k \in T
    <3>1. 0 \in T
      BY <2>3, SeqFacts
    <3>2. ASSUME NEW i \in 0..(k - 1), i \in T PROVE i + 1 \in T
      <4>1. i \in 0..(n - 1) /\ i + 1 \in 1..n /\ i + 1 \in 0..n
        OBVIOUS
      <4>2. IsSeq(g[i] \o ss[i + 1])
        BY <3>2, <4>1, ConcatFacts
      <4> QED
        BY <2>4, <4>1, <4>2
    <3> HIDE DEF T
    <3> QED
      BY <3>1, <3>2, Induction
  <2>6. Built(g, n, ss)
    BY <2>3, <2>4, <2>5 DEF Built
  <2> QED
    BY <2>6
<1> QED
  BY <1>1, <1>2

\* So does a run of flattened sequences, between any two of them.
LEMMA RunsFlatten ==
  ASSUME NEW d, NEW e, NEW n \in Nat, NEW ss, ss = [i \in 1..n |-> ss[i]], \A i \in 1..n : IsSeq(ss[i]),
         Runs(d, FlattenSeq(ss), e)
  PROVE  \E h : h[0] = d /\ h[n] = e /\ \A i \in 1..n : Runs(h[i - 1], ss[i], h[i])
<1>1. PICK g : /\ g[0] = <<>> /\ g[n] = FlattenSeq(ss)
               /\ \A k \in 0..n : IsSeq(g[k])
               /\ \A k \in 0..(n - 1) : g[k + 1] = g[k] \o ss[k + 1]
  BY FlattenSteps DEF Built
<1> DEFINE Passes(k, x) == \E h : h[0] = d /\ h[k] = x /\ \A i \in 1..k : Runs(h[i - 1], ss[i], h[i])
           T == { k \in 0..n : \A x : Runs(d, g[k], x) => Passes(k, x) }
<1>2. 0 \in T
  <2>1. ASSUME NEW x, Runs(d, g[0], x) PROVE Passes(0, x)
    <3> DEFINE h == [i \in {0} |-> d]
    <3>1. h[0] = d /\ x = d /\ 1..0 = {}
      BY <1>1, <2>1, RunsShort
    <3> HIDE DEF h
    <3> QED
      BY <3>1
  <2> QED
    BY <2>1
<1>3. ASSUME NEW k \in 0..(n - 1), k \in T PROVE k + 1 \in T
  <2>1. k + 1 \in 1..n /\ k + 1 \in 0..n /\ k \in 0..n
    OBVIOUS
  <2>2. ASSUME NEW x, Runs(d, g[k + 1], x) PROVE Passes(k + 1, x)
    <3>1. PICK m : Runs(d, g[k], m) /\ Runs(m, ss[k + 1], x)
      BY <1>1, <2>1, <2>2, RunsConcat
    <3>2. Passes(k, m)
      BY <1>3, <3>1
    <3>3. PICK h : h[0] = d /\ h[k] = m /\ \A i \in 1..k : Runs(h[i - 1], ss[i], h[i])
      BY <3>2
    <3> DEFINE j == [i \in 0..(k + 1) |-> IF i = k + 1 THEN x ELSE h[i]]
    <3>4. j[0] = d /\ j[k + 1] = x /\ j[k] = m
      BY <3>3
    <3>5. ASSUME NEW i \in 1..(k + 1) PROVE Runs(j[i - 1], ss[i], j[i])
      <4>1. CASE i = k + 1
        <5>1. i - 1 = k
          BY <4>1
        <5> HIDE DEF j
        <5> QED
          BY <3>1, <3>4, <4>1, <5>1, Zenon
      <4>2. CASE i # k + 1
        <5>1. i \in 1..k /\ j[i] = h[i] /\ j[i - 1] = h[i - 1]
          BY <4>2
        <5> HIDE DEF j
        <5> QED
          BY <3>3, <5>1
      <4> QED
        BY <4>1, <4>2
    <3> HIDE DEF j
    <3> QED
      BY <3>4, <3>5
  <2> HIDE DEF Passes
  <2> QED
    BY <2>1, <2>2
<1>4. n \in T
  <2> HIDE DEF T
  <2> QED
    BY <1>2, <1>3, Induction
<1>5. Passes(n, e)
  <2> HIDE DEF Passes
  <2> QED
    BY <1>1, <1>4
<1> QED
  BY <1>5

-----------------------------------------------------------------------------
(* What a statement makes of the columns and indexes of its table *)

\* Column x of the database stores attribute c; it may be looser than declared.
Stores(x, c) ==
  /\ x.name = c.name /\ x.type = c.type /\ x.holds = c.uuid
  /\ c.nullable => x.nullable

Indexed(C) == { c.name : c \in { d \in C : d.index } }

\* Table t has the attributes C as columns, and an index for the names in I.
Fits(t, C, I) ==
  /\ IsTable(t)
  /\ \A x \in t.cols : \E c \in C : Stores(x, c)
  /\ \A c \in C : \E x \in t.cols : Stores(x, c)
  /\ \A x, y \in t.cols : x.name = y.name => x = y
  /\ \A c, d \in C : c.name = d.name => c = d
  /\ t.idx = { [index |-> n, col |-> n] : n \in I }

\* A column more, or less.
LEMMA IndexedFacts ==
  ASSUME NEW C, NEW c
  PROVE  /\ Indexed(C \cup {c}) = Indexed(C) \cup (IF c.index THEN {c.name} ELSE {})
         /\ c \in C /\ (\A d \in C : d.name = c.name => d = c) => Indexed(C \ {c}) = Indexed(C) \ {c.name}
BY DEF Indexed

\* CREATE INDEX, DROP INDEX, ADD COLUMN and DROP COLUMN do what they say.
LEMMA FitsAddIndex ==
  ASSUME NEW t, NEW C, NEW I, Fits(t, C, I), NEW T, NEW c
  PROVE  Fits(Altered(t, CreateIndex(T, c)), C, I \cup {c.name})
<1> DEFINE u == Altered(t, CreateIndex(T, c))
           idx == t.idx \cup {[index |-> c.name, col |-> c.name]}
<1>1. u = [t EXCEPT !.idx = @ \cup {[index |-> c.name, col |-> c.name]}]
  BY DEF Altered, CreateIndex
<1>2. u = [exists |-> TRUE, cols |-> t.cols, idx |-> idx]
  <2>1. u = [t EXCEPT !.idx = idx]
    BY <1>1
  <2>2. IsTable(t)
    BY DEF Fits
  <2> HIDE DEF u, idx
  <2> QED
    BY <2>1, <2>2, TableExcept, Zenon
<1>3. u.cols = t.cols /\ u.idx = idx /\ IsTable(u)
  BY <1>2 DEF IsTable
<1>4. idx = { [index |-> n, col |-> n] : n \in I \cup {c.name} }
  BY DEF Fits
<1> HIDE DEF u, idx
<1> QED
  BY <1>3, <1>4 DEF Fits, u

LEMMA FitsDropIndex ==
  ASSUME NEW t, NEW C, NEW I, Fits(t, C, I), NEW T, NEW c
  PROVE  Fits(Altered(t, DropIndex(T, c)), C, I \ {c.name})
<1> DEFINE u == Altered(t, DropIndex(T, c))
           idx == { x \in t.idx : x.index # c.name }
<1>1. u = [t EXCEPT !.idx = { x \in @ : x.index # c.name }]
  BY DEF Altered, DropIndex
<1>2. u = [exists |-> TRUE, cols |-> t.cols, idx |-> idx]
  <2>1. u = [t EXCEPT !.idx = idx]
    BY <1>1
  <2>2. IsTable(t)
    BY DEF Fits
  <2> HIDE DEF u, idx
  <2> QED
    BY <2>1, <2>2, TableExcept, Zenon
<1>3. u.cols = t.cols /\ u.idx = idx /\ IsTable(u)
  BY <1>2 DEF IsTable
<1>4. idx = { [index |-> n, col |-> n] : n \in I \ {c.name} }
  BY DEF Fits
<1> HIDE DEF u, idx
<1> QED
  BY <1>3, <1>4 DEF Fits, u

LEMMA FitsAddColumn ==
  ASSUME NEW t, NEW C, NEW I, Fits(t, C, I), NEW T, NEW c, ~ HasColumn(t, c.name)
  PROVE  Fits(Altered(t, AddColumn(T, DbColumn(c, c.nullable, c.uuid))), C \cup {c}, I)
<1> DEFINE col == DbColumn(c, c.nullable, c.uuid)
           u == Altered(t, AddColumn(T, col))
           cols == t.cols \cup {col}
<1>1. u = [t EXCEPT !.cols = @ \cup {col}]
  BY DEF Altered, AddColumn
<1>2. u = [exists |-> TRUE, cols |-> cols, idx |-> t.idx]
  <2>1. u = [t EXCEPT !.cols = cols]
    BY <1>1
  <2>2. IsTable(t)
    BY DEF Fits
  <2> HIDE DEF u, cols
  <2> QED
    BY <2>1, <2>2, TableExcept, Zenon
<1>3. u.cols = cols /\ u.idx = t.idx /\ IsTable(u)
  BY <1>2 DEF IsTable
<1>4. Stores(col, c) /\ col.name = c.name
  BY DEF Stores, DbColumn
<1>5. \A x \in t.cols : x.name # c.name
  BY DEF HasColumn
<1>6. \A d \in C : d.name # c.name
  BY <1>5 DEF Fits, Stores
<1> HIDE DEF u, col
<1>7. \A x \in cols : \E d \in C \cup {c} : Stores(x, d)
  BY <1>4 DEF Fits
<1>8. \A d \in C \cup {c} : \E x \in cols : Stores(x, d)
  BY <1>4 DEF Fits
<1>9. \A x, y \in cols : x.name = y.name => x = y
  BY <1>4, <1>5 DEF Fits
<1>10. \A d, e \in C \cup {c} : d.name = e.name => d = e
  BY <1>6 DEF Fits
<1> HIDE DEF cols
<1> QED
  BY <1>3, <1>7, <1>8, <1>9, <1>10 DEF Fits, u, col

LEMMA FitsDropColumn ==
  ASSUME NEW t, NEW C, NEW I, Fits(t, C, I), NEW T, NEW c \in C
  PROVE  Fits(Altered(t, DropColumn(T, c.name)), C \ {c}, I \ {c.name})
<1> DEFINE u == Altered(t, DropColumn(T, c.name))
           cols == { x \in t.cols : x.name # c.name }
           idx == { x \in t.idx : x.col # c.name }
<1>1. u = [t EXCEPT !.cols = { x \in @ : x.name # c.name }, !.idx = { x \in @ : x.col # c.name }]
  BY DEF Altered, DropColumn
<1>2. u = [exists |-> TRUE, cols |-> cols, idx |-> idx]
  <2>1. u = [t EXCEPT !.cols = cols, !.idx = idx]
    BY <1>1
  <2>2. IsTable(t)
    BY DEF Fits
  <2> HIDE DEF u, cols, idx
  <2> QED
    BY <2>1, <2>2, TableExceptBoth, Zenon
<1>3. u.cols = cols /\ u.idx = idx /\ IsTable(u)
  BY <1>2 DEF IsTable
<1>4. idx = { [index |-> n, col |-> n] : n \in I \ {c.name} }
  BY DEF Fits
<1>5. \A d \in C : d # c => d.name # c.name
  BY DEF Fits
<1>6. \A x \in cols : \E d \in C \ {c} : Stores(x, d)
  BY DEF Fits, Stores
<1>7. \A d \in C \ {c} : \E x \in cols : Stores(x, d)
  BY <1>5 DEF Fits, Stores
<1>8. \A x, y \in cols : x.name = y.name => x = y
  BY DEF Fits
<1>9. \A d, e \in C \ {c} : d.name = e.name => d = e
  BY DEF Fits
<1> HIDE DEF u, cols, idx
<1> QED
  BY <1>3, <1>4, <1>6, <1>7, <1>8, <1>9 DEF Fits, u

\* CHANGE COLUMN, as long as no index is on the column.
LEMMA FitsChange ==
  ASSUME NEW t, NEW C, NEW I, Fits(t, C, I), NEW T, NEW b \in C, NEW c, NEW nullable,
         b.uuid = c.uuid, b.name \notin I, c.name # b.name => ~ HasColumn(t, c.name),
         c.nullable => nullable
  PROVE  Fits(Altered(t, ChangeColumn(T, b.name, DbColumn(c, nullable, c.uuid))), (C \ {b}) \cup {c}, I)
<1> DEFINE col == DbColumn(c, nullable, c.uuid)
           s == ChangeColumn(T, b.name, col)
           u == Altered(t, s)
           old == CHOOSE x \in t.cols : x.name = b.name
           cols == (t.cols \ {old}) \cup {col}
           D == (C \ {b}) \cup {c}
<1>1. PICK x \in t.cols : Stores(x, b)
  BY DEF Fits
<1>2. old \in t.cols /\ old.name = b.name
  BY <1>1 DEF Stores
<1>3. old = x
  BY <1>1, <1>2 DEF Fits, Stores
<1>4. old.holds = c.uuid
  BY <1>1, <1>3 DEF Stores
<1>5. [col EXCEPT !.holds = old.holds] = col /\ col.name = c.name
  BY <1>4 DEF DbColumn
<1>6. { IF y.col = b.name THEN [y EXCEPT !.col = col.name] ELSE y : y \in t.idx } = t.idx
  BY DEF Fits
<1>7. u = Changed(t, s)
  BY DEF Altered, ChangeColumn
<1>8. /\ u.cols = (t.cols \ {old}) \cup { [col EXCEPT !.holds = old.holds] } /\ IsTable(u)
      /\ u.idx = { IF y.col = b.name THEN [y EXCEPT !.col = col.name] ELSE y : y \in t.idx }
  <2>1. s.name = b.name /\ s.col = col
    BY DEF ChangeColumn
  <2> DEFINE became == (t.cols \ {old}) \cup { [col EXCEPT !.holds = old.holds] }
             idx == { IF y.col = b.name THEN [y EXCEPT !.col = col.name] ELSE y : y \in t.idx }
  <2>2. Changed(t, s) = [t EXCEPT !.cols = became, !.idx = idx]
    BY <2>1 DEF Changed
  <2>3. IsTable(t)
    BY DEF Fits
  <2> HIDE DEF u, s, col, old, became, idx
  <2>4. u = [exists |-> TRUE, cols |-> became, idx |-> idx]
    <3>1. u = [t EXCEPT !.cols = became, !.idx = idx]
      BY <1>7, <2>2, Zenon
    <3> QED
      BY ONLY <2>3, <3>1, TableExceptBoth, Zenon
  <2>5. u.cols = became /\ u.idx = idx /\ IsTable(u)
    BY <2>4 DEF IsTable
  <2> QED
    BY <2>5 DEF became, idx
<1>9. u.cols = cols /\ u.idx = t.idx /\ IsTable(u)
  <2>1. u.cols = cols
    <3> HIDE DEF u, col, old
    <3> QED
      BY <1>5, <1>8
  <2>2. u.idx = t.idx
    <3> HIDE DEF u, col, old
    <3> QED
      BY <1>6, <1>8
  <2> QED
    BY <1>8, <2>1, <2>2
<1>10. Stores(col, c)
  BY DEF Stores, DbColumn
<1>11. \A y \in t.cols : y # old => y.name # b.name /\ y.name # c.name
  BY <1>2 DEF Fits, HasColumn
<1>12. \A d \in C : d # b => d.name # b.name /\ d.name # c.name
  BY <1>11, <1>1, <1>3 DEF Fits, Stores
<1> HIDE DEF u, s, col, old
<1>13. \A y \in cols : \E d \in D : Stores(y, d)
  BY <1>10, <1>11, <1>2 DEF Fits, Stores
<1>14. \A d \in D : \E y \in cols : Stores(y, d)
  BY <1>10, <1>12, <1>2, <1>3, <1>1 DEF Fits, Stores
<1>15. \A y, z \in cols : y.name = z.name => y = z
  BY <1>5, <1>11 DEF Fits
<1>16. \A d, e \in D : d.name = e.name => d = e
  BY <1>12 DEF Fits
<1> HIDE DEF cols, D
<1> QED
  BY <1>9, <1>13, <1>14, <1>15, <1>16 DEF Fits, u, s, col, D

\* No statement is needed where the declarations agree.
LEMMA FitsSame ==
  ASSUME NEW t, NEW C, NEW I, Fits(t, C, I), NEW b \in C, NEW c,
         b.uuid = c.uuid, b.name = c.name, b.type = c.type, c.nullable = b.nullable
  PROVE  Fits(t, (C \ {b}) \cup {c}, I)
<1> DEFINE D == (C \ {b}) \cup {c}
<1>1. \A x : Stores(x, b) <=> Stores(x, c)
  BY DEF Stores
<1>2. \A d \in C : d # b => d.name # c.name
  BY DEF Fits
<1>3. \A y \in t.cols : \E d \in D : Stores(y, d)
  BY <1>1 DEF Fits
<1>4. \A d \in D : \E y \in t.cols : Stores(y, d)
  BY <1>1 DEF Fits
<1>5. \A d, e \in D : d.name = e.name => d = e
  BY <1>2 DEF Fits
<1> HIDE DEF D
<1> QED
  BY <1>3, <1>4, <1>5 DEF Fits, D

-----------------------------------------------------------------------------
(* The atoms of a modified table *)

OnTable(d, e, T) == DOMAIN e = DOMAIN d /\ \A n \in DOMAIN d \ {T} : e[n] = d[n]

LEMMA OnTableFacts ==
  /\ \A d, T : OnTable(d, d, T)
  /\ \A d, e, m, T : OnTable(d, m, T) /\ OnTable(m, e, T) => OnTable(d, e, T)
BY DEF OnTable

\* A statement on one table leaves the others alone.
LEMMA AlterStep ==
  ASSUME NEW d, NEW e, NEW s, s.table \in DOMAIN d, s.op # "rename", Step(d, s, e)
  PROVE  /\ OnTable(d, e, s.table) /\ e[s.table] = Altered(d[s.table], s)
         /\ s.op = "addcol" => ~ HasColumn(d[s.table], s.col.name)
         /\ s.op = "change" => (s.col.name # s.name => ~ HasColumn(d[s.table], s.col.name))
<1>1. e = Execute(d, s) /\ Accepts(d, s)
  BY DEF Step
<1>2. Touches(s) = {s.table}
  BY DEF Touches
<1>3. e = [n \in DOMAIN d |-> IF n = s.table THEN Altered(d[n], s)
                              ELSE IF n \in Touches(s) THEN d[s.table] ELSE d[n]]
  BY <1>1 DEF Execute
<1>4. OnTable(d, e, s.table) /\ e[s.table] = Altered(d[s.table], s)
  BY <1>2, <1>3 DEF OnTable
<1> QED
  BY <1>1, <1>4 DEF Accepts

\* One statement on table T, whose columns are C.
LEMMA Statements ==
  ASSUME NEW d, NEW e, NEW T, T \in DOMAIN d, NEW C, NEW I, Fits(d[T], C, I), NEW c
  PROVE  /\ Step(d, CreateIndex(T, c), e) => OnTable(d, e, T) /\ Fits(e[T], C, I \cup {c.name})
         /\ Step(d, DropIndex(T, c), e) => OnTable(d, e, T) /\ Fits(e[T], C, I \ {c.name})
         /\ Step(d, AddColumn(T, DbColumn(c, c.nullable, c.uuid)), e)
              => OnTable(d, e, T) /\ Fits(e[T], C \cup {c}, I)
         /\ Step(d, DropColumn(T, c.name), e) /\ c \in C
              => OnTable(d, e, T) /\ Fits(e[T], C \ {c}, I \ {c.name})
<1>1. ASSUME Step(d, CreateIndex(T, c), e) PROVE OnTable(d, e, T) /\ Fits(e[T], C, I \cup {c.name})
  <2> DEFINE s == CreateIndex(T, c)
  <2>1. s.table = T /\ s.op = "addindex"
    BY DEF CreateIndex
  <2> HIDE DEF s
  <2>2. OnTable(d, e, T) /\ e[T] = Altered(d[T], s)
    BY <1>1, <2>1, AlterStep DEF s
  <2> QED
    BY <2>2, FitsAddIndex DEF s
<1>2. ASSUME Step(d, DropIndex(T, c), e) PROVE OnTable(d, e, T) /\ Fits(e[T], C, I \ {c.name})
  <2> DEFINE s == DropIndex(T, c)
  <2>1. s.table = T /\ s.op = "dropindex"
    BY DEF DropIndex
  <2> HIDE DEF s
  <2>2. OnTable(d, e, T) /\ e[T] = Altered(d[T], s)
    BY <1>2, <2>1, AlterStep DEF s
  <2> QED
    BY <2>2, FitsDropIndex DEF s
<1>3. ASSUME Step(d, AddColumn(T, DbColumn(c, c.nullable, c.uuid)), e)
      PROVE  OnTable(d, e, T) /\ Fits(e[T], C \cup {c}, I)
  <2> DEFINE s == AddColumn(T, DbColumn(c, c.nullable, c.uuid))
  <2>1. s.table = T /\ s.op = "addcol" /\ s.col.name = c.name
    BY DEF AddColumn, DbColumn
  <2> HIDE DEF s
  <2>2. OnTable(d, e, T) /\ e[T] = Altered(d[T], s) /\ ~ HasColumn(d[T], c.name)
    BY <1>3, <2>1, AlterStep DEF s
  <2> QED
    BY <2>2, FitsAddColumn DEF s
<1>4. ASSUME Step(d, DropColumn(T, c.name), e), c \in C
      PROVE  OnTable(d, e, T) /\ Fits(e[T], C \ {c}, I \ {c.name})
  <2> DEFINE s == DropColumn(T, c.name)
  <2>1. s.table = T /\ s.op = "dropcol"
    BY DEF DropColumn
  <2> HIDE DEF s
  <2>2. OnTable(d, e, T) /\ e[T] = Altered(d[T], s)
    BY <1>4, <2>1, AlterStep DEF s
  <2> QED
    BY <1>4, <2>2, FitsDropColumn DEF s
<1> QED
  BY <1>1, <1>2, <1>3, <1>4

LEMMA ChangeStatement ==
  ASSUME NEW d, NEW e, NEW T, T \in DOMAIN d, NEW C, NEW I, Fits(d[T], C, I),
         NEW b \in C, NEW c, NEW nullable, b.uuid = c.uuid, b.name \notin I, c.nullable => nullable,
         Step(d, ChangeColumn(T, b.name, DbColumn(c, nullable, c.uuid)), e)
  PROVE  OnTable(d, e, T) /\ Fits(e[T], (C \ {b}) \cup {c}, I)
<1> DEFINE s == ChangeColumn(T, b.name, DbColumn(c, nullable, c.uuid))
<1>1. s.table = T /\ s.op = "change" /\ s.col.name = c.name /\ s.name = b.name
  BY DEF ChangeColumn, DbColumn
<1> HIDE DEF s
<1>2. OnTable(d, e, T) /\ e[T] = Altered(d[T], s) /\ (c.name # b.name => ~ HasColumn(d[T], c.name))
  BY <1>1, AlterStep DEF s
<1>3. Fits(Altered(d[T], s), (C \ {b}) \cup {c}, I)
  BY <1>2, FitsChange DEF s
<1> QED
  BY <1>2, <1>3, Zenon

Differs(b, c) == b.name # c.name \/ b.type # c.type \/ b.unsigned # c.unsigned

\* The atoms p, q, r, s of a modified column, each of which may be left out.
ModifyParts(T, b, c, p, q, r, s) ==
  /\ modifyColumnAtoms(T, b, c) =
       When(b.index, p) \o When(Differs(b, c), q) \o When(b.nullable # c.nullable, r) \o When(c.index, s)
  /\ p.do = DropIndex(T, b) /\ s.do = CreateIndex(T, c)
  /\ q.do = ChangeColumn(T, b.name, DbColumn(c, TRUE, c.uuid))
  /\ r.do = ChangeColumn(T, c.name, DbColumn(c, c.nullable, c.uuid))

LEMMA ModifyAtoms ==
  ASSUME NEW T, NEW b, NEW c
  PROVE  \E p, q, r, s : ModifyParts(T, b, c, p, q, r, s)
<1> DEFINE p == Atom(DropIndex(T, b), CreateIndex(T, b))
           q == Atom(ChangeColumn(T, b.name, DbColumn(c, TRUE, c.uuid)),
                     ChangeColumn(T, c.name, DbColumn(b, TRUE, b.uuid)))
           r == Atom(ChangeColumn(T, c.name, DbColumn(c, c.nullable, c.uuid)),
                     ChangeColumn(T, c.name, [DbColumn(b, ~c.nullable, b.uuid) EXCEPT !.name = c.name]))
           s == Atom(CreateIndex(T, c), DropIndex(T, c))
<1>1. modifyColumnAtoms(T, b, c) =
        When(b.index, p) \o When(Differs(b, c), q) \o When(b.nullable # c.nullable, r) \o When(c.index, s)
  BY Zenon DEF modifyColumnAtoms, Differs
<1>2. /\ p.do = DropIndex(T, b) /\ s.do = CreateIndex(T, c)
      /\ q.do = ChangeColumn(T, b.name, DbColumn(c, TRUE, c.uuid))
      /\ r.do = ChangeColumn(T, c.name, DbColumn(c, c.nullable, c.uuid))
  BY DEF Atom
<1> HIDE DEF p, q, r, s
<1>3. ModifyParts(T, b, c, p, q, r, s)
  BY <1>1, <1>2, Zenon DEF ModifyParts
<1> QED
  BY <1>3

LEMMA AtomSeqs ==
  /\ \A a, x : IsSeq(<<a>>) /\ IsSeq(When(x, a))
  /\ \A T, c : IsSeq(deleteColumnAtoms(T, c)) /\ IsSeq(addColumnAtoms(T, c))
  /\ \A T, b, c : IsSeq(modifyColumnAtoms(T, b, c))
<1>1. \A a, x : IsSeq(<<a>>) /\ IsSeq(When(x, a))
  BY SeqFacts, Zenon DEF When
<1>2. \A s, t : IsSeq(s) /\ IsSeq(t) => IsSeq(s \o t)
  BY ConcatFacts
<1>3. \A T, c : IsSeq(deleteColumnAtoms(T, c)) /\ IsSeq(addColumnAtoms(T, c))
  BY <1>1, <1>2 DEF deleteColumnAtoms, addColumnAtoms
<1>4. ASSUME NEW T, NEW b, NEW c PROVE IsSeq(modifyColumnAtoms(T, b, c))
  <2>1. PICK p, q, r, s : ModifyParts(T, b, c, p, q, r, s)
    BY ModifyAtoms
  <2> QED
    BY <1>1, <1>2, <2>1, Zenon DEF ModifyParts
<1> QED
  BY <1>1, <1>3, <1>4

\* Table T of the schema has exactly the attributes C, with their indexes.
Holds(d, T, C) == T \in DOMAIN d /\ Fits(d[T], C, Indexed(C))

LEMMA DeleteOne ==
  ASSUME NEW d, NEW e, NEW T, NEW C, Holds(d, T, C), NEW c \in C, Runs(d, deleteColumnAtoms(T, c), e)
  PROVE  OnTable(d, e, T) /\ Holds(e, T, C \ {c})
<1> DEFINE drop == Atom(DropIndex(T, c), CreateIndex(T, c))
           del == Atom(DropColumn(T, c.name), AddColumn(T, DbColumn(c, TRUE, Lost)))
<1>1. deleteColumnAtoms(T, c) = When(c.index, drop) \o <<del>>
  BY DEF deleteColumnAtoms
<1>2. drop.do = DropIndex(T, c) /\ del.do = DropColumn(T, c.name)
  BY DEF Atom
<1> HIDE DEF drop, del
<1>3. PICK m : Runs(d, When(c.index, drop), m) /\ Runs(m, <<del>>, e)
  BY <1>1, AtomSeqs, RunsConcat
<1>4. Indexed(C \ {c}) = Indexed(C) \ {c.name}
  BY IndexedFacts DEF Holds, Fits
<1>5. OnTable(d, m, T) /\ \E I : Fits(m[T], C, I) /\ I \ {c.name} = Indexed(C \ {c})
  <2>1. CASE c.index
    <3>1. Step(d, drop.do, m)
      BY <1>3, <2>1, RunsWhen, Zenon
    <3>2. OnTable(d, m, T) /\ Fits(m[T], C, Indexed(C) \ {c.name})
      BY <1>2, <3>1, Statements DEF Holds
    <3> QED
      BY <1>4, <3>2
  <2>2. CASE ~ c.index
    <3>1. m = d
      BY <1>3, <2>2, RunsWhen
    <3> QED
      BY <1>4, <3>1, OnTableFacts DEF Holds
  <2> QED
    BY <2>1, <2>2
<1>6. PICK I : Fits(m[T], C, I) /\ I \ {c.name} = Indexed(C \ {c})
  BY <1>5
<1>7. Step(m, DropColumn(T, c.name), e)
  BY <1>2, <1>3, RunsShort
<1>8. T \in DOMAIN m
  BY <1>5 DEF OnTable, Holds
<1>9. OnTable(m, e, T) /\ Fits(e[T], C \ {c}, I \ {c.name})
  BY <1>6, <1>7, <1>8, Statements
<1> QED
  BY <1>5, <1>6, <1>8, <1>9, OnTableFacts DEF Holds, OnTable

LEMMA AddOne ==
  ASSUME NEW d, NEW e, NEW T, NEW C, Holds(d, T, C), NEW c, Runs(d, addColumnAtoms(T, c), e)
  PROVE  OnTable(d, e, T) /\ Holds(e, T, C \cup {c})
<1> DEFINE add == Atom(AddColumn(T, DbColumn(c, c.nullable, c.uuid)), DropColumn(T, c.name))
           create == Atom(CreateIndex(T, c), DropIndex(T, c))
<1>1. addColumnAtoms(T, c) = <<add>> \o When(c.index, create)
  BY DEF addColumnAtoms
<1>2. create.do = CreateIndex(T, c) /\ add.do = AddColumn(T, DbColumn(c, c.nullable, c.uuid))
  BY DEF Atom
<1> HIDE DEF add, create
<1>3. PICK m : Runs(d, <<add>>, m) /\ Runs(m, When(c.index, create), e)
  BY <1>1, AtomSeqs, RunsConcat
<1>4. Step(d, AddColumn(T, DbColumn(c, c.nullable, c.uuid)), m)
  BY <1>2, <1>3, RunsShort
<1>5. OnTable(d, m, T) /\ Fits(m[T], C \cup {c}, Indexed(C))
  BY <1>4, Statements DEF Holds
<1>6. T \in DOMAIN m
  BY <1>5 DEF OnTable, Holds
<1>7. CASE c.index
  <2>1. Step(m, create.do, e)
    BY <1>3, <1>7, RunsWhen, Zenon
  <2>2. OnTable(m, e, T) /\ Fits(e[T], C \cup {c}, Indexed(C) \cup {c.name})
    BY <1>2, <1>5, <1>6, <2>1, Statements
  <2>3. Indexed(C \cup {c}) = Indexed(C) \cup {c.name}
    BY <1>7, IndexedFacts
  <2> QED
    BY <1>5, <1>6, <2>2, <2>3, OnTableFacts DEF Holds, OnTable
<1>8. CASE ~ c.index
  <2>1. e = m
    BY <1>3, <1>8, RunsWhen
  <2>2. Indexed(C \cup {c}) = Indexed(C)
    BY <1>8 DEF Indexed
  <2> QED
    BY <1>5, <1>6, <2>1, <2>2 DEF Holds
<1> QED
  BY <1>7, <1>8

\* Drop the index, change the column, make it nullable or not, create the index.
LEMMA ModifyOne ==
  ASSUME NEW d, NEW e, NEW T, NEW C, Holds(d, T, C), NEW b \in C, NEW c, b.uuid = c.uuid,
         \A x \in C : x.uuid = b.uuid => x = b, Runs(d, modifyColumnAtoms(T, b, c), e)
  PROVE  OnTable(d, e, T) /\ Holds(e, T, (C \ {b}) \cup {c})
<1> DEFINE D == (C \ {b}) \cup {c}
           I == Indexed(C \ {b})
<1>1. PICK p, q, r, s : ModifyParts(T, b, c, p, q, r, s)
  BY ModifyAtoms
<1>2. PICK m1, m2, m3 : /\ Runs(d, When(b.index, p), m1) /\ Runs(m1, When(Differs(b, c), q), m2)
                        /\ Runs(m2, When(b.nullable # c.nullable, r), m3) /\ Runs(m3, When(c.index, s), e)
  <2> DEFINE P == When(b.index, p)
             Q == When(Differs(b, c), q)
             R == When(b.nullable # c.nullable, r)
             S == When(c.index, s)
  <2>1. IsSeq(P) /\ IsSeq(Q) /\ IsSeq(R) /\ IsSeq(S)
    BY AtomSeqs, Zenon
  <2>2. Runs(d, P \o Q \o R \o S, e)
    BY <1>1, Zenon DEF ModifyParts
  <2> HIDE DEF P, Q, R, S
  <2>3. IsSeq(P \o Q) /\ IsSeq(P \o Q \o R)
    BY <2>1, ConcatFacts
  <2>4. PICK m3 : Runs(d, P \o Q \o R, m3) /\ Runs(m3, S, e)
    BY <2>1, <2>2, <2>3, RunsConcat
  <2>5. PICK m2 : Runs(d, P \o Q, m2) /\ Runs(m2, R, m3)
    BY <2>1, <2>3, <2>4, RunsConcat
  <2>6. PICK m1 : Runs(d, P, m1) /\ Runs(m1, Q, m2)
    BY <2>1, <2>5, RunsConcat
  <2>7. Runs(d, P, m1) /\ Runs(m1, Q, m2) /\ Runs(m2, R, m3) /\ Runs(m3, S, e)
    BY <2>4, <2>5, <2>6
  <2> QED
    BY <2>7 DEF P, Q, R, S
<1>3. /\ I = Indexed(C) \ {b.name} /\ b.name \notin I
      /\ ~ b.index => I = Indexed(C)
  BY IndexedFacts DEF Holds, Fits, Indexed
<1>4. T \in DOMAIN d /\ Fits(d[T], C, Indexed(C))
  BY DEF Holds
<1> HIDE DEF I
<1>5. OnTable(d, m1, T) /\ Fits(m1[T], C, I)
  <2>1. CASE b.index
    <3>1. Step(d, p.do, m1)
      BY <1>2, <2>1, RunsWhen, Zenon
    <3>2. Step(d, DropIndex(T, b), m1)
      BY <1>1, <3>1 DEF ModifyParts
    <3>3. OnTable(d, m1, T) /\ Fits(m1[T], C, Indexed(C) \ {b.name})
      BY <1>4, <3>2, Statements
    <3> QED
      BY <1>3, <3>3
  <2>2. CASE ~ b.index
    <3>1. Runs(d, <<>>, m1)
      BY <1>2, <2>2, Zenon DEF When
    <3>2. m1 = d
      BY <3>1, RunsShort
    <3> QED
      BY <1>3, <1>4, <2>2, <3>2, OnTableFacts
  <2> QED
    BY <2>1, <2>2
<1>6. T \in DOMAIN m1
  BY <1>4, <1>5 DEF OnTable
<1>7. /\ OnTable(m1, m2, T)
      /\ Differs(b, c) => Fits(m2[T], D, I)
      /\ ~ Differs(b, c) => Fits(m2[T], C, I)
  <2>1. CASE Differs(b, c)
    <3>1. Step(m1, q.do, m2)
      BY <1>2, <2>1, RunsWhen, Zenon
    <3>2. Step(m1, ChangeColumn(T, b.name, DbColumn(c, TRUE, c.uuid)), m2)
      BY <1>1, <3>1 DEF ModifyParts
    <3>3. OnTable(m1, m2, T) /\ Fits(m2[T], D, I)
      BY <1>3, <1>5, <1>6, <3>2, ChangeStatement
    <3> QED
      BY <2>1, <3>3
  <2>2. CASE ~ Differs(b, c)
    <3>1. Runs(m1, <<>>, m2)
      BY <1>2, <2>2, Zenon DEF When
    <3>2. m2 = m1
      BY <3>1, RunsShort
    <3> QED
      BY <1>5, <2>2, <3>2, OnTableFacts
  <2> QED
    BY <2>1, <2>2
<1>8. T \in DOMAIN m2
  BY <1>6, <1>7 DEF OnTable
<1>9. OnTable(m2, m3, T) /\ Fits(m3[T], D, I)
  <2>1. CASE b.nullable # c.nullable
    <3>1. Step(m2, r.do, m3)
      BY <1>2, <2>1, RunsWhen, Zenon
    <3>2. Step(m2, ChangeColumn(T, c.name, DbColumn(c, c.nullable, c.uuid)), m3)
      BY <1>1, <3>1 DEF ModifyParts
    <3>3. CASE Differs(b, c)
      <4>1. Fits(m2[T], D, I)
        BY <1>7, <3>3
      <4>2. c.name \notin I
        <5>1. \A x \in C \ {b} : x.name # c.name
          BY <4>1 DEF Fits
        <5> QED
          BY <5>1 DEF I, Indexed
      <4>3. OnTable(m2, m3, T) /\ Fits(m3[T], (D \ {c}) \cup {c}, I)
        BY <1>8, <3>2, <4>1, <4>2, ChangeStatement
      <4>4. (D \ {c}) \cup {c} = D
        OBVIOUS
      <4> QED
        BY <4>3, <4>4
    <3>4. CASE ~ Differs(b, c)
      <4>1. Fits(m2[T], C, I) /\ c.name = b.name
        BY <1>7, <3>4 DEF Differs
      <4>2. Step(m2, ChangeColumn(T, b.name, DbColumn(c, c.nullable, c.uuid)), m3)
        BY <3>2, <4>1
      <4> QED
        BY <1>3, <1>8, <4>1, <4>2, ChangeStatement
    <3> QED
      BY <3>3, <3>4
  <2>2. CASE b.nullable = c.nullable
    <3>1. m3 = m2
      BY <1>2, <2>2, RunsWhen, Zenon
    <3>2. Fits(m2[T], D, I)
      BY <1>7, FitsSame, <2>2 DEF Differs
    <3> QED
      BY <3>1, <3>2, OnTableFacts
  <2> QED
    BY <2>1, <2>2
<1>10. T \in DOMAIN m3
  BY <1>8, <1>9 DEF OnTable
<1>11. OnTable(m3, e, T) /\ Fits(e[T], D, Indexed(D))
  <2>1. CASE c.index
    <3>1. Step(m3, s.do, e)
      BY <1>2, <2>1, RunsWhen, Zenon
    <3>2. Step(m3, CreateIndex(T, c), e)
      BY <1>1, <3>1 DEF ModifyParts
    <3>3. OnTable(m3, e, T) /\ Fits(e[T], D, I \cup {c.name})
      BY <1>9, <1>10, <3>2, Statements
    <3>4. Indexed(D) = I \cup {c.name}
      BY <2>1, IndexedFacts DEF I
    <3> QED
      BY <3>3, <3>4
  <2>2. CASE ~ c.index
    <3>1. Runs(m3, <<>>, e)
      BY <1>2, <2>2, Zenon DEF When
    <3>2. e = m3
      BY <3>1, RunsShort
    <3>3. Indexed(D) = I
      BY <2>2 DEF I, Indexed
    <3> QED
      BY <1>9, <3>2, <3>3, OnTableFacts
  <2> QED
    BY <2>1, <2>2
<1>12. OnTable(d, e, T)
  BY <1>5, <1>7, <1>9, <1>11, OnTableFacts
<1> HIDE DEF D
<1>13. T \in DOMAIN e
  BY <1>10, <1>11 DEF OnTable
<1> QED
  BY <1>11, <1>12, <1>13 DEF Holds, D

-----------------------------------------------------------------------------
(* The columns of a modified table, one after the other *)

DistinctUuids(s) == \A i, j \in DOMAIN s : s[i].uuid = s[j].uuid => i = j

LEMMA DistinctAppend ==
  ASSUME NEW t, IsSeq(t), DistinctUuids(t), NEW x, \A y \in ToSet(t) : y.uuid # x.uuid
  PROVE  DistinctUuids(t \o <<x>>)
<1> DEFINE S == ToSet(t) \cup {x}
           u == <<x>>
           v == t \o u
<1>1. t \in Seq(S) /\ u \in Seq(S) /\ Len(u) = 1 /\ u[1] = x
  BY SeqMonotonic DEF IsSeq
<1> HIDE DEF S, u
<1>2. /\ v \in Seq(S) /\ Len(v) = Len(t) + 1 /\ Len(t) \in Nat
      /\ \A i \in 1..(Len(t) + 1) : v[i] = IF i <= Len(t) THEN t[i] ELSE u[i - Len(t)]
  <2>1. /\ t \o u \in Seq(S) /\ Len(t \o u) = Len(t) + Len(u)
        /\ \A i \in 1..(Len(t) + Len(u)) : (t \o u)[i] = IF i <= Len(t) THEN t[i] ELSE u[i - Len(t)]
    BY <1>1, ConcatProperties
  <2> QED
    BY <1>1, <2>1, LenProperties
<1>3. DOMAIN v = 1..(Len(t) + 1) /\ DOMAIN t = 1..Len(t)
  BY <1>1, <1>2, LenProperties
<1>4. ASSUME NEW i \in 1..Len(t) PROVE v[i] = t[i] /\ t[i] \in ToSet(t)
  BY <1>2, <1>3 DEF ToSet
<1>5. v[Len(t) + 1] = x
  <2>1. Len(t) + 1 \in 1..(Len(t) + 1) /\ ~ (Len(t) + 1 <= Len(t)) /\ (Len(t) + 1) - Len(t) = 1
    BY <1>2
  <2> QED
    BY <1>1, <1>2, <2>1
<1> HIDE DEF v
<1>6. ASSUME NEW i \in 1..(Len(t) + 1), NEW j \in 1..(Len(t) + 1), v[i].uuid = v[j].uuid PROVE i = j
  <2>1. CASE i \in 1..Len(t) /\ j \in 1..Len(t)
    BY <1>3, <1>4, <1>6, <2>1 DEF DistinctUuids
  <2>2. CASE i = Len(t) + 1 /\ j \in 1..Len(t)
    BY <1>4, <1>5, <1>6, <2>2
  <2>3. CASE i \in 1..Len(t) /\ j = Len(t) + 1
    BY <1>4, <1>5, <1>6, <2>3
  <2> QED
    BY <1>2, <2>1, <2>2, <2>3
<1>7. DistinctUuids(v)
  BY <1>3, <1>6 DEF DistinctUuids
<1> QED
  BY <1>7 DEF v, u

\* Those of s that are in S, once each.
LEMMA Picked ==
  ASSUME NEW s, IsSeq(s), DistinctUuids(s), NEW S, S \subseteq ToSet(s),
         NEW ss, ss = [i \in DOMAIN s |-> When(s[i] \in S, s[i])]
  PROVE  /\ IsSeq(FlattenSeq(ss)) /\ ToSet(FlattenSeq(ss)) = S
         /\ DistinctUuids(FlattenSeq(ss))
<1>1. DOMAIN s = 1..Len(s) /\ Len(s) \in Nat /\ ToSet(s) = { s[i] : i \in 1..Len(s) }
  BY SeqFacts
<1>2. /\ \A i \in 1..Len(s) : s[i] \in S => ss[i] = <<s[i]>>
      /\ \A i \in 1..Len(s) : s[i] \notin S => ss[i] = <<>>
  BY <1>1 DEF When
<1>3. /\ \A i \in 1..Len(s) : IsSeq(ss[i])
      /\ \A i \in 1..Len(s) : ToSet(ss[i]) = {s[i]} \cap S
  <2>1. /\ IsSeq(<<>>) /\ ToSet(<<>>) = {}
        /\ \A x : IsSeq(<<x>>) /\ ToSet(<<x>>) = {x}
    BY SeqFacts
  <2>2. ASSUME NEW i \in 1..Len(s) PROVE IsSeq(ss[i]) /\ ToSet(ss[i]) = {s[i]} \cap S
    <3>1. CASE s[i] \in S
      <4>1. ss[i] = <<s[i]>> /\ {s[i]} \cap S = {s[i]}
        BY <1>2, <3>1
      <4> QED
        BY <2>1, <4>1
    <3>2. CASE s[i] \notin S
      <4>1. ss[i] = <<>> /\ {s[i]} \cap S = {}
        BY <1>2, <3>2
      <4> QED
        BY <2>1, <4>1
    <3> QED
      BY <3>1, <3>2
  <2> QED
    BY <2>2
<1>4. IsSeq(ss) /\ DOMAIN ss = 1..Len(s)
  BY <1>1 DEF IsSeq, ToSet
<1>5. IsSeq(FlattenSeq(ss)) /\ ToSet(FlattenSeq(ss)) = S
  <2>1. IsSeq(FlattenSeq(ss)) /\ ToSet(FlattenSeq(ss)) = UNION { ToSet(ss[i]) : i \in DOMAIN ss }
    BY <1>3, <1>4, FlattenFacts
  <2>2. UNION { ToSet(ss[i]) : i \in 1..Len(s) } = S
    BY <1>1, <1>3
  <2> QED
    BY <1>4, <2>1, <2>2
<1>6. PICK g : /\ g[0] = <<>> /\ g[Len(s)] = FlattenSeq(ss)
               /\ \A k \in 0..Len(s) : IsSeq(g[k])
               /\ \A k \in 0..(Len(s) - 1) : g[k + 1] = g[k] \o ss[k + 1]
  <2>1. ss = [i \in 1..Len(s) |-> ss[i]]
    BY <1>1
  <2>2. \E g : Built(g, Len(s), ss)
    BY <1>1, <1>3, <2>1, FlattenSteps
  <2> QED
    BY <2>2 DEF Built
<1> DEFINE T == { k \in 0..Len(s) : DistinctUuids(g[k]) /\ ToSet(g[k]) \subseteq { s[i] : i \in 1..k } }
<1>7. 0 \in T
  <2>1. DistinctUuids(<<>>) /\ ToSet(<<>>) = {}
    BY SeqFacts DEF DistinctUuids
  <2> QED
    BY <1>1, <1>6, <2>1
<1>8. ASSUME NEW k \in 0..(Len(s) - 1), k \in T PROVE k + 1 \in T
  <2>1. /\ k \in 0..Len(s) /\ k + 1 \in 0..Len(s) /\ k + 1 \in 1..Len(s) /\ 1..k \subseteq 1..(k + 1)
        /\ k + 1 \in 1..(k + 1) /\ \A i \in 1..k : i \in 1..Len(s) /\ i # k + 1
    BY <1>1
  <2>2. DistinctUuids(g[k]) /\ ToSet(g[k]) \subseteq { s[i] : i \in 1..k } /\ IsSeq(g[k])
    BY <1>6, <1>8, <2>1
  <2>3. CASE s[k + 1] \in S
    <3>1. g[k + 1] = g[k] \o <<s[k + 1]>>
      BY <1>2, <1>6, <2>1, <2>3
    <3>2. \A y \in ToSet(g[k]) : y.uuid # s[k + 1].uuid
      BY <1>1, <2>1, <2>2 DEF DistinctUuids
    <3>3. DistinctUuids(g[k + 1])
      BY <2>2, <3>1, <3>2, DistinctAppend
    <3>4. ToSet(g[k + 1]) = ToSet(g[k]) \cup {s[k + 1]}
      BY <2>2, <3>1, ConcatFacts, SeqFacts
    <3> QED
      BY <2>1, <2>2, <3>3, <3>4
  <2>4. CASE s[k + 1] \notin S
    <3>1. g[k + 1] = g[k]
      <4>1. g[k + 1] = g[k] \o <<>>
        BY <1>2, <1>6, <2>1, <2>4
      <4>2. g[k] \o <<>> = g[k]
        BY <2>2, ConcatEmptySeq DEF IsSeq
      <4> QED
        BY <4>1, <4>2
    <3> QED
      BY <2>1, <2>2, <3>1
  <2> QED
    BY <2>3, <2>4
<1>9. Len(s) \in T
  <2> HIDE DEF T
  <2> QED
    BY <1>1, <1>7, <1>8, Induction
<1> QED
  BY <1>5, <1>6, <1>9

LEMMA DeleteMany ==
  ASSUME NEW d, NEW e, NEW T, NEW C, Holds(d, T, C), NEW D, IsSeq(D), DistinctUuids(D), ToSet(D) \subseteq C,
         Runs(d, FlattenSeq([i \in DOMAIN D |-> deleteColumnAtoms(T, D[i])]), e)
  PROVE  OnTable(d, e, T) /\ Holds(e, T, C \ ToSet(D))
<1>1. DOMAIN D = 1..Len(D) /\ Len(D) \in Nat /\ ToSet(D) = { D[i] : i \in 1..Len(D) }
  BY SeqFacts
<1>2. PICK h : /\ h[0] = d /\ h[Len(D)] = e
               /\ \A i \in 1..Len(D) : Runs(h[i - 1], deleteColumnAtoms(T, D[i]), h[i])
  <2> DEFINE ss == [i \in 1..Len(D) |-> deleteColumnAtoms(T, D[i])]
  <2>1. ss = [i \in 1..Len(D) |-> ss[i]] /\ \A i \in 1..Len(D) : IsSeq(ss[i]) /\ ss[i] = deleteColumnAtoms(T, D[i])
    BY AtomSeqs
  <2>2. Runs(d, FlattenSeq(ss), e)
    BY <1>1
  <2> HIDE DEF ss
  <2>3. PICK h : h[0] = d /\ h[Len(D)] = e /\ \A i \in 1..Len(D) : Runs(h[i - 1], ss[i], h[i])
    BY <1>1, <2>1, <2>2, RunsFlatten
  <2> QED
    BY <2>1, <2>3
<1> DEFINE Rest(k) == C \ { D[i] : i \in 1..k }
           K == { k \in 0..Len(D) : OnTable(d, h[k], T) /\ Holds(h[k], T, Rest(k)) }
<1>3. 0 \in K
  <2>1. Rest(0) = C /\ 0 \in 0..Len(D)
    BY <1>1
  <2> HIDE DEF Rest
  <2> QED
    BY <1>2, <2>1, OnTableFacts
<1>4. ASSUME NEW k \in 0..(Len(D) - 1), k \in K PROVE k + 1 \in K
  <2>1. /\ k + 1 \in 0..Len(D) /\ k + 1 \in 1..Len(D) /\ (k + 1) - 1 = k
        /\ \A i \in 1..k : i \in 1..Len(D) /\ i # k + 1
    BY <1>1
  <2>2. D[k + 1] \in Rest(k)
    BY <1>1, <2>1 DEF DistinctUuids
  <2>3. Rest(k + 1) = Rest(k) \ {D[k + 1]}
    <3>1. 1..(k + 1) = 1..k \cup {k + 1}
      OBVIOUS
    <3> QED
      BY <3>1
  <2>4. Runs(h[k], deleteColumnAtoms(T, D[k + 1]), h[k + 1])
    BY <1>2, <2>1
  <2> HIDE DEF Rest
  <2>5. OnTable(h[k], h[k + 1], T) /\ Holds(h[k + 1], T, Rest(k) \ {D[k + 1]})
    BY <1>4, <2>2, <2>4, DeleteOne
  <2> QED
    BY <1>4, <2>1, <2>3, <2>5, OnTableFacts
<1>5. Len(D) \in K
  <2> HIDE DEF K
  <2> QED
    BY <1>1, <1>3, <1>4, Induction
<1>6. Rest(Len(D)) = C \ ToSet(D)
  BY <1>1
<1> HIDE DEF Rest
<1> QED
  BY <1>2, <1>5, <1>6

LEMMA AddMany ==
  ASSUME NEW d, NEW e, NEW T, NEW C, Holds(d, T, C), NEW A, IsSeq(A),
         Runs(d, FlattenSeq([i \in DOMAIN A |-> addColumnAtoms(T, A[i])]), e)
  PROVE  OnTable(d, e, T) /\ Holds(e, T, C \cup ToSet(A))
<1>1. DOMAIN A = 1..Len(A) /\ Len(A) \in Nat /\ ToSet(A) = { A[i] : i \in 1..Len(A) }
  BY SeqFacts
<1>2. PICK h : /\ h[0] = d /\ h[Len(A)] = e
               /\ \A i \in 1..Len(A) : Runs(h[i - 1], addColumnAtoms(T, A[i]), h[i])
  <2> DEFINE ss == [i \in 1..Len(A) |-> addColumnAtoms(T, A[i])]
  <2>1. ss = [i \in 1..Len(A) |-> ss[i]] /\ \A i \in 1..Len(A) : IsSeq(ss[i]) /\ ss[i] = addColumnAtoms(T, A[i])
    BY AtomSeqs
  <2>2. Runs(d, FlattenSeq(ss), e)
    BY <1>1
  <2> HIDE DEF ss
  <2>3. PICK h : h[0] = d /\ h[Len(A)] = e /\ \A i \in 1..Len(A) : Runs(h[i - 1], ss[i], h[i])
    BY <1>1, <2>1, <2>2, RunsFlatten
  <2> QED
    BY <2>1, <2>3
<1> DEFINE So(k) == C \cup { A[i] : i \in 1..k }
           K == { k \in 0..Len(A) : OnTable(d, h[k], T) /\ Holds(h[k], T, So(k)) }
<1>3. 0 \in K
  <2>1. So(0) = C /\ 0 \in 0..Len(A)
    BY <1>1
  <2> HIDE DEF So
  <2> QED
    BY <1>2, <2>1, OnTableFacts
<1>4. ASSUME NEW k \in 0..(Len(A) - 1), k \in K PROVE k + 1 \in K
  <2>1. k + 1 \in 0..Len(A) /\ k + 1 \in 1..Len(A) /\ (k + 1) - 1 = k
    BY <1>1
  <2>2. So(k + 1) = So(k) \cup {A[k + 1]}
    <3>1. 1..(k + 1) = 1..k \cup {k + 1}
      OBVIOUS
    <3> QED
      BY <3>1
  <2>3. Runs(h[k], addColumnAtoms(T, A[k + 1]), h[k + 1])
    BY <1>2, <2>1
  <2> HIDE DEF So
  <2>4. OnTable(h[k], h[k + 1], T) /\ Holds(h[k + 1], T, So(k) \cup {A[k + 1]})
    BY <1>4, <2>3, AddOne
  <2> QED
    BY <1>4, <2>1, <2>2, <2>4, OnTableFacts
<1>5. Len(A) \in K
  <2> HIDE DEF K
  <2> QED
    BY <1>1, <1>3, <1>4, Induction
<1>6. So(Len(A)) = C \cup ToSet(A)
  BY <1>1
<1> HIDE DEF So
<1> QED
  BY <1>2, <1>5, <1>6

\* ss holds the atoms that make each column was[i] of C, W together, M[i].
ModifiesEach(T, C, M, was, W, ss) ==
  /\ IsSeq(M) /\ DistinctUuids(M) /\ \A x, y \in C : x.uuid = y.uuid => x = y
  /\ \A i \in DOMAIN M : was[i] \in C /\ was[i].uuid = M[i].uuid
  /\ W = { was[i] : i \in DOMAIN M }
  /\ ss = [i \in DOMAIN M |-> ss[i]] /\ \A i \in DOMAIN M : ss[i] = modifyColumnAtoms(T, was[i], M[i])

LEMMA ModifyMany ==
  ASSUME NEW d, NEW e, NEW T, NEW C, Holds(d, T, C), NEW M, NEW was, NEW W, NEW ss,
         ModifiesEach(T, C, M, was, W, ss), Runs(d, FlattenSeq(ss), e)
  PROVE  OnTable(d, e, T) /\ Holds(e, T, (C \ W) \cup ToSet(M))
<1>0. /\ IsSeq(M) /\ DistinctUuids(M) /\ \A x, y \in C : x.uuid = y.uuid => x = y
      /\ \A i \in DOMAIN M : was[i] \in C /\ was[i].uuid = M[i].uuid
      /\ W = { was[i] : i \in DOMAIN M }
      /\ ss = [i \in DOMAIN M |-> ss[i]] /\ \A i \in DOMAIN M : ss[i] = modifyColumnAtoms(T, was[i], M[i])
  BY DEF ModifiesEach
<1>1. DOMAIN M = 1..Len(M) /\ Len(M) \in Nat /\ ToSet(M) = { M[i] : i \in 1..Len(M) }
  BY <1>0, SeqFacts
<1>2. PICK h : /\ h[0] = d /\ h[Len(M)] = e
               /\ \A i \in 1..Len(M) : Runs(h[i - 1], modifyColumnAtoms(T, was[i], M[i]), h[i])
  <2>1. ss = [i \in 1..Len(M) |-> ss[i]] /\ \A i \in 1..Len(M) : IsSeq(ss[i])
    BY <1>0, <1>1, AtomSeqs
  <2>3. PICK h : h[0] = d /\ h[Len(M)] = e /\ \A i \in 1..Len(M) : Runs(h[i - 1], ss[i], h[i])
    BY <1>1, <2>1, RunsFlatten
  <2> QED
    BY <1>0, <1>1, <2>3
<1> DEFINE So(k) == (C \ { was[i] : i \in 1..k }) \cup { M[i] : i \in 1..k }
           K == { k \in 0..Len(M) : OnTable(d, h[k], T) /\ Holds(h[k], T, So(k)) }
<1>3. 0 \in K
  <2>1. So(0) = C /\ 0 \in 0..Len(M)
    BY <1>1
  <2> HIDE DEF So
  <2> QED
    BY <1>2, <2>1, OnTableFacts
<1>4. ASSUME NEW k \in 0..(Len(M) - 1), k \in K PROVE k + 1 \in K
  <2>1. /\ k + 1 \in 0..Len(M) /\ k + 1 \in 1..Len(M) /\ (k + 1) - 1 = k
        /\ \A i \in 1..k : i \in 1..Len(M) /\ i # k + 1
    BY <1>1
  <2> DEFINE b == was[k + 1]
             c == M[k + 1]
  <2>2. b \in C /\ b.uuid = c.uuid
    BY <1>0, <1>1, <2>1
  <2>3. \A i \in 1..k : M[i].uuid # c.uuid /\ was[i].uuid # c.uuid
    BY <1>0, <1>1, <2>1 DEF DistinctUuids
  <2>4. 1..(k + 1) = 1..k \cup {k + 1}
    OBVIOUS
  <2>5. { was[i] : i \in 1..(k + 1) } = { was[i] : i \in 1..k } \cup {b}
    BY <2>4
  <2>6. { M[i] : i \in 1..(k + 1) } = { M[i] : i \in 1..k } \cup {c}
    BY <2>4
  <2>7. b \notin { was[i] : i \in 1..k } /\ b \notin { M[i] : i \in 1..k }
    BY <2>2, <2>3
  <2>8. b \in So(k) /\ So(k + 1) = (So(k) \ {b}) \cup {c}
    BY <2>2, <2>5, <2>6, <2>7
  <2>9. \A x \in So(k) : x.uuid = b.uuid => x = b
    BY <1>0, <2>2, <2>3
  <2>10. Runs(h[k], modifyColumnAtoms(T, b, c), h[k + 1])
    BY <1>2, <2>1
  <2>12. Holds(h[k], T, So(k)) /\ OnTable(d, h[k], T)
    BY <1>4
  <2> HIDE DEF So, b, c, K
  <2>11. OnTable(h[k], h[k + 1], T) /\ Holds(h[k + 1], T, (So(k) \ {b}) \cup {c})
    <3>1. PICK x, y, S, p, q : x = h[k] /\ y = h[k + 1] /\ S = So(k) /\ p = b /\ q = c
      OBVIOUS
    <3>2. Holds(x, T, S) /\ p \in S /\ p.uuid = q.uuid /\ (\A z \in S : z.uuid = p.uuid => z = p)
      BY <2>2, <2>8, <2>9, <2>12, <3>1
    <3>3. Runs(x, modifyColumnAtoms(T, p, q), y)
      BY <2>10, <3>1
    <3>4. OnTable(x, y, T) /\ Holds(y, T, (S \ {p}) \cup {q})
      BY ONLY <3>2, <3>3, ModifyOne
    <3> QED
      BY <3>1, <3>4
  <2> QED
    BY <2>1, <2>8, <2>11, <2>12, OnTableFacts DEF K
<1>5. Len(M) \in K
  <2> HIDE DEF K
  <2> QED
    BY <1>1, <1>3, <1>4, Induction
<1>6. So(Len(M)) = (C \ W) \cup ToSet(M)
  BY <1>0, <1>1
<1> HIDE DEF So
<1> QED
  BY <1>2, <1>5, <1>6

\* Those of s that have no counterpart in t, and the columns of n that differ
\* from their counterpart in o.
Only(s, t) == { x \in ToSet(s) : x.uuid \notin Uuids(t) }
Other(o, n) ==
  { c \in ToSet(n.cols) : c.uuid \in Uuids(o.cols) /\ columnDifferent(findColumn(c.uuid, o.cols), c) }

\* Sequence s has each member of S once.
Lists(s, S) == IsSeq(s) /\ DistinctUuids(s) /\ ToSet(s) = S

LEMMA OnlyPicked ==
  ASSUME NEW s, NEW t, IsSeq(s), DistinctUuids(s)
  PROVE  Lists(ForEach(s, LAMBDA x : When(x.uuid \notin Uuids(t), x)), Only(s, t))
<1> DEFINE ss == [i \in DOMAIN s |-> When(s[i].uuid \notin Uuids(t), s[i])]
<1>1. \A i \in DOMAIN s : s[i] \in Only(s, t) <=> s[i].uuid \notin Uuids(t)
  BY DEF Only, ToSet
<1>2. ss = [i \in DOMAIN s |-> When(s[i] \in Only(s, t), s[i])]
  BY <1>1 DEF When
<1>3. Only(s, t) \subseteq ToSet(s)
  BY DEF Only
<1>4. Lists(FlattenSeq(ss), Only(s, t))
  <2> HIDE DEF ss
  <2> QED
    BY <1>2, <1>3, Picked DEF Lists
<1> QED
  BY <1>4 DEF ForEach

LEMMA ColumnsPicked ==
  ASSUME NEW o, NEW n, IsSeq(o.cols), IsSeq(n.cols), DistinctUuids(o.cols), DistinctUuids(n.cols)
  PROVE  /\ Lists(DeleteColumns(o, n), Only(o.cols, n.cols))
         /\ Lists(AddColumns(o, n), Only(n.cols, o.cols))
         /\ Lists(ModifyColumns(o, n), Other(o, n))
<1>1. Lists(DeleteColumns(o, n), Only(o.cols, n.cols))
  BY OnlyPicked DEF DeleteColumns
<1>2. Lists(AddColumns(o, n), Only(n.cols, o.cols))
  BY OnlyPicked DEF AddColumns
<1>3. Lists(ModifyColumns(o, n), Other(o, n))
  <2> DEFINE ss == [i \in DOMAIN n.cols |->
                      When(/\ n.cols[i].uuid \in Uuids(o.cols)
                           /\ columnDifferent(findColumn(n.cols[i].uuid, o.cols), n.cols[i]), n.cols[i])]
  <2>1. \A i \in DOMAIN n.cols :
           n.cols[i] \in Other(o, n) <=> /\ n.cols[i].uuid \in Uuids(o.cols)
                                         /\ columnDifferent(findColumn(n.cols[i].uuid, o.cols), n.cols[i])
    BY DEF Other, ToSet
  <2>2. ss = [i \in DOMAIN n.cols |-> When(n.cols[i] \in Other(o, n), n.cols[i])]
    BY <2>1 DEF When
  <2>3. ModifyColumns(o, n) = FlattenSeq(ss)
    BY DEF ModifyColumns, ForEach
  <2>4. Other(o, n) \subseteq ToSet(n.cols)
    BY DEF Other
  <2> HIDE DEF ss
  <2> QED
    BY <2>2, <2>3, <2>4, Picked DEF Lists
<1> QED
  BY <1>1, <1>2, <1>3

\* Declarations that columnDifferent does not tell apart.
Alike(c, d) ==
  c.uuid = d.uuid /\ c.name = d.name /\ c.type = d.type /\ c.nullable = d.nullable /\ c.index = d.index

\* A table that fits its old columns fits the new ones, if they are alike.
LEMMA FitsAlike ==
  ASSUME NEW t, NEW C, NEW D, Fits(t, C, Indexed(C)), \A x, y \in D : x.uuid = y.uuid => x = y,
         \A c \in C : \E d \in D : Alike(c, d), \A d \in D : \E c \in C : Alike(c, d)
  PROVE  Fits(t, D, Indexed(D))
<1>1. \A x, c, d : Alike(c, d) /\ Stores(x, c) => Stores(x, d)
  BY DEF Alike, Stores
<1>2. \A x \in t.cols : \E d \in D : Stores(x, d)
  BY <1>1 DEF Fits
<1>3. \A d \in D : \E x \in t.cols : Stores(x, d)
  BY <1>1 DEF Fits
<1>4. \A c, d \in D : c.name = d.name => c = d
  BY DEF Fits, Alike
<1>5. Indexed(C) = Indexed(D)
  BY DEF Indexed, Alike
<1> QED
  BY <1>2, <1>3, <1>4, <1>5 DEF Fits

LEMMA FindFacts ==
  ASSUME NEW s, IsSeq(s), DistinctUuids(s)
  PROVE  /\ \A x, y \in ToSet(s) : x.uuid = y.uuid => x = y
         /\ \A u : u \in Uuids(s) <=> \E x \in ToSet(s) : x.uuid = u
         /\ \A x \in ToSet(s) : findColumn(x.uuid, s) = x /\ findTable(x.uuid, s) = x
<1>1. \A x, y \in ToSet(s) : x.uuid = y.uuid => x = y
  BY DEF ToSet, DistinctUuids
<1>2. \A u : u \in Uuids(s) <=> \E x \in ToSet(s) : x.uuid = u
  BY DEF ToSet, Uuids
<1>3. \A x \in ToSet(s) : findColumn(x.uuid, s) = x /\ findTable(x.uuid, s) = x
  BY <1>1 DEF findColumn, findTable
<1> QED
  BY <1>1, <1>2, <1>3

\* After drops, additions and changes the columns are alike those of n.
LEMMA ColumnsReached ==
  ASSUME NEW o, NEW n, IsSeq(o.cols), IsSeq(n.cols), DistinctUuids(o.cols), DistinctUuids(n.cols),
         NEW W, W = { findColumn(c.uuid, o.cols) : c \in Other(o, n) },
         NEW E, E = (((ToSet(o.cols) \ Only(o.cols, n.cols)) \cup Only(n.cols, o.cols)) \ W) \cup Other(o, n)
  PROVE  /\ \A c \in E : \E d \in ToSet(n.cols) : Alike(c, d)
         /\ \A d \in ToSet(n.cols) : \E c \in E : Alike(c, d)
<1>1. /\ \A x, y \in ToSet(o.cols) : x.uuid = y.uuid => x = y
      /\ \A u : u \in Uuids(o.cols) <=> \E x \in ToSet(o.cols) : x.uuid = u
      /\ \A x \in ToSet(o.cols) : findColumn(x.uuid, o.cols) = x
      /\ \A x, y \in ToSet(n.cols) : x.uuid = y.uuid => x = y
      /\ \A u : u \in Uuids(n.cols) <=> \E x \in ToSet(n.cols) : x.uuid = u
  BY FindFacts
<1>2. \A c : Alike(c, c)
  BY DEF Alike
<1>3. ASSUME NEW c \in ToSet(o.cols), NEW d \in ToSet(n.cols), c.uuid = d.uuid
      PROVE  (c \in W <=> d \in Other(o, n)) /\ (d \notin Other(o, n) => Alike(c, d))
  <2>1. findColumn(d.uuid, o.cols) = c /\ d.uuid \in Uuids(o.cols)
    BY <1>1, <1>3
  <2>2. d \notin Other(o, n) => Alike(c, d)
    BY <1>3, <2>1 DEF Other, columnDifferent, Alike
  <2>3. d \in Other(o, n) => c \in W
    BY <2>1
  <2>4. ASSUME c \in W PROVE d \in Other(o, n)
    <3>1. PICK x \in Other(o, n) : c = findColumn(x.uuid, o.cols)
      BY <2>4
    <3>2. PICK y \in ToSet(o.cols) : y.uuid = x.uuid
      BY <1>1 DEF Other
    <3>3. y = c
      BY <1>1, <3>1, <3>2
    <3> QED
      BY <1>1, <1>3, <3>2, <3>3 DEF Other
  <2> QED
    BY <2>2, <2>3, <2>4
<1>4. ASSUME NEW c \in E PROVE \E d \in ToSet(n.cols) : Alike(c, d)
  <2>1. CASE c \in Other(o, n) \cup Only(n.cols, o.cols)
    BY <1>2, <2>1 DEF Other, Only
  <2>2. CASE c \in ToSet(o.cols) /\ c \notin Only(o.cols, n.cols) /\ c \notin W
    <3>1. PICK d \in ToSet(n.cols) : d.uuid = c.uuid
      BY <1>1, <2>2 DEF Only
    <3> QED
      BY <1>3, <2>2, <3>1
  <2> QED
    BY <2>1, <2>2
<1>5. ASSUME NEW d \in ToSet(n.cols) PROVE \E c \in E : Alike(c, d)
  <2>1. CASE d \in Other(o, n)
    BY <1>2, <2>1
  <2>2. CASE d \in Only(n.cols, o.cols)
    <3>1. d \notin W
      <4> SUFFICES ASSUME d \in W PROVE FALSE
        OBVIOUS
      <4>1. PICK x \in Other(o, n) : d = findColumn(x.uuid, o.cols)
        OBVIOUS
      <4>2. PICK y \in ToSet(o.cols) : y.uuid = x.uuid
        BY <1>1 DEF Other
      <4>3. d = y
        BY <1>1, <4>1, <4>2
      <4> QED
        BY <1>1, <2>2, <4>3 DEF Only
    <3> QED
      BY <1>2, <2>2, <3>1
  <2>3. CASE d \notin Other(o, n) /\ d \notin Only(n.cols, o.cols)
    <3>1. PICK c \in ToSet(o.cols) : c.uuid = d.uuid
      BY <1>1, <2>3 DEF Only
    <3>2. c \notin Only(o.cols, n.cols)
      BY <1>1, <3>1 DEF Only
    <3> QED
      BY <1>3, <2>3, <3>1, <3>2
  <2> QED
    BY <2>1, <2>2, <2>3
<1> QED
  BY <1>4, <1>5

\* What makes two tables have the same columns in the schema.
WellFormed(t) == IsSeq(t.cols) /\ DistinctUuids(t.cols)

\* A run of the atoms on the columns of o gives the table the columns of n.
LEMMA ColumnsModified ==
  ASSUME NEW d, NEW e, NEW o, NEW n, WellFormed(o), WellFormed(n), NEW D, NEW A, NEW M,
         D = ForEach(DeleteColumns(o, n), LAMBDA c : deleteColumnAtoms(n.name, c)),
         A = ForEach(AddColumns(o, n), LAMBDA c : addColumnAtoms(n.name, c)),
         M = ForEach(ModifyColumns(o, n), LAMBDA c : modifyColumnAtoms(n.name, findColumn(c.uuid, o.cols), c)),
         Holds(d, n.name, ToSet(o.cols)),
         \E x, y : Runs(d, D, x) /\ Runs(x, A, y) /\ Runs(y, M, e)
  PROVE  OnTable(d, e, n.name) /\ Holds(e, n.name, ToSet(n.cols))
<1> DEFINE O == ToSet(o.cols)
           C1 == O \ Only(o.cols, n.cols)
           C2 == C1 \cup Only(n.cols, o.cols)
           W == { findColumn(c.uuid, o.cols) : c \in Other(o, n) }
           E == (C2 \ W) \cup Other(o, n)
           Ms == ModifyColumns(o, n)
           T == n.name
<1>1. PICK x, y : Runs(d, D, x) /\ Runs(x, A, y) /\ Runs(y, M, e)
  OBVIOUS
<1>2. /\ IsSeq(o.cols) /\ IsSeq(n.cols) /\ DistinctUuids(o.cols) /\ DistinctUuids(n.cols)
      /\ Lists(DeleteColumns(o, n), Only(o.cols, n.cols)) /\ Lists(AddColumns(o, n), Only(n.cols, o.cols)) /\ Lists(Ms, Other(o, n))
  BY ColumnsPicked DEF WellFormed
<1>3. OnTable(d, x, T) /\ Holds(x, T, C1)
  <2> DEFINE s == DeleteColumns(o, n)
  <2>1. Runs(d, FlattenSeq([i \in DOMAIN s |-> deleteColumnAtoms(T, s[i])]), x)
    BY <1>1 DEF ForEach
  <2>2. IsSeq(s) /\ DistinctUuids(s) /\ ToSet(s) = Only(o.cols, n.cols) /\ Only(o.cols, n.cols) \subseteq O
    BY <1>2 DEF Lists, Only
  <2> HIDE DEF s, O, T
  <2> QED
    BY <2>1, <2>2, DeleteMany DEF T, O
<1>4. OnTable(x, y, T) /\ Holds(y, T, C2)
  <2> DEFINE s == AddColumns(o, n)
  <2>1. Runs(x, FlattenSeq([i \in DOMAIN s |-> addColumnAtoms(T, s[i])]), y)
    BY <1>1 DEF ForEach
  <2>2. IsSeq(s) /\ ToSet(s) = Only(n.cols, o.cols)
    BY <1>2 DEF Lists
  <2> HIDE DEF s, C1, T
  <2> QED
    BY <1>3, <2>1, <2>2, AddMany
<1>5. OnTable(y, e, T) /\ Holds(e, T, E)
  <2> DEFINE was == [i \in DOMAIN Ms |-> findColumn(Ms[i].uuid, o.cols)]
             parts == [i \in DOMAIN Ms |-> modifyColumnAtoms(T, was[i], Ms[i])]
  <2>1. Runs(y, FlattenSeq(parts), e)
    <3>1. parts = [i \in DOMAIN Ms |-> modifyColumnAtoms(T, findColumn(Ms[i].uuid, o.cols), Ms[i])]
      OBVIOUS
    <3>2. Runs(y, FlattenSeq([i \in DOMAIN Ms |-> modifyColumnAtoms(T, findColumn(Ms[i].uuid, o.cols), Ms[i])]), e)
      BY <1>1 DEF ForEach
    <3> HIDE DEF Ms, was, parts
    <3> QED
      BY <3>1, <3>2
  <2>0. /\ parts = [i \in DOMAIN Ms |-> parts[i]]
        /\ \A i \in DOMAIN Ms : parts[i] = modifyColumnAtoms(T, was[i], Ms[i])
    OBVIOUS
  <2>2. IsSeq(Ms) /\ DistinctUuids(Ms) /\ ToSet(Ms) = Other(o, n)
    BY <1>2 DEF Lists
  <2> HIDE DEF Ms
  <2>3. /\ \A a, b \in O : a.uuid = b.uuid => a = b
        /\ \A u : u \in Uuids(o.cols) <=> \E a \in O : a.uuid = u
        /\ \A a \in O : findColumn(a.uuid, o.cols) = a
        /\ \A a, b \in ToSet(n.cols) : a.uuid = b.uuid => a = b
    BY <1>2, FindFacts
  <2>4. ASSUME NEW c \in Other(o, n)
        PROVE  findColumn(c.uuid, o.cols) \in C1 /\ findColumn(c.uuid, o.cols).uuid = c.uuid
    <3>1. PICK a \in O : a.uuid = c.uuid
      BY <2>3 DEF Other
    <3>2. findColumn(c.uuid, o.cols) = a
      BY <2>3, <3>1
    <3>3. a \notin Only(o.cols, n.cols)
      BY <1>2, <3>1, FindFacts DEF Only, Other
    <3> QED
      BY <3>1, <3>2, <3>3
  <2>5. \A i \in DOMAIN Ms : Ms[i] \in Other(o, n) /\ was[i] = findColumn(Ms[i].uuid, o.cols)
    BY <2>2 DEF ToSet
  <2>6. { was[i] : i \in DOMAIN Ms } = W
    <3>1. Other(o, n) = { Ms[i] : i \in DOMAIN Ms }
      BY <2>2 DEF ToSet
    <3> QED
      BY <2>5, <3>1
  <2>7. \A i \in DOMAIN Ms : was[i] \in C2 /\ was[i].uuid = Ms[i].uuid
    BY <2>4, <2>5
  <2>8. \A a, b \in C2 : a.uuid = b.uuid => a = b
    <3>1. \A a \in O, b \in Only(n.cols, o.cols) : a.uuid # b.uuid
      BY <2>3 DEF Only
    <3> QED
      BY <2>3, <3>1 DEF Only
  <2> HIDE DEF C2, W, was, T, parts
  <2>9. ModifiesEach(T, C2, Ms, was, W, parts)
    BY <2>0, <2>2, <2>6, <2>7, <2>8 DEF ModifiesEach
  <2>10. OnTable(y, e, T) /\ Holds(e, T, (C2 \ W) \cup ToSet(Ms))
    BY <1>4, <2>1, <2>9, ModifyMany
  <2> QED
    BY <2>2, <2>10
<1>6. OnTable(d, e, T)
  <2> HIDE DEF T
  <2> QED
    BY <1>3, <1>4, <1>5, OnTableFacts
<1>7. /\ \A c \in E : \E b \in ToSet(n.cols) : Alike(c, b)
      /\ \A b \in ToSet(n.cols) : \E c \in E : Alike(c, b)
  BY <1>2, ColumnsReached
<1>8. \A a, b \in ToSet(n.cols) : a.uuid = b.uuid => a = b
  BY <1>2, FindFacts
<1> HIDE DEF E, T
<1>9. Holds(e, T, ToSet(n.cols))
  BY <1>5, <1>7, <1>8, FitsAlike DEF Holds
<1> QED
  BY <1>6, <1>9 DEF T

\* The statements that make table o table n: D on the columns that go, A on
\* those that come, M on those that change.
ColumnAtoms(o, n, D, A, M) ==
  /\ D = ForEach(DeleteColumns(o, n), LAMBDA c : deleteColumnAtoms(n.name, c))
  /\ A = ForEach(AddColumns(o, n), LAMBDA c : addColumnAtoms(n.name, c))
  /\ M = ForEach(ModifyColumns(o, n), LAMBDA c : modifyColumnAtoms(n.name, findColumn(c.uuid, o.cols), c))

LEMMA ForEachSeq ==
  ASSUME NEW s, IsSeq(s), NEW ss, ss = [i \in DOMAIN s |-> ss[i]], \A i \in DOMAIN s : IsSeq(ss[i])
  PROVE  IsSeq(FlattenSeq(ss))
<1>1. DOMAIN s = 1..Len(s) /\ Len(s) \in Nat
  BY SeqFacts
<1>2. IsSeq(ss) /\ DOMAIN ss = DOMAIN s
  BY <1>1 DEF IsSeq, ToSet
<1> QED
  BY <1>2, FlattenFacts

LEMMA ColumnAtomsSeq ==
  ASSUME NEW o, NEW n, IsSeq(o.cols), IsSeq(n.cols), NEW D, NEW A, NEW M, ColumnAtoms(o, n, D, A, M)
  PROVE  IsSeq(D) /\ IsSeq(A) /\ IsSeq(M)
<1>1. IsSeq(DeleteColumns(o, n)) /\ IsSeq(AddColumns(o, n)) /\ IsSeq(ModifyColumns(o, n))
  BY ColumnsSelected
<1>2. IsSeq(D)
  <2> DEFINE s == DeleteColumns(o, n)
             ss == [i \in DOMAIN s |-> deleteColumnAtoms(n.name, s[i])]
  <2>1. ss = [i \in DOMAIN s |-> ss[i]] /\ \A i \in DOMAIN s : IsSeq(ss[i])
    BY AtomSeqs
  <2>2. D = FlattenSeq(ss)
    BY DEF ColumnAtoms, ForEach
  <2> HIDE DEF s, ss
  <2> QED
    BY <1>1, <2>1, <2>2, ForEachSeq DEF s
<1>3. IsSeq(A)
  <2> DEFINE s == AddColumns(o, n)
             ss == [i \in DOMAIN s |-> addColumnAtoms(n.name, s[i])]
  <2>1. ss = [i \in DOMAIN s |-> ss[i]] /\ \A i \in DOMAIN s : IsSeq(ss[i])
    BY AtomSeqs
  <2>2. A = FlattenSeq(ss)
    BY DEF ColumnAtoms, ForEach
  <2> HIDE DEF s, ss
  <2> QED
    BY <1>1, <2>1, <2>2, ForEachSeq DEF s
<1>4. IsSeq(M)
  <2> DEFINE s == ModifyColumns(o, n)
             ss == [i \in DOMAIN s |-> modifyColumnAtoms(n.name, findColumn(s[i].uuid, o.cols), s[i])]
  <2>1. ss = [i \in DOMAIN s |-> ss[i]] /\ \A i \in DOMAIN s : IsSeq(ss[i])
    BY AtomSeqs
  <2>2. M = FlattenSeq(ss)
    BY DEF ColumnAtoms, ForEach
  <2> HIDE DEF s, ss
  <2> QED
    BY <1>1, <2>1, <2>2, ForEachSeq DEF s
<1> QED
  BY <1>2, <1>3, <1>4

LEMMA TableParts ==
  ASSUME NEW d, NEW e, NEW o, NEW n, IsSeq(o.cols), IsSeq(n.cols), Runs(d, BuildModifyTableAtoms(o, n), e)
  PROVE  \E m, x, y, D, A, M : /\ o.name # n.name => Step(d, RenameTable(o.name, n.name), m)
                               /\ o.name = n.name => m = d
                               /\ ColumnAtoms(o, n, D, A, M)
                               /\ Runs(m, D, x) /\ Runs(x, A, y) /\ Runs(y, M, e)
<1> DEFINE a == Atom(RenameTable(o.name, n.name), RenameTable(n.name, o.name))
           R == When(o.name # n.name, a)
           D == ForEach(DeleteColumns(o, n), LAMBDA c : deleteColumnAtoms(n.name, c))
           A == ForEach(AddColumns(o, n), LAMBDA c : addColumnAtoms(n.name, c))
           M == ForEach(ModifyColumns(o, n), LAMBDA c : modifyColumnAtoms(n.name, findColumn(c.uuid, o.cols), c))
<1>1. ColumnAtoms(o, n, D, A, M)
  BY DEF ColumnAtoms
<1>2. BuildModifyTableAtoms(o, n) = R \o D \o A \o M
  BY DEF BuildModifyTableAtoms
<1>3. a.do = RenameTable(o.name, n.name)
  BY DEF Atom
<1> HIDE DEF a, D, A, M
<1>4. IsSeq(D) /\ IsSeq(A) /\ IsSeq(M) /\ IsSeq(R)
  BY <1>1, ColumnAtomsSeq, AtomSeqs
<1>5. PICK m, x, y : Runs(d, R, m) /\ Runs(m, D, x) /\ Runs(x, A, y) /\ Runs(y, M, e)
  <2> HIDE DEF R
  <2>1. IsSeq(R \o D) /\ IsSeq(R \o D \o A)
    BY <1>4, ConcatFacts
  <2>2. Runs(d, R \o D \o A \o M, e)
    BY <1>2
  <2>3. PICK y : Runs(d, R \o D \o A, y) /\ Runs(y, M, e)
    BY <1>4, <2>1, <2>2, RunsConcat
  <2>4. PICK x : Runs(d, R \o D, x) /\ Runs(x, A, y)
    BY <1>4, <2>1, <2>3, RunsConcat
  <2>5. PICK m : Runs(d, R, m) /\ Runs(m, D, x)
    BY <1>4, <2>4, RunsConcat
  <2> QED
    BY <2>3, <2>4, <2>5
<1>6. o.name # n.name => Step(d, RenameTable(o.name, n.name), m)
  <2> SUFFICES ASSUME o.name # n.name PROVE Step(d, RenameTable(o.name, n.name), m)
    OBVIOUS
  <2>1. Step(d, a.do, m)
    BY <1>5, RunsWhen, Zenon
  <2> QED
    BY <1>3, <2>1
<1>7. o.name = n.name => m = d
  <2> SUFFICES ASSUME o.name = n.name PROVE m = d
    OBVIOUS
  <2>1. Runs(d, <<>>, m)
    BY <1>5, Zenon DEF When
  <2> QED
    BY <2>1, RunsShort
<1> QED
  BY <1>1, <1>5, <1>6, <1>7

\* Schema d has exactly the tables W of a model, each with exactly its columns.
HoldsAll(d, W) ==
  /\ DOMAIN d = TableNames
  /\ \A x \in TableNames : d[x].exists => \E w \in W : w.name = x
  /\ \A w \in W : Holds(d, w.name, ToSet(w.cols))
  /\ \A v, w \in W : v.name = w.name => v = w

LEMMA HeldExists ==
  ASSUME NEW d, NEW T, NEW C, Holds(d, T, C)
  PROVE  d[T].exists
<1>1. d[T] = [exists |-> TRUE, cols |-> d[T].cols, idx |-> d[T].idx]
  BY DEF Holds, Fits, IsTable
<1> QED
  BY <1>1

\* RENAME TABLE moves a table to a name no other has.
LEMMA Renaming ==
  ASSUME NEW d, NEW m, NEW from, NEW to, from # to, from \in DOMAIN d, to \in DOMAIN d,
         Step(d, RenameTable(from, to), m)
  PROVE  /\ DOMAIN m = DOMAIN d /\ ~ d[to].exists
         /\ m[from] = NoTable /\ m[to] = d[from] /\ \A n \in DOMAIN d \ {from, to} : m[n] = d[n]
<1> DEFINE s == RenameTable(from, to)
<1>1. s.op = "rename" /\ s.table = from /\ s.to = to
  BY DEF RenameTable
<1> HIDE DEF s
<1>2. m = Execute(d, s) /\ Accepts(d, s)
  BY DEF Step, s
<1>3. ~ d[to].exists
  BY <1>1, <1>2 DEF Accepts
<1>4. Touches(s) = {from, to}
  BY <1>1 DEF Touches
<1>5. Altered(d[from], s) = NoTable
  BY <1>1 DEF Altered
<1>6. m = [n \in DOMAIN d |-> IF n = from THEN Altered(d[n], s) ELSE IF n \in {from, to} THEN d[from] ELSE d[n]]
  BY <1>1, <1>2, <1>4 DEF Execute
<1> QED
  BY <1>3, <1>5, <1>6

\* The atoms of a modified table o make it n.
LEMMA ModifyTable ==
  ASSUME NEW d, NEW e, NEW W, HoldsAll(d, W), NEW o \in W, NEW n, n.name \in TableNames,
         WellFormed(o), WellFormed(n), Runs(d, BuildModifyTableAtoms(o, n), e)
  PROVE  HoldsAll(e, (W \ {o}) \cup {n})
<1> DEFINE V == (W \ {o}) \cup {n}
<1>1. PICK m, x, y, D, A, M : /\ o.name # n.name => Step(d, RenameTable(o.name, n.name), m)
                              /\ o.name = n.name => m = d
                              /\ ColumnAtoms(o, n, D, A, M)
                              /\ Runs(m, D, x) /\ Runs(x, A, y) /\ Runs(y, M, e)
  BY TableParts DEF WellFormed
<1>2. /\ DOMAIN d = TableNames /\ o.name \in TableNames
      /\ \A w \in W : d[w.name].exists /\ w.name \in TableNames
      /\ \A w \in W : w # o => w.name # o.name
  BY HeldExists DEF HoldsAll, Holds
<1>3. /\ DOMAIN m = TableNames /\ Holds(m, n.name, ToSet(o.cols))
      /\ \A w \in W : w # o => w.name # n.name /\ m[w.name] = d[w.name]
      /\ \A z \in TableNames : m[z].exists => z = n.name \/ \E w \in W : w # o /\ w.name = z
  <2>1. CASE o.name = n.name
    BY <1>1, <1>2, <2>1 DEF HoldsAll
  <2>2. CASE o.name # n.name
    <3>1. /\ DOMAIN m = DOMAIN d /\ ~ d[n.name].exists
          /\ m[o.name] = NoTable /\ m[n.name] = d[o.name]
          /\ \A z \in DOMAIN d \ {o.name, n.name} : m[z] = d[z]
      BY <1>1, <1>2, <2>2, Renaming
    <3>2. Holds(m, n.name, ToSet(o.cols))
      BY <1>2, <3>1 DEF HoldsAll, Holds
    <3>3. \A w \in W : w # o => w.name # n.name /\ m[w.name] = d[w.name]
      BY <1>2, <3>1
    <3>4. ASSUME NEW z \in TableNames, m[z].exists PROVE z = n.name \/ \E w \in W : w # o /\ w.name = z
      <4>1. z # o.name
        BY <3>1, <3>4 DEF NoTable
      <4> QED
        BY <1>2, <3>1, <3>4, <4>1 DEF HoldsAll
    <3> QED
      BY <1>2, <3>1, <3>2, <3>3, <3>4
  <2> QED
    BY <2>1, <2>2
<1>4. OnTable(m, e, n.name) /\ Holds(e, n.name, ToSet(n.cols))
  BY <1>1, <1>3, ColumnsModified DEF ColumnAtoms
<1>5. DOMAIN e = TableNames /\ \A z \in TableNames : z # n.name => e[z] = m[z]
  BY <1>3, <1>4 DEF OnTable
<1>6. \A z \in TableNames : e[z].exists => \E w \in V : w.name = z
  BY <1>3, <1>5
<1>7. \A w \in V : Holds(e, w.name, ToSet(w.cols))
  <2>1. ASSUME NEW w \in W, w # o PROVE Holds(e, w.name, ToSet(w.cols))
    <3>1. e[w.name] = d[w.name] /\ w.name \in TableNames
      BY <1>2, <1>3, <1>5, <2>1
    <3> QED
      BY <1>5, <3>1 DEF HoldsAll, Holds
  <2> QED
    BY <1>4, <2>1
<1>8. \A v, w \in V : v.name = w.name => v = w
  BY <1>3 DEF HoldsAll
<1> HIDE DEF V
<1>9. HoldsAll(e, V)
  BY <1>5, <1>6, <1>7, <1>8 DEF HoldsAll
<1> QED
  BY <1>9 DEF V

\* DROP TABLE and CREATE TABLE.
LEMMA DropTable ==
  ASSUME NEW d, NEW e, NEW W, HoldsAll(d, W), NEW t \in W, Step(d, BuildDeleteTableSQL(t), e)
  PROVE  HoldsAll(e, W \ {t})
<1> DEFINE s == BuildDeleteTableSQL(t)
<1>1. s.op = "drop" /\ s.table = t.name
  BY DEF BuildDeleteTableSQL
<1> HIDE DEF s
<1>2. e = Execute(d, s) /\ Touches(s) = {t.name} /\ Altered(d[t.name], s) = NoTable
  BY <1>1 DEF Step, Touches, Altered, s
<1>3. DOMAIN d = TableNames /\ t.name \in TableNames
  BY DEF HoldsAll, Holds
<1>4. DOMAIN e = TableNames /\ e[t.name] = NoTable /\ \A z \in TableNames : z # t.name => e[z] = d[z]
  BY <1>1, <1>2, <1>3 DEF Execute
<1>5. \A z \in TableNames : e[z].exists => \E w \in W \ {t} : w.name = z
  BY <1>4 DEF HoldsAll, NoTable
<1>6. \A w \in W \ {t} : Holds(e, w.name, ToSet(w.cols))
  BY <1>4 DEF HoldsAll, Holds
<1>7. \A v, w \in W \ {t} : v.name = w.name => v = w
  BY DEF HoldsAll
<1> QED
  BY <1>4, <1>5, <1>6, <1>7 DEF HoldsAll

LEMMA CreateTable ==
  ASSUME NEW d, NEW e, NEW W, HoldsAll(d, W), NEW t, t.name \in TableNames, WellFormed(t),
         Step(d, BuildCreateTableSQL(t, TRUE), e)
  PROVE  HoldsAll(e, W \cup {t})
<1> DEFINE s == BuildCreateTableSQL(t, TRUE)
           C == ToSet(t.cols)
           cols == { DbColumn(c, c.nullable, c.uuid) : c \in C }
           idx == { [index |-> n, col |-> n] : n \in Indexed(C) }
           body == [exists |-> TRUE, cols |-> cols, idx |-> idx]
<1>1. /\ s.op = "create" /\ s.table = t.name
      /\ s.names = [i \in DOMAIN t.cols |-> t.cols[i].name]
  BY DEF BuildCreateTableSQL
<1>2. s.body = body
  <2>1. s.body = [exists |-> TRUE,
                  cols |-> { DbColumn(c, c.nullable, IF TRUE THEN c.uuid ELSE Lost) : c \in C },
                  idx |-> { [index |-> c.name, col |-> c.name] : c \in { x \in C : x.index } }]
    BY DEF BuildCreateTableSQL
  <2>2. { [index |-> c.name, col |-> c.name] : c \in { x \in C : x.index } } = idx
    BY DEF Indexed
  <2>3. { DbColumn(c, c.nullable, IF TRUE THEN c.uuid ELSE Lost) : c \in C } = cols
    OBVIOUS
  <2> QED
    BY <2>1, <2>2, <2>3
<1> HIDE DEF s
<1>3. /\ e = Execute(d, s) /\ Touches(s) = {t.name} /\ Altered(d[t.name], s) = body
      /\ \A i, j \in DOMAIN s.names : s.names[i] = s.names[j] => i = j
      /\ ~ d[t.name].exists
  <2>1. e = Execute(d, s) /\ Accepts(d, s)
    BY DEF Step, s
  <2>2. Touches(s) = {t.name} /\ Altered(d[t.name], s) = body
    BY <1>1, <1>2 DEF Touches, Altered
  <2>3. \A i, j \in DOMAIN s.names : s.names[i] = s.names[j] => i = j
    BY <1>1, <2>1 DEF Accepts
  <2>4. ~ d[t.name].exists
    BY <1>1, <2>1 DEF Accepts
  <2> QED
    BY <2>1, <2>2, <2>3, <2>4
<1>4. \A b, c \in C : b.name = c.name => b = c
  <2>1. DOMAIN s.names = DOMAIN t.cols /\ \A i \in DOMAIN t.cols : s.names[i] = t.cols[i].name
    BY <1>1
  <2>2. C = { t.cols[i] : i \in DOMAIN t.cols }
    BY DEF ToSet
  <2> HIDE DEF C
  <2> QED
    BY <1>3, <2>1, <2>2
<1>5. Fits(body, C, Indexed(C))
  <2>1. \A c \in C : Stores(DbColumn(c, c.nullable, c.uuid), c) /\ DbColumn(c, c.nullable, c.uuid).name = c.name
    BY DEF Stores, DbColumn
  <2>2. \A x \in cols : \E c \in C : Stores(x, c)
    BY <2>1
  <2>3. \A c \in C : \E x \in cols : Stores(x, c)
    BY <2>1
  <2>4. \A x, y \in cols : x.name = y.name => x = y
    BY <1>4, <2>1
  <2>5. body.cols = cols /\ body.idx = idx /\ IsTable(body)
    BY DEF IsTable
  <2> HIDE DEF body, cols, C
  <2> QED
    BY <1>4, <2>2, <2>3, <2>4, <2>5 DEF Fits
<1>6. DOMAIN d = TableNames
  BY DEF HoldsAll
<1> HIDE DEF body, C
<1>7. DOMAIN e = TableNames /\ e[t.name] = body /\ \A z \in TableNames : z # t.name => e[z] = d[z]
  BY <1>1, <1>3, <1>6 DEF Execute
<1>8. \A w \in W : w.name # t.name
  BY <1>3, HeldExists DEF HoldsAll
<1>9. \A z \in TableNames : e[z].exists => \E w \in W \cup {t} : w.name = z
  BY <1>7 DEF HoldsAll
<1>10. \A w \in W \cup {t} : Holds(e, w.name, ToSet(w.cols))
  <2>1. \A w \in W : Holds(e, w.name, ToSet(w.cols))
    BY <1>7, <1>8, <1>6 DEF HoldsAll, Holds
  <2>2. Holds(e, t.name, ToSet(t.cols))
    BY <1>5, <1>7 DEF Holds, C
  <2> QED
    BY <2>1, <2>2
<1>11. \A v, w \in W \cup {t} : v.name = w.name => v = w
  BY <1>8 DEF HoldsAll
<1> QED
  BY <1>7, <1>9, <1>10, <1>11 DEF HoldsAll

-----------------------------------------------------------------------------
(* The tables of a publish, one after the other *)

LEMMA DropTables ==
  ASSUME NEW d, NEW e, NEW W, HoldsAll(d, W), NEW s, IsSeq(s), DistinctUuids(s), ToSet(s) \subseteq W,
         NEW ss, ss = [i \in DOMAIN s |-> ss[i]],
         \A i \in DOMAIN s : \E a : ss[i] = <<a>> /\ a.do = BuildDeleteTableSQL(s[i]),
         Runs(d, FlattenSeq(ss), e)
  PROVE  HoldsAll(e, W \ ToSet(s))
<1>1. DOMAIN s = 1..Len(s) /\ Len(s) \in Nat /\ ToSet(s) = { s[i] : i \in 1..Len(s) }
  BY SeqFacts
<1>2. PICK h : h[0] = d /\ h[Len(s)] = e /\ \A i \in 1..Len(s) : Runs(h[i - 1], ss[i], h[i])
  <2>1. ss = [i \in 1..Len(s) |-> ss[i]] /\ \A i \in 1..Len(s) : IsSeq(ss[i])
    BY <1>1, AtomSeqs
  <2> QED
    BY <1>1, <2>1, RunsFlatten
<1> DEFINE Rest(k) == W \ { s[i] : i \in 1..k }
           K == { k \in 0..Len(s) : HoldsAll(h[k], Rest(k)) }
<1>3. 0 \in K
  <2>1. Rest(0) = W /\ 0 \in 0..Len(s)
    BY <1>1
  <2> HIDE DEF Rest
  <2> QED
    BY <1>2, <2>1
<1>4. ASSUME NEW k \in 0..(Len(s) - 1), k \in K PROVE k + 1 \in K
  <2>1. /\ k + 1 \in 0..Len(s) /\ k + 1 \in 1..Len(s) /\ (k + 1) - 1 = k
        /\ \A i \in 1..k : i \in 1..Len(s) /\ i # k + 1
    BY <1>1
  <2>2. s[k + 1] \in Rest(k)
    BY <1>1, <2>1 DEF DistinctUuids
  <2>3. Rest(k + 1) = Rest(k) \ {s[k + 1]}
    <3>1. 1..(k + 1) = 1..k \cup {k + 1}
      OBVIOUS
    <3> QED
      BY <3>1
  <2>4. Step(h[k], BuildDeleteTableSQL(s[k + 1]), h[k + 1])
    <3>1. PICK a : ss[k + 1] = <<a>> /\ a.do = BuildDeleteTableSQL(s[k + 1])
      BY <1>1, <2>1
    <3>2. Runs(h[k], <<a>>, h[k + 1])
      BY <1>2, <2>1, <3>1
    <3> QED
      BY <3>1, <3>2, RunsShort
  <2> HIDE DEF Rest
  <2>5. HoldsAll(h[k + 1], Rest(k) \ {s[k + 1]})
    BY <1>4, <2>2, <2>4, DropTable
  <2> QED
    BY <2>1, <2>3, <2>5
<1>5. Len(s) \in K
  <2> HIDE DEF K
  <2> QED
    BY <1>1, <1>3, <1>4, Induction
<1>6. Rest(Len(s)) = W \ ToSet(s)
  BY <1>1
<1> HIDE DEF Rest
<1> QED
  BY <1>2, <1>5, <1>6

LEMMA CreateTables ==
  ASSUME NEW d, NEW e, NEW W, HoldsAll(d, W), NEW s, IsSeq(s),
         \A t \in ToSet(s) : t.name \in TableNames /\ WellFormed(t),
         NEW ss, ss = [i \in DOMAIN s |-> ss[i]],
         \A i \in DOMAIN s : \E a : ss[i] = <<a>> /\ a.do = BuildCreateTableSQL(s[i], TRUE),
         Runs(d, FlattenSeq(ss), e)
  PROVE  HoldsAll(e, W \cup ToSet(s))
<1>1. DOMAIN s = 1..Len(s) /\ Len(s) \in Nat /\ ToSet(s) = { s[i] : i \in 1..Len(s) }
  BY SeqFacts
<1>2. PICK h : h[0] = d /\ h[Len(s)] = e /\ \A i \in 1..Len(s) : Runs(h[i - 1], ss[i], h[i])
  <2>1. ss = [i \in 1..Len(s) |-> ss[i]] /\ \A i \in 1..Len(s) : IsSeq(ss[i])
    BY <1>1, AtomSeqs
  <2> QED
    BY <1>1, <2>1, RunsFlatten
<1> DEFINE So(k) == W \cup { s[i] : i \in 1..k }
           K == { k \in 0..Len(s) : HoldsAll(h[k], So(k)) }
<1>3. 0 \in K
  <2>1. So(0) = W /\ 0 \in 0..Len(s)
    BY <1>1
  <2> HIDE DEF So
  <2> QED
    BY <1>2, <2>1
<1>4. ASSUME NEW k \in 0..(Len(s) - 1), k \in K PROVE k + 1 \in K
  <2>1. k + 1 \in 0..Len(s) /\ k + 1 \in 1..Len(s) /\ (k + 1) - 1 = k
    BY <1>1
  <2>2. So(k + 1) = So(k) \cup {s[k + 1]}
    <3>1. 1..(k + 1) = 1..k \cup {k + 1}
      OBVIOUS
    <3> QED
      BY <3>1
  <2>3. Step(h[k], BuildCreateTableSQL(s[k + 1], TRUE), h[k + 1])
    <3>1. PICK a : ss[k + 1] = <<a>> /\ a.do = BuildCreateTableSQL(s[k + 1], TRUE)
      BY <1>1, <2>1
    <3>2. Runs(h[k], <<a>>, h[k + 1])
      BY <1>2, <2>1, <3>1
    <3> QED
      BY <3>1, <3>2, RunsShort
  <2>4. s[k + 1].name \in TableNames /\ WellFormed(s[k + 1])
    BY <1>1, <2>1
  <2> HIDE DEF So
  <2>5. HoldsAll(h[k + 1], So(k) \cup {s[k + 1]})
    BY <1>4, <2>3, <2>4, CreateTable
  <2> QED
    BY <2>1, <2>2, <2>5
<1>5. Len(s) \in K
  <2> HIDE DEF K
  <2> QED
    BY <1>1, <1>3, <1>4, Induction
<1>6. So(Len(s)) = W \cup ToSet(s)
  BY <1>1
<1> HIDE DEF So
<1> QED
  BY <1>2, <1>5, <1>6

\* ss holds the atoms that make each table was[i] of W, V together, s[i].
TablesModified(W, s, was, V, ss) ==
  /\ IsSeq(s) /\ DistinctUuids(s) /\ \A x, y \in W : x.uuid = y.uuid => x = y
  /\ \A i \in DOMAIN s : was[i] \in W /\ was[i].uuid = s[i].uuid /\ WellFormed(was[i])
  /\ \A i \in DOMAIN s : s[i].name \in TableNames /\ WellFormed(s[i])
  /\ V = { was[i] : i \in DOMAIN s }
  /\ ss = [i \in DOMAIN s |-> ss[i]] /\ \A i \in DOMAIN s : ss[i] = BuildModifyTableAtoms(was[i], s[i])

LEMMA ModifyIsSeq ==
  ASSUME NEW o, NEW n, WellFormed(o), WellFormed(n)
  PROVE  IsSeq(BuildModifyTableAtoms(o, n))
BY ModifyWithin DEF WellFormed, Within

LEMMA ModifyTables ==
  ASSUME NEW d, NEW e, NEW W, HoldsAll(d, W), NEW s, NEW was, NEW V, NEW ss,
         TablesModified(W, s, was, V, ss), Runs(d, FlattenSeq(ss), e)
  PROVE  HoldsAll(e, (W \ V) \cup ToSet(s))
<1>0. /\ IsSeq(s) /\ DistinctUuids(s) /\ \A x, y \in W : x.uuid = y.uuid => x = y
      /\ \A i \in DOMAIN s : was[i] \in W /\ was[i].uuid = s[i].uuid /\ WellFormed(was[i])
      /\ \A i \in DOMAIN s : s[i].name \in TableNames /\ WellFormed(s[i])
      /\ V = { was[i] : i \in DOMAIN s }
      /\ ss = [i \in DOMAIN s |-> ss[i]] /\ \A i \in DOMAIN s : ss[i] = BuildModifyTableAtoms(was[i], s[i])
  BY DEF TablesModified
<1>1. DOMAIN s = 1..Len(s) /\ Len(s) \in Nat /\ ToSet(s) = { s[i] : i \in 1..Len(s) }
  BY <1>0, SeqFacts
<1>2. PICK h : /\ h[0] = d /\ h[Len(s)] = e
               /\ \A i \in 1..Len(s) : Runs(h[i - 1], BuildModifyTableAtoms(was[i], s[i]), h[i])
  <2>1. ss = [i \in 1..Len(s) |-> ss[i]] /\ \A i \in 1..Len(s) : IsSeq(ss[i])
    BY <1>0, <1>1, ModifyIsSeq
  <2>2. PICK h : h[0] = d /\ h[Len(s)] = e /\ \A i \in 1..Len(s) : Runs(h[i - 1], ss[i], h[i])
    BY <1>1, <2>1, RunsFlatten
  <2> QED
    BY <1>0, <1>1, <2>2
<1> DEFINE So(k) == (W \ { was[i] : i \in 1..k }) \cup { s[i] : i \in 1..k }
           K == { k \in 0..Len(s) : HoldsAll(h[k], So(k)) }
<1>3. 0 \in K
  <2>1. So(0) = W /\ 0 \in 0..Len(s)
    BY <1>1
  <2> HIDE DEF So
  <2> QED
    BY <1>2, <2>1
<1>4. ASSUME NEW k \in 0..(Len(s) - 1), k \in K PROVE k + 1 \in K
  <2>1. /\ k + 1 \in 0..Len(s) /\ k + 1 \in 1..Len(s) /\ (k + 1) - 1 = k
        /\ \A i \in 1..k : i \in 1..Len(s) /\ i # k + 1
    BY <1>1
  <2> DEFINE o == was[k + 1]
             n == s[k + 1]
  <2>2. o \in W /\ o.uuid = n.uuid /\ WellFormed(o) /\ WellFormed(n) /\ n.name \in TableNames
    BY <1>0, <1>1, <2>1
  <2>3. \A i \in 1..k : s[i].uuid # n.uuid /\ was[i].uuid # n.uuid
    BY <1>0, <1>1, <2>1 DEF DistinctUuids
  <2>4. 1..(k + 1) = 1..k \cup {k + 1}
    OBVIOUS
  <2>5. { was[i] : i \in 1..(k + 1) } = { was[i] : i \in 1..k } \cup {o}
    BY <2>4
  <2>6. { s[i] : i \in 1..(k + 1) } = { s[i] : i \in 1..k } \cup {n}
    BY <2>4
  <2>7. o \notin { was[i] : i \in 1..k } /\ o \notin { s[i] : i \in 1..k }
    BY <2>2, <2>3
  <2>8. o \in So(k) /\ So(k + 1) = (So(k) \ {o}) \cup {n}
    BY <2>2, <2>5, <2>6, <2>7
  <2>9. Runs(h[k], BuildModifyTableAtoms(o, n), h[k + 1])
    BY <1>2, <2>1
  <2>10. HoldsAll(h[k], So(k))
    BY <1>4
  <2> HIDE DEF So, o, n, K
  <2>11. HoldsAll(h[k + 1], (So(k) \ {o}) \cup {n})
    BY <2>2, <2>8, <2>9, <2>10, ModifyTable
  <2> QED
    BY <2>1, <2>8, <2>11 DEF K
<1>5. Len(s) \in K
  <2> HIDE DEF K
  <2> QED
    BY <1>1, <1>3, <1>4, Induction
<1>6. So(Len(s)) = (W \ V) \cup ToSet(s)
  BY <1>0, <1>1
<1> HIDE DEF So
<1> QED
  BY <1>2, <1>5, <1>6

\* Tables that tableDifferent does not tell apart.
SameTable(o, n) ==
  /\ o.uuid = n.uuid /\ o.name = n.name
  /\ \A c \in ToSet(o.cols) : \E b \in ToSet(n.cols) : Alike(c, b)
  /\ \A b \in ToSet(n.cols) : \E c \in ToSet(o.cols) : Alike(c, b)

LEMMA SameTables ==
  /\ \A t : SameTable(t, t)
  /\ \A o, n : WellFormed(o) /\ WellFormed(n) /\ o.uuid = n.uuid /\ ~ tableDifferent(o, n) => SameTable(o, n)
<1>1. ASSUME NEW t PROVE SameTable(t, t)
  BY DEF SameTable, Alike
<1>2. ASSUME NEW o, NEW n, WellFormed(o), WellFormed(n), o.uuid = n.uuid, ~ tableDifferent(o, n)
      PROVE  SameTable(o, n)
  <2>1. /\ o.name = n.name
        /\ DeleteColumns(o, n) = <<>> /\ AddColumns(o, n) = <<>> /\ ModifyColumns(o, n) = <<>>
    BY <1>2 DEF tableDifferent
  <2>2. Only(o.cols, n.cols) = {} /\ Only(n.cols, o.cols) = {} /\ Other(o, n) = {}
    BY <1>2, <2>1, ColumnsPicked, SeqFacts DEF WellFormed, Lists
  <2> DEFINE W == { findColumn(c.uuid, o.cols) : c \in Other(o, n) }
             E == (((ToSet(o.cols) \ Only(o.cols, n.cols)) \cup Only(n.cols, o.cols)) \ W) \cup Other(o, n)
  <2>3. /\ \A c \in E : \E b \in ToSet(n.cols) : Alike(c, b)
        /\ \A b \in ToSet(n.cols) : \E c \in E : Alike(c, b)
    BY <1>2, ColumnsReached DEF WellFormed
  <2>4. E = ToSet(o.cols)
    BY <2>2
  <2> HIDE DEF E
  <2> QED
    BY <1>2, <2>1, <2>3, <2>4 DEF SameTable
<1> QED
  BY <1>1, <1>2

\* A schema that holds tables holds those that are the same.
LEMMA HoldsSame ==
  ASSUME NEW d, NEW W, HoldsAll(d, W), NEW N, \A x, y \in N : x.uuid = y.uuid => x = y,
         \A n \in N : WellFormed(n),
         \A w \in W : \E n \in N : SameTable(w, n), \A n \in N : \E w \in W : SameTable(w, n)
  PROVE  HoldsAll(d, N)
<1>1. \A x \in TableNames : d[x].exists => \E n \in N : n.name = x
  BY DEF HoldsAll, SameTable
<1>2. ASSUME NEW n \in N PROVE Holds(d, n.name, ToSet(n.cols))
  <2>1. PICK w \in W : SameTable(w, n)
    OBVIOUS
  <2>2. w.name = n.name /\ Holds(d, w.name, ToSet(w.cols))
    BY <2>1 DEF SameTable, HoldsAll
  <2>3. \A x, y \in ToSet(n.cols) : x.uuid = y.uuid => x = y
    BY FindFacts DEF WellFormed
  <2> QED
    BY <2>1, <2>2, <2>3, FitsAlike DEF SameTable, Holds
<1>3. \A x, y \in N : x.name = y.name => x = y
  BY DEF HoldsAll, SameTable
<1> QED
  BY <1>1, <1>2, <1>3 DEF HoldsAll

\* The tables of a model have different uuids, and so have the columns of each.
GoodModel(m) ==
  /\ IsSeq(m) /\ DistinctUuids(m)
  /\ \A t \in ToSet(m) : t.name \in TableNames /\ WellFormed(t)

OtherTables(p, m) ==
  { t \in ToSet(m) : t.uuid \in Uuids(p) /\ tableDifferent(findTable(t.uuid, p), t) }

LEMMA TablesPicked ==
  ASSUME NEW p, NEW m, GoodModel(p), GoodModel(m)
  PROVE  /\ Lists(DeletedTables(p, m), Only(p, m))
         /\ Lists(AddedTables(p, m), Only(m, p))
         /\ Lists(ModifiedTables(p, m), OtherTables(p, m))
<1>1. Lists(DeletedTables(p, m), Only(p, m))
  BY OnlyPicked DEF DeletedTables, GoodModel
<1>2. Lists(AddedTables(p, m), Only(m, p))
  BY OnlyPicked DEF AddedTables, GoodModel
<1>3. Lists(ModifiedTables(p, m), OtherTables(p, m))
  <2> DEFINE ss == [i \in DOMAIN m |->
                      When(m[i].uuid \in Uuids(p) /\ tableDifferent(findTable(m[i].uuid, p), m[i]), m[i])]
  <2>1. \A i \in DOMAIN m :
           m[i] \in OtherTables(p, m) <=> /\ m[i].uuid \in Uuids(p)
                                          /\ tableDifferent(findTable(m[i].uuid, p), m[i])
    BY DEF OtherTables, ToSet
  <2>2. ss = [i \in DOMAIN m |-> When(m[i] \in OtherTables(p, m), m[i])]
    BY <2>1 DEF When
  <2>3. ModifiedTables(p, m) = FlattenSeq(ss)
    BY DEF ModifiedTables, ForEach
  <2>4. OtherTables(p, m) \subseteq ToSet(m)
    BY DEF OtherTables
  <2> HIDE DEF ss
  <2> QED
    BY <2>2, <2>3, <2>4, Picked DEF Lists, GoodModel
<1> QED
  BY <1>1, <1>2, <1>3

\* After drops, creations and changes the tables are the same as those of m.
LEMMA TablesReached ==
  ASSUME NEW p, NEW m, GoodModel(p), GoodModel(m),
         NEW V, V = { findTable(t.uuid, p) : t \in OtherTables(p, m) },
         NEW E, E = (((ToSet(p) \ Only(p, m)) \cup Only(m, p)) \ V) \cup OtherTables(p, m)
  PROVE  /\ \A o \in E : \E n \in ToSet(m) : SameTable(o, n)
         /\ \A n \in ToSet(m) : \E o \in E : SameTable(o, n)
<1>1. /\ \A x, y \in ToSet(p) : x.uuid = y.uuid => x = y
      /\ \A u : u \in Uuids(p) <=> \E x \in ToSet(p) : x.uuid = u
      /\ \A x \in ToSet(p) : findTable(x.uuid, p) = x
      /\ \A x, y \in ToSet(m) : x.uuid = y.uuid => x = y
      /\ \A u : u \in Uuids(m) <=> \E x \in ToSet(m) : x.uuid = u
  BY FindFacts DEF GoodModel
<1>2. \A o : SameTable(o, o)
  BY SameTables
<1>3. ASSUME NEW o \in ToSet(p), NEW n \in ToSet(m), o.uuid = n.uuid
      PROVE  (o \in V <=> n \in OtherTables(p, m)) /\ (n \notin OtherTables(p, m) => SameTable(o, n))
  <2>1. findTable(n.uuid, p) = o /\ n.uuid \in Uuids(p)
    BY <1>1, <1>3
  <2>2. n \notin OtherTables(p, m) => SameTable(o, n)
    BY <1>3, <2>1, SameTables DEF OtherTables, GoodModel
  <2>3. n \in OtherTables(p, m) => o \in V
    BY <2>1
  <2>4. ASSUME o \in V PROVE n \in OtherTables(p, m)
    <3>1. PICK x \in OtherTables(p, m) : o = findTable(x.uuid, p)
      BY <2>4
    <3>2. PICK y \in ToSet(p) : y.uuid = x.uuid
      BY <1>1 DEF OtherTables
    <3>3. y = o
      BY <1>1, <3>1, <3>2
    <3> QED
      BY <1>1, <1>3, <3>2, <3>3 DEF OtherTables
  <2> QED
    BY <2>2, <2>3, <2>4
<1>4. ASSUME NEW o \in E PROVE \E n \in ToSet(m) : SameTable(o, n)
  <2>1. CASE o \in OtherTables(p, m) \cup Only(m, p)
    BY <1>2, <2>1 DEF OtherTables, Only
  <2>2. CASE o \in ToSet(p) /\ o \notin Only(p, m) /\ o \notin V
    <3>1. PICK n \in ToSet(m) : n.uuid = o.uuid
      BY <1>1, <2>2 DEF Only
    <3> QED
      BY <1>3, <2>2, <3>1
  <2> QED
    BY <2>1, <2>2
<1>5. ASSUME NEW n \in ToSet(m) PROVE \E o \in E : SameTable(o, n)
  <2>1. CASE n \in OtherTables(p, m)
    BY <1>2, <2>1
  <2>2. CASE n \in Only(m, p)
    <3>1. n \notin V
      <4> SUFFICES ASSUME n \in V PROVE FALSE
        OBVIOUS
      <4>1. PICK x \in OtherTables(p, m) : n = findTable(x.uuid, p)
        OBVIOUS
      <4>2. PICK y \in ToSet(p) : y.uuid = x.uuid
        BY <1>1 DEF OtherTables
      <4>3. n = y
        BY <1>1, <4>1, <4>2
      <4> QED
        BY <1>1, <2>2, <4>3 DEF Only
    <3> QED
      BY <1>2, <2>2, <3>1
  <2>3. CASE n \notin OtherTables(p, m) /\ n \notin Only(m, p)
    <3>1. PICK o \in ToSet(p) : o.uuid = n.uuid
      BY <1>1, <2>3 DEF Only
    <3>2. o \notin Only(p, m)
      BY <1>1, <3>1 DEF Only
    <3> QED
      BY <1>3, <2>3, <3>1, <3>2
  <2> QED
    BY <2>1, <2>2, <2>3
<1> QED
  BY <1>4, <1>5

\* The three parts of a plan: drops, creations, changes.
PlanParts(p, m, D, A, M) ==
  /\ D = ForEach(DeletedTables(p, m),
                 LAMBDA t : << Atom(BuildDeleteTableSQL(t), BuildCreateTableSQL(t, FALSE)) >>)
  /\ A = ForEach(AddedTables(p, m),
                 LAMBDA t : << Atom(BuildCreateTableSQL(t, TRUE), BuildDeleteTableSQL(t)) >>)
  /\ M = ForEach(ModifiedTables(p, m),
                 LAMBDA t : BuildModifyTableAtoms(findTable(t.uuid, p), t))

LEMMA FindTables ==
  ASSUME NEW p, NEW m, GoodModel(p), GoodModel(m), NEW t \in OtherTables(p, m)
  PROVE  /\ findTable(t.uuid, p) \in ToSet(p) \ Only(p, m) /\ findTable(t.uuid, p).uuid = t.uuid
         /\ WellFormed(findTable(t.uuid, p)) /\ WellFormed(t) /\ t.name \in TableNames
<1>1. PICK o \in ToSet(p) : o.uuid = t.uuid
  BY FindFacts DEF OtherTables, GoodModel
<1>2. findTable(t.uuid, p) = o
  BY <1>1, FindFacts DEF GoodModel
<1>3. t \in ToSet(m) /\ o \notin Only(p, m)
  BY <1>1, FindFacts DEF OtherTables, GoodModel, Only
<1> QED
  BY <1>1, <1>2, <1>3 DEF GoodModel

LEMMA PlanPartsSeq ==
  ASSUME NEW p, NEW m, GoodModel(p), GoodModel(m), NEW D, NEW A, NEW M, PlanParts(p, m, D, A, M)
  PROVE  IsSeq(D) /\ IsSeq(A) /\ IsSeq(M)
<1>1. /\ IsSeq(DeletedTables(p, m)) /\ IsSeq(AddedTables(p, m)) /\ IsSeq(ModifiedTables(p, m))
      /\ ToSet(ModifiedTables(p, m)) = OtherTables(p, m)
  BY TablesPicked DEF Lists
<1>2. IsSeq(D)
  <2> DEFINE s == DeletedTables(p, m)
             ss == [i \in DOMAIN s |-> << Atom(BuildDeleteTableSQL(s[i]), BuildCreateTableSQL(s[i], FALSE)) >>]
  <2>1. ss = [i \in DOMAIN s |-> ss[i]] /\ \A i \in DOMAIN s : IsSeq(ss[i])
    BY AtomSeqs
  <2>2. D = FlattenSeq(ss)
    BY DEF PlanParts, ForEach
  <2> HIDE DEF s, ss
  <2> QED
    BY <1>1, <2>1, <2>2, ForEachSeq DEF s
<1>3. IsSeq(A)
  <2> DEFINE s == AddedTables(p, m)
             ss == [i \in DOMAIN s |-> << Atom(BuildCreateTableSQL(s[i], TRUE), BuildDeleteTableSQL(s[i])) >>]
  <2>1. ss = [i \in DOMAIN s |-> ss[i]] /\ \A i \in DOMAIN s : IsSeq(ss[i])
    BY AtomSeqs
  <2>2. A = FlattenSeq(ss)
    BY DEF PlanParts, ForEach
  <2> HIDE DEF s, ss
  <2> QED
    BY <1>1, <2>1, <2>2, ForEachSeq DEF s
<1>4. IsSeq(M)
  <2> DEFINE s == ModifiedTables(p, m)
             ss == [i \in DOMAIN s |-> BuildModifyTableAtoms(findTable(s[i].uuid, p), s[i])]
  <2>1. ss = [i \in DOMAIN s |-> ss[i]] /\ \A i \in DOMAIN s : ss[i] = BuildModifyTableAtoms(findTable(s[i].uuid, p), s[i])
    OBVIOUS
  <2>2. M = FlattenSeq(ss)
    BY DEF PlanParts, ForEach
  <2>3. \A i \in DOMAIN s : s[i] \in OtherTables(p, m)
    BY <1>1 DEF ToSet
  <2> HIDE DEF s, ss
  <2>4. \A i \in DOMAIN s : IsSeq(ss[i])
    BY <2>1, <2>3, FindTables, ModifyIsSeq
  <2> QED
    BY <1>1, <2>1, <2>2, <2>4, ForEachSeq DEF s
<1> QED
  BY <1>2, <1>3, <1>4

\* A plan that runs to its end makes the schema of p that of m.
LEMMA PlanRuns ==
  ASSUME NEW p, NEW m, GoodModel(p), GoodModel(m), NEW d, NEW e, HoldsAll(d, ToSet(p)),
         Runs(d, MigrationPlan(p, m), e)
  PROVE  HoldsAll(e, ToSet(m))
<1> DEFINE D == ForEach(DeletedTables(p, m),
                        LAMBDA t : << Atom(BuildDeleteTableSQL(t), BuildCreateTableSQL(t, FALSE)) >>)
           A == ForEach(AddedTables(p, m),
                        LAMBDA t : << Atom(BuildCreateTableSQL(t, TRUE), BuildDeleteTableSQL(t)) >>)
           M == ForEach(ModifiedTables(p, m),
                        LAMBDA t : BuildModifyTableAtoms(findTable(t.uuid, p), t))
           W1 == ToSet(p) \ Only(p, m)
           W2 == W1 \cup Only(m, p)
           V == { findTable(t.uuid, p) : t \in OtherTables(p, m) }
           W3 == (W2 \ V) \cup OtherTables(p, m)
<1>1. PlanParts(p, m, D, A, M)
  BY Zenon DEF PlanParts
<1>2. MigrationPlan(p, m) = D \o A \o M
  BY Zenon DEF MigrationPlan
<1> HIDE DEF D, A, M
<1>3. PICK x, y : Runs(d, D, x) /\ Runs(x, A, y) /\ Runs(y, M, e)
  <2>1. IsSeq(D) /\ IsSeq(A) /\ IsSeq(M) /\ IsSeq(D \o A)
    BY <1>1, PlanPartsSeq, ConcatFacts
  <2>2. PICK y : Runs(d, D \o A, y) /\ Runs(y, M, e)
    BY <1>2, <2>1, RunsConcat
  <2>3. PICK x : Runs(d, D, x) /\ Runs(x, A, y)
    BY <2>1, <2>2, RunsConcat
  <2> QED
    BY <2>2, <2>3
<1>4. /\ Lists(DeletedTables(p, m), Only(p, m)) /\ Lists(AddedTables(p, m), Only(m, p))
      /\ Lists(ModifiedTables(p, m), OtherTables(p, m))
  BY TablesPicked
<1>5. HoldsAll(x, W1)
  <2> DEFINE s == DeletedTables(p, m)
             ss == [i \in DOMAIN s |-> << Atom(BuildDeleteTableSQL(s[i]), BuildCreateTableSQL(s[i], FALSE)) >>]
  <2>1. /\ ss = [i \in DOMAIN s |-> ss[i]]
        /\ \A i \in DOMAIN s : \E a : ss[i] = <<a>> /\ a.do = BuildDeleteTableSQL(s[i])
    <3>1. ss = [i \in DOMAIN s |-> ss[i]]
      OBVIOUS
    <3>2. ASSUME NEW i \in DOMAIN s PROVE \E a : ss[i] = <<a>> /\ a.do = BuildDeleteTableSQL(s[i])
      <4> DEFINE a == Atom(BuildDeleteTableSQL(s[i]), BuildCreateTableSQL(s[i], FALSE))
      <4>1. ss[i] = <<a>>
        OBVIOUS
      <4>2. a.do = BuildDeleteTableSQL(s[i])
        BY DEF Atom
      <4> HIDE DEF a, s, ss
      <4> QED
        BY <4>1, <4>2
    <3> QED
      BY <3>1, <3>2
  <2>2. Runs(d, FlattenSeq(ss), x)
    BY <1>1, <1>3 DEF PlanParts, ForEach
  <2>3. IsSeq(s) /\ DistinctUuids(s) /\ ToSet(s) = Only(p, m) /\ Only(p, m) \subseteq ToSet(p)
    BY <1>4 DEF Lists, Only
  <2> HIDE DEF s, ss
  <2> QED
    BY <2>1, <2>2, <2>3, DropTables
<1>6. HoldsAll(y, W2)
  <2> DEFINE s == AddedTables(p, m)
             ss == [i \in DOMAIN s |-> << Atom(BuildCreateTableSQL(s[i], TRUE), BuildDeleteTableSQL(s[i])) >>]
  <2>1. /\ ss = [i \in DOMAIN s |-> ss[i]]
        /\ \A i \in DOMAIN s : \E a : ss[i] = <<a>> /\ a.do = BuildCreateTableSQL(s[i], TRUE)
    <3>1. ss = [i \in DOMAIN s |-> ss[i]]
      OBVIOUS
    <3>2. ASSUME NEW i \in DOMAIN s PROVE \E a : ss[i] = <<a>> /\ a.do = BuildCreateTableSQL(s[i], TRUE)
      <4> DEFINE a == Atom(BuildCreateTableSQL(s[i], TRUE), BuildDeleteTableSQL(s[i]))
      <4>1. ss[i] = <<a>>
        OBVIOUS
      <4>2. a.do = BuildCreateTableSQL(s[i], TRUE)
        BY DEF Atom
      <4> HIDE DEF a, s, ss
      <4> QED
        BY <4>1, <4>2
    <3> QED
      BY <3>1, <3>2
  <2>2. Runs(x, FlattenSeq(ss), y)
    BY <1>1, <1>3 DEF PlanParts, ForEach
  <2>3. IsSeq(s) /\ ToSet(s) = Only(m, p) /\ \A t \in ToSet(s) : t.name \in TableNames /\ WellFormed(t)
    BY <1>4 DEF Lists, Only, GoodModel
  <2> HIDE DEF s, ss, W1
  <2> QED
    BY <1>5, <2>1, <2>2, <2>3, CreateTables
<1>7. HoldsAll(e, W3)
  <2> DEFINE s == ModifiedTables(p, m)
             was == [i \in DOMAIN s |-> findTable(s[i].uuid, p)]
             ss == [i \in DOMAIN s |-> BuildModifyTableAtoms(findTable(s[i].uuid, p), s[i])]
  <2>1. /\ ss = [i \in DOMAIN s |-> ss[i]]
        /\ \A i \in DOMAIN s : ss[i] = BuildModifyTableAtoms(was[i], s[i])
    OBVIOUS
  <2>2. Runs(y, FlattenSeq(ss), e)
    BY <1>1, <1>3 DEF PlanParts, ForEach
  <2>3. IsSeq(s) /\ DistinctUuids(s) /\ ToSet(s) = OtherTables(p, m)
    BY <1>4 DEF Lists
  <2>4. \A i \in DOMAIN s : s[i] \in OtherTables(p, m) /\ was[i] = findTable(s[i].uuid, p)
    BY <2>3 DEF ToSet
  <2> HIDE DEF s
  <2>5. { was[i] : i \in DOMAIN s } = V
    <3>1. OtherTables(p, m) = { s[i] : i \in DOMAIN s }
      BY <2>3 DEF ToSet
    <3> QED
      BY <2>4, <3>1
  <2>6. \A a, b \in W2 : a.uuid = b.uuid => a = b
    <3>1. /\ \A a, b \in ToSet(p) : a.uuid = b.uuid => a = b
          /\ \A a, b \in ToSet(m) : a.uuid = b.uuid => a = b
          /\ \A a \in ToSet(p) : a.uuid \in Uuids(p)
      BY FindFacts DEF GoodModel
    <3> QED
      BY <3>1 DEF Only
  <2> HIDE DEF ss, was
  <2>7. \A i \in DOMAIN s : was[i] \in W2 /\ was[i].uuid = s[i].uuid /\ WellFormed(was[i])
    BY <2>4, FindTables
  <2>8. \A i \in DOMAIN s : s[i].name \in TableNames /\ WellFormed(s[i])
    BY <2>4, FindTables
  <2> HIDE DEF W2, V
  <2>9. TablesModified(W2, s, was, V, ss)
    BY <2>1, <2>3, <2>5, <2>6, <2>7, <2>8 DEF TablesModified
  <2>10. HoldsAll(e, (W2 \ V) \cup ToSet(s))
    BY <1>6, <2>2, <2>9, ModifyTables
  <2> QED
    BY <2>3, <2>10
<1>8. /\ \A o \in W3 : \E n \in ToSet(m) : SameTable(o, n)
      /\ \A n \in ToSet(m) : \E o \in W3 : SameTable(o, n)
  BY TablesReached
<1>9. /\ \A a, b \in ToSet(m) : a.uuid = b.uuid => a = b
      /\ \A n \in ToSet(m) : WellFormed(n)
  BY FindFacts DEF GoodModel
<1> HIDE DEF W3
<1> QED
  BY <1>7, <1>8, <1>9, HoldsSame

-----------------------------------------------------------------------------
(* The schema is what the published model says *)

\* The first k statements of P have made the schema d what it is; those of
\* rest are the others.
Halfway(P, from, d, rest) ==
  \E k, f : /\ k \in 0..Len(P) /\ f[0] = from /\ f[k] = d
            /\ \A i \in 1..k : Step(f[i - 1], P[i].do, f[i])
            /\ IsSeq(rest) /\ Len(rest) = Len(P) - k
            /\ \A i \in 1..Len(rest) : rest[i] = P[k + i]

\* As long as no publish failed: the schema is that of the published model
\* before a publish, that of the next model after it, and between them on its
\* way from the one to the other.
RealisedInv ==
  ~ disturbed =>
    /\ phase \in {"idle", "executing", "migrated"}
    /\ phase = "idle" => HoldsAll(db, ToSet(published))
    /\ phase = "migrated" => HoldsAll(db, ToSet(next))
    /\ phase = "executing" => /\ HoldsAll(base, ToSet(published))
                              /\ Halfway(MigrationPlan(published, next), base, db, plan)

LEMMA ModelsAreGood ==
  ASSUME NEW m \in Models
  PROVE  GoodModel(m) /\ m \in Seq(ToSet(m))
<1>1. IsSeq(m) /\ \A t \in ToSet(m) : IsSeq(t.cols)
  BY ModelsAssumption DEF IsSeq
<1>2. DistinctUuids(m) /\ \A t \in ToSet(m) : t.name \in TableNames /\ DistinctUuids(t.cols)
  BY UuidsAssumption DEF DistinctUuids
<1> QED
  BY <1>1, <1>2 DEF GoodModel, WellFormed, IsSeq

LEMMA HalfwayStart ==
  ASSUME NEW P, IsSeq(P), NEW d
  PROVE  Halfway(P, d, d, P)
<1> DEFINE f == [i \in {0} |-> d]
<1>1. Len(P) \in Nat
  BY SeqFacts
<1>2. f[0] = d /\ 0 \in 0..Len(P) /\ Len(P) = Len(P) - 0 /\ 1..0 = {}
  BY <1>1
<1>3. \A i \in 1..Len(P) : P[i] = P[0 + i]
  BY <1>1
<1> HIDE DEF f
<1> QED
  BY <1>2, <1>3 DEF Halfway

\* ExecuteStatement takes a halfway plan one statement on.
LEMMA HalfwayStep ==
  ASSUME NEW P, IsSeq(P), NEW d, NEW e, NEW from, NEW rest, Halfway(P, from, d, rest), rest # <<>>,
         Step(d, Head(rest).do, e)
  PROVE  Halfway(P, from, e, Tail(rest))
<1>1. PICK k, f : /\ k \in 0..Len(P) /\ f[0] = from /\ f[k] = d
                  /\ \A i \in 1..k : Step(f[i - 1], P[i].do, f[i])
                  /\ IsSeq(rest) /\ Len(rest) = Len(P) - k
                  /\ \A i \in 1..Len(rest) : rest[i] = P[k + i]
  BY DEF Halfway
<1>2. Len(P) \in Nat
  BY SeqFacts
<1>3. /\ rest \in Seq(ToSet(rest)) /\ Len(rest) \in Nat /\ Len(rest) # 0
      /\ Head(rest) = rest[1] /\ Tail(rest) \in Seq(ToSet(rest)) /\ Len(Tail(rest)) = Len(rest) - 1
      /\ \A i \in 1..(Len(rest) - 1) : Tail(rest)[i] = rest[i + 1]
  <2>1. rest \in Seq(ToSet(rest))
    BY <1>1 DEF IsSeq
  <2> QED
    BY <2>1, HeadTailProperties, EmptySeq, LenProperties
<1>4. IsSeq(Tail(rest))
  BY <1>3, SeqFacts
<1> DEFINE g == [i \in 0..(k + 1) |-> IF i = k + 1 THEN e ELSE f[i]]
<1>5. k + 1 \in 0..Len(P) /\ g[0] = from /\ g[k + 1] = e /\ Head(rest) = P[k + 1]
  BY <1>1, <1>2, <1>3
<1>6. ASSUME NEW i \in 1..(k + 1) PROVE Step(g[i - 1], P[i].do, g[i])
  <2>1. CASE i = k + 1
    <3>1. g[i] = e /\ g[i - 1] = d /\ Head(rest) = P[i]
      BY <1>1, <1>5, <2>1
    <3> HIDE DEF g
    <3> QED
      BY <3>1
  <2>2. CASE i # k + 1
    <3>1. i \in 1..k /\ g[i] = f[i] /\ g[i - 1] = f[i - 1]
      BY <1>1, <2>2
    <3> HIDE DEF g
    <3> QED
      BY <1>1, <3>1
  <2> QED
    BY <2>1, <2>2
<1>7. Len(Tail(rest)) = Len(P) - (k + 1) /\ \A i \in 1..Len(Tail(rest)) : Tail(rest)[i] = P[(k + 1) + i]
  BY <1>1, <1>2, <1>3
<1> HIDE DEF g
<1> QED
  BY <1>4, <1>5, <1>6, <1>7 DEF Halfway

LEMMA HalfwayEnd ==
  ASSUME NEW P, IsSeq(P), NEW d, NEW from, Halfway(P, from, d, <<>>)
  PROVE  Runs(from, P, d)
<1>1. PICK k, f : /\ k \in 0..Len(P) /\ f[0] = from /\ f[k] = d
                  /\ \A i \in 1..k : Step(f[i - 1], P[i].do, f[i])
                  /\ Len(<<>>) = Len(P) - k
  BY DEF Halfway
<1>2. k = Len(P)
  BY <1>1, SeqFacts
<1> QED
  BY <1>1, <1>2 DEF Runs

LEMMA RealisedInit ==
  ASSUME Init
  PROVE  RealisedInv
<1>1. phase = "idle" /\ published = <<>> /\ db = [n \in TableNames |-> NoTable]
  BY DEF Init
<1>2. ToSet(published) = {}
  BY <1>1, SeqFacts
<1>3. DOMAIN db = TableNames /\ \A n \in TableNames : ~ db[n].exists
  BY <1>1 DEF NoTable
<1>4. HoldsAll(db, ToSet(published))
  BY <1>2, <1>3 DEF HoldsAll
<1> QED
  BY <1>1, <1>4 DEF RealisedInv

LEMMA RealisedStart ==
  ASSUME MigrationInv, RealisedInv, NEW m \in Models, StartPublish(m)
  PROVE  RealisedInv'
<1> SUFFICES ASSUME ~ disturbed' PROVE RealisedInv'
  BY DEF RealisedInv
<1>1. /\ phase = "idle" /\ phase' = "executing" /\ ~ disturbed /\ published' = published /\ next' = m
      /\ db' = db /\ base' = db /\ plan' = MigrationPlan(published, m)
  BY DEF StartPublish
<1>2. HoldsAll(base', ToSet(published'))
  <2>1. HoldsAll(db, ToSet(published))
    BY <1>1 DEF RealisedInv
  <2> QED
    BY <1>1, <2>1
<1>3. IsSeq(plan') /\ Len(plan') \in Nat
  <2>1. IsSeq(MigrationPlan(published, m))
    BY PlanWithin DEF Within, MigrationInv, TypeOK
  <2> QED
    BY <1>1, <2>1, SeqFacts
<1>4. Halfway(plan', db, db, plan')
  BY <1>3, HalfwayStart
<1>5. Halfway(MigrationPlan(published', next'), base', db', plan')
  BY <1>1, <1>4
<1> QED
  BY <1>1, <1>2, <1>5 DEF RealisedInv

LEMMA RealisedStep ==
  ASSUME MigrationInv, RealisedInv, ExecuteStatement \/ MigrationEnds \/ SavePublished
  PROVE  RealisedInv'
<1> SUFFICES ASSUME ~ disturbed' PROVE RealisedInv'
  BY DEF RealisedInv
<1>1. ~ disturbed /\ published \in Models /\ next \in Models
  BY DEF ExecuteStatement, MigrationEnds, SavePublished, MigrationInv, TypeOK
<1>2. IsSeq(MigrationPlan(published, next))
  BY <1>1, PlanWithin DEF Within
<1>3. CASE ExecuteStatement
  <2>1. /\ phase = "executing" /\ plan # <<>> /\ Step(db, Head(plan).do, db') /\ plan' = Tail(plan)
        /\ phase' = phase /\ published' = published /\ next' = next /\ base' = base
    BY <1>3 DEF ExecuteStatement, Step
  <2>2. HoldsAll(base, ToSet(published)) /\ Halfway(MigrationPlan(published, next), base, db, plan)
    BY <1>1, <2>1 DEF RealisedInv
  <2>3. Halfway(MigrationPlan(published, next), base, db', plan')
    BY <1>2, <2>1, <2>2, HalfwayStep
  <2>4. HoldsAll(base', ToSet(published')) /\ Halfway(MigrationPlan(published', next'), base', db', plan')
    BY <2>1, <2>2, <2>3
  <2> QED
    BY <2>1, <2>4 DEF RealisedInv
<1>4. CASE MigrationEnds
  <2>1. /\ phase = "executing" /\ plan = <<>> /\ phase' = "migrated"
        /\ db' = db /\ next' = next
    BY <1>4 DEF MigrationEnds
  <2>2. HoldsAll(base, ToSet(published)) /\ Halfway(MigrationPlan(published, next), base, db, <<>>)
    BY <1>1, <2>1 DEF RealisedInv
  <2>3. Runs(base, MigrationPlan(published, next), db)
    BY <1>2, <2>2, HalfwayEnd
  <2>4. HoldsAll(db, ToSet(next))
    BY <1>1, <2>2, <2>3, ModelsAreGood, PlanRuns
  <2>5. HoldsAll(db', ToSet(next'))
    BY <2>1, <2>4
  <2> QED
    BY <2>1, <2>5 DEF RealisedInv
<1>5. CASE SavePublished
  <2>1. phase = "migrated" /\ phase' = "idle" /\ db' = db /\ published' = next
    BY <1>5 DEF SavePublished
  <2>2. HoldsAll(db', ToSet(published'))
    BY <1>1, <2>1 DEF RealisedInv
  <2> QED
    BY <2>1, <2>2 DEF RealisedInv
<1> QED
  BY <1>3, <1>4, <1>5

LEMMA RealisedOtherwise ==
  ASSUME RealisedInv,
         StatementFails \/ UndoStatement \/ UndoFails \/ RollbackEnds \/ PublishFails \/ Interrupted
           \/ UNCHANGED vars
  PROVE  RealisedInv'
<1> SUFFICES ASSUME ~ disturbed' PROVE RealisedInv'
  BY DEF RealisedInv
<1>1. CASE StatementFails \/ Interrupted
  BY <1>1 DEF StatementFails, Interrupted
<1>2. CASE UndoStatement \/ UndoFails \/ RollbackEnds \/ PublishFails
  <2>1. ~ disturbed /\ phase \in {"rollback", "rolledback"}
    BY <1>2 DEF UndoStatement, UndoFails, RollbackEnds, PublishFails
  <2> QED
    BY <2>1 DEF RealisedInv
<1>3. CASE UNCHANGED vars
  <2>1. /\ disturbed' = disturbed /\ phase' = phase /\ db' = db /\ base' = base /\ plan' = plan
        /\ published' = published /\ next' = next
    BY <1>3 DEF vars
  <2>2. RealisedInv' = RealisedInv
    BY <2>1 DEF RealisedInv
  <2> QED
    BY <2>2
<1> QED
  BY <1>1, <1>2, <1>3

\* As long as no publish failed, the schema follows the models.
THEOREM RealisedInvariant == Spec => []RealisedInv
<1>1. Init => RealisedInv
  BY RealisedInit
<1>2. MigrationInv /\ RealisedInv /\ [Next]_vars => RealisedInv'
  <2> SUFFICES ASSUME MigrationInv, RealisedInv, [Next]_vars PROVE RealisedInv'
    OBVIOUS
  <2>1. CASE \E m \in Models : StartPublish(m)
    BY <2>1, RealisedStart
  <2>2. CASE ExecuteStatement \/ MigrationEnds \/ SavePublished
    BY <2>2, RealisedStep
  <2>3. CASE StatementFails \/ UndoStatement \/ UndoFails \/ RollbackEnds \/ PublishFails \/ Interrupted
               \/ UNCHANGED vars
    BY <2>3, RealisedOtherwise
  <2> QED
    BY <2>1, <2>2, <2>3 DEF Next, Finished
<1> QED
  BY <1>1, <1>2, MigrationInvariant, PTL DEF Spec

\* A schema that holds a model realises it, and is no stricter.
LEMMA HoldsRealises ==
  ASSUME NEW d, NEW m, IsSeq(m), HoldsAll(d, ToSet(m))
  PROVE  /\ Realises(d, m)
         /\ \A t \in ToSet(m) : \A c \in d[t.name].cols :
              ~ c.nullable => \E a \in ToSet(t.cols) : a.name = c.name /\ ~ a.nullable
<1>1. \A t \in ToSet(m) : /\ t.name \in TableNames /\ d[t.name].exists
                          /\ Fits(d[t.name], ToSet(t.cols), Indexed(ToSet(t.cols)))
  BY HeldExists DEF HoldsAll, Holds
<1>2. { n \in TableNames : d[n].exists } = { m[i].name : i \in DOMAIN m }
  <2>1. { m[i].name : i \in DOMAIN m } = { t.name : t \in ToSet(m) }
    BY DEF ToSet
  <2>2. \A n \in TableNames : d[n].exists => \E t \in ToSet(m) : t.name = n
    BY DEF HoldsAll
  <2>3. ASSUME NEW n PROVE n \in { x \in TableNames : d[x].exists } <=> n \in { t.name : t \in ToSet(m) }
    BY <1>1, <2>2, Zenon
  <2> QED
    BY <2>1, <2>3
<1>3. ASSUME NEW t \in ToSet(m)
      PROVE  Shape(d[t.name].cols) = DeclaredShape(t) /\ d[t.name].idx = DeclaredIndexes(t)
  <2>1. Fits(d[t.name], ToSet(t.cols), Indexed(ToSet(t.cols)))
    BY <1>1
  <2>2. d[t.name].idx = DeclaredIndexes(t)
    BY <2>1 DEF Fits, Indexed, DeclaredIndexes
  <2>3. Shape(d[t.name].cols) = DeclaredShape(t)
    <3>1. /\ \A x \in d[t.name].cols : \E c \in ToSet(t.cols) : Stores(x, c)
          /\ \A c \in ToSet(t.cols) : \E x \in d[t.name].cols : Stores(x, c)
      BY <2>1 DEF Fits
    <3>2. \A x, c : Stores(x, c) => [name |-> x.name, type |-> x.type, holds |-> x.holds]
                                     = [name |-> c.name, type |-> c.type, holds |-> c.uuid]
      BY DEF Stores
    <3> DEFINE R(x) == [name |-> x.name, type |-> x.type, holds |-> x.holds]
               S(c) == [name |-> c.name, type |-> c.type, holds |-> c.uuid]
    <3>3. \A x, c : Stores(x, c) => R(x) = S(c)
      BY <3>2
    <3>4. Shape(d[t.name].cols) = { R(x) : x \in d[t.name].cols } /\ DeclaredShape(t) = { S(c) : c \in ToSet(t.cols) }
      BY DEF Shape, DeclaredShape
    <3> HIDE DEF R, S
    <3>5. { R(x) : x \in d[t.name].cols } = { S(c) : c \in ToSet(t.cols) }
      BY <3>1, <3>3
    <3> QED
      BY <3>4, <3>5
  <2> QED
    BY <2>2, <2>3
<1>4. ASSUME NEW t \in ToSet(m), NEW x \in d[t.name].cols, ~ x.nullable
      PROVE  \E a \in ToSet(t.cols) : a.name = x.name /\ ~ a.nullable
  <2>1. PICK a \in ToSet(t.cols) : Stores(x, a)
    BY <1>1 DEF Fits
  <2>2. a.name = x.name
    BY <2>1 DEF Stores
  <2>3. ~ a.nullable
    BY <1>4, <2>1, Zenon DEF Stores
  <2> QED
    BY <2>2, <2>3
<1> QED
  BY <1>2, <1>3, <1>4 DEF Realises

\* No sequence of publishes that ran to their ends loses a column, an index or
\* the values of an attribute: the schema is what the published model says.
THEOREM SchemaIsPublished == Spec => []PublishedIsRealised
<1>1. MigrationInv /\ RealisedInv => PublishedIsRealised
  BY ModelsAreGood, HoldsRealises DEF MigrationInv, TypeOK, RealisedInv, PublishedIsRealised, IsSeq
<1> QED
  BY <1>1, MigrationInvariant, RealisedInvariant, PTL

\* CHANGE COLUMN without a NULL clause may loosen a column; none is NOT NULL
\* that the published model allows to be null.
THEOREM NoColumnIsStricter == Spec => []NeverStricter
<1>1. MigrationInv /\ RealisedInv => NeverStricter
  BY ModelsAreGood, HoldsRealises DEF MigrationInv, TypeOK, RealisedInv, NeverStricter, IsSeq
<1> QED
  BY <1>1, MigrationInvariant, RealisedInvariant, PTL
==============================================================================
