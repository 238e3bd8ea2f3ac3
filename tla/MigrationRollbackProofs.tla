----------------------- MODULE MigrationRollbackProofs -----------------------
(***************************************************************************)
(* For any models: a rolled back publish has restored the schema it began  *)
(* with.  First that the undo statement of each kind of atom takes back    *)
(* what its statement did to a published table; then that in every plan an *)
(* atom either comes first on its tables or shares one with an earlier     *)
(* atom, whose undo statement it is then entangled with; last the          *)
(* invariant that says in each phase how much has been restored.           *)
(***************************************************************************)
EXTENDS MigrationSchemaProofs

\* RollbackRestores asks of two tables that they be the same in this sense.
Same(t, u) == t.exists = u.exists /\ UpToNullable(t) = UpToNullable(u)

\* If undo statement s is accepted in schema d, it gives its tables back what
\* they were in schema b.
Restores(b, d, s) == Accepts(d, s) => \A n \in Touches(s) : Same(Execute(d, s)[n], b[n])

\* After its statement, which begins with schema b, the undo statement of atom a.
TakesBack(a, b) == Accepts(b, a.do) => Restores(b, Execute(b, a.do), a.undo)

-----------------------------------------------------------------------------
(* A published table *)

\* Table t has the attributes C as columns, perhaps looser or stricter ones,
\* and the indexes declared.
Bears(t, C) ==
  /\ IsTable(t)
  /\ \A x, y \in t.cols : x.name = y.name => x = y
  /\ \A x \in t.cols : \E c \in C : x.name = c.name /\ x.type = c.type
  /\ \A c \in C : \E x \in t.cols : x.name = c.name /\ x.type = c.type
  /\ \A c, d \in C : c.name = d.name => c = d
  /\ t.idx = { [index |-> n, col |-> n] : n \in Indexed(C) }

\* Its indexes, one by one.
LEMMA BornIndexes ==
  ASSUME NEW t, NEW C, Bears(t, C)
  PROVE  /\ \A x \in t.idx : x.index = x.col /\ HasColumn(t, x.col) /\ x = [index |-> x.col, col |-> x.col]
         /\ \A c \in C : c.index <=> [index |-> c.name, col |-> c.name] \in t.idx
         /\ \A c \in C, x \in t.idx : x.col = c.name => c.index
<1>1. t.idx = { [index |-> n, col |-> n] : n \in Indexed(C) }
  BY DEF Bears
<1>2. \A n : n \in Indexed(C) <=> \E c \in C : c.index /\ n = c.name
  BY DEF Indexed
<1>3. ASSUME NEW x \in t.idx
      PROVE  x.index = x.col /\ x = [index |-> x.col, col |-> x.col] /\ \E c \in C : c.index /\ c.name = x.col
  <2>1. PICK n \in Indexed(C) : x = [index |-> n, col |-> n]
    BY <1>1
  <2> QED
    BY <1>2, <2>1
<1>4. \A c \in C : HasColumn(t, c.name)
  BY DEF Bears, HasColumn
<1>5. ASSUME NEW c \in C, [index |-> c.name, col |-> c.name] \in t.idx PROVE c.index
  <2>1. PICK b \in C : b.index /\ b.name = [index |-> c.name, col |-> c.name].col
    BY <1>3, <1>5
  <2>2. b = c
    BY <2>1 DEF Bears
  <2> QED
    BY <2>1, <2>2
<1>6. ASSUME NEW c \in C, NEW x \in t.idx, x.col = c.name PROVE c.index
  BY <1>3, <1>5, <1>6
<1>7. \A c \in C : c.index => [index |-> c.name, col |-> c.name] \in t.idx
  BY <1>1, <1>2
<1> QED
  BY <1>3, <1>4, <1>5, <1>6, <1>7

\* Two tables with the same columns up to what UpToNullable forgets.
LEMMA SameUpToNullable ==
  ASSUME NEW t, IsTable(t), NEW u, IsTable(u), u.idx = t.idx,
         \A x \in t.cols : \E y \in u.cols : y.name = x.name /\ y.type = x.type,
         \A y \in u.cols : \E x \in t.cols : y.name = x.name /\ y.type = x.type
  PROVE  Same(u, t)
<1>1. u.exists = t.exists
  <2>1. t.exists = TRUE /\ u.exists = TRUE
    BY DEF IsTable
  <2> QED
    BY <2>1
<1> DEFINE P(x) == [name |-> x.name, type |-> x.type]
<1>2. \A x, y : x.name = y.name /\ x.type = y.type => P(x) = P(y)
  OBVIOUS
<1>3. UpToNullable(t) = [cols |-> { P(x) : x \in t.cols }, idx |-> t.idx]
      /\ UpToNullable(u) = [cols |-> { P(x) : x \in u.cols }, idx |-> u.idx]
  BY DEF UpToNullable
<1> HIDE DEF P
<1>4. { P(x) : x \in u.cols } = { P(x) : x \in t.cols }
  BY <1>2
<1>5. UpToNullable(u) = UpToNullable(t)
  BY <1>3, <1>4
<1> QED
  BY <1>1, <1>5, Zenon DEF Same

\* DROP INDEX and CREATE INDEX of a declared index.
LEMMA DropIndexBack ==
  ASSUME NEW t, NEW C, Bears(t, C), NEW c \in C, c.index, NEW T
  PROVE  Same(Altered(Altered(t, DropIndex(T, c)), CreateIndex(T, c)), t)
<1> DEFINE do == DropIndex(T, c)
           back == CreateIndex(T, c)
           m == Altered(t, do)
<1>1. do.op = "dropindex" /\ do.index = c.name /\ back.op = "addindex" /\ back.index = c.name /\ back.name = c.name
  BY DEF DropIndex, CreateIndex
<1> HIDE DEF do, back
<1>2. IsTable(t)
  BY DEF Bears
<1>3. PICK j : /\ m = [exists |-> TRUE, cols |-> t.cols, idx |-> j]
               /\ \A x : x \in j <=> x \in t.idx /\ x.index # c.name
  BY <1>1, <1>2, AlteredFacts
<1>4. IsTable(m) /\ m.cols = t.cols /\ m.idx = j
  BY <1>3 DEF IsTable
<1> HIDE DEF m
<1>5. Altered(m, back) = [exists |-> TRUE, cols |-> t.cols, idx |-> j \cup {[index |-> c.name, col |-> c.name]}]
  BY <1>1, <1>4, AlteredFacts
<1>6. j \cup {[index |-> c.name, col |-> c.name]} = t.idx
  BY <1>3, BornIndexes
<1> DEFINE u == Altered(m, back)
<1>7. IsTable(u) /\ u.cols = t.cols /\ u.idx = t.idx
  BY <1>5, <1>6 DEF IsTable
<1> HIDE DEF u
<1>8. /\ \A x \in t.cols : \E y \in u.cols : y.name = x.name /\ y.type = x.type
      /\ \A y \in u.cols : \E x \in t.cols : y.name = x.name /\ y.type = x.type
  BY <1>7
<1>9. Same(u, t)
  BY <1>2, <1>7, <1>8, SameUpToNullable
<1> QED
  BY <1>9 DEF u, m, do, back

\* CREATE INDEX and DROP INDEX, where there was no index of that name.
LEMMA CreateIndexBack ==
  ASSUME NEW t, NEW C, Bears(t, C), NEW c, ~ HasIndex(t, c.name), NEW T
  PROVE  Same(Altered(Altered(t, CreateIndex(T, c)), DropIndex(T, c)), t)
<1> DEFINE do == CreateIndex(T, c)
           back == DropIndex(T, c)
           m == Altered(t, do)
           u == Altered(m, back)
           x == [index |-> c.name, col |-> c.name]
<1>1. do.op = "addindex" /\ do.index = c.name /\ do.name = c.name /\ back.op = "dropindex" /\ back.index = c.name
  BY DEF DropIndex, CreateIndex
<1> HIDE DEF do, back
<1>2. IsTable(t)
  BY DEF Bears
<1>3. m = [exists |-> TRUE, cols |-> t.cols, idx |-> t.idx \cup {x}]
  BY <1>1, <1>2, AlteredFacts
<1>4. IsTable(m) /\ m.cols = t.cols /\ m.idx = t.idx \cup {x}
  BY <1>3 DEF IsTable
<1> HIDE DEF m
<1>5. PICK j : /\ u = [exists |-> TRUE, cols |-> t.cols, idx |-> j]
               /\ \A y : y \in j <=> y \in m.idx /\ y.index # c.name
  BY <1>1, <1>4, AlteredFacts
<1>6. x.index = c.name
  OBVIOUS
<1> HIDE DEF x
<1>7. j = t.idx
  BY <1>4, <1>5, <1>6 DEF HasIndex
<1>8. IsTable(u) /\ u.cols = t.cols /\ u.idx = t.idx
  BY <1>5, <1>7 DEF IsTable
<1> HIDE DEF u
<1>9. /\ \A y \in t.cols : \E z \in u.cols : z.name = y.name /\ z.type = y.type
      /\ \A z \in u.cols : \E y \in t.cols : z.name = y.name /\ z.type = y.type
  BY <1>8
<1>10. Same(u, t)
  BY <1>2, <1>8, <1>9, SameUpToNullable
<1> QED
  BY <1>10 DEF u, m, do, back

\* DROP COLUMN of a column without index, and ADD COLUMN.
LEMMA DropColumnBack ==
  ASSUME NEW t, NEW C, Bears(t, C), NEW c \in C, ~ c.index, NEW T, NEW nullable, NEW holds
  PROVE  Same(Altered(Altered(t, DropColumn(T, c.name)), AddColumn(T, DbColumn(c, nullable, holds))), t)
<1> DEFINE do == DropColumn(T, c.name)
           col == DbColumn(c, nullable, holds)
           back == AddColumn(T, col)
           m == Altered(t, do)
           u == Altered(m, back)
<1>1. /\ do.op = "dropcol" /\ do.name = c.name /\ back.op = "addcol" /\ back.col = col
      /\ col.name = c.name /\ col.type = c.type
  BY DEF DropColumn, AddColumn, DbColumn
<1> HIDE DEF do, back, col
<1>2. IsTable(t)
  BY DEF Bears
<1>3. PICK b, j : /\ m = [exists |-> TRUE, cols |-> b, idx |-> j]
                  /\ \A x : x \in b <=> x \in t.cols /\ x.name # c.name
                  /\ \A x : x \in j <=> x \in t.idx /\ x.col # c.name
  BY <1>1, <1>2, AlteredFacts
<1>4. IsTable(m) /\ m.cols = b /\ m.idx = j
  BY <1>3 DEF IsTable
<1> HIDE DEF m
<1>5. u = [exists |-> TRUE, cols |-> b \cup {col}, idx |-> j]
  BY <1>1, <1>4, AlteredFacts
<1>6. j = t.idx
  BY <1>3, BornIndexes
<1>7. IsTable(u) /\ u.cols = b \cup {col} /\ u.idx = t.idx
  BY <1>5, <1>6 DEF IsTable
<1> HIDE DEF u
<1>8. ASSUME NEW x \in t.cols PROVE \E y \in u.cols : y.name = x.name /\ y.type = x.type
  <2>1. CASE x.name = c.name
    <3>1. PICK d \in C : x.name = d.name /\ x.type = d.type
      BY DEF Bears
    <3>2. \A a \in C : a.name = c.name => a = c
      BY DEF Bears
    <3>3. d = c
      BY <2>1, <3>1, <3>2
    <3> QED
      BY <1>1, <1>7, <3>1, <3>3
  <2>2. CASE x.name # c.name
    BY <1>3, <1>7, <2>2
  <2> QED
    BY <2>1, <2>2
<1>9. ASSUME NEW y \in u.cols PROVE \E x \in t.cols : y.name = x.name /\ y.type = x.type
  <2>1. CASE y = col
    BY <1>1, <2>1 DEF Bears
  <2>2. CASE y \in b
    BY <1>3, <2>2
  <2> QED
    BY <1>7, <2>1, <2>2
<1>10. Same(u, t)
  BY <1>2, <1>7, <1>8, <1>9, SameUpToNullable
<1> QED
  BY <1>10 DEF u, m, do, back, col

\* ADD COLUMN of a new name, and DROP COLUMN.
LEMMA AddColumnBack ==
  ASSUME NEW t, NEW C, Bears(t, C), NEW c, ~ HasColumn(t, c.name), NEW T, NEW nullable, NEW holds
  PROVE  Same(Altered(Altered(t, AddColumn(T, DbColumn(c, nullable, holds))), DropColumn(T, c.name)), t)
<1> DEFINE col == DbColumn(c, nullable, holds)
           do == AddColumn(T, col)
           back == DropColumn(T, c.name)
           m == Altered(t, do)
           u == Altered(m, back)
<1>1. do.op = "addcol" /\ do.col = col /\ back.op = "dropcol" /\ back.name = c.name /\ col.name = c.name
  BY DEF DropColumn, AddColumn, DbColumn
<1> HIDE DEF do, back, col
<1>2. IsTable(t)
  BY DEF Bears
<1>3. m = [exists |-> TRUE, cols |-> t.cols \cup {col}, idx |-> t.idx]
  BY <1>1, <1>2, AlteredFacts
<1>4. IsTable(m) /\ m.cols = t.cols \cup {col} /\ m.idx = t.idx
  BY <1>3 DEF IsTable
<1> HIDE DEF m
<1>5. PICK b, j : /\ u = [exists |-> TRUE, cols |-> b, idx |-> j]
                  /\ \A x : x \in b <=> x \in m.cols /\ x.name # c.name
                  /\ \A x : x \in j <=> x \in m.idx /\ x.col # c.name
  BY <1>1, <1>4, AlteredFacts
<1>6. b = t.cols
  BY <1>1, <1>4, <1>5 DEF HasColumn
<1>7. j = t.idx
  BY <1>4, <1>5, BornIndexes
<1>8. IsTable(u) /\ u.cols = t.cols /\ u.idx = t.idx
  BY <1>5, <1>6, <1>7 DEF IsTable
<1> HIDE DEF u
<1>9. /\ \A x \in t.cols : \E y \in u.cols : y.name = x.name /\ y.type = x.type
      /\ \A y \in u.cols : \E x \in t.cols : y.name = x.name /\ y.type = x.type
  BY <1>8
<1>10. Same(u, t)
  BY <1>2, <1>8, <1>9, SameUpToNullable
<1> QED
  BY <1>10 DEF u, m, do, back, col

\* CHANGE COLUMN and CHANGE COLUMN back, of a column without index or under
\* the same name.
LEMMA ChangeColumnBack ==
  ASSUME NEW t, NEW C, Bears(t, C), NEW c \in C, NEW T, NEW new, NEW old,
         \A h : [new EXCEPT !.holds = h].name = new.name,
         \A h : [old EXCEPT !.holds = h].name = c.name /\ [old EXCEPT !.holds = h].type = c.type,
         old.name = c.name, new.name = c.name \/ (~ c.index /\ ~ HasColumn(t, new.name))
  PROVE  Same(Altered(Altered(t, ChangeColumn(T, c.name, new)), ChangeColumn(T, new.name, old)), t)
<1> DEFINE do == ChangeColumn(T, c.name, new)
           back == ChangeColumn(T, new.name, old)
           m == Altered(t, do)
           u == Altered(m, back)
<1>1. do.op = "change" /\ do.name = c.name /\ do.col = new /\ back.op = "change" /\ back.name = new.name /\ back.col = old
  BY DEF ChangeColumn
<1> HIDE DEF do, back
<1>2. IsTable(t) /\ HasColumn(t, c.name)
  BY DEF Bears, HasColumn
<1>3. PICK x, b, j : /\ m = [exists |-> TRUE, cols |-> b, idx |-> j]
                     /\ x \in t.cols /\ x.name = c.name
                     /\ b = (t.cols \ {x}) \cup { [new EXCEPT !.holds = x.holds] }
                     /\ j = { IF i.col = c.name THEN [i EXCEPT !.col = new.name] ELSE i : i \in t.idx }
  BY <1>1, <1>2, ChangedFacts
<1> DEFINE y == [new EXCEPT !.holds = x.holds]
<1>4. y.name = new.name /\ b = (t.cols \ {x}) \cup {y}
  BY <1>3
<1>5. IsTable(m) /\ m.cols = b /\ m.idx = j
  BY <1>3 DEF IsTable
<1> HIDE DEF m, y
<1>6. j = t.idx
  <2>1. ASSUME NEW i \in t.idx PROVE (IF i.col = c.name THEN [i EXCEPT !.col = new.name] ELSE i) = i
    <3>1. CASE i.col = c.name
      <4>1. new.name = i.col
        BY <3>1, BornIndexes
      <4>2. i = [index |-> i.col, col |-> i.col]
        BY BornIndexes
      <4> QED
        BY <3>1, <4>1, <4>2
    <3> QED
      BY <3>1
  <2> DEFINE F(i) == IF i.col = c.name THEN [i EXCEPT !.col = new.name] ELSE i
  <2>2. j = { F(i) : i \in t.idx } /\ \A i \in t.idx : F(i) = i
    BY <1>3, <2>1
  <2> HIDE DEF F
  <2> QED
    BY <2>2
<1>7. HasColumn(m, new.name) /\ \A z \in b : z.name = new.name => z = y
  BY <1>3, <1>4, <1>5 DEF HasColumn, Bears
<1>8. PICK z, d, k : /\ u = [exists |-> TRUE, cols |-> d, idx |-> k]
                     /\ z \in m.cols /\ z.name = new.name
                     /\ d = (m.cols \ {z}) \cup { [old EXCEPT !.holds = z.holds] }
                     /\ k = { IF i.col = new.name THEN [i EXCEPT !.col = old.name] ELSE i : i \in m.idx }
  BY <1>1, <1>5, <1>7, ChangedFacts
<1> DEFINE w == [old EXCEPT !.holds = z.holds]
<1>9. w.name = c.name /\ w.type = c.type /\ d = (b \ {y}) \cup {w}
  BY <1>5, <1>7, <1>8
<1> HIDE DEF w
<1>10. k = t.idx
  <2>1. ASSUME NEW i \in t.idx PROVE (IF i.col = new.name THEN [i EXCEPT !.col = old.name] ELSE i) = i
    <3>1. CASE i.col = new.name
      <4>1. old.name = i.col
        BY <3>1, BornIndexes
      <4>2. i = [index |-> i.col, col |-> i.col]
        BY BornIndexes
      <4> QED
        BY <3>1, <4>1, <4>2
    <3> QED
      BY <3>1
  <2> DEFINE F(i) == IF i.col = new.name THEN [i EXCEPT !.col = old.name] ELSE i
  <2>2. k = { F(i) : i \in t.idx } /\ \A i \in t.idx : F(i) = i
    BY <1>5, <1>6, <1>8, <2>1
  <2> HIDE DEF F
  <2> QED
    BY <2>2
<1>11. IsTable(u) /\ u.cols = d /\ u.idx = t.idx
  BY <1>8, <1>10 DEF IsTable
<1> HIDE DEF u
<1>12. y \notin t.cols \ {x}
  BY <1>3, <1>4 DEF Bears, HasColumn
<1>13. d = (t.cols \ {x}) \cup {w}
  BY <1>4, <1>9, <1>12
<1>14. x.type = c.type
  <2>1. PICK e \in C : x.name = e.name /\ x.type = e.type
    BY <1>3 DEF Bears
  <2>2. \A a \in C : a.name = c.name => a = c
    BY DEF Bears
  <2>3. e = c
    BY <1>3, <2>1, <2>2
  <2> QED
    BY <2>1, <2>3
<1>15. /\ \A a \in t.cols : \E e \in u.cols : e.name = a.name /\ e.type = a.type
       /\ \A e \in u.cols : \E a \in t.cols : e.name = a.name /\ e.type = a.type
  BY <1>3, <1>9, <1>11, <1>13, <1>14
<1>16. Same(u, t)
  BY <1>2, <1>11, <1>15, SameUpToNullable
<1> QED
  BY <1>16 DEF u, m, do, back
-----------------------------------------------------------------------------
(* A published schema *)

\* Schema b is as model p says, up to what CHANGE COLUMN made of NULL clauses.
Pub(b, p) == DOMAIN b = TableNames /\ GoodSchema(b) /\ Realises(b, p)

\* What the statement of atom a does to a schema as published, its undo
\* statement takes back.
Restorable(a, p) == \A b : Pub(b, p) => TakesBack(a, b)

LEMMA PublishedTables ==
  ASSUME NEW p, GoodModel(p), NEW b, Pub(b, p)
  PROVE  /\ \A t \in ToSet(p) : b[t.name].exists /\ Bears(b[t.name], ToSet(t.cols))
         /\ \A n \in TableNames : ~ b[n].exists => b[n] = NoTable
<1>1. ASSUME NEW n \in TableNames, ~ b[n].exists PROVE b[n] = NoTable
  <2>1. GoodTable(b[n])
    BY DEF Pub, GoodSchema
  <2>2. IsTable(b[n]) => b[n].exists
    BY DEF IsTable
  <2> QED
    BY <1>1, <2>1, <2>2 DEF GoodTable
<1>2. ASSUME NEW t \in ToSet(p) PROVE b[t.name].exists /\ Bears(b[t.name], ToSet(t.cols))
  <2> DEFINE T == b[t.name]
             C == ToSet(t.cols)
  <2>1. t.name \in TableNames /\ \A x, y \in C : x.uuid = y.uuid => x = y
    BY FindFacts DEF GoodModel, WellFormed
  <2>2. PICK i \in DOMAIN p : p[i] = t
    BY DEF ToSet
  <2>3. T.exists
    BY <2>1, <2>2 DEF Pub, Realises
  <2>4. IsTable(T) /\ \A x, y \in T.cols : x.name = y.name => x = y
    BY <2>1, <2>3, ColumnsOfGood DEF Pub, GoodSchema
  <2>5. Shape(T.cols) = DeclaredShape(t) /\ T.idx = DeclaredIndexes(t)
    BY DEF Pub, Realises
  <2> DEFINE R(x) == [name |-> x.name, type |-> x.type, holds |-> x.holds]
             S(c) == [name |-> c.name, type |-> c.type, holds |-> c.uuid]
  <2>6. { R(x) : x \in T.cols } = { S(c) : c \in C }
    BY <2>5 DEF Shape, DeclaredShape
  <2>7. \A x, c : R(x) = S(c) => x.name = c.name /\ x.type = c.type /\ x.holds = c.uuid
    OBVIOUS
  <2>8. T.idx = { [index |-> n, col |-> n] : n \in Indexed(C) }
    BY <2>5 DEF DeclaredIndexes, Indexed
  <2> HIDE DEF R, S, T, C
  <2>9. ASSUME NEW x \in T.cols PROVE \E c \in C : x.name = c.name /\ x.type = c.type
    <3>1. R(x) \in { S(c) : c \in C }
      BY <2>6
    <3> QED
      BY <2>7, <3>1
  <2>10. ASSUME NEW c \in C PROVE \E x \in T.cols : x.name = c.name /\ x.type = c.type /\ x.holds = c.uuid
    <3>1. S(c) \in { R(x) : x \in T.cols }
      BY <2>6
    <3> QED
      BY <2>7, <3>1
  <2>11. ASSUME NEW c \in C, NEW d \in C, c.name = d.name PROVE c = d
    <3>1. PICK x, y \in T.cols : x.name = c.name /\ x.holds = c.uuid /\ y.name = d.name /\ y.holds = d.uuid
      BY <2>10
    <3>2. x = y
      BY <2>4, <2>11, <3>1
    <3> QED
      BY <2>1, <3>1, <3>2
  <2>12. Bears(T, C)
    BY <2>4, <2>8, <2>9, <2>10, <2>11 DEF Bears
  <2> QED
    BY <2>3, <2>12 DEF T, C
<1> QED
  BY <1>1, <1>2

\* An atom whose two statements work on one table takes back what it did there.
LEMMA OnOneTable ==
  ASSUME NEW a, NEW b, a.do.table \in DOMAIN b, a.undo.table = a.do.table, a.do.op # "rename", a.undo.op # "rename",
         Accepts(b, a.do) => Same(Altered(Altered(b[a.do.table], a.do), a.undo), b[a.do.table])
  PROVE  TakesBack(a, b)
<1> DEFINE T == a.do.table
           m == Execute(b, a.do)
<1> SUFFICES ASSUME Accepts(b, a.do) PROVE \A n \in Touches(a.undo) : Same(Execute(m, a.undo)[n], b[n])
  BY DEF TakesBack, Restores
<1>1. Touches(a.undo) = {T}
  BY DEF Touches
<1>2. DOMAIN m = DOMAIN b /\ m[T] = Altered(b[T], a.do)
  BY DEF Execute
<1> HIDE DEF m
<1>3. Execute(m, a.undo)[T] = Altered(m[T], a.undo)
  BY <1>2 DEF Execute
<1> QED
  BY <1>1, <1>2, <1>3

LEMMA DroppedRestorable ==
  ASSUME NEW p, GoodModel(p), NEW t \in ToSet(p)
  PROVE  Restorable(Atom(BuildDeleteTableSQL(t), BuildCreateTableSQL(t, FALSE)), p)
<1> DEFINE a == Atom(BuildDeleteTableSQL(t), BuildCreateTableSQL(t, FALSE))
           body == BuildCreateTableSQL(t, FALSE).body
<1>1. a.do.table = t.name /\ a.undo.table = t.name /\ a.do.op = "drop" /\ a.undo.op = "create" /\ a.undo.body = body
  BY DEF Atom, BuildDeleteTableSQL, BuildCreateTableSQL
<1> HIDE DEF a
<1>2. /\ IsTable(body) /\ body.cols = { DbColumn(c, c.nullable, Lost) : c \in ToSet(t.cols) }
      /\ body.idx = { [index |-> c.name, col |-> c.name] : c \in { d \in ToSet(t.cols) : d.index } }
  BY DEF BuildCreateTableSQL, IsTable
<1> HIDE DEF body
<1>3. ASSUME NEW b, Pub(b, p) PROVE TakesBack(a, b)
  <2> DEFINE T == b[t.name]
  <2>1. Bears(T, ToSet(t.cols))
    BY <1>3, PublishedTables
  <2>2. T.idx = body.idx
    BY <1>2, <2>1 DEF Bears, Indexed
  <2>3. \A c : DbColumn(c, c.nullable, Lost).name = c.name /\ DbColumn(c, c.nullable, Lost).type = c.type
    BY DEF DbColumn
  <2>4. \A x \in T.cols : \E y \in body.cols : y.name = x.name /\ y.type = x.type
    BY <1>2, <2>1, <2>3 DEF Bears
  <2>5. \A y \in body.cols : \E x \in T.cols : y.name = x.name /\ y.type = x.type
    BY <1>2, <2>1, <2>3 DEF Bears
  <2>6. IsTable(T)
    BY <2>1 DEF Bears
  <2> HIDE DEF T
  <2>7. Same(body, T)
    BY <1>2, <2>2, <2>4, <2>5, <2>6, SameUpToNullable
  <2>8. \A u : Altered(u, a.undo) = body
    BY <1>1 DEF Altered
  <2>9. t.name \in DOMAIN b
    BY <1>3 DEF Pub, GoodModel
  <2> QED
    BY <1>1, <2>7, <2>8, <2>9, OnOneTable DEF T
<1>4. Restorable(a, p)
  BY <1>3 DEF Restorable
<1> QED
  BY <1>4 DEF a

LEMMA AddedRestorable ==
  ASSUME NEW p, GoodModel(p), NEW t, t.name \in TableNames
  PROVE  Restorable(Atom(BuildCreateTableSQL(t, TRUE), BuildDeleteTableSQL(t)), p)
<1> DEFINE a == Atom(BuildCreateTableSQL(t, TRUE), BuildDeleteTableSQL(t))
<1>1. a.do.table = t.name /\ a.undo.table = t.name /\ a.do.op = "create" /\ a.undo.op = "drop"
  BY DEF Atom, BuildDeleteTableSQL, BuildCreateTableSQL
<1> HIDE DEF a
<1>2. ASSUME NEW b, Pub(b, p) PROVE TakesBack(a, b)
  <2>1. \A u : Altered(u, a.undo) = NoTable
    BY <1>1 DEF Altered
  <2>2. Accepts(b, a.do) => ~ b[t.name].exists
    BY <1>1 DEF Accepts
  <2>3. Accepts(b, a.do) => b[t.name] = NoTable
    BY <1>2, <2>2, PublishedTables
  <2>4. Same(NoTable, NoTable)
    BY DEF Same
  <2>5. t.name \in DOMAIN b
    BY <1>2 DEF Pub
  <2> QED
    BY <1>1, <2>1, <2>3, <2>4, <2>5, OnOneTable
<1>3. Restorable(a, p)
  BY <1>2 DEF Restorable
<1> QED
  BY <1>3 DEF a

LEMMA RenamedRestorable ==
  ASSUME NEW p, GoodModel(p), NEW from \in TableNames, NEW to \in TableNames, from # to
  PROVE  Restorable(Atom(RenameTable(from, to), RenameTable(to, from)), p)
<1> DEFINE do == RenameTable(from, to)
           back == RenameTable(to, from)
           a == Atom(do, back)
<1>1. a.do = do /\ a.undo = back
  BY DEF Atom
<1>2. Touches(back) = {from, to}
  BY DEF Touches, RenameTable
<1> HIDE DEF a
<1>3. ASSUME NEW b, Pub(b, p), Accepts(b, do) PROVE Restores(b, Execute(b, do), back)
  <2> DEFINE m == Execute(b, do)
             e == Execute(m, back)
  <2>0. DOMAIN b = TableNames
    BY <1>3 DEF Pub
  <2>1. /\ DOMAIN m = DOMAIN b /\ ~ b[to].exists
        /\ m[from] = NoTable /\ m[to] = b[from]
    BY <1>3, <2>0, Renaming DEF Step
  <2>2. b[to] = NoTable
    BY <1>3, <2>1, PublishedTables
  <2> HIDE DEF m, do
  <2>3. ASSUME Accepts(m, back) PROVE e[to] = NoTable /\ e[from] = m[to]
    BY <2>0, <2>1, <2>3, Renaming DEF Step
  <2> HIDE DEF e, back
  <2>4. ASSUME Accepts(m, back), NEW n \in Touches(back) PROVE Same(e[n], b[n])
    <3>1. e[n] = b[n]
      BY <1>2, <2>1, <2>2, <2>3, <2>4
    <3> QED
      BY <3>1 DEF Same
  <2> QED
    BY <2>4 DEF Restores, m, e
<1>4. Restorable(a, p)
  BY <1>1, <1>3 DEF Restorable, TakesBack
<1> QED
  BY <1>4 DEF a

-----------------------------------------------------------------------------
(* The atoms of a modified table *)

LEMMA ColumnRestorable ==
  ASSUME NEW p, GoodModel(p), NEW o \in ToSet(p), NEW do, NEW back,
         do.table = o.name, back.table = o.name, do.op \notin {"create", "rename"}, back.op # "rename",
         \A t : /\ Bears(t, ToSet(o.cols))
                /\ do.op = "addcol" => ~ HasColumn(t, do.col.name)
                /\ do.op = "addindex" => ~ HasIndex(t, do.index)
                /\ do.op = "change" /\ do.col.name # do.name => ~ HasColumn(t, do.col.name)
                => Same(Altered(Altered(t, do), back), t)
  PROVE  Restorable(Atom(do, back), p)
<1> DEFINE a == Atom(do, back)
<1>1. a.do = do /\ a.undo = back
  BY DEF Atom
<1> HIDE DEF a
<1>2. ASSUME NEW b, Pub(b, p) PROVE TakesBack(a, b)
  <2>1. Bears(b[o.name], ToSet(o.cols)) /\ o.name \in DOMAIN b
    BY <1>2, PublishedTables DEF Pub, GoodModel
  <2>2. ASSUME Accepts(b, do)
        PROVE  /\ do.op = "addcol" => ~ HasColumn(b[o.name], do.col.name)
               /\ do.op = "addindex" => ~ HasIndex(b[o.name], do.index)
               /\ do.op = "change" /\ do.col.name # do.name => ~ HasColumn(b[o.name], do.col.name)
    BY <2>2 DEF Accepts
  <2>3. Accepts(b, do) => Same(Altered(Altered(b[o.name], do), back), b[o.name])
    BY <2>1, <2>2
  <2> QED
    BY <1>1, <2>1, <2>3, OnOneTable
<1>3. Restorable(a, p)
  BY <1>2 DEF Restorable
<1> QED
  BY <1>3 DEF a

LEMMA IndexRestorable ==
  ASSUME NEW p, GoodModel(p), NEW o \in ToSet(p), NEW c
  PROVE  /\ Restorable(Atom(CreateIndex(o.name, c), DropIndex(o.name, c)), p)
         /\ c \in ToSet(o.cols) /\ c.index => Restorable(Atom(DropIndex(o.name, c), CreateIndex(o.name, c)), p)
<1> DEFINE make == CreateIndex(o.name, c)
           drop == DropIndex(o.name, c)
<1>1. /\ make.op = "addindex" /\ make.table = o.name /\ make.index = c.name
      /\ drop.op = "dropindex" /\ drop.table = o.name
  BY DEF CreateIndex, DropIndex
<1>2. Restorable(Atom(make, drop), p)
  <2>1. ASSUME NEW t, Bears(t, ToSet(o.cols)), ~ HasIndex(t, c.name) PROVE Same(Altered(Altered(t, make), drop), t)
    BY <2>1, CreateIndexBack
  <2> HIDE DEF make, drop
  <2> QED
    BY <1>1, <2>1, ColumnRestorable
<1>3. ASSUME c \in ToSet(o.cols), c.index PROVE Restorable(Atom(drop, make), p)
  <2>1. ASSUME NEW t, Bears(t, ToSet(o.cols)) PROVE Same(Altered(Altered(t, drop), make), t)
    BY <1>3, <2>1, DropIndexBack
  <2> HIDE DEF make, drop
  <2> QED
    BY <1>1, <2>1, ColumnRestorable
<1> QED
  BY <1>2, <1>3

LEMMA AddRestorable ==
  ASSUME NEW p, GoodModel(p), NEW o \in ToSet(p), NEW c, NEW nullable, NEW holds
  PROVE  Restorable(Atom(AddColumn(o.name, DbColumn(c, nullable, holds)), DropColumn(o.name, c.name)), p)
<1> DEFINE do == AddColumn(o.name, DbColumn(c, nullable, holds))
           back == DropColumn(o.name, c.name)
<1>1. do.op = "addcol" /\ do.table = o.name /\ do.col.name = c.name /\ back.op = "dropcol" /\ back.table = o.name
  BY DEF AddColumn, DropColumn, DbColumn
<1>2. ASSUME NEW t, Bears(t, ToSet(o.cols)), ~ HasColumn(t, c.name) PROVE Same(Altered(Altered(t, do), back), t)
  BY <1>2, AddColumnBack
<1> HIDE DEF do, back
<1>3. Restorable(Atom(do, back), p)
  BY <1>1, <1>2, ColumnRestorable
<1> QED
  BY <1>3 DEF do, back

LEMMA DropRestorable ==
  ASSUME NEW p, GoodModel(p), NEW o \in ToSet(p), NEW c \in ToSet(o.cols), ~ c.index, NEW nullable, NEW holds
  PROVE  Restorable(Atom(DropColumn(o.name, c.name), AddColumn(o.name, DbColumn(c, nullable, holds))), p)
<1> DEFINE do == DropColumn(o.name, c.name)
           back == AddColumn(o.name, DbColumn(c, nullable, holds))
<1>1. do.op = "dropcol" /\ do.table = o.name /\ back.op = "addcol" /\ back.table = o.name
  BY DEF AddColumn, DropColumn
<1>2. ASSUME NEW t, Bears(t, ToSet(o.cols)) PROVE Same(Altered(Altered(t, do), back), t)
  BY <1>2, DropColumnBack
<1> HIDE DEF do, back
<1>3. Restorable(Atom(do, back), p)
  BY <1>1, <1>2, ColumnRestorable
<1> QED
  BY <1>3 DEF do, back

\* A changed column, of new name without index or of the old name.
LEMMA ChangeRestorable ==
  ASSUME NEW p, GoodModel(p), NEW o \in ToSet(p), NEW b \in ToSet(o.cols), NEW new, NEW old,
         \A h : [new EXCEPT !.holds = h].name = new.name,
         \A h : [old EXCEPT !.holds = h].name = b.name /\ [old EXCEPT !.holds = h].type = b.type,
         old.name = b.name, new.name = b.name \/ ~ b.index
  PROVE  Restorable(Atom(ChangeColumn(o.name, b.name, new), ChangeColumn(o.name, new.name, old)), p)
<1> DEFINE do == ChangeColumn(o.name, b.name, new)
           back == ChangeColumn(o.name, new.name, old)
<1>1. /\ do.op = "change" /\ do.table = o.name /\ do.name = b.name /\ do.col = new
      /\ back.op = "change" /\ back.table = o.name
  BY DEF ChangeColumn
<1>2. ASSUME NEW t, Bears(t, ToSet(o.cols)), new.name # b.name => ~ HasColumn(t, new.name)
      PROVE  Same(Altered(Altered(t, do), back), t)
  BY <1>2, ChangeColumnBack
<1> HIDE DEF do, back
<1>3. Restorable(Atom(do, back), p)
  BY <1>1, <1>2, ColumnRestorable
<1> QED
  BY <1>3 DEF do, back

-----------------------------------------------------------------------------
(* The first atom of a list *)

FirstOK(s, p) == s # <<>> => Restorable(s[1], p)

LEMMA FirstFacts ==
  ASSUME NEW p
  PROVE  /\ FirstOK(<<>>, p)
         /\ \A a : Restorable(a, p) => FirstOK(<<a>>, p)
         /\ \A x, a : (x => Restorable(a, p)) => FirstOK(When(x, a), p)
         /\ \A x, a : When(x, a) = <<>> => ~ x
<1>1. \A a : <<a>> # <<>> /\ <<a>>[1] = a
  OBVIOUS
<1> QED
  BY <1>1 DEF FirstOK, When

LEMMA FirstConcat ==
  ASSUME NEW p, NEW s, NEW t, IsSeq(s), IsSeq(t), FirstOK(s, p), s = <<>> => FirstOK(t, p)
  PROVE  FirstOK(s \o t, p) /\ (s \o t = <<>> => s = <<>> /\ t = <<>>)
<1>1. /\ Len(s) \in Nat /\ Len(t) \in Nat /\ IsSeq(s \o t) /\ Len(s \o t) = Len(s) + Len(t)
      /\ \A i \in 1..(Len(s) + Len(t)) : (s \o t)[i] = IF i <= Len(s) THEN s[i] ELSE t[i - Len(s)]
  <2>1. s \in Seq(ToSet(s) \cup ToSet(t)) /\ t \in Seq(ToSet(s) \cup ToSet(t))
    BY SeqMonotonic DEF IsSeq
  <2> QED
    BY <2>1, ConcatProperties, LenProperties, ConcatFacts
<1>2. \A x : IsSeq(x) => (x = <<>> <=> Len(x) = 0)
  BY EmptySeq DEF IsSeq
<1>3. ASSUME s # <<>> PROVE s \o t # <<>> /\ FirstOK(s \o t, p)
  <2>1. Len(s) > 0 /\ (s \o t)[1] = s[1]
    BY <1>1, <1>2, <1>3
  <2> QED
    BY <1>1, <1>2, <1>3, <2>1 DEF FirstOK
<1>4. ASSUME s = <<>>, t # <<>> PROVE s \o t # <<>> /\ FirstOK(s \o t, p)
  <2>1. Len(t) > 0 /\ Len(s) = 0 /\ (s \o t)[1] = t[1]
    BY <1>1, <1>2, <1>4
  <2> QED
    BY <1>1, <1>2, <1>4, <2>1 DEF FirstOK
<1>5. ASSUME s = <<>>, t = <<>> PROVE FirstOK(s \o t, p)
  <2>1. Len(s \o t) = 0
    BY <1>1, <1>2, <1>5
  <2> QED
    BY <1>1, <1>2, <2>1 DEF FirstOK
<1> QED
  BY <1>3, <1>4, <1>5

LEMMA FirstFlatten ==
  ASSUME NEW p, NEW n \in Nat, NEW ss, ss = [i \in 1..n |-> ss[i]],
         \A i \in 1..n : IsSeq(ss[i]) /\ FirstOK(ss[i], p)
  PROVE  FirstOK(FlattenSeq(ss), p)
<1>1. PICK g : Built(g, n, ss)
  BY FlattenSteps
<1>2. /\ g[0] = <<>> /\ g[n] = FlattenSeq(ss)
      /\ \A k \in 0..n : IsSeq(g[k])
      /\ \A k \in 0..(n - 1) : g[k + 1] = g[k] \o ss[k + 1]
  BY <1>1 DEF Built
<1> DEFINE T == { k \in 0..n : FirstOK(g[k], p) }
<1>3. 0 \in T
  BY <1>2, FirstFacts
<1>4. ASSUME NEW k \in 0..(n - 1), k \in T PROVE k + 1 \in T
  <2>1. k + 1 \in 1..n /\ k + 1 \in 0..n /\ k \in 0..n
    OBVIOUS
  <2>2. FirstOK(g[k], p) /\ IsSeq(g[k]) /\ IsSeq(ss[k + 1]) /\ FirstOK(ss[k + 1], p)
    BY <1>2, <1>4, <2>1
  <2>3. FirstOK(g[k] \o ss[k + 1], p)
    BY <2>2, FirstConcat
  <2> QED
    BY <1>2, <2>1, <2>3
<1>5. n \in T
  <2> HIDE DEF T
  <2> QED
    BY <1>3, <1>4, Induction
<1> QED
  BY <1>2, <1>5

LEMMA FirstDelete ==
  ASSUME NEW p, GoodModel(p), NEW o \in ToSet(p), NEW c \in ToSet(o.cols)
  PROVE  FirstOK(deleteColumnAtoms(o.name, c), p)
<1> DEFINE a == Atom(DropIndex(o.name, c), CreateIndex(o.name, c))
           b == Atom(DropColumn(o.name, c.name), AddColumn(o.name, DbColumn(c, TRUE, Lost)))
<1>1. c.index => Restorable(a, p)
  BY IndexRestorable, Zenon
<1>2. ~ c.index => Restorable(b, p)
  BY DropRestorable, Zenon
<1>3. deleteColumnAtoms(o.name, c) = When(c.index, a) \o <<b>>
  BY DEF deleteColumnAtoms
<1> HIDE DEF a, b
<1> DEFINE A == When(c.index, a)
           B == <<b>>
<1>4. IsSeq(A) /\ IsSeq(B) /\ FirstOK(A, p)
  BY <1>1, AtomSeqs, FirstFacts, Zenon
<1>5. A = <<>> => FirstOK(B, p)
  BY <1>2, FirstFacts, Zenon
<1> HIDE DEF A, B
<1>6. FirstOK(A \o B, p)
  BY <1>4, <1>5, FirstConcat
<1> QED
  BY <1>3, <1>6 DEF A, B

LEMMA FirstAdd ==
  ASSUME NEW p, GoodModel(p), NEW o \in ToSet(p), NEW c
  PROVE  FirstOK(addColumnAtoms(o.name, c), p)
<1> DEFINE a == Atom(AddColumn(o.name, DbColumn(c, c.nullable, c.uuid)), DropColumn(o.name, c.name))
           b == Atom(CreateIndex(o.name, c), DropIndex(o.name, c))
           A == <<a>>
           B == When(c.index, b)
<1>1. Restorable(a, p) /\ Restorable(b, p)
  BY AddRestorable, IndexRestorable
<1>2. addColumnAtoms(o.name, c) = A \o B
  BY DEF addColumnAtoms
<1> HIDE DEF a, b
<1>3. IsSeq(A) /\ IsSeq(B) /\ FirstOK(A, p) /\ FirstOK(B, p)
  BY <1>1, AtomSeqs, FirstFacts, Zenon
<1> HIDE DEF A, B
<1>4. FirstOK(A \o B, p)
  BY <1>3, FirstConcat
<1> QED
  BY <1>2, <1>4

LEMMA FirstModify ==
  ASSUME NEW p, GoodModel(p), NEW o \in ToSet(p), NEW b \in ToSet(o.cols), NEW c
  PROVE  FirstOK(modifyColumnAtoms(o.name, b, c), p)
<1> DEFINE T == o.name
           i == Atom(DropIndex(T, b), CreateIndex(T, b))
           new == DbColumn(c, TRUE, c.uuid)
           old == DbColumn(b, TRUE, b.uuid)
           q == Atom(ChangeColumn(T, b.name, new), ChangeColumn(T, c.name, old))
           new2 == DbColumn(c, c.nullable, c.uuid)
           old2 == [DbColumn(b, ~ c.nullable, b.uuid) EXCEPT !.name = c.name]
           r == Atom(ChangeColumn(T, c.name, new2), ChangeColumn(T, c.name, old2))
           s == Atom(CreateIndex(T, c), DropIndex(T, c))
           P == When(b.index, i)
           Q == When(Differs(b, c), q)
           R == When(b.nullable # c.nullable, r)
           S == When(c.index, s)
<1>1. modifyColumnAtoms(T, b, c) = P \o Q \o R \o S
  BY Zenon DEF modifyColumnAtoms, Differs
<1>2. (b.index => Restorable(i, p)) /\ Restorable(s, p)
  BY IndexRestorable, Zenon
<1>3. ASSUME ~ b.index PROVE Restorable(q, p)
  <2>1. /\ new.name = c.name /\ old.name = b.name
        /\ \A h : [new EXCEPT !.holds = h].name = new.name
        /\ \A h : [old EXCEPT !.holds = h].name = b.name /\ [old EXCEPT !.holds = h].type = b.type
    BY DEF DbColumn
  <2> HIDE DEF new, old
  <2>2. Restorable(Atom(ChangeColumn(T, b.name, new), ChangeColumn(T, new.name, old)), p)
    BY <1>3, <2>1, ChangeRestorable
  <2> QED
    BY <2>1, <2>2
<1>4. ASSUME ~ Differs(b, c) PROVE Restorable(r, p)
  <2>1. b.name = c.name /\ b.type = c.type
    BY <1>4 DEF Differs
  <2>2. /\ new2.name = b.name /\ old2.name = b.name
        /\ \A h : [new2 EXCEPT !.holds = h].name = new2.name
        /\ \A h : [old2 EXCEPT !.holds = h].name = b.name /\ [old2 EXCEPT !.holds = h].type = b.type
    BY <2>1 DEF DbColumn
  <2> HIDE DEF new2, old2
  <2>3. Restorable(Atom(ChangeColumn(T, b.name, new2), ChangeColumn(T, new2.name, old2)), p)
    BY <2>2, ChangeRestorable
  <2> QED
    BY <2>1, <2>2, <2>3
<1> HIDE DEF i, q, r, s
<1>5. IsSeq(P) /\ IsSeq(Q) /\ IsSeq(R) /\ IsSeq(S)
  BY AtomSeqs
<1>6. FirstOK(P, p) /\ FirstOK(S, p)
  BY <1>2, FirstFacts, Zenon
<1>7. P = <<>> => FirstOK(Q, p)
  BY <1>3, FirstFacts, Zenon
<1>8. Q = <<>> => FirstOK(R, p)
  BY <1>4, FirstFacts, Zenon
<1> HIDE DEF P, Q, R, S
<1>9. FirstOK(P \o Q, p) /\ (P \o Q = <<>> => Q = <<>>) /\ IsSeq(P \o Q)
  BY <1>5, <1>6, <1>7, FirstConcat, ConcatFacts
<1>10. FirstOK(P \o Q \o R, p) /\ IsSeq(P \o Q \o R)
  BY <1>5, <1>8, <1>9, FirstConcat, ConcatFacts
<1>11. FirstOK(P \o Q \o R \o S, p)
  BY <1>5, <1>6, <1>10, FirstConcat
<1> QED
  BY <1>1, <1>11

\* The first atom of a table that keeps its name, and of one that is renamed.
LEMMA FirstOfTable ==
  ASSUME NEW p, GoodModel(p), NEW o \in ToSet(p), NEW n, WellFormed(n), n.name \in TableNames
  PROVE  FirstOK(BuildModifyTableAtoms(o, n), p)
<1> DEFINE a == Atom(RenameTable(o.name, n.name), RenameTable(n.name, o.name))
           R == When(o.name # n.name, a)
           D == ForEach(DeleteColumns(o, n), LAMBDA c : deleteColumnAtoms(n.name, c))
           A == ForEach(AddColumns(o, n), LAMBDA c : addColumnAtoms(n.name, c))
           M == ForEach(ModifyColumns(o, n), LAMBDA c : modifyColumnAtoms(n.name, findColumn(c.uuid, o.cols), c))
<1>0. WellFormed(o) /\ o.name \in TableNames
  BY DEF GoodModel
<1>1. BuildModifyTableAtoms(o, n) = R \o D \o A \o M /\ ColumnAtoms(o, n, D, A, M)
  BY DEF BuildModifyTableAtoms, ColumnAtoms
<1>2. o.name # n.name => Restorable(a, p)
  BY <1>0, RenamedRestorable
<1> HIDE DEF a
<1>3. FirstOK(R, p) /\ IsSeq(R) /\ (R = <<>> => o.name = n.name)
  BY <1>2, FirstFacts, AtomSeqs, Zenon
<1> HIDE DEF R
<1>4. ASSUME o.name = n.name PROVE FirstOK(D, p) /\ FirstOK(A, p) /\ FirstOK(M, p)
  <2>1. /\ Lists(DeleteColumns(o, n), Only(o.cols, n.cols))
        /\ Lists(AddColumns(o, n), Only(n.cols, o.cols))
        /\ Lists(ModifyColumns(o, n), Other(o, n))
    BY <1>0, ColumnsPicked DEF WellFormed
  <2>2. FirstOK(D, p)
    <3> DEFINE s == DeleteColumns(o, n)
               ss == [i \in 1..Len(s) |-> deleteColumnAtoms(n.name, s[i])]
    <3>1. DOMAIN s = 1..Len(s) /\ Len(s) \in Nat /\ \A i \in 1..Len(s) : s[i] \in ToSet(o.cols)
      BY <2>1, SeqFacts DEF Lists, Only
    <3>2. D = FlattenSeq(ss)
      BY <3>1 DEF ForEach
    <3>3. \A i \in 1..Len(s) : IsSeq(ss[i]) /\ FirstOK(ss[i], p)
      BY <1>4, <3>1, FirstDelete, AtomSeqs
    <3>4. ss = [i \in 1..Len(s) |-> ss[i]]
      OBVIOUS
    <3> HIDE DEF ss, s
    <3> QED
      BY <3>1, <3>2, <3>3, <3>4, FirstFlatten
  <2>3. FirstOK(A, p)
    <3> DEFINE s == AddColumns(o, n)
               ss == [i \in 1..Len(s) |-> addColumnAtoms(n.name, s[i])]
    <3>1. DOMAIN s = 1..Len(s) /\ Len(s) \in Nat
      BY <2>1, SeqFacts DEF Lists
    <3>2. A = FlattenSeq(ss)
      BY <3>1 DEF ForEach
    <3>3. \A i \in 1..Len(s) : IsSeq(ss[i]) /\ FirstOK(ss[i], p)
      BY <1>4, <3>1, FirstAdd, AtomSeqs
    <3>4. ss = [i \in 1..Len(s) |-> ss[i]]
      OBVIOUS
    <3> HIDE DEF ss, s
    <3> QED
      BY <3>1, <3>2, <3>3, <3>4, FirstFlatten
  <2>4. FirstOK(M, p)
    <3> DEFINE s == ModifyColumns(o, n)
               ss == [i \in 1..Len(s) |-> modifyColumnAtoms(n.name, findColumn(s[i].uuid, o.cols), s[i])]
    <3>1. /\ DOMAIN s = 1..Len(s) /\ Len(s) \in Nat
          /\ \A i \in 1..Len(s) : findColumn(s[i].uuid, o.cols) \in ToSet(o.cols)
      <4>1. DOMAIN s = 1..Len(s) /\ Len(s) \in Nat /\ \A i \in 1..Len(s) : s[i].uuid \in Uuids(o.cols)
        BY <2>1, SeqFacts DEF Lists, Other
      <4>2. \A u : u \in Uuids(o.cols) => findColumn(u, o.cols) \in ToSet(o.cols)
        BY <1>0, FindFacts DEF WellFormed
      <4> QED
        BY <4>1, <4>2
    <3>2. M = FlattenSeq(ss)
      BY <3>1 DEF ForEach
    <3>3. \A i \in 1..Len(s) : IsSeq(ss[i]) /\ FirstOK(ss[i], p)
      BY <1>4, <3>1, FirstModify, AtomSeqs
    <3>4. ss = [i \in 1..Len(s) |-> ss[i]]
      OBVIOUS
    <3> HIDE DEF ss, s
    <3> QED
      BY <3>1, <3>2, <3>3, <3>4, FirstFlatten
  <2> QED
    BY <2>2, <2>3, <2>4
<1>5. IsSeq(D) /\ IsSeq(A) /\ IsSeq(M)
  BY <1>0, <1>1, ColumnAtomsSeq DEF WellFormed
<1> HIDE DEF D, A, M
<1>6. FirstOK(R \o D, p) /\ (R \o D = <<>> => R = <<>>) /\ IsSeq(R \o D)
  BY <1>3, <1>4, <1>5, FirstConcat, ConcatFacts
<1>7. FirstOK(R \o D \o A, p) /\ (R \o D \o A = <<>> => R = <<>>) /\ IsSeq(R \o D \o A)
  BY <1>3, <1>4, <1>5, <1>6, FirstConcat, ConcatFacts
<1>8. FirstOK(R \o D \o A \o M, p)
  BY <1>3, <1>4, <1>5, <1>7, FirstConcat
<1> QED
  BY <1>1, <1>8

-----------------------------------------------------------------------------
(* The atoms of a plan *)

Overlap(s, t) == Touches(s) \cap Touches(t) # {}

\* Each atom takes back what it does to the published schema, or its undo
\* statement shares a table with that of an earlier atom.
Sound(s, p) ==
  \A k \in 1..Len(s) : Restorable(s[k], p) \/ \E j \in 1..(k - 1) : Overlap(s[j].undo, s[k].undo)

LEMMA SoundShort ==
  ASSUME NEW p
  PROVE  Sound(<<>>, p) /\ \A a : Restorable(a, p) => Sound(<<a>>, p)
<1>1. Sound(<<>>, p)
  BY DEF Sound
<1>2. \A a : Len(<<a>>) = 1 /\ <<a>>[1] = a
  OBVIOUS
<1>3. ASSUME NEW a, Restorable(a, p) PROVE Sound(<<a>>, p)
  <2>1. \A k \in 1..Len(<<a>>) : <<a>>[k] = a
    BY <1>2
  <2> QED
    BY <1>3, <2>1 DEF Sound
<1> QED
  BY <1>1, <1>3

LEMMA SoundConcat ==
  ASSUME NEW p, NEW s, NEW t, IsSeq(s), IsSeq(t), Sound(s, p), Sound(t, p)
  PROVE  Sound(s \o t, p)
<1> DEFINE v == s \o t
<1>1. /\ Len(s) \in Nat /\ Len(t) \in Nat /\ Len(v) = Len(s) + Len(t)
      /\ \A i \in 1..(Len(s) + Len(t)) : v[i] = IF i <= Len(s) THEN s[i] ELSE t[i - Len(s)]
  <2>1. s \in Seq(ToSet(s) \cup ToSet(t)) /\ t \in Seq(ToSet(s) \cup ToSet(t))
    BY SeqMonotonic DEF IsSeq
  <2> QED
    BY <2>1, ConcatProperties, LenProperties
<1> HIDE DEF v
<1>2. ASSUME NEW k \in 1..Len(v), k <= Len(s)
      PROVE  Restorable(v[k], p) \/ \E j \in 1..(k - 1) : Overlap(v[j].undo, v[k].undo)
  <2>1. k \in 1..Len(s) /\ v[k] = s[k] /\ \A j \in 1..(k - 1) : v[j] = s[j]
    BY <1>1, <1>2
  <2> QED
    BY <2>1 DEF Sound
<1>3. ASSUME NEW k \in 1..Len(v), ~ (k <= Len(s))
      PROVE  Restorable(v[k], p) \/ \E j \in 1..(k - 1) : Overlap(v[j].undo, v[k].undo)
  <2> DEFINE i == k - Len(s)
  <2>1. i \in 1..Len(t) /\ v[k] = t[i]
    BY <1>1, <1>3
  <2>2. ASSUME NEW j \in 1..(i - 1) PROVE j + Len(s) \in 1..(k - 1) /\ v[j + Len(s)] = t[j]
    <3>1. j + Len(s) \in 1..(Len(s) + Len(t)) /\ ~ (j + Len(s) <= Len(s)) /\ (j + Len(s)) - Len(s) = j
      BY <1>1, <2>1
    <3>2. v[j + Len(s)] = t[j]
      BY <1>1, <3>1
    <3> QED
      BY <1>1, <3>1, <3>2
  <2> HIDE DEF i
  <2> QED
    BY <2>1, <2>2 DEF Sound
<1> QED
  BY <1>2, <1>3 DEF Sound, v

LEMMA SoundFlatten ==
  ASSUME NEW p, NEW n \in Nat, NEW ss, ss = [i \in 1..n |-> ss[i]],
         \A i \in 1..n : IsSeq(ss[i]) /\ Sound(ss[i], p)
  PROVE  Sound(FlattenSeq(ss), p)
<1>1. PICK g : Built(g, n, ss)
  BY FlattenSteps
<1>2. /\ g[0] = <<>> /\ g[n] = FlattenSeq(ss)
      /\ \A k \in 0..n : IsSeq(g[k])
      /\ \A k \in 0..(n - 1) : g[k + 1] = g[k] \o ss[k + 1]
  BY <1>1 DEF Built
<1> DEFINE T == { k \in 0..n : Sound(g[k], p) }
<1>3. 0 \in T
  BY <1>2, SoundShort
<1>4. ASSUME NEW k \in 0..(n - 1), k \in T PROVE k + 1 \in T
  <2>1. k + 1 \in 1..n /\ k + 1 \in 0..n /\ k \in 0..n
    OBVIOUS
  <2>2. Sound(g[k], p) /\ IsSeq(g[k]) /\ IsSeq(ss[k + 1]) /\ Sound(ss[k + 1], p)
    BY <1>2, <1>4, <2>1
  <2>3. Sound(g[k] \o ss[k + 1], p)
    BY <2>2, SoundConcat
  <2> QED
    BY <1>2, <2>1, <2>3
<1>5. n \in T
  <2> HIDE DEF T
  <2> QED
    BY <1>3, <1>4, Induction
<1> QED
  BY <1>2, <1>5

\* The atoms of a modified table all work on the table of its new name.
LEMMA SoundTable ==
  ASSUME NEW p, GoodModel(p), NEW o \in ToSet(p), NEW n, WellFormed(n), n.name \in TableNames
  PROVE  Sound(BuildModifyTableAtoms(o, n), p)
<1> DEFINE s == BuildModifyTableAtoms(o, n)
<1>1. IsSeq(s) /\ \A a \in ToSet(s) : n.name \in Touches(a.undo)
  BY ModifyWithin DEF GoodModel, WellFormed, Within, Works
<1>2. FirstOK(s, p)
  BY FirstOfTable
<1> HIDE DEF s
<1>3. Len(s) \in Nat /\ \A k \in 1..Len(s) : s[k] \in ToSet(s)
  BY <1>1, SeqFacts
<1>4. ASSUME NEW k \in 1..Len(s)
      PROVE  Restorable(s[k], p) \/ \E j \in 1..(k - 1) : Overlap(s[j].undo, s[k].undo)
  <2>1. CASE k = 1
    <3>1. s # <<>>
      BY <1>3, <2>1
    <3> QED
      BY <1>2, <2>1, <3>1 DEF FirstOK
  <2>2. CASE k # 1
    <3>1. 1 \in 1..(k - 1) /\ 1 \in 1..Len(s)
      BY <1>3, <2>2
    <3>2. Overlap(s[1].undo, s[k].undo)
      BY <1>1, <1>3, <3>1 DEF Overlap
    <3> QED
      BY <3>1, <3>2
  <2> QED
    BY <2>1, <2>2
<1>5. Sound(s, p)
  BY <1>4 DEF Sound
<1> QED
  BY <1>5 DEF s

LEMMA SoundPlan ==
  ASSUME NEW p, NEW m, GoodModel(p), GoodModel(m)
  PROVE  Sound(MigrationPlan(p, m), p)
<1> DEFINE D == ForEach(DeletedTables(p, m),
                        LAMBDA t : << Atom(BuildDeleteTableSQL(t), BuildCreateTableSQL(t, FALSE)) >>)
           A == ForEach(AddedTables(p, m),
                        LAMBDA t : << Atom(BuildCreateTableSQL(t, TRUE), BuildDeleteTableSQL(t)) >>)
           M == ForEach(ModifiedTables(p, m),
                        LAMBDA t : BuildModifyTableAtoms(findTable(t.uuid, p), t))
<1>1. MigrationPlan(p, m) = D \o A \o M /\ PlanParts(p, m, D, A, M)
  BY Zenon DEF MigrationPlan, PlanParts
<1>2. /\ Lists(DeletedTables(p, m), Only(p, m)) /\ Lists(AddedTables(p, m), Only(m, p))
      /\ Lists(ModifiedTables(p, m), OtherTables(p, m))
  BY TablesPicked
<1>3. Sound(D, p)
  <2> DEFINE s == DeletedTables(p, m)
             ss == [i \in 1..Len(s) |-> << Atom(BuildDeleteTableSQL(s[i]), BuildCreateTableSQL(s[i], FALSE)) >>]
  <2>1. DOMAIN s = 1..Len(s) /\ Len(s) \in Nat /\ \A i \in 1..Len(s) : s[i] \in ToSet(p)
    BY <1>2, SeqFacts DEF Lists, Only
  <2>2. D = FlattenSeq(ss)
    BY <2>1 DEF ForEach
  <2>3. \A i \in 1..Len(s) : IsSeq(ss[i]) /\ Sound(ss[i], p)
    BY <2>1, DroppedRestorable, SoundShort, AtomSeqs
  <2>4. ss = [i \in 1..Len(s) |-> ss[i]]
    OBVIOUS
  <2> HIDE DEF ss, s
  <2> QED
    BY <2>1, <2>2, <2>3, <2>4, SoundFlatten, Zenon
<1>4. Sound(A, p)
  <2> DEFINE s == AddedTables(p, m)
             ss == [i \in 1..Len(s) |-> << Atom(BuildCreateTableSQL(s[i], TRUE), BuildDeleteTableSQL(s[i])) >>]
  <2>1. DOMAIN s = 1..Len(s) /\ Len(s) \in Nat /\ \A i \in 1..Len(s) : s[i].name \in TableNames
    BY <1>2, SeqFacts DEF Lists, Only, GoodModel
  <2>2. A = FlattenSeq(ss)
    BY <2>1 DEF ForEach
  <2>3. \A i \in 1..Len(s) : IsSeq(ss[i]) /\ Sound(ss[i], p)
    BY <2>1, AddedRestorable, SoundShort, AtomSeqs
  <2>4. ss = [i \in 1..Len(s) |-> ss[i]]
    OBVIOUS
  <2> HIDE DEF ss, s
  <2> QED
    BY <2>1, <2>2, <2>3, <2>4, SoundFlatten, Zenon
<1>5. Sound(M, p)
  <2> DEFINE s == ModifiedTables(p, m)
             ss == [i \in 1..Len(s) |-> BuildModifyTableAtoms(findTable(s[i].uuid, p), s[i])]
  <2>1. /\ DOMAIN s = 1..Len(s) /\ Len(s) \in Nat
        /\ \A i \in 1..Len(s) : s[i] \in OtherTables(p, m)
    BY <1>2, SeqFacts DEF Lists
  <2>2. M = FlattenSeq(ss)
    BY <2>1 DEF ForEach
  <2>3. ASSUME NEW i \in 1..Len(s) PROVE IsSeq(ss[i]) /\ Sound(ss[i], p)
    <3>1. /\ findTable(s[i].uuid, p) \in ToSet(p)
          /\ WellFormed(findTable(s[i].uuid, p)) /\ WellFormed(s[i]) /\ s[i].name \in TableNames
      BY <2>1, FindTables
    <3> QED
      BY <3>1, SoundTable, ModifyIsSeq
  <2>4. ss = [i \in 1..Len(s) |-> ss[i]]
    OBVIOUS
  <2> HIDE DEF ss, s
  <2> QED
    BY <2>1, <2>2, <2>3, <2>4, SoundFlatten
<1>6. IsSeq(D) /\ IsSeq(A) /\ IsSeq(M)
  BY <1>1, PlanPartsSeq, Zenon
<1> HIDE DEF D, A, M
<1>7. IsSeq(D \o A) /\ Sound(D \o A, p)
  BY <1>3, <1>4, <1>6, ConcatFacts, SoundConcat
<1>8. Sound(D \o A \o M, p)
  BY <1>5, <1>6, <1>7, SoundConcat
<1> QED
  BY <1>1, <1>8

-----------------------------------------------------------------------------
(* How much of the schema has been restored *)

\* A statement sees and changes only the tables it touches.
LEMMA SameThere ==
  ASSUME NEW d, NEW e, DOMAIN d = DOMAIN e, NEW s, Touches(s) \subseteq DOMAIN d, \A n \in Touches(s) : d[n] = e[n]
  PROVE  /\ Accepts(d, s) <=> Accepts(e, s)
         /\ \A n \in Touches(s) : Execute(d, s)[n] = Execute(e, s)[n]
<1>1. s.table \in Touches(s) /\ (s.op = "rename" => s.to \in Touches(s))
  BY DEF Touches
<1>2. d[s.table] = e[s.table] /\ (s.op = "rename" => d[s.to] = e[s.to])
  BY <1>1
<1>3. Accepts(d, s) <=> Accepts(e, s)
  BY <1>2, Zenon DEF Accepts
<1>4. \A n \in Touches(s) : Execute(d, s)[n] = Execute(e, s)[n]
  BY <1>2 DEF Execute
<1> QED
  BY <1>3, <1>4

LEMMA RestoresThere ==
  ASSUME NEW b, NEW d, NEW e, DOMAIN d = DOMAIN e, NEW s, Touches(s) \subseteq DOMAIN d,
         \A n \in Touches(s) : d[n] = e[n], Restores(b, d, s)
  PROVE  Restores(b, e, s)
BY SameThere DEF Restores

\* No two statements of the list share a table.
Apart(u) == \A i, j \in 1..Len(u) : i < j => ~ Overlap(u[i], u[j])

\* Of the undo statements u, for a publish that began with schema b, the first
\* k have been executed and given their tables back; the others will.
Restored(b, d, u, k) ==
  /\ DOMAIN d = DOMAIN b
  /\ \A i \in 1..Len(u) : Touches(u[i]) \subseteq DOMAIN b
  /\ \A n \in DOMAIN b : (\A i \in 1..Len(u) : n \notin Touches(u[i])) => d[n] = b[n]
  /\ \A i \in 1..k : \A n \in Touches(u[i]) : Same(d[n], b[n])
  /\ \A i \in (k + 1)..Len(u) : Restores(b, d, u[i])

LEMMA RestoredExecute ==
  ASSUME NEW b, NEW d, NEW u, IsSeq(u), Restored(b, d, u, 0), NEW a, TakesBack(a, b),
         Touches(a.undo) = Touches(a.do), Touches(a.do) \subseteq DOMAIN b, Accepts(d, a.do),
         NEW v, v = Append(u, a.undo), Apart(v)
  PROVE  Restored(b, Execute(d, a.do), v, 0)
<1> DEFINE e == Execute(d, a.do)
           f == Execute(b, a.do)
<1>1. /\ Len(u) \in Nat /\ Len(v) = Len(u) + 1 /\ v[Len(v)] = a.undo
      /\ \A i \in 1..Len(u) : v[i] = u[i]
  <2>1. u \in Seq(ToSet(u) \cup {a.undo})
    BY SeqMonotonic DEF IsSeq
  <2> QED
    BY <2>1, AppendProperties, LenProperties
<1>2. /\ DOMAIN d = DOMAIN b /\ \A i \in 1..Len(u) : Touches(u[i]) \subseteq DOMAIN b /\ Restores(b, d, u[i])
      /\ \A n \in DOMAIN b : (\A i \in 1..Len(u) : n \notin Touches(u[i])) => d[n] = b[n]
  BY <1>1 DEF Restored
<1>3. \A i \in 1..Len(u) : Touches(u[i]) \cap Touches(a.do) = {}
  BY <1>1 DEF Apart, Overlap
<1>4. DOMAIN e = DOMAIN b /\ \A n \in DOMAIN b : n \notin Touches(a.do) => e[n] = d[n]
  BY <1>2, ExecuteFrame
<1>5. DOMAIN f = DOMAIN b
  BY ExecuteFrame
<1>6. \A n \in Touches(a.do) : d[n] = b[n]
  BY <1>2, <1>3
<1>7. Accepts(b, a.do) /\ \A n \in Touches(a.do) : e[n] = f[n]
  BY <1>2, <1>6, SameThere
<1>8. Restores(b, f, a.undo)
  BY <1>7 DEF TakesBack
<1> HIDE DEF e, f
<1>9. Restores(b, e, a.undo)
  BY <1>4, <1>5, <1>7, <1>8, RestoresThere
<1>10. ASSUME NEW i \in 1..Len(u) PROVE Restores(b, e, u[i])
  <2>1. \A n \in Touches(u[i]) : d[n] = e[n]
    BY <1>2, <1>3, <1>4
  <2>2. Restores(b, d, u[i]) /\ Touches(u[i]) \subseteq DOMAIN d /\ DOMAIN d = DOMAIN e
    BY <1>2, <1>4
  <2> QED
    BY <2>1, <2>2, RestoresThere
<1>11. \A i \in 1..Len(v) : Restores(b, e, v[i]) /\ Touches(v[i]) \subseteq DOMAIN b
  <2>1. \A i \in 1..Len(v) : i = Len(v) \/ i \in 1..Len(u)
    BY <1>1
  <2> QED
    BY <1>1, <1>2, <1>9, <1>10, <2>1
<1>12. \A n \in DOMAIN b : (\A i \in 1..Len(v) : n \notin Touches(v[i])) => e[n] = b[n]
  <2>1. ASSUME NEW n \in DOMAIN b, \A i \in 1..Len(v) : n \notin Touches(v[i]) PROVE e[n] = b[n]
    <3>1. n \notin Touches(a.do)
      BY <1>1, <2>1
    <3>2. \A i \in 1..Len(u) : i \in 1..Len(v) /\ n \notin Touches(u[i])
      BY <1>1, <2>1
    <3> QED
      BY <1>2, <1>4, <3>1, <3>2
  <2> QED
    BY <2>1
<1>13. Restored(b, e, v, 0)
  BY <1>4, <1>11, <1>12 DEF Restored
<1> QED
  BY <1>13 DEF e

LEMMA RestoredUndo ==
  ASSUME NEW b, NEW d, NEW u, IsSeq(u), Apart(u), NEW k \in 0..(Len(u) - 1), Restored(b, d, u, k),
         NEW s, s = u[k + 1], Accepts(d, s)
  PROVE  Restored(b, Execute(d, s), u, k + 1)
<1> DEFINE e == Execute(d, s)
<1>1. Len(u) \in Nat /\ k + 1 \in 1..Len(u) /\ k + 1 \in (k + 1)..Len(u)
  BY SeqFacts
<1>2. /\ DOMAIN d = DOMAIN b /\ \A i \in 1..Len(u) : Touches(u[i]) \subseteq DOMAIN b
      /\ \A n \in DOMAIN b : (\A i \in 1..Len(u) : n \notin Touches(u[i])) => d[n] = b[n]
      /\ \A i \in 1..k : \A n \in Touches(u[i]) : Same(d[n], b[n])
      /\ \A i \in (k + 1)..Len(u) : Restores(b, d, u[i])
  BY DEF Restored
<1>3. \A i \in 1..Len(u) : i # k + 1 => Touches(u[i]) \cap Touches(s) = {}
  BY <1>1 DEF Apart, Overlap
<1>4. DOMAIN e = DOMAIN b /\ \A n \in DOMAIN b : n \notin Touches(s) => e[n] = d[n]
  BY <1>2, ExecuteFrame
<1>5. \A n \in Touches(s) : Same(e[n], b[n])
  BY <1>1, <1>2 DEF Restores
<1> HIDE DEF e
<1>6. \A i \in 1..Len(u) : i # k + 1 => \A n \in Touches(u[i]) : e[n] = d[n]
  BY <1>2, <1>3, <1>4
<1>7. \A i \in 1..(k + 1) : \A n \in Touches(u[i]) : Same(e[n], b[n])
  <2>1. ASSUME NEW i \in 1..(k + 1), NEW n \in Touches(u[i]) PROVE Same(e[n], b[n])
    <3>1. CASE i = k + 1
      BY <1>5, <2>1, <3>1
    <3>2. CASE i # k + 1
      <4>1. i \in 1..k /\ i \in 1..Len(u)
        BY <1>1, <3>2
      <4>2. e[n] = d[n] /\ Same(d[n], b[n])
        BY <1>2, <1>6, <2>1, <3>2, <4>1
      <4> QED
        BY <4>2
    <3> QED
      BY <3>1, <3>2
  <2> QED
    BY <2>1
<1>8. ASSUME NEW i \in ((k + 1) + 1)..Len(u) PROVE Restores(b, e, u[i])
  <2>1. i \in 1..Len(u) /\ i # k + 1 /\ i \in (k + 1)..Len(u)
    BY <1>1
  <2>2. /\ Restores(b, d, u[i]) /\ Touches(u[i]) \subseteq DOMAIN d /\ DOMAIN d = DOMAIN e
        /\ \A n \in Touches(u[i]) : d[n] = e[n]
    BY <1>2, <1>4, <1>6, <2>1
  <2> QED
    BY <2>2, RestoresThere
<1>9. \A n \in DOMAIN b : (\A i \in 1..Len(u) : n \notin Touches(u[i])) => e[n] = b[n]
  BY <1>1, <1>2, <1>4
<1>10. Restored(b, e, u, k + 1)
  BY <1>2, <1>4, <1>7, <1>8, <1>9 DEF Restored
<1> QED
  BY <1>10 DEF e

-----------------------------------------------------------------------------
(* The publish *)

\* Of the plan P, the first atoms have left their undo statements in done, and
\* the others are the rest.
Progress(P, rest, done) ==
  /\ Len(done) + Len(rest) = Len(P)
  /\ \A i \in 1..Len(done) : done[i] = P[i].undo
  /\ \A i \in 1..Len(rest) : rest[i] = P[Len(done) + i]

RollbackInv ==
  /\ phase = "executing" => undone = 0 /\ Progress(MigrationPlan(published, next), plan, undo)
  /\ phase = "rolledback" => undone = Len(undo)
  /\ phase \in {"executing", "rollback", "rolledback"} /\ ~ skipped /\ Apart(undo) /\ Realises(base, published)
       => Restored(base, db, undo, undone)

\* The lists of a publish, as sequences.
LEMMA ListsOfPublish ==
  ASSUME MigrationInv
  PROVE  /\ IsSeq(plan) /\ IsSeq(undo) /\ Len(undo) \in Nat /\ undone \in 0..Len(undo)
         /\ GoodModel(published) /\ GoodModel(next)
         /\ Realises(base, published) => Pub(base, published)
         /\ DOMAIN db = TableNames /\ DOMAIN base = TableNames
<1>1. IsSeq(plan) /\ IsSeq(undo)
  BY SeqFacts DEF MigrationInv, PlanInv
<1> QED
  BY <1>1, SeqFacts, ModelsAreGood DEF MigrationInv, TypeOK, Pub

LEMMA RollbackStart ==
  ASSUME MigrationInv, NEW m \in Models, StartPublish(m)
  PROVE  RollbackInv'
<1>1. /\ phase' = "executing" /\ undone' = 0 /\ undo' = <<>> /\ db' = db /\ base' = db
      /\ published' = published /\ next' = m /\ plan' = MigrationPlan(published, m)
  BY DEF StartPublish
<1>2. Len(<<>>) = 0
  OBVIOUS
<1>3. IsSeq(MigrationPlan(published, m)) /\ Len(MigrationPlan(published, m)) \in Nat
  BY PlanWithin, SeqFacts DEF MigrationInv, TypeOK, Within
<1>4. Progress(MigrationPlan(published, m), MigrationPlan(published, m), <<>>)
  <2> DEFINE P == MigrationPlan(published, m)
  <2> HIDE DEF P
  <2>1. Progress(P, P, <<>>)
    BY <1>2, <1>3 DEF Progress, P
  <2> QED
    BY <2>1 DEF P
<1>5. Restored(db, db, <<>>, 0)
  BY <1>2 DEF Restored
<1> QED
  BY <1>1, <1>4, <1>5, Zenon DEF RollbackInv

LEMMA RollbackExecute ==
  ASSUME MigrationInv, RollbackInv, ExecuteStatement
  PROVE  RollbackInv'
<1> DEFINE P == MigrationPlan(published, next)
           a == Head(plan)
<1>1. /\ phase = "executing" /\ phase' = phase /\ plan # <<>> /\ Accepts(db, a.do)
      /\ db' = Execute(db, a.do) /\ undo' = Append(undo, a.undo) /\ plan' = Tail(plan)
      /\ published' = published /\ next' = next /\ undone' = undone /\ base' = base /\ skipped' = skipped
  BY DEF ExecuteStatement
<1>2. /\ IsSeq(plan) /\ IsSeq(undo) /\ Len(undo) \in Nat /\ GoodModel(published) /\ GoodModel(next)
      /\ Realises(base, published) => Pub(base, published)
      /\ DOMAIN base = TableNames
  BY ListsOfPublish
<1>3. undone = 0 /\ Progress(P, plan, undo)
  BY <1>1 DEF RollbackInv
<1>4. Sound(P, published)
  BY <1>2, SoundPlan
<1>5. Works(a, {}, TableNames)
  <2>1. PICK A : /\ plan \in Seq(A)
                 /\ \A x \in A : Works(x, {}, Names(published) \cup Names(next))
    BY <1>1 DEF MigrationInv, PlanInv
  <2>2. a \in A
    BY <1>1, <2>1, HeadTailProperties
  <2>3. Names(published) \cup Names(next) \subseteq TableNames
    BY NamesAreTables DEF MigrationInv
  <2> QED
    BY <2>1, <2>2, <2>3 DEF Works
<1> HIDE DEF P
<1>6. /\ Len(plan) \in Nat /\ Len(plan) > 0 /\ a = plan[1]
      /\ Len(Tail(plan)) = Len(plan) - 1 /\ \A i \in 1..(Len(plan) - 1) : Tail(plan)[i] = plan[i + 1]
  BY <1>1, <1>2, HeadTailProperties, LenProperties, EmptySeq DEF IsSeq
<1>7. Len(undo') = Len(undo) + 1 /\ undo'[Len(undo) + 1] = a.undo /\ \A i \in 1..Len(undo) : undo'[i] = undo[i]
  <2>1. undo \in Seq(ToSet(undo) \cup {a.undo})
    BY <1>2, SeqMonotonic DEF IsSeq
  <2> QED
    BY <1>1, <2>1, AppendProperties
<1>8. a = P[Len(undo) + 1]
  BY <1>3, <1>6 DEF Progress
<1>9. Progress(P, plan', undo')
  <2>1. Len(undo') + Len(plan') = Len(P)
    BY <1>1, <1>2, <1>3, <1>6, <1>7 DEF Progress
  <2>2. ASSUME NEW i \in 1..Len(undo') PROVE undo'[i] = P[i].undo
    <3>1. i \in 1..Len(undo) \/ i = Len(undo) + 1
      BY <1>2, <1>7
    <3> QED
      BY <1>3, <1>7, <1>8, <3>1 DEF Progress
  <2>3. ASSUME NEW i \in 1..Len(plan') PROVE plan'[i] = P[Len(undo') + i]
    <3>1. i \in 1..(Len(plan) - 1) /\ i + 1 \in 1..Len(plan) /\ Len(undo) + (i + 1) = Len(undo') + i
      BY <1>1, <1>2, <1>6, <1>7
    <3>2. plan'[i] = plan[i + 1]
      BY <1>1, <1>6, <3>1
    <3> QED
      BY <1>3, <3>1, <3>2 DEF Progress
  <2> QED
    BY <2>1, <2>2, <2>3 DEF Progress
<1>10. ASSUME ~ skipped, Apart(undo'), Realises(base, published) PROVE Restored(base, db', undo', 0)
  <2>1. Apart(undo)
    BY <1>2, <1>7, <1>10 DEF Apart
  <2>2. Restored(base, db, undo, 0)
    BY <1>1, <1>3, <1>10, <2>1 DEF RollbackInv
  <2>3. Restorable(a, published)
    <3> DEFINE k == Len(undo) + 1
    <3>1. k \in 1..Len(P)
      BY <1>2, <1>3, <1>6 DEF Progress
    <3>2. ASSUME NEW j \in 1..(k - 1) PROVE ~ Overlap(P[j].undo, P[k].undo)
      <4>1. j \in 1..Len(undo) /\ j \in 1..Len(undo') /\ k \in 1..Len(undo') /\ j < k
        BY <1>2, <1>7
      <4>2. undo'[j] = P[j].undo /\ undo'[k] = P[k].undo
        BY <1>9, <4>1 DEF Progress
      <4> QED
        BY <1>10, <4>1, <4>2 DEF Apart
    <3>3. P[k] = a
      BY <1>8
    <3> HIDE DEF k
    <3> QED
      BY <1>4, <3>1, <3>2, <3>3 DEF Sound
  <2>4. TakesBack(a, base)
    BY <1>2, <1>10, <2>3 DEF Restorable
  <2>5. Touches(a.undo) = Touches(a.do) /\ Touches(a.do) \subseteq DOMAIN base
    BY <1>2, <1>5 DEF Works
  <2> HIDE DEF a
  <2> DEFINE v == undo'
             e == db'
  <2>6. v = Append(undo, a.undo) /\ Apart(v) /\ e = Execute(db, a.do)
    BY <1>1, <1>10
  <2> HIDE DEF v, e
  <2>7. Restored(base, e, v, 0)
    BY <1>1, <1>2, <2>2, <2>4, <2>5, <2>6, RestoredExecute
  <2> QED
    BY <2>7 DEF v, e
<1> QED
  BY <1>1, <1>3, <1>9, <1>10 DEF RollbackInv, P

LEMMA RollbackUndo ==
  ASSUME MigrationInv, RollbackInv, UndoStatement
  PROVE  RollbackInv'
<1>1. /\ phase = "rollback" /\ phase' = phase /\ undone < Len(undo) /\ undone' = undone + 1
      /\ Accepts(db, NextUndo) /\ db' = Execute(db, NextUndo)
      /\ published' = published /\ undo' = undo /\ base' = base /\ skipped' = skipped
  BY DEF UndoStatement
<1>2. IsSeq(undo) /\ Len(undo) \in Nat /\ undone \in 0..(Len(undo) - 1)
  BY <1>1, ListsOfPublish
<1>3. ASSUME ~ skipped, Apart(undo), Realises(base, published) PROVE Restored(base, db', undo, undone + 1)
  <2>1. Restored(base, db, undo, undone)
    BY <1>1, <1>3 DEF RollbackInv
  <2> DEFINE e == db'
  <2>2. e = Execute(db, NextUndo) /\ NextUndo = undo[undone + 1]
    BY <1>1 DEF NextUndo
  <2> HIDE DEF e
  <2>3. Restored(base, e, undo, undone + 1)
    BY <1>1, <1>2, <1>3, <2>1, <2>2, RestoredUndo
  <2> QED
    BY <2>3 DEF e
<1> QED
  BY <1>1, <1>3 DEF RollbackInv

\* The steps that execute nothing.
LEMMA RollbackQuiet ==
  ASSUME RollbackInv,
         StatementFails \/ UndoFails \/ RollbackEnds \/ PublishFails \/ MigrationEnds \/ SavePublished
           \/ Interrupted \/ UNCHANGED vars
  PROVE  RollbackInv'
<1> USE DEF RollbackInv
<1>1. CASE StatementFails
  BY <1>1 DEF StatementFails
<1>2. CASE UndoFails
  BY <1>2 DEF UndoFails
<1>3. CASE RollbackEnds
  BY <1>3 DEF RollbackEnds
<1>4. CASE PublishFails \/ MigrationEnds \/ SavePublished \/ Interrupted
  BY <1>4 DEF PublishFails, MigrationEnds, SavePublished, Interrupted
<1>5. CASE UNCHANGED vars
  BY <1>5 DEF vars
<1> QED
  BY <1>1, <1>2, <1>3, <1>4, <1>5

\* In every state, how much of the schema a publish has taken back, and that
\* the undo statements to come will give back the rest.
THEOREM RollbackInvariant == Spec => []RollbackInv
<1>1. Init => RollbackInv
  BY DEF Init, RollbackInv
<1>2. MigrationInv /\ RollbackInv /\ [Next]_vars => RollbackInv'
  BY RollbackStart, RollbackExecute, RollbackUndo, RollbackQuiet DEF Next, Finished
<1> QED
  BY <1>1, <1>2, MigrationInvariant, PTL DEF Spec

\* A rolled back publish has given the database its tables, columns and
\* indexes back, for any published and any next model, when every executed
\* statement worked on a table of its own and no undo statement was refused.
THEOREM RollbackGivesBack == Spec => []RollbackRestores
<1>1. MigrationInv /\ RollbackInv => RollbackRestores
  <2> SUFFICES ASSUME MigrationInv, RollbackInv, phase = "rolledback", ~ skipped, ~ Entangled,
                      Realises(base, published), NEW n \in TableNames
               PROVE  Same(db[n], base[n])
    BY DEF RollbackRestores, Same
  <2>1. IsSeq(undo) /\ DOMAIN undo = 1..Len(undo) /\ DOMAIN base = TableNames
    BY ListsOfPublish, SeqFacts
  <2>2. Apart(undo)
    BY <2>1 DEF Entangled, Apart, Overlap
  <2>3. Restored(base, db, undo, Len(undo))
    BY <2>2 DEF RollbackInv
  <2>4. CASE \E i \in 1..Len(undo) : n \in Touches(undo[i])
    BY <2>3, <2>4 DEF Restored
  <2>5. CASE \A i \in 1..Len(undo) : n \notin Touches(undo[i])
    <3>1. db[n] = base[n]
      BY <2>1, <2>3, <2>5 DEF Restored
    <3> QED
      BY <3>1 DEF Same
  <2> QED
    BY <2>4, <2>5
<1> QED
  BY <1>1, MigrationInvariant, RollbackInvariant, PTL
==============================================================================
