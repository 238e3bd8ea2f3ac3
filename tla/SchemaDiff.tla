----------------------------- MODULE SchemaDiff -----------------------------
(***************************************************************************)
(* What a publish does to the database schema, as a pure function of the   *)
(* published and the next model: model/diff.go decides which tables and    *)
(* columns differ, db/dialect/mysql/migration.go turns each difference     *)
(* into a list of atoms, a DDL statement with the statement that undoes    *)
(* it.  The second half is what MySQL does with such a statement.          *)
(*                                                                         *)
(* A model is a sequence of tables                                         *)
(*   [uuid, name, cols : Seq([uuid, name, type, unsigned, nullable,        *)
(*                            index])]                                     *)
(* in which "type" stands for everything ColumnTypeSQL looks at and        *)
(* columnDifferent compares (type and length) and "unsigned" for what      *)
(* ColumnTypeSQL looks at and columnDifferent does not compare.  Primary   *)
(* keys are left out: PKString is never assigned and the id column that    *)
(* carries the key keeps its name and type.                                *)
(***************************************************************************)
EXTENDS Naturals, Sequences, SequencesExt

(***************************************************************************)
(* The database: a function from table names to tables.  A table has a set *)
(* of columns [name, type, unsigned, nullable, holds] and a set of indexes *)
(* [index, col].  "holds" is the uuid of the attribute whose values the    *)
(* column stores, or Lost when a rolled back DROP brought the column back  *)
(* without its values.                                                     *)
(***************************************************************************)
Lost == "lost"
NoTable == [exists |-> FALSE, cols |-> {}, idx |-> {}]

DbColumn(c, nullable, holds) ==
  [name |-> c.name, type |-> c.type, unsigned |-> c.unsigned,
   nullable |-> nullable, holds |-> holds]

-----------------------------------------------------------------------------
(* The statements of the MySQL builder. *)

\* "fresh": the statement of a new table; in an undo the rows are gone.
BuildCreateTableSQL(t, fresh) ==
  [op |-> "create", table |-> t.name, names |-> [i \in DOMAIN t.cols |-> t.cols[i].name],
   body |-> [exists |-> TRUE,
             cols |-> { DbColumn(c, c.nullable, IF fresh THEN c.uuid ELSE Lost)
                        : c \in ToSet(t.cols) },
             idx |-> { [index |-> c.name, col |-> c.name]
                       : c \in { d \in ToSet(t.cols) : d.index } }]]

BuildDeleteTableSQL(t) == [op |-> "drop", table |-> t.name]

RenameTable(from, to) == [op |-> "rename", table |-> from, to |-> to]
AddColumn(table, col) == [op |-> "addcol", table |-> table, col |-> col]
DropColumn(table, name) == [op |-> "dropcol", table |-> table, name |-> name]
\* CHANGE COLUMN, and MODIFY when the name stays: a full new definition.
ChangeColumn(table, name, col) ==
  [op |-> "change", table |-> table, name |-> name, col |-> col]
CreateIndex(table, c) == [op |-> "addindex", table |-> table, index |-> c.name, name |-> c.name]
DropIndex(table, c) == [op |-> "dropindex", table |-> table, index |-> c.name]

-----------------------------------------------------------------------------
(* model/diff.go: tables and columns are matched by uuid. *)

When(condition, thing) == IF condition THEN <<thing>> ELSE <<>>
ForEach(things, seqOf(_)) == FlattenSeq([i \in DOMAIN things |-> seqOf(things[i])])

Uuids(things) == { things[i].uuid : i \in DOMAIN things }

findTable(uuid, tables) == CHOOSE t \in ToSet(tables) : t.uuid = uuid
findColumn(uuid, columns) == CHOOSE c \in ToSet(columns) : c.uuid = uuid

\* Mutant: a change of the index alone is not a difference.
columnDifferentNoIndex(o, n) == o.name # n.name \/ o.nullable # n.nullable \/ o.type # n.type

columnDifferent(o, n) ==
  \/ o.name # n.name
  \/ o.index # n.index
  \/ o.nullable # n.nullable
  \/ o.type # n.type

DeleteColumns(o, n) == ForEach(o.cols, LAMBDA c : When(c.uuid \notin Uuids(n.cols), c))
AddColumns(o, n) == ForEach(n.cols, LAMBDA c : When(c.uuid \notin Uuids(o.cols), c))
ModifyColumns(o, n) ==
  ForEach(n.cols, LAMBDA c : When(/\ c.uuid \in Uuids(o.cols)
                                  /\ columnDifferent(findColumn(c.uuid, o.cols), c), c))

tableDifferent(o, n) ==
  \/ o.name # n.name
  \/ DeleteColumns(o, n) # <<>>
  \/ AddColumns(o, n) # <<>>
  \/ ModifyColumns(o, n) # <<>>

DeletedTables(published, next) ==
  ForEach(published, LAMBDA t : When(t.uuid \notin Uuids(next), t))
AddedTables(published, next) ==
  ForEach(next, LAMBDA t : When(t.uuid \notin Uuids(published), t))
ModifiedTables(published, next) ==
  ForEach(next, LAMBDA t : When(/\ t.uuid \in Uuids(published)
                                /\ tableDifferent(findTable(t.uuid, published), t), t))

-----------------------------------------------------------------------------
(* db/dialect/mysql/migration.go: the atoms of a modified table.  Every    *)
(* statement after the rename, and its undo, names the NEW table.          *)

Atom(do, undo) == [do |-> do, undo |-> undo]

\* The undo of a dropped column has no NULL clause, so the column returns
\* nullable, and without its values.
deleteColumnAtoms(table, c) ==
  When(c.index, Atom(DropIndex(table, c), CreateIndex(table, c)))
  \o << Atom(DropColumn(table, c.name), AddColumn(table, DbColumn(c, TRUE, Lost))) >>

addColumnAtoms(table, c) ==
  << Atom(AddColumn(table, DbColumn(c, c.nullable, c.uuid)), DropColumn(table, c.name)) >>
  \o When(c.index, Atom(CreateIndex(table, c), DropIndex(table, c)))

\* Mutant: MODIFY states the nullability of the old column.
modifyColumnAtomsOldNull(table, o, n) ==
  When(o.index, Atom(DropIndex(table, o), CreateIndex(table, o)))
  \o When(o.name # n.name \/ o.type # n.type \/ o.unsigned # n.unsigned,
          Atom(ChangeColumn(table, o.name, DbColumn(n, TRUE, n.uuid)),
               ChangeColumn(table, n.name, DbColumn(o, TRUE, o.uuid))))
  \o When(o.nullable # n.nullable,
          Atom(ChangeColumn(table, n.name, DbColumn(n, o.nullable, n.uuid)),
               ChangeColumn(table, n.name,
                            [DbColumn(o, n.nullable, o.uuid) EXCEPT !.name = n.name])))
  \o When(n.index, Atom(CreateIndex(table, n), DropIndex(table, n)))

\* CHANGE COLUMN has no NULL clause either; MODIFY follows only when the two
\* models disagree about nullability.
modifyColumnAtoms(table, o, n) ==
  When(o.index, Atom(DropIndex(table, o), CreateIndex(table, o)))
  \o When(o.name # n.name \/ o.type # n.type \/ o.unsigned # n.unsigned,
          Atom(ChangeColumn(table, o.name, DbColumn(n, TRUE, n.uuid)),
               ChangeColumn(table, n.name, DbColumn(o, TRUE, o.uuid))))
  \o When(o.nullable # n.nullable,
          Atom(ChangeColumn(table, n.name, DbColumn(n, n.nullable, n.uuid)),
               ChangeColumn(table, n.name,
                            [DbColumn(o, ~n.nullable, o.uuid) EXCEPT !.name = n.name])))
  \o When(n.index, Atom(CreateIndex(table, n), DropIndex(table, n)))

BuildModifyTableAtoms(o, n) ==
  When(o.name # n.name, Atom(RenameTable(o.name, n.name), RenameTable(n.name, o.name)))
  \o ForEach(DeleteColumns(o, n), LAMBDA c : deleteColumnAtoms(n.name, c))
  \o ForEach(AddColumns(o, n), LAMBDA c : addColumnAtoms(n.name, c))
  \o ForEach(ModifyColumns(o, n),
             LAMBDA c : modifyColumnAtoms(n.name, findColumn(c.uuid, o.cols), c))

\* The statements Migrage executes, in its order: drops, creations, changes.
MigrationPlan(published, next) ==
  ForEach(DeletedTables(published, next),
          LAMBDA t : << Atom(BuildDeleteTableSQL(t), BuildCreateTableSQL(t, FALSE)) >>)
  \o ForEach(AddedTables(published, next),
             LAMBDA t : << Atom(BuildCreateTableSQL(t, TRUE), BuildDeleteTableSQL(t)) >>)
  \o ForEach(ModifiedTables(published, next),
             LAMBDA t : BuildModifyTableAtoms(findTable(t.uuid, published), t))

-----------------------------------------------------------------------------
(* MySQL: each statement is atomic, commits by itself, and is refused when *)
(* what it names is missing or already there.                              *)

HasColumn(table, name) == \E c \in table.cols : c.name = name
HasIndex(table, name) == \E x \in table.idx : x.index = name

Accepts(db, s) ==
  LET t == db[s.table] IN
  /\ t.exists <=> (s.op # "create")
  /\ s.op = "create" => \A i, j \in DOMAIN s.names : s.names[i] = s.names[j] => i = j
  /\ s.op = "rename" => ~ db[s.to].exists
  /\ s.op = "addcol" => ~ HasColumn(t, s.col.name)
  /\ s.op = "dropcol" => HasColumn(t, s.name)
  /\ s.op = "change" => /\ HasColumn(t, s.name)
                        /\ s.col.name # s.name => ~ HasColumn(t, s.col.name)
  /\ s.op = "addindex" => HasColumn(t, s.name) /\ ~ HasIndex(t, s.index)
  /\ s.op = "dropindex" => HasIndex(t, s.index)

\* A changed column keeps its values and its indexes follow it.
Changed(t, s) ==
  LET old == CHOOSE c \in t.cols : c.name = s.name IN
  [t EXCEPT !.cols = (@ \ {old}) \cup { [s.col EXCEPT !.holds = old.holds] },
            !.idx = { IF x.col = s.name THEN [x EXCEPT !.col = s.col.name] ELSE x : x \in @ }]

Altered(t, s) ==
  CASE s.op = "create" -> s.body
    [] s.op \in {"drop", "rename"} -> NoTable
    [] s.op = "addcol" -> [t EXCEPT !.cols = @ \cup {s.col}]
    [] s.op = "dropcol" -> [t EXCEPT !.cols = { c \in @ : c.name # s.name },
                                     !.idx = { x \in @ : x.col # s.name }]
    [] s.op = "change" -> Changed(t, s)
    [] s.op = "addindex" -> [t EXCEPT !.idx = @ \cup {[index |-> s.index, col |-> s.name]}]
    [] s.op = "dropindex" -> [t EXCEPT !.idx = { x \in @ : x.index # s.index }]

\* The tables a statement can change.
Touches(s) == IF s.op = "rename" THEN {s.table, s.to} ELSE {s.table}

Execute(db, s) ==
  [n \in DOMAIN db |->
     IF n = s.table THEN Altered(db[n], s)
     ELSE IF n \in Touches(s) THEN db[s.table]
     ELSE db[n]]
=============================================================================
