------------------------------ MODULE Migration ------------------------------
(***************************************************************************)
(* Publishing a model: App.Publish (modules/app/publish.go) computes the   *)
(* difference to the published model and hands it to orm.Migrage           *)
(* (orm/migrate.go), which executes the statements one by one.  DDL        *)
(* commits by itself, so each statement is a step; on the first refused    *)
(* statement rollback executes the undo statements, in the order in which  *)
(* they were recorded, and the publish panics.  Only a migration that ran  *)
(* to its end is followed by the save of the app row.                      *)
(*                                                                         *)
(* A statement can be refused by the state of the schema, or by anything   *)
(* else (lock wait timeout, lost connection, values that do not convert);  *)
(* the process can die between any two statements.  MaxFaults bounds the   *)
(* latter two, MaxPublishes the number of publishes.                       *)
(***************************************************************************)
EXTENDS SchemaDiff

CONSTANTS Models,        \* the models users can publish
          TableNames,    \* every table name of the database
          MaxPublishes,  \* bound: publishes started
          MaxFaults      \* bound: refusals for other reasons, and crashes

ASSUME BoundsAssumption == MaxPublishes \in Nat /\ MaxFaults \in Nat
ASSUME ModelsAssumption ==
  /\ <<>> \in Models
  /\ \A m \in Models : /\ m \in Seq(ToSet(m))
                       /\ \A t \in ToSet(m) : t.cols \in Seq(ToSet(t.cols))
\* Left out: a relation of an entity with itself and an attribute inherited
\* twice.  Either gives a table two columns of one name, which MySQL refuses.
ASSUME UuidsAssumption ==
  \A m \in Models :
    /\ \A i, j \in DOMAIN m : m[i].uuid = m[j].uuid => i = j
    /\ \A t \in ToSet(m) :
         /\ t.name \in TableNames
         /\ \A i, j \in DOMAIN t.cols : t.cols[i].uuid = t.cols[j].uuid => i = j

VARIABLES
  db,         \* the database schema
  published,  \* publishedMeta in the app row
  next,       \* the model being published
  phase,      \* where Publish is
  plan,       \* the atoms still to be executed
  undo,       \* undoList
  undone,     \* how many undo statements rollback has executed
  base,       \* history: db when the publish began
  skipped,    \* history: some undo statement was refused
  disturbed,  \* history: some publish failed or died
  publishes, faults

vars == <<db, published, next, phase, plan, undo, undone, base, skipped,
          disturbed, publishes, faults>>
bookkeeping == <<publishes, faults>>

Phases == {"idle", "executing", "rollback", "rolledback", "migrated"}

Init ==
  /\ db = [n \in TableNames |-> NoTable]
  /\ published = <<>> /\ next = <<>>
  /\ phase = "idle" /\ plan = <<>> /\ undo = <<>> /\ undone = 0
  /\ base = db /\ skipped = FALSE /\ disturbed = FALSE
  /\ publishes = 0 /\ faults = 0

\* Mutant: undone keeps the count of the last rollback.
StartPublishKeepsUndone(m) ==
  /\ phase = "idle" /\ publishes < MaxPublishes
  /\ publishes' = publishes + 1
  /\ next' = m /\ plan' = MigrationPlan(published, m)
  /\ phase' = "executing" /\ undo' = <<>>
  /\ base' = db /\ skipped' = FALSE
  /\ UNCHANGED <<db, published, undone, disturbed, faults>>

\* Mutant: the difference is taken to the model that was tried last.
StartPublishFromTried(m) ==
  /\ phase = "idle" /\ publishes < MaxPublishes
  /\ publishes' = publishes + 1
  /\ next' = m /\ plan' = MigrationPlan(next, m)
  /\ phase' = "executing" /\ undo' = <<>> /\ undone' = 0
  /\ base' = db /\ skipped' = FALSE
  /\ UNCHANGED <<db, published, disturbed, faults>>

\* Publish reads the app row, builds both models and the difference.
StartPublish(m) ==
  /\ phase = "idle" /\ publishes < MaxPublishes
  /\ publishes' = publishes + 1
  /\ next' = m /\ plan' = MigrationPlan(published, m)
  /\ phase' = "executing" /\ undo' = <<>> /\ undone' = 0
  /\ base' = db /\ skipped' = FALSE
  /\ UNCHANGED <<db, published, disturbed, faults>>

\* The undo statement is recorded after its statement succeeded.
ExecuteStatement ==
  /\ phase = "executing" /\ plan # <<>>
  /\ Accepts(db, Head(plan).do)
  /\ db' = Execute(db, Head(plan).do)
  /\ undo' = Append(undo, Head(plan).undo)
  /\ plan' = Tail(plan)
  /\ UNCHANGED <<published, next, phase, undone, base, skipped, disturbed, bookkeeping>>

StatementFails ==
  /\ phase = "executing" /\ plan # <<>>
  /\ \/ ~ Accepts(db, Head(plan).do) /\ UNCHANGED faults
     \/ faults < MaxFaults /\ faults' = faults + 1
  /\ phase' = "rollback" /\ plan' = <<>> /\ disturbed' = TRUE
  /\ UNCHANGED <<db, published, next, undo, undone, base, skipped, publishes>>

NextUndo == undo[undone + 1]

UndoStatement ==
  /\ phase = "rollback" /\ undone < Len(undo)
  /\ Accepts(db, NextUndo)
  /\ db' = Execute(db, NextUndo)
  /\ undone' = undone + 1
  /\ UNCHANGED <<published, next, phase, plan, undo, base, skipped, disturbed, bookkeeping>>

\* "Rollback failed" is logged and the loop goes on.
UndoFails ==
  /\ phase = "rollback" /\ undone < Len(undo)
  /\ \/ ~ Accepts(db, NextUndo) /\ UNCHANGED faults
     \/ faults < MaxFaults /\ faults' = faults + 1
  /\ undone' = undone + 1 /\ skipped' = TRUE
  /\ UNCHANGED <<db, published, next, phase, plan, undo, base, disturbed, publishes>>

\* Mutant: the loop over the undo list stops one statement early.
RollbackEndsEarly ==
  /\ phase = "rollback" /\ undone + 1 >= Len(undo)
  /\ phase' = "rolledback"
  /\ UNCHANGED <<db, published, next, plan, undo, undone, base, skipped, disturbed, bookkeeping>>

RollbackEnds ==
  /\ phase = "rollback" /\ undone = Len(undo)
  /\ phase' = "rolledback"
  /\ UNCHANGED <<db, published, next, plan, undo, undone, base, skipped, disturbed, bookkeeping>>

\* Migrage panics after the rollback; the request fails, the row is untouched.
PublishFails ==
  /\ phase = "rolledback"
  /\ phase' = "idle"
  /\ UNCHANGED <<db, published, next, plan, undo, undone, base, skipped, disturbed, bookkeeping>>

MigrationEnds ==
  /\ phase = "executing" /\ plan = <<>>
  /\ phase' = "migrated"
  /\ UNCHANGED <<db, published, next, plan, undo, undone, base, skipped, disturbed, bookkeeping>>

SavePublished ==
  /\ phase = "migrated"
  /\ published' = next /\ phase' = "idle"
  /\ UNCHANGED <<db, next, plan, undo, undone, base, skipped, disturbed, bookkeeping>>

\* The process dies, or saving the row fails: the schema stays as it is and
\* nothing records how far the migration came.
Interrupted ==
  /\ phase # "idle" /\ faults < MaxFaults
  /\ faults' = faults + 1
  /\ phase' = "idle" /\ plan' = <<>> /\ disturbed' = TRUE
  /\ UNCHANGED <<db, published, next, undo, undone, base, skipped, publishes>>

Finished == phase = "idle" /\ publishes = MaxPublishes /\ UNCHANGED vars

Next ==
  \/ \E m \in Models : StartPublish(m)
  \/ ExecuteStatement \/ StatementFails
  \/ UndoStatement \/ UndoFails \/ RollbackEnds \/ PublishFails
  \/ MigrationEnds \/ SavePublished
  \/ Interrupted
  \/ Finished

Spec == Init /\ [][Next]_vars

-----------------------------------------------------------------------------
TypeOK ==
  /\ DOMAIN db = TableNames /\ DOMAIN base = TableNames
  /\ published \in Models /\ next \in Models
  /\ phase \in Phases
  /\ undone \in 0..Len(undo)
  /\ skipped \in BOOLEAN /\ disturbed \in BOOLEAN
  /\ publishes \in 0..MaxPublishes /\ faults \in 0..MaxFaults

\* The columns and indexes of a table, but for unsigned and nullable.
Shape(cols) == { [name |-> c.name, type |-> c.type, holds |-> c.holds] : c \in cols }
DeclaredShape(t) == { [name |-> c.name, type |-> c.type, holds |-> c.uuid] : c \in ToSet(t.cols) }
DeclaredIndexes(t) ==
  { [index |-> c.name, col |-> c.name] : c \in { d \in ToSet(t.cols) : d.index } }

\* The schema has exactly the tables of model m, under their names, each with
\* exactly the declared columns and indexes, and every column holds the values
\* of the attribute it is declared for.
Realises(schema, m) ==
  /\ { n \in TableNames : schema[n].exists } = { m[i].name : i \in DOMAIN m }
  /\ \A t \in ToSet(m) : /\ Shape(schema[t.name].cols) = DeclaredShape(t)
                         /\ schema[t.name].idx = DeclaredIndexes(t)

\* As long as no publish failed, the schema is what the published model says,
\* and a migration that ran to its end has produced the next model: the diff
\* by uuid and the order of the atoms (drop index, change, create index; the
\* rename first) lose no column, no index and no attribute's values.
PublishedIsRealised ==
  ~ disturbed => /\ phase = "idle" => Realises(db, published)
                 /\ phase = "migrated" => Realises(db, next)

\* A column is NOT NULL only if the published model says so: CHANGE COLUMN
\* without a NULL clause loosens columns, it never tightens one.
NeverStricter ==
  (~ disturbed /\ phase = "idle") =>
     \A t \in ToSet(published) : \A c \in db[t.name].cols :
        ~ c.nullable => \E d \in ToSet(t.cols) : d.name = c.name /\ ~ d.nullable

\* The applications share one database.  Whatever fails, a publish leaves
\* every table alone that neither of the two models names.
OtherTablesUntouched ==
  phase # "idle" => \A n \in TableNames :
     db[n] # base[n] => \E m \in {published, next} : \E i \in DOMAIN m : m[i].name = n

\* Two undo statements that work on the same table.
Entangled == \E i, j \in DOMAIN undo : i < j /\ Touches(undo[i]) \cap Touches(undo[j]) # {}

UpToNullable(t) == [cols |-> { [name |-> c.name, type |-> c.type] : c \in t.cols }, idx |-> t.idx]

\* A rolled back publish has restored tables, columns and indexes when it had
\* started from a schema as published, every executed statement worked on a
\* table of its own and no undo statement was refused for an outside reason.
RollbackRestores ==
  (/\ phase = "rolledback" /\ ~ skipped /\ ~ Entangled
   /\ Realises(base, published)) =>
     \A n \in TableNames : /\ db[n].exists = base[n].exists
                           /\ UpToNullable(db[n]) = UpToNullable(base[n])

\* "The table name was changed in an earlier step, the new name is used here"
\* (migration.go:209): the undo statements too name the new table, so when
\* rollback comes to one its table should be there.
UndoFindsItsTable ==
  (phase = "rollback" /\ undone < Len(undo) /\ NextUndo.op # "create")
     => db[NextUndo.table].exists
=============================================================================
