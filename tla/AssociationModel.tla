-------------------------- MODULE AssociationModel --------------------------
(***************************************************************************)
(* One relation between two entities, as a save request sees it            *)
(* (model/data/instance.go, model/data/relation.go): which column of the   *)
(* pivot table is the owner's, what "add", "delete", "update", "sync",     *)
(* "clear" and "cascade" ask for.  A relation is saved from either of its  *)
(* sides; the two entities are different, so their ids never meet.         *)
(***************************************************************************)
EXTENDS Naturals, FiniteSets

CONSTANTS Sources,      \* ids of the source entity, the left pivot column
          Targets,      \* ids of the target entity, the right pivot column
          Combination,  \* the source owns its targets (RelationType)
          Requests      \* what clients may ask for

Ids == Sources \cup Targets
Pairs == Sources \X Targets

\* A nested object: only an id, an existing object with fields, or a new one,
\* whose id is then the one the database is going to give it.
Instance == [id : Ids, body : {"none", "fields", "new"}]

\* "save" is add and update, which do the same; a request of kind "delete" is
\* a delete by id, its associations are empty.
Request == [kind : {"insert", "update", "delete"}, owner : Ids, clear : BOOLEAN,
            sync : SUBSET Instance, save : SUBSET Instance, remove : SUBSET Ids,
            cascade : BOOLEAN]

ASSUME SidesAssumption == Sources \cap Targets = {}
ASSUME RelationAssumption == Combination \in BOOLEAN
\* The objects of one association belong to the entity on its other side.
ASSUME RequestsAssumption ==
  /\ Requests \subseteq Request
  /\ \A r \in Requests : LET ids == r.remove \cup { i.id : i \in r.sync \cup r.save } IN
       ids \subseteq Targets \/ ids \subseteq Sources
  /\ \A r \in Requests : \A x \in r.remove \cup { i.id : i \in r.sync \cup r.save } :
       r.owner \in Sources <=> x \in Targets
  /\ \A r \in Requests : r.kind = "delete" => ~ r.clear /\ r.sync \cup r.save = {} /\ r.remove = {}

TypeEntity(o) == IF o \in Sources THEN Targets ELSE Sources
IsCombination(o) == Combination /\ o \in Sources
Cascade(r) == IsCombination(r.owner) \/ r.cascade

newAssociationPovit(o, x) == IF o \in Sources THEN <<o, x>> ELSE <<x, o>>

\* The value of a pivot row in TypeColumn, for an owner of o's side.
TypeColumn(o, pr) == IF o \in Sources THEN pr[2] ELSE pr[1]

IdsOf(instances) == { i.id : i \in instances }
New(instances) == { i.id : i \in { j \in instances : j.body = "new" } }
Edited(instances) == { i.id : i \in { j \in instances : j.body = "fields" } }

\* Which instances of a request are written: sync wins over the others, clear
\* over sync (SaveAssociation).
Saved(r) == IF r.kind = "delete" \/ r.clear THEN {} ELSE IF r.sync # {} THEN r.sync ELSE r.save
Born(r) == New(Saved(r)) \cup (IF r.kind = "insert" THEN {r.owner} ELSE {})
=============================================================================
