---------------------------- MODULE Associations ----------------------------
(***************************************************************************)
(* What saving and deleting objects promises, one request at a time: each  *)
(* request changes the objects and the links between them in one step, or  *)
(* not at all.  AssociationSession does the same in many statements.       *)
(***************************************************************************)
EXTENDS AssociationModel

VARIABLES rows,    \* objects that exist
          linked   \* pairs of objects that are linked

Associated(o) == { x \in TypeEntity(o) \cap rows : newAssociationPovit(o, x) \in linked }

Init == rows \subseteq Ids /\ linked \subseteq Pairs

\* An update names an object that exists, and so does a nested object that
\* carries fields, unless the same request makes it; a new object has a new id.
Acceptable(r, dropped) ==
  /\ r.kind = "update" => r.owner \in rows
  /\ Edited(Saved(r)) \subseteq (rows \cup Born(r)) \ dropped
  /\ Born(r) \cap rows = {}

Write(r, dropped, unlinked) ==
  /\ Acceptable(r, dropped)
  /\ rows' = (rows \cup Born(r)) \ dropped
  /\ linked' = (linked \ unlinked) \cup { newAssociationPovit(r.owner, i.id) : i \in Saved(r) }

Delete(r) ==
  /\ r.kind = "delete"
  /\ rows' = rows \ {r.owner}
  /\ UNCHANGED linked

\* The owner keeps exactly the objects named.  One that is no longer named
\* loses all its links, and its row when it is a part of the owner.
Sync(r) ==
  LET doomed == Associated(r.owner) \ IdsOf(r.sync) IN
  /\ r.kind # "delete" /\ ~ r.clear /\ r.sync # {}
  /\ Write(r, IF IsCombination(r.owner) THEN doomed ELSE {},
           { pr \in Pairs : TypeColumn(r.owner, pr) \in doomed })

\* Objects that are removed by a cascade keep their pivot rows.
Change(r) ==
  /\ r.kind # "delete" /\ ~ r.clear /\ r.sync = {}
  /\ Write(r, IF Cascade(r) THEN r.remove ELSE {},
           IF Cascade(r) THEN {} ELSE { newAssociationPovit(r.owner, x) : x \in r.remove })

\* The parts of a composition go.  The links stay: the owner's id is looked up
\* in the column of the other entity, whose ids are different.
Clear(r) ==
  /\ r.kind # "delete" /\ r.clear
  /\ Write(r, IF IsCombination(r.owner) THEN Associated(r.owner) ELSE {},
           { pr \in Pairs : TypeColumn(r.owner, pr) = r.owner })

Next == \E r \in Requests : Delete(r) \/ Sync(r) \/ Change(r) \/ Clear(r)

Spec == Init /\ [][Next]_<<rows, linked>>
=============================================================================
