------------------------------ MODULE Snapshot ------------------------------
(***************************************************************************)
(* What a version of an object keeps (src/modules/snapshot/mutation.go):   *)
(* makeVersion asks for the object with all attributes of its entity and,  *)
(* below every composition, for its parts.                                 *)
(***************************************************************************)
EXTENDS ModelGraph

Asks(e, path) == [entity |-> e.uuid, path |-> path]
Expanded(found, e) == \E i \in DOMAIN found : found[i].entity = e.uuid

\* Mutant: below every association.
RECURSIVE makeFieldsGqlOfAll(_, _, _, _)
makeFieldsGqlOfAll(m, e, path, found) ==
  FoldLeft(LAMBDA all, a : IF Expanded(all, TypeEntity(a)) THEN all
                           ELSE makeFieldsGqlOfAll(m, TypeEntity(a), Append(path, AssociationName(a)), all),
           Append(found, Asks(e, path)), Associations(m, e))

\* Entities by the path that leads to them, depth first.  An entity that has
\* been found already, on any path, is not expanded: compositions may go round.
RECURSIVE makeFieldsGql(_, _, _, _)
makeFieldsGql(m, e, path, found) ==
  FoldLeft(LAMBDA all, a : IF ~ IsCombination(a) \/ Expanded(all, TypeEntity(a)) THEN all
                           ELSE makeFieldsGql(m, TypeEntity(a), Append(path, AssociationName(a)), all),
           Append(found, Asks(e, path)), Associations(m, e))

VersionOf(m, e) == makeFieldsGql(m, e, <<>>, <<>>)
=============================================================================
