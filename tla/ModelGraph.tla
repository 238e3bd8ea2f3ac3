----------------------------- MODULE ModelGraph -----------------------------
(***************************************************************************)
(* From the drawing of an application to its graph and its tables          *)
(* (src/model): meta.New numbers the classes, domain.New links them,       *)
(* graph.New spreads what is inherited over the entities and gives every   *)
(* entity and every relation its table.                                    *)
(*                                                                         *)
(* A drawing is [packages, classes, relations, orchestrations]: a number *)
(* and three sequences.  A name is a sequence of words in which "^" raises *)
(* the letter that follows: <<"^","blog","^","post">> is BlogPost.  A uuid *)
(* stands for the inner id as well.                                        *)
(***************************************************************************)
EXTENDS Naturals, Sequences, FiniteSets, SequencesExt

-----------------------------------------------------------------------------
(* Names (utils/string.go, model/graph/class.go) *)

FirstLower(n) == IF n # <<>> /\ n[1] = "^" THEN Tail(n) ELSE n
FirstUpper(n) == IF n = <<>> THEN n ELSE <<"^">> \o FirstLower(n)

\* "^" and the letter become "_" and the lower letter, at the start the letter.
SnakeString(n) == [i \in DOMAIN FirstLower(n) |->
                     IF FirstLower(n)[i] = "^" THEN "_" ELSE FirstLower(n)[i]]

Plural(n) == Append(n, "s")
QueryName(c) == FirstLower(Plural(c.name))
QueryOneName(c) == <<"one">> \o FirstUpper(c.name)
DeleteName(c) == <<"delete">> \o FirstUpper(c.name)
DeleteByIdName(c) == <<"delete">> \o FirstUpper(c.name) \o <<"^", "by", "^", "id">>
SetName(c) == <<"set">> \o FirstUpper(c.name)
UpsertName(c) == <<"upsert">> \o FirstUpper(c.name)
UpsertOneName(c) == <<"upsert", "^", "one">> \o FirstUpper(c.name)
AggregateName(c) == c.name \o FirstUpper(<<"aggregate">>)
ListName(c) == c.name \o FirstUpper(<<"list">>)

\* Tables of the system application, 1, have no prefix.
Prefix(app) == IF app = 1 THEN <<>> ELSE <<"a", ToString(app), "_">>
TableName(c) == Prefix(c.app) \o SnakeString(c.name)

-----------------------------------------------------------------------------
(* meta.New and domain.New *)

Has(s, uuid) == \E i \in DOMAIN s : s[i].uuid = uuid
Get(s, uuid) == s[CHOOSE i \in DOMAIN s : /\ s[i].uuid = uuid
                                          /\ \A j \in 1..(i - 1) : s[j].uuid # uuid]

Numbered(s, app) ==
  [i \in DOMAIN s |-> IF s[i].app = 0 THEN [s[i] EXCEPT !.app = app] ELSE s[i]]
MetaNew(c, app) == [c EXCEPT !.classes = Numbered(c.classes, app),
                             !.relations = Numbered(c.relations, app)]

\* The packages are copied into as many places as there are relations.
MetaPanics(c) == c.packages > Len(c.relations)

OfType(m, stereo) == SelectSeq(m.classes, LAMBDA c : c.stereo = stereo)
Enums(m) == OfType(m, "Enum")
Classes(m) == SelectSeq(m.classes, LAMBDA c : c.stereo # "Enum")

DomainPanics(m) == \E i \in DOMAIN m.relations :
  ~ (Has(Classes(m), m.relations[i].source) /\ Has(Classes(m), m.relations[i].target))

Parents(m, uuid) ==
  LET up == SelectSeq(m.relations, LAMBDA r : r.type = "inherit" /\ r.source = uuid)
  IN [i \in DOMAIN up |-> up[i].target]

\* Parents first, each followed by its own; one reached twice is there twice.
\* A drawing where a class inherits from itself never ends.
RECURSIVE Ancestors(_, _)
Ancestors(m, uuid) ==
  LET up == Parents(m, uuid)
  IN FlattenSeq([i \in DOMAIN up |-> <<up[i]>> \o Ancestors(m, up[i])])

\* A drawing with its classes linked, and no relation made yet: a graph g.
DomainNew(m) ==
  [packages |-> m.packages, classes |-> m.classes, relations |-> m.relations,
   orchestrations |-> m.orchestrations, made |-> <<>>,
   allParents |-> [u \in { c.uuid : c \in ToSet(m.classes) } |-> Ancestors(m, u)]]

AllParents(g, uuid) == g.allParents[uuid]

-----------------------------------------------------------------------------
(* graph.New *)

Interfaces(m) == OfType(m, "Abstract")
Entities(m) == OfType(m, "Entity")
ThirdParties(m) == OfType(m, "ThirdParty")
RootEnities(m) == SelectSeq(Entities(m), LAMBDA e : e.root)
RootInterfaces(m) == SelectSeq(Interfaces(m), LAMBDA c : c.root)

IsRelated(r) == r.type # "inherit"
TwoWay(r) == r.type \in {"twoWayAssociation", "twoWayAggregation", "twoWayCombination"}

GraphPanics(m) ==
  \/ \E c \in ToSet(Entities(m) \o Interfaces(m)) :
       \E p \in ToSet(AllParents(m, c.uuid)) : ~ Has(Interfaces(m), p)
  \/ \E r \in ToSet(SelectSeq(m.relations, IsRelated)) : \E u \in {r.source, r.target} :
       ~ Has(Entities(m) \o Interfaces(m), u)

\* Interface.Children: an entity as often as the interface is among its parents.
Children(m, uuid) ==
  LET all == Entities(m)
      times(e) == Len(SelectSeq(AllParents(m, e.uuid), LAMBDA p : p = uuid))
  IN FlattenSeq([i \in DOMAIN all |-> [j \in 1..times(all[i]) |-> all[i]]])

Concrete(m, uuid) == IF Has(Entities(m), uuid) THEN <<Get(Entities(m), uuid)>> ELSE Children(m, uuid)

RoleOf(role, end, e) == IF e.uuid = end THEN role ELSE role \o <<"^", "of">> \o FirstUpper(e.name)

NewRelation(r, s, t) ==
  [uuid |-> r.uuid, type |-> r.type, app |-> r.app, sourceEntity |-> s, targetEntity |-> t,
   roleOfTarget |-> RoleOf(r.roleOfTarget, r.target, t),
   roleOfSource |-> RoleOf(r.roleOfSource, r.source, s),
   sourceMany |-> r.sourceMany, targetMany |-> r.targetMany, extra |-> r.extra]

\* makeRelation: every entity of one end with every entity of the other.
MakeRelation(m, r) ==
  LET ss == Concrete(m, r.source)  ts == Concrete(m, r.target)
  IN FlattenSeq([i \in DOMAIN ss |-> [j \in DOMAIN ts |-> NewRelation(r, ss[i], ts[j])]])

GraphNew(m) ==
  LET rs == SelectSeq(m.relations, IsRelated)
  IN [m EXCEPT !.made = FlattenSeq([i \in DOMAIN rs |-> MakeRelation(m, rs[i])])]

Relations(m) == m.made

NewAssociation(r, e) == [relation |-> r, owner |-> e.uuid]

\* makeAssociations, of the entity: an entity related with itself gets two.
Associations(m, e) ==
  LET of(r) == (IF r.sourceEntity.uuid = e.uuid THEN <<NewAssociation(r, e)>> ELSE <<>>)
            \o (IF r.targetEntity.uuid = e.uuid /\ TwoWay(r) THEN <<NewAssociation(r, e)>> ELSE <<>>)
      all == Relations(m)
  IN FlattenSeq([i \in DOMAIN all |-> of(all[i])])

IsSource(a) == a.relation.sourceEntity.uuid = a.owner
AssociationName(a) == IF IsSource(a) THEN a.relation.roleOfTarget ELSE a.relation.roleOfSource
Owner(a) == IF IsSource(a) THEN a.relation.sourceEntity ELSE a.relation.targetEntity
TypeEntity(a) == IF IsSource(a) THEN a.relation.targetEntity ELSE a.relation.sourceEntity
IsArray(a) == IF IsSource(a) THEN a.relation.targetMany ELSE a.relation.sourceMany
IsCombination(a) == IsSource(a) /\ a.relation.type \in {"twoWayCombination", "oneWayCombination"}
Path(a) == Owner(a).name \o <<".">> \o AssociationName(a)

-----------------------------------------------------------------------------
(* What a class inherits *)

Named(s, name) == \E i \in DOMAIN s : s[i].name = name

\* Mutant: only what the parents drawn on the class itself have.
NearAttributes(m, c) ==
  LET up == Parents(m, c.uuid)
      add(acc, a) == IF Named(acc, a.name) THEN acc ELSE Append(acc, a)
  IN FoldLeft(add, c.attributes,
              FlattenSeq([i \in DOMAIN up |-> Get(Interfaces(m), up[i]).attributes]))

\* Its own attributes first; of two inherited with one name the first.  A third
\* party has its own only.
AllAttributes(m, c) ==
  IF c.stereo = "ThirdParty" THEN c.attributes ELSE
  LET up == AllParents(m, c.uuid)
      add(acc, a) == IF Named(acc, a.name) THEN acc ELSE Append(acc, a)
  IN FoldLeft(add, c.attributes,
              FlattenSeq([i \in DOMAIN up |-> Get(Interfaces(m), up[i]).attributes]))

\* makeInterface and makeEntity look the type of an enum up, for no other class.
FindsEnum(m, c, a) == c.stereo \in {"Entity", "Abstract"} /\ Has(Enums(m), a.typeUuid)

IsEmperty(m, e) == AllAttributes(m, e) = <<>> /\ Associations(m, e) = <<>>
Validates(m) == \A e \in ToSet(Entities(m)) : ~ IsEmperty(m, e)

-----------------------------------------------------------------------------
(* Tables (model/graph/table.go) *)

NewEntityTable(m, e) ==
  [uuid |-> <<e.uuid>>, name |-> TableName(e),
   columns |-> LET all == AllAttributes(m, e) IN [i \in DOMAIN all |-> all[i].name]]

\* Mutant: the name of the table forgets the entities of the ends.
NewRelationTableShared(r) ==
  [uuid |-> <<r.sourceEntity.uuid, r.uuid, r.targetEntity.uuid>>,
   name |-> Prefix(r.app) \o <<"pivot", r.uuid>>,
   columns |-> <<TableName(r.sourceEntity), TableName(r.targetEntity)>>
               \o [i \in DOMAIN r.extra |-> r.extra[i].name]]

\* The columns of a pivot table have the names of the tables they point at.
NewRelationTable(r) ==
  [uuid |-> <<r.sourceEntity.uuid, r.uuid, r.targetEntity.uuid>>,
   name |-> Prefix(r.app) \o <<"pivot", r.sourceEntity.uuid, r.uuid, r.targetEntity.uuid>>,
   columns |-> <<TableName(r.sourceEntity), TableName(r.targetEntity)>>
               \o [i \in DOMAIN r.extra |-> r.extra[i].name]]

Tables(m) ==
  LET es == Entities(m)  rs == Relations(m)
  IN [i \in DOMAIN es |-> NewEntityTable(m, es[i])] \o [i \in DOMAIN rs |-> NewRelationTable(rs[i])]
=============================================================================
