---------------------------- MODULE SchemaParser ----------------------------
(***************************************************************************)
(* The GraphQL schema of an application (src/modules/app/schema): which    *)
(* types and which query and mutation fields its graph gets.               *)
(*                                                                         *)
(* A type is referred to as [name, many]; a definition is [kind, name,     *)
(* fields, interfaces], a field [name, type, args], an argument or the     *)
(* value of an enum a field without arguments.  NonNull is left out.       *)
(***************************************************************************)
EXTENDS ModelGraph

Ref(name) == [name |-> name, many |-> FALSE]
ListOf(name) == [name |-> name, many |-> TRUE]
Scalar(word) == Ref(<<"$", word>>)
Scalars == { <<"$", w>> : w \in {"ID", "Int", "Float", "Boolean", "String", "DateTime", "JSON", "Upload"} }

Field(name, type) == [name |-> name, type |-> type, args |-> {}]
FieldWith(name, type, args) == [name |-> name, type |-> type, args |-> args]
Def(kind, name, fields) == [kind |-> kind, name |-> name, fields |-> fields, interfaces |-> {}]

\* A Go map: what is put under a name that is taken replaces it.
Put(fields, new) == { f \in fields : ~ \E g \in new : g.name = f.name } \cup new

-----------------------------------------------------------------------------
(* property.go *)

JSONTypes == {"JSON", "ValueObject", "Entity", "ID[]", "Int[]", "Float[]", "String[]", "Date[]",
              "EnumArray", "ValueObjectArray", "EntityArray"}
FileType == <<"^", "file">>
Numeric == {"Int", "Float"}
Textual == {"String", "Password", "Uuid"}

PropertyType(t) == CASE t \in JSONTypes -> Scalar("JSON")
                     [] t \in Textual \cup {"Enum"} -> Scalar("String")
                     [] t = "Date" -> Scalar("DateTime")
                     [] t = "File" -> Ref(FileType)
                     [] OTHER -> Scalar(t)
InputPropertyType(t) == IF t = "File" THEN Scalar("Upload") ELSE PropertyType(t)

Comparison == <<"^", "comparison", "^", "exp">>
ComparisonNames == [ID |-> <<"^", "id">> \o Comparison, Int |-> <<"^", "int">> \o Comparison,
                    Float |-> <<"^", "float">> \o Comparison, Boolean |-> <<"^", "boolean">> \o Comparison,
                    String |-> <<"^", "string">> \o Comparison,
                    Date |-> <<"^", "date", "^", "time">> \o Comparison]
EnumComparisonName(e) == e.name \o <<"^", "enum">> \o Comparison

\* AttributeExp: none, an input type shared by all, or one for each enum.
AttributeExp(m, c, a) ==
  CASE a.type \in JSONTypes \cup {"File"} -> {}
    [] a.type = "Enum" -> { Field(a.name, Ref(EnumComparisonName(Get(Enums(m), a.typeUuid)))) }
    [] a.type \in Textual -> { Field(a.name, Ref(ComparisonNames["String"])) }
    [] OTHER -> { Field(a.name, Ref(ComparisonNames[a.type])) }

\* An enum that was not looked up is a panic.
AttributeExpPanics(m, c) == \E a \in ToSet(AllAttributes(m, c)) : a.type = "Enum" /\ ~ FindsEnum(m, c, a)

AttributeOrderBy(a) == IF a.type \in JSONTypes \cup {"Boolean"} THEN {}
                       ELSE { Field(a.name, Ref(<<"^", "order", "^", "by">>)) }

Orderings == {"asc", "ascNullsFirst", "ascNullsLast", "desc", "descNullsFirst", "descNullsLast"}
EnumOrderBy == Def("enum", <<"^", "order", "^", "by">>,
                   { Field(<<o>>, Scalar("String")) : o \in Orderings })

-----------------------------------------------------------------------------
(* comparison.go: what an attribute can be compared with *)

Ordering == {"_eq", "_gt", "_gte", "_lt", "_lte", "_notEq"}
Listing == {"_in", "_notIn"}
Matching == {"_iLike", "_like", "_notILike", "_notLike", "_notRegexp", "_regexp"}

\* Operators that an attribute of a type offers.
Offers(t) == CASE t = "ID" -> Ordering \cup Listing
               [] t = "Enum" -> {"_eq", "_notEq", "_isNull"} \cup Listing
               [] t \in Textual -> Ordering \cup Listing \cup Matching \cup {"_isNull"}
               [] t \in JSONTypes \cup {"File"} -> {}
               [] OTHER -> Ordering \cup Listing \cup {"_isNull"}

Compared(op, type) == CASE op = "_isNull" -> Scalar("Boolean")
                        [] op \in Listing -> ListOf(type.name)
                        [] OTHER -> type

ComparisonExp(name, t) ==
  Def("input", name, { Field(<<op>>, Compared(op, PropertyType(t))) : op \in Offers(t) })
ComparisonExps == { ComparisonExp(ComparisonNames[t], t) : t \in DOMAIN ComparisonNames }
EnumComparisonExp(e) == ComparisonExp(EnumComparisonName(e), "Enum")

-----------------------------------------------------------------------------
(* query.go, relation.go: what a client reads *)

OutputFields(attributes) ==
  { Field(a.name, PropertyType(a.type)) : a \in { b \in ToSet(attributes) : b.type # "Password" } }

FileOutputType == Def("object", FileType,
  { Field(<<w>>, Scalar("String")) : w \in {"fileName", "mimeType", "url", "extName", "thumbnail"} }
  \cup { Field(<<"size">>, Scalar("Int")),
         FieldWith(<<"resize">>, Scalar("String"),
                   {Field(<<"width">>, Scalar("Int")), Field(<<"height">>, Scalar("Int"))}) })

InterfaceType(m, c) == Def("interface", c.name, OutputFields(AllAttributes(m, c)))

WhereName(c) == c.name \o <<"^", "bool", "^", "exp">>
OrderByName(c) == c.name \o <<"^", "order", "^", "by">>
DistinctName(c) == c.name \o <<"^", "distinct", "^", "exp">>

OrderByFields(m, c) == UNION { AttributeOrderBy(a) : a \in ToSet(AllAttributes(m, c)) }

QueryArgs(m, c) ==
  { Field(<<"distinctOn">>, Ref(DistinctName(c))), Field(<<"limit">>, Scalar("Int")),
    Field(<<"offset">>, Scalar("Int")), Field(<<"where">>, Ref(WhereName(c))) }
  \cup IF OrderByFields(m, c) = {} THEN {} ELSE { Field(<<"orderBy">>, ListOf(OrderByName(c))) }

AssociationType(a) == IF IsArray(a) THEN ListOf(TypeEntity(a).name) ELSE Ref(TypeEntity(a).name)

AssociationField(m, a) == FieldWith(AssociationName(a), AssociationType(a), QueryArgs(m, TypeEntity(a)))

ObjectType(m, e) ==
  [kind |-> "object", name |-> e.name,
   fields |-> OutputFields(AllAttributes(m, e))
              \cup { AssociationField(m, a) : a \in ToSet(Associations(m, e)) },
   interfaces |-> { Get(Interfaces(m), p).name : p \in ToSet(AllParents(m, e.uuid)) }]

ThirdPartyObject(t) == Def("object", t.name, OutputFields(t.attributes))

\* makeRelations: a field that is there already is a panic.
RelationPanics(m, e) ==
  LET all == Associations(m, e)
      names == [i \in DOMAIN all |-> AssociationName(all[i])]
  IN \/ ~ IsInjective(names)
     \/ \E a \in ToSet(AllAttributes(m, e)) : a.type # "Password" /\ a.name \in ToSet(names)

-----------------------------------------------------------------------------
(* queryargs.go: how a client selects *)

WhereExp(m, c) == Def("input", WhereName(c),
  Put(Put({ Field(<<"_and">>, ListOf(WhereName(c))), Field(<<"_or">>, ListOf(WhereName(c))),
            Field(<<"_not">>, Ref(WhereName(c))) },
          UNION { AttributeExp(m, c, a) : a \in ToSet(AllAttributes(m, c)) }),
      IF c.stereo # "Entity" THEN {}
      ELSE { Field(AssociationName(a), Ref(WhereName(TypeEntity(a)))) : a \in ToSet(Associations(m, c)) }))

\* makeRelaionWhereExp knows entities and third parties only.
WhereExpPanics(m) == RootInterfaces(m) # <<>>

OrderByExp(m, c) == Def("input", OrderByName(c), OrderByFields(m, c))
DistinctOnEnum(m, c) == Def("enum", DistinctName(c),
  { Field(a.name, Scalar("String")) : a \in ToSet(AllAttributes(m, c)) })

ArgTypes(m, c) == { WhereExp(m, c), DistinctOnEnum(m, c) }
                  \cup IF OrderByFields(m, c) = {} THEN {} ELSE { OrderByExp(m, c) }

-----------------------------------------------------------------------------
(* aggregate.go *)

AggregateFunctions ==
  { <<"avg">>, <<"max">>, <<"min">>, <<"stddev">>, <<"stddev", "^", "pop">>, <<"stddev", "^", "samp">>,
    <<"sum">>, <<"var", "^", "pop">>, <<"var", "^", "samp">>, <<"variance">> }

NumericFields(m, e) ==
  Put({ Field(a.name, PropertyType(a.type)) : a \in { b \in ToSet(AllAttributes(m, e)) : b.type \in Numeric } },
      { Field(f.name, PropertyType(f.type)) :
          f \in { g \in ToSet(e.methods) : g.type \in Numeric /\ g.args = <<>> } })

SelectFields(m, e) == { Field(a.name, InputPropertyType(a.type)) :
                        a \in { b \in ToSet(AllAttributes(m, e)) : b.type # "File" } }

FunctionName(e, f) == e.name \o FirstUpper(f) \o <<"^", "fields">>
SelectName(e) == e.name \o <<"^", "select", "^", "column">>

AggregateFields(m, e) ==
  (IF NumericFields(m, e) = {} THEN {} ELSE { Field(f, Ref(FunctionName(e, f))) : f \in AggregateFunctions })
  \cup (IF SelectFields(m, e) = {} THEN {}
        ELSE { FieldWith(<<"count">>, Scalar("Int"),
                 {Field(<<"columns">>, Ref(SelectName(e))), Field(<<"distinct">>, Scalar("Boolean"))}) })

AggregateType(m, e) == Def("object", AggregateName(e) \o <<"^", "fields">>, AggregateFields(m, e))

AggregateTypes(m, e) ==
  { AggregateType(m, e), Def("input", SelectName(e), SelectFields(m, e)) }
  \cup { Def("object", FunctionName(e, f), NumericFields(m, e)) : f \in AggregateFunctions }

EntityListType(m, e) == Def("object", ListName(e),
  { Field(<<"nodes">>, ListOf(e.name)), Field(<<"total">>, Scalar("Int")),
    Field(<<"aggregate">>, Ref(AggregateType(m, e).name)) })

-----------------------------------------------------------------------------
(* input.go: what a client writes *)

SaveName(e) == e.name \o <<"^", "input">>
SetInputName(e) == e.name \o <<"^", "set">>
ResponseName(e) == e.name \o <<"^", "mutation", "^", "response">>
HasManyName(e) == <<"^", "set">> \o e.name \o <<"^", "has", "^", "many">>
HasOneName(e) == <<"^", "set">> \o e.name \o <<"^", "has", "^", "one">>

InputFields(m, e, withId) ==
  { Field(a.name, InputPropertyType(a.type)) :
    a \in { b \in ToSet(AllAttributes(m, e)) : (b.name # <<"id">> \/ withId) /\ b.auto = "" } }

GetAssociationType(a) == Ref(IF IsArray(a) THEN HasManyName(TypeEntity(a)) ELSE HasOneName(TypeEntity(a)))

\* makeEntityInputRelations: none for an entity with nothing to save.
InputRelations(m, e) ==
  IF InputFields(m, e, TRUE) = {} THEN {}
  ELSE { Field(AssociationName(a), GetAssociationType(a)) : a \in ToSet(Associations(m, e)) }

SaveInput(m, e) == Def("input", SaveName(e), Put(InputFields(m, e, TRUE), InputRelations(m, e)))
SetInput(m, e) == Def("input", SetInputName(e), Put(InputFields(m, e, FALSE), InputRelations(m, e)))

HasManyInput(e) == Def("input", HasManyName(e),
  { Field(<<w>>, ListOf(SaveName(e))) : w \in {"add", "delete", "update", "sync"} }
  \cup { Field(<<"cascade">>, Scalar("Boolean")) })
HasOneInput(e) == Def("input", HasOneName(e),
  { Field(<<"clear">>, Scalar("Boolean")), Field(<<"sync">>, Ref(SaveName(e))),
    Field(<<"cascade">>, Scalar("Boolean")) })
MutationResponse(e) == Def("object", ResponseName(e),
  { Field(<<"affectedRows">>, Scalar("Int")), Field(<<"returning">>, ListOf(e.name)) })

-----------------------------------------------------------------------------
(* query.go and mutation.go of the schema, methodtype.go, methodargs.go *)

OrchestrationType(m, t, uuid) ==
  CASE t = "Entity" -> Ref(Get(Entities(m), uuid).name)
    [] t = "EntityArray" -> Ref(ListName(Get(Entities(m), uuid)))
    [] OTHER -> PropertyType(t)

ArgType(m, t, uuid) ==
  CASE t = "Entity" -> Ref(SaveName(Get(Entities(m), uuid)))
    [] t = "EntityArray" -> ListOf(SaveName(Get(Entities(m), uuid)))
    [] OTHER -> PropertyType(t)

OrchestrationPanics(m) == \E o \in ToSet(m.orchestrations) : \E x \in {o} \cup ToSet(o.args) :
  x.type \in {"Entity", "EntityArray"} /\ ~ Has(Entities(m), x.typeUuid)

OrchestrationFields(m, operate) ==
  { FieldWith(o.name, OrchestrationType(m, o.type, o.typeUuid),
              { Field(x.name, ArgType(m, x.type, x.typeUuid)) : x \in ToSet(o.args) }) :
    o \in { p \in ToSet(m.orchestrations) : p.operate = operate } }

EntityQueries(m, e) ==
  { FieldWith(QueryName(e), Ref(ListName(e)), QueryArgs(m, e)),
    FieldWith(QueryOneName(e), Ref(e.name), QueryArgs(m, e)) }

QueryFields(m) == Put(UNION { EntityQueries(m, e) : e \in ToSet(RootEnities(m)) },
                      OrchestrationFields(m, "query"))

\* Mutant: the mutation is there although the input has nothing to set.
EntityMutationsAlways(m, e) ==
  LET where == Field(<<"where">>, Ref(WhereName(e))) IN
  { FieldWith(DeleteName(e), Ref(ResponseName(e)), {where}),
    FieldWith(DeleteByIdName(e), Ref(e.name), {Field(<<"id">>, Scalar("ID"))}),
    FieldWith(UpsertName(e), ListOf(e.name), {Field(<<"objects">>, ListOf(SaveName(e)))}),
    FieldWith(UpsertOneName(e), Ref(e.name), {Field(<<"object">>, Ref(SaveName(e)))}),
    FieldWith(SetName(e), Ref(ResponseName(e)), {where, Field(<<"set">>, Ref(SetInputName(e)))}) }

EntityMutations(m, e) ==
  LET where == Field(<<"where">>, Ref(WhereName(e))) IN
  { FieldWith(DeleteName(e), Ref(ResponseName(e)), {where}),
    FieldWith(DeleteByIdName(e), Ref(e.name), {Field(<<"id">>, Scalar("ID"))}),
    FieldWith(UpsertName(e), ListOf(e.name), {Field(<<"objects">>, ListOf(SaveName(e)))}),
    FieldWith(UpsertOneName(e), Ref(e.name), {Field(<<"object">>, Ref(SaveName(e)))}) }
  \cup IF SetInput(m, e).fields = {} THEN {}
       ELSE { FieldWith(SetName(e), Ref(ResponseName(e)), {where, Field(<<"set">>, Ref(SetInputName(e)))}) }

UploadFields ==
  { FieldWith(<<"upload">>, Scalar("String"), {Field(<<"file">>, Scalar("Upload"))}),
    FieldWith(<<"uploadZip">>, Scalar("String"),
              {Field(<<"file">>, Scalar("Upload")), Field(<<"folder">>, Scalar("String"))}) }

MutationFields(m) == Put(Put(UploadFields, UNION { EntityMutations(m, e) : e \in ToSet(RootEnities(m)) }),
                         OrchestrationFields(m, "mutation"))

-----------------------------------------------------------------------------
(* schema.New *)

SchemaPanics(m) ==
  \/ \E c \in ToSet(Entities(m) \o ThirdParties(m) \o RootInterfaces(m)) : AttributeExpPanics(m, c)
  \/ WhereExpPanics(m)
  \/ \E e \in ToSet(Entities(m)) : RelationPanics(m, e)
  \/ OrchestrationPanics(m)

EntityTypes(m, e) ==
  ArgTypes(m, e) \cup AggregateTypes(m, e)
  \cup { ObjectType(m, e), EntityListType(m, e), SaveInput(m, e), SetInput(m, e), HasManyInput(e),
         HasOneInput(e), MutationResponse(e) }

\* Everything ParseModel makes; the enums themselves are made and not used.
Definitions(m) ==
  UNION { EntityTypes(m, e) : e \in ToSet(Entities(m)) }
  \cup UNION { {ThirdPartyObject(t)} \cup ArgTypes(m, t) : t \in ToSet(ThirdParties(m)) }
  \cup { InterfaceType(m, c) : c \in ToSet(Interfaces(m)) }
  \cup { EnumComparisonExp(e) : e \in ToSet(Enums(m)) }
  \cup ComparisonExps \cup { FileOutputType, EnumOrderBy }

RootTypes(m) == { Def("object", <<"^", "query">>, QueryFields(m)),
                  Def("object", <<"^", "mutation">>, MutationFields(m)) }
                \cup { ObjectType(m, e) : e \in ToSet(Entities(m)) }
                \cup { ThirdPartyObject(t) : t \in ToSet(ThirdParties(m)) }

\* What a definition refers to.
Mentions(d) == d.interfaces \cup UNION { {f.type.name} \cup { x.type.name : x \in f.args } : f \in d.fields }

\* graphql.NewSchema walks from the root types; a name may lead to several.
RECURSIVE Reachable(_, _)
Reachable(all, found) ==
  LET names == UNION { Mentions(f) : f \in found }
      more == { d \in all : d.name \in names } \ found
  IN IF more = {} THEN found ELSE Reachable(all, found \cup more)

SchemaTypes(m) == Reachable(Definitions(m), RootTypes(m))
=============================================================================
