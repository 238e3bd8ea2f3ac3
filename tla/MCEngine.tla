------------------------------ MODULE MCEngine ------------------------------
EXTENDS Engine

-----------------------------------------------------------------------------
(* Drawings *)

At(name, type) == [name |-> name, type |-> type, typeUuid |-> "color", auto |-> ""]
Class(uuid, name, stereo, root, attributes) ==
  [uuid |-> uuid, name |-> name, stereo |-> stereo, root |-> root, app |-> 0, attributes |-> attributes,
   methods |-> << [name |-> <<"weight">>, type |-> "Int", args |-> <<>>] >>]
Relation(uuid, type, source, target, roleOfTarget, roleOfSource, sourceMany, targetMany) ==
  [uuid |-> uuid, type |-> type, source |-> source, target |-> target, roleOfTarget |-> roleOfTarget,
   roleOfSource |-> roleOfSource, sourceMany |-> sourceMany, targetMany |-> targetMany, app |-> 0, extra |-> <<>>]
Inherit(uuid, source, target) == Relation(uuid, "inherit", source, target, <<>>, <<>>, FALSE, FALSE)
Drawing(classes, relations) ==
  [packages |-> 1, classes |-> classes, relations |-> relations, orchestrations |-> <<>>]

Id == At(<<"id">>, "ID")
Title == At(<<"title">>, "String")
Blog == Class("blog", <<"^", "blog">>, "Entity", TRUE, <<Id, Title>>)
BlogWith(type) == [Blog EXCEPT !.attributes = Append(@, At(<<"extra">>, type))]
Post == Class("post", <<"^", "blog", "^", "post">>, "Entity", TRUE, <<Id, Title>>)
Heir(uuid, name) == Class(uuid, name, "Entity", TRUE, <<Id>>)
Thing == Class("thing", <<"^", "thing">>, "Abstract", FALSE, <<Title>>)
Base == Class("base", <<"^", "base">>, "Abstract", FALSE, <<At(<<"note">>, "String")>>)
Color == Class("color", <<"^", "color">>, "Enum", FALSE, <<>>)
Third == Class("third", <<"^", "third">>, "ThirdParty", FALSE, <<Title>>)

RelatedTypes == {"oneWayAssociation", "twoWayAssociation", "oneWayCombination", "twoWayCombination"}
Posts(type, source, target, sourceMany, targetMany) ==
  Relation("posts", type, source, target, <<"posts">>, <<"blog">>, sourceMany, targetMany)

Plain(type, sourceMany, targetMany) ==
  Drawing(<<Blog, Post>>, <<Posts(type, "blog", "post", sourceMany, targetMany)>>)

\* Two heirs of Thing, which itself inherits from Base.
Family == << Heir("text", <<"^", "text">>), Heir("image", <<"^", "image">>), Thing, Base >>
Heirs == << Inherit("i1", "text", "thing"), Inherit("i2", "image", "thing"), Inherit("i3", "thing", "base") >>
Abstract(type, targetMany) ==
  Drawing(<<Blog>> \o Family, Heirs \o <<Posts(type, "blog", "thing", TRUE, targetMany)>>)

Typed(type) == Drawing(<<BlogWith(type), Post, Color, Third>>, <<Posts("twoWayAssociation", "blog", "post", FALSE, TRUE)>>)

Called == [ Plain("twoWayAssociation", FALSE, TRUE) EXCEPT !.orchestrations =
  << [name |-> <<"publish">>, operate |-> "mutation", type |-> "Entity", typeUuid |-> "post",
      args |-> << [name |-> <<"post">>, type |-> "Entity", typeUuid |-> "post"] >>],
     [name |-> <<"latest">>, operate |-> "query", type |-> "EntityArray", typeUuid |-> "post",
      args |-> << [name |-> <<"count">>, type |-> "Int", typeUuid |-> ""] >>] >> ]

\* An id that the database makes, and nothing else to set.
Bare == Drawing(<< [Blog EXCEPT !.attributes = <<Id>>], Post >>,
                << Posts("oneWayAssociation", "post", "blog", FALSE, FALSE) >>)

\* Three classes, some of them parts of others.
Remark == Class("remark", <<"^", "remark">>, "Entity", TRUE, <<Id, Title>>)
Whole_Part == { <<w, p>> \in {"blog", "post", "remark"} \X {"blog", "post", "remark"} : w # p }
Parts(x) == Relation(x[1] \o x[2], "twoWayCombination", x[1], x[2], <<x[2]>>, <<"of", "^", x[1]>>, FALSE, TRUE)
Composed(pairs) == Drawing(<<Blog, Post, Remark>>, SetToSeq({ Parts(x) : x \in pairs }))

\* What the server cannot build.
Broken == {
  [Plain("twoWayAssociation", FALSE, TRUE) EXCEPT !.packages = 2],                  \* more packages than relations
  Drawing(<<Blog>>, <<Posts("twoWayAssociation", "blog", "blog", FALSE, TRUE)>>),   \* related with itself
  Drawing(<<Blog>>, <<Posts("oneWayAssociation", "blog", "gone", FALSE, TRUE)>>),   \* an end that is gone
  Drawing(<<Blog, Post>>, <<Inherit("i", "blog", "post")>>),                        \* from an entity
  Drawing(<<Blog, [Thing EXCEPT !.root = TRUE]>>, <<Inherit("i", "blog", "thing")>>),
  Drawing(<<Blog, [Third EXCEPT !.attributes = <<At(<<"tint">>, "Enum")>>], Color>>, <<Inherit("i", "blog", "blog2")>>),
  Drawing(<<Blog, [Third EXCEPT !.attributes = <<At(<<"tint">>, "Enum")>>], Color, Post>>,
          <<Posts("oneWayAssociation", "blog", "post", FALSE, TRUE)>>),
  [Called EXCEPT !.orchestrations[1].typeUuid = "gone"] }

MCDrawings ==
  { Plain(t, s, g) : t \in RelatedTypes, s \in BOOLEAN, g \in BOOLEAN }
  \cup { Abstract(t, g) : t \in RelatedTypes, g \in BOOLEAN }
  \cup { Typed(t) : t \in {"Int", "Float", "Boolean", "Date", "Enum", "JSON", "File", "Password", "Uuid", "ID[]"} }
  \cup { Composed(s) : s \in SUBSET Whole_Part }
  \cup {Called, Bare} \cup Broken

-----------------------------------------------------------------------------
(* Databases *)

NoRows(m) == [rows |-> [u \in { e.uuid : e \in ToSet(Entities(m)) } |-> {}], val |-> <<>>,
              pivot |-> [p \in { PivotTable(r) : r \in ToSet(Relations(m)) } |-> {}]]

Value(ids, titles) == [i \in ToSet(ids) |-> [n \in {<<"title">>} |-> titles[CHOOSE j \in DOMAIN ids : ids[j] = i]]]

\* Blogs 1 and 2, posts 3 and 4; titles 2 and 3, and 4 and 5, differ in case alone.
Blogs(m, posts, pairs, titles) ==
  [NoRows(m) EXCEPT !.rows = ("blog" :> {1, 2}) @@ ("post" :> posts),
                    !.val = Value(<<1, 2, 3, 4>>, titles),
                    !.pivot = [p \in DOMAIN @ |-> pairs]]

\* Texts 3 and image 4, both things.
Things(m, texts, images, titles) ==
  [NoRows(m) EXCEPT !.rows = ("blog" :> {1, 2}) @@ ("text" :> {3}) @@ ("image" :> {4}),
                    !.val = Value(<<1, 2, 3, 4>>, titles),
                    !.pivot = [p \in DOMAIN @ |-> IF p[3] = "text" THEN texts ELSE images]]

Of(g, c) == LET m == MetaNew(c, App) IN g.classes = m.classes /\ g.relations = m.relations

MCDatabases(m) ==
  CASE Of(m, Plain("twoWayAssociation", FALSE, TRUE)) ->
         { Blogs(m, {3, 4}, {<<1, 3>>, <<1, 4>>}, <<1, 3, 2, 1>>),
           Blogs(m, {3, 4}, {<<1, 3>>, <<2, 4>>}, <<4, 0, 3, 5>>),
           Blogs(m, {4}, {<<1, 3>>, <<2, 4>>}, <<2, 2, 3, 1>>) }
    [] Of(m, Plain("twoWayAssociation", FALSE, FALSE)) ->
         { Blogs(m, {3, 4}, {<<1, 3>>, <<1, 4>>}, <<1, 3, 2, 1>>) }
    [] Of(m, Abstract("oneWayAssociation", TRUE)) ->
         { Things(m, {<<1, 3>>, <<2, 3>>}, {<<1, 4>>}, <<1, 2, 2, 1>>) }
    [] OTHER -> { NoRows(m) }

-----------------------------------------------------------------------------
(* Questions *)

K(key, ops, subs) == [key |-> key, ops |-> ops, subs |-> subs]
Where(op, vals) == << K(<<"title">>, << [op |-> op, vals |-> vals] >>, <<>>) >>
Is(v) == Where("_eq", <<v>>)
And(ws) == << K(<<"_and">>, <<>>, ws) >>
Or(ws) == << K(<<"_or">>, <<>>, ws) >>
With(role, w) == << K(role, <<>>, <<w>>) >>

Wheres(role) ==
  { Where(op, <<v>>) : op \in {"_eq", "_notEq", "_gt", "_lte", "_like", "_iLike", "_notLike", "_notILike"}, v \in {2} }
  \cup { Where("_isNull", <<1>>), Where("_isNull", <<0>>), Where("_in", <<>>), Where("_in", <<1, 2>>),
         Where("_notIn", <<1>>), Where("_regexp", <<1>>),
         << K(<<"title">>, << [op |-> "_gt", vals |-> <<1>>], [op |-> "_lt", vals |-> <<3>>] >>, <<>>) >>,
         Or(<<Is(1), Is(2)>>), And(<<Is(1), Is(2)>>), And(<< Or(<<Is(1), Is(2)>>) >>), And(<<>>),
         << K(<<"_not">>, <<>>, <<Is(1)>>) >> }
  \cup (IF role = <<>> THEN {} ELSE
       { With(role, Is(1)), With(role, Is(2)), With(role, Or(<<Is(1), Is(2)>>)), With(role, <<>>),
         Is(1) \o With(role, Or(<<Is(1), Is(2)>>)), With(role, Or(<<Is(3), Is(1)>>)) \o Is(2),
         Or(<<Is(2), With(role, Is(2))>>), And(<<With(role, Is(1)), With(role, Is(2))>>),
         Or(<<Is(1), Is(2)>>) \o Is(1) })

Args(w, order, limit, offset) == [where |-> w, order |-> order, limit |-> limit, offset |-> offset]
By(dir) == << [key |-> <<"title">>, dir |-> dir] >>

Filled(m) == \A d \in MCDatabases(m) : d.val # <<>>

MCQuestions(m, e) ==
  IF ~ Filled(m) \/ e.uuid # "blog" THEN {}
  ELSE LET role == AssociationName(Associations(m, e)[1])
       IN { Args(w, <<>>, 0, 0) : w \in Wheres(role) }
          \cup { Args(<<>>, o, l, f) : o \in {<<>>, By("asc"), By("desc"), By("ascNullsFirst")},
                                       l \in {0, 1}, f \in {0, 1} }

MCFields(m, e) == { {}, {<<"title">>}, {<<"id">>, <<"title">>} }

MCSelections(a, args) ==
  IF args # Args(<<>>, <<>>, 0, 0) THEN {}
  ELSE { Args(w, <<>>, 0, 0) : w \in {<<>>, Is(2), Or(<<Is(1), Is(2)>>), Where("_notIn", <<1>>)} }
=============================================================================
