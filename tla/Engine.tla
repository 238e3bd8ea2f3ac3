------------------------------- MODULE Engine -------------------------------
(***************************************************************************)
(* An application from its drawing to its answers: a drawing is published  *)
(* and gets a graph, tables and a schema; a request asks for objects,      *)
(* then for what is associated with them through the loaders of the        *)
(* request (src/modules/app/resolve), or deletes the objects it selects.   *)
(* Other requests write in between: the database jumps.                    *)
(***************************************************************************)
EXTENDS SchemaParser, QueryBuilder, Snapshot, TLC

CONSTANTS App,                 \* the application, not the system's
          Drawings,            \* what may be published
          Databases(_),        \* of a drawing: contents of its tables
          Questions(_, _),     \* of an entity: arguments of a query
          Fields(_, _),        \* of an entity: sets of fields to read
          Selections(_, _)     \* of an association: arguments below a query

ASSUME AppAssumption == App \in Nat \ {0, 1}

VARIABLES drawing,   \* <<>> until one is published
          graph,     \* of the drawing, <<>> if the server cannot make it
          db,
          answer,    \* of the request: what was asked, of which database
          loaders    \* of the request, by path: arguments and what has been loaded

vars == <<drawing, graph, db, answer, loaders>>
published == <<drawing, graph>>

NoAnswer == [kind |-> "none"]
NoLoaders == <<>>

Init == /\ drawing = <<>> /\ graph = <<>> /\ db = <<>>
        /\ answer = NoAnswer /\ loaders = NoLoaders

\* model.New and schema.New, <<>> when one of them panics.
Made(m) ==
  LET d == DomainNew(m)  g == GraphNew(d) IN
  IF MetaPanics(m) \/ DomainPanics(m) \/ GraphPanics(d) \/ SchemaPanics(g) THEN <<>> ELSE g

\* One drawing is published; AppCache has the next ones.
Publish(c) ==
  /\ drawing = <<>>
  /\ drawing' = MetaNew(c, App)
  /\ graph' = Made(drawing')
  /\ IF graph' = <<>> THEN db' = <<>> ELSE db' \in Databases(graph')
  /\ UNCHANGED <<answer, loaders>>

\* Others write.
Fill == /\ graph # <<>> /\ db' \in Databases(graph)
        /\ UNCHANGED <<published, answer, loaders>>

\* countDb is what the total was counted in, <<>> until it is.
Answered(kind, e, args, read, r) ==
  [kind |-> kind, entity |-> e, args |-> args, read |-> read, db |-> db,
   ok |-> r.ok, nodes |-> r.nodes, countDb |-> <<>>, total |-> 0]
Counted == answer.countDb # <<>>

AllNames(e) == { a.name : a \in ToSet(AllAttributes(graph, e)) }

\* Session.Query: the records ...
Query(kind, e, args, fields) ==
  /\ answer = NoAnswer
  /\ LET read == AllNames(e) \cap fields IN
     \E r \in QueryRecords(graph, db, e, args, read) : answer' = Answered(kind, e, args, read, r)
  /\ UNCHANGED <<published, db, loaders>>

\* ... and, by a statement of its own, without a transaction, the total.
QueryCount ==
  /\ answer.kind \in {"list", "find", "set"} /\ answer.ok /\ ~ Counted
  /\ answer' = IF CountRefused(graph, answer.entity, answer.args)
               THEN [answer EXCEPT !.ok = FALSE]
               ELSE [answer EXCEPT !.countDb = db, !.total = Count(graph, db, answer.entity, answer.args)]
  /\ UNCHANGED <<published, db, loaders>>

\* QueryEntityResolveFn: fields are what parseListFields finds, nothing if
\* "nodes" is not the first selection.
QueryEntity(e, args, fields) == Query("list", e, args, fields)

\* QueryOneEntityResolveFn: the first record, of all attributes, and no total.
QueryOneEntity(e, args) ==
  /\ answer = NoAnswer
  /\ \E r \in QueryRecords(graph, db, e, args, AllNames(e)) :
       answer' = Answered("one", e, args, AllNames(e),
                          [r EXCEPT !.nodes = IF @ = <<>> THEN <<>> ELSE <<Head(@)>>])
  /\ UNCHANGED <<published, db, loaders>>

\* GetLoader: the loader of a path keeps the arguments it was made with.
GetLoader(a, args) ==
  IF Path(a) \in DOMAIN loaders THEN loaders[Path(a)] ELSE [association |-> a, args |-> args, got |-> <<>>]

\* QueryBatchFn, for the owners that are waiting: a panic fails them all.
QueryBatchFn(a, args, ids) ==
  LET s == SetToSeq(ids)
      ok == ~ (BatchRefused(graph, a, args) \/ BatchPanics(graph, db, a, s, args))
      rows == IF ok THEN QueryBatch(graph, db, a, s, args) ELSE [id \in ids |-> {}]
  IN [id \in ids |-> [ok |-> ok, db |-> db, rows |-> rows[id]]]

\* QueryAssociationFn of some of the nodes; what has been loaded is not loaded
\* again.  An object that was read without its id cannot be an owner.
QueryAssociation(a, args) ==
  /\ answer.kind = "list" /\ Counted
  /\ answer.nodes # <<>> /\ <<"id">> \in answer.read
  /\ LET loader == GetLoader(a, args) IN
     \E ids \in SUBSET (ToSet(answer.nodes) \ DOMAIN loader.got) \ {{}} :
       loaders' = (Path(a) :> [loader EXCEPT !.got = @ @@ QueryBatchFn(a, loader.args, ids)]) @@ loaders
  /\ UNCHANGED <<published, db, answer>>

\* DeleteResolveFn first reads the ids ...
FindForDelete(e, args) == Query("find", e, args, {<<"id">>})

\* Mutant: the objects are selected again when they are deleted.
DeleteFoundAgain ==
  /\ answer.kind = "find" /\ Counted
  /\ \E r \in QueryRecords(graph, db, answer.entity, answer.args, {<<"id">>}) :
       db' = [db EXCEPT !.rows[answer.entity.uuid] = @ \ ToSet(r.nodes)]
  /\ answer' = [answer EXCEPT !.kind = "deleted", !.total = Len(answer.nodes)]
  /\ UNCHANGED <<published, loaders>>

\* ... then deletes them in a transaction of its own.  The number it answers
\* counts an object as often as it was read.
DeleteFound ==
  /\ answer.kind = "find" /\ Counted
  /\ db' = [db EXCEPT !.rows[answer.entity.uuid] = @ \ ToSet(answer.nodes)]
  /\ answer' = [answer EXCEPT !.kind = "deleted", !.total = Len(answer.nodes)]
  /\ UNCHANGED <<published, loaders>>

\* SetResolveFn reads no attribute, so it finds no object and sets none.
SetFound(e, args) == Query("set", e, args, {})

\* The loaders are those of one request (contexts and handler).
EndRequest == /\ answer # NoAnswer
              /\ answer' = NoAnswer /\ loaders' = NoLoaders
              /\ UNCHANGED <<published, db>>

Ask == /\ graph # <<>>
       /\ \E e \in ToSet(RootEnities(graph)) : \E args \in Questions(graph, e) :
            \/ \E fields \in Fields(graph, e) : QueryEntity(e, args, fields)
            \/ QueryOneEntity(e, args)
            \/ FindForDelete(e, args)
            \/ SetFound(e, args)

Load == \E a \in ToSet(IF answer = NoAnswer THEN <<>> ELSE Associations(graph, answer.entity)) :
          \E args \in Selections(a, answer.args) : QueryAssociation(a, args)

Next == (\E c \in Drawings : Publish(c)) \/ Fill \/ Ask \/ Load \/ QueryCount \/ DeleteFound \/ EndRequest

Spec == Init /\ [][Next]_vars

-----------------------------------------------------------------------------
(* What can be drawn *)

Abstracts(m) == { c.uuid : c \in ToSet(Interfaces(m)) }
Drawn(m) == { c.uuid : c \in ToSet(Entities(m) \o Interfaces(m)) }

\* Type names made for an entity out of its name.
Derived(e) == { ListName(e), SaveName(e), SetInputName(e), ResponseName(e), WhereName(e), OrderByName(e),
                DistinctName(e), SelectName(e) }

DrawnNames(m) ==
  /\ IsInjective([i \in DOMAIN m.classes |-> FirstLower(m.classes[i].name)])
  /\ \A c \in ToSet(m.classes), e \in ToSet(Entities(m)) : c.name \notin Derived(e)
  /\ \A c \in ToSet(Entities(m) \o Interfaces(m)) :
       LET all == { <<a.name, a.type>> : a \in UNION { ToSet(p.attributes) :
                      p \in {c} \cup { Get(Interfaces(m), u) : u \in ToSet(AllParents(m, c.uuid)) } } }
           roles == [i \in DOMAIN Associations(m, c) |-> AssociationName(Associations(m, c)[i])]
       IN /\ \A x, y \in all : SnakeString(x[1]) = SnakeString(y[1]) => x = y
          /\ c.stereo = "Entity" => /\ IsInjective(roles)
                                    /\ \A x \in all : x[1] \notin ToSet(roles)

\* What the editor lets a user draw and the server can build: ends that exist,
\* no class inherited twice, no class related with itself, an id everywhere,
\* nothing without attributes.
Drawable(m) ==
  /\ m.packages <= Len(m.relations)
  /\ \A r \in ToSet(m.relations) :
       {r.source, r.target} \subseteq Drawn(m) /\ (r.type = "inherit" => r.target \in Abstracts(m))
  /\ RootInterfaces(m) = <<>> /\ RootEnities(m) # <<>>
  /\ \A x \in ToSet(m.classes) : \A a \in ToSet(x.attributes) :
       a.type = "Enum" => FindsEnum(m, x, a)
  /\ ~ OrchestrationPanics(m)
  /\ LET g == GraphNew(DomainNew(m)) IN
       /\ \A u \in Drawn(m) : IsInjective(AllParents(g, u))
       /\ \A r \in ToSet(Relations(g)) : r.sourceEntity # r.targetEntity
       /\ \A x \in ToSet(Classes(g)) : AllAttributes(g, x) # <<>>
       /\ \A e \in ToSet(Entities(g)) : Named(AllAttributes(g, e), <<"id">>)
       /\ DrawnNames(g)

Publishes == drawing' # drawing /\ Drawable(drawing')

\* A drawing that can be drawn gets a schema the server can serve: making it
\* does not panic, every type that is reached has one definition and something
\* in it, and every type a field or an argument names is defined
\* (schema.New, graphql.NewSchema).
SchemaIsClosed == [][ Publishes =>
  /\ graph' # <<>>
  /\ LET types == SchemaTypes(graph')  names == { d.name : d \in types } IN
       /\ Cardinality(names) = Cardinality(types)
       /\ \A d \in types : d.fields # {} /\ Mentions(d) \subseteq names \cup Scalars ]_vars

\* An entity has the fields of every interface it says it implements, with the
\* same types, so a client can ask for an interface and get any of them.
ImplementsInterfaces == [][ Publishes =>
  LET types == SchemaTypes(graph') IN
  \A d \in types : \A i \in types :
    i.kind = "interface" /\ i.name \in d.interfaces => i.fields \subseteq d.fields ]_vars

\* The tables of a drawing have different names and identities, and the
\* columns of a table different names, in the case of the database; a pivot
\* table has a column for each end.
TablesFit == [][ Publishes =>
  LET ts == Tables(graph') IN
  /\ IsInjective([i \in DOMAIN ts |-> ts[i].name])
  /\ IsInjective([i \in DOMAIN ts |-> ts[i].uuid])
  /\ \A t \in ToSet(ts) : IsInjective([i \in DOMAIN t.columns |-> SnakeString(t.columns[i])]) ]_vars

\* Entities an object of e is composed of, at any depth.
RECURSIVE PartsOf(_, _)
PartsOf(m, es) ==
  LET more == { r.targetEntity : r \in { x \in ToSet(Relations(m)) :
                  x.type \in {"oneWayCombination", "twoWayCombination"} /\ x.sourceEntity \in es } } \ es
  IN IF more = {} THEN es ELSE PartsOf(m, es \cup more)

\* A version of an object asks for every entity the object is composed of and
\* for no other, each once although compositions may form diamonds and loops,
\* and each below one that it asks for (makeFieldsGql).
VersionIsWhole == [][ Publishes => \A e \in ToSet(RootEnities(graph')) :
  LET v == VersionOf(graph', e) IN
  /\ { x.entity : x \in ToSet(v) } = { p.uuid : p \in PartsOf(graph', {e}) }
  /\ IsInjective([i \in DOMAIN v |-> v[i].entity])
  /\ \A i \in DOMAIN v : v[i].path # <<>> => \E j \in 1..(i - 1) : v[j].path = Front(v[i].path) ]_vars

-----------------------------------------------------------------------------
(* What an answer means *)

Operators == {"_eq", "_gt", "_gte", "_lt", "_lte", "_notEq", "_in", "_isNull", "_iLike", "_like",
              "_notILike", "_notLike"}

\* What an operator says of a value, NULL being unknown: _like and _notLike tell
\* upper and lower case apart, all others take texts that differ in case alone
\* for the same.
Compares(op, column, v, vals) ==
  LET is(w) == Collated(column, v) = Collated(column, w)
      before == Collated(column, v) < Collated(column, vals[1])
  IN IF v = 0 THEN op = "_isNull" ELSE
     CASE op \in {"_eq", "_iLike"} -> is(vals[1])
       [] op \in {"_notEq", "_notILike"} -> ~ is(vals[1])
       [] op = "_gt" -> ~ before /\ ~ is(vals[1])
       [] op = "_gte" -> ~ before
       [] op = "_lt" -> before
       [] op = "_lte" -> before \/ is(vals[1])
       [] op = "_in" -> \E i \in DOMAIN vals : is(vals[i])
       [] op = "_like" -> v = vals[1]
       [] op = "_notLike" -> v # vals[1]
       [] op = "_isNull" -> FALSE

\* The objects an association leads to, whatever its columns are called.
Related(d, a, id) ==
  LET pairs == d.pivot[PivotTable(a.relation)]
  IN IF IsSource(a) THEN { p[2] : p \in { q \in pairs : q[1] = id } }
     ELSE { p[1] : p \in { q \in pairs : q[2] = id } }
RelatedRows(d, a, id) == Related(d, a, id) \cap d.rows[TypeEntity(a).uuid]

\* What a where map asks of an object: all of its keys.
RECURSIVE Matches(_, _, _, _, _)
Matches(m, d, e, id, w) == \A k \in ToSet(w) :
  CASE k.key = <<"_and">> -> \A s \in ToSet(k.subs) : Matches(m, d, e, id, s)
    [] k.key = <<"_or">> -> \E s \in ToSet(k.subs) : Matches(m, d, e, id, s)
    [] HasAssociation(m, e, k.key) ->
         LET a == GetAssociationByName(m, e, k.key)
         IN \E x \in RelatedRows(d, a, id) : Matches(m, d, TypeEntity(a), x, k.subs[1])
    [] OTHER -> \A o \in ToSet(k.ops) : Compares(o.op, k.key, ValueOf(d, id, k.key), o.vals)

\* The paths of associations a where map names, as often as it names them.
RECURSIVE Paths(_, _, _, _)
Paths(m, e, alias, w) == FlattenSeq([i \in DOMAIN w |->
  IF w[i].key \in Logical THEN FlattenSeq([j \in DOMAIN w[i].subs |-> Paths(m, e, alias, w[i].subs[j])])
  ELSE IF HasAssociation(m, e, w[i].key)
  THEN <<Append(alias, w[i].key)>> \o
       Paths(m, TypeEntity(GetAssociationByName(m, e, w[i].key)), Append(alias, w[i].key), w[i].subs[1])
  ELSE <<>>])

\* Where maps the server answers as they read: one operator for an attribute;
\* "_or" by itself, at the top, in another "_or" or below an association;
\* "_isNull" and nothing at all not below an association; no "_not".
RECURSIVE Sound(_, _, _, _, _)
Sound(m, e, w, alone, below) == \A k \in ToSet(w) :
  CASE k.key = <<"_not">> -> FALSE
    [] k.key = <<"_or">> -> /\ alone /\ Len(w) = 1 /\ k.subs # <<>>
                            /\ \A s \in ToSet(k.subs) : s # <<>> /\ Sound(m, e, s, TRUE, below)
    [] k.key = <<"_and">> -> /\ k.subs # <<>>
                             /\ \A s \in ToSet(k.subs) :
                                  s # <<>> /\ Sound(m, e, s, alone /\ Len(w) = 1 /\ Len(k.subs) = 1, below)
    [] HasAssociation(m, e, k.key) ->
         /\ k.subs[1] # <<>>
         /\ Sound(m, TypeEntity(GetAssociationByName(m, e, k.key)), k.subs[1], TRUE, TRUE)
    [] OTHER -> /\ Len(k.ops) = 1 /\ k.ops[1].op \in Operators
                /\ k.ops[1].op = "_isNull" => ~ below /\ k.ops[1].vals = <<1>>

IsSound(e, args) ==
  /\ Sound(graph, e, args.where, TRUE, FALSE)
  /\ IsInjective(Paths(graph, e, <<>>, args.where))
  /\ ~ OrderRefused(args.order) /\ (args.offset = 0 \/ args.limit # 0)

Matched(e, d, args) == { id \in d.rows[e.uuid] : Matches(graph, d, e, id, args.where) }
Asked(kinds) == answer.kind \in kinds /\ IsSound(answer.entity, answer.args)
Whole == answer.args.limit = 0

\* A request that can be answered is, with exactly the objects that match what
\* it asks when its records are read, or some of them if it sets a limit; one
\* object if it asks for one.  Texts are compared as the collation of the tables
\* does, which ignores case, but for the operators that are to heed it
\* (BuildBoolExp, BuildFieldExp, buildArgAssociation).
NodesAreMatches == Asked({"list", "one"}) =>
  LET found == Matched(answer.entity, answer.db, answer.args) IN
  /\ answer.ok
  /\ ToSet(answer.nodes) \subseteq found
  /\ answer.kind = "list" /\ answer.read # {} /\ Whole => ToSet(answer.nodes) = found
  /\ answer.kind = "one" /\ Whole /\ found # {} => Len(answer.nodes) = 1

\* The total of a list is of the moment at which it is counted, after the list:
\* it counts each object that matches then, once if no association is joined.  If
\* the database is the one the list was read from, the total counts what the list
\* has and what a limit cuts off: the count selects and joins as the records do
\* (buildQueryEntityCountSQL, buildQueryEntityRecordsSQL).
TotalCountsNodes == Asked({"list"}) /\ Counted =>
  LET found == Matched(answer.entity, answer.countDb, answer.args) IN
  /\ Cardinality(found) <= answer.total
  /\ Paths(graph, answer.entity, <<>>, answer.args.where) = <<>> => Cardinality(found) = answer.total
  /\ answer.read # {} /\ answer.countDb = answer.db =>
       /\ Len(answer.nodes) <= answer.total
       /\ Whole => Len(answer.nodes) = answer.total

\* What was deleted are the objects that matched when the request read them:
\* none that began to match since, none more and none less
\* (DeleteResolveFn reads and deletes in two transactions).
DeletesWhatMatched == [][
  (answer.kind = "find" /\ answer'.kind = "deleted") /\ Asked({"find"}) /\ Whole =>
    db'.rows[answer.entity.uuid] =
      db.rows[answer.entity.uuid] \ Matched(answer.entity, answer.db, answer.args) ]_vars

\* Each owner gets the objects that are associated with it and match the
\* arguments of the loader, although one query answers for all the owners of a
\* batch and "_or" lets rows of others through
\* (BatchRealAssociations, QueryBatchFn, findInstanceFromArray).
LoaderAnswersEachOwner == \A path \in DOMAIN loaders :
  LET a == loaders[path].association  args == loaders[path].args  e == TypeEntity(a) IN
  IsSound(e, args) => \A id \in DOMAIN loaders[path].got :
    LET got == loaders[path].got[id] IN
    got.ok => { x.row[<<>>] : x \in got.rows } = Related(got.db, a, id) \cap Matched(e, got.db, args)
=============================================================================
