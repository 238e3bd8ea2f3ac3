---------------------------- MODULE QueryBuilder ----------------------------
(***************************************************************************)
(* How a query becomes SQL and what the database answers                   *)
(* (src/db/dialect/mysql/query.go, src/orm/query.go,                       *)
(* src/model/graph/args.go).                                               *)
(*                                                                         *)
(* A where map is a sequence of [key, ops, subs], in the order in which Go *)
(* happens to range over it: an attribute has ops, each [op, vals], an     *)
(* association and _and, _or, _not have subs, where maps themselves.       *)
(*                                                                         *)
(* A text is a condition in SQL, [ors, ok]: a sequence, joined by OR, of   *)
(* sequences, joined by AND, of atoms, as the database parses it.  It is   *)
(* empty if ors is, and not ok if the database refuses it or its           *)
(* parameters.  An alias is the path of associations that leads to it.     *)
(*                                                                         *)
(* A database is [rows, val, pivot]: the ids of an entity, the value of a  *)
(* column of an id, the pairs of a pivot table.  0 is NULL.                *)
(***************************************************************************)
EXTENDS ModelGraph

Logical == { <<"_and">>, <<"_or">>, <<"_not">> }
HasAssociation(m, e, name) == LET as == Associations(m, e)
                              IN \E i \in DOMAIN as : AssociationName(as[i]) = name
GetAssociationByName(m, e, name) ==
  LET as == Associations(m, e)
  IN as[CHOOSE i \in DOMAIN as : /\ AssociationName(as[i]) = name
                                 /\ \A j \in 1..(i - 1) : AssociationName(as[j]) # name]

-----------------------------------------------------------------------------
(* Texts *)

EmptyText == [ors |-> <<>>, ok |-> TRUE]
Refused == [ors |-> <<<<>>>>, ok |-> FALSE]
Atom(op, alias, column, vals) ==
  [ors |-> << << [op |-> op, alias |-> alias, column |-> column, vals |-> vals, ors |-> <<>>] >> >>, ok |-> TRUE]

\* "(" and ")" around nothing is refused.
Paren(t) == IF t.ors = <<>> THEN Refused
            ELSE [ors |-> << << [op |-> "()", alias |-> <<>>, column |-> <<>>, vals |-> <<>>, ors |-> t.ors] >> >>,
                  ok |-> t.ok]

Accepted(ts) == /\ \A i \in DOMAIN ts : ts[i].ok
                /\ Len(ts) > 1 => \A i \in DOMAIN ts : ts[i].ors # <<>>

\* Without parentheses "a OR b" AND "c OR d" is a OR (b AND c) OR d.
AndThen(s, t) == IF s = <<>> THEN t ELSE IF t = <<>> THEN s
                 ELSE Front(s) \o << Last(s) \o Head(t) >> \o Tail(t)

JoinAnd(ts) == [ors |-> FoldLeft(LAMBDA acc, t : AndThen(acc, t.ors), <<>>, ts), ok |-> Accepted(ts)]
JoinOr(ts) == [ors |-> FlattenSeq([i \in DOMAIN ts |-> ts[i].ors]), ok |-> Accepted(ts)]

-----------------------------------------------------------------------------
(* BuildFieldExp, BuildBoolExp, BuildWhereSQL *)

\* Mutant: _like and _iLike have changed places.
SqlOperatorSwapped ==
  [_eq |-> "=", _gt |-> ">", _gte |-> ">=", _lt |-> "<", _lte |-> "<=", _notEq |-> "<>",
   _in |-> "IN", _isNull |-> "ISNULL", _iLike |-> "LIKE BINARY", _like |-> "LIKE",
   _notILike |-> "NOT LIKE", _notLike |-> "NOT LIKE BINARY", _notRegexp |-> "NOT REGEXP"]

SqlOperator ==
  [_eq |-> "=", _gt |-> ">", _gte |-> ">=", _lt |-> "<", _lte |-> "<=", _notEq |-> "<>",
   _in |-> "IN", _isNull |-> "ISNULL", _iLike |-> "LIKE", _like |-> "LIKE BINARY",
   _notILike |-> "NOT LIKE", _notLike |-> "NOT LIKE BINARY", _notRegexp |-> "NOT REGEXP"]

\* _notIn expects a list of strings, which no request brings: a panic.
Panics(ops) == \E i \in DOMAIN ops : ops[i].op = "_notIn"

\* _isNull says something only if it is true.
Says(o) == o.op = "_isNull" => o.vals = <<1>>
Params(o) == IF o.op = "_isNull" THEN 0 ELSE Len(o.vals)

\* Of several operators the last is written, the values of all are given.
BuildFieldExp(alias, column, ops) ==
  LET said == SelectSeq(ops, Says)  o == Last(said) IN
  IF said = <<>> \/ Panics(ops) \/ o.op = "_regexp" THEN Refused
  ELSE IF FoldLeft(LAMBDA n, x : n + Params(x), 0, ops) # Params(o) THEN Refused
  ELSE IF o.op = "_in" /\ o.vals = <<>> THEN Atom("false", alias, column, <<>>)
  ELSE Atom(SqlOperator[o.op], alias, column, o.vals)

\* _not is dropped, _or is joined to its neighbours without parentheses.
RECURSIVE BuildBoolExp(_, _, _, _)
BuildBoolExp(m, e, alias, w) ==
  LET all(subs) == [i \in DOMAIN subs |-> BuildBoolExp(m, e, alias, subs[i])]
      associated(k) ==
        BuildBoolExp(m, TypeEntity(GetAssociationByName(m, e, k.key)), Append(alias, k.key), k.subs[1])
      pieces(k) == CASE k.key = <<"_and">> -> all(k.subs)
                     [] k.key = <<"_or">> -> << JoinOr(all(k.subs)) >>
                     [] k.key = <<"_not">> -> <<>>
                     [] HasAssociation(m, e, k.key) ->
                          LET t == associated(k) IN << IF t.ors = <<>> THEN EmptyText ELSE Paren(t) >>
                     [] OTHER -> << Paren(BuildFieldExp(alias, k.key, k.ops)) >>
  IN JoinAnd(FlattenSeq([i \in DOMAIN w |-> pieces(w[i])]))

\* buildWhereEntity: the aliases to join, one for an association however often
\* it is named, below _not too.
RECURSIVE Joined(_, _, _, _)
Joined(m, e, alias, w) ==
  UNION { IF k.key \in Logical THEN UNION { Joined(m, e, alias, s) : s \in ToSet(k.subs) }
          ELSE IF HasAssociation(m, e, k.key)
          THEN {Append(alias, k.key)}
               \cup Joined(m, TypeEntity(GetAssociationByName(m, e, k.key)), Append(alias, k.key), k.subs[1])
          ELSE {} : k \in ToSet(w) }

-----------------------------------------------------------------------------
(* The database *)

RECURSIVE EntityAt(_, _, _)
EntityAt(m, e, alias) ==
  IF alias = <<>> THEN e
  ELSE EntityAt(m, TypeEntity(GetAssociationByName(m, e, Head(alias))), Tail(alias))

\* A column of a row of a pivot table, by the name of the column.
PivotValue(r, pair, column) == IF NewRelationTable(r).columns[1] = column THEN pair[1] ELSE pair[2]

PivotTable(r) == NewRelationTable(r).uuid

\* buildArgAssociation: LEFT JOIN of the pivot table and of the other entity; a
\* pivot row of an object that is gone leads to NULL.
LeftJoin(db, a, owner) ==
  LET r == a.relation
      rows == { p \in db.pivot[PivotTable(r)] : PivotValue(r, p, TableName(Owner(a))) = owner }
      found(p) == PivotValue(r, p, TableName(TypeEntity(a)))
  IN IF owner = 0 \/ rows = {} THEN {0}
     ELSE { IF found(p) \in db.rows[TypeEntity(a).uuid] THEN found(p) ELSE 0 : p \in rows }

\* The rows of FROM: an id, or NULL, for every alias.
From(m, db, e, aliases) ==
  LET by == [p \in aliases |-> GetAssociationByName(m, EntityAt(m, e, Front(p)), Last(p))]
      ends == [p \in aliases |-> [x \in DOMAIN db.val \cup {0} |-> LeftJoin(db, by[p], x)]]
  IN { f \in [aliases \cup {<<>>} -> DOMAIN db.val \cup {0}] :
         /\ f[<<>>] \in db.rows[e.uuid]
         /\ \A p \in aliases : f[p] \in ends[p][f[Front(p)]] }

\* The tables have the collation of the database, which ignores case unless its
\* owner has chosen another: all comparisons, patterns and orders are of what
\* Collated gives, and only BINARY tells texts apart whose halves are equal.  A
\* column other than the id is a text here, a pattern one without wildcards.
Collated(column, v) == IF column = <<"id">> THEN v ELSE v \div 2

SqlCompare(op, column, v, vals) ==
  LET x == Collated(column, v)
      y == Collated(column, vals[1])
  IN CASE op = "ISNULL" -> v = 0
       [] op = "false" \/ v = 0 -> FALSE
       [] op \in {"=", "LIKE"} -> x = y
       [] op \in {"<>", "NOT LIKE", "NOT REGEXP"} -> x # y
       [] op = ">" -> x > y
       [] op = ">=" -> x >= y
       [] op = "<" -> x < y
       [] op = "<=" -> x <= y
       [] op = "IN" -> \E w \in ToSet(vals) : x = Collated(column, w)
       [] op = "LIKE BINARY" -> v = vals[1]
       [] op = "NOT LIKE BINARY" -> v # vals[1]

ValueOf(db, id, column) == IF id = 0 THEN 0 ELSE IF column = <<"id">> THEN id ELSE db.val[id][column]

\* A condition on a row of FROM and on the owner the pivot row names, if any.
RECURSIVE SqlHolds(_, _, _, _)
SqlHolds(db, f, owner, ors) ==
  \E i \in DOMAIN ors : \A j \in DOMAIN ors[i] :
    LET x == ors[i][j] IN
    CASE x.op = "()" -> SqlHolds(db, f, owner, x.ors)
      [] x.op = "owners" -> owner \in ToSet(x.vals)
      [] OTHER -> SqlCompare(x.op, x.column, ValueOf(db, f[x.alias], x.column), x.vals)

Selected(db, from, text) == { f \in from : text.ors = <<>> \/ SqlHolds(db, f, 0, text.ors) }

-----------------------------------------------------------------------------
(* orm/query.go *)

\* BuildOrderBySQL writes what it is given, the database knows two of the six.
OrderRefused(order) == \E i \in DOMAIN order : order[i].dir \notin {"asc", "desc"}

\* f may come before g; NULL comes before every value.
InOrder(db, order, f, g) ==
  LET value(h, i) == ValueOf(db, h[<<>>], order[i].key)
      v(h, i) == IF value(h, i) = 0 THEN 0 ELSE 1 + Collated(order[i].key, value(h, i))
      before(i) == IF order[i].dir = "asc" THEN v(f, i) < v(g, i) ELSE v(f, i) > v(g, i)
  IN \/ \A i \in DOMAIN order : v(f, i) = v(g, i)
     \/ \E i \in DOMAIN order : before(i) /\ \A j \in 1..(i - 1) : v(f, j) = v(g, j)

Sorted(db, order, s) == \A i \in 1..(Len(s) - 1) : InOrder(db, order, s[i], s[i + 1])

\* args: [where, order, limit, offset], the last two 0 if not given.
RecordsRefused(args, text) == ~ text.ok \/ OrderRefused(args.order) \/ (args.offset # 0 /\ args.limit = 0)

Cut(args, s) == LET t == SubSeq(s, args.offset + 1, Len(s))
                IN IF args.limit = 0 \/ args.limit > Len(t) THEN t ELSE SubSeq(t, 1, args.limit)

\* buildQueryEntityRecordsSQL: the sequences of ids the database may answer.
Records(m, db, e, args) ==
  LET text == BuildBoolExp(m, e, <<>>, args.where)
      found == Selected(db, From(m, db, e, Joined(m, e, <<>>, args.where)), text)
  IN { [i \in DOMAIN Cut(args, s) |-> Cut(args, s)[i][<<>>]] :
       s \in { t \in SetToSeqs(found) : Sorted(db, args.order, t) } }

\* Mutant: the count is of the table alone.
CountBare(m, db, e, args) ==
  Cardinality(Selected(db, From(m, db, e, {}), BuildBoolExp(m, e, <<>>, <<>>)))

\* buildQueryEntityCountSQL, which knows no limit.
Count(m, db, e, args) ==
  Cardinality(Selected(db, From(m, db, e, Joined(m, e, <<>>, args.where)),
                       BuildBoolExp(m, e, <<>>, args.where)))

\* The first statement of Session.Query, for the attributes it is to read: the
\* answers there may be.  Without attributes it is not sent.
QueryRecords(m, db, e, args, read) ==
  IF read = {} THEN { [ok |-> TRUE, nodes |-> <<>>] }
  ELSE IF RecordsRefused(args, BuildBoolExp(m, e, <<>>, args.where)) THEN { [ok |-> FALSE, nodes |-> <<>>] }
  ELSE { [ok |-> TRUE, nodes |-> s] : s \in Records(m, db, e, args) }

\* The second statement, the count, is refused.
CountRefused(m, e, args) == ~ BuildBoolExp(m, e, <<>>, args.where).ok \/ OrderRefused(args.order)

-----------------------------------------------------------------------------
(* BuildBatchAssociationBodySQL, BatchRealAssociations *)

\* Mutant: everybody gets the rows of the batch.
findInstanceFromArrayAll(id, array) == { x \in array : TRUE }

\* resolve/loaders.go: of the rows of a batch those of one owner.
findInstanceFromArray(id, array) == { x \in array : x.owner = id }

OwnersAtom(ids) == Atom("owners", <<>>, <<>>, ids)

\* The rows of the batch: an object, the owner its pivot row names.  The first
\* alternative of an OR is all that the owners restrict.
BatchRows(m, db, a, ids, args) ==
  LET e == TypeEntity(a)  r == a.relation
      where == BuildBoolExp(m, e, <<>>, args.where)
      text == IF where.ors = <<>> THEN OwnersAtom(ids) ELSE JoinAnd(<<OwnersAtom(ids), where>>)
      rows == { <<f, p>> \in From(m, db, e, Joined(m, e, <<>>, args.where)) \X db.pivot[PivotTable(r)] :
                PivotValue(r, p, TableName(e)) = f[<<>>] }
      owner(p) == PivotValue(r, p, TableName(Owner(a)))
  IN { [row |-> x[1], owner |-> owner(x[2])] : x \in { y \in rows : SqlHolds(db, y[1], owner(y[2]), text.ors) } }

BatchRefused(m, a, args) == ~ BuildBoolExp(m, TypeEntity(a), <<>>, args.where).ok \/ OrderRefused(args.order)

\* QueryBatchFn: several values for one place are a panic, for the whole batch.
BatchPanics(m, db, a, ids, args) ==
  ~ IsArray(a) /\ \E id \in ToSet(ids) :
     Cardinality(findInstanceFromArray(id, BatchRows(m, db, a, ids, args))) > 1

\* What the owner gets: rows, an object as often as it is among them.
QueryBatch(m, db, a, ids, args) ==
  [id \in ToSet(ids) |-> findInstanceFromArray(id, BatchRows(m, db, a, ids, args))]
=============================================================================
