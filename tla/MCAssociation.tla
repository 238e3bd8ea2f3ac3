---------------------------- MODULE MCAssociation ----------------------------
EXTENDS AssociationSession

CONSTANTS a1, a2, a3, t1, t2, t3   \* a3, t3: ids the database has still to give

Ref(x) == [id |-> x, body |-> "none"]
Edit(x) == [id |-> x, body |-> "fields"]
Add(x) == [id |-> x, body |-> "new"]

Save(o) == [kind |-> "update", owner |-> o, clear |-> FALSE, sync |-> {}, save |-> {},
            remove |-> {}, cascade |-> FALSE]
Sync(o, instances) == [Save(o) EXCEPT !.sync = instances]
Change(o, save, remove) == [Save(o) EXCEPT !.save = save, !.remove = remove]
Insert(r) == [r EXCEPT !.kind = "insert"]
Cascading(r) == [r EXCEPT !.cascade = TRUE]
DeleteById(o) == [Save(o) EXCEPT !.kind = "delete"]
ClearOf(o) == [Save(o) EXCEPT !.clear = TRUE]

MCSources == {a1, a2, a3}
MCTargets == {t1, t2, t3}
MCRows == {a1, a2, t1, t2}
MCLinks == {<<a1, t1>>, <<a1, t2>>, <<a2, t2>>}
NoLinks == {}

\* From both sides, with ids, fields and new objects, and with objects that
\* are named twice or are gone.
SerialRequests ==
  { Sync(a1, {Ref(t1)}), Sync(a1, {Edit(t2), Add(t3)}), Sync(a2, {Edit(t1), Ref(t1)}),
    Sync(t2, {Ref(a2)}), Insert(Sync(a3, {Ref(t1), Edit(t2)})),
    Change(a1, {Edit(t2)}, {t1}), Change(a2, {Add(t3), Ref(t1)}, {}),
    Cascading(Change(a2, {}, {t2})), Change(t2, {Edit(a2)}, {a1}),
    Cascading(Change(t1, {Ref(a2)}, {a1})), DeleteById(a1), DeleteById(t2),
    ClearOf(a1), ClearOf(t2), Save(a2) }

ConcurrentRequests ==
  { Sync(a1, {Ref(t1)}), Sync(a1, {Ref(t2)}), Sync(t2, {Ref(a1)}),
    Change(a2, {Ref(t1)}, {t2}), Change(t1, {Edit(a2)}, {}),
    ClearOf(a1), ClearOf(t2) }

\* Saves of a to-one association, as the GraphQL input type allows them.
ToOneRequests == { Sync(a1, {Ref(t1)}), Sync(a1, {Ref(t2)}) }
=============================================================================
