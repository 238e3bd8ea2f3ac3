-------------------------- MODULE AssociationSession --------------------------
(***************************************************************************)
(* How a request is served (service/save.go, service/delete.go, orm/save.go *)
(* and orm/delete.go): one transaction of many SQL statements, which runs  *)
(* beside the transactions of other requests.                              *)
(*                                                                         *)
(* The database is MySQL with the default isolation, REPEATABLE READ: a    *)
(* SELECT reads the snapshot taken by the first SELECT of the transaction, *)
(* with the changes of the transaction itself; UPDATE, DELETE and INSERT   *)
(* work on the current rows and wait for the locks of the others, and a    *)
(* DELETE by an indexed column keeps others from inserting that value.     *)
(* The pivot table has no unique key (graph/table.go).                     *)
(***************************************************************************)
EXTENDS AssociationModel

CONSTANTS Sessions, None,
          InitialRows, InitialLinks,
          OneTarget,       \* the source's association is not an array
          MaxRequests             \* bound

ASSUME InitialAssumption == InitialRows \subseteq Ids /\ InitialLinks \subseteq Pairs
ASSUME NoneAssumption == None \notin Ids \cup [rows : SUBSET Ids, links : [Pairs -> Nat]]
ASSUME BoundAssumption == MaxRequests \in Nat

VARIABLES
  rows, links,  \* committed: objects, and copies of each pivot row
  used,         \* ids the AUTO_INCREMENT columns have given
  count,        \* requests begun
  pc, req,      \* per session: control and request
  snap,         \* what its SELECTs read: None or [rows, links]
  born, dead,   \* rows it inserted and wrote or deleted
  touched,      \* rows it updated
  ins, gone,    \* pivot rows it inserted and deleted
  gaps,         \* values of pivot columns others may not insert
  drop,         \* objects it has still to delete,
  shed,         \* ids whose pivot rows by TypeColumn,
  cut,          \* objects whose pivot row with the owner
  saving,       \* instances it has still to save,
  linking       \* and the object it is about to link

database == <<rows, links, used>>
transaction == <<snap, born, dead, touched, ins, gone, gaps>>
work == <<drop, shed, cut, saving, linking>>
vars == <<database, count, pc, req, transaction, work>>

NoRequest == [kind |-> "delete", owner |-> CHOOSE i \in Ids : TRUE, clear |-> FALSE,
              sync |-> {}, save |-> {}, remove |-> {}, cascade |-> FALSE]

Init ==
  /\ rows = InitialRows
  /\ links = [pr \in Pairs |-> IF pr \in InitialLinks THEN 1 ELSE 0]
  /\ used = InitialRows
  /\ count = 0
  /\ pc = [s \in Sessions |-> "idle"] /\ req = [s \in Sessions |-> NoRequest]
  /\ snap = [s \in Sessions |-> None]
  /\ born = [s \in Sessions |-> {}] /\ dead = born /\ touched = born
  /\ ins = born /\ gone = born /\ gaps = born
  /\ drop = born /\ shed = born /\ cut = born /\ saving = born
  /\ linking = [s \in Sessions |-> None]

-----------------------------------------------------------------------------
(* MySQL *)

Snapshot(s) == IF snap[s] = None THEN [rows |-> rows, links |-> links] ELSE snap[s]
Select(s) == snap' = [snap EXCEPT ![s] = Snapshot(s)]

RowsSeen(s) == (Snapshot(s).rows \cup born[s]) \ dead[s]
LinksSeen(s) == { pr \in Pairs : pr \in ins[s] \/ (Snapshot(s).links[pr] > 0 /\ pr \notin gone[s]) }

\* QueryAssociatedInstances joins the pivot table with the objects' table.
AssociatedSeen(s, o) ==
  { x \in TypeEntity(o) \cap RowsSeen(s) : newAssociationPovit(o, x) \in LinksSeen(s) }

Others(s) == Sessions \ {s}
RowIsFree(s, x) == \A t \in Others(s) : x \notin born[t] \cup dead[t] \cup touched[t]

InsertRow(s, x) ==
  /\ x \notin used
  /\ used' = used \cup {x}
  /\ born' = [born EXCEPT ![s] = @ \cup {x}]
  /\ UNCHANGED <<dead, touched>>

UpdateRow(s, x) ==
  /\ RowIsFree(s, x)
  /\ touched' = [touched EXCEPT ![s] = @ \cup {x}]
  /\ UNCHANGED <<used, born, dead>>

RemoveRow(s, x) ==
  /\ RowIsFree(s, x)
  /\ dead' = [dead EXCEPT ![s] = @ \cup {x}]
  /\ UNCHANGED <<used, born, touched>>

\* DELETE of the current pivot rows in prs, found in the index at value k.
DeleteLinks(s, prs, k) ==
  /\ \A t \in Others(s) : prs \cap (ins[t] \cup gone[t]) = {}
  /\ gone' = [gone EXCEPT ![s] = @ \cup { pr \in prs : links[pr] > 0 }]
  /\ ins' = [ins EXCEPT ![s] = @ \ prs]
  /\ gaps' = [gaps EXCEPT ![s] = @ \cup {k}]

InsertLink(s, pr) ==
  /\ \A t \in Others(s) : {pr[1], pr[2]} \cap gaps[t] = {}
  /\ ins' = [ins EXCEPT ![s] = @ \cup {pr}]
  /\ UNCHANGED <<gone, gaps>>

-----------------------------------------------------------------------------
Goto(s, label) == pc' = [pc EXCEPT ![s] = label]

\* BeginTx
Begin(s, r) ==
  /\ pc[s] = "idle" /\ count < MaxRequests
  /\ Born(r) \cap used = {}
  /\ req' = [req EXCEPT ![s] = r] /\ count' = count + 1
  /\ Goto(s, r.kind)
  /\ UNCHANGED <<database, transaction, work>>

\* UpdateOne: the object is read before it is locked by the UPDATE.
FindOwner(s) ==
  /\ pc[s] = "update" /\ req[s].owner \in RowsSeen(s)
  /\ Select(s) /\ Goto(s, "write")
  /\ UNCHANGED <<database, count, req, born, dead, touched, ins, gone, gaps, work>>

updateOneBody(s) ==
  /\ pc[s] = "write" /\ UpdateRow(s, req[s].owner)
  /\ Goto(s, "associate")
  /\ UNCHANGED <<rows, links, count, req, snap, ins, gone, gaps, work>>

insertOneBody(s) ==
  /\ pc[s] = "insert" /\ InsertRow(s, req[s].owner)
  /\ Goto(s, "associate")
  /\ UNCHANGED <<rows, links, count, req, snap, ins, gone, gaps, work>>

\* DeleteInstance; an instance made from an id alone has no associations.
DeleteOwner(s) ==
  /\ pc[s] = "delete" /\ RemoveRow(s, req[s].owner)
  /\ Goto(s, "work")
  /\ UNCHANGED <<rows, links, count, req, snap, ins, gone, gaps, work>>

\* clearAssociation: the pivot rows are looked up by the owner's id in the
\* other side's column.
ClearAssociation(s) ==
  LET o == req[s].owner IN
  /\ pc[s] = "associate" /\ req[s].clear
  /\ IF IsCombination(o) THEN /\ Select(s)
                              /\ drop' = [drop EXCEPT ![s] = AssociatedSeen(s, o)]
     ELSE UNCHANGED <<snap, drop>>
  /\ shed' = [shed EXCEPT ![s] = {o}]
  /\ Goto(s, "work")
  /\ UNCHANGED <<database, count, req, born, dead, touched, ins, gone, gaps, cut, saving, linking>>

clearSyncedAssociation(s) ==
  LET o == req[s].owner
      doomed == AssociatedSeen(s, o) \ IdsOf(req[s].sync)
  IN /\ pc[s] = "associate" /\ ~ req[s].clear /\ req[s].sync # {}
     /\ Select(s)
     /\ drop' = [drop EXCEPT ![s] = IF IsCombination(o) THEN doomed ELSE {}]
     /\ shed' = [shed EXCEPT ![s] = doomed]
     /\ saving' = [saving EXCEPT ![s] = req[s].sync]
     /\ Goto(s, "work")
     /\ UNCHANGED <<database, count, req, born, dead, touched, ins, gone, gaps, cut, linking>>

ChangeAssociation(s) ==
  LET r == req[s] IN
  /\ pc[s] = "associate" /\ ~ r.clear /\ r.sync = {}
  /\ drop' = [drop EXCEPT ![s] = IF Cascade(r) THEN r.remove ELSE {}]
  /\ cut' = [cut EXCEPT ![s] = IF Cascade(r) THEN {} ELSE r.remove]
  /\ saving' = [saving EXCEPT ![s] = r.save]
  /\ Goto(s, "work")
  /\ UNCHANGED <<database, count, req, transaction, shed, linking>>

-----------------------------------------------------------------------------
(* The statements of a save, in the order of the code: an object and its    *)
(* pivot rows are removed before the next one, and all before any is saved. *)

DeleteInstance(s, x) ==
  /\ pc[s] = "work" /\ x \in drop[s] /\ shed[s] \ drop[s] \subseteq {req[s].owner}
  /\ RemoveRow(s, x)
  /\ drop' = [drop EXCEPT ![s] = @ \ {x}]
  /\ UNCHANGED <<rows, links, count, pc, req, snap, ins, gone, gaps, shed, cut, saving, linking>>

\* Mutant: a single pivot row is not counted.
deleteAssociationPovitMany(s, x) ==
  LET prs == { pr \in Pairs : TypeColumn(req[s].owner, pr) = x } IN
  /\ pc[s] = "work" /\ x \in shed[s] \ drop[s] /\ (x = req[s].owner => drop[s] = {})
  /\ Select(s)
  /\ IF Cardinality(prs \cap LinksSeen(s)) > 1 THEN DeleteLinks(s, prs, x)
     ELSE UNCHANGED <<ins, gone, gaps>>
  /\ shed' = [shed EXCEPT ![s] = @ \ {x}]
  /\ UNCHANGED <<database, count, pc, req, born, dead, touched, drop, cut, saving, linking>>

\* Counts before it deletes, to avoid a deadlock; the count is a SELECT.
deleteAssociationPovit(s, x) ==
  LET prs == { pr \in Pairs : TypeColumn(req[s].owner, pr) = x } IN
  /\ pc[s] = "work" /\ x \in shed[s] \ drop[s] /\ (x = req[s].owner => drop[s] = {})
  /\ Select(s)
  /\ IF prs \cap LinksSeen(s) # {} THEN DeleteLinks(s, prs, x)
     ELSE UNCHANGED <<ins, gone, gaps>>
  /\ shed' = [shed EXCEPT ![s] = @ \ {x}]
  /\ UNCHANGED <<database, count, pc, req, born, dead, touched, drop, cut, saving, linking>>

\* Either column's index may serve the DELETE.
DeleteAssociationPovit(s, x) ==
  LET o == req[s].owner IN
  /\ pc[s] = "work" /\ x \in cut[s]
  /\ \E k \in {o, x} : DeleteLinks(s, {newAssociationPovit(o, x)}, k)
  /\ cut' = [cut EXCEPT ![s] = @ \ {x}]
  /\ UNCHANGED <<database, count, pc, req, snap, born, dead, touched, drop, shed, saving, linking>>

Removed(s) == drop[s] = {} /\ shed[s] = {} /\ cut[s] = {}

\* Mutant: the instance is kept where its id is meant.
saveAssociationInstanceWhole(s, i) ==
  /\ pc[s] = "work" /\ Removed(s) /\ linking[s] = None /\ i \in saving[s]
  /\ \/ i.body = "none" /\ UNCHANGED <<used, snap, born, dead, touched>>
     \/ i.body = "new" /\ InsertRow(s, i.id) /\ UNCHANGED snap
     \/ i.body = "fields" /\ i.id \in RowsSeen(s) /\ Select(s) /\ UpdateRow(s, i.id)
  /\ saving' = [saving EXCEPT ![s] = @ \ {i}]
  /\ linking' = [linking EXCEPT ![s] = i]
  /\ UNCHANGED <<rows, links, count, pc, req, ins, gone, gaps, drop, shed, cut>>

saveAssociationInstance(s, i) ==
  /\ pc[s] = "work" /\ Removed(s) /\ linking[s] = None /\ i \in saving[s]
  /\ \/ i.body = "none" /\ UNCHANGED <<used, snap, born, dead, touched>>
     \/ i.body = "new" /\ InsertRow(s, i.id) /\ UNCHANGED snap
     \/ i.body = "fields" /\ i.id \in RowsSeen(s) /\ Select(s) /\ UpdateRow(s, i.id)
  /\ saving' = [saving EXCEPT ![s] = @ \ {i}]
  /\ linking' = [linking EXCEPT ![s] = i.id]
  /\ UNCHANGED <<rows, links, count, pc, req, ins, gone, gaps, drop, shed, cut>>

\* Mutant: only pivot rows of this transaction are looked up.
povitExistsOwn(s, pr) == pr \in ins[s]

povitExists(s, pr) == pr \in LinksSeen(s)

SaveAssociationPovit(s) ==
  LET pr == newAssociationPovit(req[s].owner, linking[s]) IN
  /\ pc[s] = "work" /\ linking[s] # None
  /\ Select(s)
  /\ IF povitExists(s, pr) THEN UNCHANGED <<ins, gone, gaps>> ELSE InsertLink(s, pr)
  /\ linking' = [linking EXCEPT ![s] = None]
  /\ UNCHANGED <<database, count, pc, req, born, dead, touched, drop, shed, cut, saving>>

Done(s) == pc[s] = "work" /\ Removed(s) /\ saving[s] = {} /\ linking[s] = None

\* The locks and the changes of a transaction end with it.
EndTx(s) ==
  /\ Goto(s, "idle") /\ req' = [req EXCEPT ![s] = NoRequest]
  /\ snap' = [snap EXCEPT ![s] = None]
  /\ born' = [born EXCEPT ![s] = {}] /\ dead' = [dead EXCEPT ![s] = {}]
  /\ touched' = [touched EXCEPT ![s] = {}]
  /\ ins' = [ins EXCEPT ![s] = {}] /\ gone' = [gone EXCEPT ![s] = {}]
  /\ gaps' = [gaps EXCEPT ![s] = {}]
  /\ drop' = [drop EXCEPT ![s] = {}] /\ shed' = [shed EXCEPT ![s] = {}]
  /\ cut' = [cut EXCEPT ![s] = {}] /\ saving' = [saving EXCEPT ![s] = {}]
  /\ linking' = [linking EXCEPT ![s] = None]
  /\ UNCHANGED <<used, count>>

Copies(s, pr) == (IF pr \in gone[s] THEN 0 ELSE links[pr]) + (IF pr \in ins[s] THEN 1 ELSE 0)

Commit(s) ==
  /\ Done(s)
  /\ rows' = (rows \cup born[s]) \ dead[s]
  /\ links' = [pr \in Pairs |-> Copies(s, pr)]
  /\ EndTx(s)

\* Mutant: the transaction that is cleared commits what it has done so far.
RollbackCommits(s) ==
  /\ pc[s] # "idle"
  /\ rows' = (rows \cup born[s]) \ dead[s]
  /\ links' = [pr \in Pairs |-> Copies(s, pr)]
  /\ EndTx(s)

\* A statement fails, a panic, the end of a wait for a lock, or the server's
\* death: the deferred ClearTx, or MySQL, rolls the transaction back.
Rollback(s) ==
  /\ pc[s] # "idle"
  /\ UNCHANGED <<rows, links>>
  /\ EndTx(s)

Finished ==
  /\ count = MaxRequests /\ \A s \in Sessions : pc[s] = "idle"
  /\ UNCHANGED vars

Statement(s) ==
  \/ FindOwner(s) \/ updateOneBody(s) \/ insertOneBody(s) \/ DeleteOwner(s)
  \/ ClearAssociation(s) \/ clearSyncedAssociation(s) \/ ChangeAssociation(s)
  \/ \E x \in Ids : \/ DeleteInstance(s, x) \/ deleteAssociationPovit(s, x)
                    \/ DeleteAssociationPovit(s, x)
  \/ \E i \in saving[s] : saveAssociationInstance(s, i)
  \/ SaveAssociationPovit(s)

Next ==
  \/ \E s \in Sessions : \/ \E r \in Requests : Begin(s, r)
                         \/ Statement(s) \/ Commit(s) \/ Rollback(s)
  \/ Finished

Spec == Init /\ [][Next]_vars
-----------------------------------------------------------------------------
TypeOK ==
  /\ rows \subseteq Ids /\ links \in [Pairs -> Nat] /\ used \subseteq Ids /\ count \in 0..MaxRequests
  /\ pc \in [Sessions -> {"idle", "insert", "update", "delete", "write", "associate", "work"}]
  /\ req \in [Sessions -> Request \cup {NoRequest}]
  /\ snap \in [Sessions -> [rows : SUBSET Ids, links : [Pairs -> Nat]] \cup {None}]
  /\ born \in [Sessions -> SUBSET Ids] /\ dead \in [Sessions -> SUBSET Ids]
  /\ touched \in [Sessions -> SUBSET Ids] /\ gaps \in [Sessions -> SUBSET Ids]
  /\ ins \in [Sessions -> SUBSET Pairs] /\ gone \in [Sessions -> SUBSET Pairs]
  /\ drop \in [Sessions -> SUBSET Ids] /\ shed \in [Sessions -> SUBSET Ids]
  /\ cut \in [Sessions -> SUBSET Ids] /\ saving \in [Sessions -> SUBSET Instance]
  /\ linking \in [Sessions -> Ids \cup {None}]

\* The session whose transaction a step commits.
Commits(s) == Done(s) /\ pc'[s] = "idle" /\ <<rows, links>>' # <<rows, links>>

\* A sync leaves its owner with the objects it names and no others, but for
\* links that other requests committed or removed after its snapshot: even
\* between concurrent saves nothing that the sync saw survives it.
SyncIsExact ==
  [][\A s \in Sessions :
       LET o == req[s].owner
           link(x) == newAssociationPovit(o, x)
           now == { x \in TypeEntity(o) : links'[link(x)] > 0 }
       IN (Commits(s) /\ req[s].sync # {} /\ ~ req[s].clear) =>
            /\ \A x \in now \ IdsOf(req[s].sync) :
                 snap[s].links[link(x)] = 0 \/ x \notin snap[s].rows
            /\ \A x \in IdsOf(req[s].sync) \ now :
                 snap[s].links[link(x)] > 0 /\ links[link(x)] = 0]_vars

\* The pivot table has no unique key: a second copy of a link is stored only
\* when the first was committed after the snapshot of the save that adds it.
NoDuplicateSeen ==
  [][\A s \in Sessions, pr \in Pairs :
       (Commits(s) /\ links'[pr] > links[pr] /\ links[pr] > 0) => snap[s].links[pr] = 0]_vars

\* "To many values for ..." (resolve/loaders.go:73): an association that is
\* not an array has at most one value.
AtMostOne ==
  \A p, q \in { pr \in Pairs : links[pr] > 0 } :
     OneTarget /\ p[1] = q[1] => p = q /\ links[p] = 1

\* One request at a time, the statements of a request together do what
\* Associations promises in one step, or nothing.
Promise == INSTANCE Associations WITH linked <- { pr \in Pairs : links[pr] > 0 }
ImplementsPromise == Promise!Spec
=============================================================================
