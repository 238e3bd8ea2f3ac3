-------------------------- MODULE AssociationProofs --------------------------
(***************************************************************************)
(* Proofs about AssociationSession.  For any number of sessions: what a    *)
(* session may hold at each label, why a sync leaves nothing behind of     *)
(* what it saw, and why a link that is there already is not stored again.  *)
(* For one session at a time: that the statements of a request do, when    *)
(* they are committed, what Associations says.                             *)
(***************************************************************************)
EXTENDS AssociationSession, TLAPS

Owner(s) == req[s].owner
Link(s, x) == newAssociationPovit(Owner(s), x)
Syncs(s) == pc[s] = "work" /\ ~ req[s].clear /\ req[s].sync # {}

\* What a session holds before its work begins.
NothingWritten(s) ==
  /\ dead[s] = {} /\ ins[s] = {} /\ gone[s] = {} /\ gaps[s] = {}
  /\ drop[s] = {} /\ shed[s] = {} /\ cut[s] = {} /\ saving[s] = {} /\ linking[s] = None

LabelOK(s) ==
  /\ pc[s] # "idle" => req[s] \in Requests
  /\ pc[s] \in {"idle", "insert", "update", "delete"} => snap[s] = None /\ born[s] = {}
  /\ pc[s] # "work" => NothingWritten(s)
  /\ pc[s] \in {"insert", "update", "delete"} => req[s].kind = pc[s]
  /\ pc[s] = "write" => req[s].kind = "update"
  /\ pc[s] = "associate" => req[s].kind # "delete"

\* A session removes before it saves, and saves what its request names.
WorkOK(s) ==
  /\ saving[s] \subseteq Saved(req[s])
  /\ linking[s] # None => linking[s] \in IdsOf(Saved(req[s]))
  /\ cut[s] \subseteq TypeEntity(Owner(s))
  /\ ~ Removed(s) => ins[s] = {} /\ linking[s] = None /\ saving[s] = Saved(req[s])
  /\ Syncs(s) => snap[s] # None /\ cut[s] = {} /\ shed[s] \subseteq TypeEntity(Owner(s))

SessionInv == TypeOK /\ \A s \in Sessions : LabelOK(s) /\ (pc[s] = "work" => WorkOK(s))

\* A link is added only if the snapshot does not show it, or once it is removed.
AddedIsNew(s) ==
  \A pr \in ins[s] : snap[s] # None /\ (snap[s].links[pr] = 0 \/ pr \in gone[s])

\* What a sync has been asked for is still to save, or it sees the link.
AskedIsLinked(s) ==
  \A i \in req[s].sync : i \in saving[s] \/ linking[s] = i.id \/ Link(s, i.id) \in LinksSeen(s)

\* Nobody else is adding a link to an object whose links a sync has removed.
GapsHold(s) ==
  \A t \in Others(s) : \A pr \in ins[t] : {pr[1], pr[2]} \cap gaps[s] = {}

\* What a sync saw and was not asked for, it has still to remove, or has
\* removed; or it was gone before, and cannot come back.
SeenIsRemoved(s) ==
  \A x \in TypeEntity(Owner(s)) \ IdsOf(req[s].sync) :
    (snap[s].links[Link(s, x)] > 0 /\ x \in snap[s].rows) =>
       \/ x \in shed[s]
       \/ /\ Link(s, x) \notin ins[s]
          /\ Link(s, x) \in gone[s] \/ (links[Link(s, x)] = 0 /\ x \in gaps[s])

SyncInv == 
  \A s \in Sessions :
    /\ AddedIsNew(s)
    /\ Syncs(s) => AskedIsLinked(s) /\ GapsHold(s) /\ SeenIsRemoved(s)

-----------------------------------------------------------------------------
(* One session *)

OneSession == \E s : Sessions = {s}
linked == { pr \in Pairs : links[pr] > 0 }
Associated(o) == { x \in TypeEntity(o) \cap rows : newAssociationPovit(o, x) \in linked }
Doomed(r) == Associated(r.owner) \ IdsOf(r.sync)

\* The rows and the links that a request is to remove.
Dropped(r) ==
  IF r.kind = "delete" THEN {r.owner}
  ELSE IF r.clear THEN IF IsCombination(r.owner) THEN Associated(r.owner) ELSE {}
  ELSE IF r.sync # {} THEN IF IsCombination(r.owner) THEN Doomed(r) ELSE {}
  ELSE IF Cascade(r) THEN r.remove ELSE {}

Unlinked(r) ==
  IF r.kind = "delete" \/ r.clear THEN {}
  ELSE IF r.sync # {} THEN { pr \in Pairs : TypeColumn(r.owner, pr) \in Doomed(r) }
  ELSE IF Cascade(r) THEN {} ELSE { newAssociationPovit(r.owner, x) : x \in r.remove }

OwnerRow(r) == IF r.kind = "insert" THEN {r.owner} ELSE {}

\* Nobody else commits: the snapshot is what is committed.
SnapIsNow == \A s \in Sessions : snap[s] # None => snap[s] = [rows |-> rows, links |-> links]

RowsAreUsed ==
  /\ rows \subseteq used
  /\ \A s \in Sessions : /\ born[s] \subseteq used
                         /\ pc[s] # "idle" => Born(req[s]) \cap rows = {}

OwnerIsThere ==
  \A s \in Sessions :
    /\ pc[s] \in {"write", "associate", "work"} /\ req[s].kind = "update" => req[s].owner \in rows
    /\ pc[s] = "write" => born[s] = {}
    /\ pc[s] = "associate" => born[s] = OwnerRow(req[s])

\* How far the work for a request is: its rows, the links it removes and those
\* it adds.
RowsProgress(s, r) ==
  /\ born[s] = New(Saved(r) \ saving[s]) \cup OwnerRow(r)
  /\ Edited(Saved(r) \ saving[s]) \subseteq (rows \cup Born(r)) \ Dropped(r)
  /\ drop[s] \subseteq Dropped(r) /\ dead[s] = Dropped(r) \ drop[s]

RemovalProgress(s, r) ==
  /\ r.clear => shed[s] \subseteq {r.owner}
  /\ ~ r.clear => shed[s] \subseteq Doomed(r) /\ (r.sync = {} => shed[s] = {})
  /\ \A x \in cut[s] : newAssociationPovit(r.owner, x) \in Unlinked(r)
  /\ gone[s] \subseteq Unlinked(r)
  /\ \A pr \in Unlinked(r) \cap linked :
        \/ pr \in gone[s] \/ TypeColumn(r.owner, pr) \in shed[s]
        \/ \E x \in cut[s] : pr = newAssociationPovit(r.owner, x)

AddingProgress(s, r) ==
  /\ ins[s] \subseteq { newAssociationPovit(r.owner, i.id) : i \in Saved(r) }
  /\ \A i \in Saved(r) :
        \/ i \in saving[s] \/ linking[s] = i.id
        \/ newAssociationPovit(r.owner, i.id) \in ins[s] \cup (linked \ gone[s])

Progress(s, r) == RowsProgress(s, r) /\ RemovalProgress(s, r) /\ AddingProgress(s, r)

WorkIsDone ==
  \A s \in Sessions, r \in Requests : pc[s] = "work" /\ req[s] = r => Progress(s, r)

SerialInv == OneSession /\ SnapIsNow /\ RowsAreUsed /\ OwnerIsThere /\ WorkIsDone

-----------------------------------------------------------------------------
(* Requests and pairs *)

LEMMA PairFacts ==
  ASSUME NEW o \in Ids
  PROVE  /\ o \notin TypeEntity(o) /\ TypeEntity(o) \subseteq Ids
         /\ \A x \in TypeEntity(o) : /\ newAssociationPovit(o, x) \in Pairs
                                     /\ TypeColumn(o, newAssociationPovit(o, x)) = x
                                     /\ newAssociationPovit(o, x)[1] = x \/ newAssociationPovit(o, x)[2] = x
         /\ \A pr \in Pairs : /\ TypeColumn(o, pr) \in TypeEntity(o)
                              /\ \A x \in TypeEntity(o) : x \in {pr[1], pr[2]} => TypeColumn(o, pr) = x
BY SidesAssumption DEF Ids, Pairs, TypeEntity, newAssociationPovit, TypeColumn

LEMMA RequestFacts ==
  ASSUME NEW r \in Requests
  PROVE  /\ r \in Request /\ r.owner \in Ids /\ Saved(r) \subseteq Instance
         /\ r.remove \subseteq TypeEntity(r.owner)
         /\ IdsOf(r.sync) \subseteq TypeEntity(r.owner) /\ IdsOf(r.save) \subseteq TypeEntity(r.owner)
         /\ IdsOf(Saved(r)) \subseteq TypeEntity(r.owner)
<1>1. r \in Request
  BY RequestsAssumption
<1>2. \A x \in r.remove \cup { i.id : i \in r.sync \cup r.save } :
        x \in Ids /\ (r.owner \in Sources <=> x \in Targets)
  BY <1>1, RequestsAssumption DEF Request, Instance
<1>3. \A x \in r.remove \cup { i.id : i \in r.sync \cup r.save } : x \in TypeEntity(r.owner)
  BY <1>2 DEF TypeEntity, Ids
<1>4. /\ IdsOf(r.sync) \subseteq TypeEntity(r.owner) /\ IdsOf(r.save) \subseteq TypeEntity(r.owner)
      /\ r.remove \subseteq TypeEntity(r.owner)
  BY <1>3 DEF IdsOf
<1>5. Saved(r) \in {{}, r.sync, r.save}
  BY DEF Saved
<1>6. IdsOf(Saved(r)) \subseteq TypeEntity(r.owner)
  BY <1>4, <1>5 DEF IdsOf
<1> QED
  BY <1>1, <1>4, <1>5, <1>6 DEF Request

-----------------------------------------------------------------------------
(* Types *)

\* A step touches the session that takes it.
Same(t) ==
  /\ pc'[t] = pc[t] /\ req'[t] = req[t] /\ snap'[t] = snap[t]
  /\ born'[t] = born[t] /\ dead'[t] = dead[t] /\ touched'[t] = touched[t]
  /\ ins'[t] = ins[t] /\ gone'[t] = gone[t] /\ gaps'[t] = gaps[t]
  /\ drop'[t] = drop[t] /\ shed'[t] = shed[t] /\ cut'[t] = cut[t]
  /\ saving'[t] = saving[t] /\ linking'[t] = linking[t]

LEMMA SnapshotType ==
  ASSUME TypeOK, NEW s \in Sessions
  PROVE  /\ Snapshot(s) \in [rows : SUBSET Ids, links : [Pairs -> Nat]]
         /\ RowsSeen(s) \subseteq Ids /\ AssociatedSeen(s, Owner(s)) \subseteq Ids
BY DEF TypeOK, Snapshot, RowsSeen, AssociatedSeen

LEMMA StatementType ==
  ASSUME TypeOK, NEW s \in Sessions, pc[s] # "idle" => req[s] \in Requests, pc[s] = "work" => WorkOK(s),
         Statement(s)
  PROVE  TypeOK' /\ \A t \in Others(s) : Same(t)
<1> USE DEF TypeOK, Others, Same, Goto, database, transaction, work
<1> DEFINE LinksOK ==
      /\ ins' \in [Sessions -> SUBSET Pairs] /\ gone' \in [Sessions -> SUBSET Pairs]
      /\ gaps' \in [Sessions -> SUBSET Ids]
      /\ \A t \in Sessions \ {s} : ins'[t] = ins[t] /\ gone'[t] = gone[t] /\ gaps'[t] = gaps[t]
<1>0. /\ pc[s] # "idle" => req[s] \in Request /\ req[s].owner \in Ids /\ req[s].sync \in SUBSET Instance
                           /\ req[s].save \in SUBSET Instance /\ req[s].remove \in SUBSET Ids
      /\ Snapshot(s) \in [rows : SUBSET Ids, links : [Pairs -> Nat]]
      /\ AssociatedSeen(s, Owner(s)) \subseteq Ids
  BY RequestFacts, SnapshotType DEF Request
<1>d. ASSUME NEW prs \in SUBSET Pairs, NEW k \in Ids, DeleteLinks(s, prs, k) PROVE LinksOK
  BY <1>d DEF DeleteLinks
<1>1. CASE FindOwner(s)
  BY <1>0, <1>1 DEF FindOwner, Select
<1>2. CASE updateOneBody(s)
  BY <1>0, <1>2 DEF updateOneBody, UpdateRow
<1>3. CASE insertOneBody(s)
  BY <1>0, <1>3 DEF insertOneBody, InsertRow
<1>4. CASE DeleteOwner(s)
  BY <1>0, <1>4 DEF DeleteOwner, RemoveRow
<1>5. CASE ClearAssociation(s)
  <2>1. /\ drop' \in [Sessions -> SUBSET Ids] /\ snap' \in [Sessions -> [rows : SUBSET Ids, links : [Pairs -> Nat]] \cup {None}]
        /\ \A t \in Sessions \ {s} : drop'[t] = drop[t] /\ snap'[t] = snap[t]
    <3>1. CASE IsCombination(req[s].owner)
      BY <1>0, <1>5, <3>1 DEF ClearAssociation, Select, Owner
    <3>2. CASE ~ IsCombination(req[s].owner)
      BY <1>0, <1>5, <3>2 DEF ClearAssociation
    <3> QED
      BY <3>1, <3>2
  <2> QED
    BY <1>0, <1>5, <2>1 DEF ClearAssociation
<1>6. CASE clearSyncedAssociation(s)
  BY <1>0, <1>6 DEF clearSyncedAssociation, Select, Owner
<1>7. CASE ChangeAssociation(s)
  BY <1>0, <1>7 DEF ChangeAssociation
<1>8. ASSUME NEW x \in Ids, DeleteInstance(s, x) PROVE TypeOK' /\ \A t \in Others(s) : Same(t)
  BY <1>0, <1>8 DEF DeleteInstance, RemoveRow
<1>9. ASSUME NEW x \in Ids, deleteAssociationPovit(s, x) PROVE TypeOK' /\ \A t \in Others(s) : Same(t)
  <2>1. LinksOK
    <3> DEFINE prs == { pr \in Pairs : TypeColumn(req[s].owner, pr) = x }
    <3>1. DeleteLinks(s, prs, x) \/ UNCHANGED <<ins, gone, gaps>>
      BY <1>9 DEF deleteAssociationPovit
    <3>2. prs \in SUBSET Pairs
      OBVIOUS
    <3> HIDE DEF prs
    <3> QED
      BY <1>0, <1>9, <1>d, <3>1, <3>2
  <2> QED
    BY <1>0, <1>9, <2>1 DEF deleteAssociationPovit, Select
<1>10. ASSUME NEW x \in Ids, DeleteAssociationPovit(s, x) PROVE TypeOK' /\ \A t \in Others(s) : Same(t)
  <2>1. LinksOK
    <3>1. PICK k \in {req[s].owner, x} : DeleteLinks(s, {newAssociationPovit(req[s].owner, x)}, k)
      BY <1>10 DEF DeleteAssociationPovit
    <3>2. {newAssociationPovit(req[s].owner, x)} \in SUBSET Pairs
      BY <1>0, <1>10, PairFacts, RequestFacts DEF DeleteAssociationPovit, WorkOK, Owner
    <3> QED
      BY <1>0, <1>10, <1>d, <3>1, <3>2 DEF DeleteAssociationPovit
  <2> QED
    BY <1>0, <1>10, <2>1 DEF DeleteAssociationPovit
<1>11. ASSUME NEW i \in saving[s], saveAssociationInstance(s, i) PROVE TypeOK' /\ \A t \in Others(s) : Same(t)
  <2>1. i \in Instance /\ i.id \in Ids
    BY DEF Instance
  <2>2. /\ used' \subseteq Ids
        /\ snap' \in [Sessions -> [rows : SUBSET Ids, links : [Pairs -> Nat]] \cup {None}]
        /\ born' \in [Sessions -> SUBSET Ids] /\ touched' \in [Sessions -> SUBSET Ids] /\ dead' = dead
        /\ \A t \in Sessions \ {s} : snap'[t] = snap[t] /\ born'[t] = born[t] /\ touched'[t] = touched[t]
    <3>1. CASE i.body = "none" /\ UNCHANGED <<used, snap, born, dead, touched>>
      BY <3>1
    <3>2. CASE i.body = "new" /\ InsertRow(s, i.id) /\ UNCHANGED snap
      BY <2>1, <3>2 DEF InsertRow
    <3>3. CASE i.body = "fields" /\ Select(s) /\ UpdateRow(s, i.id)
      BY <1>0, <2>1, <3>3 DEF UpdateRow, Select
    <3> QED
      BY <1>11, <3>1, <3>2, <3>3 DEF saveAssociationInstance
  <2> QED
    BY <1>0, <1>11, <2>1, <2>2 DEF saveAssociationInstance
<1>12. CASE SaveAssociationPovit(s)
  <2>1. newAssociationPovit(req[s].owner, linking[s]) \in Pairs
    BY <1>0, <1>12, PairFacts, RequestFacts DEF SaveAssociationPovit, WorkOK
  <2>2. LinksOK
    BY <1>0, <1>12, <2>1 DEF SaveAssociationPovit, InsertLink
  <2> QED
    BY <1>0, <1>12, <2>2 DEF SaveAssociationPovit, Select
<1> QED
  BY <1>1, <1>2, <1>3, <1>4, <1>5, <1>6, <1>7, <1>8, <1>9, <1>10, <1>11, <1>12 DEF Statement

LEMMA SameSession ==
  ASSUME NEW t \in Sessions, Same(t), LabelOK(t), pc[t] = "work" => WorkOK(t)
  PROVE  LabelOK(t)' /\ (pc'[t] = "work" => WorkOK(t)')
<1>1. LabelOK(t)'
  BY DEF Same, LabelOK, NothingWritten
<1>2. pc[t] = "work" /\ WorkOK(t) => WorkOK(t)'
  BY DEF Same, WorkOK, Removed, Syncs, Owner
<1> QED
  BY <1>1, <1>2 DEF Same

LEMMA StatementSession ==
  ASSUME TypeOK, NEW s \in Sessions, LabelOK(s), pc[s] = "work" => WorkOK(s), Statement(s)
  PROVE  LabelOK(s)' /\ (pc'[s] = "work" => WorkOK(s)')
<1> USE DEF TypeOK, Goto, database, transaction, work
<1>0. /\ pc[s] # "idle" => req[s] \in Requests /\ req[s] \in Request
      /\ NothingWritten(s) => Removed(s)
      /\ pc[s] # "idle" => /\ IdsOf(Saved(req[s])) \subseteq TypeEntity(Owner(s))
                           /\ req[s].remove \subseteq TypeEntity(Owner(s))
  BY RequestFacts DEF LabelOK, NothingWritten, Removed, Owner
<1>1. CASE FindOwner(s)
  BY <1>0, <1>1 DEF FindOwner, Select, LabelOK, NothingWritten
<1>2. CASE updateOneBody(s)
  BY <1>0, <1>2 DEF updateOneBody, UpdateRow, LabelOK, NothingWritten
<1>3. CASE insertOneBody(s)
  BY <1>0, <1>3 DEF insertOneBody, InsertRow, LabelOK, NothingWritten
<1>4. CASE DeleteOwner(s)
  <2>1. Saved(req[s]) = {} /\ req[s].sync = {}
    BY <1>0, <1>4, RequestsAssumption DEF DeleteOwner, LabelOK, Saved
  <2> QED
    BY <1>0, <1>4, <2>1 DEF DeleteOwner, RemoveRow, LabelOK, NothingWritten, WorkOK, Removed, Syncs
<1>5. CASE ClearAssociation(s)
  <2>1. Saved(req[s]) = {} /\ req[s].clear
    BY <1>5 DEF ClearAssociation, Saved
  <2> QED
    BY <1>0, <1>5, <2>1 DEF ClearAssociation, LabelOK, NothingWritten, WorkOK, Removed, Syncs
<1>6. CASE clearSyncedAssociation(s)
  <2>1. Saved(req[s]) = req[s].sync
    BY <1>6 DEF clearSyncedAssociation, Saved, LabelOK
  <2>2. AssociatedSeen(s, req[s].owner) \subseteq TypeEntity(req[s].owner)
    BY DEF AssociatedSeen
  <2>3. Snapshot(s) # None
    BY SnapshotType, NoneAssumption
  <2> QED
    BY <1>0, <1>6, <2>1, <2>2, <2>3 DEF clearSyncedAssociation, Select, LabelOK, NothingWritten, WorkOK, Removed, Syncs, Owner
<1>7. CASE ChangeAssociation(s)
  <2>1. Saved(req[s]) = req[s].save /\ req[s].sync = {}
    BY <1>7 DEF ChangeAssociation, Saved, LabelOK
  <2> QED
    BY <1>0, <1>7, <2>1 DEF ChangeAssociation, LabelOK, NothingWritten, WorkOK, Removed, Syncs, Owner
<1> DEFINE Kept == LabelOK(s)' /\ (pc'[s] = "work" => WorkOK(s)')
<1>8. ASSUME NEW x \in Ids, DeleteInstance(s, x) PROVE Kept
  BY <1>0, <1>8 DEF DeleteInstance, RemoveRow, LabelOK, WorkOK, Removed, Syncs, Owner
<1>9. ASSUME NEW x \in Ids, deleteAssociationPovit(s, x) PROVE Kept
  <2>1. /\ pc[s] = "work" /\ shed'[s] = shed[s] \ {x} /\ x \in shed[s] /\ ins'[s] \subseteq ins[s]
        /\ UNCHANGED <<pc, req, drop, cut, saving, linking>>
    BY <1>9 DEF deleteAssociationPovit, DeleteLinks
  <2>2. snap[s] # None => snap'[s] # None
    BY <1>9, SnapshotType, NoneAssumption DEF deleteAssociationPovit, Select
  <2> QED
    BY <1>0, <2>1, <2>2 DEF LabelOK, WorkOK, Removed, Syncs, Owner
<1>10. ASSUME NEW x \in Ids, DeleteAssociationPovit(s, x) PROVE Kept
  BY <1>0, <1>10 DEF DeleteAssociationPovit, DeleteLinks, LabelOK, WorkOK, Removed, Syncs, Owner
<1>11. ASSUME NEW i \in saving[s], saveAssociationInstance(s, i) PROVE Kept
  <2>1. /\ pc[s] = "work" /\ Removed(s) /\ saving'[s] \subseteq saving[s] /\ linking'[s] = i.id
        /\ UNCHANGED <<pc, req, drop, cut, shed, ins>>
    BY <1>11 DEF saveAssociationInstance
  <2>2. snap[s] # None => snap'[s] # None
    BY <1>11, SnapshotType, NoneAssumption DEF saveAssociationInstance, Select
  <2>3. i.id \in IdsOf(Saved(req[s]))
    BY <2>1 DEF WorkOK, IdsOf
  <2> QED
    BY <1>0, <2>1, <2>2, <2>3 DEF LabelOK, WorkOK, Removed, Syncs, Owner
<1>12. CASE SaveAssociationPovit(s)
  <2>1. /\ pc[s] = "work" /\ linking[s] # None /\ linking'[s] = None
        /\ UNCHANGED <<pc, req, drop, cut, shed, saving>>
    BY <1>12 DEF SaveAssociationPovit
  <2>2. snap[s] # None => snap'[s] # None
    BY <1>12, SnapshotType, NoneAssumption DEF SaveAssociationPovit, Select
  <2> QED
    BY <1>0, <2>1, <2>2 DEF LabelOK, WorkOK, Removed, Syncs, Owner
<1> QED
  BY <1>1, <1>2, <1>3, <1>4, <1>5, <1>6, <1>7, <1>8, <1>9, <1>10, <1>11, <1>12 DEF Statement

\* The end of a transaction, and its beginning.
LEMMA EndSession ==
  ASSUME TypeOK, NEW s \in Sessions, EndTx(s)
  PROVE  /\ pc' \in [Sessions -> {"idle", "insert", "update", "delete", "write", "associate", "work"}]
         /\ pc'[s] = "idle" /\ LabelOK(s)' /\ UNCHANGED <<used, count>>
         /\ rows' \subseteq Ids /\ links' \in [Pairs -> Nat] => TypeOK'
         /\ \A t \in Others(s) : Same(t)
<1> USE DEF TypeOK, EndTx, Goto
<1>1. /\ rows' \subseteq Ids /\ links' \in [Pairs -> Nat] => TypeOK'
      /\ pc' \in [Sessions -> {"idle", "insert", "update", "delete", "write", "associate", "work"}]
  OBVIOUS
<1>2. \A t \in Others(s) : Same(t)
  BY DEF Others, Same
<1>3. pc'[s] = "idle" /\ LabelOK(s)'
  BY DEF LabelOK, NothingWritten
<1> QED
  BY <1>1, <1>2, <1>3

LEMMA CommittedType ==
  ASSUME TypeOK, NEW s \in Sessions
  PROVE  /\ (rows \cup born[s]) \ dead[s] \subseteq Ids
         /\ [pr \in Pairs |-> Copies(s, pr)] \in [Pairs -> Nat]
         /\ \A pr \in Pairs : Copies(s, pr) \in Nat
BY DEF TypeOK, Copies

LEMMA SessionStep ==
  ASSUME SessionInv, [Next]_vars
  PROVE  SessionInv'
<1>0. TypeOK /\ \A s \in Sessions : LabelOK(s) /\ (pc[s] = "work" => WorkOK(s))
  BY DEF SessionInv
<1>1. ASSUME NEW s \in Sessions, TypeOK', \A t \in Others(s) : Same(t),
             LabelOK(s)', pc'[s] = "work" => WorkOK(s)'
      PROVE  SessionInv'
  BY <1>0, <1>1, SameSession DEF SessionInv, Others
<1>2. ASSUME NEW s \in Sessions, Statement(s) PROVE SessionInv'
  BY <1>0, <1>1, <1>2, StatementType, StatementSession DEF LabelOK
<1>3. ASSUME NEW s \in Sessions, NEW r \in Requests, Begin(s, r) PROVE SessionInv'
  <2>1. r \in Request /\ r.kind \in {"insert", "update", "delete"}
    BY RequestFacts DEF Request
  <2>2. count < MaxRequests => count + 1 \in 0 .. MaxRequests
    BY <1>0, BoundAssumption DEF TypeOK
  <2>3. TypeOK'
    BY <1>0, <1>3, <2>1, <2>2 DEF TypeOK, Begin, Goto, database, transaction, work
  <2>4. \A t \in Others(s) : Same(t)
    BY <1>0, <1>3 DEF TypeOK, Begin, Goto, database, transaction, work, Same, Others
  <2>5. LabelOK(s)' /\ pc'[s] # "work"
    BY <1>0, <1>3, <2>1 DEF TypeOK, Begin, Goto, database, transaction, work, LabelOK, NothingWritten
  <2> QED
    BY <1>1, <2>3, <2>4, <2>5
<1>4. ASSUME NEW s \in Sessions, Commit(s) \/ Rollback(s) PROVE SessionInv'
  <2>1. EndTx(s) /\ rows' \subseteq Ids /\ links' \in [Pairs -> Nat]
    BY <1>0, <1>4, CommittedType DEF Commit, Rollback, TypeOK
  <2> QED
    BY <1>0, <1>1, <2>1, EndSession
<1>5. ASSUME UNCHANGED vars PROVE SessionInv'
  <2>1. TypeOK'
    BY <1>0, <1>5 DEF TypeOK, vars, database, transaction, work
  <2>2. \A t \in Sessions : Same(t)
    BY <1>5 DEF Same, vars, database, transaction, work
  <2> QED
    BY <1>0, <2>1, <2>2, SameSession DEF SessionInv
<1> QED
  BY <1>2, <1>3, <1>4, <1>5 DEF Next, Finished

-----------------------------------------------------------------------------
(* What a session adds and removes *)

LEMMA SnapStays ==
  ASSUME TypeOK, NEW s \in Sessions, LabelOK(s), Statement(s)
  PROVE  /\ snap'[s] \in {snap[s], Snapshot(s)} /\ (snap[s] # None => snap'[s] = snap[s])
         /\ req'[s] = req[s] /\ UNCHANGED <<rows, links>>
<1>1. snap'[s] \in {snap[s], Snapshot(s)}
  BY DEF TypeOK, Statement, FindOwner, updateOneBody, insertOneBody, DeleteOwner, ClearAssociation,
     clearSyncedAssociation, ChangeAssociation, DeleteInstance, deleteAssociationPovit,
     DeleteAssociationPovit, saveAssociationInstance, SaveAssociationPovit, Select, transaction
<1>2. UNCHANGED <<req, rows, links>>
  BY DEF Statement, FindOwner, updateOneBody, insertOneBody, DeleteOwner, ClearAssociation,
     clearSyncedAssociation, ChangeAssociation, DeleteInstance, deleteAssociationPovit,
     DeleteAssociationPovit, saveAssociationInstance, SaveAssociationPovit, database
<1> QED
  BY <1>1, <1>2 DEF Snapshot

\* What SaveAssociationPovit adds.
LEMMA InsGrows ==
  ASSUME TypeOK, NEW s \in Sessions, LabelOK(s), pc[s] = "work" => WorkOK(s), Statement(s),
         NEW pr \in ins'[s], pr \notin ins[s]
  PROVE  /\ pc[s] = "work" /\ linking[s] \in IdsOf(Saved(req[s])) /\ pr = Link(s, linking[s])
         /\ pr \notin LinksSeen(s) /\ snap'[s] = Snapshot(s) /\ gone' = gone
         /\ \A t \in Others(s) : {pr[1], pr[2]} \cap gaps[t] = {}
<1>1. SaveAssociationPovit(s)
  BY DEF TypeOK, Statement, FindOwner, updateOneBody, insertOneBody, DeleteOwner, ClearAssociation,
     clearSyncedAssociation, ChangeAssociation, DeleteInstance, deleteAssociationPovit, DeleteLinks,
     DeleteAssociationPovit, saveAssociationInstance, transaction
<1> QED
  BY <1>1 DEF SaveAssociationPovit, InsertLink, povitExists, Select, TypeOK, WorkOK, Link, Owner

LEMMA GoneGrows ==
  ASSUME TypeOK, NEW s \in Sessions, Statement(s)
  PROVE  gone[s] \subseteq gone'[s]
BY DEF TypeOK, Statement, FindOwner, updateOneBody, insertOneBody, DeleteOwner, ClearAssociation,
   clearSyncedAssociation, ChangeAssociation, DeleteInstance, deleteAssociationPovit, DeleteLinks,
   DeleteAssociationPovit, saveAssociationInstance, SaveAssociationPovit, InsertLink, transaction

LEMMA AddedStep ==
  ASSUME TypeOK, NEW s \in Sessions, LabelOK(s), pc[s] = "work" => WorkOK(s), Statement(s), AddedIsNew(s)
  PROVE  AddedIsNew(s)'
<1>1. ASSUME NEW pr \in ins'[s], pr \in ins[s]
      PROVE  snap'[s] # None /\ (snap'[s].links[pr] = 0 \/ pr \in gone'[s])
  BY <1>1, SnapStays, GoneGrows DEF AddedIsNew
<1>2. ASSUME NEW pr \in ins'[s], pr \notin ins[s]
      PROVE  snap'[s] # None /\ (snap'[s].links[pr] = 0 \/ pr \in gone'[s])
  <2>1. pr \notin LinksSeen(s) /\ snap'[s] = Snapshot(s) /\ gone' = gone /\ pr \in Pairs
    BY <1>2, InsGrows, StatementType DEF LabelOK, TypeOK
  <2> QED
    BY <2>1, SnapshotType, NoneAssumption DEF LinksSeen
<1> QED
  BY <1>1, <1>2 DEF AddedIsNew

-----------------------------------------------------------------------------
(* What a sync leaves *)

LEMMA SyncBegins ==
  ASSUME TypeOK, NEW s \in Sessions, LabelOK(s), clearSyncedAssociation(s)
  PROVE  AskedIsLinked(s)' /\ GapsHold(s)' /\ SeenIsRemoved(s)'
<1> DEFINE o == Owner(s)
<1>0. /\ pc[s] = "associate" /\ req[s] \in Requests /\ NothingWritten(s) /\ o \in Ids
      /\ req' = req /\ snap'[s] = Snapshot(s) /\ saving'[s] = req[s].sync
      /\ shed'[s] = AssociatedSeen(s, o) \ IdsOf(req[s].sync)
      /\ UNCHANGED <<dead, ins, gone, gaps>>
  BY RequestFacts DEF clearSyncedAssociation, LabelOK, Select, TypeOK, Owner
<1>1. AskedIsLinked(s)'
  BY <1>0 DEF AskedIsLinked
<1>2. GapsHold(s)'
  BY <1>0 DEF GapsHold, NothingWritten
<1>3. ASSUME NEW x \in TypeEntity(o) \ IdsOf(req[s].sync),
             snap'[s].links[Link(s, x)] > 0, x \in snap'[s].rows
      PROVE  x \in shed'[s]
  <2>1. Link(s, x) \in LinksSeen(s)
    BY <1>0, <1>3, PairFacts DEF LinksSeen, NothingWritten, Link, Owner
  <2>2. x \in RowsSeen(s)
    BY <1>0, <1>3 DEF RowsSeen, NothingWritten
  <2> QED
    BY <1>0, <1>3, <2>1, <2>2 DEF AssociatedSeen, Link
<1> QED
  BY <1>0, <1>1, <1>2, <1>3 DEF SeenIsRemoved, Owner, Link

\* The session's own statements after that.
LEMMA SyncStep ==
  ASSUME TypeOK, NEW s \in Sessions, LabelOK(s), Syncs(s), WorkOK(s), Statement(s),
         AskedIsLinked(s), GapsHold(s), SeenIsRemoved(s)
  PROVE  AskedIsLinked(s)' /\ GapsHold(s)' /\ SeenIsRemoved(s)'
<1> DEFINE o == Owner(s)
           prs(x) == { pr \in Pairs : TypeColumn(o, pr) = x }
<1> USE DEF TypeOK
<1>0. /\ req[s] \in Requests /\ Saved(req[s]) = req[s].sync /\ o \in Ids /\ pc[s] = "work"
      /\ snap[s] # None /\ snap'[s] = snap[s] /\ Snapshot(s) = snap[s] /\ req'[s] = req[s]
      /\ links' = links /\ cut[s] = {}
      /\ IdsOf(req[s].sync) \subseteq TypeEntity(o)
      /\ \A t \in Others(s) : ins'[t] = ins[t]
      /\ snap[s] \in [rows : SUBSET Ids, links : [Pairs -> Nat]]
  <2>1. /\ req[s] \in Requests /\ pc[s] = "work" /\ req[s].sync # {} /\ ~ req[s].clear
        /\ snap[s] # None /\ cut[s] = {}
    BY DEF Syncs, LabelOK, WorkOK
  <2>2. req[s].kind # "delete"
    BY <2>1, RequestsAssumption
  <2>3. \A t \in Others(s) : ins'[t] = ins[t]
    BY <2>1, StatementType DEF Same
  <2> QED
    BY <2>1, <2>2, <2>3, SnapStays, RequestFacts DEF Saved, Snapshot, Owner
<1>1. \A x, y \in TypeEntity(o) : /\ Link(s, x) \in Pairs
                                  /\ Link(s, x) = Link(s, y) => x = y
                                  /\ TypeColumn(o, Link(s, x)) = x
  BY <1>0, PairFacts DEF Link
<1>2. Link(s, linking[s])' = Link(s, linking'[s]) /\ \A x : Link(s, x)' = Link(s, x)
  BY <1>0 DEF Link, Owner
<1>3. ASSUME UNCHANGED <<ins, gone, gaps, shed, linking, saving>>
      PROVE  AskedIsLinked(s)' /\ GapsHold(s)' /\ SeenIsRemoved(s)'
  BY <1>0, <1>3 DEF AskedIsLinked, GapsHold, SeenIsRemoved, LinksSeen, Snapshot, Link, Owner
<1>4. ASSUME NEW x \in Ids, deleteAssociationPovit(s, x)
      PROVE  AskedIsLinked(s)' /\ GapsHold(s)' /\ SeenIsRemoved(s)'
  <2>1. /\ x \in shed[s] /\ x \in TypeEntity(o) /\ shed'[s] = shed[s] \ {x}
        /\ UNCHANGED <<saving, linking>>
        /\ saving[s] = req[s].sync
    BY <1>0, <1>4 DEF deleteAssociationPovit, WorkOK, Removed
  <2>2. AskedIsLinked(s)'
    BY <1>0, <2>1 DEF AskedIsLinked
  <2>3. \/ /\ prs(x) \cap LinksSeen(s) = {} /\ UNCHANGED <<ins, gone, gaps>>
        \/ DeleteLinks(s, prs(x), x)
    BY <1>4 DEF deleteAssociationPovit, Owner
  <2>4. CASE prs(x) \cap LinksSeen(s) = {} /\ UNCHANGED <<ins, gone, gaps>>
    <3>1. Link(s, x) \notin ins[s] /\ (snap[s].links[Link(s, x)] > 0 => Link(s, x) \in gone[s])
      BY <1>0, <1>1, <2>1, <2>4 DEF LinksSeen
    <3> QED
      BY <1>0, <2>1, <2>2, <2>4, <3>1 DEF GapsHold, SeenIsRemoved, Link, Owner
  <2>5. CASE DeleteLinks(s, prs(x), x)
    <3>1. /\ \A t \in Others(s) : prs(x) \cap ins[t] = {}
          /\ gone'[s] = gone[s] \cup { pr \in prs(x) : links[pr] > 0 }
          /\ ins'[s] = ins[s] \ prs(x) /\ gaps'[s] = gaps[s] \cup {x}
      BY <2>5 DEF DeleteLinks
    <3>2. \A t \in Others(s) : \A pr \in ins[t] : x \notin {pr[1], pr[2]}
      BY <1>0, <2>1, <3>1, PairFacts DEF Others
    <3>3. GapsHold(s)'
      BY <1>0, <3>1, <3>2 DEF GapsHold
    <3>4. Link(s, x) \in prs(x)
      BY <1>1, <2>1
    <3>5. Link(s, x) \notin ins'[s] /\ (Link(s, x) \in gone'[s] \/ links[Link(s, x)] = 0)
      BY <3>1, <3>4
    <3>6. ASSUME NEW y \in TypeEntity(o) \ IdsOf(req[s].sync),
                 snap[s].links[Link(s, y)] > 0, y \in snap[s].rows
          PROVE  \/ y \in shed'[s]
                 \/ /\ Link(s, y) \notin ins'[s]
                    /\ Link(s, y) \in gone'[s] \/ (links[Link(s, y)] = 0 /\ y \in gaps'[s])
      BY <2>1, <3>1, <3>5, <3>6 DEF SeenIsRemoved
    <3> QED
      BY <1>0, <1>2, <2>2, <3>3, <3>6 DEF SeenIsRemoved, Owner
  <2> QED
    BY <2>3, <2>4, <2>5
<1>5. ASSUME NEW i \in saving[s], saveAssociationInstance(s, i)
      PROVE  AskedIsLinked(s)' /\ GapsHold(s)' /\ SeenIsRemoved(s)'
  <2>1. /\ linking[s] = None /\ linking'[s] = i.id /\ saving'[s] = saving[s] \ {i}
        /\ UNCHANGED <<ins, gone, gaps, shed>>
    BY <1>5 DEF saveAssociationInstance
  <2>2. LinksSeen(s)' = LinksSeen(s)
    BY <1>0, <2>1 DEF LinksSeen, Snapshot
  <2>3. \A j \in req[s].sync : j.id # None
    BY <1>0, RequestFacts, NoneAssumption DEF Instance
  <2> QED
    BY <1>0, <1>2, <2>1, <2>2, <2>3 DEF AskedIsLinked, GapsHold, SeenIsRemoved, Owner
<1>6. CASE SaveAssociationPovit(s)
  <2> DEFINE pr == Link(s, linking[s])
  <2>1. /\ linking[s] \in IdsOf(req[s].sync) /\ linking'[s] = None
        /\ UNCHANGED <<saving, shed>> /\ gone' = gone /\ gaps' = gaps
        /\ ins'[s] = IF pr \in LinksSeen(s) THEN ins[s] ELSE ins[s] \cup {pr}
    BY <1>0, <1>6 DEF SaveAssociationPovit, WorkOK, InsertLink, povitExists, Link, Owner
  <2>2. pr \in Pairs
    BY <1>0, <1>1, <2>1
  <2>3. LinksSeen(s) \subseteq LinksSeen(s)' /\ pr \in LinksSeen(s)'
    BY <1>0, <2>1, <2>2 DEF LinksSeen, Snapshot
  <2>4. AskedIsLinked(s)'
    BY <1>0, <1>2, <2>1, <2>3 DEF AskedIsLinked
  <2>5. \A x \in TypeEntity(o) \ IdsOf(req[s].sync) : Link(s, x) \in ins'[s] => Link(s, x) \in ins[s]
    BY <1>0, <1>1, <2>1
  <2> QED
    BY <1>0, <1>2, <2>1, <2>4, <2>5 DEF GapsHold, SeenIsRemoved, Owner
<1>7. ASSUME NEW x \in Ids, DeleteInstance(s, x)
      PROVE  AskedIsLinked(s)' /\ GapsHold(s)' /\ SeenIsRemoved(s)'
  BY <1>3, <1>7 DEF DeleteInstance
<1> QED
  BY <1>0, <1>4, <1>5, <1>6, <1>7
  DEF Statement, FindOwner, updateOneBody, insertOneBody, DeleteOwner, ClearAssociation,
      clearSyncedAssociation, ChangeAssociation, DeleteAssociationPovit

\* What others do disturbs neither the sync's own rows nor what it has removed.
LEMMA OthersStep ==
  ASSUME TypeOK, NEW s \in Sessions, LabelOK(s), pc[s] = "work" => WorkOK(s), NEW t \in Others(s), Same(t),
         LabelOK(t), Statement(s) \/ ins'[s] = {},
         (UNCHANGED links) \/ links' = [pr \in Pairs |-> Copies(s, pr)],
         Syncs(t), WorkOK(t), AskedIsLinked(t), GapsHold(t), SeenIsRemoved(t),
         \A u \in Others(s) : Same(u)
  PROVE  AskedIsLinked(t)' /\ GapsHold(t)' /\ SeenIsRemoved(t)'
<1>0. /\ t \in Sessions /\ s # t /\ s \in Others(t) /\ Owner(t) \in Ids /\ snap[t] # None
      /\ req[t] \in Requests
  BY RequestFacts DEF Others, WorkOK, LabelOK, Syncs, Owner
<1>1. AskedIsLinked(t)'
  BY <1>0 DEF AskedIsLinked, Same, LinksSeen, Snapshot, Link, Owner
<1>2. GapsHold(t)'
  <2>1. ASSUME NEW pr \in ins'[s] PROVE {pr[1], pr[2]} \cap gaps[t] = {}
    <3>1. CASE pr \in ins[s]
      BY <1>0, <3>1 DEF GapsHold
    <3>2. CASE pr \notin ins[s]
      BY <1>0, <2>1, <3>2, InsGrows
    <3> QED
      BY <3>1, <3>2
  <2>2. \A u \in Others(t) : u # s => ins'[u] = ins[u]
    BY DEF Others, Same
  <2> QED
    BY <2>1, <2>2 DEF GapsHold, Same
<1>3. SeenIsRemoved(t)'
  <2>1. ASSUME NEW x \in TypeEntity(Owner(t)), x \in gaps[t], links[Link(t, x)] = 0
        PROVE  links'[Link(t, x)] = 0
    <3>1. Link(t, x) \in Pairs /\ x \in {Link(t, x)[1], Link(t, x)[2]}
      BY <1>0, PairFacts DEF Link
    <3>2. Link(t, x) \notin ins[s]
      BY <1>0, <2>1, <3>1 DEF GapsHold
    <3>3. Copies(s, Link(t, x)) = 0
      BY <2>1, <3>1, <3>2 DEF Copies
    <3> QED
      BY <2>1, <3>1, <3>3
  <2> QED
    BY <2>1 DEF SeenIsRemoved, Same, Link, Owner
<1> QED
  BY <1>1, <1>2, <1>3

LEMMA SyncInvStep ==
  ASSUME SessionInv, SyncInv, [Next]_vars
  PROVE  SyncInv'
<1>0. TypeOK /\ \A s \in Sessions : LabelOK(s) /\ (pc[s] = "work" => WorkOK(s)) /\ AddedIsNew(s)
  BY DEF SessionInv, SyncInv
<1>1. ASSUME NEW s \in Sessions, \A t \in Others(s) : Same(t), Statement(s) \/ ins'[s] = {},
             (UNCHANGED links) \/ links' = [pr \in Pairs |-> Copies(s, pr)],
             AddedIsNew(s)', Syncs(s)' => AskedIsLinked(s)' /\ GapsHold(s)' /\ SeenIsRemoved(s)'
      PROVE  SyncInv'
  <2>1. ASSUME NEW t \in Others(s)
        PROVE  /\ AddedIsNew(t)'
               /\ Syncs(t)' => AskedIsLinked(t)' /\ GapsHold(t)' /\ SeenIsRemoved(t)'
    <3>1. t \in Sessions /\ Same(t) /\ (Syncs(t)' => Syncs(t)) /\ (Syncs(t) => pc[t] = "work")
      BY <1>1 DEF Others, Same, Syncs
    <3>2. AddedIsNew(t)'
      BY <1>0, <3>1 DEF AddedIsNew, Same
    <3>3. Syncs(t) => AskedIsLinked(t)' /\ GapsHold(t)' /\ SeenIsRemoved(t)'
      BY <1>0, <1>1, <3>1, OthersStep DEF SyncInv
    <3> QED
      BY <3>1, <3>2, <3>3
  <2> QED
    BY <1>1, <2>1 DEF SyncInv, Others
<1>2. ASSUME NEW s \in Sessions, Statement(s) PROVE SyncInv'
  <2>1. /\ \A t \in Others(s) : Same(t)
        /\ UNCHANGED links
        /\ AddedIsNew(s)'
    BY <1>0, <1>2, StatementType, SnapStays, AddedStep DEF LabelOK
  <2>2. ASSUME Syncs(s)' PROVE AskedIsLinked(s)' /\ GapsHold(s)' /\ SeenIsRemoved(s)'
    <3>1. CASE Syncs(s)
      BY <1>0, <1>2, <3>1, SyncStep DEF SyncInv, Syncs
    <3>2. CASE ~ Syncs(s)
      <4>1. req'[s] = req[s] /\ pc'[s] = "work" /\ pc[s] # "work" /\ req[s].sync # {} /\ ~ req[s].clear
        BY <1>0, <1>2, <2>2, <3>2, SnapStays DEF Syncs
      <4>2. pc[s] = "delete" => req[s].sync = {}
        BY <1>0, RequestsAssumption DEF LabelOK
      <4>3. clearSyncedAssociation(s)
        BY <1>0, <1>2, <4>1, <4>2
        DEF TypeOK, Statement, FindOwner, updateOneBody, insertOneBody, DeleteOwner, ClearAssociation,
            ChangeAssociation, DeleteInstance, deleteAssociationPovit,
            DeleteAssociationPovit, saveAssociationInstance, SaveAssociationPovit, Goto
      <4> QED
        BY <1>0, <4>3, SyncBegins
    <3> QED
      BY <3>1, <3>2
  <2> QED
    BY <1>1, <1>2, <2>1, <2>2
<1>3. ASSUME NEW s \in Sessions, NEW r \in Requests, Begin(s, r) PROVE SyncInv'
  <2>1. /\ \A t \in Others(s) : Same(t)
        /\ ins'[s] = {} /\ UNCHANGED links
    BY <1>0, <1>3 DEF TypeOK, Begin, Goto, database, transaction, work, Same, Others, LabelOK, NothingWritten
  <2>2. ~ Syncs(s)'
    BY <1>0, <1>3, RequestFacts DEF TypeOK, Begin, Goto, Syncs, Request
  <2> QED
    BY <1>1, <2>1, <2>2 DEF AddedIsNew
<1>4. ASSUME NEW s \in Sessions, Commit(s) \/ Rollback(s) PROVE SyncInv'
  <2>1. EndTx(s) /\ ((UNCHANGED links) \/ links' = [pr \in Pairs |-> Copies(s, pr)])
    BY <1>4 DEF Commit, Rollback
  <2>2. /\ \A t \in Others(s) : Same(t)
        /\ ins'[s] = {} /\ ~ Syncs(s)'
    BY <1>0, <2>1, EndSession DEF LabelOK, NothingWritten, Syncs
  <2> QED
    BY <1>1, <2>1, <2>2 DEF AddedIsNew
<1>5. ASSUME UNCHANGED vars PROVE SyncInv'
  BY <1>5 DEF vars, database, transaction, work, SyncInv, AddedIsNew, Syncs, AskedIsLinked, GapsHold,
              SeenIsRemoved, LinksSeen, Snapshot, Link, Owner
<1> QED
  BY <1>2, <1>3, <1>4, <1>5 DEF Next, Finished

-----------------------------------------------------------------------------
\* What each session may hold, and what its snapshot and its locks make sure of,
\* holds in every state.
THEOREM SessionsHold == Spec => [](SessionInv /\ SyncInv)
<1>1. Init => SessionInv
  BY InitialAssumption, BoundAssumption
  DEF Init, SessionInv, TypeOK, LabelOK, NothingWritten, NoRequest
<1>2. Init => SyncInv
  BY DEF Init, SyncInv, AddedIsNew, Syncs
<1>3. SessionInv /\ SyncInv /\ [Next]_vars => SessionInv' /\ SyncInv'
  BY SessionStep, SyncInvStep
<1> QED
  BY <1>1, <1>2, <1>3, PTL DEF Spec

\* Every variable of the sessions keeps its type, in particular the ids and the
\* pairs that statements name are those of the two entities.
THEOREM SessionTypes == Spec => []TypeOK
<1>1. SessionInv => TypeOK
  BY DEF SessionInv
<1> QED
  BY <1>1, SessionsHold, PTL

\* The session whose commit changes the tables is the one that takes the step.
LEMMA Committing ==
  ASSUME SessionInv, [Next]_vars, NEW s \in Sessions, Commits(s)
  PROVE  Commit(s)
<1>0. pc[s] = "work" /\ pc'[s] = "idle" /\ (rows' # rows \/ links' # links) /\ TypeOK
  BY DEF Commits, Done, SessionInv
<1>1. ASSUME NEW t \in Sessions, Statement(t) PROVE FALSE
  BY <1>0, <1>1, SnapStays DEF SessionInv
<1>2. ASSUME NEW t \in Sessions, NEW r \in Requests, Begin(t, r) PROVE FALSE
  BY <1>0, <1>2 DEF Begin, database
<1>3. ASSUME NEW t \in Sessions, Rollback(t) PROVE FALSE
  BY <1>0, <1>3 DEF Rollback
<1>4. ASSUME NEW t \in Sessions, Commit(t), t # s PROVE FALSE
  BY <1>0, <1>4, EndSession DEF Commit, Others, Same
<1>5. ASSUME UNCHANGED vars PROVE FALSE
  BY <1>0, <1>5 DEF vars, database
<1> QED
  BY <1>1, <1>2, <1>3, <1>4, <1>5 DEF Next, Finished

\* The owner of a sync (clearSyncedAssociation, saveAssociation) ends up with
\* what it names and nothing else of what it saw, whatever other requests add,
\* remove and commit meanwhile.
THEOREM SyncsAreExact == Spec => SyncIsExact
<1> DEFINE Exact ==
      \A s \in Sessions :
       LET o == req[s].owner
           link(x) == newAssociationPovit(o, x)
           now == { x \in TypeEntity(o) : links'[link(x)] > 0 }
       IN (Commits(s) /\ req[s].sync # {} /\ ~ req[s].clear) =>
            /\ \A x \in now \ IdsOf(req[s].sync) :
                 snap[s].links[link(x)] = 0 \/ x \notin snap[s].rows
            /\ \A x \in IdsOf(req[s].sync) \ now :
                 snap[s].links[link(x)] > 0 /\ links[link(x)] = 0
<1>1. ASSUME SessionInv, SyncInv, [Next]_vars PROVE Exact
  <2> SUFFICES ASSUME NEW s \in Sessions, Commits(s), req[s].sync # {}, ~ req[s].clear
               PROVE  /\ \A x \in TypeEntity(Owner(s)) : 
                           links'[Link(s, x)] > 0 /\ x \notin IdsOf(req[s].sync) =>
                             snap[s].links[Link(s, x)] = 0 \/ x \notin snap[s].rows
                      /\ \A x \in IdsOf(req[s].sync) :
                           /\ x \in TypeEntity(Owner(s))
                           /\ ~ links'[Link(s, x)] > 0 =>
                                snap[s].links[Link(s, x)] > 0 /\ links[Link(s, x)] = 0
    BY DEF Link, Owner
  <2>1. /\ TypeOK /\ LabelOK(s) /\ WorkOK(s) /\ Syncs(s) /\ Removed(s) /\ saving[s] = {} /\ linking[s] = None
        /\ AskedIsLinked(s) /\ SeenIsRemoved(s) /\ links' = [pr \in Pairs |-> Copies(s, pr)]
        /\ Snapshot(s) = snap[s] /\ snap[s] \in [rows : SUBSET Ids, links : [Pairs -> Nat]]
        /\ req[s] \in Requests /\ Owner(s) \in Ids /\ IdsOf(req[s].sync) \subseteq TypeEntity(Owner(s))
    <3>1. Commit(s)
      BY <1>1, Committing
    <3>2. pc[s] = "work" /\ Syncs(s) /\ LabelOK(s) /\ WorkOK(s) /\ TypeOK
      BY <1>1, <3>1 DEF Commit, Done, Syncs, SessionInv
    <3> QED
      BY <1>1, <3>1, <3>2, RequestFacts
      DEF Commit, Done, LabelOK, WorkOK, SyncInv, Snapshot, TypeOK, Owner
  <2>2. \A x \in TypeEntity(Owner(s)) : Link(s, x) \in Pairs /\ links'[Link(s, x)] = Copies(s, Link(s, x))
    BY <2>1, PairFacts DEF Link
  <2>3. ASSUME NEW x \in TypeEntity(Owner(s)), links'[Link(s, x)] > 0, x \notin IdsOf(req[s].sync),
               snap[s].links[Link(s, x)] # 0, x \in snap[s].rows
        PROVE  FALSE
    <3>1. snap[s].links[Link(s, x)] > 0
      BY <2>1, <2>2, <2>3
    <3>2. Link(s, x) \notin ins[s] /\ (Link(s, x) \in gone[s] \/ links[Link(s, x)] = 0)
      BY <2>1, <2>3, <3>1 DEF SeenIsRemoved, Removed
    <3> QED
      BY <2>1, <2>2, <2>3, <3>2 DEF Copies
  <2>4. ASSUME NEW x \in IdsOf(req[s].sync), ~ links'[Link(s, x)] > 0
        PROVE  snap[s].links[Link(s, x)] > 0 /\ links[Link(s, x)] = 0
    <3>1. Link(s, x) \in LinksSeen(s)
      <4>1. PICK i \in req[s].sync : x = i.id
        BY DEF IdsOf
      <4>2. x # None
        BY <2>1, NoneAssumption, PairFacts
      <4> QED
        BY <2>1, <4>1, <4>2 DEF AskedIsLinked
    <3>2. x \in TypeEntity(Owner(s)) /\ links[Link(s, x)] \in Nat
      BY <2>1, <2>2 DEF TypeOK
    <3> QED
      BY <2>1, <2>2, <2>4, <3>1, <3>2 DEF LinksSeen, Copies
  <2> QED
    BY <2>1, <2>3, <2>4
<1>2. SessionInv /\ SyncInv /\ [Next]_vars => [Exact]_vars
  BY <1>1
<1> QED
  BY <1>2, SessionsHold, PTL DEF Spec, SyncIsExact

\* SaveAssociationPovit asks before it inserts: a second copy of a link can only
\* come from a save whose snapshot did not show the first.
THEOREM DuplicatesAreUnseen == Spec => NoDuplicateSeen
<1> DEFINE Unseen ==
      \A s \in Sessions, pr \in Pairs :
       (Commits(s) /\ links'[pr] > links[pr] /\ links[pr] > 0) => snap[s].links[pr] = 0
<1>1. ASSUME SessionInv, SyncInv, [Next]_vars PROVE Unseen
  <2> SUFFICES ASSUME NEW s \in Sessions, NEW pr \in Pairs, Commits(s), links'[pr] > links[pr], links[pr] > 0
               PROVE  snap[s].links[pr] = 0
    OBVIOUS
  <2>1. links' = [p \in Pairs |-> Copies(s, p)] /\ links[pr] \in Nat /\ AddedIsNew(s)
    BY <1>1, Committing DEF Commit, SessionInv, TypeOK, SyncInv
  <2>2. pr \in ins[s] /\ pr \notin gone[s]
    BY <2>1 DEF Copies
  <2> QED
    BY <2>1, <2>2 DEF AddedIsNew
<1>2. SessionInv /\ SyncInv /\ [Next]_vars => [Unseen]_vars
  BY <1>1
<1> QED
  BY <1>2, SessionsHold, PTL DEF Spec, NoDuplicateSeen

-----------------------------------------------------------------------------
(* One session at a time *)

LEMMA SeenNow ==
  ASSUME TypeOK, SnapIsNow, NEW s \in Sessions
  PROVE  /\ Snapshot(s) = [rows |-> rows, links |-> links]
         /\ RowsSeen(s) = (rows \cup born[s]) \ dead[s]
         /\ LinksSeen(s) = ins[s] \cup (linked \ gone[s])
<1>1. Snapshot(s) = [rows |-> rows, links |-> links]
  BY DEF Snapshot, SnapIsNow
<1> QED
  BY <1>1 DEF RowsSeen, LinksSeen, linked, TypeOK

\* Before its work a session sees what is committed.
LEMMA AssociatedNow ==
  ASSUME TypeOK, SnapIsNow, OwnerIsThere, NEW s \in Sessions, LabelOK(s), pc[s] = "associate"
  PROVE  AssociatedSeen(s, req[s].owner) = Associated(req[s].owner)
<1>1. /\ LinksSeen(s) = linked /\ RowsSeen(s) = rows \cup born[s] /\ born[s] \subseteq {req[s].owner}
      /\ req[s].owner \in Ids
  BY SeenNow, RequestFacts DEF LabelOK, NothingWritten, OwnerIsThere, OwnerRow
<1> QED
  BY <1>1, PairFacts DEF AssociatedSeen, Associated

LEMMA BornSoFar ==
  ASSUME NEW r, NEW A \in SUBSET Saved(r)
  PROVE  New(A) \cup OwnerRow(r) \subseteq Born(r)
BY DEF New, Born, OwnerRow

\* The work begins.
LEMMA ProgressBegins ==
  ASSUME TypeOK, SnapIsNow, OwnerIsThere, NEW s \in Sessions, LabelOK(s), NEW r \in Requests, req[s] = r,
         DeleteOwner(s) \/ ClearAssociation(s) \/ clearSyncedAssociation(s) \/ ChangeAssociation(s)
  PROVE  Progress(s, r)'
<1> USE DEF TypeOK, Goto, database, transaction, work
<1>0. /\ UNCHANGED <<rows, links>> /\ NothingWritten(s) /\ r.owner \in Ids /\ r.remove \subseteq TypeEntity(r.owner)
      /\ linked' = linked /\ Dropped(r)' = Dropped(r) /\ Unlinked(r)' = Unlinked(r) /\ Doomed(r)' = Doomed(r)
  <2>1. UNCHANGED <<rows, links>> /\ pc[s] \in {"delete", "associate"}
    BY DEF DeleteOwner, ClearAssociation, clearSyncedAssociation, ChangeAssociation
  <2>2. NothingWritten(s) /\ r.owner \in Ids /\ r.remove \subseteq TypeEntity(r.owner)
    BY <2>1, RequestFacts DEF LabelOK
  <2>3. /\ linked' = linked /\ Dropped(r)' = Dropped(r) /\ Unlinked(r)' = Unlinked(r)
        /\ Doomed(r)' = Doomed(r)
    BY <2>1 DEF linked, Dropped, Unlinked, Doomed, Associated
  <2> QED
    BY <2>1, <2>2, <2>3
<1>1. New({}) = {} /\ Edited({}) = {} /\ (pc[s] = "associate" => r.kind # "delete")
  BY DEF New, Edited, LabelOK
<1>2. CASE DeleteOwner(s)
  <2>1. /\ r.kind = "delete" /\ Saved(r) = {} /\ ~ r.clear /\ r.sync = {} /\ r.remove = {}
        /\ Dropped(r) = {r.owner} /\ Unlinked(r) = {} /\ OwnerRow(r) = {}
    BY <1>2, RequestsAssumption DEF DeleteOwner, LabelOK, Saved, Dropped, Unlinked, OwnerRow
  <2>2. /\ dead'[s] = {r.owner} /\ born'[s] = {} /\ drop'[s] = {} /\ shed'[s] = {} /\ cut'[s] = {}
        /\ gone'[s] = {} /\ ins'[s] = {}
    BY <1>0, <1>2 DEF DeleteOwner, RemoveRow, NothingWritten, LabelOK
  <2> QED
    BY <1>0, <1>1, <2>1, <2>2 DEF Progress, RowsProgress, RemovalProgress, AddingProgress
<1>3. CASE ClearAssociation(s)
  <2>1. /\ r.kind # "delete" /\ Saved(r) = {} /\ r.clear /\ Unlinked(r) = {}
        /\ Dropped(r) = IF IsCombination(r.owner) THEN Associated(r.owner) ELSE {}
    BY <1>1, <1>3 DEF ClearAssociation, Saved, Dropped, Unlinked
  <2>2. /\ dead'[s] = {} /\ born'[s] = OwnerRow(r) /\ shed'[s] = {r.owner} /\ cut'[s] = {}
        /\ gone'[s] = {} /\ ins'[s] = {}
    BY <1>0, <1>3 DEF ClearAssociation, NothingWritten, OwnerIsThere
  <2>3. drop'[s] = Dropped(r)
    BY <1>0, <1>3, <2>1, AssociatedNow DEF ClearAssociation, NothingWritten
  <2> QED
    BY <1>0, <1>1, <2>1, <2>2, <2>3 DEF Progress, RowsProgress, RemovalProgress, AddingProgress
<1>4. CASE clearSyncedAssociation(s)
  <2>1. /\ r.kind # "delete" /\ Saved(r) = r.sync /\ ~ r.clear /\ r.sync # {}
        /\ Unlinked(r) = { pr \in Pairs : TypeColumn(r.owner, pr) \in Doomed(r) }
        /\ Dropped(r) = IF IsCombination(r.owner) THEN Doomed(r) ELSE {}
    BY <1>1, <1>4 DEF clearSyncedAssociation, Saved, Dropped, Unlinked
  <2>2. /\ dead'[s] = {} /\ born'[s] = OwnerRow(r) /\ cut'[s] = {} /\ saving'[s] = Saved(r)
        /\ gone'[s] = {} /\ ins'[s] = {}
    BY <1>0, <1>4, <2>1 DEF clearSyncedAssociation, NothingWritten, OwnerIsThere
  <2>3. shed'[s] = Doomed(r) /\ drop'[s] = Dropped(r)
    BY <1>0, <1>4, <2>1, AssociatedNow DEF clearSyncedAssociation, Doomed
  <2>4. Saved(r) \ saving'[s] = {}
    BY <2>2
  <2>5. \A pr \in Unlinked(r) : TypeColumn(r.owner, pr) \in shed'[s]
    BY <2>1, <2>3
  <2>6. \A i \in Saved(r) : i \in saving'[s]
    BY <2>2
  <2>7. dead'[s] = Dropped(r) \ drop'[s] /\ drop'[s] \subseteq Dropped(r)
    BY <2>2, <2>3
  <2> QED
    BY <1>0, <1>1, <2>1, <2>2, <2>3, <2>4, <2>5, <2>6, <2>7 DEF Progress, RowsProgress, RemovalProgress, AddingProgress
<1>5. CASE ChangeAssociation(s)
  <2>1. /\ r.kind # "delete" /\ Saved(r) = r.save /\ ~ r.clear /\ r.sync = {}
        /\ Unlinked(r) = IF Cascade(r) THEN {} ELSE { newAssociationPovit(r.owner, x) : x \in r.remove }
        /\ Dropped(r) = IF Cascade(r) THEN r.remove ELSE {}
    BY <1>1, <1>5 DEF ChangeAssociation, Saved, Dropped, Unlinked
  <2>2. /\ dead'[s] = {} /\ born'[s] = OwnerRow(r) /\ shed'[s] = {} /\ saving'[s] = Saved(r)
        /\ gone'[s] = {} /\ ins'[s] = {}
    BY <1>0, <1>5, <2>1 DEF ChangeAssociation, NothingWritten, OwnerIsThere
  <2>3. cut'[s] = (IF Cascade(r) THEN {} ELSE r.remove) /\ drop'[s] = Dropped(r)
    BY <1>0, <1>5, <2>1 DEF ChangeAssociation
  <2>4. Saved(r) \ saving'[s] = {}
    BY <2>2
  <2>5. \A pr \in Unlinked(r) : \E x \in cut'[s] : pr = newAssociationPovit(r.owner, x)
    BY <2>1, <2>3
  <2>6. \A i \in Saved(r) : i \in saving'[s]
    BY <2>2
  <2>7. dead'[s] = Dropped(r) \ drop'[s] /\ drop'[s] \subseteq Dropped(r)
    BY <2>2, <2>3
  <2>8. \A x \in cut'[s] : newAssociationPovit(r.owner, x) \in Unlinked(r)
    BY <2>1, <2>3
  <2> QED
    BY <1>0, <1>1, <2>1, <2>2, <2>4, <2>5, <2>6, <2>7, <2>8 DEF Progress, RowsProgress, RemovalProgress, AddingProgress
<1> QED
  BY <1>2, <1>3, <1>4, <1>5

\* The work goes on.
LEMMA ProgressStep ==
  ASSUME TypeOK, SnapIsNow, NEW s \in Sessions, LabelOK(s), WorkOK(s), NEW r \in Requests, req[s] = r,
         pc[s] = "work", Statement(s), Progress(s, r)
  PROVE  Progress(s, r)'
<1> USE DEF TypeOK
<1>0. /\ UNCHANGED <<rows, links>> /\ r.owner \in Ids /\ r.remove \subseteq TypeEntity(r.owner)
      /\ linked' = linked /\ Dropped(r)' = Dropped(r) /\ Unlinked(r)' = Unlinked(r) /\ Doomed(r)' = Doomed(r)
      /\ IdsOf(Saved(r)) \subseteq TypeEntity(r.owner)
      /\ Saved(r) \subseteq Instance
  BY RequestFacts, SnapStays DEF linked, Dropped, Unlinked, Doomed, Associated
<1> DEFINE L(x) == newAssociationPovit(r.owner, x)
<1>r. UNCHANGED <<born, saving, drop, dead>> => RowsProgress(s, r)'
  BY <1>0 DEF Progress, RowsProgress
<1>l. UNCHANGED <<shed, cut, gone>> => RemovalProgress(s, r)'
  BY <1>0 DEF Progress, RemovalProgress
<1>a. ins'[s] = {} /\ saving'[s] = Saved(r) => AddingProgress(s, r)'
  BY DEF AddingProgress
<1>b. UNCHANGED <<ins, saving, linking, gone>> => AddingProgress(s, r)'
  BY <1>0 DEF Progress, AddingProgress
<1>1. ASSUME NEW x \in Ids, DeleteInstance(s, x) PROVE Progress(s, r)'
  <2>1. /\ x \in drop[s] /\ drop'[s] = drop[s] \ {x} /\ dead'[s] = dead[s] \cup {x}
        /\ UNCHANGED <<born, saving, shed, cut, gone, ins, linking>>
    BY <1>1 DEF DeleteInstance, RemoveRow
  <2>2. RowsProgress(s, r)'
    <3>1. /\ born[s] = New(Saved(r) \ saving[s]) \cup OwnerRow(r)
          /\ Edited(Saved(r) \ saving[s]) \subseteq (rows \cup Born(r)) \ Dropped(r)
          /\ drop[s] \subseteq Dropped(r) /\ dead[s] = Dropped(r) \ drop[s]
      BY DEF Progress, RowsProgress
    <3>2. drop'[s] \subseteq Dropped(r) /\ dead'[s] = Dropped(r) \ drop'[s]
      BY <2>1, <3>1
    <3>3. Saved(r) \ saving'[s] = Saved(r) \ saving[s] /\ born'[s] = born[s]
      BY <2>1
    <3>4. /\ born'[s] = New(Saved(r) \ saving'[s]) \cup OwnerRow(r)
          /\ Edited(Saved(r) \ saving'[s]) \subseteq (rows \cup Born(r)) \ Dropped(r)
      BY <3>1, <3>3
    <3> QED
      BY <1>0, <3>2, <3>4 DEF RowsProgress
  <2> QED
    BY <1>l, <1>b, <2>1, <2>2 DEF Progress
<1>2. ASSUME NEW x \in Ids, deleteAssociationPovit(s, x) PROVE Progress(s, r)'
  <2> DEFINE prs == { pr \in Pairs : TypeColumn(r.owner, pr) = x }
  <2>1. /\ x \in shed[s] /\ shed'[s] = shed[s] \ {x} /\ ins[s] = {} /\ saving[s] = Saved(r)
        /\ UNCHANGED <<born, saving, dead, drop, cut, linking>>
        /\ \/ prs \cap LinksSeen(s) = {} /\ UNCHANGED <<ins, gone, gaps>>
           \/ prs \cap LinksSeen(s) # {} /\ DeleteLinks(s, prs, x)
    BY <1>2 DEF deleteAssociationPovit, WorkOK, Removed
  <2>2. CASE r.clear
    <3>1. x = r.owner /\ prs = {}
      BY <1>0, <2>1, <2>2, PairFacts DEF Progress, RemovalProgress
    <3>2. Unlinked(r) = {}
      BY <2>2 DEF Unlinked
    <3>3. UNCHANGED <<ins, gone>>
      BY <2>1, <3>1
    <3>4. RemovalProgress(s, r)'
      BY <1>0, <2>1, <2>2, <3>2, <3>3 DEF Progress, RemovalProgress
    <3> QED
      BY <1>r, <1>b, <2>1, <3>3, <3>4 DEF Progress
  <2>3. CASE ~ r.clear
    <3>1. x \in Doomed(r) /\ r.sync # {} /\ r.kind # "delete"
      BY <2>1, <2>3, RequestsAssumption DEF Progress, RemovalProgress
    <3>2. Unlinked(r) = { pr \in Pairs : TypeColumn(r.owner, pr) \in Doomed(r) }
      BY <2>3, <3>1 DEF Unlinked
    <3>3. ins'[s] = {} /\ gone[s] \subseteq gone'[s] /\ gone'[s] \subseteq gone[s] \cup prs
      BY <2>1 DEF DeleteLinks
    <3>4. gone'[s] \subseteq Unlinked(r)
      BY <3>1, <3>2, <3>3 DEF Progress, RemovalProgress
    <3>5. prs \cap linked \subseteq gone'[s]
      BY <2>1, SeenNow DEF DeleteLinks, linked
    <3>6. ASSUME NEW pr \in Unlinked(r) \cap linked
          PROVE  \/ pr \in gone'[s] \/ TypeColumn(r.owner, pr) \in shed'[s]
                 \/ \E y \in cut[s] : pr = newAssociationPovit(r.owner, y)
      <4>1. CASE TypeColumn(r.owner, pr) = x
        BY <3>2, <3>5, <4>1
      <4>2. CASE TypeColumn(r.owner, pr) # x
        BY <2>1, <3>3, <4>2 DEF Progress, RemovalProgress
      <4> QED
        BY <4>1, <4>2
    <3>7. shed'[s] \subseteq Doomed(r)
      BY <2>1, <2>3 DEF Progress, RemovalProgress
    <3>8. RemovalProgress(s, r)'
      <4>1. \A y \in cut[s] : newAssociationPovit(r.owner, y) \in Unlinked(r)
        BY DEF Progress, RemovalProgress
      <4> QED
        BY <1>0, <2>1, <2>3, <3>1, <3>4, <3>6, <3>7, <4>1 DEF RemovalProgress
    <3> QED
      BY <1>r, <1>a, <2>1, <3>3, <3>8 DEF Progress
  <2> QED
    BY <2>2, <2>3
<1>3. ASSUME NEW x \in Ids, DeleteAssociationPovit(s, x) PROVE Progress(s, r)'
  <2>1. /\ x \in cut[s] /\ cut'[s] = cut[s] \ {x} /\ ins[s] = {} /\ saving[s] = Saved(r)
        /\ UNCHANGED <<born, saving, dead, drop, shed, linking>>
        /\ gone'[s] = gone[s] \cup { pr \in {L(x)} : links[pr] > 0 }
        /\ ins'[s] = {}
    BY <1>3 DEF DeleteAssociationPovit, WorkOK, Removed, DeleteLinks
  <2>2. L(x) \in Unlinked(r)
    BY <2>1 DEF Progress, RemovalProgress
  <2>3. gone'[s] \subseteq Unlinked(r)
    BY <2>1, <2>2 DEF Progress, RemovalProgress
  <2>4. ASSUME NEW pr \in Unlinked(r) \cap linked
        PROVE  \/ pr \in gone'[s] \/ TypeColumn(r.owner, pr) \in shed[s]
               \/ \E y \in cut'[s] : pr = newAssociationPovit(r.owner, y)
    <3>1. CASE pr = L(x)
      BY <2>1, <3>1 DEF linked
    <3>2. CASE pr # L(x)
      BY <2>1, <3>2 DEF Progress, RemovalProgress
    <3> QED
      BY <3>1, <3>2
  <2>5. RemovalProgress(s, r)'
    <3>1. /\ \A y \in cut'[s] : newAssociationPovit(r.owner, y) \in Unlinked(r)
          /\ r.clear => shed[s] \subseteq {r.owner}
          /\ ~ r.clear => shed[s] \subseteq Doomed(r) /\ (r.sync = {} => shed[s] = {})
      BY <2>1 DEF Progress, RemovalProgress
    <3> QED
      BY <1>0, <2>1, <2>3, <2>4, <3>1 DEF RemovalProgress
  <2> QED
    BY <1>r, <1>a, <2>1, <2>5 DEF Progress
<1>4. ASSUME NEW i \in saving[s], saveAssociationInstance(s, i) PROVE Progress(s, r)'
  <2> DEFINE A == Saved(r) \ saving[s]
  <2>1. /\ Removed(s) /\ linking[s] = None /\ linking'[s] = i.id /\ saving'[s] = saving[s] \ {i}
        /\ i \in Saved(r) /\ saving[s] \subseteq Saved(r)
        /\ UNCHANGED <<drop, shed, cut, gone, ins>>
    BY <1>4 DEF saveAssociationInstance, WorkOK
  <2>2. Saved(r) \ saving'[s] = A \cup {i}
    BY <2>1
  <2>3. /\ born'[s] = IF i.body = "new" THEN born[s] \cup {i.id} ELSE born[s]
        /\ dead' = dead
        /\ i.body = "fields" => i.id \in (rows \cup born[s]) \ dead[s]
    BY <1>4, SeenNow DEF saveAssociationInstance, InsertRow, UpdateRow
  <2>4. born'[s] = New(A \cup {i}) \cup OwnerRow(r)
    <3>1. born[s] = New(A) \cup OwnerRow(r)
      BY DEF Progress, RowsProgress
    <3> HIDE DEF A
    <3>2. New(A \cup {i}) = IF i.body = "new" THEN New(A) \cup {i.id} ELSE New(A)
      <4>1. CASE i.body = "new"
        BY <4>1 DEF New
      <4>2. CASE i.body # "new"
        BY <4>2 DEF New
      <4> QED
        BY <4>1, <4>2
    <3> QED
      BY <2>3, <3>1, <3>2
  <2>5. dead[s] = Dropped(r) /\ born[s] \subseteq Born(r)
    BY <2>1, BornSoFar DEF Progress, RowsProgress, Removed
  <2>6. Edited(A \cup {i}) \subseteq (rows \cup Born(r)) \ Dropped(r)
    <3>1. Edited(A) \subseteq (rows \cup Born(r)) \ Dropped(r)
      BY DEF Progress, RowsProgress
    <3>2. i.body = "fields" => i.id \in (rows \cup Born(r)) \ Dropped(r)
      BY <2>3, <2>5
    <3> HIDE DEF A
    <3>3. Edited(A \cup {i}) = IF i.body = "fields" THEN Edited(A) \cup {i.id} ELSE Edited(A)
      <4>1. CASE i.body = "fields"
        BY <4>1 DEF Edited
      <4>2. CASE i.body # "fields"
        BY <4>2 DEF Edited
      <4> QED
        BY <4>1, <4>2
    <3>4. CASE i.body = "fields"
      BY <3>1, <3>2, <3>3, <3>4
    <3>5. CASE i.body # "fields"
      BY <3>1, <3>3, <3>5
    <3> QED
      BY <3>4, <3>5
  <2>7. \A j \in Saved(r) :
          \/ j \in saving'[s] \/ linking'[s] = j.id
          \/ newAssociationPovit(r.owner, j.id) \in ins[s] \cup (linked \ gone[s])
    <3>1. \A j \in Saved(r) : j.id # None
      BY <1>0, NoneAssumption DEF Instance
    <3> QED
      BY <2>1, <3>1 DEF Progress, AddingProgress
  <2> HIDE DEF A
  <2>8. RowsProgress(s, r)'
    <3>1. drop'[s] \subseteq Dropped(r) /\ dead'[s] = Dropped(r) \ drop'[s]
      BY <2>1, <2>3 DEF Progress, RowsProgress
    <3>2. /\ born'[s] = New(Saved(r) \ saving'[s]) \cup OwnerRow(r)
          /\ Edited(Saved(r) \ saving'[s]) \subseteq (rows \cup Born(r)) \ Dropped(r)
      BY <2>2, <2>4, <2>6
    <3> QED
      BY <1>0, <3>1, <3>2 DEF RowsProgress
  <2>9. AddingProgress(s, r)'
    <3>1. ins[s] \subseteq { newAssociationPovit(r.owner, j.id) : j \in Saved(r) }
      BY DEF Progress, AddingProgress
    <3> QED
      BY <1>0, <2>1, <2>7, <3>1 DEF AddingProgress
  <2> QED
    BY <1>l, <2>1, <2>8, <2>9 DEF Progress
<1>5. CASE SaveAssociationPovit(s)
  <2> DEFINE pr == L(linking[s])
  <2>1. /\ linking[s] \in IdsOf(Saved(r)) /\ linking'[s] = None
        /\ UNCHANGED <<born, dead, drop, saving, shed, cut, gone>>
        /\ ins'[s] = IF pr \in ins[s] \cup (linked \ gone[s]) THEN ins[s] ELSE ins[s] \cup {pr}
    BY <1>5, SeenNow DEF SaveAssociationPovit, WorkOK, InsertLink, povitExists
  <2>2. pr \in ins'[s] \cup (linked \ gone[s]) /\ ins[s] \subseteq ins'[s]
    BY <2>1
  <2>3. ins'[s] \subseteq { newAssociationPovit(r.owner, i.id) : i \in Saved(r) }
    BY <2>1 DEF Progress, AddingProgress, IdsOf
  <2>4. \A i \in Saved(r) :
          \/ i \in saving[s]
          \/ newAssociationPovit(r.owner, i.id) \in ins'[s] \cup (linked \ gone[s])
    BY <2>2 DEF Progress, AddingProgress
  <2>5. AddingProgress(s, r)'
    BY <1>0, <2>1, <2>3, <2>4 DEF AddingProgress
  <2> QED
    BY <1>l, <1>r, <2>1, <2>5 DEF Progress
<1> QED
  BY <1>1, <1>2, <1>3, <1>4, <1>5
  DEF Statement, FindOwner, updateOneBody, insertOneBody, DeleteOwner, ClearAssociation,
      clearSyncedAssociation, ChangeAssociation
\* A statement leaves what the session reads and the ids that are given.
LEMMA StatementBooks ==
  ASSUME TypeOK, NEW s \in Sessions, LabelOK(s), Statement(s), Sessions = {s},
         SnapIsNow, RowsAreUsed, OwnerIsThere
  PROVE  SnapIsNow' /\ RowsAreUsed' /\ OwnerIsThere'
<1> USE DEF TypeOK, Goto, database, transaction, work
<1>0. /\ UNCHANGED <<rows, links>> /\ req'[s] = req[s] /\ pc[s] # "idle"
      /\ Snapshot(s) = [rows |-> rows, links |-> links] /\ snap'[s] \in {snap[s], Snapshot(s)}
  <2>1. pc[s] # "idle"
    BY DEF Statement, FindOwner, updateOneBody, insertOneBody, DeleteOwner, ClearAssociation,
           clearSyncedAssociation, ChangeAssociation, DeleteInstance, deleteAssociationPovit,
           DeleteAssociationPovit, saveAssociationInstance, SaveAssociationPovit, LabelOK, NothingWritten
  <2> QED
    BY <2>1, SnapStays, SeenNow
<1>1. SnapIsNow'
  BY <1>0 DEF SnapIsNow
<1>2. used \subseteq used' /\ (born[s] \subseteq used => born'[s] \subseteq used')
  <2>1. ASSUME NEW i \in saving[s], saveAssociationInstance(s, i)
        PROVE  used \subseteq used' /\ (born[s] \subseteq used => born'[s] \subseteq used')
    BY <2>1 DEF saveAssociationInstance, InsertRow, UpdateRow
  <2>2. CASE insertOneBody(s)
    BY <2>2 DEF insertOneBody, InsertRow
  <2>3. CASE UNCHANGED <<used, born>>
    BY <2>3
  <2>4. CASE FindOwner(s) \/ updateOneBody(s) \/ DeleteOwner(s)
    BY <2>3, <2>4 DEF FindOwner, updateOneBody, UpdateRow, DeleteOwner, RemoveRow
  <2>5. CASE ClearAssociation(s) \/ clearSyncedAssociation(s) \/ ChangeAssociation(s) \/ SaveAssociationPovit(s)
    BY <2>3, <2>5 DEF ClearAssociation, clearSyncedAssociation, ChangeAssociation, SaveAssociationPovit
  <2>6. CASE \E x \in Ids : DeleteInstance(s, x) \/ deleteAssociationPovit(s, x) \/ DeleteAssociationPovit(s, x)
    BY <2>3, <2>6 DEF DeleteInstance, RemoveRow, deleteAssociationPovit, DeleteAssociationPovit
  <2> QED
    BY <2>1, <2>2, <2>4, <2>5, <2>6 DEF Statement
<1>3. RowsAreUsed'
  BY <1>0, <1>2 DEF RowsAreUsed
<1> DEFINE There ==
      /\ pc'[s] \in {"write", "associate", "work"} /\ req[s].kind = "update" => req[s].owner \in rows
      /\ pc'[s] = "write" => born'[s] = {}
      /\ pc'[s] = "associate" => born'[s] = OwnerRow(req[s])
<1>4. ASSUME FindOwner(s) PROVE There
  <2>1. req[s].owner \in rows /\ born[s] = {} /\ pc'[s] = "write" /\ born' = born
    BY <1>4, SeenNow DEF FindOwner, LabelOK, NothingWritten
  <2> QED
    BY <2>1
<1>5. ASSUME updateOneBody(s) PROVE There
  BY <1>5 DEF updateOneBody, UpdateRow, LabelOK, OwnerIsThere, OwnerRow
<1>6. ASSUME insertOneBody(s) PROVE There
  BY <1>6 DEF insertOneBody, InsertRow, LabelOK, OwnerIsThere, OwnerRow
<1>7. ASSUME pc'[s] = "work", (req[s].kind = "delete" \/ pc[s] \in {"associate", "work"}) PROVE There
  BY <1>7 DEF OwnerIsThere
<1>8. There
  BY <1>4, <1>5, <1>6, <1>7
  DEF Statement, DeleteOwner, ClearAssociation, clearSyncedAssociation, ChangeAssociation, DeleteInstance,
      deleteAssociationPovit, DeleteAssociationPovit, saveAssociationInstance, SaveAssociationPovit, LabelOK
<1>9. OwnerIsThere'
  BY <1>0, <1>8 DEF OwnerIsThere, OwnerRow
<1> QED
  BY <1>1, <1>3, <1>9

LEMMA StatementSerial ==
  ASSUME SessionInv, SerialInv, NEW s \in Sessions, Statement(s), Sessions = {s}
  PROVE  SerialInv'
<1>0. TypeOK /\ LabelOK(s) /\ (pc[s] = "work" => WorkOK(s))
  BY DEF SessionInv
<1>1. SnapIsNow' /\ RowsAreUsed' /\ OwnerIsThere' /\ OneSession'
  BY <1>0, StatementBooks DEF SerialInv, OneSession
<1>2. ASSUME NEW r \in Requests, pc'[s] = "work", req'[s] = r PROVE Progress(s, r)'
  <2>0. req[s] = r
    BY <1>0, <1>2, SnapStays
  <2>1. CASE pc[s] = "work"
    BY <1>0, <2>0, <2>1, ProgressStep DEF SerialInv, WorkIsDone
  <2>2. CASE pc[s] # "work"
    <3>1. DeleteOwner(s) \/ ClearAssociation(s) \/ clearSyncedAssociation(s) \/ ChangeAssociation(s)
      BY <1>0, <1>2, <2>2
      DEF Statement, FindOwner, updateOneBody, insertOneBody, DeleteInstance, deleteAssociationPovit,
          DeleteAssociationPovit, saveAssociationInstance, SaveAssociationPovit, Goto, TypeOK, LabelOK, NothingWritten
    <3> QED
      BY <1>0, <2>0, <3>1, ProgressBegins DEF SerialInv
  <2> QED
    BY <2>1, <2>2
<1>3. WorkIsDone'
  BY <1>2 DEF WorkIsDone
<1> QED
  BY <1>1, <1>3 DEF SerialInv

\* One session at a time, the invariant holds in every state.
LEMMA SerialStep ==
  ASSUME SessionInv, SerialInv, [Next]_vars
  PROVE  SerialInv'
<1>0. TypeOK
  BY DEF SessionInv
<1>s. PICK s : Sessions = {s}
  BY DEF SerialInv, OneSession
<1>1. CASE Statement(s)
  BY <1>1, <1>s, StatementSerial
<1>2. ASSUME NEW r \in Requests, Begin(s, r) PROVE SerialInv'
  <2>1. /\ req'[s] = r /\ pc'[s] \in {"insert", "update", "delete"} /\ Born(r) \cap used = {}
        /\ UNCHANGED <<rows, links, used, snap, born>>
    BY <1>0, <1>2, <1>s, RequestFacts DEF Begin, database, transaction, TypeOK, Goto, Request
  <2> QED
    BY <1>s, <2>1 DEF SerialInv, OneSession, SnapIsNow, RowsAreUsed, OwnerIsThere, WorkIsDone
<1>3. CASE Commit(s) \/ Rollback(s)
  <2>1. /\ pc'[s] = "idle" /\ snap'[s] = None /\ born'[s] = {} /\ used' = used
        /\ rows' \subseteq rows \cup born[s]
    BY <1>0, <1>3, <1>s DEF Commit, Rollback, EndTx, Goto, TypeOK
  <2> QED
    BY <1>s, <2>1 DEF SerialInv, OneSession, SnapIsNow, RowsAreUsed, OwnerIsThere, WorkIsDone
<1>4. CASE UNCHANGED vars
  <2>1. UNCHANGED <<rows, links, used, pc, req, snap, born, dead, ins, gone, drop, shed, cut, saving, linking>>
    BY <1>4 DEF vars, database, transaction, work
  <2>2. ASSUME NEW r \in Requests, Progress(s, r) PROVE Progress(s, r)'
    <3>1. linked' = linked /\ Dropped(r)' = Dropped(r) /\ Unlinked(r)' = Unlinked(r) /\ Doomed(r)' = Doomed(r)
      BY <2>1 DEF linked, Dropped, Unlinked, Doomed, Associated
    <3> QED
      BY <2>1, <2>2, <3>1 DEF Progress, RowsProgress, RemovalProgress, AddingProgress
  <2>3. WorkIsDone'
    BY <1>s, <2>1, <2>2 DEF SerialInv, WorkIsDone
  <2> QED
    BY <1>s, <2>1, <2>3 DEF SerialInv, OneSession, SnapIsNow, RowsAreUsed, OwnerIsThere, OwnerRow
<1> QED
  BY <1>s, <1>1, <1>2, <1>3, <1>4 DEF Next, Finished
-----------------------------------------------------------------------------
(* What a commit does is what Associations promises *)

Linked(r) == { newAssociationPovit(r.owner, i.id) : i \in Saved(r) }

LEMMA CommitDoes ==
  ASSUME SessionInv, SerialInv, NEW s \in Sessions, Commit(s), NEW r \in Requests, req[s] = r
  PROVE  /\ rows' = (rows \cup Born(r)) \ Dropped(r)
         /\ linked' = (linked \ Unlinked(r)) \cup Linked(r)
         /\ r.kind = "update" => r.owner \in rows
         /\ Edited(Saved(r)) \subseteq (rows \cup Born(r)) \ Dropped(r)
         /\ Born(r) \cap rows = {}
<1>0. /\ TypeOK /\ pc[s] = "work" /\ Removed(s) /\ saving[s] = {} /\ linking[s] = None
      /\ rows' = (rows \cup born[s]) \ dead[s] /\ links' = [pr \in Pairs |-> Copies(s, pr)]
      /\ Saved(r) \subseteq Instance /\ Saved(r) \ saving[s] = Saved(r)
      /\ RowsProgress(s, r) /\ RemovalProgress(s, r) /\ AddingProgress(s, r) /\ RowsAreUsed /\ OwnerIsThere
  BY RequestFacts DEF SessionInv, SerialInv, WorkIsDone, Progress, Commit, Done
<1>1. born[s] = Born(r)
  BY <1>0 DEF RowsProgress, Born, OwnerRow
<1>2. dead[s] = Dropped(r) /\ Edited(Saved(r)) \subseteq (rows \cup Born(r)) \ Dropped(r)
  BY <1>0 DEF RowsProgress, Removed
<1>3. linked' = ins[s] \cup (linked \ gone[s])
  BY <1>0 DEF linked, Copies, TypeOK
<1>4. gone[s] \subseteq Unlinked(r) /\ Unlinked(r) \cap linked \subseteq gone[s]
  BY <1>0 DEF RemovalProgress, Removed
<1>5. linked \ gone[s] = linked \ Unlinked(r)
  BY <1>4
<1>6. ins[s] \subseteq Linked(r) /\ Linked(r) \subseteq ins[s] \cup (linked \ gone[s])
  <2>1. \A i \in Saved(r) : newAssociationPovit(r.owner, i.id) \in ins[s] \cup (linked \ gone[s])
    BY <1>0, NoneAssumption DEF AddingProgress, Instance
  <2> QED
    BY <1>0, <2>1 DEF AddingProgress, Linked
<1>7. Born(r) \cap rows = {} /\ (r.kind = "update" => r.owner \in rows)
  BY <1>0 DEF RowsAreUsed, OwnerIsThere
<1> QED
  BY <1>0, <1>1, <1>2, <1>3, <1>5, <1>6, <1>7

\* The operators of the promise are those of the model.
LEMMA PromiseOperators ==
  ASSUME NEW r
  PROVE  /\ Promise!Born(r) = Born(r) /\ Promise!Saved(r) = Saved(r)
         /\ Promise!Edited(Promise!Saved(r)) = Edited(Saved(r))
         /\ Promise!IsCombination(r.owner) = IsCombination(r.owner) /\ Promise!Cascade(r) = Cascade(r)
         /\ Promise!IdsOf(r.sync) = IdsOf(r.sync) /\ Promise!Pairs = Pairs
         /\ \A o, x : Promise!newAssociationPovit(o, x) = newAssociationPovit(o, x)
         /\ \A o, pr : Promise!TypeColumn(o, pr) = TypeColumn(o, pr)
         /\ Promise!Associated(r.owner) = Associated(r.owner)
BY DEF Promise!Born, Promise!Saved, Promise!Edited, Promise!New, Promise!IsCombination, Promise!Cascade,
       Promise!IdsOf, Promise!Pairs, Promise!newAssociationPovit, Promise!TypeColumn, Promise!Associated,
       Promise!TypeEntity, Born, Saved, Edited, New, IsCombination, Cascade, IdsOf, Pairs, newAssociationPovit,
       TypeColumn, Associated, TypeEntity, linked

LEMMA CommitKeepsThePromise ==
  ASSUME SessionInv, SerialInv, NEW s \in Sessions, Commit(s), NEW r \in Requests, req[s] = r
  PROVE  Promise!Next
<1>0. /\ rows' = (rows \cup Born(r)) \ Dropped(r)
      /\ linked' = (linked \ Unlinked(r)) \cup Linked(r)
      /\ r.kind = "update" => r.owner \in rows
      /\ Edited(Saved(r)) \subseteq (rows \cup Born(r)) \ Dropped(r)
      /\ Born(r) \cap rows = {}
  BY CommitDoes
<1>1. r \in Request
  BY RequestFacts
<1>2. Promise!Acceptable(r, Dropped(r))
  BY <1>0, PromiseOperators DEF Promise!Acceptable
<1>3. Promise!Write(r, Dropped(r), Unlinked(r))
  BY <1>0, <1>2, PromiseOperators DEF Promise!Write, linked, Linked
<1>4. CASE r.kind = "delete"
  <2>1. Born(r) = {} /\ Linked(r) = {} /\ Unlinked(r) = {} /\ Dropped(r) = {r.owner}
    BY <1>4 DEF Born, New, Saved, Linked, Unlinked, Dropped
  <2>2. Promise!Delete(r)
    BY <1>0, <1>4, <2>1 DEF Promise!Delete, linked
  <2> QED
    BY <2>2 DEF Promise!Next
<1>5. CASE r.kind # "delete" /\ r.clear
  <2>1. Promise!Clear(r)
    <3>1. /\ Dropped(r) = IF Promise!IsCombination(r.owner) THEN Promise!Associated(r.owner) ELSE {}
          /\ Unlinked(r) = {}
      BY <1>5, PromiseOperators DEF Dropped, Unlinked
    <3>2. { pr \in Promise!Pairs : Promise!TypeColumn(r.owner, pr) = r.owner } = {}
      BY PromiseOperators, PairFacts, RequestFacts
    <3> QED
      BY <1>3, <1>5, <3>1, <3>2 DEF Promise!Clear, Promise!Write, Promise!Acceptable
  <2> QED
    BY <2>1 DEF Promise!Next
<1>6. CASE r.kind # "delete" /\ ~ r.clear /\ r.sync # {}
  <2>1. Promise!Sync(r)
    <3> DEFINE doomed == Promise!Associated(r.owner) \ Promise!IdsOf(r.sync)
    <3>1. doomed = Doomed(r)
      BY PromiseOperators DEF Doomed
    <3>2. Dropped(r) = IF Promise!IsCombination(r.owner) THEN doomed ELSE {}
      BY <1>6, <3>1, PromiseOperators DEF Dropped
    <3>3. Unlinked(r) = { pr \in Promise!Pairs : Promise!TypeColumn(r.owner, pr) \in doomed }
      BY <1>6, <3>1, PromiseOperators DEF Unlinked
    <3> QED
      BY <1>3, <1>6, <3>2, <3>3 DEF Promise!Sync, Promise!Write, Promise!Acceptable
  <2> QED
    BY <2>1 DEF Promise!Next
<1>7. CASE r.kind # "delete" /\ ~ r.clear /\ r.sync = {}
  <2>1. Promise!Change(r)
    <3>1. Dropped(r) = IF Promise!Cascade(r) THEN r.remove ELSE {}
      BY <1>7, PromiseOperators DEF Dropped
    <3>2. Unlinked(r) = IF Promise!Cascade(r) THEN {} ELSE { Promise!newAssociationPovit(r.owner, x) : x \in r.remove }
      BY <1>7, PromiseOperators DEF Unlinked
    <3> QED
      BY <1>3, <1>7, <3>1, <3>2 DEF Promise!Change, Promise!Write, Promise!Acceptable
  <2> QED
    BY <2>1 DEF Promise!Next
<1> QED
  BY <1>4, <1>5, <1>6, <1>7

\* When requests are served one at a time, the statements of a transaction
\* (saveInstance, deleteInstance and their associations) do together what
\* Associations promises in one step, whatever the request, the objects and the
\* links are; a transaction that is rolled back does nothing.
THEOREM SerialRequestsKeepThePromise == OneSession /\ Spec => ImplementsPromise
<1> DEFINE lk == { pr \in Pairs : links[pr] > 0 }
<1>1. OneSession /\ Init => SerialInv
  BY DEF Init, SerialInv, OneSession, SnapIsNow, RowsAreUsed, OwnerIsThere, WorkIsDone
<1>2. SessionInv /\ SerialInv /\ [Next]_vars => SerialInv'
  BY SerialStep
<1>3. OneSession /\ Spec => []SerialInv
  BY <1>1, <1>2, SessionsHold, PTL DEF Spec
<1>4. Init => Promise!Init
  BY InitialAssumption DEF Init, Promise!Init, Promise!Ids, Promise!Pairs, Ids, Pairs
<1>5. ASSUME SessionInv, SerialInv, [Next]_vars PROVE Promise!Next \/ (rows' = rows /\ lk' = lk)
  <2>0. TypeOK /\ \A t \in Sessions : LabelOK(t)
    BY <1>5 DEF SessionInv
  <2>1. ASSUME NEW t \in Sessions, Commit(t) PROVE Promise!Next
    BY <1>5, <2>0, <2>1, CommitKeepsThePromise DEF Commit, Done, LabelOK
  <2>2. ASSUME NEW t \in Sessions, Statement(t) PROVE rows' = rows /\ lk' = lk
    BY <2>0, <2>2, SnapStays
  <2>3. ASSUME NEW t \in Sessions, Rollback(t) \/ \E r \in Requests : Begin(t, r) PROVE rows' = rows /\ lk' = lk
    BY <2>3 DEF Rollback, Begin, database
  <2>4. CASE UNCHANGED vars
    BY <2>4 DEF vars, database
  <2> QED
    BY <1>5, <2>1, <2>2, <2>3, <2>4 DEF Next, Finished
<1>6. SessionInv /\ SerialInv /\ [Next]_vars => [Promise!Next]_<<rows, lk>>
  BY <1>5
<1> QED
  BY <1>3, <1>4, <1>6, SessionsHold, PTL DEF Spec, ImplementsPromise, Promise!Spec
==============================================================================
