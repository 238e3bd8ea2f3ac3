--------------------------- MODULE AppCacheProofs ---------------------------
(***************************************************************************)
(* For any number of applications, requests, publishes and loaders: the    *)
(* application in the cache is the published one unless the publish that   *)
(* saved it has yet to reload it, or panicked doing so                     *)
(* (CachedIsPublished).  Then the history: the published model is          *)
(* the migrated one (PublishedIsMigrated), a loader never goes back to an  *)
(* older application (NeverGoesBack), a Get is as new as the last publish  *)
(* that finished before it (GetIsNotStale) and is nil only of a deleted    *)
(* application (NilMeansDeleted).                                          *)
(***************************************************************************)
EXTENDS AppCache, TLAPS

Building == {"merge", "install"}
Holding == {"query", "merge", "install", "unlock"}
Aimed == Holding \cup {"lock", "return"}

\* Each kind of request runs its own code, on a loader once it has one.
Labelled ==
  /\ \A g \in Getters : pc[g] \in {"idle", "miss"} \cup Aimed
  /\ \A p \in Publishers : pc[p] \notin {"miss", "return"}
  /\ \A p \in Procs : pc[p] \in Aimed => target[p] \in used

\* A request between Lock and Unlock holds the mutex of its loader.
Mutex == \A p \in Procs : pc[p] \in Holding => owner[target[p]] = p

\* A loader belongs to one application; one that is not in use is not loaded.
OneApp ==
  /\ \A a \in Apps : cache[a] # None => cache[a] \in used
  /\ \A a, b \in Apps : cache[a] # None /\ cache[a] = cache[b] => a = b
  /\ \A p \in Procs, a \in Apps : pc[p] \in Aimed /\ target[p] = cache[a] => of[p] = a
  /\ \A l \in Loaders : l \notin used => ~ loaded[l]

\* The publish that saved the row will lock loader l and read the row again.
Waiting(a, l) ==
  \E q \in Publishers : /\ of[q] = a
                        /\ saved[q] = row[a].stamp
                        /\ pc[q] = "reload" \/ (pc[q] = "lock" /\ target[q] = l)

\* What a load is about to install is published, or somebody will reload.
BuiltIsPublished ==
  \A p \in Procs, a \in Apps :
     (pc[p] \in Building /\ target[p] = cache[a]) =>
        built[p].own = row[a].stamp \/ Waiting(a, cache[a])

\* The system application stays loaded: its row is not deleted.
SystemLoaded ==
  /\ row[SystemApp].exists
  /\ cache[SystemApp] # None /\ app[cache[SystemApp]] # None
  /\ \A p \in Procs : pc[p] = "miss" => of[p] # SystemApp

LoaderInv == Labelled /\ Mutex /\ OneApp /\ SystemLoaded /\ BuiltIsPublished /\ CachedIsPublished
IInv == TypeOK /\ LoaderInv

-----------------------------------------------------------------------------
(* Type correctness.  SystemLoaded is what makes the merged model a model. *)

LEMMA RowUpdate ==
  ASSUME NEW r \in Row, NEW n \in Nat, NEW b \in BOOLEAN
  PROVE  [r EXCEPT !.meta = n] \in Row /\ [r EXCEPT !.exists = b] \in Row
BY DEF Row

LEMMA FinishType ==
  ASSUME TypeOK, NEW p \in Publishers, Finish(p)
  PROVE  finished' \in [Apps -> Nat]
<1>1. of[p] \in Apps /\ saved[p] \in Nat /\ finished[of[p]] \in Nat
  BY DEF TypeOK, Procs
<1>2. (IF saved[p] > finished[of[p]] THEN saved[p] ELSE finished[of[p]]) \in Nat
  BY <1>1
<1> QED
  BY <1>1, <1>2 DEF TypeOK, Finish

LEMMA TypeStep ==
  ASSUME TypeOK, Labelled, SystemLoaded, [Next]_vars
  PROVE  TypeOK'
<1> USE SystemAppAssumption, ProcessAssumption, NoneAssumption
    DEF TypeOK, Labels, Application, Aimed, Holding, Procs, database, loaders, locals,
        history, Goto, Aim, Nothing
<1>1. ASSUME NEW g \in Getters, NEW a \in Apps, Lookup(g, a) PROVE TypeOK'
  BY <1>1 DEF Lookup
<1>2. ASSUME NEW g \in Getters, StoreLoader(g) PROVE TypeOK'
  BY <1>2 DEF StoreLoader
<1>3. ASSUME NEW g \in Getters, Return(g) PROVE TypeOK'
  BY <1>3 DEF Return, End
<1>4. ASSUME NEW p \in Procs, Lock(p) PROVE TypeOK'
  BY <1>4 DEF Lock
<1>5. ASSUME NEW p \in Procs, Query(p) PROVE TypeOK'
  <2>1. row[of[p]].stamp \in Nat
    BY <1>5 DEF Row
  <2> QED
    BY <1>5, <2>1 DEF Query
<1>6. ASSUME NEW p \in Procs, LoadFails(p) PROVE TypeOK'
  BY <1>6 DEF LoadFails, End
<1>20. ASSUME NEW p \in Procs, LoadPanics(p) PROVE TypeOK'
  <2>1. missed' \in [Apps -> SUBSET Nat]
    BY ONLY <1>20, TypeOK DEF TypeOK, LoadPanics, Procs
  <2>2. /\ owner' \in [Loaders -> Procs \cup {None}] /\ pc' \in [Procs -> Labels]
        /\ of' \in [Procs -> Apps] /\ target' \in [Procs -> Loaders \cup {None}]
        /\ built' \in [Procs -> Application]
    BY <1>20 DEF LoadPanics, End
  <2>3. UNCHANGED <<database, cache, used, loaded, app, snapshot, floor, finished, saved,
                    disturbed, restarts>>
    BY ONLY <1>20 DEF LoadPanics
  <2> QED
    BY ONLY TypeOK, <2>1, <2>2, <2>3 DEF TypeOK, database, Application
<1>7. ASSUME NEW p \in Procs, MergeSystemModel(p) PROVE TypeOK'
  BY <1>7 DEF MergeSystemModel, SystemLoaded
<1>8. ASSUME NEW p \in Procs, Install(p) PROVE TypeOK'
  BY <1>8 DEF Install
<1>9. ASSUME NEW p \in Procs, Unlock(p) PROVE TypeOK'
  <2>1. /\ pc[p] = "unlock" /\ owner' = [owner EXCEPT ![target[p]] = None]
        /\ UNCHANGED <<database, cache, used, loaded, app, snapshot, floor, saved,
                       disturbed, missed, restarts>>
    BY <1>9 DEF Unlock
  <2>2. CASE p \in Publishers
    <3>1. End(p) /\ Finish(p)
      BY <1>9, <2>2 DEF Unlock, Forced
    <3>2. finished' \in [Apps -> Nat]
      BY <2>2, <3>1, FinishType
    <3> QED
      BY <2>1, <3>1, <3>2 DEF End
  <2>3. CASE p \notin Publishers
    <3>1. Goto(p, "return") /\ UNCHANGED <<of, target, built, finished>>
      BY <1>9, <2>3 DEF Unlock, Forced
    <3> QED
      BY <2>1, <3>1
  <2> QED
    BY <2>2, <2>3
<1>10. ASSUME NEW p \in Publishers, NEW a \in Apps, StartPublish(p, a) PROVE TypeOK'
  <2>1. row[a].meta \in Nat
    BY DEF Row
  <2> QED
    BY <1>10, <2>1 DEF StartPublish
<1>11. ASSUME NEW p \in Publishers, Migrate(p) PROVE TypeOK'
  BY <1>11 DEF Migrate
<1>12. ASSUME NEW p \in Publishers, MigrateFails(p) PROVE TypeOK'
  BY <1>12 DEF MigrateFails, End
<1>13. ASSUME NEW p \in Publishers, SaveRow(p) PROVE TypeOK'
  <2>1. row[of[p]].stamp \in Nat
    BY DEF Row
  <2> QED
    BY <1>13, <2>1 DEF SaveRow, Row
<1>14. ASSUME NEW p \in Publishers, SaveFails(p) PROVE TypeOK'
  BY <1>14 DEF SaveFails, End
<1>15. ASSUME NEW p \in Publishers, ReLoad(p) PROVE TypeOK'
  <2>1. UNCHANGED <<database, loaders, snapshot, floor, saved, disturbed, missed, restarts>>
    BY <1>15 DEF ReLoad
  <2>2. CASE cache[of[p]] = None
    <3>1. End(p) /\ Finish(p)
      BY <1>15, <2>2 DEF ReLoad
    <3> QED
      BY <2>1, <3>1, FinishType DEF End
  <2>3. CASE cache[of[p]] # None
    <3>1. Aim(p, cache[of[p]]) /\ Goto(p, "lock") /\ UNCHANGED <<of, built, finished>>
      BY <1>15, <2>3 DEF ReLoad
    <3>2. pc' \in [Procs -> Labels] /\ target' \in [Procs -> Loaders \cup {None}]
      BY <3>1
    <3> QED
      BY <2>1, <3>1, <3>2
  <2> QED
    BY <2>2, <2>3
<1>16. ASSUME NEW a \in Apps, Edit(a) PROVE TypeOK'
  <2>1. row' \in [Apps -> Row]
    <3>1. row' = [row EXCEPT ![a] = [row[a] EXCEPT !.meta = row[a].meta + 1]]
      BY <1>16 DEF Edit
    <3>2. row[a] \in Row /\ row[a].meta + 1 \in Nat
      BY DEF Row
    <3> QED
      BY <3>1, <3>2, RowUpdate
  <2> QED
    BY <1>16, <2>1 DEF Edit
<1>17. ASSUME NEW a \in Apps, DeleteApp(a) PROVE TypeOK'
  <2>1. row' \in [Apps -> Row]
    <3>1. row' = [row EXCEPT ![a] = [row[a] EXCEPT !.exists = FALSE]]
      BY <1>17 DEF DeleteApp
    <3>2. row[a] \in Row
      OBVIOUS
    <3> QED
      BY <3>1, <3>2, RowUpdate
  <2> QED
    BY <1>17, <2>1 DEF DeleteApp
<1>18. ASSUME Restart PROVE TypeOK'
  <2>1. row[SystemApp].stamp \in Nat
    BY DEF Row
  <2> QED
    BY <1>18, <2>1, BoundsAssumption DEF Restart
<1>19. CASE UNCHANGED vars
  BY <1>19 DEF vars
<1> QED
  BY <1>1, <1>2, <1>3, <1>4, <1>5, <1>6, <1>20, <1>7, <1>8, <1>9, <1>10, <1>11, <1>12, <1>13,
     <1>14, <1>15, <1>16, <1>17, <1>18, <1>19 DEF Next, Get, Publish, Load


-----------------------------------------------------------------------------
(* Who holds which loader. *)

Structure == Labelled /\ Mutex /\ OneApp /\ SystemLoaded

LEMMA StructureStep ==
  ASSUME TypeOK, Structure, [Next]_vars
  PROVE  Structure'
<1> USE SystemAppAssumption, ProcessAssumption, NoneAssumption
    DEF Structure, TypeOK, Labelled, Mutex, OneApp, SystemLoaded, Labels, Aimed, Holding,
        Procs, database, loaders, locals, history, Goto, Aim
<1>1. ASSUME NEW g \in Getters, NEW a \in Apps, Lookup(g, a) PROVE Structure'
  BY <1>1 DEF Lookup
<1>2. ASSUME NEW g \in Getters, StoreLoader(g) PROVE Structure'
  BY <1>2 DEF StoreLoader
<1>3. ASSUME NEW g \in Getters, Return(g) PROVE Structure'
  BY <1>3 DEF Return, End
<1>4. ASSUME NEW p \in Procs, Lock(p) PROVE Structure'
  BY <1>4 DEF Lock, Forced
<1>5. ASSUME NEW p \in Procs, Query(p) PROVE Structure'
  BY <1>5 DEF Query
<1>6. ASSUME NEW p \in Procs, LoadFails(p) PROVE Structure'
  BY <1>6 DEF LoadFails, End
<1>20. ASSUME NEW p \in Procs, LoadPanics(p) PROVE Structure'
  BY <1>20 DEF LoadPanics, End
<1>7. ASSUME NEW p \in Procs, MergeSystemModel(p) PROVE Structure'
  BY <1>7 DEF MergeSystemModel
<1>8. ASSUME NEW p \in Procs, Install(p) PROVE Structure'
  BY <1>8 DEF Install, Application
<1>9. ASSUME NEW p \in Procs, Unlock(p) PROVE Structure'
  <2>1. /\ pc[p] = "unlock" /\ owner' = [owner EXCEPT ![target[p]] = None]
        /\ UNCHANGED <<database, cache, used, loaded, app>>
    BY <1>9 DEF Unlock
  <2>2. CASE p \in Publishers
    <3>1. End(p)
      BY <1>9, <2>2 DEF Unlock, Forced
    <3> QED
      BY <2>1, <2>2, <3>1 DEF End
  <2>3. CASE p \notin Publishers
    <3>1. Goto(p, "return") /\ UNCHANGED <<of, target>>
      BY <1>9, <2>3 DEF Unlock, Forced
    <3> QED
      BY <2>1, <2>3, <3>1
  <2> QED
    BY <2>2, <2>3
<1>10. ASSUME NEW p \in Publishers, NEW a \in Apps, StartPublish(p, a) PROVE Structure'
  BY <1>10 DEF StartPublish
<1>11. ASSUME NEW p \in Publishers, Migrate(p) PROVE Structure'
  BY <1>11 DEF Migrate
<1>12. ASSUME NEW p \in Publishers, MigrateFails(p) PROVE Structure'
  BY <1>12 DEF MigrateFails, End
<1>13. ASSUME NEW p \in Publishers, SaveRow(p) PROVE Structure'
  BY <1>13 DEF SaveRow
<1>14. ASSUME NEW p \in Publishers, SaveFails(p) PROVE Structure'
  BY <1>14 DEF SaveFails, End
<1>15. ASSUME NEW p \in Publishers, ReLoad(p) PROVE Structure'
  <2>1. pc[p] = "reload" /\ UNCHANGED <<database, loaders>>
    BY <1>15 DEF ReLoad
  <2>2. CASE cache[of[p]] = None
    <3>1. End(p)
      BY <1>15, <2>2 DEF ReLoad
    <3> QED
      BY <2>1, <3>1 DEF End
  <2>3. CASE cache[of[p]] # None
    <3>1. Aim(p, cache[of[p]]) /\ Goto(p, "lock") /\ UNCHANGED of
      BY <1>15, <2>3 DEF ReLoad
    <3> QED
      BY <2>1, <2>3, <3>1
  <2> QED
    BY <2>2, <2>3
<1>16. ASSUME NEW a \in Apps, Edit(a) PROVE Structure'
  BY <1>16 DEF Edit, Row
<1>17. ASSUME NEW a \in Apps, DeleteApp(a) PROVE Structure'
  BY <1>17 DEF DeleteApp, Row
<1>18. ASSUME Restart PROVE Structure'
  <2>1. PICK l \in Loaders :
          /\ cache' = [a \in Apps |-> IF a = SystemApp THEN l ELSE None]
          /\ used' = {l}
          /\ loaded' = [k \in Loaders |-> k = l]
          /\ app'[l] = [own |-> row[SystemApp].stamp, system |-> row[SystemApp].stamp]
    BY <1>18 DEF Restart
  <2>2. /\ \A p \in Procs : pc'[p] = "idle"
        /\ UNCHANGED row
    BY <1>18 DEF Restart
  <2>3. row[SystemApp].stamp \in Nat
    BY DEF Row
  <2>4. app'[l] # None
    BY <2>1, <2>3 DEF Application
  <2> QED
    BY <2>1, <2>2, <2>4
<1>19. CASE UNCHANGED vars
  BY <1>19 DEF vars
<1> QED
  BY <1>1, <1>2, <1>3, <1>4, <1>5, <1>6, <1>20, <1>7, <1>8, <1>9, <1>10, <1>11, <1>12, <1>13,
     <1>14, <1>15, <1>16, <1>17, <1>18, <1>19 DEF Next, Get, Publish, Load


-----------------------------------------------------------------------------
(* Freshness.  Most steps leave the shared state alone and no reload is     *)
(* lost by them: they are quiet.                                            *)

Fresh == BuiltIsPublished /\ CachedIsPublished

QuietShared ==
  /\ UNCHANGED <<cache, loaded, app, saved>>
  /\ \A a \in Apps : /\ row'[a].stamp = row[a].stamp
                     /\ missed[a] \subseteq missed'[a]

\* No load begins to build; a pending reload stays pending.
QuietProc(q) ==
  /\ pc'[q] \in Building =>
       pc[q] \in Building /\ target'[q] = target[q] /\ built'[q].own = built[q].own
  /\ q \in Publishers =>
       /\ pc[q] \in {"reload", "lock"} => pc'[q] = pc[q]
       /\ pc[q] \in {"query"} \cup Building => pc'[q] \in {"query"} \cup Building
       /\ pc[q] \in {"reload", "lock", "query"} \cup Building =>
            of'[q] = of[q] /\ target'[q] = target[q]

LEMMA QuietStep ==
  ASSUME Fresh, QuietShared, \A q \in Procs : QuietProc(q)
  PROVE  Fresh'
<1> USE DEF QuietShared, QuietProc, Procs
<1>1. ASSUME NEW a \in Apps, NEW l, Waiting(a, l) PROVE Waiting(a, l)'
  BY <1>1 DEF Waiting
<1>2. ASSUME NEW a \in Apps, NEW l, ReloadPending(a, l) PROVE ReloadPending(a, l)'
  BY <1>2 DEF ReloadPending, Building
<1>3. BuiltIsPublished'
  BY <1>1 DEF Fresh, BuiltIsPublished
<1>4. CachedIsPublished'
  BY <1>2 DEF Fresh, CachedIsPublished
<1> QED
  BY <1>3, <1>4 DEF Fresh

LEMMA FreshStep ==
  ASSUME TypeOK, Structure, Fresh, [Next]_vars
  PROVE  Fresh'
<1> USE SystemAppAssumption, ProcessAssumption, NoneAssumption
    DEF TypeOK, Labels, Structure, Aimed, Holding, Building, Procs, database, loaders, locals,
        history, Goto, Aim
<1>1. ASSUME NEW g \in Getters, NEW a \in Apps, Lookup(g, a) PROVE Fresh'
  BY <1>1, QuietStep DEF Lookup, QuietShared, QuietProc
<1>2. ASSUME NEW g \in Getters, StoreLoader(g) PROVE Fresh'
  <2>1. PICK l \in Loaders \ used :
          /\ cache' = [cache EXCEPT ![of[g]] = l]
          /\ target' = [target EXCEPT ![g] = l]
    BY <1>2 DEF StoreLoader
  <2>2. /\ pc[g] = "miss" /\ pc' = [pc EXCEPT ![g] = "lock"]
        /\ UNCHANGED <<row, loaded, app, of, built, saved, missed>>
    BY <1>2 DEF StoreLoader
  <2>3. /\ ~ loaded[l] /\ l # None
        /\ \A q \in Procs : pc[q] \in Building => target[q] # l
    BY DEF OneApp, Labelled
  <2>4. ASSUME NEW a \in Apps, NEW k, Waiting(a, k) PROVE Waiting(a, k)'
    BY <2>1, <2>2, <2>4 DEF Waiting
  <2>5. ASSUME NEW a \in Apps, NEW k, ReloadPending(a, k) PROVE ReloadPending(a, k)'
    BY <2>1, <2>2, <2>5 DEF ReloadPending
  <2>6. BuiltIsPublished'
    BY <2>1, <2>2, <2>3, <2>4 DEF Fresh, BuiltIsPublished
  <2>7. CachedIsPublished'
    BY <2>1, <2>2, <2>3, <2>5 DEF Fresh, CachedIsPublished
  <2> QED
    BY <2>6, <2>7 DEF Fresh
<1>3. ASSUME NEW g \in Getters, Return(g) PROVE Fresh'
  BY <1>3, QuietStep DEF Return, End, QuietShared, QuietProc
<1>4. ASSUME NEW p \in Procs, Lock(p) PROVE Fresh'
  <2>1. /\ pc[p] = "lock" /\ owner[target[p]] = None
        /\ pc' = [pc EXCEPT ![p] = IF ~ loaded[target[p]] \/ p \in Publishers
                                   THEN "query" ELSE "unlock"]
        /\ UNCHANGED <<row, cache, loaded, app, of, target, built, saved, missed>>
    BY <1>4 DEF Lock, Forced
  <2>2. \A q \in Procs : pc[q] \in Building => target[q] # target[p]
    BY <2>1 DEF Mutex
  <2>3. ASSUME NEW a \in Apps, NEW k, Waiting(a, k), k # target[p] PROVE Waiting(a, k)'
    BY <2>1, <2>3 DEF Waiting
  <2>4. ASSUME NEW a \in Apps, NEW k, ReloadPending(a, k) PROVE ReloadPending(a, k)'
    BY <2>1, <2>4 DEF ReloadPending
  <2>5. BuiltIsPublished'
    BY <2>1, <2>2, <2>3 DEF Fresh, BuiltIsPublished
  <2>6. CachedIsPublished'
    BY <2>1, <2>4 DEF Fresh, CachedIsPublished
  <2> QED
    BY <2>5, <2>6 DEF Fresh
<1>5. ASSUME NEW p \in Procs, Query(p) PROVE Fresh'
  <2>1. /\ pc[p] = "query" /\ built'[p].own = row[of[p]].stamp
        /\ \A q \in Procs \ {p} : built'[q] = built[q] /\ pc'[q] = pc[q]
        /\ pc'[p] \in Building
        /\ UNCHANGED <<row, cache, loaded, app, of, target, saved, missed>>
    BY <1>5 DEF Query
  <2>2. \A a \in Apps : target[p] = cache[a] => of[p] = a
    BY <2>1 DEF OneApp
  <2>3. ASSUME NEW a \in Apps, NEW k, Waiting(a, k) PROVE Waiting(a, k)'
    BY <2>1, <2>3 DEF Waiting
  <2>4. ASSUME NEW a \in Apps, NEW k, ReloadPending(a, k) PROVE ReloadPending(a, k)'
    BY <2>1, <2>4 DEF ReloadPending
  <2>5. BuiltIsPublished'
    BY <2>1, <2>2, <2>3 DEF Fresh, BuiltIsPublished
  <2>6. CachedIsPublished'
    BY <2>1, <2>4 DEF Fresh, CachedIsPublished
  <2> QED
    BY <2>5, <2>6 DEF Fresh
<1>6. ASSUME NEW p \in Procs, LoadFails(p) PROVE Fresh'
  <2>1. /\ pc[p] = "query" /\ app' = [app EXCEPT ![target[p]] = None]
        /\ pc' = [pc EXCEPT ![p] = "idle"]
        /\ \A q \in Procs \ {p} : target'[q] = target[q] /\ of'[q] = of[q] /\ built'[q] = built[q]
        /\ UNCHANGED <<row, cache, loaded, saved, missed>>
    BY <1>6 DEF LoadFails, End
  <2>2. ASSUME NEW a \in Apps, NEW k, Waiting(a, k) PROVE Waiting(a, k)'
    BY <2>1, <2>2 DEF Waiting
  <2>3. ASSUME NEW a \in Apps, NEW k, ReloadPending(a, k), k # target[p]
        PROVE  ReloadPending(a, k)'
    BY <2>1, <2>3 DEF ReloadPending
  <2>4. BuiltIsPublished'
    BY <2>1, <2>2 DEF Fresh, BuiltIsPublished
  <2>5. CachedIsPublished'
    BY <2>1, <2>3 DEF Fresh, CachedIsPublished
  <2> QED
    BY <2>4, <2>5 DEF Fresh
<1>20. ASSUME NEW p \in Procs, LoadPanics(p) PROVE Fresh'
  <2>1. /\ pc[p] \in {"query"} \cup Building
        /\ pc' = [pc EXCEPT ![p] = "idle"]
        /\ \A q \in Procs \ {p} : target'[q] = target[q] /\ of'[q] = of[q] /\ built'[q] = built[q]
        /\ UNCHANGED <<row, cache, loaded, app, saved>>
    BY <1>20 DEF LoadPanics, End
  <2>2. /\ \A a \in Apps : missed[a] \subseteq missed'[a]
        /\ p \in Publishers => saved[p] \in missed'[of[p]]
    BY <1>20 DEF LoadPanics
  <2>3. ASSUME NEW a \in Apps, NEW k, Waiting(a, k) PROVE Waiting(a, k)'
    BY <2>1, <2>3 DEF Waiting
  <2>4. ASSUME NEW a \in Apps, NEW k, ReloadPending(a, k)
        PROVE  ReloadPending(a, k)' \/ row[a].stamp \in missed'[a]
    BY <2>1, <2>2, <2>4 DEF ReloadPending
  <2>5. BuiltIsPublished'
    BY <2>1, <2>3 DEF Fresh, BuiltIsPublished
  <2>6. CachedIsPublished'
    BY <2>1, <2>2, <2>4 DEF Fresh, CachedIsPublished
  <2> QED
    BY <2>5, <2>6 DEF Fresh
<1>7. ASSUME NEW p \in Procs, MergeSystemModel(p) PROVE Fresh'
  BY <1>7, QuietStep DEF MergeSystemModel, QuietShared, QuietProc
<1>8. ASSUME NEW p \in Procs, Install(p) PROVE Fresh'
  <2>1. /\ pc[p] = "install" /\ target[p] \in Loaders
        /\ app'[target[p]].own = built[p].own
        /\ \A k \in Loaders \ {target[p]} : app'[k] = app[k] /\ loaded'[k] = loaded[k]
        /\ pc' = [pc EXCEPT ![p] = "unlock"]
        /\ UNCHANGED <<row, cache, of, target, built, saved, missed>>
    BY <1>8 DEF Install, Labelled
  <2>2. ASSUME NEW a \in Apps, NEW k, Waiting(a, k)
        PROVE  Waiting(a, k)' /\ ReloadPending(a, k)'
    BY <2>1, <2>2 DEF Waiting, ReloadPending
  <2>3. ASSUME NEW a \in Apps, NEW k, ReloadPending(a, k), k # target[p]
        PROVE  ReloadPending(a, k)'
    BY <2>1, <2>3 DEF ReloadPending
  <2>4. BuiltIsPublished'
    BY <2>1, <2>2 DEF Fresh, BuiltIsPublished
  <2>5. CachedIsPublished'
    <3> SUFFICES ASSUME NEW a \in Apps, cache[a] # None, loaded'[cache[a]],
                        app'[cache[a]] # None
                 PROVE  \/ app'[cache[a]].own = row[a].stamp \/ ReloadPending(a, cache[a])'
                        \/ row[a].stamp \in missed[a]
      BY <2>1 DEF CachedIsPublished
    <3>1. CASE cache[a] = target[p]
      BY <3>1, <2>1, <2>2 DEF Fresh, BuiltIsPublished
    <3>2. CASE cache[a] # target[p]
      <4>1. app'[cache[a]] = app[cache[a]] /\ loaded[cache[a]]
        BY <3>2, <2>1
      <4>2. \/ app[cache[a]].own = row[a].stamp \/ ReloadPending(a, cache[a])
            \/ row[a].stamp \in missed[a]
        BY <4>1 DEF Fresh, CachedIsPublished
      <4>3. ReloadPending(a, cache[a]) => ReloadPending(a, cache[a])'
        BY <2>1, <2>3, <3>2
      <4> QED
        BY <4>1, <4>2, <4>3
    <3> QED
      BY <3>1, <3>2
  <2> QED
    BY <2>4, <2>5 DEF Fresh
<1>9. ASSUME NEW p \in Procs, Unlock(p) PROVE Fresh'
  <2>1. pc[p] = "unlock" /\ UNCHANGED <<database, cache, used, loaded, app, saved, missed>>
    BY <1>9 DEF Unlock
  <2>2. CASE p \in Publishers
    <3>1. End(p)
      BY <1>9, <2>2 DEF Unlock, Forced
    <3> QED
      BY <2>1, <3>1, QuietStep DEF End, QuietShared, QuietProc
  <2>3. CASE p \notin Publishers
    <3>1. Goto(p, "return") /\ UNCHANGED <<of, target, built>>
      BY <1>9, <2>3 DEF Unlock, Forced
    <3> QED
      BY <2>1, <3>1, QuietStep DEF QuietShared, QuietProc
  <2> QED
    BY <2>2, <2>3
<1>10. ASSUME NEW p \in Publishers, NEW a \in Apps, StartPublish(p, a) PROVE Fresh'
  BY <1>10, QuietStep DEF StartPublish, QuietShared, QuietProc
<1>11. ASSUME NEW p \in Publishers, Migrate(p) PROVE Fresh'
  BY <1>11, QuietStep DEF Migrate, QuietShared, QuietProc
<1>12. ASSUME NEW p \in Publishers, MigrateFails(p) PROVE Fresh'
  BY <1>12, QuietStep DEF MigrateFails, End, QuietShared, QuietProc
<1>13. ASSUME NEW p \in Publishers, SaveRow(p) PROVE Fresh'
  <2>1. /\ pc[p] = "save" /\ pc' = [pc EXCEPT ![p] = "reload"]
        /\ \A a \in Apps \ {of[p]} : row'[a] = row[a]
        /\ of[p] \in Apps /\ saved'[p] = row'[of[p]].stamp
        /\ \A q \in Publishers \ {p} : saved'[q] = saved[q]
        /\ UNCHANGED <<cache, loaded, app, of, target, built, missed>>
    BY <1>13 DEF SaveRow
  <2>2. \A k : Waiting(of[p], k)' /\ ReloadPending(of[p], k)'
    BY <2>1 DEF Waiting, ReloadPending
  <2>3. ASSUME NEW a \in Apps \ {of[p]}, NEW k, Waiting(a, k) PROVE Waiting(a, k)'
    BY <2>1, <2>3 DEF Waiting
  <2>4. ASSUME NEW a \in Apps \ {of[p]}, NEW k, ReloadPending(a, k) PROVE ReloadPending(a, k)'
    BY <2>1, <2>4 DEF ReloadPending
  <2>5. BuiltIsPublished'
    BY <2>1, <2>2, <2>3 DEF Fresh, BuiltIsPublished
  <2>6. CachedIsPublished'
    BY <2>1, <2>2, <2>4 DEF Fresh, CachedIsPublished
  <2> QED
    BY <2>5, <2>6 DEF Fresh
<1>14. ASSUME NEW p \in Publishers, SaveFails(p) PROVE Fresh'
  BY <1>14, QuietStep DEF SaveFails, End, QuietShared, QuietProc
<1>15. ASSUME NEW p \in Publishers, ReLoad(p) PROVE Fresh'
  <2>1. pc[p] = "reload" /\ UNCHANGED <<row, cache, loaded, app, saved, missed>>
    BY <1>15 DEF ReLoad
  <2>2. CASE cache[of[p]] = None
    <3>1. End(p)
      BY <1>15, <2>2 DEF ReLoad
    <3>2. /\ pc' = [pc EXCEPT ![p] = "idle"]
          /\ \A q \in Procs \ {p} : target'[q] = target[q] /\ of'[q] = of[q] /\ built'[q] = built[q]
      BY <3>1 DEF End
    <3>3. ASSUME NEW a \in Apps, cache[a] # None, Waiting(a, cache[a])
          PROVE  Waiting(a, cache[a])'
      BY <2>1, <2>2, <3>2, <3>3 DEF Waiting
    <3>4. ASSUME NEW a \in Apps, cache[a] # None, ReloadPending(a, cache[a])
          PROVE  ReloadPending(a, cache[a])'
      BY <2>1, <2>2, <3>2, <3>4 DEF ReloadPending
    <3>5. \A q \in Procs : pc[q] \in Building => target[q] # None
      BY DEF Labelled
    <3>6. BuiltIsPublished'
      BY <2>1, <3>2, <3>3, <3>5 DEF Fresh, BuiltIsPublished
    <3>7. CachedIsPublished'
      BY <2>1, <3>4 DEF Fresh, CachedIsPublished
    <3> QED
      BY <3>6, <3>7 DEF Fresh
  <2>3. CASE cache[of[p]] # None
    <3>1. /\ target' = [target EXCEPT ![p] = cache[of[p]]]
          /\ pc' = [pc EXCEPT ![p] = "lock"]
          /\ UNCHANGED <<of, built>>
      BY <1>15, <2>3 DEF ReLoad
    <3>2. ASSUME NEW a \in Apps, Waiting(a, cache[a]) PROVE Waiting(a, cache[a])'
      BY <2>1, <3>1, <3>2 DEF Waiting
    <3>3. ASSUME NEW a \in Apps, ReloadPending(a, cache[a]) PROVE ReloadPending(a, cache[a])'
      BY <2>1, <3>1, <3>3 DEF ReloadPending
    <3>4. BuiltIsPublished'
      BY <2>1, <3>1, <3>2 DEF Fresh, BuiltIsPublished
    <3>5. CachedIsPublished'
      BY <2>1, <3>3 DEF Fresh, CachedIsPublished
    <3> QED
      BY <3>4, <3>5 DEF Fresh
  <2> QED
    BY <2>2, <2>3
<1>16. ASSUME NEW a \in Apps, Edit(a) PROVE Fresh'
  BY <1>16, QuietStep DEF Edit, Row, QuietShared, QuietProc
<1>17. ASSUME NEW a \in Apps, DeleteApp(a) PROVE Fresh'
  BY <1>17, QuietStep DEF DeleteApp, Row, QuietShared, QuietProc
<1>18. ASSUME Restart PROVE Fresh'
  <2>1. PICK l \in Loaders :
          /\ cache' = [a \in Apps |-> IF a = SystemApp THEN l ELSE None]
          /\ app'[l].own = row[SystemApp].stamp
    BY <1>18 DEF Restart
  <2>2. UNCHANGED row /\ \A p \in Procs : pc'[p] = "idle"
    BY <1>18 DEF Restart
  <2>3. BuiltIsPublished'
    BY <2>2 DEF BuiltIsPublished
  <2>4. CachedIsPublished'
    BY <2>1, <2>2 DEF CachedIsPublished
  <2> QED
    BY <2>3, <2>4 DEF Fresh
<1>19. CASE UNCHANGED vars
  BY <1>19, QuietStep DEF vars, QuietShared, QuietProc
<1> QED
  BY <1>1, <1>2, <1>3, <1>4, <1>5, <1>6, <1>20, <1>7, <1>8, <1>9, <1>10, <1>11, <1>12, <1>13,
     <1>14, <1>15, <1>16, <1>17, <1>18, <1>19 DEF Next, Get, Publish, Load

-----------------------------------------------------------------------------
(* The theorems. *)

LEMMA InitInv == Init => IInv
<1> SUFFICES ASSUME Init PROVE IInv
  OBVIOUS
<1> USE SystemAppAssumption, ProcessAssumption, NoneAssumption
    DEF Init, Procs, Application, Nothing, Labels, Row
<1>1. PICK l \in Loaders : Started(l)
  OBVIOUS
<1>2. TypeOK
  BY <1>1 DEF TypeOK, Started
<1>3. Structure
  <2>1. \A p \in Procs : pc[p] = "idle"
    OBVIOUS
  <2>2. Labelled /\ Mutex
    BY <2>1 DEF Labelled, Mutex, Aimed, Holding
  <2>3. OneApp
    BY <1>1, <2>1 DEF OneApp, Started, Aimed, Holding
  <2>4. Nothing # None
    OBVIOUS
  <2>5. SystemLoaded
    <3>1. row[SystemApp].exists
      OBVIOUS
    <3>2. cache[SystemApp] = l /\ app[l] = Nothing
      BY <1>1 DEF Started
    <3> QED
      BY <2>1, <2>4, <3>1, <3>2 DEF SystemLoaded
  <2> QED
    BY <2>2, <2>3, <2>5 DEF Structure
<1>4. BuiltIsPublished /\ CachedIsPublished
  BY <1>1 DEF BuiltIsPublished, CachedIsPublished, Started, Building
<1> QED
  BY <1>2, <1>3, <1>4 DEF IInv, LoaderInv, Structure

LEMMA StepInv == IInv /\ [Next]_vars => IInv'
<1> SUFFICES ASSUME IInv, [Next]_vars PROVE IInv'
  OBVIOUS
<1>1. TypeOK'
  BY TypeStep DEF IInv, LoaderInv
<1>2. Structure'
  BY StructureStep DEF IInv, LoaderInv, Structure
<1>3. Fresh'
  BY FreshStep DEF IInv, LoaderInv, Structure, Fresh
<1> QED
  BY <1>1, <1>2, <1>3 DEF IInv, LoaderInv, Structure, Fresh

\* The inductive invariant of the application cache: who holds which loader,
\* what a load is about to install, and who will reload.
THEOREM CacheInvariant == Spec => []IInv
  BY InitInv, StepInv, PTL DEF Spec

\* Every variable of the application cache (app.go, publish.go) keeps its type;
\* in particular a load never merges a nil system application.
THEOREM TypeCorrect == Spec => []TypeOK
<1>1. IInv => TypeOK
  BY DEF IInv
<1> QED
  BY <1>1, CacheInvariant, PTL

\* However Get, Publish and restarts interleave, the application that requests
\* share is the published one, unless the publish that saved it has still to
\* reload it or panicked in that reload.
THEOREM CacheIsPublished == Spec => []CachedIsPublished
<1>1. IInv => CachedIsPublished
  BY DEF IInv, LoaderInv
<1> QED
  BY <1>1, CacheInvariant, PTL

-----------------------------------------------------------------------------
(* What the application cache promises over time *)

Underway == {"migrate", "save"}

\* Only one publish of an undisturbed application is under way, and between
\* its migration and its save the tables are ahead of the row.
PublishOrder ==
  \A p \in Publishers : of[p] \notin disturbed =>
    /\ \A q \in Publishers : 
         pc[p] \in Underway /\ pc[q] \in Underway /\ of[p] = of[q] => p = q
    /\ pc[p] = "migrate" => schema[of[p]] = row[of[p]].published
    /\ pc[p] = "save" => schema[of[p]] = snapshot[p]

\* Requests on one loader, in the cache or replaced, want the same application;
\* the loader of the system application is never replaced.
SameApp ==
  /\ \A p, q \in Procs :
       pc[p] \in Aimed /\ pc[q] \in Aimed /\ target[p] = target[q] => of[p] = of[q]
  /\ \A p \in Procs : pc[p] \in Aimed /\ of[p] = SystemApp => target[p] = cache[SystemApp]
  /\ \A l \in Loaders : l \notin used => app[l] = None

\* A loader that is loaded and empty is one of a deleted application.
EmptyMeansDeleted ==
  /\ \A a \in Apps : (cache[a] # None /\ loaded[cache[a]] /\ app[cache[a]] = None)
                       => ~ row[a].exists
  /\ \A p \in Procs : (pc[p] \in Aimed /\ loaded[target[p]] /\ app[target[p]] = None)
                        => ~ row[of[p]].exists
  /\ \A p \in Procs : pc[p] \in {"unlock", "return"} => loaded[target[p]]

\* What loader l holds, and what is about to be installed in it, is at least,
\* or at most, of stamp s.
AtLeast(l, s) ==
  /\ app[l] # None => app[l].own >= s
  /\ \A p \in Procs : pc[p] \in Building /\ target[p] = l => built[p].own >= s
AtMost(l, s) ==
  /\ app[l] # None => app[l].own <= s
  /\ \A p \in Procs : pc[p] \in Building /\ target[p] = l => built[p].own <= s

\* No loader is ahead of the row, and a load never steps back.
StampsAscend ==
  /\ \A a \in Apps : cache[a] # None => AtMost(cache[a], row[a].stamp)
  /\ \A p \in Procs : pc[p] \in Aimed => AtMost(target[p], row[of[p]].stamp)
  /\ \A p \in Procs : (pc[p] \in Building /\ app[target[p]] # None)
                        => app[target[p]].own <= built[p].own

\* The system model merged into an application is at most the cached one.
SystemAscends ==
  LET current == app[cache[SystemApp]].own IN
  /\ \A l \in Loaders : app[l] # None => app[l].system <= current
  /\ \A p \in Procs : pc[p] = "install" /\ of[p] # SystemApp =>
       /\ built[p].system <= current
       /\ app[target[p]] # None => app[target[p]].system <= built[p].system

Reloading == Holding \cup {"lock"}

\* What a finished publish saved, and what a publish that reloads has saved,
\* has reached every loader that a Get can find.
Reached ==
  /\ \A a \in Apps : /\ finished[a] <= row[a].stamp
                     /\ cache[a] # None => AtLeast(cache[a], finished[a])
  /\ \A p \in Publishers :
       /\ pc[p] \in Reloading \cup {"reload"} => saved[p] <= row[of[p]].stamp
       /\ pc[p] \in Reloading => cache[of[p]] # None
       /\ pc[p] \in Reloading /\ cache[of[p]] # target[p] => AtLeast(cache[of[p]], saved[p])
       /\ pc[p] \in Building => built[p].own >= saved[p]
       /\ pc[p] = "unlock" => app[target[p]] # None /\ app[target[p]].own >= saved[p]
  /\ \A g \in Getters :
       /\ pc[g] # "idle" => floor[g] <= finished[of[g]]
       /\ pc[g] \in Aimed => AtLeast(target[g], floor[g])

HistoryInv == /\ PublishOrder /\ PublishedIsMigrated
              /\ SameApp /\ EmptyMeansDeleted
              /\ StampsAscend /\ SystemAscends /\ Reached

-----------------------------------------------------------------------------
(* Publishing and migrating. *)

\* A step that touches neither the tables nor a publish on its way to the row.
QuietPublishes ==
  /\ UNCHANGED <<schema, snapshot, disturbed>>
  /\ \A a \in Apps : row'[a].published = row[a].published
  /\ \A q \in Publishers : 
       pc[q] \in Underway \/ pc'[q] \in Underway => pc'[q] = pc[q] /\ of'[q] = of[q]

\* Such a step keeps the published model and the migrated one together.
LEMMA QuietPublishesStep ==
  ASSUME PublishOrder, PublishedIsMigrated, QuietPublishes, TypeOK
  PROVE  (PublishOrder /\ PublishedIsMigrated)'
<1> USE DEF QuietPublishes, Underway
<1>1. PublishOrder'
  <2> SUFFICES ASSUME NEW p \in Publishers, pc'[p] \in Underway, of'[p] \notin disturbed
               PROVE  /\ \A q \in Publishers : pc'[q] \in Underway /\ of'[p] = of'[q] => p = q
                      /\ pc'[p] = "migrate" => schema'[of'[p]] = row'[of'[p]].published
                      /\ pc'[p] = "save" => schema'[of'[p]] = snapshot'[p]
    BY DEF PublishOrder
  <2>1. pc'[p] = pc[p] /\ of'[p] = of[p] /\ of[p] \in Apps
    BY DEF TypeOK, Procs
  <2> QED
    BY <2>1 DEF PublishOrder
<1>2. PublishedIsMigrated'
  BY DEF PublishedIsMigrated, Publishing
<1> QED
  BY <1>1, <1>2

\* Publishing, step by step: MigrateFails, SaveFails and Restart disturb the
\* application, an overlapping StartPublish does too.
LEMMA MigratedStep ==
  ASSUME TypeOK, PublishOrder, PublishedIsMigrated, [Next]_vars
  PROVE  (PublishOrder /\ PublishedIsMigrated)'
<1> DEFINE Goal == (PublishOrder /\ PublishedIsMigrated)'
<1> USE SystemAppAssumption, ProcessAssumption, NoneAssumption
    DEF TypeOK, Labels, Procs, database, loaders, locals, history, Goto, Aim
<1>1. ASSUME NEW g \in Getters, NEW a \in Apps, Lookup(g, a) PROVE Goal
  BY <1>1, QuietPublishesStep DEF Lookup, QuietPublishes, Underway
<1>2. ASSUME NEW g \in Getters, StoreLoader(g) \/ Return(g) PROVE Goal
  BY <1>2, QuietPublishesStep DEF StoreLoader, Return, End, QuietPublishes, Underway
<1>3. ASSUME NEW p \in Procs, Load(p) PROVE Goal
  <2>1. UNCHANGED <<row, schema, snapshot, disturbed>>
    BY <1>3 DEF Load, Lock, Query, LoadFails, LoadPanics, MergeSystemModel, Install, Unlock
  <2>2. /\ pc[p] \notin Underway /\ pc'[p] \notin Underway
        /\ \A q \in Procs \ {p} : pc'[q] = pc[q] /\ of'[q] = of[q]
    BY <1>3 DEF Load, Lock, Query, LoadFails, LoadPanics, MergeSystemModel, Install, Unlock, End, Underway
  <2> QED
    BY <2>1, <2>2, QuietPublishesStep DEF QuietPublishes
<1>4. ASSUME NEW p \in Publishers, NEW a \in Apps, StartPublish(p, a) PROVE Goal
  BY <1>4 DEF StartPublish, PublishOrder, PublishedIsMigrated, Publishing, Underway
<1>5. ASSUME NEW p \in Publishers, Migrate(p) PROVE Goal
  BY <1>5 DEF Migrate, PublishOrder, PublishedIsMigrated, Publishing, Underway
<1>6. ASSUME NEW p \in Publishers, MigrateFails(p) PROVE Goal
  BY <1>6 DEF MigrateFails, End, PublishOrder, PublishedIsMigrated, Publishing, Underway
<1>7. ASSUME NEW p \in Publishers, SaveRow(p) PROVE Goal
  BY <1>7 DEF SaveRow, PublishOrder, PublishedIsMigrated, Publishing, Underway
<1>8. ASSUME NEW p \in Publishers, SaveFails(p) PROVE Goal
  BY <1>8 DEF SaveFails, End, PublishOrder, PublishedIsMigrated, Publishing, Underway
<1>9. ASSUME NEW p \in Publishers, ReLoad(p) PROVE Goal
  BY <1>9, QuietPublishesStep DEF ReLoad, End, QuietPublishes, Underway
<1>10. ASSUME NEW a \in Apps, Edit(a) \/ DeleteApp(a) PROVE Goal
  <2>1. ASSUME NEW b \in Apps PROVE row'[b].published = row[b].published
    <3>1. row[b] \in Row /\ row \in [Apps -> Row]
      OBVIOUS
    <3>2. CASE Edit(a)
      BY ONLY <1>10, <2>1, <3>1, <3>2 DEF Edit, Row
    <3>3. CASE DeleteApp(a)
      BY ONLY <1>10, <2>1, <3>1, <3>3 DEF DeleteApp, Row
    <3> QED
      BY <1>10, <3>2, <3>3
  <2> QED
    BY <1>10, <2>1, QuietPublishesStep DEF Edit, DeleteApp, QuietPublishes
<1>11. CASE Restart
  BY <1>11 DEF Restart, PublishOrder, PublishedIsMigrated, Publishing, Underway
<1>12. CASE UNCHANGED vars
  BY <1>12, QuietPublishesStep DEF vars, QuietPublishes
<1> QED
  BY <1>1, <1>2, <1>3, <1>4, <1>5, <1>6, <1>7, <1>8, <1>9, <1>10, <1>11, <1>12
  DEF Next, Get, Publish, Load


-----------------------------------------------------------------------------
(* The two steps that end in one of two ways. *)

LEMMA UnlockParts ==
  ASSUME NEW p \in Procs, Unlock(p)
  PROVE  /\ pc[p] = "unlock" /\ owner' = [owner EXCEPT ![target[p]] = None]
         /\ UNCHANGED <<row, schema, cache, used, loaded, app, snapshot, floor, saved,
                        disturbed, missed, restarts>>
         /\ \/ p \in Publishers /\ End(p) /\ Finish(p)
            \/ /\ p \notin Publishers /\ pc' = [pc EXCEPT ![p] = "return"]
               /\ UNCHANGED <<of, target, built, finished>>
BY DEF Unlock, Goto, database

LEMMA ReLoadParts ==
  ASSUME NEW p \in Publishers, ReLoad(p)
  PROVE  /\ pc[p] = "reload"
         /\ UNCHANGED <<row, schema, cache, used, loaded, app, owner, snapshot, floor, saved,
                        disturbed, missed, restarts>>
         /\ \/ cache[of[p]] = None /\ End(p) /\ Finish(p)
            \/ /\ cache[of[p]] # None /\ pc' = [pc EXCEPT ![p] = "lock"]
               /\ target' = [target EXCEPT ![p] = cache[of[p]]]
               /\ UNCHANGED <<of, built, finished>>
BY DEF ReLoad, Goto, Aim, database, loaders

-----------------------------------------------------------------------------
(* Which application a loader is for. *)

\* Requests aim at the cached loader, which is for one application (OneApp).
LEMMA SameAppStep ==
  ASSUME TypeOK, Structure, SameApp, [Next]_vars
  PROVE  SameApp'
<1> USE SystemAppAssumption, ProcessAssumption, NoneAssumption
    DEF TypeOK, Labels, Structure, Labelled, Mutex, OneApp, SystemLoaded, Aimed, Holding, Procs,
        database, loaders, locals, history, Goto, Aim, SameApp
<1>1. ASSUME NEW g \in Getters, NEW a \in Apps, Lookup(g, a) PROVE SameApp'
  BY SMTT(30), <1>1 DEF Lookup
<1>2. ASSUME NEW g \in Getters, StoreLoader(g) PROVE SameApp'
  BY <1>2 DEF StoreLoader
<1>3. ASSUME NEW g \in Getters, Return(g) PROVE SameApp'
  <2>1. /\ pc' = [pc EXCEPT ![g] = "idle"]
        /\ \A q \in Procs \ {g} : of'[q] = of[q] /\ target'[q] = target[q]
        /\ UNCHANGED <<cache, used, app>>
    BY <1>3 DEF Return, End
  <2> QED
    BY <2>1
<1>4. ASSUME NEW p \in Procs, Lock(p) PROVE SameApp'
  BY <1>4 DEF Lock, Forced
<1>5. ASSUME NEW p \in Procs, Query(p) PROVE SameApp'
  BY <1>5 DEF Query
<1>6. ASSUME NEW p \in Procs, LoadFails(p) PROVE SameApp'
  BY <1>6 DEF LoadFails, End
<1>20. ASSUME NEW p \in Procs, LoadPanics(p) PROVE SameApp'
  BY <1>20 DEF LoadPanics, End
<1>7. ASSUME NEW p \in Procs, MergeSystemModel(p) PROVE SameApp'
  BY <1>7 DEF MergeSystemModel
<1>8. ASSUME NEW p \in Procs, Install(p) PROVE SameApp'
  BY <1>8 DEF Install
<1>9. ASSUME NEW p \in Procs, Unlock(p) PROVE SameApp'
  <2>1. pc[p] = "unlock" /\ UNCHANGED <<cache, used, app>>
    BY <1>9, UnlockParts
  <2>2. CASE p \in Publishers
    <3>1. /\ pc' = [pc EXCEPT ![p] = "idle"]
          /\ \A q \in Procs \ {p} : of'[q] = of[q] /\ target'[q] = target[q]
      BY <1>9, <2>2, UnlockParts DEF End
    <3> QED
      BY <2>1, <3>1
  <2>3. CASE p \notin Publishers
    <3>1. pc' = [pc EXCEPT ![p] = "return"] /\ UNCHANGED <<of, target>>
      BY <1>9, <2>3, UnlockParts
    <3> QED
      BY <2>1, <3>1
  <2> QED
    BY <2>2, <2>3
<1>10. ASSUME NEW p \in Publishers, NEW a \in Apps, StartPublish(p, a) PROVE SameApp'
  BY SMTT(30), <1>10 DEF StartPublish
<1>11. ASSUME NEW p \in Publishers, Migrate(p) PROVE SameApp'
  BY <1>11 DEF Migrate
<1>12. ASSUME NEW p \in Publishers, MigrateFails(p) PROVE SameApp'
  BY SMTT(30), <1>12 DEF MigrateFails, End
<1>13. ASSUME NEW p \in Publishers, SaveRow(p) PROVE SameApp'
  BY <1>13 DEF SaveRow
<1>14. ASSUME NEW p \in Publishers, SaveFails(p) PROVE SameApp'
  BY <1>14 DEF SaveFails, End
<1>15. ASSUME NEW p \in Publishers, ReLoad(p) PROVE SameApp'
  BY SMTT(40), <1>15, ReLoadParts DEF End
<1>16. ASSUME NEW a \in Apps, Edit(a) PROVE SameApp'
  BY <1>16 DEF Edit, Row
<1>17. ASSUME NEW a \in Apps, DeleteApp(a) PROVE SameApp'
  BY <1>17 DEF DeleteApp, Row
<1>18. ASSUME Restart PROVE SameApp'
  BY <1>18 DEF Restart
<1>19. CASE UNCHANGED vars
  BY <1>19 DEF vars
<1> QED
  BY <1>1, <1>2, <1>3, <1>4, <1>5, <1>6, <1>20, <1>7, <1>8, <1>9, <1>10, <1>11, <1>12, <1>13,
     <1>14, <1>15, <1>16, <1>17, <1>18, <1>19 DEF Next, Get, Publish, Load

\* Only LoadFails empties a loader, and its row is gone; rows do not come back.
LEMMA EmptyStep ==
  ASSUME TypeOK, Structure, SameApp, EmptyMeansDeleted, [Next]_vars
  PROVE  EmptyMeansDeleted'
<1> USE SystemAppAssumption, ProcessAssumption, NoneAssumption
    DEF TypeOK, Labels, Structure, Labelled, Mutex, OneApp, SystemLoaded, Aimed, Holding, Procs,
        database, loaders, locals, history, Goto, Aim, SameApp, EmptyMeansDeleted
<1>1. ASSUME NEW g \in Getters, NEW a \in Apps, Lookup(g, a) PROVE EmptyMeansDeleted'
  BY <1>1 DEF Lookup
<1>2. ASSUME NEW g \in Getters, StoreLoader(g) PROVE EmptyMeansDeleted'
  BY <1>2 DEF StoreLoader
<1>3. ASSUME NEW g \in Getters, Return(g) PROVE EmptyMeansDeleted'
  BY <1>3 DEF Return, End
<1>4. ASSUME NEW p \in Procs, Lock(p) PROVE EmptyMeansDeleted'
  BY <1>4 DEF Lock, Forced
<1>5. ASSUME NEW p \in Procs, Query(p) PROVE EmptyMeansDeleted'
  BY <1>5 DEF Query
<1>6. ASSUME NEW p \in Procs, LoadFails(p) PROVE EmptyMeansDeleted'
  BY <1>6 DEF LoadFails, End
<1>20. ASSUME NEW p \in Procs, LoadPanics(p) PROVE EmptyMeansDeleted'
  BY <1>20 DEF LoadPanics, End
<1>7. ASSUME NEW p \in Procs, MergeSystemModel(p) PROVE EmptyMeansDeleted'
  BY <1>7 DEF MergeSystemModel
<1>8. ASSUME NEW p \in Procs, Install(p) PROVE EmptyMeansDeleted'
  <2>1. app'[target[p]] # None
    <3>1. built[p] \in Application
      OBVIOUS
    <3>2. [own |-> built[p].own, system |-> built[p].own] \in Application
      BY <3>1 DEF Application
    <3> QED
      BY <1>8, <3>1, <3>2 DEF Install
  <2> QED
    BY <1>8, <2>1 DEF Install
<1>9. ASSUME NEW p \in Procs, Unlock(p) PROVE EmptyMeansDeleted'
  BY SMTT(30), <1>9, UnlockParts DEF End
<1>10. ASSUME NEW p \in Publishers, NEW a \in Apps, StartPublish(p, a) PROVE EmptyMeansDeleted'
  BY <1>10 DEF StartPublish
<1>11. ASSUME NEW p \in Publishers, Migrate(p) PROVE EmptyMeansDeleted'
  BY <1>11 DEF Migrate
<1>12. ASSUME NEW p \in Publishers, MigrateFails(p) PROVE EmptyMeansDeleted'
  BY <1>12 DEF MigrateFails, End
<1>13. ASSUME NEW p \in Publishers, SaveRow(p) PROVE EmptyMeansDeleted'
  BY <1>13 DEF SaveRow
<1>14. ASSUME NEW p \in Publishers, SaveFails(p) PROVE EmptyMeansDeleted'
  BY <1>14 DEF SaveFails, End
<1>15. ASSUME NEW p \in Publishers, ReLoad(p) PROVE EmptyMeansDeleted'
  <2>1. pc[p] = "reload" /\ UNCHANGED <<row, cache, loaded, app>>
    BY <1>15, ReLoadParts
  <2>2. \A q \in Procs \ {p} : pc'[q] = pc[q] /\ of'[q] = of[q] /\ target'[q] = target[q]
    BY <1>15, ReLoadParts DEF End
  <2>3. CASE pc'[p] = "idle"
    <3>1. \A q \in Procs : pc'[q] \in Aimed \cup {"unlock", "return"} =>
            q # p /\ pc'[q] = pc[q] /\ of'[q] = of[q] /\ target'[q] = target[q]
      BY <2>2, <2>3
    <3> QED
      BY <2>1, <3>1
  <2>4. CASE /\ pc'[p] = "lock" /\ target'[p] = cache[of[p]] /\ cache[of[p]] # None
             /\ of'[p] = of[p]
    BY SMTT(20), <2>1, <2>2, <2>4
  <2> QED
    BY <1>15, <2>3, <2>4, ReLoadParts DEF End
<1>16. ASSUME NEW a \in Apps, Edit(a) PROVE EmptyMeansDeleted'
  BY <1>16 DEF Edit, Row
<1>17. ASSUME NEW a \in Apps, DeleteApp(a) PROVE EmptyMeansDeleted'
  BY <1>17 DEF DeleteApp, Row
<1>18. ASSUME Restart PROVE EmptyMeansDeleted'
  <2>1. PICK l \in Loaders :
          /\ cache' = [a \in Apps |-> IF a = SystemApp THEN l ELSE None]
          /\ app'[l] = [own |-> row[SystemApp].stamp, system |-> row[SystemApp].stamp]
    BY <1>18 DEF Restart
  <2>2. app'[l] # None
    <3>1. row[SystemApp].stamp \in Nat
      BY DEF Row
    <3> QED
      BY <2>1, <3>1 DEF Application
  <2>3. \A p \in Procs : pc'[p] = "idle"
    BY <1>18 DEF Restart
  <2> QED
    BY <2>1, <2>2, <2>3
<1>19. CASE UNCHANGED vars
  BY <1>19 DEF vars
<1> QED
  BY <1>1, <1>2, <1>3, <1>4, <1>5, <1>6, <1>20, <1>7, <1>8, <1>9, <1>10, <1>11, <1>12, <1>13,
     <1>14, <1>15, <1>16, <1>17, <1>18, <1>19 DEF Next, Get, Publish, Load

-----------------------------------------------------------------------------
(* What one step of a running server may do to loaders and to requests: the *)
(* bounds below are proved from these summaries alone.                      *)

\* Loader l keeps its application, loses it, or gets what a load has built;
\* what a load builds on it stays as it is, or is the row as it is now.
LoaderMoves(l) ==
  /\ \/ app'[l] = app[l]
     \/ \E p \in Procs : /\ pc[p] = "query" /\ pc'[p] = "idle" /\ target[p] = l
                         /\ app'[l] = None
     \/ \E p \in Procs : /\ pc[p] = "install" /\ pc'[p] = "unlock" /\ target[p] = l
                         /\ app'[l] # None /\ app'[l].own = built[p].own
  /\ \A q \in Procs : pc'[q] \in Building /\ target'[q] = l =>
       /\ target[q] = l
       /\ \/ pc[q] \in Building /\ built'[q].own = built[q].own
          \/ pc[q] = "query" /\ built'[q].own = row[of[q]].stamp

\* A request that has a loader keeps it and its application; one that gets a
\* loader gets the one in the cache.
RequestMoves(p) ==
  pc'[p] \in Aimed =>
    \/ pc[p] \in Aimed /\ target'[p] = target[p] /\ of'[p] = of[p]
    \/ /\ pc[p] \in {"idle", "miss", "reload"} /\ pc'[p] \in {"lock", "return"}
       /\ target'[p] = cache'[of'[p]] /\ cache'[of'[p]] # None
       /\ pc[p] # "idle" => of'[p] = of[p]

\* Stamps grow; an entry of the cache is replaced by a new loader only, and
\* a new loader is empty.
SharedMoves ==
  /\ \A a \in Apps : row'[a].stamp >= row[a].stamp
  /\ \A a \in Apps : cache'[a] = cache[a] \/ (cache'[a] \in Loaders \ used /\ a # SystemApp)

LEMMA LoaderStep ==
  ASSUME TypeOK, Structure, [Next]_vars, ~ Restart, NEW l \in Loaders
  PROVE  LoaderMoves(l)
<1> USE SystemAppAssumption, ProcessAssumption, NoneAssumption
    DEF TypeOK, Labels, Structure, Labelled, Mutex, OneApp, SystemLoaded, Aimed, Holding, Building,
        Procs, database, loaders, locals, history, Goto, Aim, LoaderMoves
<1>1. ASSUME NEW g \in Getters, NEW a \in Apps, Lookup(g, a) PROVE LoaderMoves(l)
  BY <1>1 DEF Lookup
<1>2. ASSUME NEW g \in Getters, StoreLoader(g) PROVE LoaderMoves(l)
  BY <1>2 DEF StoreLoader
<1>3. ASSUME NEW g \in Getters, Return(g) PROVE LoaderMoves(l)
  BY <1>3 DEF Return, End
<1>4. ASSUME NEW p \in Procs, Lock(p) PROVE LoaderMoves(l)
  BY <1>4 DEF Lock, Forced
<1>5. ASSUME NEW p \in Procs, Query(p) PROVE LoaderMoves(l)
  BY <1>5 DEF Query
<1>6. ASSUME NEW p \in Procs, LoadFails(p) PROVE LoaderMoves(l)
  BY <1>6 DEF LoadFails, End
<1>20. ASSUME NEW p \in Procs, LoadPanics(p) PROVE LoaderMoves(l)
  BY <1>20 DEF LoadPanics, End
<1>7. ASSUME NEW p \in Procs, MergeSystemModel(p) PROVE LoaderMoves(l)
  BY <1>7 DEF MergeSystemModel
<1>8. ASSUME NEW p \in Procs, Install(p) PROVE LoaderMoves(l)
  <2>1. app'[target[p]] # None /\ app'[target[p]].own = built[p].own
    <3>1. built[p] \in Application
      OBVIOUS
    <3>2. [own |-> built[p].own, system |-> built[p].own] \in Application
      BY <3>1 DEF Application
    <3>3. target[p] \in Loaders
      BY <1>8 DEF Install
    <3> QED
      BY <1>8, <3>1, <3>2, <3>3 DEF Install
  <2> QED
    BY <1>8, <2>1 DEF Install
<1>9. ASSUME NEW p \in Procs, Unlock(p) PROVE LoaderMoves(l)
  BY <1>9, UnlockParts DEF End
<1>10. ASSUME NEW p \in Publishers, NEW a \in Apps, StartPublish(p, a) PROVE LoaderMoves(l)
  BY <1>10 DEF StartPublish
<1>11. ASSUME NEW p \in Publishers, Migrate(p) PROVE LoaderMoves(l)
  BY <1>11 DEF Migrate
<1>12. ASSUME NEW p \in Publishers, MigrateFails(p) PROVE LoaderMoves(l)
  BY <1>12 DEF MigrateFails, End
<1>13. ASSUME NEW p \in Publishers, SaveRow(p) PROVE LoaderMoves(l)
  BY <1>13 DEF SaveRow
<1>14. ASSUME NEW p \in Publishers, SaveFails(p) PROVE LoaderMoves(l)
  BY <1>14 DEF SaveFails, End
<1>15. ASSUME NEW p \in Publishers, ReLoad(p) PROVE LoaderMoves(l)
  BY <1>15, ReLoadParts DEF End
<1>16. ASSUME NEW a \in Apps, Edit(a) PROVE LoaderMoves(l)
  BY <1>16 DEF Edit, Row
<1>17. ASSUME NEW a \in Apps, DeleteApp(a) PROVE LoaderMoves(l)
  BY <1>17 DEF DeleteApp, Row
<1>18. CASE UNCHANGED vars
  BY <1>18 DEF vars
<1> QED
  BY <1>1, <1>2, <1>3, <1>4, <1>5, <1>6, <1>20, <1>7, <1>8, <1>9, <1>10, <1>11, <1>12, <1>13,
     <1>14, <1>15, <1>16, <1>17, <1>18 DEF Next, Get, Publish, Load

LEMMA RequestStep ==
  ASSUME TypeOK, Structure, [Next]_vars, ~ Restart, NEW r \in Procs
  PROVE  RequestMoves(r)
<1> USE SystemAppAssumption, ProcessAssumption, NoneAssumption
    DEF TypeOK, Labels, Structure, Labelled, Mutex, OneApp, SystemLoaded, Aimed, Holding, Building,
        Procs, database, loaders, locals, history, Goto, Aim, RequestMoves
<1>1. ASSUME NEW g \in Getters, NEW a \in Apps, Lookup(g, a) PROVE RequestMoves(r)
  BY <1>1 DEF Lookup
<1>2. ASSUME NEW g \in Getters, StoreLoader(g) PROVE RequestMoves(r)
  BY <1>2 DEF StoreLoader
<1>3. ASSUME NEW g \in Getters, Return(g) PROVE RequestMoves(r)
  BY <1>3 DEF Return, End
<1>4. ASSUME NEW p \in Procs, Lock(p) PROVE RequestMoves(r)
  BY <1>4 DEF Lock, Forced
<1>5. ASSUME NEW p \in Procs, Query(p) PROVE RequestMoves(r)
  BY <1>5 DEF Query
<1>6. ASSUME NEW p \in Procs, LoadFails(p) PROVE RequestMoves(r)
  BY <1>6 DEF LoadFails, End
<1>20. ASSUME NEW p \in Procs, LoadPanics(p) PROVE RequestMoves(r)
  BY <1>20 DEF LoadPanics, End
<1>7. ASSUME NEW p \in Procs, MergeSystemModel(p) PROVE RequestMoves(r)
  BY <1>7 DEF MergeSystemModel
<1>8. ASSUME NEW p \in Procs, Install(p) PROVE RequestMoves(r)
  BY <1>8 DEF Install
<1>9. ASSUME NEW p \in Procs, Unlock(p) PROVE RequestMoves(r)
  BY <1>9, UnlockParts DEF End
<1>10. ASSUME NEW p \in Publishers, NEW a \in Apps, StartPublish(p, a) PROVE RequestMoves(r)
  BY <1>10 DEF StartPublish
<1>11. ASSUME NEW p \in Publishers, Migrate(p) PROVE RequestMoves(r)
  BY <1>11 DEF Migrate
<1>12. ASSUME NEW p \in Publishers, MigrateFails(p) PROVE RequestMoves(r)
  BY <1>12 DEF MigrateFails, End
<1>13. ASSUME NEW p \in Publishers, SaveRow(p) PROVE RequestMoves(r)
  BY <1>13 DEF SaveRow
<1>14. ASSUME NEW p \in Publishers, SaveFails(p) PROVE RequestMoves(r)
  BY <1>14 DEF SaveFails, End
<1>15. ASSUME NEW p \in Publishers, ReLoad(p) PROVE RequestMoves(r)
  BY <1>15, ReLoadParts DEF End
<1>16. ASSUME NEW a \in Apps, Edit(a) PROVE RequestMoves(r)
  BY <1>16 DEF Edit, Row
<1>17. ASSUME NEW a \in Apps, DeleteApp(a) PROVE RequestMoves(r)
  BY <1>17 DEF DeleteApp, Row
<1>18. CASE UNCHANGED vars
  BY <1>18 DEF vars
<1> QED
  BY <1>1, <1>2, <1>3, <1>4, <1>5, <1>6, <1>20, <1>7, <1>8, <1>9, <1>10, <1>11, <1>12, <1>13,
     <1>14, <1>15, <1>16, <1>17, <1>18 DEF Next, Get, Publish, Load

LEMMA SharedStep ==
  ASSUME TypeOK, Structure, [Next]_vars, ~ Restart
  PROVE  SharedMoves
<1> USE SystemAppAssumption, ProcessAssumption, NoneAssumption
    DEF TypeOK, Labels, Structure, Labelled, Mutex, OneApp, SystemLoaded, Aimed, Holding, Building,
        Procs, database, loaders, locals, history, Goto, Aim, SharedMoves, Row
<1>1. ASSUME NEW g \in Getters, NEW a \in Apps, Lookup(g, a) PROVE SharedMoves
  BY <1>1 DEF Lookup
<1>2. ASSUME NEW g \in Getters, StoreLoader(g) PROVE SharedMoves
  BY <1>2 DEF StoreLoader
<1>3. ASSUME NEW g \in Getters, Return(g) PROVE SharedMoves
  BY <1>3 DEF Return, End
<1>4. ASSUME NEW p \in Procs, Lock(p) PROVE SharedMoves
  BY <1>4 DEF Lock, Forced
<1>5. ASSUME NEW p \in Procs, Query(p) PROVE SharedMoves
  BY <1>5 DEF Query
<1>6. ASSUME NEW p \in Procs, LoadFails(p) PROVE SharedMoves
  BY <1>6 DEF LoadFails, End
<1>20. ASSUME NEW p \in Procs, LoadPanics(p) PROVE SharedMoves
  BY <1>20 DEF LoadPanics, End
<1>7. ASSUME NEW p \in Procs, MergeSystemModel(p) PROVE SharedMoves
  BY <1>7 DEF MergeSystemModel
<1>8. ASSUME NEW p \in Procs, Install(p) PROVE SharedMoves
  BY <1>8 DEF Install
<1>9. ASSUME NEW p \in Procs, Unlock(p) PROVE SharedMoves
  BY <1>9, UnlockParts DEF End
<1>10. ASSUME NEW p \in Publishers, NEW a \in Apps, StartPublish(p, a) PROVE SharedMoves
  BY <1>10 DEF StartPublish
<1>11. ASSUME NEW p \in Publishers, Migrate(p) PROVE SharedMoves
  BY <1>11 DEF Migrate
<1>12. ASSUME NEW p \in Publishers, MigrateFails(p) PROVE SharedMoves
  BY <1>12 DEF MigrateFails, End
<1>13. ASSUME NEW p \in Publishers, SaveRow(p) PROVE SharedMoves
  BY <1>13 DEF SaveRow
<1>14. ASSUME NEW p \in Publishers, SaveFails(p) PROVE SharedMoves
  BY <1>14 DEF SaveFails, End
<1>15. ASSUME NEW p \in Publishers, ReLoad(p) PROVE SharedMoves
  BY <1>15, ReLoadParts DEF End
<1>16. ASSUME NEW a \in Apps, Edit(a) PROVE SharedMoves
  BY <1>16 DEF Edit, Row
<1>17. ASSUME NEW a \in Apps, DeleteApp(a) PROVE SharedMoves
  BY <1>17 DEF DeleteApp, Row
<1>18. CASE UNCHANGED vars
  BY <1>18 DEF vars
<1> QED
  BY <1>1, <1>2, <1>3, <1>4, <1>5, <1>6, <1>20, <1>7, <1>8, <1>9, <1>10, <1>11, <1>12, <1>13,
     <1>14, <1>15, <1>16, <1>17, <1>18 DEF Next, Get, Publish, Load

\* What a publish does with the stamp it saved, until it finishes.
PublisherMoves(p) ==
  /\ pc'[p] \in Reloading \cup {"reload"} =>
       /\ of'[p] = of[p]
       /\ \/ saved'[p] = saved[p] /\ pc[p] \in Reloading \cup {"reload"}
          \/ saved'[p] = row'[of[p]].stamp /\ pc'[p] = "reload"
  /\ pc'[p] = "unlock" /\ pc[p] # "unlock" => pc[p] = "install" /\ app'[target[p]].own = built[p].own
                                              /\ app'[target[p]] # None

\* A Get remembers the last publish that had finished when it began.
GetterMoves(g) ==
  pc'[g] # "idle" => \/ pc[g] = "idle" /\ floor'[g] = finished[of'[g]]
                     \/ pc[g] # "idle" /\ floor'[g] = floor[g] /\ of'[g] = of[g]

\* A publish finishes when it unlocks the loader, or finds none.
FinishMoves(a) ==
  \/ finished'[a] = finished[a]
  \/ \E p \in Publishers :
       /\ of[p] = a /\ finished'[a] = saved[p] /\ saved[p] > finished[a]
       /\ pc[p] = "unlock" \/ (pc[p] = "reload" /\ cache'[a] = None)

LEMMA PublisherStep ==
  ASSUME TypeOK, Structure, [Next]_vars, ~ Restart, NEW r \in Publishers
  PROVE  PublisherMoves(r)
<1> USE SystemAppAssumption, ProcessAssumption, NoneAssumption
    DEF TypeOK, Labels, Structure, Labelled, Mutex, OneApp, SystemLoaded, Aimed, Holding, Building,
        Procs, database, loaders, locals, history, Goto, Aim, PublisherMoves, Reloading
<1>1. ASSUME NEW g \in Getters, NEW a \in Apps, Lookup(g, a) PROVE PublisherMoves(r)
  BY <1>1 DEF Lookup
<1>2. ASSUME NEW g \in Getters, StoreLoader(g) PROVE PublisherMoves(r)
  BY <1>2 DEF StoreLoader
<1>3. ASSUME NEW g \in Getters, Return(g) PROVE PublisherMoves(r)
  BY <1>3 DEF Return, End
<1>4. ASSUME NEW p \in Procs, Lock(p) PROVE PublisherMoves(r)
  BY <1>4 DEF Lock, Forced
<1>5. ASSUME NEW p \in Procs, Query(p) PROVE PublisherMoves(r)
  BY <1>5 DEF Query
<1>6. ASSUME NEW p \in Procs, LoadFails(p) PROVE PublisherMoves(r)
  BY <1>6 DEF LoadFails, End
<1>20. ASSUME NEW p \in Procs, LoadPanics(p) PROVE PublisherMoves(r)
  BY <1>20 DEF LoadPanics, End
<1>7. ASSUME NEW p \in Procs, MergeSystemModel(p) PROVE PublisherMoves(r)
  BY <1>7 DEF MergeSystemModel
<1>8. ASSUME NEW p \in Procs, Install(p) PROVE PublisherMoves(r)
  <2>1. app'[target[p]] # None /\ app'[target[p]].own = built[p].own
    <3>1. built[p] \in Application
      OBVIOUS
    <3>2. [own |-> built[p].own, system |-> built[p].own] \in Application
      BY <3>1 DEF Application
    <3>3. target[p] \in Loaders
      BY <1>8 DEF Install
    <3> QED
      BY <1>8, <3>1, <3>2, <3>3 DEF Install
  <2> QED
    BY <1>8, <2>1 DEF Install
<1>9. ASSUME NEW p \in Procs, Unlock(p) PROVE PublisherMoves(r)
  BY <1>9, UnlockParts DEF End
<1>10. ASSUME NEW p \in Publishers, NEW a \in Apps, StartPublish(p, a) PROVE PublisherMoves(r)
  BY <1>10 DEF StartPublish
<1>11. ASSUME NEW p \in Publishers, Migrate(p) PROVE PublisherMoves(r)
  BY <1>11 DEF Migrate
<1>12. ASSUME NEW p \in Publishers, MigrateFails(p) PROVE PublisherMoves(r)
  BY <1>12 DEF MigrateFails, End
<1>13. ASSUME NEW p \in Publishers, SaveRow(p) PROVE PublisherMoves(r)
  BY <1>13 DEF SaveRow
<1>14. ASSUME NEW p \in Publishers, SaveFails(p) PROVE PublisherMoves(r)
  BY <1>14 DEF SaveFails, End
<1>15. ASSUME NEW p \in Publishers, ReLoad(p) PROVE PublisherMoves(r)
  BY <1>15, ReLoadParts DEF End
<1>16. ASSUME NEW a \in Apps, Edit(a) PROVE PublisherMoves(r)
  BY <1>16 DEF Edit, Row
<1>17. ASSUME NEW a \in Apps, DeleteApp(a) PROVE PublisherMoves(r)
  BY <1>17 DEF DeleteApp, Row
<1>18. CASE UNCHANGED vars
  BY <1>18 DEF vars
<1> QED
  BY <1>1, <1>2, <1>3, <1>4, <1>5, <1>6, <1>20, <1>7, <1>8, <1>9, <1>10, <1>11, <1>12, <1>13,
     <1>14, <1>15, <1>16, <1>17, <1>18 DEF Next, Get, Publish, Load

LEMMA GetterStep ==
  ASSUME TypeOK, Structure, [Next]_vars, ~ Restart, NEW r \in Getters
  PROVE  GetterMoves(r)
<1> USE SystemAppAssumption, ProcessAssumption, NoneAssumption
    DEF TypeOK, Labels, Structure, Labelled, Mutex, OneApp, SystemLoaded, Aimed, Holding, Building,
        Procs, database, loaders, locals, history, Goto, Aim, GetterMoves
<1>1. ASSUME NEW g \in Getters, NEW a \in Apps, Lookup(g, a) PROVE GetterMoves(r)
  BY <1>1 DEF Lookup
<1>2. ASSUME NEW g \in Getters, StoreLoader(g) PROVE GetterMoves(r)
  BY <1>2 DEF StoreLoader
<1>3. ASSUME NEW g \in Getters, Return(g) PROVE GetterMoves(r)
  BY <1>3 DEF Return, End
<1>4. ASSUME NEW p \in Procs, Lock(p) PROVE GetterMoves(r)
  BY <1>4 DEF Lock, Forced
<1>5. ASSUME NEW p \in Procs, Query(p) PROVE GetterMoves(r)
  BY <1>5 DEF Query
<1>6. ASSUME NEW p \in Procs, LoadFails(p) PROVE GetterMoves(r)
  BY <1>6 DEF LoadFails, End
<1>20. ASSUME NEW p \in Procs, LoadPanics(p) PROVE GetterMoves(r)
  BY <1>20 DEF LoadPanics, End
<1>7. ASSUME NEW p \in Procs, MergeSystemModel(p) PROVE GetterMoves(r)
  BY <1>7 DEF MergeSystemModel
<1>8. ASSUME NEW p \in Procs, Install(p) PROVE GetterMoves(r)
  BY <1>8 DEF Install
<1>9. ASSUME NEW p \in Procs, Unlock(p) PROVE GetterMoves(r)
  BY <1>9, UnlockParts DEF End
<1>10. ASSUME NEW p \in Publishers, NEW a \in Apps, StartPublish(p, a) PROVE GetterMoves(r)
  BY <1>10 DEF StartPublish
<1>11. ASSUME NEW p \in Publishers, Migrate(p) PROVE GetterMoves(r)
  BY <1>11 DEF Migrate
<1>12. ASSUME NEW p \in Publishers, MigrateFails(p) PROVE GetterMoves(r)
  BY <1>12 DEF MigrateFails, End
<1>13. ASSUME NEW p \in Publishers, SaveRow(p) PROVE GetterMoves(r)
  BY <1>13 DEF SaveRow
<1>14. ASSUME NEW p \in Publishers, SaveFails(p) PROVE GetterMoves(r)
  BY <1>14 DEF SaveFails, End
<1>15. ASSUME NEW p \in Publishers, ReLoad(p) PROVE GetterMoves(r)
  BY <1>15, ReLoadParts DEF End
<1>16. ASSUME NEW a \in Apps, Edit(a) PROVE GetterMoves(r)
  BY <1>16 DEF Edit, Row
<1>17. ASSUME NEW a \in Apps, DeleteApp(a) PROVE GetterMoves(r)
  BY <1>17 DEF DeleteApp, Row
<1>18. CASE UNCHANGED vars
  BY <1>18 DEF vars
<1> QED
  BY <1>1, <1>2, <1>3, <1>4, <1>5, <1>6, <1>20, <1>7, <1>8, <1>9, <1>10, <1>11, <1>12, <1>13,
     <1>14, <1>15, <1>16, <1>17, <1>18 DEF Next, Get, Publish, Load

LEMMA FinishStep ==
  ASSUME TypeOK, Structure, [Next]_vars, ~ Restart, NEW b \in Apps
  PROVE  FinishMoves(b)
<1> USE SystemAppAssumption, ProcessAssumption, NoneAssumption
    DEF TypeOK, Labels, Structure, Labelled, Mutex, OneApp, SystemLoaded, Aimed, Holding, Building,
        Procs, database, loaders, locals, history, Goto, Aim, FinishMoves, Finish
<1>1. ASSUME NEW g \in Getters, NEW a \in Apps, Lookup(g, a) PROVE FinishMoves(b)
  BY <1>1 DEF Lookup
<1>2. ASSUME NEW g \in Getters, StoreLoader(g) PROVE FinishMoves(b)
  BY <1>2 DEF StoreLoader
<1>3. ASSUME NEW g \in Getters, Return(g) PROVE FinishMoves(b)
  BY <1>3 DEF Return, End
<1>4. ASSUME NEW p \in Procs, Lock(p) PROVE FinishMoves(b)
  BY <1>4 DEF Lock, Forced
<1>5. ASSUME NEW p \in Procs, Query(p) PROVE FinishMoves(b)
  BY <1>5 DEF Query
<1>6. ASSUME NEW p \in Procs, LoadFails(p) PROVE FinishMoves(b)
  BY <1>6 DEF LoadFails, End
<1>20. ASSUME NEW p \in Procs, LoadPanics(p) PROVE FinishMoves(b)
  BY <1>20 DEF LoadPanics, End
<1>7. ASSUME NEW p \in Procs, MergeSystemModel(p) PROVE FinishMoves(b)
  BY <1>7 DEF MergeSystemModel
<1>8. ASSUME NEW p \in Procs, Install(p) PROVE FinishMoves(b)
  BY <1>8 DEF Install
<1>9. ASSUME NEW p \in Procs, Unlock(p) PROVE FinishMoves(b)
  BY <1>9, UnlockParts DEF End
<1>10. ASSUME NEW p \in Publishers, NEW a \in Apps, StartPublish(p, a) PROVE FinishMoves(b)
  BY <1>10 DEF StartPublish
<1>11. ASSUME NEW p \in Publishers, Migrate(p) PROVE FinishMoves(b)
  BY <1>11 DEF Migrate
<1>12. ASSUME NEW p \in Publishers, MigrateFails(p) PROVE FinishMoves(b)
  BY <1>12 DEF MigrateFails, End
<1>13. ASSUME NEW p \in Publishers, SaveRow(p) PROVE FinishMoves(b)
  BY <1>13 DEF SaveRow
<1>14. ASSUME NEW p \in Publishers, SaveFails(p) PROVE FinishMoves(b)
  BY <1>14 DEF SaveFails, End
<1>15. ASSUME NEW p \in Publishers, ReLoad(p) PROVE FinishMoves(b)
  BY <1>15, ReLoadParts DEF End
<1>16. ASSUME NEW a \in Apps, Edit(a) PROVE FinishMoves(b)
  BY <1>16 DEF Edit, Row
<1>17. ASSUME NEW a \in Apps, DeleteApp(a) PROVE FinishMoves(b)
  BY <1>17 DEF DeleteApp, Row
<1>18. CASE UNCHANGED vars
  BY <1>18 DEF vars
<1> QED
  BY <1>1, <1>2, <1>3, <1>4, <1>5, <1>6, <1>20, <1>7, <1>8, <1>9, <1>10, <1>11, <1>12, <1>13,
     <1>14, <1>15, <1>16, <1>17, <1>18 DEF Next, Get, Publish, Load

-----------------------------------------------------------------------------
(* Stamps ascend. *)

\* A bound on a loader holds as long as the rows that loads read keep to it.
LEMMA AtMostKept ==
  ASSUME TypeOK, NEW l \in Loaders, LoaderMoves(l), NEW s \in Nat, NEW t \in Nat, s <= t,
         AtMost(l, s), \A q \in Procs : pc[q] = "query" /\ target[q] = l => row[of[q]].stamp <= s
  PROVE  AtMost(l, t)'
BY SMTT(60) DEF LoaderMoves, AtMost, TypeOK, Application, Row, Procs, Building

LEMMA AtLeastKept ==
  ASSUME TypeOK, NEW l \in Loaders, LoaderMoves(l), NEW s \in Nat,
         AtLeast(l, s), \A q \in Procs : pc[q] = "query" /\ target[q] = l => row[of[q]].stamp >= s
  PROVE  AtLeast(l, s)'
BY SMTT(60) DEF LoaderMoves, AtLeast, TypeOK, Application, Row, Procs, Building

\* A loader that was not in use is empty, and nobody builds on it.
LEMMA NewLoader ==
  ASSUME TypeOK, Structure, SameApp, NEW l \in Loaders \ used, LoaderMoves(l), NEW s
  PROVE  AtLeast(l, s)' /\ AtMost(l, s)'
BY DEF LoaderMoves, AtLeast, AtMost, Structure, SameApp, Labelled, Aimed, Holding, Building

\* Two loads never build on one loader at once (Mutex), and a load reads the
\* row of the application the loader is for: stamps go up.
LEMMA StampsStep ==
  ASSUME TypeOK, Structure, SameApp, StampsAscend, [Next]_vars, ~ Restart
  PROVE  StampsAscend'
<1>1. /\ \A l \in Loaders : LoaderMoves(l)
      /\ \A p \in Procs : RequestMoves(p)
      /\ SharedMoves
  BY LoaderStep, RequestStep, SharedStep
<1>2. /\ TypeOK' /\ Structure' /\ SameApp'
  BY TypeStep, StructureStep, SameAppStep DEF Structure
<1>3. \A a \in Apps : row[a].stamp \in Nat /\ row'[a].stamp \in Nat /\ row[a].stamp <= row'[a].stamp
  BY <1>1, <1>2 DEF SharedMoves, TypeOK, Row
<1>4. ASSUME NEW a \in Apps, NEW l \in Loaders, l = cache'[a], NEW s \in Nat, s = row'[a].stamp
      PROVE  AtMost(l, s)'
  <2>1. CASE l = cache[a]
    <3>1. \A q \in Procs : pc[q] = "query" /\ target[q] = l => of[q] = a
      BY <2>1 DEF Structure, OneApp, Aimed, Holding
    <3>2. AtMost(l, row[a].stamp)
      BY NoneAssumption, <2>1 DEF StampsAscend
    <3>3. \A q \in Procs : pc[q] = "query" /\ target[q] = l => row[of[q]].stamp <= row[a].stamp
      BY <1>3, <3>1
    <3> QED
      BY <1>1, <1>3, <1>4, <3>2, <3>3, AtMostKept
  <2>2. CASE l \in Loaders \ used
    BY <1>1, <2>2, NewLoader
  <2> QED
    BY <1>1, <1>4, <2>1, <2>2 DEF SharedMoves
<1>5. ASSUME NEW p \in Procs, pc'[p] \in Aimed, NEW l \in Loaders, l = target'[p],
             NEW s \in Nat, s = row'[of'[p]].stamp
      PROVE  AtMost(l, s)'
  <2>0. of[p] \in Apps /\ of'[p] \in Apps
    BY <1>2 DEF TypeOK
  <2>1. CASE pc[p] \in Aimed /\ target'[p] = target[p] /\ of'[p] = of[p]
    <3>1. \A q \in Procs : pc[q] = "query" /\ target[q] = l => of[q] = of[p]
      BY <1>5, <2>1 DEF SameApp, Aimed, Holding
    <3>2. AtMost(l, row[of[p]].stamp)
      BY <1>5, <2>1 DEF StampsAscend
    <3>3. \A q \in Procs : pc[q] = "query" /\ target[q] = l => row[of[q]].stamp <= row[of[p]].stamp
      BY <1>3, <2>0, <3>1
    <3> QED
      BY <1>1, <1>3, <1>5, <2>0, <2>1, <3>2, <3>3, AtMostKept
  <2>2. CASE target'[p] = cache'[of'[p]] /\ cache'[of'[p]] # None
    BY <1>4, <1>5, <2>0, <2>2
  <2> QED
    BY <1>1, <1>5, <2>1, <2>2 DEF RequestMoves
<1>6. ASSUME NEW p \in Procs, pc'[p] \in Building, app'[target'[p]] # None
      PROVE  app'[target'[p]].own <= built'[p].own
  <2> DEFINE l == target'[p]
  <2>1. target[p] = l /\ pc[p] \in Aimed /\ l \in Loaders
    BY <1>1, <1>2, <1>6 DEF LoaderMoves, Building, Aimed, Holding, Structure, Labelled, TypeOK
  <2>2. \A q \in Procs : pc[q] \in Building /\ target[q] = l => q = p
    BY <1>1, <1>6, <2>1 DEF LoaderMoves, Structure, Mutex, Building, Holding
  <2>3. app'[l] = app[l]
    BY <1>1, <1>6, <2>1, <2>2 DEF LoaderMoves, Building
  <2>4. CASE pc[p] \in Building /\ built'[p].own = built[p].own
    BY <1>6, <2>1, <2>3, <2>4 DEF StampsAscend
  <2>5. CASE pc[p] = "query" /\ built'[p].own = row[of[p]].stamp
    BY <1>6, <2>1, <2>3, <2>5 DEF StampsAscend, AtMost
  <2> QED
    BY <1>1, <1>6, <2>1, <2>4, <2>5 DEF LoaderMoves
<1>7. \A a \in Apps : cache'[a] # None => cache'[a] \in Loaders
  BY <1>2 DEF TypeOK
<1>8. \A p \in Procs : pc'[p] \in Aimed => target'[p] \in Loaders /\ of'[p] \in Apps
  BY <1>2 DEF TypeOK, Structure, Labelled
<1> QED
  BY <1>3, <1>4, <1>5, <1>6, <1>7, <1>8 DEF StampsAscend, AtMost

-----------------------------------------------------------------------------
(* The merged system model. *)

\* A loader that keeps an application does not get an older one.
LEMMA OwnAscends ==
  ASSUME TypeOK, Structure, StampsAscend, [Next]_vars, ~ Restart, NEW l \in Loaders,
         app[l] # None, app'[l] # None
  PROVE  app'[l].own >= app[l].own
<1>1. LoaderMoves(l)
  BY LoaderStep
<1>2. app[l] \in Application
  BY DEF TypeOK
<1>3. CASE app'[l] = app[l]
  BY <1>2, <1>3 DEF Application
<1>4. ASSUME NEW p \in Procs, pc[p] = "install", target[p] = l, app'[l].own = built[p].own
      PROVE  app'[l].own >= app[l].own
  BY <1>2, <1>4 DEF StampsAscend, Building, TypeOK, Application
<1> QED
  BY <1>1, <1>3, <1>4 DEF LoaderMoves

\* The loader of the system application is the same from the start to the end.
LEMMA MergedStep ==
  ASSUME TypeOK, Structure, SameApp, StampsAscend, SystemAscends, [Next]_vars, ~ Restart
  PROVE  SystemAscends'
<1>a. /\ cache'[SystemApp] = cache[SystemApp] /\ cache[SystemApp] \in Loaders
      /\ app[cache[SystemApp]] \in Application /\ app'[cache[SystemApp]] \in Application
  <2>1. TypeOK' /\ Structure' /\ SharedMoves
    BY TypeStep, StructureStep, SharedStep DEF Structure
  <2> QED
    BY <2>1, SystemAppAssumption DEF SharedMoves, TypeOK, Structure, SystemLoaded
<1>b. /\ app[cache[SystemApp]].own \in Nat /\ app'[cache[SystemApp]].own \in Nat
      /\ app[cache[SystemApp]].own <= app'[cache[SystemApp]].own
  BY <1>a, NoneAssumption, OwnAscends DEF Application
<1>c. \A l \in Loaders : app[l] # None => app[l].own \in Nat /\ app[l].system \in Nat
  BY DEF TypeOK, Application
<1>d. \A p \in Procs : built[p].own \in Nat /\ built[p].system \in Nat
  BY DEF TypeOK, Application
<1> USE SystemAppAssumption, ProcessAssumption, NoneAssumption
    DEF TypeOK, Labels, Structure, Labelled, Mutex, OneApp, SystemLoaded, Aimed, Holding,
        Procs, database, loaders, locals, history, Goto, Aim, SystemAscends
<1> USE <1>a, <1>b, <1>c, <1>d
<1>1. ASSUME NEW g \in Getters, NEW a \in Apps, Lookup(g, a) PROVE SystemAscends'
  BY <1>1 DEF Lookup
<1>2. ASSUME NEW g \in Getters, StoreLoader(g) PROVE SystemAscends'
  BY <1>2 DEF StoreLoader
<1>3. ASSUME NEW g \in Getters, Return(g) PROVE SystemAscends'
  BY <1>3 DEF Return, End
<1>4. ASSUME NEW p \in Procs, Lock(p) PROVE SystemAscends'
  BY <1>4 DEF Lock, Forced
<1>5. ASSUME NEW p \in Procs, Query(p) PROVE SystemAscends'
  BY <1>5 DEF Query
<1>6. ASSUME NEW p \in Procs, LoadFails(p) PROVE SystemAscends'
  BY <1>6 DEF LoadFails, End
<1>20. ASSUME NEW p \in Procs, LoadPanics(p) PROVE SystemAscends'
  BY <1>20 DEF LoadPanics, End
<1>7. ASSUME NEW p \in Procs, MergeSystemModel(p) PROVE SystemAscends'
  BY <1>7 DEF MergeSystemModel
<1>8. ASSUME NEW p \in Procs, Install(p) PROVE SystemAscends'
  <2>1. /\ pc[p] = "install" /\ target[p] \in Loaders
        /\ app' = [app EXCEPT ![target[p]] = app'[target[p]]]
        /\ pc' = [pc EXCEPT ![p] = "unlock"]
        /\ UNCHANGED <<of, target, built>>
    BY <1>8 DEF Install
  <2>2. app'[target[p]].system <= app'[cache[SystemApp]].own
    <3>1. CASE of[p] = SystemApp
      BY <1>8, <2>1, <3>1 DEF Install, SameApp
    <3>2. CASE of[p] # SystemApp
      BY <1>8, <2>1, <3>2 DEF Install
    <3> QED
      BY <3>1, <3>2
  <2>3. \A q \in Procs \ {p} : pc[q] = "install" => target[q] \in Loaders \ {target[p]}
    BY <2>1
  <2> HIDE DEF TypeOK, Labelled, Mutex, OneApp, SystemLoaded
  <2>4. \A l \in Loaders : app'[l] # None => app'[l].system <= app'[cache[SystemApp]].own
    BY SMTT(30), <2>1, <2>2 DEF TypeOK
  <2>5. ASSUME NEW q \in Procs, pc'[q] = "install", of'[q] # SystemApp
        PROVE  /\ built'[q].system <= app'[cache[SystemApp]].own
               /\ app'[target'[q]] # None => app'[target'[q]].system <= built'[q].system
    <3>1. /\ pc[q] = "install" /\ of[q] # SystemApp /\ q # p
          /\ built'[q] = built[q] /\ target'[q] = target[q]
      BY <2>1, <2>5 DEF TypeOK
    <3>2. app'[target[q]] = app[target[q]]
      BY <2>1, <2>3, <3>1 DEF TypeOK
    <3> QED
      BY <3>1, <3>2
  <2> QED
    BY <2>4, <2>5
<1>9. ASSUME NEW p \in Procs, Unlock(p) PROVE SystemAscends'
  BY SMTT(20), <1>9, UnlockParts DEF End
<1>10. ASSUME NEW p \in Publishers, NEW a \in Apps, StartPublish(p, a) PROVE SystemAscends'
  BY <1>10 DEF StartPublish
<1>11. ASSUME NEW p \in Publishers, Migrate(p) PROVE SystemAscends'
  BY <1>11 DEF Migrate
<1>12. ASSUME NEW p \in Publishers, MigrateFails(p) PROVE SystemAscends'
  BY <1>12 DEF MigrateFails, End
<1>13. ASSUME NEW p \in Publishers, SaveRow(p) PROVE SystemAscends'
  BY <1>13 DEF SaveRow
<1>14. ASSUME NEW p \in Publishers, SaveFails(p) PROVE SystemAscends'
  BY <1>14 DEF SaveFails, End
<1>15. ASSUME NEW p \in Publishers, ReLoad(p) PROVE SystemAscends'
  <2>1. pc[p] = "reload" /\ UNCHANGED <<row, cache, loaded, app>>
    BY <1>15, ReLoadParts
  <2>2. pc'[p] \in {"idle", "lock"}
    BY <1>15, ReLoadParts DEF End
  <2>3. \A q \in Procs \ {p} : /\ pc'[q] = pc[q] /\ of'[q] = of[q]
                              /\ target'[q] = target[q] /\ built'[q] = built[q]
    BY <1>15, ReLoadParts DEF End
  <2> QED
    BY SMTT(30), <2>1, <2>2, <2>3
<1>16. ASSUME NEW a \in Apps, Edit(a) PROVE SystemAscends'
  BY <1>16 DEF Edit, Row
<1>17. ASSUME NEW a \in Apps, DeleteApp(a) PROVE SystemAscends'
  BY <1>17 DEF DeleteApp, Row
<1>18. CASE UNCHANGED vars
  BY <1>18 DEF vars
<1> QED
  BY <1>1, <1>2, <1>3, <1>4, <1>5, <1>6, <1>20, <1>7, <1>8, <1>9, <1>10, <1>11, <1>12, <1>13,
     <1>14, <1>15, <1>16, <1>17, <1>18 DEF Next, Get, Publish, Load

-----------------------------------------------------------------------------
(* What a finished publish saved has reached the loaders. *)

LEMMA AtLeastLess ==
  ASSUME TypeOK, NEW l \in Loaders, NEW s \in Nat, NEW t \in Nat, t <= s, AtLeast(l, s)
  PROVE  AtLeast(l, t)
BY DEF AtLeast, TypeOK, Application, Procs

\* A publish that finishes under the mutex has put its stamp in the loader; one
\* whose loader was replaced, or that found none, saved before the new loader
\* was stored, and a new loader reads the row after that.
LEMMA ReachedStep ==
  ASSUME TypeOK, Structure, SameApp, Reached, [Next]_vars, ~ Restart
  PROVE  Reached'
<1>1. /\ \A l \in Loaders : LoaderMoves(l)
      /\ \A p \in Procs : RequestMoves(p)
      /\ \A p \in Publishers : PublisherMoves(p)
      /\ \A g \in Getters : GetterMoves(g)
      /\ \A a \in Apps : FinishMoves(a)
      /\ SharedMoves
  BY LoaderStep, RequestStep, SharedStep, PublisherStep, GetterStep, FinishStep
<1>2. TypeOK' /\ Structure' /\ SameApp'
  BY TypeStep, StructureStep, SameAppStep DEF Structure
<1>3. \A a \in Apps :
        /\ row[a].stamp \in Nat /\ row'[a].stamp \in Nat /\ row[a].stamp <= row'[a].stamp
        /\ finished[a] \in Nat /\ finished'[a] \in Nat /\ finished[a] <= finished'[a]
  <2>1. \A p \in Publishers : saved[p] \in Nat
    BY DEF TypeOK
  <2> QED
    <3>1. \A a \in Apps : row[a].stamp \in Nat /\ row'[a].stamp \in Nat
                          /\ finished[a] \in Nat /\ finished'[a] \in Nat
      BY <1>2 DEF TypeOK, Row
    <3>2. \A a \in Apps : row[a].stamp <= row'[a].stamp
      BY <1>1, <3>1 DEF SharedMoves
    <3>3. \A a \in Apps : finished[a] <= finished'[a]
      BY <1>1, <2>1, <3>1 DEF FinishMoves
    <3> QED
      BY <3>1, <3>2, <3>3
<1>4. \A p \in Publishers : saved[p] \in Nat /\ saved'[p] \in Nat
  BY <1>2 DEF TypeOK
<1>5. \A g \in Getters : floor[g] \in Nat /\ floor'[g] \in Nat
  BY <1>2 DEF TypeOK
<1>6. \A p \in Procs : of[p] \in Apps /\ of'[p] \in Apps /\ p \in Getters \cup Publishers
  BY <1>2 DEF TypeOK, Procs
<1>7. \A p \in Publishers : p \in Procs
  BY DEF Procs
<1>8. \A g \in Getters : g \in Procs
  BY DEF Procs

\* Finished publishes.
<1>9. ASSUME NEW a \in Apps PROVE finished'[a] <= row'[a].stamp
  <2>1. CASE finished'[a] = finished[a]
    BY <1>3, <2>1 DEF Reached
  <2>2. ASSUME NEW p \in Publishers, of[p] = a, finished'[a] = saved[p],
               pc[p] \in {"unlock", "reload"}
        PROVE  finished'[a] <= row'[a].stamp
    <3>1. saved[p] <= row[a].stamp
      BY <2>2 DEF Reached, Reloading, Holding
    <3> QED
      BY <1>3, <1>4, <2>2, <3>1
  <2> QED
    BY <1>1, <2>1, <2>2 DEF FinishMoves
<1>10. ASSUME NEW a \in Apps, NEW l \in Loaders, l = cache'[a], NEW s \in Nat, s = finished'[a]
       PROVE  AtLeast(l, s)'
  <2>1. CASE l = cache[a]
    <3>1. \A q \in Procs : pc[q] = "query" /\ target[q] = l => of[q] = a
      BY <2>1 DEF Structure, OneApp, Aimed, Holding
    <3>2. ASSUME AtLeast(l, s), s <= row[a].stamp
          PROVE  AtLeast(l, s)'
      <4>1. \A q \in Procs : pc[q] = "query" /\ target[q] = l => row[of[q]].stamp >= s
        BY <1>3, <3>1, <3>2
      <4> QED
        BY <1>1, <3>2, <4>1, AtLeastKept
    <3>3. CASE finished'[a] = finished[a]
      <4>1. l # None
        BY NoneAssumption
      <4> QED
        BY <1>10, <2>1, <3>2, <3>3, <4>1 DEF Reached
    <3>4. ASSUME NEW p \in Publishers, of[p] = a, finished'[a] = saved[p],
                 pc[p] = "unlock" \/ (pc[p] = "reload" /\ cache'[a] = None)
          PROVE  AtLeast(l, s)'
      <4>1. pc[p] = "unlock" /\ saved[p] <= row[a].stamp /\ cache[a] = l
        BY <1>10, <2>1, <3>4, NoneAssumption DEF Reached, Reloading, Holding
      <4>2. CASE target[p] = l
        <5>1. \A q \in Procs : pc[q] \in Building /\ target[q] = l => FALSE
          BY <1>7, <4>1, <4>2 DEF Structure, Mutex, Building, Holding
        <5>2. app[l] # None /\ app[l].own >= saved[p]
          BY <4>1, <4>2 DEF Reached
        <5> QED
          BY <1>10, <3>2, <3>4, <4>1, <5>1, <5>2 DEF AtLeast
      <4>3. CASE target[p] # l
        BY <1>10, <3>2, <3>4, <4>1, <4>3 DEF Reached, Reloading, Holding
      <4> QED
        BY <4>2, <4>3
    <3> QED
      BY <1>1, <3>3, <3>4 DEF FinishMoves
  <2>2. CASE l \in Loaders \ used
    BY <1>1, <2>2, NewLoader
  <2> QED
    BY <1>1, <1>10, <2>1, <2>2 DEF SharedMoves

\* Publishes that have saved and not finished.
<1>11. ASSUME NEW p \in Publishers, pc'[p] \in Reloading \cup {"reload"}
       PROVE  saved'[p] <= row'[of'[p]].stamp
  <2>1. CASE saved'[p] = saved[p] /\ pc[p] \in Reloading \cup {"reload"}
    <3>1. saved[p] <= row[of[p]].stamp
      BY <2>1 DEF Reached
    <3> QED
      BY <1>1, <1>3, <1>4, <1>6, <1>7, <1>11, <2>1, <3>1 DEF PublisherMoves
  <2>2. CASE saved'[p] = row'[of[p]].stamp
    BY <1>1, <1>3, <1>6, <1>7, <1>11, <2>2 DEF PublisherMoves
  <2> QED
    BY <1>1, <1>11, <2>1, <2>2 DEF PublisherMoves
<1>12. ASSUME NEW p \in Publishers, pc'[p] \in Reloading
       PROVE  /\ of'[p] = of[p] /\ saved'[p] = saved[p]
              /\ \/ pc[p] \in Reloading /\ target'[p] = target[p]
                 \/ pc[p] = "reload" /\ target'[p] = cache'[of[p]] /\ cache'[of[p]] # None
  <2>1. of'[p] = of[p] /\ saved'[p] = saved[p] /\ pc[p] \in Reloading \cup {"reload"}
    BY <1>1, <1>12 DEF PublisherMoves, Reloading, Holding
  <2>2. RequestMoves(p) /\ pc'[p] \in Aimed
    BY <1>1, <1>7, <1>12 DEF Reloading, Aimed
  <2> QED
    BY <2>1, <2>2 DEF RequestMoves, Reloading, Aimed, Holding
<1>13. ASSUME NEW p \in Publishers, pc'[p] \in Reloading
       PROVE  cache'[of'[p]] # None
  <2>1. CASE pc[p] \in Reloading
    <3>1. cache[of[p]] # None
      BY <2>1 DEF Reached
    <3> QED
      BY <1>1, <1>6, <1>7, <1>12, <1>13, <3>1, NoneAssumption DEF SharedMoves
  <2> QED
    BY <1>12, <1>13, <2>1
<1>14. ASSUME NEW p \in Publishers, pc'[p] \in Reloading, NEW l \in Loaders, l = cache'[of'[p]],
              l # target'[p], NEW s \in Nat, s = saved'[p]
       PROVE  AtLeast(l, s)'
  <2>1. /\ of'[p] = of[p] /\ saved'[p] = saved[p] /\ target'[p] = target[p] /\ of[p] \in Apps
        /\ pc[p] \in Reloading
    BY <1>6, <1>7, <1>12, <1>14
  <2>2. CASE l = cache[of[p]]
    <3>1. AtLeast(l, s) /\ s <= row[of[p]].stamp
      BY <1>14, <2>1, <2>2 DEF Reached
    <3>2. \A q \in Procs : pc[q] = "query" /\ target[q] = l => of[q] = of[p]
      BY <2>1, <2>2 DEF Structure, OneApp, Aimed, Holding
    <3>3. \A q \in Procs : pc[q] = "query" /\ target[q] = l => row[of[q]].stamp >= s
      BY <1>3, <2>1, <3>1, <3>2
    <3> QED
      BY <1>1, <3>1, <3>3, AtLeastKept
  <2>3. CASE l \in Loaders \ used
    BY <1>1, <2>3, NewLoader
  <2> QED
    BY <1>1, <1>14, <2>1, <2>2, <2>3 DEF SharedMoves
<1>15. ASSUME NEW p \in Publishers, pc'[p] \in Building PROVE built'[p].own >= saved'[p]
  <2>1. target'[p] \in Loaders /\ saved'[p] = saved[p]
    BY <1>2, <1>7, <1>12, <1>15
    DEF Structure, Labelled, TypeOK, Aimed, Holding, Building, Reloading
  <2>2. CASE pc[p] \in Building /\ built'[p].own = built[p].own
    BY <2>1, <2>2 DEF Reached
  <2>3. CASE pc[p] = "query" /\ built'[p].own = row[of[p]].stamp
    <3>1. saved[p] <= row[of[p]].stamp
      BY <2>3 DEF Reached, Reloading, Holding
    <3> QED
      BY <1>3, <1>4, <1>6, <1>7, <2>1, <2>3, <3>1
  <2> QED
    BY <1>1, <1>7, <1>15, <2>1, <2>2, <2>3 DEF LoaderMoves
<1>16. ASSUME NEW p \in Publishers, pc'[p] = "unlock"
       PROVE  app'[target'[p]] # None /\ app'[target'[p]].own >= saved'[p]
  <2>1. /\ saved'[p] = saved[p] /\ target'[p] = target[p] /\ target[p] \in Loaders
    <3>1. pc'[p] \in Reloading /\ pc'[p] \in Aimed /\ pc'[p] \notin {"lock", "return"}
      BY <1>16 DEF Reloading, Aimed, Holding
    <3>2. target'[p] \in Loaders
      BY <1>2, <1>7, <3>1 DEF Structure, Labelled, TypeOK
    <3>3. target'[p] = target[p]
      BY <1>1, <1>7, <1>12, <3>1 DEF RequestMoves
    <3> QED
      BY <1>12, <3>1, <3>2, <3>3
  <2>2. CASE pc[p] = "unlock"
    <3>1. \A q \in Procs : q # p /\ pc[q] \in Holding => target[q] # target[p]
      BY <1>7, <2>2 DEF Structure, Mutex, Holding
    <3>2. app'[target[p]] = app[target[p]]
      BY <1>1, <2>1, <2>2, <3>1 DEF LoaderMoves, Holding
    <3> QED
      BY <2>1, <2>2, <3>2 DEF Reached
  <2>3. CASE pc[p] # "unlock"
    <3>1. pc[p] = "install" /\ app'[target[p]].own = built[p].own /\ app'[target[p]] # None
      BY <1>1, <1>16, <2>3 DEF PublisherMoves
    <3> QED
      BY <2>1, <3>1 DEF Reached, Building
  <2> QED
    BY <2>2, <2>3

\* Gets.
<1>17. ASSUME NEW g \in Getters, pc'[g] # "idle" PROVE floor'[g] <= finished'[of'[g]]
  <2>1. CASE pc[g] = "idle" /\ floor'[g] = finished[of'[g]]
    BY <1>3, <1>6, <1>8, <2>1
  <2>2. CASE pc[g] # "idle" /\ floor'[g] = floor[g] /\ of'[g] = of[g]
    <3>1. floor[g] <= finished[of[g]]
      BY <2>2 DEF Reached
    <3> QED
      BY <1>3, <1>5, <1>6, <1>8, <2>2, <3>1
  <2> QED
    BY <1>1, <1>17, <2>1, <2>2 DEF GetterMoves
<1>18. ASSUME NEW g \in Getters, pc'[g] \in Aimed, NEW l \in Loaders, l = target'[g],
              NEW s \in Nat, s = floor'[g]
       PROVE  AtLeast(l, s)'
  <2>1. pc'[g] # "idle" /\ of[g] \in Apps /\ of'[g] \in Apps
    BY <1>6, <1>8, <1>18 DEF Aimed, Holding
  <2>2. CASE pc[g] \in Aimed /\ target'[g] = target[g] /\ of'[g] = of[g]
    <3>1. floor'[g] = floor[g] /\ pc[g] # "idle"
      BY <1>1, <2>1, <2>2 DEF GetterMoves, Aimed, Holding
    <3>2. AtLeast(l, s) /\ s <= finished[of[g]]
      BY <1>18, <2>2, <3>1 DEF Reached
    <3>3. finished[of[g]] <= row[of[g]].stamp
      BY <2>1 DEF Reached
    <3>4. \A q \in Procs : pc[q] = "query" /\ target[q] = l => of[q] = of[g]
      BY <1>8, <1>18, <2>2 DEF SameApp, Aimed, Holding
    <3>5. \A q \in Procs : pc[q] = "query" /\ target[q] = l => row[of[q]].stamp >= s
      BY <1>3, <2>1, <3>2, <3>3, <3>4
    <3> QED
      BY <1>1, <3>2, <3>5, AtLeastKept
  <2>3. CASE target'[g] = cache'[of'[g]]
    <3>1. AtLeast(l, finished[of[g]])' /\ s <= finished'[of'[g]]
      BY <1>3, <1>10, <1>17, <1>18, <2>1, <2>3 DEF AtLeast
    <3> QED
      BY <1>2, <1>3, <1>18, <2>1, <2>3, <3>1 DEF AtLeast, TypeOK, Application, Procs
  <2> QED
    BY <1>1, <1>8, <1>18, <2>2, <2>3 DEF RequestMoves
<1>19. /\ \A a \in Apps : cache'[a] # None => cache'[a] \in Loaders
       /\ \A p \in Procs : pc'[p] \in Aimed => target'[p] \in Loaders
  BY <1>2 DEF TypeOK, Structure, Labelled
<1>20. \A a \in Apps : /\ finished'[a] <= row'[a].stamp
                       /\ cache'[a] # None => AtLeast(cache[a], finished[a])'
  BY <1>3, <1>9, <1>10, <1>19 DEF AtLeast
<1>21. \A p \in Publishers : pc'[p] \in Reloading /\ cache'[of'[p]] # target'[p]
                               => AtLeast(cache[of[p]], saved[p])'
  BY <1>4, <1>6, <1>7, <1>13, <1>14, <1>19 DEF AtLeast
<1>22. \A g \in Getters : pc'[g] \in Aimed => AtLeast(target[g], floor[g])'
  BY <1>5, <1>8, <1>18, <1>19 DEF AtLeast
<1> QED
  BY <1>11, <1>13, <1>15, <1>16, <1>17, <1>20, <1>21, <1>22 DEF Reached

-----------------------------------------------------------------------------
(* A server that starts, and starts again, and the theorems. *)

\* A server that starts again holds the system application alone, as it is in
\* the row.
LEMMA RestartHistory ==
  ASSUME TypeOK, Structure, Reached, Restart
  PROVE  (StampsAscend /\ SystemAscends /\ Reached)'
<1>1. PICK l \in Loaders :
        /\ cache' = [a \in Apps |-> IF a = SystemApp THEN l ELSE None]
        /\ app' = [k \in Loaders |->
             IF k = l THEN [own |-> row[SystemApp].stamp, system |-> row[SystemApp].stamp]
             ELSE None]
  BY DEF Restart
<1>2. /\ \A p \in Procs : pc'[p] = "idle"
      /\ UNCHANGED <<row, finished>>
  BY DEF Restart, database
<1>3. \A a \in Apps : row[a].stamp \in Nat /\ finished[a] \in Nat /\ finished[a] <= row[a].stamp
  BY DEF TypeOK, Row, Reached
<1>4. /\ \A p \in Procs : p \in Getters \cup Publishers
      /\ Getters \subseteq Procs /\ Publishers \subseteq Procs
  BY DEF Procs
<1>5. app'[l].own = row[SystemApp].stamp /\ app'[l].system = row[SystemApp].stamp
  BY <1>1
<1>6. cache'[SystemApp] = l /\ \A a \in Apps \ {SystemApp} : cache'[a] = None
  BY <1>1, SystemAppAssumption
<1>7. StampsAscend'
  BY <1>2, <1>3, <1>5, <1>6, SystemAppAssumption
  DEF StampsAscend, AtMost, Aimed, Holding, Building
<1>8. SystemAscends'
  BY <1>1, <1>2, <1>3, <1>5, <1>6, SystemAppAssumption DEF SystemAscends
<1>9. Reached'
  <2>1. \A a \in Apps : /\ finished'[a] <= row'[a].stamp
                        /\ cache'[a] # None => AtLeast(cache[a], finished[a])'
    BY <1>2, <1>3, <1>5, <1>6, SystemAppAssumption DEF AtLeast, Building
  <2> QED
    BY <1>2, <1>4, <2>1 DEF Reached, Reloading, Aimed, Holding, Building
<1> QED
  BY <1>7, <1>8, <1>9

LEMMA InitHistory == Init => HistoryInv
<1> SUFFICES ASSUME Init PROVE HistoryInv
  OBVIOUS
<1> USE SystemAppAssumption, NoneAssumption
<1>1. PICK l \in Loaders : Started(l)
  BY DEF Init
<1>2. /\ \A p \in Procs : pc[p] = "idle"
      /\ \A p \in Procs : p \in Getters \cup Publishers
      /\ Getters \subseteq Procs /\ Publishers \subseteq Procs
  BY DEF Init, Procs
<1>3. /\ cache[SystemApp] = l /\ \A a \in Apps \ {SystemApp} : cache[a] = None
      /\ used = {l} /\ app[l] = Nothing /\ \A k \in Loaders \ {l} : app[k] = None
  BY <1>1 DEF Started
<1>4. Nothing.own = 0 /\ Nothing.system = 0 /\ Nothing # None
  BY DEF Nothing, Application
<1>5. PublishOrder
  BY <1>2 DEF PublishOrder, Underway
<1>6. PublishedIsMigrated
  BY DEF Init, PublishedIsMigrated
<1>7. SameApp /\ EmptyMeansDeleted
  BY <1>2, <1>3, <1>4 DEF SameApp, EmptyMeansDeleted, Aimed, Holding
<1>8. StampsAscend
  <2>1. \A a \in Apps : row[a].stamp = 0
    BY DEF Init
  <2> QED
    BY <1>2, <1>3, <1>4, <2>1 DEF StampsAscend, AtMost, Aimed, Holding, Building
<1>9. SystemAscends
  BY <1>2, <1>3, <1>4 DEF SystemAscends
<1>10. Reached
  <2>1. \A a \in Apps : row[a].stamp = 0 /\ finished[a] = 0
    BY DEF Init
  <2> QED
    BY <1>2, <1>3, <1>4, <2>1 DEF Reached, AtLeast, Reloading, Aimed, Holding, Building
<1> QED
  BY <1>5, <1>6, <1>7, <1>8, <1>9, <1>10 DEF HistoryInv

LEMMA HistoryStep == IInv /\ HistoryInv /\ [Next]_vars => HistoryInv'
<1> SUFFICES ASSUME IInv, HistoryInv, [Next]_vars PROVE HistoryInv'
  OBVIOUS
<1>1. TypeOK /\ Structure
  BY DEF IInv, LoaderInv, Structure
<1>2. (PublishOrder /\ PublishedIsMigrated)'
  BY <1>1, MigratedStep DEF HistoryInv
<1>3. SameApp' /\ EmptyMeansDeleted'
  BY <1>1, SameAppStep, EmptyStep DEF HistoryInv
<1>4. StampsAscend' /\ SystemAscends' /\ Reached'
  <2>1. CASE Restart
    BY <1>1, <2>1, RestartHistory DEF HistoryInv
  <2>2. CASE ~ Restart
    BY <1>1, <2>2, StampsStep, MergedStep, ReachedStep DEF HistoryInv
  <2> QED
    BY <2>1, <2>2
<1> QED
  BY <1>2, <1>3, <1>4 DEF HistoryInv

\* The inductive invariant behind the theorems below: who a loader is for, how
\* far its stamp is, and which publish is between its migration and its save.
THEOREM CacheHistory == Spec => [](IInv /\ HistoryInv)
<1>1. IInv /\ HistoryInv /\ [Next]_vars => (IInv /\ HistoryInv)'
  BY StepInv, HistoryStep
<1>2. Init => IInv /\ HistoryInv
  BY InitInv, InitHistory
<1> QED
  BY <1>1, <1>2, PTL DEF Spec

\* When no publish (publish.go) is under way and none overlapped another,
\* failed or died, the published model is the one the tables were migrated to,
\* whatever users edit between the migration and the save.
THEOREM TablesArePublished == Spec => []PublishedIsMigrated
<1>1. HistoryInv => PublishedIsMigrated
  BY DEF HistoryInv
<1> QED
  BY <1>1, CacheHistory, PTL

\* A Get (app.go) never returns an application older than the last publish that
\* had finished when it was called, on a replaced loader neither.
THEOREM GetIsFresh == Spec => []GetIsNotStale
<1>1. IInv /\ HistoryInv => GetIsNotStale
  BY DEF IInv, LoaderInv, HistoryInv, Reached, GetIsNotStale, AtLeast, Aimed
<1> QED
  BY <1>1, CacheHistory, PTL

\* A Get returns nil only for an application whose row is gone: a reload never
\* shows readers, who do not take the mutex, an empty loader.
THEOREM NilIsDeleted == Spec => []NilMeansDeleted
<1>1. IInv /\ HistoryInv => NilMeansDeleted
  BY DEF HistoryInv, EmptyMeansDeleted, NilMeansDeleted, Aimed, Procs
<1> QED
  BY <1>1, CacheHistory, PTL

\* While a server runs, no load (AppLoader.load) puts an older application, or
\* one with an older system model merged in, in the place of a newer one.
THEOREM LoadersAscend == Spec => NeverGoesBack
<1>1. ASSUME IInv, HistoryInv, [Next]_vars, restarts' = restarts,
             NEW l \in Loaders, app[l] # None, app'[l] # None
      PROVE  app'[l].own >= app[l].own /\ app'[l].system >= app[l].system
  <2>1. TypeOK /\ Structure
    BY <1>1 DEF IInv, LoaderInv, Structure
  <2>2. ~ Restart
    BY <1>1, <2>1 DEF Restart, TypeOK
  <2>3. app'[l].own >= app[l].own
    BY <1>1, <2>1, <2>2, OwnAscends DEF HistoryInv
  <2>4. app[l].own \in Nat /\ app[l].system \in Nat
    BY <1>1, <2>1 DEF TypeOK, Application
  <2>5. CASE app'[l] = app[l]
    BY <2>4, <2>5
  <2>6. CASE app'[l] # app[l]
    <3>1. PICK p \in Procs : Install(p) /\ target[p] = l
      <4>1. CASE \E p \in Procs : Load(p)
        BY <1>1, <2>1, <2>6, <4>1 DEF Load, Lock, Query, LoadFails, LoadPanics, MergeSystemModel, Install, Unlock,
           loaders, TypeOK
      <4>2. CASE UNCHANGED app
        BY <2>6, <4>2
      <4> QED
        BY <1>1, <2>2, <4>1, <4>2 DEF Next, vars, Get, Publish, Lookup, StoreLoader, Return,
           StartPublish, Migrate, MigrateFails, SaveRow, SaveFails, ReLoad, Edit, DeleteApp,
           loaders, Procs
    <3>2. pc[p] = "install" /\ pc[p] \in Aimed
      BY <3>1 DEF Install, Aimed, Holding
    <3>3. built[p].own \in Nat /\ built[p].system \in Nat
      BY <2>1 DEF TypeOK, Application
    <3>4. CASE of[p] = SystemApp
      <4>1. app'[l].system = built[p].own /\ app[l].own <= built[p].own
        BY <1>1, <2>1, <3>1, <3>2, <3>4 DEF Install, HistoryInv, StampsAscend, Building, TypeOK
      <4>2. app[l].system <= app[l].own
        BY <1>1, <3>1, <3>2, <3>4 DEF HistoryInv, SameApp, SystemAscends
      <4>3. app'[l].system \in Nat
        BY <3>3, <4>1
      <4> QED
        BY <2>3, <2>4, <3>3, <4>1, <4>2, <4>3
    <3>5. CASE of[p] # SystemApp
      <4>1. app'[l].system = built[p].system
        BY <2>1, <3>1, <3>5 DEF Install, TypeOK
      <4>2. app[l].system <= built[p].system
        BY <1>1, <3>1, <3>2, <3>5 DEF HistoryInv, SystemAscends
      <4> QED
        BY <2>3, <2>4, <3>3, <4>1, <4>2
    <3> QED
      BY <3>4, <3>5
  <2> QED
    BY <2>3, <2>5, <2>6
<1>2. IInv /\ HistoryInv /\ [Next]_vars =>
        [\A l \in Loaders :
           (restarts' = restarts /\ app[l] # None /\ app'[l] # None) =>
              app'[l].own >= app[l].own /\ app'[l].system >= app[l].system]_vars
  BY <1>1
<1> QED
  BY <1>2, CacheHistory, PTL DEF Spec, NeverGoesBack

=============================================================================
