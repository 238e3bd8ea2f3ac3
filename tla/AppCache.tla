------------------------------ MODULE AppCache ------------------------------
(***************************************************************************)
(* The applications a server has in memory (modules/app/app.go): requests  *)
(* obtain an application with Get, which loads it on first use, and        *)
(* App.Publish (modules/app/publish.go) reloads it after it has saved the  *)
(* row.  Get looks the cache up and stores a new loader in two steps, so   *)
(* two requests can each create a loader of one application; a loader      *)
(* loads under its own mutex.                                              *)
(*                                                                         *)
(* Versions are numbers.  A row holds the version of the model users edit  *)
(* (meta), the version that is published and a stamp that grows with each  *)
(* publish; a loaded application remembers the stamp it was built from     *)
(* and the stamp of the system application merged into it.  Migration      *)
(* describes the DDL that is one step, Migrate, here.                      *)
(***************************************************************************)
EXTENDS Integers, FiniteSets

CONSTANTS Apps,        \* applications
          SystemApp,   \* meta.SYSTEM_APP_ID
          Getters,     \* requests that call Get
          Publishers,  \* requests that call Publish
          Loaders,     \* bound: loaders created since the server started
          None,        \* no loader, no process, nil application
          MaxEdits, MaxPublishes, MaxRestarts   \* bounds

Application == [own : Nat, system : Nat]

ASSUME SystemAppAssumption == SystemApp \in Apps
ASSUME ProcessAssumption == Getters \cap Publishers = {}
ASSUME NoneAssumption == /\ None \notin Loaders \cup Getters \cup Publishers
                         /\ None \notin Application
ASSUME BoundsAssumption == MaxEdits \in Nat /\ MaxPublishes \in Nat /\ MaxRestarts \in Nat

Procs == Getters \cup Publishers

VARIABLES
  row,        \* the app table: [exists, meta, published, stamp] per app
  schema,     \* the model version the tables of an app were last migrated to
  cache,      \* appLoaderCache
  used,       \* loaders created so far
  loaded,     \* AppLoader.loaded
  app,        \* AppLoader.app: None or [own, system]
  owner,      \* who holds the loader's mutex
  pc, of, target,  \* per process: control, application, loader
  snapshot,   \* publisher: meta in the row as it was read
  built,      \* the application a load is building
  floor,      \* history: stamp of the last publish finished before the Get
  finished,   \* history: stamp of the last finished publish of an app
  saved,      \* history, publisher: the stamp it saved
  disturbed,  \* history: publishes of the app overlapped, failed or died
  missed,     \* history: stamps of the app whose publish panicked in its reload
  restarts

database == <<row, schema>>
loaders == <<cache, used, loaded, app, owner>>
locals == <<of, target, snapshot, built>>
history == <<floor, finished, saved, disturbed, missed>>
vars == <<database, loaders, pc, locals, history, restarts>>

\* Mutant: ReLoad calls load(false).
NeverForced(p) == FALSE

Forced(p) == p \in Publishers
Nothing == [own |-> 0, system |-> 0]

\* A freshly started server: init() has loaded the system application.
Started(l) ==
  /\ cache = [a \in Apps |-> IF a = SystemApp THEN l ELSE None]
  /\ used = {l}
  /\ loaded = [k \in Loaders |-> k = l]
  /\ app = [k \in Loaders |-> IF k = l THEN Nothing ELSE None]

Init ==
  /\ row = [a \in Apps |-> [exists |-> TRUE, meta |-> 0, published |-> 0, stamp |-> 0]]
  /\ schema = [a \in Apps |-> 0]
  /\ \E l \in Loaders : Started(l)
  /\ owner = [l \in Loaders |-> None]
  /\ pc = [p \in Procs |-> "idle"]
  /\ of = [p \in Procs |-> SystemApp]
  /\ target = [p \in Procs |-> None]
  /\ snapshot = [p \in Publishers |-> 0]
  /\ built = [p \in Procs |-> Nothing]
  /\ floor = [g \in Getters |-> 0] /\ finished = [a \in Apps |-> 0]
  /\ saved = [p \in Publishers |-> 0] /\ disturbed = {} /\ missed = [a \in Apps |-> {}]
  /\ restarts = 0

Goto(p, label) == pc' = [pc EXCEPT ![p] = label]
Aim(p, l) == target' = [target EXCEPT ![p] = l]

\* Mutant: a request that ends belongs to no application.
EndNowhere(p) ==
  /\ Goto(p, "idle") /\ Aim(p, None)
  /\ of' = [of EXCEPT ![p] = None]
  /\ built' = [built EXCEPT ![p] = Nothing]

\* A request that ends forgets its local variables.
End(p) ==
  /\ Goto(p, "idle") /\ Aim(p, None)
  /\ of' = [of EXCEPT ![p] = SystemApp]
  /\ built' = [built EXCEPT ![p] = Nothing]

-----------------------------------------------------------------------------
(* Get *)

\* appLoaderCache.Load, and the unlocked read of loaded when there is one.
Lookup(g, a) ==
  /\ pc[g] = "idle"
  /\ of' = [of EXCEPT ![g] = a]
  /\ floor' = [floor EXCEPT ![g] = finished[a]]
  /\ Aim(g, cache[a])
  /\ Goto(g, IF cache[a] = None THEN "miss"
             ELSE IF loaded[cache[a]] THEN "return" ELSE "lock")
  /\ UNCHANGED <<database, loaders, snapshot, built, finished, saved, disturbed, missed, restarts>>

\* A new loader replaces whatever another request stored in the meantime.
StoreLoader(g) ==
  /\ pc[g] = "miss"
  /\ \E l \in Loaders \ used :
       /\ used' = used \cup {l}
       /\ cache' = [cache EXCEPT ![of[g]] = l]
       /\ Aim(g, l)
  /\ Goto(g, "lock")
  /\ UNCHANGED <<database, loaded, app, owner, of, snapshot, built, history, restarts>>

\* return result.(*AppLoader).app
Return(g) ==
  /\ pc[g] = "return"
  /\ End(g) /\ floor' = [floor EXCEPT ![g] = 0]
  /\ UNCHANGED <<database, loaders, snapshot, finished, saved, disturbed, missed, restarts>>

-----------------------------------------------------------------------------
(* AppLoader.load, by a Get (force = false) or a Publish (force = true) *)

\* History: the publish that saved this stamp has finished.
Finish(p) ==
  finished' = [finished EXCEPT ![of[p]] = IF saved[p] > @ THEN saved[p] ELSE @]

\* Mutant: load does not take the mutex.
LockFree(p) ==
  /\ pc[p] = "lock"
  /\ owner' = [owner EXCEPT ![target[p]] = p]
  /\ Goto(p, IF ~ loaded[target[p]] \/ Forced(p) THEN "query" ELSE "unlock")
  /\ UNCHANGED <<database, cache, used, loaded, app, locals, history, restarts>>

Lock(p) ==
  /\ pc[p] = "lock" /\ owner[target[p]] = None
  /\ owner' = [owner EXCEPT ![target[p]] = p]
  /\ Goto(p, IF ~ loaded[target[p]] \/ Forced(p) THEN "query" ELSE "unlock")
  /\ UNCHANGED <<database, cache, used, loaded, app, locals, history, restarts>>

\* Mutant: the old application is dropped before the row is read.
QueryClears(p) ==
  /\ pc[p] = "query" /\ row[of[p]].exists
  /\ built' = [built EXCEPT ![p] = [own |-> row[of[p]].stamp, system |-> 0]]
  /\ app' = [app EXCEPT ![target[p]] = None]
  /\ Goto(p, IF of[p] = SystemApp THEN "install" ELSE "merge")
  /\ UNCHANGED <<database, cache, used, loaded, owner, of, target, snapshot, history, restarts>>

\* NewApp reads the row; an application that is not the system application is
\* merged with the system application as it is cached at that moment.
Query(p) ==
  /\ pc[p] = "query" /\ row[of[p]].exists
  /\ built' = [built EXCEPT ![p] = [own |-> row[of[p]].stamp, system |-> 0]]
  /\ Goto(p, IF of[p] = SystemApp THEN "install" ELSE "merge")
  /\ UNCHANGED <<database, loaders, of, target, snapshot, history, restarts>>

\* Mutant: a load that fails is tried again, under the mutex.
LoadFailsAgain(p) ==
  /\ pc[p] = "query" /\ ~ row[of[p]].exists
  /\ app' = [app EXCEPT ![target[p]] = None]
  /\ UNCHANGED <<database, cache, used, loaded, owner, pc, locals, history, restarts>>

\* The row is gone: NewApp returns nil, l.app becomes nil, load panics, and the
\* deferred Unlock runs.  loaded keeps its value.
LoadFails(p) ==
  /\ pc[p] = "query" /\ ~ row[of[p]].exists
  /\ app' = [app EXCEPT ![target[p]] = None]
  /\ owner' = [owner EXCEPT ![target[p]] = None]
  /\ End(p)
  /\ UNCHANGED <<database, cache, used, loaded, snapshot, history, restarts>>

\* The load panics for another reason: the SELECT fails, the content does not
\* decode, model.New or schema.New panics.  l.app and loaded keep their values
\* and the deferred Unlock runs; a publish that reloads has saved its row, ends
\* here, and nobody reloads in its place.
LoadPanics(p) ==
  /\ pc[p] \in {"query", "merge", "install"}
  /\ owner' = [owner EXCEPT ![target[p]] = None]
  /\ missed' = IF p \in Publishers THEN [missed EXCEPT ![of[p]] = @ \cup {saved[p]}] ELSE missed
  /\ End(p)
  /\ UNCHANGED <<database, cache, used, loaded, app, snapshot, floor, finished, saved,
                 disturbed, restarts>>

\* MergeSystemModel(GetSystemApp()): the system application is loaded from the
\* start, so its loader is read without its mutex, during a reload too.
MergeSystemModel(p) ==
  /\ pc[p] = "merge"
  /\ built' = [built EXCEPT ![p] = [own |-> built[p].own,
                                    system |-> app[cache[SystemApp]].own]]
  /\ Goto(p, "install")
  /\ UNCHANGED <<database, loaders, of, target, snapshot, history, restarts>>

Install(p) ==
  /\ pc[p] = "install"
  /\ app' = [app EXCEPT ![target[p]] =
       IF of[p] = SystemApp THEN [own |-> built[p].own, system |-> built[p].own]
       ELSE built[p]]
  /\ loaded' = [loaded EXCEPT ![target[p]] = TRUE]
  /\ Goto(p, "unlock")
  /\ UNCHANGED <<database, cache, used, owner, locals, history, restarts>>

Unlock(p) ==
  /\ pc[p] = "unlock"
  /\ owner' = [owner EXCEPT ![target[p]] = None]
  /\ IF p \in Publishers THEN End(p) /\ Finish(p)
     ELSE Goto(p, "return") /\ UNCHANGED <<of, target, built, finished>>
  /\ UNCHANGED <<database, cache, used, loaded, app, snapshot, floor, saved, disturbed, missed, restarts>>

-----------------------------------------------------------------------------
(* Publish *)

Publishing(a) == { p \in Publishers : pc[p] \in {"migrate", "save"} /\ of[p] = a }

\* The whole row is read; a publish of a missing row panics at once.
StartPublish(p, a) ==
  /\ pc[p] = "idle" /\ row[a].exists
  /\ row[a].stamp + Cardinality(Publishing(a)) < MaxPublishes
  /\ of' = [of EXCEPT ![p] = a]
  /\ snapshot' = [snapshot EXCEPT ![p] = row[a].meta]
  /\ disturbed' = IF Publishing(a) # {} THEN disturbed \cup {a} ELSE disturbed
  /\ Goto(p, "migrate")
  /\ UNCHANGED <<database, loaders, target, built, floor, finished, saved, missed, restarts>>

Migrate(p) ==
  /\ pc[p] = "migrate"
  /\ schema' = [schema EXCEPT ![of[p]] = snapshot[p]]
  /\ Goto(p, "save")
  /\ UNCHANGED <<row, loaders, locals, history, restarts>>

MigrateFails(p) ==
  /\ pc[p] = "migrate"
  /\ \E v \in {schema[of[p]], snapshot[p]} : schema' = [schema EXCEPT ![of[p]] = v]
  /\ disturbed' = disturbed \cup {of[p]}
  /\ End(p)
  /\ UNCHANGED <<row, loaders, snapshot, floor, finished, saved, missed, restarts>>

\* Mutant: publishes the meta the row has now, not the one that was migrated.
SaveRowCurrent(p) ==
  /\ pc[p] = "save" /\ row[of[p]].exists
  /\ LET s == row[of[p]].stamp + 1 IN
     /\ row' = [row EXCEPT ![of[p]] = [exists |-> TRUE, meta |-> row[of[p]].meta,
                                       published |-> row[of[p]].meta, stamp |-> s]]
     /\ saved' = [saved EXCEPT ![p] = s]
  /\ Goto(p, "reload")
  /\ UNCHANGED <<schema, loaders, locals, floor, finished, disturbed, missed, restarts>>

\* SaveOne writes the row as it was read, meta included, with publishedMeta
\* replaced by it.
SaveRow(p) ==
  /\ pc[p] = "save" /\ row[of[p]].exists
  /\ LET s == row[of[p]].stamp + 1 IN
     /\ row' = [row EXCEPT ![of[p]] = [exists |-> TRUE, meta |-> snapshot[p],
                                       published |-> snapshot[p], stamp |-> s]]
     /\ saved' = [saved EXCEPT ![p] = s]
  /\ Goto(p, "reload")
  /\ UNCHANGED <<schema, loaders, locals, floor, finished, disturbed, missed, restarts>>

\* The update of a missing row panics; any other error of the save does too.
SaveFails(p) ==
  /\ pc[p] = "save"
  /\ disturbed' = disturbed \cup {of[p]}
  /\ End(p)
  /\ UNCHANGED <<database, loaders, snapshot, floor, finished, saved, missed, restarts>>

\* ReLoad looks the loader up, as Get does, and loads it by force.
ReLoad(p) ==
  /\ pc[p] = "reload"
  /\ IF cache[of[p]] = None
     THEN End(p) /\ Finish(p)
     ELSE /\ Aim(p, cache[of[p]]) /\ Goto(p, "lock")
          /\ UNCHANGED <<of, built, finished>>
  /\ UNCHANGED <<database, loaders, snapshot, floor, saved, disturbed, missed, restarts>>

-----------------------------------------------------------------------------
(* The environment *)

\* A user saves the model in the editor: only meta is written.
Edit(a) ==
  /\ row[a].exists /\ row[a].meta < MaxEdits
  /\ row' = [row EXCEPT ![a].meta = @ + 1]
  /\ UNCHANGED <<schema, loaders, pc, locals, history, restarts>>

\* A user deletes an application; the cache is not told.
DeleteApp(a) ==
  /\ a # SystemApp /\ row[a].exists
  /\ row' = [row EXCEPT ![a].exists = FALSE]
  /\ UNCHANGED <<schema, loaders, pc, locals, history, restarts>>

\* The server dies and starts again with an empty cache; init() loads the
\* system application.
Restart ==
  /\ restarts < MaxRestarts /\ restarts' = restarts + 1
  /\ \E l \in Loaders :
       LET s == row[SystemApp].stamp IN
       /\ cache' = [a \in Apps |-> IF a = SystemApp THEN l ELSE None]
       /\ used' = {l}
       /\ loaded' = [k \in Loaders |-> k = l]
       /\ app' = [k \in Loaders |-> IF k = l THEN [own |-> s, system |-> s] ELSE None]
  /\ owner' = [l \in Loaders |-> None]
  /\ pc' = [p \in Procs |-> "idle"] /\ of' = [p \in Procs |-> SystemApp]
  /\ target' = [p \in Procs |-> None] /\ built' = [p \in Procs |-> Nothing]
  /\ floor' = [g \in Getters |-> 0]
  /\ disturbed' = disturbed \cup { a \in Apps : Publishing(a) # {} }
  /\ missed' = [a \in Apps |-> {}]
  /\ UNCHANGED <<database, snapshot, finished, saved>>

Load(p) == \/ Lock(p) \/ Query(p) \/ LoadFails(p) \/ LoadPanics(p)
           \/ MergeSystemModel(p) \/ Install(p) \/ Unlock(p)
Get(g) == (\E a \in Apps : Lookup(g, a)) \/ StoreLoader(g) \/ Load(g) \/ Return(g)
Publish(p) == \/ \E a \in Apps : StartPublish(p, a)
              \/ Migrate(p) \/ MigrateFails(p) \/ SaveRow(p) \/ SaveFails(p)
              \/ ReLoad(p) \/ Load(p)

Next ==
  \/ \E g \in Getters : Get(g)
  \/ \E p \in Publishers : Publish(p)
  \/ \E a \in Apps : Edit(a) \/ DeleteApp(a)
  \/ Restart

Spec == Init /\ [][Next]_vars

\* The scheduler runs every request that can run, and a Go mutex hands itself
\* to the waiter that waits longest.
Fairness == \A p \in Procs : /\ WF_vars(Query(p) \/ LoadFails(p) \/ MergeSystemModel(p)
                                        \/ Install(p) \/ Unlock(p))
                             /\ SF_vars(Lock(p))
                             /\ p \in Getters => WF_vars(StoreLoader(p) \/ Return(p))
FairSpec == Spec /\ Fairness
-----------------------------------------------------------------------------
Labels == {"idle", "miss", "lock", "query", "merge", "install", "unlock", "return",
           "migrate", "save", "reload"}
Row == [exists : BOOLEAN, meta : Nat, published : Nat, stamp : Nat]

TypeOK ==
  /\ row \in [Apps -> Row]
  /\ schema \in [Apps -> Nat]
  /\ cache \in [Apps -> Loaders \cup {None}] /\ used \subseteq Loaders
  /\ loaded \in [Loaders -> BOOLEAN]
  /\ app \in [Loaders -> Application \cup {None}]
  /\ owner \in [Loaders -> Procs \cup {None}]
  /\ pc \in [Procs -> Labels] /\ of \in [Procs -> Apps]
  /\ target \in [Procs -> Loaders \cup {None}]
  /\ snapshot \in [Publishers -> Nat]
  /\ built \in [Procs -> Application]
  /\ floor \in [Getters -> Nat] /\ finished \in [Apps -> Nat]
  /\ saved \in [Publishers -> Nat] /\ disturbed \subseteq Apps
  /\ missed \in [Apps -> SUBSET Nat]
  /\ restarts \in Nat

\* The publish that saved the row of application a, as it is now, has still to
\* read it back into loader l, or holds what it read.
ReloadPending(a, l) ==
  \E p \in Publishers : /\ of[p] = a /\ saved[p] = row[a].stamp
                         /\ \/ pc[p] = "reload"
                            \/ pc[p] \in {"lock", "query", "merge", "install"} /\ target[p] = l

\* The application that requests share is the published one, unless the publish
\* that saved the row has yet to reload it or panicked in that reload: neither a
\* load that started before the publish, nor two requests that create the loader
\* at once, nor another publish leave an older application in the cache.
CachedIsPublished ==
  \A a \in Apps : LET l == cache[a] IN
     (l # None /\ loaded[l] /\ app[l] # None) =>
        app[l].own = row[a].stamp \/ ReloadPending(a, l) \/ row[a].stamp \in missed[a]

\* A request never works on an application older than the last publish that
\* had finished when it called Get, even on a loader that has been replaced.
GetIsNotStale ==
  \A g \in Getters :
     (pc[g] = "return" /\ app[target[g]] # None) => app[target[g]].own >= floor[g]

\* A loader never goes back to an older application, nor to an older merged
\* system model, while the server runs.
NeverGoesBack ==
  [][\A l \in Loaders :
       (restarts' = restarts /\ app[l] # None /\ app'[l] # None) =>
          app'[l].own >= app[l].own /\ app'[l].system >= app[l].system]_vars

\* When no publish is under way and none ever overlapped another, failed or
\* died, the published model is the one the tables were migrated to, whatever
\* users edit meanwhile.
PublishedIsMigrated ==
  \A a \in Apps : (a \notin disturbed /\ Publishing(a) = {}) =>
     schema[a] = row[a].published

\* A request gets a nil application only of an application that users have
\* deleted: a reload, which runs while requests read the loader without its
\* mutex, never shows them the loader empty.
NilMeansDeleted ==
  \A g \in Getters :
     (pc[g] = "return" /\ app[target[g]] = None) => ~ row[of[g]].exists

\* Every Get ends: a load that panics gives the mutex back, and merging the
\* system application under the mutex of another one waits for nobody.
GetEnds == \A g \in Getters : pc[g] # "idle" ~> pc[g] = "idle"
=============================================================================
