---------------------------- MODULE Installation ----------------------------
(***************************************************************************)
(* The first installation (src/modules/install/install.go) and the start   *)
(* of a server (src/main.go, init of modules/app).  Installing creates     *)
(* tables and saves rows in transactions of their own; what a server knows *)
(* when it starts is only whether the table App exists.                    *)
(***************************************************************************)
EXTENDS Registry

VARIABLES created,      \* tables a request has created: its undo list
          interrupted   \* history: an install ended after its tables, before its end

installVars == <<created, interrupted>>

Installing(r) == Running(r) /\ pc[r] \in {"install", "insertApp", "saveAdmin", "setInstalled"}
HasTables(r) == pc[r] \in {"insertApp", "saveAdmin", "setInstalled"}

\* The next table of PublishMeta, which fails if the table exists.
CreateTable(r) ==
  /\ pc[r] = "install"
  /\ LET t == SystemTables[Cardinality(created[r]) + 1] IN
     /\ t \notin tables
     /\ tables' = tables \cup {t}
     /\ created' = [created EXCEPT ![r] = @ \cup {t}]
     /\ IF t = "User"
        THEN Goto(r, "insertApp") /\ owed' = {plan[r].user} \ {None}
        ELSE UNCHANGED <<pc, owed>>
  /\ UNCHANGED <<rows, password, server, plan, after, stage, seen, mixed, valid, interrupted>>

\* The table exists, or the statement fails: what was created is dropped.
CreateTableFails(r) ==
  /\ pc[r] = "install"
  /\ tables' = tables \ created[r]
  /\ created' = [created EXCEPT ![r] = {}]
  /\ End(r)
  /\ UNCHANGED <<rows, password, owed, server, plan, seen, mixed, valid, interrupted>>

\* InsertOne of the row of the system application, and the first Get.  Without a
\* name there is no administrator to save.
InsertApp(r) ==
  /\ pc[r] = "insertApp" /\ SystemApp \notin rows
  /\ rows' = rows \cup {SystemApp}
  /\ Goto(r, IF plan[r].user = None THEN "setInstalled" ELSE "saveAdmin")
  /\ UNCHANGED <<tables, password, owed, server, plan, after, stage, seen, mixed, valid, installVars>>

\* SaveOne of the administrator; saving the demo user changes nothing else.
SaveAdmin(r) ==
  /\ pc[r] = "saveAdmin"
  /\ password' = [password EXCEPT ![plan[r].user] = plan[r].new]
  /\ valid' = [q \in Requests |-> IF Running(q) /\ plan[q].user = plan[r].user
                                  THEN valid[q] \cup {plan[r].new} ELSE valid[q]]
  /\ Goto(r, "setInstalled")
  /\ UNCHANGED <<tables, rows, owed, server, plan, after, stage, seen, mixed, installVars>>

\* Mutant: app.Installed is set when the application's row is saved.
SetInstalledEarly(r) ==
  /\ pc[r] \in {"saveAdmin", "setInstalled"}
  /\ installed' = TRUE
  /\ IF pc[r] = "setInstalled" THEN End(r) ELSE UNCHANGED control
  /\ UNCHANGED <<database, up, moduleApp, event, plan, seen, mixed, valid, installVars>>

SetInstalled(r) ==
  /\ pc[r] = "setInstalled"
  /\ installed' = TRUE
  /\ End(r)
  /\ UNCHANGED <<database, up, moduleApp, event, plan, seen, mixed, valid, installVars>>

\* A save, or the read of the application, panics or returns an error.
InstallFails(r) ==
  /\ HasTables(r)
  /\ interrupted' = TRUE
  /\ End(r)
  /\ UNCHANGED <<database, server, plan, seen, mixed, valid, created>>

InstallResolve(r) == \/ CreateTable(r) \/ CreateTableFails(r) \/ InsertApp(r)
                     \/ SaveAdmin(r) \/ SetInstalled(r) \/ InstallFails(r)

\* The process ends, with every request in it; memory is lost.
Die ==
  /\ up
  /\ up' = FALSE /\ installed' = FALSE
  /\ moduleApp' = [m \in Singletons |-> None] /\ event' = [r \in Requests |-> 0]
  /\ pc' = [r \in Requests |-> IF Running(r) THEN "done" ELSE pc[r]]
  /\ interrupted' = (interrupted \/ \E r \in Requests :
                        Installing(r) /\ created[r] # {} /\ pc[r] # "setInstalled")
  /\ UNCHANGED <<database, plan, after, stage, seen, mixed, valid, created>>

\* checkMetaInstall.  Loading the system application, when there is a table for
\* it, panics if its row is missing: such a server does not start.
Start ==
  /\ ~ up
  /\ "App" \in tables => SystemApp \in rows
  /\ up' = TRUE /\ installed' = ("App" \in tables)
  /\ UNCHANGED <<database, moduleApp, event, plan, control, seen, mixed, valid, installVars>>

-----------------------------------------------------------------------------
InstallInit == created = [r \in Requests |-> {}] /\ interrupted = FALSE

InstallTypeOK == created \in [Requests -> SUBSET {"App", "User"}] /\ interrupted \in BOOLEAN

Whole == /\ tables = {"App", "User"} /\ SystemApp \in rows
         /\ \A u \in owed : password[u] # None

\* Unless an install was cut short between its tables and its end, a server
\* that says it is installed has all that install saves, the administrator if
\* it was given the name of one and no mutation has deleted it since; one that
\* says it is not has nothing, and of two installs at once one fails and changes
\* nothing.  Restarts may come at any other time.  Nobody deletes applications
\* here, or publishes a system application without these tables.
InstalledIsWhole ==
  (up /\ ~ interrupted) =>
     IF installed THEN Whole
     ELSE \/ \E r \in Requests : Installing(r)
          \/ tables = {} /\ rows = {} /\ \A u \in Users : password[u] = None
=============================================================================
