------------------------------ MODULE Registry ------------------------------
(***************************************************************************)
(* A request and its schema (src/modules/register/modules.go).  Every      *)
(* request builds a schema: each module, a singleton that all requests     *)
(* share, is initialised for the request and then asked for its fields.    *)
(* Requests run concurrently, so others initialise the same singletons in  *)
(* between; so does the goroutine of an event (notification/observer.go),  *)
(* which builds a schema for a request that may have ended long before.    *)
(* Snapshot and imexport read their singleton again when their fields are  *)
(* resolved.                                                               *)
(***************************************************************************)
EXTENDS Naturals, Sequences, FiniteSets

CONSTANTS Requests,
          Apps,          \* applications that may have a row
          SystemApp,
          Users,
          Passwords,
          None,          \* no application (AppId = 0), user, token, row
          Mixes          \* [installed, rows, password, plan]: plan[r].op = None if r is not sent

ASSUME AppsAssumption == SystemApp \in Apps /\ None \notin Apps
ASSUME UsersAssumption == None \notin Users \cup Passwords

\* The arguments of a request are there, because the schemas say NonNull; the
\* administrator of an install may be the empty name, here None, and a mutation
\* that saves a user without a new password deletes it.  A server that is
\* installed at the start was installed whole.
ASSUME MixesAssumption ==
  \A mix \in Mixes :
    /\ mix.installed \in BOOLEAN
    /\ mix.installed => /\ SystemApp \in mix.rows /\ mix.rows \subseteq Apps
                        /\ mix.password \in Passwords
    /\ \A r \in Requests : LET ask == mix.plan[r] IN
         /\ ask.app \in Apps \cup {None} /\ ask.user \in Users \cup {None}
         /\ ask.op \in {"login", "changePassword"} => ask.user \in Users /\ ask.password \in Passwords
         /\ ask.op \in {"install", "changePassword"} => ask.new \in Passwords
         /\ ask.op = "importApp" => ask.new \in Apps
         /\ ask.user # None => ask.new \in Passwords \cup {None}

VARIABLES
  up,          \* the server runs
  installed,   \* app.Installed
  moduleApp,   \* m.app of the singletons
  event,       \* the singleton the goroutine of a request's event is at, 0 for none
  tables,      \* system tables in the database
  rows,        \* applications with a row in the table App
  password,    \* of the users with a row in the table User
  owed,        \* history: users an install has to save, unless a mutation deletes them
  plan,        \* what each request asks for, chosen once
  pc,
  after,       \* where a request goes on when GetSchema returns
  stage,       \* its position in GetSchema
  offered,     \* the fields of its schema, with the application they are of
  used,        \* history: the applications it has worked with
  mixed,       \* history: applications others, or events, have put into a singleton meanwhile
  valid        \* history: passwords of its user that were valid meanwhile

database == <<tables, rows, password, owed>>
server == <<up, installed, moduleApp, event>>
control == <<pc, after, stage>>
seen == <<offered, used>>
registryVars == <<database, server, plan, control, seen, mixed, valid>>

Singletons == {"app", "imexport", "publish", "snapshot"}
InitOrder == <<"app", "imexport", "publish", "snapshot">>
SystemTables == <<"App", "User">>
Running(r) == pc[r] \notin {"waiting", "done"}

Goto(r, label) == pc' = [pc EXCEPT ![r] = label]
End(r) == Goto(r, "done") /\ UNCHANGED <<after, stage>>

\* The order of the modules is the one of their packages' init functions.  Left
\* out: steps that do nothing, and fields that only read and no plan asks for
\* (exportApp, installed, those of the notification module).
Steps == << <<"app", "init">>, <<"app", "query">>, <<"app", "mutation">>,
            <<"authentication", "query">>, <<"authentication", "mutation">>,
            <<"imexport", "init">>, <<"imexport", "mutation">>,
            <<"install", "mutation">>,
            <<"publish", "init">>, <<"publish", "mutation">>,
            <<"snapshot", "init">>, <<"snapshot", "mutation">> >>
Module(r) == Steps[stage[r]][1]
AtInit(r) == pc[r] = "schema" /\ Steps[stage[r]][2] = "init"
AtFields(r) == pc[r] = "schema" /\ Steps[stage[r]][2] # "init"

\* Mutant: stage is not bounded by the number of steps.
AdvancePast(r) == /\ stage' = [stage EXCEPT ![r] = @ + 1]
                  /\ IF stage[r] < Len(Steps) THEN UNCHANGED pc ELSE Goto(r, after[r])
                  /\ UNCHANGED after

CallGetSchema(r, return) ==
  /\ Goto(r, "schema")
  /\ after' = [after EXCEPT ![r] = return]
  /\ stage' = [stage EXCEPT ![r] = 1]

Advance(r) ==
  IF stage[r] < Len(Steps)
  THEN stage' = [stage EXCEPT ![r] = @ + 1] /\ UNCHANGED <<pc, after>>
  ELSE Goto(r, after[r]) /\ UNCHANGED <<stage, after>>

\* Init of a module returns at once for a request without an application, and
\* on a server that is not installed: the singleton keeps its application.
Skips(r) == plan[r].app = None \/ ~ installed

InitSkips(r) ==
  /\ AtInit(r) /\ Skips(r)
  /\ Advance(r)
  /\ UNCHANGED <<database, server, plan, seen, mixed, valid>>

\* Mutant: a singleton that has an application keeps it.
InitModuleOnce(r) ==
  /\ AtInit(r) /\ ~ Skips(r) /\ plan[r].app \in rows
  /\ moduleApp' = [moduleApp EXCEPT ![Module(r)] = IF @ = None THEN plan[r].app ELSE @]
  /\ mixed' = [q \in Requests |-> IF q # r /\ Running(q) THEN mixed[q] \cup {plan[r].app} ELSE mixed[q]]
  /\ Advance(r)
  /\ UNCHANGED <<database, up, installed, event, plan, seen, valid>>

InitModule(r) ==
  /\ AtInit(r) /\ ~ Skips(r) /\ plan[r].app \in rows
  /\ moduleApp' = [moduleApp EXCEPT ![Module(r)] = plan[r].app]
  /\ mixed' = [q \in Requests |-> IF q # r /\ Running(q) THEN mixed[q] \cup {plan[r].app} ELSE mixed[q]]
  /\ Advance(r)
  /\ UNCHANGED <<database, up, installed, event, plan, seen, valid>>

\* app.Get of an application without a row panics, which ends the request.
InitPanics(r) ==
  /\ AtInit(r) /\ ~ Skips(r) /\ plan[r].app \notin rows
  /\ End(r)
  /\ UNCHANGED <<database, server, plan, seen, mixed, valid>>

OfApp(field, m) == { <<field, a>> : a \in {moduleApp[m]} \ {None} }
When(condition, fields) == { f \in fields \X {None} : condition }

FieldsAt(step) ==
  CASE step = <<"app", "query">> -> OfApp("query", "app")
    [] step = <<"app", "mutation">> -> OfApp("script", "app") \cup OfApp("save", "app")
    [] step = <<"publish", "mutation">> -> OfApp("publish", "publish")
    [] step = <<"authentication", "query">> -> When("User" \in tables, {"me"})
    [] step = <<"authentication", "mutation">> ->
         When(installed, {"login", "logout", "changePassword"})
    [] step = <<"imexport", "mutation">> -> When(installed, {"importApp"})
    [] step = <<"snapshot", "mutation">> -> When(installed, {"makeVersion"})
    [] step = <<"install", "mutation">> -> When(~ installed, {"install"})

ReadFields(r) ==
  /\ AtFields(r)
  /\ offered' = [offered EXCEPT ![r] = @ \cup FieldsAt(Steps[stage[r]])]
  /\ Advance(r)
  /\ UNCHANGED <<database, server, plan, used, mixed, valid>>

GetSchema(r) == InitSkips(r) \/ InitModule(r) \/ InitPanics(r) \/ ReadFields(r)

-----------------------------------------------------------------------------
(* graphql.Do and the resolvers without steps of their own *)

Asks(r, f) == f[1] = plan[r].op

\* The resolver of the field runs, with the application it was made for.
Resolve(r) ==
  /\ pc[r] = "resolve"
  /\ \E f \in offered[r] : Asks(r, f) /\ used' = [used EXCEPT ![r] = {f[2]} \ {None}]
  /\ IF plan[r].op \in {"query", "publish", "me"} THEN End(r)
     ELSE Goto(r, plan[r].op) /\ UNCHANGED <<after, stage>>
  /\ UNCHANGED <<database, server, plan, offered, mixed, valid>>

NotOffered(r) ==
  /\ pc[r] = "resolve" /\ \A f \in offered[r] : ~ Asks(r, f)
  /\ End(r)
  /\ UNCHANGED <<database, server, plan, seen, mixed, valid>>

Works(r, m) == used' = [used EXCEPT ![r] = @ \cup {moduleApp[m]}]

\* The singleton has no application, or that one no such entity; the file is
\* not there, or cannot be read.
ResolvePanics(r) ==
  /\ pc[r] \in {"makeVersion", "importApp"}
  /\ End(r)
  /\ UNCHANGED <<database, server, plan, seen, mixed, valid>>

\* makeVersion: the entity is looked up in the application of the singleton,
\* the instance is read through a schema of its own ...
MakeVersion(r) ==
  /\ pc[r] = "makeVersion" /\ moduleApp["snapshot"] # None
  /\ Works(r, "snapshot")
  /\ offered' = [offered EXCEPT ![r] = {}]
  /\ CallGetSchema(r, "saveVersion")
  /\ UNCHANGED <<database, server, plan, mixed, valid>>

\* ... and saved as an object of the application the singleton has then.
SaveVersion(r) ==
  /\ pc[r] = "saveVersion"
  /\ IF \E f \in offered[r] : f[1] = "query" THEN Works(r, "snapshot") ELSE UNCHANGED used
  /\ End(r)
  /\ UNCHANGED <<database, server, plan, offered, mixed, valid>>

\* importResolve without appId: a row for an application that has none,
\* "App is exists!" for one that has ...
ImportApp(r) ==
  /\ pc[r] = "importApp" /\ moduleApp["imexport"] # None
  /\ Works(r, "imexport")
  /\ IF plan[r].new \in rows
     THEN End(r) /\ UNCHANGED rows
     ELSE /\ rows' = rows \cup {plan[r].new}
          /\ Goto(r, "saveApp") /\ UNCHANGED <<after, stage>>
  /\ UNCHANGED <<tables, password, owed, server, plan, offered, mixed, valid>>

\* ... then its files, which may fail, the whole row and its first publish.
SaveApp(r) ==
  /\ pc[r] = "saveApp"
  /\ Works(r, "imexport") \/ UNCHANGED used
  /\ End(r)
  /\ UNCHANGED <<database, server, plan, offered, mixed, valid>>

\* What was saved is a notification that somebody listens for, or it is not.  A
\* second event takes the place of the first, which is then delayed for good.
\* Without an application the schema of an event initialises nothing.
Emits(r) == event' = event \/ (plan[r].app # None /\ event' = [event EXCEPT ![r] = 1])

\* A mutation of an entity saves or deletes; those of users are Authentication's.
Post(r) ==
  /\ pc[r] = "save" /\ plan[r].user = None
  /\ Emits(r)
  /\ End(r)
  /\ UNCHANGED <<database, up, installed, moduleApp, plan, seen, mixed, valid>>

Resolvers(r) == \/ Resolve(r) \/ NotOffered(r) \/ ResolvePanics(r) \/ Post(r)
                \/ MakeVersion(r) \/ SaveVersion(r) \/ ImportApp(r) \/ SaveApp(r)

\* The goroutine of an event calls GetSchema with the values of its request, once
\* for each object that was saved.  The schema itself only reads.  An application
\* without a row panics, where nothing recovers: the process ends.
EventInit(r) ==
  /\ up /\ event[r] # 0 /\ ~ Skips(r) /\ plan[r].app \in rows
  /\ moduleApp' = [moduleApp EXCEPT ![InitOrder[event[r]]] = plan[r].app]
  /\ mixed' = [q \in Requests |-> IF q # r /\ Running(q) THEN mixed[q] \cup {plan[r].app} ELSE mixed[q]]
  /\ \E next \in IF event[r] < Len(InitOrder) THEN {event[r] + 1} ELSE {0, 1} :
        event' = [event EXCEPT ![r] = next]
  /\ UNCHANGED <<database, up, installed, plan, control, seen, valid>>

-----------------------------------------------------------------------------
RegistryInit(mix) ==
  /\ up = TRUE /\ installed = mix.installed
  /\ moduleApp = [m \in Singletons |-> None] /\ event = [r \in Requests |-> 0]
  /\ tables = IF mix.installed THEN {"App", "User"} ELSE {}
  /\ rows = IF mix.installed THEN mix.rows ELSE {}
  /\ password = [u \in Users |-> IF mix.installed THEN mix.password ELSE None]
  /\ owed = IF mix.installed THEN Users ELSE {}
  /\ plan = mix.plan
  /\ pc = [r \in Requests |-> IF mix.plan[r].op = None THEN "done" ELSE "waiting"]
  /\ after = [r \in Requests |-> "resolve"] /\ stage = [r \in Requests |-> 1]
  /\ offered = [r \in Requests |-> {}] /\ used = [r \in Requests |-> {}]
  /\ mixed = [r \in Requests |-> {}] /\ valid = [r \in Requests |-> {}]

Labels == {"waiting", "schema", "resolve", "done",
           "save", "makeVersion", "saveVersion", "importApp", "saveApp",
           "install", "insertApp", "saveAdmin", "setInstalled",
           "login", "changePassword", "update", "generateToken", "loadUser", "logout", "script", "subscribe"}
Fields == {"query", "script", "save", "publish", "me", "login", "logout", "changePassword",
           "importApp", "makeVersion", "install"}

RegistryTypeOK ==
  /\ up \in BOOLEAN /\ installed \in BOOLEAN
  /\ moduleApp \in [Singletons -> Apps \cup {None}]
  /\ event \in [Requests -> 0 .. Len(InitOrder)]
  /\ tables \subseteq {"App", "User"} /\ rows \subseteq Apps
  /\ password \in [Users -> Passwords \cup {None}] /\ owed \subseteq Users
  /\ pc \in [Requests -> Labels]
  /\ after \in [Requests -> {"resolve", "subscribe", "saveVersion", "script"}]
  /\ stage \in [Requests -> 1 .. Len(Steps)]
  /\ offered \in [Requests -> SUBSET (Fields \X (Apps \cup {None}))]
  /\ used \in [Requests -> SUBSET Apps] /\ mixed \in [Requests -> SUBSET Apps]
  /\ valid \in [Requests -> SUBSET Passwords]

\* A request that names an application is offered, and works with, that
\* application, or one that has been put into a singleton while it ran, by a
\* request running at the same time or by the event of one that may have ended;
\* never one it found there when it came, although Init returns early and
\* resolvers read the singletons again.
AppsAreOwnOrMixed ==
  \A r \in Requests : plan[r].app # None =>
     { f[2] : f \in offered[r] } \cup used[r] \subseteq {plan[r].app, None} \cup mixed[r]
=============================================================================
