---------------------------- MODULE ServerProofs ----------------------------
(***************************************************************************)
(* For any requests, plans and bounds: every variable of the server keeps  *)
(* its type.  The type of a variable rests on where a request is and on    *)
(* what it was sent to do, so that is part of the invariant.  Then what    *)
(* belongs to one session: what a script saves in a transaction is seen if *)
(* and only if it commits, and whole; a live subscription is known, and    *)
(* one that has ended is not.                                              *)
(***************************************************************************)
EXTENDS Server, FiniteSetTheorems, TLAPS

\* What a request asks for never changes and is what the schemas let through.
AskOK ==
  \A r \in Requests :
    /\ plan[r].app \in Apps \cup {None} /\ plan[r].user \in Users \cup {None}
    /\ plan[r].op \in {"login", "changePassword"} =>
         plan[r].user \in Users /\ plan[r].password \in Passwords
    /\ plan[r].op \in {"install", "changePassword"} => plan[r].new \in Passwords
    /\ plan[r].op = "importApp" => plan[r].new \in Apps
    /\ plan[r].user # None => plan[r].new \in Passwords \cup {None}

\* A request runs the resolver it asks for.
Followed ==
  \A r \in Requests :
    /\ pc[r] \in {"login", "changePassword"} => plan[r].op = pc[r]
    /\ pc[r] = "update" => plan[r].op = "changePassword"
    /\ pc[r] \in {"generateToken", "loadUser"} => plan[r].op \in {"login", "changePassword"}
    /\ Installing(r) => plan[r].op = "install"
    /\ pc[r] = "saveAdmin" => plan[r].user \in Users
    /\ pc[r] = "importApp" => plan[r].op = "importApp"

\* A singleton that has an application has one as long as the server runs.
SingletonsStay ==
  \A r \in Requests :
    /\ pc[r] = "saveVersion" \/ (pc[r] = "schema" /\ after[r] = "saveVersion")
         => moduleApp["snapshot"] # None
    /\ pc[r] = "saveApp" => moduleApp["imexport"] # None

RegistryInv == RegistryTypeOK /\ AskOK /\ Followed /\ SingletonsStay

\* The undo list of an install is empty before it starts and one table long at
\* most while it goes on.
CreatedOK ==
  \A r \in Requests :
    /\ pc[r] = "install" => created[r] \in {{}, {"App"}}
    /\ created[r] # {} => Installing(r) \/ pc[r] = "done"

InstallInv == InstallTypeOK /\ CreatedOK

\* The token of a request that reads its user has been made.
AuthInv == AuthTypeOK /\ \A r \in Requests : pc[r] = "loadUser" => made[r] \in Tokens

\* A script that has an open transaction thinks so, and knows which one.
ScriptInv ==
  /\ ScriptTypeOK
  /\ \A r \in Requests : /\ begun[r] <= calls[r]
                         /\ session[r] = "open" => tx[r] = inside[r] /\ tx[r] # 0

TypeInv == RegistryInv /\ InstallInv /\ AuthInv /\ ScriptInv /\ SocketTypeOK

-----------------------------------------------------------------------------
(* The steps of GetSchema. *)

LEMMA StepsLen == Len(Steps) = 12
BY SMTT(60) DEF Steps

LEMMA FieldsType ==
  ASSUME RegistryTypeOK, NEW r \in Requests, AtFields(r)
  PROVE  FieldsAt(Steps[stage[r]]) \subseteq Fields \X (Apps \cup {None})
<1>1. stage[r] \in 1 .. 12
  BY StepsLen DEF RegistryTypeOK
<1> QED
  BY <1>1 DEF RegistryTypeOK, AtFields, Steps, FieldsAt, OfApp, When, Fields, Singletons

\* Advance goes one step on, or to where GetSchema was called from.
LEMMA AdvanceType ==
  ASSUME RegistryTypeOK, NEW r \in Requests, Advance(r)
  PROVE  /\ pc' \in [Requests -> Labels] /\ stage' \in [Requests -> 1 .. Len(Steps)]
         /\ after' = after
         /\ \A q \in Requests \ {r} : pc'[q] = pc[q] /\ stage'[q] = stage[q]
         /\ \/ pc' = pc /\ stage'[r] = stage[r] + 1 /\ stage[r] < Len(Steps)
            \/ pc'[r] = after[r] /\ stage' = stage /\ stage[r] = Len(Steps)
<1>1. /\ pc \in [Requests -> Labels] /\ stage \in [Requests -> 1 .. 12]
      /\ after[r] \in Labels
  BY StepsLen DEF RegistryTypeOK, Labels
<1>2. CASE stage[r] < 12
  BY <1>1, <1>2, StepsLen DEF Advance
<1>3. CASE ~ stage[r] < 12
  BY <1>1, <1>3, StepsLen DEF Advance, Goto
<1> QED
  BY <1>2, <1>3

LEMMA WorksType ==
  ASSUME RegistryTypeOK, NEW r \in Requests, NEW m \in Singletons, Works(r, m), moduleApp[m] # None
  PROVE  used' \in [Requests -> SUBSET Apps]
<1>1. moduleApp[m] \in Apps
  BY DEF RegistryTypeOK
<1> QED
  BY <1>1 DEF RegistryTypeOK, Works

-----------------------------------------------------------------------------
(* Where requests go: only the request that takes a step moves. *)

Walks(from, to) ==
  \/ to = from
  \/ to = "done"
  \/ to = "schema" /\ from \in {"waiting", "makeVersion", "script"}
  \/ from = "schema" /\ to \in {"resolve", "subscribe", "saveVersion", "script"}
  \/ /\ from = "resolve"
     /\ to \in {"script", "save", "login", "logout", "changePassword", "importApp", "makeVersion",
                "install"}
  \/ <<from, to>> \in {<<"importApp", "saveApp">>, <<"install", "insertApp">>,
                       <<"insertApp", "saveAdmin">>, <<"insertApp", "setInstalled">>,
                       <<"saveAdmin", "setInstalled">>,
                       <<"login", "generateToken">>, <<"changePassword", "update">>,
                       <<"update", "generateToken">>, <<"generateToken", "loadUser">>}

LEMMA TransContextMoves ==
  ASSUME RegistryTypeOK, NEW r \in Requests, TransContext(r)
  PROVE  pc[r] = "waiting" /\ pc' = [pc EXCEPT ![r] = "schema"]
BY DEF TransContext, CallGetSchema, Goto

LEMMA GetSchemaMoves ==
  ASSUME RegistryTypeOK, NEW r \in Requests, GetSchema(r)
  PROVE  /\ pc[r] = "schema"
         /\ \E l \in {"schema", "done", after[r]} : pc' = [pc EXCEPT ![r] = l]
         /\ UNCHANGED <<database, up, installed, plan, used, valid>>
<1> USE DEF database, server, seen, Goto, End
<1>1. Advance(r) => \E l \in {"schema", after[r]} : pc[r] = "schema" => pc' = [pc EXCEPT ![r] = l]
  BY DEF Advance, RegistryTypeOK
<1>2. CASE InitSkips(r)
  BY <1>1, <1>2 DEF InitSkips, AtInit
<1>3. CASE InitModule(r)
  BY <1>1, <1>3 DEF InitModule, AtInit
<1>4. CASE InitPanics(r)
  BY <1>4 DEF InitPanics, AtInit
<1>5. CASE ReadFields(r)
  BY <1>1, <1>5 DEF ReadFields, AtFields
<1> QED
  BY <1>2, <1>3, <1>4, <1>5 DEF GetSchema

LEMMA ResolversMove ==
  ASSUME RegistryTypeOK, NEW r \in Requests, Resolvers(r)
  PROVE  /\ pc[r] \in {"resolve", "save", "makeVersion", "saveVersion", "importApp", "saveApp"}
         /\ \E l \in Labels :
              /\ pc' = [pc EXCEPT ![r] = l]
              /\ \/ l = "done"
                 \/ pc[r] = "makeVersion" /\ l = "schema"
                 \/ pc[r] = "importApp" /\ l = "saveApp"
                 \/ /\ pc[r] = "resolve" /\ l = plan[r].op
                    /\ l \in {"script", "save", "login", "logout", "changePassword",
                              "importApp", "makeVersion", "install"}
                    /\ \E f \in offered[r] : f[1] = l
         /\ UNCHANGED <<tables, password, owed, up, installed, moduleApp, plan, valid>>
<1> USE DEF database, server, seen, Goto, End, Labels
<1>1. CASE Resolve(r)
  <2>1. PICK f \in offered[r] : f[1] = plan[r].op
    BY <1>1 DEF Resolve, Asks
  <2>2. f[1] \in Fields
    BY <2>1 DEF RegistryTypeOK
  <2> QED
    BY <1>1, <2>1, <2>2 DEF Resolve, Fields
<1>2. CASE NotOffered(r) \/ ResolvePanics(r)
  BY <1>2 DEF NotOffered, ResolvePanics
<1>3. CASE MakeVersion(r)
  <2>1. pc' = [pc EXCEPT ![r] = "schema"] /\ pc[r] = "makeVersion"
        /\ UNCHANGED <<database, server, plan, valid>>
    BY <1>3 DEF MakeVersion, CallGetSchema
  <2> QED
    BY <2>1
<1>5. CASE SaveVersion(r)
  BY <1>5 DEF SaveVersion
<1>4. CASE ImportApp(r) \/ SaveApp(r)
  BY <1>4 DEF ImportApp, SaveApp
<1>6. CASE Post(r)
  BY <1>6 DEF Post
<1> QED
  BY <1>1, <1>2, <1>3, <1>4, <1>5, <1>6 DEF Resolvers

LEMMA InstallMoves ==
  ASSUME RegistryTypeOK, NEW r \in Requests, InstallResolve(r)
  PROVE  /\ Installing(r)
         /\ \E l \in Labels : pc' = [pc EXCEPT ![r] = l] /\ Walks(pc[r], l)
         /\ UNCHANGED <<up, moduleApp, plan, seen, mixed>>
<1> USE DEF database, server, Goto, End, Installing, Running, HasTables, Walks, Labels
<1>1. CASE CreateTable(r)
  BY <1>1 DEF CreateTable, RegistryTypeOK
<1>2. CASE CreateTableFails(r) \/ InsertApp(r) \/ SaveAdmin(r)
  BY <1>2 DEF CreateTableFails, InsertApp, SaveAdmin
<1>3. CASE SetInstalled(r) \/ InstallFails(r)
  BY <1>3 DEF SetInstalled, InstallFails
<1> QED
  BY <1>1, <1>2, <1>3 DEF InstallResolve

LEMMA AuthenticateMoves ==
  ASSUME RegistryTypeOK, NEW r \in Requests, Authenticate(r)
  PROVE  /\ pc[r] \in {"login", "changePassword", "update", "generateToken", "loadUser", "logout",
                       "save", "script"}
         /\ pc[r] = "script" => pc' = pc
         /\ \E l \in Labels : pc' = [pc EXCEPT ![r] = l] /\ Walks(pc[r], l)
         /\ UNCHANGED <<tables, rows, server, plan, seen, mixed>>
<1> USE DEF database, server, Goto, End, Walks, Labels
<1>1. CASE CheckPassword(r)
  BY <1>1 DEF CheckPassword
<1>2. CASE ChangePassword(r) \/ GenerateToken(r)
  BY <1>2 DEF ChangePassword, GenerateToken
<1>3. CASE LoadUser(r) \/ AuthFails(r) \/ Logout(r)
  BY <1>3 DEF LoadUser, AuthFails, Logout
<1>4. CASE SaveUser(r)
  <2>1. pc[r] \in Labels /\ pc = [pc EXCEPT ![r] = pc[r]]
    BY DEF RegistryTypeOK
  <2> QED
    BY <1>4, <2>1 DEF SaveUser, control
<1> QED
  BY <1>1, <1>2, <1>3, <1>4 DEF Authenticate

LEMMA MethodMoves ==
  ASSUME RegistryTypeOK, NEW r \in Requests, Method(r)
  PROVE  /\ pc[r] = "script"
         /\ \E l \in {"script", "schema", "done"} : pc' = [pc EXCEPT ![r] = l]
         /\ UNCHANGED <<untouched, used>>
<1> USE DEF untouched, control, seen, Goto, End, AtCall, Call
<1>1. pc = [pc EXCEPT ![r] = pc[r]]
  BY DEF RegistryTypeOK
<1>2. CASE BeginTx(r) \/ Commit(r) \/ ClearTx(r) \/ Rollback(r)
  BY <1>1, <1>2 DEF BeginTx, Commit, ClearTx, Rollback
<1>3. CASE SaveFirst(r) \/ SaveSecond(r)
  BY <1>1, <1>3 DEF SaveFirst, SaveSecond
<1>4. CASE ScriptQuery(r) \/ ScriptEnds(r)
  BY <1>4 DEF ScriptQuery, ScriptEnds, CallGetSchema
<1> QED
  BY <1>2, <1>3, <1>4 DEF Method

LEMMA SubscriptionMoves ==
  ASSUME RegistryTypeOK, NEW r \in Requests, Subscription(r)
  PROVE  /\ pc' = pc \/ (pc[r] = "subscribe" /\ pc' = [pc EXCEPT ![r] = "done"])
         /\ UNCHANGED elsewhere
<1> USE DEF control, Goto, End
<1>1. CASE ReadStart(r)
  <2>1. UNCHANGED <<elsewhere, control>>
    BY <1>1 DEF ReadStart
  <2> QED
    BY <2>1
<1>3. CASE ReadStop(r) \/ ReadFails(r)
  BY <1>3 DEF ReadStop, ReadFails
<1>2. CASE \E n \in Numbers : \/ Receives(r, n) \/ Writes(r, n) \/ WriteIsRefused(r, n)
                              \/ ChannelCloses(r, n) \/ ContextIsDone(r, n)
  <2>1. UNCHANGED <<elsewhere, control>>
    BY <1>2 DEF Receives, Writes, WriteIsRefused, ChannelCloses, ContextIsDone
  <2> QED
    BY <2>1
<1> QED
  BY <1>1, <1>2, <1>3 DEF Subscription

\* A request that has ended stays so; before it starts, in a script, in a
\* subscription or in an install it stays until that component, or the end of
\* the process, moves it, and only logging in leads into a login.
LEMMA Stays ==
  ASSUME RegistryTypeOK, [Next]_vars, NEW r \in Requests
  PROVE  /\ Walks(pc[r], pc'[r])
         /\ pc[r] = "done" => pc'[r] = "done"
         /\ pc[r] = "script" /\ pc'[r] # pc[r] => Method(r) \/ Crash
         /\ pc[r] = "subscribe" /\ pc'[r] # pc[r] => Subscription(r) \/ Crash
         /\ Installing(r) /\ pc'[r] # pc[r] => InstallResolve(r) \/ Crash
         /\ pc[r] = "waiting" /\ pc'[r] # pc[r] => TransContext(r)
         /\ pc'[r] \in {"update", "generateToken", "loadUser"} /\ pc'[r] # pc[r] => Authenticate(r)
<1> USE DEF Installing, Running, Walks
<1>0. /\ pc \in [Requests -> Labels]
      /\ \A q \in Requests : after[q] \in {"resolve", "subscribe", "saveVersion", "script"}
  BY DEF RegistryTypeOK
<1>1. ASSUME NEW q \in Requests, Request(q)
      PROVE  /\ \A p \in Requests \ {q} : pc'[p] = pc[p]
             /\ Walks(pc[q], pc'[q])
             /\ pc[q] = "done" => pc' = pc
             /\ pc[q] = "script" => Method(q) \/ pc' = pc
             /\ pc[q] = "subscribe" => Subscription(q) \/ pc' = pc
             /\ Installing(q) => InstallResolve(q) \/ pc' = pc
             /\ pc[q] = "waiting" => TransContext(q) \/ pc' = pc
             /\ pc'[q] \in {"update", "generateToken", "loadUser"} => Authenticate(q) \/ pc' = pc
  <2>1. CASE TransContext(q)
    BY <1>0, <2>1, TransContextMoves
  <2>2. CASE GetSchema(q)
    BY <1>0, <2>2, GetSchemaMoves
  <2>3. CASE Resolvers(q)
    BY <1>0, <2>3, ResolversMove
  <2>4. CASE InstallResolve(q)
    BY <1>0, <2>4, InstallMoves
  <2>5. CASE Authenticate(q)
    BY <1>0, <2>5, AuthenticateMoves
  <2>6. CASE Method(q)
    BY <1>0, <2>6, MethodMoves
  <2>7. CASE Subscription(q)
    BY <1>0, <2>7, SubscriptionMoves
  <2> QED
    BY <1>1, <2>1, <2>2, <2>3, <2>4, <2>5, <2>6, <2>7 DEF Request
<1>2. CASE Crash
  BY <1>0, <1>2 DEF Crash, Die
<1>3. CASE Start \/ Tick \/ (\E q \in Requests : EventInit(q)) \/ UNCHANGED vars
  BY <1>3 DEF Start, Tick, EventInit, vars, control, registryVars
<1> QED
  BY <1>0, <1>1, <1>2, <1>3 DEF Next

-----------------------------------------------------------------------------
(* The registry. *)

LEMMA InitOrderLen == Len(InitOrder) = 4
BY DEF InitOrder

\* CreateTable counts the tables it has made: App is the first, User the last.
LEMMA CreatedTables ==
  ASSUME CreatedOK, NEW r \in Requests, pc[r] = "install"
  PROVE  LET t == SystemTables[Cardinality(created[r]) + 1] IN
           /\ created[r] = {} => t = "App"
           /\ created[r] = {"App"} => t = "User"
           /\ t \in {"App", "User"}
<1>1. Cardinality({}) = 0 /\ Cardinality({"App"}) = 1
  BY FS_EmptySet, FS_Singleton, Zenon
<1>2. created[r] \in {{}, {"App"}}
  BY DEF CreatedOK
<1>3. SystemTables[1] = "App" /\ SystemTables[2] = "User" /\ {} # {"App"}
  BY DEF SystemTables
<1>4. CASE created[r] = {}
  BY <1>1, <1>3, <1>4
<1>5. CASE created[r] = {"App"}
  <2>1. Cardinality(created[r]) = 1
    BY <1>1, <1>5, Zenon
  <2> QED
    BY <1>3, <1>5, <2>1
<1> QED
  BY <1>2, <1>4, <1>5

LEMMA RegistryStep ==
  ASSUME RegistryInv, CreatedOK, [Next]_vars
  PROVE  RegistryInv'
<1> USE AppsAssumption, UsersAssumption, StepsLen, InitOrderLen
    DEF RegistryInv, RegistryTypeOK, AskOK, Followed, SingletonsStay, Labels, Fields, Installing,
        Running, database, server, control, seen, untouched, elsewhere, registryVars, Goto, End
<1>1. ASSUME NEW r \in Requests, TransContext(r) PROVE RegistryInv'
  BY <1>1 DEF TransContext, CallGetSchema
<1>2. ASSUME NEW r \in Requests, InitSkips(r) PROVE RegistryInv'
  BY <1>2 DEF InitSkips, Advance, AtInit
<1>3. ASSUME NEW r \in Requests, InitModule(r) PROVE RegistryInv'
  <2>1. /\ plan[r].app \in Apps /\ Advance(r) /\ pc[r] = "schema"
        /\ moduleApp' = [moduleApp EXCEPT ![Module(r)] = plan[r].app]
        /\ UNCHANGED <<database, up, installed, event, plan, offered, used, valid>>
    BY <1>3 DEF InitModule, AtInit, Skips
  <2>2. mixed' \in [Requests -> SUBSET Apps]
    BY <1>3, <2>1 DEF InitModule
  <2>3. moduleApp' \in [Singletons -> Apps \cup {None}]
    BY <2>1
  <2>4. \A m \in Singletons : moduleApp[m] # None => moduleApp'[m] # None
    BY <2>1
  <2>5. RegistryTypeOK'
    BY <2>1, <2>2, <2>3, AdvanceType
  <2>6. Followed' /\ AskOK'
    BY <2>1, AdvanceType
  <2>7. SingletonsStay'
    BY <2>1, <2>4, AdvanceType DEF Singletons
  <2> QED
    BY <2>5, <2>6, <2>7
<1>4. ASSUME NEW r \in Requests, InitPanics(r) PROVE RegistryInv'
  BY <1>4 DEF InitPanics, AtInit
<1>5. ASSUME NEW r \in Requests, ReadFields(r) PROVE RegistryInv'
  <2>1. /\ Advance(r) /\ pc[r] = "schema"
        /\ offered' = [offered EXCEPT ![r] = @ \cup FieldsAt(Steps[stage[r]])]
        /\ UNCHANGED <<database, server, plan, used, mixed, valid>>
    BY <1>5 DEF ReadFields, AtFields
  <2>2. offered' \in [Requests -> SUBSET (Fields \X (Apps \cup {None}))]
    <3> HIDE DEF Fields
    <3>1. FieldsAt(Steps[stage[r]]) \subseteq Fields \X (Apps \cup {None})
      BY <1>5, FieldsType DEF ReadFields
    <3> QED
      BY <2>1, <3>1
  <2>3. RegistryTypeOK'
    BY <2>1, <2>2, AdvanceType
  <2>4. Followed' /\ AskOK' /\ SingletonsStay'
    BY <2>1, AdvanceType
  <2> QED
    BY <2>3, <2>4
<1>6. ASSUME NEW r \in Requests, Resolve(r) PROVE RegistryInv'
  BY <1>6 DEF Resolve, Asks
<1>7. ASSUME NEW r \in Requests, NotOffered(r) PROVE RegistryInv'
  BY <1>7 DEF NotOffered
<1>8. ASSUME NEW r \in Requests, ResolvePanics(r) PROVE RegistryInv'
  BY <1>8 DEF ResolvePanics
<1>9. ASSUME NEW r \in Requests, MakeVersion(r) PROVE RegistryInv'
  <2>1. used' \in [Requests -> SUBSET Apps]
    BY <1>9, WorksType DEF MakeVersion, Singletons
  <2>2. /\ moduleApp["snapshot"] # None
        /\ offered' = [offered EXCEPT ![r] = {}]
        /\ pc' = [pc EXCEPT ![r] = "schema"] /\ after' = [after EXCEPT ![r] = "saveVersion"]
        /\ stage' = [stage EXCEPT ![r] = 1]
        /\ UNCHANGED <<database, server, plan, mixed, valid>>
    BY <1>9 DEF MakeVersion, CallGetSchema
  <2>3. RegistryTypeOK'
    BY <2>1, <2>2
  <2>4. Followed' /\ AskOK' /\ SingletonsStay'
    BY <2>2
  <2> QED
    BY <2>3, <2>4
<1>10. ASSUME NEW r \in Requests, SaveVersion(r) PROVE RegistryInv'
  <2>1. used' \in [Requests -> SUBSET Apps]
    BY <1>10, WorksType DEF SaveVersion, Singletons
  <2> QED
    <3>1. /\ pc' = [pc EXCEPT ![r] = "done"]
          /\ UNCHANGED <<database, server, plan, offered, mixed, valid, after, stage>>
      BY <1>10 DEF SaveVersion
    <3> QED
      BY <2>1, <3>1
<1>11. ASSUME NEW r \in Requests, ImportApp(r) PROVE RegistryInv'
  <2>1. used' \in [Requests -> SUBSET Apps]
    BY <1>11, WorksType DEF ImportApp, Singletons
  <2>2. /\ pc[r] = "importApp" /\ moduleApp["imexport"] # None
        /\ UNCHANGED <<tables, password, owed, server, plan, offered, mixed, valid, after, stage>>
        /\ rows' \in {rows, rows \cup {plan[r].new}}
    BY <1>11 DEF ImportApp
  <2>3. pc' = [pc EXCEPT ![r] = "done"] \/ pc' = [pc EXCEPT ![r] = "saveApp"]
    BY <1>11 DEF ImportApp
  <2>4. rows' \subseteq Apps
    BY <2>2
  <2>5. RegistryTypeOK'
    BY <2>1, <2>2, <2>3, <2>4
  <2>6. Followed' /\ AskOK' /\ SingletonsStay'
    BY <2>2, <2>3
  <2> QED
    BY <2>5, <2>6
<1>12. ASSUME NEW r \in Requests, SaveApp(r) PROVE RegistryInv'
  <2>1. used' \in [Requests -> SUBSET Apps]
    BY <1>12, WorksType DEF SaveApp, Singletons
  <2> QED
    <3>1. /\ pc' = [pc EXCEPT ![r] = "done"]
          /\ UNCHANGED <<database, server, plan, offered, mixed, valid, after, stage>>
      BY <1>12 DEF SaveApp
    <3> QED
      BY <2>1, <3>1
<1>13. ASSUME NEW r \in Requests, CreateTable(r) PROVE RegistryInv'
  <2>1. PICK t \in {"App", "User"} : tables' = tables \cup {t}
    BY <1>13, CreatedTables DEF CreateTable
  <2>2. /\ pc[r] = "install" /\ after' = after
        /\ \/ pc' = pc /\ owed' = owed
           \/ pc' = [pc EXCEPT ![r] = "insertApp"] /\ owed' = {plan[r].user} \ {None}
        /\ UNCHANGED <<rows, password, server, plan, stage, seen, mixed, valid>>
    BY <1>13 DEF CreateTable
  <2> QED
    BY <2>1, <2>2
<1>14. ASSUME NEW r \in Requests, CreateTableFails(r) PROVE RegistryInv'
  <2>1. /\ pc[r] = "install" /\ pc' = [pc EXCEPT ![r] = "done"] /\ tables' \subseteq tables
        /\ UNCHANGED <<rows, password, owed, server, plan, after, stage, seen, mixed, valid>>
    BY <1>14 DEF CreateTableFails
  <2> QED
    BY <2>1
<1>15. ASSUME NEW r \in Requests, InsertApp(r) PROVE RegistryInv'
  BY <1>15 DEF InsertApp
<1>16. ASSUME NEW r \in Requests, SaveAdmin(r) PROVE RegistryInv'
  BY <1>16 DEF SaveAdmin
<1>17. ASSUME NEW r \in Requests, SetInstalled(r) PROVE RegistryInv'
  BY <1>17 DEF SetInstalled
<1>18. ASSUME NEW r \in Requests, InstallFails(r) PROVE RegistryInv'
  BY <1>18 DEF InstallFails, HasTables
<1>19. ASSUME NEW r \in Requests, CheckPassword(r) PROVE RegistryInv'
  BY <1>19 DEF CheckPassword
<1>20. ASSUME NEW r \in Requests, ChangePassword(r) PROVE RegistryInv'
  BY <1>20 DEF ChangePassword
<1>21. ASSUME NEW r \in Requests, GenerateToken(r) PROVE RegistryInv'
  BY <1>21 DEF GenerateToken
<1>22. ASSUME NEW r \in Requests, LoadUser(r) PROVE RegistryInv'
  BY <1>22 DEF LoadUser
<1>23. ASSUME NEW r \in Requests, AuthFails(r) PROVE RegistryInv'
  BY <1>23 DEF AuthFails
<1>24. ASSUME NEW r \in Requests, Logout(r) PROVE RegistryInv'
  BY <1>24 DEF Logout
<1>25. ASSUME NEW r \in Requests, BeginTx(r) PROVE RegistryInv'
  BY <1>25 DEF BeginTx, AtCall, Call, Enter, Inside
<1>26. ASSUME NEW r \in Requests, Commit(r) PROVE RegistryInv'
  BY <1>26 DEF Commit, AtCall, Call, Enter, Inside
<1>27. ASSUME NEW r \in Requests, ClearTx(r) PROVE RegistryInv'
  BY <1>27 DEF ClearTx, AtCall, Call, Enter, Inside
<1>28. ASSUME NEW r \in Requests, Rollback(r) PROVE RegistryInv'
  BY <1>28 DEF Rollback, AtCall, Call, Enter, Inside
<1>29. ASSUME NEW r \in Requests, SaveFirst(r) PROVE RegistryInv'
  BY <1>29 DEF SaveFirst, AtCall, Call, Enter, Write, checkSession
<1>30. ASSUME NEW r \in Requests, SaveSecond(r) PROVE RegistryInv'
  <2>1. event' \in [Requests -> 0 .. Len(InitOrder)]
    BY <1>30 DEF SaveSecond, Emits
  <2>2. UNCHANGED <<untouched, control, seen>>
    BY <1>30 DEF SaveSecond
  <2> QED
    BY <2>1, <2>2
<1>31. ASSUME NEW r \in Requests, ScriptQuery(r) PROVE RegistryInv'
  BY <1>31 DEF ScriptQuery, AtCall, CallGetSchema
<1>32. ASSUME NEW r \in Requests, ScriptEnds(r) PROVE RegistryInv'
  BY <1>32 DEF ScriptEnds
<1>33. ASSUME NEW r \in Requests, ReadStart(r) PROVE RegistryInv'
  BY <1>33 DEF ReadStart, Routine
<1>34. ASSUME NEW r \in Requests, ReadStop(r) PROVE RegistryInv'
  BY <1>34 DEF ReadStop, unsubscribe
<1>35. ASSUME NEW r \in Requests, ReadFails(r) PROVE RegistryInv'
  BY <1>35 DEF ReadFails
<1>36. ASSUME NEW r \in Requests, NEW n \in Numbers, Receives(r, n) PROVE RegistryInv'
  BY <1>36 DEF Receives, Routine
<1>37. ASSUME NEW r \in Requests, NEW n \in Numbers, Writes(r, n) PROVE RegistryInv'
  BY <1>37 DEF Writes, Routine
<1>38. ASSUME NEW r \in Requests, NEW n \in Numbers, WriteIsRefused(r, n) PROVE RegistryInv'
  BY <1>38 DEF WriteIsRefused, Routine, unsubscribe
<1>39. ASSUME NEW r \in Requests, NEW n \in Numbers, ChannelCloses(r, n) PROVE RegistryInv'
  BY <1>39 DEF ChannelCloses, Routine, unsubscribe
<1>40. ASSUME NEW r \in Requests, NEW n \in Numbers, ContextIsDone(r, n) PROVE RegistryInv'
  BY <1>40 DEF ContextIsDone, Routine
<1>44. ASSUME NEW r \in Requests, Post(r) PROVE RegistryInv'
  <2>1. event' \in [Requests -> 0 .. Len(InitOrder)]
    BY <1>44 DEF Post, Emits
  <2>2. /\ pc' = [pc EXCEPT ![r] = "done"]
        /\ UNCHANGED <<database, up, installed, moduleApp, plan, seen, mixed, valid, after, stage>>
    BY <1>44 DEF Post
  <2> QED
    BY <2>1, <2>2
<1>45. ASSUME NEW r \in Requests, SaveUser(r) PROVE RegistryInv'
  <2>1. /\ plan[r].user \in Users /\ plan[r].new \in Passwords \cup {None}
        /\ password' = [password EXCEPT ![plan[r].user] = plan[r].new] /\ owed' \subseteq owed
        /\ valid' \in [Requests -> SUBSET Passwords]
        /\ UNCHANGED <<tables, rows, server, plan, seen, mixed, after, stage>>
    BY <1>45 DEF SaveUser
  <2>2. pc' = pc \/ pc' = [pc EXCEPT ![r] = "done"]
    BY <1>45 DEF SaveUser
  <2> QED
    BY <2>1, <2>2
<1>46. ASSUME NEW r \in Requests, EventInit(r) PROVE RegistryInv'
  <2>1. /\ plan[r].app \in Apps /\ event[r] \in 1 .. 4
        /\ moduleApp' = [moduleApp EXCEPT ![InitOrder[event[r]]] = plan[r].app]
        /\ UNCHANGED <<database, up, installed, plan, control, seen, valid>>
    BY <1>46 DEF EventInit, Skips
  <2>2. mixed' \in [Requests -> SUBSET Apps]
    BY <1>46, <2>1 DEF EventInit
  <2>3. event' \in [Requests -> 0 .. Len(InitOrder)]
    <3>1. PICK n \in IF event[r] < Len(InitOrder) THEN {event[r] + 1} ELSE {0, 1} :
            event' = [event EXCEPT ![r] = n]
      BY <1>46 DEF EventInit
    <3>2. n \in 0 .. 4
      BY <2>1, <3>1
    <3> QED
      BY <3>1, <3>2
  <2>4. \A m \in Singletons : moduleApp[m] # None => moduleApp'[m] # None
    BY <2>1
  <2>5. moduleApp' \in [Singletons -> Apps \cup {None}]
    BY <2>1
  <2> QED
    BY <2>1, <2>2, <2>3, <2>4, <2>5 DEF Singletons
<1>41. ASSUME Die PROVE RegistryInv'
  <2>4. /\ moduleApp' = [m \in Singletons |-> None] /\ event' = [r \in Requests |-> 0]
        /\ up' = FALSE /\ installed' = FALSE
        /\ pc' = [r \in Requests |-> IF Running(r) THEN "done" ELSE pc[r]]
        /\ UNCHANGED <<database, plan, after, stage, seen, mixed, valid>>
    BY <1>41, Zenon DEF Die
  <2>1. /\ moduleApp' \in [Singletons -> Apps \cup {None}]
        /\ event' \in [Requests -> 0 .. Len(InitOrder)]
        /\ pc' = [r \in Requests |-> IF Running(r) THEN "done" ELSE pc[r]]
        /\ up' \in BOOLEAN /\ installed' \in BOOLEAN
        /\ UNCHANGED <<database, plan, after, stage, seen, mixed, valid>>
    <3>1. event' \in [Requests -> 0 .. 4]
      BY <2>4
    <3>2. moduleApp' \in [Singletons -> Apps \cup {None}]
      BY <2>4
    <3>3. event' \in [Requests -> 0 .. Len(InitOrder)]
      BY <3>1
    <3> QED
      BY <2>4, <3>2, <3>3
  <2>2. \A r \in Requests : pc'[r] \in {pc[r], "done"} /\ (pc'[r] = pc[r] => ~ Running(r) \/ pc[r] = "done")
    BY <2>1
  <2>3. RegistryTypeOK'
    BY <2>1
  <2> QED
    BY <2>1, <2>2, <2>3
<1>42. ASSUME Start PROVE RegistryInv'
  BY <1>42 DEF Start
<1>43. ASSUME Tick PROVE RegistryInv'
  BY <1>43 DEF Tick
<1>99. CASE UNCHANGED vars
  BY <1>99 DEF vars
<1> QED
  BY <1>1, <1>2, <1>3, <1>4, <1>5, <1>6, <1>7, <1>8, <1>9, <1>10, <1>11, <1>12, <1>13, <1>14,
     <1>15, <1>16, <1>17, <1>18, <1>19, <1>20, <1>21, <1>22, <1>23, <1>24, <1>25, <1>26, <1>27,
     <1>28, <1>29, <1>30, <1>31, <1>32, <1>33, <1>34, <1>35, <1>36, <1>37, <1>38, <1>39, <1>40,
     <1>41, <1>42, <1>43, <1>44, <1>45, <1>46, <1>99, ZenonT(30)
  DEF Next, Request, GetSchema, Resolvers, InstallResolve, Authenticate, Method, Subscription, Crash

-----------------------------------------------------------------------------
(* Installation, authentication, scripts and connections. *)

LEMMA InstallStep ==
  ASSUME RegistryInv, InstallInv, [Next]_vars
  PROVE  InstallInv'
<1> USE DEF InstallInv, InstallTypeOK, CreatedOK
<1>0. RegistryTypeOK /\ pc \in [Requests -> Labels]
  BY DEF RegistryInv, RegistryTypeOK
<1>1. ASSUME NEW r \in Requests, CreateTable(r) PROVE InstallInv'
  <2>1. /\ pc[r] = "install" /\ created[r] \in {{}, {"App"}}
        /\ created[r] = {} => /\ created' = [created EXCEPT ![r] = {"App"}]
                              /\ UNCHANGED pc
        /\ created[r] = {"App"} => /\ created' = [created EXCEPT ![r] = {"App", "User"}]
                                   /\ pc' = [pc EXCEPT ![r] = "insertApp"]
        /\ UNCHANGED interrupted
    <3>1. "App" # "User"
      OBVIOUS
    <3> QED
      BY <1>1, <3>1, CreatedTables DEF CreateTable, Goto
  <2> QED
    BY <1>0, <2>1 DEF Installing, Running
<1>2. ASSUME NEW r \in Requests, CreateTableFails(r) PROVE InstallInv'
  BY <1>0, <1>2 DEF CreateTableFails, End, Goto, Installing, Running
<1>3. ASSUME NEW r \in Requests, InsertApp(r) \/ SaveAdmin(r) PROVE InstallInv'
  BY <1>0, <1>3 DEF InsertApp, SaveAdmin, Goto, installVars, Installing, Running
<1>4. ASSUME NEW r \in Requests, SetInstalled(r) \/ InstallFails(r) PROVE InstallInv'
  BY <1>0, <1>4 DEF SetInstalled, InstallFails, HasTables, End, Goto, installVars, Installing, Running
<1>5. CASE Crash
  BY <1>0, <1>5 DEF Crash, Die, Installing, Running
<1>6. CASE UNCHANGED installVars /\ ~ Crash /\ \A r \in Requests : ~ InstallResolve(r)
  <2>1. UNCHANGED <<created, interrupted>>
    BY <1>6 DEF installVars
  <2>2. ASSUME NEW r \in Requests
        PROVE  /\ Installing(r) => pc'[r] = pc[r]
               /\ pc[r] = "done" => pc'[r] = "done"
               /\ pc'[r] = "install" => pc[r] \in {"install", "resolve"}
    BY <1>0, <1>6, Stays DEF Walks
  <2> QED
    BY <2>1, <2>2 DEF Installing, Running
<1> QED
  BY <1>1, <1>2, <1>3, <1>4, <1>5, <1>6 DEF Next, Request, InstallResolve, Start, vars

LEMMA AuthStep ==
  ASSUME RegistryInv, AuthInv, [Next]_vars
  PROVE  AuthInv'
<1> USE SecondsAssumption DEF AuthInv, AuthTypeOK, Tokens
<1>0. /\ RegistryTypeOK /\ pc \in [Requests -> Labels]
      /\ \A r \in Requests : /\ plan[r].user \in Users \cup {None}
                             /\ pc[r] \in {"generateToken", "loadUser"} => plan[r].user \in Users
  BY DEF RegistryInv, RegistryTypeOK, AskOK, Followed
<1>1. ASSUME NEW r \in Requests, TransContext(r) PROVE AuthInv'
  <2>1. PICK t \in given \cup {None} :
          /\ token' = [token EXCEPT ![r] = t]
          /\ me' = [me EXCEPT ![r] = IF t = None THEN None ELSE tokens[t]]
    BY <1>1 DEF TransContext
  <2>2. me'[r] \in Users \cup {None} /\ came' \in [Requests -> 0 .. Seconds]
    BY <1>1, <2>1 DEF TransContext
  <2>3. UNCHANGED <<tokens, second, made, given>> /\ pc' = [pc EXCEPT ![r] = "schema"]
    BY <1>0, <1>1, TransContextMoves DEF TransContext
  <2> QED
    BY <1>0, <2>1, <2>2, <2>3
<1>2. ASSUME NEW r \in Requests, GenerateToken(r) PROVE AuthInv'
  BY <1>0, <1>2 DEF GenerateToken, Goto
<1>3. ASSUME NEW r \in Requests, LoadUser(r) PROVE AuthInv'
  <2>1. PICK u \in {plan[r].user, None} : tokens' = [tokens EXCEPT ![made[r]] = u]
    BY <1>3 DEF LoadUser
  <2> QED
    BY <1>0, <1>3, <2>1 DEF LoadUser, End, Goto
<1>4. ASSUME NEW r \in Requests, Logout(r) PROVE AuthInv'
  BY <1>0, <1>4 DEF Logout, End, Goto
<1>5. CASE Crash
  BY <1>0, <1>5 DEF Crash, Die
<1>6. CASE Tick
  BY <1>0, <1>6 DEF Tick, registryVars, control
<1>7. CASE UNCHANGED authVars /\ \A r \in Requests : ~ GenerateToken(r)
  <2>1. UNCHANGED <<tokens, second, token, me, made, came, given>>
    BY <1>7 DEF authVars
  <2>2. ASSUME NEW r \in Requests, pc'[r] = "loadUser" PROVE pc[r] = "loadUser"
    BY <1>0, <1>7, <2>2, Stays
       DEF Authenticate, CheckPassword, ChangePassword, LoadUser, AuthFails, SaveUser, Logout, Goto, End,
           control
  <2> QED
    BY <2>1, <2>2
<1> QED
  BY <1>1, <1>2, <1>3, <1>4, <1>5, <1>6, <1>7
  DEF Next, Request, Authenticate, CheckPassword, ChangePassword, AuthFails, SaveUser, vars

LEMMA ScriptStep ==
  ASSUME RegistryInv, ScriptInv, [Next]_vars
  PROVE  ScriptInv'
<1> USE MaxCallsAssumption DEF ScriptInv, ScriptTypeOK, AtCall, Call, Enter, Inside
<1>1. ASSUME NEW r \in Requests, BeginTx(r) PROVE ScriptInv'
  BY <1>1 DEF BeginTx
<1>2. ASSUME NEW r \in Requests, Commit(r) PROVE ScriptInv'
  BY <1>2 DEF Commit
<1>3. ASSUME NEW r \in Requests, ClearTx(r) PROVE ScriptInv'
  BY <1>3 DEF ClearTx
<1>4. ASSUME NEW r \in Requests, Rollback(r) PROVE ScriptInv'
  BY <1>4 DEF Rollback
<1>5. ASSUME NEW r \in Requests, SaveFirst(r) PROVE ScriptInv'
  BY <1>5 DEF SaveFirst, Write, checkSession
<1>6. ASSUME NEW r \in Requests, SaveSecond(r) PROVE ScriptInv'
  BY <1>6 DEF SaveSecond, Write, checkSession
<1>7. ASSUME NEW r \in Requests, ScriptQuery(r) PROVE ScriptInv'
  BY <1>7 DEF ScriptQuery
<1>8. ASSUME NEW r \in Requests, ScriptEnds(r) PROVE ScriptInv'
  BY <1>8 DEF ScriptEnds
<1>9. CASE Crash
  BY <1>9 DEF Crash
<1>10. CASE UNCHANGED scriptVars
  BY <1>10 DEF scriptVars
<1> QED
  BY <1>1, <1>2, <1>3, <1>4, <1>5, <1>6, <1>7, <1>8, <1>9, <1>10 DEF Next, Request, Method, vars

LEMMA SocketStep ==
  ASSUME SocketTypeOK, [Next]_vars
  PROVE  SocketTypeOK'
<1> USE MaxStartsAssumption DEF SocketTypeOK, Numbers, Routine, unsubscribe
<1>1. ASSUME NEW r \in Requests, ReadStart(r) PROVE SocketTypeOK'
  BY <1>1 DEF ReadStart
<1>2. ASSUME NEW r \in Requests, ReadStop(r) \/ ReadFails(r) PROVE SocketTypeOK'
  BY <1>2 DEF ReadStop, ReadFails
<1>3. ASSUME NEW r \in Requests, NEW n \in Numbers,
             \/ Receives(r, n) \/ Writes(r, n) \/ WriteIsRefused(r, n)
             \/ ChannelCloses(r, n) \/ ContextIsDone(r, n)
      PROVE  SocketTypeOK'
  <2>1. /\ \E l \in {"select", "write", "ended"} : routine' = [routine EXCEPT ![r][n] = l]
        /\ UNCHANGED <<starts, last, broken>>
    BY <1>3 DEF Receives, Writes, WriteIsRefused, ChannelCloses, ContextIsDone
  <2>2. /\ subscribers' \subseteq Requests \X Numbers
        /\ open' \subseteq Requests /\ cancelled' \subseteq Requests
    BY <1>3 DEF Receives, Writes, WriteIsRefused, ChannelCloses, ContextIsDone
  <2> QED
    BY <2>1, <2>2
<1>4. CASE Crash
  BY <1>4 DEF Crash
<1>5. CASE UNCHANGED socketVars
  BY <1>5 DEF socketVars
<1> QED
  BY <1>1, <1>2, <1>3, <1>4, <1>5 DEF Next, Request, Subscription, vars

-----------------------------------------------------------------------------
LEMMA TypeInit ==
  ASSUME Init
  PROVE  TypeInv
<1> USE AppsAssumption, UsersAssumption
<1>1. PICK mix \in Mixes : RegistryInit(mix)
  BY DEF Init
<1>2. /\ mix.installed \in BOOLEAN
      /\ mix.installed => mix.rows \subseteq Apps /\ mix.password \in Passwords
      /\ \A r \in Requests :
           /\ mix.plan[r].app \in Apps \cup {None} /\ mix.plan[r].user \in Users \cup {None}
           /\ mix.plan[r].op \in {"login", "changePassword"} =>
                mix.plan[r].user \in Users /\ mix.plan[r].password \in Passwords
           /\ mix.plan[r].op \in {"install", "changePassword"} => mix.plan[r].new \in Passwords
           /\ mix.plan[r].op = "importApp" => mix.plan[r].new \in Apps
           /\ mix.plan[r].user # None => mix.plan[r].new \in Passwords \cup {None}
  BY MixesAssumption
<1>3. RegistryTypeOK
  BY <1>1, <1>2, StepsLen, InitOrderLen DEF RegistryInit, RegistryTypeOK, Labels
<1>4. AskOK /\ Followed /\ SingletonsStay
  BY <1>1, <1>2 DEF RegistryInit, AskOK, Followed, SingletonsStay, Installing
<1>5. InstallInv
  BY <1>1 DEF Init, InstallInit, RegistryInit, InstallInv, InstallTypeOK, CreatedOK
<1>6. AuthInv
  BY <1>1, SecondsAssumption DEF Init, AuthInit, RegistryInit, AuthInv, AuthTypeOK, Tokens
<1>7. ScriptInv
  BY MaxCallsAssumption DEF Init, ScriptInit, ScriptInv, ScriptTypeOK
<1>8. SocketTypeOK
  BY MaxStartsAssumption DEF Init, SocketInit, SocketTypeOK, Numbers
<1> QED
  BY <1>3, <1>4, <1>5, <1>6, <1>7, <1>8 DEF TypeInv, RegistryInv

LEMMA TypeStep ==
  ASSUME TypeInv, [Next]_vars
  PROVE  TypeInv'
BY RegistryStep, InstallStep, AuthStep, ScriptStep, SocketStep DEF TypeInv, InstallInv

\* The types, with what they rest on, hold in every state.
THEOREM Types == Spec => []TypeInv
<1>1. Init => TypeInv
  BY TypeInit
<1>2. TypeInv /\ [Next]_vars => TypeInv'
  BY TypeStep
<1> QED
  BY <1>1, <1>2, PTL DEF Spec

\* Every variable of the server keeps its type, for any requests, any plans the
\* schemas let through, and any bounds.
THEOREM ServerTypes == Spec => []TypeOK
<1>1. TypeInv => TypeOK
  BY DEF TypeInv, RegistryInv, InstallInv, AuthInv, ScriptInv, TypeOK
<1> QED
  BY <1>1, Types, PTL

-----------------------------------------------------------------------------
(* Scripts. *)

\* A script that is in a transaction has a session with that transaction, until
\* it ends: the session is then forgotten, and the transaction not committed.
InsideIsOpen ==
  \A r \in Requests : /\ pc[r] # "done" /\ inside[r] # 0 => session[r] = "open"
                      /\ pc[r] = "waiting" => session[r] = "none"

\* The transaction of a session that is open was begun and has not been
\* committed, and those that have been were begun.
OpenIsNotCommitted ==
  /\ \A c \in committed : c[2] <= begun[c[1]]
  /\ \A r \in Requests : session[r] = "open" => tx[r] <= begun[r] /\ (pc[r] # "done" => <<r, tx[r]>> \notin committed)

\* $commit returns for what it commits, and a row is written in the transaction
\* its script thinks it is in.
CommittedIsDone == committed = done /\ \A w \in written : w.in # 0 => w.tx = w.in

HalfWritten ==
  \A r \in Requests : half[r] # 0 =>
    /\ pc[r] = "script" /\ session[r] \in {"auto", "open"}
    /\ \E w \in written : w.by = r /\ w.object = half[r] /\ w.part = 1

Other(v, w) == v.by = w.by /\ v.object = w.object /\ v.part # w.part

\* An object that is half written in a transaction is still being written, or
\* its script has ended; in both cases the transaction is not committed.
Unpaired ==
  \A w \in written : w.in # 0 =>
    \/ \E v \in written : Other(v, w)
    \/ /\ <<w.by, w.in>> \notin committed
       /\ pc[w.by] = "done" \/ (half[w.by] = w.object /\ w.part = 1)

TxInv == InsideIsOpen /\ OpenIsNotCommitted /\ CommittedIsDone /\ HalfWritten /\ Unpaired

LEMMA TxStep ==
  ASSUME TypeInv, TxInv, [Next]_vars
  PROVE  TxInv'
<1> USE DEF TxInv, InsideIsOpen, OpenIsNotCommitted, CommittedIsDone, HalfWritten, Unpaired, Other
<1>0. /\ RegistryTypeOK /\ ScriptInv /\ ScriptTypeOK /\ pc \in [Requests -> Labels]
  BY DEF TypeInv, RegistryInv, RegistryTypeOK, ScriptInv
<1>1. ASSUME NEW r \in Requests, BeginTx(r) PROVE TxInv'
  BY <1>0, <1>1 DEF BeginTx, AtCall, Call, Enter, Inside, ScriptInv, ScriptTypeOK, control
<1>2. ASSUME NEW r \in Requests, Commit(r) PROVE TxInv'
  <2>1. /\ pc[r] = "script" /\ session[r] = "open" /\ half[r] = 0 /\ tx[r] = inside[r] /\ tx[r] # 0
        /\ tx[r] <= begun[r]
        /\ session' = [session EXCEPT ![r] = "finished"] /\ inside' = [inside EXCEPT ![r] = 0]
        /\ committed' = committed \cup {<<r, tx[r]>>} /\ done' = committed'
        /\ tx' = [tx EXCEPT ![r] = tx[r]] /\ UNCHANGED <<pc, begun, written, half>>
    BY <1>0, <1>2 DEF Commit, AtCall, Call, Enter, Inside, ScriptInv, control
  <2>2. InsideIsOpen' /\ HalfWritten' /\ CommittedIsDone'
    BY <1>0, <2>1 DEF ScriptTypeOK
  <2>3. OpenIsNotCommitted'
    BY <1>0, <2>1 DEF ScriptTypeOK
  <2>4. Unpaired'
    BY <1>0, <2>1 DEF ScriptTypeOK
  <2> QED
    BY <2>2, <2>3, <2>4
<1>3. ASSUME NEW r \in Requests, ClearTx(r) \/ Rollback(r) PROVE TxInv'
  BY <1>0, <1>3 DEF ClearTx, Rollback, AtCall, Call, Enter, Inside, ScriptInv, ScriptTypeOK, control
<1>4. ASSUME NEW r \in Requests, SaveFirst(r) PROVE TxInv'
  <2> DEFINE w == [by |-> r, tx |-> IF checkSession(r) = "open" THEN tx[r] ELSE 0,
                   in |-> inside[r], object |-> calls[r] + 1, part |-> 1]
  <2>1. /\ pc[r] = "script" /\ session[r] # "finished" /\ half[r] = 0
        /\ session' = [session EXCEPT ![r] = checkSession(r)] /\ tx' = [tx EXCEPT ![r] = tx[r]]
        /\ half' = [half EXCEPT ![r] = calls[r] + 1] /\ written' = written \cup {w}
        /\ UNCHANGED <<pc, begun, committed, inside, done>>
    BY <1>4 DEF SaveFirst, Write, checkSession, AtCall, Call, Enter, control
  <2>2. /\ w.by = r /\ w.in = inside[r] /\ w.object = calls[r] + 1 /\ w.part = 1
        /\ w.in # 0 => session[r] = "open" /\ w.tx = w.in /\ <<r, w.in>> \notin committed
    BY <1>0, <2>1 DEF checkSession, ScriptInv
  <2>3. /\ checkSession(r) \in {"auto", "open"}
        /\ checkSession(r) = "open" <=> session[r] = "open"
        /\ calls[r] + 1 # 0
    BY <1>0, <2>1 DEF checkSession, ScriptTypeOK
  <2> HIDE DEF w
  <2>4. InsideIsOpen' /\ OpenIsNotCommitted' /\ CommittedIsDone'
    BY <1>0, <2>1, <2>2, <2>3 DEF ScriptTypeOK
  <2>5. HalfWritten'
    BY <1>0, <2>1, <2>2, <2>3 DEF ScriptTypeOK
  <2>6. Unpaired'
    BY <1>0, <2>1, <2>2, <2>3 DEF ScriptTypeOK
  <2> QED
    BY <2>4, <2>5, <2>6
<1>5. ASSUME NEW r \in Requests, SaveSecond(r) PROVE TxInv'
  <2> DEFINE w == [by |-> r, tx |-> IF checkSession(r) = "open" THEN tx[r] ELSE 0,
                   in |-> inside[r], object |-> half[r], part |-> 2]
  <2>1. /\ half[r] # 0 /\ half' = [half EXCEPT ![r] = 0] /\ written' = written \cup {w}
        /\ UNCHANGED <<pc, session, tx, begun, committed, inside, done>>
    BY <1>5 DEF SaveSecond, Write, checkSession, control
  <2>2. /\ w.by = r /\ w.in = inside[r] /\ w.object = half[r] /\ w.part = 2
        /\ w.in # 0 => w.tx = w.in
    BY <1>0, <2>1 DEF checkSession, ScriptInv
  <2> HIDE DEF w
  <2>3. PICK v \in written : v.by = r /\ v.object = half[r] /\ v.part = 1
    BY <2>1
  <2>4. InsideIsOpen' /\ OpenIsNotCommitted' /\ CommittedIsDone' /\ HalfWritten'
    BY <1>0, <2>1, <2>2 DEF ScriptTypeOK
  <2>5. \E u \in written' : Other(u, w)
    BY <2>1, <2>2, <2>3
  <2>6. ASSUME NEW u \in written, u.in # 0
        PROVE  \/ \E z \in written' : Other(z, u)
               \/ <<u.by, u.in>> \notin committed' /\ (pc'[u.by] = "done" \/ (half'[u.by] = u.object /\ u.part = 1))
    BY <1>0, <2>1, <2>2, <2>6 DEF ScriptTypeOK
  <2> QED
    BY <2>1, <2>4, <2>5, <2>6
<1>6. ASSUME NEW r \in Requests, ScriptQuery(r) PROVE TxInv'
  BY <1>0, <1>6 DEF ScriptQuery, AtCall, CallGetSchema, Goto, ScriptInv, ScriptTypeOK
<1>7. ASSUME NEW r \in Requests, ScriptEnds(r) PROVE TxInv'
  BY <1>0, <1>7 DEF ScriptEnds, End, Goto, ScriptInv, ScriptTypeOK
<1>8. CASE Crash
  BY <1>0, <1>8 DEF Crash, Die, Running, ScriptInv, ScriptTypeOK
<1>9. CASE UNCHANGED scriptVars /\ ~ Crash /\ \A r \in Requests : ~ Method(r)
  <2>1. UNCHANGED <<session, tx, begun, written, committed, half, inside, done>>
    BY <1>9 DEF scriptVars
  <2>2. ASSUME NEW r \in Requests
        PROVE  /\ pc[r] = "done" => pc'[r] = "done"
               /\ pc[r] = "script" => pc'[r] = "script"
               /\ pc'[r] = "waiting" => pc[r] = "waiting"
    BY <1>0, <1>9, Stays DEF Walks
  <2> QED
    BY <1>0, <2>1, <2>2 DEF ScriptTypeOK
<1> QED
  BY <1>1, <1>2, <1>3, <1>4, <1>5, <1>6, <1>7, <1>8, <1>9 DEF Next, Request, Method, Start, Tick, vars

\* The invariant of the sessions of scripts holds in every state.
THEOREM Transactions == Spec => [](TypeInv /\ TxInv)
<1>1. Init => TxInv
  BY DEF Init, ScriptInit, TxInv, InsideIsOpen, OpenIsNotCommitted, CommittedIsDone, HalfWritten,
         Unpaired
<1>2. TypeInv /\ TxInv /\ [Next]_vars => TxInv'
  BY TxStep
<1> QED
  BY <1>1, <1>2, Types, PTL DEF Spec

\* What a script saves between $beginTx and $commit is seen by others if and
\* only if $commit has returned, whatever it calls in between, however it ends
\* and whenever the process dies (Service of script/service.go).
THEOREM ScriptsAreAtomic == Spec => []TxIsAtomic
<1>1. TypeInv /\ TxInv => TxIsAtomic
  BY DEF TypeInv, ScriptInv, ScriptTypeOK, TxInv, CommittedIsDone, TxIsAtomic, Visible
<1> QED
  BY <1>1, Transactions, PTL

\* An object of which a statement failed is never committed: the call panics
\* and the script ends with its transaction (checkSession, Save).
THEOREM ScriptsSaveWhole == Spec => []TxIsWhole
<1>1. TypeInv /\ TxInv => TxIsWhole
  BY DEF TypeInv, ScriptInv, ScriptTypeOK, TxInv, CommittedIsDone, Unpaired, Other, TxIsWhole, Visible
<1> QED
  BY <1>1, Transactions, PTL

-----------------------------------------------------------------------------
(* Connections. *)

\* The reader knows its last subscriber, and there are no others than those it
\* has made.
Counted ==
  \A r \in Requests :
    /\ last[r] = starts[r]
    /\ starts[r] > 0 => pc[r] \in {"subscribe", "done"}
    /\ \A n \in Numbers : <<r, n>> \in subscribers \/ routine[r][n] # "off" => n <= starts[r]

\* While the reader reads, a connection is cancelled only by the goroutine of a
\* subscriber, which closes it and takes that subscriber out of the map.
OneIsForgotten ==
  \A r \in Requests :
    /\ pc[r] # "done" /\ starts[r] = 0 => r \notin cancelled
    /\ pc[r] # "done" /\ starts[r] = 1 /\ r \in cancelled => r \notin open /\ <<r, 1>> \notin subscribers
    /\ pc[r] = "done" /\ starts[r] = 1 /\ r \notin broken => <<r, 1>> \notin subscribers

SocketInv == Counted /\ OneIsForgotten /\ ServedIsKnown

LEMMA SocketKept ==
  ASSUME TypeInv, SocketInv, [Next]_vars
  PROVE  SocketInv'
<1> USE DEF SocketInv, Counted, OneIsForgotten, ServedIsKnown, Serving
<1>0. /\ RegistryTypeOK /\ SocketTypeOK /\ pc \in [Requests -> Labels]
      /\ Numbers \subseteq Nat \ {0}
  BY DEF TypeInv, RegistryInv, RegistryTypeOK, Numbers
<1>1. ASSUME NEW r \in Requests, ReadStart(r) PROVE SocketInv'
  BY <1>0, <1>1 DEF ReadStart, Routine, SocketTypeOK, control
<1>2. ASSUME NEW r \in Requests, ReadStop(r) PROVE SocketInv'
  BY <1>0, <1>2 DEF ReadStop, unsubscribe, End, Goto, SocketTypeOK
<1>3. ASSUME NEW r \in Requests, ReadFails(r) PROVE SocketInv'
  BY <1>0, <1>3 DEF ReadFails, End, Goto, SocketTypeOK
<1>4. ASSUME NEW r \in Requests, NEW n \in Numbers, Receives(r, n) \/ Writes(r, n) \/ ContextIsDone(r, n)
      PROVE  SocketInv'
  <2>1. /\ \E l \in {"select", "write", "ended"} : routine' = [routine EXCEPT ![r][n] = l]
        /\ routine[r][n] \in {"select", "write"}
        /\ routine'[r][n] \in {"select", "write"} \/ r \in cancelled
        /\ UNCHANGED <<pc, starts, last, subscribers, open, cancelled, broken>>
    BY <1>0, <1>4 DEF Receives, Writes, ContextIsDone, Routine, SocketTypeOK, control
  <2>2. Counted' /\ OneIsForgotten'
    BY <1>0, <2>1 DEF SocketTypeOK
  <2>3. ServedIsKnown'
    BY <1>0, <2>1 DEF SocketTypeOK
  <2> QED
    BY <2>2, <2>3
<1>5. ASSUME NEW r \in Requests, NEW n \in Numbers, WriteIsRefused(r, n) \/ ChannelCloses(r, n)
      PROVE  SocketInv'
  <2>1. /\ \E l \in {"select", "ended"} : routine' = [routine EXCEPT ![r][n] = l]
        /\ routine[r][n] # "off" /\ n # 0
        /\ cancelled' = cancelled \cup {r} /\ open' = open \ {r}
        /\ subscribers' = subscribers \ {<<r, n>>}
        /\ UNCHANGED <<pc, starts, last, broken>>
    BY <1>0, <1>5 DEF WriteIsRefused, ChannelCloses, Routine, unsubscribe, control
  <2>2. Counted'
    BY <1>0, <2>1 DEF SocketTypeOK
  <2>3. OneIsForgotten'
    <3>1. n <= starts[r] /\ starts[r] \in Nat /\ n \in Nat
      <4>1. starts[r] \in 0 .. MaxStarts /\ n \in Nat
        BY <1>0 DEF SocketTypeOK
      <4>2. n <= starts[r]
        BY <2>1
      <4> QED
        BY <4>1, <4>2
    <3>2. starts[r] # 0 /\ (starts[r] = 1 => n = 1)
      BY <2>1, <3>1
    <3>3. starts[r] = 1 => <<r, 1>> \notin subscribers'
      BY <2>1, <3>2
    <3>4. ASSUME NEW q \in Requests \ {r}
          PROVE  /\ q \in cancelled' <=> q \in cancelled
                 /\ q \in open' <=> q \in open
                 /\ <<q, 1>> \in subscribers' <=> <<q, 1>> \in subscribers
      BY <2>1
    <3> QED
      BY <2>1, <3>2, <3>3, <3>4
  <2>4. ServedIsKnown'
    BY <1>0, <2>1 DEF SocketTypeOK
  <2> QED
    BY <2>2, <2>3, <2>4
<1>6. CASE Crash
  BY <1>0, <1>6 DEF Crash, Die, Running, SocketTypeOK
<1>7. CASE UNCHANGED socketVars /\ ~ Crash /\ \A r \in Requests : ~ Subscription(r)
  <2>1. UNCHANGED <<starts, last, subscribers, open, cancelled, routine, broken>>
    BY <1>7 DEF socketVars
  <2>2. ASSUME NEW r \in Requests
        PROVE  /\ pc[r] = "done" => pc'[r] = "done"
               /\ pc[r] = "subscribe" => pc'[r] = "subscribe"
               /\ starts[r] = 0 \/ pc'[r] = pc[r]
    BY <1>0, <1>7, Stays DEF Walks, SocketTypeOK
  <2> QED
    BY <1>0, <2>1, <2>2 DEF SocketTypeOK
<1> QED
  BY <1>1, <1>2, <1>3, <1>4, <1>5, <1>6, <1>7 DEF Next, Request, Subscription, Start, Tick, vars

\* The invariant of connections and their subscribers holds in every state.
THEOREM Connections == Spec => [](TypeInv /\ SocketInv)
<1>1. Init => SocketInv
  BY DEF Init, SocketInit, SocketInv, Counted, OneIsForgotten, ServedIsKnown, Serving
<1>2. TypeInv /\ SocketInv /\ [Next]_vars => SocketInv'
  BY SocketKept
<1> QED
  BY <1>1, <1>2, Types, PTL DEF Spec

\* A subscription that has not been cancelled is in the map of subscribers,
\* however many its connection has and whatever becomes of the others.
THEOREM ServedAreKnown == Spec => []ServedIsKnown
<1>1. SocketInv => ServedIsKnown
  BY DEF SocketInv
<1> QED
  BY <1>1, Connections, PTL

\* A connection with one subscription leaves nothing in the map, whether its
\* reader or its goroutine finds out first that it has ended.
THEOREM ConnectionsEndClean == Spec => []NothingIsLeftBehind
<1>1. TypeInv /\ SocketInv => NothingIsLeftBehind
  BY DEF TypeInv, SocketTypeOK, SocketInv, Counted, OneIsForgotten, NothingIsLeftBehind, Numbers
<1> QED
  BY <1>1, Connections, PTL
=============================================================================
