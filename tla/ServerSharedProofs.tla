------------------------- MODULE ServerSharedProofs -------------------------
(***************************************************************************)
(* What requests share, for any requests, plans and bounds: the singletons *)
(* of the modules, the database that an install fills, and TokenCache.     *)
(***************************************************************************)
EXTENDS ServerProofs

-----------------------------------------------------------------------------
(* The singletons. *)

\* Only a server that is up runs requests.
RunningIsUp == \A r \in Requests : Running(r) => up

LEMMA RunningStep ==
  ASSUME RegistryTypeOK, RunningIsUp, [Next]_vars
  PROVE  RunningIsUp'
<1> USE DEF RunningIsUp, Running
<1>0. pc \in [Requests -> Labels]
  BY DEF RegistryTypeOK
<1>1. ASSUME NEW q \in Requests, Request(q) PROVE up' = up /\ (pc' = pc \/ up)
  <2>1. CASE TransContext(q)
    BY <2>1 DEF TransContext, server
  <2>2. CASE GetSchema(q)
    BY <2>2, GetSchemaMoves
  <2>3. CASE Resolvers(q)
    BY <2>3, ResolversMove DEF server
  <2>4. CASE InstallResolve(q)
    BY <2>4, InstallMoves DEF Installing
  <2>5. CASE Authenticate(q)
    BY <2>5, AuthenticateMoves DEF server
  <2>6. CASE Method(q)
    BY <2>6, MethodMoves DEF untouched, server
  <2>7. CASE Subscription(q)
    BY <2>7, SubscriptionMoves DEF elsewhere, server
  <2> QED
    BY <1>1, <2>1, <2>2, <2>3, <2>4, <2>5, <2>6, <2>7 DEF Request
<1>2. CASE Crash
  BY <1>0, <1>2 DEF Crash, Die
<1>3. CASE Start \/ Tick \/ (\E q \in Requests : EventInit(q)) \/ UNCHANGED vars
  BY <1>3 DEF Start, Tick, EventInit, vars, control, registryVars, server
<1> QED
  BY <1>1, <1>2, <1>3 DEF Next

InitStage(m) == CASE m = "app" -> 1 [] m = "imexport" -> 6 [] m = "publish" -> 9 [] m = "snapshot" -> 11

\* The request has initialised the singleton, or found no reason to.
Ready(r, m) ==
  /\ Running(r)
  /\ pc[r] = "schema" /\ after[r] \in {"resolve", "subscribe"} => stage[r] > InitStage(m)

\* A server that is not installed has initialised nothing, one that is down is
\* not installed.
NotInstalled == (installed => up) /\ (~ installed => \A m \in Singletons : moduleApp[m] = None)

\* What a singleton that a request has initialised holds.
HoldsOwnOrMixed ==
  \A r \in Requests, m \in Singletons :
    plan[r].app # None /\ Ready(r, m) => moduleApp[m] \in {plan[r].app, None} \cup mixed[r]

SingletonInv == NotInstalled /\ HoldsOwnOrMixed /\ AppsAreOwnOrMixed

\* Advance makes the singletons ready whose stage it leaves.
LEMMA AdvanceReady ==
  ASSUME RegistryTypeOK, NEW r \in Requests, pc[r] = "schema", Advance(r),
         NEW q \in Requests, NEW m \in Singletons, Ready(q, m)'
  PROVE  Ready(q, m) \/ (q = r /\ stage[r] = InitStage(m))
<1>1. InitStage(m) \in {1, 6, 9, 11}
  BY DEF InitStage, Singletons
<1>2. CASE q # r
  BY <1>2, AdvanceType DEF Ready, Running, RegistryTypeOK, InitStage, Advance, Goto
<1>3. CASE q = r /\ stage[r] < Len(Steps)
  <2>1. pc' = pc /\ after' = after /\ stage'[r] = stage[r] + 1 /\ stage[r] \in 1 .. 12
    BY <1>3, StepsLen DEF Advance, RegistryTypeOK
  <2>2. Running(r)
    BY DEF Running
  <2>3. after[r] \in {"resolve", "subscribe"} => stage[r] + 1 > InitStage(m)
    BY <1>3, <2>1 DEF Ready, InitStage
  <2> QED
    BY ONLY <1>1, <1>3, <2>1, <2>2, <2>3, pc[r] = "schema" DEF Ready
<1>4. CASE q = r /\ ~ (stage[r] < Len(Steps))
  <2>1. stage[r] = 12
    <3>1. stage[r] \in 1 .. 12 /\ ~ (stage[r] < 12)
      BY <1>4, StepsLen DEF RegistryTypeOK
    <3> QED
      BY ONLY <3>1
  <2>2. InitStage(m) < 12 /\ InitStage(m) # 0
    BY <1>1
  <2>3. Ready(q, m)
    BY <1>4, <2>1, <2>2 DEF Ready, Running, InitStage
  <2> QED
    BY <2>3
<1> QED
  BY <1>2, <1>3, <1>4

LEMMA FieldsAreOwn ==
  ASSUME RegistryTypeOK, HoldsOwnOrMixed, NEW r \in Requests, AtFields(r), plan[r].app # None,
         NEW f \in FieldsAt(Steps[stage[r]])
  PROVE  f[2] \in {plan[r].app, None} \cup mixed[r]
<1>1. stage[r] \in 1 .. 12 /\ pc[r] = "schema" /\ Running(r)
  BY StepsLen DEF RegistryTypeOK, AtFields, Running
<1>2. CASE stage[r] \in {2, 3}
  <2>1. Ready(r, "app")
    BY <1>1, <1>2, SMTT(20) DEF Ready, InitStage
  <2>2. f[2] = moduleApp["app"]
    BY <1>2, SMTT(20) DEF Steps, FieldsAt, OfApp
  <2> QED
    BY <2>1, <2>2 DEF HoldsOwnOrMixed, Singletons
<1>3. CASE stage[r] = 10
  <2>1. Ready(r, "publish")
    BY <1>1, <1>3 DEF Ready, InitStage
  <2>2. f[2] = moduleApp["publish"]
    BY <1>3, SMTT(20) DEF Steps, FieldsAt, OfApp
  <2> QED
    BY <2>1, <2>2 DEF HoldsOwnOrMixed, Singletons
<1>4. CASE stage[r] \in {1, 6, 9, 11}
  BY <1>4, SMTT(20) DEF AtFields, Steps
<1>5. CASE stage[r] \in {4, 5, 7, 8, 12}
  BY <1>5, SMTT(20) DEF Steps, FieldsAt, When
<1> QED
  BY <1>1, <1>2, <1>3, <1>4, <1>5

LEMMA SingletonStep ==
  ASSUME TypeInv, RunningIsUp, SingletonInv, [Next]_vars
  PROVE  SingletonInv'
<1> USE DEF SingletonInv, NotInstalled, AppsAreOwnOrMixed
<1>0. RegistryTypeOK /\ pc \in [Requests -> Labels] /\ moduleApp \in [Singletons -> Apps \cup {None}]
  BY DEF TypeInv, RegistryInv, RegistryTypeOK
<1> DEFINE Shared == <<moduleApp, plan, offered, used, mixed>>
<1>1. ASSUME NEW r \in Requests, TransContext(r) PROVE SingletonInv'
  <2>1. /\ UNCHANGED <<Shared, installed, up>>
        /\ pc' = [pc EXCEPT ![r] = "schema"] /\ stage' = [stage EXCEPT ![r] = 1]
        /\ \E l \in {"resolve", "subscribe"} : after' = [after EXCEPT ![r] = l]
    BY <1>1 DEF TransContext, CallGetSchema, Goto, server, seen
  <2>2. ASSUME NEW q \in Requests, NEW m \in Singletons, Ready(q, m)' PROVE Ready(q, m)
    BY <1>0, <2>1, <2>2 DEF Ready, Running, InitStage, Singletons, RegistryTypeOK
  <2> QED
    BY <2>1, <2>2 DEF HoldsOwnOrMixed
<1>2. ASSUME NEW r \in Requests, InitSkips(r) PROVE SingletonInv'
  <2>1. /\ UNCHANGED <<Shared, installed, up>> /\ pc[r] = "schema" /\ Advance(r)
        /\ plan[r].app = None \/ ~ installed
    BY <1>2 DEF InitSkips, AtInit, Skips, server, seen
  <2>2. HoldsOwnOrMixed'
    BY <1>0, <2>1, AdvanceReady DEF HoldsOwnOrMixed
  <2> QED
    BY <2>1, <2>2
<1>3. ASSUME NEW r \in Requests, InitModule(r) PROVE SingletonInv'
  <2>1. /\ installed /\ up /\ pc[r] = "schema" /\ Advance(r) /\ Steps[stage[r]][2] = "init"
        /\ moduleApp' = [moduleApp EXCEPT ![Module(r)] = plan[r].app]
        /\ mixed' = [q \in Requests |-> IF q # r /\ Running(q) THEN mixed[q] \cup {plan[r].app} ELSE mixed[q]]
        /\ UNCHANGED <<installed, up, plan, offered, used>>
    BY <1>3 DEF InitModule, AtInit, Skips, seen
  <2>2. stage[r] \in 1 .. 12
    BY <1>0, StepsLen DEF RegistryTypeOK
  <2>3. ASSUME NEW m \in Singletons, stage[r] = InitStage(m) PROVE Module(r) = m
    BY <2>1, <2>2, <2>3 DEF Module, InitStage, Singletons, Steps
  <2>4. ASSUME NEW q \in Requests, NEW m \in Singletons, plan[q].app # None, Ready(q, m)'
        PROVE  moduleApp'[m] \in {plan[q].app, None} \cup mixed'[q]
    <3>1. CASE q = r
      BY <1>0, <2>1, <2>3, <2>4, <3>1, AdvanceReady DEF HoldsOwnOrMixed
    <3>2. CASE q # r
      <4>1. Ready(q, m) /\ Running(q)
        BY <1>0, <2>1, <2>4, <3>2, AdvanceReady DEF Ready
      <4> QED
        BY <1>0, <2>1, <2>4, <3>2, <4>1 DEF HoldsOwnOrMixed
    <3> QED
      BY <3>1, <3>2
  <2>5. HoldsOwnOrMixed'
    BY <2>1, <2>4 DEF HoldsOwnOrMixed
  <2> QED
    BY <2>1, <2>5
<1>4. ASSUME NEW r \in Requests, ReadFields(r) PROVE SingletonInv'
  <2>1. /\ pc[r] = "schema" /\ AtFields(r) /\ Advance(r) /\ Steps[stage[r]][2] # "init"
        /\ offered' = [offered EXCEPT ![r] = @ \cup FieldsAt(Steps[stage[r]])]
        /\ UNCHANGED <<moduleApp, installed, up, plan, used, mixed>>
    BY <1>4 DEF ReadFields, AtFields, server
  <2>2. ASSUME NEW m \in Singletons PROVE stage[r] # InitStage(m)
    BY <2>1 DEF InitStage, Singletons, Steps
  <2>3. HoldsOwnOrMixed'
    BY <1>0, <2>1, <2>2, AdvanceReady DEF HoldsOwnOrMixed
  <2>4. AppsAreOwnOrMixed'
    BY <1>0, <2>1, FieldsAreOwn DEF RegistryTypeOK
  <2> QED
    BY <2>1, <2>3, <2>4
<1>5. ASSUME NEW r \in Requests, Resolve(r) PROVE SingletonInv'
  <2>1. PICK f \in offered[r] : used' = [used EXCEPT ![r] = {f[2]} \ {None}]
    BY <1>5 DEF Resolve
  <2>2. /\ UNCHANGED <<moduleApp, installed, up, plan, offered, mixed, after, stage>>
        /\ pc[r] = "resolve" /\ \E l \in Labels \ {"schema"} : pc' = [pc EXCEPT ![r] = l]
    <3>1. UNCHANGED <<moduleApp, installed, up, plan, offered, mixed, after, stage>> /\ pc[r] = "resolve"
      BY <1>5 DEF Resolve, server, Goto, End
    <3>2. Resolvers(r)
      BY <1>5 DEF Resolvers
    <3> QED
      BY <1>0, <3>1, <3>2, ResolversMove DEF Labels
  <2>3. HoldsOwnOrMixed'
    BY <1>0, <2>2 DEF HoldsOwnOrMixed, Ready, Running
  <2>4. AppsAreOwnOrMixed'
    BY <1>0, <2>1, <2>2 DEF RegistryTypeOK
  <2> QED
    BY <2>2, <2>3, <2>4
<1>6. ASSUME NEW r \in Requests, NEW m \in {"snapshot", "imexport"},
             pc[r] \in {"makeVersion", "saveVersion", "importApp", "saveApp"},
             Works(r, m) \/ UNCHANGED used, offered' \in {offered, [offered EXCEPT ![r] = {}]},
             UNCHANGED <<moduleApp, installed, up, plan, mixed>>,
             \/ \E l \in {"done", "saveApp"} : pc' = [pc EXCEPT ![r] = l] /\ UNCHANGED after
             \/ pc' = [pc EXCEPT ![r] = "schema"] /\ after' = [after EXCEPT ![r] = "saveVersion"],
             \A q \in Requests \ {r} : stage'[q] = stage[q]
      PROVE  SingletonInv'
  <2>1. ASSUME NEW q \in Requests, NEW k \in Singletons, Ready(q, k)' PROVE Ready(q, k)
    <3>1. CASE q = r
      BY <1>6, <3>1 DEF Ready, Running
    <3>2. CASE q # r
      BY <1>0, <1>6, <2>1, <3>2 DEF Ready, Running, RegistryTypeOK
    <3> QED
      BY <3>1, <3>2
  <2>5. HoldsOwnOrMixed'
    BY <1>6, <2>1 DEF HoldsOwnOrMixed
  <2>2. Ready(r, m) /\ m \in Singletons
    BY <1>6 DEF Ready, Running, Singletons
  <2>3. plan[r].app # None => moduleApp[m] \in {plan[r].app, None} \cup mixed[r]
    BY <2>2 DEF HoldsOwnOrMixed
  <2>4. AppsAreOwnOrMixed'
    <3>1. \A q \in Requests : offered'[q] \subseteq offered[q] /\ (q # r => used'[q] = used[q])
      BY <1>0, <1>6 DEF RegistryTypeOK, Works
    <3>2. used'[r] \subseteq used[r] \cup {moduleApp[m]}
      BY <1>0, <1>6 DEF RegistryTypeOK, Works
    <3> QED
      BY <1>6, <2>3, <3>1, <3>2
  <2> QED
    BY <1>6, <2>4, <2>5
<1>7. ASSUME NEW r \in Requests, MakeVersion(r) \/ SaveVersion(r) PROVE SingletonInv'
  BY <1>0, <1>6, <1>7 DEF MakeVersion, SaveVersion, CallGetSchema, Goto, End, server, RegistryTypeOK
<1>8. ASSUME NEW r \in Requests, ImportApp(r) \/ SaveApp(r) PROVE SingletonInv'
  BY <1>0, <1>6, <1>8 DEF ImportApp, SaveApp, Goto, End, server, RegistryTypeOK
<1>9. ASSUME NEW r \in Requests, Running(r), NEW l \in Labels \ {"schema"},
             pc' = [pc EXCEPT ![r] = l], pc[r] # "schema" \/ l = "done",
             UNCHANGED <<Shared, up, after, stage>>, installed' \in {installed, TRUE}
      PROVE  SingletonInv'
  <2>1. ASSUME NEW q \in Requests, NEW m \in Singletons, Ready(q, m)' PROVE Ready(q, m)
    BY <1>0, <1>9, <2>1 DEF Ready, Running
  <2>2. HoldsOwnOrMixed'
    BY <1>9, <2>1 DEF HoldsOwnOrMixed
  <2>3. NotInstalled'
    <3>1. up /\ up' = up /\ moduleApp' = moduleApp /\ installed' \in {installed, TRUE}
      BY <1>9 DEF RunningIsUp
    <3>2. up'
      BY <3>1, Zenon
    <3>3. ~ installed' => ~ installed
      BY <3>1, Zenon
    <3> QED
      BY <3>1, <3>2, <3>3
  <2>4. AppsAreOwnOrMixed'
    BY <1>9
  <2> QED
    BY <2>2, <2>3, <2>4
<1>10. ASSUME NEW r \in Requests, InitPanics(r) \/ NotOffered(r) \/ ResolvePanics(r) \/ Post(r)
       PROVE  SingletonInv'
  <2>1. /\ pc' = [pc EXCEPT ![r] = "done"] /\ UNCHANGED <<Shared, up, installed, after, stage>>
        /\ pc[r] \in {"schema", "resolve", "makeVersion", "importApp", "save"}
    BY <1>10 DEF InitPanics, NotOffered, ResolvePanics, Post, AtInit, End, Goto, server, seen
  <2> QED
    BY <1>9, <2>1 DEF Labels, Running
<1>11. ASSUME NEW r \in Requests, InstallResolve(r) \/ Authenticate(r) PROVE SingletonInv'
  <2>1. PICK l \in Labels : pc' = [pc EXCEPT ![r] = l] /\ Walks(pc[r], l)
    BY <1>0, <1>11, InstallMoves, AuthenticateMoves
  <2>2. \/ Installing(r)
        \/ pc[r] \in {"login", "changePassword", "update", "generateToken", "loadUser", "logout", "save"}
        \/ pc[r] = "script" /\ pc' = pc
    BY <1>0, <1>11, InstallMoves, AuthenticateMoves
  <2>3. pc[r] # "schema" /\ l # "schema" /\ Running(r)
    BY <1>0, <2>1, <2>2 DEF Walks, Installing, Running
  <2>4. UNCHANGED <<Shared, up>>
    BY <1>0, <1>11, InstallMoves, AuthenticateMoves DEF seen, server
  <2>5. UNCHANGED <<after, stage>> /\ installed' \in {installed, TRUE}
    BY <1>11 DEF InstallResolve, CreateTable, CreateTableFails, InsertApp, SaveAdmin, SetInstalled,
                 InstallFails, Authenticate, CheckPassword, ChangePassword, GenerateToken, LoadUser,
                 AuthFails, SaveUser, Logout, End, server, control
  <2> QED
    BY <1>9, <2>1, <2>3, <2>4, <2>5
<1>12. ASSUME NEW r \in Requests, Method(r) PROVE SingletonInv'
  <2>1. CASE ScriptQuery(r)
    <3>1. /\ pc[r] = "script" /\ offered' = [offered EXCEPT ![r] = {}]
          /\ pc' = [pc EXCEPT ![r] = "schema"] /\ after' = [after EXCEPT ![r] = "script"]
          /\ UNCHANGED <<moduleApp, plan, used, mixed, up, installed>>
          /\ \A q \in Requests \ {r} : stage'[q] = stage[q]
      BY <1>0, <2>1 DEF ScriptQuery, AtCall, CallGetSchema, Goto, untouched, server, RegistryTypeOK
    <3>2. HoldsOwnOrMixed'
      BY <1>0, <3>1 DEF HoldsOwnOrMixed, Ready, Running, RegistryTypeOK
    <3>3. \A q \in Requests : offered'[q] \subseteq offered[q]
      BY <1>0, <3>1 DEF RegistryTypeOK
    <3> QED
      BY <3>1, <3>2, <3>3
  <2>2. CASE ~ ScriptQuery(r)
    <3>1. /\ UNCHANGED <<Shared, up, installed, after, stage>>
          /\ \E l \in {"script", "done"} : pc' = [pc EXCEPT ![r] = l]
      BY <1>0, <1>12, <2>2, MethodMoves
      DEF Method, BeginTx, Commit, ClearTx, Rollback, SaveFirst, SaveSecond, ScriptEnds, AtCall, Call, End,
          Goto, untouched, control, seen, server
    <3>2. pc[r] = "script"
      BY <1>0, <1>12, MethodMoves
    <3> QED
      BY <1>9, <3>1, <3>2 DEF Labels, Running
  <2> QED
    BY <2>1, <2>2
<1>13. CASE UNCHANGED <<Shared, up, installed, after, stage>> /\
            (pc' = pc \/ \E r \in Requests : pc[r] = "subscribe" /\ pc' = [pc EXCEPT ![r] = "done"])
  <2>1. ASSUME NEW q \in Requests, NEW m \in Singletons, Ready(q, m)' PROVE Ready(q, m)
    BY <1>0, <1>13, <2>1 DEF Ready, Running
  <2> QED
    BY <1>13, <2>1 DEF HoldsOwnOrMixed
<1>14. ASSUME NEW r \in Requests, Subscription(r) PROVE SingletonInv'
  <2>1. UNCHANGED <<after, stage>>
    BY <1>14 DEF Subscription, ReadStart, ReadStop, ReadFails, Receives, Writes, WriteIsRefused,
                 ChannelCloses, ContextIsDone, End, control
  <2> QED
    BY <1>0, <1>13, <1>14, <2>1, SubscriptionMoves DEF elsewhere, server, seen
<1>15. CASE Crash
  <2>1. /\ UNCHANGED <<plan, offered, used, mixed>> /\ ~ installed'
        /\ moduleApp' = [m \in Singletons |-> None]
    BY <1>15 DEF Crash, Die, seen
  <2> QED
    BY <2>1 DEF HoldsOwnOrMixed
<1>16. CASE Start
  <2>1. /\ UNCHANGED <<Shared, after, stage, pc>> /\ ~ up /\ up'
    BY <1>16 DEF Start, control, seen
  <2> QED
    BY <2>1 DEF HoldsOwnOrMixed, Ready, Running
<1>17. CASE Tick \/ UNCHANGED vars
  BY <1>13, <1>17 DEF Tick, vars, registryVars, control, seen, server
<1>18. ASSUME NEW r \in Requests, EventInit(r) PROVE SingletonInv'
  <2>1. /\ up /\ installed
        /\ \E m \in Singletons : moduleApp' = [moduleApp EXCEPT ![m] = plan[r].app]
        /\ mixed' = [q \in Requests |-> IF q # r /\ Running(q) THEN mixed[q] \cup {plan[r].app} ELSE mixed[q]]
        /\ UNCHANGED <<installed, up, plan, offered, used, pc, after, stage>>
    <3>1. event[r] \in 0 .. 4 /\ event[r] # 0
      BY <1>0, <1>18, InitOrderLen DEF EventInit, RegistryTypeOK
    <3>2. InitOrder[event[r]] \in Singletons
      BY <3>1 DEF InitOrder, Singletons
    <3> QED
      BY <1>18, <3>2 DEF EventInit, Skips, control, seen
  <2>2. ASSUME NEW q \in Requests, NEW m \in Singletons, plan[q].app # None, Ready(q, m)'
        PROVE  moduleApp'[m] \in {plan[q].app, None} \cup mixed'[q]
    <3>1. Ready(q, m) /\ Running(q)
      BY <2>1, <2>2 DEF Ready, Running
    <3>2. moduleApp[m] \in {plan[q].app, None} \cup mixed[q]
      BY <2>2, <3>1 DEF HoldsOwnOrMixed
    <3>3. moduleApp'[m] \in {moduleApp[m], plan[r].app}
      BY <1>0, <2>1
    <3> QED
      BY <2>1, <3>1, <3>2, <3>3
  <2>3. HoldsOwnOrMixed'
    BY <2>1, <2>2 DEF HoldsOwnOrMixed
  <2> QED
    BY <2>1, <2>3
<1> QED
  BY <1>1, <1>2, <1>3, <1>4, <1>5, <1>7, <1>8, <1>10, <1>11, <1>12, <1>14, <1>15, <1>16, <1>17, <1>18
  DEF Next, Request, GetSchema, Resolvers

-----------------------------------------------------------------------------
\* The invariant of the singletons holds in every state.
THEOREM SingletonsHold == Spec => [](TypeInv /\ RunningIsUp /\ SingletonInv)
<1>1. Init => RunningIsUp /\ SingletonInv
  BY DEF Init, RegistryInit, RunningIsUp, Running, SingletonInv, NotInstalled, HoldsOwnOrMixed, Ready,
         AppsAreOwnOrMixed
<1>2. TypeInv /\ RunningIsUp /\ SingletonInv /\ [Next]_vars => RunningIsUp' /\ SingletonInv'
  BY RunningStep, SingletonStep DEF TypeInv, RegistryInv
<1> QED
  BY <1>1, <1>2, Types, PTL DEF Spec

\* A request that names an application never works with one that was in a
\* singleton when it came: only with its own, and those that other requests, and
\* the events of earlier ones, put there meanwhile (Init and the resolvers of the
\* modules, distributeChanged).
THEOREM AppsAreOwn == Spec => []AppsAreOwnOrMixed
<1>1. SingletonInv => AppsAreOwnOrMixed
  BY DEF SingletonInv
<1> QED
  BY <1>1, SingletonsHold, PTL

-----------------------------------------------------------------------------
(* The installation. *)

NoPasswords == \A u \in Users : password[u] = None

\* The install that has created a table and not yet ended.
Owner(r) == HasTables(r) \/ (pc[r] = "install" /\ created[r] # {})

\* There is one at most, whatever became of those before: it can only have
\* created App if App was not there, and then the server is not installed.  Until
\* it saves the administrator nobody has a password, so that no password is
\* replaced by an install.
OwnerInv ==
  /\ \A r \in Requests :
       /\ HasTables(r) => created[r] = {"App", "User"} /\ "User" \in tables
       /\ Owner(r) => /\ ~ installed /\ "App" \in tables
                      /\ \A q \in Requests : Owner(q) => q = r
       /\ Owner(r) /\ pc[r] # "setInstalled" => NoPasswords
       /\ pc[r] = "install" /\ created[r] # {} => "User" \notin tables
  /\ NoPasswords \/ "User" \in tables
  /\ installed \/ "User" \in tables => "App" \in tables

\* What writes is offered, and runs, only on a server that is installed.
Writers == {"importApp", "save", "script"}

WritersInstalled ==
  \A r \in Requests :
    /\ pc[r] = "waiting" => offered[r] = {}
    /\ Running(r) /\ (\/ pc[r] \in Writers
                      \/ pc[r] = "schema" /\ after[r] = "script"
                      \/ \E f \in offered[r] : f[1] \in Writers) => installed

\* Nobody but an install, and the end of the process, changes who installs.
LEMMA InstallRests ==
  ASSUME RegistryTypeOK, CreatedOK, [Next]_vars, ~ Crash, \A r \in Requests : ~ InstallResolve(r),
         NEW r \in Requests
  PROVE  /\ UNCHANGED <<created, interrupted>>
         /\ Installing(r) => pc'[r] = pc[r]
         /\ Owner(r)' <=> Owner(r)
         /\ HasTables(r)' <=> HasTables(r)
<1>1. UNCHANGED <<created, interrupted>>
  BY DEF Next, Request, Start, vars, installVars
<1>2. /\ Installing(r) => pc'[r] = pc[r]
      /\ pc'[r] = "install" => pc[r] \in {"install", "resolve"}
      /\ HasTables(r)' => Installing(r)
  BY Stays DEF Walks, Installing, Running, HasTables
<1>3. pc[r] = "resolve" => created[r] = {}
  BY DEF CreatedOK, Installing
<1> QED
  BY <1>1, <1>2, <1>3 DEF Installing, Running, Owner, HasTables

LEMMA OwnerStep ==
  ASSUME TypeInv, RunningIsUp, WritersInstalled, OwnerInv, [Next]_vars
  PROVE  OwnerInv'
<1> USE UsersAssumption DEF OwnerInv, NoPasswords, Owner, HasTables
<1>0. /\ RegistryTypeOK /\ pc \in [Requests -> Labels] /\ CreatedOK /\ RegistryInv
      /\ password \in [Users -> Passwords \cup {None}] /\ created \in [Requests -> SUBSET {"App", "User"}]
  BY DEF TypeInv, RegistryInv, RegistryTypeOK, InstallInv, InstallTypeOK
<1>1. ASSUME NEW r \in Requests, CreateTable(r) PROVE OwnerInv'
  <2>1. /\ pc[r] = "install" /\ created[r] \in {{}, {"App"}} /\ UNCHANGED <<password, plan, installed>>
        /\ created[r] = {} => /\ created' = [created EXCEPT ![r] = {"App"}] /\ "App" \notin tables
                              /\ tables' = tables \cup {"App"} /\ UNCHANGED pc
        /\ created[r] = {"App"} => /\ created' = [created EXCEPT ![r] = {"App", "User"}]
                                   /\ tables' = tables \cup {"User"}
                                   /\ pc' = [pc EXCEPT ![r] = "insertApp"]
    <3>1. "App" # "User"
      OBVIOUS
    <3>2. PICK t \in {"App", "User"} :
            /\ pc[r] = "install" /\ t \notin tables /\ tables' = tables \cup {t}
            /\ created' = [created EXCEPT ![r] = @ \cup {t}]
            /\ IF t = "User" THEN pc' = [pc EXCEPT ![r] = "insertApp"] ELSE UNCHANGED pc
            /\ UNCHANGED <<password, plan, installed>>
            /\ created[r] = {} => t = "App"
            /\ created[r] = {"App"} => t = "User"
      BY <1>0, <1>1, CreatedTables DEF CreateTable, Goto, server
    <3>3. created[r] \in {{}, {"App"}}
      BY <1>0, <3>2 DEF CreatedOK
    <3>4. CASE created[r] = {}
      BY <1>0, <3>1, <3>2, <3>4
    <3>5. CASE created[r] = {"App"}
      <4>1. created[r] \cup {"User"} = {"App", "User"} /\ created[r] # {}
        BY <3>5
      <4> QED
        BY <1>0, <3>1, <3>2, <3>5, <4>1
    <3> QED
      BY <3>3, <3>4, <3>5
  <2>2. CASE created[r] = {}
    BY <1>0, <2>1, <2>2
  <2>3. CASE created[r] = {"App"}
    BY <1>0, <2>1, <2>3
  <2> QED
    BY <2>1, <2>2, <2>3
<1>2. ASSUME NEW r \in Requests, CreateTableFails(r) PROVE OwnerInv'
  <2>1. /\ pc[r] = "install" /\ tables' = tables \ created[r]
        /\ created' = [created EXCEPT ![r] = {}] /\ pc' = [pc EXCEPT ![r] = "done"]
        /\ UNCHANGED <<password, plan, installed>>
    BY <1>2 DEF CreateTableFails, End, Goto, server
  <2>2. CASE created[r] = {}
    BY <1>0, <2>1, <2>2
  <2>3. CASE created[r] # {}
    BY <1>0, <2>1, <2>3
  <2> QED
    BY <2>2, <2>3
<1>3. ASSUME NEW r \in Requests, SaveAdmin(r) PROVE OwnerInv'
  <2>1. /\ pc[r] = "saveAdmin" /\ pc' = [pc EXCEPT ![r] = "setInstalled"]
        /\ password' = [password EXCEPT ![plan[r].user] = plan[r].new]
        /\ UNCHANGED <<tables, plan, created, installed>>
    BY <1>0, <1>3 DEF SaveAdmin, Goto, server, installVars, RegistryInv, Followed, AskOK, Installing, Running
  <2> QED
    BY <1>0, <2>1
<1>4. ASSUME NEW r \in Requests, InsertApp(r) \/ SetInstalled(r) \/ InstallFails(r) PROVE OwnerInv'
  <2>1. /\ HasTables(r) /\ UNCHANGED <<tables, password, plan, created>>
        /\ \E l \in {"saveAdmin", "setInstalled", "done"} : pc' = [pc EXCEPT ![r] = l]
        /\ pc'[r] # "done" => pc[r] = "insertApp" /\ UNCHANGED installed
        /\ installed' \in {installed, TRUE}
    BY <1>0, <1>4 DEF InsertApp, SetInstalled, InstallFails, End, Goto, database, server, installVars
  <2>2. Owner(r) /\ \A q \in Requests : Owner(q) => q = r
    BY <2>1
  <2> QED
    BY <1>0, <2>1, <2>2
<1>5. ASSUME NEW r \in Requests, SaveUser(r), UNCHANGED installVars PROVE OwnerInv'
  <2>1. /\ pc[r] \in {"save", "script"} /\ "User" \in tables
        /\ pc' = pc \/ pc' = [pc EXCEPT ![r] = "done"]
        /\ UNCHANGED <<tables, created, installed>>
    BY <1>5 DEF SaveUser, End, Goto, control, server, installVars
  <2>2. installed
    BY <2>1 DEF WritersInstalled, Writers, Running
  <2>3. \A q \in Requests : ~ Owner(q)
    BY <2>2
  <2>4. \A q \in Requests : ~ Owner(q)'
    BY <1>0, <2>1, <2>3
  <2> QED
    BY <2>1, <2>4
<1>6. ASSUME NEW r \in Requests, ChangePassword(r), UNCHANGED installVars PROVE OwnerInv'
  <2>1. /\ pc[r] = "update" /\ pc' = [pc EXCEPT ![r] = "generateToken"]
        /\ password' = [password EXCEPT ![plan[r].user] = plan[r].new]
        /\ plan[r].new \in Passwords /\ plan[r].user \in Users /\ password[plan[r].user] # None
        /\ UNCHANGED <<tables, plan, created, installed>>
    BY <1>0, <1>6 DEF ChangePassword, Goto, server, installVars, RegistryInv, Followed, AskOK
  <2>2. ~ NoPasswords
    BY <2>1
  <2>3. \A u \in Users : password[u] # None => password'[u] # None
    BY <1>0, <2>1
  <2> QED
    BY <1>0, <2>1, <2>2, <2>3
<1>7. CASE Crash
  BY <1>0, <1>7 DEF Crash, Die, Running, database
<1>8. CASE /\ ~ Crash
           /\ \A r \in Requests : ~ InstallResolve(r) /\ ~ SaveUser(r) /\ ~ ChangePassword(r)
  <2>1. UNCHANGED <<tables, password, created>> /\ (UNCHANGED installed \/ Start)
    <3>1. ASSUME NEW r \in Requests, Request(r) PROVE UNCHANGED <<tables, password, created, installed>>
      <4>1. CASE TransContext(r) /\ UNCHANGED installVars
        BY <4>1 DEF TransContext, database, installVars, server
      <4>2. CASE GetSchema(r) /\ UNCHANGED installVars
        BY <1>0, <4>2, GetSchemaMoves DEF database, installVars
      <4>3. CASE Resolvers(r) /\ UNCHANGED installVars
        BY <1>0, <4>3, ResolversMove DEF installVars
      <4>4. CASE Authenticate(r) /\ UNCHANGED installVars
        BY <1>8, <4>4 DEF Authenticate, CheckPassword, GenerateToken, LoadUser, AuthFails, Logout, database,
                          installVars, server
      <4>5. CASE Method(r) /\ UNCHANGED installVars
        BY <1>0, <4>5, MethodMoves DEF untouched, database, installVars
      <4>6. CASE Subscription(r) /\ UNCHANGED installVars
        BY <1>0, <4>6, SubscriptionMoves DEF elsewhere, database, installVars, server
      <4> QED
        BY <1>8, <3>1, <4>1, <4>2, <4>3, <4>4, <4>5, <4>6 DEF Request
    <3>2. CASE \/ Start \/ (Tick /\ UNCHANGED installVars) \/ UNCHANGED vars
               \/ \E r \in Requests : EventInit(r) /\ UNCHANGED installVars
      BY <3>2 DEF Start, Tick, EventInit, vars, registryVars, database, installVars, server
    <3> QED
      BY <1>8, <3>1, <3>2 DEF Next
  <2>2. ASSUME NEW r \in Requests
        PROVE  /\ Installing(r) => pc'[r] = pc[r]
               /\ Owner(r)' <=> Owner(r)
               /\ HasTables(r)' <=> HasTables(r)
               /\ pc'[r] = "install" /\ created'[r] # {} => pc[r] = "install" /\ created[r] # {}
    <3>1. /\ Installing(r) => pc'[r] = pc[r]
          /\ Owner(r)' <=> Owner(r)
          /\ HasTables(r)' <=> HasTables(r)
          /\ created' = created
      BY <1>0, <1>8, InstallRests
    <3> QED
      BY <3>1 DEF Installing, Running
  <2>3. CASE UNCHANGED installed
    BY <2>1, <2>2, <2>3 DEF Installing, Running
  <2>4. CASE Start
    <3>1. \A q \in Requests : ~ Owner(q)
      BY <2>4 DEF Start, RunningIsUp, Running
    <3>2. installed' => "App" \in tables
      BY <2>4 DEF Start
    <3> QED
      BY <2>1, <2>2, <3>1, <3>2
  <2> QED
    BY <2>1, <2>3, <2>4
<1>9. Crash \/ (\E r \in Requests : InstallResolve(r)) \/ UNCHANGED installVars
  BY DEF Next, Request, Start, vars
<1> QED
  BY <1>1, <1>2, <1>3, <1>4, <1>5, <1>6, <1>7, <1>8, <1>9 DEF InstallResolve

LEMMA WritersStep ==
  ASSUME RegistryTypeOK, RunningIsUp, NotInstalled, WritersInstalled, [Next]_vars
  PROVE  WritersInstalled'
<1> USE DEF WritersInstalled, Running, Writers
<1>0. /\ pc \in [Requests -> Labels] /\ installed \in BOOLEAN
      /\ after \in [Requests -> {"resolve", "subscribe", "saveVersion", "script"}]
      /\ offered \in [Requests -> SUBSET (Fields \X (Apps \cup {None}))]
  BY DEF RegistryTypeOK
<1>1. CASE Crash
  BY <1>0, <1>1 DEF Crash, Die, seen
<1>2. ASSUME NEW r \in Requests, Request(r)
      PROVE  /\ \A q \in Requests \ {r} : pc'[q] = pc[q] /\ offered'[q] = offered[q] /\ after'[q] = after[q]
             /\ pc'[r] = "waiting" => pc[r] = "waiting" /\ offered'[r] = offered[r]
             /\ Running(r)' => Running(r) \/ pc[r] = "waiting"
             /\ \A f \in offered'[r] : f \in offered[r] \/ (f[1] \in Writers => installed)
             /\ pc'[r] \in Writers =>
                  \/ pc[r] \in Writers \/ (pc[r] = "schema" /\ after[r] = "script")
                  \/ pc[r] = "resolve" /\ \E f \in offered[r] : f[1] \in Writers
             /\ pc'[r] = "schema" /\ after'[r] = "script" =>
                  pc[r] = "script" \/ (pc[r] = "schema" /\ after[r] = "script")
             /\ installed => installed'
  <2>1. CASE TransContext(r)
    <3>1. /\ UNCHANGED <<offered, installed>> /\ pc[r] = "waiting" /\ pc' = [pc EXCEPT ![r] = "schema"]
          /\ \E l \in {"resolve", "subscribe"} : after' = [after EXCEPT ![r] = l]
      BY <2>1, TransContextMoves DEF TransContext, CallGetSchema, seen, server
    <3> QED
      BY <1>0, <3>1
  <2>2. CASE GetSchema(r)
    <3>0. UNCHANGED after
      BY <2>2 DEF GetSchema, InitSkips, InitModule, InitPanics, ReadFields, Advance, End
    <3>4. pc[r] = "schema" /\ installed' = installed
          /\ \E l \in {"schema", "done", after[r]} : pc' = [pc EXCEPT ![r] = l]
      BY <2>2, GetSchemaMoves
    <3>1. CASE ReadFields(r)
      <4>1. /\ offered' = [offered EXCEPT ![r] = @ \cup FieldsAt(Steps[stage[r]])]
            /\ AtFields(r)
        BY <3>1 DEF ReadFields
      <4>2. \A f \in FieldsAt(Steps[stage[r]]) : f[1] \in Writers => installed
        <5>1. stage[r] \in 1 .. 12
          BY StepsLen DEF RegistryTypeOK
        <5>2. CASE stage[r] \in {1, 6, 9, 11}
          BY <4>1, <5>2, SMTT(20) DEF AtFields, Steps
        <5>3. CASE stage[r] \in {2, 10}
          BY <5>3, SMTT(20) DEF Steps, FieldsAt, OfApp
        <5>4. CASE stage[r] \in {4, 5}
          BY <5>4, SMTT(20) DEF Steps, FieldsAt, When
        <5>5. CASE stage[r] \in {7, 8, 12}
          BY <5>5, SMTT(20) DEF Steps, FieldsAt, When
        <5>6. CASE stage[r] = 3
          <6>1. FieldsAt(Steps[stage[r]]) = OfApp("script", "app") \cup OfApp("save", "app")
            BY <5>6, SMTT(20) DEF Steps, FieldsAt
          <6> QED
            BY <6>1 DEF OfApp, NotInstalled, Singletons
        <5> QED
          BY <5>1, <5>2, <5>3, <5>4, <5>5, <5>6
      <4> QED
        BY <1>0, <3>0, <3>4, <4>1, <4>2
    <3>2. CASE ~ ReadFields(r)
      <4>1. UNCHANGED offered
        BY <2>2, <3>2 DEF GetSchema, InitSkips, InitModule, InitPanics, seen
      <4> QED
        BY <1>0, <3>0, <3>4, <4>1
    <3> QED
      BY <3>1, <3>2
  <2>3. CASE Resolvers(r)
    <3>1. /\ offered' \in {offered, [offered EXCEPT ![r] = {}]}
          /\ after' = after \/ after' = [after EXCEPT ![r] = "saveVersion"]
      BY <2>3 DEF Resolvers, Resolve, NotOffered, ResolvePanics, MakeVersion, SaveVersion, ImportApp,
                  SaveApp, Post, seen, End, CallGetSchema
    <3>2. PICK l \in Labels :
            /\ pc' = [pc EXCEPT ![r] = l] /\ l # "waiting" /\ installed' = installed
            /\ pc[r] \in {"resolve", "save", "makeVersion", "saveVersion", "importApp", "saveApp"}
            /\ l \in Writers => pc[r] = "resolve" /\ \E f \in offered[r] : f[1] = l
            /\ l = "schema" => pc[r] = "makeVersion"
      BY <1>0, <2>3, ResolversMove
    <3>3. l = "schema" => after'[r] = "saveVersion"
      BY <1>0, <2>3, <3>2 DEF Resolvers, Resolve, NotOffered, ResolvePanics, MakeVersion, SaveVersion, ImportApp,
                  SaveApp, Post, CallGetSchema, Goto, End
    <3> QED
      BY <1>0, <3>1, <3>2, <3>3
  <2>4. CASE InstallResolve(r)
    <3>1. installed' \in {installed, TRUE} /\ UNCHANGED after
      BY <2>4 DEF InstallResolve, CreateTable, CreateTableFails, InsertApp, SaveAdmin, SetInstalled,
                  InstallFails, server, End
    <3> QED
      BY <1>0, <2>4, <3>1, InstallMoves DEF seen, Installing, Walks
  <2>5. CASE Authenticate(r)
    <3>1. UNCHANGED after
      BY <2>5 DEF Authenticate, CheckPassword, ChangePassword, GenerateToken, LoadUser, AuthFails, SaveUser,
                  Logout, End, control
    <3> QED
      BY <1>0, <2>5, <3>1, AuthenticateMoves DEF seen, server, Walks
  <2>6. CASE Method(r)
    <3>1. /\ offered' \in {offered, [offered EXCEPT ![r] = {}]}
          /\ after' = after \/ after' = [after EXCEPT ![r] = "script"]
      BY <2>6 DEF Method, BeginTx, Commit, ClearTx, Rollback, SaveFirst, SaveSecond, ScriptQuery,
                  ScriptEnds, Call, seen, control, End, CallGetSchema
    <3> QED
      BY <1>0, <2>6, <3>1, MethodMoves DEF untouched
  <2>7. CASE Subscription(r)
    <3>1. UNCHANGED after
      BY <2>7 DEF Subscription, ReadStart, ReadStop, ReadFails, Receives, Writes, WriteIsRefused,
                  ChannelCloses, ContextIsDone, End, control
    <3> QED
      BY <1>0, <2>7, <3>1, SubscriptionMoves DEF elsewhere, seen, server
  <2> QED
    BY <1>2, <2>1, <2>2, <2>3, <2>4, <2>5, <2>6, <2>7 DEF Request
<1>3. CASE Start \/ Tick \/ (\E r \in Requests : EventInit(r)) \/ UNCHANGED vars
  <2>1. UNCHANGED <<pc, after, offered>> /\ (installed' = installed \/ ~ up)
    BY <1>3 DEF Start, Tick, EventInit, vars, registryVars, control, seen, server
  <2>2. CASE installed' = installed
    BY <2>1, <2>2
  <2>3. CASE ~ up
    BY <2>1, <2>3 DEF RunningIsUp
  <2> QED
    BY <2>1, <2>2, <2>3
<1>4. ASSUME NEW r \in Requests, Request(r) PROVE WritersInstalled'
  <2>1. Running(r) /\ (\/ pc[r] \in Writers
                       \/ pc[r] = "schema" /\ after[r] = "script"
                       \/ \E f \in offered[r] : f[1] \in Writers) => installed
    OBVIOUS
  <2>2. pc[r] = "waiting" => offered[r] = {}
    OBVIOUS
  <2> HIDE DEF Writers
  <2>3. /\ pc'[r] = "waiting" => offered'[r] = {}
        /\ Running(r)' /\ (\/ pc'[r] \in Writers
                           \/ pc'[r] = "schema" /\ after'[r] = "script"
                           \/ \E f \in offered'[r] : f[1] \in Writers) => installed'
    BY <1>2, <1>4, <2>1, <2>2 DEF Writers
  <2> QED
    BY <1>2, <1>4, <2>3
<1> QED
  BY <1>1, <1>3, <1>4 DEF Next

-----------------------------------------------------------------------------
\* Unless an install was cut short: nothing is there and nobody installs, one
\* install has made one table, one has made both and fills them, or all is
\* there; what a server says of itself is what is there.
Nothing ==
  /\ ~ installed /\ tables = {} /\ rows = {} /\ NoPasswords
  /\ \A r \in Requests : ~ Owner(r)

OneTable ==
  /\ ~ installed /\ up /\ tables = {"App"} /\ rows = {}
  /\ \E r \in Requests : pc[r] = "install" /\ created[r] # {}

Filling ==
  /\ ~ installed /\ up /\ tables = {"App", "User"}
  /\ \E r \in Requests : /\ HasTables(r)
                         /\ rows = IF pc[r] = "insertApp" THEN {} ELSE {SystemApp}
                         /\ owed \subseteq {plan[r].user} \ {None}
                         /\ pc[r] = "setInstalled" => \A u \in owed : password[u] # None

All == Whole /\ (up => installed) /\ \A r \in Requests : ~ Owner(r)

PhaseInv == interrupted \/ Nothing \/ OneTable \/ Filling \/ All

InstallStateInv == RunningIsUp /\ SingletonInv /\ OwnerInv /\ WritersInstalled

LEMMA PhaseStep ==
  ASSUME TypeInv, InstallStateInv, PhaseInv, [Next]_vars
  PROVE  PhaseInv'
<1> USE AppsAssumption, UsersAssumption DEF PhaseInv
<1>0. /\ RegistryTypeOK /\ pc \in [Requests -> Labels] /\ CreatedOK /\ RegistryInv
      /\ password \in [Users -> Passwords \cup {None}] /\ created \in [Requests -> SUBSET {"App", "User"}]
      /\ RunningIsUp /\ OwnerInv /\ NotInstalled
  BY DEF TypeInv, RegistryInv, RegistryTypeOK, InstallInv, InstallTypeOK, InstallStateInv, SingletonInv
<1>1. ASSUME NEW r \in Requests, CreateTable(r) PROVE PhaseInv'
  <2>1. PICK t \in {"App", "User"} :
          /\ pc[r] = "install" /\ t \notin tables /\ tables' = tables \cup {t}
          /\ created' = [created EXCEPT ![r] = @ \cup {t}]
          /\ IF t = "User" THEN pc' = [pc EXCEPT ![r] = "insertApp"] /\ owed' = {plan[r].user} \ {None}
                           ELSE UNCHANGED <<pc, owed>>
          /\ created[r] = {} => t = "App"
          /\ created[r] = {"App"} => t = "User"
          /\ UNCHANGED <<plan, rows, password, up, installed, interrupted>>
    BY <1>0, <1>1, CreatedTables DEF CreateTable, Goto, server
  <2>2. up /\ created[r] \in {{}, {"App"}}
    BY <1>0, <2>1 DEF RunningIsUp, Running, CreatedOK
  <2>3. CASE Nothing
    <3>1. t = "App" /\ created[r] = {} /\ pc' = pc
      BY <2>1, <2>2, <2>3 DEF Nothing, Owner
    <3>2. OneTable'
      BY <1>0, <2>1, <2>2, <2>3, <3>1 DEF Nothing, OneTable
    <3> QED
      BY <3>2
  <2>4. CASE OneTable
    <3>1. created[r] = {"App"} /\ t = "User"
      BY <2>1, <2>2, <2>4 DEF OneTable
    <3>2. Filling'
      BY <1>0, <2>1, <2>2, <2>4, <3>1 DEF OneTable, Filling, HasTables
    <3> QED
      BY <3>2
  <2>5. CASE Filling \/ All
    <3>1. tables = {"App", "User"}
      BY <2>5 DEF Filling, All, Whole
    <3> QED
      BY <2>1, <3>1
  <2>6. CASE interrupted
    BY <2>1, <2>6
  <2> QED
    BY <2>3, <2>4, <2>5, <2>6
<1>2. ASSUME NEW r \in Requests, CreateTableFails(r) PROVE PhaseInv'
  <2>1. /\ pc[r] = "install" /\ tables' = tables \ created[r]
        /\ created' = [created EXCEPT ![r] = {}] /\ pc' = [pc EXCEPT ![r] = "done"]
        /\ UNCHANGED <<rows, password, owed, plan, up, installed, interrupted>>
    BY <1>2 DEF CreateTableFails, End, Goto, server
  <2>2. CASE created[r] = {}
    <3>1. \A q \in Requests : /\ Owner(q)' <=> Owner(q)
                              /\ HasTables(q)' <=> HasTables(q)
                              /\ q = r \/ (pc'[q] = pc[q] /\ created'[q] = created[q])
      BY <1>0, <2>1, <2>2 DEF Owner, HasTables
    <3>2. tables' = tables
      BY <2>1, <2>2
    <3>3. CASE Nothing
      BY <2>1, <3>1, <3>2, <3>3 DEF Nothing, NoPasswords
    <3>4. CASE OneTable
      BY <2>1, <2>2, <3>1, <3>2, <3>4 DEF OneTable
    <3>5. CASE Filling
      BY <2>1, <3>1, <3>2, <3>5 DEF Filling, HasTables
    <3>6. CASE All
      BY <2>1, <3>1, <3>2, <3>6 DEF All, Whole
    <3>7. CASE interrupted
      BY <2>1, <3>7
    <3> QED
      BY <3>3, <3>4, <3>5, <3>6, <3>7
  <2>3. CASE created[r] # {}
    <3>1. Owner(r) /\ NoPasswords /\ created[r] = {"App"}
      BY <1>0, <2>1, <2>3 DEF Owner, OwnerInv, CreatedOK
    <3>2. \A q \in Requests : ~ Owner(q)'
      BY <1>0, <2>1, <3>1 DEF OwnerInv, Owner, HasTables
    <3>3. CASE OneTable
      BY <2>1, <3>1, <3>2, <3>3 DEF OneTable, Nothing, NoPasswords
    <3>4. CASE Nothing \/ All
      BY <3>1, <3>4 DEF Nothing, All
    <3>5. CASE Filling
      BY <1>0, <2>1, <3>1, <3>5 DEF Filling, OwnerInv, Owner, HasTables
    <3>6. CASE interrupted
      BY <2>1, <3>6
    <3> QED
      BY <3>3, <3>4, <3>5, <3>6
  <2> QED
    BY <2>2, <2>3
<1>3. ASSUME NEW r \in Requests, HasTables(r)
      PROVE  \/ interrupted
             \/ /\ Filling
                /\ rows = IF pc[r] = "insertApp" THEN {} ELSE {SystemApp}
                /\ owed \subseteq {plan[r].user} \ {None}
                /\ pc[r] = "setInstalled" => \A u \in owed : password[u] # None
  <2>1. Owner(r) /\ \A q \in Requests : Owner(q) => q = r
    BY <1>0, <1>3 DEF OwnerInv, Owner
  <2>2. ~ Nothing /\ ~ All
    BY <2>1 DEF Nothing, All
  <2>3. ~ OneTable
    BY <1>3, <2>1 DEF OneTable, Owner, HasTables
  <2> QED
    BY <2>1, <2>2, <2>3 DEF Filling, Owner
<1>4. ASSUME NEW r \in Requests, InsertApp(r) \/ SaveAdmin(r) PROVE PhaseInv'
  <2>1. /\ HasTables(r) /\ pc[r] \in {"insertApp", "saveAdmin"}
        /\ UNCHANGED <<tables, owed, plan, up, installed, interrupted>>
    BY <1>4 DEF InsertApp, SaveAdmin, HasTables, server, installVars
  <2>2. \/ /\ pc[r] = "insertApp"
           /\ \/ pc' = [pc EXCEPT ![r] = "saveAdmin"]
              \/ pc' = [pc EXCEPT ![r] = "setInstalled"] /\ plan[r].user = None
           /\ rows' = rows \cup {SystemApp} /\ UNCHANGED password
        \/ /\ pc[r] = "saveAdmin" /\ pc' = [pc EXCEPT ![r] = "setInstalled"]
           /\ UNCHANGED rows /\ password' = [password EXCEPT ![plan[r].user] = plan[r].new]
           /\ plan[r].new \in Passwords /\ plan[r].user \in Users
    BY <1>0, <1>4 DEF InsertApp, SaveAdmin, Goto, RegistryInv, Followed, AskOK, Installing, Running
  <2>3. CASE interrupted
    BY <2>1, <2>3
  <2>4. CASE ~ interrupted
    <3>1. /\ Filling /\ rows = IF pc[r] = "insertApp" THEN {} ELSE {SystemApp}
          /\ owed \subseteq {plan[r].user} \ {None}
      BY <1>3, <2>1, <2>4
    <3>2. /\ HasTables(r)' /\ rows' = {SystemApp} /\ pc'[r] # "insertApp"
          /\ pc'[r] = "setInstalled" => \A u \in owed : password'[u] # None
      BY <1>0, <2>1, <2>2, <3>1 DEF HasTables
    <3>3. Filling'
      BY <2>1, <3>1, <3>2 DEF Filling
    <3> QED
      BY <3>3
  <2> QED
    BY <2>3, <2>4
<1>5. ASSUME NEW r \in Requests, SetInstalled(r) PROVE PhaseInv'
  <2>1. /\ HasTables(r) /\ pc[r] = "setInstalled" /\ installed' = TRUE /\ pc' = [pc EXCEPT ![r] = "done"]
        /\ UNCHANGED <<tables, rows, password, owed, created, interrupted>>
    BY <1>5 DEF SetInstalled, HasTables, End, Goto, database, installVars
  <2>2. \A q \in Requests : ~ Owner(q)'
    BY <1>0, <2>1 DEF OwnerInv, Owner, HasTables
  <2>3. CASE interrupted
    BY <2>1, <2>3
  <2>4. CASE ~ interrupted
    <3>1. Filling /\ rows = {SystemApp} /\ \A u \in owed : password[u] # None
      BY <1>3, <2>1, <2>4
    <3>2. All'
      BY <2>1, <2>2, <3>1 DEF All, Whole, Filling
    <3> QED
      BY <3>2
  <2> QED
    BY <2>3, <2>4
<1>6. ASSUME NEW r \in Requests, InstallFails(r) PROVE PhaseInv'
  BY <1>6 DEF InstallFails
<1>7. CASE Crash
  <2>1. /\ UNCHANGED <<tables, rows, password, owed, created>> /\ ~ up' /\ ~ installed'
        /\ pc' = [r \in Requests |-> IF Running(r) THEN "done" ELSE pc[r]]
        /\ interrupted' = (interrupted \/ \E r \in Requests :
                              Installing(r) /\ created[r] # {} /\ pc[r] # "setInstalled")
    BY <1>7 DEF Crash, Die, database
  <2>2. \A q \in Requests : ~ Owner(q)'
    BY <1>0, <2>1 DEF Owner, HasTables, Running
  <2>3. CASE Nothing
    BY <2>1, <2>2, <2>3 DEF Nothing, NoPasswords
  <2>4. CASE OneTable
    BY <2>1, <2>4 DEF OneTable, Installing, Running
  <2>5. CASE Filling
    <3>1. PICK r \in Requests : /\ HasTables(r)
                                /\ rows = IF pc[r] = "insertApp" THEN {} ELSE {SystemApp}
                                /\ pc[r] = "setInstalled" => \A u \in owed : password[u] # None
      BY <2>5 DEF Filling
    <3>2. created[r] # {}
      BY <1>0, <3>1 DEF OwnerInv
    <3>3. CASE pc[r] = "setInstalled"
      BY <2>1, <2>2, <2>5, <3>1, <3>3 DEF Filling, All, Whole
    <3>4. CASE pc[r] # "setInstalled"
      BY <2>1, <3>1, <3>2, <3>4 DEF HasTables, Installing, Running
    <3> QED
      BY <3>3, <3>4
  <2>6. CASE All
    BY <2>1, <2>2, <2>6 DEF All, Whole
  <2>7. CASE interrupted
    BY <2>1, <2>7
  <2> QED
    BY <2>3, <2>4, <2>5, <2>6, <2>7
<1>8. ASSUME UNCHANGED <<tables, plan, created, interrupted>>,
             \/ UNCHANGED <<installed, up>>
             \/ ~ up /\ (installed' <=> "App" \in tables),
             rows \subseteq rows' /\ (rows' # rows => installed),
             owed' \subseteq owed, \A u \in owed' : password[u] # None => password'[u] # None,
             NoPasswords => NoPasswords' \/ installed,
             \A r \in Requests : /\ Owner(r)' <=> Owner(r)
                                 /\ Owner(r) => pc'[r] = pc[r]
      PROVE  PhaseInv'
  <2>1. CASE Nothing
    BY <1>8, <2>1 DEF Nothing
  <2>2. CASE OneTable
    BY <1>8, <2>2 DEF OneTable, Owner
  <2>3. CASE Filling
    BY <1>8, <2>3 DEF Filling, Owner, HasTables
  <2>4. CASE All
    BY <1>8, <2>4 DEF All, Whole
  <2>5. CASE interrupted
    BY <1>8, <2>5
  <2> QED
    BY <2>1, <2>2, <2>3, <2>4, <2>5
<1>9. CASE ~ Crash /\ \A r \in Requests : ~ InstallResolve(r)
  <2>1. /\ UNCHANGED <<created, interrupted>>
        /\ \A r \in Requests : (Owner(r)' <=> Owner(r)) /\ (Owner(r) => pc'[r] = pc[r])
    <3>1. UNCHANGED <<created, interrupted>>
      BY <1>9 DEF Next, Request, Start, vars, installVars
    <3> QED
      BY <1>0, <1>9, <3>1, InstallRests DEF Owner, HasTables, Installing, Running
  <2> DEFINE Same == /\ UNCHANGED <<tables, plan, installed, up>>
                     /\ rows \subseteq rows' /\ (rows' # rows => installed)
                     /\ owed' \subseteq owed /\ \A u \in owed' : password[u] # None => password'[u] # None
                     /\ NoPasswords => NoPasswords' \/ installed
  <2>2. UNCHANGED <<database, plan, installed, up>> => Same
    BY DEF NoPasswords, database
  <2> HIDE DEF Same
  <2>3. ASSUME NEW r \in Requests, Request(r) PROVE Same
    <3>1. CASE TransContext(r)
      BY <2>2, <3>1 DEF TransContext, database, server
    <3>2. CASE GetSchema(r)
      BY <1>0, <2>2, <3>2, GetSchemaMoves DEF database
    <3>3. CASE ImportApp(r)
      <4>1. installed /\ rows \subseteq rows' /\ UNCHANGED <<tables, password, owed, plan, installed, up>>
        BY <3>3 DEF ImportApp, server, InstallStateInv, WritersInstalled, Writers, Running
      <4> QED
        BY <4>1 DEF NoPasswords, Same
    <3>4. CASE Resolvers(r) /\ ~ ImportApp(r)
      BY <2>2, <3>4 DEF Resolvers, Resolve, NotOffered, ResolvePanics, MakeVersion, SaveVersion, SaveApp,
                        Post, server
    <3>5. CASE ChangePassword(r)
      <4>1. /\ password' = [password EXCEPT ![plan[r].user] = plan[r].new] /\ plan[r].new \in Passwords
            /\ plan[r].user \in Users /\ password[plan[r].user] # None
            /\ UNCHANGED <<tables, rows, owed, plan, installed, up>>
        BY <1>0, <3>5 DEF ChangePassword, server, RegistryInv, Followed, AskOK
      <4> QED
        BY <1>0, <4>1 DEF NoPasswords, Same, RegistryTypeOK
    <3>9. CASE SaveUser(r)
      <4>1. installed
        BY <3>9 DEF SaveUser, InstallStateInv, WritersInstalled, Writers, Running
      <4>2. /\ password' = [password EXCEPT ![plan[r].user] = plan[r].new]
            /\ owed' = IF plan[r].new = None THEN owed \ {plan[r].user} ELSE owed
            /\ UNCHANGED <<tables, rows, plan, installed, up>>
        BY <3>9 DEF SaveUser, server
      <4> QED
        BY <1>0, <4>1, <4>2 DEF Same, RegistryTypeOK
    <3>6. CASE Authenticate(r) /\ ~ ChangePassword(r) /\ ~ SaveUser(r)
      BY <2>2, <3>6 DEF Authenticate, CheckPassword, GenerateToken, LoadUser, AuthFails, Logout, server
    <3>7. CASE Method(r)
      BY <1>0, <2>2, <3>7, MethodMoves DEF untouched
    <3>8. CASE Subscription(r)
      BY <1>0, <2>2, <3>8, SubscriptionMoves DEF elsewhere, server
    <3> QED
      BY <1>9, <2>3, <3>1, <3>2, <3>3, <3>4, <3>5, <3>6, <3>7, <3>8, <3>9 DEF Request
  <2>4. CASE Start
    <3>1. UNCHANGED <<tables, rows, password, owed, plan>> /\ ~ up /\ (installed' <=> "App" \in tables)
      BY <2>4 DEF Start, database
    <3> QED
      BY <1>8, <2>1, <3>1 DEF NoPasswords
  <2>5. ASSUME Tick \/ (\E r \in Requests : EventInit(r)) \/ UNCHANGED vars PROVE Same
    <3>1. UNCHANGED <<database, plan, installed, up>>
      BY <2>5 DEF Tick, EventInit, vars, registryVars, server
    <3> QED
      BY <2>2, <3>1
  <2>6. CASE (\E r \in Requests : Request(r) \/ EventInit(r)) \/ Tick \/ UNCHANGED vars
    <3>1. Same
      BY <2>3, <2>5, <2>6
    <3> QED
      BY <1>8, <2>1, <3>1 DEF Same
  <2> QED
    BY <1>9, <2>4, <2>6 DEF Next
<1> QED
  BY <1>1, <1>2, <1>4, <1>5, <1>6, <1>7, <1>9 DEF InstallResolve

\* Only one install is under way, and in a known phase unless one was cut short.
THEOREM Installs == Spec => [](TypeInv /\ InstallStateInv /\ PhaseInv)
<1>1. Init => RunningIsUp /\ OwnerInv /\ WritersInstalled /\ PhaseInv
  <2> SUFFICES ASSUME Init PROVE RunningIsUp /\ OwnerInv /\ WritersInstalled /\ PhaseInv
    OBVIOUS
  <2>1. PICK mix \in Mixes : RegistryInit(mix)
    BY DEF Init
  <2>2. /\ mix.installed \in BOOLEAN
        /\ mix.installed => SystemApp \in mix.rows /\ mix.password \in Passwords
    BY MixesAssumption
  <2>3. /\ \A r \in Requests : pc[r] \in {"waiting", "done"} /\ offered[r] = {}
        /\ up /\ installed = mix.installed
        /\ tables = IF mix.installed THEN {"App", "User"} ELSE {}
        /\ rows = IF mix.installed THEN mix.rows ELSE {}
        /\ password = [u \in Users |-> IF mix.installed THEN mix.password ELSE None]
        /\ owed \subseteq Users
    BY <2>1 DEF RegistryInit
  <2>4. RunningIsUp /\ OwnerInv /\ WritersInstalled
    BY <2>2, <2>3 DEF RunningIsUp, Running, OwnerInv, Owner, HasTables, NoPasswords, WritersInstalled
  <2>5. PhaseInv
    BY <2>2, <2>3, UsersAssumption DEF PhaseInv, Nothing, All, Whole, Owner, HasTables, NoPasswords
  <2> QED
    BY <2>4, <2>5
<1>2. TypeInv /\ InstallStateInv /\ PhaseInv /\ [Next]_vars
        => OwnerInv' /\ WritersInstalled' /\ PhaseInv'
  BY OwnerStep, WritersStep, PhaseStep DEF TypeInv, RegistryInv, InstallStateInv, SingletonInv
<1>3. RunningIsUp /\ SingletonInv /\ OwnerInv /\ WritersInstalled <=> InstallStateInv
  BY DEF InstallStateInv
<1> QED
  BY <1>1, <1>2, <1>3, SingletonsHold, PTL DEF Spec

\* Unless an install was cut short between its tables and its end, a server that
\* says it is installed has all that install saves (an administrator it was given
\* the name of, unless a mutation has deleted it), and one that says it is not
\* has nothing, or is being installed (installResolve, checkMetaInstall).
THEOREM InstallsAreWhole == Spec => []InstalledIsWhole
<1>1. TypeInv /\ InstallStateInv /\ PhaseInv => InstalledIsWhole
  BY DEF InstalledIsWhole, PhaseInv, Nothing, OneTable, Filling, All, Whole, NoPasswords, Installing,
         Running, HasTables
<1> QED
  BY <1>1, Installs, PTL

-----------------------------------------------------------------------------
(* Passwords and tokens. *)

\* A token that works has been given to a client.
WorkingIsGiven == \A t \in Tokens : tokens[t] # None => t \in given

\* The history of a request has the password its user has now.
ValidIsCurrent ==
  \A r \in Requests : LET u == plan[r].user IN
    Running(r) /\ u # None /\ password[u] # None => password[u] \in valid[r]

\* A request whose password was checked presented one that was valid, and made
\* its token no earlier than it came.
CheckedIsPresented ==
  \A r \in Requests :
    /\ pc[r] \in {"update", "generateToken", "loadUser"} => Presented(r)
    /\ came[r] <= second
    /\ pc[r] = "loadUser" => \E s \in 0 .. Seconds : made[r] = <<plan[r].user, s>> /\ came[r] <= s

TokenInv == WorkingIsGiven /\ ValidIsCurrent /\ CheckedIsPresented

LEMMA TokenStep ==
  ASSUME TypeInv, TokenInv, [Next]_vars
  PROVE  TokenInv'
<1> USE SecondsAssumption, UsersAssumption
    DEF TokenInv, WorkingIsGiven, ValidIsCurrent, CheckedIsPresented, Presented
<1>0. /\ RegistryTypeOK /\ AuthTypeOK /\ RegistryInv /\ pc \in [Requests -> Labels]
      /\ password \in [Users -> Passwords \cup {None}] /\ valid \in [Requests -> SUBSET Passwords]
      /\ tokens \in [Tokens -> Users \cup {None}] /\ second \in 0 .. Seconds
      /\ made \in [Requests -> Tokens \cup {None}] /\ came \in [Requests -> 0 .. Seconds]
      /\ \A r \in Requests : plan[r].user \in Users \cup {None}
  BY DEF TypeInv, RegistryInv, RegistryTypeOK, AuthInv, AuthTypeOK, AskOK
<1>1. ASSUME NEW r \in Requests, TransContext(r) PROVE TokenInv'
  <2>1. /\ valid' = [valid EXCEPT ![r] = IF plan[r].user = None THEN {} ELSE {password[plan[r].user]} \ {None}]
        /\ came' = [came EXCEPT ![r] = IF plan[r].user = None THEN 0 ELSE second]
        /\ pc[r] = "waiting" /\ pc' = [pc EXCEPT ![r] = "schema"]
        /\ UNCHANGED <<password, plan, tokens, second, made, given>>
    BY <1>1 DEF TransContext, CallGetSchema, Goto, database
  <2>2. WorkingIsGiven' /\ ValidIsCurrent'
    BY <1>0, <2>1 DEF Running
  <2>3. CheckedIsPresented'
    BY <1>0, <2>1
  <2> QED
    BY <2>2, <2>3
<1>2. ASSUME NEW r \in Requests, SaveAdmin(r) \/ ChangePassword(r), UNCHANGED authVars PROVE TokenInv'
  <2>1. PICK u \in Users :
          /\ password' = [password EXCEPT ![u] = plan[r].new]
          /\ valid' = [q \in Requests |-> IF Running(q) /\ plan[q].user = u
                                          THEN valid[q] \cup {plan[r].new} ELSE valid[q]]
          /\ UNCHANGED <<plan, tokens, second, made, came, given>>
          /\ pc[r] \in {"saveAdmin", "update"}
          /\ pc' = [pc EXCEPT ![r] = IF pc[r] = "saveAdmin" THEN "setInstalled" ELSE "generateToken"]
    <3>1. CASE SaveAdmin(r)
      <4>1. plan[r].user \in Users
        BY <1>0, <3>1 DEF SaveAdmin, RegistryInv, Followed
      <4> QED
        BY <1>0, <1>2, <3>1, <4>1 DEF SaveAdmin, Goto, server, authVars
    <3>2. CASE ChangePassword(r)
      <4>1. plan[r].user \in Users
        BY <3>2, <1>0 DEF ChangePassword, RegistryInv, Followed, AskOK
      <4> QED
        BY <1>0, <1>2, <3>2, <4>1 DEF ChangePassword, Goto, server, authVars
    <3> QED
      BY <1>2, <3>1, <3>2
  <2>2. WorkingIsGiven'
    BY <2>1
  <2>3. ValidIsCurrent'
    BY <1>0, <2>1 DEF Running
  <2>4. CheckedIsPresented'
    BY <1>0, <2>1
  <2> QED
    BY <2>2, <2>3, <2>4
<1>3. ASSUME NEW r \in Requests, CheckPassword(r) PROVE TokenInv'
  <2>1. /\ UNCHANGED <<password, valid, plan, tokens, second, made, came, given>>
        /\ pc[r] \in {"login", "changePassword"} /\ plan[r].user \in Users /\ plan[r].password \in Passwords
        /\ \/ /\ password[plan[r].user] = plan[r].password
              /\ \E l \in {"generateToken", "update"} : pc' = [pc EXCEPT ![r] = l]
           \/ pc' = [pc EXCEPT ![r] = "done"]
    BY <1>0, <1>3 DEF CheckPassword, End, Goto, database, server, authVars, RegistryInv, Followed, AskOK
  <2>2. WorkingIsGiven' /\ ValidIsCurrent'
    BY <1>0, <2>1 DEF Running
  <2>3. CheckedIsPresented'
    BY <1>0, <2>1 DEF Running
  <2> QED
    BY <2>2, <2>3
<1>4. ASSUME NEW r \in Requests, GenerateToken(r) PROVE TokenInv'
  <2>1. /\ UNCHANGED <<password, valid, plan, tokens, second, came, given>>
        /\ pc[r] = "generateToken" /\ pc' = [pc EXCEPT ![r] = "loadUser"]
        /\ made' = [made EXCEPT ![r] = <<plan[r].user, second>>]
    BY <1>0, <1>4 DEF GenerateToken, Goto, database, server
  <2>2. WorkingIsGiven' /\ ValidIsCurrent'
    BY <1>0, <2>1 DEF Running
  <2>3. CheckedIsPresented'
    BY <1>0, <2>1
  <2> QED
    BY <2>2, <2>3
<1>5. ASSUME NEW r \in Requests, LoadUser(r) PROVE TokenInv'
  <2>1. /\ UNCHANGED <<password, valid, plan, second, came, made>>
        /\ \E u \in {plan[r].user, None} : tokens' = [tokens EXCEPT ![made[r]] = u]
        /\ given' = given \cup {made[r]}
        /\ pc[r] = "loadUser" /\ pc' = [pc EXCEPT ![r] = "done"]
    BY <1>5 DEF LoadUser, End, Goto, database, server
  <2>2. WorkingIsGiven' /\ ValidIsCurrent'
    BY <1>0, <2>1 DEF Running
  <2>3. CheckedIsPresented'
    BY <1>0, <2>1
  <2> QED
    BY <2>2, <2>3
<1>6. ASSUME NEW r \in Requests, Logout(r) \/ AuthFails(r) PROVE TokenInv'
  <2>1. /\ UNCHANGED <<password, valid, plan, second, came, made, given>>
        /\ pc[r] # "waiting" /\ pc[r] # "done" /\ pc' = [pc EXCEPT ![r] = "done"]
        /\ tokens' = tokens \/ tokens' = [tokens EXCEPT ![token[r]] = None]
    BY <1>0, <1>6 DEF Logout, AuthFails, End, Goto, database, server, authVars
  <2>2. WorkingIsGiven' /\ ValidIsCurrent'
    BY <1>0, <2>1 DEF Running
  <2>3. CheckedIsPresented'
    BY <1>0, <2>1
  <2> QED
    BY <2>2, <2>3
<1>15. ASSUME NEW r \in Requests, SaveUser(r) PROVE TokenInv'
  <2>1. /\ UNCHANGED <<plan, tokens, second, made, came, given>> /\ plan[r].user \in Users
        /\ password' = [password EXCEPT ![plan[r].user] = plan[r].new]
        /\ valid' = [q \in Requests |-> IF Running(q) /\ plan[q].user = plan[r].user
                                        THEN valid[q] \cup ({plan[r].new} \ {None}) ELSE valid[q]]
        /\ pc[r] \in {"save", "script"} /\ (pc' = pc \/ pc' = [pc EXCEPT ![r] = "done"])
    BY <1>0, <1>15 DEF SaveUser, End, Goto, control, server, authVars
  <2>2. WorkingIsGiven'
    BY <2>1
  <2>3. ValidIsCurrent'
    BY <1>0, <2>1 DEF Running
  <2>4. CheckedIsPresented'
    BY <1>0, <2>1
  <2> QED
    BY <2>2, <2>3, <2>4
<1>7. CASE Crash
  <2>1. /\ UNCHANGED <<password, valid, plan, second, came, made, given>>
        /\ pc' = [r \in Requests |-> IF Running(r) THEN "done" ELSE pc[r]]
        /\ tokens' = [t \in Tokens |-> None]
    BY <1>7 DEF Crash, Die, database
  <2> QED
    BY <1>0, <2>1 DEF Running
<1>8. CASE Tick
  <2>1. /\ UNCHANGED <<password, valid, plan, pc, came, made, given, tokens>> /\ second' = second + 1
    BY <1>8 DEF Tick, registryVars, database, control
  <2> QED
    BY <1>0, <2>1 DEF Running
<1>9. CASE /\ UNCHANGED <<authVars, password, valid, plan>>
           /\ ~ Crash /\ \A r \in Requests : ~ TransContext(r) /\ ~ Authenticate(r)
  <2>1. UNCHANGED <<password, valid, plan, tokens, second, made, came, given>>
    BY <1>9 DEF authVars
  <2>2. ASSUME NEW r \in Requests
        PROVE  /\ Running(r)' => Running(r)
               /\ pc'[r] \in {"update", "generateToken", "loadUser"} => pc'[r] = pc[r]
    BY <1>0, <1>9, Stays DEF Running
  <2> QED
    BY <2>1, <2>2
<1>10. ASSUME NEW r \in Requests, Request(r), ~ TransContext(r), ~ SaveAdmin(r), ~ Authenticate(r)
       PROVE  UNCHANGED <<authVars, password, valid, plan>>
  <2>1. CASE (GetSchema(r) \/ Resolvers(r)) /\ UNCHANGED authVars
    BY <1>0, <2>1, GetSchemaMoves, ResolversMove DEF database
  <2>2. CASE InstallResolve(r) /\ UNCHANGED authVars
    BY <1>10, <2>2 DEF InstallResolve, CreateTable, CreateTableFails, InsertApp, SetInstalled,
                       InstallFails, database
  <2>3. CASE (Method(r) \/ Subscription(r)) /\ UNCHANGED authVars
    BY <1>0, <2>3, MethodMoves, SubscriptionMoves DEF untouched, elsewhere, database
  <2> QED
    BY <1>10, <2>1, <2>2, <2>3 DEF Request
<1>11. ASSUME \/ Start /\ UNCHANGED authVars
              \/ \E r \in Requests : EventInit(r) /\ UNCHANGED authVars
              \/ UNCHANGED vars
       PROVE  UNCHANGED <<authVars, password, valid, plan>>
  BY <1>11 DEF Start, EventInit, vars, registryVars, database
<1>12. CASE Crash \/ Tick \/ \E r \in Requests : TransContext(r) \/ Authenticate(r)
  <2>1. ASSUME NEW r \in Requests, ChangePassword(r) PROVE UNCHANGED authVars
    BY <2>1 DEF ChangePassword
  <2> QED
    BY <1>1, <1>2, <1>3, <1>4, <1>5, <1>6, <1>7, <1>8, <1>12, <1>15, <2>1 DEF Authenticate
<1>13. CASE \E r \in Requests : SaveAdmin(r) /\ UNCHANGED authVars
  BY <1>2, <1>13
<1>14. CASE /\ ~ Crash /\ ~ Tick /\ \A r \in Requests : ~ TransContext(r) /\ ~ Authenticate(r)
            /\ \A r \in Requests : ~ (SaveAdmin(r) /\ UNCHANGED authVars)
  <2>1. ASSUME NEW r \in Requests, Request(r) PROVE UNCHANGED <<authVars, password, valid, plan>>
    <3>1. UNCHANGED authVars
      BY <1>14, <2>1 DEF Request
    <3> QED
      BY <1>10, <1>14, <2>1, <3>1
  <2> QED
    BY <1>9, <1>11, <1>14, <2>1 DEF Next
<1> QED
  BY <1>12, <1>13, <1>14

\* The invariant of TokenCache, of the passwords and their history.
THEOREM TokensFollow == Spec => [](TypeInv /\ InstallStateInv /\ TokenInv)
<1>1. Init => TokenInv
  BY SecondsAssumption
  DEF Init, RegistryInit, AuthInit, TokenInv, WorkingIsGiven, ValidIsCurrent, CheckedIsPresented, Running
<1>2. TypeInv /\ TokenInv /\ [Next]_vars => TokenInv'
  BY TokenStep
<1> QED
  BY <1>1, <1>2, Installs, PTL DEF Spec

\* What can change TokenCache or a password.
LEMMA WhoTouches ==
  ASSUME TypeInv, [Next]_vars
  PROVE  \/ \E r \in Requests : \/ LoadUser(r) \/ Logout(r) \/ ChangePassword(r) \/ SaveUser(r)
                                \/ (SaveAdmin(r) /\ UNCHANGED tokens)
         \/ (UNCHANGED password /\ tokens' = [t \in Tokens |-> None])
         \/ UNCHANGED <<tokens, password>>
<1>0. RegistryTypeOK
  BY DEF TypeInv, RegistryInv
<1>1. CASE Crash
  BY <1>1 DEF Crash, Die, database
<1>2. ASSUME NEW r \in Requests, Request(r), ~ LoadUser(r), ~ Logout(r), ~ ChangePassword(r),
             ~ SaveUser(r)
      PROVE  (SaveAdmin(r) /\ UNCHANGED tokens) \/ UNCHANGED <<tokens, password>>
  <2>1. CASE TransContext(r)
    BY <2>1 DEF TransContext, database
  <2>2. CASE (GetSchema(r) \/ Resolvers(r)) /\ UNCHANGED authVars
    BY <1>0, <2>2, GetSchemaMoves, ResolversMove DEF database, authVars
  <2>3. CASE InstallResolve(r) /\ UNCHANGED authVars
    BY <2>3 DEF InstallResolve, CreateTable, CreateTableFails, InsertApp, SetInstalled, InstallFails,
                database, authVars
  <2>4. CASE Authenticate(r)
    BY <1>2, <2>4 DEF Authenticate, CheckPassword, GenerateToken, AuthFails, database, authVars
  <2>5. CASE (Method(r) \/ Subscription(r)) /\ UNCHANGED authVars
    BY <1>0, <2>5, MethodMoves, SubscriptionMoves DEF untouched, elsewhere, database, authVars
  <2> QED
    BY <1>2, <2>1, <2>2, <2>3, <2>4, <2>5 DEF Request
<1>3. ASSUME \/ Start /\ UNCHANGED authVars
             \/ \E r \in Requests : EventInit(r) /\ UNCHANGED authVars
             \/ Tick \/ UNCHANGED vars
      PROVE  UNCHANGED <<tokens, password>>
  BY <1>3 DEF Start, Tick, EventInit, vars, registryVars, database, authVars
<1> QED
  BY <1>1, <1>2, <1>3 DEF Next

\* A token is given only by a request that presented a password its user had
\* while the request ran, and a password replaced only by such a request or by
\* one that may save users: whatever requests change or save the password,
\* delete the user, install the server or log out in between (Login,
\* ChangePassword, the mutations of the entity User).
THEOREM LoginsAreEarned == Spec => TokensAreEarned
<1> DEFINE Given == \A t \in Tokens : tokens'[t] # None /\ t \notin given =>
                      \E r \in Requests : pc[r] = "loadUser" /\ Of(r, t[1]) /\ Presented(r)
           Changed == \A u \in Users : password'[u] # password[u] /\ password[u] # None =>
                        \E r \in Requests : /\ Of(r, u)
                                            /\ \/ pc[r] = "update" /\ Presented(r)
                                               \/ pc[r] \in {"save", "script"}
<1>1. ASSUME TypeInv, InstallStateInv, TokenInv, [Next]_vars PROVE Given /\ Changed
  <2>0. /\ RegistryTypeOK /\ AuthTypeOK /\ OwnerInv
        /\ password \in [Users -> Passwords \cup {None}] /\ tokens \in [Tokens -> Users \cup {None}]
        /\ \A t \in Tokens : tokens[t] # None => t \in given
    BY <1>1 DEF TypeInv, RegistryInv, RegistryTypeOK, AuthInv, AuthTypeOK, InstallStateInv, TokenInv,
                WorkingIsGiven
  <2>1. ASSUME NEW r \in Requests, LoadUser(r) PROVE Given /\ Changed
    <3>1. /\ \E u \in {plan[r].user, None} : tokens' = [tokens EXCEPT ![made[r]] = u]
          /\ UNCHANGED password /\ pc[r] = "loadUser"
      BY <2>1 DEF LoadUser, database
    <3>2. made[r][1] = plan[r].user /\ Presented(r)
      BY <1>1, <3>1 DEF TokenInv, CheckedIsPresented
    <3> QED
      BY <2>0, <3>1, <3>2 DEF Of
  <2>2. ASSUME NEW r \in Requests, Logout(r) PROVE Given /\ Changed
    <3>1. /\ tokens' = tokens \/ tokens' = [tokens EXCEPT ![token[r]] = None]
          /\ UNCHANGED password
      BY <2>2 DEF Logout, database
    <3> QED
      BY <2>0, <3>1
  <2>3. ASSUME NEW r \in Requests, ChangePassword(r) PROVE Given /\ Changed
    <3>1. /\ password' = [password EXCEPT ![plan[r].user] = plan[r].new] /\ UNCHANGED tokens
          /\ pc[r] = "update"
      BY <2>3 DEF ChangePassword, authVars
    <3>2. Presented(r)
      BY <1>1, <3>1 DEF TokenInv, CheckedIsPresented
    <3> QED
      BY <2>0, <3>1, <3>2 DEF Of
  <2>4. ASSUME NEW r \in Requests, SaveAdmin(r), UNCHANGED tokens PROVE Given /\ Changed
    <3>1. pc[r] = "saveAdmin"
      BY <2>4 DEF SaveAdmin
    <3>2. NoPasswords
      BY <2>0, <3>1 DEF OwnerInv, Owner, HasTables
    <3> QED
      BY <2>0, <2>4, <3>2 DEF NoPasswords
  <2>5. CASE (UNCHANGED password /\ tokens' = [t \in Tokens |-> None]) \/ UNCHANGED <<tokens, password>>
    BY <2>0, <2>5
  <2>6. ASSUME NEW r \in Requests, SaveUser(r) PROVE Given /\ Changed
    <3>1. /\ password' = [password EXCEPT ![plan[r].user] = plan[r].new] /\ UNCHANGED tokens
          /\ pc[r] \in {"save", "script"}
      BY <2>6 DEF SaveUser, authVars
    <3> QED
      BY <2>0, <3>1 DEF Of
  <2> QED
    BY <1>1, <2>1, <2>2, <2>3, <2>4, <2>5, <2>6, WhoTouches
<1>2. TypeInv /\ InstallStateInv /\ TokenInv /\ [Next]_vars => [Given /\ Changed]_<<tokens, password>>
  BY <1>1
<1> QED
  BY <1>2, TokensFollow, PTL DEF Spec, TokensAreEarned

\* A token that has stopped working works again only by a login, or a change of
\* the password, that came no later than the second the token was made in.
THEOREM LogoutsLast == Spec => LoggedOutStaysOut
<1> DEFINE Late == \A t \in given : (tokens[t] = None /\ tokens'[t] # None) =>
                     \E r \in Requests : pc[r] = "loadUser" /\ Of(r, t[1]) /\ came[r] <= t[2]
<1>1. ASSUME TypeInv, TokenInv, [Next]_vars PROVE Late
  <2>0. tokens \in [Tokens -> Users \cup {None}] /\ given \subseteq Tokens
    BY <1>1 DEF TypeInv, AuthInv, AuthTypeOK
  <2>1. ASSUME NEW r \in Requests, LoadUser(r) PROVE Late
    <3>1. /\ \E u \in {plan[r].user, None} : tokens' = [tokens EXCEPT ![made[r]] = u]
          /\ pc[r] = "loadUser"
      BY <2>1 DEF LoadUser
    <3>2. made[r][1] = plan[r].user /\ came[r] <= made[r][2]
      BY <1>1, <3>1 DEF TokenInv, CheckedIsPresented
    <3> QED
      BY <2>0, <3>1, <3>2 DEF Of
  <2>2. ASSUME NEW r \in Requests, Logout(r) PROVE Late
    BY <2>0, <2>2 DEF Logout
  <2>3. CASE tokens' \in {tokens, [t \in Tokens |-> None]}
    BY <2>0, <2>3
  <2> QED
    BY <1>1, <2>1, <2>2, <2>3, WhoTouches DEF ChangePassword, SaveUser, authVars
<1>2. TypeInv /\ TokenInv /\ [Next]_vars => [Late]_tokens
  BY <1>1
<1> QED
  BY <1>2, TokensFollow, PTL DEF Spec, LoggedOutStaysOut
=============================================================================
