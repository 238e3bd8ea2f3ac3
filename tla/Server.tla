------------------------------- MODULE Server -------------------------------
(***************************************************************************)
(* A server and its concurrent requests: each arrives, builds its schema   *)
(* from the singletons it shares with the others, and runs one resolver;   *)
(* the server may die at any step and start again.  What the applications  *)
(* in memory hold is AppCache's, what a publish does is Migration's, and   *)
(* what a query or a save does is Engine's and AssociationSession's.       *)
(***************************************************************************)
EXTENDS Registry, Installation, Authentication, Scripts, Websocket

vars == <<registryVars, installVars, authVars, scriptVars, socketVars>>

Init ==
  /\ \E mix \in Mixes : RegistryInit(mix)
  /\ InstallInit /\ AuthInit /\ ScriptInit /\ SocketInit

Request(r) ==
  \/ TransContext(r) /\ UNCHANGED <<installVars, scriptVars, socketVars>>
  \/ (GetSchema(r) \/ Resolvers(r)) /\ UNCHANGED <<installVars, authVars, scriptVars, socketVars>>
  \/ InstallResolve(r) /\ UNCHANGED <<authVars, scriptVars, socketVars>>
  \/ Authenticate(r) /\ UNCHANGED <<installVars, scriptVars, socketVars>>
  \/ Method(r) /\ UNCHANGED <<installVars, authVars, socketVars>>
  \/ Subscription(r) /\ UNCHANGED <<installVars, authVars, scriptVars>>

\* Transactions that are open when the process ends are rolled back.
Crash == /\ Die
         /\ tokens' = [t \in Tokens |-> None]
         /\ session' = [r \in Requests |-> "none"] /\ half' = [r \in Requests |-> 0]
         /\ subscribers' = {} /\ routine' = [r \in Requests |-> [n \in Numbers |-> "off"]]
         /\ UNCHANGED <<starts, last, open, cancelled, broken,
                        second, token, me, made, came, given, calls, tx, begun, written, committed, inside, done>>

Next == \/ \E r \in Requests : Request(r)
        \/ \E r \in Requests : EventInit(r) /\ UNCHANGED <<installVars, authVars, scriptVars, socketVars>>
        \/ Crash
        \/ Start /\ UNCHANGED <<authVars, scriptVars, socketVars>>
        \/ Tick /\ UNCHANGED <<installVars, scriptVars, socketVars>>

Spec == Init /\ [][Next]_vars

-----------------------------------------------------------------------------
TypeOK == RegistryTypeOK /\ InstallTypeOK /\ AuthTypeOK /\ ScriptTypeOK /\ SocketTypeOK
=============================================================================
