------------------------------- MODULE Scripts -------------------------------
(***************************************************************************)
(* The methods of an application are scripts (resolve/method.go) that call *)
(* a ScriptService (script/service.go): $beginTx, $save, $commit, $clearTx *)
(* and $rollback in any order, and $query, which runs GraphQL in a schema  *)
(* of its own.  The session of the service may have a transaction that is  *)
(* open or finished, or none, and each statement then commits by itself.   *)
(* Nothing clears a transaction when the script ends.                      *)
(***************************************************************************)
EXTENDS Registry

CONSTANTS MaxCalls   \* bound: calls of a script
ASSUME MaxCallsAssumption == MaxCalls \in Nat

VARIABLES
  calls,
  session,     \* None, or its transaction: "auto", "open", "finished"
  tx,          \* number of that transaction, 0 for none
  begun,       \* transactions a script has begun
  written,     \* [by, tx, in, object, part]: rows written; in: see inside
  committed,   \* <<r, tx>> that have been committed
  half,        \* the object whose second part is still to be written
  inside,      \* history: the transaction the script thinks it is in, or 0
  done         \* history: <<r, tx>> for which $commit has returned

scriptVars == <<calls, session, tx, begun, written, committed, half, inside, done>>
untouched == <<database, up, installed, moduleApp, plan, mixed, valid>>

AtCall(r) == pc[r] = "script" /\ half[r] = 0 /\ calls[r] < MaxCalls
Call(r) == calls' = [calls EXCEPT ![r] = @ + 1] /\ UNCHANGED <<untouched, event, control, seen>>
Enter(r, s, n) == session' = [session EXCEPT ![r] = s] /\ tx' = [tx EXCEPT ![r] = n]
Inside(r, n) == inside' = [inside EXCEPT ![r] = n]

\* A session of its own; the one before is forgotten as it is.
BeginTx(r) ==
  /\ AtCall(r) /\ Call(r)
  /\ begun' = [begun EXCEPT ![r] = @ + 1]
  /\ Enter(r, "open", begun[r] + 1) /\ Inside(r, begun[r] + 1)
  /\ UNCHANGED <<written, committed, half, done>>

\* The session keeps its finished transaction.
Commit(r) ==
  /\ AtCall(r) /\ session[r] = "open" /\ Call(r)
  /\ Enter(r, "finished", tx[r]) /\ Inside(r, 0)
  /\ committed' = committed \cup {<<r, tx[r]>>}
  /\ done' = done \cup {<<r, inside[r]>>}
  /\ UNCHANGED <<begun, written, half>>

\* An open transaction is rolled back, ErrTxDone of a finished one is ignored.
ClearTx(r) ==
  /\ AtCall(r) /\ session[r] \in {"open", "finished"} /\ Call(r)
  /\ Enter(r, "none", 0) /\ Inside(r, 0)
  /\ UNCHANGED <<begun, written, committed, half, done>>

Rollback(r) ==
  /\ AtCall(r) /\ session[r] = "open" /\ Call(r)
  /\ Enter(r, "none", 0) /\ Inside(r, 0)
  /\ UNCHANGED <<begun, written, committed, half, done>>

\* Mutant: every save opens a session of its own.
checkSessionAlways(r) == "auto"

\* A save without a session opens one that has no transaction.
checkSession(r) == IF session[r] = "none" THEN "auto" ELSE session[r]

Write(r, n, part) ==
  written' = written \cup {[by |-> r, tx |-> IF checkSession(r) = "open" THEN tx[r] ELSE 0,
                             in |-> inside[r], object |-> n, part |-> part]}

\* $save, $saveOne: an object is written by several statements, two here.
SaveFirst(r) ==
  /\ AtCall(r) /\ checkSession(r) # "finished" /\ Call(r)
  /\ Enter(r, checkSession(r), tx[r])
  /\ half' = [half EXCEPT ![r] = calls[r] + 1]
  /\ Write(r, calls[r] + 1, 1)
  /\ UNCHANGED <<begun, committed, inside, done>>

\* An event is emitted, whether or not what was saved will be committed.
SaveSecond(r) ==
  /\ pc[r] = "script" /\ half[r] # 0
  /\ Write(r, half[r], 2)
  /\ Emits(r)
  /\ half' = [half EXCEPT ![r] = 0]
  /\ UNCHANGED <<untouched, control, seen, calls, session, tx, begun, committed, inside, done>>

\* Mutant: an error of SaveOne is only logged.
ScriptEndsLogged(r) ==
  /\ pc[r] = "script"
  /\ half' = [half EXCEPT ![r] = 0]
  /\ IF half[r] = 0 THEN End(r) ELSE UNCHANGED control
  /\ UNCHANGED <<untouched, event, seen, calls, session, tx, begun, written, committed, inside, done>>

\* The script ends or throws, or a call panics: a statement that fails, a
\* commit without a transaction, a save in a finished one.  The session stays
\* as it is.
ScriptEnds(r) ==
  /\ pc[r] = "script"
  /\ half' = [half EXCEPT ![r] = 0]
  /\ End(r)
  /\ UNCHANGED <<untouched, event, seen, calls, session, tx, begun, written, committed, inside, done>>

\* $query
ScriptQuery(r) ==
  /\ AtCall(r)
  /\ calls' = [calls EXCEPT ![r] = @ + 1]
  /\ offered' = [offered EXCEPT ![r] = {}]
  /\ CallGetSchema(r, "script")
  /\ UNCHANGED <<untouched, event, used, session, tx, begun, written, committed, half, inside, done>>

Method(r) == \/ BeginTx(r) \/ Commit(r) \/ ClearTx(r) \/ Rollback(r)
             \/ SaveFirst(r) \/ SaveSecond(r) \/ ScriptQuery(r) \/ ScriptEnds(r)

-----------------------------------------------------------------------------
ScriptInit ==
  /\ calls = [r \in Requests |-> 0] /\ session = [r \in Requests |-> "none"]
  /\ tx = [r \in Requests |-> 0] /\ begun = [r \in Requests |-> 0]
  /\ written = {} /\ committed = {} /\ done = {}
  /\ half = [r \in Requests |-> 0] /\ inside = [r \in Requests |-> 0]

ScriptTypeOK ==
  /\ calls \in [Requests -> 0 .. MaxCalls] /\ begun \in [Requests -> 0 .. MaxCalls]
  /\ session \in [Requests -> {"none", "auto", "open", "finished"}]
  /\ tx \in [Requests -> 0 .. MaxCalls] /\ inside \in [Requests -> 0 .. MaxCalls]
  /\ half \in [Requests -> 0 .. MaxCalls]
  /\ written \subseteq [by : Requests, tx : 0 .. MaxCalls, in : 0 .. MaxCalls,
                        object : 1 .. MaxCalls, part : 1 .. 2]
  /\ committed \subseteq Requests \X (1 .. MaxCalls) /\ done \subseteq Requests \X (1 .. MaxCalls)

\* What others see: rows of no transaction, and of committed ones.
Visible(w) == w.tx = 0 \/ <<w.by, w.tx>> \in committed

\* What a script saves between $beginTx and $commit is seen by others if and
\* only if $commit has returned, whatever else it calls in between, however it
\* ends and whenever the server dies.
TxIsAtomic == \A w \in written : w.in # 0 => (Visible(w) <=> <<w.by, w.in>> \in done)

\* No script commits an object of which a statement has failed: others see
\* such an object only if it was saved outside a transaction.
TxIsWhole ==
  \A w \in written : (Visible(w) /\ w.in # 0) =>
     \E v \in written : v.by = w.by /\ v.object = w.object /\ v.part # w.part
=============================================================================
