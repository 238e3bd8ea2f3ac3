--------------------------- MODULE Authentication ---------------------------
(***************************************************************************)
(* Users who log in (src/modules/authentication): passwords are in the     *)
(* database, TokenCache is a map in memory that all requests share.  A     *)
(* token is made of a user and a second, so two logins of a user within a  *)
(* second get the same one.  The passwords of a login are checked by one   *)
(* statement and what follows is done later, without checking again.       *)
(*                                                                         *)
(* TokenCache is a plain map: two requests that use it at the same instant *)
(* may end the process, which Die covers.                                  *)
(***************************************************************************)
EXTENDS Registry

CONSTANT Seconds   \* bound of the clock
ASSUME SecondsAssumption == Seconds \in Nat

VARIABLES tokens,    \* TokenCache
          second,    \* time.Now().Unix()
          token,     \* of the header of a request
          me,        \* ContextValues.Me
          made,      \* token a request has made and not yet put into TokenCache
          came,      \* history: second in which a request with a user came
          given      \* tokens that clients have been given

authVars == <<tokens, second, token, me, made, came, given>>

Tokens == Users \X (0 .. Seconds)

\* TransContext: what the request will know of its user is read at once.
TransContext(r) ==
  /\ up /\ pc[r] = "waiting"
  /\ \E t \in given \cup {None} :
       /\ token' = [token EXCEPT ![r] = t]
       /\ me' = [me EXCEPT ![r] = IF t = None THEN None ELSE tokens[t]]
  /\ valid' = [valid EXCEPT ![r] = IF plan[r].user = None THEN {} ELSE {password[plan[r].user]} \ {None}]
  /\ came' = [came EXCEPT ![r] = IF plan[r].user = None THEN 0 ELSE second]
  /\ CallGetSchema(r, IF plan[r].op = "subscribe" THEN "subscribe" ELSE "resolve")
  /\ UNCHANGED <<database, server, plan, seen, mixed, tokens, second, made, given>>

\* Mutant: ChangePassword updates the row without checking the old password.
CheckPasswordOfLogin(r) ==
  /\ pc[r] \in {"login", "changePassword"}
  /\ IF password[plan[r].user] = plan[r].password \/ pc[r] = "changePassword"
     THEN Goto(r, IF pc[r] = "login" THEN "generateToken" ELSE "update") /\ UNCHANGED <<after, stage>>
     ELSE End(r)
  /\ UNCHANGED <<database, server, plan, seen, mixed, valid, authVars>>

CheckPassword(r) ==
  /\ pc[r] \in {"login", "changePassword"}
  /\ IF password[plan[r].user] = plan[r].password
     THEN Goto(r, IF pc[r] = "login" THEN "generateToken" ELSE "update") /\ UNCHANGED <<after, stage>>
     ELSE End(r)
  /\ UNCHANGED <<database, server, plan, seen, mixed, valid, authVars>>

\* The row is updated by login name, whatever password it has by now, if it is
\* still there.
ChangePassword(r) ==
  /\ pc[r] = "update"
  /\ LET u == plan[r].user IN
     /\ password[u] # None
     /\ password' = [password EXCEPT ![u] = plan[r].new]
     /\ valid' = [q \in Requests |-> IF Running(q) /\ plan[q].user = u
                                     THEN valid[q] \cup {plan[r].new} ELSE valid[q]]
  /\ Goto(r, "generateToken")
  /\ UNCHANGED <<tables, rows, owed, server, plan, after, stage, seen, mixed, authVars>>

\* Mutant: a token is made of the user alone.
GenerateTokenOfUser(r) ==
  /\ pc[r] = "generateToken"
  /\ made' = [made EXCEPT ![r] = <<plan[r].user, 0>>]
  /\ Goto(r, "loadUser")
  /\ UNCHANGED <<database, server, plan, after, stage, seen, mixed, valid,
                 tokens, second, token, me, came, given>>

\* The expiry of a token is counted in seconds ...
GenerateToken(r) ==
  /\ pc[r] = "generateToken"
  /\ made' = [made EXCEPT ![r] = <<plan[r].user, second>>]
  /\ Goto(r, "loadUser")
  /\ UNCHANGED <<database, server, plan, after, stage, seen, mixed, valid,
                 tokens, second, token, me, came, given>>

\* ... and it works when its user has been read, which takes its time; it may not
\* find one that was deleted meanwhile.
LoadUser(r) ==
  /\ pc[r] = "loadUser"
  /\ \E u \in {plan[r].user} \cup (IF password[plan[r].user] = None THEN {None} ELSE {}) :
        tokens' = [tokens EXCEPT ![made[r]] = u]
  /\ given' = given \cup {made[r]}
  /\ End(r)
  /\ UNCHANGED <<database, server, plan, seen, mixed, valid, second, token, me, made, came>>

\* A statement fails, or updates no row.
AuthFails(r) ==
  /\ pc[r] \in {"login", "changePassword", "update", "loadUser", "save"}
  /\ End(r)
  /\ UNCHANGED <<database, server, plan, seen, mixed, valid, authVars>>

\* A mutation of the entity User creates, changes or deletes a user, as does what
\* a script saves when others see it.  Nobody asks for the old password, and the
\* tokens of the user stay.  Giving a user another login name is one that deletes
\* the old name and one that creates the new.
SaveUser(r) ==
  /\ pc[r] \in {"save", "script"} /\ plan[r].user # None /\ "User" \in tables
  /\ LET u == plan[r].user
         new == plan[r].new IN
     /\ password' = [password EXCEPT ![u] = new]
     /\ valid' = [q \in Requests |-> IF Running(q) /\ plan[q].user = u
                                     THEN valid[q] \cup ({new} \ {None}) ELSE valid[q]]
     /\ owed' = IF new = None THEN owed \ {u} ELSE owed
  /\ IF pc[r] = "save" THEN End(r) ELSE UNCHANGED control
  /\ UNCHANGED <<tables, rows, server, plan, seen, mixed, authVars>>

\* The request itself goes on as the user it came as.
Logout(r) ==
  /\ pc[r] = "logout"
  /\ tokens' = IF token[r] = None THEN tokens ELSE [tokens EXCEPT ![token[r]] = None]
  /\ End(r)
  /\ UNCHANGED <<database, server, plan, seen, mixed, valid, second, token, me, made, came, given>>

\* Nothing but a login looks at the clock.
Tick == /\ second < Seconds /\ second' = second + 1
        /\ \E r \in Requests : plan[r].user # None
        /\ UNCHANGED <<registryVars, tokens, token, me, made, came, given>>

Authenticate(r) == \/ CheckPassword(r) \/ ChangePassword(r) \/ GenerateToken(r) \/ LoadUser(r)
                   \/ AuthFails(r) \/ SaveUser(r) \/ Logout(r)

-----------------------------------------------------------------------------
AuthInit ==
  /\ tokens = [t \in Tokens |-> None] /\ second = 0
  /\ token = [r \in Requests |-> None] /\ me = [r \in Requests |-> None]
  /\ made = [r \in Requests |-> None] /\ came = [r \in Requests |-> 0]
  /\ given = {}

AuthTypeOK ==
  /\ tokens \in [Tokens -> Users \cup {None}] /\ second \in 0 .. Seconds
  /\ token \in [Requests -> Tokens \cup {None}] /\ me \in [Requests -> Users \cup {None}]
  /\ made \in [Requests -> Tokens \cup {None}] /\ came \in [Requests -> 0 .. Seconds]
  /\ given \subseteq Tokens

Presented(r) == plan[r].password \in valid[r]
Of(r, u) == plan[r].user = u

\* A token appears only by a request that presented a password its user had at
\* some time while the request ran: another request may have replaced it since,
\* but no request gets one with a password that was replaced before it came,
\* whatever it overlaps with.  Nor is a password replaced otherwise, except by
\* those who may save users: they need none.
TokensAreEarned ==
  [][/\ \A t \in Tokens : tokens'[t] # None /\ t \notin given =>
          \E r \in Requests : pc[r] = "loadUser" /\ Of(r, t[1]) /\ Presented(r)
     /\ \A u \in Users : password'[u] # password[u] /\ password[u] # None =>
          \E r \in Requests : /\ Of(r, u)
                              /\ \/ pc[r] = "update" /\ Presented(r)
                                 \/ pc[r] \in {"save", "script"}]_<<tokens, password>>

\* A token that no longer works, after a logout or a restart, works again only
\* by a login or a password change that came no later than the second the token
\* was made in; one that is still reading its user does so long after.
LoggedOutStaysOut ==
  [][\A t \in given : (tokens[t] = None /\ tokens'[t] # None) =>
       \E r \in Requests : pc[r] = "loadUser" /\ Of(r, t[1]) /\ came[r] <= t[2]]_tokens
=============================================================================
