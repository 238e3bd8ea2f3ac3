------------------------------- MODULE MCServer -------------------------------
EXTENDS Server

CONSTANTS sys, crm, erp, admin, r1, r2, r3

Ask(op, app) == [op |-> op, app |-> app, user |-> None, password |-> None, new |-> None]
As(ask, user, pwd, new) == [ask EXCEPT !.user = user, !.password = pwd, !.new = new]
For(a, b, c) == [r \in Requests |-> CASE r = r1 -> a [] r = r2 -> b [] r = r3 -> c]

NotSent == Ask(None, None)
Login(pwd) == As(Ask("login", None), admin, pwd, None)
Change(pwd, new) == As(Ask("changePassword", None), admin, pwd, new)
Install(user, pwd) == As(Ask("install", None), user, None, pwd)
Save(pwd) == As(Ask("save", crm), admin, None, pwd)
ScriptSaves(pwd) == As(Ask("script", crm), admin, None, pwd)
Import(app) == As(Ask("importApp", app), None, None, erp)

Mix(isInstalled, plans) ==
  [installed |-> isInstalled, rows |-> {sys, crm}, password |-> "a", plan |-> plans]

MCMixes ==
  { Mix(FALSE, For(Install(admin, "a"), Install(admin, "b"), Login("a"))),
    Mix(FALSE, For(Install(None, "a"), Install(admin, "b"), Ask("me", None))),
    Mix(FALSE, For(Install(admin, "a"), Ask("query", sys), Ask("me", None))),
    Mix(TRUE, For(Save("b"), Change("a", "c"), NotSent)),
    Mix(TRUE, For(Save(None), Login("a"), NotSent)),
    Mix(TRUE, For(ScriptSaves("b"), NotSent, NotSent)),
    Mix(TRUE, For(Ask("save", crm), Ask("makeVersion", sys), NotSent)),
    Mix(TRUE, For(Login("a"), Change("a", "b"), Ask("logout", None))),
    Mix(TRUE, For(Change("a", "b"), Change("a", "c"), Login("a"))),
    Mix(TRUE, For(Login("a"), Ask("logout", None), Login("a"))),
    Mix(TRUE, For(Ask("makeVersion", crm), Ask("query", sys), NotSent)),
    Mix(TRUE, For(Ask("publish", crm), Ask("makeVersion", None), Ask("script", erp))),
    Mix(TRUE, For(Import(sys), Import(sys), Ask("query", erp))),
    Mix(TRUE, For(Ask("script", None), Ask("query", sys), NotSent)),
    Mix(TRUE, For(Ask("subscribe", crm), Ask("query", sys), NotSent)) }
=============================================================================
