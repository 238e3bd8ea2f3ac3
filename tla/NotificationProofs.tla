------------------------- MODULE NotificationProofs -------------------------
(***************************************************************************)
(* Proofs about Notification, for any number of users, subscriptions,      *)
(* notifications and events under way.  The argument: whenever the rows of *)
(* a user change, an event starts that will count for each subscriber of   *)
(* this user, or the change is one of those that send no event to him      *)
(* (muddled).  The event remains owed to the subscriber while it waits in  *)
(* its list of notifications, asks for the notification, and goes through  *)
(* the subscribers; and it counts after the change.  A count that is sent  *)
(* when no event is owed is therefore current, and as no two are sent to   *)
(* one subscriber at once, it is the last that arrives.                    *)
(***************************************************************************)
EXTENDS Notification, TLAPS

\* A subscriber from its registration until it closes its channel.
Serving(c) == pc[c] \in {"count", "send", "wait"}

TaskOK ==
  /\ \A t \in Tasks :
       /\ pc[t] = "off" => task[t].todo = {}
       /\ pc[t] \in {"count", "send"} => task[t].to \in Clients
       /\ task[t].kind = "deleted" => task[t].todo = {}
  /\ \A c \in Clients : Serving(c) => c \in registered

\* Event t will still count for c: it has a notification of c's user to do, it
\* is about such a notification or such a user and has not visited c, or it
\* visits c now.
WillCount(t, c) ==
  \/ \E n \in task[t].todo : OwnerOf[n] = me[c]
  \/ /\ \/ pc[t] \in {"query", "start"}
        \/ pc[t] \in {"range", "count", "send"} /\ c \in task[t].due \ task[t].visited
     /\ me[c] = Concerned(t)
  \/ pc[t] = "count" /\ task[t].to = c

Owed(c) == pc[c] = "count" \/ \E t \in Tasks : WillCount(t, c)
Sends(p, c) == pc[p] = "send" /\ To(p) = c

\* No two counts are on their way to c.
OneSends ==
  \A c \in Clients \ muddled, p, q \in Pushers : Sends(p, c) /\ Sends(q, c) => p = q

\* When no event is owed, what is on its way to c, or was the last to arrive,
\* is current.
UpToDate(c) ==
  Serving(c) /\ ~ Owed(c) =>
     /\ \A p \in Pushers : Sends(p, c) => counted[p] = NoticesOf(me[c])
     /\ (\A p \in Pushers : ~ Sends(p, c)) => last[c] = NoticesOf(me[c])

Current == \A c \in Clients \ muddled : UpToDate(c)

NotificationInv == TypeOK /\ TaskOK /\ OneSends /\ Current

-----------------------------------------------------------------------------
(* Types *)

LEMMA Emitted ==
  ASSUME TypeOK, TaskOK, NEW kind \in {"posted", "multiPosted", "deleted"}, NEW u \in Callers,
         NEW ns \in SUBSET Notices, kind = "deleted" => ns = {},
         Emit(kind, u, ns), UNCHANGED <<registered>>
  PROVE  /\ pc' \in [Pushers -> Labels] /\ task' \in [Tasks -> Task]
         /\ TaskOK'
<1> USE NamesAssumption DEF TypeOK, TaskOK
<1>1. PICK t \in Tasks :
        /\ pc[t] = "off"
        /\ pc' = [pc EXCEPT ![t] = IF kind = "deleted" THEN "start" ELSE "next"]
        /\ task' = [task EXCEPT ![t] = [NoTask EXCEPT !.kind = kind, !.user = u, !.todo = ns]]
  BY DEF Emit, Goto
<1>2. t \in Pushers
  BY DEF Pushers
<1>3. [NoTask EXCEPT !.kind = kind, !.user = u, !.todo = ns] \in Task
  BY DEF NoTask, Task
<1>4. /\ pc' \in [Pushers -> Labels] /\ task' \in [Tasks -> Task]
  BY <1>1, <1>2, <1>3 DEF Labels
<1>5. \A q \in Tasks : q # t => pc'[q] = pc[q] /\ task'[q] = task[q]
  BY <1>1, <1>2 DEF Pushers
<1>6. /\ task'[t].todo = ns /\ task'[t].kind = kind
      /\ pc'[t] \in {"start", "next"}
  BY <1>1, <1>2 DEF NoTask
<1>7. \A c \in Clients : pc'[c] = pc[c]
  BY <1>1 DEF Pushers
<1> QED
  BY <1>4, <1>5, <1>6, <1>7 DEF Serving

\* A step of event t alone.
LEMMA Moved ==
  ASSUME TypeOK, TaskOK, NEW t \in Tasks, NEW x \in Task, NEW k \in Labels,
         task' = [task EXCEPT ![t] = x], pc' = [pc EXCEPT ![t] = k], UNCHANGED registered,
         k = "off" => x.todo = {}, k \in {"count", "send"} => x.to \in Clients,
         x.kind = "deleted" => x.todo = {}
  PROVE  /\ pc' \in [Pushers -> Labels] /\ task' \in [Tasks -> Task]
         /\ TaskOK'
BY NamesAssumption DEF TypeOK, TaskOK, Serving, Pushers

LEMMA TypeStep ==
  ASSUME TypeOK, TaskOK, [Next]_vars
  PROVE  TypeOK' /\ TaskOK'
<1> USE NamesAssumption, OwnerAssumption
    DEF TypeOK, rowVars, clientVars, history
<1>0. Clients \subseteq Pushers /\ Tasks \subseteq Pushers
  BY DEF Pushers
<1>1. ASSUME Crash PROVE TypeOK' /\ TaskOK'
  BY <1>1 DEF Crash, NoTask, Task, Labels, TaskOK, Pushers, Serving
<1>2. ASSUME NEW u \in Callers, GetSchema(u) PROVE TypeOK' /\ TaskOK'
  BY <1>2 DEF GetSchema, TaskOK, Serving
<1>3. ASSUME NEW u \in Callers, NEW n \in Notices \ Scripted, PostOne(u, n) PROVE TypeOK' /\ TaskOK'
  BY <1>3, Emitted DEF PostOne
<1>4. ASSUME NEW u \in Callers, NEW n \in Scripted, ScriptSaveOne(u, n) PROVE TypeOK' /\ TaskOK'
  BY <1>4, Emitted DEF ScriptSaveOne
<1>5. ASSUME NEW u \in Callers, NEW ns \in (SUBSET (Notices \ Scripted)) \ {{}}, Post(u, ns)
      PROVE TypeOK' /\ TaskOK'
  BY <1>5, Emitted DEF Post
<1>6. ASSUME NEW u \in Callers, NEW ns \in (SUBSET Notices) \ {{}}, Delete(u, ns)
      PROVE TypeOK' /\ TaskOK'
  BY <1>6, Emitted DEF Delete
<1>7. ASSUME NEW n \in Scripted, ScriptCommit(n) PROVE TypeOK' /\ TaskOK'
  BY <1>7 DEF ScriptCommit, TaskOK, Serving
<1>8. ASSUME NEW n \in Scripted, ScriptClearTx(n) PROVE TypeOK' /\ TaskOK'
  BY <1>8 DEF ScriptClearTx, TaskOK, Serving
<1>t. ASSUME NEW t \in Tasks
      PROVE  /\ task[t] \in Task /\ pc[t] \in Labels /\ pc = [pc EXCEPT ![t] = pc[t]]
             /\ task = [task EXCEPT ![t] = task[t]]
  BY <1>0, <1>t
<1>r. ASSUME NEW x \in Task
      PROVE  /\ [x EXCEPT !.due = registered, !.visited = {}] \in Task
             /\ \A n \in Notices : [x EXCEPT !.todo = @ \ {n}, !.notice = n] \in Task
             /\ [x EXCEPT !.found = x.notice \in notices] \in Task
             /\ \A c \in Clients : [x EXCEPT !.visited = @ \cup {c}, !.to = c] \in Task
  <2>1. [x EXCEPT !.due = registered, !.visited = {}] \in Task
    BY <1>r DEF Task
  <2>2. \A n \in Notices : [x EXCEPT !.todo = @ \ {n}, !.notice = n] \in Task
    BY <1>r DEF Task
  <2>3. [x EXCEPT !.found = x.notice \in notices] \in Task
    <3>1. (x.notice \in notices) \in BOOLEAN
      OBVIOUS
    <3>2. \A f \in BOOLEAN : [x EXCEPT !.found = f] \in Task
      BY <1>r DEF Task
    <3> QED
      BY <3>1, <3>2
  <2>4. \A c \in Clients : [x EXCEPT !.visited = @ \cup {c}, !.to = c] \in Task
    BY <1>r DEF Task
  <2> QED
    BY <2>1, <2>2, <2>3, <2>4, Zenon
<1>9. ASSUME NEW t \in Tasks, NextNotice(t) PROVE TypeOK' /\ TaskOK'
  <2>1. CASE task[t].todo = {} /\ task' = [task EXCEPT ![t] = NoTask] /\ Goto(t, "off")
    <3>1. NoTask \in Task
      BY DEF NoTask, Task
    <3>2. NoTask.todo = {}
      BY DEF NoTask
    <3> HIDE DEF NoTask
    <3> QED
      BY <1>9, <2>1, <3>1, <3>2, Moved DEF NextNotice, Goto, Labels
  <2>2. ASSUME NEW n \in task[t].todo,
               task' = [task EXCEPT ![t].todo = @ \ {n}, ![t].notice = n],
               IF registered = {} THEN UNCHANGED pc ELSE Goto(t, "query")
        PROVE  TypeOK' /\ TaskOK'
    <3> DEFINE x == [task[t] EXCEPT !.todo = @ \ {n}, !.notice = n]
    <3>0. n \in Notices
      BY <1>t, <2>2 DEF Task
    <3>1. x \in Task
      BY <1>t, <1>r, <3>0, Zenon
    <3>2. x.todo = task[t].todo \ {n} /\ x.kind = task[t].kind /\ x.to = task[t].to
      BY <1>t DEF Task
    <3>3. task' = [task EXCEPT ![t] = x]
      BY <2>2
    <3>4. pc[t] = "next"
      BY <1>9 DEF NextNotice
    <3> HIDE DEF x
    <3>5. PICK k \in {"next", "query"} : pc' = [pc EXCEPT ![t] = k]
      BY <1>t, <2>2, <3>4 DEF Goto
    <3>6. /\ UNCHANGED <<rowVars, current, clientVars, counted, history>>
          /\ task[t].kind = "deleted" => x.todo = {}
      BY <1>9, <2>2, <3>2, Zenon DEF NextNotice, TaskOK
    <3>7. pc' \in [Pushers -> Labels] /\ task' \in [Tasks -> Task] /\ TaskOK'
      BY <3>1, <3>2, <3>3, <3>5, <3>6, Moved DEF Labels
    <3> QED
      BY <3>6, <3>7
  <2> QED
    BY <1>9, <2>1, <2>2 DEF NextNotice
<1>10. ASSUME NEW t \in Tasks, QueryNotification(t) PROVE TypeOK' /\ TaskOK'
  <2> DEFINE x == [task[t] EXCEPT !.found = task[t].notice \in notices]
  <2>0. x \in Task
    BY <1>t, <1>r, Zenon
  <2>1. x \in Task /\ x.todo = task[t].todo /\ x.kind = task[t].kind
    BY <1>t, <2>0 DEF Task
  <2>2. task' = [task EXCEPT ![t] = x] /\ task[t].user \in Callers \cup {None}
    BY <1>t, <1>10 DEF QueryNotification, Task
  <2> HIDE DEF x
  <2>3. /\ UNCHANGED <<rowVars, clientVars, counted, history>>
        /\ pc' = [pc EXCEPT ![t] = pc'[t]] /\ pc'[t] \in {"start", "range"}
        /\ task[t].kind = "deleted" => task[t].todo = {}
    BY <1>0, <1>10 DEF QueryNotification, Goto, TaskOK
  <2>4. pc' \in [Pushers -> Labels] /\ task' \in [Tasks -> Task] /\ TaskOK'
    BY <2>1, <2>2, <2>3, Moved DEF Labels
  <2>5. current' \in Callers \cup {None}
    BY <1>10, <2>2 DEF QueryNotification
  <2> QED
    BY <2>3, <2>4, <2>5
<1>11. ASSUME NEW t \in Tasks, StartRange(t) PROVE TypeOK' /\ TaskOK'
  <2> DEFINE x == [task[t] EXCEPT !.due = registered, !.visited = {}]
  <2>0. x \in Task
    BY <1>t, <1>r, Zenon
  <2>1. x \in Task /\ x.todo = task[t].todo /\ x.kind = task[t].kind
    BY <1>t, <2>0 DEF Task
  <2>2. task' = [task EXCEPT ![t] = x]
    BY <1>11 DEF StartRange
  <2> HIDE DEF x
  <2>3. /\ UNCHANGED <<rowVars, clientVars, counted, history>>
        /\ pc' = [pc EXCEPT ![t] = pc'[t]] /\ pc'[t] \in {"start", "range"}
        /\ task[t].kind = "deleted" => task[t].todo = {}
    BY <1>0, <1>11 DEF StartRange, Goto, TaskOK
  <2>4. pc' \in [Pushers -> Labels] /\ task' \in [Tasks -> Task] /\ TaskOK'
    BY <2>1, <2>2, <2>3, Moved DEF Labels
  <2>5. current' \in Callers \cup {None}
    BY <1>11, <2>2 DEF StartRange
  <2> QED
    BY <2>3, <2>4, <2>5
<1>12. ASSUME NEW t \in Tasks, NEW c \in Clients, Visit(t, c) PROVE TypeOK' /\ TaskOK'
  <2> DEFINE x == [task[t] EXCEPT !.visited = @ \cup {c}, !.to = c]
  <2>0. x \in Task
    BY <1>t, <1>r, Zenon
  <2>1. x \in Task /\ x.todo = task[t].todo /\ x.kind = task[t].kind /\ x.to = c
    BY <1>t, <2>0 DEF Task
  <2>2. task' = [task EXCEPT ![t] = x] /\ pc[t] = "range"
    BY <1>12 DEF Visit
  <2>3. pc' = [pc EXCEPT ![t] = "count"] \/ pc' = [pc EXCEPT ![t] = pc[t]]
    BY <1>t, <1>12 DEF Visit, Goto
  <2>4. /\ UNCHANGED <<rowVars, current, clientVars, counted, history>>
        /\ task[t].kind = "deleted" => task[t].todo = {}
    BY <1>12 DEF Visit, TaskOK
  <2> HIDE DEF x
  <2>5. pc' \in [Pushers -> Labels] /\ task' \in [Tasks -> Task] /\ TaskOK'
    BY <2>1, <2>2, <2>3, <2>4, Moved DEF Labels
  <2> QED
    BY <2>4, <2>5
<1>13. ASSUME NEW t \in Tasks, EndRange(t) PROVE TypeOK' /\ TaskOK'
  BY <1>0, <1>13 DEF EndRange, Goto, TaskOK, Task, Labels, Serving, Pushers
<1>14. ASSUME NEW p \in Pushers, QueryCounts(p) PROVE TypeOK' /\ TaskOK'
  BY <1>0, <1>14 DEF QueryCounts, Goto, TaskOK, Labels, Serving, Pushers, To, NoticesOf
<1>15. ASSUME NEW p \in Pushers, Receive(p) PROVE TypeOK' /\ TaskOK'
  BY <1>0, <1>15 DEF Receive, Goto, TaskOK, Labels, Serving, Pushers, To
<1>16. ASSUME NEW c \in Clients, Subscribe(c) PROVE TypeOK' /\ TaskOK'
  BY <1>0, <1>16 DEF Subscribe, Goto, TaskOK, Labels, Serving, Pushers
<1>17. ASSUME NEW c \in Clients, Cancel(c) PROVE TypeOK' /\ TaskOK'
  BY <1>17 DEF Cancel, TaskOK, Serving
<1>18. ASSUME NEW c \in Clients, ClientStep(c) PROVE TypeOK' /\ TaskOK'
  BY <1>0, <1>18 DEF ClientStep, StopListening, Close, deleteSubscriber, Goto, TaskOK, Labels, Serving, Pushers
<1>19. ASSUME UNCHANGED vars PROVE TypeOK' /\ TaskOK'
  BY <1>19 DEF vars, TaskOK, Serving
<1> QED
  BY <1>1, <1>2, <1>3, <1>4, <1>5, <1>6, <1>7, <1>8, <1>9, <1>10, <1>11, <1>12, <1>13, <1>14,
     <1>15, <1>16, <1>17, <1>18, <1>19
  DEF Next, TaskStep, PushStep, QueryCancelled, VisitPanics, QueryCountsPanics, SendPanics

-----------------------------------------------------------------------------
(* What is sent *)

LEMMA SendsType ==
  ASSUME TypeOK
  PROVE  \A p \in Pushers : p \notin Clients => p \in Tasks
BY NamesAssumption DEF Pushers

\* A step that lets nobody begin to send.
LEMMA NobodySends ==
  ASSUME TypeOK, TaskOK, OneSends, muddled \subseteq muddled',
         \A p \in Pushers, c \in Clients : Sends(p, c)' => Sends(p, c)
  PROVE  OneSends'
BY DEF OneSends, TypeOK

LEMMA OneSendsStep ==
  ASSUME TypeOK, TaskOK, OneSends, [Next]_vars
  PROVE  OneSends'
<1> USE NamesAssumption DEF TypeOK, rowVars, clientVars, history
<1>0. Clients \subseteq Pushers /\ Tasks \subseteq Pushers /\ Clients \cap Tasks = {}
  BY DEF Pushers
<1>1. ASSUME Crash PROVE OneSends'
  BY <1>1 DEF Crash, OneSends, Sends
<1>2. ASSUME NEW kind, NEW u, NEW ns, Emit(kind, u, ns), muddled \subseteq muddled'
      PROVE  OneSends'
  <2>1. \A p \in Pushers, c \in Clients : Sends(p, c)' => Sends(p, c)
    BY <1>0, <1>2 DEF Emit, Goto, Sends, To, Pushers
  <2> QED
    BY <1>2, <2>1, NobodySends
<1>3. ASSUME pc' = pc, task' = task, muddled \subseteq muddled' PROVE OneSends'
  BY <1>3, NobodySends DEF Sends, To
<1>4. ASSUME NEW p \in Pushers, pc'[p] # "send", \A q \in Pushers \ {p} : pc'[q] = pc[q] /\ To(q)' = To(q),
             muddled' = muddled
      PROVE  OneSends'
  <2>1. \A q \in Pushers, c \in Clients : Sends(q, c)' => Sends(q, c)
    BY <1>4 DEF Sends
  <2> QED
    BY <1>4, <2>1, NobodySends
<1>5. ASSUME NEW t \in Tasks, pc'[t] # "send", \A q \in Pushers \ {t} : pc'[q] = pc[q],
             \A q \in Tasks \ {t} : task'[q] = task[q], muddled' = muddled
      PROVE  OneSends'
  <2>1. \A q \in Pushers \ {t} : To(q)' = To(q)
    BY <1>5, SendsType DEF To
  <2> QED
    BY <1>0, <1>4, <1>5, <2>1
<1>6. ASSUME NEW t \in Tasks,
             \/ NextNotice(t) \/ QueryNotification(t) \/ StartRange(t) \/ EndRange(t)
             \/ \E c \in Clients : Visit(t, c)
      PROVE  OneSends'
  <2>1. pc[t] # "send" /\ muddled' = muddled
    BY <1>6 DEF NextNotice, QueryNotification, StartRange, EndRange, Visit
  <2>0. pc' = pc \/ \E k \in {"off", "query", "start", "range", "next", "count"} : pc' = [pc EXCEPT ![t] = k]
    BY <1>6 DEF NextNotice, QueryNotification, StartRange, EndRange, Visit, Goto
  <2>2. pc'[t] # "send" /\ \A q \in Pushers \ {t} : pc'[q] = pc[q]
    BY <1>0, <2>0, <2>1
  <2>3. \A q \in Tasks \ {t} : task'[q] = task[q]
    BY <1>6 DEF NextNotice, QueryNotification, StartRange, EndRange, Visit
  <2> QED
    BY <1>5, <2>1, <2>2, <2>3
<1>7. ASSUME NEW p \in Pushers, QueryCounts(p) PROVE OneSends'
  <2>1. /\ \A q \in Pushers \ {p} : pc'[q] = pc[q]
        /\ \A q \in Pushers : To(q)' = To(q)
        /\ pc[p] = "count" /\ muddled \subseteq muddled'
        /\ Overlaps(p) => To(p) \in muddled'
    BY <1>7 DEF QueryCounts, Goto, To
  <2>2. ASSUME NEW c \in Clients \ muddled', NEW q \in Pushers, NEW r \in Pushers,
               Sends(q, c)', Sends(r, c)'
        PROVE  q = r
    BY <2>1, <2>2 DEF OneSends, Sends, Overlaps
  <2> QED
    BY <2>2 DEF OneSends
<1>8. ASSUME NEW p \in Pushers, Receive(p) PROVE OneSends'
  BY <1>4, <1>8 DEF Receive, Goto, To
<1>9. ASSUME NEW c \in Clients, Subscribe(c) \/ Cancel(c) \/ ClientStep(c) PROVE OneSends'
  BY <1>0, <1>3, <1>4, <1>9 DEF Subscribe, Cancel, ClientStep, StopListening, Close, deleteSubscriber, Goto, To
<1>10. ASSUME NEW u \in Callers, GetSchema(u) PROVE OneSends'
  BY <1>3, <1>10 DEF GetSchema
<1>11. ASSUME NEW n \in Notices, ScriptCommit(n) \/ ScriptClearTx(n) PROVE OneSends'
  BY <1>3, <1>11 DEF ScriptCommit, ScriptClearTx
<1>12. ASSUME NEW u \in Callers, NEW n \in Notices, PostOne(u, n) \/ ScriptSaveOne(u, n) PROVE OneSends'
  BY <1>2, <1>12 DEF PostOne, ScriptSaveOne
<1>13. ASSUME NEW u \in Callers, NEW ns \in SUBSET Notices, Post(u, ns) \/ Delete(u, ns) PROVE OneSends'
  BY <1>2, <1>13 DEF Post, Delete
<1>14. ASSUME UNCHANGED vars PROVE OneSends'
  BY <1>3, <1>14 DEF vars
<1> QED
  BY <1>1, <1>6, <1>7, <1>8, <1>9, <1>10, <1>11, <1>12, <1>13, <1>14, OwnerAssumption
  DEF Next, TaskStep, PushStep, QueryCancelled, VisitPanics, QueryCountsPanics, SendPanics

-----------------------------------------------------------------------------
(* What is current *)

\* A step that neither changes what c is to be told, nor what it is sent.
LEMMA Rests ==
  ASSUME NEW c \in Clients, UpToDate(c),
         Serving(c)' => /\ Serving(c) /\ me'[c] = me[c] /\ last'[c] = last[c]
                        /\ pc[c] = "count" => pc'[c] = "count"
                        /\ \A t \in Tasks : WillCount(t, c) => WillCount(t, c)'
                        /\ NoticesOf(me[c])' = NoticesOf(me[c]) \/ Owed(c)',
         \A p \in Pushers : Sends(p, c)' <=> Sends(p, c),
         \A p \in Pushers : Sends(p, c) => counted'[p] = counted[p]
  PROVE  UpToDate(c)'
BY DEF UpToDate, Owed, NoticesOf

\* A step of event t alone, which forgets nobody it will count for.
LEMMA TaskMoves ==
  ASSUME TypeOK, TaskOK, NEW t \in Tasks, pc[t] # "send", pc'[t] # "send",
         \A q \in Pushers \ {t} : pc'[q] = pc[q], \A q \in Tasks \ {t} : task'[q] = task[q],
         UNCHANGED <<notices, me, counted, last>>,
         NEW c \in Clients, UpToDate(c), Serving(c) /\ WillCount(t, c) => WillCount(t, c)'
  PROVE  UpToDate(c)'
<1>0. t \in Pushers /\ t \notin Clients /\ Clients \subseteq Pushers /\ Tasks \subseteq Pushers
  BY NamesAssumption DEF Pushers
<1>1. pc'[c] = pc[c] /\ (Serving(c)' <=> Serving(c))
  BY <1>0 DEF Serving
<1>2. ASSUME NEW q \in Tasks, q # t, WillCount(q, c) PROVE WillCount(q, c)'
  <2>1. pc'[q] = pc[q] /\ task'[q] = task[q]
    BY <1>0, <1>2
  <2> QED
    BY <1>2, <2>1 DEF WillCount, Concerned
<1>3. \A p \in Pushers : Sends(p, c)' <=> Sends(p, c)
  BY <1>0, SendsType DEF Sends, To
<1> QED
  BY <1>0, <1>1, <1>2, <1>3, Rests DEF NoticesOf

\* An event starts: it will count for the users of its notifications, or for
\* the user who deleted them.
LEMMA EmitOwes ==
  ASSUME TypeOK, TaskOK, NEW kind \in {"posted", "multiPosted", "deleted"}, NEW u \in Callers,
         NEW ns \in SUBSET Notices, Emit(kind, u, ns), UNCHANGED <<me, counted, last>>,
         NEW c \in Clients, UpToDate(c),
         \/ NoticesOf(me[c])' = NoticesOf(me[c])
         \/ \E n \in ns : OwnerOf[n] = me[c]
         \/ kind = "deleted" /\ u = me[c]
  PROVE  UpToDate(c)'
<1>1. PICK t \in Tasks :
        /\ pc[t] = "off"
        /\ pc' = [pc EXCEPT ![t] = IF kind = "deleted" THEN "start" ELSE "next"]
        /\ task' = [task EXCEPT ![t] = [NoTask EXCEPT !.kind = kind, !.user = u, !.todo = ns]]
  BY DEF Emit, Goto
<1>2. /\ t \in Pushers /\ t \notin Clients /\ Clients \subseteq Pushers /\ Tasks \subseteq Pushers
      /\ \A q \in Tasks : q # t => pc'[q] = pc[q] /\ task'[q] = task[q]
      /\ pc'[c] = pc[c] /\ pc'[t] = IF kind = "deleted" THEN "start" ELSE "next"
      /\ \A q \in Pushers \ {t} : pc'[q] = pc[q]
  BY <1>1, NamesAssumption DEF Pushers, TypeOK
<1>3. task'[t].todo = ns /\ task'[t].kind = kind /\ task'[t].user = u
  BY <1>1 DEF NoTask, TypeOK
<1>4. ~ WillCount(t, c)
  BY <1>1 DEF WillCount, TaskOK
<1>5. \A q \in Tasks : WillCount(q, c) => WillCount(q, c)'
  <2>1. ASSUME NEW q \in Tasks, q # t, WillCount(q, c) PROVE WillCount(q, c)'
    BY <1>2, <2>1 DEF WillCount, Concerned
  <2> QED
    BY <1>4, <2>1
<1>6. \A p \in Pushers : Sends(p, c)' <=> Sends(p, c)
  BY <1>1, <1>2, SendsType DEF Sends, To
<1>7. \/ NoticesOf(me[c])' = NoticesOf(me[c])
      \/ WillCount(t, c)'
  BY <1>2, <1>3 DEF WillCount, Concerned
<1> QED
  BY <1>2, <1>5, <1>6, <1>7, Rests DEF Serving, Owed

LEMMA CurrentStep ==
  ASSUME TypeOK, TaskOK, OneSends, Current, [Next]_vars, NEW c \in Clients \ muddled'
  PROVE  UpToDate(c)'
<1> USE NamesAssumption DEF rowVars, clientVars, history
<1>0. /\ Clients \subseteq Pushers /\ Tasks \subseteq Pushers /\ Clients \cap Tasks = {}
      /\ pc \in [Pushers -> Labels] /\ task \in [Tasks -> Task] /\ counted \in [Pushers -> SUBSET Notices]
      /\ c \in Clients /\ Serving(c) => c \in registered
  BY DEF Pushers, TypeOK, TaskOK
<1>1. ASSUME Crash PROVE UpToDate(c)'
  BY <1>0, <1>1 DEF Crash, UpToDate, Serving
<1>2. c \notin muddled => UpToDate(c)
  BY DEF Current
<1>3. ASSUME c \notin muddled, UNCHANGED <<pc, task, me, counted, last>>,
             NoticesOf(me[c])' = NoticesOf(me[c])
      PROVE  UpToDate(c)'
  <2>1. /\ \A t \in Tasks : WillCount(t, c) => WillCount(t, c)'
        /\ \A p \in Pushers : Sends(p, c)' <=> Sends(p, c)
        /\ Serving(c)' => Serving(c)
    BY <1>3 DEF WillCount, Concerned, Sends, To, Serving
  <2> QED
    BY <1>0, <1>2, <1>3, <2>1, Rests
<1>4. ASSUME NEW u \in Callers, GetSchema(u) PROVE UpToDate(c)'
  BY <1>3, <1>4 DEF GetSchema, NoticesOf
<1>5. ASSUME NEW n \in Notices, ScriptCommit(n) PROVE UpToDate(c)'
  BY <1>3, <1>5 DEF ScriptCommit, NoticesOf
<1>6. ASSUME NEW n \in Notices, ScriptClearTx(n) PROVE UpToDate(c)'
  BY <1>3, <1>6 DEF ScriptClearTx, NoticesOf
<1>7. ASSUME NEW u \in Callers, NEW n \in Notices, PostOne(u, n) PROVE UpToDate(c)'
  <2>1. NoticesOf(me[c])' = NoticesOf(me[c]) \/ OwnerOf[n] = me[c]
    BY <1>7 DEF PostOne, NoticesOf
  <2> QED
    BY <1>0, <1>2, <1>7, <2>1, EmitOwes DEF PostOne
<1>8. ASSUME NEW u \in Callers, NEW n \in Notices, ScriptSaveOne(u, n) PROVE UpToDate(c)'
  <2>1. NoticesOf(me[c])' = NoticesOf(me[c])
    BY <1>8 DEF ScriptSaveOne, NoticesOf
  <2> QED
    BY <1>0, <1>2, <1>8, <2>1, EmitOwes DEF ScriptSaveOne
<1>9. ASSUME NEW u \in Callers, NEW ns \in SUBSET Notices, Post(u, ns) PROVE UpToDate(c)'
  <2>1. NoticesOf(me[c])' = NoticesOf(me[c]) \/ \E n \in ns : OwnerOf[n] = me[c]
    BY <1>9 DEF Post, NoticesOf
  <2> QED
    BY <1>0, <1>2, <1>9, <2>1, EmitOwes DEF Post
<1>10. ASSUME NEW u \in Callers, NEW ns \in SUBSET Notices, Delete(u, ns) PROVE UpToDate(c)'
  <2>1. NoticesOf(me[c])' = NoticesOf(me[c]) \/ u = me[c]
    <3>1. \A n \in ns : OwnerOf[n] = me[c] => u = me[c]
      BY <1>0, <1>10 DEF Delete
    <3> QED
      BY <1>10, <3>1 DEF Delete, NoticesOf
  <2> QED
    BY <1>0, <1>2, <1>10, <2>1, EmitOwes DEF Delete
<1>11. ASSUME NEW t \in Tasks, NextNotice(t) PROVE UpToDate(c)'
  <2>1. /\ pc[t] = "next" /\ pc' = [pc EXCEPT ![t] = pc'[t]] /\ pc'[t] # "send"
        /\ \A q \in Tasks \ {t} : task'[q] = task[q]
        /\ UNCHANGED <<notices, me, counted, last, muddled>>
    BY <1>0, <1>11 DEF NextNotice, Goto
  <2>2. ASSUME Serving(c), WillCount(t, c) PROVE WillCount(t, c)'
    <3>1. PICK m \in task[t].todo : OwnerOf[m] = me[c]
      BY <2>1, <2>2 DEF WillCount
    <3>2. PICK n \in task[t].todo :
            /\ task' = [task EXCEPT ![t].todo = @ \ {n}, ![t].notice = n]
            /\ Goto(t, "query")
      BY <1>0, <1>11, <2>2, <3>1 DEF NextNotice
    <3>3. /\ task'[t].todo = task[t].todo \ {n} /\ task'[t].notice = n /\ task'[t].kind = task[t].kind
          /\ pc'[t] = "query"
      BY <1>0, <3>2 DEF Goto, Task
    <3>4. task[t].kind # "deleted"
      BY <3>1 DEF TaskOK
    <3> QED
      BY <2>1, <3>1, <3>3, <3>4 DEF WillCount, Concerned
  <2> QED
    BY <1>0, <1>2, <2>1, <2>2, TaskMoves
<1>12. ASSUME NEW t \in Tasks, QueryNotification(t) PROVE UpToDate(c)'
  <2>1. /\ pc[t] = "query" /\ pc'[t] = "start" /\ \A q \in Pushers \ {t} : pc'[q] = pc[q]
        /\ \A q \in Tasks \ {t} : task'[q] = task[q]
        /\ UNCHANGED <<notices, me, counted, last, muddled>>
    BY <1>0, <1>12 DEF QueryNotification, Goto
  <2>2. /\ task'[t].todo = task[t].todo /\ task'[t].notice = task[t].notice
        /\ task'[t].kind = task[t].kind /\ task'[t].user = task[t].user
    BY <1>0, <1>12 DEF QueryNotification, Task
  <2>3. WillCount(t, c) => WillCount(t, c)'
    BY <2>1, <2>2 DEF WillCount, Concerned
  <2> QED
    BY <1>0, <1>2, <2>1, <2>3, TaskMoves
<1>13. ASSUME NEW t \in Tasks, StartRange(t) PROVE UpToDate(c)'
  <2>1. /\ pc[t] = "start" /\ pc'[t] = "range" /\ \A q \in Pushers \ {t} : pc'[q] = pc[q]
        /\ \A q \in Tasks \ {t} : task'[q] = task[q]
        /\ UNCHANGED <<notices, me, counted, last, muddled>>
    BY <1>0, <1>13 DEF StartRange, Goto
  <2>2. /\ task'[t].todo = task[t].todo /\ task'[t].notice = task[t].notice
        /\ task'[t].kind = task[t].kind /\ task'[t].user = task[t].user
        /\ task'[t].due = registered /\ task'[t].visited = {}
    BY <1>0, <1>13 DEF StartRange, Task
  <2>3. Serving(c) /\ WillCount(t, c) => WillCount(t, c)'
    BY <1>0, <2>1, <2>2 DEF WillCount, Concerned
  <2> QED
    BY <1>0, <1>2, <2>1, <2>3, TaskMoves
<1>14. ASSUME NEW t \in Tasks, NEW d \in Clients, Visit(t, d) PROVE UpToDate(c)'
  <2>1. /\ pc[t] = "range" /\ \A q \in Pushers \ {t} : pc'[q] = pc[q]
        /\ pc'[t] = IF me[d] = Concerned(t) THEN "count" ELSE "range"
        /\ \A q \in Tasks \ {t} : task'[q] = task[q]
        /\ UNCHANGED <<notices, me, counted, last, muddled>>
    BY <1>0, <1>14 DEF Visit, Goto
  <2>2. /\ task'[t].todo = task[t].todo /\ task'[t].notice = task[t].notice
        /\ task'[t].kind = task[t].kind /\ task'[t].user = task[t].user
        /\ task'[t].due = task[t].due /\ task'[t].visited = task[t].visited \cup {d}
        /\ task'[t].to = d
    BY <1>0, <1>14 DEF Visit, Task
  <2>3. WillCount(t, c) => WillCount(t, c)'
    BY <2>1, <2>2 DEF WillCount, Concerned
  <2> QED
    BY <1>0, <1>2, <2>1, <2>3, TaskMoves
<1>15. ASSUME NEW t \in Tasks, EndRange(t) PROVE UpToDate(c)'
  <2>1. /\ pc[t] = "range" /\ pc'[t] = "next" /\ \A q \in Pushers \ {t} : pc'[q] = pc[q]
        /\ task' = task
        /\ UNCHANGED <<notices, me, counted, last, muddled>>
    BY <1>0, <1>15 DEF EndRange, Goto
  <2>2. Serving(c) /\ WillCount(t, c) => WillCount(t, c)'
    BY <1>0, <1>15, <2>1 DEF WillCount, EndRange
  <2> QED
    BY <1>0, <1>2, <2>1, <2>2, TaskMoves
<1>16. ASSUME NEW p \in Pushers, QueryCounts(p) PROVE UpToDate(c)'
  <2>1. /\ pc[p] = "count" /\ pc'[p] = "send" /\ \A q \in Pushers \ {p} : pc'[q] = pc[q]
        /\ counted'[p] = NoticesOf(me[To(p)]) /\ \A q \in Pushers \ {p} : counted'[q] = counted[q]
        /\ UNCHANGED <<notices, me, task, last>> /\ c \notin muddled
        /\ \A q \in Pushers : To(q)' = To(q)
    BY <1>0, <1>16 DEF QueryCounts, Goto, To
  <2>2. CASE c = To(p)
    <3>1. Sends(p, c)'
      BY <2>1, <2>2 DEF Sends
    <3>2. OneSends'
      BY OneSendsStep
    <3>3. \A q \in Pushers : Sends(q, c)' => q = p
      BY <3>1, <3>2, <1>0 DEF OneSends
    <3>4. NoticesOf(me[c])' = NoticesOf(me[c])
      BY <2>1 DEF NoticesOf
    <3> QED
      BY <2>1, <2>2, <3>1, <3>3, <3>4 DEF UpToDate
  <2>3. CASE c # To(p)
    <3>1. p # c
      BY <2>3 DEF To
    <3>2. \A q \in Pushers : /\ Sends(q, c)' <=> Sends(q, c)
                             /\ Sends(q, c) => counted'[q] = counted[q]
      BY <2>1, <2>3 DEF Sends
    <3>3. \A t \in Tasks : WillCount(t, c) => WillCount(t, c)'
      <4>1. ASSUME NEW t \in Tasks, t # p, WillCount(t, c) PROVE WillCount(t, c)'
        BY <1>0, <2>1, <4>1 DEF WillCount, Concerned
      <4>2. ASSUME p \in Tasks, WillCount(p, c) PROVE WillCount(p, c)'
        <5>1. task[p].to # c
          BY <1>0, <2>3, <4>2 DEF To
        <5> QED
          BY <1>0, <2>1, <4>2, <5>1 DEF WillCount, Concerned
      <4> QED
        BY <4>1, <4>2
    <3> QED
      BY <1>0, <1>2, <2>1, <3>1, <3>2, <3>3, Rests DEF Serving, NoticesOf
  <2> QED
    BY <2>2, <2>3
<1>17. ASSUME NEW p \in Pushers, Receive(p) PROVE UpToDate(c)'
  <2>1. /\ pc[p] = "send" /\ \A q \in Pushers \ {p} : pc'[q] = pc[q] /\ counted'[q] = counted[q]
        /\ pc'[p] = IF p \in Clients THEN "wait" ELSE "range"
        /\ UNCHANGED <<notices, me, task, muddled>>
        /\ \A q \in Pushers : To(q)' = To(q)
        /\ last' = [last EXCEPT ![To(p)] = counted[p]]
    BY <1>0, <1>17 DEF Receive, Goto, To
  <2>2. \A t \in Tasks : WillCount(t, c) => WillCount(t, c)'
    <3>1. ASSUME NEW t \in Tasks, t # p, WillCount(t, c) PROVE WillCount(t, c)'
      BY <1>0, <2>1, <3>1 DEF WillCount, Concerned
    <3>2. ASSUME p \in Tasks, WillCount(p, c) PROVE WillCount(p, c)'
      BY <1>0, <2>1, <3>2 DEF WillCount, Concerned
    <3> QED
      BY <3>1, <3>2
  <2>3. /\ Serving(c)' => Serving(c)
        /\ pc[c] = "count" => pc'[c] = "count"
        /\ NoticesOf(me[c])' = NoticesOf(me[c])
    BY <1>0, <2>1 DEF Serving, NoticesOf
  <2>4. CASE c = To(p)
    <3>1. \A q \in Pushers : Sends(q, c) => q = p
      BY <1>0, <2>1, <2>4 DEF OneSends, Sends
    <3>2. \A q \in Pushers : ~ Sends(q, c)'
      BY <2>1, <3>1 DEF Sends
    <3>3. Sends(p, c) /\ last'[c] = counted[p]
      BY <1>0, <2>1, <2>4 DEF Sends, TypeOK
    <3>4. Owed(c) => Owed(c)'
      BY <2>2, <2>3 DEF Owed
    <3> QED
      BY <1>2, <2>1, <2>3, <3>2, <3>3, <3>4 DEF UpToDate
  <2>5. CASE c # To(p)
    <3>1. last'[c] = last[c]
      BY <1>0, <2>1, <2>5 DEF TypeOK
    <3>2. \A q \in Pushers : /\ Sends(q, c)' <=> Sends(q, c)
                             /\ Sends(q, c) => counted'[q] = counted[q]
      BY <2>1, <2>5 DEF Sends
    <3> QED
      BY <1>0, <1>2, <2>1, <2>2, <2>3, <3>1, <3>2, Rests
  <2> QED
    BY <2>4, <2>5
<1>18. ASSUME NEW d \in Clients, Subscribe(d) PROVE UpToDate(c)'
  <2>1. /\ pc' = [pc EXCEPT ![d] = "count"] /\ me' = [me EXCEPT ![d] = current]
        /\ pc[d] = "off"
        /\ UNCHANGED <<notices, counted, task, last, muddled>>
    BY <1>18 DEF Subscribe, Goto
  <2>2. CASE c = d
    BY <1>0, <2>1, <2>2 DEF UpToDate, Owed
  <2>3. CASE c # d
    <3>1. /\ pc'[c] = pc[c] /\ me'[c] = me[c] /\ \A t \in Tasks : pc'[t] = pc[t]
          /\ \A p \in Pushers : pc'[p] = "send" <=> pc[p] = "send"
      BY <1>0, <2>1, <2>3
    <3>2. /\ \A t \in Tasks : WillCount(t, c) => WillCount(t, c)'
          /\ \A p \in Pushers : Sends(p, c)' <=> Sends(p, c)
      BY <2>1, <3>1 DEF WillCount, Concerned, Sends, To
    <3> QED
      BY <1>0, <1>2, <2>1, <3>1, <3>2, Rests DEF Serving, NoticesOf
  <2> QED
    BY <2>2, <2>3
<1>19. ASSUME NEW d \in Clients, Cancel(d) \/ StopListening(d) PROVE UpToDate(c)'
  BY <1>3, <1>19 DEF Cancel, StopListening, NoticesOf
<1>20. ASSUME NEW d \in Clients, Close(d) \/ deleteSubscriber(d) PROVE UpToDate(c)'
  <2>1. /\ pc[d] # "send" /\ pc'[d] \in {"delete", "gone"} /\ \A q \in Pushers \ {d} : pc'[q] = pc[q]
        /\ UNCHANGED <<notices, me, counted, task, last, muddled>>
    BY <1>0, <1>20 DEF Close, deleteSubscriber, Goto
  <2>2. CASE c = d
    BY <2>1, <2>2 DEF UpToDate, Serving
  <2>3. CASE c # d
    <3>1. \A t \in Tasks : pc'[t] = pc[t]
      BY <1>0, <2>1
    <3>2. /\ \A t \in Tasks : WillCount(t, c) => WillCount(t, c)'
          /\ \A p \in Pushers : Sends(p, c)' <=> Sends(p, c)
      BY <2>1, <3>1 DEF WillCount, Concerned, Sends, To
    <3> QED
      BY <1>0, <1>2, <2>1, <2>3, <3>2, Rests DEF Serving, NoticesOf
  <2> QED
    BY <2>2, <2>3
<1>21. ASSUME UNCHANGED vars PROVE UpToDate(c)'
  BY <1>3, <1>21 DEF vars, NoticesOf
<1> QED
  BY <1>1, <1>4, <1>5, <1>6, <1>7, <1>8, <1>9, <1>10, <1>11, <1>12, <1>13, <1>14, <1>15, <1>16,
     <1>17, <1>18, <1>19, <1>20, <1>21, OwnerAssumption
  DEF Next, TaskStep, PushStep, ClientStep, QueryCancelled, VisitPanics, QueryCountsPanics, SendPanics

-----------------------------------------------------------------------------
\* What is still to be counted for a subscriber, and what was: the invariant of
\* events (model/observer), subscribers (subscriber.go) and their counts.
THEOREM Counts == Spec => []NotificationInv
<1>1. Init => NotificationInv
  BY NamesAssumption DEF Init, NotificationInv, TypeOK, TaskOK, OneSends, Current, UpToDate, Serving, Sends,
     NoTask, Task, Labels, Pushers
<1>2. NotificationInv /\ [Next]_vars => NotificationInv'
  BY TypeStep, OneSendsStep, CurrentStep DEF NotificationInv, Current
<1> QED
  BY <1>1, <1>2, PTL DEF Spec

\* Every variable of the notifications keeps its type; a notification is never
\* both committed and in an open transaction of a script.
THEOREM NotificationTypes == Spec => []TypeOK
<1>1. NotificationInv => TypeOK
  BY DEF NotificationInv
<1> QED
  BY <1>1, Counts, PTL

\* When nothing is under way any more, the last count a subscriber received
\* (pushCounts) is that of its notifications, whatever was saved, deleted or
\* counted at once, but for the changes that send it no event.
THEOREM LastCountIsCurrent == Spec => []LastIsCurrent
<1>1. NotificationInv => LastIsCurrent
  <2> SUFFICES ASSUME NotificationInv, NEW c \in Clients \ muddled, Settled(c)
               PROVE  last[c] = NoticesOf(me[c])
    BY DEF LastIsCurrent
  <2>1. /\ pc[c] = "wait" /\ \A t \in Tasks : pc[t] = "off" /\ task[t].todo = {}
        /\ UpToDate(c)
    BY DEF Settled, NotificationInv, TaskOK, Current
  <2>2. ~ Owed(c)
    BY <2>1 DEF Owed, WillCount
  <2>3. \A p \in Pushers : ~ Sends(p, c)
    BY <2>1, NamesAssumption DEF Sends, To, Pushers
  <2> QED
    BY <2>1, <2>2, <2>3 DEF UpToDate, Serving
<1> QED
  BY <1>1, Counts, PTL
=============================================================================
