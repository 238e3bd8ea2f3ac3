---------------------------- MODULE Notification ----------------------------
(***************************************************************************)
(* How browsers are told the number of their notifications.  A mutation of *)
(* a Notification emits an event (model/observer/observer.go) in a         *)
(* goroutine of its own, a task here; NotificationObserver                 *)
(* (modules/notification/observer.go) looks the notification up and visits *)
(* every subscriber, which counts and sends the count down an unbuffered   *)
(* channel (subscriber.go); the goroutine that subscribed sends the first  *)
(* count itself, waits for the end of the subscription, then closes the    *)
(* channel and unregisters (subscription.go).  At the other end of the     *)
(* channel is a websocket (handler/subscriptionhandler.go).                *)
(*                                                                         *)
(* A user stands for a pair of user and application.  A count is the set   *)
(* of notifications counted.  A panic in any of these goroutines has no    *)
(* recover: it ends the server, which starts again with an empty memory.   *)
(***************************************************************************)
EXTENDS Naturals, FiniteSets

CONSTANTS Users,
          Anonymous,   \* the Me of a request without a token
          Callers,     \* who sends requests
          Clients,     \* subscriptions
          Stoppable,   \* bound: clients that may go away
          Notices, OwnerOf,
          Scripted,    \* the notices that scripts save, requests save the others
          Tasks,       \* bound: events under way at once
          None

ASSUME NamesAssumption == /\ Clients \cap Tasks = {} /\ Stoppable \subseteq Clients
                          /\ Anonymous \notin Users /\ Callers \subseteq Users \cup {Anonymous}
                          /\ None \notin Users \cup {Anonymous} \cup Clients \cup Notices
ASSUME OwnerAssumption == OwnerOf \in [Notices -> Users] /\ Scripted \subseteq Notices

Pushers == Clients \cup Tasks

VARIABLES
  notices, used,  \* rows committed, ids ever given
  open,           \* rows a script has saved and not committed
  current,        \* SubscriptionModule.ctx: user of the last GetSchema
  me,             \* Subscriber.ctx
  registered,     \* NotificationObserver.subscribers
  channel,        \* Subscriber.channel
  listening,      \* clients whose websocket reads the channel
  cancelled,      \* subscription contexts that are done
  pc, counted,    \* of the goroutines that push: control and count
  task,           \* of an event: [kind, user, todo, notice, found, due, visited, to]
  last, told,     \* history: last count, notifications ever counted
  muddled         \* history: pushes overlapped, or a change without event

rowVars == <<notices, used, open>>
clientVars == <<me, registered, channel, listening, cancelled>>
history == <<last, told, muddled>>
vars == <<rowVars, current, clientVars, pc, counted, task, history>>

NoTask == [kind |-> "none", user |-> None, todo |-> {}, notice |-> None,
           found |-> TRUE, due |-> {}, visited |-> {}, to |-> None]

Init ==
  /\ notices = {} /\ used = {} /\ open = {}
  /\ current = None
  /\ me = [c \in Clients |-> None] /\ registered = {}
  /\ channel = [c \in Clients |-> "none"] /\ listening = {} /\ cancelled = {}
  /\ pc = [p \in Pushers |-> "off"] /\ counted = [p \in Pushers |-> {}]
  /\ task = [t \in Tasks |-> NoTask]
  /\ last = [c \in Clients |-> {}] /\ told = [c \in Clients |-> {}] /\ muddled = {}

\* The server dies of a panic: open transactions are rolled back, and what it
\* had in memory is as it was when it was started.
Crash ==
  /\ UNCHANGED <<notices, used>> /\ open' = {}
  /\ current' = None
  /\ me' = [c \in Clients |-> None] /\ registered' = {}
  /\ channel' = [c \in Clients |-> "none"] /\ listening' = {} /\ cancelled' = {}
  /\ pc' = [p \in Pushers |-> "off"] /\ counted' = [p \in Pushers |-> {}]
  /\ task' = [t \in Tasks |-> NoTask]
  /\ last' = [c \in Clients |-> {}] /\ told' = [c \in Clients |-> {}] /\ muddled' = {}

Goto(p, label) == pc' = [pc EXCEPT ![p] = label]
NoticesOf(u) == { n \in notices : OwnerOf[n] = u }

-----------------------------------------------------------------------------
(* Requests *)

\* Every request builds its schema from the module singletons, whose Init
\* keeps the context of the request.
GetSchema(u) ==
  /\ current' = u
  /\ UNCHANGED <<rowVars, clientVars, pc, counted, task, history>>

Emit(kind, u, ns) ==
  \E t \in Tasks :
    /\ pc[t] = "off"
    /\ Goto(t, IF kind = "deleted" THEN "start" ELSE "next")
    /\ task' = [task EXCEPT ![t] = [NoTask EXCEPT !.kind = kind, !.user = u, !.todo = ns]]

\* PostOneResolveFn: saved, committed, then emitted with a context of its own.
PostOne(u, n) ==
  /\ n \notin used /\ used' = used \cup {n} /\ notices' = notices \cup {n}
  /\ Emit("posted", u, {n})
  /\ UNCHANGED <<open, current, clientVars, counted, history>>

\* PostResolveFn: the event has the context of the request.
Post(u, ns) ==
  /\ ns \cap used = {} /\ used' = used \cup ns /\ notices' = notices \cup ns
  /\ Emit("multiPosted", u, ns)
  /\ UNCHANGED <<open, current, clientVars, counted, history>>

\* ScriptService.EmitNotification in a transaction: emitted before the commit.
ScriptSaveOne(u, n) ==
  /\ n \notin used /\ used' = used \cup {n} /\ open' = open \cup {n}
  /\ Emit("posted", u, {n})
  /\ UNCHANGED <<notices, current, clientVars, counted, history>>

\* Mutant: the session still holds what it has committed.
ScriptCommitKeeps(n) ==
  /\ n \in open /\ notices' = notices \cup {n}
  /\ muddled' = muddled \cup { c \in Clients : me[c] = OwnerOf[n] }
  /\ UNCHANGED <<used, open, current, clientVars, pc, counted, task, last, told>>

ScriptCommit(n) ==
  /\ n \in open /\ open' = open \ {n} /\ notices' = notices \cup {n}
  /\ muddled' = muddled \cup { c \in Clients : me[c] = OwnerOf[n] }
  /\ UNCHANGED <<used, current, clientVars, pc, counted, task, last, told>>

ScriptClearTx(n) ==
  /\ n \in open /\ open' = open \ {n}
  /\ UNCHANGED <<notices, used, current, clientVars, pc, counted, task, history>>

\* Subscribers learn of a delete by its user, not by the notification's.
Delete(u, ns) ==
  /\ ns \subseteq notices /\ notices' = notices \ ns
  /\ Emit("deleted", u, {})
  /\ muddled' = muddled \cup { c \in Clients : \E n \in ns : me[c] = OwnerOf[n] /\ me[c] # u }
  /\ UNCHANGED <<used, open, current, clientVars, counted, last, told>>

-----------------------------------------------------------------------------
(* Tasks *)

\* distributeChanged of the next notification; nothing to do for nobody.
NextNotice(t) ==
  /\ pc[t] = "next"
  /\ \/ /\ task[t].todo = {}
        /\ Goto(t, "off") /\ task' = [task EXCEPT ![t] = NoTask]
     \/ \E n \in task[t].todo :
          /\ task' = [task EXCEPT ![t].todo = @ \ {n}, ![t].notice = n]
          /\ IF registered = {} THEN UNCHANGED pc ELSE Goto(t, "query")
  /\ UNCHANGED <<rowVars, current, clientVars, counted, history>>

\* The query has a schema of its own, which moves the context of the module.
QueryNotification(t) ==
  /\ pc[t] = "query"
  /\ current' = task[t].user
  /\ task' = [task EXCEPT ![t].found = task[t].notice \in notices]
  /\ Goto(t, "start")
  /\ UNCHANGED <<rowVars, clientVars, counted, history>>

\* The request of a multiPosted has ended: its context is done, the query is
\* refused and the refusal is a panic.
QueryCancelled(t) == pc[t] = "query" /\ task[t].kind = "multiPosted" /\ Crash

\* sync.Map.Range visits what is there all the time, and may visit what is
\* stored or deleted meanwhile.
StartRange(t) ==
  /\ pc[t] = "start"
  /\ task' = [task EXCEPT ![t].due = registered, ![t].visited = {}]
  /\ Goto(t, "range")
  /\ UNCHANGED <<rowVars, current, clientVars, counted, history>>

\* Whom the event concerns.
Concerned(t) == IF task[t].kind = "deleted" THEN task[t].user ELSE OwnerOf[task[t].notice]

\* A nil notification is "Can not query notification", a nil user at either
\* end "User or app not set!".
Panics(t, c) == \/ ~ task[t].found
                \/ me[c] = Anonymous
                \/ task[t].kind = "deleted" /\ task[t].user = Anonymous

\* notificationChanged, notificationDeleted
Visit(t, c) ==
  /\ pc[t] = "range" /\ c \in registered \ task[t].visited
  /\ ~ Panics(t, c)
  /\ task' = [task EXCEPT ![t].visited = @ \cup {c}, ![t].to = c]
  /\ IF me[c] = Concerned(t) THEN Goto(t, "count") ELSE UNCHANGED pc
  /\ UNCHANGED <<rowVars, current, clientVars, counted, history>>

VisitPanics(t, c) ==
  pc[t] = "range" /\ c \in registered \ task[t].visited /\ Panics(t, c) /\ Crash

\* Mutant: the function given to Range returns false after a match.
EndRangeFirst(t) ==
  /\ pc[t] = "range"
  /\ \/ task[t].due \cap registered \subseteq task[t].visited
     \/ \E c \in task[t].visited : me[c] = Concerned(t)
  /\ Goto(t, "next")
  /\ UNCHANGED <<rowVars, current, clientVars, counted, task, history>>

EndRange(t) ==
  /\ pc[t] = "range" /\ task[t].due \cap registered \subseteq task[t].visited
  /\ Goto(t, "next")
  /\ UNCHANGED <<rowVars, current, clientVars, counted, task, history>>

-----------------------------------------------------------------------------
(* pushCounts, of a task or of the goroutine that subscribed *)

To(p) == IF p \in Clients THEN p ELSE task[p].to
Overlaps(p) == \E q \in Pushers \ {p} : pc[q] = "send" /\ To(q) = To(p)

QueryCounts(p) ==
  /\ pc[p] = "count" /\ me[To(p)] # Anonymous
  /\ counted' = [counted EXCEPT ![p] = NoticesOf(me[To(p)])]
  /\ muddled' = IF Overlaps(p) THEN muddled \cup {To(p)} ELSE muddled
  /\ Goto(p, "send")
  /\ UNCHANGED <<rowVars, current, clientVars, task, last, told>>

\* me.Id of a nil user
QueryCountsPanics(p) == pc[p] = "count" /\ me[To(p)] = Anonymous /\ Crash

Receive(p) ==
  LET c == To(p) IN
  /\ pc[p] = "send" /\ channel[c] = "open" /\ c \in listening
  /\ last' = [last EXCEPT ![c] = counted[p]]
  /\ told' = [told EXCEPT ![c] = @ \cup counted[p]]
  /\ counted' = [counted EXCEPT ![p] = {}]
  /\ Goto(p, IF p \in Clients THEN "wait" ELSE "range")
  /\ UNCHANGED <<rowVars, current, clientVars, task, muddled>>

\* A send on a closed channel is a panic, for a sender that waits too.
SendPanics(p) == pc[p] = "send" /\ channel[To(p)] = "closed" /\ Crash

-----------------------------------------------------------------------------
(* Subscriptions *)

\* Mutant: the goroutine waits without pushing a first count.
SubscribeSilently(c) ==
  /\ pc[c] = "off" /\ current # None
  /\ me' = [me EXCEPT ![c] = current]
  /\ registered' = registered \cup {c}
  /\ channel' = [channel EXCEPT ![c] = "open"] /\ listening' = listening \cup {c}
  /\ Goto(c, "wait")
  /\ UNCHANGED <<rowVars, current, cancelled, counted, task, history>>

\* newSubscriber, for whoever made the last request.
Subscribe(c) ==
  /\ pc[c] = "off" /\ current # None
  /\ me' = [me EXCEPT ![c] = current]
  /\ registered' = registered \cup {c}
  /\ channel' = [channel EXCEPT ![c] = "open"] /\ listening' = listening \cup {c}
  /\ Goto(c, "count")
  /\ UNCHANGED <<rowVars, current, cancelled, counted, task, history>>

\* A "stop" message, or the connection breaks.
Cancel(c) ==
  /\ c \in Stoppable \ cancelled /\ pc[c] # "off"
  /\ cancelled' = cancelled \cup {c}
  /\ UNCHANGED <<rowVars, current, me, registered, channel, listening, pc, counted, task, history>>

StopListening(c) ==
  /\ c \in cancelled \cap listening /\ listening' = listening \ {c}
  /\ UNCHANGED <<rowVars, current, me, registered, channel, cancelled, pc, counted, task, history>>

\* destory closes the channel first.
Close(c) ==
  /\ pc[c] = "wait" /\ c \in cancelled
  /\ channel' = [channel EXCEPT ![c] = "closed"] /\ Goto(c, "delete")
  /\ UNCHANGED <<rowVars, current, me, registered, listening, cancelled, counted, task, history>>

deleteSubscriber(c) ==
  /\ pc[c] = "delete"
  /\ registered' = registered \ {c} /\ Goto(c, "gone")
  /\ UNCHANGED <<rowVars, current, me, channel, listening, cancelled, counted, task, history>>

-----------------------------------------------------------------------------
TaskStep(t) ==
  \/ NextNotice(t) \/ QueryNotification(t) \/ QueryCancelled(t)
  \/ StartRange(t) \/ EndRange(t)
  \/ \E c \in Clients : Visit(t, c) \/ VisitPanics(t, c)
PushStep(p) == QueryCounts(p) \/ QueryCountsPanics(p) \/ Receive(p) \/ SendPanics(p)
ClientStep(c) == StopListening(c) \/ Close(c) \/ deleteSubscriber(c)

Next ==
  \/ \E u \in Callers :
       \/ GetSchema(u)
       \/ \E n \in Notices \ Scripted : PostOne(u, n)
       \/ \E n \in Scripted : ScriptSaveOne(u, n)
       \/ \E ns \in (SUBSET (Notices \ Scripted)) \ {{}} : Post(u, ns)
       \/ \E ns \in (SUBSET Notices) \ {{}} : Delete(u, ns)
  \/ \E n \in Scripted : ScriptCommit(n) \/ ScriptClearTx(n)
  \/ \E t \in Tasks : TaskStep(t)
  \/ \E p \in Pushers : PushStep(p)
  \/ \E c \in Clients : Subscribe(c) \/ Cancel(c) \/ ClientStep(c)

Spec == Init /\ [][Next]_vars

\* Goroutines that can run do run, and a websocket that is up is read.
Fairness ==
  /\ \A t \in Tasks : WF_vars(TaskStep(t))
  /\ \A p \in Pushers : WF_vars(PushStep(p))
  /\ \A c \in Clients : WF_vars(ClientStep(c))
FairSpec == Spec /\ Fairness
-----------------------------------------------------------------------------
Labels == {"off", "next", "query", "start", "range", "count", "send", "wait", "delete", "gone"}
Task == [kind : {"none", "posted", "multiPosted", "deleted"}, user : Callers \cup {None},
         todo : SUBSET Notices, notice : Notices \cup {None}, found : BOOLEAN, due : SUBSET Clients,
         visited : SUBSET Clients, to : Clients \cup {None}]

TypeOK ==
  /\ notices \cup open \subseteq used /\ used \subseteq Notices /\ notices \cap open = {}
  /\ current \in Callers \cup {None} /\ me \in [Clients -> Callers \cup {None}]
  /\ registered \cup listening \cup cancelled \cup muddled \subseteq Clients
  /\ channel \in [Clients -> {"none", "open", "closed"}]
  /\ pc \in [Pushers -> Labels] /\ counted \in [Pushers -> SUBSET Notices]
  /\ task \in [Tasks -> Task] 
  /\ last \in [Clients -> SUBSET Notices] /\ told \in [Clients -> SUBSET Notices]

\* Nothing is under way that will still be sent to c.
Settled(c) == /\ pc[c] = "wait" /\ c \notin cancelled
              /\ \A t \in Tasks : pc[t] = "off"

\* A browser ends up with the number of notifications there are: whatever was
\* posted or deleted while it subscribed, between the commit and the event, or
\* during the visit of the subscribers.  Not so when two pushes to it overlap
\* (the older count may arrive last), when somebody else deletes, and when a
\* script emits before it commits.
LastIsCurrent ==
  \A c \in Clients \ muddled : Settled(c) => Cardinality(last[c]) = Cardinality(NoticesOf(me[c]))

\* As long as no subscriber goes away, each notification that a request saves
\* is eventually in a count that every subscriber of its user receives, unless
\* it is deleted before or the server dies.
EveryPostIsCounted ==
  \A c \in Clients, n \in Notices \ Scripted :
    (n \in notices /\ c \in registered /\ me[c] = OwnerOf[n])
      ~> (n \in told[c] \/ n \notin notices \/ c \notin registered)

\* "Can not query notification" (observer.go:122): the notification of an
\* event was there when it was looked up for the subscribers.
PostedIsFound == \A t \in Tasks : (pc[t] = "range" /\ registered # {}) => task[t].found

=============================================================================
