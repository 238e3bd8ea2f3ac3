------------------------------ MODULE Websocket ------------------------------
(***************************************************************************)
(* A websocket connection (src/handler/subscriptionhandler.go) is a        *)
(* request that goes on after GetSchema: it reads messages, and each       *)
(* "start" makes a subscriber with a goroutine that waits for the results  *)
(* of graphql.Subscribe.  All subscribers of a connection share one        *)
(* context; unsubscribe is called by the goroutines and by the reader.     *)
(*                                                                         *)
(* Two goroutines of a connection that write at the same instant end the   *)
(* process, which Crash covers.                                            *)
(***************************************************************************)
EXTENDS Registry

CONSTANT MaxStarts   \* bound: "start" messages on a connection
ASSUME MaxStartsAssumption == MaxStarts \in Nat

VARIABLES starts,       \* how many so far
          last,         \* the subscriber the reader knows, 0 for none
          subscribers,  \* the map: <<connection, number>>
          open,         \* connections that are not closed on this side
          cancelled,    \* connections whose context is done
          routine,      \* of a subscriber: "off", "select", "write", "ended"
          broken        \* history: reading failed before the context was done

socketVars == <<starts, last, subscribers, open, cancelled, routine, broken>>
elsewhere == <<database, server, plan, seen, mixed, valid>>
Numbers == 1 .. MaxStarts

Routine(r, n, label) == routine' = [routine EXCEPT ![r][n] = label]

unsubscribe(r, n) ==
  /\ cancelled' = cancelled \cup {r}
  /\ open' = IF n = 0 THEN open ELSE open \ {r}
  /\ subscribers' = subscribers \ {<<r, n>>}

\* Mutant: a connection has one subscriber in the map.
ReadStartReplaces(r) ==
  /\ pc[r] = "subscribe" /\ r \in open /\ starts[r] < MaxStarts
  /\ LET n == starts[r] + 1 IN
     /\ starts' = [starts EXCEPT ![r] = n] /\ last' = [last EXCEPT ![r] = n]
     /\ subscribers' = { s \in subscribers : s[1] # r } \cup {<<r, n>>}
     /\ Routine(r, n, "select")
  /\ UNCHANGED <<elsewhere, control, open, cancelled, broken>>

ReadStart(r) ==
  /\ pc[r] = "subscribe" /\ r \in open /\ starts[r] < MaxStarts
  /\ LET n == starts[r] + 1 IN
     /\ starts' = [starts EXCEPT ![r] = n] /\ last' = [last EXCEPT ![r] = n]
     /\ subscribers' = subscribers \cup {<<r, n>>}
     /\ Routine(r, n, "select")
  /\ UNCHANGED <<elsewhere, control, open, cancelled, broken>>

\* Mutant: the connection is closed and its subscriber forgotten only by the
\* goroutine.
ReadStopCancels(r) ==
  /\ pc[r] = "subscribe" /\ r \in open
  /\ cancelled' = cancelled \cup {r}
  /\ End(r)
  /\ UNCHANGED <<elsewhere, starts, last, subscribers, open, routine, broken>>

ReadStop(r) ==
  /\ pc[r] = "subscribe" /\ r \in open
  /\ unsubscribe(r, last[r])
  /\ End(r)
  /\ UNCHANGED <<elsewhere, starts, last, routine, broken>>

\* The client is gone, or a goroutine has closed the connection.
ReadFails(r) ==
  /\ pc[r] = "subscribe"
  /\ cancelled' = cancelled \cup {r}
  /\ broken' = IF r \in cancelled THEN broken ELSE broken \cup {r}
  /\ End(r)
  /\ UNCHANGED <<elsewhere, starts, last, subscribers, open, routine>>

\* A result arrives.
Receives(r, n) ==
  /\ routine[r][n] = "select" /\ Routine(r, n, "write")
  /\ UNCHANGED <<elsewhere, control, starts, last, subscribers, open, cancelled, broken>>

\* It is written, or writing fails and the goroutine goes on.
Writes(r, n) ==
  /\ routine[r][n] = "write" /\ Routine(r, n, "select")
  /\ UNCHANGED <<elsewhere, control, starts, last, subscribers, open, cancelled, broken>>

\* ErrCloseSent
WriteIsRefused(r, n) ==
  /\ routine[r][n] = "write" /\ Routine(r, n, "select")
  /\ unsubscribe(r, n)
  /\ UNCHANGED <<elsewhere, control, starts, last, broken>>

\* graphql.Subscribe closes its channel: after an error, or when the source
\* does, which Notification models.
ChannelCloses(r, n) ==
  /\ routine[r][n] = "select" /\ Routine(r, n, "ended")
  /\ unsubscribe(r, n)
  /\ UNCHANGED <<elsewhere, control, starts, last, broken>>

ContextIsDone(r, n) ==
  /\ routine[r][n] = "select" /\ r \in cancelled /\ Routine(r, n, "ended")
  /\ UNCHANGED <<elsewhere, control, starts, last, subscribers, open, cancelled, broken>>

Subscription(r) ==
  \/ ReadStart(r) \/ ReadStop(r) \/ ReadFails(r)
  \/ \E n \in Numbers : \/ Receives(r, n) \/ Writes(r, n) \/ WriteIsRefused(r, n)
                        \/ ChannelCloses(r, n) \/ ContextIsDone(r, n)

-----------------------------------------------------------------------------
SocketInit ==
  /\ starts = [r \in Requests |-> 0] /\ last = [r \in Requests |-> 0]
  /\ subscribers = {} /\ open = Requests /\ cancelled = {} /\ broken = {}
  /\ routine = [r \in Requests |-> [n \in Numbers |-> "off"]]

SocketTypeOK ==
  /\ starts \in [Requests -> 0 .. MaxStarts] /\ last \in [Requests -> 0 .. MaxStarts]
  /\ subscribers \subseteq Requests \X Numbers
  /\ open \subseteq Requests /\ cancelled \subseteq Requests /\ broken \subseteq Requests
  /\ routine \in [Requests -> [Numbers -> {"off", "select", "write", "ended"}]]

Serving(r, n) == routine[r][n] \in {"select", "write"}

\* A subscription that has not been cancelled is in the map, whatever other
\* subscriptions of its connection do.
ServedIsKnown ==
  \A r \in Requests, n \in Numbers : Serving(r, n) /\ r \notin cancelled => <<r, n>> \in subscribers

\* A connection with one subscription leaves nothing in the map, in whichever
\* order its reader and its goroutine find out that it has ended.  A client
\* that is gone without a "stop" leaves its subscriber, and of several
\* subscribers "stop" removes the last.
NothingIsLeftBehind ==
  \A r \in Requests :
     (/\ pc[r] = "done" /\ r \notin broken /\ starts[r] = 1
      /\ \A n \in Numbers : ~ Serving(r, n))
     => \A n \in Numbers : <<r, n>> \notin subscribers
=============================================================================
