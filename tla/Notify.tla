------------------------------- MODULE Notify -------------------------------
(***************************************************************************)
(* Event notification: the subscriptions that clients and plugins make,    *)
(* backend_notify() and backend_notify_xml() that walk over them, the log  *)
(* callback that turns log messages into events of the CLICON stream, and  *)
(* the client that starts and stops a stream (cli_notification_register).  *)
(* Opening a connection and the exchange of request and answer on it are   *)
(* ConfigSession's subject and one step here.                              *)
(***************************************************************************)
EXTENDS Integers, Sequences, FiniteSets, SequencesExt

CONSTANTS
  Users,       \* client processes
  Sockets,     \* connections
  NoSocket,    \* no connection
  Plugins,     \* plugin callbacks that may subscribe
  Streams,     \* names of streams; "CLICON" carries the log
  Filters,     \* "" or a filter that matches every event
  Kinds,       \* "txt" or "xml": which notify function is called
  SocketSpace, \* notifications that a socket holds before a write blocks
  MaxEvents,   \* bound: number of events
  MaxPluginSubs \* bound: number of subscriptions by plugins

ASSUME NotifyAssumption ==
  /\ SocketSpace \in Nat \ {0} /\ MaxEvents \in Nat
  /\ Sockets \cap Plugins = {} /\ NoSocket \notin Sockets
  /\ "CLICON" \in Streams /\ Kinds \subseteq {"txt", "xml"}

VARIABLES
  ceSubs,     \* the client list, latest first: [socket, subs], subs latest first
  hsSubs,     \* the subscriptions of plugins, latest first: [stream, fn]
  user,       \* [Users -> [on : [Streams -> socket or NoSocket], open : SUBSET Sockets]]
  inbox,      \* [Sockets -> sequence of events that have not been read]
  told,       \* [Sockets -> number of notifications written]
  due,        \* [Sockets -> number of notifications owed]
  walk,       \* the targets left of the event that is being distributed
  logging,    \* does that event come from clicon_log_str()?
  logCb,      \* is _log_notify_cb set?
  logDepth,   \* the static counter cb of clicon_log_str()
  failed,     \* has a send or an allocation failed?
  alive,      \* is the backend alive?
  events      \* number of events so far

notifyVars == <<ceSubs, hsSubs, user, inbox, told, due, walk, logging, logCb, logDepth, failed, alive, events>>

NotifyInit ==
  /\ ceSubs = <<>> /\ hsSubs = <<>>
  /\ user = [u \in Users |-> [on |-> [s \in Streams |-> NoSocket], open |-> {}]]
  /\ inbox = [c \in Sockets |-> <<>>]
  /\ told = [c \in Sockets |-> 0] /\ due = [c \in Sockets |-> 0]
  /\ walk = {} /\ logging = FALSE
  /\ logCb = TRUE /\ logDepth = 0 /\ failed = FALSE /\ alive = TRUE /\ events = 0

\* backend_notify() asks fnmatch(), for which an empty pattern only matches
\* an empty event; backend_notify_xml() takes an empty filter for no filter.
Match(filter, kind) == filter # "" \/ kind = "xml"

\* Who is to be told, and where in the lists his subscription stands: the
\* walk goes over the subscriptions of each client, then over the plugins'.
ClientTargets(stream, kind) ==
  UNION {{[to |-> ceSubs[i].socket, at |-> <<i, j>>] :
            j \in {k \in DOMAIN ceSubs[i].subs : /\ ceSubs[i].subs[k].stream = stream
                                                 /\ Match(ceSubs[i].subs[k].filter, kind)}} : i \in DOMAIN ceSubs}
PluginTargets(stream, kind) ==
  {[to |-> hsSubs[i].fn, at |-> <<Len(ceSubs) + i, 1>>] :
     i \in {k \in DOMAIN hsSubs : hsSubs[k].stream = stream /\ hsSubs[k].format = kind}}
Before(t, u) == t.at[1] < u.at[1] \/ (t.at[1] = u.at[1] /\ t.at[2] < u.at[2])
FirstOf(targets) == CHOOSE t \in targets : \A u \in targets \ {t} : Before(t, u)
MutantTargets(stream, kind) ==
  {t \in ClientTargets(stream, kind) : t = FirstOf(ClientTargets(stream, kind))} \cup PluginTargets(stream, kind)
Targets(stream, kind) == ClientTargets(stream, kind) \cup PluginTargets(stream, kind)
Times(c, targets) == Cardinality({t \in targets : t.to = c})

\* from_client_subscription() with status 1 on a new connection c; when the
\* answer cannot be sent the log callback stays off.
Subscribe(c, stream, filter, answered) ==
  /\ ceSubs' = <<[socket |-> c, subs |-> <<[stream |-> stream, filter |-> filter]>>]>> \o ceSubs
  /\ logCb' = (logCb /\ answered)
  /\ failed' = (failed \/ ~answered)

FreeSockets == {c \in Sockets : \A u \in Users : c \notin user[u].open}
                 \ {ceSubs[i].socket : i \in DOMAIN ceSubs}
Idle == alive /\ walk = {}

\* cli_notification_register() with status 1: an error leaves the connection
\* open, and the subscription with it.
StartStream(u, stream, filter) ==
  /\ Idle /\ user[u].on[stream] = NoSocket /\ FreeSockets # {}
  /\ \E answered \in BOOLEAN :
       LET c == CHOOSE s \in FreeSockets : TRUE
       IN
       /\ Subscribe(c, stream, filter, answered)
       /\ user' = [user EXCEPT ![u].open = @ \cup {c}, ![u].on[stream] = IF answered THEN c ELSE @]
  /\ UNCHANGED <<hsSubs, inbox, told, due, walk, logging, logDepth, alive, events>>

\* from_client_subscription() with status 0 on connection c: the first
\* subscription to the stream that this client entry holds is deleted.
Unsubscribe(c, stream) ==
  LET drop(subs) == LET i == SelectInSeq(subs, LAMBDA su : su.stream = stream)
                    IN IF i = 0 THEN subs ELSE RemoveAt(subs, i)
  IN [i \in DOMAIN ceSubs |-> IF ceSubs[i].socket = c THEN [ceSubs[i] EXCEPT !.subs = drop(@)] ELSE ceSubs[i]]

\* cli_notification_register() with status 0: the socket is no longer looked
\* at, but not closed, and the request goes out on a new connection, closed
\* when it has been answered (NoSocket stands for it).
StopStream(u, stream) ==
  /\ Idle /\ user[u].on[stream] # NoSocket
  /\ user' = [user EXCEPT ![u].on[stream] = NoSocket]
  /\ ceSubs' = Unsubscribe(NoSocket, stream)
  /\ UNCHANGED <<hsSubs, inbox, told, due, walk, logging, logCb, logDepth, failed, alive, events>>

\* The client ends and its sockets are closed.
UserExit(u) ==
  /\ user[u].open # {}
  /\ user' = [user EXCEPT ![u] = [on |-> [s \in Streams |-> NoSocket], open |-> {}]]
  /\ UNCHANGED <<ceSubs, hsSubs, inbox, told, due, walk, logging, logCb, logDepth, failed, alive, events>>

\* The event loop sees the end of the connection: backend_client_rm().
Closed(c) == \A u \in Users : c \notin user[u].open
ClientRm ==
  /\ Idle
  /\ \E i \in DOMAIN ceSubs :
       LET c == ceSubs[i].socket
       IN /\ Closed(c) /\ ceSubs' = RemoveAt(ceSubs, i)
          /\ inbox' = [inbox EXCEPT ![c] = <<>>]
          /\ told' = [told EXCEPT ![c] = 0] /\ due' = [due EXCEPT ![c] = 0]
  /\ UNCHANGED <<hsSubs, user, walk, logging, logCb, logDepth, failed, alive, events>>

\* subscription_add() and subscription_delete() by a plugin.
PluginSubscribe(fn, stream, kind) ==
  /\ Idle /\ Len(hsSubs) < MaxPluginSubs
  /\ hsSubs' = <<[stream |-> stream, format |-> kind, fn |-> fn]>> \o hsSubs
  /\ UNCHANGED <<ceSubs, user, inbox, told, due, walk, logging, logCb, logDepth, failed, alive, events>>
PluginUnsubscribe(fn, stream) ==
  /\ Idle
  /\ \E i \in DOMAIN hsSubs :
       /\ hsSubs[i].stream = stream /\ hsSubs[i].fn = fn
       /\ \A j \in 1..(i - 1) : ~(hsSubs[j].stream = stream /\ hsSubs[j].fn = fn)
       /\ hsSubs' = RemoveAt(hsSubs, i)
  /\ UNCHANGED <<ceSubs, user, inbox, told, due, walk, logging, logCb, logDepth, failed, alive, events>>

\* An event begins its walk over the subscriptions.
Distribute(stream, kind) ==
  /\ events < MaxEvents
  /\ events' = events + 1
  /\ walk' = Targets(stream, kind)
  /\ due' = [c \in Sockets |-> due[c] + Times(c, ClientTargets(stream, kind))]

\* A plugin reports an event.
NotifyEvent(stream, kind) ==
  /\ Idle /\ Distribute(stream, kind)
  /\ UNCHANGED <<ceSubs, hsSubs, user, inbox, told, logging, logCb, logDepth, failed, alive>>

\* clicon_log_str() and config_log_cb(): a message is distributed unless one
\* is being distributed already, which is so while the counter is not 0.  An
\* allocation that fails on the way leaves the counter as it is.
LogEnds(left) ==
  IF logging /\ left = {} THEN logDepth' = 0 /\ logging' = FALSE ELSE UNCHANGED <<logDepth, logging>>
Log ==
  /\ Idle /\ logCb /\ logDepth = 0
  /\ \/ /\ Distribute("CLICON", "txt")
        /\ IF walk' = {} THEN UNCHANGED <<logDepth, logging>> ELSE logDepth' = 1 /\ logging' = TRUE
        /\ UNCHANGED failed
     \/ logDepth' = 1 /\ failed' = TRUE /\ UNCHANGED <<due, walk, logging, events>>
  /\ UNCHANGED <<ceSubs, hsSubs, user, inbox, told, logCb, alive>>

\* The next target: a plugin's callback, or send_msg_notify(), which waits
\* for space in the socket.
MutantSendNotify ==
  /\ alive /\ walk # {}
  /\ LET t == FirstOf(walk).to
     IN \/ t \notin Sockets /\ UNCHANGED <<inbox, told>>
        \/ /\ t \in Sockets /\ ~Closed(t) /\ Len(inbox[t]) < SocketSpace
           /\ inbox' = [inbox EXCEPT ![t] = Append(@, events)]
           /\ told' = [told EXCEPT ![t] = @ + 1]
  /\ walk' = IF FirstOf(walk).to \in Sockets THEN walk \ {FirstOf(walk)} ELSE walk
  /\ LogEnds(walk')
  /\ UNCHANGED <<ceSubs, hsSubs, user, due, logCb, failed, alive, events>>
SendNotify ==
  /\ alive /\ walk # {}
  /\ LET t == FirstOf(walk).to
     IN \/ t \notin Sockets /\ UNCHANGED <<inbox, told>>
        \/ /\ t \in Sockets /\ ~Closed(t) /\ Len(inbox[t]) < SocketSpace
           /\ inbox' = [inbox EXCEPT ![t] = Append(@, events)]
           /\ told' = [told EXCEPT ![t] = @ + 1]
  /\ walk' = walk \ {FirstOf(walk)}
  /\ LogEnds(walk')
  /\ UNCHANGED <<ceSubs, hsSubs, user, due, logCb, failed, alive, events>>

\* The first target that fails ends the walk; the others are not told.
SendFails ==
  /\ alive /\ walk # {}
  /\ walk' = {} /\ failed' = TRUE
  /\ LogEnds(walk')
  /\ UNCHANGED <<ceSubs, hsSubs, user, inbox, told, due, logCb, alive, events>>

\* A write to a socket that the client has closed: SIGPIPE.
Sigpipe ==
  /\ alive /\ walk # {} /\ FirstOf(walk).to \in Sockets /\ Closed(FirstOf(walk).to)
  /\ alive' = FALSE
  /\ UNCHANGED <<ceSubs, hsSubs, user, inbox, told, due, walk, logging, logCb, logDepth, failed, events>>

\* cli_notification_cb(): the client reads the sockets it has registered.
ReadNotify(u, stream) ==
  /\ LET c == user[u].on[stream]
     IN /\ c # NoSocket /\ inbox[c] # <<>>
        /\ inbox' = [inbox EXCEPT ![c] = Tail(@)]
  /\ UNCHANGED <<ceSubs, hsSubs, user, told, due, walk, logging, logCb, logDepth, failed, alive, events>>

NotifyNext ==
  \/ \E u \in Users, s \in Streams :
       \/ \E f \in Filters : StartStream(u, s, f)
       \/ StopStream(u, s)
       \/ ReadNotify(u, s)
  \/ \E u \in Users : UserExit(u)
  \/ ClientRm
  \/ \E fn \in Plugins, s \in Streams : PluginUnsubscribe(fn, s) \/ \E k \in Kinds : PluginSubscribe(fn, s, k)
  \/ \E s \in Streams, k \in Kinds : NotifyEvent(s, k)
  \/ Log \/ SendNotify \/ SendFails \/ Sigpipe

NotifySpec == NotifyInit /\ [][NotifyNext]_notifyVars

\* A client at its prompt reads what it has registered, and the backend goes
\* on with its walk when it can.
NotifyFairness ==
  /\ WF_notifyVars(SendNotify)
  /\ \A u \in Users, s \in Streams : WF_notifyVars(ReadNotify(u, s))

----------------------------------------------------------------------------
(***************************************************************************)
(* Nobody is forgotten: when no event is under way and no send or          *)
(* allocation has failed, every connection has been written as many        *)
(* notifications as events came up that its subscriptions match, however   *)
(* clients come, go and subscribe in between; and the log is not silenced: *)
(* the callback that subscription requests take away while they answer and *)
(* the counter that keeps log messages about log messages out are back.    *)
(***************************************************************************)
AllSubscribersTold == Idle /\ ~failed => told = due /\ logCb /\ logDepth = 0

(***************************************************************************)
(* The backend does not stay in a write to clients that listen: a walk     *)
(* ends, unless one of those still to be told no longer reads its socket.  *)
(***************************************************************************)
Listened(c) == \E u \in Users, s \in Streams : user[u].on[s] = c
WalkEnds ==
  (\A t \in walk : t.to \in Sockets => Listened(t.to))
    ~> (walk = {} \/ ~alive \/ \E t \in walk : t.to \in Sockets /\ ~Listened(t.to))
=============================================================================
