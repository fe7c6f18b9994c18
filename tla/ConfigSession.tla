---------------------------- MODULE ConfigSession ----------------------------
(***************************************************************************)
(* The sessions of the configuration backend: the event loop               *)
(* (lib/src/clicon_event.c), the server socket (config_socket.c), the      *)
(* client list (config_handle.c), the message handlers (config_client.c)   *)
(* and the candidate lock (config_lock.c), together with the clients that  *)
(* use them through clicon_rpc_connect (lib/src/clicon_proto.c).           *)
(*                                                                         *)
(* A client process opens a connection for each request, waits for the     *)
(* answer and closes.  The backend is one thread: select() tells which     *)
(* sockets are readable, and the loop walks its list of registered sockets *)
(* and calls back those that are.  A callback may take entries out of that *)
(* list: its own at end of file, another client's when it kills a session. *)
(***************************************************************************)
EXTENDS Integers, Sequences, FiniteSets, SequencesExt

CONSTANTS
  Pids,      \* client processes
  Conns,     \* connections; also the struct client_entry and event_data of each
  Server,    \* the server socket in the list of the event loop
  None,      \* no process, no entry
  Requests,  \* bound: the operations the clients send
  NoAnswer,  \* the operations that may fail without an answer
  AcceptMayFail  \* accept() may fail (no descriptors left)

ASSUME SessionConstants ==
  /\ Server \notin Conns /\ None \notin Conns \cup Pids \cup {Server}
  /\ AcceptMayFail \in BOOLEAN
  /\ IsFiniteSet(Conns)
  /\ Requests \subseteq {"change", "load", "rm", "initdb", "copy", "commit", "validate",
                        "save", "debug", "call", "lock", "unlock", "kill"}

VARIABLES
  ee,       \* the event list: the newest entry first
  fdset,    \* the entries select() found readable
  e,        \* the entry whose turn it is; None: the loop goes back to select
  ceList,   \* cb_ce_list: the clients, the newest first
  backlog,  \* connections not yet accepted, the oldest first
  conn,     \* conn[c]: the two ends of connection c
  client,   \* client[p]: what process p is doing
  locked,   \* _db_locked: the process that holds the candidate, or None
  cand,     \* who wrote the candidate database last
  run,      \* the same of running
  status    \* "up", or why the backend is gone

vars == <<ee, fdset, e, ceList, backlog, conn, client, locked, cand, run, status>>
loop == <<ee, fdset, e>>
dbs == <<cand, run>>

\* A message of the clients; pid is the session to kill.
Msg == [op : Requests \ {"kill"}, pid : {None}] \cup [op : Requests \cap {"kill"}, pid : Pids]
\* A database: absent, empty, as it was at start, or as a client wrote it.
Content == {"nofile", "empty", "initial"} \cup Pids
Free == [pid |-> None, st |-> "free", peer |-> FALSE, inq |-> <<>>, out |-> "none"]

TypeOK ==
  /\ ee \in Seq(Conns \cup {Server}) /\ ceList \in Seq(Conns) /\ backlog \in Seq(Conns)
  /\ fdset \subseteq Conns \cup {Server}
  /\ e \in Conns \cup {Server, None}
  /\ conn \in [Conns -> [pid : Pids \cup {None}, st : {"free", "pending", "open", "closed"},
                         peer : BOOLEAN, inq : Seq(Msg),
                         out : {"none", "ok", "err", "eof"}]]
  /\ client \in [Pids -> [st : {"idle", "connected", "waiting", "dead"},
                          conn : Conns \cup {None}]]
  /\ locked \in Pids \cup {None}
  /\ cand \in Content /\ run \in Content
  /\ status \in {"up", "sigpipe", "accept"}

Init ==
  /\ ee = <<Server>> /\ fdset = {} /\ e = None
  /\ ceList = <<>> /\ backlog = <<>>
  /\ conn = [c \in Conns |-> Free]
  /\ client = [p \in Pids |-> [st |-> "idle", conn |-> None]]
  /\ locked = None
  /\ cand = "initial" /\ run = "initial"
  /\ status = "up"

------------------------------------------------------------------------------
(* The clients: clicon_rpc_connect and clicon_rpc. *)

Backend == <<loop, ceList, locked, dbs, status>>

\* clicon_connect_unix; the connection waits until it is accepted.
Connect(p) ==
  /\ status = "up"
  /\ client[p].st = "idle"
  /\ \E c \in Conns :
       /\ conn[c].st = "free"
       /\ conn' = [conn EXCEPT ![c] = [pid |-> p, st |-> "pending", peer |-> TRUE,
                                       inq |-> <<>>, out |-> "none"]]
       /\ backlog' = Append(backlog, c)
       /\ client' = [client EXCEPT ![p] = [st |-> "connected", conn |-> c]]
  /\ UNCHANGED Backend

\* clicon_msg_send of the request.
Send(p, m) ==
  /\ status = "up"
  /\ client[p].st = "connected" /\ conn[client[p].conn].st # "closed"
  /\ client' = [client EXCEPT ![p].st = "waiting"]
  /\ conn' = [conn EXCEPT ![client[p].conn].inq = Append(@, m)]
  /\ UNCHANGED <<backlog, Backend>>

\* The client closes its end; a connection nobody holds any more is free.
PeerClosed(c) ==
  IF conn[c].st = "closed" THEN Free ELSE [conn[c] EXCEPT !.peer = FALSE]

\* clicon_msg_rcv of the answer (or end of file), and close.
Receive(p) ==
  /\ client[p].st = "waiting"
  /\ LET c == client[p].conn
     IN /\ conn[c].out # "none"
        /\ conn' = [conn EXCEPT ![c] = PeerClosed(c)]
  /\ client' = [client EXCEPT ![p] = [st |-> "idle", conn |-> None]]
  /\ UNCHANGED <<backlog, Backend>>

\* The process ends at any time, by itself or by the SIGTERM of a kill message.
Die(p) ==
  /\ client[p].st # "dead"
  /\ client' = [client EXCEPT ![p] = [st |-> "dead", conn |-> None]]
  /\ conn' = IF client[p].conn = None THEN conn
             ELSE [conn EXCEPT ![client[p].conn] = PeerClosed(client[p].conn)]
  /\ UNCHANGED <<backlog, Backend>>

------------------------------------------------------------------------------
(* The event loop. *)

\* A read would not block: there is a message, or the peer has closed.
Readable(c) == conn[c].inq # <<>> \/ ~conn[c].peer

Ready == {x \in {ee[n] : n \in 1..Len(ee)} :
            IF x = Server THEN backlog # <<>> ELSE Readable(x)}

MutantSelect ==   \* without FD_ZERO
  /\ status = "up" /\ e = None /\ Ready # {}
  /\ fdset' = fdset \cup Ready
  /\ e' = Head(ee)
  /\ UNCHANGED <<ee, ceList, backlog, conn, client, locked, dbs, status>>

\* select() on all registered entries, then start at the head of the list.
Select ==
  /\ status = "up"
  /\ e = None
  /\ Ready # {}
  /\ fdset' = Ready
  /\ e' = Head(ee)
  /\ UNCHANGED <<ee, ceList, backlog, conn, client, locked, dbs, status>>

\* e_next of entry x, as it is before the callback.
ENext(x) ==
  LET n == CHOOSE n \in 1..Len(ee) : ee[n] = x
  IN IF n = Len(ee) THEN None ELSE ee[n + 1]

\* The entry is not in the set: on to the next.
Skip ==
  /\ status = "up"
  /\ e # None /\ e \notin fdset
  /\ e' = ENext(e)
  /\ UNCHANGED <<ee, fdset, ceList, backlog, conn, client, locked, dbs, status>>

MutantProceed(x, gone) ==   \* _ee_unreg is not looked at
  /\ ee' = RemoveFirst(ee, gone)
  /\ e' = ENext(x)
  /\ UNCHANGED fdset

\* After a callback that took out the entry gone, or none (None): when it did
\* (_ee_unreg) the walk is over.
Proceed(x, gone) ==
  /\ ee' = RemoveFirst(ee, gone)
  /\ e' = IF gone # None THEN None ELSE ENext(x)
  /\ UNCHANGED fdset

\* config_accept_client: a new client entry and a new event, both in front.
Accept ==
  /\ status = "up"
  /\ e = Server /\ Server \in fdset
  /\ LET c == Head(backlog)
     IN /\ conn' = [conn EXCEPT ![c].st = "open"]
        /\ ceList' = <<c>> \o ceList
        /\ ee' = <<c>> \o ee
  /\ backlog' = Tail(backlog)
  /\ e' = ENext(Server)
  /\ UNCHANGED <<fdset, client, locked, dbs, status>>

\* The process is gone: the kernel closes every connection.
Stop(why) ==
  /\ status' = why
  /\ conn' = [c \in Conns |-> [conn[c] EXCEPT !.out = IF @ = "none" THEN "eof" ELSE @]]
  /\ UNCHANGED <<loop, ceList, backlog, client>>

\* accept() fails: the callback returns -1 and event_loop ends.
AcceptFails ==
  /\ AcceptMayFail
  /\ status = "up"
  /\ e = Server /\ Server \in fdset
  /\ Stop("accept")
  /\ UNCHANGED <<locked, dbs>>

------------------------------------------------------------------------------
(* The message handlers. *)

MutantClosed(c) == [conn[c] EXCEPT !.inq = <<>>]   \* the socket stays open

\* backend_client_rm: event entry, socket and client entry go together.
Closed(c) ==
  IF conn[c].peer THEN [conn[c] EXCEPT !.st = "closed", !.inq = <<>>, !.out = "eof"] ELSE Free

\* from_client at end of file.
FromClientEof ==
  /\ status = "up"
  /\ e \in fdset \ {Server}
  /\ conn[e].inq = <<>> /\ ~conn[e].peer
  /\ conn' = [conn EXCEPT ![e] = Closed(e)]
  /\ ceList' = RemoveFirst(ceList, e)
  /\ Proceed(e, e)
  /\ UNCHANGED <<backlog, client, locked, dbs, status>>

\* The message of operation o that entry e brings.
Message(o) ==
  /\ status = "up"
  /\ e \in fdset \ {Server}
  /\ conn[e].inq # <<>>
  /\ Head(conn[e].inq).op = o

Sender == conn[e].pid

MutantAnswer(r) ==   \* the message is not taken from the socket
  \/ /\ conn[e].peer \/ r = "none"
     /\ conn' = [conn EXCEPT ![e].out = r]
     /\ Proceed(e, None)
     /\ UNCHANGED <<ceList, backlog, client, status>>
  \/ ~conn[e].peer /\ r # "none" /\ Stop("sigpipe")

\* send_msg_ok or send_msg_err; writing to a closed peer raises SIGPIPE.
Answer(r) ==
  \/ /\ conn[e].peer \/ r = "none"
     /\ conn' = [conn EXCEPT ![e].inq = Tail(@), ![e].out = IF r = "none" THEN @ ELSE r]
     /\ Proceed(e, None)
     /\ UNCHANGED <<ceList, backlog, client, status>>
  \/ ~conn[e].peer /\ r # "none" /\ Stop("sigpipe")

MutantLockedByOther == FALSE   \* nobody asks

\* "candidate is locked by other client".
LockedByOther == locked # None /\ locked # Sender

(***************************************************************************)
(* The exits of the five handlers that edit the candidate: refused, done   *)
(* with candidate c, failed with a candidate of C, or left without answer. *)
(***************************************************************************)
Refused == LockedByOther /\ Answer("err") /\ UNCHANGED cand
Done(c) == ~LockedByOther /\ Answer("ok") /\ cand' = c
Failed(C) == ~LockedByOther /\ Answer("err") /\ cand' \in C
Silent(o, c) == ~LockedByOther /\ o \in NoAnswer /\ Answer("none") /\ cand' = c

\* from_client_change; lvec2cvec fails without an answer.
FromClientChange ==
  /\ Message("change")
  /\ \/ Refused
     \/ cand # "nofile" /\ Done(Sender)
     \/ Failed(IF cand = "nofile" THEN {cand} ELSE {cand, Sender})
     \/ Silent("change", cand)
  /\ UNCHANGED <<locked, run>>

(***************************************************************************)
(* from_client_load: with replace the candidate is removed and created     *)
(* first.  A failing load may have filled it in part; a failing db_init    *)
(* leaves no candidate and gives no answer.                                *)
(***************************************************************************)
FromClientLoad ==
  /\ Message("load")
  /\ \/ Refused
     \/ cand # "nofile" /\ Done(Sender)
     \/ Failed(IF cand = "nofile" THEN {cand} ELSE {cand, "empty", Sender})
     \/ cand # "nofile" /\ Silent("load", "nofile")
  /\ UNCHANGED <<locked, run>>

\* from_client_initdb: db_init creates a file or opens the one that is there.
FromClientInitdb ==
  /\ Message("initdb")
  /\ \/ Refused
     \/ Done(IF cand = "nofile" THEN "empty" ELSE cand)
     \/ Silent("initdb", cand)
  /\ UNCHANGED <<locked, run>>

FromClientRm ==
  /\ Message("rm")
  /\ \/ Refused
     \/ cand # "nofile" /\ Done("nofile")
     \/ Failed({cand})
  /\ UNCHANGED <<locked, run>>

\* from_client_copy of running to the candidate; a failing copy is cut short.
FromClientCopy ==
  /\ Message("copy")
  /\ \/ Refused
     \/ Done(run)
     \/ Failed({cand, Sender})
  /\ UNCHANGED <<locked, run>>

\* Validation writes default values into the candidate.
Validated == IF cand = "nofile" THEN {cand} ELSE {cand, Sender}

(***************************************************************************)
(* from_client_commit: nobody asks who holds the lock.  The error may come *)
(* from any step of the transaction or from the snapshot after it, and a   *)
(* copy may have been cut short.                                           *)
(***************************************************************************)
FromClientCommit ==
  /\ Message("commit")
  /\ cand' \in Validated
  /\ \/ cand # "nofile" /\ run' = cand' /\ Answer("ok")
     \/ run' \in {run, cand', Sender} /\ Answer("err")
  /\ UNCHANGED locked

\* from_client_validate: it too writes the candidate without asking.
FromClientValidate ==
  /\ Message("validate")
  /\ cand' \in Validated
  /\ \E r \in {"ok", "err"} : Answer(r)
  /\ UNCHANGED <<locked, run>>

\* from_client_save: without an archive directory there is no answer.
FromClientSave ==
  /\ Message("save")
  /\ Answer("ok") \/ Answer("err") \/ ("save" \in NoAnswer /\ Answer("none"))
  /\ UNCHANGED <<locked, dbs>>

FromClientDebug ==
  /\ Message("debug")
  /\ Answer("ok") \/ Answer("err")
  /\ UNCHANGED <<locked, dbs>>

\* from_client_call: a downcall into a plugin; external.
FromClientCall ==
  /\ Message("call")
  /\ Answer("ok") \/ Answer("err")
  /\ UNCHANGED <<locked, dbs>>

MutantFromClientLock ==   \* takes the descriptor for the session
  /\ Message("lock")
  /\ \/ Answer("err") /\ UNCHANGED locked
     \/ ~LockedByOther /\ Answer("ok") /\ locked' = e
  /\ UNCHANGED dbs

FromClientLock ==
  /\ Message("lock")
  /\ \/ Answer("err") /\ UNCHANGED locked    \* locked by other, or not the candidate
     \/ ~LockedByOther /\ Answer("ok") /\ locked' = Sender
  /\ UNCHANGED dbs

FromClientUnlock ==
  /\ Message("unlock")
  /\ \/ Answer("err") /\ UNCHANGED locked
     \/ ~LockedByOther /\ Answer("ok") /\ locked' = None
  /\ UNCHANGED dbs

\* ce_find_bypid: the newest client entry of the process.
FindByPid(p) ==
  LET found == {n \in 1..Len(ceList) : conn[ceList[n]].pid = p}
  IN IF found = {} THEN None ELSE ceList[CHOOSE n \in found : \A m \in found : n <= m]

\* from_client_kill: the entry goes, the process gets a signal, its lock is freed.
FromClientKill ==
  /\ Message("kill")
  /\ LET victim == Head(conn[e].inq).pid
         gone == FindByPid(victim)
     IN /\ locked' = IF locked = victim THEN None ELSE locked
        /\ \/ gone = None /\ Answer("ok")
           \/ /\ gone # None /\ (conn[e].peer \/ e = gone)
              /\ conn' = [c \in Conns |->
                    IF c = gone THEN Closed(c)
                    ELSE IF c = e THEN [conn[c] EXCEPT !.inq = Tail(@), !.out = "ok"]
                    ELSE conn[c]]
              /\ ceList' = RemoveFirst(ceList, gone)
              /\ Proceed(e, gone)
              /\ UNCHANGED <<backlog, client, status>>
           \/ /\ gone # None /\ ~conn[e].peer /\ e # gone
              /\ Answer("ok")
  /\ UNCHANGED dbs

------------------------------------------------------------------------------
Clients == \E p \in Pids : \/ Connect(p)
                           \/ \E m \in Msg : Send(p, m)
                           \/ Receive(p)
                           \/ Die(p)

Handlers == \/ FromClientEof
            \/ FromClientChange \/ FromClientLoad \/ FromClientInitdb \/ FromClientRm
            \/ FromClientCopy \/ FromClientCommit \/ FromClientValidate
            \/ FromClientSave \/ FromClientDebug \/ FromClientCall
            \/ FromClientLock \/ FromClientUnlock \/ FromClientKill

EventLoop == Select \/ Skip \/ Accept \/ AcceptFails \/ Handlers

Next == Clients \/ EventLoop

Spec == Init /\ [][Next]_vars

\* The backend runs whenever it can; a client reads an answer that is there.
Fairness == WF_vars(EventLoop) /\ \A p \in Pids : WF_vars(Receive(p))

FairSpec == Spec /\ Fairness

------------------------------------------------------------------------------
(* Properties *)

(***************************************************************************)
(* The loop never walks on from an entry that was freed: the entry whose   *)
(* turn it is, saved as e_next before a callback, is still in the list,    *)
(* though callbacks remove their own entry (end of file) and others' (a    *)
(* kill message).                                                          *)
(***************************************************************************)
NoDanglingEntry == status = "up" => e = None \/ e \in Range(ee)

(***************************************************************************)
(* Clients, event entries and open sockets stay in step: each open         *)
(* connection is once in the client list and once in the event list, and   *)
(* nothing else is (config_accept_client against backend_client_rm).       *)
(***************************************************************************)
ListsAgree ==
  /\ Range(ceList) = {c \in Conns : conn[c].st = "open"}
  /\ Len(ceList) = Cardinality(Range(ceList))
  /\ Range(ee) = Range(ceList) \cup {Server}
  /\ Len(ee) = Len(ceList) + 1

(***************************************************************************)
(* A callback is only made when its read (or accept) has something to      *)
(* return: one blocking read would stop the whole backend.  The set that   *)
(* select() returned is used over many callbacks and must not grow stale.  *)
(***************************************************************************)
NeverBlocks ==
  status = "up" /\ e # None /\ e \in fdset =>
    IF e = Server THEN backlog # <<>> ELSE Readable(e)

(***************************************************************************)
(* While a process holds the lock no edit of another process reaches the   *)
(* candidate, by any of the five editing handlers, and nobody takes the    *)
(* lock over: it passes through None.  Commit and validate do not ask for  *)
(* the lock; they add default values to the candidate of the holder.       *)
(***************************************************************************)
LockExcludes ==
  [][locked # None =>
       /\ cand' # cand => Sender = locked \/ Message("commit") \/ Message("validate")
       /\ locked' \in {locked, None}]_vars

(***************************************************************************)
(* The backend is not killed by its own answers: SIGPIPE only hits it when *)
(* a client went away between its request and the answer.  No handler      *)
(* answers twice or answers a connection that has been served.             *)
(***************************************************************************)
SurvivesPoliteClients ==
  status = "sigpipe" => \E p \in Pids : client[p].st = "dead"

(***************************************************************************)
(* Every request gets an answer (or end of file), whatever other clients   *)
(* do: no socket of the list is starved, although a removal cuts the walk  *)
(* short and new entries come in front ("one-shot rpc: open, send, get     *)
(* reply and close").                                                      *)
(***************************************************************************)
RequestsAnswered ==
  \A p \in Pids : client[p].st = "waiting" ~> client[p].st # "waiting"
==============================================================================
