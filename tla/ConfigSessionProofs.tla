------------------------- MODULE ConfigSessionProofs -------------------------
(***************************************************************************)
(* Proofs about the sessions of the backend, for any set of processes, of  *)
(* connections and of requests.  The lists of the event loop are shown to  *)
(* hold each entry once; with that the place of an entry is unique, which  *)
(* is what e_next and the removals rest on.                                *)
(***************************************************************************)
EXTENDS ConfigSession, SequenceLemmas

------------------------------------------------------------------------------

(***************************************************************************)
(* The inductive invariant.                                                *)
(***************************************************************************)
\* The client list, the event list and the backlog hold each entry once.
Lists ==
  /\ IsInjective(ee) /\ IsInjective(ceList) /\ IsInjective(backlog)
  /\ Range(ceList) = {c \in Conns : conn[c].st = "open"}
  /\ Range(ee) = Range(ceList) \cup {Server}
  /\ Range(backlog) = {c \in Conns : conn[c].st = "pending"}

\* The two ends of a connection.
Ends ==
  /\ \A c \in Conns :
       /\ conn[c].st = "free" => ~conn[c].peer /\ conn[c].inq = <<>>
       /\ conn[c].st # "free" => conn[c].pid \in Pids
       /\ conn[c].st = "closed" => conn[c].peer /\ conn[c].inq = <<>>
       /\ conn[c].peer => conn[c].pid \in Pids /\ client[conn[c].pid].conn = c
  /\ \A p \in Pids :
       /\ client[p].st \in {"idle", "dead"} <=> client[p].conn = None
       /\ client[p].conn # None =>
            LET c == conn[client[p].conn] IN c.pid = p /\ c.peer /\ c.st # "free"

\* One request at a time: what a client that lives sent is read before it is answered.
Requested ==
  status = "up" =>
    /\ \A p \in Pids : client[p].conn # None =>
         LET c == conn[client[p].conn]
         IN /\ client[p].st = "connected" => c.inq = <<>> /\ (c.st # "closed" => c.out = "none")
            /\ client[p].st = "waiting" =>
                 c.inq = <<>> \/ (Tail(c.inq) = <<>> /\ c.out = "none")
    /\ \A c \in Conns :
         conn[c].inq # <<>> /\ ~conn[c].peer => client[conn[c].pid].st = "dead"

\* What select() found readable and the walk has not come to is still readable.
CanRead(x) == IF x = Server THEN backlog # <<>> ELSE Readable(x)

Unserved ==
  status = "up" /\ e # None =>
    \A m, n \in 1..Len(ee) : ee[m] = e /\ m <= n /\ ee[n] \in fdset => CanRead(ee[n])

SessionInv == TypeOK /\ Lists /\ NoDanglingEntry /\ Unserved /\ Ends /\ Requested
              /\ SurvivesPoliteClients

------------------------------------------------------------------------------
(* What the handlers do to the lists, the connections and the databases. *)

Conn == [pid : Pids \cup {None}, st : {"free", "pending", "open", "closed"},
         peer : BOOLEAN, inq : Seq(Msg), out : {"none", "ok", "err", "eof"}]
Process == [st : {"idle", "connected", "waiting", "dead"}, conn : Conns \cup {None}]
DbTypes == locked \in Pids \cup {None} /\ cand \in Content /\ run \in Content

\* A handler that took the message of e and answered it, or gave no answer.
Answered ==
  /\ status = "up" /\ e \in fdset \ {Server} /\ conn[e].inq # <<>>
  /\ \E r \in {"ok", "err", "none"} :
       /\ conn[e].peer \/ r = "none"
       /\ conn' = [conn EXCEPT ![e].inq = Tail(@), ![e].out = IF r = "none" THEN @ ELSE r]
  /\ Proceed(e, None)
  /\ UNCHANGED <<ceList, backlog, client, status>>

\* One that took the client of entry gone out of the lists.
Removed ==
  /\ status = "up" /\ e \in fdset \ {Server}
  /\ \E gone \in Conns :
       /\ conn[gone].st = "open"
       /\ conn' \in [Conns -> Conn] /\ conn'[gone] = Closed(gone)
       /\ \A d \in Conns \ {gone} :
            \/ conn'[d] = conn[d]
            \/ /\ d = e /\ conn[e].peer /\ conn[e].inq # <<>>
               /\ conn'[d] = [conn[d] EXCEPT !.inq = Tail(@), !.out = "ok"]
       /\ ceList' = RemoveFirst(ceList, gone)
       /\ Proceed(e, gone)
  /\ UNCHANGED <<backlog, client, status>>

\* The end of the backend.
Stopped ==
  /\ status = "up"
  /\ Stop("accept") \/ (/\ e \in Range(ee) \ {Server} /\ conn[e].inq # <<>> /\ ~conn[e].peer
                        /\ Stop("sigpipe"))

\* The entry whose turn it is, when it is not the server, is an open connection.
LEMMA TurnIsOpen ==
  ASSUME SessionInv, status = "up", e \in fdset \ {Server}
  PROVE  e \in Conns /\ conn[e].st = "open" /\ e \in Range(ee) /\ conn[e] \in Conn /\ Sender \in Pids
PROOF
<1>1. e \in Conns
  BY SessionConstants DEF SessionInv, TypeOK
<1>2. e # None
  BY <1>1, SessionConstants
<1>3. e \in Range(ee)
  BY <1>2 DEF SessionInv, NoDanglingEntry
<1>4. conn[e].st = "open"
  BY <1>3 DEF SessionInv, Lists
<1> QED
  BY <1>1, <1>3, <1>4 DEF SessionInv, TypeOK, Conn, Ends, Sender

LEMMA AnswerShape ==
  ASSUME SessionInv, NEW o, Message(o), NEW r \in {"ok", "err", "none"}, Answer(r)
  PROVE  Answered \/ Stopped
PROOF
<1>1. status = "up" /\ e \in fdset \ {Server} /\ conn[e].inq # <<>>
  BY DEF Message
<1>2. e \in Range(ee) \ {Server}
  BY <1>1, TurnIsOpen
<1> QED
  BY <1>1, <1>2 DEF Answer, Answered, Stopped

\* The exits of the handlers that edit the candidate.
LEMMA EditShape ==
  ASSUME SessionInv, NEW o, Message(o), NEW C, NEW D, NEW c \in Content,
         UNCHANGED <<locked, run>>, D \subseteq Content, C \in Content,
         Refused \/ Done(C) \/ Failed(D) \/ Silent(o, c)
  PROVE  (Answered \/ Stopped) /\ DbTypes'
PROOF
<1>1. \E r \in {"ok", "err", "none"} : Answer(r)
  BY DEF Refused, Done, Failed, Silent
<1>2. Answered \/ Stopped
  BY <1>1, AnswerShape
<1>3. cand' \in Content
  BY DEF Refused, Done, Failed, Silent, SessionInv, TypeOK
<1> QED
  BY <1>2, <1>3 DEF DbTypes, SessionInv, TypeOK

\* ce_find_bypid returns a client of the list, or none.
LEMMA FindByPidOpen ==
  ASSUME SessionInv, NEW p
  PROVE  FindByPid(p) = None \/ (FindByPid(p) \in Conns /\ conn[FindByPid(p)].st = "open")
PROOF
<1> DEFINE found == {n \in 1..Len(ceList) : conn[ceList[n]].pid = p}
<1>1. CASE found = {}
  BY <1>1 DEF FindByPid
<1>2. CASE found # {}
  <2>1. found \subseteq Nat
    OBVIOUS
  <2>2. \E n \in found : \A m \in found : n <= m
    BY <1>2, <2>1, LeastNat
  <2> DEFINE least == CHOOSE n \in found : \A m \in found : n <= m
  <2>3. least \in found
    BY <2>2
  <2>4. FindByPid(p) = ceList[least]
    BY <1>2 DEF FindByPid
  <2>5. ceList[least] \in Range(ceList)
    <3>1. DOMAIN ceList = 1..Len(ceList)
      BY DEF SessionInv, TypeOK
    <3>2. least \in DOMAIN ceList
      BY <2>3, <3>1
    <3> HIDE DEF least
    <3> QED
      BY <3>2 DEF Range
  <2> QED
    BY <2>4, <2>5 DEF SessionInv, Lists
<1> QED
  BY <1>1, <1>2

\* Every connection the handlers leave behind is one.
LEMMA ClosedType ==
  ASSUME SessionInv, NEW c \in Conns
  PROVE  Closed(c) \in Conn
PROOF
<1>1. conn[c] \in Conn
  BY DEF SessionInv, TypeOK, Conn
<1>2. <<>> \in Seq(Msg)
  OBVIOUS
<1>3. Free \in Conn
  BY <1>2 DEF Free, Conn
<1> QED
  BY <1>1, <1>2, <1>3 DEF Closed, Conn

\* from_client at end of file, and from_client_kill.
LEMMA EofShape ==
  ASSUME SessionInv, FromClientEof
  PROVE  Removed /\ DbTypes'
PROOF
<1>1. e \in Conns /\ conn[e].st = "open"
  BY TurnIsOpen DEF FromClientEof
<1>2. conn' \in [Conns -> Conn] /\ conn'[e] = Closed(e) /\ \A d \in Conns \ {e} : conn'[d] = conn[d]
  BY <1>1, ClosedType DEF FromClientEof, SessionInv, TypeOK, Conn
<1>3. Removed
  BY <1>1, <1>2 DEF FromClientEof, Removed
<1> QED
  BY <1>3 DEF FromClientEof, DbTypes, SessionInv, TypeOK, dbs

LEMMA KillShape ==
  ASSUME SessionInv, FromClientKill
  PROVE  (Answered \/ Stopped \/ Removed) /\ DbTypes'
PROOF
<1> DEFINE victim == Head(conn[e].inq).pid
           gone == FindByPid(victim)
<1>1. Message("kill") /\ "ok" \in {"ok", "err", "none"}
  BY DEF FromClientKill
<1>2. DbTypes'
  BY DEF FromClientKill, DbTypes, SessionInv, TypeOK, dbs
<1>3. CASE Answer("ok")
  BY <1>1, <1>2, <1>3, AnswerShape
<1>4. CASE /\ gone # None /\ (conn[e].peer \/ e = gone)
           /\ conn' = [c \in Conns |->
                 IF c = gone THEN Closed(c)
                 ELSE IF c = e THEN [conn[c] EXCEPT !.inq = Tail(@), !.out = "ok"]
                 ELSE conn[c]]
           /\ ceList' = RemoveFirst(ceList, gone)
           /\ Proceed(e, gone)
           /\ UNCHANGED <<backlog, client, status>>
  <2>1. gone \in Conns /\ conn[gone].st = "open"
    BY <1>4, FindByPidOpen
  <2> HIDE DEF gone
  <2>2. status = "up" /\ e \in fdset \ {Server} /\ conn[e].inq # <<>>
    BY <1>1 DEF Message
  <2>3. e \in Conns /\ conn[e] \in Conn
    BY <2>2, TurnIsOpen
  <2>4. Tail(conn[e].inq) \in Seq(Msg)
    BY <2>2, <2>3 DEF Conn
  <2>5. [conn[e] EXCEPT !.inq = Tail(@), !.out = "ok"] \in Conn
    BY <2>3, <2>4 DEF Conn
  <2>6. \A d \in Conns : conn'[d] \in Conn
    BY <1>4, <2>5, ClosedType DEF SessionInv, TypeOK, Conn
  <2>7. conn' \in [Conns -> Conn]
    BY <1>4, <2>6
  <2>8. \A d \in Conns \ {gone} :
            \/ conn'[d] = conn[d]
            \/ /\ d = e /\ conn[e].peer /\ conn[e].inq # <<>>
               /\ conn'[d] = [conn[d] EXCEPT !.inq = Tail(@), !.out = "ok"]
    BY <1>4, <2>2, <2>3
  <2>9. conn'[gone] = Closed(gone)
    BY <1>4, <2>1
  <2> QED
    BY <1>2, <1>4, <2>1, <2>2, <2>7, <2>8, <2>9 DEF Removed
<1> QED
  BY <1>3, <1>4 DEF FromClientKill

\* The handlers that never touch the databases or the lock but to set them.
LEMMA HandlerShape ==
  ASSUME SessionInv, Handlers
  PROVE  (Answered \/ Stopped \/ Removed) /\ DbTypes'
PROOF
<1> DEFINE Results == {"ok", "err", "none"}
<1>1. \A o : Message(o) => Sender \in Pids
  BY TurnIsOpen DEF Message
<1>2. Pids \subseteq Content /\ {"nofile", "empty", "initial"} \subseteq Content
      /\ cand \in Content /\ run \in Content /\ locked \in Pids \cup {None}
  BY DEF Content, SessionInv, TypeOK
<1>3. ASSUME NEW o, Message(o), NEW r \in Results, Answer(r), DbTypes'
      PROVE  (Answered \/ Stopped) /\ DbTypes'
  BY <1>3, AnswerShape
<1>4. CASE FromClientEof
  BY <1>4, EofShape
<1>5. CASE FromClientChange
  <2> DEFINE D == IF cand = "nofile" THEN {cand} ELSE {cand, Sender}
  <2>1. Sender \in Content /\ D \subseteq Content /\ Message("change") /\ UNCHANGED <<locked, run>>
    BY <1>1, <1>2, <1>5 DEF FromClientChange
  <2>2. Refused \/ Done(Sender) \/ Failed(D) \/ Silent("change", cand)
    BY <1>5 DEF FromClientChange
  <2> HIDE DEF D
  <2> QED
    BY <1>2, <2>1, <2>2, EditShape
<1>6. CASE FromClientLoad
  <2> DEFINE D == IF cand = "nofile" THEN {cand} ELSE {cand, "empty", Sender}
  <2>1. Sender \in Content /\ D \subseteq Content /\ Message("load") /\ UNCHANGED <<locked, run>>
    BY <1>1, <1>2, <1>6 DEF FromClientLoad
  <2>2. Refused \/ Done(Sender) \/ Failed(D) \/ Silent("load", "nofile")
    BY <1>6 DEF FromClientLoad
  <2> HIDE DEF D
  <2> QED
    BY <1>2, <2>1, <2>2, EditShape
<1>7. CASE FromClientInitdb
  <2> DEFINE c == IF cand = "nofile" THEN "empty" ELSE cand
  <2>1. c \in Content /\ {} \subseteq Content /\ Message("initdb") /\ UNCHANGED <<locked, run>>
    BY <1>2, <1>7 DEF FromClientInitdb
  <2>2. Refused \/ Done(c) \/ Silent("initdb", cand)
    BY <1>7 DEF FromClientInitdb
  <2> HIDE DEF c
  <2> QED
    BY <1>2, <2>1, <2>2, EditShape
<1>8. CASE FromClientRm
  <2>1. "nofile" \in Content /\ {cand} \subseteq Content /\ Message("rm") /\ UNCHANGED <<locked, run>>
    BY <1>2, <1>8 DEF FromClientRm
  <2>2. Refused \/ Done("nofile") \/ Failed({cand})
    BY <1>8 DEF FromClientRm
  <2> QED
    BY <1>2, <2>1, <2>2, EditShape
<1>9. CASE FromClientCopy
  <2>1. run \in Content /\ {cand, Sender} \subseteq Content /\ Message("copy")
        /\ UNCHANGED <<locked, run>>
    BY <1>1, <1>2, <1>9 DEF FromClientCopy
  <2>2. Refused \/ Done(run) \/ Failed({cand, Sender})
    BY <1>9 DEF FromClientCopy
  <2> QED
    BY <1>2, <2>1, <2>2, EditShape
<1>10. ASSUME FromClientCommit \/ FromClientValidate
       PROVE  (Answered \/ Stopped) /\ DbTypes'
  <2>1. Validated \subseteq Content /\ Sender \in Content
    BY <1>1, <1>2, <1>10 DEF Validated, FromClientCommit, FromClientValidate
  <2>2. DbTypes'
    BY <1>2, <1>10, <2>1 DEF DbTypes, FromClientCommit, FromClientValidate
  <2> QED
    BY <1>3, <1>10, <2>2 DEF FromClientCommit, FromClientValidate
<1>11. ASSUME FromClientSave \/ FromClientDebug \/ FromClientCall
       PROVE  (Answered \/ Stopped) /\ DbTypes'
  <2>1. DbTypes'
    BY <1>2, <1>11 DEF DbTypes, FromClientSave, FromClientDebug, FromClientCall, dbs
  <2> QED
    BY <1>3, <1>11, <2>1 DEF FromClientSave, FromClientDebug, FromClientCall
<1>12. ASSUME FromClientLock \/ FromClientUnlock
       PROVE  (Answered \/ Stopped) /\ DbTypes'
  <2>1. DbTypes'
    BY <1>1, <1>2, <1>12 DEF DbTypes, FromClientLock, FromClientUnlock, dbs
  <2> QED
    BY <1>3, <1>12, <2>1 DEF FromClientLock, FromClientUnlock
<1>13. CASE FromClientKill
  BY <1>13, KillShape
<1> QED
  BY <1>4, <1>5, <1>6, <1>7, <1>8, <1>9, <1>10, <1>11, <1>12, <1>13 DEF Handlers

------------------------------------------------------------------------------
(* The walk of the event loop. *)

\* e_next of the entry whose turn it is.
LEMMA NextEntry ==
  ASSUME SessionInv, status = "up", e # None
  PROVE  \E i \in 1..Len(ee) : ee[i] = e /\ ENext(e) = IF i = Len(ee) THEN None ELSE ee[i + 1]
PROOF
<1>1. DOMAIN ee = 1..Len(ee) /\ IsInjective(ee) /\ e \in Range(ee)
  BY DEF SessionInv, TypeOK, Lists, NoDanglingEntry
<1>2. PICK i \in 1..Len(ee) : ee[i] = e
  BY <1>1 DEF Range
<1>3. \A n \in 1..Len(ee) : ee[n] = e <=> n = i
  BY <1>1, <1>2 DEF IsInjective
<1>4. (CHOOSE n \in 1..Len(ee) : ee[n] = e) = i
  BY <1>3
<1> QED
  BY <1>2, <1>4 DEF ENext

\* Nothing changes in the walk, and no entry becomes unreadable.
LEMMA WalkStays ==
  ASSUME SessionInv, UNCHANGED loop, status' = status,
         \A x \in Range(ee) : CanRead(x) => CanRead(x)'
  PROVE  NoDanglingEntry' /\ Unserved'
PROOF
<1>1. NoDanglingEntry'
  BY DEF SessionInv, NoDanglingEntry, loop
<1>2. ASSUME status = "up", e # None, NEW m \in 1..Len(ee), NEW n \in 1..Len(ee),
             ee[m] = e, m <= n, ee[n] \in fdset
      PROVE  CanRead(ee[n])'
  <2>1. CanRead(ee[n])
    BY <1>2 DEF SessionInv, Unserved
  <2>2. ee[n] \in Range(ee)
    BY DEF Range, SessionInv, TypeOK
  <2>3. PICK x \in Range(ee) : x = ee[n]
    BY <2>2
  <2>4. CanRead(x)'
    BY <2>1, <2>3
  <2>5. (ee[n])' = x
    BY <2>3 DEF loop
  <2> QED
    BY <2>4, <2>5 DEF CanRead, Readable
<1> QED
  BY <1>1, <1>2 DEF Unserved, CanRead, Readable, loop

\* On to the next entry; none but the one that was served becomes unreadable.
LEMMA WalkOn ==
  ASSUME SessionInv, status = "up", e # None, UNCHANGED <<ee, fdset>>, e' = ENext(e),
         \A x \in Range(ee) \ {e} : CanRead(x) => CanRead(x)'
  PROVE  NoDanglingEntry' /\ Unserved' /\ e' \in Conns \cup {Server, None}
PROOF
<1>1. PICK i \in 1..Len(ee) : ee[i] = e /\ ENext(e) = IF i = Len(ee) THEN None ELSE ee[i + 1]
  BY NextEntry
<1>2. ee \in Seq(Conns \cup {Server}) /\ Len(ee) \in Nat /\ DOMAIN ee = 1..Len(ee) /\ IsInjective(ee)
  BY DEF SessionInv, TypeOK, Lists
<1>3. CASE i = Len(ee)
  BY <1>1, <1>3 DEF NoDanglingEntry, Unserved
<1>4. CASE i # Len(ee)
  <2>1. i + 1 \in 1..Len(ee) /\ e' = ee[i + 1]
    <3>1. e' = ee[i + 1]
      BY <1>1, <1>4
    <3>2. Len(ee) \in Nat /\ i \in 1..Len(ee) /\ i # Len(ee)
      BY <1>2, <1>4
    <3>3. i + 1 \in 1..Len(ee)
      BY ONLY <3>2
    <3> QED
      BY <3>1, <3>3
  <2>2. e' \in Range(ee)
    BY <1>2, <2>1 DEF Range
  <2>3. ASSUME NEW m \in 1..Len(ee), NEW n \in 1..Len(ee), ee[m] = e', m <= n, ee[n] \in fdset
        PROVE  CanRead(ee[n])'
    <3>1. m = i + 1
      BY <1>2, <2>1, <2>3 DEF IsInjective
    <3>2. i <= n /\ i # n
      BY <1>2, <2>3, <3>1
    <3>3. CanRead(ee[n])
      BY <1>1, <2>3, <3>2 DEF SessionInv, Unserved
    <3>4. ee[n] \in Range(ee) \ {e}
      BY <1>1, <1>2, <3>2 DEF Range, IsInjective
    <3>5. PICK x \in Range(ee) \ {e} : x = ee[n]
      BY <3>4
    <3>6. CanRead(x)'
      BY <3>3, <3>5
    <3>7. (ee[n])' = x
      BY <3>5
    <3> QED
      BY <3>6, <3>7 DEF CanRead, Readable
  <2>4. Unserved'
    BY <2>3 DEF Unserved, CanRead, Readable
  <2> QED
    BY <1>2, <2>1, <2>2, <2>4 DEF NoDanglingEntry
<1> QED
  BY <1>3, <1>4

\* The entry whose turn it is can be read, when select() found it readable.
LEMMA TurnCanRead ==
  ASSUME SessionInv, status = "up", e # None, e \in fdset
  PROVE  CanRead(e)
PROOF
<1>1. PICK i \in 1..Len(ee) : ee[i] = e
  BY NextEntry
<1>2. CanRead(ee[i])
  <2>1. Len(ee) \in Nat
    BY DEF SessionInv, TypeOK
  <2> QED
    BY <1>1, <2>1 DEF SessionInv, Unserved
<1> QED
  BY <1>1, <1>2

------------------------------------------------------------------------------
(* The steps of the clients keep the invariant. *)

\* The lists stay, when no connection begins or ends to be open or pending.
LEMMA ListsStay ==
  ASSUME SessionInv, UNCHANGED <<ee, ceList, backlog>>,
         \A c \in Conns : \/ conn'[c].st = conn[c].st
                          \/ {conn'[c].st, conn[c].st} \subseteq {"free", "closed"}
  PROVE  Lists'
PROOF
<1>1. {c \in Conns : conn'[c].st = "open"} = {c \in Conns : conn[c].st = "open"}
  OBVIOUS
<1>2. {c \in Conns : conn'[c].st = "pending"} = {c \in Conns : conn[c].st = "pending"}
  OBVIOUS
<1> QED
  BY <1>1, <1>2 DEF SessionInv, Lists

\* The entries of the event list.
LEMMA EventEntries ==
  ASSUME SessionInv
  PROVE  \A x \in Range(ee) : x = Server \/ (x \in Conns /\ x # Server /\ conn[x].st = "open")
PROOF
  BY SessionConstants DEF SessionInv, Lists

LEMMA ConnectKeeps ==
  ASSUME SessionInv, NEW p \in Pids, Connect(p)
  PROVE  SessionInv'
PROOF
<1>1. PICK c \in Conns :
        /\ conn[c].st = "free"
        /\ conn' = [conn EXCEPT ![c] = [pid |-> p, st |-> "pending", peer |-> TRUE,
                                        inq |-> <<>>, out |-> "none"]]
        /\ backlog' = Append(backlog, c)
        /\ client' = [client EXCEPT ![p] = [st |-> "connected", conn |-> c]]
  BY DEF Connect
<1> DEFINE new == [pid |-> p, st |-> "pending", peer |-> TRUE, inq |-> <<>>, out |-> "none"]
<1>2. status = "up" /\ client[p].st = "idle" /\ UNCHANGED Backend
  BY DEF Connect
<1>3. UNCHANGED <<ee, fdset, e, ceList, locked, cand, run, status, loop>>
  BY <1>2 DEF Backend, loop, dbs
<1>4. TypeOK /\ Lists /\ Unserved /\ Ends /\ Requested
  BY DEF SessionInv
<1>5. conn \in [Conns -> Conn] /\ client \in [Pids -> Process] /\ backlog \in Seq(Conns)
  BY <1>4 DEF TypeOK, Conn, Process
<1>6. /\ conn' = [conn EXCEPT ![c] = new] /\ conn'[c] = new
      /\ \A d \in Conns \ {c} : conn'[d] = conn[d]
  <2>2. conn' = [conn EXCEPT ![c] = new]
    BY <1>1
  <2> HIDE DEF new
  <2> QED
    BY <1>1, <1>5, <2>2
<1>7. /\ client'[p] = [st |-> "connected", conn |-> c]
      /\ \A q \in Pids \ {p} : client'[q] = client[q]
  BY <1>1, <1>5
<1>8. c \notin Range(backlog) /\ IsInjective(backlog)
  BY <1>1, <1>4 DEF Lists
<1>9. /\ backlog' \in Seq(Conns) /\ IsInjective(backlog')
      /\ Range(backlog') = Range(backlog) \cup {c} /\ backlog' # <<>>
  BY <1>1, <1>5, <1>8, QueueProperties
<1>10. TypeOK'
  <2>1. <<>> \in Seq(Msg)
    OBVIOUS
  <2>2. new \in Conn
    BY <2>1 DEF Conn
  <2>3. conn' \in [Conns -> Conn] /\ client' \in [Pids -> Process]
    BY <1>1, <1>5, <1>6, <2>2 DEF Process
  <2> QED
    BY <1>3, <1>4, <1>9, <2>3 DEF TypeOK, Conn, Process
<1>11. Lists'
  <2>1. {d \in Conns : conn'[d].st = "open"} = {d \in Conns : conn[d].st = "open"}
    BY <1>1, <1>6
  <2>2. {d \in Conns : conn'[d].st = "pending"} = {d \in Conns : conn[d].st = "pending"} \cup {c}
    BY <1>1, <1>6
  <2> QED
    BY <1>3, <1>4, <1>9, <2>1, <2>2 DEF Lists
<1>12. NoDanglingEntry' /\ Unserved'
  <2>1. \A x \in Range(ee) : x = Server \/ conn'[x] = conn[x]
    BY <1>1, <1>6, EventEntries
  <2>2. \A x \in Range(ee) : CanRead(x) => CanRead(x)'
    BY <1>9, <2>1 DEF CanRead, Readable
  <2> QED
    BY <1>3, <2>2, WalkStays
<1>13. Ends'
  <2>1. \A d \in Conns \ {c} : conn[d].peer => conn[d].pid # p
    <3>1. client[p].conn = None
      BY <1>2, <1>4 DEF Ends
    <3> QED
      BY <1>4, <3>1, SessionConstants DEF Ends
  <2>2. \A q \in Pids \ {p} : client[q].conn # c
    BY <1>1, <1>4, SessionConstants DEF Ends
  <2>3. \A d \in Conns :
       /\ conn'[d].st = "free" => ~conn'[d].peer /\ conn'[d].inq = <<>>
       /\ conn'[d].st # "free" => conn'[d].pid \in Pids
       /\ conn'[d].st = "closed" => conn'[d].peer /\ conn'[d].inq = <<>>
       /\ conn'[d].peer => conn'[d].pid \in Pids /\ client'[conn'[d].pid].conn = d
    BY <1>4, <1>6, <1>7, <2>1 DEF Ends
  <2>4. \A q \in Pids :
       /\ client'[q].st \in {"idle", "dead"} <=> client'[q].conn = None
       /\ client'[q].conn # None =>
            LET d == conn'[client'[q].conn] IN d.pid = q /\ d.peer /\ d.st # "free"
    <3> TAKE q \in Pids
    <3>1. CASE q = p
      BY <1>6, <1>7, <3>1, SessionConstants
    <3>2. CASE q # p
      <4>1. client'[q] = client[q] /\ client[q].conn \in Conns \cup {None}
        BY <1>5, <1>7, <3>2 DEF Process
      <4>2. client[q].conn # None => conn'[client[q].conn] = conn[client[q].conn]
        BY <1>6, <2>2, <3>2, <4>1
      <4> QED
        BY <1>4, <4>1, <4>2 DEF Ends
    <3> QED
      BY <3>1, <3>2
  <2> QED
    BY <2>3, <2>4 DEF Ends
<1>14. Requested'
  <2>1. ASSUME NEW q \in Pids, client'[q].conn # None
        PROVE  LET d == conn'[client'[q].conn]
               IN /\ client'[q].st = "connected" => d.inq = <<>> /\ (d.st # "closed" => d.out = "none")
                  /\ client'[q].st = "waiting" =>
                       d.inq = <<>> \/ (Tail(d.inq) = <<>> /\ d.out = "none")
    <3>1. CASE q = p
      BY <1>6, <1>7, <3>1
    <3>2. CASE q # p
      <4>1. client'[q] = client[q] /\ client[q].conn \in Conns \ {c}
        BY <1>1, <1>4, <1>5, <1>7, <2>1, <3>2 DEF Process, Ends
      <4>2. conn'[client[q].conn] = conn[client[q].conn]
        BY <1>6, <4>1
      <4> QED
        BY <1>2, <1>4, <2>1, <4>1, <4>2 DEF Requested
    <3> QED
      BY <3>1, <3>2
  <2>2. ASSUME NEW d \in Conns, conn'[d].inq # <<>>, ~conn'[d].peer
        PROVE  client'[conn'[d].pid].st = "dead"
    <3>1. d # c /\ conn'[d] = conn[d] /\ conn[d].inq # <<>> /\ ~conn[d].peer
      BY <1>6, <2>2
    <3>2. conn[d].pid \in Pids /\ client[conn[d].pid].st = "dead"
      BY <1>2, <1>4, <3>1 DEF Ends, Requested
    <3> QED
      BY <1>2, <1>7, <3>1, <3>2
  <2> QED
    BY <2>1, <2>2 DEF Requested
<1>15. SurvivesPoliteClients'
  BY <1>2, <1>3 DEF SurvivesPoliteClients
<1> QED
  BY <1>10, <1>11, <1>12, <1>13, <1>14, <1>15 DEF SessionInv

LEMMA SendKeeps ==
  ASSUME SessionInv, NEW p \in Pids, NEW m \in Msg, Send(p, m)
  PROVE  SessionInv'
PROOF
<1> DEFINE c == client[p].conn
<1>1. status = "up" /\ client[p].st = "connected" /\ conn[c].st # "closed"
      /\ UNCHANGED <<backlog, Backend>>
  BY DEF Send
<1>2. UNCHANGED <<ee, fdset, e, ceList, locked, cand, run, status, backlog, loop>>
  BY <1>1 DEF Backend, loop, dbs
<1>3. TypeOK /\ Lists /\ Unserved /\ Ends /\ Requested
  BY DEF SessionInv
<1>4. conn \in [Conns -> Conn] /\ client \in [Pids -> Process]
  BY <1>3 DEF TypeOK, Conn, Process
<1>5. /\ c \in Conns /\ conn[c].pid = p /\ conn[c].peer /\ conn[c].st # "free"
      /\ conn[c].inq = <<>> /\ conn[c].out = "none"
  BY <1>1, <1>3, <1>4 DEF Ends, Requested, Process
<1>6. /\ client' = [client EXCEPT ![p].st = "waiting"]
      /\ conn' = [conn EXCEPT ![c].inq = Append(@, m)]
  BY DEF Send
<1> HIDE DEF c
<1>7. /\ \A q \in Pids : client'[q].conn = client[q].conn
      /\ client'[p].st = "waiting"
      /\ \A q \in Pids \ {p} : client'[q] = client[q]
      /\ client' \in [Pids -> Process]
  BY <1>4, <1>6 DEF Process
<1>8. Append(conn[c].inq, m) \in Seq(Msg) /\ Append(conn[c].inq, m) # <<>>
      /\ Tail(Append(conn[c].inq, m)) = <<>>
  BY <1>5
<1>9. /\ conn' \in [Conns -> Conn]
      /\ \A d \in Conns \ {c} : conn'[d] = conn[d]
      /\ conn'[c].inq = Append(conn[c].inq, m) /\ conn'[c].out = conn[c].out
      /\ conn'[c].pid = conn[c].pid /\ conn'[c].st = conn[c].st /\ conn'[c].peer = conn[c].peer
  <2> DEFINE q == Append(conn[c].inq, m)
  <2>1. conn' = [conn EXCEPT ![c].inq = q]
    BY <1>6
  <2>2. q \in Seq(Msg)
    BY <1>8
  <2> HIDE DEF q
  <2>3. /\ conn' \in [Conns -> Conn]
        /\ \A d \in Conns \ {c} : conn'[d] = conn[d]
        /\ conn'[c].inq = q /\ conn'[c].out = conn[c].out
        /\ conn'[c].pid = conn[c].pid /\ conn'[c].st = conn[c].st /\ conn'[c].peer = conn[c].peer
    BY <1>4, <1>5, <2>1, <2>2 DEF Conn
  <2> QED
    BY <2>3 DEF q
<1>10. TypeOK'
  BY <1>2, <1>3, <1>7, <1>9 DEF TypeOK, Conn, Process
<1>11. Lists'
  <2>1. \A d \in Conns : conn'[d].st = conn[d].st
    BY <1>9
  <2> QED
    BY <1>2, <2>1, ListsStay
<1>12. NoDanglingEntry' /\ Unserved'
  <2>1. \A x \in Range(ee) : x = Server \/ (x \in Conns /\ (Readable(x) => Readable(x)'))
    BY <1>8, <1>9, EventEntries DEF Readable
  <2>2. \A x \in Range(ee) : CanRead(x) => CanRead(x)'
    BY <1>2, <2>1 DEF CanRead
  <2> QED
    BY <1>2, <2>2, WalkStays
<1>13. Ends'
  <2>1. \A d \in Conns :
       /\ conn'[d].st = conn[d].st /\ conn'[d].pid = conn[d].pid /\ conn'[d].peer = conn[d].peer
       /\ d # c => conn'[d].inq = conn[d].inq
    BY <1>9
  <2>2. client[p].st = "connected" /\ client[p].conn = c /\ c # None
    BY <1>1, <1>5, SessionConstants DEF c
  <2>3. \A d \in Conns :
       /\ conn'[d].st = "free" => ~conn'[d].peer /\ conn'[d].inq = <<>>
       /\ conn'[d].st # "free" => conn'[d].pid \in Pids
       /\ conn'[d].st = "closed" => conn'[d].peer /\ conn'[d].inq = <<>>
       /\ conn'[d].peer => conn'[d].pid \in Pids /\ client'[conn'[d].pid].conn = d
    BY <1>1, <1>3, <1>5, <1>7, <2>1 DEF Ends, c
  <2>4. \A q \in Pids :
       /\ client'[q].st \in {"idle", "dead"} <=> client'[q].conn = None
       /\ client'[q].conn # None =>
            LET d == conn'[client'[q].conn] IN d.pid = q /\ d.peer /\ d.st # "free"
    BY <1>3, <1>4, <1>7, <2>1, <2>2 DEF Ends, Process
  <2> QED
    BY <2>3, <2>4 DEF Ends
<1>14. Requested'
  <2>1. ASSUME NEW q \in Pids, client'[q].conn # None
        PROVE  LET d == conn'[client'[q].conn]
               IN /\ client'[q].st = "connected" => d.inq = <<>> /\ (d.st # "closed" => d.out = "none")
                  /\ client'[q].st = "waiting" =>
                       d.inq = <<>> \/ (Tail(d.inq) = <<>> /\ d.out = "none")
    <3>1. CASE q = p
      <4>1. client'[q].conn = c
        BY <1>7, <3>1 DEF c
      <4> QED
        BY <1>5, <1>7, <1>8, <1>9, <3>1, <4>1, ZenonT(60)
    <3>2. CASE q # p
      <4>1. client'[q] = client[q] /\ client[q].conn \in Conns \ {c}
        BY <1>3, <1>4, <1>5, <1>7, <2>1, <3>2 DEF Process, Ends
      <4>2. conn'[client[q].conn] = conn[client[q].conn]
        BY <1>9, <4>1
      <4> QED
        BY <1>1, <1>3, <2>1, <4>1, <4>2 DEF Requested
    <3> QED
      BY <3>1, <3>2
  <2>2. ASSUME NEW d \in Conns, conn'[d].inq # <<>>, ~conn'[d].peer
        PROVE  client'[conn'[d].pid].st = "dead"
    <3>1. d # c /\ conn'[d] = conn[d] /\ conn[d].inq # <<>> /\ ~conn[d].peer
      BY <1>5, <1>9, <2>2
    <3>2. conn[d].pid \in Pids /\ client[conn[d].pid].st = "dead"
      BY <1>1, <1>3, <3>1 DEF Ends, Requested
    <3> QED
      BY <1>1, <1>7, <3>1, <3>2
  <2> QED
    BY <2>1, <2>2 DEF Requested
<1>15. SurvivesPoliteClients'
  BY <1>1, <1>2 DEF SurvivesPoliteClients
<1> QED
  BY <1>10, <1>11, <1>12, <1>13, <1>14, <1>15 DEF SessionInv

\* A process lets go of its connection: it read its answer, or it died.
LEMMA LeaveKeeps ==
  ASSUME SessionInv, NEW p \in Pids, NEW s \in {"idle", "dead"},
         client[p].st # "dead",
         s = "idle" => client[p].st = "waiting" /\ conn[client[p].conn].out # "none",
         client' = [client EXCEPT ![p] = [st |-> s, conn |-> None]],
         conn' = IF client[p].conn = None THEN conn
                 ELSE [conn EXCEPT ![client[p].conn] = PeerClosed(client[p].conn)],
         UNCHANGED <<backlog, Backend>>
  PROVE  SessionInv'
PROOF
<1>1. UNCHANGED <<ee, fdset, e, ceList, locked, cand, run, status, backlog, loop>>
  BY DEF Backend, loop, dbs
<1>2. TypeOK /\ Lists /\ Unserved /\ Ends /\ Requested
  BY DEF SessionInv
<1>3. conn \in [Conns -> Conn] /\ client \in [Pids -> Process]
  BY <1>2 DEF TypeOK, Conn, Process
<1>4. /\ client' \in [Pids -> Process]
      /\ client'[p].st = s /\ client'[p].conn = None
      /\ \A q \in Pids \ {p} : client'[q] = client[q]
  BY <1>3 DEF Process
<1>5. /\ conn' \in [Conns -> Conn]
      /\ \A d \in Conns : d # client[p].conn => conn'[d] = conn[d]
      /\ \A d \in Conns : d = client[p].conn =>
           /\ ~conn'[d].peer
           /\ conn[d].st = "closed" => conn'[d] = Free
           /\ conn[d].st # "closed" =>
                /\ conn'[d].st = conn[d].st /\ conn'[d].pid = conn[d].pid
                /\ conn'[d].inq = conn[d].inq
  <2>1. CASE client[p].conn = None
    BY <1>3, <2>1, SessionConstants
  <2>2. CASE client[p].conn # None
    <3> DEFINE c == client[p].conn
    <3>1. c \in Conns /\ conn[c] \in Conn
      BY <1>3, <2>2 DEF Process
    <3>2. conn' = [conn EXCEPT ![c] = PeerClosed(c)]
      BY <2>2
    <3> HIDE DEF c
    <3>3. /\ PeerClosed(c) \in Conn /\ ~PeerClosed(c).peer
          /\ conn[c].st = "closed" => PeerClosed(c) = Free
          /\ conn[c].st # "closed" =>
               /\ PeerClosed(c).st = conn[c].st /\ PeerClosed(c).pid = conn[c].pid
               /\ PeerClosed(c).inq = conn[c].inq
      <4>1. <<>> \in Seq(Msg)
        OBVIOUS
      <4>2. Free \in Conn /\ ~Free.peer
        BY <4>1 DEF Free, Conn
      <4>3. CASE conn[c].st = "closed"
        BY <4>2, <4>3 DEF PeerClosed
      <4>4. CASE conn[c].st # "closed"
        BY <3>1, <4>4 DEF PeerClosed, Conn
      <4> QED
        BY <4>3, <4>4
    <3> QED
      BY <1>3, <3>1, <3>2, <3>3 DEF c
  <2> QED
    BY <2>1, <2>2
<1>6. Free.st = "free" /\ ~Free.peer /\ Free.inq = <<>>
  BY DEF Free
<1>7. TypeOK'
  BY <1>1, <1>2, <1>4, <1>5 DEF TypeOK, Conn, Process
<1>8. Lists'
  <2>1. \A d \in Conns : conn'[d].st = conn[d].st \/ {conn'[d].st, conn[d].st} \subseteq {"free", "closed"}
    BY <1>5, <1>6
  <2> QED
    BY <1>1, <2>1, ListsStay
<1>9. NoDanglingEntry' /\ Unserved'
  <2>1. \A x \in Range(ee) : x = Server \/ (x \in Conns /\ (Readable(x) => Readable(x)'))
    BY <1>5, EventEntries DEF Readable
  <2>2. \A x \in Range(ee) : CanRead(x) => CanRead(x)'
    BY <1>1, <2>1 DEF CanRead
  <2> QED
    BY <1>1, <2>2, WalkStays
<1>10. Ends'
  <2>1. ASSUME NEW d \in Conns
        PROVE  /\ conn'[d].st = "free" => ~conn'[d].peer /\ conn'[d].inq = <<>>
               /\ conn'[d].st # "free" => conn'[d].pid \in Pids
               /\ conn'[d].st = "closed" => conn'[d].peer /\ conn'[d].inq = <<>>
               /\ conn'[d].peer => conn'[d].pid \in Pids /\ client'[conn'[d].pid].conn = d
    <3>1. CASE d = client[p].conn
      BY <1>2, <1>5, <1>6, <3>1, SessionConstants DEF Ends
    <3>2. CASE d # client[p].conn
      BY <1>2, <1>4, <1>5, <3>2 DEF Ends
    <3> QED
      BY <3>1, <3>2
  <2>2. ASSUME NEW q \in Pids
        PROVE  /\ client'[q].st \in {"idle", "dead"} <=> client'[q].conn = None
               /\ client'[q].conn # None =>
                    LET d == conn'[client'[q].conn] IN d.pid = q /\ d.peer /\ d.st # "free"
    <3>1. CASE q = p
      BY <1>4, <3>1
    <3>2. CASE q # p
      <4>1. client'[q] = client[q] /\ client[q].conn \in Conns \cup {None}
        BY <1>3, <1>4, <3>2 DEF Process
      <4>2. client[q].conn # None => client[q].conn # client[p].conn
        BY <1>2, <3>2 DEF Ends
      <4>3. client[q].conn # None => conn'[client[q].conn] = conn[client[q].conn]
        BY <1>5, <4>1, <4>2
      <4> QED
        BY <1>2, <4>1, <4>3 DEF Ends
    <3> QED
      BY <3>1, <3>2
  <2> QED
    BY <2>1, <2>2 DEF Ends
<1>11. Requested'
  <2> SUFFICES ASSUME status = "up" PROVE Requested'
    BY <1>1 DEF Requested
  <2>1. ASSUME NEW q \in Pids, client'[q].conn # None
        PROVE  LET d == conn'[client'[q].conn]
               IN /\ client'[q].st = "connected" => d.inq = <<>> /\ (d.st # "closed" => d.out = "none")
                  /\ client'[q].st = "waiting" =>
                       d.inq = <<>> \/ (Tail(d.inq) = <<>> /\ d.out = "none")
    <3>1. q # p
      BY <1>4, <2>1
    <3>2. client'[q] = client[q] /\ client[q].conn \in Conns
      BY <1>3, <1>4, <2>1, <3>1 DEF Process
    <3>3. client[q].conn # client[p].conn
      BY <1>2, <2>1, <3>1, <3>2 DEF Ends
    <3>4. conn'[client[q].conn] = conn[client[q].conn]
      BY <1>5, <3>2, <3>3
    <3> QED
      BY <1>2, <2>1, <3>2, <3>4 DEF Requested
  <2>2. ASSUME NEW d \in Conns, conn'[d].inq # <<>>, ~conn'[d].peer
        PROVE  client'[conn'[d].pid].st = "dead"
    <3>1. CASE d = client[p].conn
      <4>1. conn[d].st # "closed" /\ conn'[d].pid = conn[d].pid /\ conn[d].inq # <<>>
        BY <1>5, <1>6, <2>2, <3>1
      <4>2. conn[d].pid = p /\ client[p].conn # None
        BY <1>2, <3>1, SessionConstants DEF Ends
      <4>3. s # "idle"
        BY <1>2, <3>1, <4>1, <4>2 DEF Requested
      <4> QED
        BY <1>4, <4>1, <4>2, <4>3
    <3>2. CASE d # client[p].conn
      <4>1. conn'[d] = conn[d] /\ conn[d].inq # <<>> /\ ~conn[d].peer
        BY <1>5, <2>2, <3>2
      <4>2. conn[d].pid \in Pids /\ client[conn[d].pid].st = "dead"
        BY <1>2, <4>1 DEF Ends, Requested
      <4> QED
        BY <1>4, <4>1, <4>2
    <3> QED
      BY <3>1, <3>2
  <2> QED
    BY <2>1, <2>2 DEF Requested
<1>12. SurvivesPoliteClients'
  BY <1>1, <1>4 DEF SurvivesPoliteClients, SessionInv
<1> QED
  BY <1>7, <1>8, <1>9, <1>10, <1>11, <1>12 DEF SessionInv

LEMMA ClientsKeep ==
  ASSUME SessionInv, Clients
  PROVE  SessionInv'
PROOF
<1>1. PICK p \in Pids : Connect(p) \/ (\E m \in Msg : Send(p, m)) \/ Receive(p) \/ Die(p)
  BY DEF Clients
<1>2. CASE Connect(p)
  BY <1>2, ConnectKeeps
<1>3. CASE \E m \in Msg : Send(p, m)
  BY <1>3, SendKeeps
<1>4. CASE Receive(p)
  <2>1. client[p].conn # None /\ client[p].st # "dead"
    BY <1>4 DEF Receive, SessionInv, Ends
  <2> QED
    BY <1>4, <2>1, LeaveKeeps DEF Receive
<1>5. CASE Die(p)
  BY <1>5, LeaveKeeps DEF Die
<1> QED
  BY <1>1, <1>2, <1>3, <1>4, <1>5

------------------------------------------------------------------------------
(* The steps of the backend keep the invariant. *)

\* Neither the connections nor the clients change.
LEMMA EndsStay ==
  ASSUME SessionInv, UNCHANGED <<conn, client, status>>
  PROVE  Ends' /\ Requested' /\ SurvivesPoliteClients'
PROOF
  BY DEF SessionInv, Ends, Requested, SurvivesPoliteClients

LEMMA SelectKeeps ==
  ASSUME SessionInv, Select
  PROVE  SessionInv'
PROOF
<1>1. /\ status = "up" /\ fdset' = Ready /\ e' = Head(ee)
      /\ UNCHANGED <<ee, ceList, backlog, conn, client, locked, dbs, status>>
  BY DEF Select
<1>2. TypeOK /\ Lists
  BY DEF SessionInv
<1>3. Server \in Range(ee) /\ DOMAIN ee = 1..Len(ee) /\ ee \in Seq(Conns \cup {Server})
  BY <1>2 DEF TypeOK, Lists
<1>4. Head(ee) = ee[1] /\ 1 \in DOMAIN ee
  BY <1>3 DEF Range
<1>5. e' \in Range(ee) /\ e' \in Conns \cup {Server}
  BY <1>1, <1>3, <1>4 DEF Range
<1>6. Ready \subseteq Conns \cup {Server}
  BY <1>3 DEF Ready
<1>7. TypeOK'
  BY <1>1, <1>2, <1>5, <1>6 DEF TypeOK, dbs
<1>8. Lists'
  BY <1>1, <1>2 DEF Lists
<1>9. NoDanglingEntry'
  BY <1>1, <1>5 DEF NoDanglingEntry
<1>10. Unserved'
  <2>1. \A x \in Ready : CanRead(x)
    BY DEF Ready, CanRead
  <2> QED
    BY <1>1, <2>1 DEF Unserved, CanRead, Readable
<1>11. Ends' /\ Requested' /\ SurvivesPoliteClients'
  BY <1>1, EndsStay
<1> QED
  BY <1>7, <1>8, <1>9, <1>10, <1>11 DEF SessionInv

LEMMA SkipKeeps ==
  ASSUME SessionInv, Skip
  PROVE  SessionInv'
PROOF
<1>1. /\ status = "up" /\ e # None /\ e' = ENext(e)
      /\ UNCHANGED <<ee, fdset, ceList, backlog, conn, client, locked, dbs, status>>
  BY DEF Skip
<1>2. TypeOK /\ Lists
  BY DEF SessionInv
<1>3. NoDanglingEntry' /\ Unserved' /\ e' \in Conns \cup {Server, None}
  BY <1>1, WalkOn DEF CanRead, Readable
<1>4. TypeOK'
  BY <1>1, <1>2, <1>3 DEF TypeOK, dbs
<1>5. Lists'
  BY <1>1, <1>2 DEF Lists
<1>6. Ends' /\ Requested' /\ SurvivesPoliteClients'
  BY <1>1, EndsStay
<1> QED
  BY <1>3, <1>4, <1>5, <1>6 DEF SessionInv

LEMMA StoppedKeeps ==
  ASSUME SessionInv, Stopped, DbTypes'
  PROVE  SessionInv'
PROOF
<1>1. PICK why \in {"accept", "sigpipe"} :
        /\ Stop(why)
        /\ why = "sigpipe" => /\ status = "up" /\ e \in Range(ee) \ {Server}
                              /\ conn[e].inq # <<>> /\ ~conn[e].peer
  BY DEF Stopped
<1>2. /\ status' = why
      /\ conn' = [c \in Conns |-> [conn[c] EXCEPT !.out = IF @ = "none" THEN "eof" ELSE @]]
      /\ UNCHANGED <<loop, ceList, backlog, client>>
  BY <1>1 DEF Stop
<1>3. TypeOK /\ Lists /\ Ends /\ Requested
  BY DEF SessionInv
<1>4. conn \in [Conns -> Conn]
  BY <1>3 DEF TypeOK, Conn
<1>5. /\ conn' \in [Conns -> Conn]
      /\ \A c \in Conns : /\ conn'[c].st = conn[c].st /\ conn'[c].pid = conn[c].pid
                          /\ conn'[c].peer = conn[c].peer /\ conn'[c].inq = conn[c].inq
  BY <1>2, <1>4 DEF Conn
<1>6. TypeOK'
  BY <1>2, <1>3, <1>5 DEF TypeOK, Conn, DbTypes, loop
<1>7. Lists'
  BY <1>2, <1>5, ListsStay DEF loop
<1>8. NoDanglingEntry' /\ Unserved' /\ Requested'
  BY <1>2 DEF NoDanglingEntry, Unserved, Requested
<1>9. Ends'
  <2>1. \A c \in Conns :
       /\ conn'[c].st = "free" => ~conn'[c].peer /\ conn'[c].inq = <<>>
       /\ conn'[c].st # "free" => conn'[c].pid \in Pids
       /\ conn'[c].st = "closed" => conn'[c].peer /\ conn'[c].inq = <<>>
       /\ conn'[c].peer => conn'[c].pid \in Pids /\ client'[conn'[c].pid].conn = c
    BY <1>2, <1>3, <1>5 DEF Ends
  <2>2. \A p \in Pids : client[p].conn \in Conns \cup {None}
    BY <1>3 DEF TypeOK
  <2>3. \A p \in Pids :
       /\ client'[p].st \in {"idle", "dead"} <=> client'[p].conn = None
       /\ client'[p].conn # None =>
            LET c == conn'[client'[p].conn] IN c.pid = p /\ c.peer /\ c.st # "free"
    BY <1>2, <1>3, <1>5, <2>2 DEF Ends
  <2> QED
    BY <2>1, <2>3 DEF Ends
<1>10. SurvivesPoliteClients'
  <2> SUFFICES ASSUME why = "sigpipe" PROVE \E p \in Pids : client[p].st = "dead"
    BY <1>2 DEF SurvivesPoliteClients
  <2>1. e \in Conns /\ conn[e].st = "open"
    BY <1>1, EventEntries
  <2> QED
    BY <1>1, <1>3, <2>1 DEF Ends, Requested
<1> QED
  BY <1>6, <1>7, <1>8, <1>9, <1>10 DEF SessionInv

LEMMA AcceptKeeps ==
  ASSUME SessionInv, Accept
  PROVE  SessionInv'
PROOF
<1> DEFINE c == Head(backlog)
<1>1. /\ status = "up" /\ e = Server /\ Server \in fdset /\ Server # None
      /\ UNCHANGED <<fdset, client, locked, dbs, status>>
  BY SessionConstants DEF Accept, SessionInv, TypeOK, NoDanglingEntry, Lists
<1>2. TypeOK /\ Lists /\ Ends /\ Requested
  BY DEF SessionInv
<1>3. conn \in [Conns -> Conn] /\ backlog \in Seq(Conns) /\ ee \in Seq(Conns \cup {Server})
      /\ ceList \in Seq(Conns)
  BY <1>2 DEF TypeOK, Conn
<1>4. backlog # <<>>
  BY <1>1, TurnCanRead DEF CanRead
<1>5. /\ backlog' = Tail(backlog) /\ e' = ENext(Server)
      /\ conn' = [conn EXCEPT ![c].st = "open"]
      /\ ceList' = <<c>> \o ceList /\ ee' = <<c>> \o ee
  BY DEF Accept
<1>6. IsInjective(backlog)
  BY <1>2 DEF Lists
<1>7. /\ backlog' \in Seq(Conns) /\ IsInjective(backlog')
      /\ c \in Range(backlog) /\ Range(backlog') = Range(backlog) \ {c}
  BY <1>3, <1>4, <1>5, <1>6, QueueProperties
<1>8. c \in Conns /\ conn[c].st = "pending"
  BY <1>2, <1>7 DEF Lists
<1> HIDE DEF c
<1>9. c # Server /\ c # None /\ c \notin Range(ceList) /\ c \notin Range(ee)
  BY <1>2, <1>8, SessionConstants DEF Lists
<1>10. /\ conn' \in [Conns -> Conn]
       /\ \A d \in Conns \ {c} : conn'[d] = conn[d]
       /\ conn'[c].st = "open" /\ conn'[c].pid = conn[c].pid /\ conn'[c].peer = conn[c].peer
       /\ conn'[c].inq = conn[c].inq /\ conn'[c].out = conn[c].out
  BY <1>3, <1>5, <1>8 DEF Conn
<1>11. /\ ceList' \in Seq(Conns) /\ IsInjective(ceList')
       /\ Range(ceList') = Range(ceList) \cup {c}
  BY <1>2, <1>3, <1>5, <1>8, <1>9, InsertProperties DEF Lists
<1>12. /\ ee' \in Seq(Conns \cup {Server}) /\ IsInjective(ee')
       /\ Range(ee') = Range(ee) \cup {c} /\ Len(ee') = Len(ee) + 1
       /\ ee'[1] = c /\ \A j \in 1..Len(ee) : ee'[j + 1] = ee[j]
  BY <1>2, <1>3, <1>5, <1>8, <1>9, InsertProperties, SMTT(30) DEF Lists
<1>13. PICK i \in 1..Len(ee) :
         ee[i] = Server /\ e' = IF i = Len(ee) THEN None ELSE ee[i + 1]
  BY <1>1, <1>5, NextEntry
<1>14. Len(ee) \in Nat /\ DOMAIN ee = 1..Len(ee)
  BY <1>3
<1>15. e' = None \/ (i < Len(ee) /\ e' = ee[i + 1] /\ e' \in Range(ee) /\ e' \in Conns \cup {Server})
  <2>1. CASE i # Len(ee)
    <3>1. i + 1 \in 1..Len(ee) /\ i < Len(ee)
      <4>1. i \in 1..Len(ee) /\ Len(ee) \in Nat /\ i # Len(ee)
        BY <1>14, <2>1
      <4> QED
        BY ONLY <4>1
    <3>2. e' = ee[i + 1]
      BY <1>13, <2>1
    <3>3. ee[i + 1] \in Range(ee) /\ ee[i + 1] \in Conns \cup {Server}
      BY <1>3, <1>14, <3>1, SMTT(30) DEF Range
    <3> QED
      BY <3>1, <3>2, <3>3
  <2> QED
    BY <1>13, <2>1
<1>16. TypeOK'
  BY <1>1, <1>2, <1>7, <1>10, <1>11, <1>12, <1>15 DEF TypeOK, Conn, dbs
<1>17. Lists'
  <2>1. {d \in Conns : conn'[d].st = "open"} = {d \in Conns : conn[d].st = "open"} \cup {c}
    BY <1>8, <1>10
  <2>2. {d \in Conns : conn'[d].st = "pending"} = {d \in Conns : conn[d].st = "pending"} \ {c}
    BY <1>8, <1>10
  <2> QED
    BY <1>2, <1>7, <1>11, <1>12, <2>1, <2>2 DEF Lists
<1>18. NoDanglingEntry'
  BY <1>12, <1>15 DEF NoDanglingEntry
<1>19. Unserved'
  <2>1. ASSUME e' # None, NEW m \in 1..Len(ee'), NEW n \in 1..Len(ee'),
               ee'[m] = e', m <= n, ee'[n] \in fdset
        PROVE  CanRead(ee[n - 1]) /\ ee'[n] = ee[n - 1] /\ ee[n - 1] # Server /\ ee[n - 1] \in Conns
               /\ ee[n - 1] # c
    <3>1. i < Len(ee) /\ e' = ee[i + 1] /\ i + 1 \in 1..Len(ee)
      BY <1>14, <1>15, <2>1
    <3>2. i + 2 \in 1..Len(ee') /\ ee'[i + 2] = e'
      <4>1. ee'[(i + 1) + 1] = ee[i + 1]
        BY <1>12, <3>1
      <4> QED
        BY <1>12, <1>14, <3>1, <4>1
    <3>3. m = i + 2
      BY <1>12, <2>1, <3>2 DEF IsInjective
    <3>4. n - 1 \in 1..Len(ee) /\ i <= n - 1 /\ n - 1 # i
      BY <1>12, <1>14, <2>1, <3>3
    <3>5. ee'[n] = ee[n - 1]
      <4>1. ee'[(n - 1) + 1] = ee[n - 1]
        BY <1>12, <3>4
      <4> QED
        BY <1>12, <1>14, <2>1, <4>1
    <3>6. CanRead(ee[n - 1])
      BY <1>1, <1>13, <2>1, <3>4, <3>5 DEF SessionInv, Unserved
    <3>7. ee[n - 1] # Server
      BY <1>2, <1>13, <1>14, <3>4 DEF Lists, IsInjective
    <3>8. ee[n - 1] \in Range(ee)
      BY <1>14, <3>4 DEF Range
    <3> QED
      BY <1>3, <1>9, <3>4, <3>5, <3>6, <3>7, <3>8
  <2>2. \A d \in Conns \ {c} : CanRead(d) /\ d # Server => CanRead(d)'
    BY <1>10 DEF CanRead, Readable
  <2>3. ASSUME e' # None, NEW m \in 1..Len(ee'), NEW n \in 1..Len(ee'),
               ee'[m] = e', m <= n, ee'[n] \in fdset'
        PROVE  IF ee'[n] = Server THEN backlog' # <<>> ELSE conn'[ee'[n]].inq # <<>> \/ ~conn'[ee'[n]].peer
    <3>1. CanRead(ee[n - 1]) /\ ee'[n] = ee[n - 1] /\ ee[n - 1] # Server /\ ee[n - 1] \in Conns
          /\ ee[n - 1] # c
      BY <1>1, <2>1, <2>3
    <3>2. PICK d \in Conns \ {c} : d = ee'[n] /\ CanRead(d) /\ d # Server
      BY <3>1
    <3> QED
      BY <1>10, <3>2 DEF CanRead, Readable
  <2> QED
    BY <2>3, <1>1 DEF Unserved, CanRead, Readable
<1>20. Ends'
  <2>1. \A d \in Conns :
       /\ conn'[d].st = "free" => ~conn'[d].peer /\ conn'[d].inq = <<>>
       /\ conn'[d].st # "free" => conn'[d].pid \in Pids
       /\ conn'[d].st = "closed" => conn'[d].peer /\ conn'[d].inq = <<>>
       /\ conn'[d].peer => conn'[d].pid \in Pids /\ client'[conn'[d].pid].conn = d
    BY <1>1, <1>2, <1>8, <1>10 DEF Ends
  <2>2. \A p \in Pids : client[p].conn \in Conns \cup {None}
    BY <1>2 DEF TypeOK
  <2>3. \A p \in Pids :
       /\ client'[p].st \in {"idle", "dead"} <=> client'[p].conn = None
       /\ client'[p].conn # None =>
            LET d == conn'[client'[p].conn] IN d.pid = p /\ d.peer /\ d.st # "free"
    BY <1>1, <1>2, <1>10, <2>2 DEF Ends
  <2> QED
    BY <2>1, <2>3 DEF Ends
<1>21. Requested'
  <2>1. \A p \in Pids : client[p].conn \in Conns \cup {None}
    BY <1>2 DEF TypeOK
  <2>2. \A d \in Conns : /\ conn'[d].inq = conn[d].inq /\ conn'[d].out = conn[d].out
                         /\ conn'[d].peer = conn[d].peer /\ conn'[d].pid = conn[d].pid
                         /\ conn[d].st = "closed" => conn'[d].st = "closed"
    BY <1>8, <1>10
  <2> QED
    BY <1>1, <1>2, <2>1, <2>2 DEF Requested
<1>22. SurvivesPoliteClients'
  BY <1>1 DEF SurvivesPoliteClients
<1> QED
  BY <1>16, <1>17, <1>18, <1>19, <1>20, <1>21, <1>22 DEF SessionInv

\* The connection that a message came from, and its client.
LEMMA OneRequest ==
  ASSUME SessionInv, status = "up", NEW c \in Conns, conn[c].inq # <<>>
  PROVE  /\ conn[c].peer => Tail(conn[c].inq) = <<>>
         /\ ~conn[c].peer => client[conn[c].pid].st = "dead"
PROOF
<1>1. Ends /\ Requested /\ TypeOK
  BY DEF SessionInv
<1>2. CASE conn[c].peer
  <2> DEFINE p == conn[c].pid
  <2>1. p \in Pids /\ client[p].conn = c /\ c # None
    BY <1>1, <1>2, SessionConstants DEF Ends
  <2>2. client[p].st \in {"connected", "waiting"}
    BY <1>1, <2>1 DEF Ends, TypeOK
  <2> QED
    BY <1>1, <1>2, <2>1, <2>2 DEF Requested
<1>3. CASE ~conn[c].peer
  BY <1>1, <1>3 DEF Requested
<1> QED
  BY <1>2, <1>3

LEMMA AnsweredKeeps ==
  ASSUME SessionInv, Answered, DbTypes'
  PROVE  SessionInv'
PROOF
<1>1. PICK r \in {"ok", "err", "none"} :
        /\ conn[e].peer \/ r = "none"
        /\ conn' = [conn EXCEPT ![e].inq = Tail(@), ![e].out = IF r = "none" THEN @ ELSE r]
  BY DEF Answered
<1>2. /\ status = "up" /\ e \in fdset \ {Server} /\ conn[e].inq # <<>>
      /\ Proceed(e, None)
      /\ UNCHANGED <<ceList, backlog, client, status>>
  BY DEF Answered
<1>3. TypeOK /\ Lists /\ Ends /\ Requested
  BY DEF SessionInv
<1>4. conn \in [Conns -> Conn] /\ ee \in Seq(Conns \cup {Server})
  BY <1>3 DEF TypeOK, Conn
<1>5. e \in Conns /\ e # None /\ e # Server /\ conn[e].st = "open" /\ e \in Range(ee)
  BY <1>2, TurnIsOpen, SessionConstants
<1>6. Tail(conn[e].inq) \in Seq(Msg)
  BY <1>2, <1>4, <1>5 DEF Conn
<1>7. /\ conn' \in [Conns -> Conn]
      /\ \A d \in Conns \ {e} : conn'[d] = conn[d]
      /\ conn'[e].st = conn[e].st /\ conn'[e].pid = conn[e].pid /\ conn'[e].peer = conn[e].peer
      /\ conn'[e].inq = Tail(conn[e].inq)
  <2> DEFINE q == Tail(conn[e].inq)
             o == IF r = "none" THEN conn[e].out ELSE r
  <2>1. q \in Seq(Msg)
    BY <1>6
  <2>2. o \in {"none", "ok", "err", "eof"}
    BY <1>4, <1>5 DEF Conn
  <2>3. conn' = [conn EXCEPT ![e].inq = q, ![e].out = o]
    BY <1>1
  <2> HIDE DEF q, o
  <2>4. /\ conn' \in [Conns -> Conn]
        /\ \A d \in Conns \ {e} : conn'[d] = conn[d]
        /\ conn'[e].st = conn[e].st /\ conn'[e].pid = conn[e].pid /\ conn'[e].peer = conn[e].peer
        /\ conn'[e].inq = q
    BY <1>4, <1>5, <2>1, <2>2, <2>3 DEF Conn
  <2> QED
    BY <2>4 DEF q
<1>8. ee' = ee /\ e' = ENext(e) /\ fdset' = fdset
  <2>1. None \notin Range(ee)
    BY EventEntries, SessionConstants
  <2>2. IsInjective(ee)
    BY <1>3 DEF Lists
  <2>3. RemoveFirst(ee, None) = ee
    BY <1>4, <2>1, <2>2, RemoveProperties
  <2> QED
    BY <1>2, <2>3 DEF Proceed
<1>9. NoDanglingEntry' /\ Unserved' /\ e' \in Conns \cup {Server, None}
  <2>1. \A x \in Range(ee) \ {e} : x = Server \/ (x \in Conns /\ conn'[x] = conn[x])
    BY <1>7, EventEntries
  <2>2. \A x \in Range(ee) \ {e} : CanRead(x) => CanRead(x)'
    BY <1>2, <2>1 DEF CanRead, Readable
  <2> QED
    BY <1>2, <1>5, <1>8, <2>2, WalkOn
<1>10. TypeOK'
  BY <1>2, <1>3, <1>7, <1>8, <1>9 DEF TypeOK, Conn, DbTypes
<1>11. Lists'
  <2>1. \A d \in Conns : conn'[d].st = conn[d].st
    BY <1>7
  <2> QED
    BY <1>2, <1>8, <2>1, ListsStay
<1>12. Ends'
  <2>1. \A d \in Conns :
       /\ conn'[d].st = "free" => ~conn'[d].peer /\ conn'[d].inq = <<>>
       /\ conn'[d].st # "free" => conn'[d].pid \in Pids
       /\ conn'[d].st = "closed" => conn'[d].peer /\ conn'[d].inq = <<>>
       /\ conn'[d].peer => conn'[d].pid \in Pids /\ client'[conn'[d].pid].conn = d
    BY <1>2, <1>3, <1>5, <1>7 DEF Ends
  <2>2. \A p \in Pids : client[p].conn \in Conns \cup {None}
    BY <1>3 DEF TypeOK
  <2>3. \A p \in Pids :
       /\ client'[p].st \in {"idle", "dead"} <=> client'[p].conn = None
       /\ client'[p].conn # None =>
            LET d == conn'[client'[p].conn] IN d.pid = p /\ d.peer /\ d.st # "free"
    BY <1>2, <1>3, <1>7, <2>2 DEF Ends
  <2> QED
    BY <2>1, <2>3 DEF Ends
<1>13. Requested'
  <2>1. conn[e].peer => conn'[e].inq = <<>>
    BY <1>2, <1>5, <1>7, OneRequest
  <2>2. ASSUME NEW p \in Pids, client'[p].conn # None
        PROVE  LET d == conn'[client'[p].conn]
               IN /\ client'[p].st = "connected" => d.inq = <<>> /\ (d.st # "closed" => d.out = "none")
                  /\ client'[p].st = "waiting" =>
                       d.inq = <<>> \/ (Tail(d.inq) = <<>> /\ d.out = "none")
    <3>1. client'[p] = client[p] /\ client[p].conn \in Conns
      BY <1>2, <1>3, <2>2 DEF TypeOK
    <3>2. CASE client[p].conn = e
      <4>1. conn[e].peer /\ client[p].st # "connected"
        BY <1>2, <1>3, <1>5, <3>2 DEF Ends, Requested
      <4> QED
        BY <2>1, <3>1, <3>2, <4>1
    <3>3. CASE client[p].conn # e
      BY <1>2, <1>3, <1>7, <2>2, <3>1, <3>3 DEF Requested
    <3> QED
      BY <3>2, <3>3
  <2>3. ASSUME NEW d \in Conns, conn'[d].inq # <<>>, ~conn'[d].peer
        PROVE  client'[conn'[d].pid].st = "dead"
    <3>1. CASE d = e
      <4>1. client[conn[e].pid].st = "dead"
        BY <1>2, <1>5, <1>7, <2>3, <3>1, OneRequest
      <4> QED
        BY <1>2, <1>7, <3>1, <4>1
    <3>2. CASE d # e
      BY <1>2, <1>3, <1>7, <2>3, <3>2 DEF Requested
    <3> QED
      BY <3>1, <3>2
  <2> QED
    BY <2>2, <2>3 DEF Requested
<1>14. SurvivesPoliteClients'
  BY <1>2 DEF SurvivesPoliteClients
<1> QED
  BY <1>9, <1>10, <1>11, <1>12, <1>13, <1>14 DEF SessionInv

LEMMA RemovedKeeps ==
  ASSUME SessionInv, Removed, DbTypes'
  PROVE  SessionInv'
PROOF
<1>1. PICK gone \in Conns :
        /\ conn[gone].st = "open"
        /\ conn' \in [Conns -> Conn] /\ conn'[gone] = Closed(gone)
        /\ \A d \in Conns \ {gone} :
             \/ conn'[d] = conn[d]
             \/ /\ d = e /\ conn[e].peer /\ conn[e].inq # <<>>
                /\ conn'[d] = [conn[d] EXCEPT !.inq = Tail(@), !.out = "ok"]
        /\ ceList' = RemoveFirst(ceList, gone)
        /\ Proceed(e, gone)
  BY DEF Removed
<1>2. status = "up" /\ UNCHANGED <<backlog, client, status>>
  BY DEF Removed
<1>3. TypeOK /\ Lists /\ Ends /\ Requested
  BY DEF SessionInv
<1>4. conn \in [Conns -> Conn] /\ ee \in Seq(Conns \cup {Server}) /\ ceList \in Seq(Conns)
  BY <1>3 DEF TypeOK, Conn
<1>5. gone # None /\ gone # Server
  BY SessionConstants
<1>6. e' = None /\ fdset' = fdset /\ ee' = RemoveFirst(ee, gone)
  BY <1>1, <1>5 DEF Proceed
<1>7. /\ ee' \in Seq(Conns \cup {Server}) /\ IsInjective(ee') /\ Range(ee') = Range(ee) \ {gone}
      /\ ceList' \in Seq(Conns) /\ IsInjective(ceList') /\ Range(ceList') = Range(ceList) \ {gone}
  BY <1>1, <1>3, <1>4, <1>6, RemoveProperties DEF Lists
<1>8. /\ conn[gone].peer => /\ conn'[gone].st = "closed" /\ conn'[gone].inq = <<>>
                            /\ conn'[gone].pid = conn[gone].pid /\ conn'[gone].peer
      /\ ~conn[gone].peer => /\ conn'[gone].st = "free" /\ conn'[gone].inq = <<>>
                             /\ ~conn'[gone].peer
  <2>1. CASE conn[gone].peer
    <3>1. conn'[gone] = [conn[gone] EXCEPT !.st = "closed", !.inq = <<>>, !.out = "eof"]
      BY <1>1, <2>1 DEF Closed
    <3>2. conn[gone] \in Conn
      BY <1>4
    <3> QED
      BY <2>1, <3>1, <3>2 DEF Conn
  <2>2. CASE ~conn[gone].peer
    <3>1. conn'[gone] = Free
      BY <1>1, <2>2 DEF Closed
    <3> QED
      BY <2>2, <3>1 DEF Free
  <2> QED
    BY <2>1, <2>2
<1>9. \A d \in Conns \ {gone} :
        /\ conn'[d].st = conn[d].st /\ conn'[d].pid = conn[d].pid /\ conn'[d].peer = conn[d].peer
        /\ \/ conn'[d] = conn[d]
           \/ conn[d].peer /\ conn[d].inq # <<>> /\ conn'[d].inq = <<>>
  <2> TAKE d \in Conns \ {gone}
  <2>1. CASE conn'[d] = conn[d]
    BY <2>1
  <2>2. CASE /\ d = e /\ conn[e].peer /\ conn[e].inq # <<>>
             /\ conn'[d] = [conn[d] EXCEPT !.inq = Tail(@), !.out = "ok"]
    <3>1. Tail(conn[d].inq) = <<>>
      BY <1>2, <2>2, OneRequest
    <3> QED
      BY <1>4, <2>2, <3>1 DEF Conn
  <2> QED
    BY <1>1, <2>1, <2>2
<1>10. TypeOK'
  BY <1>1, <1>2, <1>3, <1>6, <1>7 DEF TypeOK, Conn, DbTypes
<1>11. Lists'
  <2>1. {d \in Conns : conn'[d].st = "open"} = {d \in Conns : conn[d].st = "open"} \ {gone}
    BY <1>8, <1>9
  <2>2. {d \in Conns : conn'[d].st = "pending"} = {d \in Conns : conn[d].st = "pending"}
    BY <1>1, <1>8, <1>9
  <2> QED
    BY <1>2, <1>3, <1>5, <1>7, <2>1, <2>2 DEF Lists
<1>12. NoDanglingEntry' /\ Unserved'
  BY <1>6 DEF NoDanglingEntry, Unserved
<1>13. Ends'
  <2>1. ASSUME NEW d \in Conns
        PROVE  /\ conn'[d].st = "free" => ~conn'[d].peer /\ conn'[d].inq = <<>>
               /\ conn'[d].st # "free" => conn'[d].pid \in Pids
               /\ conn'[d].st = "closed" => conn'[d].peer /\ conn'[d].inq = <<>>
               /\ conn'[d].peer => conn'[d].pid \in Pids /\ client'[conn'[d].pid].conn = d
    <3>1. CASE d = gone
      <4>1. client' = client
        BY <1>2
      <4>2. CASE conn[gone].peer
        <5>1. conn[gone].pid \in Pids /\ client[conn[gone].pid].conn = gone
          BY <1>3, <4>2 DEF Ends
        <5> QED
          BY <1>8, <3>1, <4>1, <4>2, <5>1
      <4>3. CASE ~conn[gone].peer
        BY <1>8, <3>1, <4>3
      <4> QED
        BY <4>2, <4>3
    <3>2. CASE d # gone
      BY <1>2, <1>3, <1>9, <3>2 DEF Ends
    <3> QED
      BY <3>1, <3>2
  <2>2. ASSUME NEW p \in Pids
        PROVE  /\ client'[p].st \in {"idle", "dead"} <=> client'[p].conn = None
               /\ client'[p].conn # None =>
                    LET d == conn'[client'[p].conn] IN d.pid = p /\ d.peer /\ d.st # "free"
    <3>1. client[p].conn \in Conns \cup {None} /\ client' = client
      BY <1>2, <1>3 DEF TypeOK
    <3>2. CASE client[p].conn = gone
      BY <1>3, <1>5, <1>8, <3>1, <3>2 DEF Ends
    <3>3. CASE client[p].conn # gone
      BY <1>3, <1>9, <3>1, <3>3 DEF Ends
    <3> QED
      BY <3>2, <3>3
  <2> QED
    BY <2>1, <2>2 DEF Ends
<1>14. Requested'
  <2>1. ASSUME NEW p \in Pids, client'[p].conn # None
        PROVE  LET d == conn'[client'[p].conn]
               IN /\ client'[p].st = "connected" => d.inq = <<>> /\ (d.st # "closed" => d.out = "none")
                  /\ client'[p].st = "waiting" =>
                       d.inq = <<>> \/ (Tail(d.inq) = <<>> /\ d.out = "none")
    <3>1. client[p].conn \in Conns /\ client' = client
      BY <1>2, <1>3, <2>1 DEF TypeOK
    <3>2. conn[client[p].conn].peer
      BY <1>3, <2>1, <3>1 DEF Ends
    <3>3. CASE client[p].conn = gone
      BY <1>8, <3>1, <3>2, <3>3
    <3>4. CASE client[p].conn # gone
      <4>1. CASE conn'[client[p].conn] = conn[client[p].conn]
        BY <1>2, <1>3, <2>1, <3>1, <4>1 DEF Requested
      <4>2. CASE conn[client[p].conn].inq # <<>> /\ conn'[client[p].conn].inq = <<>>
        BY <1>2, <1>3, <2>1, <3>1, <4>2 DEF Requested
      <4> QED
        BY <1>9, <3>1, <3>4, <4>1, <4>2
    <3> QED
      BY <3>3, <3>4
  <2>2. ASSUME NEW d \in Conns, conn'[d].inq # <<>>, ~conn'[d].peer
        PROVE  client'[conn'[d].pid].st = "dead"
    <3>1. d # gone /\ conn'[d] = conn[d]
      BY <1>8, <1>9, <2>2
    <3> QED
      BY <1>2, <1>3, <2>2, <3>1 DEF Requested
  <2> QED
    BY <2>1, <2>2 DEF Requested
<1>15. SurvivesPoliteClients'
  BY <1>2 DEF SurvivesPoliteClients
<1> QED
  BY <1>10, <1>11, <1>12, <1>13, <1>14, <1>15 DEF SessionInv

LEMMA EventLoopKeeps ==
  ASSUME SessionInv, EventLoop
  PROVE  SessionInv'
PROOF
<1>1. CASE AcceptFails
  <2>1. Stopped /\ DbTypes'
    BY <1>1 DEF AcceptFails, Stopped, DbTypes, SessionInv, TypeOK, dbs
  <2> QED
    BY <2>1, StoppedKeeps
<1>2. CASE Handlers
  BY <1>2, HandlerShape, AnsweredKeeps, StoppedKeeps, RemovedKeeps
<1> QED
  BY <1>1, <1>2, SelectKeeps, SkipKeeps, AcceptKeeps DEF EventLoop

LEMMA SessionInit == Init => SessionInv
PROOF
<1> SUFFICES ASSUME Init PROVE SessionInv
  OBVIOUS
<1>1. <<>> \in Seq(Msg) /\ <<>> \in Seq(Conns) /\ <<Server>> \in Seq(Conns \cup {Server})
  OBVIOUS
<1>2. Free \in Conn
  BY <1>1 DEF Free, Conn
<1>3. Free.st = "free" /\ ~Free.peer /\ Free.inq = <<>>
  BY DEF Free
<1>4. TypeOK
  BY <1>1, <1>2 DEF Init, TypeOK, Conn, Content
<1>5. Lists
  <2>1. IsInjective(<<>>) /\ Range(<<>>) = {}
    BY DEF IsInjective, Range
  <2>2. IsInjective(<<Server>>) /\ Range(<<Server>>) = {Server}
    <3>1. DOMAIN <<Server>> = {1} /\ <<Server>>[1] = Server
      OBVIOUS
    <3> QED
      BY <3>1 DEF IsInjective, Range
  <2> QED
    BY <1>3, <2>1, <2>2 DEF Init, Lists
<1>6. NoDanglingEntry /\ Unserved /\ SurvivesPoliteClients
  BY DEF Init, NoDanglingEntry, Unserved, SurvivesPoliteClients
<1>7. Ends /\ Requested
  BY <1>3 DEF Init, Ends, Requested
<1> QED
  BY <1>4, <1>5, <1>6, <1>7 DEF SessionInv

LEMMA SessionNext == SessionInv /\ [Next]_vars => SessionInv'
PROOF
<1> SUFFICES ASSUME SessionInv, [Next]_vars PROVE SessionInv'
  OBVIOUS
<1>1. CASE UNCHANGED vars
  <2>1. UNCHANGED <<loop, ceList, backlog, conn, client, locked, cand, run, status>>
    BY <1>1 DEF vars, loop
  <2>2. TypeOK' /\ Lists'
    BY <2>1 DEF SessionInv, TypeOK, Lists, loop
  <2>3. NoDanglingEntry' /\ Unserved'
    BY <2>1, WalkStays DEF CanRead, Readable
  <2>4. Ends' /\ Requested' /\ SurvivesPoliteClients'
    BY <2>1, EndsStay
  <2> QED
    BY <2>2, <2>3, <2>4 DEF SessionInv
<1> QED
  BY <1>1, ClientsKeep, EventLoopKeeps DEF Next

LEMMA SessionAlways == Spec => []SessionInv
  BY SessionInit, SessionNext, PTL DEF Spec

------------------------------------------------------------------------------
(* The theorems. *)

(***************************************************************************)
(* Every reachable state of backend and clients is well formed, the        *)
(* databases and the lock included: it holds a process, never a            *)
(* descriptor.                                                             *)
(***************************************************************************)
THEOREM SessionTypes == Spec => []TypeOK
<1>1. SessionInv => TypeOK
  BY DEF SessionInv
<1> QED
  BY <1>1, SessionAlways, PTL

(***************************************************************************)
(* The event loop never walks on from an entry that a callback freed,      *)
(* whatever the number of clients and the order of end of file and kill.   *)
(***************************************************************************)
THEOREM EntriesLive == Spec => []NoDanglingEntry
<1>1. SessionInv => NoDanglingEntry
  BY DEF SessionInv
<1> QED
  BY <1>1, SessionAlways, PTL

(***************************************************************************)
(* The client list, the event list and the open sockets never get out of   *)
(* step, and no entry is in a list twice.                                  *)
(***************************************************************************)
THEOREM ListsInStep == Spec => []ListsAgree
<1>1. ASSUME SessionInv PROVE ListsAgree
  <2>1. /\ ceList \in Seq(Conns) /\ ee \in Seq(Conns \cup {Server})
        /\ IsInjective(ceList) /\ IsInjective(ee)
        /\ Range(ceList) = {c \in Conns : conn[c].st = "open"}
        /\ Range(ee) = Range(ceList) \cup {Server}
    BY <1>1 DEF SessionInv, TypeOK, Lists
  <2>2. IsFiniteSet(Range(ceList)) /\ Cardinality(Range(ceList)) = Len(ceList)
    BY <2>1, InjectiveCardinality
  <2>3. Cardinality(Range(ee)) = Len(ee)
    BY <2>1, InjectiveCardinality
  <2>4. Server \notin Range(ceList)
    BY <2>1, SessionConstants
  <2>5. Cardinality(Range(ceList) \cup {Server}) = Cardinality(Range(ceList)) + 1
    BY <2>2, <2>4, FS_AddElement
  <2> QED
    BY <2>1, <2>2, <2>3, <2>5 DEF ListsAgree
<1> QED
  BY <1>1, SessionAlways, PTL

(***************************************************************************)
(* No callback is made whose read or accept would block: what select()     *)
(* found stays readable until the walk comes to it, or the walk ends.      *)
(***************************************************************************)
THEOREM LoopNeverBlocks == Spec => []NeverBlocks
<1>1. ASSUME SessionInv PROVE NeverBlocks
  BY <1>1, TurnCanRead DEF NeverBlocks, CanRead
<1> QED
  BY <1>1, SessionAlways, PTL

(***************************************************************************)
(* The answers of the backend only kill it when a client died between its  *)
(* request and the answer.                                                 *)
(***************************************************************************)
THEOREM PoliteClientsSurvived == Spec => []SurvivesPoliteClients
<1>1. SessionInv => SurvivesPoliteClients
  BY DEF SessionInv
<1> QED
  BY <1>1, SessionAlways, PTL

\* Nobody but a handler touches the candidate, the lock or the running database.
LEMMA OutsideHandlers ==
  ASSUME [Next]_vars
  PROVE  Handlers \/ UNCHANGED <<locked, cand>>
PROOF
<1>1. CASE UNCHANGED vars
  BY <1>1 DEF vars
<1>2. CASE Clients
  BY <1>2 DEF Clients, Connect, Send, Receive, Die, Backend, dbs
<1>3. CASE Select \/ Skip \/ Accept \/ AcceptFails
  BY <1>3 DEF Select, Skip, Accept, AcceptFails, dbs
<1> QED
  BY <1>1, <1>2, <1>3 DEF Next, EventLoop

(***************************************************************************)
(* While a process holds the candidate only its own edits, and commit and  *)
(* validate, reach it, and the lock passes to nobody but through None: in  *)
(* every handler, answered or not.                                         *)
(***************************************************************************)
THEOREM LockKept == Spec => LockExcludes
<1>1. ASSUME [Next]_vars, locked # None
      PROVE  /\ cand' # cand => Sender = locked \/ Message("commit") \/ Message("validate")
             /\ locked' \in {locked, None}
  <2>1. CASE UNCHANGED <<locked, cand>>
    BY <2>1
  <2>2. CASE FromClientEof \/ FromClientSave \/ FromClientDebug \/ FromClientCall
    BY <2>2 DEF FromClientEof, FromClientSave, FromClientDebug, FromClientCall, dbs
  <2>3. CASE FromClientChange \/ FromClientLoad \/ FromClientInitdb \/ FromClientRm \/ FromClientCopy
    <3>1. locked' = locked
      BY <2>3 DEF FromClientChange, FromClientLoad, FromClientInitdb, FromClientRm, FromClientCopy
    <3>2. cand' # cand => ~LockedByOther
      BY <2>3 DEF FromClientChange, FromClientLoad, FromClientInitdb, FromClientRm, FromClientCopy,
                  Refused, Done, Failed, Silent
    <3> QED
      BY <1>1, <3>1, <3>2 DEF LockedByOther
  <2>4. CASE FromClientCommit \/ FromClientValidate
    BY <2>4 DEF FromClientCommit, FromClientValidate
  <2>5. CASE FromClientLock \/ FromClientUnlock
    BY <1>1, <2>5 DEF FromClientLock, FromClientUnlock, LockedByOther, dbs
  <2>6. CASE FromClientKill
    BY <2>6 DEF FromClientKill, dbs
  <2> QED
    BY <1>1, <2>1, <2>2, <2>3, <2>4, <2>5, <2>6, OutsideHandlers DEF Handlers
<1> QED
  BY <1>1, PTL DEF Spec, LockExcludes
===============================================================================
