--------------------------- MODULE NetconfSession ---------------------------
(***************************************************************************)
(* The netconf client: each session is a process that reads messages from  *)
(* its peer, finds their end, and turns every rpc into calls of the        *)
(* backend, each on a connection of its own, so that the calls of other    *)
(* sessions and of the CLI come in between.                                *)
(*                                                                         *)
(* On the wire a message is three cells: its text and the two halves of    *)
(* the end tag "]]>]]>".  A text is a hello, neither rpc nor hello,        *)
(* unparsable, or an rpc: the sequence of its elements' names, where       *)
(* "incomplete" is any operation that lacks an element or has a bad one.   *)
(***************************************************************************)
EXTENDS Integers, Sequences, FiniteSets, SequencesExt, FiniteSetsExt

CONSTANTS
  Sessions,      \* netconf processes
  Texts,         \* what the peers send
  MaxRequests,   \* bound: messages sent to one session
  MaxInAll       \* bound: messages sent to all

\* Half of the end of a message.
EndTag == <<"]]>">>

\* A text is the sequence of its elements' names, or what it is instead.
ASSUME NetconfAssumption == Texts \subseteq Seq(STRING) \ {<<>>, EndTag}

VARIABLES
  net,         \* [Sessions -> the process and its peer]
  candFile,    \* is the shared candidate there?
  foreignLock  \* does another client hold the lock on the candidate?

netconfVars == <<net, candFile, foreignLock>>

\* netconf_main.c: a new process has read nothing; `sent` and `split` (an
\* end tag came in two reads) are for the properties.
NetStart == [stage |-> "start", wire |-> <<>>, chunk |-> <<>>, buf |-> <<>>, todo |-> <<>>, cur |-> <<>>, at |-> 1,
             errs |-> 0, out |-> <<>>, closed |-> FALSE, subs |-> 0, sent |-> <<>>, split |-> FALSE]
NetconfInit ==
  /\ net = [s \in Sessions |-> NetStart]
  /\ candFile \in BOOLEAN
  /\ foreignLock = FALSE

\* The peer sends, without waiting for answers.
PeerSends(s) ==
  /\ net[s].stage \notin {"gone", "aborted"} /\ Len(net[s].sent) < MaxRequests
  /\ MapThenSumSet(LAMBDA t : Len(net[t].sent), Sessions) < MaxInAll
  /\ \E x \in Texts : net' = [net EXCEPT ![s].wire = @ \o <<x, EndTag, EndTag>>, ![s].sent = Append(@, x)]
  /\ UNCHANGED <<candFile, foreignLock>>

----------------------------------------------------------------------------
\* The backend's answers (config_client.c): the lock of another client, the
\* missing file and any other failure are errors.  When db_init() fails
\* there is no answer, and the caller waits for ever.
BackendFails == UNCHANGED candFile
LoadDone == ~foreignLock /\ candFile /\ UNCHANGED candFile
ReplaceStuck == ~foreignLock /\ candFile /\ candFile' = FALSE
CopyDone == ~foreignLock /\ candFile' = TRUE
RmDone == ~foreignLock /\ candFile /\ candFile' = FALSE
InitdbDone == ~foreignLock /\ candFile' = TRUE
CommitDone == candFile /\ UNCHANGED candFile

\* init_candidate_db(): a session that finds no candidate asks for one; the
\* process ends when it gets none.  Then the plugins are started and the
\* hello is sent.
InitCandidateDb(s) ==
  /\ net[s].stage = "start"
  /\ \/ candFile /\ net' = [net EXCEPT ![s].stage = "loop"] /\ UNCHANGED candFile
     \/ ~candFile /\ CopyDone /\ net' = [net EXCEPT ![s].stage = "loop"]
     \/ ~candFile /\ BackendFails /\ net' = [net EXCEPT ![s].stage = "gone"]
  /\ UNCHANGED foreignLock

\* netconf_input_cb(): one read() takes what is there or a part of it.  The
\* search for the end tag begins anew in every call.
InputCb(s) ==
  /\ net[s].stage = "loop" /\ net[s].wire # <<>>
  /\ \E n \in 1..Len(net[s].wire) :
       net' = [net EXCEPT ![s].chunk = SubSeq(net[s].wire, 1, n),
                          ![s].wire = SubSeq(@, n + 1, Len(@)),
                          ![s].stage = "scan",
                          ![s].split = @ \/ (n < Len(net[s].wire) /\ net[s].wire[n] = EndTag /\ net[s].wire[n + 1] = EndTag)]
  /\ UNCHANGED <<candFile, foreignLock>>

\* The peer closes: read() returns 0, the event loop ends.
InputEof(s) ==
  /\ net[s].stage = "loop" /\ net[s].wire = <<>>
  /\ net' = [net EXCEPT ![s].stage = "gone"]
  /\ UNCHANGED <<candFile, foreignLock>>

\* detect_endtag(): where the first whole end tag of the chunk ends, or 0.
DetectEndtag(chunk) ==
  LET ends == {i \in 2..Len(chunk) : chunk[i] = EndTag /\ chunk[i - 1] = EndTag}
  IN IF ends = {} THEN 0 ELSE Min(ends)

\* The rest of the loop over the characters that were read.  Without an end
\* tag they are kept for the next call.
MutantScan(s) ==
  /\ net[s].stage = "scan"
  /\ LET n == DetectEndtag(net[s].chunk)
     IN net' = IF n = 0
               THEN [net EXCEPT ![s].buf = @ \o net[s].chunk, ![s].chunk = <<>>, ![s].stage = "loop"]
               ELSE [net EXCEPT ![s].buf = @ \o SubSeq(net[s].chunk, 1, n), ![s].chunk = <<>>, ![s].stage = "packet"]
  /\ UNCHANGED <<candFile, foreignLock>>
Scan(s) ==
  /\ net[s].stage = "scan"
  /\ LET n == DetectEndtag(net[s].chunk)
     IN net' = IF n = 0
               THEN [net EXCEPT ![s].buf = @ \o net[s].chunk, ![s].chunk = <<>>, ![s].stage = "loop"]
               ELSE [net EXCEPT ![s].buf = @ \o SubSeq(net[s].chunk, 1, n),
                                ![s].chunk = SubSeq(@, n + 1, Len(@)), ![s].stage = "packet"]
  /\ UNCHANGED <<candFile, foreignLock>>

\* Back in the loop after a packet: the buffer is reset, or the session ends.
Resume(n) ==
  IF n.closed THEN [n EXCEPT !.stage = "gone"]
  ELSE [n EXCEPT !.stage = "scan", !.buf = <<>>, !.cur = <<>>, !.at = 1, !.errs = 0]

\* netconf_create_rpc_reply(), netconf_output(): one write of `msgs` messages,
\* each with its own end tag.
Output(n, kind, msgs) == [n EXCEPT !.out = Append(@, [to |-> n.cur, kind |-> kind, msgs |-> msgs])]

\* packet(): the first rpc of the buffer counts, an end tag inside it is
\* text.  What does not parse, is no rpc or is a hello gets no answer.
IsRpc(x) == x \notin {<<"hello">>, <<"neither">>, <<"unparsable">>, EndTag}
Packet(s) ==
  /\ net[s].stage = "packet"
  /\ LET b == net[s].buf
         i == SelectInSeq(b, IsRpc)
     IN net' = [net EXCEPT ![s] =
                 IF <<"unparsable">> \in Range(b) \/ i = 0 THEN Resume(@)
                 ELSE [@ EXCEPT !.stage = "rpc", !.cur = b[i]]]
  /\ UNCHANGED <<candFile, foreignLock>>

----------------------------------------------------------------------------
\* netconf_rpc_dispatch() goes through the elements of the rpc.  The first
\* that the dispatcher knows is carried out and ends the rpc; until then they
\* go to the plugins.  `errs` error messages (netconf_create_rpc_error()) are
\* collected: all are written when the last element or the one that ends the
\* rpc fails, else none is.
KnownTags == {"close-session", "get-config", "edit-config", "replace-config", "edit-none", "copy-config", "delete-config",
              "kill-session", "lock", "unlock", "commit", "discard-changes", "validate", "create-subscription", "incomplete"}
Doing(s, tag) == net[s].stage = "rpc" /\ net[s].todo = <<>> /\ net[s].cur[net[s].at] = tag
AtLast(s) == net[s].at = Len(net[s].cur)
NextElement(s, own) == net' = [net EXCEPT ![s].at = @ + 1, ![s].errs = @ + own]

Ok(s) == net' = [net EXCEPT ![s] = Resume(Output(@, "ok", 1))]
Data(s) == net' = [net EXCEPT ![s] = Resume(Output(@, "data", 1))]

\* A handler fails with `own` messages of its own.  packet() writes all there
\* are, and asserts that there is one.
FailsWith(s, own) ==
  LET msgs == net[s].errs + own
  IN net' = [net EXCEPT ![s] = IF msgs = 0 THEN [@ EXCEPT !.stage = "aborted"]
                               ELSE Resume([Output(@, "error", msgs) EXCEPT !.todo = <<>>])]
Error(s) == FailsWith(s, 1)
Stuck(s) == net' = [net EXCEPT ![s].stage = "stuck"]
Local == UNCHANGED <<candFile, foreignLock>>

\* A missing element, a bad option: an error before anything is done.
Incomplete(s) == Doing(s, "incomplete") /\ Error(s) /\ Local

\* netconf_close_session(): the answer is written and the session ends.
CloseSession(s) ==
  /\ Doing(s, "close-session")
  /\ net' = [net EXCEPT ![s] = Resume([Output(@, "ok", 1) EXCEPT !.closed = TRUE])]
  /\ Local

\* netconf_get_config(): the database is read from the file.
GetConfig(s) == Doing(s, "get-config") /\ (Data(s) \/ Error(s)) /\ Local

\* netconf_edit_config(): a plugin may refuse, and what it has to say comes
\* before the handler's own message; the tree is written to a temporary file
\* and the backend loads it, for merge or for replace.  When there is no file
\* the handler fails without a message.
EditConfig(s, tag) ==
  /\ Doing(s, tag)
  /\ \/ LoadDone /\ Ok(s)
     \/ BackendFails /\ \E own \in 0..2 : FailsWith(s, own)
     \/ tag = "replace-config" /\ ReplaceStuck /\ Stuck(s)
  /\ UNCHANGED foreignLock
EditNone(s) == Doing(s, "edit-none") /\ Ok(s) /\ Local

\* netconf_copy_config(), to the candidate: no message if the backend refuses.
CopyConfig(s) ==
  /\ Doing(s, "copy-config")
  /\ \/ CopyDone /\ Ok(s)
     \/ BackendFails /\ FailsWith(s, 0)
  /\ UNCHANGED foreignLock

\* netconf_delete_config(): the file is removed, then, in a second call of
\* the backend, created.
DeleteConfig(s) ==
  /\ Doing(s, "delete-config")
  /\ \/ RmDone /\ net' = [net EXCEPT ![s].todo = <<"initdb">>]
     \/ BackendFails /\ Error(s)
  /\ UNCHANGED foreignLock
MutantDeleteConfig2(s) ==
  /\ net[s].stage = "rpc" /\ net[s].todo = <<"initdb">>
  /\ \/ InitdbDone \/ BackendFails
  /\ net' = [net EXCEPT ![s] = Resume([Output(@, "ok", 1) EXCEPT !.todo = <<>>])]
  /\ UNCHANGED foreignLock
DeleteConfig2(s) ==
  /\ net[s].stage = "rpc" /\ net[s].todo = <<"initdb">>
  /\ \/ InitdbDone /\ net' = [net EXCEPT ![s] = Resume([Output(@, "ok", 1) EXCEPT !.todo = <<>>])]
     \/ BackendFails /\ (Error(s) \/ Stuck(s))
  /\ UNCHANGED foreignLock

\* netconf_lock(), netconf_unlock(), netconf_validate() answer and do
\* nothing; netconf_kill_session() answers with empty data.
Lock(s) == Doing(s, "lock") /\ Ok(s) /\ Local
Unlock(s) == Doing(s, "unlock") /\ Ok(s) /\ Local
Validate(s) == Doing(s, "validate") /\ Ok(s) /\ Local
KillSession(s) == Doing(s, "kill-session") /\ Data(s) /\ Local

Commit(s) ==
  /\ Doing(s, "commit")
  /\ \/ CommitDone /\ Ok(s)
     \/ BackendFails /\ Error(s)
  /\ UNCHANGED foreignLock
DiscardChanges(s) ==
  /\ Doing(s, "discard-changes")
  /\ \/ CopyDone /\ Ok(s)
     \/ BackendFails /\ Error(s)
  /\ UNCHANGED foreignLock

\* netconf_create_subscription(): one more connection in the event loop.
CreateSubscription(s) ==
  /\ Doing(s, "create-subscription")
  /\ \/ net' = [net EXCEPT ![s] = Resume([Output(net[s], "ok", 1) EXCEPT !.subs = net[s].subs + 1])]
     \/ Error(s)
  /\ Local

\* netconf_plugin_callbacks(): a plugin that fails ends the rpc with the
\* error it has written, if any; a tag of nobody is an error, and the next
\* element has its turn.  The last element decides about the answer.
PluginTag(s) ==
  /\ Doing(s, "app")
  /\ \/ AtLast(s) /\ Data(s)
     \/ ~AtLast(s) /\ NextElement(s, 0)
     \/ \E own \in 0..1 : FailsWith(s, own)
  /\ Local
UnknownTag(s) ==
  /\ Doing(s, "unknown")
  /\ IF AtLast(s) THEN Error(s) ELSE NextElement(s, 1)
  /\ Local

\* netconf_notification_cb(): a message is passed on between the answers;
\* when the backend closes the connection the session ends.
NotificationCb(s) ==
  /\ net[s].stage = "loop" /\ net[s].subs > 0
  /\ \/ /\ \A i \in DOMAIN net[s].out : net[s].out[i].kind # "notification"
        /\ net' = [net EXCEPT ![s] = Output(@, "notification", 1)]
     \/ net' = [net EXCEPT ![s].stage = "gone"]
  /\ Local

\* A client of the backend takes or leaves the lock.
ForeignLock == foreignLock' = ~foreignLock /\ UNCHANGED <<net, candFile>>

NetconfStep(s) ==
  \/ PeerSends(s)
  \/ InitCandidateDb(s) \/ InputCb(s) \/ InputEof(s) \/ Scan(s) \/ Packet(s)
  \/ Incomplete(s) \/ CloseSession(s) \/ GetConfig(s) \/ EditConfig(s, "edit-config") \/ EditConfig(s, "replace-config")
  \/ EditNone(s) \/ CopyConfig(s) \/ DeleteConfig(s) \/ DeleteConfig2(s) \/ Lock(s) \/ Unlock(s) \/ Validate(s)
  \/ KillSession(s) \/ Commit(s) \/ DiscardChanges(s) \/ CreateSubscription(s) \/ PluginTag(s) \/ UnknownTag(s)
  \/ NotificationCb(s)
NetconfNext == ForeignLock \/ \E s \in Sessions : NetconfStep(s)

NetconfSpec == NetconfInit /\ [][NetconfNext]_netconfVars

----------------------------------------------------------------------------
\* How many messages a session is done with, the rpcs among them, and the
\* answers among what it has written.
Texted(cells) == Cardinality({i \in DOMAIN cells : cells[i] # EndTag})
Unread(n) == n.buf \o n.chunk \o n.wire
Taken(n) == Len(n.sent) - Texted(Unread(n))
RpcsIn(sent, k) == {i \in 1..k : IsRpc(sent[i])}
AnswersIn(out) == {j \in DOMAIN out : out[j].kind # "notification"}
Place(S, i) == Cardinality({j \in S : j <= i})
\* The first answer is that of the first rpc, the second of the second, ...
Matched(out, sent, k) ==
  /\ Cardinality(AnswersIn(out)) = Cardinality(RpcsIn(sent, k))
  /\ \A i \in RpcsIn(sent, k), j \in AnswersIn(out) :
       Place(RpcsIn(sent, k), i) = Place(AnswersIn(out), j) => out[j].to = sent[i]

\* A reply is one message.  An error is one for each element at most, and one
\* more for an edit-config, which adds its own to that of the plugin.
EditTags == {"edit-config", "replace-config"}
MostErrors(x) == Len(x) + (IF Range(x) \cap EditTags = {} THEN 0 ELSE 1)
Worded(a) == a.msgs = 1 \/ (a.kind = "error" /\ a.msgs \in 1..MostErrors(a.to))

\* Each request is answered by one write, in the order of the requests, none
\* is left out and none is answered again, although messages come in pieces
\* or several at a time and notifications are written in between: an error
\* carries no message-id, so the order is all the peer has.  The answer is
\* one message, unless elements that nobody knows, or a plugin that refuses
\* an edit, add errors of their own.  An end tag that is cut in two by read()
\* is the exception (the search starts anew in every call).
AnsweredInOrder ==
  \A s \in Sessions :
    net[s].stage \in {"loop", "scan"} /\ ~net[s].split =>
      /\ Matched(net[s].out, net[s].sent, Taken(net[s]))
      /\ \A j \in AnswersIn(net[s].out) : Worded(net[s].out[j])

\* Once a session runs, the candidate is missing only while a delete-config
\* is between its two calls of the backend, or after a request whose sender
\* was told of an error or is still waiting: nobody is told "ok" and left
\* without a candidate.
CandidateKept ==
  (~candFile /\ \E s \in Sessions : net[s].stage = "loop") =>
    \E s \in Sessions :
      \/ net[s].todo = <<"initdb">>
      \/ net[s].stage = "stuck"
      \/ \E i \in DOMAIN net[s].out : net[s].out[i].kind = "error" /\ "delete-config" \in Range(net[s].out[i].to)
=============================================================================
