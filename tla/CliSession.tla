----------------------------- MODULE CliSession -----------------------------
(***************************************************************************)
(* The commands of cli_common.c that change or publish a configuration, in *)
(* several CLI processes at once.  A command is a program of calls: each   *)
(* call is one request to the backend, or one access to a file when the    *)
(* CLI was started with -c, and the calls of different CLIs interleave.    *)
(* What happens inside a commit is in CandidateCommit, inside a change in  *)
(* ListDb; here a call takes effect or fails, and a commit ends in one of  *)
(* the ways in which candidate_commit() may end.                           *)
(***************************************************************************)
EXTENDS Integers, Sequences, FiniteSets, SequencesExt

CONSTANTS
  Clis,          \* CLI processes
  Items, Below,  \* what can be configured; [Items -> the items in its sub-tree]
  Bad,           \* items no commit accepts
  LoadFile,      \* the content of the file that can be loaded
  Fill,          \* [Items -> the default values that belong to the item's entry]
  Missing,       \* there is no such database
  Cut,           \* its file was cut by a copy that failed
  CliOptions,    \* the ways to start a CLI
  MaxCommands    \* bound: number of commands

ASSUME CliSessionAssumption ==
  /\ Below \in [Items -> SUBSET Items] /\ Bad \subseteq Items /\ LoadFile \subseteq Items
  /\ Fill \in [Items -> SUBSET Items]
  /\ Cut # Missing /\ \A s \in SUBSET Items : s # Missing /\ s # Cut
  /\ CliOptions \subseteq {"daemon", "direct", "private"}
  /\ MaxCommands \in Nat

DbNames == {"running", "candidate", "private"}

VARIABLES
  db,          \* [DbNames -> SUBSET Items, Missing or Cut]
  cli,         \* [Clis -> the command under way]
  locked,      \* has another session locked candidate?
  autocommit,  \* CLICON_AUTOCOMMIT
  unlucky,     \* has a call been refused, a copy failed or a CLI died in a command?
  byHand,      \* has anything but an edit with autocommit been done?
  commands     \* number of commands so far

sessionVars == <<db, cli, locked, autocommit, unlucky, byHand, commands>>

Calls == {"change", "commit", "restore", "validate", "copy", "rm", "initdb", "unlink", "dbinit", "load",
          "loadxml", "save", "lstat"}
\* One call: what it is, on which items, and what its failure does to the
\* command: "stop" it, "go" on, or go on with "restore" and then stop.
Call(kind, op, items, onfail) == [kind |-> kind, op |-> op, items |-> items, onfail |-> onfail]

NoCli == [pc |-> "off", opt |-> "daemon", todo |-> <<>>, target |-> "candidate", alone |-> TRUE,
          failed |-> FALSE, before |-> <<>>]

CliSessionInit ==
  /\ \E cand \in {Missing, {}} : db = [n \in DbNames |-> IF n = "running" THEN {} ELSE IF n = "candidate" THEN cand ELSE Missing]
  /\ cli = [c \in Clis |-> NoCli]
  /\ locked = FALSE /\ autocommit \in BOOLEAN /\ unlucky = FALSE /\ byHand = FALSE /\ commands = 0

UseDaemon(c) == cli[c].opt # "direct"
Candidate(c) == IF cli[c].opt = "private" THEN "private" ELSE "candidate"
Atop(c) == {d \in Clis \ {c} : cli[d].pc = "busy"}

----------------------------------------------------------------------------
(* The commands.                                                           *)

\* cli_dbop(): the change and, with autocommit, the commit; a commit that
\* fails is followed by a copy of running to candidate.
MutantDbop(c, op, items) ==
  <<Call("change", op, items, "stop")>> \o
  (IF UseDaemon(c) /\ autocommit THEN <<Call("commit", op, items, "stop")>> ELSE <<>>)
Dbop(c, op, items) ==
  <<Call("change", op, items, "stop")>> \o
  (IF UseDaemon(c) /\ autocommit THEN <<Call("commit", op, items, "restore")>> ELSE <<>>)

\* cli_mset(), cli_mmerge(): one after the other until one fails.
Mset(c, i, j) == Dbop(c, "set", {i}) \o Dbop(c, "set", {j})
\* cli_del_tree(): what is below first, then the key itself.
DelTree(c, i) == Dbop(c, "del", Below[i] \ {i}) \o Dbop(c, "del", {i})
\* cli_commit()
CliCommit == <<Call("commit", "none", {}, "stop")>>
\* cli_validate(): nothing but a failure without the daemon.
CliValidate == <<Call("validate", "none", {}, "stop")>>
\* discard_changes() does not look at what the copy returns.
Discard == <<Call("copy", "none", {}, "go")>>
\* delete_all(): neither does it look at the results of the daemon.
MutantDeleteAll(c) ==
  IF UseDaemon(c) THEN <<Call("rm", "none", {}, "go"), Call("initdb", "none", {}, "go")>>
  ELSE <<Call("dbinit", "none", {}, "stop"), Call("unlink", "none", {}, "stop")>>
DeleteAll(c) ==
  IF UseDaemon(c) THEN <<Call("rm", "none", {}, "go"), Call("initdb", "none", {}, "go")>>
  ELSE <<Call("unlink", "none", {}, "stop"), Call("dbinit", "none", {}, "stop")>>
\* load_config_file()
LoadConfig(c, replace) ==
  IF UseDaemon(c) THEN <<Call("load", IF replace THEN "replace" ELSE "merge", LoadFile, "stop")>>
  ELSE (IF replace THEN <<Call("unlink", "none", {}, "stop"), Call("dbinit", "none", {}, "stop")>> ELSE <<>>)
       \o <<Call("loadxml", "none", LoadFile, "stop")>>
\* save_config_file()
SaveConfig == <<Call("save", "none", {}, "stop")>>

\* Databases a command acts on: delete_all() takes either, the others the
\* candidate of the CLI.
Command(c, target, program) ==
  /\ cli[c].pc = "prompt" /\ commands < MaxCommands /\ program # <<>>
  /\ ~unlucky  \* bound: nothing is claimed of what follows
  /\ commands' = commands + 1
  /\ cli' = [d \in Clis |->
       IF d = c THEN [cli[c] EXCEPT !.pc = "busy", !.todo = program, !.target = target, !.alone = (Atop(c) = {}),
                                     !.failed = FALSE, !.before = db]
       ELSE [cli[d] EXCEPT !.alone = (cli[d].pc # "busy")]]
  /\ UNCHANGED <<db, locked, autocommit, unlucky, byHand>>

\* main() with init_candidate_db(): a shared candidate is copied from running
\* when lstat() finds none, and the result of the daemon's copy is ignored; a
\* private one is copied by the CLI itself.
StartCli(c, opt) ==
  /\ cli[c].pc = "off" /\ commands < MaxCommands /\ ~unlucky
  /\ commands' = commands + 1
  /\ cli' = [d \in Clis |->
       IF d = c THEN [pc |-> "busy", opt |-> opt, todo |-> <<Call("lstat", "none", {}, "stop")>>,
                      target |-> IF opt = "private" THEN "private" ELSE "candidate", alone |-> (Atop(c) = {}),
                      failed |-> FALSE, before |-> db]
       ELSE [cli[d] EXCEPT !.alone = (cli[d].pc # "busy")]]
  /\ UNCHANGED <<db, locked, autocommit, unlucky, byHand>>
Lstat(c) ==
  /\ cli[c].pc = "busy" /\ cli[c].todo[1].kind = "lstat"
  /\ cli' = [cli EXCEPT ![c] =
       CASE cli[c].opt # "private" /\ db["running"] = Missing -> NoCli  \* "Running db does not exist"
         [] db[cli[c].target] # Missing -> [@ EXCEPT !.pc = "prompt", !.todo = <<>>, !.before = <<>>, !.alone = TRUE]
         [] OTHER -> [@ EXCEPT !.todo = <<Call("copy", "none", {}, IF cli[c].opt = "daemon" THEN "go" ELSE "exit")>>]]
  /\ UNCHANGED <<db, locked, autocommit, unlucky, byHand, commands>>

----------------------------------------------------------------------------
(* One call.                                                               *)

At(c, kind) == cli[c].pc = "busy" /\ cli[c].todo[1].kind = kind
\* A part of an edit with autocommit, or nothing that changes candidate.
Settles(c) ==
  \/ cli[c].todo[1].kind \in {"copy", "validate", "save"}
  \/ autocommit /\ cli[c].opt = "daemon" /\ cli[c].todo[1].op # "none"
       /\ cli[c].todo[1].kind \in {"change", "commit", "restore"}

\* The command goes on after a call that succeeded, or failed.
Next1(c, ok) ==
  LET call == cli[c].todo[1]
      rest == Tail(cli[c].todo)
      end(f) == [cli[c] EXCEPT !.pc = "prompt", !.todo = <<>>, !.failed = f, !.before = <<>>, !.alone = TRUE]
      now(s) == IF s = <<>> THEN end(cli[c].failed)
                ELSE [cli[c] EXCEPT !.todo = s, !.before = IF s[1].kind = "change" THEN db' ELSE @]
  IN cli' = [cli EXCEPT ![c] =
       IF call.kind = "restore" THEN end(TRUE)
       ELSE IF ok \/ call.onfail = "go" THEN now(rest)
       ELSE IF call.onfail = "restore" THEN [@ EXCEPT !.todo = <<Call("restore", call.op, call.items, "stop")>>]
       ELSE IF call.onfail = "exit" THEN NoCli
       ELSE end(TRUE)]

\* db_lv_op_exec() and the like open the file; dpopen() refuses a cut one.
Readable(n) == db[n] \notin {Missing, Cut}
\* Refused for everybody but the holder of the lock.
Unlocked(c) == ~(locked /\ cli[c].target = "candidate" /\ UseDaemon(c))
Works(c) == Next1(c, TRUE) /\ byHand' = (byHand \/ ~Settles(c)) /\ UNCHANGED <<locked, autocommit, unlucky, commands>>
Fails(c) ==
  /\ Next1(c, FALSE)
  /\ unlucky' = (unlucky \/ ~Unlocked(c) \/ cli[c].todo[1].kind = "copy")
  /\ UNCHANGED <<db, locked, autocommit, byHand, commands>>

\* cli_set() and cli_merge(), which are one here, and cli_del() through clicon_proto_change_cvec(), or
\* db_lv_op_exec() on the file.
Change(c) ==
  /\ At(c, "change")
  /\ LET d == cli[c].target
         items == cli[c].todo[1].items
     IN IF Readable(d) /\ Unlocked(c)
        THEN db' = [db EXCEPT ![d] = IF cli[c].todo[1].op = "del" THEN @ \ items ELSE @ \cup items] /\ Works(c)
        ELSE Fails(c)

\* generic_validate(): each entry that is new or has changed gets the default
\* values it lacks, one after the other.
Filled(cand, run) ==
  LET entry(i) == {i} \cup Fill[i]
      changed == {i \in cand : entry(i) \cap cand # entry(i) \cap run}
  IN cand \cup UNION {Fill[i] : i \in changed}
PartFilled(cand, run) == {s \in SUBSET Filled(cand, run) : cand \subseteq s}
Accepted(cand, run) == Filled(cand, run) \cap Bad = {}

\* candidate_commit() is refused before it writes running, or has written it
\* and copies it back.  Either copy may stop in the middle and say so, or be
\* cut by a read error and say nothing; the copy back may fail although
\* running is written.
Refusals(cand, run) == {[cand |-> s, run |-> run, ok |-> FALSE] : s \in PartFilled(cand, run)}
Publications(cand, run) ==
  LET full == Filled(cand, run)
  IN [cand : {full, Cut}, run : {full, Cut}, ok : BOOLEAN] \ {[cand |-> full, run |-> Cut, ok |-> TRUE]}
CommitEnds(cand, run) ==
  Refusals(cand, run) \cup (IF Accepted(cand, run) THEN Publications(cand, run) ELSE {})

\* clicon_proto_commit(running, candidate).
CommitCall(c) ==
  /\ At(c, "commit")
  /\ LET d == cli[c].target
     IN IF Readable(d) /\ Readable("running")
        THEN \E end \in CommitEnds(db[d], db["running"]) :
               /\ db' = [db EXCEPT ![d] = end.cand, !["running"] = end.run]
               /\ Next1(c, end.ok)
               /\ unlucky' = (unlucky \/ end.run = Cut \/ (end.ok /\ end.cand = Cut))
               /\ byHand' = (byHand \/ ~Settles(c))
               /\ UNCHANGED <<locked, autocommit, commands>>
        ELSE Fails(c)

\* candidate_validate() leaves the default values in candidate, too.
ValidateCall(c) ==
  /\ At(c, "validate")
  /\ LET d == cli[c].target
     IN IF UseDaemon(c) /\ Readable(d) /\ Readable("running")
        THEN \/ /\ Accepted(db[d], db["running"])
                /\ db' = [db EXCEPT ![d] = Filled(db[d], db["running"])] /\ Works(c)
             \/ /\ \E s \in PartFilled(db[d], db["running"]) : db' = [db EXCEPT ![d] = s]
                /\ Next1(c, FALSE) /\ UNCHANGED <<locked, autocommit, unlucky, byHand, commands>>
        ELSE Fails(c)

\* clicon_proto_copy(running, candidate), or file_cp().
CopyCall(c) ==
  /\ At(c, "copy") \/ At(c, "restore")
  /\ IF db["running"] # Missing /\ Unlocked(c)
     THEN \/ db' = [db EXCEPT ![cli[c].target] = db["running"]] /\ Works(c)
          \/ /\ db' = [db EXCEPT ![cli[c].target] = Cut]
             /\ \E ok \in BOOLEAN : Next1(c, ok)
             /\ unlucky' = TRUE
             /\ UNCHANGED <<locked, autocommit, byHand, commands>>
     ELSE Fails(c)

\* clicon_proto_rm(), or unlink().
RmCall(c) ==
  /\ At(c, "rm") \/ At(c, "unlink")
  /\ IF db[cli[c].target] # Missing /\ Unlocked(c)
     THEN db' = [db EXCEPT ![cli[c].target] = Missing] /\ Works(c)
     ELSE Fails(c)
\* clicon_proto_initdb(), or db_init(): an existing database is kept.
InitdbCall(c) ==
  /\ At(c, "initdb") \/ At(c, "dbinit")
  /\ IF Unlocked(c) /\ db[cli[c].target] # Cut
     THEN db' = [db EXCEPT ![cli[c].target] = IF @ = Missing THEN {} ELSE @] /\ Works(c)
     ELSE Fails(c)

\* clicon_proto_load(): the backend replaces the file first, if asked to.
LoadCall(c) ==
  /\ At(c, "load") \/ At(c, "loadxml")
  /\ LET d == cli[c].target
         items == cli[c].todo[1].items
     IN IF db[d] # Missing /\ (cli[c].todo[1].op # "replace" => Readable(d)) /\ Unlocked(c)
        THEN db' = [db EXCEPT ![d] = IF cli[c].todo[1].op = "replace" THEN items ELSE @ \cup items] /\ Works(c)
        ELSE Fails(c)
SaveCall(c) ==
  /\ At(c, "save")
  /\ IF Readable(cli[c].target) THEN UNCHANGED db /\ Works(c) ELSE Fails(c)

\* The daemon does not answer, or a file cannot be opened: the call has no
\* effect.
CallFails(c) ==
  /\ cli[c].pc = "busy" /\ cli[c].todo[1].kind \notin {"lstat", "commit"}
  /\ Next1(c, FALSE)
  /\ unlucky' = TRUE
  /\ UNCHANGED <<db, locked, autocommit, byHand, commands>>

\* A CLI is killed in the middle of a command; cli_quit() between two.
Killed(c) ==
  /\ cli[c].pc = "busy"
  /\ cli' = [cli EXCEPT ![c] = NoCli]
  /\ unlucky' = TRUE
  /\ UNCHANGED <<db, locked, autocommit, byHand, commands>>
Quit(c) ==
  /\ cli[c].pc = "prompt"
  /\ cli' = [cli EXCEPT ![c] = NoCli]
  /\ UNCHANGED <<db, locked, autocommit, unlucky, byHand, commands>>

\* Another session locks or unlocks candidate between two calls.
LockOther ==
  /\ locked' = ~locked
  /\ UNCHANGED <<db, cli, autocommit, unlucky, byHand, commands>>

CliSessionNext ==
  \/ LockOther
  \/ \E c \in Clis :
       \/ \E o \in CliOptions : StartCli(c, o)
       \/ \E op \in {"set", "del"}, i \in Items : Command(c, Candidate(c), Dbop(c, op, {i}))
       \/ \E i, j \in Items : Command(c, Candidate(c), Mset(c, i, j))
       \/ \E i \in Items : Command(c, Candidate(c), DelTree(c, i))
       \/ \E p \in {CliCommit, CliValidate, Discard, SaveConfig, LoadConfig(c, TRUE), LoadConfig(c, FALSE)} :
            Command(c, Candidate(c), p)
       \/ \E d \in {"running", Candidate(c)} : Command(c, d, DeleteAll(c))
       \/ Lstat(c) \/ Change(c) \/ CommitCall(c) \/ ValidateCall(c) \/ CopyCall(c) \/ RmCall(c) \/ InitdbCall(c)
       \/ LoadCall(c) \/ SaveCall(c) \/ CallFails(c) \/ Killed(c) \/ Quit(c)

CliSessionSpec == CliSessionInit /\ [][CliSessionNext]_sessionVars

----------------------------------------------------------------------------
\* The edit and default values that belong to it, and nothing else.
Publishes(edited, s) == s \in SUBSET Items /\ edited \subseteq s /\ s \ edited \subseteq UNION {Fill[i] : i \in edited}

(***************************************************************************)
(* With autocommit, an edit made while no other CLI did anything and no    *)
(* call was refused is published whole or not at all.  When the commit     *)
(* succeeds, running and candidate are the edited candidate with its       *)
(* default values.  When it fails and candidate is made from running       *)
(* again, running is as before the edit, or it is published after all: the *)
(* commit answers an error, too, when only its copy back to candidate has  *)
(* failed.                                                                 *)
(***************************************************************************)
AutocommitAtomic ==
  [][\A c \in Clis :
       LET call == cli[c].todo[1]
           d == cli[c].target
           was == cli[c].before[d]
           edited == IF call.op = "del" THEN was \ call.items ELSE was \cup call.items
           alone == autocommit /\ UseDaemon(c) /\ cli[c].alone /\ ~unlucky'
           moves == cli[c].pc = "busy" /\ cli'[c].todo # cli[c].todo /\ call.op # "none"
           ends == cli'[c].pc = "prompt"
           went == IF ends THEN ~cli'[c].failed ELSE cli'[c].todo[1].kind # "restore"
       IN alone /\ moves =>
          /\ call.kind = "commit" /\ went =>
               db'[d] = db'["running"] /\ Publishes(edited, db'[d])
          /\ call.kind \in {"commit", "restore"} /\ ends /\ cli'[c].failed =>
               /\ db'[d] = db'["running"]
               /\ db'["running"] = cli[c].before["running"] \/ Publishes(edited, db'["running"])]_sessionVars

(***************************************************************************)
(* Edits of several CLIs at once do come between each other: the commit of *)
(* one publishes what another has changed, and its restore throws it away. *)
(* But with autocommit none is left half way: as long as there were only   *)
(* such edits, none refused and nobody killed, candidate is running again  *)
(* whenever every CLI has its prompt.                                      *)
(***************************************************************************)
EditsSettle ==
  autocommit /\ ~byHand /\ ~unlucky /\ (\A c \in Clis : cli[c].pc # "busy") =>
    db["candidate"] \in {db["running"], Missing}

(***************************************************************************)
(* delete_all() and a load that replaces remove a database and make it     *)
(* anew in two calls.  When no call was refused, no copy failed and nobody *)
(* died, every CLI that has its prompt has a candidate, and running is     *)
(* there, once nobody is in the middle of a command, whatever commands     *)
(* were interleaved.                                                       *)
(***************************************************************************)
DatabasesExist ==
  ~unlucky /\ (\A c \in Clis : cli[c].pc # "busy") =>
    /\ db["running"] # Missing
    /\ \A c \in Clis : cli[c].pc = "prompt" => db[Candidate(c)] # Missing
=============================================================================
