------------------------------ MODULE Lifecycle ------------------------------
(***************************************************************************)
(* The life of the configuration daemon: main() of config_main.c from the  *)
(* look at the pidfile to config_terminate(), the loading of the plugins,  *)
(* what happens to the databases on the way, the archive of snapshots a    *)
(* commit may add to, and crashes.  A process that runs main() is a daemon *)
(* here whether it comes to serve or not.                                  *)
(*                                                                         *)
(* A database file is Missing, Cut (a truncated or half-written file), or  *)
(* the set of the keys it holds; a plugin owns the key of its name.  A     *)
(* commit is a single step with the outcomes that CandidateCommit allows.  *)
(***************************************************************************)
EXTENDS Integers, Sequences, FiniteSets

CONSTANTS
  Daemons,      \* processes that may run main()
  NoDaemon,     \* no process
  Stale,        \* what the pidfile and the socket name when their process is dead
  PluginOrder,  \* the plugins in the order they are loaded, master first
  Missing,      \* a file that is not there
  Cut,          \* a file that is there and is no database
  OptionSets,   \* the command lines: subsets of {"z","I","r","C","R","c","1"}
  Edits,        \* the configurations that clients commit
  SNAPSHOTS_NR, \* length of the archive
  MaxStarts,    \* bound: number of times main() is run
  MaxCommits    \* bound: number of commits asked for by clients

ASSUME LifecycleAssumption ==
  /\ {NoDaemon, Stale, Missing} \cap Daemons = {}
  /\ Missing # Cut /\ {Missing, Cut} \cap Nat = {}
  /\ SNAPSHOTS_NR \in Nat \ {0}
  /\ MaxStarts \in Nat /\ MaxCommits \in Nat

VARIABLES
  proc,       \* [Daemons -> Off or the state of main()]
  running, candidate,  \* the two databases
  startup,    \* the startup file: Missing, Cut or the number of a commit
  archive,    \* [0..SNAPSHOTS_NR-1 -> Missing, Cut or the number of a commit]
  committed,  \* sequence of what was committed by clients
  system,     \* the keys that the plugins have applied to the system
  pidfile,    \* the process the pidfile names, Missing if there is none
  sockpath,   \* the process that bound the socket, Missing if there is none
  starts,     \* how often main() was run
  overlapped  \* has a process begun or left its event loop while another one
              \* was starting or ending, since one last began alone?

files == <<running, candidate, startup, archive, committed, system>>
names == <<pidfile, sockpath>>
counts == <<starts, overlapped>>
lifeVars == <<proc, files, names, counts>>

PluginSet == {PluginOrder[i] : i \in DOMAIN PluginOrder}
Good(db) == db \notin {Missing, Cut}
Alive(d) == proc[d].stage # "off"

\* A process: where it is, the options in force, the length of plugins[] and
\* the process that -z wants gone.
Off == [stage |-> "off", flags |-> {}, loaded |-> 0, zapped |-> NoDaemon]

LifeInit ==
  /\ proc = [d \in Daemons |-> Off]
  /\ running = Missing /\ candidate = Missing /\ startup = Missing
  /\ archive = [i \in 0..(SNAPSHOTS_NR - 1) |-> Missing]
  /\ committed = <<>>
  /\ system = {}
  /\ pidfile = Missing /\ sockpath = Missing
  /\ starts = 0 /\ overlapped = FALSE

Goto(d, s) == proc' = IF s = "off" THEN [proc EXCEPT ![d] = Off] ELSE [proc EXCEPT ![d].stage = s]

\* What a database becomes when it is copied, and the ways a copy can end:
\* untouched (no source, target cannot be opened), whole, or cut short.
CopyFails(from, to) == IF from = Missing THEN {to} ELSE {to, Cut}

\* The commit of database c into running: <<error?, running, system>>.  An
\* error either changes nothing, or it is met when running has been written
\* (the copy back failed) or while it is written.
CommitOutcomes(c) ==
  LET applied == (system \cup (c \ running)) \ (running \ c)
  IN IF Good(c) /\ Good(running)
     THEN {<<FALSE, c, applied>>, <<TRUE, running, system>>, <<TRUE, c, applied>>, <<TRUE, Cut, applied>>}
     ELSE {<<TRUE, running, system>>}

----------------------------------------------------------------------------
\* Some other process is on its way to or from its event loop.
OthersMove(d) == \E e \in Daemons \ {d} : proc[e].stage \notin {"off", "serving"}

\* The process begins: options are read, the plugin list is empty.
Exec(d, opts) ==
  /\ ~Alive(d) /\ starts < MaxStarts
  /\ overlapped' = (OthersMove(d) \/ (overlapped /\ \E e \in Daemons : Alive(e)))
  /\ proc' = [proc EXCEPT ![d] = [stage |-> "check", flags |-> opts, loaded |-> 0,
                                  zapped |-> NoDaemon]]
  /\ starts' = starts + 1
  /\ UNCHANGED <<files, names>>

\* pidfile_get() and what main() makes of it.  A stale pidfile names a
\* process that is gone.
OldDaemon == IF pidfile \in Daemons THEN pidfile ELSE NoDaemon
MutantPidfileGet(d) ==
  /\ proc[d].stage = "check" /\ Goto(d, "clean")
  /\ UNCHANGED <<files, names, counts>>
PidfileGet(d) ==
  /\ proc[d].stage = "check"
  /\ IF "z" \in proc[d].flags THEN proc' = [proc EXCEPT ![d].stage = "zap", ![d].zapped = OldDaemon]
     ELSE Goto(d, IF OldDaemon # NoDaemon THEN "off" ELSE "clean")
  /\ UNCHANGED <<files, names, counts>>

\* A name once its process d is dead (process numbers are not used again).
Left(name, d) == IF name = d THEN Stale ELSE name

\* pidfile_zapold(): SIGTERM.  A daemon that has set its handlers leaves the
\* event loop; before that the signal kills it where it stands.
ZapKill(d) ==
  /\ proc[d].stage = "zap"
  /\ LET e == proc[d].zapped
         sent == [proc EXCEPT ![d].stage = "zapwait"]
     IN IF e = NoDaemon \/ ~Alive(e) THEN proc' = sent /\ UNCHANGED names
        ELSE IF proc[e].stage \in {"serving", "finish", "unlink"}
        THEN proc' = [sent EXCEPT ![e].stage = IF @ = "serving" THEN "finish" ELSE @] /\ UNCHANGED names
        ELSE proc' = [sent EXCEPT ![e] = Off] /\ pidfile' = Left(pidfile, e) /\ sockpath' = Left(sockpath, e)
  /\ UNCHANGED <<files, counts>>

\* A second later: the old process is gone and its files are removed, or it
\* is still there and they are left alone.
ZapDone(d) ==
  /\ proc[d].stage = "zapwait"
  /\ Goto(d, "off")
  /\ IF proc[d].zapped = NoDaemon \/ ~Alive(proc[d].zapped)
     THEN pidfile' = Missing /\ sockpath' = Missing
     ELSE UNCHANGED names
  /\ UNCHANGED <<files, counts>>

\* Remove what a dead daemon left; a bad group ends the process here.
Unlink(d) ==
  /\ proc[d].stage = "clean"
  /\ pidfile' = Missing /\ sockpath' = Missing
  /\ \/ Goto(d, "off")
     \/ Goto(d, "spec")
  /\ UNCHANGED <<files, counts>>

\* dbspec_main_config()
DbspecMain(d) ==
  /\ proc[d].stage = "spec"
  /\ \E s \in {"finish", "reload"} : Goto(d, s)
  /\ UNCHANGED <<files, names, counts>>

\* -r: keep running in candidate.  Without a running database it is void.
ReloadRunning(d) ==
  /\ proc[d].stage = "reload"
  /\ IF "r" \in proc[d].flags /\ running # Missing
     THEN \/ candidate' = running /\ Goto(d, "init")
          \/ candidate' \in CopyFails(running, candidate) /\ Goto(d, "finish")
     ELSE proc' = [proc EXCEPT ![d].stage = "init", ![d].flags = @ \ {"r"}] /\ UNCHANGED candidate
  /\ UNCHANGED <<running, startup, archive, committed, system, names, counts>>

\* -I, or no running database: rundb_init().
MutantRundbInit(d) ==
  /\ proc[d].stage = "init"
  /\ IF "I" \in proc[d].flags \/ ~Good(running)
     THEN \/ running' = {} /\ Goto(d, "load")
          \/ running' \in {running, Missing} /\ Goto(d, "finish")
     ELSE Goto(d, "load") /\ UNCHANGED running
  /\ UNCHANGED <<counts, candidate, startup, archive, committed, system, names>>
RundbInit(d) ==
  /\ proc[d].stage = "init"
  /\ IF "I" \in proc[d].flags \/ running = Missing
     THEN \/ running' = {} /\ Goto(d, "load")
          \/ running' \in {running, Missing} /\ Goto(d, "finish")
     ELSE Goto(d, "load") /\ UNCHANGED running
  /\ UNCHANGED <<counts, candidate, startup, archive, committed, system, names>>

\* plugin_load() and plugin_append() of the next plugin.  plugin_init may
\* fail; the plugins before it stay in the list.
PluginLoad(d) ==
  /\ proc[d].stage = "load"
  /\ \/ /\ proc[d].loaded < Len(PluginOrder)
        /\ proc' = [proc EXCEPT ![d].loaded = @ + 1]
     \/ proc[d].loaded < Len(PluginOrder) /\ Goto(d, "finish")
     \/ proc[d].loaded = Len(PluginOrder) /\ Goto(d, "reset")
  /\ UNCHANGED <<files, names, counts>>

\* plugin_reset() of the first n plugins: each brings its part of a database
\* in step with the system.
Reset(db, n) ==
  LET mine == {PluginOrder[i] : i \in 1..n} IN (db \ mine) \cup (system \cap mine)

\* -C: reset a copy of running and commit it; -R: reset running itself.
ResetState(d) ==
  /\ proc[d].stage = "reset"
  /\ \/ /\ "C" \in proc[d].flags
        /\ \/ Goto(d, "finish") /\ UNCHANGED <<running, system>>
           \/ /\ Good(running)
              /\ \E o \in CommitOutcomes(Reset(running, proc[d].loaded)) :
                    /\ Goto(d, IF o[1] THEN "finish" ELSE "hooks")
                    /\ running' = o[2] /\ system' = o[3]
     \/ /\ "C" \notin proc[d].flags /\ "R" \in proc[d].flags
        /\ \/ Good(running) /\ running' = Reset(running, proc[d].loaded) /\ Goto(d, "hooks")
           \/ /\ \E n \in 0..(proc[d].loaded - 1) : running' = IF Good(running) THEN Reset(running, n) ELSE running
              /\ Goto(d, "finish")
        /\ UNCHANGED system
     \/ proc[d].flags \cap {"C", "R"} = {} /\ Goto(d, "hooks") /\ UNCHANGED <<running, system>>
  /\ UNCHANGED <<counts, candidate, startup, archive, committed, names>>

\* plugin_start_hooks(): the first failure ends the start.
StartHooks(d) ==
  /\ proc[d].stage = "hooks"
  /\ \/ Goto(d, "commit")
     \/ proc[d].loaded > 0 /\ Goto(d, "finish")
  /\ UNCHANGED <<files, names, counts>>

\* -r: commit what was kept in candidate.
ReloadCommit(d) ==
  /\ proc[d].stage = "commit"
  /\ IF "r" \in proc[d].flags
     THEN \E o \in CommitOutcomes(candidate) :
            /\ Goto(d, IF o[1] THEN "finish" ELSE "config")
            /\ running' = o[2] /\ system' = o[3]
     ELSE Goto(d, "config") /\ UNCHANGED <<running, system>>
  /\ UNCHANGED <<counts, candidate, startup, archive, committed, names>>

\* -c: rundb_main(): the file is added to a copy of running and committed.
RundbMain(d) ==
  /\ proc[d].stage = "config"
  /\ \/ "c" \notin proc[d].flags /\ Goto(d, "share") /\ UNCHANGED <<running, system>>
     \/ "c" \in proc[d].flags /\ Goto(d, "finish") /\ UNCHANGED <<running, system>>
     \/ /\ "c" \in proc[d].flags /\ Good(running) /\ startup \notin {Missing, Cut}
        /\ \E o \in CommitOutcomes(running \cup committed[startup]) :
             /\ Goto(d, IF o[1] THEN "finish" ELSE "share")
             /\ running' = o[2] /\ system' = o[3]
  /\ UNCHANGED <<counts, candidate, startup, archive, committed, names>>

\* The candidate all sessions share is made from running; -1 ends here.
ShareCandidate(d) ==
  /\ proc[d].stage = "share"
  /\ \/ candidate' = running /\ running # Missing /\ Goto(d, IF "1" \in proc[d].flags THEN "finish" ELSE "daemon")
     \/ candidate' \in CopyFails(running, candidate) /\ Goto(d, "finish")
  /\ UNCHANGED <<counts, running, startup, archive, committed, system, names>>

\* daemon() may fail, which leaves without a word to anybody; otherwise the
\* pidfile is written.
PidfileWrite(d) ==
  /\ proc[d].stage = "daemon"
  /\ \/ Goto(d, "off") /\ UNCHANGED pidfile
     \/ Goto(d, "finish") /\ UNCHANGED pidfile
     \/ Goto(d, "socket") /\ pidfile' = d
  /\ UNCHANGED <<files, sockpath, counts>>

\* The signal handlers are set and config_socket_init() binds the socket,
\* which it removes first if it is there.
ServerSocket(d) ==
  /\ proc[d].stage = "socket"
  /\ \/ sockpath' = d /\ Goto(d, "serving")
     \/ sockpath' \in {sockpath, d, Missing} /\ Goto(d, "finish")
  /\ UNCHANGED <<files, pidfile, counts>>

\* SIGTERM or SIGINT from outside, or an error in the event loop.
LeaveLoop(d) ==
  /\ proc[d].stage = "serving" /\ Goto(d, "finish")
  /\ overlapped' = (overlapped \/ OthersMove(d))
  /\ UNCHANGED <<files, names, starts>>

\* config_terminate(): plugin_finish() tells all plugins in the list to exit,
\* then pidfile and socket are unlinked, whoever they belong to.
Terminate(d) ==
  /\ proc[d].stage = "finish"
  /\ proc' = [proc EXCEPT ![d].stage = "unlink", ![d].loaded = 0]
  /\ pidfile' = Missing
  /\ UNCHANGED <<files, sockpath, counts>>

TerminateSocket(d) ==
  /\ proc[d].stage = "unlink"
  /\ sockpath' = Missing
  /\ Goto(d, "off")
  /\ UNCHANGED <<files, pidfile, counts>>

----------------------------------------------------------------------------
\* config_snapshot(): the entries move up by one, from the top down to k
\* where a rename fails; entry 0 is then written anew.
MutantRotate(a, k) == [i \in DOMAIN a |-> IF i <= k THEN a[i] ELSE a[i - 1]]
Rotate(a, k) ==
  LET kept(i) == i < k \/ (i = SNAPSHOTS_NR - 1 /\ (i = k \/ a[i - 1] = Missing))
  IN [i \in DOMAIN a |-> IF kept(i) THEN a[i] ELSE IF i = k THEN Missing ELSE a[i - 1]]
Snapshots(v) ==
  {<<FALSE, [Rotate(archive, 0) EXCEPT ![0] = v]>>}
  \cup {<<TRUE, Rotate(archive, k)>> : k \in 0..(SNAPSHOTS_NR - 1)}
  \cup {<<TRUE, [Rotate(archive, 0) EXCEPT ![0] = Cut]>>}

\* The copy of entry 0 to the startup file.
Startups(zero) ==
  (IF zero = Missing THEN {} ELSE {<<FALSE, zero>>})
  \cup {<<TRUE, s>> : s \in CopyFails(zero, startup)}

\* from_client_commit(): the commit, then the snapshot, then the startup
\* file; the first error is what the client is told.
ClientCommit(d, c, snapshot, start) ==
  /\ proc[d].stage = "serving" /\ Len(committed) < MaxCommits
  /\ \E o \in CommitOutcomes(c) :
       /\ running' = o[2] /\ system' = o[3]
       /\ candidate' = IF o[1] THEN c ELSE o[2]
       /\ committed' = IF o[1] THEN committed ELSE Append(committed, c)
       /\ \E snap \in IF snapshot /\ ~o[1] THEN Snapshots(Len(committed) + 1) ELSE {<<o[1], archive>>} :
            /\ archive' = snap[2]
            /\ \E st \in IF start /\ ~snap[1] THEN Startups(snap[2][0]) ELSE {<<snap[1], startup>>} :
                 startup' = st[2]
  /\ UNCHANGED <<proc, names, counts>>

\* The process dies.  A database that it was writing is cut; what it does to
\* archive and startup file is what an error of that step does to them.
Crash(d) ==
  /\ Alive(d) /\ Goto(d, "off")
  /\ \/ UNCHANGED <<running, candidate>>
     \/ /\ proc[d].stage \in {"reset", "commit", "config", "serving"} /\ running # Missing
        /\ running' = Cut /\ UNCHANGED candidate
     \/ /\ proc[d].stage \in {"reload", "share", "serving"} /\ running # Missing
        /\ candidate' = Cut /\ UNCHANGED running
  /\ pidfile' = Left(pidfile, d) /\ sockpath' = Left(sockpath, d)
  /\ UNCHANGED <<counts, startup, archive, committed, system>>

LifeStep(d) ==
  \/ PidfileGet(d) \/ ZapKill(d) \/ ZapDone(d) \/ Unlink(d) \/ DbspecMain(d)
  \/ ReloadRunning(d) \/ RundbInit(d) \/ PluginLoad(d) \/ ResetState(d) \/ StartHooks(d)
  \/ ReloadCommit(d) \/ RundbMain(d) \/ ShareCandidate(d) \/ PidfileWrite(d)
  \/ ServerSocket(d) \/ Terminate(d) \/ TerminateSocket(d)

LifeNext ==
  \E d \in Daemons :
    \/ \E opts \in OptionSets : Exec(d, opts)
    \/ LifeStep(d)
    \/ LeaveLoop(d)
    \/ \E c \in Edits, snapshot, start \in BOOLEAN : ClientCommit(d, c, snapshot, start)
    \/ Crash(d)

LifeSpec == LifeInit /\ [][LifeNext]_lifeVars

----------------------------------------------------------------------------
(***************************************************************************)
(* The daemon that serves is the one that pidfile and socket lead to; so   *)
(* there is one at most, -z finds it and clients reach it, whatever        *)
(* crashed or failed before.  A start that overlaps with another start or  *)
(* with an end may break this (NoOldProcess), and a start when all         *)
(* processes are gone restores it, whatever they left behind.              *)
(***************************************************************************)
ServerReachable ==
  ~overlapped => \A d \in Daemons : proc[d].stage = "serving" => pidfile = d /\ sockpath = d

(***************************************************************************)
(* What the comment at config_main.c:515 says of a start that is past its  *)
(* look at the pidfile: "Here there is either no old process or we have    *)
(* killed it,..".  What it does next is to remove pidfile and socket.      *)
(***************************************************************************)
NoOldProcess ==
  \A d, e \in Daemons : d # e /\ proc[d].stage = "clean" => proc[e].stage # "serving"

(***************************************************************************)
(* A database cut by a crash stays cut: the starts that follow do not look *)
(* at it, no commit succeeds on it, and only -I makes a new one.           *)
(***************************************************************************)
DamageStays ==
  [][running = Cut => \/ running' = Cut
                      \/ \E d \in Daemons : "I" \in proc[d].flags /\ proc[d].stage = "init"]_lifeVars

(***************************************************************************)
(* The archive is in order: a lower number is a later commit, no commit is *)
(* there twice, even after a rotation that failed half-way.                *)
(***************************************************************************)
ArchiveInOrder ==
  \A i, j \in DOMAIN archive :
    i < j /\ {archive[i], archive[j]} \cap {Missing, Cut} = {} => archive[i] > archive[j]
==============================================================================
